------------------------------ MODULE UartProofs ----------------------------
(***************************************************************************)
(* Proofs about Uart and Gpio, for any set of pins with those of the UART, *)
(* any depth of the FIFOs, any arguments of the kernel's calls and any     *)
(* bounds: pins are as they were asked to be, input is in order, and where *)
(* the kernel leaves the UART's pins alone, output is delivered.           *)
(*                                                                         *)
(* The argument is about the routine that is being executed: what was      *)
(* asked is in force or among the accesses still to do, and no access that *)
(* would cut output off is reached but behind a delay.                     *)
(***************************************************************************)
EXTENDS Uart, SequenceTheorems, TLAPS

-----------------------------------------------------------------------------
(* The routines, written out. *)
Plain(op) == [op |-> op, pin |-> 0, val |-> 0]
Fsel(p, f) == [op |-> "FSEL", pin |-> p, val |-> f]
boot == uart_init \o delay_ms

LEMMA FselCode ==
    ASSUME NEW p, NEW f
    PROVE  \/ gpio_set_function(p, f) = <<>>
           \/ /\ p \in 0 .. 53 /\ f \in 0 .. 7
              /\ gpio_set_function(p, f) = <<Fsel(p, f)>>
BY DEF gpio_set_function, Access, Fsel, gpio_is_valid_pin, gpio_is_valid_function,
       GPIO_PINS, GPIO_FUNC_INPUT, GPIO_FUNC_ALT3

LEMMA InitGpioCode ==
    /\ gpio_set_function(GPIO_TX, GPIO_FUNC_ALT5) = <<Fsel(14, 2)>>
    /\ gpio_set_function(GPIO_RX, GPIO_FUNC_ALT5) = <<Fsel(15, 2)>>
BY DEF gpio_set_function, Access, Fsel, gpio_is_valid_pin, gpio_is_valid_function,
       GPIO_PINS, GPIO_FUNC_INPUT, GPIO_FUNC_ALT3, GPIO_TX, GPIO_RX, GPIO_FUNC_ALT5

LEMMA InitCode ==
    /\ Len(uart_init) = 8
    /\ uart_init[1] = Fsel(14, 2) /\ uart_init[2] = Fsel(15, 2)
    /\ uart_init[3] = Plain("AUXENB") /\ uart_init[4] = Plain("disable_txrx")
    /\ uart_init[5] = Plain("set_baudrate") /\ uart_init[6] = Plain("set_bitmode")
    /\ uart_init[7] = Plain("clear_fifo_queues") /\ uart_init[8] = Plain("enable_txrx")
BY InitGpioCode DEF uart_init, init_gpio, Reg, Access, Plain

LEMMA BootCode ==
    /\ Len(boot) = 9
    /\ boot[1] = Fsel(14, 2) /\ boot[2] = Fsel(15, 2)
    /\ boot[3] = Plain("AUXENB") /\ boot[4] = Plain("disable_txrx")
    /\ boot[5] = Plain("set_baudrate") /\ boot[6] = Plain("set_bitmode")
    /\ boot[7] = Plain("clear_fifo_queues") /\ boot[8] = Plain("enable_txrx")
    /\ boot[9] = Plain("DELAY_MS")
BY InitGpioCode DEF boot, uart_init, init_gpio, delay_ms, Reg, Access, Plain

Ops == {"FSEL", "SET", "CLR", "PUD", "DELAY_US", "PUDCLK", "AUXENB", "disable_txrx",
        "set_baudrate", "set_bitmode", "clear_fifo_queues", "enable_txrx",
        "uart_putc", "uart_getc", "DELAY_MS", "RESET"}
Acc == {a \in [op : Ops, pin : 0 .. 53, val : 0 .. 150] :
          /\ a.op = "FSEL" => a.val \in 0 .. 7
          /\ a.op \in {"SET", "CLR"} => a.val \in {0, 1}}

LEMMA AccTypes ==
    /\ \A op \in Ops : Plain(op) \in Acc
    /\ \A p \in 0 .. 53, f \in 0 .. 7 : Fsel(p, f) \in Acc
<1>1. ASSUME NEW op \in Ops PROVE Plain(op) \in Acc
    BY DEF Plain, Acc, Ops
<1>2. ASSUME NEW p \in 0 .. 53, NEW f \in 0 .. 7 PROVE Fsel(p, f) \in Acc
    BY DEF Fsel, Acc, Ops
<1> QED BY <1>1, <1>2

LEMMA AccFields ==
    ASSUME NEW a \in Acc
    PROVE  /\ a.op \in Ops /\ a.pin \in 0 .. 53 /\ a.val \in 0 .. 150 /\ a.val \in Nat
           /\ a.op = "FSEL" => a.val \in 0 .. 7
           /\ a.op \in {"SET", "CLR"} => a.val \in {0, 1}
<1>1. a \in [op : Ops, pin : 0 .. 53, val : 0 .. 150]
    BY DEF Acc
<1>2. a.val \in 0 .. 150
    BY <1>1
<1> QED BY <1>1, <1>2 DEF Acc

LEMMA DataCode ==
    /\ Len(put_uint) = 4 /\ \A i \in 1 .. 4 : put_uint[i] = Plain("uart_putc")
    /\ Len(get_uint) = 4 /\ \A i \in 1 .. 4 : get_uint[i] = Plain("uart_getc")
    /\ Len(Reg("uart_putc")) = 1 /\ Reg("uart_putc")[1] = Plain("uart_putc")
BY DEF put_uint, get_uint, Reg, Access, Plain

LEMMA AcceptCode ==
    /\ Len(Accept) = 13
    /\ \A i \in 1 .. 4 : Accept[i] = Plain("uart_putc")
    /\ Accept[5] = Plain("DELAY_MS")
    /\ Accept[6] = Fsel(14, 2) /\ Accept[7] = Fsel(15, 2)
    /\ Accept[8] = Plain("AUXENB") /\ Accept[9] = Plain("disable_txrx")
    /\ Accept[10] = Plain("set_baudrate") /\ Accept[11] = Plain("set_bitmode")
    /\ Accept[12] = Plain("clear_fifo_queues") /\ Accept[13] = Plain("enable_txrx")
BY InitGpioCode DEF Accept, put_uint, delay_ms, uart_init, init_gpio, Reg, Access, Plain

LEMMA DieCode ==
    /\ Len(die) = 6
    /\ \A i \in 1 .. 4 : die[i] = Plain("uart_putc")
    /\ die[5] = Plain("DELAY_MS") /\ die[6] = Plain("RESET")
BY DEF die, rpi_reboot, delay_ms, put_uint, Reg, Access, Plain

LEMMA CleanCode ==
    /\ Len(clean_reboot) = 4
    /\ clean_reboot[1] = Plain("uart_putc") /\ clean_reboot[2] = Plain("DELAY_MS")
    /\ clean_reboot[3] = Plain("DELAY_MS") /\ clean_reboot[4] = Plain("RESET")
BY DEF clean_reboot, rpi_reboot, delay_ms, Reg, Access, Plain

LEMMA RoutineTypes ==
    /\ boot \in Seq(Acc) /\ Accept \in Seq(Acc) /\ die \in Seq(Acc)
    /\ clean_reboot \in Seq(Acc) /\ get_uint \in Seq(Acc) /\ put_uint \in Seq(Acc)
    /\ Reg("uart_putc") \in Seq(Acc)
<1>1. Fsel(14, 2) \in Acc /\ Fsel(15, 2) \in Acc
    BY AccTypes
<1>2. \A op \in Ops : Reg(op) \in Seq(Acc)
    <2> TAKE op \in Ops
    <2>1. Reg(op) = <<Plain(op)>>
        BY DEF Reg, Access, Plain
    <2> QED BY AccTypes, <2>1
<1>3. uart_init \in Seq(Acc)
    <2>1. init_gpio = <<Fsel(14, 2)>> \o <<Fsel(15, 2)>>
        BY InitGpioCode DEF init_gpio
    <2>2. init_gpio \in Seq(Acc)
        BY <1>1, <2>1
    <2> QED BY <1>2, <2>2 DEF uart_init, Ops
<1>4. delay_ms \in Seq(Acc) /\ rpi_reboot \in Seq(Acc) /\ put_uint \in Seq(Acc)
    BY <1>2 DEF delay_ms, rpi_reboot, put_uint, Ops
<1> QED
    BY <1>2, <1>3, <1>4 DEF boot, Accept, die, clean_reboot, get_uint, Ops

(* The six accesses of gpio_set_pud. *)
PullStep(p, d, k) ==
    [op |-> CASE k \in {1, 5} -> "PUD" [] k \in {2, 4} -> "DELAY_US" [] OTHER -> "PUDCLK",
     pin |-> p,
     val |-> CASE k = 1 -> d [] k \in {2, 4} -> 150 [] k = 3 -> 1 [] OTHER -> 0]

LEMMA PullCode ==
    ASSUME NEW p, NEW d
    PROVE  \/ gpio_set_pud(p, d) = <<>>
           \/ /\ p \in 0 .. 53 /\ d \in 0 .. 2
              /\ gpio_set_pud(p, d) \in Seq(Acc) /\ Len(gpio_set_pud(p, d)) = 6
              /\ \A k \in 1 .. 6 : gpio_set_pud(p, d)[k] = PullStep(p, d, k)
<1> SUFFICES ASSUME p \in 0 .. 53, d \in 0 .. 2
             PROVE  /\ gpio_set_pud(p, d) \in Seq(Acc) /\ Len(gpio_set_pud(p, d)) = 6
                    /\ \A k \in 1 .. 6 : gpio_set_pud(p, d)[k] = PullStep(p, d, k)
    BY DEF gpio_set_pud, gpio_is_valid_pin, gpio_is_valid_pud, GPIO_PINS,
           GPIO_PUD_DISABLE, GPIO_PUD_PULLUP
<1>1. \A k \in 1 .. 6 : PullStep(p, d, k) \in Acc
    BY DEF PullStep, Acc, Ops
<1>2. gpio_set_pud(p, d) =
         <<PullStep(p, d, 1)>> \o <<PullStep(p, d, 2)>> \o <<PullStep(p, d, 3)>>
           \o <<PullStep(p, d, 4)>> \o <<PullStep(p, d, 5)>> \o <<PullStep(p, d, 6)>>
    BY DEF gpio_set_pud, gpio_is_valid_pin, gpio_is_valid_pud, GPIO_PINS, Access,
           GPIO_PUD_DISABLE, GPIO_PUD_PULLUP, PullStep
<1> HIDE DEF PullStep
<1>3. \A k \in 1 .. 6 : k = 1 \/ k = 2 \/ k = 3 \/ k = 4 \/ k = 5 \/ k = 6
    OBVIOUS
<1> QED BY <1>1, <1>2, <1>3

LEMMA WriteCode ==
    ASSUME NEW p, NEW v \in {0, 1}
    PROVE  \/ gpio_write(p, v) = <<>>
           \/ \E op \in {"SET", "CLR"} :
                /\ p \in 0 .. 53
                /\ gpio_write(p, v) = <<[op |-> op, pin |-> p, val |-> v]>>
BY DEF gpio_write, Access, gpio_is_valid_pin, GPIO_PINS

-----------------------------------------------------------------------------
(* A field of three bits is written without a change of the other nine of
   its register (my-gpio.c, gpio_set_function). *)
Powers == {1, 8, 64, 512, 4096, 32768, 262144, 2097152, 16777216, 134217728}
Field(x, m) == (x \div m) % 8
Write(x, m, v) == x - Field(x, m) * m + v * m

Power(k) ==
    CASE k = 0 -> 1
      [] k = 1 -> 8
      [] k = 2 -> 64
      [] k = 3 -> 512
      [] k = 4 -> 4096
      [] k = 5 -> 32768
      [] k = 6 -> 262144
      [] k = 7 -> 2097152
      [] k = 8 -> 16777216
      [] k = 9 -> 134217728

LEMMA Offset ==
    ASSUME NEW k \in 0 .. 9
    PROVE  8 ^ k = Power(k)
<1>0. CASE k = 0
    BY <1>0, 8 ^ 0 = 1 DEF Power
<1>1. CASE k = 1
    BY <1>1, 8 ^ 1 = 8 DEF Power
<1>2. CASE k = 2
    BY <1>2, 8 ^ 2 = 64 DEF Power
<1>3. CASE k = 3
    BY <1>3, 8 ^ 3 = 512 DEF Power
<1>4. CASE k = 4
    BY <1>4, 8 ^ 4 = 4096 DEF Power
<1>5. CASE k = 5
    BY <1>5, 8 ^ 5 = 32768 DEF Power
<1>6. CASE k = 6
    BY <1>6, 8 ^ 6 = 262144 DEF Power
<1>7. CASE k = 7
    BY <1>7, 8 ^ 7 = 2097152 DEF Power
<1>8. CASE k = 8
    BY <1>8, 8 ^ 8 = 16777216 DEF Power
<1>9. CASE k = 9
    BY <1>9, 8 ^ 9 = 134217728 DEF Power
<1> QED BY <1>0, <1>1, <1>2, <1>3, <1>4, <1>5, <1>6, <1>7, <1>8, <1>9

LEMMA Offsets ==
    ASSUME NEW k \in 0 .. 9, NEW j \in 0 .. 9
    PROVE  Power(k) \in Powers /\ (j # k => Power(j) # Power(k))
BY DEF Power, Powers

LEMMA FieldWritten ==
    ASSUME NEW x \in Nat, NEW v \in 0 .. 7, NEW m \in Powers
    PROVE  Write(x, m, v) \in Nat /\ Field(Write(x, m, v), m) = v
BY SMTT(30) DEF Field, Write, Powers

LEMMA FieldKept ==
    ASSUME NEW x \in Nat, NEW v \in 0 .. 7, NEW m \in Powers, NEW n \in Powers, n # m
    PROVE  Field(Write(x, m, v), n) = Field(x, n)
<1>1. CASE m = 1
    BY <1>1, SMTT(30) DEF Field, Write, Powers
<1>2. CASE m = 8
    <2>1. CASE n = 1
        BY <1>2, <2>1, SMTT(30) DEF Field, Write
    <2>2. CASE n \in {64, 512, 4096, 32768}
        BY <1>2, <2>2, SMTT(30) DEF Field, Write
    <2>3. CASE n \in {262144, 2097152, 16777216, 134217728}
        BY <1>2, <2>3, SMTT(30) DEF Field, Write
    <2> QED BY <1>2, <2>1, <2>2, <2>3 DEF Powers
<1>3. CASE m = 64
    <2>1. CASE n \in {1, 8}
        BY <1>3, <2>1, SMTT(30) DEF Field, Write
    <2>2. CASE n \in {512, 4096, 32768}
        BY <1>3, <2>2, SMTT(30) DEF Field, Write
    <2>3. CASE n \in {262144, 2097152, 16777216, 134217728}
        BY <1>3, <2>3, SMTT(30) DEF Field, Write
    <2> QED BY <1>3, <2>1, <2>2, <2>3 DEF Powers
<1>4. CASE m = 512
    BY <1>4, SMTT(30) DEF Field, Write, Powers
<1>5. CASE m = 4096
    BY <1>5, SMTT(30) DEF Field, Write, Powers
<1>6. CASE m = 32768
    BY <1>6, SMTT(30) DEF Field, Write, Powers
<1>7. CASE m = 262144
    <2>1. CASE n > m
        BY <1>7, <2>1, SMTT(30) DEF Field, Write, Powers
    <2>2. CASE n \in {1, 8}
        BY <1>7, <2>2, SMTT(30) DEF Field, Write
    <2>3. CASE n \in {64, 512}
        BY <1>7, <2>3, SMTT(30) DEF Field, Write
    <2>4. CASE n \in {4096, 32768}
        BY <1>7, <2>4, SMTT(30) DEF Field, Write
    <2> QED BY <1>7, <2>1, <2>2, <2>3, <2>4 DEF Powers
<1>8. CASE m = 2097152
    <2>1. CASE n > m
        BY <1>8, <2>1, SMTT(30) DEF Field, Write, Powers
    <2>2. CASE n \in {1, 8}
        BY <1>8, <2>2, SMTT(30) DEF Field, Write
    <2>3. CASE n \in {64, 512}
        BY <1>8, <2>3, SMTT(30) DEF Field, Write
    <2>4. CASE n \in {4096, 32768}
        BY <1>8, <2>4, SMTT(30) DEF Field, Write
    <2>5. CASE n \in {262144}
        BY <1>8, <2>5, SMTT(30) DEF Field, Write
    <2> QED BY <1>8, <2>1, <2>2, <2>3, <2>4, <2>5 DEF Powers
<1>9. CASE m = 16777216
    <2>1. CASE n > m
        BY <1>9, <2>1, SMTT(30) DEF Field, Write, Powers
    <2>2. CASE n \in {1, 8}
        BY <1>9, <2>2, SMTT(30) DEF Field, Write
    <2>3. CASE n \in {64, 512}
        BY <1>9, <2>3, SMTT(30) DEF Field, Write
    <2>4. CASE n \in {4096, 32768}
        BY <1>9, <2>4, SMTT(30) DEF Field, Write
    <2>5. CASE n \in {262144, 2097152}
        BY <1>9, <2>5, SMTT(30) DEF Field, Write
    <2> QED BY <1>9, <2>1, <2>2, <2>3, <2>4, <2>5 DEF Powers
<1>10. CASE m = 134217728
    <2>1. CASE n > m
        BY <1>10, <2>1, SMTT(30) DEF Field, Write, Powers
    <2>2. CASE n \in {1, 8}
        BY <1>10, <2>2, SMTT(30) DEF Field, Write
    <2>3. CASE n \in {64, 512}
        BY <1>10, <2>3, SMTT(30) DEF Field, Write
    <2>4. CASE n \in {4096, 32768}
        BY <1>10, <2>4, SMTT(30) DEF Field, Write
    <2>5. CASE n \in {262144, 2097152}
        BY <1>10, <2>5, SMTT(30) DEF Field, Write
    <2>6. CASE n \in {16777216}
        BY <1>10, <2>6, SMTT(30) DEF Field, Write
    <2> QED BY <1>10, <2>1, <2>2, <2>3, <2>4, <2>5, <2>6 DEF Powers
<1> QED BY <1>1, <1>2, <1>3, <1>4, <1>5, <1>6, <1>7, <1>8, <1>9, <1>10 DEF Powers

LEMMA FselEffect ==
    ASSUME NEW a, a.pin \in 0 .. 53, a.val \in 0 .. 7, fsel \in [0 .. 5 -> Nat], PutFsel(a)
    PROVE  /\ fsel' \in [0 .. 5 -> Nat]
           /\ gpio_get_function(a.pin)' = a.val
           /\ \A p \in 0 .. 53 \ {a.pin} : gpio_get_function(p)' = gpio_get_function(p)
<1> DEFINE reg == a.pin \div 10
<1> DEFINE k == a.pin % 10
<1>1. reg \in 0 .. 5 /\ k \in 0 .. 9 /\ \A p \in 0 .. 53 : p \div 10 \in 0 .. 5 /\ p % 10 \in 0 .. 9
    OBVIOUS
<1>2. \A p \in 0 .. 53 : gpio_get_function(p) = Field(fsel[p \div 10], Power(p % 10))
    BY <1>1, Offset DEF gpio_get_function, gpio_pin_to_fsel_reg, gpio_pin_to_fsel_offset, Field
<1>3. \A p \in 0 .. 53 : gpio_get_function(p)' = Field(fsel'[p \div 10], Power(p % 10))
    BY <1>1, Offset DEF gpio_get_function, gpio_pin_to_fsel_reg, gpio_pin_to_fsel_offset, Field
<1>4. fsel' = [fsel EXCEPT ![reg] = Write(fsel[reg], Power(k), a.val)]
    BY <1>1, <1>2, Offset
       DEF PutFsel, gpio_pin_to_fsel_reg, gpio_pin_to_fsel_offset, Write, Field
<1>5. fsel[reg] \in Nat /\ Power(k) \in Powers
    BY <1>1, Offsets
<1>6. Write(fsel[reg], Power(k), a.val) \in Nat
    BY <1>5, FieldWritten
<1>7. fsel' \in [0 .. 5 -> Nat]
    BY <1>4, <1>6
<1>8. gpio_get_function(a.pin)' = a.val
    BY <1>1, <1>3, <1>4, <1>5, FieldWritten
<1>9. ASSUME NEW p \in 0 .. 53 \ {a.pin}
      PROVE  gpio_get_function(p)' = gpio_get_function(p)
    <2>1. CASE p \div 10 # reg
        BY <2>1, <1>1, <1>2, <1>3, <1>4
    <2>2. CASE p \div 10 = reg
        <3>1. p % 10 # k
            BY <2>2
        <3>2. Power(p % 10) \in Powers /\ Power(p % 10) # Power(k)
            BY <3>1, <1>1, Offsets
        <3>3. Field(Write(fsel[reg], Power(k), a.val), Power(p % 10)) = Field(fsel[reg], Power(p % 10))
            BY <3>2, <1>5, FieldKept
        <3> QED BY <3>3, <2>2, <1>1, <1>2, <1>3, <1>4
    <2> QED BY <2>1, <2>2
<1> QED BY <1>7, <1>8, <1>9

LEMMA NoFunction ==
    ASSUME \A reg \in 0 .. 5 : fsel'[reg] = 0, NEW p \in 0 .. 53
    PROVE  gpio_get_function(p)' = 0
<1>1. p \div 10 \in 0 .. 5 /\ p % 10 \in 0 .. 9
    OBVIOUS
<1>2. gpio_get_function(p)' = Field(0, Power(p % 10))
    BY <1>1, Offset DEF gpio_get_function, gpio_pin_to_fsel_reg, gpio_pin_to_fsel_offset, Field
<1>3. Power(p % 10) \in Powers
    BY <1>1, Offsets
<1>4. \A m \in Powers : Field(0, m) = 0
    BY DEF Field, Powers
<1> QED BY <1>2, <1>3, <1>4

LEMMA WordBit ==
    ASSUME NEW p \in 0 .. 53
    PROVE  gpio_pin_to_param_reg(p) \in {0, 1} /\ Bit(p) \in 0 .. 31
BY DEF gpio_pin_to_param_reg, Bit

LEMMA SameWordBit ==
    ASSUME NEW p \in 0 .. 53, NEW q \in 0 .. 53,
           gpio_pin_to_param_reg(p) = gpio_pin_to_param_reg(q), Bit(p) = Bit(q)
    PROVE  p = q
BY DEF gpio_pin_to_param_reg, Bit

(* An output shows its latch, though GPLEV has 32 pins. *)
LEMMA ReadLevel ==
    ASSUME NEW p \in Pin, gpio_get_function(p) = GPIO_FUNC_OUTPUT, latch[p] \in {0, 1}
    PROVE  gpio_read(p) = latch[p]
<1>1. Level(p) = latch[p]
    BY DEF Level, GPIO_FUNC_OUTPUT, GPIO_FUNC_INPUT
<1>2. Bit(p) \in GPLEV(gpio_pin_to_param_reg(p)) <=> Level(p) = 1
    BY SameWordBit, PinAssumption DEF GPLEV
<1> QED BY <1>1, <1>2 DEF gpio_read

-----------------------------------------------------------------------------
(* The inductive invariant, in parts.  What a program has asked for is in
   force, or the access that brings it about is still to come. *)
Pending(op) == \E i \in DOMAIN todo : todo[i].op = op
Setters == {"set_baudrate", "set_bitmode"}
Cut == {"disable_txrx", "clear_fifo_queues", "RESET"}

Wanted == [fn : 0 .. 7, pull : 0 .. 2, out : {0, 1}]
UartTypeOK ==
    /\ fsel \in [0 .. 5 -> Nat] /\ latch \in [Pin -> {0, 1}] /\ pud \in Nat
    /\ pudclk \in [{0, 1} -> SUBSET (0 .. 31)] /\ pull \in [Pin -> Nat]
    /\ aux \in BOOLEAN /\ cntl \in SUBSET {"TX", "RX"} /\ format \in SUBSET {"8", "115200"}
    /\ tx \in Seq(Nat) /\ rx \in Seq(Nat) /\ sent \in Seq(Nat) /\ got \in Seq(Nat)
    /\ arrived \in Nat /\ put \in Nat /\ calls \in Nat
    /\ pc \in {"boot", "kernel"} /\ todo \in Seq(Acc)
    /\ asked \in [Pin -> Wanted]

Order(s) ==
    /\ \A i, j \in DOMAIN s :
          /\ i < j /\ s[j].op = "uart_putc" => s[i].op = "uart_putc"
          /\ s[i].op = "uart_getc" => s[j].op # "clear_fifo_queues"
          /\ i < j /\ s[i].op = "clear_fifo_queues"
                => s[j].op \notin Setters \cup {"clear_fifo_queues"}
          /\ i < j /\ s[i].op = "enable_txrx" => s[j].op # "disable_txrx"
          /\ i < j => s[i].op # "RESET"
    /\ \A i \in DOMAIN s :
          /\ s[i].op \in Setters => \E j \in DOMAIN s : i < j /\ s[j].op = "clear_fifo_queues"
          /\ s[i].op = "disable_txrx" => \E j \in DOMAIN s : i < j /\ s[j].op = "enable_txrx"

Setup ==
    /\ aux \/ Pending("AUXENB")
    /\ cntl = {"TX", "RX"} \/ Pending("enable_txrx")
    /\ "115200" \in format \/ Pending("set_baudrate")
    /\ "8" \in format \/ Pending("set_bitmode")

Received ==
    /\ \A i \in DOMAIN got : got[i] \in 1 .. arrived
    /\ \A i, j \in DOMAIN got : i < j => got[i] < got[j]
    /\ ~Pending("clear_fifo_queues") =>
          /\ \A i \in DOMAIN rx : rx[i] \in 1 .. arrived
          /\ \A i, j \in DOMAIN rx : i < j => rx[i] < rx[j]
          /\ \A i \in DOMAIN got, j \in DOMAIN rx : got[i] < rx[j]

FunctionsAsked ==
    /\ \A p \in Pin :
          /\ \/ gpio_get_function(p) = asked[p].fn
             \/ \E i \in DOMAIN todo : todo[i].op = "FSEL" /\ todo[i].pin = p
          /\ \A i \in DOMAIN todo : todo[i].op = "FSEL" /\ todo[i].pin = p
                => todo[i].val = asked[p].fn
    /\ pc = "boot" /\ ~Pending("RESET") =>
          asked[GPIO_TX].fn = GPIO_FUNC_ALT5 /\ asked[GPIO_RX].fn = GPIO_FUNC_ALT5

LatchesAsked ==
    \A p \in Pin :
       /\ \/ latch[p] = asked[p].out
          \/ \E i \in DOMAIN todo : todo[i].op \in {"SET", "CLR"} /\ todo[i].pin = p
       /\ \A i \in DOMAIN todo : todo[i].op \in {"SET", "CLR"} /\ todo[i].pin = p
             => todo[i].val = asked[p].out

PullOps == {"PUD", "PUDCLK", "DELAY_US"}
Idle ==
    /\ \A i \in DOMAIN todo : todo[i].op \notin PullOps
    /\ pudclk[0] = {} /\ pudclk[1] = {}
    /\ \A p \in Pin : pull[p] = asked[p].pull
(* gpio_set_pud is to do its access k next. *)
Pulling(p, d, k) ==
    /\ Len(todo) = 7 - k /\ \A i \in 1 .. 7 - k : todo[i] = PullStep(p, d, i + k - 1)
    /\ k \in 2 .. 5 => pud = d
    /\ \A reg \in {0, 1} :
          pudclk[reg] = IF k \in 4 .. 6 /\ reg = gpio_pin_to_param_reg(p) THEN {Bit(p)} ELSE {}
    /\ \A q \in Pin \ {p} : pull[q] = asked[q].pull
    /\ p \in Pin => asked[p].pull = d /\ (k \in 5 .. 6 => pull[p] = d)
PullsAsked == Idle \/ \E p \in 0 .. 53, d \in 0 .. 2, k \in 1 .. 6 : Pulling(p, d, k)

(* The kernel calls no gpio function about the UART's own pins.  (A call that
   gives one of them another function disconnects it, by intent.) *)
UartPinsKept == CallPin \cap {GPIO_TX, GPIO_RX} = {}
Ready ==
    /\ asked[GPIO_TX].fn = GPIO_FUNC_ALT5
    /\ tx # <<>> \/ Pending("uart_putc") => On("TX") /\ Format /\ Connected(GPIO_TX)
Drained ==
    \A j \in DOMAIN todo : todo[j].op \in Cut =>
        \/ tx = <<>> /\ todo[1].op # "uart_putc"
        \/ \E i \in DOMAIN todo : i < j /\ todo[i].op = "DELAY_MS"
Numbers(s, t, n) ==
    /\ Len(s) + Len(t) = n
    /\ \A i \in 1 .. Len(s) : s[i] = i
    /\ \A i \in 1 .. Len(t) : t[i] = Len(s) + i
Numbered == Numbers(sent, tx, put)

-----------------------------------------------------------------------------
(* The order within the routines. *)
LEMMA RoutineOrder ==
    /\ Order(boot) /\ Order(Accept) /\ Order(die) /\ Order(clean_reboot)
    /\ Order(get_uint) /\ Order(put_uint) /\ Order(Reg("uart_putc"))
<1>1. Order(boot)
    BY BootCode DEF Order, Plain, Fsel, Setters
<1>2. Order(Accept)
    BY AcceptCode DEF Order, Plain, Fsel, Setters
<1>3. Order(die) /\ Order(clean_reboot)
    BY DieCode, CleanCode DEF Order, Plain, Setters
<1>4. Order(get_uint) /\ Order(put_uint) /\ Order(Reg("uart_putc"))
    BY DataCode DEF Order, Plain, Setters
<1> QED BY <1>1, <1>2, <1>3, <1>4

(* What remains after an access keeps the order. *)
LEMMA Rest ==
    ASSUME NEW s \in Seq(Acc), s # <<>>
    PROVE  /\ Tail(s) \in Seq(Acc) /\ Len(s) \in Nat \ {0} /\ Len(Tail(s)) = Len(s) - 1
           /\ Head(s) = s[1] /\ s[1] \in Acc
           /\ \A i \in 1 .. Len(s) - 1 : Tail(s)[i] = s[i + 1]
           /\ DOMAIN s = 1 .. Len(s) /\ DOMAIN Tail(s) = 1 .. Len(s) - 1
OBVIOUS

LEMMA OrderKept ==
    ASSUME NEW s \in Seq(Acc), s # <<>>, Order(s)
    PROVE  Order(Tail(s))
<1>1. ASSUME NEW i \in DOMAIN Tail(s)
      PROVE  i + 1 \in DOMAIN s /\ Tail(s)[i] = s[i + 1]
    BY Rest
<1>2. ASSUME NEW i \in DOMAIN Tail(s), NEW j \in DOMAIN s, i + 1 < j
      PROVE  j - 1 \in DOMAIN Tail(s) /\ i < j - 1 /\ Tail(s)[j - 1] = s[j]
    BY <1>2, Rest
<1>3. DOMAIN Tail(s) \subseteq Nat /\ DOMAIN s \subseteq Nat
    BY Rest
<1>4. ASSUME NEW i \in DOMAIN Tail(s), NEW j \in DOMAIN Tail(s)
      PROVE  /\ i < j /\ Tail(s)[j].op = "uart_putc" => Tail(s)[i].op = "uart_putc"
             /\ Tail(s)[i].op = "uart_getc" => Tail(s)[j].op # "clear_fifo_queues"
             /\ i < j /\ Tail(s)[i].op = "clear_fifo_queues"
                   => Tail(s)[j].op \notin Setters \cup {"clear_fifo_queues"}
             /\ i < j /\ Tail(s)[i].op = "enable_txrx" => Tail(s)[j].op # "disable_txrx"
             /\ i < j => Tail(s)[i].op # "RESET"
    <2>1. i < j => i + 1 < j + 1
        BY <1>3
    <2> QED BY <1>1, <2>1 DEF Order
<1>5. ASSUME NEW i \in DOMAIN Tail(s)
      PROVE  /\ Tail(s)[i].op \in Setters =>
                   \E j \in DOMAIN Tail(s) : i < j /\ Tail(s)[j].op = "clear_fifo_queues"
             /\ Tail(s)[i].op = "disable_txrx" =>
                   \E j \in DOMAIN Tail(s) : i < j /\ Tail(s)[j].op = "enable_txrx"
    BY <1>1, <1>2 DEF Order
<1> QED BY <1>4, <1>5 DEF Order

(* What a call of the programs leaves to be done. *)
Programs == {get_uint, put_uint, die, Accept, Reg("uart_putc"), clean_reboot}
LEMMA Called ==
    ASSUME UartAssumption, UartTypeOK, notmain \/ kernel
    PROVE  /\ todo = <<>> /\ UNCHANGED <<gpio, uart, line, put, got>>
           /\ calls' \in Nat /\ pc' \in {"boot", "kernel"}
           /\ \/ todo' \in Programs /\ UNCHANGED asked
              \/ \E p \in Nat, f \in Nat :
                    todo' = gpio_set_function(p, f) /\ Ask(p, "fn", f) /\ p \in CallPin
              \/ \E p \in Nat, d \in Nat :
                    todo' = gpio_set_pud(p, d) /\ Ask(p, "pull", d) /\ p \in CallPin
              \/ \E p \in Nat, v \in {0, 1} :
                    todo' = gpio_write(p, v) /\ Ask(p, "out", v) /\ p \in CallPin
<1>1. CASE notmain
    BY <1>1 DEF notmain, Programs, UartTypeOK
<1>2. CASE kernel
    <2>1. todo = <<>> /\ UNCHANGED <<gpio, uart, line, put, got>>
        BY <1>2 DEF kernel
    <2>2. CASE UNCHANGED <<calls, asked>> /\ pc' \in {"boot", "kernel"} /\ todo' \in Programs
        BY <2>1, <2>2 DEF UartTypeOK
    <2>3. ASSUME calls' = calls + 1, pc' = "kernel", NEW p \in CallPin, NEW v \in CallVal,
                 \/ todo' = gpio_set_function(p, v) /\ Ask(p, "fn", v)
                 \/ todo' = gpio_set_pud(p, v) /\ Ask(p, "pull", v)
                 \/ todo' = gpio_write(p, v % 2) /\ Ask(p, "out", v % 2)
          PROVE  /\ calls' \in Nat /\ pc' \in {"boot", "kernel"}
                 /\ \/ \E q \in Nat, f \in Nat :
                          todo' = gpio_set_function(q, f) /\ Ask(q, "fn", f) /\ q \in CallPin
                    \/ \E q \in Nat, d \in Nat :
                          todo' = gpio_set_pud(q, d) /\ Ask(q, "pull", d) /\ q \in CallPin
                    \/ \E q \in Nat, w \in {0, 1} :
                          todo' = gpio_write(q, w) /\ Ask(q, "out", w) /\ q \in CallPin
        <3>1. p \in Nat /\ v \in Nat /\ v % 2 \in {0, 1}
            BY DEF UartAssumption
        <3>2. calls' \in Nat /\ pc' \in {"boot", "kernel"}
            BY <2>3 DEF UartTypeOK
        <3>3. CASE todo' = gpio_set_function(p, v) /\ Ask(p, "fn", v)
            BY <3>1, <3>2, <3>3
        <3>4. CASE todo' = gpio_set_pud(p, v) /\ Ask(p, "pull", v)
            BY <3>1, <3>2, <3>4
        <3>5. CASE todo' = gpio_write(p, v % 2) /\ Ask(p, "out", v % 2)
            BY <3>1, <3>2, <3>5
        <3> QED BY <2>3, <3>3, <3>4, <3>5
    <2> QED BY <1>2, <2>1, <2>2, <2>3 DEF kernel, Programs
<1> QED BY <1>1, <1>2

LEMMA AskedFn ==
    ASSUME asked \in [Pin -> Wanted], NEW p, NEW f,
           todo' = gpio_set_function(p, f), Ask(p, "fn", f)
    PROVE  /\ asked' \in [Pin -> Wanted]
           /\ \A q \in Pin : /\ asked'[q].pull = asked[q].pull /\ asked'[q].out = asked[q].out
                            /\ asked'[q].fn = IF todo' # <<>> /\ q = p THEN f ELSE asked[q].fn
<1>1. CASE todo' = <<>>
    BY <1>1 DEF Ask
<1>2. CASE todo' # <<>>
    <2>1. f \in 0 .. 7
        BY <1>2, FselCode
    <2>2. asked' = [asked EXCEPT ![p] = [@ EXCEPT !.fn = f]]
        BY <1>2 DEF Ask
    <2> QED BY <1>2, <2>1, <2>2 DEF Wanted
<1> QED BY <1>1, <1>2

LEMMA AskedPull ==
    ASSUME asked \in [Pin -> Wanted], NEW p, NEW d,
           todo' = gpio_set_pud(p, d), Ask(p, "pull", d)
    PROVE  /\ asked' \in [Pin -> Wanted]
           /\ \A q \in Pin : /\ asked'[q].fn = asked[q].fn /\ asked'[q].out = asked[q].out
                            /\ asked'[q].pull = IF todo' # <<>> /\ q = p THEN d ELSE asked[q].pull
<1>1. CASE todo' = <<>>
    BY <1>1 DEF Ask
<1>2. CASE todo' # <<>>
    <2>1. d \in 0 .. 2
        BY <1>2, PullCode
    <2>2. asked' = [asked EXCEPT ![p] = [@ EXCEPT !.pull = d]]
        BY <1>2 DEF Ask
    <2> QED BY <1>2, <2>1, <2>2 DEF Wanted
<1> QED BY <1>1, <1>2

LEMMA AskedOut ==
    ASSUME asked \in [Pin -> Wanted], NEW p, NEW v \in {0, 1},
           todo' = gpio_write(p, v), Ask(p, "out", v)
    PROVE  /\ asked' \in [Pin -> Wanted]
           /\ \A q \in Pin : /\ asked'[q].fn = asked[q].fn /\ asked'[q].pull = asked[q].pull
                            /\ asked'[q].out = IF todo' # <<>> /\ q = p THEN v ELSE asked[q].out
<1>1. CASE todo' = <<>>
    BY <1>1 DEF Ask
<1>2. CASE todo' # <<>>
    <2>2. asked' = [asked EXCEPT ![p] = [@ EXCEPT !.out = v]]
        BY <1>2 DEF Ask
    <2> QED BY <1>2, <2>2 DEF Wanted
<1> QED BY <1>1, <1>2

-----------------------------------------------------------------------------
(* Types and order. *)
LEMMA SmallOrder ==
    /\ Order(<<>>)
    /\ \A a : a.op \in {"FSEL", "SET", "CLR"} => Order(<<a>>)
    /\ \A s : DOMAIN s = 1 .. 6 /\ (\A i \in 1 .. 6 : s[i].op \in PullOps) => Order(s)
<1>1. Order(<<>>)
    BY DEF Order
<1>2. ASSUME NEW a, a.op \in {"FSEL", "SET", "CLR"} PROVE Order(<<a>>)
    BY <1>2 DEF Order, Setters
<1>3. ASSUME NEW s, DOMAIN s = 1 .. 6, \A i \in 1 .. 6 : s[i].op \in PullOps PROVE Order(s)
    BY <1>3 DEF Order, Setters, PullOps
<1> QED BY <1>1, <1>2, <1>3

LEMMA GpioCallStep ==
    /\ \A p, f : gpio_set_function(p, f) \in Seq(Acc) /\ Order(gpio_set_function(p, f))
    /\ \A p, d : gpio_set_pud(p, d) \in Seq(Acc) /\ Order(gpio_set_pud(p, d))
    /\ \A p : \A v \in {0, 1} : gpio_write(p, v) \in Seq(Acc) /\ Order(gpio_write(p, v))
<1>1. ASSUME NEW p, NEW f
      PROVE  gpio_set_function(p, f) \in Seq(Acc) /\ Order(gpio_set_function(p, f))
    <2>1. CASE gpio_set_function(p, f) = <<>>
        BY <2>1, SmallOrder
    <2>2. CASE p \in 0 .. 53 /\ f \in 0 .. 7 /\ gpio_set_function(p, f) = <<Fsel(p, f)>>
        <3>1. Fsel(p, f) \in Acc /\ Fsel(p, f).op = "FSEL"
            BY <2>2, AccTypes DEF Fsel
        <3>2. Order(<<Fsel(p, f)>>)
            BY <3>1, SmallOrder
        <3> QED BY <2>2, <3>1, <3>2
    <2> QED BY <2>1, <2>2, FselCode
<1>2. ASSUME NEW p, NEW d
      PROVE  gpio_set_pud(p, d) \in Seq(Acc) /\ Order(gpio_set_pud(p, d))
    <2>1. CASE gpio_set_pud(p, d) = <<>>
        BY <2>1, SmallOrder
    <2>2. CASE gpio_set_pud(p, d) # <<>>
        <3>1. /\ gpio_set_pud(p, d) \in Seq(Acc) /\ DOMAIN gpio_set_pud(p, d) = 1 .. 6
              /\ \A k \in 1 .. 6 : gpio_set_pud(p, d)[k] = PullStep(p, d, k)
            BY <2>2, PullCode
        <3>2. \A k \in 1 .. 6 : PullStep(p, d, k).op \in PullOps
            BY DEF PullStep, PullOps
        <3>3. Order(gpio_set_pud(p, d))
            BY <3>1, <3>2, SmallOrder
        <3> QED BY <3>1, <3>3
    <2> QED BY <2>1, <2>2
<1>3. ASSUME NEW p, NEW v \in {0, 1}
      PROVE  gpio_write(p, v) \in Seq(Acc) /\ Order(gpio_write(p, v))
    <2>1. CASE gpio_write(p, v) = <<>>
        BY <2>1, SmallOrder
    <2>2. ASSUME NEW op \in {"SET", "CLR"}, p \in 0 .. 53,
                 gpio_write(p, v) = <<[op |-> op, pin |-> p, val |-> v]>>
          PROVE  gpio_write(p, v) \in Seq(Acc) /\ Order(gpio_write(p, v))
        <3> DEFINE a == [op |-> op, pin |-> p, val |-> v]
        <3>1. a \in [op : Ops, pin : 0 .. 53, val : 0 .. 150] /\ a.op = op /\ a.val = v
            BY <2>2 DEF Ops
        <3>2. a \in Acc
            BY <3>1 DEF Acc
        <3>3. Order(<<a>>)
            BY <3>1, SmallOrder
        <3> HIDE DEF a
        <3>4. gpio_write(p, v) = <<a>>
            BY <2>2 DEF a
        <3> QED BY <3>2, <3>3, <3>4
    <2> QED BY <2>1, <2>2, WriteCode
<1> QED BY <1>1, <1>2, <1>3

LEMMA CallStep ==
    ASSUME UartAssumption, UartTypeOK, notmain \/ kernel
    PROVE  todo' \in Seq(Acc) /\ Order(todo') /\ asked' \in [Pin -> Wanted]
<1>0. asked \in [Pin -> Wanted]
    BY DEF UartTypeOK
<1>1. CASE todo' \in Programs /\ UNCHANGED asked
    <2>1. todo' \in Seq(Acc)
        BY <1>1, RoutineTypes DEF Programs
    <2>2. Order(todo')
        BY <1>1, RoutineOrder DEF Programs
    <2> QED BY <1>0, <1>1, <2>1, <2>2
<1>2. ASSUME NEW p, NEW f, todo' = gpio_set_function(p, f), Ask(p, "fn", f)
      PROVE  todo' \in Seq(Acc) /\ Order(todo') /\ asked' \in [Pin -> Wanted]
    <2>1. asked' \in [Pin -> Wanted]
        BY <1>0, <1>2, AskedFn
    <2> QED BY <1>2, <2>1, GpioCallStep
<1>3. ASSUME NEW p, NEW d, todo' = gpio_set_pud(p, d), Ask(p, "pull", d)
      PROVE  todo' \in Seq(Acc) /\ Order(todo') /\ asked' \in [Pin -> Wanted]
    <2>1. asked' \in [Pin -> Wanted]
        BY <1>0, <1>3, AskedPull
    <2> QED BY <1>3, <2>1, GpioCallStep
<1>4. ASSUME NEW p, NEW v \in {0, 1}, todo' = gpio_write(p, v), Ask(p, "out", v)
      PROVE  todo' \in Seq(Acc) /\ Order(todo') /\ asked' \in [Pin -> Wanted]
    <2>1. asked' \in [Pin -> Wanted]
        BY <1>0, <1>4, AskedOut
    <2> QED BY <1>4, <2>1, GpioCallStep
<1> QED BY Called, <1>1, <1>2, <1>3, <1>4

LEMMA ResetTypes ==
    /\ UartPins(AtReset) \in [Pin -> Wanted]
    /\ \A p \in Pin : /\ UartPins(AtReset)[p].fn = IF p \in {GPIO_TX, GPIO_RX} THEN 2 ELSE 0
                     /\ UartPins(AtReset)[p].pull = ResetPull[p]
                     /\ UartPins(AtReset)[p].out = 0
    /\ \A p \in Pin : ResetPull[p] \in 0 .. 2
    /\ ResetPull = [p \in Pin |-> ResetPull[p]]
<1>1. \A p \in Pin : ResetPull[p] \in 0 .. 2
    BY DEF ResetPull, GPIO_PUD_PULLUP, GPIO_PUD_DISABLE, GPIO_PUD_PULLDOWN
<1>2. ResetPull = [p \in Pin |-> ResetPull[p]]
    BY DEF ResetPull
<1> HIDE DEF ResetPull
<1>3. AtReset \in [Pin -> Wanted]
    BY <1>1 DEF AtReset, Wanted, GPIO_FUNC_INPUT
<1>4. \A p \in Pin : AtReset[p] = [fn |-> 0, pull |-> ResetPull[p], out |-> 0]
    BY DEF AtReset, GPIO_FUNC_INPUT
<1> HIDE DEF AtReset
<1>5. ASSUME NEW p \in Pin
      PROVE  UartPins(AtReset)[p] =
                [fn |-> IF p \in {GPIO_TX, GPIO_RX} THEN 2 ELSE 0, pull |-> ResetPull[p], out |-> 0]
    <2>1. CASE p \in {GPIO_TX, GPIO_RX}
        <3> DEFINE d == ResetPull[p]
        <3> HIDE DEF d
        <3>1. AtReset[p] = [fn |-> 0, pull |-> d, out |-> 0]
            BY <1>4 DEF d
        <3>2. UartPins(AtReset)[p] = [fn |-> 2, pull |-> d, out |-> 0]
            BY <2>1, <3>1 DEF UartPins, GPIO_FUNC_ALT5
        <3>3. UartPins(AtReset)[p] = [fn |-> 2, pull |-> ResetPull[p], out |-> 0]
            BY <3>2 DEF d
        <3> QED BY <2>1, <3>3
    <2>2. CASE p \notin {GPIO_TX, GPIO_RX}
        BY <1>4, <2>2 DEF UartPins
    <2> QED BY <2>1, <2>2
<1>6. UartPins(AtReset) = [p \in Pin |-> UartPins(AtReset)[p]]
    BY DEF UartPins
<1>7. ASSUME NEW p \in Pin PROVE UartPins(AtReset)[p] \in Wanted
    <2>1. ResetPull[p] \in 0 .. 2 /\ (IF p \in {GPIO_TX, GPIO_RX} THEN 2 ELSE 0) \in 0 .. 7
        BY <1>1
    <2> DEFINE f == IF p \in {GPIO_TX, GPIO_RX} THEN 2 ELSE 0
    <2>2. f \in 0 .. 7
        BY <2>1
    <2>3. UartPins(AtReset)[p] = [fn |-> f, pull |-> ResetPull[p], out |-> 0]
        BY <1>5
    <2> HIDE DEF f
    <2> QED BY <2>1, <2>2, <2>3 DEF Wanted
<1>8. UartPins(AtReset) \in [Pin -> Wanted]
    BY <1>6, <1>7
<1> QED BY <1>1, <1>2, <1>5, <1>8

(* The state after a reset, and at power on. *)
AtBoot(ff, ll, dd, cc, pp) ==
    /\ ff = [reg \in 0 .. 5 |-> 0] /\ ll = [p \in Pin |-> 0]
    /\ dd = 0 /\ cc = [reg \in {0, 1} |-> {}] /\ pp = ResetPull
LEMMA GpioAtReset ==
    ASSUME NEW ff, NEW ll, NEW dd, NEW cc, NEW pp, ResetGpio(ff, ll, dd, cc, pp)
    PROVE  /\ ff \in [0 .. 5 -> Nat] /\ ll \in [Pin -> {0, 1}] /\ dd = 0
           /\ cc \in [{0, 1} -> SUBSET (0 .. 31)] /\ pp \in [Pin -> Nat]
           /\ \A reg \in {0, 1} : cc[reg] = {}
           /\ \A p \in Pin : ll[p] = 0 /\ pp[p] = ResetPull[p]
           /\ \A reg \in 0 .. 5 : ff[reg] = 0
<1>1. pp \in [Pin -> 0 .. 2]
    BY ResetTypes DEF ResetGpio
<1> QED BY <1>1 DEF ResetGpio, GPIO_PUD_DISABLE

(* An access taken from the routine. *)
Advance == /\ todo # <<>> /\ todo' = Tail(todo)
LEMMA Advanced ==
    ASSUME UartTypeOK, Order(todo), Advance
    PROVE  /\ todo' \in Seq(Acc) /\ Order(todo') /\ Access1 = todo[1] /\ Access1 \in Acc
           /\ Len(todo) \in Nat \ {0} /\ Len(todo') = Len(todo) - 1
           /\ DOMAIN todo = 1 .. Len(todo) /\ DOMAIN todo' = 1 .. Len(todo) - 1
           /\ \A i \in DOMAIN todo' : todo'[i] = todo[i + 1]
BY Rest, OrderKept DEF UartTypeOK, Advance, Access1

LEMMA GpioTypes ==
    ASSUME UartTypeOK, NEW a \in Acc, DoGpio(a)
    PROVE  /\ fsel' \in [0 .. 5 -> Nat] /\ latch' \in [Pin -> {0, 1}] /\ pud' \in Nat
           /\ pudclk' \in [{0, 1} -> SUBSET (0 .. 31)] /\ pull' \in [Pin -> Nat]
<1> USE DEF UartTypeOK
<1>1. CASE a.op = "FSEL" /\ PutFsel(a)
    <2>1. a.pin \in 0 .. 53 /\ a.val \in 0 .. 7
        BY <1>1 DEF Acc
    <2>2. fsel' \in [0 .. 5 -> Nat]
        BY <1>1, <2>1, FselEffect
    <2>3. UNCHANGED <<latch, pud, pudclk, pull>>
        BY <1>1 DEF PutFsel
    <2> QED BY <2>2, <2>3
<1>2. CASE a.op \in {"SET", "CLR"} /\ PutLatch(a)
    <2>1. a.val \in {0, 1}
        BY <1>2 DEF Acc
    <2>2. latch' \in [Pin -> {0, 1}]
        BY <1>2, <2>1 DEF PutLatch
    <2> QED BY <1>2, <2>2 DEF PutLatch
<1>3. CASE a.op = "PUD" /\ PutPud(a)
    <2>1. a.val \in Nat
        BY AccFields
    <2> QED BY <1>3, <2>1 DEF PutPud
<1>4. CASE a.op = "PUDCLK" /\ PutPudclk(a)
    <2>0. a.pin \in 0 .. 53
        BY DEF Acc
    <2>1. gpio_pin_to_param_reg(a.pin) \in {0, 1} /\ Bit(a.pin) \in 0 .. 31
        BY <2>0, WordBit
    <2> QED BY <1>4, <2>1 DEF PutPudclk
<1>5. CASE a.op = "DELAY_US" /\ DelayUs
    BY <1>5 DEF DelayUs
<1> QED BY <1>1, <1>2, <1>3, <1>4, <1>5 DEF DoGpio

LEMMA TypeStep ==
    ASSUME UartAssumption, UartTypeOK, Order(todo), Next
    PROVE  UartTypeOK' /\ Order(todo')
<1>1. CASE notmain \/ kernel
    BY <1>1, Called, CallStep DEF UartTypeOK, gpio, uart, line
<1>2. CASE Registers
    <2>1. Advance /\ UNCHANGED <<gpio, line, put, got, pc, calls, asked>>
        BY <1>2 DEF Registers, Exec, Advance
    <2>2. /\ aux' \in BOOLEAN /\ cntl' \in SUBSET {"TX", "RX"}
          /\ format' \in SUBSET {"8", "115200"} /\ tx' \in Seq(Nat) /\ rx' \in Seq(Nat)
        <3>1. UNCHANGED <<tx, rx>> \/ (tx' = <<>> /\ rx' = <<>>)
            BY <1>2 DEF Registers, enable_aux, disable_txrx, set_baudrate, set_bitmode,
                        clear_fifo_queues, enable_txrx
        <3>2. UNCHANGED aux \/ aux' = TRUE
            BY <1>2 DEF Registers, enable_aux, disable_txrx, set_baudrate, set_bitmode,
                        clear_fifo_queues, enable_txrx
        <3>3. UNCHANGED cntl \/ cntl' = {} \/ cntl' = {"TX", "RX"}
            BY <1>2 DEF Registers, enable_aux, disable_txrx, set_baudrate, set_bitmode,
                        clear_fifo_queues, enable_txrx
        <3>4. UNCHANGED format \/ format' = format \cup {"115200"} \/ format' = format \cup {"8"}
            BY <1>2 DEF Registers, enable_aux, disable_txrx, set_baudrate, set_bitmode,
                        clear_fifo_queues, enable_txrx
        <3>5. /\ aux \in BOOLEAN /\ cntl \in SUBSET {"TX", "RX"}
              /\ format \in SUBSET {"8", "115200"} /\ tx \in Seq(Nat) /\ rx \in Seq(Nat)
            BY DEF UartTypeOK
        <3>6. cntl' \in SUBSET {"TX", "RX"} /\ format' \in SUBSET {"8", "115200"}
            BY <3>3, <3>4, <3>5
        <3>7. tx' \in Seq(Nat) /\ rx' \in Seq(Nat)
            <4>1. CASE UNCHANGED <<tx, rx>>
                BY <3>5, <4>1
            <4>2. CASE tx' = <<>> /\ rx' = <<>>
                BY <4>2
            <4> QED BY <3>1, <4>1, <4>2
        <3> QED BY <3>2, <3>5, <3>6, <3>7
    <2> QED BY <2>1, <2>2, Advanced DEF UartTypeOK, gpio, line
<1>3. CASE Data
    <2>1. Advance /\ UNCHANGED <<gpio, line, pc, calls, asked, aux, cntl, format>>
        BY <1>3 DEF Data, Exec, Advance, uart_putc, uart_getc
    <2>2. tx' \in Seq(Nat) /\ rx' \in Seq(Nat) /\ put' \in Nat /\ got' \in Seq(Nat)
        <3>1. CASE uart_putc /\ UNCHANGED got
            BY <3>1 DEF uart_putc, UartTypeOK
        <3>2. CASE uart_getc /\ UNCHANGED put
            <4>1. rx \in Seq(Nat) /\ rx # <<>> /\ got \in Seq(Nat)
                BY <3>2 DEF uart_getc, UartTypeOK
            <4>2. Head(rx) \in Nat /\ Tail(rx) \in Seq(Nat)
                BY <4>1
            <4>3. Append(got, Head(rx)) \in Seq(Nat)
                BY <4>1, <4>2
            <4> QED BY <3>2, <4>2, <4>3 DEF uart_getc, UartTypeOK
        <3> QED BY <1>3, <3>1, <3>2 DEF Data
    <2> QED BY <2>1, <2>2, Advanced DEF UartTypeOK, gpio, line
<1>4. CASE GpioAccess
    <2>1. Advance /\ DoGpio(Access1) /\ UNCHANGED <<uart, line, put, got, pc, calls, asked>>
        BY <1>4 DEF GpioAccess, Exec, Advance
    <2> QED BY <2>1, Advanced, GpioTypes DEF UartTypeOK, uart, line
<1>5. CASE DelayMs
    <2>1. Advance /\ UNCHANGED <<gpio, uart, line, put, got, pc, calls, asked>>
        BY <1>5 DEF DelayMs, Exec, Advance
    <2> QED BY <2>1, Advanced DEF UartTypeOK, gpio, uart, line
<1>6. CASE Reset
    <2>1. /\ fsel' \in [0 .. 5 -> Nat] /\ latch' \in [Pin -> {0, 1}] /\ pud' \in Nat
          /\ pudclk' \in [{0, 1} -> SUBSET (0 .. 31)] /\ pull' \in [Pin -> Nat]
        BY <1>6, GpioAtReset DEF Reset
    <2>2. todo' = boot /\ asked' = UartPins(AtReset) /\ UNCHANGED <<line, put, got, calls>>
        BY <1>6 DEF Reset, boot
    <2>3. todo' \in Seq(Acc) /\ Order(todo') /\ asked' \in [Pin -> Wanted]
        BY <2>2, ResetTypes, RoutineTypes, RoutineOrder
    <2>4. /\ aux' \in BOOLEAN /\ cntl' \in SUBSET {"TX", "RX"} /\ pc' \in {"boot", "kernel"}
          /\ format' \in SUBSET {"8", "115200"} /\ tx' \in Seq(Nat) /\ rx' \in Seq(Nat)
        <3>1. /\ aux' = FALSE /\ cntl' = {"TX", "RX"} /\ pc' = "boot" /\ format' = {}
              /\ tx' = <<>> /\ rx' = <<>>
            BY <1>6 DEF Reset
        <3>2. cntl' \in SUBSET {"TX", "RX"} /\ format' \in SUBSET {"8", "115200"}
            BY <3>1
        <3>3. tx' \in Seq(Nat) /\ rx' \in Seq(Nat)
            BY <3>1
        <3>4. aux' \in BOOLEAN
            BY <3>1
        <3> QED BY <3>1, <3>2, <3>3, <3>4
    <2>5. sent' \in Seq(Nat) /\ got' \in Seq(Nat) /\ arrived' \in Nat /\ put' \in Nat /\ calls' \in Nat
        BY <2>2 DEF UartTypeOK, line
    <2> QED BY <2>1, <2>3, <2>4, <2>5 DEF UartTypeOK
<1>7. CASE Transmit
    <2>1. tx' \in Seq(Nat) /\ sent' \in Seq(Nat)
        <3>1. tx # <<>> /\ tx \in Seq(Nat) /\ sent \in Seq(Nat)
            BY <1>7 DEF Transmit, UartTypeOK
        <3>2. Head(tx) \in Nat /\ Tail(tx) \in Seq(Nat)
            BY <3>1
        <3> QED BY <1>7, <3>1, <3>2 DEF Transmit, GARBLED
    <2> QED BY <1>7, <2>1 DEF Transmit, UartTypeOK, gpio, prog
<1>8. CASE Arrive
    <2>1. rx' \in Seq(Nat) /\ arrived' \in Nat
        BY <1>8 DEF Arrive, UartTypeOK, GARBLED
    <2> QED BY <1>8, <2>1 DEF Arrive, UartTypeOK, gpio, prog
<1> QED BY <1>1, <1>2, <1>3, <1>4, <1>5, <1>6, <1>7, <1>8 DEF Next

-----------------------------------------------------------------------------
(* The UART is set up, or is being set up. *)
LEMMA PendingStep ==
    ASSUME UartTypeOK, Order(todo), Advance, NEW op
    PROVE  Pending(op) <=> Access1.op = op \/ Pending(op)'
<1>1. ASSUME Pending(op) PROVE Access1.op = op \/ Pending(op)'
    <2>1. PICK i \in DOMAIN todo : todo[i].op = op
        BY <1>1 DEF Pending
    <2>2. CASE i = 1
        BY <2>1, <2>2, Advanced
    <2>3. CASE i # 1
        <3>1. i - 1 \in DOMAIN todo' /\ todo'[i - 1] = todo[i]
            BY <2>3, Advanced
        <3> QED BY <2>1, <3>1 DEF Pending
    <2> QED BY <2>2, <2>3
<1>2. ASSUME Access1.op = op PROVE Pending(op)
    BY <1>2, Advanced DEF Pending
<1>3. ASSUME Pending(op)' PROVE Pending(op)
    <2>1. PICK i \in DOMAIN todo' : todo'[i].op = op
        BY <1>3 DEF Pending
    <2>2. i + 1 \in DOMAIN todo /\ todo'[i] = todo[i + 1]
        BY Advanced
    <2> QED BY <2>1, <2>2 DEF Pending
<1> QED BY <1>1, <1>2, <1>3

LEMMA HeadOrder ==
    ASSUME UartTypeOK, Order(todo), Advance
    PROVE  /\ Access1.op = "disable_txrx" => Pending("enable_txrx")'
           /\ Access1.op \in Setters => Pending("clear_fifo_queues")'
           /\ Access1.op = "clear_fifo_queues" =>
                 /\ ~Pending("clear_fifo_queues")' /\ \A op \in Setters : ~Pending(op)'
           /\ Access1.op = "uart_getc" => ~Pending("clear_fifo_queues")
           /\ Access1.op # "uart_putc" => ~Pending("uart_putc")'
           /\ Access1.op = "RESET" => todo' = <<>>
<1>1. 1 \in DOMAIN todo /\ Access1 = todo[1] /\ DOMAIN todo \subseteq Nat \ {0}
    BY Advanced
<1>2. ASSUME NEW j \in DOMAIN todo, 1 < j
      PROVE  j - 1 \in DOMAIN todo' /\ todo'[j - 1] = todo[j]
    BY <1>2, Advanced
<1>3. ASSUME NEW i \in DOMAIN todo'
      PROVE  i + 1 \in DOMAIN todo /\ todo'[i] = todo[i + 1] /\ 1 < i + 1
    BY Advanced
<1>4. Access1.op = "disable_txrx" => Pending("enable_txrx")'
    BY <1>1, <1>2 DEF Order, Pending
<1>5. Access1.op \in Setters => Pending("clear_fifo_queues")'
    BY <1>1, <1>2 DEF Order, Pending
<1>6. Access1.op = "clear_fifo_queues" =>
         /\ ~Pending("clear_fifo_queues")' /\ \A op \in Setters : ~Pending(op)'
    BY <1>1, <1>3 DEF Order, Pending
<1>7. Access1.op = "uart_getc" => ~Pending("clear_fifo_queues")
    BY <1>1 DEF Order, Pending
<1>8. Access1.op # "uart_putc" => ~Pending("uart_putc")'
    BY <1>1, <1>3 DEF Order, Pending
<1>9. Access1.op = "RESET" => todo' = <<>>
    <2>1. Access1.op = "RESET" => DOMAIN todo' = {}
        BY <1>1, <1>3 DEF Order
    <2> QED BY <2>1, Advanced
<1> QED BY <1>4, <1>5, <1>6, <1>7, <1>8, <1>9

LEMMA BootPending ==
    ASSUME todo' = boot
    PROVE  \A op \in {"AUXENB", "disable_txrx", "set_baudrate", "set_bitmode",
                     "clear_fifo_queues", "enable_txrx", "DELAY_MS"} : Pending(op)'
<1>1. DOMAIN boot = 1 .. 9
    BY RoutineTypes, BootCode
<1> QED BY <1>1, BootCode DEF Pending, Plain

LEMMA NonePending ==
    ASSUME todo = <<>>, NEW op
    PROVE  ~Pending(op)
BY DEF Pending

(* The access a step executes. *)
LEMMA Executed ==
    ASSUME NEW op, Exec(op)
    PROVE  Advance /\ Access1.op = op /\ UNCHANGED <<pc, calls, asked>>
BY DEF Exec, Advance

GpioOps == {"FSEL", "SET", "CLR"} \cup PullOps
LEMMA GpioExecuted ==
    ASSUME GpioAccess
    PROVE  /\ Advance /\ Access1.op \in GpioOps /\ DoGpio(Access1)
           /\ UNCHANGED <<uart, line, put, got, pc, calls, asked>>
BY DEF GpioAccess, Exec, Advance, DoGpio, GpioOps, PullOps

LEMMA SetupStep ==
    ASSUME UartAssumption, UartTypeOK, Order(todo), Setup, Next
    PROVE  Setup'
<1>1. CASE notmain \/ kernel
    BY <1>1, Called, NonePending DEF Setup, uart
<1>2. CASE Registers
    <2>1. CASE Exec("AUXENB") /\ enable_aux
        BY <2>1, Executed, PendingStep DEF Setup, enable_aux
    <2>2. CASE Exec("disable_txrx") /\ disable_txrx
        BY <2>2, Executed, PendingStep, HeadOrder DEF Setup, disable_txrx
    <2>3. CASE Exec("set_baudrate") /\ set_baudrate
        BY <2>3, Executed, PendingStep DEF Setup, set_baudrate
    <2>4. CASE Exec("set_bitmode") /\ set_bitmode
        BY <2>4, Executed, PendingStep DEF Setup, set_bitmode
    <2>5. CASE Exec("clear_fifo_queues") /\ clear_fifo_queues
        BY <2>5, Executed, PendingStep DEF Setup, clear_fifo_queues
    <2>6. CASE Exec("enable_txrx") /\ enable_txrx
        BY <2>6, Executed, PendingStep DEF Setup, enable_txrx
    <2> QED BY <1>2, <2>1, <2>2, <2>3, <2>4, <2>5, <2>6 DEF Registers
<1>3. CASE Data \/ DelayMs
    <2>1. /\ Advance /\ Access1.op \in {"uart_putc", "uart_getc", "DELAY_MS"}
          /\ UNCHANGED <<aux, cntl, format>>
        BY <1>3 DEF Data, DelayMs, Exec, Advance, uart_putc, uart_getc, uart
    <2> QED BY <2>1, PendingStep DEF Setup
<1>4. CASE GpioAccess
    BY <1>4, GpioExecuted, PendingStep DEF Setup, uart, GpioOps, PullOps
<1>5. CASE Reset
    BY <1>5, BootPending DEF Setup, Reset, boot
<1>6. CASE Transmit \/ Arrive
    <2>1. UNCHANGED <<aux, cntl, format, todo>>
        BY <1>6 DEF Transmit, Arrive, prog
    <2> QED BY <2>1 DEF Setup, Pending
<1> QED BY <1>1, <1>2, <1>3, <1>4, <1>5, <1>6 DEF Next

-----------------------------------------------------------------------------
(* Input: a byte is taken into the FIFO in the right format from the moment
   the FIFOs are cleared, and only then is one read. *)
LEMMA FormatSet ==
    ASSUME UartTypeOK, Order(todo), Setup, ~Pending("clear_fifo_queues")
    PROVE  Format
<1>1. \A op \in Setters : ~Pending(op)
    BY DEF Order, Pending
<1>2. format \subseteq {"8", "115200"}
    BY DEF UartTypeOK
<1> QED BY <1>1, <1>2 DEF Setup, Setters, Format

Increasing(s) == \A i, j \in DOMAIN s : i < j => s[i] < s[j]
Heard(g, r) ==
    /\ \A i \in DOMAIN r : r[i] \in 1 .. arrived
    /\ Increasing(r) /\ \A i \in DOMAIN g, j \in DOMAIN r : g[i] < r[j]
LEMMA ReceivedParts ==
    Received <=> /\ \A i \in DOMAIN got : got[i] \in 1 .. arrived
                 /\ Increasing(got) /\ (~Pending("clear_fifo_queues") => Heard(got, rx))
BY DEF Received, Increasing, Heard

LEMMA AppendIncreasing ==
    ASSUME NEW s \in Seq(Nat), NEW x \in Nat, Increasing(s), \A i \in DOMAIN s : s[i] < x
    PROVE  Increasing(Append(s, x))
<1> DEFINE t == Append(s, x)
<1>1. /\ DOMAIN s = 1 .. Len(s) /\ Len(s) \in Nat /\ DOMAIN t = 1 .. Len(s) + 1
      /\ t[Len(s) + 1] = x /\ \A i \in DOMAIN s : t[i] = s[i]
    OBVIOUS
<1> HIDE DEF t
<1>2. ASSUME NEW i \in DOMAIN t, NEW j \in DOMAIN t, i < j PROVE t[i] < t[j]
    <2>1. i \in DOMAIN s /\ t[i] = s[i]
        BY <1>1, <1>2
    <2>2. CASE j = Len(s) + 1
        BY <1>1, <2>1, <2>2
    <2>3. CASE j # Len(s) + 1
        <3>1. j \in DOMAIN s /\ t[j] = s[j]
            BY <1>1, <2>3
        <3> QED BY <1>2, <2>1, <3>1 DEF Increasing
    <2> QED BY <2>2, <2>3
<1>3. Increasing(t)
    BY <1>2 DEF Increasing
<1> QED BY <1>3 DEF t

LEMMA ByteRead ==
    ASSUME rx \in Seq(Nat), got \in Seq(Nat), arrived \in Nat, rx # <<>>,
           \A i \in DOMAIN got : got[i] \in 1 .. arrived, Increasing(got), Heard(got, rx)
    PROVE  LET g == Append(got, Head(rx))
           IN  /\ \A i \in DOMAIN g : g[i] \in 1 .. arrived
               /\ Increasing(g) /\ Heard(g, Tail(rx))
<1> DEFINE g == Append(got, Head(rx))
<1> DEFINE r == Tail(rx)
<1>1. /\ DOMAIN got = 1 .. Len(got) /\ Len(got) \in Nat /\ DOMAIN g = 1 .. Len(got) + 1
      /\ DOMAIN rx = 1 .. Len(rx) /\ Len(rx) \in Nat \ {0} /\ DOMAIN r = 1 .. Len(rx) - 1
      /\ g[Len(got) + 1] = rx[1] /\ \A i \in DOMAIN got : g[i] = got[i]
      /\ \A i \in DOMAIN r : r[i] = rx[i + 1]
    OBVIOUS
<1>2. 1 \in DOMAIN rx /\ rx[1] \in 1 .. arrived
    BY <1>1 DEF Heard
<1>0. Head(rx) = rx[1] /\ Head(rx) \in Nat
    OBVIOUS
<1>4. Increasing(g)
    <2>1. \A i \in DOMAIN got : got[i] < Head(rx)
        BY <1>0, <1>2 DEF Heard
    <2> QED BY <1>0, <2>1, AppendIncreasing
<1> HIDE DEF g, r
<1>3. ASSUME NEW i \in DOMAIN g PROVE g[i] \in 1 .. arrived
    <2>1. i = Len(got) + 1 \/ i \in DOMAIN got
        BY <1>1
    <2> QED BY <1>1, <1>2, <2>1
<1>5. \A i \in DOMAIN r : i + 1 \in DOMAIN rx /\ r[i] = rx[i + 1] /\ rx[1] < r[i]
    <2> TAKE i \in DOMAIN r
    <2>1. i + 1 \in DOMAIN rx /\ r[i] = rx[i + 1] /\ 1 \in DOMAIN rx /\ 1 < i + 1
        BY <1>1
    <2>2. Increasing(rx)
        BY DEF Heard
    <2> QED BY <2>1, <2>2 DEF Increasing
<1>6. Increasing(r)
    BY <1>1, <1>5 DEF Increasing, Heard
<1>7. \A i \in DOMAIN r : r[i] \in 1 .. arrived
    BY <1>5 DEF Heard
<1>8. \A i \in DOMAIN g, j \in DOMAIN r : g[i] < r[j]
    <2> TAKE i \in DOMAIN g, j \in DOMAIN r
    <2>1. CASE i = Len(got) + 1
        BY <1>1, <1>5, <2>1
    <2>2. CASE i # Len(got) + 1
        <3>1. i \in DOMAIN got /\ g[i] = got[i]
            BY <1>1, <2>2
        <3> QED BY <1>5, <3>1 DEF Heard
    <2> QED BY <2>1, <2>2
<1>9. Heard(g, r)
    BY <1>6, <1>7, <1>8 DEF Heard
<1> QED BY <1>3, <1>4, <1>9 DEF g, r

LEMMA ByteArrives ==
    ASSUME rx \in Seq(Nat), got \in Seq(Nat), arrived \in Nat, arrived' = arrived + 1,
           \A i \in DOMAIN got : got[i] \in 1 .. arrived, Heard(got, rx),
           got' = got, rx' = rx \/ rx' = Append(rx, arrived')
    PROVE  Heard(got, rx)'
<1>1. CASE rx' = rx
    <2>1. 1 .. arrived \subseteq 1 .. arrived'
        OBVIOUS
    <2> QED BY <1>1, <2>1 DEF Heard
<1>2. CASE rx' = Append(rx, arrived + 1)
    <2>1. /\ DOMAIN rx = 1 .. Len(rx) /\ Len(rx) \in Nat /\ DOMAIN rx' = 1 .. Len(rx) + 1
          /\ rx'[Len(rx) + 1] = arrived + 1 /\ \A i \in DOMAIN rx : rx'[i] = rx[i]
        BY <1>2
    <2>2. \A i \in DOMAIN rx : rx[i] \in 1 .. arrived
        BY DEF Heard
    <2>3. \A i \in DOMAIN rx' : rx'[i] \in 1 .. arrived'
        <3> TAKE i \in DOMAIN rx'
        <3>1. i = Len(rx) + 1 \/ i \in DOMAIN rx
            BY <2>1
        <3> QED BY <2>1, <2>2, <3>1
    <2>4. Increasing(rx')
        <3>1. \A i \in DOMAIN rx : rx[i] < arrived + 1
            BY <2>2
        <3> QED BY <1>2, <3>1, AppendIncreasing DEF Heard
    <2>5. \A i \in DOMAIN got, j \in DOMAIN rx' : got[i] < rx'[j]
        <3> TAKE i \in DOMAIN got, j \in DOMAIN rx'
        <3>1. CASE j = Len(rx) + 1
            BY <2>1, <3>1
        <3>2. CASE j # Len(rx) + 1
            <4>1. j \in DOMAIN rx
                <5>1. PICK n \in Nat : n = Len(rx) /\ DOMAIN rx = 1 .. n /\ j \in 1 .. n + 1
                    BY <2>1
                <5>2. j # n + 1
                    BY <3>2, <5>1
                <5> QED BY <5>1, <5>2
            <4>2. rx'[j] = rx[j]
                BY <2>1, <4>1
            <4> QED BY <4>1, <4>2 DEF Heard
        <3> QED BY <3>1, <3>2
    <2> QED BY <2>3, <2>4, <2>5 DEF Heard
<1> QED BY <1>1, <1>2

LEMMA ReceivedStep ==
    ASSUME UartAssumption, UartTypeOK, Order(todo), Setup, Received, Next
    PROVE  Received'
<1>0. /\ (\A i \in DOMAIN got : got[i] \in 1 .. arrived)
      /\ Increasing(got) /\ (~Pending("clear_fifo_queues") => Heard(got, rx))
    BY ReceivedParts
<1>1. CASE notmain \/ kernel
    <2>1. UNCHANGED <<got, rx, arrived>> /\ ~Pending("clear_fifo_queues")
        BY <1>1, Called, NonePending DEF uart, line
    <2> QED BY <1>0, <2>1 DEF Received, Heard, Increasing
<1>2. CASE Registers
    <2>1. CASE Exec("clear_fifo_queues") /\ clear_fifo_queues /\ UNCHANGED <<got, arrived>>
        BY <1>0, <2>1 DEF Received, clear_fifo_queues, Increasing
    <2>2. CASE /\ Advance /\ Access1.op # "clear_fifo_queues"
               /\ UNCHANGED <<rx, got, arrived>>
        <3>1. Pending("clear_fifo_queues")' <=> Pending("clear_fifo_queues")
            BY <2>2, PendingStep
        <3> QED BY <1>0, <2>2, <3>1 DEF Received, Heard, Increasing
    <2> QED BY <1>2, <2>1, <2>2
           DEF Registers, Exec, Advance, line, enable_aux, disable_txrx, set_baudrate, set_bitmode, enable_txrx
<1>3. CASE Data
    <2>1. CASE Exec("uart_putc") /\ uart_putc /\ UNCHANGED <<got, arrived>>
        <3>1. Pending("clear_fifo_queues")' <=> Pending("clear_fifo_queues")
            BY <2>1, PendingStep, Executed
        <3> QED BY <1>0, <2>1, <3>1 DEF Received, Heard, Increasing, uart_putc
    <2>2. CASE Exec("uart_getc") /\ uart_getc /\ UNCHANGED arrived
        <3>1. ~Pending("clear_fifo_queues")
            BY <2>2, HeadOrder, Executed
        <3>2. /\ rx # <<>> /\ got' = Append(got, Head(rx)) /\ rx' = Tail(rx) /\ arrived' = arrived
            BY <2>2 DEF uart_getc
        <3>3. rx \in Seq(Nat) /\ got \in Seq(Nat) /\ arrived \in Nat
            BY DEF UartTypeOK
        <3>4. /\ \A i \in DOMAIN got' : got'[i] \in 1 .. arrived
              /\ Increasing(got') /\ Heard(got', rx')
            BY <1>0, <3>1, <3>2, <3>3, ByteRead
        <3> QED BY <3>2, <3>4 DEF Received, Heard, Increasing
    <2> QED BY <1>3, <2>1, <2>2 DEF Data, line
<1>4. CASE GpioAccess \/ DelayMs
    <2>1. /\ Advance /\ Access1.op # "clear_fifo_queues"
          /\ UNCHANGED <<rx, got, arrived>>
        BY <1>4, GpioExecuted, Executed DEF GpioOps, PullOps, DelayMs, uart, line
    <2>2. Pending("clear_fifo_queues")' <=> Pending("clear_fifo_queues")
        BY <2>1, PendingStep
    <2> QED BY <1>0, <2>1, <2>2 DEF Received, Heard, Increasing
<1>5. CASE Reset
    <2>1. UNCHANGED <<got, arrived>> /\ Pending("clear_fifo_queues")'
        BY <1>5, BootPending DEF Reset, boot, line
    <2> QED BY <1>0, <2>1 DEF Received, Increasing
<1>6. CASE Transmit
    <2>1. UNCHANGED <<rx, got, arrived, todo>>
        BY <1>6 DEF Transmit, prog
    <2> QED BY <2>1 DEF Received, Pending
<1>7. CASE Arrive
    <2>1. UNCHANGED <<got, todo>> /\ arrived' = arrived + 1
        BY <1>7 DEF Arrive, prog
    <2>2. arrived \in Nat /\ rx \in Seq(Nat) /\ got \in Seq(Nat)
        BY DEF UartTypeOK
    <2>3. \A i \in DOMAIN got' : got'[i] \in 1 .. arrived'
        BY <1>0, <2>1, <2>2
    <2>4. CASE Pending("clear_fifo_queues")
        BY <1>0, <2>1, <2>3, <2>4 DEF Received, Pending, Increasing
    <2>5. CASE ~Pending("clear_fifo_queues")
        <3>1. rx' = rx \/ rx' = Append(rx, arrived')
            BY <1>7, <2>5, FormatSet DEF Arrive
        <3>2. Heard(got, rx)'
            BY <1>0, <2>1, <2>2, <2>5, <3>1, ByteArrives
        <3> QED BY <1>0, <2>1, <2>3, <3>2 DEF Received, Heard, Increasing
    <2> QED BY <2>4, <2>5
<1> QED BY <1>1, <1>2, <1>3, <1>4, <1>5, <1>6, <1>7 DEF Next

-----------------------------------------------------------------------------
(* The functions of the pins. *)
LEMMA Shift ==
    ASSUME UartTypeOK, Order(todo), Advance
    PROVE  /\ \A i \in DOMAIN todo : \/ i = 1 /\ todo[i] = Access1
                                     \/ i - 1 \in DOMAIN todo' /\ todo'[i - 1] = todo[i]
           /\ \A i \in DOMAIN todo' : i + 1 \in DOMAIN todo /\ todo'[i] = todo[i + 1]
           /\ 1 \in DOMAIN todo /\ Access1 = todo[1]
BY Advanced

(* Of the calls in a program, those of uart_init alone touch pins. *)
LEMMA ProgramOps ==
    ASSUME NEW r \in Programs, NEW i \in DOMAIN r
    PROVE  /\ r[i].op \notin {"SET", "CLR"} \cup PullOps
           /\ r # Accept => r[i].op # "FSEL"
<1> USE DEF Plain, Fsel, PullOps
<1>1. CASE r = Accept
    <2>1. i \in 1 .. 13
        BY <1>1, RoutineTypes, AcceptCode
    <2> QED BY <1>1, <2>1, AcceptCode
<1>2. CASE r = die
    <2>1. i \in 1 .. 6
        BY <1>2, RoutineTypes, DieCode
    <2> QED BY <1>2, <2>1, DieCode
<1>3. CASE r = clean_reboot
    <2>1. i \in 1 .. 4
        BY <1>3, RoutineTypes, CleanCode
    <2> QED BY <1>3, <2>1, CleanCode
<1>4. CASE r \in {get_uint, put_uint}
    <2>1. i \in 1 .. 4
        BY <1>4, RoutineTypes, DataCode
    <2> QED BY <1>4, <2>1, DataCode
<1>5. CASE r = Reg("uart_putc")
    <2>1. i = 1
        BY <1>5, RoutineTypes, DataCode
    <2> QED BY <1>5, <2>1, DataCode
<1> QED BY <1>1, <1>2, <1>3, <1>4, <1>5 DEF Programs

(* Which program goes on. *)
LEMMA Programme ==
    ASSUME notmain \/ kernel
    PROVE  /\ todo' = Accept => pc = "boot"
           /\ pc' = "boot" => \/ pc = "boot" /\ UNCHANGED asked
                              \/ todo' = clean_reboot
<1>1. CASE notmain
    BY <1>1 DEF notmain
<1>2. CASE kernel
    <2>1. todo' # Accept
        <3>1. Reg("uart_putc") # Accept
            BY AcceptCode, DataCode
        <3>2. clean_reboot # Accept
            BY AcceptCode, CleanCode
        <3>3. ASSUME NEW p, NEW f PROVE gpio_set_function(p, f) # Accept
            <4>1. Len(gpio_set_function(p, f)) \in {0, 1}
                BY FselCode
            <4>2. Len(Accept) = 13
                BY AcceptCode
            <4> QED BY <4>1, <4>2
        <3>4. ASSUME NEW p, NEW d PROVE gpio_set_pud(p, d) # Accept
            <4>0. gpio_set_pud(p, d) = <<>> \/ Len(gpio_set_pud(p, d)) = 6
                BY PullCode
            <4>1. CASE gpio_set_pud(p, d) = <<>>
                BY <4>1, AcceptCode, Len(<<>>) = 0
            <4>2. CASE Len(gpio_set_pud(p, d)) = 6
                BY <4>2, AcceptCode
            <4> QED BY <4>0, <4>1, <4>2
        <3>5. ASSUME NEW p, NEW v PROVE gpio_write(p, v) # Accept
            <4>1. gpio_write(p, v) = <<>> \/ Len(gpio_write(p, v)) = 1
                BY DEF gpio_write, Access
            <4>2. Len(Accept) = 13
                BY AcceptCode
            <4>3. CASE gpio_write(p, v) = <<>>
                BY <4>2, <4>3, Len(<<>>) = 0
            <4>4. CASE Len(gpio_write(p, v)) = 1
                BY <4>2, <4>4
            <4> QED BY <4>1, <4>3, <4>4
        <3> QED BY <1>2, <3>1, <3>2, <3>3, <3>4, <3>5 DEF kernel
    <2> QED BY <1>2, <2>1 DEF kernel
<1> QED BY <1>1, <1>2

FselPending(p) == \E i \in DOMAIN todo : todo[i].op = "FSEL" /\ todo[i].pin = p
FselRight(p) == \A i \in DOMAIN todo : todo[i].op = "FSEL" /\ todo[i].pin = p
                   => todo[i].val = asked[p].fn
UartAsked == pc = "boot" /\ ~Pending("RESET") =>
    asked[GPIO_TX].fn = GPIO_FUNC_ALT5 /\ asked[GPIO_RX].fn = GPIO_FUNC_ALT5
LEMMA FunctionParts ==
    FunctionsAsked <=>
        /\ \A p \in Pin : (gpio_get_function(p) = asked[p].fn \/ FselPending(p)) /\ FselRight(p)
        /\ UartAsked
BY DEF FunctionsAsked, FselPending, FselRight, UartAsked

LEMMA FselStep ==
    ASSUME UartTypeOK, Order(todo), Advance, UNCHANGED asked, NEW p
    PROVE  /\ FselRight(p) => FselRight(p)'
           /\ FselPending(p) => \/ Access1.op = "FSEL" /\ Access1.pin = p
                                \/ FselPending(p)'
BY Shift DEF FselRight, FselPending

LEMMA UartAskedStep ==
    ASSUME UartTypeOK, Order(todo), Advance, Access1.op # "RESET", UNCHANGED <<asked, pc>>, UartAsked
    PROVE  UartAsked'
<1>1. Pending("RESET") <=> Pending("RESET")'
    BY PendingStep
<1> QED BY <1>1 DEF UartAsked

LEMMA FunctionsKept ==
    ASSUME UartTypeOK, Order(todo), FunctionsAsked, Advance,
           Access1.op \notin {"FSEL", "RESET"}, UNCHANGED <<asked, pc, fsel>>
    PROVE  FunctionsAsked'
<1>1. ASSUME NEW p \in Pin
      PROVE  (gpio_get_function(p) = asked[p].fn \/ FselPending(p))' /\ FselRight(p)'
    <2>1. gpio_get_function(p)' = gpio_get_function(p)
        BY DEF gpio_get_function
    <2>2. (gpio_get_function(p) = asked[p].fn \/ FselPending(p)) /\ FselRight(p)
        BY FunctionParts
    <2> QED BY <2>1, <2>2, FselStep
<1>2. UartAsked'
    BY FunctionParts, UartAskedStep
<1> QED BY <1>1, <1>2 DEF FunctionsAsked, FselPending, FselRight, UartAsked

LEMMA FunctionWritten ==
    ASSUME UartTypeOK, Order(todo), FunctionsAsked, Advance,
           Access1.op = "FSEL", PutFsel(Access1), UNCHANGED <<asked, pc>>
    PROVE  FunctionsAsked'
<1>0. PICK a \in Acc : a = Access1
    BY Advanced
<1>1. a.pin \in 0 .. 53 /\ a.val \in 0 .. 7 /\ fsel \in [0 .. 5 -> Nat]
    BY <1>0, AccFields DEF UartTypeOK
<1>2. /\ gpio_get_function(a.pin)' = a.val
      /\ \A p \in 0 .. 53 \ {a.pin} : gpio_get_function(p)' = gpio_get_function(p)
    <2>1. PutFsel(a)
        BY <1>0
    <2> QED BY <1>1, <2>1, FselEffect
<1>3. ASSUME NEW p \in Pin
      PROVE  (gpio_get_function(p) = asked[p].fn \/ FselPending(p))' /\ FselRight(p)'
    <2>1. p \in 0 .. 53
        BY PinAssumption
    <2>2. (gpio_get_function(p) = asked[p].fn \/ FselPending(p)) /\ FselRight(p)
        BY FunctionParts
    <2>3. FselRight(p)' /\ (FselPending(p) => a.pin = p \/ FselPending(p)')
        BY <1>0, <2>2, FselStep
    <2>4. CASE a.pin = p
        <3>1. a.val = asked[p].fn
            BY <1>0, <2>2, <2>4, Shift DEF FselRight
        <3>2. gpio_get_function(p)' = asked'[p].fn
            BY <1>2, <2>4, <3>1
        <3> QED BY <2>3, <3>2
    <2>5. CASE a.pin # p
        <3>1. gpio_get_function(p)' = gpio_get_function(p)
            BY <1>2, <2>1, <2>5
        <3> QED BY <2>2, <2>3, <2>5, <3>1
    <2> QED BY <2>4, <2>5
<1>4. UartAsked'
    BY FunctionParts, UartAskedStep
<1> QED BY <1>3, <1>4 DEF FunctionsAsked, FselPending, FselRight, UartAsked

LEMMA FunctionsCalled ==
    ASSUME UartAssumption, UartTypeOK, FunctionsAsked, notmain \/ kernel
    PROVE  FunctionsAsked'
<1>1. todo = <<>> /\ UNCHANGED fsel /\ asked \in [Pin -> Wanted]
    BY Called DEF gpio, UartTypeOK
<1>2. \A p \in Pin : gpio_get_function(p) = asked[p].fn
    BY <1>1 DEF FunctionsAsked
<1>3. \A p \in Pin : gpio_get_function(p)' = gpio_get_function(p)
    BY <1>1 DEF gpio_get_function
<1>4. UartAsked'
    <2>1. CASE pc = "boot" /\ UNCHANGED asked
        BY <1>1, <2>1, NonePending DEF FunctionsAsked, UartAsked
    <2>2. CASE todo' = clean_reboot
        <3>1. Pending("RESET")'
            <4>1. DOMAIN clean_reboot = 1 .. 4
                BY RoutineTypes, CleanCode
            <4> QED BY <2>2, <4>1, CleanCode DEF Pending, Plain
        <3> QED BY <3>1 DEF UartAsked
    <2>3. CASE pc' # "boot"
        BY <2>3 DEF UartAsked
    <2> QED BY <2>1, <2>2, <2>3, Programme
<1>5. SUFFICES ASSUME NEW p \in Pin
      PROVE (asked'[p].fn = asked[p].fn \/ FselPending(p)') /\ FselRight(p)'
    BY <1>2, <1>3, <1>4 DEF FunctionsAsked, FselPending, FselRight, UartAsked
<1>6. CASE todo' \in Programs /\ UNCHANGED asked
    <2>1. CASE todo' = Accept
        <3>1. asked[14].fn = 2 /\ asked[15].fn = 2
            BY <1>1, <2>1, Programme, NonePending
               DEF FunctionsAsked, GPIO_TX, GPIO_RX, GPIO_FUNC_ALT5
        <3>2. DOMAIN Accept = 1 .. 13
            BY RoutineTypes, AcceptCode
        <3>3. FselRight(p)'
            BY <1>6, <2>1, <3>1, <3>2, AcceptCode DEF FselRight, Plain, Fsel
        <3> QED BY <1>6, <3>3
    <2>2. CASE todo' # Accept
        <3>1. \A i \in DOMAIN todo' : todo'[i].op # "FSEL"
            BY <1>6, <2>2, ProgramOps
        <3> QED BY <1>6, <3>1 DEF FselRight
    <2> QED BY <2>1, <2>2
<1>7. ASSUME NEW q \in Nat, NEW f \in Nat, todo' = gpio_set_function(q, f), Ask(q, "fn", f)
      PROVE  (asked'[p].fn = asked[p].fn \/ FselPending(p)') /\ FselRight(p)'
    <2>1. asked'[p].fn = IF todo' # <<>> /\ p = q THEN f ELSE asked[p].fn
        BY <1>1, <1>7, AskedFn
    <2>2. CASE todo' = <<>>
        BY <2>1, <2>2 DEF FselRight
    <2>3. CASE todo' = <<Fsel(q, f)>>
        <3>1. DOMAIN todo' = {1} /\ todo'[1].op = "FSEL" /\ todo'[1].pin = q /\ todo'[1].val = f
            BY <2>3 DEF Fsel
        <3>2. CASE p = q
            BY <2>1, <2>3, <3>1, <3>2 DEF FselRight, FselPending
        <3>3. CASE p # q
            BY <2>1, <3>1, <3>3 DEF FselRight
        <3> QED BY <3>2, <3>3
    <2> QED BY <1>7, <2>2, <2>3, FselCode
<1>8. ASSUME NEW q \in Nat, NEW d \in Nat, todo' = gpio_set_pud(q, d), Ask(q, "pull", d)
      PROVE  (asked'[p].fn = asked[p].fn \/ FselPending(p)') /\ FselRight(p)'
    <2>1. asked'[p].fn = asked[p].fn
        BY <1>1, <1>8, AskedPull
    <2>2. \A i \in DOMAIN todo' : todo'[i].op # "FSEL"
        <3>1. \A k \in 1 .. 6 : PullStep(q, d, k).op # "FSEL"
            BY DEF PullStep
        <3>2. CASE todo' = <<>>
            BY <3>2
        <3>3. CASE /\ todo' \in Seq(Acc) /\ Len(todo') = 6
                   /\ \A k \in 1 .. 6 : todo'[k] = PullStep(q, d, k)
            BY <3>1, <3>3
        <3> QED BY <1>8, <3>2, <3>3, PullCode
    <2> QED BY <2>1, <2>2 DEF FselRight
<1>9. ASSUME NEW q \in Nat, NEW v \in {0, 1}, todo' = gpio_write(q, v), Ask(q, "out", v)
      PROVE  (asked'[p].fn = asked[p].fn \/ FselPending(p)') /\ FselRight(p)'
    <2>1. asked'[p].fn = asked[p].fn
        BY <1>1, <1>9, AskedOut
    <2>2. \A i \in DOMAIN todo' : todo'[i].op # "FSEL"
        <3>1. CASE todo' = <<>>
            BY <3>1
        <3>2. ASSUME NEW op \in {"SET", "CLR"}, todo' = <<[op |-> op, pin |-> q, val |-> v]>>
              PROVE  \A i \in DOMAIN todo' : todo'[i].op # "FSEL"
            BY <3>2
        <3> QED BY <1>9, <3>1, <3>2, WriteCode
    <2> QED BY <2>1, <2>2 DEF FselRight
<1> QED BY Called, <1>6, <1>7, <1>8, <1>9

LEMMA FunctionsStep ==
    ASSUME UartAssumption, UartTypeOK, Order(todo), FunctionsAsked, Next
    PROVE  FunctionsAsked'
<1>1. CASE notmain \/ kernel
    BY <1>1, FunctionsCalled
<1>2. CASE Registers \/ Data \/ DelayMs
    <2>1. /\ Advance /\ Access1.op \notin {"FSEL", "RESET"} /\ UNCHANGED <<asked, pc, fsel>>
        BY <1>2 DEF Registers, Data, DelayMs, Exec, Advance, gpio
    <2> QED BY <2>1, FunctionsKept
<1>3. CASE GpioAccess
    <2>1. CASE Access1.op = "FSEL"
        <3>1. Advance /\ PutFsel(Access1) /\ UNCHANGED <<asked, pc>>
            BY <1>3, <2>1, GpioExecuted DEF DoGpio
        <3> QED BY <2>1, <3>1, FunctionWritten
    <2>2. CASE Access1.op # "FSEL"
        <3>1. Advance /\ Access1.op # "RESET" /\ UNCHANGED <<asked, pc, fsel>>
            BY <1>3, <2>2, GpioExecuted
               DEF DoGpio, PutLatch, PutPud, PutPudclk, DelayUs, GpioOps, PullOps
        <3> QED BY <2>2, <3>1, FunctionsKept
    <2> QED BY <2>1, <2>2
<1>4. CASE Reset
    <2>1. todo' = boot /\ asked' = UartPins(AtReset) /\ \A reg \in 0 .. 5 : fsel'[reg] = 0
        BY <1>4, GpioAtReset DEF Reset, boot
    <2>2. ASSUME NEW p \in Pin
          PROVE  (gpio_get_function(p) = asked[p].fn \/ FselPending(p))' /\ FselRight(p)'
        <3>1. DOMAIN todo' = 1 .. 9 /\ p \in 0 .. 53
            BY <2>1, RoutineTypes, BootCode, PinAssumption
        <3>2. FselRight(p)'
            BY <2>1, <3>1, BootCode, ResetTypes DEF FselRight, Plain, Fsel, GPIO_TX, GPIO_RX
        <3>3. CASE p \in {14, 15}
            BY <2>1, <3>1, <3>2, <3>3, BootCode DEF FselPending, Fsel
        <3>4. CASE p \notin {14, 15}
            <4>1. asked'[p].fn = 0
                BY <2>1, <3>4, ResetTypes DEF GPIO_TX, GPIO_RX
            <4>2. p \div 10 \in 0 .. 5 /\ p % 10 \in 0 .. 9
                BY <3>1
            <4>3. gpio_get_function(p)' = 0
                BY <2>1, <3>1, NoFunction
            <4> QED BY <3>2, <4>1, <4>3
        <3> QED BY <3>3, <3>4
    <2>3. UartAsked'
        BY <2>1, ResetTypes, UartAssumption DEF UartAsked, GPIO_FUNC_ALT5, UartAssumption
    <2> QED BY <2>2, <2>3 DEF FunctionsAsked, FselPending, FselRight, UartAsked
<1>5. CASE Transmit \/ Arrive
    <2>1. UNCHANGED <<fsel, asked, pc, todo>>
        BY <1>5 DEF Transmit, Arrive, gpio, prog
    <2> QED BY <2>1 DEF FunctionsAsked, Pending, gpio_get_function
<1> QED BY <1>1, <1>2, <1>3, <1>4, <1>5 DEF Next

-----------------------------------------------------------------------------
(* The latches. *)
LatchPending(p) == \E i \in DOMAIN todo : todo[i].op \in {"SET", "CLR"} /\ todo[i].pin = p
LatchRight(p) == \A i \in DOMAIN todo : todo[i].op \in {"SET", "CLR"} /\ todo[i].pin = p
                    => todo[i].val = asked[p].out
LatchAsked(p) == (latch[p] = asked[p].out \/ LatchPending(p)) /\ LatchRight(p)
LEMMA LatchParts == LatchesAsked <=> \A p \in Pin : LatchAsked(p)
BY DEF LatchesAsked, LatchPending, LatchRight, LatchAsked

LEMMA LatchStep ==
    ASSUME UartTypeOK, Order(todo), Advance, UNCHANGED asked, NEW p
    PROVE  /\ LatchRight(p) => LatchRight(p)'
           /\ LatchPending(p) => \/ Access1.op \in {"SET", "CLR"} /\ Access1.pin = p
                                 \/ LatchPending(p)'
BY Shift DEF LatchRight, LatchPending

LEMMA LatchesKept ==
    ASSUME UartTypeOK, Order(todo), LatchesAsked, Advance,
           Access1.op \notin {"SET", "CLR"}, UNCHANGED <<asked, latch>>
    PROVE  LatchesAsked'
<1>1. ASSUME NEW p \in Pin PROVE LatchAsked(p)'
    BY LatchParts, LatchStep DEF LatchAsked
<1> QED BY <1>1 DEF LatchesAsked, LatchPending, LatchRight, LatchAsked

LEMMA LatchWritten ==
    ASSUME UartTypeOK, Order(todo), LatchesAsked, Advance,
           Access1.op \in {"SET", "CLR"}, PutLatch(Access1), UNCHANGED asked
    PROVE  LatchesAsked'
<1>1. PICK a \in Acc : a = Access1
    BY Advanced
<1>2. ASSUME NEW p \in Pin PROVE LatchAsked(p)'
    <2>1. p \in 0 .. 53 /\ a.pin \in 0 .. 53 /\ a.val \in {0, 1} /\ a.op \in {"SET", "CLR"}
        BY <1>1, AccFields, PinAssumption
    <2>2. LatchAsked(p)
        BY LatchParts
    <2>3. LatchRight(p)' /\ (LatchPending(p) => a.pin = p \/ LatchPending(p)')
        BY <1>1, <2>2, LatchStep DEF LatchAsked
    <2>4. latch'[p] = IF p = a.pin THEN a.val ELSE latch[p]
        BY <1>1, <2>1, SameWordBit DEF PutLatch
    <2>5. CASE a.pin = p
        <3>1. a.val = asked[p].out
            BY <1>1, <2>1, <2>2, <2>5, Shift DEF LatchAsked, LatchRight
        <3> QED BY <2>3, <2>4, <2>5, <3>1 DEF LatchAsked
    <2>6. CASE a.pin # p
        BY <2>2, <2>3, <2>4, <2>6 DEF LatchAsked
    <2> QED BY <2>5, <2>6
<1> QED BY <1>2 DEF LatchesAsked, LatchPending, LatchRight, LatchAsked

LEMMA LatchesCalled ==
    ASSUME UartAssumption, UartTypeOK, LatchesAsked, notmain \/ kernel
    PROVE  LatchesAsked'
<1>1. todo = <<>> /\ UNCHANGED latch /\ asked \in [Pin -> Wanted]
    BY Called DEF gpio, UartTypeOK
<1>2. \A p \in Pin : latch[p] = asked[p].out
    BY <1>1 DEF LatchesAsked
<1>3. SUFFICES ASSUME NEW p \in Pin
      PROVE  (asked'[p].out = asked[p].out \/ LatchPending(p)') /\ LatchRight(p)'
    BY <1>1, <1>2 DEF LatchesAsked, LatchPending, LatchRight
<1>4. CASE todo' \in Programs /\ UNCHANGED asked
    BY <1>4, ProgramOps DEF LatchRight
<1>5. ASSUME NEW q \in Nat, NEW f \in Nat, todo' = gpio_set_function(q, f), Ask(q, "fn", f)
      PROVE  (asked'[p].out = asked[p].out \/ LatchPending(p)') /\ LatchRight(p)'
    <2>1. asked'[p].out = asked[p].out
        BY <1>1, <1>5, AskedFn
    <2>2. todo' = <<>> \/ todo' = <<Fsel(q, f)>>
        BY <1>5, FselCode
    <2>3. \A i \in DOMAIN todo' : todo'[i].op \notin {"SET", "CLR"}
        BY <2>2 DEF Fsel
    <2> QED BY <2>1, <2>3 DEF LatchRight
<1>6. ASSUME NEW q \in Nat, NEW d \in Nat, todo' = gpio_set_pud(q, d), Ask(q, "pull", d)
      PROVE  (asked'[p].out = asked[p].out \/ LatchPending(p)') /\ LatchRight(p)'
    <2>1. asked'[p].out = asked[p].out
        BY <1>1, <1>6, AskedPull
    <2>2. \A i \in DOMAIN todo' : todo'[i].op \notin {"SET", "CLR"}
        <3>1. \A k \in 1 .. 6 : PullStep(q, d, k).op \notin {"SET", "CLR"}
            BY DEF PullStep
        <3>2. CASE todo' = <<>>
            BY <3>2
        <3>3. CASE /\ todo' \in Seq(Acc) /\ Len(todo') = 6
                   /\ \A k \in 1 .. 6 : todo'[k] = PullStep(q, d, k)
            BY <3>1, <3>3
        <3> QED BY <1>6, <3>2, <3>3, PullCode
    <2> QED BY <2>1, <2>2 DEF LatchRight
<1>7. ASSUME NEW q \in Nat, NEW v \in {0, 1}, todo' = gpio_write(q, v), Ask(q, "out", v)
      PROVE  (asked'[p].out = asked[p].out \/ LatchPending(p)') /\ LatchRight(p)'
    <2>1. asked'[p].out = IF todo' # <<>> /\ p = q THEN v ELSE asked[p].out
        BY <1>1, <1>7, AskedOut
    <2>2. CASE todo' = <<>>
        BY <2>1, <2>2 DEF LatchRight
    <2>3. ASSUME NEW op \in {"SET", "CLR"}, todo' = <<[op |-> op, pin |-> q, val |-> v]>>
          PROVE  (asked'[p].out = asked[p].out \/ LatchPending(p)') /\ LatchRight(p)'
        <3>1. /\ DOMAIN todo' = {1} /\ todo'[1].op \in {"SET", "CLR"} /\ todo'[1].pin = q
              /\ todo'[1].val = v /\ todo' # <<>>
            BY <2>3
        <3>2. CASE p = q
            BY <2>1, <3>1, <3>2 DEF LatchRight, LatchPending
        <3>3. CASE p # q
            BY <2>1, <3>1, <3>3 DEF LatchRight
        <3> QED BY <3>2, <3>3
    <2> QED BY <1>7, <2>2, <2>3, WriteCode
<1> QED BY Called, <1>4, <1>5, <1>6, <1>7

(* The accesses after a reset. *)
LEMMA BootOps ==
    ASSUME NEW i \in DOMAIN boot
    PROVE  boot[i].op \notin {"SET", "CLR", "uart_putc", "RESET"} \cup PullOps
<1>1. i \in 1 .. 9
    BY RoutineTypes, BootCode
<1> QED BY <1>1, BootCode DEF Plain, Fsel, PullOps

LEMMA LatchesStep ==
    ASSUME UartAssumption, UartTypeOK, Order(todo), LatchesAsked, Next
    PROVE  LatchesAsked'
<1>1. CASE notmain \/ kernel
    BY <1>1, LatchesCalled
<1>2. CASE Registers \/ Data \/ DelayMs
    <2>1. Advance /\ Access1.op \notin {"SET", "CLR"} /\ UNCHANGED <<asked, latch>>
        BY <1>2 DEF Registers, Data, DelayMs, Exec, Advance, gpio
    <2> QED BY <2>1, LatchesKept
<1>3. CASE GpioAccess
    <2>1. CASE Access1.op \in {"SET", "CLR"}
        <3>1. Advance /\ PutLatch(Access1) /\ UNCHANGED asked
            BY <1>3, <2>1, GpioExecuted DEF DoGpio
        <3> QED BY <2>1, <3>1, LatchWritten
    <2>2. CASE Access1.op \notin {"SET", "CLR"}
        <3>1. Advance /\ UNCHANGED <<asked, latch>>
            BY <1>3, <2>2, GpioExecuted DEF DoGpio, PutFsel, PutPud, PutPudclk, DelayUs
        <3> QED BY <2>2, <3>1, LatchesKept
    <2> QED BY <2>1, <2>2
<1>4. CASE Reset
    <2>1. todo' = boot /\ asked' = UartPins(AtReset) /\ \A p \in Pin : latch'[p] = 0
        BY <1>4, GpioAtReset DEF Reset, boot
    <2> QED BY <2>1, ResetTypes, BootOps DEF LatchesAsked
<1>5. CASE Transmit \/ Arrive
    <2>1. UNCHANGED <<latch, asked, todo>>
        BY <1>5 DEF Transmit, Arrive, gpio, prog
    <2> QED BY <2>1 DEF LatchesAsked
<1> QED BY <1>1, <1>2, <1>3, <1>4, <1>5 DEF Next

-----------------------------------------------------------------------------
(* The pulls. *)
LEMMA PullsCalled ==
    ASSUME UartAssumption, UartTypeOK, PullsAsked, notmain \/ kernel
    PROVE  PullsAsked'
<1>1. todo = <<>> /\ UNCHANGED <<pudclk, pull>> /\ asked \in [Pin -> Wanted]
    BY Called DEF gpio, UartTypeOK
<1>2. Idle
    <2>1. ASSUME NEW p \in 0 .. 53, NEW d \in 0 .. 2, NEW k \in 1 .. 6, Pulling(p, d, k) PROVE FALSE
        BY <1>1, <2>1, Len(<<>>) = 0 DEF Pulling
    <2> QED BY <2>1 DEF PullsAsked
<1>3. ASSUME \A i \in DOMAIN todo' : todo'[i].op \notin PullOps,
             \A p \in Pin : asked'[p].pull = asked[p].pull
      PROVE  Idle'
    BY <1>1, <1>2, <1>3 DEF Idle
<1>4. CASE todo' \in Programs /\ UNCHANGED asked
    <2>1. \A i \in DOMAIN todo' : todo'[i].op \notin PullOps
        BY <1>4, ProgramOps
    <2> QED BY <1>3, <1>4, <2>1 DEF PullsAsked
<1>5. ASSUME NEW q \in Nat, NEW f \in Nat, todo' = gpio_set_function(q, f), Ask(q, "fn", f)
      PROVE  PullsAsked'
    <2>1. \A p \in Pin : asked'[p].pull = asked[p].pull
        BY <1>1, <1>5, AskedFn
    <2>2. todo' = <<>> \/ todo' = <<Fsel(q, f)>>
        BY <1>5, FselCode
    <2>3. \A i \in DOMAIN todo' : todo'[i].op \notin PullOps
        BY <2>2 DEF Fsel, PullOps
    <2> QED BY <1>3, <2>1, <2>3 DEF PullsAsked
<1>6. ASSUME NEW q \in Nat, NEW d \in Nat, todo' = gpio_set_pud(q, d), Ask(q, "pull", d)
      PROVE  PullsAsked'
    <2>1. \A p \in Pin : asked'[p].pull = IF todo' # <<>> /\ p = q THEN d ELSE asked[p].pull
        BY <1>1, <1>6, AskedPull
    <2>2. CASE todo' = <<>>
        <3>1. \A i \in DOMAIN todo' : todo'[i].op \notin PullOps
            BY <2>2
        <3> QED BY <1>3, <2>1, <2>2, <3>1 DEF PullsAsked
    <2>3. CASE /\ q \in 0 .. 53 /\ d \in 0 .. 2 /\ todo' \in Seq(Acc) /\ Len(todo') = 6
               /\ \A k \in 1 .. 6 : todo'[k] = PullStep(q, d, k)
        <3>1. todo' # <<>>
            <4>1. DOMAIN todo' = 1 .. 6
                BY <2>3
            <4> QED BY <4>1
        <3>2. Pulling(q, d, 1)'
            BY <1>1, <1>2, <2>1, <2>3, <3>1 DEF Pulling, Idle
        <3>3. q \in 0 .. 53 /\ d \in 0 .. 2 /\ 1 \in 1 .. 6
            BY <2>3
        <3> QED BY <3>2, <3>3, Zenon DEF PullsAsked
    <2>4. \/ gpio_set_pud(q, d) = <<>>
          \/ /\ q \in 0 .. 53 /\ d \in 0 .. 2
             /\ gpio_set_pud(q, d) \in Seq(Acc) /\ Len(gpio_set_pud(q, d)) = 6
             /\ \A k \in 1 .. 6 : gpio_set_pud(q, d)[k] = PullStep(q, d, k)
        BY PullCode
    <2> QED BY <1>6, <2>2, <2>3, <2>4
<1>7. ASSUME NEW q \in Nat, NEW v \in {0, 1}, todo' = gpio_write(q, v), Ask(q, "out", v)
      PROVE  PullsAsked'
    <2>1. \A p \in Pin : asked'[p].pull = asked[p].pull
        BY <1>1, <1>7, AskedOut
    <2>2. \A i \in DOMAIN todo' : todo'[i].op \notin PullOps
        <3>1. CASE todo' = <<>>
            BY <3>1
        <3>2. ASSUME NEW op \in {"SET", "CLR"}, todo' = <<[op |-> op, pin |-> q, val |-> v]>>
              PROVE  \A i \in DOMAIN todo' : todo'[i].op \notin PullOps
            BY <3>2 DEF PullOps
        <3> QED BY <1>7, <3>1, <3>2, WriteCode
    <2> QED BY <1>3, <2>1, <2>2 DEF PullsAsked
<1> QED BY Called, <1>4, <1>5, <1>6, <1>7

(* The next access of gpio_set_pud. *)
LEMMA PullingHead ==
    ASSUME UartTypeOK, Order(todo), Advance, NEW p \in 0 .. 53, NEW d \in 0 .. 2,
           NEW k \in 1 .. 6, Pulling(p, d, k)
    PROVE  /\ Access1 = PullStep(p, d, k) /\ Access1.op \in PullOps
           /\ Len(todo') = 7 - (k + 1)
           /\ \A i \in 1 .. 7 - (k + 1) : todo'[i] = PullStep(p, d, i + (k + 1) - 1)
<1>1. /\ Len(todo) = 7 - k /\ \A i \in 1 .. 7 - k : todo[i] = PullStep(p, d, i + k - 1)
    BY DEF Pulling
<1>2. todo[1] = PullStep(p, d, k)
    <2>1. 1 \in 1 .. 7 - k /\ 1 + k - 1 = k
        OBVIOUS
    <2> QED BY <1>1, <2>1
<1>3. Access1 = PullStep(p, d, k) /\ Len(todo') = 7 - (k + 1)
    BY <1>1, <1>2, Advanced
<1>4. PullStep(p, d, k).op \in PullOps
    BY DEF PullStep, PullOps
<1>5. ASSUME NEW i \in 1 .. 7 - (k + 1)
      PROVE  todo'[i] = PullStep(p, d, i + (k + 1) - 1)
    <2>1. i + 1 \in 1 .. 7 - k /\ i + 1 + k - 1 = i + (k + 1) - 1
        OBVIOUS
    <2>2. i \in DOMAIN todo'
        BY <1>1, Advanced
    <2>3. todo'[i] = todo[i + 1]
        BY <2>2, Advanced
    <2> QED BY <1>1, <2>1, <2>3
<1> QED BY <1>3, <1>4, <1>5

LEMMA PullsStep ==
    ASSUME UartAssumption, UartTypeOK, Order(todo), PullsAsked, Next
    PROVE  PullsAsked'
<1>1. CASE notmain \/ kernel
    BY <1>1, PullsCalled
<1>2. ASSUME Advance, Access1.op \notin PullOps, UNCHANGED <<asked, pudclk, pull>>
      PROVE  PullsAsked'
    <2>1. Idle
        BY <1>2, PullingHead DEF PullsAsked
    <2>2. Idle'
        BY <1>2, <2>1, Shift DEF Idle
    <2> QED BY <2>2, Zenon DEF PullsAsked
<1>3. CASE Registers \/ Data \/ DelayMs
    <2>1. Advance /\ Access1.op \notin PullOps /\ UNCHANGED <<asked, pudclk, pull>>
        BY <1>3 DEF Registers, Data, DelayMs, Exec, Advance, gpio, PullOps
    <2> QED BY <1>2, <2>1
<1>4. CASE GpioAccess /\ Access1.op \notin PullOps
    <2>1. Advance /\ UNCHANGED <<asked, pudclk, pull>>
        BY <1>4, GpioExecuted DEF DoGpio, PutFsel, PutLatch, PullOps
    <2> QED BY <1>2, <1>4, <2>1
<1>5. CASE GpioAccess /\ Access1.op \in PullOps
    <2>1. Advance /\ UNCHANGED asked /\ DoGpio(Access1)
        BY <1>5, GpioExecuted
    <2>2. ~Idle
        BY <1>5, <2>1, Shift DEF Idle
    <2>3. PICK p \in 0 .. 53, d \in 0 .. 2, k \in 1 .. 6 : Pulling(p, d, k)
        BY <2>2, Zenon DEF PullsAsked
    <2>4. /\ Access1 = PullStep(p, d, k)
          /\ Len(todo') = 7 - (k + 1)
          /\ \A i \in 1 .. 7 - (k + 1) : todo'[i] = PullStep(p, d, i + (k + 1) - 1)
        BY <2>1, <2>3, PullingHead
    <2> DEFINE w == gpio_pin_to_param_reg(p)
    <2>5. w \in {0, 1} /\ pudclk \in [{0, 1} -> SUBSET (0 .. 31)] /\ todo' \in Seq(Acc)
        BY <2>1, WordBit, Advanced DEF UartTypeOK
    <2>6. ASSUME NEW q \in Pin, gpio_pin_to_param_reg(q) = w, Bit(q) = Bit(p)
          PROVE  q = p
        BY <2>6, SameWordBit, PinAssumption
    <2>7. \A q \in Pin : gpio_pin_to_param_reg(q) \in {0, 1}
        BY WordBit, PinAssumption
    <2>8. CASE k = 1
        <3>1. pud' = d /\ UNCHANGED <<pudclk, pull>>
            BY <2>1, <2>4, <2>8 DEF DoGpio, PullStep, PutPud
        <3>2. Pulling(p, d, 2)'
            BY <2>1, <2>3, <2>4, <2>8, <3>1 DEF Pulling
        <3> QED BY <3>2 DEF PullsAsked
    <2>9. CASE k = 2
        <3>1. UNCHANGED <<pud, pudclk>> /\ \A q \in Pin : pull'[q] = IF Bit(q) \in pudclk[gpio_pin_to_param_reg(q)]
                                               THEN pud ELSE pull[q]
            BY <2>1, <2>4, <2>9 DEF DoGpio, PullStep, DelayUs
        <3>2. \A q \in Pin : pull'[q] = pull[q]
            BY <2>3, <2>7, <2>9, <3>1 DEF Pulling
        <3>3. Pulling(p, d, 3)'
            BY <2>1, <2>3, <2>4, <2>9, <3>1, <3>2 DEF Pulling
        <3> QED BY <3>3 DEF PullsAsked
    <2>10. CASE k = 3
        <3>1. UNCHANGED <<pud, pull>> /\ pudclk' = [pudclk EXCEPT ![w] = {Bit(p)}]
            BY <2>1, <2>4, <2>10 DEF DoGpio, PullStep, PutPudclk
        <3>2. \A reg \in {0, 1} : pudclk'[reg] = IF reg = w THEN {Bit(p)} ELSE {}
            BY <2>3, <2>5, <2>10, <3>1 DEF Pulling
        <3>3. Pulling(p, d, 4)'
            BY <2>1, <2>3, <2>4, <2>10, <3>1, <3>2 DEF Pulling
        <3> QED BY <3>3 DEF PullsAsked
    <2>11. CASE k = 4
        <3>1. UNCHANGED <<pud, pudclk>> /\ \A q \in Pin : pull'[q] = IF Bit(q) \in pudclk[gpio_pin_to_param_reg(q)]
                                               THEN pud ELSE pull[q]
            BY <2>1, <2>4, <2>11 DEF DoGpio, PullStep, DelayUs
        <3>2. pud = d /\ \A reg \in {0, 1} : pudclk[reg] = IF reg = w THEN {Bit(p)} ELSE {}
            BY <2>3, <2>11 DEF Pulling
        <3>3. \A q \in Pin : pull'[q] = IF q = p THEN d ELSE pull[q]
            BY <2>6, <2>7, <3>1, <3>2
        <3>4. Pulling(p, d, 5)'
            BY <2>1, <2>3, <2>4, <2>11, <3>1, <3>2, <3>3 DEF Pulling
        <3> QED BY <3>4 DEF PullsAsked
    <2>12. CASE k = 5
        <3>1. UNCHANGED <<pudclk, pull>>
            BY <2>1, <2>4, <2>12 DEF DoGpio, PullStep, PutPud
        <3>2. Pulling(p, d, 6)'
            BY <2>1, <2>3, <2>4, <2>12, <3>1 DEF Pulling
        <3> QED BY <3>2 DEF PullsAsked
    <2>13. CASE k = 6
        <3>1. UNCHANGED pull /\ pudclk' = [pudclk EXCEPT ![w] = {}]
            BY <2>1, <2>4, <2>13 DEF DoGpio, PullStep, PutPudclk
        <3>2. pudclk'[0] = {} /\ pudclk'[1] = {}
            BY <2>3, <2>5, <2>13, <3>1 DEF Pulling
        <3>3. DOMAIN todo' = {}
            BY <2>4, <2>5, <2>13
        <3>4. ASSUME NEW q \in Pin PROVE pull[q] = asked[q].pull
            <4>1. CASE q = p
                BY <2>3, <2>13, <4>1 DEF Pulling
            <4>2. CASE q # p
                BY <2>3, <4>2 DEF Pulling
            <4> QED BY <4>1, <4>2
        <3>5. Idle'
            BY <2>1, <3>1, <3>2, <3>3, <3>4 DEF Idle
        <3> QED BY <3>5 DEF PullsAsked
    <2> QED BY <2>8, <2>9, <2>10, <2>11, <2>12, <2>13
<1>6. CASE Reset
    <2>1. /\ todo' = boot /\ asked' = UartPins(AtReset) /\ \A p \in Pin : pull'[p] = ResetPull[p]
          /\ pudclk'[0] = {} /\ pudclk'[1] = {}
        BY <1>6, GpioAtReset DEF Reset, boot
    <2>2. Idle'
        BY <2>1, ResetTypes, BootOps DEF Idle
    <2> QED BY <2>2, Zenon DEF PullsAsked
<1>7. CASE Transmit \/ Arrive
    <2>1. UNCHANGED <<pud, pudclk, pull, asked, todo>>
        BY <1>7 DEF Transmit, Arrive, gpio, prog
    <2>2. Idle => Idle'
        BY <2>1 DEF Idle
    <2>3. ASSUME NEW p \in 0 .. 53, NEW d \in 0 .. 2, NEW k \in 1 .. 6, Pulling(p, d, k)
          PROVE  Pulling(p, d, k)'
        BY <2>1, <2>3 DEF Pulling
    <2> QED BY <2>2, <2>3 DEF PullsAsked
<1> QED BY <1>1, <1>3, <1>4, <1>5, <1>6, <1>7 DEF Next

-----------------------------------------------------------------------------
(* Output: while there is a byte to send the transmitter is on, connected
   and in the right format, and what cuts output off comes after a delay. *)
LEMMA DelaysBeforeCuts ==
    ASSUME NEW r \in Programs, NEW j \in DOMAIN r, r[j].op \in Cut
    PROVE  \E i \in DOMAIN r : i < j /\ r[i].op = "DELAY_MS"
<1> USE DEF Plain, Fsel, Cut
<1>1. CASE r = Accept
    <2>1. DOMAIN r = 1 .. 13
        BY <1>1, RoutineTypes, AcceptCode
    <2>2. j > 5
        BY <1>1, <2>1, AcceptCode
    <2> QED BY <1>1, <2>1, <2>2, AcceptCode
<1>2. CASE r = die
    <2>1. DOMAIN r = 1 .. 6
        BY <1>2, RoutineTypes, DieCode
    <2>2. j > 5
        BY <1>2, <2>1, DieCode
    <2> QED BY <1>2, <2>1, <2>2, DieCode
<1>3. CASE r = clean_reboot
    <2>1. DOMAIN r = 1 .. 4
        BY <1>3, RoutineTypes, CleanCode
    <2>2. j > 2
        BY <1>3, <2>1, CleanCode
    <2> QED BY <1>3, <2>1, <2>2, CleanCode
<1>4. CASE r \in {get_uint, put_uint}
    <2>1. DOMAIN r = 1 .. 4
        BY <1>4, RoutineTypes, DataCode
    <2> QED BY <1>4, <2>1, DataCode
<1>5. CASE r = Reg("uart_putc")
    <2>1. DOMAIN r = {1}
        BY <1>5, RoutineTypes, DataCode
    <2> QED BY <1>5, <2>1, DataCode
<1> QED BY <1>1, <1>2, <1>3, <1>4, <1>5 DEF Programs

LEMMA GpioCallOps ==
    ASSUME UartTypeOK, notmain \/ kernel, todo' \notin Programs, UartAssumption
    PROVE  \A i \in DOMAIN todo' : todo'[i].op \in GpioOps
<1> USE DEF GpioOps, PullOps
<1>1. ASSUME NEW q, NEW f, todo' = gpio_set_function(q, f)
      PROVE  \A i \in DOMAIN todo' : todo'[i].op \in GpioOps
    <2>1. todo' = <<>> \/ todo' = <<Fsel(q, f)>>
        BY <1>1, FselCode
    <2> QED BY <2>1 DEF Fsel
<1>2. ASSUME NEW q, NEW d, todo' = gpio_set_pud(q, d)
      PROVE  \A i \in DOMAIN todo' : todo'[i].op \in GpioOps
    <2>1. \A k \in 1 .. 6 : PullStep(q, d, k).op \in GpioOps
        BY DEF PullStep
    <2>2. CASE todo' = <<>>
        BY <2>2
    <2>3. CASE /\ todo' \in Seq(Acc) /\ Len(todo') = 6
               /\ \A k \in 1 .. 6 : todo'[k] = PullStep(q, d, k)
        BY <2>1, <2>3
    <2> QED BY <1>2, <2>2, <2>3, PullCode
<1>3. ASSUME NEW q, NEW v \in {0, 1}, todo' = gpio_write(q, v)
      PROVE  \A i \in DOMAIN todo' : todo'[i].op \in GpioOps
    <2>1. CASE todo' = <<>>
        BY <2>1
    <2>2. ASSUME NEW op \in {"SET", "CLR"}, todo' = <<[op |-> op, pin |-> q, val |-> v]>>
          PROVE  \A i \in DOMAIN todo' : todo'[i].op \in GpioOps
        BY <2>2
    <2> QED BY <1>3, <2>1, <2>2, WriteCode
<1> QED BY Called, <1>1, <1>2, <1>3

LEMMA TxConnected ==
    ASSUME UartAssumption, FunctionsAsked, asked[GPIO_TX].fn = GPIO_FUNC_ALT5,
           ~Pending("FSEL")
    PROVE  Connected(GPIO_TX)
<1>1. GPIO_TX \in Pin
    BY DEF UartAssumption
<1>2. gpio_get_function(GPIO_TX) = asked[GPIO_TX].fn
    BY <1>1 DEF FunctionsAsked, Pending
<1> QED BY <1>2 DEF Connected

(* The call of the bootloader's or the kernel's routine. *)
LEMMA OutputCalled ==
    ASSUME UartAssumption, UartPinsKept, UartTypeOK, Order(todo), Setup, FunctionsAsked,
           Ready, notmain \/ kernel
    PROVE  Ready' /\ Drained'
<1>1. todo = <<>> /\ UNCHANGED <<gpio, uart>>
    BY Called
<1>2. On("TX") /\ Format /\ Connected(GPIO_TX)
    <2>1. aux /\ cntl = {"TX", "RX"}
        BY <1>1, NonePending DEF Setup
    <2>2. Format
        BY <1>1, NonePending, FormatSet
    <2>3. Connected(GPIO_TX)
        BY <1>1, NonePending, TxConnected DEF Ready
    <2> QED BY <2>1, <2>2, <2>3 DEF On
<1>3. (On("TX") /\ Format /\ Connected(GPIO_TX))'
    BY <1>1, <1>2 DEF gpio, uart, On, Format, Connected, gpio_get_function
<1>4. asked'[GPIO_TX].fn = GPIO_FUNC_ALT5
    <2>1. GPIO_TX \in Pin /\ asked \in [Pin -> Wanted] /\ GPIO_TX \notin CallPin
        BY DEF UartAssumption, UartTypeOK, UartPinsKept
    <2>2. asked'[GPIO_TX].fn = asked[GPIO_TX].fn
        <3>1. CASE UNCHANGED asked
            BY <3>1
        <3>2. ASSUME NEW p \in CallPin, NEW f, todo' = gpio_set_function(p, f), Ask(p, "fn", f)
              PROVE  asked'[GPIO_TX].fn = asked[GPIO_TX].fn
            BY <2>1, <3>2, AskedFn
        <3>3. ASSUME NEW p \in CallPin, NEW d, todo' = gpio_set_pud(p, d), Ask(p, "pull", d)
              PROVE  asked'[GPIO_TX].fn = asked[GPIO_TX].fn
            BY <2>1, <3>3, AskedPull
        <3>4. ASSUME NEW p \in CallPin, NEW v \in {0, 1}, todo' = gpio_write(p, v), Ask(p, "out", v)
              PROVE  asked'[GPIO_TX].fn = asked[GPIO_TX].fn
            BY <2>1, <3>4, AskedOut
        <3> QED BY Called, <3>1, <3>2, <3>3, <3>4
    <2> QED BY <2>2 DEF Ready
<1>5. Drained'
    <2>1. CASE todo' \in Programs
        BY <2>1, DelaysBeforeCuts DEF Drained
    <2>2. CASE todo' \notin Programs
        <3>1. \A j \in DOMAIN todo' : todo'[j].op \notin Cut
            BY <2>2, GpioCallOps DEF GpioOps, PullOps, Cut
        <3> QED BY <3>1 DEF Drained
    <2> QED BY <2>1, <2>2
<1> QED BY <1>3, <1>4, <1>5 DEF Ready

(* An access other than uart_putc that leaves the FIFO alone, or empties an
   empty one. *)
LEMMA DrainedKept ==
    ASSUME UartTypeOK, Order(todo), Drained, Advance,
           \/ tx' = tx /\ Access1.op # "DELAY_MS"
           \/ tx' = <<>> /\ Access1.op # "uart_putc"
           \/ Access1.op = "uart_putc"
    PROVE  Drained'
<1>1. ASSUME NEW j \in DOMAIN todo', todo'[j].op \in Cut
      PROVE  \/ tx' = <<>> /\ todo'[1].op # "uart_putc"
             \/ \E i \in DOMAIN todo' : i < j /\ todo'[i].op = "DELAY_MS"
    <2>1. j \in Nat \ {0} /\ j + 1 \in DOMAIN todo /\ todo[j + 1] = todo'[j] /\ 1 \in DOMAIN todo'
        BY Advanced
    <2>2. Access1.op # "uart_putc" => todo'[1].op # "uart_putc"
        BY <2>1, HeadOrder DEF Pending
    <2>3. CASE tx = <<>> /\ todo[1].op # "uart_putc"
        BY <2>2, <2>3, Shift
    <2>4. ASSUME NEW i \in DOMAIN todo, i < j + 1, todo[i].op = "DELAY_MS"
          PROVE  \/ tx' = <<>> /\ todo'[1].op # "uart_putc"
                 \/ \E k \in DOMAIN todo' : k < j /\ todo'[k].op = "DELAY_MS"
        <3>1. CASE i = 1
            BY <2>2, <2>4, <3>1, Shift
        <3>2. CASE i # 1
            <4>1. i - 1 \in DOMAIN todo' /\ todo'[i - 1] = todo[i] /\ i \in Nat
                BY <3>2, Shift, Advanced
            <4>2. i - 1 < j
                BY <2>1, <2>4, <4>1
            <4> QED BY <2>4, <4>1, <4>2
        <3> QED BY <3>1, <3>2
    <2> QED BY <1>1, <2>1, <2>3, <2>4 DEF Drained
<1> QED BY <1>1 DEF Drained

(* At an access that cuts output off, there is none. *)
LEMMA CutDrained ==
    ASSUME UartTypeOK, Order(todo), Drained, Advance, Access1.op \in Cut
    PROVE  tx = <<>> /\ ~Pending("uart_putc")
<1>1. 1 \in DOMAIN todo /\ todo[1] = Access1 /\ DOMAIN todo \subseteq Nat \ {0}
    BY Advanced
<1>2. tx = <<>> /\ todo[1].op # "uart_putc"
    BY <1>1 DEF Drained
<1>3. ~Pending("uart_putc")
    BY <1>1, <1>2, PendingStep, HeadOrder
<1> QED BY <1>2, <1>3

(* The pin stays connected through a write of another pin's function. *)
LEMMA StaysConnected ==
    ASSUME UartAssumption, UartTypeOK, Order(todo), FunctionsAsked, GpioAccess,
           asked[GPIO_TX].fn = GPIO_FUNC_ALT5, Connected(GPIO_TX)
    PROVE  Connected(GPIO_TX)'
<1>1. Advance /\ DoGpio(Access1)
    BY GpioExecuted
<1>2. CASE Access1.op = "FSEL"
    <2>1. PICK a \in Acc : a = Access1
        BY <1>1, Advanced
    <2>2. a.pin \in 0 .. 53 /\ a.val \in 0 .. 7 /\ fsel \in [0 .. 5 -> Nat] /\ PutFsel(a)
        BY <1>1, <1>2, <2>1, AccFields DEF UartTypeOK, DoGpio
    <2>3. /\ gpio_get_function(a.pin)' = a.val
          /\ \A p \in 0 .. 53 \ {a.pin} : gpio_get_function(p)' = gpio_get_function(p)
        BY <2>2, FselEffect
    <2>4. GPIO_TX \in Pin /\ GPIO_TX \in 0 .. 53
        BY DEF UartAssumption, GPIO_TX
    <2>5. CASE a.pin = GPIO_TX
        <3>1. a.val = asked[GPIO_TX].fn
            BY <1>1, <1>2, <2>1, <2>4, <2>5, Shift DEF FunctionsAsked
        <3> QED BY <2>3, <2>5, <3>1 DEF Connected
    <2>6. CASE a.pin # GPIO_TX
        BY <2>3, <2>4, <2>6 DEF Connected
    <2> QED BY <2>5, <2>6
<1>3. CASE Access1.op # "FSEL"
    <2>1. UNCHANGED fsel
        BY <1>1, <1>3 DEF DoGpio, PutLatch, PutPud, PutPudclk, DelayUs
    <2> QED BY <2>1 DEF Connected, gpio_get_function
<1> QED BY <1>2, <1>3

(* A byte appended to a sequence, and one taken from it. *)
LEMMA AppendFacts ==
    ASSUME NEW s \in Seq(Nat), NEW x \in Nat
    PROVE  /\ DOMAIN s = 1 .. Len(s) /\ Len(s) \in Nat
           /\ Len(Append(s, x)) = Len(s) + 1 /\ DOMAIN Append(s, x) = 1 .. Len(s) + 1
           /\ Append(s, x)[Len(s) + 1] = x
           /\ \A i \in 1 .. Len(s) : Append(s, x)[i] = s[i]
OBVIOUS

LEMMA TailFacts ==
    ASSUME NEW s \in Seq(Nat), s # <<>>
    PROVE  /\ Len(s) \in Nat \ {0} /\ Len(Tail(s)) = Len(s) - 1 /\ DOMAIN Tail(s) = 1 .. Len(s) - 1
           /\ Head(s) = s[1] /\ s[1] \in Nat
           /\ \A i \in 1 .. Len(s) - 1 : Tail(s)[i] = s[i + 1]
OBVIOUS

LEMMA NumbersPut ==
    ASSUME NEW s \in Seq(Nat), NEW t \in Seq(Nat), NEW n \in Nat, Numbers(s, t, n)
    PROVE  Numbers(s, Append(t, n + 1), n + 1)
<1> DEFINE u == Append(t, n + 1)
<1>1. /\ Len(u) = Len(t) + 1 /\ u[Len(t) + 1] = n + 1 /\ \A i \in 1 .. Len(t) : u[i] = t[i]
      /\ Len(t) \in Nat /\ Len(s) \in Nat
    BY AppendFacts
<1> HIDE DEF u
<1>2. ASSUME NEW i \in 1 .. Len(u) PROVE u[i] = Len(s) + i
    <2>1. i = Len(t) + 1 \/ i \in 1 .. Len(t)
        BY <1>1
    <2> QED BY <1>1, <2>1 DEF Numbers
<1>3. Numbers(s, u, n + 1)
    BY <1>1, <1>2 DEF Numbers
<1> QED BY <1>3 DEF u

LEMMA NumbersSent ==
    ASSUME NEW s \in Seq(Nat), NEW t \in Seq(Nat), NEW n \in Nat, Numbers(s, t, n), t # <<>>
    PROVE  Numbers(Append(s, Head(t)), Tail(t), n)
<1> DEFINE u == Append(s, Head(t))
<1> DEFINE v == Tail(t)
<1>1. /\ Len(t) \in Nat \ {0} /\ Len(v) = Len(t) - 1 /\ Head(t) = t[1] /\ t[1] \in Nat
      /\ \A i \in 1 .. Len(t) - 1 : v[i] = t[i + 1]
    BY TailFacts
<1>2. /\ Len(u) = Len(s) + 1 /\ u[Len(s) + 1] = t[1] /\ \A i \in 1 .. Len(s) : u[i] = s[i]
      /\ Len(s) \in Nat
    BY <1>1, AppendFacts
<1> HIDE DEF u, v
<1>3. ASSUME NEW i \in 1 .. Len(u) PROVE u[i] = i
    <2>1. i = Len(s) + 1 \/ i \in 1 .. Len(s)
        BY <1>2
    <2>2. t[1] = Len(s) + 1
        BY <1>1 DEF Numbers
    <2> QED BY <1>2, <2>1, <2>2 DEF Numbers
<1>4. ASSUME NEW i \in 1 .. Len(v) PROVE v[i] = Len(u) + i
    <2>1. i + 1 \in 1 .. Len(t) /\ v[i] = t[i + 1] /\ i \in Nat
        BY <1>1
    <2>2. t[i + 1] = Len(s) + (i + 1)
        BY <2>1 DEF Numbers
    <2> QED BY <1>2, <2>1, <2>2
<1>5. Len(u) + Len(v) = n
    <2>1. Len(s) + Len(t) = n
        BY DEF Numbers
    <2>2. Len(u) = Len(s) + 1 /\ Len(v) = Len(t) - 1 /\ Len(s) \in Int /\ Len(t) \in Int
        BY <1>1, <1>2
    <2> QED BY <2>1, <2>2
<1>6. Numbers(u, v, n)
    BY <1>3, <1>4, <1>5 DEF Numbers
<1> QED BY <1>6 DEF u, v

LEMMA NumbersStep ==
    ASSUME UartTypeOK, Numbered,
           \/ UNCHANGED <<tx, sent, put>>
           \/ tx' = Append(tx, put + 1) /\ put' = put + 1 /\ UNCHANGED sent
           \/ tx # <<>> /\ tx' = Tail(tx) /\ sent' = Append(sent, Head(tx)) /\ UNCHANGED put
    PROVE  Numbered'
<1>1. tx \in Seq(Nat) /\ sent \in Seq(Nat) /\ put \in Nat
    BY DEF UartTypeOK
<1> QED BY <1>1, NumbersPut, NumbersSent DEF Numbered

LEMMA OutputStep ==
    ASSUME UartAssumption, UartPinsKept, UartTypeOK, Order(todo), Setup, FunctionsAsked,
           Ready, Drained, Numbered, Next
    PROVE  Ready' /\ Drained' /\ Numbered'
<1>1. CASE notmain \/ kernel
    <2>1. UNCHANGED <<tx, sent, put>>
        BY <1>1, Called DEF uart, line
    <2> QED BY <1>1, <2>1, OutputCalled, NumbersStep
<1>2. CASE Registers
    <2>1. Advance /\ UNCHANGED <<fsel, sent, put, asked>>
        BY <1>2 DEF Registers, Exec, Advance, gpio, line
    <2>2. CASE Access1.op \in Cut
        <3>1. tx = <<>> /\ ~Pending("uart_putc")
            BY <2>1, <2>2, CutDrained
        <3>2. tx' = tx
            BY <1>2, <3>1 DEF Registers, enable_aux, disable_txrx, set_baudrate, set_bitmode,
                              clear_fifo_queues, enable_txrx
        <3>3. ~Pending("uart_putc")'
            BY <2>1, <3>1, PendingStep
        <3>4. Ready'
            BY <2>1, <3>1, <3>2, <3>3 DEF Ready
        <3>5. Drained'
            BY <2>1, <2>2, <3>2, DrainedKept DEF Cut
        <3> QED BY <2>1, <3>2, <3>4, <3>5, NumbersStep
    <2>3. CASE Access1.op \notin Cut
        <3>1. tx' = tx /\ Access1.op # "DELAY_MS"
            BY <1>2, <2>3 DEF Registers, Exec, Cut, enable_aux, set_baudrate, set_bitmode, enable_txrx
        <3>2. (aux => aux') /\ ("TX" \in cntl => "TX" \in cntl') /\ (Format => Format')
            BY <1>2, <2>3 DEF Registers, Exec, Cut, Format, enable_aux, set_baudrate, set_bitmode,
                              enable_txrx
        <3>3. Connected(GPIO_TX)' <=> Connected(GPIO_TX)
            BY <2>1 DEF Connected, gpio_get_function
        <3>4. Pending("uart_putc")' => Pending("uart_putc")
            BY <2>1, PendingStep
        <3>5. Ready'
            BY <2>1, <3>1, <3>2, <3>3, <3>4 DEF Ready, On
        <3>6. Drained'
            BY <2>1, <3>1, DrainedKept
        <3> QED BY <2>1, <3>1, <3>5, <3>6, NumbersStep
    <2> QED BY <2>2, <2>3
<1>3. CASE Data
    <2>1. Advance /\ Access1.op \in {"uart_putc", "uart_getc"}
          /\ UNCHANGED <<fsel, sent, asked, aux, cntl, format>>
        BY <1>3 DEF Data, Exec, Advance, gpio, line, uart_putc, uart_getc
    <2>2. (On("TX") /\ Format /\ Connected(GPIO_TX))' <=> On("TX") /\ Format /\ Connected(GPIO_TX)
        BY <2>1 DEF On, Format, Connected, gpio_get_function
    <2>3. Pending("uart_putc")' => Pending("uart_putc")
        BY <2>1, PendingStep
    <2>4. CASE Access1.op = "uart_putc"
        <3>1. tx' = Append(tx, put + 1) /\ put' = put + 1
            BY <1>3, <2>4 DEF Data, Exec, uart_putc
        <3>2. Pending("uart_putc")
            BY <2>1, <2>4, PendingStep
        <3>3. Ready'
            BY <2>1, <2>2, <3>2 DEF Ready
        <3>4. Drained'
            BY <2>1, <2>4, DrainedKept
        <3> QED BY <2>1, <3>1, <3>3, <3>4, NumbersStep
    <2>5. CASE Access1.op = "uart_getc"
        <3>1. UNCHANGED <<tx, put>>
            BY <1>3, <2>5 DEF Data, Exec, uart_getc
        <3>2. Ready'
            BY <2>1, <2>2, <2>3, <3>1 DEF Ready
        <3>3. Drained'
            BY <2>1, <2>5, <3>1, DrainedKept
        <3> QED BY <2>1, <3>1, <3>2, <3>3, NumbersStep
    <2> QED BY <2>1, <2>4, <2>5
<1>4. CASE GpioAccess
    <2>1. Advance /\ Access1.op \in GpioOps /\ UNCHANGED <<aux, cntl, format, tx, sent, put, asked>>
        BY <1>4, GpioExecuted DEF uart, line
    <2>2. On("TX")' <=> On("TX")
        BY <2>1 DEF On
    <2>3. Format' <=> Format
        BY <2>1 DEF Format
    <2>4. Pending("uart_putc")' => Pending("uart_putc")
        BY <2>1, PendingStep
    <2>5. asked[GPIO_TX].fn = GPIO_FUNC_ALT5 /\ (Connected(GPIO_TX) => Connected(GPIO_TX)')
        BY <1>4, StaysConnected DEF Ready
    <2>6. Ready'
        BY <2>1, <2>2, <2>3, <2>4, <2>5 DEF Ready
    <2>7. Drained'
        BY <2>1, DrainedKept DEF GpioOps, PullOps
    <2> QED BY <2>1, <2>6, <2>7, NumbersStep
<1>5. CASE DelayMs
    <2>1. Advance /\ Access1.op = "DELAY_MS" /\ UNCHANGED <<tx, sent, put, asked>>
        BY <1>5, Executed DEF DelayMs, uart, line
    <2>2. tx = <<>>
        BY <1>5 DEF DelayMs, Ready
    <2>3. ~Pending("uart_putc")'
        BY <2>1, HeadOrder
    <2>4. Ready'
        BY <2>1, <2>2, <2>3 DEF Ready
    <2>5. Drained'
        BY <2>1, <2>2, DrainedKept
    <2> QED BY <2>1, <2>4, <2>5, NumbersStep
<1>6. CASE Reset
    <2>1. /\ todo # <<>> /\ Access1.op = "RESET" /\ todo' = boot /\ asked' = UartPins(AtReset)
          /\ tx' = <<>> /\ UNCHANGED <<sent, put>>
        BY <1>6 DEF Reset, boot, line
    <2>2. tx = <<>>
        <3>1. todo \in Seq(Acc)
            BY DEF UartTypeOK
        <3>2. 1 \in DOMAIN todo /\ todo[1] = Access1 /\ DOMAIN todo \subseteq Nat \ {0}
            BY <2>1, <3>1, Rest DEF Access1
        <3> QED BY <2>1, <3>2 DEF Drained, Cut
    <2>3. ~Pending("uart_putc")'
        BY <2>1, BootOps DEF Pending
    <2>4. asked'[GPIO_TX].fn = GPIO_FUNC_ALT5
        BY <2>1, ResetTypes, UartAssumption DEF UartAssumption, GPIO_FUNC_ALT5
    <2>5. Ready'
        BY <2>1, <2>3, <2>4 DEF Ready
    <2>6. Drained'
        BY <2>1, BootCode DEF Drained, Fsel
    <2> QED BY <2>1, <2>2, <2>5, <2>6, NumbersStep
<1>7. CASE Transmit
    <2>1. On("TX") /\ tx # <<>> /\ tx' = Tail(tx) /\ UNCHANGED <<fsel, aux, cntl, format, todo, asked, put>>
        BY <1>7 DEF Transmit, gpio, prog
    <2>2. Format /\ Connected(GPIO_TX)
        BY <2>1 DEF Ready
    <2>3. sent' = Append(sent, Head(tx))
        BY <1>7, <2>2 DEF Transmit
    <2>4. (On("TX") /\ Format /\ Connected(GPIO_TX))'
        BY <2>1, <2>2 DEF On, Format, Connected, gpio_get_function
    <2>5. Ready'
        BY <2>1, <2>4 DEF Ready
    <2>6. Drained'
        BY <2>1 DEF Drained
    <2> QED BY <2>1, <2>3, <2>5, <2>6, NumbersStep
<1>8. CASE Arrive
    <2>1. UNCHANGED <<fsel, aux, cntl, format, tx, sent, todo, asked, put>>
        BY <1>8 DEF Arrive, gpio, prog
    <2>2. Ready'
        BY <2>1 DEF Ready, On, Format, Connected, gpio_get_function, Pending
    <2>3. Drained'
        BY <2>1 DEF Drained
    <2> QED BY <2>1, <2>2, <2>3, NumbersStep
<1> QED BY <1>1, <1>2, <1>3, <1>4, <1>5, <1>6, <1>7, <1>8 DEF Next

-----------------------------------------------------------------------------
(* Power on. *)
LEMMA Started ==
    ASSUME UartAssumption, Init
    PROVE  /\ UartTypeOK /\ Order(todo) /\ Setup
           /\ Received /\ FunctionsAsked /\ LatchesAsked /\ PullsAsked
           /\ Ready /\ Drained /\ Numbered
<1>1. /\ todo = boot /\ asked = UartPins(AtReset) /\ pc = "boot" /\ calls = 0
      /\ aux = FALSE /\ cntl = {"TX", "RX"} /\ format = {} /\ tx = <<>> /\ rx = <<>>
      /\ sent = <<>> /\ arrived = 0 /\ put = 0 /\ got = <<>>
    BY DEF Init, boot
<1>2. /\ fsel \in [0 .. 5 -> Nat] /\ latch \in [Pin -> {0, 1}] /\ pud = 0
      /\ pudclk \in [{0, 1} -> SUBSET (0 .. 31)] /\ pull \in [Pin -> Nat]
      /\ \A reg \in {0, 1} : pudclk[reg] = {}
      /\ \A p \in Pin : latch[p] = 0 /\ pull[p] = ResetPull[p]
      /\ fsel = [reg \in 0 .. 5 |-> 0]
    BY GpioAtReset DEF Init, ResetGpio
<1>3. todo \in Seq(Acc) /\ Order(todo) /\ asked \in [Pin -> Wanted]
    BY <1>1, ResetTypes, RoutineTypes, RoutineOrder
<1>4. UartTypeOK
    <2>1. cntl \in SUBSET {"TX", "RX"} /\ format \in SUBSET {"8", "115200"}
        BY <1>1
    <2>2. tx \in Seq(Nat) /\ rx \in Seq(Nat) /\ sent \in Seq(Nat) /\ got \in Seq(Nat)
        BY <1>1
    <2> QED BY <1>1, <1>2, <1>3, <2>1, <2>2 DEF UartTypeOK
<1>5. DOMAIN todo = 1 .. 9
    BY <1>1, RoutineTypes, BootCode
<1>6. Setup
    BY <1>1, <1>5, BootCode DEF Setup, Pending, Plain
<1>7. Received
    <2>1. Pending("clear_fifo_queues")
        BY <1>1, <1>5, BootCode DEF Pending, Plain
    <2>2. DOMAIN got = {}
        BY <1>1
    <2> QED BY <2>1, <2>2 DEF Received
<1>8. FunctionsAsked
    <2>1. ASSUME NEW p \in Pin
          PROVE  (gpio_get_function(p) = asked[p].fn \/ FselPending(p)) /\ FselRight(p)
        <3>1. FselRight(p)
            BY <1>1, <1>5, BootCode, ResetTypes DEF FselRight, Plain, Fsel, GPIO_TX, GPIO_RX
        <3>2. CASE p \in {14, 15}
            BY <1>1, <1>5, <3>1, <3>2, BootCode DEF FselPending, Fsel
        <3>3. CASE p \notin {14, 15}
            <4>1. asked[p].fn = 0
                BY <1>1, <3>3, ResetTypes DEF GPIO_TX, GPIO_RX
            <4>2. p \in 0 .. 53 /\ p \div 10 \in 0 .. 5 /\ p % 10 \in 0 .. 9
                BY PinAssumption
            <4>3. gpio_get_function(p) = Field(0, Power(p % 10)) /\ Power(p % 10) \in Powers
                BY <1>2, <4>2, Offset, Offsets
                   DEF gpio_get_function, gpio_pin_to_fsel_reg, gpio_pin_to_fsel_offset, Field
            <4>4. \A m \in Powers : Field(0, m) = 0
                BY DEF Field, Powers
            <4> QED BY <3>1, <4>1, <4>3, <4>4
        <3> QED BY <3>2, <3>3
    <2>2. UartAsked
        BY <1>1, ResetTypes, UartAssumption DEF UartAsked, GPIO_FUNC_ALT5, UartAssumption
    <2> QED BY <2>1, <2>2, FunctionParts
<1>9. LatchesAsked
    BY <1>1, <1>2, ResetTypes, BootOps DEF LatchesAsked
<1>10. PullsAsked
    <2>1. Idle
        BY <1>1, <1>2, ResetTypes, BootOps DEF Idle
    <2> QED BY <2>1 DEF PullsAsked
<1>11. Ready
    <2>1. asked[GPIO_TX].fn = GPIO_FUNC_ALT5
        BY <1>1, ResetTypes, UartAssumption DEF UartAssumption, GPIO_FUNC_ALT5
    <2>2. ~Pending("uart_putc")
        BY <1>1, BootOps DEF Pending
    <2> QED BY <1>1, <2>1, <2>2 DEF Ready
<1>12. Drained
    BY <1>1, BootCode DEF Drained, Fsel
<1>13. Numbered
    <2>1. Len(sent) = 0 /\ Len(tx) = 0
        BY <1>1
    <2> QED BY <1>1, <2>1 DEF Numbered, Numbers
<1> QED BY <1>3, <1>4, <1>6, <1>7, <1>8, <1>9, <1>10, <1>11, <1>12, <1>13

(* Steps of the specification that are stutters. *)
LEMMA Stutter ==
    ASSUME UNCHANGED vars
    PROVE  /\ UartTypeOK => UartTypeOK'
           /\ Order(todo) => Order(todo')
           /\ Setup => Setup'
           /\ Received => Received'
           /\ FunctionsAsked => FunctionsAsked'
           /\ LatchesAsked => LatchesAsked'
           /\ PullsAsked => PullsAsked'
           /\ Ready /\ Drained /\ Numbered => Ready' /\ Drained' /\ Numbered'
<1> USE DEF vars, gpio, uart, line, prog
<1>1. UartTypeOK => UartTypeOK'
    BY DEF UartTypeOK
<1>2. Setup => Setup'
    BY DEF Setup, Pending
<1>3. Received => Received'
    BY DEF Received, Pending
<1>4. FunctionsAsked => FunctionsAsked'
    BY DEF FunctionsAsked, Pending, gpio_get_function
<1>5. LatchesAsked => LatchesAsked'
    BY DEF LatchesAsked
<1>6. PullsAsked => PullsAsked'
    <2>1. UNCHANGED <<pud, pudclk, pull, asked, todo>>
        OBVIOUS
    <2>2. Idle => Idle'
        BY <2>1 DEF Idle
    <2>3. ASSUME NEW p \in 0 .. 53, NEW d \in 0 .. 2, NEW k \in 1 .. 6, Pulling(p, d, k)
          PROVE  Pulling(p, d, k)'
        BY <2>1, <2>3 DEF Pulling
    <2> QED BY <2>2, <2>3 DEF PullsAsked
<1>7. Ready /\ Drained /\ Numbered => Ready' /\ Drained' /\ Numbered'
    BY DEF Ready, Drained, Numbered, On, Format, Connected, gpio_get_function, Pending
<1> QED BY <1>1, <1>2, <1>3, <1>4, <1>5, <1>6, <1>7

Inv == UartTypeOK /\ Order(todo) /\ Setup /\ Received /\ FunctionsAsked /\ LatchesAsked /\ PullsAsked
LEMMA InvAlways == Spec => []Inv
<1>1. Init => Inv
    BY Started, UartAssumption DEF Inv
<1>2. Inv /\ [Next]_vars => Inv'
    <2>1. Inv /\ Next => Inv'
        BY TypeStep, SetupStep, ReceivedStep, FunctionsStep, LatchesStep, PullsStep, UartAssumption
           DEF Inv
    <2>2. Inv /\ UNCHANGED vars => Inv'
        BY Stutter DEF Inv
    <2> QED BY <2>1, <2>2
<1> QED BY <1>1, <1>2, PTL DEF Spec

(* When a call of gpio.h returns, every pin has the function, pull and level
   last asked for it, for all pins, values and depths of the FIFOs, though a
   function is three bits of a register of ten pins and a pull is taken on
   the fourth of six accesses (my-gpio.c, gpio_set_function to gpio_write). *)
THEOREM PinsAsAskedAlways == Spec => []PinsAsAsked
<1>1. Inv => PinsAsAsked
    <2> SUFFICES ASSUME Inv, todo = <<>>, NEW p \in Pin
                 PROVE  /\ gpio_get_function(p) = asked[p].fn /\ pull[p] = asked[p].pull
                        /\ asked[p].fn = GPIO_FUNC_OUTPUT => gpio_read(p) = asked[p].out
        BY DEF PinsAsAsked
    <2>1. gpio_get_function(p) = asked[p].fn
        BY DEF Inv, FunctionsAsked
    <2>2. latch[p] = asked[p].out /\ latch[p] \in {0, 1}
        BY DEF Inv, LatchesAsked, UartTypeOK
    <2>3. pull[p] = asked[p].pull
        <3>1. \A q \in 0 .. 53, d \in 0 .. 2, k \in 1 .. 6 : ~Pulling(q, d, k)
            BY Len(<<>>) = 0 DEF Pulling
        <3> QED BY <3>1 DEF Inv, PullsAsked, Idle
    <2> QED BY <2>1, <2>2, <2>3, ReadLevel
<1> QED BY <1>1, InvAlways, PTL

(* What uart_getc returns came in order and in the driver's format: it reads
   after the FIFOs are cleared, which comes after the format is set
   (my-uart.c, uart_init). *)
THEOREM InputInOrderAlways == Spec => []InputInOrder
<1>1. Inv => InputInOrder
    <2>1. arrived \in Nat /\ Inv => \A n \in 1 .. arrived : n # GARBLED
        BY DEF GARBLED
    <2> QED BY <2>1 DEF Inv, UartTypeOK, Received, InputInOrder
<1> QED BY <1>1, InvAlways, PTL

(* Where the kernel leaves the UART's own pins alone, no byte put is lost,
   garbled or sent twice, through a second uart_init, a reset and any calls
   for other pins: the delays come before what would cut output off
   (bootloader.c, line 132; cs140e-reboot.c, line 35). *)
THEOREM OutputDeliveredAlways ==
    ASSUME UartPinsKept
    PROVE  Spec => []OutputDelivered
<1> DEFINE OutInv == Inv /\ Ready /\ Drained /\ Numbered
<1>1. Init => OutInv
    BY Started, UartAssumption DEF Inv
<1>2. OutInv /\ [Next]_vars => OutInv'
    <2>1. Inv /\ Next => Inv'
        BY TypeStep, SetupStep, ReceivedStep, FunctionsStep, LatchesStep, PullsStep, UartAssumption
           DEF Inv
    <2>2. OutInv /\ Next => Ready' /\ Drained' /\ Numbered'
        BY OutputStep, UartPinsKept, UartAssumption DEF Inv
    <2>3. OutInv /\ UNCHANGED vars => OutInv'
        BY Stutter DEF Inv
    <2> QED BY <2>1, <2>2, <2>3
<1>3. OutInv => OutputDelivered
    <2> SUFFICES ASSUME Inv, Numbered PROVE sent \o tx = [n \in 1 .. put |-> n]
        BY DEF OutputDelivered
    <2>1. sent \in Seq(Nat) /\ tx \in Seq(Nat) /\ put \in Nat
        BY DEF Inv, UartTypeOK
    <2>2. /\ sent \o tx \in Seq(Nat) /\ Len(sent \o tx) = Len(sent) + Len(tx)
          /\ \A i \in 1 .. Len(sent) + Len(tx) :
                (sent \o tx)[i] = IF i <= Len(sent) THEN sent[i] ELSE tx[i - Len(sent)]
        BY <2>1, ConcatProperties
    <2>3. \A i \in 1 .. put : (IF i <= Len(sent) THEN sent[i] ELSE tx[i - Len(sent)]) = i
        BY <2>1 DEF Numbered, Numbers
    <2> DEFINE s == sent \o tx
    <2>4. s \in Seq(Nat) /\ DOMAIN s = 1 .. put /\ \A i \in 1 .. put : s[i] = i
        BY <2>1, <2>2, <2>3 DEF Numbered, Numbers
    <2> HIDE DEF s
    <2>5. s = [n \in 1 .. put |-> n]
        BY <2>4
    <2> QED BY <2>5 DEF s
<1> QED BY <1>1, <1>2, <1>3, PTL DEF Spec
=============================================================================

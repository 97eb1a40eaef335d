-------------------------------- MODULE Uart -------------------------------
(***************************************************************************)
(* my-uart.c on the pins of Gpio, used by the two programs that share the  *)
(* device: the bootloader, and the kernel it branches to, which            *)
(* initialises the UART again while output of the bootloader may still be  *)
(* on its way, and resets the machine at its end.                          *)
(*                                                                         *)
(* Bytes the pi puts are numbered, as are those of the host; GARBLED is    *)
(* one sent or received in another format than 8 bits at 115200 baud.      *)
(***************************************************************************)
EXTENDS Gpio, SequencesExt

CONSTANTS
    FIFO,        \* depth of each FIFO (8)
    CallPin, CallVal,  \* arguments of the kernel's calls to gpio.h
    MaxPut, MaxIn, MaxCalls  \* bounds: bytes put, bytes of the host, calls

GPIO_TX == 14
GPIO_RX == 15
GARBLED == 0
ASSUME UartAssumption ==
    /\ {GPIO_TX, GPIO_RX} \subseteq Pin
    /\ FIFO \in Nat \ {0} /\ CallPin \subseteq Nat /\ CallVal \subseteq Nat

VARIABLES
    aux,       \* low bit of AUXENB
    cntl, format, \* the sets of bits the driver has set in CNTL, LCR and BAUD
    tx, rx,    \* the FIFOs
    sent,      \* bytes that left on the TX line
    arrived,   \* bytes of the host that came on the RX line
    put, got,  \* bytes given to uart_putc, and returned by uart_getc
    pc, todo,  \* the program, and the accesses it has still to do
    asked,     \* the pins as the calls so far want them
    calls
uart == <<aux, cntl, format, tx, rx>>
line == <<sent, arrived>>
prog == <<put, got, pc, todo, calls, asked>>
vars == <<gpio, uart, line, prog>>

-----------------------------------------------------------------------------
(* The driver's routines. *)
init_gpio == gpio_set_function(GPIO_TX, GPIO_FUNC_ALT5)
               \o gpio_set_function(GPIO_RX, GPIO_FUNC_ALT5)
UartPins(a) == [p \in Pin |-> IF p \in {GPIO_TX, GPIO_RX}
                              THEN [a[p] EXCEPT !.fn = GPIO_FUNC_ALT5] ELSE a[p]]
Reg(op) == Access(op, 0, 0)
(* A mutant clears the FIFOs first. *)
uart_init_clears_first ==
    init_gpio \o Reg("AUXENB") \o Reg("clear_fifo_queues") \o Reg("disable_txrx")
      \o Reg("set_baudrate") \o Reg("set_bitmode") \o Reg("enable_txrx")
uart_init ==
    init_gpio \o Reg("AUXENB") \o Reg("disable_txrx")
      \o Reg("set_baudrate") \o Reg("set_bitmode") \o Reg("clear_fifo_queues")
      \o Reg("enable_txrx")
put_uint == Reg("uart_putc") \o Reg("uart_putc") \o Reg("uart_putc") \o Reg("uart_putc")
get_uint == Reg("uart_getc") \o Reg("uart_getc") \o Reg("uart_getc") \o Reg("uart_getc")
delay_ms == Reg("DELAY_MS")
rpi_reboot == delay_ms \o Reg("RESET")

(* The programs, a call at a time. *)
AtReset == [p \in Pin |-> [fn |-> GPIO_FUNC_INPUT, pull |-> ResetPull[p], out |-> 0]]
Init ==
    /\ ResetGpio(fsel, latch, pud, pudclk, pull)
    /\ aux = FALSE /\ cntl = {"TX", "RX"} /\ format = {} /\ tx = <<>> /\ rx = <<>>
    /\ sent = <<>> /\ arrived = 0 /\ put = 0 /\ got = <<>>
    /\ pc = "boot" /\ todo = uart_init \o delay_ms /\ calls = 0
    /\ asked = UartPins(AtReset)

(* A mutant branches to the program without the wait. *)
AcceptAtOnce == put_uint \o uart_init
Accept == put_uint \o delay_ms \o uart_init
die == put_uint \o rpi_reboot
notmain ==
    /\ pc = "boot" /\ todo = <<>>
    /\ \/ todo' = get_uint /\ pc' = "boot"
       \/ put + 4 <= MaxPut /\ todo' = put_uint /\ pc' = "boot"
       \/ put + 4 <= MaxPut /\ todo' = die /\ pc' = "boot"
       \/ put + 4 <= MaxPut /\ todo' = Accept /\ pc' = "kernel"
    /\ UNCHANGED <<gpio, uart, line, put, got, calls, asked>>

(* A call that gpio.h refuses asks for nothing. *)
Ask(pin, field, v) ==
    asked' = IF todo' = <<>> THEN asked ELSE [asked EXCEPT ![pin][field] = v]
clean_reboot == Reg("uart_putc") \o delay_ms \o rpi_reboot
kernel ==
    /\ pc = "kernel" /\ todo = <<>>
    /\ \/ /\ put < MaxPut
          /\ \/ todo' = Reg("uart_putc") /\ pc' = "kernel"
             \/ todo' = clean_reboot /\ pc' = "boot"
          /\ UNCHANGED <<calls, asked>>
       \/ /\ calls < MaxCalls /\ calls' = calls + 1 /\ pc' = "kernel"
          /\ \E pin \in CallPin, v \in CallVal :
                \/ todo' = gpio_set_function(pin, v) /\ Ask(pin, "fn", v)
                \/ todo' = gpio_set_pud(pin, v) /\ Ask(pin, "pull", v)
                \/ todo' = gpio_write(pin, v % 2) /\ Ask(pin, "out", v % 2)
    /\ UNCHANGED <<gpio, uart, line, put, got>>

-----------------------------------------------------------------------------
(* One access of a routine. *)
disable_txrx == cntl' = {} /\ UNCHANGED <<aux, format, tx, rx>>
enable_txrx == cntl' = {"TX", "RX"} /\ UNCHANGED <<aux, format, tx, rx>>
set_baudrate == format' = format \cup {"115200"} /\ UNCHANGED <<aux, cntl, tx, rx>>
set_bitmode == format' = format \cup {"8"} /\ UNCHANGED <<aux, cntl, tx, rx>>
clear_fifo_queues == tx' = <<>> /\ rx' = <<>> /\ UNCHANGED <<aux, cntl, format>>
enable_aux == aux' = TRUE /\ UNCHANGED <<cntl, format, tx, rx>>

uart_putc ==
    /\ Len(tx) < FIFO      \* TX_EMPTY: the FIFO takes a byte
    /\ tx' = Append(tx, put + 1)
    /\ put' = put + 1 /\ UNCHANGED <<aux, cntl, format, rx>>
uart_getc ==
    /\ rx # <<>> /\ got' = Append(got, Head(rx))
    /\ rx' = Tail(rx) /\ UNCHANGED <<aux, cntl, format, tx>>

Access1 == Head(todo)
Exec(op) == todo # <<>> /\ Access1.op = op /\ todo' = Tail(todo) /\ UNCHANGED <<pc, calls, asked>>
On(dir) == aux /\ dir \in cntl
Format == format = {"8", "115200"}
Connected(pin) == gpio_get_function(pin) = GPIO_FUNC_ALT5

Registers ==
    /\ \/ Exec("AUXENB") /\ enable_aux
       \/ Exec("disable_txrx") /\ disable_txrx
       \/ Exec("set_baudrate") /\ set_baudrate
       \/ Exec("set_bitmode") /\ set_bitmode
       \/ Exec("clear_fifo_queues") /\ clear_fifo_queues
       \/ Exec("enable_txrx") /\ enable_txrx
    /\ UNCHANGED <<gpio, line, put, got>>
Data ==
    /\ \/ Exec("uart_putc") /\ uart_putc /\ UNCHANGED got
       \/ Exec("uart_getc") /\ uart_getc /\ UNCHANGED put
    /\ UNCHANGED <<gpio, line>>
GpioAccess ==
    /\ todo # <<>> /\ Exec(Access1.op) /\ DoGpio(Access1)
    /\ UNCHANGED <<uart, line, put, got>>
(* 30 ms and more are longer than the whole FIFO takes. *)
DelayMs ==
    /\ Exec("DELAY_MS") /\ (On("TX") => tx = <<>>)
    /\ UNCHANGED <<gpio, uart, line, put, got>>
(* The watchdog: the machine starts in the bootloader. *)
Reset ==
    /\ todo # <<>> /\ Access1.op = "RESET"
    /\ ResetGpio(fsel', latch', pud', pudclk', pull')
    /\ aux' = FALSE /\ cntl' = {"TX", "RX"} /\ format' = {} /\ tx' = <<>> /\ rx' = <<>>
    /\ pc' = "boot" /\ todo' = uart_init \o delay_ms
    /\ asked' = UartPins(AtReset)
    /\ UNCHANGED <<line, put, got, calls>>

-----------------------------------------------------------------------------
(* The hardware.  A byte leaves the TX FIFO; one arrives, and is lost when
   nobody listens or the FIFO is full. *)
Transmit ==
    /\ On("TX") /\ tx # <<>> /\ tx' = Tail(tx)
    /\ sent' = IF ~Connected(GPIO_TX) THEN sent
               ELSE Append(sent, IF Format THEN Head(tx) ELSE GARBLED)
    /\ UNCHANGED <<gpio, aux, cntl, format, rx, arrived, prog>>
Arrive ==
    /\ arrived < MaxIn /\ arrived' = arrived + 1
    /\ rx' = IF On("RX") /\ Connected(GPIO_RX) /\ Len(rx) < FIFO
             THEN Append(rx, IF Format THEN arrived' ELSE GARBLED) ELSE rx
    /\ UNCHANGED <<gpio, aux, cntl, format, tx, sent, prog>>

Next ==
    \/ notmain \/ kernel
    \/ Registers \/ Data \/ GpioAccess \/ DelayMs \/ Reset
    \/ Transmit \/ Arrive

Spec == Init /\ [][Next]_vars

-----------------------------------------------------------------------------
(* When a call returns, every pin has the function and the pull that the
   last call about it asked for, and an output its level, though pins share
   registers and the pull of one takes six accesses (gpio.h, line 20). *)
PinsAsAsked == todo = <<>> => \A p \in Pin :
    /\ gpio_get_function(p) = asked[p].fn /\ pull[p] = asked[p].pull
    /\ asked[p].fn = GPIO_FUNC_OUTPUT => gpio_read(p) = asked[p].out

(* What the pi puts is what leaves on its line, every byte once and in
   order: the second uart_init, which clears the FIFOs, and the reset come
   when the output before them has left (bootloader.c, line 132;
   cs140e-reboot.c, lines 35 and 51). *)
OutputDelivered == sent \o tx = [n \in 1 .. put |-> n]

(* What uart_getc returns are bytes the host sent, in order and none twice,
   and never one received before the format was set. *)
InputInOrder == \A i, j \in DOMAIN got : got[i] # GARBLED /\ (i < j => got[i] < got[j])
=============================================================================

-------------------------------- MODULE Gpio -------------------------------
(***************************************************************************)
(* my-gpio.c, the pins of the BCM2835: registers that hold several pins    *)
(* each, and the code that reads, changes and writes them.  A routine is   *)
(* the sequence of its accesses, as records of the access, the pin (or     *)
(* register) and the value.                                                *)
(***************************************************************************)
EXTENDS Integers, Sequences

CONSTANT Pin   \* the pins whose state is looked at
ASSUME PinAssumption == Pin \subseteq 0 .. 53

VARIABLES
    fsel,      \* GPFSEL0 to 5: ten pins each, three bits a pin
    latch,     \* output latch, set by GPSET and cleared by GPCLR
    pud,       \* GPPUD, and the two words of GPPUDCLK as sets of bits
    pudclk,
    pull       \* what the pull logic of each pin holds
gpio == <<fsel, latch, pud, pudclk, pull>>

GPIO_FUNC_INPUT == 0
GPIO_FUNC_OUTPUT == 1
GPIO_FUNC_ALT3 == 7
GPIO_FUNC_ALT5 == 2
GPIO_PUD_DISABLE == 0
GPIO_PUD_PULLDOWN == 1
GPIO_PUD_PULLUP == 2

GPIO_PINS == 0 .. 53   \* GPIO_PIN_FIRST to GPIO_PIN_LAST
gpio_is_valid_pin(pin) == pin \in GPIO_PINS
gpio_is_valid_function(f) == f \in GPIO_FUNC_INPUT .. GPIO_FUNC_ALT3
gpio_is_valid_pud(d) == d \in GPIO_PUD_DISABLE .. GPIO_PUD_PULLUP

gpio_pin_to_fsel_reg(pin) == pin \div 10
gpio_pin_to_fsel_offset(pin) == 8 ^ (pin % 10)   \* as a power of two
gpio_pin_to_param_reg(pin) == pin \div 32
Bit(pin) == pin % 32

Access(op, pin, v) == <<[op |-> op, pin |-> pin, val |-> v]>>
gpio_set_function(pin, f) ==
    IF gpio_is_valid_pin(pin) /\ gpio_is_valid_function(f)
    THEN Access("FSEL", pin, f) ELSE <<>>
gpio_write(pin, v) ==
    IF gpio_is_valid_pin(pin) THEN Access(IF v = 0 THEN "CLR" ELSE "SET", pin, v) ELSE <<>>
(* A mutant takes the control signal away at once. *)
set_pud_no_wait(pin, d) ==
    IF gpio_is_valid_pin(pin) /\ gpio_is_valid_pud(d)
    THEN Access("PUD", pin, d) \o Access("DELAY_US", pin, 150)
           \o Access("PUDCLK", pin, 1) \o Access("PUD", pin, GPIO_PUD_DISABLE)
           \o Access("DELAY_US", pin, 150) \o Access("PUDCLK", pin, 0)
    ELSE <<>>
gpio_set_pud(pin, d) ==
    IF gpio_is_valid_pin(pin) /\ gpio_is_valid_pud(d)
    THEN Access("PUD", pin, d) \o Access("DELAY_US", pin, 150)
           \o Access("PUDCLK", pin, 1) \o Access("DELAY_US", pin, 150)
           \o Access("PUD", pin, GPIO_PUD_DISABLE) \o Access("PUDCLK", pin, 0)
    ELSE <<>>

-----------------------------------------------------------------------------
gpio_get_function(pin) ==
    (fsel[gpio_pin_to_fsel_reg(pin)] \div gpio_pin_to_fsel_offset(pin)) % 8

(* An output has the level of its latch, an input with nothing attached
   that of its pull, and the other functions drive their pins themselves. *)
Level(pin) ==
    CASE gpio_get_function(pin) = GPIO_FUNC_OUTPUT -> latch[pin]
      [] gpio_get_function(pin) = GPIO_FUNC_INPUT -> IF pull[pin] = GPIO_PUD_PULLUP THEN 1 ELSE 0
      [] OTHER -> 1
GPLEV(reg) == {Bit(p) : p \in {q \in Pin : gpio_pin_to_param_reg(q) = reg /\ Level(q) = 1}}
gpio_read(pin) == IF Bit(pin) \in GPLEV(gpio_pin_to_param_reg(pin)) THEN 1 ELSE 0

(* The pulls the data sheet gives after a reset (page 102). *)
ResetPull ==
    [p \in Pin |-> CASE p \in 0 .. 8 \cup 34 .. 36 \cup 46 .. 53 -> GPIO_PUD_PULLUP
                     [] p \in {28, 29, 44, 45} -> GPIO_PUD_DISABLE
                     [] OTHER -> GPIO_PUD_PULLDOWN]
ResetGpio(f, l, d, c, pl) ==
    /\ f = [reg \in 0 .. 5 |-> 0] /\ l = [p \in Pin |-> 0]
    /\ d = GPIO_PUD_DISABLE /\ c = [reg \in {0, 1} |-> {}] /\ pl = ResetPull

(* One access.  A pin is written through its register alone: zeroes written
   to GPSET and GPCLR do nothing. *)
PutFsel(a) ==
    LET reg == gpio_pin_to_fsel_reg(a.pin)
        value == fsel[reg] - gpio_get_function(a.pin) * gpio_pin_to_fsel_offset(a.pin)
    IN  /\ fsel' = [fsel EXCEPT ![reg] = value + a.val * gpio_pin_to_fsel_offset(a.pin)]
        /\ UNCHANGED <<latch, pud, pudclk, pull>>
PutLatch(a) ==
    /\ latch' = [p \in Pin |->
          IF gpio_pin_to_param_reg(p) = gpio_pin_to_param_reg(a.pin) /\ Bit(p) = Bit(a.pin)
          THEN a.val ELSE latch[p]]
    /\ UNCHANGED <<fsel, pud, pudclk, pull>>
PutPud(a) == pud' = a.val /\ UNCHANGED <<fsel, latch, pudclk, pull>>
PutPudclk(a) ==
    /\ pudclk' = [pudclk EXCEPT ![gpio_pin_to_param_reg(a.pin)] =
                     IF a.val = 1 THEN {Bit(a.pin)} ELSE {}]
    /\ UNCHANGED <<fsel, latch, pud, pull>>
(* After 150 cycles the pins that are clocked have taken the control signal. *)
DelayUs ==
    /\ pull' = [p \in Pin |-> IF Bit(p) \in pudclk[gpio_pin_to_param_reg(p)]
                              THEN pud ELSE pull[p]]
    /\ UNCHANGED <<fsel, latch, pud, pudclk>>

DoGpio(a) ==
    \/ a.op = "FSEL" /\ PutFsel(a)
    \/ a.op \in {"SET", "CLR"} /\ PutLatch(a)
    \/ a.op = "PUD" /\ PutPud(a)
    \/ a.op = "PUDCLK" /\ PutPudclk(a)
    \/ a.op = "DELAY_US" /\ DelayUs
=============================================================================

# Models and proofs of rpi-vm

TLA+ specifications of the virtual-memory kernel in `src/`, of the drivers it runs on
(`libpi-mine`) and of the serial bootloaders and host tools that load and test it
(`homeworks/1-bootloader`), TLC configurations that check them on small instances, and
TLAPS proofs, for every instance, of the safety properties of the kernel, its drivers, the replay tool and
both bootloaders. Paths are relative to the repository root. A definition that models code
has the name of the function it models wherever TLA+ allows it; `PROJECT.json`
gives the lines of each.

Contents: the system, the modules, the runs, the proofs, what is not covered, what is
left to do.

## 1. The system

rpi-vm runs on one ARM1176 core of a Raspberry Pi, without threads and without
interrupts. What makes it hard to test is not preemption but that several parties act
on the same state: the kernel's client code (`vm_tests` in `driver.c`), the MMU hardware that
walks the tables and caches what it finds, the exception handlers that run in the
middle of any load or store, and devices that send and receive at their own speed.
The bootloaders have two processes on two machines with an unreliable line between
them; the replay tool has two processes joined by a socket.

| Component | State it keeps | Operations | Talks to | Hard behaviour | Correct when |
|---|---|---|---|---|---|
| Descriptors (`mmu.h`, `mmu.c` 220-285, 464-473) | none; bit fields | build section, coarse, large and small descriptors; decode flags; index arithmetic | the hardware walk | a field wider than its bits, wrong index | fields fit their widths; the walk reads what the builder wrote |
| Page table (`mmu.c` 146-157, 287-452) | 4096 first-level entries, one coarse table per megabyte that needs one | `mmu_map_section`, `mmu_map_sm_page`, `mmu_map_lg_page` | kmalloc, section_print | collisions between page sizes, misaligned arguments, a write before an assertion | behaves as a partial function from pages to frames |
| Id pools (`bvec.c`) | a stack of free ids | make, alloc, free | driver | empty pool, double free | an id is in one place |
| Environments (`driver.c` 15-88) | `envs[8]`, three pools, `curr_env` | `env_init`, `env_alloc`, `env_free`, `env_switch_to` | pools, page table, coprocessor 15 | ids that are reused while something still names them | a running environment reaches its own frames |
| MMU control and TLB (`mmu.c` 159-218, `vm-asm.S`, `cp15-arm.c`) | domain, asid, pid, TTBR0, MMU bit; the TLB | enable, disable, set registers; the hardware fills and evicts | environments | cached entries outlive tables | registers are those of `curr_env`; no stale entry is usable |
| Data aborts (`interrupts-asm.S`, `interrupts-c.c`, `driver.c` 594-601) | DFSR, FAR, processor mode | `data_abort_vector`, `handle_page_miss` | page table, kmalloc, reboot | any address can abort, in any order; the handler runs with the MMU on | a miss is served where the stack may grow and harms nothing else |
| Reboot (`cs140e-reboot.c`) | watchdog registers | `clean_reboot`, `rpi_reboot` | MMU | its own write may abort | the machine resets |
| Bootloader, pi side (`bootloader.c`, `start.s`) | protocol position, words copied | `notmain`, `die` | UART | no time-out, power loss | it runs the file that was sent |
| Bootloader, host side (`simple-boot.c`, `my-install.c`, `support.c`, `tty.c`) | protocol position, file | `simple_boot`, `expect`, `read_file` | tty | time-outs, old bytes in the tty, repeated runs | success is reported when the pi accepted the file |
| Traps (`interrupts-asm.S`, `driver.c` 90-585, `vm-start.s`) | banked stack pointers, link and status registers, saved frames, the memory layout | `software_interrupt_asm`, `handle_swi`, `data_abort_asm`, `cpsr_set_mode`, the tests | MMU, layout constants | a trap in a trap, assertions about the layout, a handler's stack that is not mapped | a trap is invisible to the program that takes it |
| Caches (`vm-asm.S`, `mmu.c` 159-224) | control register, write buffer, data cache, BTB, prefetch buffer | `mmu_init`, `mmu_enable`, `mmu_disable`, `mmu_all_cache_on`, `cp15_set_procid_ttbr0` | C code before and after | hardware moves lines and fetches at any time | no store is lost, no stale line or instruction is used |
| Kernel heap (`cs140e-kmalloc.c`) | a pointer | `kmalloc`, `kmalloc_aligned`, `kmalloc_set_start` | all | never gives memory back | partly: its end, as the handler reads it |
| Replay tool (`replay/`) | a log, a socket, a child process | `read_input`, `replay`, `check_success`, `check_crashes` | my-install | time-outs, ends of file, signals, interleaving with the child | a correct program passes, a tolerant one is caught |
| my-install after the transfer (`my-install.c` 20-113, `trace.c`, `echo.c`) | position in `DONE!!!` | `echo`, `done`, hand-off, trace | tty | output arrives in pieces | the session ends at the exit string only |
| XMODEM sample (`sample-code-xmodem/`) | block number, packet position, sum | `notmain`, `xmodem`, `send_block`, `drain` | serial line | queued NAKs, lost bytes | blocks are stored once and in order |
| GPIO (`my-gpio.c`) | function, latch and pull registers | `gpio_set_function`, `gpio_write`, `gpio_set_pud`, reads | pins | shared registers, six accesses for one pull | a call about a pin leaves the others alone |
| UART (`my-uart.c`, reset in `cs140e-reboot.c`) | FIFOs, enables, format | `uart_init`, `uart_getc`, `uart_putc` | both loaders, printk | a second program initialises it again, a reset cuts it off | output and input arrive once and in order |
| PWM, timer | device registers | PWM set-up, delays | UART, GPIO | - | not modelled, but for the delays that Uart and Gpio wait for |
| printk, printing of descriptors, string helpers | none | formatting | all | - | not modelled |

Hazards, each at its line, are in `PROJECT.json` under `hazards` with the properties
that cover them.

## 2. The modules

```
Descriptors <- AddressSpace        abstract address space
     ^             ^ (refinement mapping AS)
     +----------- PageTable <- MCPageTable
                      ^
                  DataAbort <- MCDataAbort, PageTableProofs
IdPool <- Env        <- MCEnv, EnvProofs
Crc32  <- SimpleBoot <- MCSimpleBoot, BootProofs
Echo   <- Replay     <- MCReplay, ReplayProofs
Gpio   <- Uart       <- MCUart, UartProofs
          Caches     <- MCCaches, CachesProofs
          Traps      <- MCTraps, TrapsProofs
          Xmodem     <- MCXmodem, XmodemProofs
```

An arrow points to the module that is extended or instantiated.

**Descriptors** holds the fields of the four descriptor formats as records, the decoding
of the `flags` argument (`FGET_AP` ... `FGET_XN`), the index arithmetic and the
`is_aligned` macro *as written*: `is_aligned(x, 16)` tests four bits of a byte
address and is not a test for 64KB. A bit position is not modelled; a value that
does not fit its field is (the type invariant). `WalkSld` is the hardware's reading
of a second-level entry.

**AddressSpace** is what a caller of `mmu.c` believes: a partial function from 4KB
pages to translations; a map call either maps exactly its pages or, on a collision,
stops the machine.

**PageTable**: `fld` is the first-level table, `cpts` the coarse tables in order of
allocation (kmalloc never reuses memory), `status` is `"panic"` after a failed
assertion. One action per map function. Each covers its argument assertions, the
allocation of a coarse table when the megabyte has none (which comes before the slot
test: a new table is all zeros, so the test passes), the slot test and the
writes. `section_check_valid` is the assertion inside `section_print`, which
`mmu_map_section` calls after it wrote the entry. A large page that does not start
at a multiple of sixteen is refused by `MAX_LARGE_PAGE_IDX` only near the end of a
table. `Walk` is the hardware's walk; `AS` is the refinement mapping: the abstract
`space` is the walk of every page.

**IdPool** is `bvec.c`: a sequence of free ids, allocated from its end. `bvec_alloc` of
an empty pool returns -1, as the `if` in front of its `demand` does.

**Env**: the pools, `envs` (whose slot `NoId` stands for `&envs[-1]`), `curr_env`, the page
tables, the registers `cp15` and the TLB. Client code is part of the model: `careful`
is a client like `vm_tests` (frees an environment once, not the one it runs in, turns
the MMU off before it switches); the other one uses any pointer it was ever given at
any time. `WalkFill` and `Evict` are the hardware: a walk may cache an entry whenever
the MMU is on, and an entry may disappear at any time. Frames are named by the pid
of the environment they were mapped for. `env_free` returns the ids and nothing
else; `env_switch_to` writes the registers and asserts that the MMU is off.

**DataAbort** composes the page table with the abort path. The map calls of a test are a
script; then the program may abort at any of a set of addresses, in any order, and an
imprecise abort may come at any time. `data_abort_vector` has the five outcomes of the
C function; `handle_page_miss` calls `mmu_map_lg_page` of PageTable with the argument the code
computes; `rpi_reboot` writes the watchdog through the MMU, so it may abort too. An
access that is allowed changes nothing and is not an action. What the handler prints
is left out.

**Crc32** is `crc32` of `simple-boot.h` over words as sequences of bytes. The table is
computed from the polynomial; an assumption of the MC module compares the function
with the standard check value and two entries of the source's table.

**SimpleBoot** has one action per `get_uint` of `notmain` and per `put_uint` or `expect` of
`simple_boot`, with the check that follows it. `toPi` and `toUnix` are the bytes on the line and in
the UART and tty buffers. A fault loses one byte anywhere, changes one, kills
my-install or cuts the pi's power. `Sends` drops what a pi that is not reading cannot
buffer. `Start` is a new run of my-install, whatever state the pi is in. What the tty still holds of
earlier runs may be there or gone: the loop that would drain it is under `#if 0` (`my-install.c:165`) and
`TCSANOW` does not flush (`tty.c:65`), so it is the host driver's choice, at each run anew. `harmless`
records whether what a run found could pass for the answers to it: it cannot, unless it begins with an echo that
an ACK follows. `Boot` is simpler than `bootloader.c:96-100`: `uart_init` clears the FIFO before a delay of 500 ms, in
which up to eight bytes are kept and later ones overrun; the model keeps any suffix of up to four of the bytes under
way, and loses none after that.

**Echo** is the recogniser `done` of `my-install.c`: a character at which a partial match fails
is not looked at again, and what follows a NUL in a piece of output is not looked at.

**Replay** has the tool and the program it tests as two processes. The tool parses a
recorded session, plays the pi's half of it and compares the words the program
writes: first as recorded, then with each word of the protocol changed in turn. One
action for each word it writes, each read, the end of file and the time-out of
a read, `is_eof` and `proc_exit_code`. The child runs the script of `simple_boot` and then
`echo`, and does one of four things with a word it did not expect: checks it as my-install does,
ignores it, aborts, or gives up without an error. A log without a word of the protocol has
no rounds of changed words. Whether closing a socket
with unread data resets the other end differs between platforms, so it is a constant.

**Traps** executes the tests of `driver.c` an instruction at a time: `int_part0`-`2` and `vm_part1`-`6`
are sequences of map calls, loads, stores, system calls and assertions, and the
handlers run in stages over banked registers and frames in memory. The constants of
`memmap-constants.h` are operators of the configuration (`RUN_ADVANCED`, `DEBUG_HANDLE_DATA_ABORTS`). An access
that is not mapped aborts, in a handler too. The table is reduced to the addresses
it maps; parts 5 and 6 run in the advanced layout only, as `driver.c:310` has it. A panic calls
`rpi_reboot` (`assert.h:11-14`), whose two stores to the watchdog are one step and go through the MMU: a
behaviour ends in a reset, in the endless loop behind a reboot that did not happen (`hung`), or, without the handler and
its stack, nowhere that can be told (`wild`).

**Caches** executes each routine of `vm-asm.S` one coprocessor instruction at a time between
loads and stores of C code. Stores wait in a write buffer, dirty lines in the data
cache; the BTB and the prefetch buffer are sets of mappings under which they were filled; a write
to the control register takes effect at the next prefetch flush at the latest. Lines
are filled by accesses only, which is the assumption written at `vm-asm.S:227`. The map
functions never call `mmu_sync_pte_mod`, and the tests that turn caches on store descriptors only while the
MMU is off, so `Store` has that as its guard.

**Xmodem** has both programs of the sample, the pi a byte at a time with one disjunct for each
case of its switch. `timer_tick` is the NAK the pi sends every four seconds, for ever, while nothing arrives. A
read of the host may time out when nothing is on its way to it, and need not before the next NAK: that depends on the
tty. With the ten seconds of `tty.c:39` it never does, and `drain` does not end.

**Gpio** turns each function of `gpio.h` into its sequence of register accesses, with the
device behind them: function fields, an output latch, and pulls, which a clock moves
from the pull register to a pin. **Uart** adds the mini UART and its FIFOs, and the two programs that use it
one after the other: the bootloader, which puts and gets words and dies or branches,
and the kernel, which initialises the UART again, puts bytes, calls gpio functions about other
pins and resets. One action is one register access, and the hardware transmits
and receives between any two. Device barriers order accesses that are in program order here.

## 3. The runs

Runs that pass. State counts are of complete state graphs.

| Run | Instance | States | Shows |
|---|---|---|---|
| `pagetable` | `GoodRequests`: ten calls in megabytes 0 and 1, each colliding with another one | 579 | large pages are sixteen equal entries (`ReplicasAgree`); the table implements AddressSpace (`ImplementsAddressSpace`) |
| `pagetable_wild` | `WildRequests`: eleven calls that are misaligned, straddle groups, overlap and carry refused flags | 345 | no coarse table is shared or lost (`TablesOwned`), and a call changes translations in one megabyte only (`OwnMegabyteOnly`), whatever the arguments |
| `env` | two slots, three domains, three asids, one virtual page, four allocations, both clients | 250 786 | ids are partitioned (`IdsPartitioned`) for either client; the careful one never panics the kernel (`NeverPanics`), runs on the registers of `curr_env` (`CurrentIsLoaded`) and reaches no frame of another live environment through the TLB (`NoLiveForeignFrame`) |
| `abort` | the map calls of PART5, PART6 and PART6 with its commented lines; eight addresses each | 908 | types, with the fields' widths (`AbortTypeOK`); a page that was served stays mapped (`ServedStaysMapped`), a miss maps pages of the stack gap only (`GrowthInGapOnly`), and never changes a translation (`TranslationsKept`); with the watchdog mapped a reboot resets (`MappedRebootResets`) |
| `boot` | files of 5 and 10 bytes, one fault, up to sixteen bytes of earlier runs left in the tty or none, runs repeated for ever | 1 156 750 | types (`BootTypeOK`); the pi runs exactly the file that was acknowledged (`RunsWhatWasSent`); success means the pi accepted this run's file, unless a whole echo and ACK were left over (`SuccessMeansLoaded`), and it accepted it at some time in any case (`SuccessMeansAccepted`); every run ends (`EverySessionEnds`); the pi gets out of an abandoned transfer (`PiLeavesTransfer`); a fresh run delivers (`FreshDelivers`) |
| `replay` | nine sessions (whole, interrupted, damaged, with a NUL in the middle or at an end), four kinds of program, both outcomes of a close | 124 537 | types (`ReplayTypeOK`); a program that checks its words is never blamed (`FaithfulPasses`); success means it wrote the words of the log (`SuccessMeansSameWrites`); every word it reads was changed once (`CoversEveryRead`); one that uses a changed word is caught (`ToleranceCaught`); the session ends at the exit string only (`DoneOnlyOnExitString`); the tool ends (`EveryReplayEnds`) |
| `traps` | every test in every configuration, three system calls for each loop of ten thousand | 480 | types (`TrapTypeOK`); a trap changes nothing the program can see but its result (`TrapTransparent`); a handler aborts in a reboot only, or where the program has no stack (`OnlyRebootsFault`); which tests end, with their assertions true, in which configuration, and that no reset succeeds under the MMU (`PartsEnd`) |
| `caches` | a cacheable line, a cacheable line of descriptors, two tables, two values | 11 520 | types (`CacheTypeOK`); a load returns the last store (`LoadsSeeStores`), a walk reads the last descriptor (`WalksSeeStores`), no instruction of another mapping is left (`NoStaleFetch`) |
| `xmodem` | programs of up to two blocks of two bytes out of SOH, EOT and one more; one spoiled byte, timer NAKs at any time and without end | 387 841 | types (`XmodemTypeOK`); blocks are stored once and in order, and success is said of a program that is all there (`BlocksInOrder`) |
| `uart` | FIFOs of two bytes, nine bytes out, four in, two gpio calls out of 48 | 341 877 | no output is cut off or reordered (`OutputDelivered`); input is in order and in the right format (`InputInOrder`); each pin is as the last call about it asked (`PinsAsAsked`) |

Runs in which the code does not do what the repository says (`findings` quotes the line):

| Run | Property | What happens |
|---|---|---|
| `env_stale` | `NoForeignFrame` | allocate, map, run, free, allocate again: the new environment has the old one's domain, and entries cached for the old one still match |
| `abort_grow` | `StackGrows` | the first word below the mapped stack stops the machine instead of growing the stack |

Conditions that a property carries because the code does not promise more:

- `FaithfulPasses` leaves out the changed words where a close with unread data resets the
  socket: `replay.c:209` gives up on the failed read, although the comment at `replay.c:137` lets a read fail.
  It asks for a program that exits, since `WEXITSTATUS` of a signalled child is 0 (`replay.c:77`),
  whatever the comment at `replay.c:70` says.
- `EveryReplayEnds` leaves out output with a NUL, behind which `my-install.c:61` misses the exit string.
- `OnlyRebootsFault` and `PartsEnd` are about every configuration, and `PartsEnd` names those in which a test ends: in the
  layout it is written for (`LayoutFits`) and, if it takes an abort, with `DEBUG_HANDLE_DATA_ABORTS` 0, where the handler
  returns. `handle_swi` asserts that its stack is above `SYS_STACK_ADDR`, which is false in the advanced layout.
  There VM_PART2 to VM_PART4 map a section twice and panic before the MMU is on, which fits the remark that they are broken at
  line 73 of the repository's README; VM_PART1 aborts for ever, as its own stack is not mapped.
- PART5 ends in no configuration. As `README.md:115-127` has it (`RUN_ADVANCED` and `DEBUG_HANDLE_DATA_ABORTS` 1, the
  values in the source), `data_abort_vector` reboots for the null pointer, `rpi_reboot` writes the watchdog, which no test
  maps, and that store aborts in the handler, again and again: the reboot that the README promises does not come.
  Without the handler the test goes on to its panic, whose reboot aborts and returns to an endless loop. So it goes for
  every panic and reboot while the MMU is on.
- No liveness is claimed of Xmodem. `unix-xmodem.c:46-50` takes sending a block again for the remedy against queued
  NAKs. But a timer NAK that the host takes for the answer to a block makes it drain the real ACK and send the block again,
  which the pi, one block further, refuses for ever; and a drain with a read time-out above four seconds does not end.
- `RunsWhatWasSent` is about files that hold no session of their own (`Plain`). A pi that starts while a file is being
  sent to a pi that was not listening takes its words for the protocol's: a file with SOH, a size, a checksum, an ACK,
  data and EOT in it is then a program that runs, even without a fault. After a fault it also depends on the checksum
  telling the file from what was copied.
- `SuccessMeansLoaded` leaves out the runs that find an echo with an ACK behind it in the tty (`harmless`). Such a run
  reports success of a pi that has accepted nothing from it, and TLC reaches one, in 52 steps, where the tty keeps what it
  has: an echo that a killed run did not read puts all answers late by a run, so that the next one reads an old echo,
  gets its file loaded, fails on the NAK that it finds in place of the ACK, and leaves its own echo and ACK to the run
  after it. What is true of these runs too is `SuccessMeansAccepted`: the file is one that the pi accepted,
  in this run or before, so the garbage in the tty (`my-install.c:157-161`) never makes a success of a file that
  was not sent whole.
- `SuccessMeansLoaded` is for one fault (`MaxFaults`). When the first eight bytes of an echo are lost, what is left of
  it is a checksum, which can be the word of an ACK. A changed byte can turn a NAK into an ACK, which is why the
  property asks for `garbled = 0`.
- `BlocksInOrder` says what the host may conclude. A pi that is out of step can take data for EOT and start a program
  that is not all there; the host then reports a failure. The sum of a packet is one byte, so the property is about
  programs in which no shifted packet has a sum that fits, as those of the run are. It is false of the one block 100,
  57: the 57 of the first try is lost, the sum 157 is taken for data, and after two NAKs of the timer the SOH of the
  next try is taken for the sum, which it equals. The pi has then stored 100, 157.

### Bounds, and why they are enough

- *PageTable.* A table entry is touched by the calls that name its megabyte only (that
  is `TablesOwned` and `OwnMegabyteOnly`, both proved), so two megabytes show every interaction. Ten calls in any
  order give every pair of page sizes in both orders, same frame and other frame.
- *Env.* Two slots and three ids: the pools run out of slots first, as 8 against 15
  and 63 do. Four allocations reuse an id twice. One virtual page suffices
  because entries of different pages never meet in a match.
- *DataAbort.* The scripts are the real ones, with the real addresses. The eight
  addresses of a test are chosen at each alignment, next to the heap, next to the
  stack, in overlapping pairs, and outside of both.
- *SimpleBoot.* One fault (`MaxFaults`) anywhere in an unbounded sequence of runs; two files,
  one not a multiple of four and one a word too long for the room below the loader.
  `Limit` and `OwnText` scale 2MB down to three words and two. `Garbled` is the code of ACK: the byte that makes an
  answer of another one. A byte is lost or changed in the first word of its queue, since nobody looks at it before.
  What a run finds left over is bounded by `MaxLeft`, 16 bytes: an echo and one more word; and a
  run that finds something starts when the pi has read all that was sent to it (`~PiCanRead`). Without the second
  bound `RunsWhatWasSent` is false for a reason of its own: a run that takes its answers from the tty can send its ACK
  while the pi is still copying an earlier file from its buffer, and `acked` names the later one.
- *Replay.* `N` is 2 where `replay-driver.c` has 10, so that a run follows another one of its kind. One data word is enough: it
  is the value of the word that ends a transfer, which is the hard case of the log.
- *Traps.* The programs and addresses are the real ones; the two loops of 10000 system calls make
  three (`Calls`), since the third meets the same state as the second. `CFrame`, what the C part of a handler uses of its stack,
  is one page. The proofs hold for any number of calls and for any use that fits the 64KB of a handler's stack.
- *Caches.* One line of either kind and two tables: nothing relates two lines but the
  buffer and the cache, which keep them apart. The sequence of calls is not bounded.
- *Xmodem.* Payloads of two bytes, so a packet has each of its parts; two blocks, so that a
  repeated block and the next one differ. `MaxNoise` bounds what the line spoils. The timer's NAKs are not counted: with
  `MaxQueue` bytes on their way to the host it waits until one is read. The block
  number does not wrap in two blocks.
- *Uart.* `FIFO` scales eight down to two, less than the four bytes of a word, so that writers
  wait. Nine bytes out let an error code, an ACK and a byte of the kernel follow one another
  with a reset in between. The pins share a function register, a word of 32 and a bit number with those of the UART.

### Deadlock

Deadlock is not checked where the program stops or a bound ends the behaviour: a panic
reboots and the models of the page table, the environments and the aborts end there; the replay tool
exits; `uart` runs out of bytes. `boot` and `caches` check it: one side, or the C code, can always move. So do
`traps` and `xmodem`, in which the states that end a behaviour (a reset, an endless loop, a jump to nowhere; a host
that has ended) are named and stutter.

### Fairness

- DataAbort: weak fairness of `data_abort_vector` and `rpi_reboot`. One core executes them without
  preemption; nothing else runs until they end. The program itself is not assumed to
  do anything.
- Traps: weak fairness of `Step`: the core executes.
- SimpleBoot: each side executes when it can (`PiReads`, `UnixRuns`), a pi that is off is
  switched on (`die` reboots it, or its user does), a read that finds nothing ends (VTIME in
  `tty.c`), and whoever runs my-install runs it again. Faults are bounded and not fair.
  All of these but the time-out are weak fairness with its `ENABLED` written out by hand, because
  TLC would recompute every checksum to evaluate it.
- `Timeout` needs the pi to be silent: ten seconds are far more than the pi takes to
  answer a word that it has. A my-install that gives up earlier is the fault `Kill`.
- Replay: weak fairness of the tool and of its child, which the operating system
  schedules. Giving up (`quit`) is never forced.
- Caches, Uart and Xmodem state safety only and assume none.

## 4. The proofs

All theorems hold for every value of the constants that satisfies the named
assumptions; TLC checks the same formulas on the instances above.

**PageTableProofs** has the theorems of PageTable and of DataAbort, which composes it with aborts.
`TablesOwnedAlways`: `Spec => [](TypeOK /\ TablesOwned)`, for every set of
requests with arguments of their C types. The invariant `IInv` is the conjunction of the two:
`TablesOwned` alone is not inductive, since a new table is `Len(cpts) + 1` and the argument needs
every pointer to be in range. The proof has one lemma per map function and one for
the allocation of a coarse table (`CoarseInstalled`).

Under `Disciplined` (addresses aligned to the page's size, one domain in each
megabyte, no small page inside a large one, no section flags that `section_print` refuses):

- `ReplicasAgreeAlways`: a large page is sixteen equal entries.
- `PageTableImplementsAddressSpace`: `Spec => AS!Spec`, step by step.

The invariant `DInv` adds to `IInv` that replicas agree (`SldReplicas`), that a large entry is covered by
a large request (`LargeInside`), that a section with a coarse table has a page mapped
(`NoEmptyTable`: otherwise a refused section would be free in the abstract space), and
that its domain is that of the requests (`DomainKept`). Each condition of `Disciplined` is needed;
`pagetable_wild` drops them all and keeps only the weaker properties. In
particular the domain of a megabyte is fixed by its first page; a client that asks for two in
one megabyte gets the first without notice. And a small page inside a mapped large one passes
the test of bit 1 and replaces one of the sixteen entries, where `mmu.h:150` counts on the collision being seen.

`OwnMegabyteOnlyAlways`: for every set of requests, undisciplined ones included, a call changes
translations in one megabyte only. `AnyOutcome` says of any call what it may change: the entry of its megabyte and the table that entry names; `IInv` says that no other
megabyte names that table (`OtherMegabytes`). The guard `MAX_LARGE_PAGE_IDX` is what bounds the sixteen writes.

The proofs about DataAbort reuse these lemmas. For every script of map calls and every set of
addresses (`TestsAssumption`), under `ScriptsApart` (a test maps no small page into a large one):

- `AbortTypeOKAlways`, `ServedStaysMappedAlways`, `TranslationsKeptAlways`: whatever aborts, in any order,
  types hold, a served page stays mapped, and no existing translation changes.
- `GrowthInGapOnlyAlways`, with `HeapInScript` (each test maps the megabyte of the heap with large pages, and
  the tables fit in it): a miss maps pages between the heap and the stack only.

The invariant `AInv` conjoins `IInv` with three facts. While the table is built its large entries
are those of the script so far (`LargeFromScript`), so no call of the script meets a large page with
a small one. What the script asked for is mapped (`ScriptMapped`). A served page is mapped. For
`GrowthInGapOnly` the argument is that the handler maps from one page *below* the fault, so only
the page at the end of the heap's megabyte could be hit; the script has mapped it,
and the slot test of `mmu_map_lg_page` refuses the whole call.

**EnvProofs** - under `FitsEnvs` (the client holds at most as many environments as `envs[]` has slots;
the environment after the last slot would be written to `&envs[-1]`):

- `IdsPartitionedAlways`: for either client, every id is free or held by one environment.
- `NeverPanicsAlways`: a careful client fails no assertion of the pools, of `mmu_enable` or of `mmu_disable`. A pool that has room for the
  id that comes back is a fact about cardinalities (`RoomToFree`).
- `CurrentIsLoadedAlways`: while a careful client has the MMU on, the registers are those of `curr_env`.
- `IsolationAlways`: its running environment reaches no frame of another live one, whatever the TLB
  holds.

`IdInv` says that the pools have no duplicates and are the exact complements of what is
held. `IsoInv` adds that pids are distinct (`PidsDistinct`), that table pointers are known (`TablesKnown`), that the
registers follow `curr_env` (`Running`), and `EntriesFit`: an entry in a table or in the TLB whose domain is
that of a live environment was not mapped by another live one. This is why stale entries do no
harm while their owner lives, although the TLB is never emptied: the domain register
holds one domain, and live domains differ. The argument fails once an environment is
freed and its domain reused, which is what `env_stale` shows.

**CachesProofs** - for every set of lines, values and page tables and every choice of the
cacheable lines (`CachesAssumption`: no value is the mark `None` of an empty place):

- `LoadsSeeStoresAlways`, `WalksSeeStoresAlways`, `NoStaleFetchAlways` and `CacheTypeOKAlways`.

The invariant `CInv` is a table over the places of each routine. `CtrlInv` says what the argument
in `r0` is, and how much of the control register is in force before and after the write and its
flush. `LineInv` says where the last store to a line is: in the buffer if it is there, else in the
cache, else in memory, and the cache holds a line only while it is on and before the clean of
`mmu_disable_set_asm`. This is why caches that are turned on again with nothing invalidated are
harmless: they are empty. `Walkable` and `DescriptorInv` say from which instruction on no descriptor
may be in the buffer or dirty in the cache; `FetchInv` says which mappings the prefetch buffer and the BTB
can hold. The lemmas `InitAt` to `DisableAt` list the instruction at each place, and there is one
lemma for each action.

**UartProofs** - for any pins that include those of the UART, any depth of the FIFOs, any arguments
of the kernel's calls to `gpio.h` and without bounds on bytes and calls (`UartAssumption`):

- `PinsAsAskedAlways`: when a call returns, every pin has the function, pull and level last asked for.
- `InputInOrderAlways`: what `uart_getc` returns came in order, once and in the driver's format.
- `OutputDeliveredAlways`: what was put is what left on the line and what is in the FIFO, in order. This one has a
  premise, `UartPinsKept`: the kernel's calls are not about pins 14 and 15. A client that takes the
  transmit pin for something else does lose output, and nothing in the code prevents it.

`todo` is the rest of the routine that is being executed, so the invariant `Inv` is about *what is in force or still to
come*. A pin's function is that asked for, unless the last write to it is in `todo` (`FunctionsAsked`,
`LatchesAsked`); a pull is at one of six places of `gpio_set_pud` (`PullsAsked`). `Order` says which accesses
may follow which: the format is set before the FIFOs are cleared, nothing is read before they are, and a reset is last. `Received` says that
a byte in the FIFO is garbled only while the clearing is still to come. For output, `Drained` says that before every
access that cuts output off (the second set-up, a reset) the FIFO is empty or a delay is still to come, and
`Ready` that the transmitter is on whenever there is something to send. The lemmas `FieldWritten` and `FieldKept`
are the arithmetic of `gpio_set_function`: three bits of a word of ten fields are written and the other 27 kept.

**TrapsProofs** - for every choice of configurations, any number of system calls in the loops, and any stack
that the C part of a handler uses within its 64KB (`CFrameAssumption`):

- `TrapTypeOKAlways`; `OnlyRebootsFaultAlways`: in every configuration, an abort is taken in the abort handler at the
  watchdog stores of a reboot only, or where the program's own stack is not mapped; `TrapTransparentAlways`: a system
  call or an abort gives back mode, interrupt mask, stack
  pointers and registers as it found them, but for the result, in any layout.

The tests are written out first, one lemma each (`Int0Code` to `Vm6Code`). Of them the argument needs two things. `TestOutline`:
the MMU is entered and left once, and `swi` comes after `swi_setup_stack`. `Coverage`: in the right layout the map
calls before `enter` cover the stacks and the UART; in the other one two of them collide, so the test panics before it enters. The invariant
`IInv` says where the MMU is on (`Place`), which map calls were made (`Mapping`), the modes and stack
pointers at each stage of a handler (`Modes`, `Pointers`), and that the frame of a handler holds what it will
give back (`Called`, `Aborted`). An abort inside the abort handler remains possible in two cases, which `Nested` names:
the reboot of a handled abort, a panic's included, writes the watchdog, which no test maps, and PART1 in the advanced layout maps no stack.
Neither returns, which is why the trap stays invisible. `data_abort_asm` reloads its stack pointer, so a nested abort that
returned would have lost the outer frame.

**ReplayProofs** - for every program, every file that the tool is given and any number of rounds (`EchoAssumption`,
`ReplayAssumption`):

- `ReplayTypeOKAlways`; `ToleranceCaughtAlways`: a run with a changed word counts as a success only if
  the program refused the word; `DoneOnlyOnExitStringAlways`: the echo ends only after the exit string stood in one
  run in what it printed, whatever the output and however it is cut into pieces.

and under the premise `IsRecording`, that the file is the record of a session with some output:

- `CoversEveryReadOnRecords`: success means that each word the program reads was changed in a run of its own;
- `SuccessMeansSameWritesOnRecords`: success of the run as recorded means that the program wrote the words of the log;
- `FaithfulPassesOnRecords`: a program that checks what it reads is never blamed.

The premise is needed. A word that the tool cannot read is left as it was (`replay.c:153`, `replay.c:207`), so in a log with two equal
words in a row a program that leaves out the second one passes; a log without a word that the program reads
has nothing to change; and an arbitrary log is not what any program writes.

The invariant `Base` holds for any file: the log is the part of it that was parsed, the changed word is one of
the protocol's reads, the words tried are those before it, and an exit with an error is a refusal or a hang-up. On records `SyncInv`
adds where the two processes are while no word is changed: the program is ahead by the bytes of the words it
has written, or behind by the words it has to read. `WroteInv` says that the words written are those of the
script so far. `EchoInv` describes the recogniser: unless it has seen the exit string, what it has printed ends with the
part that is matched. `FaithInv` puts these together: as recorded, the echo has
taken a part of the output that is not done, and all of it is; and a changed word is in the queue at the
program's next read, where it is refused.
The recogniser is a function computed along the output (`Follows`); what it returns is
proved by induction over the set of positions up to which a claim holds (`Induction`).

**BootProofs** - for files of any content and length up to 64KB, any room below the loader and any number of faults of
any kind (`BootAssumption`):

- `BootTypeOKAlways`: neither side leaves its protocol, and `notmain` copies the words of the size and none more.
- `SuccessMeansLoadedAfterAFault`: while at most one thing goes wrong, `my-install` reports success only if `notmain`
  accepted the file in this run, whatever was left in the tty, of any length, but an echo that an ACK follows.
- `RunsWhatWasSentWithoutFaults`: while nothing goes wrong, and when every run finds the tty empty (`DrainedTty`), the
  pi runs the file of the
  last `my-install` that sent ACK, provided that all files are `Plain`: SOH begins nowhere in a session but at its
  start. (`MCSimpleBoot` evaluates this of the files of the run.) Runs of `my-install` may follow each other at any
  time, time out, and meet a pi that is off, that prints error codes, or that is in the middle of an earlier header.
- `RunsWhatWasSentThroughPowerCycles`: the same, with `DrainedTty`, and with any number of faults of which each is a power
  cycle or a byte lost on its way to the host (`HeardByPi`). `my-install` may then have given up on a transfer that
  the pi has still to finish, and have started another.

None of them uses any property of the checksum but that it is a word. `BootInv` adds to the types that a word is
copied only while the size asks for one more (`Copying`) and that the host sends while words are left (`Sending`).
`AnswerInv` is about a run in which the pi has accepted nothing: `Phase` says for each place of the host what can be
in the tty. The pi says error codes and echoes, and an echo begins with the byte 120; so where the host has still to
read `k` bytes of an echo, the byte at `k + 1` is not 5, and neither is the one at `k + 2`, which takes its place when
a byte is lost (`Rest`). The final ACK, which begins with 5, is therefore not read. What `Harmless` asks of leftovers
is just what this needs: that a run which takes them for an echo does not find a 5 behind it either.

`SessionInv` is about the words between the two. With `Sent` for the number of words sent in this run, the pi is
within this run (`Cur`), or in the header of an earlier one, with that many bytes of it left (`Behind`), or it has
still to take the end of the run that sent `acked`, which is all on its way (`Finishing`), or it will take for an ACK
a word that is none (`Refused`). A pi that starts late keeps at most the last word sent, and as files are plain it then
waits for an SOH that does not come (`Missed`): also when one to three bytes are kept, because the bytes of SOH are
four different ones.

The invariant has to say what `my-install` can conclude from an echo, as only then its ACK is read by a pi that
expects it. An answer says nothing unless it may be an echo, that is, unless a byte 120 is in the tty (`Echoed`) or
the host is past the first word of one (`Expects`). Then the pi is in step (`InStep`); or it missed the beginning of
this run; or it has the header still before it (`ToCome`). In the last case what is in the tty was said by the pi
at the end of an earlier header, or before a power cycle, and is no longer than the rest of one echo (`Owed`): none of
it is left where the host waits for the last word. So words are copied only in step or in `Finishing`, and all of them
are the file (`MemoryIsFile`). Lost answers make `toUnix` shorter and never add a byte 120, so they keep all of this; a
power cycle turns "in step" into "missed".

**XmodemProofs** - for programs of any number of blocks, any bytes and any payload size (`XmodemAssumption`), without
bounds on noise and on the NAKs of the timer:

- `XmodemTypeOKAlways`: the pi's index stays within a packet and its sum below 256 for each byte read of it, after
  anything.
- `BlocksInOrderWhenHeard`: under `HeardByPi` (no byte is spoiled on its way to the pi) and until a NAK of the timer
  meets a block (`crossed`), blocks are stored once and in order, and success is said of a program that is all there.
  Answers may be lost or garbled. Data that looks like SOH or EOT does no harm.

`InOrder` says where the pi is for each place of the host. While a block is on its way (`Midway`) the line holds the
rest of the packet, `xstring` its beginning and `crc`, modulo 256, the sum of the data so far: the header adds 1 + b +
(255 - b), which is nothing. Then the block is stored and one answer is on its way (`Answered`). Both sides count
blocks modulo 256. Without the premise the property is false, as section 3 shows: the sum is one byte, and data can
look like a packet to a pi that is out of step.

So every safety property of the runs but one is proved, five of them (`FaithfulPasses`, `SuccessMeansSameWrites`,
`SuccessMeansLoaded`, `RunsWhatWasSent`, `BlocksInOrder`) under premises that exclude the cases named below. Only
model-checked are:

- liveness (`MappedRebootResets`, `PartsEnd`, `EverySessionEnds`, `PiLeavesTransfer`, `FreshDelivers`,
  `EveryReplayEnds`): fairness and `ENABLED` are beyond the prover;
- `SuccessMeansAccepted`, which relates a run to all those before it;
- `RunsWhatWasSent` when a run finds something in the tty;
- `RunsWhatWasSent` after bytes were lost or changed on their way to the pi, or `my-install` was killed: it then rests
  on the checksum telling a file from a damaged copy, which is so for the files of the run and not for all files; and
  it is false for files that hold a session of their own;
- `SuccessMeansLoaded` with more than one fault, and `BlocksInOrder` when bytes to the pi are spoiled: false of some
  files, true of those of the runs.

What `crc32`, `cksum` and the recogniser compute is written as a function along the input. Its steps are proved from
its definition, by induction over the set of positions up to which a claim holds (`Induction`); the theorems of the
library that take an operator are not used.

## 5. What is not covered

- The instruction cache: it is physically tagged, and no test writes code. Descriptors
  stored while the MMU is on and the data cache too: no test does both.
- `mmu_all_cache_off`, `mmu_sync_pte_mod` and `cp15_ttbr1_wr` have no caller. (The last one is defined with
  `TTBR0_SET` at `vm-asm.S:134`, so it would write the other register.)
- The encoding of descriptors into bits, and what any function prints.
- Contents of memory in the page-table modules. A frame has an owner or a number, not data. Traps has
  the bytes the tests look at.
- Exceptions that no instruction or device of the tests raises: prefetch aborts,
  undefined instructions, interrupts.
- The UART's bit timing. In SimpleBoot a word is read or written whole, with the loss of
  single bytes as a fault. In Uart a delay of 30 ms outlasts a whole FIFO, which takes less than one.
- `set_tty_to_8n1` with a time-out below one second, which becomes 0; the programs pass whole seconds.
- A program larger than the room below the loader: copying over the loader is the
  state `"wild"`, about which nothing is said.
- What the branch to an empty file's memory does.
- In the host tools: failures of system calls, the syntax of a trace's line, `handoff_to`, which runs
  another program on the same descriptor, and `destroy_end`, which kills a pid that was already waited for (`replay-driver.c:42`).
- PWM and timer registers, printk and string helpers, the course's own library
  (`libpi.small`, `cs107e-gpio`), binaries, manuals and firmware.

## 6. What is left

1. *Heap*: `kmalloc`, `kmalloc_aligned` and `kmalloc_set_start`, with the tables that `env_free` leaves behind. The code has no
   limit to compare with, so a property needs one that the layout implies: the heap stays below the system stack.
2. *Hand-off*: the second program on the descriptor of `my-install.c`, and the wait of `hand-off.c`.
3. *Proofs*: `RunsWhatWasSent` after a byte is lost on its way to the pi, with a premise on the checksum: that it tells a
   file from the same file with a byte less. The copy is then one byte out of place from the loss on.

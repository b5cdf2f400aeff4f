# Verification of the driver collection

TLA+ models of the device drivers in this repository, TLC configurations that
check them on small instances, and theorems about them that TLAPS proves for
every size. The repository is a collection of small Linux kernel modules; each
directory builds one module with a test script and one or two test programs.

Every driver that keeps state has a model: the two pipes, the RAM disk, the scull
storage that a dozen directories share with the variants that change what protects
it, the timer behind /proc, and the serial and parallel drivers as two machines
joined by a cable.

## 1. Inventory

| Part | State | Operations | Interacts through | Hard behaviour |
|---|---|---|---|---|
| `char_driver/pipe-byte` | buffer, wp, rp, buffer_size, semaphore, two wait queues | open (trims), read, write, close | semaphore, wakeups, signals | checks before the lock; trim under running calls |
| `char_driver/pipe-multibyte` | the same, plus numbers of readers and writers | open (allocates once), read, write, close | the same | calls split around the end of the ring; copies that fail half way |
| `char_driver/scull` | list of quantum sets, global data_size, semaphore; f_pos per file | open (trims), read, write, llseek, close | semaphore | arithmetic on sets and quanta; one file's read changes what another sees |
| `atomic`, `blocking`, `jiffy`, `cpucycle`, `spinlock` | scull's | scull's | plus a wait queue, or a spinlock instead of the semaphore | waiting on an unlocked global |
| `completion` | scull's, and a completion | scull's | the completion only; no lock | calls that overlap; a failed write completes as well |
| `ioctl`, `bitops`, `ioctl-capability` | scull's | plus setting the sizes at run time | plus globals changed without the semaphore | sizes that change under existing data, and in the middle of a call |
| `timer` | scull's, and a timer and a struct per /proc record | plus seq_show and the timer's handler | timer, wait queue, the semaphore | a signal while the timer is pending; a handler without a buffer |
| `scratch_to_driver` | scull's | write at f_pos, growing the list | semaphore | growing and overwriting; a return path without `up` |
| `proc` | scull's in one file, two devices | scull's, and /proc output | a semaphore per device, one data_size | one device's calls move the end of another's data |
| `serial_driver/null`, `handshake`, `interrupt` | UART registers; in the last two a list for the byte; in the last an interrupt handler, a tasklet and data_size | open, read, write, close, `ser_interrupt`, tasklet | registers, RTS/CTS, the interrupt line, a cable | one register set for all programs, no lock; the tasklet against open and close |
| `parallel_driver/compatibility`, `nibble` | port registers | open, read, write, close | strobe and busy lines between two machines | a handshake by polling, with several readers on one line |
| `block_driver/sbull` | data, users, media_change, timer, lock | load, unload, open, release, request, revalidate, timer handler | bd_mutex, spinlock, softirq | timer against open; lock taken in softirq context |
| `simple_modules/*`, `devreg-old`, `parport-led` | none or one constant | registration, constant reads | - | - |

What makes each correct:

- a pipe delivers the bytes in the order they were written, each one once;
  its pointers stay in the ring; the count agrees with the ring; nobody sleeps
  while there is work for him;
- the RAM disk forgets its data exactly when it stayed closed for the delay,
  never while somebody uses it, and cannot deadlock with its timer;
- scull returns the bytes that were last written, never touches storage it does
  not own, and keeps its semaphore balanced on every path; in a variant, a call
  that leaves its storage must have been disturbed by something the lock does
  not cover;
- a record of the timer's /proc file is whole and its handler never writes to
  memory that was freed, unless a signal ended the wait;
- a serial write returns when its byte is on the wire, and the interrupt driver's
  tasklet finds a place for the byte it takes;
- over the parallel port a read returns pieces of calls that were not over when it
  began, in order, and a write that was begun returns.

## 2. Modules

| Module | Models | Extends |
|---|---|---|
| `Kernel` | semaphore, wait queues and signals as the drivers use them (external) | - |
| `BoundedPipe` | abstract: the queue that a pipe promises | - |
| `PipeByte` | `char_driver/pipe-byte` | `Kernel`; instantiates `BoundedPipe` |
| `MCPipeByte` | instance of it for TLC | `PipeByte` |
| `PipeByteProofs` | theorems about it | `PipeByte` |
| `PipeMulti` | `char_driver/pipe-multibyte` | `Kernel` |
| `MCPipeMulti` | instance of it for TLC | `PipeMulti` |
| `PipeMultiProofs` | theorems about it | `PipeMulti` |
| `Sbull` | `block_driver/sbull` | - |
| `MCSbull` | instance of it for TLC | `Sbull` |
| `SbullProofs` | theorems about it | `Sbull` |
| `Scull` | `char_driver/scull`, and what `atomic`, `blocking`, `cpucycle`, `jiffy`, `spinlock` and the file operations of `timer` share with it | `Kernel` |
| `MCScull` | instance of it for TLC | `Scull` |
| `ScullProofs` | theorems about it | `Scull` |
| `QuantumList` | the lists of quantum sets and the copy loops of the six variants below, as something a call may leave | - |
| `ScullIoctl` | `ioctl`, `bitops`, `ioctl-capability` | `QuantumList` |
| `ScullProc` | `proc` | `QuantumList` |
| `ScullCompletion` | `completion` | `QuantumList` |
| `ScullScratch` | `scratch_to_driver` | `QuantumList` |
| `ScullVariants` | the four together, and what is claimed of them | all four |
| `MCScullVariants` | instance of it for TLC | `ScullVariants` |
| `ScullVariantsProofs` | theorems about them | `ScullVariants` |
| `JitTimer` | `seq_show` and `jit_func` of `timer` | - |
| `MCJitTimer` | instance of it for TLC | `JitTimer` |
| `JitTimerProofs` | theorems about it | `JitTimer` |
| `SerialLink` | the three serial drivers, with the UARTs and the cable (external) | - |
| `MCSerialLink` | instance of it for TLC | `SerialLink` |
| `SerialLinkProofs` | theorems about it | `SerialLink` |
| `RegularLink` | abstract: what a link promises on which nobody confirms anything | - |
| `ParallelLink` | the two parallel drivers and the cable | instantiates `RegularLink` |
| `MCParallelLink` | instance of it for TLC | `ParallelLink` |
| `ParallelLinkProofs` | theorems about it | `ParallelLink` |

### How the modules correspond to the code

**Processes.** An open file is a process with a program counter `pc`. Every
place where the driver can lose the CPU *and another process could notice* is a
value of `pc`: before and after `down_interruptible`, between evaluating the
condition of a `wait_event_interruptible` and sleeping on it, between `up` and
`wake_up_interruptible`. Inside a semaphore, steps that touch state read outside
it (`buffer_size`, `data_size`) are kept apart from the others. A closed file may
be opened again without end. A process opened for writing only writes and one
opened for reading only reads, as all the test programs do.

**Kernel.** `Down` takes a free semaphore whatever signals are pending;
`Interrupted` is its failure. `Signal` reaches a process that is blocked or about
to block, and is delivered when the call returns. The drivers print the result of
`wait_event_interruptible` and ignore it, so a signal lets a waiting process go on
to the semaphore *without* its condition: `WriteWait` and `ReadWait` do the same.

**PipeByte.** `wp`, `rp`, `buffer_size` and `allocated` are the fields of
`struct Scullpipe`; pointers are offsets from `buffer`. `num_bytes` is
`write_pipe`'s local, sampled before the wait, without the semaphore. An open for
writing is two steps (trim, allocate). `ring` holds stream positions instead of
characters, so that order and loss are visible; `written`, `taken`, `last` and
`clean` are history only. `WriteCopy` / `WriteAdvance` and `ReadCopy` /
`ReadAdvance` separate the copy from the update of `buffer_size`, which other
processes read without the semaphore.

**PipeMulti.** As above, with calls of `count` bytes in up to two parts.
`FirstPart` may be negative, because the code computes it from a write pointer
that has left the ring: a negative length reaches `copy_from_user` as a huge
`size_t`, and the outcome (refused, or a dead process that keeps the semaphore) is
left open. Copies may fail; the failure paths return where the code does.

**Sbull.** `bd_mutex` serialises open and release; `dev->lock` is explicit,
because a softirq handler that finds it taken on its own CPU would spin for ever:
`sbull_invalidate` needs it free. Loading leaves a device with a disk, without data,
or with a pointer to data that was freed, and the partition scan of `add_disk` arms
the timer; unloading needs closed files and is three steps (`ExitEnter`, `ExitTimer`,
`ExitFree`). `Expire` turns a pending timer into a running
handler at any moment. `DelTimer` is `del_timer_sync`: it removes the timer and
waits for a handler. `lapsed` and `sane` are history.

**Scull.** The list of quantum sets is a record of a heap of lists: how many
quanta were allocated, how many bytes were copied into it, whether it was freed.
`data_size` is the global variable it is in the code. The copy loops run one
quantum per step, with the code's locals in `loop[p]`: `chunk` is `to_read` or
`to_write`, `at` the quantum, `qoff` the offset into it, `rounds` what is left of
`noq`. `FirstQuantum` follows the code in computing the set one too high and
following one less. `driver`, chosen in `Init` and never changed, selects among
the drivers that share this code: reads of `blocking`, `cpucycle`, `jiffy` and
`timer` wait for data first and their writes wake; no signal interrupts the
lock of `spinlock`.

**QuantumList and the variants.** `Scull` shows that its copy loops stay in the
list; in the variants they need not, so the list carries what it really has: `width`
slots in each set's array, quanta dealt `by` so many to a set, of `quantum` bytes,
`blocks` of them. A round that meets a slot or a set the list does not have sends the
program to `astray`, a division by zero or the clearing of an array that was not
allocated to `oops`; from there it is not followed, and what it held stays held.
Under a lock a call is a few steps: one that takes the lock, one per decision, one
per round. `driver` selects the variant. `disturbed` is history, set when something
happens that the driver's lock does not cover, and is defined in each driver's module:

- `ScullIoctl`: a size changed after the list was begun. `ioctl_dev` may come
  between any two passes of `create_scull` and any two rounds of a copy. Sizes
  include zero. `trim_dev` frees as many slots as `qset_size` says *now*.
- `ScullProc`: another device's call set the shared `data_size`.
- `ScullCompletion`: calls overlapped, or a write began beyond position 0. An open for
  writing is two steps: `ComplOpen` frees the list, `ComplTrimmed` clears the pointer.
- `ScullScratch`: a write was not an append of whole quanta. `alloc_bytes`, the
  search for the set to fill (`LastSet`), the search one set too far when
  overwriting, and the read of no bytes that keeps the semaphore (`leaked` is the history
  of it) follow the code.

**JitTimer.** One record of /proc/scullmem is a sequence of steps of the program
(`Show...`) beside a timer and a handler per struct (`jit_func`), which another
processor may run between any two of them. `ljit` is every struct ever allocated;
`live` turns false when it is freed, and a handler that then steps into it goes
`stray`. `timer[l]` is the timer's state and, once it fired, the handler's position.

**SerialLink.** The sender's UART is a holding register `thr` and a shift register
`tsr`, the receiver's a byte `rbr` with its flag `full` that the next byte
overwrites; `Load` and `Arrive` move bytes at any time. `DR` and `LSR_DR` are 0x00 in
the drivers' headers, so the loops that wait for a byte are left at once and are no
states. `heap` holds `data[0]` of every list, one byte being all that is used. In the
interrupt driver an open replaces the list before `request_irq` may refuse it, and
`free_irq` is given another identity than `request_irq` was, so nothing is removed.
`InterruptWrite` and `InterruptFill` (looking up the list, copying into it), and
`TaskletRead` and `TaskletStore`, are separate because others run between them on
another processor.

**ParallelLink.** A call number stands for the byte, with the half it is for nibbles.
Each access to a port is a step, because the other machine looks at the lines at any
time; readers share the receiving machine's busy line and nobody locks it. `begun`,
`returned`, `since` and `got` are the history on which `RegularLink` is stated: a
write begins when its byte is on the data port and ends when it returns, a read
delivers the call numbers of its first and last piece. The refinement mapping is the
identity on these four; `Put` begins a write, `Written` ends it, `Read` and `Done`
bracket a read, and every other step of both drivers is a stutter.

## 3. Runs

| Run | Instance | Shows |
|---|---|---|
| `parallel` | 2 readers, 2 writes, both drivers, fair | the refinement of `RegularLink`; writes return |
| `serial` | 2 writers, 2 readers, 2 calls, 2 lists per machine, one foreign interrupt, signal and failed allocation | what a write waits for, that the tasklet finds storage after closes and refused opens |
| `serial_reopen` | 1 writer, 1 reader, 1 call, 2 lists per machine, no failed allocation | violation: a closed interrupt driver cannot be opened again |
| `serial_wakes` | 1 writer, 1 reader, fair | violation: a byte does not wake the reader that waits for it |
| `jit_timer` | 2 programs, 2 records, 1 to 3 lines of room, 1 signal, fair | whole records, no use after free, waits end |
| `scull_variants` | five variants: 2 programs, 2 devices, quanta of 3 and sets of 2 to begin with, sizes 0 and 2, counts 0, 3, 8, 9 and 10 on a device that takes 9, 2 lists | what has to happen before a call leaves its list; locks; the end of the data |
| `pipe_byte` | 2 writers, 2 readers, 3 slots, no new write after 4 bytes, 1 signal | the refinement of `BoundedPipe`, the ring, how far the unlocked checks let the count drift, and that no wakeup is lost |
| `pipe_multi` | 2 writers, 1 reader, 3 slots, calls for 2 or 3 bytes, 1 signal, 1 failed copy | what the clamps under the semaphore still guarantee |
| `pipe_multi_wrap` | 1 writer, 1 reader | violation: `wp` leaves the ring |
| `pipe_multi_test` | the two test programs, fair | violation: a writer sleeps for ever |
| `sbull` | 3 programs, 1 sector, loaded and unloaded, fair | sanity check, lock, timer, when the data is blanked, opens return, no handler without its module |
| `scull` | 1 writer, 2 readers, quanta of 2, sets of 2, writes of up to 6 bytes, 2 lists, 1 signal | every round of every copy stays in live, allocated quanta, at the right position |

**Why the bounds are enough.** Two processes of a kind are what the hazards need:
two writers that pass the same unlocked check, two readers after the same byte,
one process that sleeps while another is between `up` and the wakeup. The ring
wraps within three slots and fills and empties within four bytes; in `pipe_multi`
calls of two and three bytes on three slots split at every offset. One signal
shows each consequence of ignoring the interrupted wait; further signals repeat
it, which is why the two bounds on the count are stated with `signals` as a term.
In `scull` a write of five bytes takes a second set, offset 4 is the exact start
of it, the counts cover none, less than two quanta with a rest, a second set, and
more than the device; two lists are an old one and its replacement. Quanta of
three, sets of two and devices of thirteen were also explored. `Drivers` holds one
driver of each of the two kinds that interleave differently; `spinlock` allows a
subset of the steps of `scull`. The proofs do not depend on any of these sizes.

In `scull_variants` quanta of three let an end fall one or two bytes short of a
quantum, which is what the arithmetic of `scratch_to_driver` mistakes; a count of 0 reads
nothing, 3 is a whole quantum, 8 a set and a rest, 10 refused. A size of 2 makes quanta
shorter than those of the list there is, and 0 is divided by; 9 bytes fill a list to its
last byte, so that a read from position 8 with a shorter quantum passes the end, which
matters while that list is being replaced (see `EndWithinList` in section 4). Sizes that
also grow (0, 2 and 3, with counts 0, 8, 9 and 10) were explored and hold too; the
proofs cover all of them.
`Admins` is empty: `ioctl-capability` with privileged programs is `ioctl`, and `bitops`
makes the same calls. `MaxEnd` stops the growth of `scratch_to_driver` at two sets and
`MaxDone` an endless store of completions. In `parallel` two writes let a read span
both and begin after one; two readers take the shared busy line from one another.
In `serial` two writers overtake one another in the holding register, and two lists
are one that is in use and its replacement.

Deadlock is not checked in the pipes, `scull` and its variants: all processes may
rightly sleep (readers on an empty pipe), the bounds stop new calls, and a process
that dies inside the semaphore stops the others. On the links a program waits for
ever if the other end never calls, and in `jit_timer` one without room for the
handler's lines sleeps until a signal. Deadlock is checked in `sbull`.

**What the properties of the variants say.** `SteadyCallsHold` (locked variants) and
`LoneCallsHold` (`completion`, and `scratch_to_driver` with its arithmetic) do not say
that no call leaves its list, which the code does not guarantee; they say that *only*
the disturbance named above makes one do so. Where data ends when nothing disturbed
it and no write is changing the list is `EndWithinList`. A call of `completion` that
begins in a list which another program is freeing disturbs the device and leaves the list
in one step, so there the disturbance may come with the step. `LocksReturned` says that
every path gives the lock back, and that a lock of `scratch_to_driver` is missing only
after a read of no bytes (`leaked` records who made one): an `up` forgotten on any other
path of that driver is found, as the mutant of the property shows. `CommitsWhole` and `HandlerFindsStruct` say the same of the timer with
a signal as the disturbance, `TaskletFindsStorage` of the tasklet with a failed
allocation.

**Fairness.** In `pipe_multi_test` a process that can take a step inside a call
eventually does (weak fairness of the calls' steps: the scheduler runs it), one
that waits for the semaphore eventually gets it if it is freed again and again
(strong fairness: the kernel's semaphore queues waiters first come, first
served), and the test's reader keeps reading because its loop does. The other runs of
the pipes and of scull assume no fairness: what makes their calls end is stated as
invariants, that the semaphore comes back (`SemExclusive`) and that nobody sleeps through
his wakeup (`NoLostWakeup`, `SleepingReaderWillBeWoken`). No program is obliged to open,
read or write. In
`sbull` time passes (the timer expires), softirqs run and a call that is entered
goes on; no program has to open or release, and nobody to load or unload. In `parallel` and `serial_wakes` a call
that was begun goes on (both ends poll, so the scheduler is all it needs), the UART
shifts and interrupts and tasklets are delivered. In `jit_timer` a program that is
past the semaphore goes on, and timers fire and their handlers run.

**Findings.** Four places where the code does something other than it says:

- `pipe-multibyte/read_pipe.c:60` advances `wp` where it handles the rest of a
  split *read*. The write pointer leaves the ring (`pipe_multi_wrap`), and a later
  write computes a negative length. Reads stay within the ring all the same, and
  the count stays right (`ReadsStayInRing`, `CountInBounds`).
- `pipe-multibyte/write_pipe.c:27` waits for a condition on a local variable, so a
  writer that found the pipe full is never released except by a signal
  (`pipe_multi_test`); the test's own `writer.c` gets into it.
- `serial_driver/interrupt/close_dev.c:12` gives `free_irq` the identity `DEV_NAME` where
  `request_irq` was given `lsculldev`: nothing is removed, and every later open is refused
  although nobody has the device open (`serial_reopen`), while the directory's
  `test_module` asks for programs that open it a second time.
- `serial_driver/interrupt/ser_interrupt.c:9` takes bit 0 of the interrupt
  identification for "mine" when it means "none pending": the handler turns its own
  interrupts away, and a byte that arrives does not wake the reader
  (`serial_wakes`). What wakes it is an interrupt of another device on the line.

What the code does and no document denies is stated in the properties instead:
in `PipeByte` the count overruns and underruns by at most one for every process
and signal (`OverrunBound`, `UnderrunBound`), in `Scull` a read that begins at the
exact start of a later set gets the set before (`Behind`), short calls move up to
a quantum more than asked (`MovesWhatWasAsked` says which do not), and lists leak
when a second write follows without an open between or memory runs out
(`LeaksOnlyReplaced` says that nothing else leaks). On
the links bytes are lost and read twice, which `RegularLink` allows and says the limits
of.

## 4. Proofs

TLAPS proves, for all values of the constants allowed by the assumptions of the
modules, every invariant and every action property that the runs check.
`KernelAssumption` and `SerialAssumption` say that readers and writers are disjoint
finite sets; `PipeAssumption`, `PipeMultiAssumption`, `SbullAssumption`,
`ScullAssumption`, `ListAssumption` and `JitAssumption` that sizes, counts, offsets and
bounds are natural numbers, positive where the code fixes them so, and that the drivers
are some of those modelled. The sizes of `ListAssumption` may be zero, as
`ioctl_dev` lets them be. The theorems about the parallel drivers use no assumption.

| Theorem | States |
|---|---|
| `PipeByteProofs!TypeCorrect`, `SemaphoreExclusion` | types; one process inside the semaphore, and none left behind |
| `PipeByteProofs!PointersStayInRing`, `RingIsQueue`, `OrderedDelivery` | the ring is a queue until a write finds it full or a read finds it empty, and pointers stay in it even after |
| `PipeByteProofs!ImplementsBoundedPipe` | `PipeByte` implements `BoundedPipe`, for any number of writers and readers and any ring |
| `PipeByteProofs!WritersOverrunAtMost`, `ReadersUnderrunAtMost` | the count leaves the ring by at most one per process and signal, upwards and downwards |
| `PipeByteProofs!NobodySleepsReady` | no wakeup is lost, for readers and for writers |
| `PipeMultiProofs!TypeCorrect`, `CountStaysInBounds`, `ReadsInRing` | types; the count is right and reads stay in the ring, although `wp` does not |
| `PipeMultiProofs!QueueInRing` | the ring is a queue as long as no call was split |
| `PipeMultiProofs!SleeperIsWoken` | who wakes a reader that sleeps on data |
| `SbullProofs!TypeCorrect`, `SanityCheck`, `NoSpinInSoftirq`, `TimerDiscipline`, `BlankedAfterDelay`, `TimerEndsWithModule` | all safety properties of the RAM disk |
| `ScullProofs!TypeCorrect`, `LockExclusion` | types; the lock |
| `ScullProofs!CopiesStayInLiveList`, `CopiesStayAllocated`, `ReadsAtPosition`, `MovesAsked` | the copy loops, for any sizes, counts and positions |
| `ScullProofs!NoOtherLeak`, `NobodySleepsOnData` | leaks; wakeups |
| `ScullVariantsProofs!TypeCorrect`, `LocksAreReturned` | types; the locks of the variants |
| `ScullVariantsProofs!EndsWithinLists` | where the data of an undisturbed device ends |
| `ScullVariantsProofs!SteadyCalls`, `LoneCalls` | only the disturbance named for each driver makes a call leave its list |
| `JitTimerProofs!TypeCorrect`, `WholeRecords`, `StructOutlivesHandler` | types; only a signal spoils a record, or the handler's struct |
| `SerialLinkProofs!TypeCorrect`, `WireWait`, `TaskletHasList` | all safety properties of the serial drivers |
| `ParallelLinkProofs!TypeCorrect` | types |
| `ParallelLinkProofs!ImplementsLink` | `ParallelLink` implements `RegularLink`, for any number of readers and writes |

**The arguments.** Types and control come first, then exclusion under the
semaphore from control alone; everything else uses both.

*PipeByte.* `RingHoldsUnread` is not inductive: between the copy and the update of
the count the newest byte is in the ring and not counted, and while an open holds
the semaphore the ring is gone. `RingInv` adds what holds at those points (an
opening device is pristine, the count is the difference of the histories, `clean`
means what it says inside the semaphore). Steps that touch neither the device nor
those points are dealt with by one lemma. The same invariant carries the refinement of
`BoundedPipe`: the mapped queue starts behind the byte that a reader has copied and not
counted yet and ends with the one that a writer has stored and not counted yet, so a byte
goes in and comes out at the copies, and the updates of pointers and count that follow
are stutters. `RingInv` says that this queue is a run of consecutive numbers; three lemmas
about such runs (`NumbersLen`, `NumbersAppend`, `NumbersTail`) reduce the steps of the
queue to sums. The promise ends (`Break`) only at a full or an empty queue, and an open
for writing is `Clear`. `OverrunBound` counts the writers
that are admitted, that is whose stale sample allows them to go on or who are about
to be released by a signal: a writer that stores a byte stops being admitted, a
signal admits one at most, and a new sample admits only below the limit.
`UnderrunBound` is its mirror image: a reader that saw a byte, or that a signal releases,
has a claim, and an open for writing that takes all bytes away leaves at most one claim
for each reader. `ClaimInv` adds that no signal outlives the call it interrupted, so that
a new call begins without a claim. `NoLostWakeup` is inductive
once types are known: a sleeper was refused by what it sampled or saw, a writer that
counted a byte stays before its wakeup until it made it, and a signal takes its sleeper
out of the queue.

*PipeMulti.* `PipeInv` is a conjunction. `SemInv` is exclusion; `CountInv` says that the
clamps are computed under the semaphore from a count that nobody else moves before the
call ends, so what the second part of a split call has left to do still fits; `QueueInv`
ties the ring to the histories while `clean`, byte by byte, from `rp` on and around the
end; `WakeInv` says that a sleeping reader with data has a writer between its copy and
its wakeup, or that a write was torn. That `FirstPart` splits where it should is proved first,
about the operators alone.

*Sbull.* `SbullInv` ties `users`, the timer, the handler and `lapsed` to where the
processes are, and both to whether the driver is loaded.

*Scull.* `DataInv` says that the device's list is live and holds `data_size`
bytes unless a write is filling it, and of every copy loop (`LoopOK`) that the
rounds it has left fit between its quantum and the end of the list, that it is at
its position, and that its chunk is a whole quantum except for the last. That
`data_size` outlives lists and is moved by reads is harmless for one reason the
invariant makes explicit: every list is made for exactly the write that sets
`data_size`, and reads move it only up to the end of a quantum they were entitled
to. The arithmetic (rounding up, uniqueness of quotient and remainder) is proved
first, from nothing. `NobodySleepsOnData` needs in addition that only the drivers
whose reads wait have sleepers, and that a finished read found data before it.

*ScullVariants.* The invariant `Inv` is `Base`, the locks and one part per driver. `Base`
holds whatever disturbs a device: types, which sizes and devices a driver can change at
all (`FixedInv`), that lists of devices are live, distinct, and not the one being made
(`LiveInv`), and that a loop with bytes to copy has a chunk to copy (`StepInv`), without
which a call could stop making progress. Under a lock one program is in a call, so a step
can break only its own part of the rest. Then, driver by driver:

- run-time sizes (`RunTimeInv`): with nothing disturbed the list was begun with the sizes
  of now, so a finished list holds `DivUp(total, quantum)` quanta in arrays of `qset`
  slots (`Sound`), and a loop fits it (`WriteFits`, `ReadFits`): its index plus the
  rounds it has left stay below the quanta there are. While a list is made the old one
  hangs on the device and fits nothing, which is why `EndWithinList` excepts those
  steps; the attempt to prove it without that exception showed that the exception was
  too narrow, and the sizes, counts and positions of the run were chosen anew so that
  TLC meets the case.
- two devices (`ProcInv`): lists are always sound, only the end may be another device's.
- completion (`ComplInv`): without any lock, what takes the lock's place is that an
  undisturbed device has no call in its list beside a write. A list that is freed while
  the device still names it (`ComplList`) has somebody between the frees and the
  assignment that clears the pointer, and that alone disturbs whoever begins in it.
- growing (`ScratchInv`): as long as writes append whole quanta of 3 the end is a
  multiple of 3, the last set is the one `LastSet` finds, and growing it gives room for
  exactly the count (`Appending`); a read stays below the end it started under.

`SteadyCalls` and `LoneCalls` follow for each step that begins a call, copies a round or
finishes a list, because a fitting loop has the slot and the quantum it is about to use.

*JitTimer.* `JitInv` gives every struct at most one program, and says of a struct whose
program was not signalled which lines were committed at each state of its timer: `flag`
goes up after the second line, and the struct is freed only after `flag`, or a
signal, ended the wait.

*SerialLink.* `TypeInv` strengthens the types by where lists are (a device's list is
among those allocated). `TaskletInv` adds that an installed handler implies a
list, for as long as every allocation succeeded. `WritesWaitForTheWire` is inductive by
itself once types are known: only a program that polls leaves the byte in the UART.

*ParallelLink.* `WriterInv` says where the writer is between two calls and that the
strobe is up only during one, while the data port shows that call. `ReaderInv` says of
each reader that what it holds, and what a strobe it has seen promises it, belongs to
calls after `since` and not after `begun`, in order. The reader's second look needs no
lock: pieces are taken from the port at the moment they are stored, and the call on
the port only grows. With both invariants `StepRefines` maps every step to one of
`RegularLink` or to a stutter, action by action.

**Only model-checked.** Liveness under fairness (`OpenReturns`, `IdleDiskForgets`, `WriteReturns`, `WaitEnds`),
which is out of the prover's reach. The four violations are counterexamples and not
theorems. Nothing else that a run checks is without a theorem.

## 5. What is not modelled

- Loading and unloading of the other drivers (`init.c`, `cleanup.c`): the devices start
  initialised. That a failed `init.c` undoes nothing is therefore not seen. What the
  second `vfree` of a failed `sbull` device does, and `del_timer_sync` of a timer that
  was never initialised, which is taken to return.
- Files opened for both directions in the pipes and `scull`, and several devices of
  one module except in `ScullProc`, where the race on the shared `data_size` is shown
  on the code of `proc`, the same as that of `scull`.
- Negative offsets for `llseek`, and user addresses that fail half way in
  `scull` and its variants, which the code only logs. Negative sizes in `ioctl`.
- In `ScullIoctl`, a size that changes *within* a pass of `create_scull` or a round of
  a copy: it is taken to come before or after.
- What a call finds in memory that is not its list's. `astray` and `oops` end what is
  followed of a program.
- In `ScullScratch`, files opened write-only, whose open runs `trim_dev` on a flag that
  nothing initialised; neither of the applications opens one.
- In `SerialLink`, an array that could not be allocated and is cleared all the same
  (an oops that keeps the semaphore of open), and baud rates and parity.
- Two programs writing on one parallel port: the applications use one on each end.
- `num_writer` and `num_reader` of `pipe-multibyte`, which are only logged.
- In `Sbull`, requests that are not for file-system data: `sbull_request` refuses them
  without touching the disk, and nothing in the repository sends one.
- In `JitTimer`, a buffer with less than one line left, which the first line of a record
  would overrun before `seq_commit` counts it: room is a number of whole lines.
- Time measured by `cpucycle`, `jiffy` and `timer`, and the formatting of /proc.
- `simple_modules/*`, `devreg-old`, `parport-led`: no state to speak of. They register
  themselves, return constants, and write one register per call.

## 6. Plan

The plan is carried out. What could follow: `PipeMulti` as a `BoundedPipe` of bytes while
no call is split, whose puts and gets would be runs of bytes instead of single ones.

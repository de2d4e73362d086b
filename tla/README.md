# A TLA+ model of the DDI EtherCAT master SDK, its operating system layer and a calibration test

This directory models the concurrent and stateful parts of the SDK in
`src/ddi_ecat_master_lib`, of the operating system layer and the utilities in
`src/ddi_common_lib` it is built on, and of the thermocouple calibration in
`src/fat_tests`. TLC checks small instances; TLAPS proves the safety of all
of them for every value of their constants. `PROJECT.json` lists, in
a form tools can read, what this file explains: components, runs, the source
lines each definition stands for, hazards, findings and theorems.

Contents: 1 the system, 2 the models, 3 the runs, 4 the proofs, 5 where the
code and its documentation part, 6 what is not modelled, 7 what is left.

## 1. The system

The repository is a Linux SDK for EtherCAT masters, its factory test suite and
its calibration tools. It drives the EC-Master stack of acontis (vendored,
`src/acontis_lib`). An application calls the SDK from its own threads; each
master has one *cyclic thread*, created by the SDK or lent by the application,
that exchanges process data with the bus every period and looks for events.

| part | state | operations | who else touches it |
|---|---|---|---|
| message queue `ddi_queue.c` | one packed word `depth, idx_in, idx_out, count`, an array of buffers | enqueue, dequeue | one producer and one consumer thread, no lock, compare and exchange |
| event `ddi_os_posix.c:326-407` | mutex, condition, a word of bits | signal, wait with timeout | any thread |
| OS message queue `ddi_os_posix.c:411-467` | a message queue and an event | send, receive with timeout | a sender, a receiver |
| threads `ddi_os_posix.c:89-224` | a heap struct per thread with `detached` | create, detach, join, exit | the thread and its creator |
| master instances `ddi_em.cpp` | `g_em_instance[]`: allocated, exit request, exit done, affinity | SDK init and deinit, master init and deinit, task start and stop | application, cyclic thread |
| cyclic update `ddi_em.cpp:97-240, 687` | callback and its argument, frame and time statistics | one cycle; register, get statistics | cyclic thread, application, no lock |
| process data `ddi_em_process_data.cpp` | the stack's input and output images | get, set, by byte and bit | applications under a mutex, cyclic thread without |
| link layer `ddi_em_link_layer.cpp` | `g_i8254_adapter[]`: which adapter each instance took | claim, release | init, deinit |
| slave and fusion handles `ddi_em_slave_management.cpp`, `fusion_sdk/ddi_em_fusion_interface.cpp` | tables of slots per master, the mapping of process data to UARTs | open, close, close all, register | application, cyclic thread |
| fusion UARTs `fusion_sdk/ddi_em_fusion_uart.cpp` | `g_uart_instance[]`: callback, what is enabled, edge flags | open, close, register, enable, disable; transfers | application, the cyclic threads of all masters |
| notifications `ddi_em_notifications.cpp` | one callback and client id per master | set handler, enable, dispatch | the stack's threads |
| remote access `ddi_em_remote_access.cpp` | a server handle per slot | start, stop | application |
| CoE, FoE, EEPROM, ESC registers, state change | none of their own | one blocking stack call each | - |
| sequence player `ddi_seq_utils.c` | an index per track, the sequence's time | run, run to, set index | the clock, signals |
| nanosecond time `ddi_ntime.c` | none | difference, sum, subtraction | - |
| thermocouple calibration `src/fat_tests/src/Calibration/TC*.cpp` | registers of the card, seen through the process image | calibrate, verify | the cyclic thread of the older SDK, lost frames |
| fixtures and other tests `src/fat_tests` | fixtures, instrument sessions | SetUp/TearDown, measure | a cyclic thread of the master |

What is hard here: the application and the cyclic threads share nearly all of
this state, mostly without a lock; waiting is bounded by timeouts whose error
paths are rarely taken; objects are released step by step while the other side
may still use them; tables are indexed by handles that outlive what they stand
for; and against the bus only sleeps order what the test does. Nothing is
persisted, so a crash loses everything and there is nothing to recover. Frames
do get lost, which the frame statistics count and the calibration has to
outlast.

What makes each part correct:

- message queue: the three counters agree, no buffer is written while it is
  read, what went in comes out once and in order, no call spins for ever;
- event: no wake-up is lost, bits reach a waiter;
- OS message queue: what was accepted is received, "ok" comes with a message;
- threads: a struct is freed once, not under its thread, and in the end;
- masters: nothing runs on a stack that was taken down, an adapter has one
  master, an instance is reused only when its thread is out of its loop, "ok"
  from a stop means stopped, stopping returns and is obeyed;
- cyclic update: a callback gets its argument, the output image is not mixed of
  two writers, what the statistics say agrees with itself, the average is not
  below the least cycle, a cycle ends;
- handles: slots are not shared, a registration stays with its UART, a UART
  reads its own data;
- UART events: the callback is there when it is called, an edge is reported
  once and only if there was one, what keeps happening keeps being reported;
- sequence player: events come in order, on time, and all of them;
- calibration: the card takes whole sets of parameters, all of them, and the
  test reads what it asked for.

## 2. The models

    BoundedFifo        what a queue promises
      ^ implemented by
    DdiQueue           ddi_queue.c              MCDdiQueue        DdiQueueProofs
      ^ used by
    MailQueue          ddi_queue_send/receive   MCMailQueue       DdiOsProofs
      v uses
    DdiEvent           event_signal/wait        MCDdiEvent        DdiEventProofs
    ThreadHandles      ddi_thread_*             MCThreadHandles   DdiOsProofs
    MasterLifecycle    ddi_em.cpp               MCMasterLifecycle MasterLifecycleProofs
    CyclicUpdate       ddi_em.cpp, process data MCCyclicUpdate    CyclicUpdateProofs
    FusionHandles      slaves, fusions, UARTs   MCFusionHandles   FusionHandlesProofs
    UartEvents         ddi_em_fusion_uart.cpp   MCUartEvents      UartEventsProofs
    SeqPlayer          ddi_seq_utils.c          MCSeqPlayer       TimingProofs
      v extends
    NTime              ddi_ntime.c                                TimingProofs
    TcCalibration      TCMeasure, TCVerify      MCTcCalibration   TimingProofs

In every module one action stands for the code between two points where
another thread can come in. Each component module also holds, marked *Mutant*,
variants of its actions with a plausible slip in them. They are not part of
the specification: each property of a passing run is violated when the action
is replaced by one of them.

**DdiQueue** is `ddi_message_enqueue` and `ddi_message_dequeue`. The packed
word is one variable (`q`), as it is one 32-bit word that the code loads and
exchanges as a whole; its counters are bytes and wrap as in the code. A call goes
through `ddi_queue_in` (`InFull`, `InIndex`), the copy into the buffer
(`WriteSlot`) and `ddi_enqueue` (`EnqFull`, `EnqLoad`, `EnqExchange`,
`EnqRetry`): two separate tests for full, and a compare and exchange that is
retried with the value it found. The dequeue side is the mirror image;
a dequeue without a buffer drops the message. A message is a value; the copy is
one action because `NoSlotOverlap` says the other side never looks at that
buffer meanwhile. The documentation allows one producer and one consumer
(`ddi_queue.h:50`); that is `DocumentedUse` in the proofs. *Messages, sizes and
the padding with zeros are left out.*

**BoundedFifo** is the abstract queue: a sequence of at most `Depth` messages.
`DdiQueue!Contents` reads it off the ring: the `count` slots from `idx_out` on.

**DdiEvent** is `event_signal` and `event_wait`. The section between a lock and
its unlock is one action, enabled while nobody owns the mutex. `event_wait`
keeps the mutex when it times out (see 5), so `owner` is a variable.
`pthread_cond_timedwait` may return without cause (`WakeSpuriously`) or give up
at any time (`Expire`), also when it has just been signalled: the signal then
goes to another waiter. A signal may carry no bits at all. `LowBits` are the
bits that survive `event_signal`'s `uint16_t` parameter; the others are dropped
as in the code, and nothing is promised of them.

**MailQueue** instantiates `DdiQueue` and `DdiEvent` over the same threads:
a send enqueues and then signals bit 1, a receive waits for the event and then
dequeues once. All interleavings of both inner modules are kept.

**ThreadHandles** is the `ddi_thread_t` behind each handle and the three places
that free it: `ddi_thread_join`, `ddi_thread_exit`, and `thread_entry` for a
detached thread. Each read of the struct is a step (`Touch`); after the struct
was freed the read finds anything, so both outcomes of `thread->detached` are
enabled. `stray` remembers who looked into freed memory.

**MasterLifecycle** is `ddi_em.cpp` with the adapter table. `inst` has the
fields of `ddi_em_instance` that steer an instance's life: `enabled`, whether
the SDK made the thread, the exit request and the exit acknowledgement, a bad
affinity. `ddi_em_init` goes through allocation, adapter, stack and thread,
each with its error return; every error return leaves behind what was set up,
as in the code. `shutdown_thread_instance` requests the exit, tries to join
(refused, the thread is detached), polls for the acknowledgement (`ExitSeen`)
or gives up (`ExitTimeout`). `Prompt` says a running cyclic thread acknowledges
within the second the code waits; `Tidy` says the application deinitialises an
instance after it has stopped it, as `DDIEMTestFixture::TearDown` does
(`DDIEMTestFixture.cpp:65-72`), and starts no task on a stopped instance;
before that it may start one as often as it likes. The stack is external: it is
up for an instance or it is not, and drives an adapter. `emDeinitMaster` may
fail (`TeardownFails`): the stack stays up, its adapter is given back already,
and the application tries again or does not. `stuck` is the history of such
stacks. *Configuration, ENI files, licences and logging, except that it can
fail, are left out.*

**CyclicUpdate** is one cycle after another of `cyclic_update`, an assignment at
a time, with the application's `ddi_em_register_cyclic_callback` (two stores),
`ddi_em_get_master_stats` (a copy field by field, in any order) and
`ddi_em_set_process_data` between any two of them; the callback sets process
data too. A record of output data is two words that name their writer. The
difference of two cycles is cut to 32 bits (`Width`) for the extremes and not
for the sum, as in the code. History variables: `began` (frames counted when
the copy began), `fresh` (the callback wrote in this cycle and nobody since).

**FusionHandles** is the tables: slave handles, fusion slots per master, UART
handles, and the mapping from a fusion's modules to process data. The cyclic
threads only read them, so that one call of the application is one step. An open
asks the stack about the slave, takes a slot and maps the modules; the callers
ignore its result, and every failure leaves behind what the code leaves: a slot
that stays allocated (`VarInfoFails`), a pointer freed that was never set, which
ends the process or does not (`CfgInfoFails`, `NoSlotLeft`, `Dies`), a handle with
any value (`NoSlotLeft`). `Cleared` is the `memset` that takes the slot's index for
the master's and clears the first slot of another master, `ShiftedOne` the shift of
a 32-bit 1 by a handle of which there are 64. What a free or a write outside the
tables damages is on the heap or behind them and left out. History variables:
`opened` (fusions opened with a slot), `bound` (UARTs opened on a module of one of
them), `registered`. The walk of the cyclic thread over the slots is not here (6).

**UartEvents** is one entry of `g_uart_instance`, its process data, the
application and the cyclic threads of the masters. The detectors (rising,
falling, the two almost-full events, errors) are separate steps, each split
where it tests, records and calls the callback, so that the application or
another master's thread may come between. `EnableThreshold`, `SetLevel` and
`SetFlags` are the three unlocked writes of one call. No call asks whether
the handle is open, and neither do the actions. Buffer levels are small numbers;
`Data` is any level and any combination of status bits in each cycle. History
variables: `risen`, `seenHigh` and `misuse` (the application enabled before it
registered, or opened the UART while a detector was running; the code calls a
null pointer then).

**NTime** is the arithmetic of `ddi_ntime.c`: the difference by cases on the
seconds, carries and borrows, seconds that wrap. **SeqPlayer** extends it with
`seq_proc` and its callers: the next event over all tracks, sleeping
`wake_latency` less than needed, spinning the rest, an interrupted sleep. Where
the code compares times as doubles (`seq_get_event_time(event) > tstop`), `After`
compares `ddi_ntime_to_time` of them: a constant function, of which only is assumed
that it does not change the order of two times, though it may make them equal. The
clock ticks a nanosecond at a time; `elapsed` is the history of a call's time.

**TcCalibration** writes `calibrate_tc` and `TCVerify` as what they are for the
card: straight programs of register writes, register reads and sleeps
(`Programs`), built from the functions of the source by concatenation; a third
program is `TCVerify` without its table, which ends the process in `verify_tc`.
At the end of a program the process exits and the cyclic thread with it
(`Exit`), whatever is still under way. Until then the cyclic thread sends and
receives a frame between any two of them, and frames are lost on either way. A
word is a token that says where it came from, so a parameter read out of the
wrong group cannot be mistaken for the right one. The card is external, from
the comments of `TCMeasure.cpp`.

## 3. The runs

| run | instance | distinct states (about) | shows |
|---|---|---|---|
| `queue` | depth 3, two messages, one producer, one consumer | 119,900 | `QueueInv` (the inductive invariant), disjoint buffers, refinement of `BoundedFifo`, both calls return |
| `event` | three threads, two bits and one that does not fit | 43,400 | no lost wake-up, pending bits are taken unless a timeout locked the mutex |
| `event_timeout` | two threads, one bit | violation | a signal does not return after a wait timed out |
| `mail_queue` | depth 2, two messages, a sender and a receiver | 22,767 | ok means a message, sends reach a receive and return |
| `thread_handles` | two handles | 79,500 | who may look at a freed struct, freed once, freed in the end |
| `master_lifecycle` | two instances, adapters and threads; tidy, prompt | 335,400 | see below |
| `cyclic_update` | three cycles, two calls, differences 1 and 3 of width 4 | 710,400 | see below |
| `fusion_handles` | two masters with two slots each, three fusions, one of them with two UART modules, integers of two bits | 1,685,000 | see below |
| `fusion_two_slaves` | one master, two fusions with a UART module each | violation | the second fusion's data is mapped over the first's |
| `uart_events` | one master, levels 0 and 1, three kinds of event | 278,120 | see below |
| `seq_player` | two tracks, a clock of 16 ticks, three calls, two times that are one as doubles | 46,300 | see below |
| `tc_calibration` | a card of eight channels, the whole of the three programs | 35,900 | see below |

*master_lifecycle.* With a tidy application and prompt threads no update runs
on a stack that is down (`StackInv`), no two masters share an adapter, unless a
stack has outlived the deinit of its instance (`NicExclusive`), a free instance
has no thread in its loop (`FreeIsQuiet`), ok from a stop means stopped
(`OkMeansStopped`), every stop and deinit returns (`ShutdownReturns`), and a
thread asked to exit leaves (`ExitObeyed`) although the next init clears the
request it polls.

*cyclic_update.* Every record of output is whole when the mutex is free, and
the frame of a cycle carries what its callback wrote (`ImageWhole`). A copy of
the statistics made without a lock still counts between as many frames as there
were when it began and as many as there are when it is done, and never shows a
minimum above the maximum (`CopyConsistent`): this depends on the order in which
the code updates the extremes. The average is never below the least difference
(`AverageNotBelowLeast`), in the runs with failed jobs and a first difference since
time 0 as in the others: these only raise it, above the largest difference even
(section 5), so that there is no bound from above to check. A
callback gets its argument if it is registered once (`OwnArgs`), and a cycle
ends although the callback waits for a mutex (`CycleEnds`).

*fusion_handles.* Fusions opened with a slot have it for themselves and keep it
through failing opens, closes, crashes, tables that run out and the other master's
coming and going (`SlotPerSlave`); a registration stays in the slot its fusion's
handle names (`RegistrationKept`), for UARTs whose bit an int can hold; and a UART
reads the module of the fusion it was opened on, of which the run has two
(`DataIsOwn`), as long as only one fusion has UART modules. The first two speak of
slots other than the first (`Sheltered`): the first ones the code clears for other
masters (section 5), and with `Sheltered` TRUE for all of them TLC finds
`SlotPerSlave` violated. With one master all slots are meant.

*uart_events.* Between any two steps of the detectors the application may make
any step of any call. The callback is set when it is called unless the
application broke the order (`CallbackSet`); no rising event without the level
having been low since the last (`RisingOnce`), no falling event without the
level having been high (`FallingNeedsHigh`), across disable and enable (the run
has one threshold and one master, the proof any thresholds); crossings that go
on keep being reported (`RisingKeepsComing`), and so do a full buffer and an
error that last (`LastingIsReported`).

*seq_player.* No event is called before its time, and none later than it must
(`Punctual`), events come in order over all tracks and calls (`InOrder`), and a
run that returns ok has left none behind that is due by its end (`PlayerInv`),
although it compares rounded times. Whether it has called later ones is not
promised (section 5).

*tc_calibration.* With up to six frames lost in a sleep the card's parameters
are always whole sets and complete after `set_cal_parms` (`CardInv`), and every
read gets what the last command asked for (`ReadsWhatItAsked`). What the card
shows after the test is not promised: no sleep follows the last command
(section 5). Three cycles carry a command and its answer, each lost frame costs
one more, and the shortest sleep of 10 ms has nine: a seventh lost frame
violates `ReadsWhatItAsked`. That is the margin of the code's sleeps.

*Types.* Where a run checks one invariant whose name ends in `Inv`, the type
invariant is a conjunct of it; `ThreadHandles`, `FusionHandles`, `UartEvents`,
`DdiEvent` and `CyclicUpdate` have their types proved. The definitions of
`ThreadHandles` and `TcCalibration` that every module has (`Init`, `Next`, the
types) carry their name, so that `DdiOsProofs` can extend `MailQueue` and
`ThreadHandles` together, and `TimingProofs` the player and the calibration.

*Deadlock* is checked where the program cannot stop: the queue and the master
lifecycle. The mutex of the event can stay locked, a null callback ends the
process, threads end, programs end, and bounded clocks and calls run out.

*Bounds.* Depth 3 is the smallest depth at which a slot is neither the next to
write nor the next to read; the proofs cover the others. Three threads make an
event with two waiters and a signaller, so that the wake-up has to choose.
Depth 2 lets a send find the queue full with one message of lead. Two instances
are what `NextInstance`, sharing an adapter and reuse need. `MaxCycles` 3 lets
a lost, a good and a failed job follow each other, `MaxCalls` 2 a registration
or a write and a copy; differences 1 and 3 against a width of 4 make the first
difference (since time 0) wider than the field. `MaxFusions` 2 runs out of
slots as soon as an open has failed or was repeated, and two masters make the
wrong `memset` hit the other one's first slot; `IntBits` 2 makes the second
UART's bit the sign of an int. (Shifts beyond the width need a third UART; the
proofs cover them.) One level on each side of the threshold is all the
detectors distinguish; the UART run asks for the events in two fixed
combinations (`Requests`), which add up to all of them. A second of 4
nanoseconds makes the player's times carry and borrow; the gap between its
events is longer than `wake_latency + scheduler_uncertainty`, so that it
sleeps. The calibration has two samples per measurement where the code takes
twenty, five times.

*Fairness.* A thread inside a call keeps running (weak fairness of its steps)
and the mutex is handed out without starving anyone (strong fairness of the
steps that lock it): what a Linux scheduler and an uncontended pthread mutex
give. The cyclic threads run periodically, which is their purpose. No fairness
on an application's choice to call, on a thread's entry function, on timeouts,
spurious wake-ups, new data or errors. `KeepsReceiving` in MailQueue assumes
that a receiver calls again after its call returned; the liveness of a send
needs somebody to receive. The runs of the fusion handles, the player and the
calibration check safety only and assume no fairness.

## 4. The proofs

| module | theorem | under | says |
|---|---|---|---|
| `DdiQueueProofs` | `QueueInvariant`, `TypeCorrect` | `DocumentedUse` | `[]QueueInv`, `[]TypeOK`: the bytes never overflow |
| | `CountersAgree` | `DocumentedUse` | `[]WordConsistent`: `idx_in` leads `idx_out` by `count` around the ring |
| | `SlotsDisjoint` | `DocumentedUse` | `[]NoSlotOverlap` |
| | `QueueImplementsFifo` | `DocumentedUse` | `Fifo!Spec` under `fifo <- Contents` |
| | `OldestWasSent` | `DocumentedUse` | the slot to be read next holds a message, never an empty slot |
| `DdiEventProofs` | `EventTypes`, `WakeupNotLost` | - | `[]TypeOK`, `[]NoLostWakeup` |
| `DdiOsProofs` | `MailIsFifo` | `DocumentedUse` | the ring inside `MailQueue` implements `BoundedFifo` |
| | `ReceivesAreGood` | `DocumentedUse` | `[]MailInv`: ok means a message |
| | `HandleTypes`, `EntryIsUndisturbed`, `StructFreedOnce` | - | `[]HandlesTypeOK`, `[]EntryUndisturbed`, `[]FreedOnce` |
| `MasterLifecycleProofs` | `LifeInvariant`, `StackIsAlive` | `CarefulUse` | `[]LifeInv`, `[]StackInv` |
| | `AdaptersAreExclusive`, `FreeInstancesAreQuiet` | `CarefulUse` | `[]NicExclusive`, `[]FreeIsQuiet` |
| `CyclicUpdateProofs` | `UpdateTypes`, `ImageStaysWhole` | - | `[]TypeOK`, `[]ImageWhole` |
| | `CalledWithOwnArgs` | - | `OwnArgs` |
| | `CopiesAreConsistent` | `ShortCycles` | `[]CopyConsistent` |
| | `AverageAboveLeast` | `ShortCycles` | `[]AverageNotBelowLeast` |
| `FusionHandlesProofs` | `TableTypes`, `SlotsNotShared`, `RegistrationsStay` | - | `[]TypeOK`, `[]SlotPerSlave`, `[]RegistrationKept`, any number of masters |
| | `DataStaysOwn` | `OneUartFusion` | `[]DataIsOwn` |
| `UartEventsProofs` | `Types`, `CallbackIsSet` | - | `[]TypeOK`, `[]CallbackSet`, any number of masters |
| | `RisingEventOnce`, `FallingEventNeedsHigh` | `OneMaster` | `[]RisingOnce`, `[]FallingNeedsHigh` |
| `TimingProofs` | `RunsPlayWhatTheyShould` | `ClockFits` | `[]PlayerInv` |
| | `EventsArePunctual`, `EventsAreInOrder` | `ClockFits` | `Punctual`, `InOrder` |
| | `DiffIsDifference`, `AddIsSum`, `SubIsDifference` | the sum fits the seconds; less than a second is subtracted in `ns` | the operators are the integers' difference, sum and subtraction down to zero |
| | `CalibrationInvariant`, `CardTakesItAll` | `SleepsSuffice` | `[]CalibrationInv`, `[]CardInv` |
| | `ReadsAreAsked` | `SleepsSuffice` | `[]ReadsWhatItAsked` |

Besides the constants' `ASSUME`s: *DocumentedUse* is one producer and one
consumer, in the OS queue one sender and one receiver. *CarefulUse* is `Prompt`
and `Tidy`, which is what the fixtures do; instances, adapters and threads are
any number. Both are needed: with `Prompt` FALSE a deinit that timed out takes
the stack down under a running update (`StackInv`), with `Tidy` FALSE TLC finds
two masters on one adapter and a free instance with a thread in its loop
(section 5). *ShortCycles* says that no two cycles are `Width` (2^32
nanoseconds, 4.3 seconds) apart; without it a difference of a multiple of
`Width` is logged as 0 and the code takes it for "no minimum yet". *OneMaster*
is one cyclic thread that checks a UART: with two the code violates
`RisingOnce` (section 5). *OneUartFusion* says that the UART modules, any
number of them, are all of one fusion: with two such fusions the run
`fusion_two_slaves` violates `DataIsOwn`. *ClockFits* says that the clock stays
within its 32 bits of seconds, 136 years from the system's start.
*SleepsSuffice* says that the shortest sleep receives three cycles more than
frames get lost in it: a sleep of 10 ms, nine cycles of 1 ms or more, makes up
for six lost frames. It is not weaker than needed: with a seventh TLC finds
`ReadsWhatItAsked` violated.

*The queue.* `NoSlotOverlap` is not inductive: that the two slots differ depends
on what each thread saw before the other moved. `QueueInv` adds the relation of
the three counters and, for each place in a call, what the thread may rely on:
the room a producer saw is still there (only a consumer changes the word
meanwhile, and it makes room), the slot it took is still `idx_in`, the buffer
still holds its message; the mirror image for a consumer. From these, two
threads at the same slot would mean a ring both full and empty. The arithmetic on
wrapped indices is in lemmas (`ModWrap`, `NextIndex`, `EnqueuedWord`,
`DequeuedWord`). The refinement rests on what each exchange does to `Contents`
(`ExchangeAppends`, `ExchangeRemoves`) and on a write into a free slot not
changing it (`WriteKeepsContents`).

*The event.* `NoLostWakeup` is inductive once the types are known: the
interesting step is a wait that expires although it was signalled, which hands
the signal on, or leaves nobody asleep.

*The OS message queue.* Nothing is proved of its parts again: every step of
`MailQueue` is a step of the ring or leaves it alone, and the same of the event
(`RingSteps`, `EventSteps`), so that their theorems hold of it, and the ring is
a FIFO in it. What the parts do not say is that a receiver that takes an event
finds a message. `LinkInv` says it as a balance: `count` is at least the number
of events pending in the word, on their way there (`Published`) and taken without
a dequeue yet (`Claimed`); the signal comes after the enqueue and one take clears
the word, so that two messages may make one event but never one message two. With
a message in the ring the dequeue passes both tests for empty, and only the one
receiver takes from it.

*Thread handles.* `HandleInv` says when a struct may be gone: only after
`ddi_thread_exit`, after a join, or when `thread_entry` freed a detached one,
and who can still look at it then.

*Masters.* None of the three properties is inductive. `LifeInv` adds, for each
place in a call, what it may rely on (`CallInv`, `FreshInv`: an instance under
initialisation is allocated and has neither thread nor stack until it is given
them); that an instance has at most one thread and none once the exit was
acknowledged (`ThreadInv`, where it is needed that no task is started on an
instance that was stopped); that a thread whose stack is down has been asked to exit and is between updates
(`UpdateInv`); and that a stack's adapter is in the table unless its instance is
on its way down or the stack has outlived that (`AdapterInv`: the entry is cleared
before the stack is). There is one lemma per action.

*Cyclic update.* `ImageInv` says who holds the mutex at each place and how much
of a record is written there. `ArgsInv` follows a first registration through
its two stores. `StatsInv` has four parts: a difference is between two cycles
except for the first (`TimesInv`), the maximum is updated before the minimum
(`ExtremesInv`), counters never fall, and what a copy has or is about to have
lies between the numbers at its beginning and now (`CopyInv`, `Kept`,
`LeastBelow`: while the minimum is not copied yet, it is or is about to be no
more than the maximum that is).

*The average.* `AverageInv` adds that the sum of the logged differences is at least
their least times the number of frames counted, in the middle of a cycle less the
one that is not summed yet: a difference is summed for every frame that is counted,
and those of failed jobs come on top. A quotient of a sum lies where the sum does.
The first difference may be wider than 32 bits: cut, it is lower than what was
summed.

*Fusion handles.* `TablesInv` ties the tables together: what is opened belongs to
a master that is up, and UARTs that are bound or registered are open. The free slot
a search finds is a least element (`LeastOf`, by well-foundedness). `TakenSlot` says
what taking a slot leaves alone, with the wrong `memset` before it: with one master
it hits slot 0 only when that is the free slot the search has found, with more it
hits first slots only. A crash leaves empty tables. `MappingInv` ties the
mapping to the opened fusion with UART modules: the channels are those of its
modules, and what a UART was opened on is one of them. The search for a module's
channel finds the least one, and channels that were never mapped come after it
(`FoundIsOwn`).

*UART events.* `CallbackInv`: without misuse a threshold event is enabled and a
detector runs only with a callback. `EdgesInv`: the recorded edge outlives the
history's (`risen` implies `uart.rising` and a high level), an armed falling
detector has seen a high level, and a check looks at the data of one bus cycle
(`Sees`); this last is what a second master breaks.

*The player.* The next event exists and is the earliest (`NextIsFirst`, twice
a least element), and what a track has next is not earlier than what it had
(`NextIsLater`). `PlayInv` has three parts besides the types. `TimeInv`: sequence
time is never ahead of the clock, so the origin `T0` is exact and not cut off at
zero, and in a call the clock less `T0` is the time the call has taken. `LateInv`
follows the loop: asleep, the latest wake-up is not after the next event; past
the sleep or in a spin the event is still ahead, less the one tick of the turn;
at the test it is at most a turn behind, unless it was behind when the call
began. `OrderInv`: nothing left is earlier than what was called. Where a run ends
ok, the next event is later than its end as a double, so it is later
(`AfterIsLater`: a monotone rounding may make times equal, not swap them), and what
follows it is later still.

*The calibration.* The invariant speaks of the place in a program, and programs
differ with the constants, so the first half is about programs alone. `Orderly`
says that every read follows a sleep, or another read that does; that a command
before it asks for its register, with no write between; and that a set command
comes after all words of its group and a sleep, and is withdrawn after another.
Putting programs together keeps this (`OrderlyJoin`), the pieces of the source
have it (`SetGroup`, `DisplayGroup`, `Sampling`), and so `calibrate_tc` and
`TCVerify` do; `set_cal_parms` sets every group and reads nothing, and all the
rest sets nothing. The second half follows a command to the card and its answer
back. `DeliveryInv` counts the cycles of a sleep: until the card has been given
the image it has lost all frames but one (the frame that left before the
command), until the answer is on its way all but two; so at the end of a sleep
the answer is there (`Settled`), and it stays while the test only reads
(`SettledInv`). `OutputInv` and `SetInv` say what the output image holds: as
long as a set command is in it, the registers hold that group and nothing else
(`RegistersHold`), which is why a frame at any moment gives the card a whole
group or what it had (`GivesCard`), and after the sleep that follows the
command it has the group (`StoreInv`).

Model-checked only: all liveness (the prover does not reason about fairness), and
`OkMeansStopped`. Every other safety invariant and action property a passing run
checks has a theorem.

## 5. Where code and documentation part

With a run that shows it:

- `event_wait` returns on a timeout with the mutex locked
  (`ddi_os_posix.c:364`): `event_timeout`.
- The second fusion with UARTs is mapped over the first
  (`ddi_em_fusion_interface.cpp:165`): `fusion_two_slaves`.

Met while modelling, in the models, without a run of their own:

Operating system layer and utilities
- Events coalesce, messages do not: a receive takes one message however many
  were announced, so a receiver may sleep on a queue that is not empty
  (`ddi_os_posix.c:459`). `SendReachesReceiver` therefore promises a receive,
  not the receive of one's own message.
- Event bits above 15 are dropped (`uint16_t`, `ddi_os_posix.c:343`, against
  `ddi_os.h:214`): `LowBits`. No caller signals one.
- `ddi_thread_join` refuses a detached thread (`ddi_os_posix.c:191`), and the
  cyclic thread is one (`ddi_em.cpp:114`): `Join` only moves on. By then
  `thread_entry` may have freed the struct the join looks at; hence the
  exceptions in `FreedOnce`.
- `ddi_thread_exit` frees the struct and sends the thread signal 0, which does
  not end it (`ddi_os_posix.c:217-224`): `Exit` leaves the entry running.
- A second sender may pass the test for full (`ddi_queue.c:56`) before the
  first has published; the header documents one producer.
- `seq_run_to_ntime` calls the first pending event even when it is after the end
  (`ddi_seq_utils.c:134-152`), and later ones whose seconds are the same as a double
  (line 144; a nanosecond above 2^23 seconds), where the header says "until the
  ntime" (`ddi_seq_utils.h:68`): `PlayerInv` promises only that nothing due is left.
  An interrupted sleep loses the time
  slept. `seq_set_index` stops at a shorter track's last event and keeps the
  sequence's time. `seq_stop`, `seq_run_to_index` and `seq_set_ntime` do
  nothing, and `seq_find_event` accepts an event within its tolerance rather
  than the closest its header describes.

Masters and cyclic thread
- `thread_exit_occurred` is never reset (`ddi_em.cpp:117`): a second cyclic
  task on an instance is not waited for (`Tidy` is TRUE in the run).
- A deinit that times out, or whose task never ran, leaves the instance
  allocated (`ddi_em.cpp:122`), and its stack is taken down although the
  cyclic thread may still be in an update (`Prompt` is TRUE in the run).
- A stopped instance is handed out with its stack and adapter up
  (`ddi_em.cpp:127`): without `Tidy` two masters drive one adapter.
- `ddi_em_deinit` gives the adapter back (`ddi_em.cpp:60`) before it takes the
  stack down; when `emDeinitMaster` fails (line 80) the next init takes the same
  adapter for a second stack: `stuck` in `NicExclusive`.
- The first counted frame is logged with the difference since time 0, which is
  as wide as the system's uptime (`ddi_em.cpp:135-166`); jobs that failed are
  timed but not counted. Either raises the average above the largest difference
  (`ddi_em_api.h:405`): `AverageNotBelowLeast` is the bound that is left.
- A registration that replaces another can be called with the other's
  argument, and one that sets a null pointer can be called (`ddi_em.cpp:101`,
  `208-212`): `OwnArgs` is for a first registration, `CallCallback` may crash.
- `ddi_em_set_process_data_bits` writes without `pd_out_mutex`, which
  `ddi_em_set_process_data` takes.

Fusion and UARTs
- `get_next_fusion_instance` clears slot 0 of the master whose number is
  the index of the slot it found (`ddi_em_fusion_interface.cpp:27`): with two
  masters, opening a fusion on one drops a slot and the registrations of the other:
  `Sheltered` in `SlotPerSlave` and `RegistrationKept`.
- The cyclic thread stops at the first fusion without registered events
  (`ddi_em_fusion_interface.cpp:46`), so that later ones are not served.
- The count of opened fusions is never reduced, a failed open keeps its slot, and its
  result is ignored (`ddi_em_slave_management.cpp:126`).
- An open that fails before it has a slot frees a pointer that was never set
  (`ddi_em_fusion_interface.cpp:96, 116, 125, 196`); the one that finds the table full
  translates the status of the call before and returns ok, with a handle nobody
  wrote: `CfgInfoFails`, `NoSlotLeft`.
- A 32-bit 1 is shifted by the handle of a UART, of which there are 64
  (`ddi_em_fusion_uart.cpp:815`): `ShiftedOne`, and the premise of
  `RegistrationKept`.
- Errors are only looked at next to threshold events
  (`ddi_em_fusion_uart.cpp:276`): the error event enabled alone is never
  reported; see the premise of `LastingIsReported`.
- Every master's thread checks every UART (`ddi_em_fusion_uart.cpp:298`): two
  masters can report one edge twice.
- Disabling one threshold event disables all (`ddi_em_fusion_uart.cpp:847`
  against `ddi_em_fusion_uart_api.h:462`): `DisableThreshold`.
- The error callback is first called with an uninitialised event
  (`ddi_em_fusion_uart.cpp:226`): `CallGarbage`.
- An event carries the channel as its handle
  (`ddi_em_fusion_uart.cpp:100` against `ddi_em_fusion_uart_api.h:422`).

Calibration
- No sleep follows the last command of `display_cal_parms` (`TCMeasure.cpp:661`).
  When the process ends right after it, as `TCVerify` does (`TCVerify.cpp:195`) and
  `verify_tc` without its table (`TCVerify.cpp:226-231`), the cyclic thread ends with
  it and the card may stay in its parameter display: `Exit`.
- `verify_tc` leaves the display mode it has switched to; the second
  `display_cal_parms` of `TCVerify` puts it right.
- A gain computed as a floating point number is stored in a word and displayed
  as if it were in thousandths (`TCMeasure.cpp:464-557, 560-664`).
- The older SDK's cyclic thread counts lost frames in a local that is never
  incremented (`ddi_sdk_ecat_master.cpp:526-544`): the test cannot know them.

Elsewhere
- `VALIDATE_INSTANCE` accepts the index one past the table
  (`ddi_em_config.h:101`); a remote access server that fails to start keeps its
  slot (`ddi_em_remote_access.cpp:42`); registering notifications again forgets
  the first client (`ddi_em_notifications.cpp:30`).

## 6. What is not modelled, and why

Blocking pass-through calls (CoE, FoE, EEPROM, registers, state changes, ENI
configuration, licence, a UART's transfers and settings) have no state of
their own. Notifications and remote access keep one handle each; what
overlapping clients or servers do is inside the stack. Error code tables, XML,
strings, dumps and the argument parser are sequential formatting and parsing.
The FreeRTOS and RTX layers wrap kernels that are not in the repository. Analog
calibration and the DVT tests are numeric measurement procedures without shared
state, as is the arithmetic of the thermocouple calibration, of which
`verify_rtd` and `verify_cj` are not called. Mutexes are pthread's and timers are
stubs. Wall-clock time is left out of the event: that `event_wait` computes its
deadline in the wrong unit (`ddi_os_posix.c:355`) only makes timeouts early, and
they may happen at any time here. The walk of the cyclic thread over the fusion
slots (`ddi_em_fusion_handle_process_data`) is left out: `UartEvents` has the
detectors it calls, for one UART. Writing into a queue's buffer in place and
freeing an OS queue have no caller in the repository.

The EC-Master stack, its examples, its kernel driver and its link layers are
vendored in three copies (`src/acontis_lib` and one under each SDK), with gtest
and the instrument libraries beside them. They are most of the C and C++ in the
repository; the modules cover the program's own logic and not theirs, so the
share of all lines that is mapped stays small however much of the program is
modelled.

## 7. What is left

- Two masters: the walk over the slots of `FusionHandles` composed with the
  detectors of `UartEvents`, once the indices of section 5 are right.
- The in-place use of the queue, when something uses it.
- A torn 32-bit reading (two words read with a frame between them), when the model's
  readings get a value.
- Process data written by bits, when it takes the mutex.

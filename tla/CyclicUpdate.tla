----------------------------- MODULE CyclicUpdate -----------------------------
(***************************************************************************)
(* One cycle after the other of cyclic_update (ddi_em.cpp): the frame      *)
(* statistics, the registered callback, the time statistics, the sending   *)
(* of the output image; and the application's calls between any two of     *)
(* its steps: ddi_em_register_cyclic_callback, ddi_em_get_master_stats and *)
(* ddi_em_set_process_data.  The callback sets process data as well.  Only *)
(* the writers of the output image take a lock.                            *)
(*                                                                         *)
(* emExecJob and the monotonic clock are external: a job fails, loses      *)
(* frames or processes them all.  A record of output data is two words,    *)
(* each the name of who wrote it last.                                     *)
(***************************************************************************)
EXTENDS Integers

CONSTANTS
  Callbacks,    \* the callbacks the application registers, each with its args
  None,         \* a null pointer
  Epoch,        \* the clock when the master is initialised
  Deltas,       \* how much it moves from one cycle to the next
  Width,        \* 2^32: the statistics' differences are 32 bits wide
  Looks,        \* the sets of statistics a caller compares
  MaxCycles,    \* bound: cycles
  MaxCalls      \* bound: calls of the application

Fields == {"err", "cur", "worst", "good", "hi", "lo", "avg"}

ASSUME NoneAssumption == None \notin Callbacks
ASSUME ClockAssumption == Epoch \in Nat /\ Deltas \subseteq Nat \ {0}
ASSUME WidthAssumption == Width \in Nat \ {0}
ASSUME LooksAssumption == Looks \subseteq SUBSET Fields
ASSUME BoundsAssumption == MaxCycles \in Nat /\ MaxCalls \in Nat

VARIABLES
  at,          \* where the cyclic thread is in cyclic_update
  stats,       \* master_stats
  sum,         \* average_cyclic_delta_sum
  clock, prev, \* the time, and prev_cyclic_timestamp
  config,      \* cyclic_callback and cyclic_args
  image,       \* the output process image
  lock,        \* pd_out_mutex: who holds it
  app,         \* where the application is in its call
  arg,         \* the callback it registers
  look,        \* the statistics it gets
  snap, left,  \* its copy of them, and the fields not copied yet
  cycles,      \* history: cycles begun
  calls,       \* history: calls of the application
  registers,   \* history: registrations among them
  began,       \* history: frames counted when the copy was begun
  fresh        \* history: the callback's data was written in this cycle, and
               \* nobody has begun to write since

counting == <<stats, sum, clock, prev, cycles>>
calling == <<config, registers>>
sending == <<image, lock, fresh>>
application == <<app, calls, arg, look, snap, left, began>>
vars == <<at, counting, calling, sending, application>>

Zero == [f \in Fields |-> 0]
Total(s) == s["err"] + s["good"]

Init ==
  /\ at = "receive"
  /\ stats = Zero
  /\ sum = 0
  /\ clock = Epoch /\ prev = 0
  /\ config = [fn |-> None, args |-> None]
  /\ image = <<"app", "app">>
  /\ lock = "free"
  /\ app = "idle"
  /\ arg = None
  /\ look = {} /\ snap = Zero /\ left = {}
  /\ cycles = 0 /\ calls = 0 /\ registers = 0 /\ began = 0
  /\ fresh = FALSE

----------------------------------------------------------------------------
(* The frames received: the job fails, or has lost frames, or is good. *)

Receive(to) ==
  /\ at = "receive" /\ cycles < MaxCycles
  /\ at' = to
  /\ cycles' = cycles + 1
  /\ \E d \in Deltas : clock' = clock + d
  /\ fresh' = FALSE
  /\ UNCHANGED <<stats, sum, prev, calling, image, lock, application>>

JobFails == Receive("callback")

FramesReceived == \E outcome \in {"lost", "good"} : Receive(outcome)

Count(from, field, value, to) ==
  /\ at = from
  /\ stats' = [stats EXCEPT ![field] = value]
  /\ at' = to
  /\ UNCHANGED <<sum, clock, prev, cycles, calling, sending, application>>

CountLost == Count("lost", "err", stats["err"] + 1, "consecutive")

CountConsecutive == Count("consecutive", "cur", stats["cur"] + 1, "worst")

UpdateWorst ==
  LET worse == stats["cur"] > stats["worst"]
  IN  Count("worst", "worst", IF worse THEN stats["cur"] ELSE stats["worst"], "callback")

CountGood == Count("good", "good", stats["good"] + 1, "reset")

(* Mutant: the wrong counter is reset. *)
ResetErrors == Count("reset", "err", 0, "callback")

ResetConsecutive == Count("reset", "cur", 0, "callback")

----------------------------------------------------------------------------
(* The callback *)

(* No callback is registered, or the master is below INIT. *)
SkipCallback ==
  /\ at = "callback"
  /\ at' = "log"
  /\ UNCHANGED <<counting, calling, sending, application>>

TestCallback ==
  /\ at = "callback" /\ config.fn # None
  /\ at' = "call"
  /\ UNCHANGED <<counting, calling, sending, application>>

(* The pointer is read again, with its argument; a null pointer is called. *)
CallCallback ==
  /\ at = "call"
  /\ at' = IF config.fn = None THEN "crashed" ELSE "set_lock"
  /\ UNCHANGED <<counting, calling, sending, application>>

----------------------------------------------------------------------------
(* ddi_em_set_process_data, by thread w *)

Begin(p) ==
  /\ app = "idle" /\ calls < MaxCalls
  /\ app' = p
  /\ calls' = calls + 1

Proceed(p, q) ==
  /\ app = p
  /\ app' = q
  /\ UNCHANGED calls

(* Mutant: the lock is not waited for. *)
LockIgnored(w) ==
  /\ lock' = w
  /\ fresh' = FALSE
  /\ UNCHANGED image

Lock(w) ==
  /\ lock = "free"
  /\ lock' = w
  /\ fresh' = FALSE
  /\ UNCHANGED image

Write(w, i) ==
  /\ image' = [image EXCEPT ![i] = w]
  /\ UNCHANGED <<lock, fresh>>

(* Mutant: the mutex is not unlocked. *)
UnlockForgotten(w) ==
  /\ fresh' = (w = "callback")
  /\ UNCHANGED <<image, lock>>

Unlock(w) ==
  /\ lock' = "free"
  /\ fresh' = (w = "callback")
  /\ UNCHANGED image

(* The callback's write *)
CallbackSet ==
  /\ \/ at = "set_lock" /\ Lock("callback") /\ at' = "set_1"
     \/ at = "set_1" /\ Write("callback", 1) /\ at' = "set_2"
     \/ at = "set_2" /\ Write("callback", 2) /\ at' = "set_unlock"
     \/ at = "set_unlock" /\ Unlock("callback") /\ at' = "log"
  /\ UNCHANGED <<counting, calling, application>>

(* The application's write *)
AppLock ==
  /\ Begin("set_1") /\ Lock("app")
  /\ UNCHANGED <<at, counting, calling, arg, look, snap, left, began>>

AppSet ==
  /\ \/ Proceed("set_1", "set_2") /\ Write("app", 1)
     \/ Proceed("set_2", "set_unlock") /\ Write("app", 2)
     \/ Proceed("set_unlock", "idle") /\ Unlock("app")
  /\ UNCHANGED <<at, counting, calling, arg, look, snap, left, began>>

----------------------------------------------------------------------------
(* log_cyclic_stastics *)

Delta == clock - prev

Log ==
  /\ at = "log"
  /\ at' = IF Total(stats) > 0 THEN "hi" ELSE "stamp"
  /\ UNCHANGED <<counting, calling, sending, application>>

LogHi ==
  LET d == Delta % Width
  IN  Count("hi", "hi", IF d > stats["hi"] THEN d ELSE stats["hi"], "lo")

LogLo ==
  LET d == Delta % Width
      lower == d < stats["lo"] \/ stats["lo"] = 0
  IN  Count("lo", "lo", IF lower THEN d ELSE stats["lo"], "avg")

(* Mutant: the average is that before this difference. *)
LogAverageLate ==
  /\ at = "avg"
  /\ sum' = sum + Delta
  /\ stats' = [stats EXCEPT !["avg"] = (sum \div Total(stats)) % Width]
  /\ at' = "stamp"
  /\ UNCHANGED <<clock, prev, cycles, calling, sending, application>>

LogAverage ==
  /\ at = "avg"
  /\ sum' = sum + Delta
  /\ stats' = [stats EXCEPT !["avg"] = ((sum + Delta) \div Total(stats)) % Width]
  /\ at' = "stamp"
  /\ UNCHANGED <<clock, prev, cycles, calling, sending, application>>

Stamp ==
  /\ at = "stamp"
  /\ prev' = clock
  /\ at' = "send"
  /\ UNCHANGED <<stats, sum, clock, cycles, calling, sending, application>>

(* The frame takes the image as it is, whoever is writing it. *)
Send ==
  /\ at = "send"
  /\ at' = "receive"
  /\ UNCHANGED <<counting, calling, sending, application>>

----------------------------------------------------------------------------
(* The application *)

(* Mutant: the function is stored first. *)
RegisterFnFirst(c) ==
  /\ Begin("set_callback")
  /\ config' = [config EXCEPT !.fn = c]
  /\ arg' = c
  /\ registers' = registers + 1
  /\ UNCHANGED <<at, counting, sending, look, snap, left, began>>

(* ddi_em_register_cyclic_callback stores the argument, then the function. *)
Register(c) ==
  /\ Begin("set_callback")
  /\ config' = [config EXCEPT !.args = c]
  /\ arg' = c
  /\ registers' = registers + 1
  /\ UNCHANGED <<at, counting, sending, look, snap, left, began>>

SetCallback ==
  /\ Proceed("set_callback", "idle")
  /\ config' = [config EXCEPT !.fn = arg]
  /\ arg' = None
  /\ UNCHANGED <<at, counting, registers, sending, look, snap, left, began>>

(* ddi_em_get_master_stats copies the fields, in an order of the library's. *)
(* Of the copy only the fields the caller looks at are kept.               *)
GetStats(fields) ==
  /\ Begin("copy")
  /\ look' = fields
  /\ left' = fields
  /\ began' = Total(stats)
  /\ UNCHANGED <<at, counting, calling, sending, arg, snap>>

CopyField(f) ==
  /\ f \in left
  /\ snap' = [snap EXCEPT ![f] = stats[f]]
  /\ left' = left \ {f}
  /\ Proceed("copy", IF left' = {} THEN "copied" ELSE "copy")
  /\ UNCHANGED <<at, counting, calling, sending, arg, look, began>>

GotStats ==
  /\ Proceed("copied", "idle")
  /\ look' = {} /\ snap' = Zero
  /\ began' = 0
  /\ UNCHANGED <<at, counting, calling, sending, arg, left>>

----------------------------------------------------------------------------
CyclicThread ==
  \/ JobFails \/ FramesReceived
  \/ CountLost \/ CountConsecutive \/ UpdateWorst \/ CountGood \/ ResetConsecutive
  \/ SkipCallback \/ TestCallback \/ CallCallback \/ CallbackSet
  \/ Log \/ LogHi \/ LogLo \/ LogAverage \/ Stamp \/ Send

AppCall == AppSet \/ SetCallback \/ GotStats \/ (\E f \in Fields : CopyField(f))

Application ==
  \/ \E c \in Callbacks \cup {None} : Register(c)
  \/ \E fields \in Looks : GetStats(fields)
  \/ AppLock
  \/ AppCall

Next == CyclicThread \/ Application

Spec == Init /\ [][Next]_vars

(* Both threads run on; the application need not make another call. *)
FairSpec == Spec /\ WF_vars(CyclicThread) /\ WF_vars(AppCall)

----------------------------------------------------------------------------
TypeOK ==
  /\ stats \in [Fields -> Nat] /\ snap \in [Fields -> Nat]
  /\ sum \in Nat /\ clock \in Nat /\ prev \in 0 .. clock
  /\ config \in [fn : Callbacks \cup {None}, args : Callbacks \cup {None}]
  /\ image \in {"app", "callback"} \X {"app", "callback"}
  /\ lock \in {"free", "app", "callback"}
  /\ left \subseteq Fields

(* A callback is called with the argument it was registered with, when the *)
(* application registers once (ddi_em_register_cyclic_callback stores the  *)
(* argument first).                                                        *)
OwnArgs == [][CallCallback /\ registers <= 1 => config.args = config.fn]_vars

(* Between two writes the output image is one writer's                     *)
(* (ddi_em_set_process_data holds pd_out_mutex), and the frame of a cycle  *)
(* takes what its callback has written, unless the application has begun   *)
(* to write since.                                                         *)
ImageWhole ==
  /\ lock = "free" => image[1] = image[2]
  /\ at = "send" /\ fresh => image = <<"callback", "callback">>

(* The frames counted in a copy of the statistics are no fewer than there  *)
(* were when it was begun and no more than there are when it is done, and  *)
(* a copy never shows a least difference above the largest.                *)
CopyConsistent ==
  app = "copied" =>
    /\ {"err", "good"} \subseteq look => Total(snap) \in began .. Total(stats)
    /\ "lo" \in look /\ snap["hi"] # 0 => snap["lo"] <= snap["hi"]

(* The average of the differences is not below the least of them, in every *)
(* run, as long as it fits its 32 bits: as many differences are summed as  *)
(* frames are counted, or more, and the first one, from the start of the   *)
(* clock, and those of failed jobs only raise it (log_cyclic_stastics).    *)
(* They may raise it above the largest.                                    *)
AverageNotBelowLeast ==
  at = "receive" /\ sum < Width * Total(stats) => stats["lo"] <= stats["avg"]

(* Every cycle ends, though its callback waits for the application's write *)
(* (unless it called a null pointer).                                      *)
CycleEnds == (at # "receive") ~> (at \in {"receive", "crashed"})
=============================================================================

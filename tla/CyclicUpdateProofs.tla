--------------------------- MODULE CyclicUpdateProofs ---------------------------
(***************************************************************************)
(* What the cyclic thread and the application may rely on of each other,   *)
(* for any callbacks, clock and number of cycles and calls: the mutex      *)
(* keeps the output image whole, a callback gets the argument it was       *)
(* registered with, the copy of the statistics, made without a lock, is    *)
(* consistent because every counter moves in one direction, and the        *)
(* average is not below the least difference, because a difference is      *)
(* summed for every frame that is counted.                                 *)
(***************************************************************************)
EXTENDS CyclicUpdate, TLAPS

(* The times of two cycles are less than Width apart. *)
ShortCycles == \A d \in Deltas : d < Width

(* Where the cyclic thread is while it calls back *)
CallingBack == {"call", "set_lock", "set_1", "set_2", "set_unlock"}

(* The steps of the cyclic thread outside the callback *)
Plain ==
  \/ JobFails \/ FramesReceived
  \/ CountLost \/ CountConsecutive \/ UpdateWorst \/ CountGood \/ ResetConsecutive
  \/ SkipCallback
  \/ Log \/ LogHi \/ LogLo \/ LogAverage \/ Stamp \/ Send

LEMMA PlainFrame ==
  Plain =>
    /\ UNCHANGED <<config, registers, image, lock, application>>
    /\ fresh' = fresh \/ fresh' = FALSE
    /\ at \notin CallingBack /\ at' \notin CallingBack
  <1>1. ASSUME NEW to, Receive(to) PROVE UNCHANGED <<config, registers, image, lock, application>>
                                         /\ fresh' = FALSE /\ at = "receive" /\ at' = to
    BY <1>1 DEF Receive, calling
  <1>2. JobFails \/ FramesReceived =>
          /\ UNCHANGED <<config, registers, image, lock, application>>
          /\ fresh' = FALSE /\ at \notin CallingBack /\ at' \notin CallingBack
    <2>1. ASSUME JobFails \/ FramesReceived
          PROVE  \E to \in {"callback", "lost", "good"} : Receive(to)
      BY <2>1 DEF JobFails, FramesReceived
    <2> QED
      BY <1>1, <2>1 DEF CallingBack
  <1>3. ASSUME NEW from, NEW f, NEW v, NEW to, Count(from, f, v, to)
        PROVE UNCHANGED <<config, registers, sending, application>> /\ at = from /\ at' = to
    BY <1>3 DEF Count, calling
  <1>4. CountLost \/ CountConsecutive \/ UpdateWorst \/ CountGood \/ ResetConsecutive
          \/ LogHi \/ LogLo =>
          /\ UNCHANGED <<config, registers, sending, application>>
          /\ at \notin CallingBack /\ at' \notin CallingBack
    BY <1>3 DEF CountLost, CountConsecutive, UpdateWorst, CountGood, ResetConsecutive,
                LogHi, LogLo, CallingBack
  <1>5. SkipCallback \/ Log \/ LogAverage \/ Stamp \/ Send =>
          /\ UNCHANGED <<config, registers, sending, application>>
          /\ at \notin CallingBack /\ at' \notin CallingBack
    BY DEF SkipCallback, Log, LogAverage, Stamp, Send, calling, CallingBack
  <1> QED
    BY <1>2, <1>4, <1>5 DEF Plain, sending

----------------------------------------------------------------------------
(* The output image *)

(* Who holds the mutex, what of a record is written, and what is fresh *)
ImageInv ==
  /\ image \in {"app", "callback"} \X {"app", "callback"}
  /\ lock = "callback" <=> at \in {"set_1", "set_2", "set_unlock"}
  /\ lock = "app" <=> app \in {"set_1", "set_2", "set_unlock"}
  /\ lock \in {"free", "app", "callback"}
  /\ lock = "free" => image[1] = image[2]
  /\ at = "set_2" => image[1] = "callback"
  /\ at = "set_unlock" => image = <<"callback", "callback">>
  /\ app = "set_2" => image[1] = "app"
  /\ app = "set_unlock" => image = <<"app", "app">>
  /\ fresh => lock = "free" /\ image = <<"callback", "callback">>

LEMMA InitImage == Init => ImageInv
  BY DEF Init, ImageInv

(* Only the holder of the mutex writes, both words before it unlocks.      *)
LEMMA StepImage == ImageInv /\ [Next]_vars => ImageInv'
  <1> SUFFICES ASSUME ImageInv, [Next]_vars PROVE ImageInv'
    OBVIOUS
  <1> USE DEF ImageInv
  <1>1. CASE Plain
    BY <1>1, PlainFrame DEF CallingBack, application
  <1>2. CASE TestCallback \/ CallCallback
    BY <1>2 DEF TestCallback, CallCallback, sending, application
  <1>3. CASE CallbackSet
    <2>1. UNCHANGED <<app>>
      BY <1>3 DEF CallbackSet, application
    <2>2. CASE at = "set_lock" /\ Lock("callback") /\ at' = "set_1"
      BY <2>1, <2>2 DEF Lock
    <2>3. CASE at = "set_1" /\ Write("callback", 1) /\ at' = "set_2"
      BY <2>1, <2>3 DEF Write
    <2>4. CASE at = "set_2" /\ Write("callback", 2) /\ at' = "set_unlock"
      BY <2>1, <2>4 DEF Write
    <2>5. CASE at = "set_unlock" /\ Unlock("callback") /\ at' = "log"
      BY <2>1, <2>5 DEF Unlock
    <2> QED
      BY <1>3, <2>2, <2>3, <2>4, <2>5 DEF CallbackSet
  <1>4. CASE AppLock
    BY <1>4 DEF AppLock, Begin, Lock
  <1>5. CASE AppSet
    <2>1. UNCHANGED <<at>>
      BY <1>5 DEF AppSet
    <2>2. CASE Proceed("set_1", "set_2") /\ Write("app", 1)
      BY <2>1, <2>2 DEF Proceed, Write
    <2>3. CASE Proceed("set_2", "set_unlock") /\ Write("app", 2)
      BY <2>1, <2>3 DEF Proceed, Write
    <2>4. CASE Proceed("set_unlock", "idle") /\ Unlock("app")
      <3>1. app = "set_unlock" /\ app' = "idle" /\ lock' = "free" /\ UNCHANGED image
        BY <2>4 DEF Proceed, Unlock
      <3>2. fresh' = FALSE
        BY <2>4 DEF Unlock
      <3> QED
        BY <2>1, <3>1, <3>2
    <2> QED
      BY <1>5, <2>2, <2>3, <2>4 DEF AppSet
  <1>6. ASSUME \/ \E c \in Callbacks \cup {None} : Register(c)
               \/ \E fields \in Looks : GetStats(fields)
               \/ SetCallback \/ GotStats \/ \E f \in Fields : CopyField(f)
        PROVE  ImageInv'
    <2>1. /\ UNCHANGED <<at, sending>>
          /\ app \notin {"set_1", "set_2", "set_unlock"}
          /\ app' \notin {"set_1", "set_2", "set_unlock"}
      BY <1>6 DEF Register, GetStats, SetCallback, GotStats, CopyField, Begin, Proceed
    <2> QED
      BY <2>1 DEF sending
  <1>7. CASE UNCHANGED vars
    BY <1>7 DEF vars, sending, application
  <1> QED
    BY <1>1, <1>2, <1>3, <1>4, <1>5, <1>6, <1>7
    DEF Next, CyclicThread, Application, AppCall, Plain

(* Between two writes the output image is one writer's, and the frame of a *)
(* cycle takes what its callback has written, unless the application has   *)
(* begun to write since.                                                   *)
THEOREM ImageStaysWhole == Spec => []ImageWhole
  <1>1. ImageInv => ImageWhole
    BY DEF ImageInv, ImageWhole
  <1> QED
    BY <1>1, InitImage, StepImage, PTL DEF Spec

----------------------------------------------------------------------------
(* The callback and its argument *)

(* Function and argument belong together, unless the function is still     *)
(* null, and cannot be seen; a function that was seen stays.               *)
ArgsInv ==
  /\ registers \in Nat
  /\ registers = 0 => config.fn = None /\ config.args = None
  /\ registers = 0 => app # "set_callback"
  /\ registers <= 1 => \/ config.args = config.fn
                       \/ app = "set_callback" /\ config.fn = None
  /\ app = "set_callback" /\ registers <= 1 => arg = config.args /\ config.fn = None
  /\ DOMAIN config = {"fn", "args"}
  /\ at = "call" /\ registers <= 1 => config.fn # None

LEMMA InitArgs == Init => ArgsInv
  BY DEF Init, ArgsInv

LEMMA StepArgs == ArgsInv /\ [Next]_vars => ArgsInv'
  <1> SUFFICES ASSUME ArgsInv, [Next]_vars PROVE ArgsInv'
    OBVIOUS
  <1> USE DEF ArgsInv
  <1>1. CASE Plain
    BY <1>1, PlainFrame DEF CallingBack, application
  <1>2. CASE TestCallback \/ CallCallback
    BY <1>2 DEF TestCallback, CallCallback, calling, application
  <1>3. CASE CallbackSet
    BY <1>3 DEF CallbackSet, calling, application
  <1>4. ASSUME NEW c \in Callbacks \cup {None}, Register(c) PROVE ArgsInv'
    BY <1>4 DEF Register, Begin
  <1>5. CASE SetCallback
    BY <1>5 DEF SetCallback, Proceed
  <1>6. ASSUME \/ AppLock \/ AppSet \/ GotStats
               \/ \E fields \in Looks : GetStats(fields)
               \/ \E f \in Fields : CopyField(f)
        PROVE  ArgsInv'
    <2>1. /\ UNCHANGED <<at, config, registers, arg>>
          /\ app # "set_callback" /\ app' # "set_callback"
      BY <1>6 DEF AppLock, AppSet, GetStats, GotStats, CopyField, Begin, Proceed, calling
    <2> QED
      BY <2>1
  <1>7. CASE UNCHANGED vars
    BY <1>7 DEF vars, calling, application
  <1> QED
    BY <1>1, <1>2, <1>3, <1>4, <1>5, <1>6, <1>7
    DEF Next, CyclicThread, Application, AppCall, Plain

(* A callback is called with the argument it was registered with, when the *)
(* application registers once: the argument is stored first.               *)
THEOREM CalledWithOwnArgs == Spec => OwnArgs
  <1>1. ArgsInv => (CallCallback /\ registers <= 1 => config.args = config.fn)
    BY DEF ArgsInv, CallCallback
  <1>2. ArgsInv /\ [Next]_vars =>
          [CallCallback /\ registers <= 1 => config.args = config.fn]_vars
    BY <1>1
  <1> QED
    BY <1>2, InitArgs, StepArgs, PTL DEF Spec, OwnArgs
----------------------------------------------------------------------------
(* The statistics and their copy *)

(* Where a cycle is before its time is logged *)
BeforeLog ==
  {"lost", "consecutive", "worst", "good", "reset", "callback", "log", "hi"} \cup CallingBack

Untimed == stats["lo"] = 0 /\ stats["hi"] = 0
Logged == Delta % Width

(* The numbers are numbers, and a copy is kept for its caller only. *)
NumbersInv ==
  /\ stats \in [Fields -> Nat] /\ snap \in [Fields -> Nat]
  /\ clock \in Nat /\ prev \in 0 .. clock /\ sum \in Nat /\ began \in Nat
  /\ at \in {"hi", "lo", "avg"} => Total(stats) > 0
  /\ look \subseteq Fields /\ left \subseteq look
  /\ app \notin {"copy", "copied"} => snap = Zero /\ left = {}
  /\ app = "copied" => left = {}

(* A difference is between two cycles, except the first, before which      *)
(* there is no largest and no least.                                       *)
TimesInv ==
  /\ at \in {"receive", "send"} => prev = clock \/ Untimed
  /\ at \in BeforeLog => Delta \in Deltas \/ Untimed
  /\ at = "lo" => Delta \in Deltas \/ (stats["lo"] = 0 /\ stats["hi"] = Logged)

(* The largest is updated first. *)
ExtremesInv ==
  /\ stats["lo"] <= stats["hi"]
  /\ stats["hi"] # 0 => stats["lo"] # 0 \/ at = "lo"
  /\ at = "lo" => Logged <= stats["hi"]

(* What a copy will hold of a field when it is done, or more *)
Kept(f) == IF f \in left THEN stats[f] ELSE snap[f]

(* The least is or is about to be h at most, and so it stays. *)
LeastBelow(h) ==
  \/ stats["lo"] # 0 /\ stats["lo"] <= h
  \/ stats["lo"] = 0 /\ at = "lo" /\ Logged <= h

CopyInv ==
  /\ snap["err"] <= stats["err"] /\ snap["good"] <= stats["good"]
  /\ app \in {"copy", "copied"} /\ {"err", "good"} \subseteq look
       => began <= Kept("err") + Kept("good")
  /\ snap["lo"] <= stats["hi"] /\ snap["hi"] <= stats["hi"]
  /\ snap["hi"] # 0 =>
       IF "lo" \in left THEN LeastBelow(snap["hi"]) ELSE snap["lo"] <= snap["hi"]

StatsInv == NumbersInv /\ TimesInv /\ ExtremesInv /\ CopyInv

(* Remainders, and that of a difference of two cycles *)
LEMMA Remainders ==
  /\ \A x \in Nat : x % Width \in Nat
  /\ \A x \in Nat : x < Width => x % Width = x
  BY WidthAssumption, SMT

LEMMA Quotients == \A x \in Nat, y \in Nat \ {0} : x \div y \in Nat
  BY SMT

LEMMA LoggedIsDelta ==
  ASSUME NumbersInv, ShortCycles
  PROVE  /\ Delta \in Nat /\ Logged \in Nat
         /\ Delta \in Deltas => Logged = Delta /\ Logged # 0
  <1>1. Delta \in Nat
    BY DEF NumbersInv, Delta
  <1> QED
    BY <1>1, Remainders, ClockAssumption DEF Logged, ShortCycles

LEMMA InitStats == Init => StatsInv
  BY ClockAssumption
  DEF Init, StatsInv, NumbersInv, TimesInv, ExtremesInv, CopyInv, Untimed, BeforeLog,
      CallingBack, Zero, Fields, Total

(* The frame counters only grow, and touch nothing else a copy shows. *)
LEMMA CountingKeepsStats ==
  ASSUME StatsInv,
         CountLost \/ CountConsecutive \/ UpdateWorst \/ CountGood \/ ResetConsecutive
  PROVE  StatsInv'
  <1> USE DEF StatsInv
  <1>1. PICK f \in {"err", "cur", "worst", "good"}, v \in Nat :
          /\ stats' = [stats EXCEPT ![f] = v]
          /\ f \in {"err", "good"} => v >= stats[f]
    BY DEF CountLost, CountConsecutive, UpdateWorst, CountGood, ResetConsecutive, Count,
           NumbersInv, Fields
  <1>2. /\ UNCHANGED <<clock, prev, sum, application>>
        /\ at \in BeforeLog \ {"hi", "log"} /\ at' \in BeforeLog \ {"hi", "log"}
    BY DEF CountLost, CountConsecutive, UpdateWorst, CountGood, ResetConsecutive, Count,
           BeforeLog
  <1>3. /\ stats' \in [Fields -> Nat]
        /\ stats'["lo"] = stats["lo"] /\ stats'["hi"] = stats["hi"]
        /\ stats'["err"] >= stats["err"] /\ stats'["good"] >= stats["good"]
    BY <1>1 DEF NumbersInv, Fields
  <1>4. NumbersInv'
    BY <1>2, <1>3 DEF NumbersInv, application, BeforeLog, CallingBack
  <1>5. TimesInv'
    BY <1>2, <1>3 DEF TimesInv, Untimed, Delta, BeforeLog, CallingBack
  <1>6. ExtremesInv'
    BY <1>2, <1>3 DEF ExtremesInv, BeforeLog, CallingBack
  <1>7. CopyInv'
    <2>1. Kept("err")' >= Kept("err") /\ Kept("good")' >= Kept("good")
          /\ Kept("err") \in Nat /\ Kept("good") \in Nat
          /\ Kept("err")' \in Nat /\ Kept("good")' \in Nat
      BY <1>2, <1>3 DEF Kept, NumbersInv, application, Fields
    <2>2. LeastBelow(snap["hi"]) => LeastBelow(snap["hi"])'
      BY <1>2, <1>3 DEF LeastBelow, application, BeforeLog, CallingBack
    <2> QED
      BY <1>2, <1>3, <2>1, <2>2 DEF CopyInv, NumbersInv, application, Fields
  <1> QED
    BY <1>4, <1>5, <1>6, <1>7

(* The times: first the largest, then the least, then the average. *)
LEMMA LoggingKeepsStats ==
  ASSUME StatsInv, ShortCycles, LogHi \/ LogLo \/ LogAverage
  PROVE  StatsInv'
  <1> USE DEF StatsInv
  <1>1. Logged \in Nat /\ Delta \in Nat /\ (Delta \in Deltas => Logged = Delta /\ Logged # 0)
    BY LoggedIsDelta
  <1>2. UNCHANGED <<clock, prev, application>> /\ Delta' = Delta /\ Logged' = Logged
    BY DEF LogHi, LogLo, LogAverage, Count, Delta, Logged
  <1>3. CASE LogHi
    <2>1. /\ stats' = [stats EXCEPT !["hi"] = IF Logged > stats["hi"] THEN Logged ELSE stats["hi"]]
          /\ at = "hi" /\ at' = "lo" /\ UNCHANGED sum
      BY <1>3 DEF LogHi, Count, Logged
    <2>2. /\ stats' \in [Fields -> Nat]
          /\ \A f \in Fields \ {"hi"} : stats'[f] = stats[f]
          /\ stats'["hi"] = IF Logged > stats["hi"] THEN Logged ELSE stats["hi"]
      BY <1>1, <2>1 DEF NumbersInv, Fields
    <2>3. NumbersInv'
      BY <1>2, <2>1, <2>2 DEF NumbersInv, application, Total, Fields
    <2>4. TimesInv'
      BY <1>1, <1>2, <2>1, <2>2 DEF TimesInv, Untimed, BeforeLog, CallingBack, NumbersInv, Fields
    <2>5. ExtremesInv'
      BY <1>1, <1>2, <2>1, <2>2 DEF ExtremesInv, NumbersInv, Fields
    <2>6. CopyInv'
      BY <1>1, <1>2, <2>1, <2>2 DEF CopyInv, Kept, LeastBelow, application, NumbersInv, Fields
    <2> QED
      BY <2>3, <2>4, <2>5, <2>6
  <1>4. CASE LogLo
    <2> DEFINE lower == Logged < stats["lo"] \/ stats["lo"] = 0
    <2>1. /\ stats' = [stats EXCEPT !["lo"] = IF lower THEN Logged ELSE stats["lo"]]
          /\ at = "lo" /\ at' = "avg" /\ UNCHANGED sum
      BY <1>4 DEF LogLo, Count, Logged
    <2>2. /\ stats' \in [Fields -> Nat]
          /\ \A f \in Fields \ {"lo"} : stats'[f] = stats[f]
          /\ stats'["lo"] = IF lower THEN Logged ELSE stats["lo"]
      BY <1>1, <2>1 DEF NumbersInv, Fields
    <2>3. NumbersInv'
      BY <1>2, <2>1, <2>2 DEF NumbersInv, application, Total, Fields
    <2>4. TimesInv'
      BY <2>1 DEF TimesInv, BeforeLog, CallingBack
    <2>5. stats'["hi"] # 0 => stats'["lo"] # 0
      BY <1>1, <2>1, <2>2 DEF TimesInv, NumbersInv, Fields
    <2>6. ExtremesInv'
      BY <1>1, <2>1, <2>2, <2>5 DEF ExtremesInv, NumbersInv, Fields
    <2>7. ASSUME LeastBelow(snap["hi"]), snap["hi"] # 0
          PROVE  LeastBelow(snap["hi"])'
      <3>1. snap' = snap /\ snap["hi"] \in Nat /\ stats["lo"] \in Nat
        BY <1>2 DEF application, NumbersInv, Fields
      <3>2. stats["hi"] # 0
        BY <2>7 DEF CopyInv, NumbersInv, Fields
      <3>3. stats'["lo"] # 0
        BY <2>2, <2>5, <3>2 DEF Fields
      <3>4. stats'["lo"] <= snap["hi"]
        BY <1>1, <2>2, <2>7, <3>1 DEF LeastBelow
      <3> QED
        BY <3>1, <3>3, <3>4 DEF LeastBelow
    <2>8. CopyInv'
      BY <1>1, <1>2, <2>1, <2>2, <2>7 DEF CopyInv, Kept, application, NumbersInv, Fields
    <2> QED
      BY <2>3, <2>4, <2>6, <2>8
  <1>5. CASE LogAverage
    <2>1. /\ stats' = [stats EXCEPT !["avg"] = ((sum + Delta) \div Total(stats)) % Width]
          /\ sum' = sum + Delta /\ at = "avg" /\ at' = "stamp"
      BY <1>5 DEF LogAverage
    <2>2. Total(stats) \in Nat \ {0} /\ sum + Delta \in Nat
      BY <1>1, <2>1 DEF NumbersInv, Total, Fields
    <2>3. ((sum + Delta) \div Total(stats)) % Width \in Nat
      BY <2>2, Quotients, Remainders
    <2>4. stats' \in [Fields -> Nat] /\ \A f \in Fields \ {"avg"} : stats'[f] = stats[f]
      BY <2>1, <2>3 DEF NumbersInv, Fields
    <2>5. NumbersInv'
      BY <1>2, <2>1, <2>2, <2>4 DEF NumbersInv, application
    <2>6. TimesInv'
      BY <2>1 DEF TimesInv, BeforeLog, CallingBack
    <2>7. ExtremesInv'
      BY <2>1, <2>4 DEF ExtremesInv, NumbersInv, Fields
    <2>8. CopyInv'
      BY <1>2, <2>1, <2>4 DEF CopyInv, Kept, LeastBelow, application, NumbersInv, Fields
    <2> QED
      BY <2>5, <2>6, <2>7, <2>8
  <1> QED
    BY <1>3, <1>4, <1>5

(* The rest of a cycle leaves the statistics alone. *)
LEMMA CycleKeepsStats ==
  ASSUME StatsInv,
         \/ JobFails \/ FramesReceived \/ SkipCallback \/ TestCallback \/ CallCallback
         \/ CallbackSet \/ Log \/ Stamp \/ Send
  PROVE  StatsInv'
  <1> USE DEF StatsInv
  <1>1. UNCHANGED <<stats, sum, application>> /\ at # "lo" /\ at' # "lo"
    BY DEF JobFails, FramesReceived, Receive, SkipCallback, TestCallback, CallCallback,
           CallbackSet, Log, Stamp, Send, counting
  <1>2. /\ clock' \in Nat /\ prev' \in 0 .. clock'
        /\ at' \in {"hi", "lo", "avg"} => Total(stats) > 0
    BY ClockAssumption
    DEF JobFails, FramesReceived, Receive, SkipCallback, TestCallback, CallCallback,
        CallbackSet, Log, Stamp, Send, counting, NumbersInv
  <1>3. NumbersInv'
    BY <1>1, <1>2 DEF NumbersInv, application, Total
  <1>4. TimesInv'
    <2>1. CASE JobFails \/ FramesReceived
      <3>1. PICK d \in Deltas : clock' = clock + d
        BY <2>1 DEF JobFails, FramesReceived, Receive
      <3>2. at = "receive" /\ at' \in {"callback", "lost", "good"} /\ prev' = prev
        BY <2>1 DEF JobFails, FramesReceived, Receive
      <3>3. d \in Nat
        BY ClockAssumption
      <3> QED
        BY <1>1, <3>1, <3>2, <3>3 DEF TimesInv, Untimed, Delta, BeforeLog, CallingBack, NumbersInv
    <2>2. CASE Stamp
      BY <1>1, <2>2 DEF Stamp, TimesInv, BeforeLog, CallingBack
    <2>3. CASE Send
      BY <1>1, <2>3 DEF Send, counting, TimesInv, Untimed, BeforeLog, CallingBack
    <2>4. CASE SkipCallback \/ TestCallback \/ CallCallback \/ CallbackSet \/ Log
      <3>1. UNCHANGED <<clock, prev>> /\ at \in BeforeLog
            /\ at' \notin {"receive", "send", "lo"}
        BY <2>4 DEF SkipCallback, TestCallback, CallCallback, CallbackSet, Log, counting,
                    BeforeLog, CallingBack
      <3> QED
        BY <1>1, <3>1 DEF TimesInv, Untimed, Delta
    <2> QED
      BY <2>1, <2>2, <2>3, <2>4
  <1>5. ExtremesInv'
    BY <1>1 DEF ExtremesInv
  <1>6. CopyInv'
    BY <1>1 DEF CopyInv, Kept, LeastBelow, application
  <1> QED
    BY <1>3, <1>4, <1>5, <1>6

(* The application copies a field at a time. *)
LEMMA CallsKeepStats ==
  ASSUME StatsInv, Application
  PROVE  StatsInv'
  <1> USE DEF StatsInv
  <1>1. UNCHANGED <<at, counting>>
    BY DEF Application, AppCall, AppLock, AppSet, Register, SetCallback, GetStats, CopyField,
           GotStats
  <1>2. TimesInv' /\ ExtremesInv'
    BY <1>1 DEF counting, TimesInv, ExtremesInv, Untimed, Delta, Logged
  <1>3. CASE AppLock \/ AppSet \/ SetCallback \/ \E c \in Callbacks \cup {None} : Register(c)
    <2>1. /\ UNCHANGED <<look, snap, left, began>>
          /\ app \notin {"copy", "copied"} /\ app' \notin {"copy", "copied"}
      BY <1>3 DEF AppLock, AppSet, SetCallback, Register, Begin, Proceed
    <2> QED
      BY <1>1, <1>2, <2>1 DEF counting, NumbersInv, CopyInv, Kept, LeastBelow, Logged, Delta
  <1>4. ASSUME NEW fields \in Looks, GetStats(fields) PROVE StatsInv'
    <2>1. /\ look' = fields /\ left' = fields /\ snap' = Zero
          /\ began' = Total(stats) /\ app = "idle" /\ app' = "copy"
      BY <1>4 DEF GetStats, Begin, NumbersInv
    <2>2. NumbersInv'
      BY <1>1, <2>1, LooksAssumption DEF counting, NumbersInv, Zero, Total, Fields
    <2>3. CopyInv'
      BY <1>1, <2>1 DEF counting, CopyInv, Kept, Zero, Total, NumbersInv, Fields
    <2> QED
      BY <1>2, <2>2, <2>3
  <1>5. ASSUME NEW f \in Fields, CopyField(f) PROVE StatsInv'
    <2>1. /\ f \in left /\ left' = left \ {f} /\ snap' = [snap EXCEPT ![f] = stats[f]]
          /\ app = "copy" /\ app' = (IF left' = {} THEN "copied" ELSE "copy")
          /\ UNCHANGED <<look, began>>
      BY <1>5 DEF CopyField, Proceed
    <2>2. NumbersInv'
      BY <1>1, <2>1 DEF counting, NumbersInv, Total
    <2>3. \A g \in Fields : snap'[g] = IF g = f THEN stats[g] ELSE snap[g]
      BY <2>1 DEF NumbersInv
    <2>4. \A g \in Fields : Kept(g)' = Kept(g)
      BY <1>1, <2>1, <2>3 DEF counting, Kept
    <2>5. snap'["err"] <= stats["err"] /\ snap'["good"] <= stats["good"]
          /\ snap'["lo"] <= stats["hi"] /\ snap'["hi"] <= stats["hi"]
      BY <2>3 DEF CopyInv, ExtremesInv, NumbersInv, Fields
    <2>6. ASSUME snap'["hi"] # 0, "lo" \in left' PROVE LeastBelow(snap'["hi"])
      <3>1. CASE f = "hi"
        BY <2>1, <2>3, <2>6, <3>1 DEF LeastBelow, ExtremesInv, NumbersInv, Fields
      <3>2. CASE f # "hi"
        BY <2>1, <2>3, <2>6, <3>2 DEF CopyInv, Fields
      <3> QED
        BY <3>1, <3>2
    <2>7. ASSUME snap'["hi"] # 0, "lo" \notin left' PROVE snap'["lo"] <= snap'["hi"]
      <3>1. CASE f = "hi"
        BY <2>1, <2>3, <2>7, <3>1 DEF CopyInv, Fields
      <3>2. CASE f = "lo"
        BY <2>1, <2>3, <2>7, <3>2 DEF CopyInv, LeastBelow, NumbersInv, Fields
      <3>3. CASE f \notin {"hi", "lo"}
        BY <2>1, <2>3, <2>7, <3>3 DEF CopyInv, Fields
      <3> QED
        BY <3>1, <3>2, <3>3
    <2>8. LeastBelow(snap["hi"])' <=> LeastBelow(snap'["hi"])
      BY <1>1 DEF counting, LeastBelow, Logged, Delta
    <2>9. CopyInv'
      BY <1>1, <2>1, <2>4, <2>5, <2>6, <2>7, <2>8 DEF counting, CopyInv, Fields
    <2> QED
      BY <1>2, <2>2, <2>9
  <1>6. CASE GotStats
    <2>1. look' = {} /\ snap' = Zero /\ began' = 0 /\ left' = left /\ left = {}
          /\ app' = "idle"
      BY <1>6 DEF GotStats, Proceed, NumbersInv
    <2>2. NumbersInv'
      BY <1>1, <2>1 DEF counting, NumbersInv, Zero, Total, Fields
    <2>3. CopyInv'
      BY <1>1, <2>1 DEF counting, CopyInv, Zero, NumbersInv, Fields
    <2> QED
      BY <1>2, <2>2, <2>3
  <1> QED
    BY <1>3, <1>4, <1>5, <1>6 DEF Application, AppCall

LEMMA StatsStay == ASSUME ShortCycles PROVE Spec => []StatsInv
  <1>1. StatsInv /\ [Next]_vars => StatsInv'
    <2> SUFFICES ASSUME StatsInv, [Next]_vars PROVE StatsInv'
      OBVIOUS
    <2>1. CASE UNCHANGED vars
      BY <2>1 DEF vars, counting, application, StatsInv, NumbersInv, TimesInv, ExtremesInv,
                  CopyInv, Untimed, Delta, Logged, Kept, LeastBelow, Total
    <2> QED
      BY <2>1, CountingKeepsStats, LoggingKeepsStats, CycleKeepsStats, CallsKeepStats
      DEF Next, CyclicThread
  <1> QED
    BY <1>1, InitStats, PTL DEF Spec

(* A copy of the statistics counts no fewer frames than there were when it *)
(* was begun and no more than there are when it is done, and never shows a *)
(* least difference above the largest, provided no difference of two       *)
(* cycles is as wide as the 32 bits it is cut to.                          *)
THEOREM CopiesAreConsistent == ASSUME ShortCycles PROVE Spec => []CopyConsistent
  <1>1. StatsInv => CopyConsistent
    <2> SUFFICES ASSUME StatsInv, app = "copied" PROVE CopyConsistent
      BY DEF CopyConsistent
    <2>1. left = {} /\ look \subseteq Fields /\ snap \in [Fields -> Nat] /\ stats \in [Fields -> Nat]
          /\ began \in Nat
      BY DEF StatsInv, NumbersInv
    <2>2. {"err", "good"} \subseteq look => Total(snap) \in began .. Total(stats)
      BY <2>1 DEF StatsInv, CopyInv, Kept, Total, Fields
    <2>3. "lo" \in look /\ snap["hi"] # 0 => snap["lo"] <= snap["hi"]
      BY <2>1 DEF StatsInv, CopyInv
    <2> QED
      BY <2>2, <2>3 DEF CopyConsistent
  <1> QED
    BY <1>1, StatsStay, PTL
----------------------------------------------------------------------------
(* The types *)

(* An average is taken only of frames that were counted. *)
TypeInv ==
  /\ TypeOK
  /\ arg \in Callbacks \cup {None}
  /\ at \in {"hi", "lo", "avg"} => Total(stats) > 0

LEMMA CountTypes ==
  ASSUME TypeInv, NEW from, NEW f \in Fields, NEW v \in Nat, NEW to,
         Count(from, f, v, to), f \in {"err", "good"} => v > 0,
         to \in {"hi", "lo", "avg"} => from \in {"hi", "lo", "avg"} /\ f \notin {"err", "good"}
  PROVE  TypeInv'
  <1>1. /\ stats' = [stats EXCEPT ![f] = v] /\ at = from /\ at' = to
        /\ UNCHANGED <<sum, clock, prev, calling, sending, application>>
    BY DEF Count
  <1>2. stats \in [Fields -> Nat]
    BY DEF TypeInv, TypeOK
  <1>3. stats' \in [Fields -> Nat] /\ \A g \in Fields \ {f} : stats'[g] = stats[g]
    BY <1>1, <1>2
  <1>4. to \in {"hi", "lo", "avg"} => Total(stats)' > 0
    BY <1>1, <1>2, <1>3 DEF TypeInv, Total, Fields
  <1> QED
    BY <1>1, <1>3, <1>4 DEF TypeInv, TypeOK, calling, sending, application

LEMMA CyclicTypes == ASSUME TypeInv, CyclicThread PROVE TypeInv'
  <1>1. /\ stats \in [Fields -> Nat] /\ sum \in Nat /\ clock \in Nat /\ prev \in 0 .. clock
        /\ at \in {"hi", "lo", "avg"} => Total(stats) > 0
    BY DEF TypeInv, TypeOK
  <1>2. Delta \in Nat /\ Delta % Width \in Nat
    BY <1>1, Remainders DEF Delta
  <1>3. CASE \/ CountLost \/ CountConsecutive \/ UpdateWorst \/ CountGood
    <2> DEFINE worse == stats["cur"] > stats["worst"]
    <2>1. /\ stats["err"] + 1 \in Nat \ {0} /\ stats["cur"] + 1 \in Nat
          /\ stats["good"] + 1 \in Nat \ {0}
          /\ (IF worse THEN stats["cur"] ELSE stats["worst"]) \in Nat
      BY <1>1 DEF Fields
    <2> QED
      BY <1>3, <2>1, CountTypes
      DEF CountLost, CountConsecutive, UpdateWorst, CountGood, Fields
  <1>4. CASE ResetConsecutive
    BY <1>4, CountTypes DEF ResetConsecutive, Fields
  <1>5. CASE LogHi
    <2>1. (IF Delta % Width > stats["hi"] THEN Delta % Width ELSE stats["hi"]) \in Nat
      BY <1>1, <1>2 DEF Fields
    <2> QED
      BY <1>5, <2>1, CountTypes DEF LogHi, Fields
  <1>6. CASE LogLo
    <2> DEFINE lower == Delta % Width < stats["lo"] \/ stats["lo"] = 0
    <2>1. (IF lower THEN Delta % Width ELSE stats["lo"]) \in Nat
      BY <1>1, <1>2 DEF Fields
    <2> QED
      BY <1>6, <2>1, CountTypes DEF LogLo, Fields
  <1>7. CASE LogAverage
    <2>1. Total(stats) \in Nat \ {0} /\ sum + Delta \in Nat
      BY <1>1, <1>2, <1>7 DEF LogAverage, Total, Fields
    <2>2. ((sum + Delta) \div Total(stats)) % Width \in Nat
      BY <2>1, Quotients, Remainders
    <2>3. stats' \in [Fields -> Nat] /\ sum' \in Nat /\ at' = "stamp"
      BY <1>1, <1>7, <2>1, <2>2 DEF LogAverage
    <2> QED
      BY <1>7, <2>3 DEF LogAverage, TypeInv, TypeOK, calling, sending, application
  <1>8. ASSUME JobFails \/ FramesReceived \/ SkipCallback \/ TestCallback \/ CallCallback
                 \/ Log \/ Stamp \/ Send
        PROVE  TypeInv'
    <2>1. /\ UNCHANGED <<stats, sum, calling, image, lock, application>>
          /\ clock' \in Nat /\ prev' \in 0 .. clock'
          /\ at' \in {"hi", "lo", "avg"} => Total(stats) > 0
      BY <1>1, <1>8, ClockAssumption
      DEF JobFails, FramesReceived, Receive, SkipCallback, TestCallback, CallCallback, Log,
          Stamp, Send, counting, sending
    <2> QED
      BY <2>1 DEF TypeInv, TypeOK, Total, calling, application
  <1>9. CASE CallbackSet
    BY <1>9 DEF CallbackSet, Lock, Write, Unlock, TypeInv, TypeOK, Total, counting, calling,
                application
  <1> QED
    BY <1>3, <1>4, <1>5, <1>6, <1>7, <1>8, <1>9 DEF CyclicThread

LEMMA ApplicationTypes == ASSUME TypeInv, Application PROVE TypeInv'
  <1> USE DEF TypeInv, TypeOK, Total, counting, calling, sending, Begin, Proceed
  <1>1. CASE AppLock
    BY <1>1 DEF AppLock, Lock
  <1>2. CASE AppSet
    BY <1>2 DEF AppSet, Write, Unlock
  <1>3. ASSUME NEW c \in Callbacks \cup {None}, Register(c) PROVE TypeInv'
    BY <1>3 DEF Register
  <1>4. CASE SetCallback
    BY <1>4 DEF SetCallback
  <1>5. ASSUME NEW fields \in Looks, GetStats(fields) PROVE TypeInv'
    BY <1>5, LooksAssumption DEF GetStats
  <1>6. ASSUME NEW f \in Fields, CopyField(f) PROVE TypeInv'
    BY <1>6 DEF CopyField
  <1>7. CASE GotStats
    BY <1>7 DEF GotStats, Zero
  <1> QED
    BY <1>1, <1>2, <1>3, <1>4, <1>5, <1>6, <1>7 DEF Application, AppCall

LEMMA TypesStay == Spec => []TypeInv
  <1>1. Init => TypeInv
    BY ClockAssumption DEF Init, TypeInv, TypeOK, Zero
  <1>2. TypeInv /\ [Next]_vars => TypeInv'
    <2>1. TypeInv /\ UNCHANGED vars => TypeInv'
      BY DEF TypeInv, TypeOK, vars, Total, counting, calling, sending, application
    <2> QED
      BY <2>1, CyclicTypes, ApplicationTypes DEF Next
  <1> QED
    BY <1>1, <1>2, PTL DEF Spec

(* The statistics, the clock, the image and the calls keep their types,    *)
(* and an average is never one of no frames.                               *)
THEOREM UpdateTypes == Spec => []TypeOK
  <1>1. TypeInv => TypeOK
    BY DEF TypeInv
  <1> QED
    BY <1>1, TypesStay, PTL
----------------------------------------------------------------------------
(* The average *)

(* Products and quotients of sums of differences *)
LEMMA OneMore == \A a, k \in Nat : a * (k + 1) = a * k + a
  BY SMT

LEMMA Products == \A a, k \in Nat : a * k \in Nat
  BY SMT

LEMMA MoreTimes == \A a, b, k \in Nat : a <= b => a * k <= b * k
  BY SMT

LEMMA TimesMore == \A b, k, n \in Nat : k <= n => b * k <= b * n
  BY SMT

LEMMA AtMost == \A a, b, k, n \in Nat : a <= b /\ k <= n => a * k <= b * n
  <1> SUFFICES ASSUME NEW a \in Nat, NEW b \in Nat, NEW k \in Nat, NEW n \in Nat, a <= b, k <= n
               PROVE  a * k <= b * n
    OBVIOUS
  <1>1. a * k <= b * k
    BY MoreTimes
  <1>2. b * k <= b * n
    BY TimesMore
  <1>3. a * k \in Nat /\ b * k \in Nat /\ b * n \in Nat
    OBVIOUS
  <1> QED
    BY <1>1, <1>2, <1>3

LEMMA QuotientWithin ==
  ASSUME NEW s \in Nat, NEW n \in Nat \ {0}, NEW l \in Nat, NEW w \in Nat,
         l * n <= s, s < w * n
  PROVE  s \div n \in Nat /\ l <= s \div n /\ s \div n < w
  <1> DEFINE q == s \div n
             r == s % n
  <1>1. s = n * q + r /\ r \in 0 .. n - 1 /\ q \in Nat
    BY SMT
  <1> HIDE DEF q, r
  <1>2. q < w
    <2>1. SUFFICES ASSUME q >= w PROVE FALSE
      BY <1>1
    <2>2. n * q >= n * w
      BY <1>1, <2>1, SMT
    <2>3. n * w = w * n
      BY SMT
    <2> QED
      BY <1>1, <2>2, <2>3
  <1>3. l <= q
    <2>1. SUFFICES ASSUME q + 1 <= l PROVE FALSE
      BY <1>1
    <2>2. l * n >= (q + 1) * n
      BY <1>1, <2>1, SMT
    <2>3. (q + 1) * n = n * q + n
      BY <1>1, SMT
    <2> QED
      BY <1>1, <2>2, <2>3
  <1> QED
    BY <1>1, <1>2, <1>3 DEF q

Frames == Total(stats)

(* For how many of the frames a difference is in the sum: the one counted  *)
(* last in a cycle is missing from it until the average is taken.          *)
Summed ==
  IF at \in {"receive", "lost", "good", "stamp", "send"} \/ Frames = 0
  THEN Frames ELSE Frames - 1

(* No difference was less.  A least of 0 was cut from Width or more. *)
Least == IF stats["lo"] = 0 THEN Width ELSE stats["lo"]

SumInv == Least * Summed <= sum

(* Two cycles take time, and their difference is no less than the least    *)
(* when it has been looked at.                                             *)
DifferenceInv ==
  /\ at \notin {"receive", "send"} => Delta > 0
  /\ at = "avg" => Least <= Delta

AveragedInv ==
  at \in {"stamp", "send", "receive"} /\ sum < Width * Frames => stats["lo"] <= stats["avg"]

AverageInv == SumInv /\ DifferenceInv /\ AveragedInv

LEMMA AverageNumbers ==
  ASSUME NumbersInv
  PROVE  /\ stats \in [Fields -> Nat] /\ Frames \in Nat /\ Summed \in Nat /\ sum \in Nat
         /\ \A f \in Fields : stats[f] \in Nat
         /\ Least \in Nat /\ stats["lo"] <= Least
         /\ Delta \in Nat /\ clock \in Nat /\ prev \in Nat
  BY WidthAssumption DEF NumbersInv, Frames, Total, Summed, Delta, Fields, Least

LEMMA InitAverage == Init => AverageInv
  <1> SUFFICES ASSUME Init PROVE AverageInv
    OBVIOUS
  <1>1. Frames = 0 /\ Summed = 0 /\ Least = Width /\ sum = 0 /\ at = "receive"
    BY DEF Init, Zero, Frames, Summed, Total, Fields, Least
  <1> QED
    BY <1>1, WidthAssumption DEF AverageInv, SumInv, DifferenceInv, AveragedInv

(* The sum stays above while the differences in it do, and fewer frames    *)
(* than there are differences do no harm.                                  *)
LEMMA SumStays ==
  ASSUME SumInv, Least \in Nat, Summed \in Nat, Least' \in Nat, Summed' \in Nat, sum \in Nat,
         sum' = sum, Least' <= Least, Summed' <= Summed
  PROVE  SumInv'
  <1>1. Least' * Summed' <= Least * Summed
    BY AtMost
  <1>2. Least' * Summed' \in Nat /\ Least * Summed \in Nat
    BY Products
  <1>3. Least * Summed <= sum
    BY DEF SumInv
  <1>4. \A x, y, z \in Nat : x <= y /\ y <= z => x <= z
    BY SMT
  <1>5. Least' * Summed' <= sum'
    BY <1>1, <1>2, <1>3, <1>4
  <1> QED
    BY <1>5 DEF SumInv

(* A cycle is received later than the one before. *)
LEMMA ReceiveAverage ==
  ASSUME NumbersInv, NumbersInv', AverageInv, JobFails \/ FramesReceived
  PROVE  AverageInv'
  <1> USE AverageNumbers DEF AverageInv
  <1>1. PICK to \in {"callback", "lost", "good"} : Receive(to)
    BY DEF JobFails, FramesReceived
  <1>2. PICK d \in Deltas : clock' = clock + d
    BY <1>1 DEF Receive
  <1>3. /\ UNCHANGED <<stats, sum, prev>> /\ at = "receive" /\ at' = to
    BY <1>1 DEF Receive
  <1>4. Frames' = Frames /\ Least' = Least /\ Delta' > 0
    BY <1>2, <1>3, ClockAssumption DEF Frames, Least, Delta
  <1>5. Summed' <= Summed /\ Summed' \in Nat
    BY <1>3, <1>4 DEF Summed
  <1>6. SumInv'
    BY <1>3, <1>4, <1>5, SumStays
  <1> QED
    BY <1>3, <1>4, <1>6 DEF DifferenceInv, AveragedInv

(* A frame is counted ahead of its difference. *)
LEMMA CountAverage ==
  ASSUME NumbersInv, AverageInv,
         CountLost \/ CountConsecutive \/ UpdateWorst \/ CountGood \/ ResetConsecutive
  PROVE  AverageInv'
  <1> USE AverageNumbers DEF AverageInv
  <1>1. PICK f \in {"err", "cur", "worst", "good"}, v \in Nat :
          /\ stats' = [stats EXCEPT ![f] = v]
          /\ IF f \in {"err", "good"}
             THEN v = stats[f] + 1 /\ at \in {"lost", "good"}
             ELSE at \in {"consecutive", "worst", "reset"}
    BY DEF CountLost, CountConsecutive, UpdateWorst, CountGood, ResetConsecutive, Count, Fields
  <1>2. /\ UNCHANGED <<clock, prev, sum>>
        /\ at \in {"lost", "good", "consecutive", "worst", "reset"}
        /\ at' \in {"consecutive", "worst", "reset", "callback"}
    BY DEF CountLost, CountConsecutive, UpdateWorst, CountGood, ResetConsecutive, Count
  <1>3. Least' = Least /\ Delta' = Delta
    BY <1>1, <1>2 DEF Least, Delta, Fields
  <1>4. Frames' = IF at \in {"lost", "good"} THEN Frames + 1 ELSE Frames
    BY <1>1 DEF Frames, Total, Fields
  <1>5. Summed' = Summed
    BY <1>2, <1>4 DEF Summed
  <1>6. SumInv'
    BY <1>2, <1>3, <1>5 DEF SumInv
  <1> QED
    BY <1>2, <1>3, <1>6 DEF DifferenceInv, AveragedInv

(* Between the count and the sum, and after it *)
LEMMA CycleAverage ==
  ASSUME NumbersInv, AverageInv,
         \/ SkipCallback \/ TestCallback \/ CallCallback \/ CallbackSet \/ Log \/ Stamp \/ Send
  PROVE  AverageInv'
  <1> USE AverageNumbers DEF AverageInv
  <1>1. UNCHANGED <<stats, sum, clock>> /\ Frames' = Frames /\ Least' = Least
    BY DEF SkipCallback, TestCallback, CallCallback, CallbackSet, Log, Stamp, Send, counting,
           Frames, Least
  <1>2. CASE SkipCallback \/ TestCallback \/ CallCallback \/ CallbackSet
    <2>1. /\ Delta' = Delta
          /\ at \in {"callback"} \cup CallingBack
          /\ at' \in {"log", "crashed"} \cup CallingBack
      BY <1>2 DEF SkipCallback, TestCallback, CallCallback, CallbackSet, counting, Delta,
                  CallingBack
    <2>2. Summed' = Summed
      BY <1>1, <2>1 DEF Summed, CallingBack
    <2> QED
      BY <1>1, <2>1, <2>2 DEF SumInv, DifferenceInv, AveragedInv, CallingBack
  <1>3. CASE Log
    <2>1. /\ Delta' = Delta /\ at = "log"
          /\ at' = IF Frames > 0 THEN "hi" ELSE "stamp"
      BY <1>3 DEF Log, counting, Delta, Frames
    <2>2. Summed' = Summed
      BY <1>1, <2>1 DEF Summed
    <2>3. Frames = 0 => Width * Frames = 0
      BY WidthAssumption
    <2> QED
      BY <1>1, <2>1, <2>2, <2>3 DEF SumInv, DifferenceInv, AveragedInv
  <1>4. CASE Stamp \/ Send
    <2>1. \/ at = "stamp" /\ at' = "send"
          \/ at = "send" /\ at' = "receive"
      BY <1>4 DEF Stamp, Send
    <2>2. Summed' = Summed
      BY <1>1, <2>1 DEF Summed
    <2> QED
      BY <1>1, <2>1, <2>2 DEF SumInv, DifferenceInv, AveragedInv
  <1> QED
    BY <1>2, <1>3, <1>4

(* The largest says nothing of the sum; the least only falls. *)
LEMMA ExtremesAverage ==
  ASSUME StatsInv, AverageInv, ShortCycles, LogHi \/ LogLo
  PROVE  AverageInv'
  <1> USE AverageNumbers DEF AverageInv, StatsInv
  <1>1. /\ UNCHANGED <<sum, clock, prev>> /\ Delta' = Delta
        /\ at \in {"hi", "lo"} /\ at' \in {"lo", "avg"} /\ Frames > 0
    BY DEF LogHi, LogLo, Count, Delta, NumbersInv, Frames
  <1>2. CASE LogHi
    <2>1. at = "hi" /\ at' = "lo" /\ \A f \in Fields \ {"hi"} : stats'[f] = stats[f]
      BY <1>2 DEF LogHi, Count
    <2>2. Frames' = Frames /\ Summed' = Summed /\ Least' = Least
      BY <2>1 DEF Frames, Total, Summed, Least, Fields
    <2> QED
      BY <1>1, <2>1, <2>2 DEF SumInv, DifferenceInv, AveragedInv
  <1>3. CASE LogLo
    <2> DEFINE lower == Logged < stats["lo"] \/ stats["lo"] = 0
    <2>1. /\ stats' = [stats EXCEPT !["lo"] = IF lower THEN Logged ELSE stats["lo"]]
          /\ at = "lo" /\ at' = "avg"
      BY <1>3 DEF LogLo, Count, Logged
    <2>2. /\ stats'["lo"] = IF lower THEN Logged ELSE stats["lo"]
          /\ \A f \in Fields \ {"lo"} : stats'[f] = stats[f]
      BY <2>1 DEF Fields
    <2>3. Frames' = Frames /\ Summed' = Summed
      BY <2>1, <2>2 DEF Frames, Total, Summed, Fields
    <2>4. /\ Logged \in 0 .. Width - 1 /\ Logged <= Delta
          /\ Logged = 0 /\ Delta > 0 => Width <= Delta
      <3>1. Logged \in 0 .. Width - 1 /\ (Delta < Width => Logged = Delta)
        BY WidthAssumption, SMT DEF Logged
      <3> QED
        BY <3>1, WidthAssumption
    <2>5. Delta > 0 /\ stats["lo"] \in Nat
      BY <2>1 DEF DifferenceInv, Fields
    <2>6. stats["lo"] # 0 => Logged = Delta
      BY <2>1, LoggedIsDelta DEF TimesInv
    <2>7. Least' \in Nat /\ Least' <= Least /\ Least' <= Delta
      BY <2>2, <2>4, <2>5, <2>6, WidthAssumption DEF Least
    <2>8. SumInv'
      BY <1>1, <2>3, <2>7, SumStays
    <2> QED
      BY <1>1, <2>1, <2>7, <2>8 DEF DifferenceInv, AveragedInv
  <1> QED
    BY <1>2, <1>3

(* The sum catches up with the count. *)
LEMMA LogAverageAverage ==
  ASSUME NumbersInv, AverageInv, LogAverage
  PROVE  AverageInv'
  <1> USE AverageNumbers DEF AverageInv
  <1> DEFINE q == sum' \div Frames
  <1>1. /\ stats' = [stats EXCEPT !["avg"] = q % Width]
        /\ sum' = sum + Delta /\ at = "avg" /\ at' = "stamp"
        /\ UNCHANGED <<clock, prev>>
    BY DEF LogAverage, Frames
  <1> HIDE DEF q
  <1>2. stats'["avg"] = q % Width /\ \A f \in Fields \ {"avg"} : stats'[f] = stats[f]
    BY <1>1 DEF Fields
  <1>3. /\ Frames' = Frames /\ Frames \in Nat \ {0} /\ Least' = Least
        /\ Frames = Summed + 1 /\ Summed' = Frames
    BY <1>1, <1>2 DEF Frames, Total, Summed, Fields, NumbersInv, Least
  <1>4. Least * Frames <= sum'
    <2>1. Least * Frames = Least * Summed + Least
      BY <1>3, OneMore
    <2>2. Least * Summed \in Nat /\ Least * Summed <= sum /\ Least <= Delta
      BY <1>1 DEF SumInv, DifferenceInv
    <2> QED
      BY <1>1, <2>1, <2>2
  <1>5. SumInv'
    BY <1>3, <1>4 DEF SumInv
  <1>6. DifferenceInv'
    BY <1>1 DEF DifferenceInv, Delta
  <1>7. ASSUME sum' < Width * Frames PROVE stats["lo"] <= q % Width
    <2>1. q \in Nat /\ Least <= q /\ q < Width
      <3>1. /\ sum' \in Nat /\ Frames \in Nat \ {0} /\ Least \in Nat /\ Width \in Nat
            /\ Least * Frames <= sum' /\ sum' < Width * Frames
        BY <1>1, <1>3, <1>4, <1>7, WidthAssumption
      <3>2. sum' \div Frames \in Nat /\ Least <= sum' \div Frames /\ sum' \div Frames < Width
        BY ONLY <3>1, QuotientWithin
      <3> QED
        BY <3>2 DEF q
    <2>2. q % Width = q
      BY <2>1, Remainders
    <2> QED
      BY <2>1, <2>2 DEF Fields
  <1>8. AveragedInv'
    BY <1>2, <1>3, <1>7 DEF AveragedInv, Fields
  <1> QED
    BY <1>5, <1>6, <1>8

(* As long as it fits in the statistics' 32 bits the average is not below  *)
(* the least, in ordinary runs as in those with failed jobs, provided no   *)
(* difference of two cycles is as wide as that; the first difference, from *)
(* the start of the clock, may be.                                         *)
THEOREM AverageAboveLeast == ASSUME ShortCycles PROVE Spec => []AverageNotBelowLeast
  <1>1. StatsInv /\ StatsInv' /\ AverageInv /\ [Next]_vars => AverageInv'
    <2> SUFFICES ASSUME StatsInv, StatsInv', AverageInv, [Next]_vars PROVE AverageInv'
      OBVIOUS
    <2>1. ASSUME UNCHANGED <<at, counting>> PROVE AverageInv'
      BY <2>1 DEF counting, AverageInv, SumInv, DifferenceInv, AveragedInv, Summed, Least,
                  Frames, Delta, Total
    <2>2. Application \/ UNCHANGED vars => UNCHANGED <<at, counting>>
      BY DEF Application, AppCall, AppLock, AppSet, Register, SetCallback, GetStats, CopyField,
             GotStats, vars
    <2> QED
      BY <2>1, <2>2, ReceiveAverage, CountAverage, CycleAverage, ExtremesAverage,
         LogAverageAverage
      DEF Next, CyclicThread, StatsInv
  <1>2. AverageInv => AverageNotBelowLeast
    BY DEF AverageInv, AveragedInv, AverageNotBelowLeast, Frames
  <1> QED
    BY <1>1, <1>2, InitAverage, StatsStay, PTL DEF Spec
=================================================================================

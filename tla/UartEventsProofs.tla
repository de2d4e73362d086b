---------------------------- MODULE UartEventsProofs ----------------------------
(***************************************************************************)
(* What the event detection promises with no lock between the application  *)
(* and the cyclic threads.  The callback is there when a detector calls    *)
(* it, for any masters; the two edges are reported at most once for each   *)
(* crossing when one master runs.                                          *)
(***************************************************************************)
EXTENDS UartEvents, TLAPS

Detectors == {"rising", "falling", "error"} \cup Overflows

(* Where a cyclic thread is *)
Places == {"cycle", "check", "rising", "falling", "error", "dead"} \cup Overflows
USE DEF Places

(* The type of the instance *)
Uarts ==
  [alloc : BOOLEAN, callback : BOOLEAN, threshold : BOOLEAN, error : BOOLEAN,
   level : Thresholds \cup {0}, flags : SUBSET Kinds, rising : BOOLEAN,
   armed : BOOLEAN, full : SUBSET (Kinds \cap Overflows)]

(* An edge that is found is a rising one, or an overflow asked for; only   *)
(* the error detector calls with an event nobody has filled in.            *)
EdgeKinds ==
  \A m \in Masters :
    /\ found[m] = "edge" => at[m] \in {"rising"} \cup (Kinds \cap Overflows)
    /\ found[m] = "garbage" => at[m] = "error"

TypeInv == TypeOK /\ EdgeKinds

(* The instance stays of its type whatever field a detector writes. *)
LEMMA InstanceTypes ==
  ASSUME NEW u \in Uarts
  PROVE  /\ \A b \in BOOLEAN : /\ [u EXCEPT !.rising = b] \in Uarts
                               /\ [u EXCEPT !.armed = b] \in Uarts
         /\ \A d : [u EXCEPT !.full = @ \ {d}] \in Uarts
         /\ \A d \in Kinds \cap Overflows : [u EXCEPT !.full = @ \cup {d}] \in Uarts
  BY DEF Uarts

LEMMA InitTypes == Init => TypeInv
  <1> SUFFICES ASSUME Init PROVE TypeInv
    OBVIOUS
  <1>1. uart \in Uarts
    BY DEF Init, Closed, Uarts
  <1>2. pd \in Data
    BY LevelsAssumption DEF Init, Data
  <1>3. /\ arg \in [flags : SUBSET Kinds, level : Thresholds \cup {0}]
        /\ level \in [Masters -> Levels]
    BY LevelsAssumption DEF Init, NoArg
  <1>4. /\ at \in [Masters -> Places]
        /\ found \in [Masters -> {"no", "edge", "garbage", "event"}]
        /\ \A m \in Masters : found[m] = "no"
    BY DEF Init
  <1> QED
    BY <1>1, <1>2, <1>3, <1>4 DEF Init, TypeInv, TypeOK, EdgeKinds, Uarts

LEMMA AppTypes ==
  ASSUME TypeInv, AppCall \/ AppStep PROVE TypeInv'
  <1> USE DEF TypeInv, TypeOK
  <1>a. EdgeKinds'
    BY DEF EdgeKinds, AppCall, AppStep, Open, Close, Register, SetCallback, EnableThreshold,
           SetLevel, SetFlags, DisableThreshold, SwitchError, threadVars
  <1>1. CASE Open
    BY <1>1, <1>a DEF Open, Closed, appVars, threadVars
  <1>2. CASE Close
    BY <1>2, <1>a DEF Close, appVars, threadVars
  <1>3. CASE Register
    BY <1>3, <1>a, HomeAssumption, FusionsAssumption DEF Register, threadVars
  <1>4. CASE SetCallback
    BY <1>4, <1>a DEF SetCallback, threadVars
  <1>5. ASSUME NEW kinds \in Requests, NEW t \in Thresholds, EnableThreshold(kinds, t)
        PROVE  TypeInv'
    BY <1>5, <1>a, KindsAssumption DEF EnableThreshold, threadVars, High
  <1>6. CASE SetLevel
    BY <1>6, <1>a DEF SetLevel, threadVars, High
  <1>7. CASE SetFlags
    BY <1>7, <1>a, KindsAssumption DEF SetFlags, threadVars, NoArg
  <1>8. ASSUME NEW kinds \in Requests, DisableThreshold(kinds) PROVE TypeInv'
    BY <1>8, <1>a DEF DisableThreshold, appVars, threadVars
  <1>9. ASSUME NEW on \in BOOLEAN, SwitchError(on) PROVE TypeInv'
    BY <1>9, <1>a DEF SwitchError, appVars, threadVars
  <1> QED
    BY <1>1, <1>2, <1>3, <1>4, <1>5, <1>6, <1>7, <1>8, <1>9 DEF AppCall, AppStep

(* A step of a detector either finds something or goes on to the next. *)
LEMMA DetectorTypes ==
  ASSUME TypeInv, NEW m \in Masters, NEW w \in {"edge", "garbage", "event"}, NEW u \in Uarts,
         at[m] \in Detectors, found[m] = "no",
         w = "edge" => at[m] \in {"rising"} \cup (Kinds \cap Overflows),
         w = "garbage" => at[m] = "error",
         Find(m, w) \/ Pass(m, u),
         UNCHANGED <<gate, pd, appVars, level, risen, seenHigh, misuse>>
  PROVE  TypeInv'
  <1> USE DEF TypeInv
  <1>1. uart' \in Uarts
    BY DEF Find, Pass, TypeOK, Uarts
  <1>2. at' \in [Masters -> Places]
    BY DEF Find, Pass, Goto, After, TypeOK, Detectors, Overflows
  <1>3. found' \in [Masters -> {"no", "edge", "garbage", "event"}]
    BY DEF Find, Pass, TypeOK
  <1>4. \A n \in Masters : at'[n] \in {"cycle", "check", "dead"} => found'[n] = "no"
    BY DEF Find, Pass, Goto, TypeOK, Detectors, Overflows
  <1>5. EdgeKinds'
    BY DEF Find, Pass, Goto, TypeOK, EdgeKinds
  <1> QED
    BY <1>1, <1>2, <1>3, <1>4, <1>5 DEF TypeOK, appVars, Uarts

LEMMA CyclicTypes ==
  ASSUME TypeInv, NEW m \in Masters, CyclicStep(m) PROVE TypeInv'
  <1> USE DEF TypeInv
  <1>0. uart \in Uarts
    BY DEF TypeOK, Uarts
  <1>1. CASE Receive(m)
    BY <1>1 DEF Receive, Goto, Served, High, appVars, TypeOK, EdgeKinds
  <1>2. CASE Check(m)
    BY <1>2 DEF Check, Goto, appVars, Data, TypeOK, EdgeKinds
  <1>3. CASE Rising(m)
    <2>1. [uart EXCEPT !.rising = FALSE] \in Uarts
      BY <1>0, InstanceTypes
    <2> QED
      BY <1>0, <1>3, <2>1, DetectorTypes DEF Rising, Detectors
  <1>4. CASE Falling(m)
    <2>1. [uart EXCEPT !.armed = TRUE] \in Uarts
      BY <1>0, InstanceTypes
    <2> QED
      BY <1>0, <1>4, <2>1, DetectorTypes DEF Falling, Detectors
  <1>5. CASE Overflow(m)
    <2>1. [uart EXCEPT !.full = @ \ {at[m]}] \in Uarts
      BY <1>0, InstanceTypes
    <2>2. uart.flags \subseteq Kinds
      BY <1>0 DEF Uarts
    <2> QED
      BY <1>0, <1>5, <2>1, <2>2, DetectorTypes DEF Overflow, Detectors
  <1>6. CASE Error(m)
    BY <1>0, <1>6, DetectorTypes DEF Error, Detectors
  <1>7. CASE CallGarbage(m)
    BY <1>7 DEF CallGarbage, Find, appVars, TypeOK, EdgeKinds
  <1>8. CASE Record(m)
    <2>1. [uart EXCEPT !.rising = TRUE] \in Uarts
      BY <1>0, InstanceTypes
    <2>2. at[m] # "rising" => [uart EXCEPT !.full = @ \cup {at[m]}] \in Uarts
      BY <1>0, <1>8, InstanceTypes DEF Record, EdgeKinds
    <2>3. uart' \in Uarts
      BY <1>8, <2>1, <2>2 DEF Record
    <2>4. /\ found' \in [Masters -> {"no", "edge", "garbage", "event"}]
          /\ at' = at /\ \A n \in Masters : n # m => found'[n] = found[n]
          /\ at[m] \notin {"cycle", "check", "dead"} /\ found'[m] = "event"
      BY <1>8 DEF Record, TypeOK
    <2> QED
      BY <1>8, <2>3, <2>4 DEF Record, appVars, TypeOK, EdgeKinds, Uarts
  <1>9. CASE Call(m)
    <2>1. [uart EXCEPT !.armed = FALSE] \in Uarts
      BY <1>0, InstanceTypes
    <2>2. uart' \in Uarts
      BY <1>0, <1>9, <2>1 DEF Call
    <2>3. at[m] \in Detectors
      BY <1>9 DEF Call, TypeOK, Detectors
    <2>4. at' \in [Masters -> Places]
      BY <1>9, <2>3 DEF Call, Goto, After, TypeOK, Detectors, Overflows
    <2>5. found' \in [Masters -> {"no", "edge", "garbage", "event"}]
      BY <1>9 DEF Call, TypeOK
    <2>6. \A n \in Masters : at'[n] \in {"cycle", "check", "dead"} => found'[n] = "no"
      BY <1>9 DEF Call, Goto, TypeOK
    <2>7. EdgeKinds'
      BY <1>9 DEF Call, Goto, TypeOK, EdgeKinds
    <2>8. risen' \in BOOLEAN /\ seenHigh' \in BOOLEAN
      <3>1. High(pd.level, uart) \in BOOLEAN
        BY SMT DEF High
      <3> QED
        BY <1>9, <3>1, Zenon DEF Call, TypeOK
    <2> QED
      BY <1>9, <2>2, <2>4, <2>5, <2>6, <2>7, <2>8 DEF Call, TypeOK, appVars, Uarts
  <1>10. CASE CallNull(m)
    BY <1>10 DEF CallNull, appVars, TypeOK, EdgeKinds
  <1> QED
    BY <1>1, <1>2, <1>3, <1>4, <1>5, <1>6, <1>7, <1>8, <1>9, <1>10 DEF CyclicStep

LEMMA StepTypes == TypeInv /\ [Next]_vars => TypeInv'
  <1>1. TypeInv /\ UNCHANGED vars => TypeInv'
    BY DEF vars, TypeInv, TypeOK, EdgeKinds, appVars, threadVars
  <1> QED
    BY <1>1, AppTypes, CyclicTypes DEF Next

(* The instance, the data, the calls and the threads stay of their types.  *)
THEOREM Types == Spec => []TypeOK
  <1>1. TypeInv => TypeOK
    BY DEF TypeInv
  <1> QED
    BY <1>1, InitTypes, StepTypes, PTL DEF Spec

----------------------------------------------------------------------------
(* The callback *)

(* Unless the application misused the UART a threshold event is enabled    *)
(* only with a callback, and a detector runs only with one.                *)
CallbackInv ==
  misuse \/ uart.callback
    \/ (~uart.threshold /\ \A m \in Masters : at[m] \in {"cycle", "check", "dead"})

LEMMA AppKeepsCallback ==
  ASSUME TypeInv, CallbackInv, AppCall \/ AppStep PROVE CallbackInv'
  <1>1. uart \in Uarts
    BY DEF TypeInv, TypeOK, Uarts
  <1>2. CASE Open
    BY <1>2 DEF Open, Closed, CallbackInv, threadVars
  <1>3. CASE SetCallback
    BY <1>1, <1>3 DEF SetCallback, CallbackInv, Uarts
  <1>4. ASSUME NEW kinds \in Requests, NEW t \in Thresholds, EnableThreshold(kinds, t)
        PROVE  CallbackInv'
    BY <1>1, <1>4 DEF EnableThreshold, CallbackInv, threadVars, Uarts
  <1>5. ASSUME Close \/ Register \/ SetLevel \/ SetFlags
                 \/ (\E kinds \in Requests : DisableThreshold(kinds))
                 \/ (\E on \in BOOLEAN : SwitchError(on))
        PROVE  CallbackInv'
    <2>1. /\ uart'.callback = uart.callback
          /\ uart'.threshold = uart.threshold \/ uart'.threshold = FALSE
          /\ UNCHANGED <<threadVars, misuse>>
      BY <1>1, <1>5 DEF Close, Register, SetLevel, SetFlags, DisableThreshold, SwitchError, Uarts
    <2> QED
      BY <2>1, Zenon DEF CallbackInv, threadVars
  <1> QED
    BY <1>2, <1>3, <1>4, <1>5 DEF AppCall, AppStep

LEMMA CyclicKeepsCallback ==
  ASSUME TypeInv, CallbackInv, NEW m \in Masters, CyclicStep(m) PROVE CallbackInv'
  <1>1. uart \in Uarts /\ at \in [Masters -> Places]
    BY DEF TypeInv, TypeOK, Uarts
  <1>2. CASE Receive(m)
    BY <1>1, <1>2 DEF Receive, Goto, CallbackInv
  <1>3. CASE Check(m)
    BY <1>1, <1>3 DEF Check, Goto, CallbackInv
  <1>4. CASE CallNull(m)
    BY <1>4 DEF CallNull, CallbackInv
  <1>5. ASSUME Rising(m) \/ Falling(m) \/ Overflow(m) \/ Error(m) \/ CallGarbage(m)
                 \/ Record(m) \/ Call(m)
        PROVE  CallbackInv'
    <2>1. at[m] \in Detectors
      BY <1>1, <1>5 DEF Rising, Falling, Overflow, Error, CallGarbage, Record, Call, Detectors,
                        TypeInv, TypeOK
    <2>2. misuse \/ uart.callback
      BY <2>1 DEF CallbackInv, Detectors, Overflows
    <2>3. uart'.callback = uart.callback /\ misuse' = misuse
      BY <1>1, <1>5 DEF Rising, Falling, Overflow, Error, CallGarbage, Record, Call, Find, Pass,
                        Uarts
    <2> QED
      BY <2>2, <2>3 DEF CallbackInv
  <1> QED
    BY <1>2, <1>3, <1>4, <1>5 DEF CyclicStep

(* A detector calls a callback that is set, for any number of masters, if  *)
(* the application registers before it enables, and reopens a UART only    *)
(* between two checks of it.                                               *)
THEOREM CallbackIsSet == Spec => []CallbackSet
  <1>1. Init => CallbackInv
    BY DEF Init, Closed, CallbackInv
  <1>2. TypeInv /\ CallbackInv /\ [Next]_vars => CallbackInv'
    <2>1. CallbackInv /\ UNCHANGED vars => CallbackInv'
      BY DEF vars, CallbackInv, threadVars
    <2> QED
      BY <2>1, AppKeepsCallback, CyclicKeepsCallback DEF Next
  <1>3. TypeInv /\ CallbackInv => CallbackSet
    BY DEF TypeInv, TypeOK, CallbackInv, CallbackSet
  <1> QED
    BY <1>1, <1>2, <1>3, InitTypes, StepTypes, PTL DEF Spec

----------------------------------------------------------------------------
(* The edges *)

(* Only the master the UART belongs to runs, so that a check looks at the  *)
(* data of one bus cycle.                                                  *)
OneMaster == Masters = {Home}

Checking == at[Home] \in Detectors
Sees == Checking => level[Home] = pd.level

(* What the instance remembers of a rising event outlives what the history *)
(* knows of it.                                                            *)
RisingInv ==
  /\ risen => uart.rising /\ High(pd.level, uart)
  /\ at[Home] = "rising" /\ found[Home] # "no" => ~risen
  /\ at[Home] = "rising" /\ found[Home] = "event" => uart.rising

(* A level the detectors may take for a high one has been seen. *)
FallingInv ==
  /\ (uart.threshold \/ Checking) /\ High(pd.level, uart) => seenHigh
  /\ uart.armed => seenHigh
  /\ at[Home] = "falling" /\ found[Home] # "no" => seenHigh

EdgesInv == misuse \/ (Sees /\ RisingInv /\ FallingInv)

LEMMA HighIsBoolean == ASSUME NEW l, NEW u PROVE High(l, u) \in BOOLEAN
  BY SMT DEF High

LEMMA SameLevel ==
  ASSUME NEW l, NEW u, NEW v, u.level = v.level PROVE High(l, u) = High(l, v)
  BY DEF High

LEMMA AppKeepsEdges ==
  ASSUME OneMaster, TypeInv, EdgesInv, AppCall \/ AppStep PROVE EdgesInv'
  <1>1. uart \in Uarts
    BY DEF TypeInv, TypeOK, Uarts
  <1>2. CASE Open
    <2>1. misuse' \/ at[Home] = "cycle"
      BY <1>2 DEF Open, OneMaster
    <2>2. /\ ~uart'.rising /\ ~uart'.armed /\ ~uart'.threshold /\ ~risen'
          /\ UNCHANGED <<at, found>>
      BY <1>2 DEF Open, Closed, threadVars
    <2> QED
      BY <2>1, <2>2 DEF EdgesInv, Sees, RisingInv, FallingInv, Checking, Detectors, Overflows
  <1>3. ASSUME NEW kinds \in Requests, NEW t \in Thresholds, EnableThreshold(kinds, t)
        PROVE  EdgesInv'
    <2>1. /\ uart'.rising = uart.rising /\ uart'.armed = uart.armed
          /\ uart'.level = uart.level
      BY <1>1, <1>3 DEF EnableThreshold, Uarts
    <2>2. /\ seenHigh' = (seenHigh \/ High(pd.level, uart)) /\ (misuse => misuse')
          /\ UNCHANGED <<pd, at, level, found, risen>>
      BY <1>3 DEF EnableThreshold, threadVars
    <2>3. High(pd.level, uart)' = High(pd.level, uart)
      BY <2>1, <2>2, SameLevel
    <2> QED
      BY <2>1, <2>2, <2>3 DEF EdgesInv, Sees, RisingInv, FallingInv, Checking
  <1>4. CASE SetLevel
    <2>1. /\ uart'.rising = uart.rising /\ uart'.armed = uart.armed
          /\ uart'.threshold = uart.threshold
      BY <1>1, <1>4 DEF SetLevel, Uarts
    <2>2. /\ seenHigh' = (seenHigh \/ High(pd.level, uart'))
          /\ risen' = (risen /\ High(pd.level, uart'))
          /\ UNCHANGED <<pd, at, level, found, misuse>>
      BY <1>4 DEF SetLevel, threadVars
    <2>3. High(pd.level, uart)' = High(pd.level, uart')
      BY <2>2
    <2> QED
      BY <2>1, <2>2, <2>3 DEF EdgesInv, Sees, RisingInv, FallingInv, Checking
  <1>5. ASSUME Close \/ Register \/ SetCallback \/ SetFlags
                 \/ (\E kinds \in Requests : DisableThreshold(kinds))
                 \/ (\E on \in BOOLEAN : SwitchError(on))
        PROVE  EdgesInv'
    <2>1. /\ uart'.rising = uart.rising /\ uart'.armed = uart.armed
          /\ uart'.level = uart.level
          /\ uart'.threshold = uart.threshold \/ uart'.threshold = FALSE
          /\ UNCHANGED <<pd, at, level, found, risen, seenHigh, misuse>>
      BY <1>1, <1>5 DEF Close, Register, SetCallback, SetFlags, DisableThreshold, SwitchError,
                        Uarts, threadVars
    <2>2. High(pd.level, uart)' = High(pd.level, uart)
      BY <2>1, SameLevel
    <2> QED
      BY <2>1, <2>2, Zenon DEF EdgesInv, Sees, RisingInv, FallingInv, Checking
  <1> QED
    BY <1>2, <1>3, <1>4, <1>5 DEF AppCall, AppStep

LEMMA CyclicKeepsEdges ==
  ASSUME OneMaster, TypeInv, EdgesInv, CyclicStep(Home) PROVE EdgesInv'
  <1> USE DEF EdgesInv, Sees, RisingInv, FallingInv, Checking
  <1>1. /\ uart \in Uarts /\ risen \in BOOLEAN /\ seenHigh \in BOOLEAN
        /\ at \in [{Home} -> Places]
        /\ found \in [{Home} -> {"no", "edge", "garbage", "event"}]
        /\ level \in [{Home} -> Levels]
        /\ at[Home] \in {"cycle", "check", "dead"} => found[Home] = "no"
    BY HomeAssumption DEF OneMaster, TypeInv, TypeOK, Uarts
  <1>2. CASE Receive(Home)
    <2>1. /\ at[Home] = "cycle" /\ at'[Home] \in {"cycle", "check"}
          /\ UNCHANGED <<uart, level, found, misuse>>
          /\ risen' = (risen /\ High(pd'.level, uart))
          /\ seenHigh' = (seenHigh \/ (uart.threshold /\ High(pd'.level, uart)))
      BY <1>1, <1>2 DEF Receive, Goto
    <2>2. High(pd.level, uart)' = High(pd'.level, uart)
      BY <2>1
    <2> QED
      BY <2>1, <2>2, Zenon DEF Detectors, Overflows
  <1>3. CASE Check(Home)
    <2>1. /\ UNCHANGED <<uart, pd, found, risen, seenHigh, misuse>>
          /\ at[Home] = "check" /\ found[Home] = "no"
          /\ \/ uart.threshold /\ level'[Home] = pd.level /\ at'[Home] = "rising"
             \/ at'[Home] = "cycle"
      BY <1>1, <1>3 DEF Check, Goto
    <2>2. High(pd.level, uart)' = High(pd.level, uart)
      BY <2>1
    <2> QED
      BY <2>1, <2>2 DEF Detectors, Overflows
  <1>4. CASE CallNull(Home)
    <2>1. /\ UNCHANGED <<uart, pd, risen, seenHigh, misuse>>
          /\ at'[Home] = "dead"
      BY <1>4, HomeAssumption DEF CallNull
    <2>2. High(pd.level, uart)' = High(pd.level, uart)
      BY <2>1
    <2> QED
      BY <2>1, <2>2 DEF Detectors, Overflows
  (* The detectors, all of them looking at the data of this bus cycle *)
  <1>5. ASSUME at[Home] \in Detectors, UNCHANGED <<pd, level, misuse>>,
               uart'.level = uart.level, uart'.threshold = uart.threshold
        PROVE  /\ misuse \/ Sees'
               /\ High(pd.level, uart)' = High(pd.level, uart)
               /\ misuse \/ High(pd'.level, uart') = High(level[Home], uart)
    BY <1>5, SameLevel DEF Detectors
  <1>6. CASE Rising(Home)
    <2>1. /\ at[Home] = "rising" /\ found[Home] = "no"
          /\ UNCHANGED <<pd, level, risen, seenHigh, misuse>>
      BY <1>6 DEF Rising
    <2>2. \/ UNCHANGED <<uart, at>> /\ found'[Home] = "edge" /\ ~uart.rising
          \/ /\ at'[Home] = "falling" /\ found' = found
             /\ \/ uart' = uart
                \/ ~High(level[Home], uart) /\ uart' = [uart EXCEPT !.rising = FALSE]
      BY <1>1, <1>6 DEF Rising, Find, Pass, Goto, After
    <2>3. /\ uart'.level = uart.level /\ uart'.threshold = uart.threshold
          /\ uart'.armed = uart.armed
          /\ uart'.rising = uart.rising \/ ~High(level[Home], uart)
      BY <1>1, <2>2 DEF Uarts
    <2> QED
      BY <1>5, <2>1, <2>2, <2>3, Zenon DEF Detectors
  <1>7. CASE Falling(Home)
    <2>1. /\ at[Home] = "falling" /\ found[Home] = "no"
          /\ UNCHANGED <<pd, level, risen, seenHigh, misuse>>
      BY <1>7 DEF Falling
    <2>2. \/ UNCHANGED <<uart, at>> /\ found'[Home] = "event" /\ uart.armed
          \/ /\ at'[Home] = "tx_full" /\ found' = found
             /\ \/ uart' = uart
                \/ High(level[Home], uart) /\ uart' = [uart EXCEPT !.armed = TRUE]
      BY <1>1, <1>7 DEF Falling, Find, Pass, Goto, After
    <2>3. /\ uart'.level = uart.level /\ uart'.threshold = uart.threshold
          /\ uart'.rising = uart.rising
          /\ uart'.armed = uart.armed \/ High(level[Home], uart)
      BY <1>1, <2>2 DEF Uarts
    <2> QED
      BY <1>5, <2>1, <2>2, <2>3, Zenon DEF Detectors
  <1>8. CASE Overflow(Home) \/ Error(Home) \/ CallGarbage(Home)
    <2>1. /\ at[Home] \in Detectors /\ UNCHANGED <<pd, level, risen, seenHigh, misuse>>
      BY <1>1, <1>8 DEF Overflow, Error, CallGarbage, Detectors
    <2>2. /\ uart'.level = uart.level /\ uart'.threshold = uart.threshold
          /\ uart'.rising = uart.rising /\ uart'.armed = uart.armed
      BY <1>1, <1>8 DEF Overflow, Error, CallGarbage, Find, Pass, Uarts
    <2>3. at'[Home] \notin {"rising", "falling"}
      <3>1. at[Home] \in Overflows \cup {"error"}
        BY <1>8, HomeAssumption DEF Overflow, Error, CallGarbage, TypeInv, EdgeKinds
      <3> QED
        BY <1>1, <1>8, <3>1 DEF Overflow, Error, CallGarbage, Find, Pass, Goto, After, Overflows
    <2> QED
      BY <1>5, <2>1, <2>2, <2>3, Zenon DEF Detectors
  <1>9. CASE Record(Home)
    <2>1. /\ at[Home] \in Detectors /\ found[Home] = "edge" /\ found'[Home] = "event"
          /\ UNCHANGED <<at, pd, level, risen, seenHigh, misuse>>
      BY <1>1, <1>9 DEF Record, Detectors
    <2>2. /\ uart'.level = uart.level /\ uart'.threshold = uart.threshold
          /\ uart'.armed = uart.armed
          /\ IF at[Home] = "rising" THEN uart'.rising ELSE uart'.rising = uart.rising
      BY <1>1, <1>9 DEF Record, Uarts
    <2> QED
      BY <1>5, <2>1, <2>2, Zenon DEF Detectors
  <1>10. CASE Call(Home)
    <2>1. /\ at[Home] \in Detectors /\ found[Home] = "event" /\ found'[Home] = "no"
          /\ UNCHANGED <<pd, level, misuse>>
          /\ risen' = IF at[Home] = "rising" THEN High(pd.level, uart) ELSE risen
          /\ seenHigh' = IF at[Home] = "falling" THEN High(pd.level, uart) ELSE seenHigh
      BY <1>1, <1>10 DEF Call, Detectors
    <2>2. /\ uart'.level = uart.level /\ uart'.threshold = uart.threshold
          /\ uart'.rising = uart.rising
          /\ IF at[Home] = "falling" THEN ~uart'.armed ELSE uart'.armed = uart.armed
      BY <1>1, <1>10 DEF Call, Uarts
    <2> QED
      BY <1>5, <2>1, <2>2, Zenon
  <1> QED
    BY <1>2, <1>3, <1>4, <1>6, <1>7, <1>8, <1>9, <1>10 DEF CyclicStep

LEMMA EdgesInvariant ==
  OneMaster => /\ Init => EdgesInv
               /\ TypeInv /\ EdgesInv /\ [Next]_vars => EdgesInv'
  <1>1. Init => EdgesInv
    BY HomeAssumption
    DEF Init, Closed, EdgesInv, Sees, RisingInv, FallingInv, Checking, Detectors, Overflows
  <1>2. EdgesInv /\ UNCHANGED vars => EdgesInv'
    BY DEF vars, threadVars, EdgesInv, Sees, RisingInv, FallingInv, Checking, High
  <1> QED
    BY <1>1, <1>2, AppKeepsEdges, CyclicKeepsEdges DEF Next, OneMaster

(* With one master, no second rising event is sent before the level has    *)
(* dropped below the threshold, whatever the application enables, disables *)
(* and changes meanwhile.                                                  *)
THEOREM RisingEventOnce == ASSUME OneMaster PROVE Spec => []RisingOnce
  <1>1. EdgesInv => RisingOnce
    BY DEF OneMaster, EdgesInv, RisingInv, RisingOnce, Calls
  <1> QED
    BY <1>1, EdgesInvariant, InitTypes, StepTypes, PTL DEF Spec

(* With one master, a falling event is sent only when the level has        *)
(* reached the threshold since the last one.                               *)
THEOREM FallingEventNeedsHigh == ASSUME OneMaster PROVE Spec => []FallingNeedsHigh
  <1>1. EdgesInv => FallingNeedsHigh
    BY DEF OneMaster, EdgesInv, FallingInv, FallingNeedsHigh, Calls
  <1> QED
    BY <1>1, EdgesInvariant, InitTypes, StepTypes, PTL DEF Spec
=================================================================================

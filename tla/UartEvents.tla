------------------------------ MODULE UartEvents ------------------------------
(***************************************************************************)
(* Event detection on one logical UART of fusion_sdk/ddi_em_fusion_uart.cpp*)
(* (one entry of g_uart_instance).  In every bus cycle the cyclic thread   *)
(* of a master compares the UART's process data with what the application  *)
(* has enabled and calls the registered callback.  The application opens   *)
(* and closes the UART, registers, enables and disables at any time; there *)
(* is no lock.                                                             *)
(*                                                                         *)
(* The cyclic thread of every master walks all UARTs, those of the other   *)
(* masters included, once for each of its fusions up to the first without  *)
(* registered events.  A repeated walk is here a cycle without new data.   *)
(***************************************************************************)
EXTENDS Naturals

CONSTANTS
  Masters,     \* the masters whose cyclic threads run
  Home,        \* the master the UART's slave is attached to
  Fusions,     \* the fusions of each master, numbered from 1
  HomeFusion,  \* the fusion the UART belongs to
  Levels,      \* the receive buffer levels
  Thresholds,  \* the thresholds the application asks for
  Kinds,       \* the threshold events the application asks for
  Requests     \* the sets of them it asks for in one call

Overflows == {"tx_full", "rx_full"}

ASSUME HomeAssumption == Home \in Masters
ASSUME FusionsAssumption == Fusions \in Nat \ {0} /\ HomeFusion \in 1 .. Fusions
ASSUME LevelsAssumption == Levels \subseteq Nat /\ 0 \in Levels
ASSUME ThresholdsAssumption == Thresholds \subseteq Nat
ASSUME KindsAssumption ==
  Kinds \subseteq {"rising", "falling"} \cup Overflows /\ Requests \subseteq SUBSET Kinds

VARIABLES
  uart,      \* the instance
  gate,      \* per master: its fusions with a nonzero is_uart_event_registered
  pd,        \* the UART's input process data: level and status bits
  app,       \* where the application is in its call
  arg,       \* the event flags and the threshold of that call
  at,        \* per master: the detector its cyclic thread runs, or "cycle"
  level,     \* per master: the buffer level handle_uart_events has read
  found,     \* per master: the detector is about to call the callback
  risen,     \* history: a rising event was sent, the level has not been low since
  seenHigh,  \* history: the level has been high since the last falling event
  misuse     \* history: enabled before registered, or opened during a check

appVars == <<app, arg>>
threadVars == <<at, level, found>>
vars == <<uart, gate, pd, appVars, threadVars, risen, seenHigh, misuse>>

Closed ==
  [alloc |-> FALSE, callback |-> FALSE, threshold |-> FALSE, error |-> FALSE,
   level |-> 0, flags |-> {}, rising |-> FALSE, armed |-> FALSE, full |-> {}]

Data == [level : Levels, full : SUBSET (Kinds \cap Overflows), error : BOOLEAN]
NoArg == [flags |-> {}, level |-> 0]
High(l, u) == l >= u.level
Served(m) == 1 \in gate[m]

Init ==
  /\ uart = Closed
  /\ gate \in [Masters -> SUBSET (1 .. Fusions)]
  /\ pd = [level |-> 0, full |-> {}, error |-> FALSE]
  /\ app = "idle"
  /\ arg = NoArg
  /\ at = [m \in Masters |-> "cycle"]
  /\ level = [m \in Masters |-> 0]
  /\ found = [m \in Masters |-> "no"]
  /\ risen = FALSE
  /\ seenHigh = FALSE
  /\ misuse = FALSE

----------------------------------------------------------------------------
(* The application *)

Open ==
  /\ app = "idle"
  /\ ~uart.alloc
  /\ uart' = [Closed EXCEPT !.alloc = TRUE]
  /\ risen' = FALSE
  /\ seenHigh' = FALSE
  /\ misuse' = (\E m \in Masters : at[m] # "cycle")
  /\ UNCHANGED <<gate, pd, appVars, threadVars>>

(* From here on nothing asks whether the handle is of an open UART: the   *)
(* calls change a closed instance just as well.                            *)
Close ==
  /\ app = "idle"
  /\ uart' = [uart EXCEPT !.alloc = FALSE]
  /\ UNCHANGED <<gate, pd, appVars, threadVars, risen, seenHigh, misuse>>

(* ddi_fusion_uart_register_event: the fusion first, then the callback *)
Register ==
  /\ app = "idle"
  /\ gate' = [gate EXCEPT ![Home] = @ \cup {HomeFusion}]
  /\ app' = "set_callback"
  /\ UNCHANGED <<uart, pd, arg, threadVars, risen, seenHigh, misuse>>

SetCallback ==
  /\ app = "set_callback"
  /\ uart' = [uart EXCEPT !.callback = TRUE]
  /\ app' = "idle"
  /\ UNCHANGED <<gate, pd, arg, threadVars, risen, seenHigh, misuse>>

(* ddi_fusion_uart_enable_threshold_event: three writes the cyclic thread  *)
(* may come between                                                        *)
EnableThreshold(kinds, t) ==
  /\ app = "idle"
  /\ uart' = [uart EXCEPT !.threshold = TRUE]
  /\ app' = "set_level"
  /\ arg' = [flags |-> kinds, level |-> t]
  /\ seenHigh' = (seenHigh \/ High(pd.level, uart))
  /\ misuse' = (misuse \/ ~uart.callback)
  /\ UNCHANGED <<gate, pd, threadVars, risen>>

SetLevel ==
  /\ app = "set_level"
  /\ uart' = [uart EXCEPT !.level = arg.level]
  /\ app' = "set_flags"
  /\ risen' = (risen /\ High(pd.level, uart'))
  /\ seenHigh' = (seenHigh \/ High(pd.level, uart'))
  /\ UNCHANGED <<gate, pd, arg, threadVars, misuse>>

SetFlags ==
  /\ app = "set_flags"
  /\ uart' = [uart EXCEPT !.flags = @ \cup arg.flags]
  /\ app' = "idle"
  /\ arg' = NoArg
  /\ UNCHANGED <<gate, pd, threadVars, risen, seenHigh, misuse>>

DisableThreshold(kinds) ==
  /\ app = "idle"
  /\ uart' = [uart EXCEPT !.threshold = FALSE, !.flags = @ \ kinds]
  /\ UNCHANGED <<gate, pd, appVars, threadVars, risen, seenHigh, misuse>>

SwitchError(on) ==
  /\ app = "idle"
  /\ uart' = [uart EXCEPT !.error = on]
  /\ UNCHANGED <<gate, pd, appVars, threadVars, risen, seenHigh, misuse>>

----------------------------------------------------------------------------
(* The cyclic thread of master m *)

After(d) ==
  [rising |-> "falling", falling |-> "tx_full", tx_full |-> "rx_full",
   rx_full |-> "error", error |-> "cycle"][d]

Goto(m, to) == at' = [at EXCEPT ![m] = to]

(* The bus cycle: the home master's thread brings new process data, then   *)
(* the walk starts, unless its first fusion has no events registered.      *)
Receive(m) ==
  /\ at[m] = "cycle"
  /\ IF m = Home THEN pd' \in Data ELSE UNCHANGED pd
  /\ risen' = (risen /\ High(pd'.level, uart))
  /\ seenHigh' = (seenHigh \/ (uart.threshold /\ High(pd'.level, uart)))
  /\ IF Served(m) THEN Goto(m, "check") ELSE UNCHANGED at
  /\ UNCHANGED <<uart, gate, appVars, level, found, misuse>>

(* Mutant: errors alone are enough to look at the threshold events. *)
CheckAnyEvent(m) ==
  /\ at[m] = "check"
  /\ IF uart.alloc /\ (uart.error \/ uart.threshold)
     THEN level' = [level EXCEPT ![m] = pd.level] /\ Goto(m, "rising")
     ELSE UNCHANGED level /\ Goto(m, "cycle")
  /\ UNCHANGED <<uart, gate, pd, appVars, found, risen, seenHigh, misuse>>

(* An event must be registered to look, a threshold event to do anything.  *)
Check(m) ==
  /\ at[m] = "check"
  /\ IF uart.alloc /\ (uart.error \/ uart.threshold) /\ uart.threshold
     THEN level' = [level EXCEPT ![m] = pd.level] /\ Goto(m, "rising")
     ELSE UNCHANGED level /\ Goto(m, "cycle")
  /\ UNCHANGED <<uart, gate, pd, appVars, found, risen, seenHigh, misuse>>

Find(m, what) ==
  /\ found' = [found EXCEPT ![m] = what]
  /\ UNCHANGED <<at, uart>>

Pass(m, u) ==
  /\ Goto(m, After(at[m]))
  /\ uart' = u
  /\ UNCHANGED found

(* Mutant: a rising edge is not forgotten when the level drops. *)
RisingOnlyOnce(m) ==
  /\ at[m] = "rising" /\ found[m] = "no"
  /\ IF "rising" \in uart.flags /\ High(level[m], uart) /\ ~uart.rising
     THEN Find(m, "edge")
     ELSE Pass(m, uart)
  /\ UNCHANGED <<gate, pd, appVars, level, risen, seenHigh, misuse>>

(* Mutant: the flag is not looked at. *)
RisingAlways(m) ==
  /\ at[m] = "rising" /\ found[m] = "no"
  /\ IF "rising" \in uart.flags /\ High(level[m], uart)
     THEN Find(m, "edge")
     ELSE Pass(m, uart)
  /\ UNCHANGED <<gate, pd, appVars, level, risen, seenHigh, misuse>>

Rising(m) ==
  /\ at[m] = "rising" /\ found[m] = "no"
  /\ IF "rising" \in uart.flags /\ High(level[m], uart) /\ ~uart.rising
     THEN Find(m, "edge")
     ELSE Pass(m, IF "rising" \in uart.flags /\ ~High(level[m], uart)
                  THEN [uart EXCEPT !.rising = FALSE] ELSE uart)
  /\ UNCHANGED <<gate, pd, appVars, level, risen, seenHigh, misuse>>

(* Mutant: any level below the threshold is a falling edge. *)
FallingAnyLow(m) ==
  /\ at[m] = "falling" /\ found[m] = "no"
  /\ IF "falling" \in uart.flags /\ ~High(level[m], uart)
     THEN Find(m, "event")
     ELSE Pass(m, uart)
  /\ UNCHANGED <<gate, pd, appVars, level, risen, seenHigh, misuse>>

Falling(m) ==
  /\ at[m] = "falling" /\ found[m] = "no"
  /\ IF "falling" \in uart.flags /\ ~High(level[m], uart) /\ uart.armed
     THEN Find(m, "event")
     ELSE Pass(m, IF "falling" \in uart.flags /\ High(level[m], uart)
                  THEN [uart EXCEPT !.armed = TRUE] ELSE uart)
  /\ UNCHANGED <<gate, pd, appVars, level, risen, seenHigh, misuse>>

(* Mutant: an overflow that was reported is never reported again. *)
OverflowOnce(m) ==
  /\ at[m] \in Overflows /\ found[m] = "no"
  /\ IF at[m] \in (uart.flags \cap pd.full) \ uart.full
     THEN Find(m, "edge")
     ELSE Pass(m, uart)
  /\ UNCHANGED <<gate, pd, appVars, level, risen, seenHigh, misuse>>

(* The transmit and the receive buffer are almost full: reported in every  *)
(* second check for as long as it lasts.                                   *)
Overflow(m) ==
  /\ at[m] \in Overflows /\ found[m] = "no"
  /\ IF at[m] \in (uart.flags \cap pd.full) \ uart.full
     THEN Find(m, "edge")
     ELSE Pass(m, IF at[m] \in uart.flags
                  THEN [uart EXCEPT !.full = @ \ {at[m]}] ELSE uart)
  /\ UNCHANGED <<gate, pd, appVars, level, risen, seenHigh, misuse>>

(* The callback gets an event nobody has filled in, then the error event.  *)
Error(m) ==
  /\ at[m] = "error" /\ found[m] = "no"
  /\ IF uart.error /\ pd.error THEN Find(m, "garbage") ELSE Pass(m, uart)
  /\ UNCHANGED <<gate, pd, appVars, level, risen, seenHigh, misuse>>

CallGarbage(m) ==
  /\ found[m] = "garbage"
  /\ uart.callback
  /\ Find(m, "event")
  /\ UNCHANGED <<gate, pd, appVars, level, risen, seenHigh, misuse>>

(* A rising edge or an overflow is recorded before the callback is called. *)
Record(m) ==
  /\ found[m] = "edge"
  /\ found' = [found EXCEPT ![m] = "event"]
  /\ uart' = IF at[m] = "rising" THEN [uart EXCEPT !.rising = TRUE]
                                ELSE [uart EXCEPT !.full = @ \cup {at[m]}]
  /\ UNCHANGED <<gate, pd, appVars, at, level, risen, seenHigh, misuse>>

(* The callback; a falling edge is forgotten after it.                     *)
Call(m) ==
  /\ found[m] = "event"
  /\ uart.callback
  /\ found' = [found EXCEPT ![m] = "no"]
  /\ Goto(m, After(at[m]))
  /\ uart' = IF at[m] = "falling" THEN [uart EXCEPT !.armed = FALSE] ELSE uart
  /\ risen' = IF at[m] = "rising" THEN High(pd.level, uart) ELSE risen
  /\ seenHigh' = IF at[m] = "falling" THEN High(pd.level, uart) ELSE seenHigh
  /\ UNCHANGED <<gate, pd, appVars, level, misuse>>

(* The callback is a null pointer: the process is gone. *)
CallNull(m) ==
  /\ found[m] \in {"garbage", "event"}
  /\ ~uart.callback
  /\ app' = "dead"
  /\ at' = [n \in Masters |-> "dead"]
  /\ found' = [n \in Masters |-> "no"]
  /\ UNCHANGED <<uart, gate, pd, arg, level, risen, seenHigh, misuse>>

----------------------------------------------------------------------------
AppCall ==
  \/ Open
  \/ Close
  \/ Register
  \/ \E kinds \in Requests, t \in Thresholds : EnableThreshold(kinds, t)
  \/ \E kinds \in Requests : DisableThreshold(kinds)
  \/ \E on \in BOOLEAN : SwitchError(on)

AppStep == SetCallback \/ SetLevel \/ SetFlags

CyclicStep(m) ==
  \/ Receive(m)
  \/ Check(m)
  \/ Rising(m)
  \/ Falling(m)
  \/ Overflow(m)
  \/ Error(m)
  \/ CallGarbage(m)
  \/ Record(m)
  \/ Call(m)
  \/ CallNull(m)

Next ==
  \/ AppCall
  \/ AppStep
  \/ \E m \in Masters : CyclicStep(m)

(* The cyclic threads run periodically; an application inside a call       *)
(* finishes it, and need not make another one.                             *)
Fairness ==
  /\ WF_vars(AppStep)
  /\ \A m \in Masters : WF_vars(CyclicStep(m))

Spec == Init /\ [][Next]_vars
FairSpec == Spec /\ Fairness

----------------------------------------------------------------------------
(* Type invariant of the instance, the data, the calls and the threads.    *)
TypeOK ==
  /\ uart \in [alloc : BOOLEAN, callback : BOOLEAN, threshold : BOOLEAN,
               error : BOOLEAN, level : Thresholds \cup {0}, flags : SUBSET Kinds,
               rising : BOOLEAN, armed : BOOLEAN, full : SUBSET (Kinds \cap Overflows)]
  /\ gate \in [Masters -> SUBSET (1 .. Fusions)]
  /\ pd \in Data
  /\ app \in {"idle", "set_callback", "set_level", "set_flags", "dead"}
  /\ arg \in [flags : SUBSET Kinds, level : Thresholds \cup {0}]
  /\ at \in [Masters -> {"cycle", "check", "rising", "falling", "error", "dead"}
                          \cup Overflows]
  /\ level \in [Masters -> Levels]
  /\ found \in [Masters -> {"no", "edge", "garbage", "event"}]
  /\ \A m \in Masters : at[m] \in {"cycle", "check", "dead"} => found[m] = "no"
  /\ risen \in BOOLEAN /\ seenHigh \in BOOLEAN /\ misuse \in BOOLEAN

Calls(m, d) == at[m] = d /\ found[m] = "event"

(* A detector calls a callback that is set, if the application registers   *)
(* before it enables, and reopens a UART only between two checks of it     *)
(* (ddi_em_fusion_uart.cpp:105, 127, 167, 208, 226, 233 do not test it).   *)
CallbackSet ==
  \A m \in Masters : found[m] # "no" => uart.callback \/ misuse

(* ddi_em_fusion_uart.cpp:191: after a rising event "no further events are *)
(* sent until the buffer level drops below the event threshold", whatever  *)
(* the application disables and enables meanwhile, unless it reopens the   *)
(* UART under a check.                                                     *)
RisingOnce ==
  \A m \in Masters : Calls(m, "rising") /\ uart.callback => ~risen \/ misuse

(* ddi_em_fusion_uart.cpp:242: a falling event is sent only when the level *)
(* has reached the threshold since the last one, unless the UART was       *)
(* reopened under a check.                                                 *)
FallingNeedsHigh ==
  \A m \in Masters : Calls(m, "falling") /\ uart.callback => seenHigh \/ misuse

Watching == uart.alloc /\ uart.callback /\ uart.threshold /\ Served(Home) /\ app # "dead"

(* While rising events stay enabled, a level that keeps crossing the       *)
(* threshold keeps being reported.                                         *)
RisingKeepsComing ==
  /\ <>[](Watching /\ "rising" \in uart.flags)
  /\ []<>High(pd.level, uart)
  /\ []<>~High(pd.level, uart)
  => []<>(\E m \in Masters : Calls(m, "rising"))

(* A buffer that stays almost full keeps being reported, and so does an    *)
(* error that lasts, provided a threshold event is enabled as well.        *)
LastingIsReported ==
  /\ \A k \in Kinds \cap Overflows :
       <>[](Watching /\ k \in uart.flags \cap pd.full)
         => []<>(\E m \in Masters : Calls(m, k))
  /\ <>[](Watching /\ uart.error /\ pd.error)
       => []<>(\E m \in Masters : Calls(m, "error"))
=============================================================================

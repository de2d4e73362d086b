----------------------------- MODULE TcCalibration -----------------------------
(***************************************************************************)
(* The thermocouple calibration tests (fat_tests, TCMeasure.cpp and        *)
(* TCVerify.cpp) against a thermocouple card, through the process image of *)
(* the older SDK.  A test is a straight program of writes to output words, *)
(* reads of input words and sleeps.  The SDK's cyclic thread exchanges the *)
(* image with the card meanwhile, between any two words, and frames get    *)
(* lost: only the sleeps order the one by the other.                       *)
(*                                                                         *)
(* The card is external, modelled from the comments of TCMeasure.cpp: as   *)
(* long as it is given a "set" command it takes the parameter registers as *)
(* the group's parameters, and it shows what the last command asks for.    *)
(* Values are tokens that say where they come from; a sleep is so many     *)
(* received cycles, whatever its length.                                   *)
(***************************************************************************)
EXTENDS Integers, Sequences

CONSTANTS
  NUM_TC_CHANNELS,  \* channels of a card, an even number
  DateWords,        \* words of the date, and
  DateShown,        \* those display_cal_parms reads
  Rounds,           \* samples of a measurement
  SleepCycles,      \* cycles received in the shortest sleep
  MaxLost           \* frames lost from the end of a sleep to that of the next

ASSUME CalibrationAssumption ==
  /\ NUM_TC_CHANNELS \in Nat \ {0} /\ NUM_TC_CHANNELS % 2 = 0
  /\ DateWords \in 1 .. NUM_TC_CHANNELS /\ DateShown \in 1 .. DateWords
  /\ Rounds \in Nat \ {0} /\ SleepCycles \in Nat /\ MaxLost \in Nat

TC_OFFSET_NORMAL == 0
TC_PARM_REG == NUM_TC_CHANNELS
Registers == 0 .. 2 * NUM_TC_CHANNELS - 1

(* The parameter groups and their words *)
Groups ==
  {"version", "date", "uv_intercept_lo", "uv_intercept_hi", "uv_slope_lo",
   "uv_slope_hi", "ua_slope", "tc_ohms", "cj_intercept", "cj_slope"}

Words(g) ==
  CASE g \in {"version", "ua_slope"} -> 1
    [] g = "date" -> DateWords
    [] g \in {"cj_intercept", "cj_slope"} -> 2
    [] OTHER -> NUM_TC_CHANNELS

Shown(g) == IF g = "date" THEN DateShown ELSE Words(g)

Modes == {"tc_uvolts", "tc_ohms", "cj_uvolts"}
Commands == {<<"normal">>} \cup ({"set", "get"} \X Groups) \cup ({"display"} \X Modes)

(* A word: nothing yet, what a normal display shows, a parameter of the    *)
(* flash or of this run, or a reading, with the parameters it was computed *)
(* with being this run's or not.                                           *)
Blank == <<"blank">>
Normal == <<"normal">>
Parameter(of, g, i) == <<of, g, i>>
Reading(m, r, ideal) == <<"reading", m, r, ideal>>

----------------------------------------------------------------------------
(* The programs *)

Out(r, v) == [op |-> "out", reg |-> r, val |-> v]
Read(r) == [op |-> "read", reg |-> r]
Usleep == [op |-> "sleep"]

Command(c) == Out(TC_OFFSET_NORMAL, c)

(* Mutant: the display is not returned to normal. *)
SendWithoutNormal(c) == <<Usleep, Command(c), Usleep>>

send_cal_command(c) ==
  <<Usleep, Command(c), Usleep, Command(Normal), Usleep>>

set_group(g) ==
  [i \in 1 .. Words(g) |-> Out(TC_PARM_REG + i - 1, Parameter("run", g, i))]
    \o send_cal_command(<<"set", g>>)

set_cal_parms ==
  set_group("version") \o set_group("date")
    \o set_group("uv_intercept_lo") \o set_group("uv_intercept_hi")
    \o set_group("uv_slope_lo") \o set_group("uv_slope_hi")
    \o set_group("ua_slope") \o set_group("tc_ohms")
    \o set_group("cj_intercept") \o set_group("cj_slope")

(* Mutant: the registers are read without a delay. *)
display_at_once(g) ==
  <<Command(<<"get", g>>)>> \o [i \in 1 .. Shown(g) |-> Read(TC_PARM_REG + i - 1)]

display_group(g) ==
  <<Command(<<"get", g>>), Usleep>>
    \o [i \in 1 .. Shown(g) |-> Read(TC_PARM_REG + i - 1)]

display_cal_parms ==
  display_group("version") \o display_group("date")
    \o display_group("uv_intercept_lo") \o display_group("uv_intercept_hi")
    \o display_group("uv_slope_lo") \o display_group("uv_slope_hi")
    \o display_group("ua_slope") \o display_group("tc_ohms")
    \o display_group("cj_intercept") \o display_group("cj_slope")
    \o <<Command(Normal)>>

(* So many samples of n words, each after the delays of the sample *)
Samples(rounds, n) ==
  [k \in 1 .. rounds * (n + 1) |->
     LET i == (k - 1) % (n + 1)
     IN IF i = 0 THEN Usleep ELSE Read(TC_OFFSET_NORMAL + i - 1)]

measure(m, n) ==
  <<Command(<<"display", m>>), Usleep>>
    \o Samples(Rounds, n)
    \o <<Command(Normal), Usleep>>

calibrate_tc_slope_and_intercept == measure("tc_uvolts", 2 * NUM_TC_CHANNELS)
calculate_tc_ohms == measure("tc_ohms", 2 * NUM_TC_CHANNELS)
calculate_cj_parms == measure("cj_uvolts", 2)

calibrate_tc ==
  set_cal_parms \o display_cal_parms \o calibrate_tc_slope_and_intercept
    \o calculate_tc_ohms \o calculate_cj_parms

verify_tc == <<Command(<<"display", "tc_uvolts">>), Usleep>> \o Samples(1, 2 * NUM_TC_CHANNELS)

TCVerify == display_cal_parms \o verify_tc \o display_cal_parms

(* Without k_type.csv, verify_tc calls exit(0) before it gives a command. *)
TCVerify_without_table == display_cal_parms

Programs ==
  [calibrate |-> calibrate_tc, verify |-> TCVerify, no_table |-> TCVerify_without_table]

----------------------------------------------------------------------------
VARIABLES
  test,    \* the test that runs
  pc,      \* its next instruction
  running, \* is the process running?
  slept,   \* cycles received in the sleep it is in
  output,  \* the words of the output image (pd_output)
  input,   \* the words of the input image (pd_input)
  frame,   \* the card's words in the frame under way, or none
  lost,    \* frames lost since the end of the last sleep
  command, \* the last command the card was given
  store,   \* the parameters the card computes with
  show,    \* the words the card shows
  last     \* history: the instruction just done, if it was a read

host == <<test, pc, running, slept, output, last>>
card == <<command, store, show>>
calibrationVars == <<host, input, frame, lost, card>>

NoFrame == <<>>
NoRead == <<>>
Flash == [g \in Groups |-> [i \in 1 .. Words(g) |-> Parameter("flash", g, i)]]
OfRun == [g \in Groups |-> [i \in 1 .. Words(g) |-> Parameter("run", g, i)]]

CalibrationInit ==
  /\ test \in DOMAIN Programs
  /\ pc = 1 /\ running = TRUE /\ slept = 0
  /\ output = [r \in Registers |-> IF r = TC_OFFSET_NORMAL THEN Normal ELSE Blank]
  /\ input = [r \in Registers |-> Blank]
  /\ frame = NoFrame /\ lost = 0
  /\ command = Normal
  /\ store = Flash
  /\ show = [r \in Registers |-> Normal]
  /\ last = NoRead

----------------------------------------------------------------------------
(* The test *)

At(op) == running /\ pc <= Len(Programs[test]) /\ Programs[test][pc].op = op
Instruction == Programs[test][pc]

(* ddi_sdk_fusion_set_aout *)
SetAout ==
  /\ At("out")
  /\ output' = [output EXCEPT ![Instruction.reg] = Instruction.val]
  /\ pc' = pc + 1
  /\ last' = NoRead
  /\ UNCHANGED <<test, running, slept, input, frame, lost, card>>

(* ddi_sdk_fusion_get_ain *)
GetAin ==
  /\ At("read")
  /\ last' = <<output[TC_OFFSET_NORMAL], Instruction.reg, input[Instruction.reg]>>
  /\ pc' = pc + 1
  /\ UNCHANGED <<test, running, slept, output, input, frame, lost, card>>

(* usleep: at least so many cycles go by *)
UsleepReturns ==
  /\ At("sleep") /\ slept = SleepCycles
  /\ pc' = pc + 1 /\ slept' = 0 /\ lost' = 0
  /\ last' = NoRead
  /\ UNCHANGED <<test, running, output, input, frame, card>>

(* The end of the test, or exit(0) in verify_tc: the process ends and its  *)
(* cyclic thread with it, at once, whatever the card was last given.       *)
Exit ==
  /\ running /\ pc > Len(Programs[test])
  /\ running' = FALSE
  /\ UNCHANGED <<test, pc, slept, output, last, input, frame, lost, card>>

Test == SetAout \/ GetAin \/ UsleepReturns \/ Exit

----------------------------------------------------------------------------
(* The cyclic thread and the card *)

(* What the card stores and shows once it has been given the words o *)
Stored(o) ==
  [g \in Groups |->
     IF o[TC_OFFSET_NORMAL] = <<"set", g>>
     THEN [i \in 1 .. Words(g) |-> o[TC_PARM_REG + i - 1]]
     ELSE store[g]]

Showing(o) ==
  [r \in Registers |->
     LET c == o[TC_OFFSET_NORMAL]  i == r - TC_PARM_REG + 1
     IN CASE c[1] = "get" /\ i \in 1 .. Words(c[2]) -> store[c[2]][i]
          [] c[1] = "display" -> Reading(c[2], r, store = OfRun)
          [] OTHER -> Normal]

GiveCard ==
  /\ command' = output[TC_OFFSET_NORMAL]
  /\ store' = Stored(output)
  /\ show' = Showing(output)

(* eUsrJob_ProcessAllRxFrames.  A sleep counts the cycle whether or not a  *)
(* frame came back.                                                        *)
Receive ==
  /\ running /\ frame # NoFrame
  /\ input' = IF frame[1] = "lost" THEN input ELSE frame[2]
  /\ frame' = NoFrame
  /\ slept' = IF At("sleep") /\ slept < SleepCycles THEN slept + 1 ELSE slept
  /\ UNCHANGED <<test, pc, running, output, last, lost, card>>

(* eUsrJob_SendAllCycFrames: the frame passes the card, *)
Send ==
  /\ running /\ frame = NoFrame
  /\ frame' = <<"back", show>>
  /\ GiveCard
  /\ UNCHANGED <<host, input, lost>>

(* or does not reach it, *)
LoseBefore ==
  /\ running /\ frame = NoFrame /\ lost < MaxLost
  /\ frame' = <<"lost">>
  /\ lost' = lost + 1
  /\ UNCHANGED <<host, input, card>>

(* or does not return from it. *)
LoseAfter ==
  /\ running /\ frame = NoFrame /\ lost < MaxLost
  /\ frame' = <<"lost">>
  /\ lost' = lost + 1
  /\ GiveCard
  /\ UNCHANGED <<host, input>>

SendFrame == Send \/ LoseBefore \/ LoseAfter

CalibrationNext == Test \/ Receive \/ SendFrame

CalibrationSpec == CalibrationInit /\ [][CalibrationNext]_calibrationVars

----------------------------------------------------------------------------
CalibrationTypeOK ==
  /\ test \in DOMAIN Programs /\ pc \in 1 .. Len(Programs[test]) + 1
  /\ running \in BOOLEAN /\ slept \in 0 .. SleepCycles /\ lost \in 0 .. MaxLost
  /\ output[TC_OFFSET_NORMAL] \in Commands /\ command \in Commands
  /\ DOMAIN output = Registers /\ DOMAIN input = Registers /\ DOMAIN show = Registers
  /\ DOMAIN store = Groups

(* At every moment each group of parameters in the card is one whole set:  *)
(* that of the flash or that of the run.  No word of another group is ever *)
(* taken for a parameter, though all groups go through the same registers. *)
ParametersWhole == \A g \in Groups : store[g] \in {Flash[g], OfRun[g]}

(* When set_cal_parms returns, the card has all of the parameters, and     *)
(* keeps them.                                                             *)
ParametersSet == test = "calibrate" /\ pc > Len(set_cal_parms) => store = OfRun

(* The types, and a card that takes whole groups, and all of them.         *)
CardInv == CalibrationTypeOK /\ ParametersWhole /\ ParametersSet

(* A word the test reads is what the command it last gave asks for: the    *)
(* parameter in the card, or a reading of that kind, in calibrate_tc one   *)
(* computed with the parameters it has set.                                *)
ReadsWhatItAsked ==
  last # NoRead =>
    LET asked == last[1]  r == last[2]  word == last[3]
    IN \/ asked[1] = "get" /\ word = store[asked[2]][r - TC_PARM_REG + 1]
       \/ asked[1] = "display" /\ word = Reading(asked[2], r, test = "calibrate")
=============================================================================

----------------------------- MODULE MCDdiEvent ------------------------------
(* Three threads that signal and wait for two event bits.                  *)
EXTENDS DdiEvent
=============================================================================

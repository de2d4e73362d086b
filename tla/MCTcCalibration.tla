---------------------------- MODULE MCTcCalibration ----------------------------
(* The calibration and the verification of a card of eight channels, with  *)
(* the table of the verification and without it.                           *)
EXTENDS TcCalibration
=============================================================================

----------------------------- MODULE MCUartEvents -----------------------------
(* One master; levels below and at the threshold, rising, falling and one   *)
(* of the two almost-full events.                                           *)
EXTENDS UartEvents
=============================================================================

----------------------------- MODULE MCMailQueue -----------------------------
(* One sender and one receiver thread, the ring's documented use.          *)
EXTENDS MailQueue
=============================================================================

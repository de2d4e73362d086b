-------------------------- MODULE MCMasterLifecycle --------------------------
(* Two instances, two adapters, two cyclic threads. *)
EXTENDS MasterLifecycle
=============================================================================

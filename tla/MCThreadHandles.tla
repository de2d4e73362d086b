---------------------------- MODULE MCThreadHandles ----------------------------
(* Two handles with every order of the owner's calls and the threads' steps *)
EXTENDS ThreadHandles
=============================================================================

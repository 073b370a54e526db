------------------------------ MODULE MCProton ------------------------------
(* Two threads, of which the first makes the session calls.                   *)
EXTENDS Proton, TLC
=============================================================================

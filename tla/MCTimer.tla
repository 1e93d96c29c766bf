------------------------------ MODULE MCTimer ------------------------------
(***************************************************************************)
(* A clock of 16 milliseconds, so that every delay meets the wrap-around.  *)
(***************************************************************************)
EXTENDS Timer

MCDelays == {0, 1, 5, 15}
=============================================================================

------------------------------ MODULE MCDs2484 ------------------------------
(***************************************************************************)
(* Two channels, of which the second is only set up and read; an answer is *)
(* an even or an odd byte.                                                 *)
(***************************************************************************)
EXTENDS Ds2484

MCAnswers == {0, 1}
MCUses    == ({"reset", "write", "read", "triplet"} \X {1}) \cup {<<"read", 2>>}
=============================================================================

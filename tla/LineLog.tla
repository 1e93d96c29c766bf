------------------------------ MODULE LineLog ------------------------------
(***************************************************************************)
(* What the history of the web socket logger promises, which module        *)
(* WebSocketLogger implements: the pieces that are written make up lines,  *)
(* nothing of them gets lost or is repeated, and the last lines are kept   *)
(* in order.  The promise ends with a data race in the line buffer or the  *)
(* history, until the next restart.                                        *)
(***************************************************************************)
EXTENDS Naturals, Sequences

CONSTANTS
  Tasks,         \* who writes; the pieces of a line are known by their writer
  HistorySize

VARIABLES
  text,      \* the pieces of the line that is being written
  tail,      \* the last complete lines, oldest first
  written,   \* number of complete lines so far
  raced

vars == <<text, tail, written, raced>>

LastLines(s, n) == IF Len(s) <= n THEN s ELSE SubSeq(s, Len(s) - n + 1, Len(s))

Init == text = <<>> /\ tail = <<>> /\ written = 0 /\ raced = FALSE

WritePiece(t) ==
  /\ text' = Append(text, t)
  /\ UNCHANGED <<tail, written>>

EndLine ==
  /\ written' = written + 1
  /\ tail' = LastLines(Append(tail, [no |-> written', pieces |-> text]), HistorySize)
  /\ text' = <<>>

Write == raced' = raced /\ (EndLine \/ \E t \in Tasks : WritePiece(t))

\* From a race on, anything may be in the memory.
Race == raced'

Reboot == text' = <<>> /\ tail' = <<>> /\ written' = 0 /\ raced' = FALSE

Next == Write \/ Race \/ Reboot

Spec == Init /\ [][Next]_vars
=============================================================================

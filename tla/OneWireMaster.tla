--------------------------- MODULE OneWireMaster ---------------------------
(***************************************************************************)
(* What the 1-wire layer may rely on when it calls a bus master: the       *)
(* abstract specification module Ds2484 implements.  A call that reports   *)
(* success has caused exactly one activity, on the lines of its own        *)
(* channel, and returns what these lines answered to it.  A call that      *)
(* reports failure has caused that activity or none.  A successful begin   *)
(* leaves its bus master configured, and only a begin changes that.        *)
(***************************************************************************)
EXTENDS Naturals, Sequences

CONSTANTS
  Channels,   \* the 1-wire channels in use
  Answers,    \* what the lines answer to a read or a triplet
  NoAnswer    \* a reset or a write has no answer that the code looks at

VARIABLES
  call,         \* the call under way, or the result of the last one
  lines,        \* the activities all lines have seen since the call began
  configured    \* the channels whose bus master has its configuration

vars == <<call, lines, configured>>

Operations == {"begin", "reset", "write", "read", "triplet"}

NoCall == [op |-> "none"]

\* The activity a call asks for.
ActivityOf(op)  == IF op = "begin" THEN "reset" ELSE op
AnswersTo(op)   == IF op \in {"read", "triplet"} THEN Answers ELSE {NoAnswer}
Activities(op, ch) == [activity : {ActivityOf(op)}, ch : {ch}, answer : AnswersTo(op)]

Running  == call # NoCall /\ call.state = "running"

Start(op, ch) ==
  /\ ~Running
  /\ call' = [op |-> op, ch |-> ch, state |-> "running"]
  /\ lines' = <<>>
  /\ UNCHANGED configured

Act ==
  /\ Running /\ lines = <<>>
  /\ \E a \in Activities(call.op, call.ch) : lines' = <<a>>
  /\ UNCHANGED <<call, configured>>

Configure ==
  /\ Running /\ call.op = "begin"
  /\ configured' \in {configured \cup {call.ch}, configured \ {call.ch}}
  /\ UNCHANGED <<call, lines>>

Succeed ==
  /\ Running /\ lines # <<>>
  /\ call.op = "begin" => call.ch \in configured
  /\ call' = [op |-> call.op, ch |-> call.ch, state |-> "done", answer |-> lines[1].answer]
  /\ UNCHANGED <<lines, configured>>

\* The activity may have taken place although the call fails.
Fail ==
  /\ Running
  /\ call' = [op |-> call.op, ch |-> call.ch, state |-> "failed"]
  /\ \/ UNCHANGED lines
     \/ lines = <<>> /\ \E a \in Activities(call.op, call.ch) : lines' = <<a>>
  /\ UNCHANGED configured

\* The firmware restarts; the bus masters do not.
Reboot == call' = NoCall /\ lines' = <<>> /\ UNCHANGED configured

Init == call = NoCall /\ lines = <<>> /\ configured \in SUBSET Channels

Next ==
  \/ \E op \in Operations, ch \in Channels : Start(op, ch)
  \/ Act \/ Configure \/ Succeed \/ Fail \/ Reboot

Spec == Init /\ [][Next]_vars
=============================================================================

----------------------------- MODULE Persistency -----------------------------
(***************************************************************************)
(* Persistency: the configuration in flash, a section per part of the      *)
(* firmware.  All sections are read and written through one object         *)
(* preferences_, which has one section open at a time and belongs to no    *)
(* task.  A task loads or stores a section by a sequence of calls to it:   *)
(* begin, one for each key, and end.  This module says what each of them   *)
(* does.  WebServer has the tasks that make them.                          *)
(*                                                                         *)
(* External: Preferences of the Arduino core.  Its begin() fails while a   *)
(* section is open, and what follows uses the open section, whatever it    *)
(* is; with none open, get returns the default and put does nothing.       *)
(* Every put is in flash when it returns.  The firmware looks at none of   *)
(* the results.                                                            *)
(***************************************************************************)
EXTENDS Integers, Sequences, Functions

CONSTANTS
  Sections,   \* the set of sections
  Keys,       \* for each section, the sequence of its keys
  Tasks       \* the tasks that load or store

Closed == "closed"

\* No section is called like that, and none has a key twice.
ASSUME KeysAssumption ==
  /\ Closed \notin Sections
  /\ Keys \in [Sections -> Seq(STRING)]
  /\ \A s \in Sections : IsInjective(Keys[s])

VARIABLES
  flash,      \* for each section, the value of each key
  opened,     \* the section preferences_ has open, or Closed
  config,     \* for each task, the configuration object it is working on
  todo,       \* for each task, the sections it still has to load or store
  calls       \* for each task, its calls to preferences_ for the first of them

persistency_vars == <<flash, opened, config, todo, calls>>

AllKeys == UNION {Range(Keys[s]) : s \in Sections}
Fields  == {f \in Sections \X AllKeys : f[2] \in Range(Keys[f[1]])}

\* A value is known by the field it was meant for and by where it comes from.
Absent == <<>>
Value(s, k, origin) == <<s, k, origin>>
Values == Sections \X AllKeys \X {"stored", "entered", "default"}

\* Once begin() has been called, call i is about key i, and the one after the last
\* key is end().
Load(s)  == [op |-> "load", section |-> s]
Store(s) == [op |-> "store", section |-> s]
Jobs     == [op : {"load", "store"}, section : Sections]

PersistencyTypeOK ==
  /\ flash \in [Sections -> [AllKeys -> Values \cup {Absent}]]
  /\ opened \in Sections \cup {Closed}
  /\ config \in [Tasks -> [AllKeys -> Values \cup {Absent}]]
  /\ todo \in [Tasks -> Seq(Jobs)] /\ calls \in [Tasks -> Nat]
  /\ \A t \in Tasks :
       calls[t] <= IF todo[t] = <<>> THEN 0 ELSE Len(Keys[Head(todo[t]).section]) + 1

-----------------------------------------------------------------------------
\* ---- Preferences ----

Begin(s) == opened' = (IF opened = Closed THEN s ELSE opened) /\ UNCHANGED flash

Got(k, default) == IF opened = Closed \/ flash[opened][k] = Absent THEN default ELSE flash[opened][k]

Put(k, value) ==
  /\ flash' = IF opened = Closed THEN flash ELSE [flash EXCEPT ![opened][k] = value]
  /\ UNCHANGED opened

End == opened' = Closed /\ UNCHANGED flash

-----------------------------------------------------------------------------
\* ---- Load... and Store... ----

Nothing == [k \in AllKeys |-> Absent]

Section(t) == Head(todo[t]).section
AtKey(t)   == calls[t] \in 1 .. Len(Keys[Section(t)])
Key(t)     == Keys[Section(t)][calls[t]]

LoadStep(t) ==
  /\ Head(todo[t]).op = "load"
  /\ \/ /\ calls[t] = 0 /\ Begin(Section(t))
        /\ config' = [config EXCEPT ![t] = Nothing]
     \/ /\ AtKey(t)
        /\ config' = [config EXCEPT ![t][Key(t)] = Got(Key(t), Value(Section(t), Key(t), "default"))]
        /\ UNCHANGED <<flash, opened>>

\* entered: the fields the task sets after it has loaded a section.
StoreStep(t, entered) ==
  /\ Head(todo[t]).op = "store" /\ UNCHANGED config
  /\ \/ calls[t] = 0 /\ Begin(Section(t))
     \/ AtKey(t) /\ Put(Key(t), IF <<Section(t), Key(t)>> \in entered
                                THEN Value(Section(t), Key(t), "entered") ELSE config[t][Key(t)])

\* Mutant: a section is left open after its last put.
LastStepLeftOpen(t) ==
  /\ calls[t] > Len(Keys[Section(t)])
  /\ IF Head(todo[t]).op = "load" THEN End ELSE UNCHANGED <<flash, opened>>
  /\ config' = IF Len(todo[t]) = 1 THEN [config EXCEPT ![t] = Nothing] ELSE config

\* With the last section a task drops its configuration object.
LastStep(t) ==
  /\ calls[t] > Len(Keys[Section(t)]) /\ End
  /\ config' = IF Len(todo[t]) = 1 THEN [config EXCEPT ![t] = Nothing] ELSE config

Access(t, entered) ==
  /\ todo[t] # <<>>
  /\ \/ /\ LoadStep(t) \/ StoreStep(t, entered)
        /\ calls' = [calls EXCEPT ![t] = @ + 1] /\ UNCHANGED todo
     \/ /\ LastStep(t)
        /\ calls' = [calls EXCEPT ![t] = 0] /\ todo' = [todo EXCEPT ![t] = Tail(@)]
=============================================================================

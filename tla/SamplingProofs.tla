----------------------------- MODULE SamplingProofs -----------------------------
(***************************************************************************)
(* Theorems about Sampling, for any devices, any requests and any times:   *)
(* the value a read fetches is its own unless another read has touched the *)
(* converter, and never an older one unless a conversion is interrupted.   *)
(* They rest on DelayAssumption, that no delay is shorter than the         *)
(* conversion it waits for; and on what is shown of Timer at the end.      *)
(***************************************************************************)
EXTENDS Sampling, Timer, SequenceTheorems, TLAPS

Entries == [read : Reads, pass : {"None", "ReadResult"},
            timer : 0 .. SamplingTime[Ds18b20] + SamplingTime[Ds2438], started : SUBSET Units]

InTime(e) == e.timer <= SamplingTime[FamilyFor(e.read)]

\* No request is in queue q twice.
Distinct(q) == \A i, j \in 1 .. Len(q) : q[i].read = q[j].read => i = j

\* A conversion a read has started and nobody has touched since ends before the read
\* comes to its second pass; then the register holds its sample.
OwnKnown(r, timer, u) ==
  owner[u] = r =>
    IF conversion[u] = NoConversion
      THEN register[u] = [input |-> AttributeOf[r], by |-> r]
      ELSE conversion[u].by = r /\ conversion[u].input = AttributeOf[r] /\ conversion[u].left <= timer

\* Whatever conversion is under way serves all the reads that wait for the unit; it
\* ends before they come to their second pass, or it has interrupted one that would.
FreshKnown(r, timer, u) ==
  IF conversion[u] = NoConversion
    THEN r \in fresh[u]
    ELSE /\ r \in conversion[u].serves
         /\ r \in fresh[u] \/ conversion[u].left <= timer \/ conversion[u].interrupts

\* A broadcast also starts chips of the other family, for which the delay is not made.
EntryKnown(e) ==
  e.pass = "ReadResult" => \A u \in e.started :
    /\ u[2] = Kind(e.read)
    /\ FamilyOf[u[1]] = FamilyFor(e.read) =>
         OwnKnown(e.read, e.timer, u) /\ FreshKnown(e.read, e.timer, u)

IInv == TypeOK /\ Distinct(queue) /\ \A i \in 1 .. Len(queue) : EntryKnown(queue[i])

-----------------------------------------------------------------------------
\* ---- The queue ----

\* A queue whose entries are what they should be, whatever the chips do.
QueueInv(q) == q \in Seq(Entries) /\ Distinct(q) /\ \A i \in 1 .. Len(q) : InTime(q[i])

LEMMA AppendFacts ==
  ASSUME NEW q \in Seq(Entries), NEW e \in Entries
  PROVE  /\ Append(q, e) \in Seq(Entries)
         /\ Len(Append(q, e)) = Len(q) + 1
         /\ \A i \in 1 .. Len(q) : Append(q, e)[i] = q[i]
         /\ Append(q, e)[Len(q) + 1] = e
OBVIOUS

LEMMA TailFacts ==
  ASSUME NEW q \in Seq(Entries), q # <<>>
  PROVE  /\ Tail(q) \in Seq(Entries)
         /\ Len(q) \in Nat \ {0} /\ Len(Tail(q)) = Len(q) - 1
         /\ \A i \in 1 .. Len(q) - 1 : Tail(q)[i] = q[i + 1]
         /\ Head(q) = q[1] /\ q[1] \in Entries
OBVIOUS

\* A request that is not in the queue is added to it.
LEMMA AddedToQueue ==
  ASSUME NEW q, QueueInv(q), NEW e \in Entries, InTime(e), \A i \in 1 .. Len(q) : q[i].read # e.read
  PROVE  /\ QueueInv(Append(q, e))
         /\ \A i \in 1 .. Len(Append(q, e)) :
              Append(q, e)[i] = e \/ \E j \in 1 .. Len(q) : Append(q, e)[i] = q[j]
<1>. DEFINE p == Append(q, e)
<1>1. q \in Seq(Entries) /\ Len(q) \in Nat /\ p \in Seq(Entries) /\ Len(p) = Len(q) + 1
  BY AppendFacts DEF QueueInv
<1>2. \A i \in 1 .. Len(q) : p[i] = q[i]
  BY <1>1, AppendFacts
<1>3. p[Len(q) + 1] = e
  BY <1>1, AppendFacts
<1>4. \A i \in 1 .. Len(p) : i \in 1 .. Len(q) \/ i = Len(q) + 1
  BY <1>1
<1>. HIDE DEF p
<1>5. Distinct(p)
  BY <1>2, <1>3, <1>4 DEF Distinct, QueueInv
<1>6. \A i \in 1 .. Len(p) : InTime(p[i])
  BY <1>2, <1>3, <1>4 DEF QueueInv
<1>. QED
  BY <1>1, <1>2, <1>3, <1>4, <1>5, <1>6 DEF QueueInv, p

\* The first of the queue is taken out.
LEMMA TakenFromQueue ==
  ASSUME NEW q, QueueInv(q), q # <<>>
  PROVE  /\ QueueInv(Tail(q))
         /\ \A i \in 1 .. Len(Tail(q)) :
              /\ Tail(q)[i].read # Head(q).read
              /\ \E j \in 1 .. Len(q) : Tail(q)[i] = q[j]
<1>. DEFINE p == Tail(q)
<1>1. /\ Len(q) \in Nat \ {0} /\ p \in Seq(Entries) /\ Len(p) = Len(q) - 1
      /\ Head(q) = q[1]
  BY TailFacts DEF QueueInv
<1>2. \A i \in 1 .. Len(p) : p[i] = q[i + 1]
  BY <1>1, TailFacts DEF QueueInv
<1>3. \A i \in 1 .. Len(p) : i + 1 \in 1 .. Len(q) /\ i + 1 # 1
  BY <1>1
<1>. HIDE DEF p
<1>4. \A i, j \in 1 .. Len(p) : i + 1 = j + 1 => i = j
  BY <1>1
<1>5. Distinct(p)
  BY <1>2, <1>3, <1>4 DEF Distinct, QueueInv
<1>6. \A i \in 1 .. Len(p) : p[i].read # Head(q).read
  <2>1. 1 \in 1 .. Len(q)
    BY <1>1
  <2>. QED
    BY <1>1, <1>2, <1>3, <2>1 DEF Distinct, QueueInv
<1>7. \A i \in 1 .. Len(p) : InTime(p[i])
  BY <1>2, <1>3 DEF QueueInv
<1>. QED
  BY <1>1, <1>2, <1>3, <1>5, <1>6, <1>7 DEF QueueInv, p

\* The first of the queue goes back to its tail.
LEMMA PutBackInQueue ==
  ASSUME NEW q, QueueInv(q), q # <<>>, NEW e \in Entries, InTime(e), e.read = Head(q).read
  PROVE  /\ QueueInv(Append(Tail(q), e))
         /\ \A i \in 1 .. Len(Append(Tail(q), e)) :
              \/ Append(Tail(q), e)[i] = e
              \/ /\ Append(Tail(q), e)[i].read # e.read
                 /\ \E j \in 1 .. Len(q) : Append(Tail(q), e)[i] = q[j]
<1>. DEFINE t == Tail(q)
<1>1. /\ QueueInv(t)
      /\ \A i \in 1 .. Len(t) : t[i].read # e.read /\ \E j \in 1 .. Len(q) : t[i] = q[j]
  BY TakenFromQueue
<1>. HIDE DEF t
<1>2. /\ QueueInv(Append(t, e))
      /\ \A i \in 1 .. Len(Append(t, e)) :
           Append(t, e)[i] = e \/ \E j \in 1 .. Len(t) : Append(t, e)[i] = t[j]
  BY <1>1, AddedToQueue
<1>3. \A i \in 1 .. Len(Append(t, e)) :
        \/ Append(t, e)[i] = e
        \/ Append(t, e)[i].read # e.read /\ \E j \in 1 .. Len(q) : Append(t, e)[i] = q[j]
  <2>1. SUFFICES ASSUME NEW i \in 1 .. Len(Append(t, e)), NEW k \in 1 .. Len(t), Append(t, e)[i] = t[k]
                 PROVE  Append(t, e)[i].read # e.read /\ \E j \in 1 .. Len(q) : Append(t, e)[i] = q[j]
    BY <1>2
  <2>. QED
    BY <1>1, <2>1
<1>. QED
  BY <1>2, <1>3 DEF t

-----------------------------------------------------------------------------
\* ---- The chips ----

ChipsOK ==
  /\ answer \in [Reads -> {"waiting", "answered", "failed"}]
  /\ available \subseteq Chips
  /\ input \in [Monitors -> Inputs]
  /\ \A u \in Units : conversion[u] \in {NoConversion} \cup Conversions(u)
  /\ register \in [Units -> Samples \cup {PowerOn}]
  /\ owner \in [Units -> Reads \cup {NoRead}]
  /\ fresh \in [Units -> SUBSET Reads]
  /\ scans \in 0 .. MaxScans

QueueOK    == QueueInv(queue)
QueueKnown == \A i \in 1 .. Len(queue) : EntryKnown(queue[i])

LEMMA IInvInParts == IInv => QueueOK /\ ChipsOK /\ QueueKnown
<1>. SUFFICES ASSUME IInv PROVE QueueOK /\ ChipsOK /\ QueueKnown
  OBVIOUS
<1>1. queue \in Seq(Entries) /\ DOMAIN queue = 1 .. Len(queue)
  BY DEF IInv, TypeOK, Entries
<1>. QED
  BY <1>1 DEF IInv, TypeOK, QueueOK, QueueInv, InTime, ChipsOK, QueueKnown

LEMMA PartsMakeIInv == QueueOK /\ ChipsOK /\ QueueKnown => IInv
<1>. SUFFICES ASSUME QueueOK, ChipsOK, QueueKnown PROVE IInv
  OBVIOUS
<1>1. queue \in Seq(Entries) /\ DOMAIN queue = 1 .. Len(queue)
  BY DEF QueueOK, QueueInv
<1>2. TypeOK
  BY <1>1 DEF TypeOK, QueueOK, QueueInv, InTime, ChipsOK, Entries
<1>. QED
  BY <1>2 DEF IInv, QueueOK, QueueInv, QueueKnown

LEMMA PartsMakeIInvNext == QueueOK' /\ ChipsOK' /\ QueueKnown' => IInv'
BY PartsMakeIInv, PTL

LEMMA UnitFacts ==
  /\ \A u \in Units : u = <<u[1], u[2]>> /\ u[1] \in Chips /\ FamilyOf[u[1]] \in Families
  /\ \A c \in Chips : <<c, "temperature">> \in Units
  /\ \A c \in Monitors : c \in Chips /\ <<c, "voltage">> \in Units
<1>1. \A c \in Monitors : c \in Chips
  BY DEF Monitors
<1>2. \A u \in Units : u = <<u[1], u[2]>> /\ u[1] \in Chips
  BY <1>1 DEF Units
<1>. QED
  BY <1>1, <1>2, ChipAssumption DEF Units

\* A conversion under way is not over.
LEMMA ConversionFacts ==
  ASSUME NEW u \in Units, NEW c \in {NoConversion} \cup Conversions(u)
  PROVE  /\ ConversionTime[FamilyOf[u[1]]] \in Nat \ {0}
         /\ c.left \in Nat
         /\ c = NoConversion <=> c.left = 0
         /\ c # NoConversion => c \in Conversions(u) /\ c.serves \subseteq Reads
<1>1. ConversionTime[FamilyOf[u[1]]] \in Nat \ {0}
  BY UnitFacts, ChipAssumption
<1>2. NoConversion.left = 0
  BY DEF NoConversion
<1>3. ASSUME c \in Conversions(u)
      PROVE  c.left \in 1 .. ConversionTime[FamilyOf[u[1]]] /\ c.serves \subseteq Reads
  BY <1>3 DEF Conversions
<1>. QED
  BY <1>1, <1>2, <1>3

\* Every request is for one family, and the chips it is for are of this family; only a
\* monitor has a voltage.
LEMMA TargetFacts ==
  ASSUME ChipsOK, NEW r \in Reads
  PROVE  /\ FamilyFor(r) \in Families
         /\ \A c \in Targets(r) : c \in Chips /\ FamilyOf[c] = FamilyFor(r)
         /\ UnitsOf(r) \subseteq Units
         /\ \A u \in UnitsOf(r) : u[2] = Kind(r) /\ FamilyOf[u[1]] = FamilyFor(r)
<1>1. FamilyFor(r) \in Families
  BY ChipAssumption, ReadAssumption DEF FamilyFor
<1>2. \A c \in Targets(r) : c \in Chips /\ FamilyOf[c] = FamilyFor(r)
  BY ChipAssumption, ReadAssumption DEF Targets, FamilyFor, ChipsOK
<1>3. \A u \in UnitsOf(r) : u[1] \in Targets(r) /\ u = <<u[1], Kind(r)>> /\ u[2] = Kind(r)
  BY DEF UnitsOf
<1>4. \A c \in Targets(r) : <<c, Kind(r)>> \in Units
  <2>1. CASE AttributeOf[r] = "temperature"
    BY <1>2, <2>1, UnitFacts DEF Kind
  <2>2. CASE AttributeOf[r] # "temperature"
    BY <1>2, <2>2, UnitFacts, ReadAssumption DEF Kind, Monitors
  <2>. QED
    BY <2>1, <2>2
<1>. QED
  BY <1>1, <1>2, <1>3, <1>4

LEMMA DelayFacts ==
  /\ \A f \in Families : SamplingTime[f] \in Nat /\ ConversionTime[f] \in Nat
       /\ ConversionTime[f] <= SamplingTime[f]
       /\ SamplingTime[f] \in 0 .. SamplingTime[Ds18b20] + SamplingTime[Ds2438]
<1>1. SamplingTime[Ds18b20] \in Nat /\ SamplingTime[Ds2438] \in Nat
  BY ChipAssumption DEF Families
<1>. QED
  BY <1>1, ChipAssumption, DelayAssumption DEF Families

\* What is known of an entry rests on the conversions, their registers and their readers.
LEMMA StillKnown ==
  ASSUME NEW e, EntryKnown(e), UNCHANGED <<conversion, register, owner, fresh>>
  PROVE  EntryKnown(e)'
BY DEF EntryKnown, OwnKnown, FreshKnown

\* A conversion that begins serves all the reads that wait for the unit.
LEMMA ConvertedServes ==
  ASSUME NEW r, NEW started, NEW ok \in BOOLEAN, Convert(r, started, ok),
         NEW u \in Units, u \in started, NEW e, e.pass = "ReadResult", Kind(e.read) = u[2],
         NEW j \in DOMAIN queue, queue[j] = e, e.read # r
  PROVE  e.read \in conversion'[u].serves
<1>1. e.read \in Served(r, u)
  BY DEF Served
<1>2. conversion'[u].serves = Served(r, u) \ (IF ok THEN {} ELSE {r})
  BY DEF Convert
<1>. QED
  BY <1>1, <1>2

LEMMA ConvertedFacts ==
  ASSUME NEW r, NEW started, NEW ok, Convert(r, started, ok), NEW u \in Units
  PROVE  /\ u \in started =>
              /\ conversion'[u].left = ConversionTime[FamilyOf[u[1]]]
              /\ conversion'[u].input = IF u[2] = "temperature" THEN "temperature" ELSE input'[u[1]]
              /\ conversion'[u].by = r
              /\ conversion'[u].serves = Served(r, u) \ (IF ok THEN {} ELSE {r})
              /\ conversion'[u] # NoConversion
         /\ u \notin started => conversion'[u] = conversion[u]
<1>1. u \notin started => conversion'[u] = conversion[u]
  BY DEF Convert
<1>2. ASSUME u \in started
      PROVE  /\ conversion'[u].left = ConversionTime[FamilyOf[u[1]]]
             /\ conversion'[u].input = IF u[2] = "temperature" THEN "temperature" ELSE input'[u[1]]
             /\ conversion'[u].by = r
             /\ conversion'[u].serves = Served(r, u) \ (IF ok THEN {} ELSE {r})
  BY <1>2 DEF Convert
<1>3. ConversionTime[FamilyOf[u[1]]] # 0
  BY UnitFacts, ChipAssumption
<1>4. u \in started => conversion'[u] # NoConversion
  BY <1>2, <1>3 DEF NoConversion
<1>. QED
  BY <1>1, <1>2, <1>4

\* One that interrupts another says so.
LEMMA ConvertedInterrupts ==
  ASSUME NEW r, NEW started, NEW ok, Convert(r, started, ok), NEW u \in Units, u \in started,
         conversion[u] # NoConversion
  PROVE  conversion'[u].interrupts
<1>1. conversion'[u].interrupts = (conversion[u] # NoConversion)
  BY DEF Convert
<1>. QED
  BY <1>1

\* A read that starts conversions leaves what is known of the other reads.
LEMMA ConvertKeepsOthers ==
  ASSUME NEW r \in Reads, NEW started \in SUBSET Units, NEW touched \in SUBSET Units,
         started \subseteq touched, NEW ok \in BOOLEAN, ChipsOK,
         Convert(r, started, ok), Touch(r, touched), UNCHANGED <<register, fresh>>,
         NEW e \in Entries, NEW j \in DOMAIN queue, queue[j] = e, EntryKnown(e), e.read # r
  PROVE  EntryKnown(e)'
<1>1. SUFFICES ASSUME e.pass = "ReadResult", NEW u \in e.started,
                      FamilyOf[u[1]] = FamilyFor(e.read)
               PROVE  OwnKnown(e.read, e.timer, u)' /\ FreshKnown(e.read, e.timer, u)'
  BY DEF EntryKnown
<1>2. u \in Units /\ u[2] = Kind(e.read)
  BY <1>1 DEF Entries, EntryKnown
<1>3. OwnKnown(e.read, e.timer, u) /\ FreshKnown(e.read, e.timer, u)
  BY <1>1 DEF EntryKnown
<1>4. owner'[u] = IF u \in touched THEN r ELSE owner[u]
  BY <1>2 DEF Touch
<1>5. CASE u \in started
  <2>1. conversion'[u] # NoConversion /\ e.read \in conversion'[u].serves
    BY <1>1, <1>2, <1>5, ConvertedFacts, ConvertedServes
  <2>2. conversion[u] # NoConversion => conversion'[u].interrupts
    BY <1>2, <1>5, ConvertedInterrupts
  <2>3. conversion[u] = NoConversion => e.read \in fresh'[u]
    BY <1>3 DEF FreshKnown
  <2>. QED
    BY <1>4, <1>5, <2>1, <2>2, <2>3 DEF OwnKnown, FreshKnown
<1>6. CASE u \notin started
  <2>1. conversion'[u] = conversion[u] /\ register'[u] = register[u] /\ fresh'[u] = fresh[u]
    BY <1>2, <1>6, ConvertedFacts
  <2>. QED
    BY <1>3, <1>4, <2>1 DEF OwnKnown, FreshKnown
<1>. QED
  BY <1>5, <1>6

\* A first pass that succeeds is served by what it starts.
LEMMA ServesItself ==
  ASSUME NEW r, NEW u, NEW ok \in BOOLEAN, ok
  PROVE  r \in Served(r, u) \ (IF ok THEN {} ELSE {r})
BY DEF Served

\* What a read has itself started is known when it goes back into the queue.
LEMMA ConvertKnowsOwn ==
  ASSUME NEW r \in Reads, NEW started \in SUBSET Units, NEW touched \in SUBSET Units,
         started \subseteq touched, ChipsOK, NEW ok \in BOOLEAN,
         Convert(r, started, ok), Touch(r, touched),
         \A u \in started : r \in Served(r, u) \ (IF ok THEN {} ELSE {r}),
         NEW mine \in SUBSET started, NEW e \in Entries,
         e.read = r, e.timer = SamplingTime[FamilyFor(r)], e.started = mine,
         \A u \in mine : u[2] = Kind(r),
         Kind(r) = "voltage" => \A u \in mine : input'[u[1]] = AttributeOf[r]
  PROVE  EntryKnown(e)'
<1>1. SUFFICES ASSUME NEW u \in mine, FamilyOf[u[1]] = FamilyFor(r)
               PROVE  OwnKnown(r, SamplingTime[FamilyFor(r)], u)'
                      /\ FreshKnown(r, SamplingTime[FamilyFor(r)], u)'
  BY DEF EntryKnown
<1>2. u \in Units /\ u \in started /\ u[2] = Kind(r)
  OBVIOUS
<1>3. conversion'[u].left <= SamplingTime[FamilyFor(r)]
  BY <1>1, <1>2, ConvertedFacts, UnitFacts, DelayFacts
<1>4. conversion'[u].input = AttributeOf[r]
  <2>1. conversion'[u].input = IF u[2] = "temperature" THEN "temperature" ELSE input'[u[1]]
    BY <1>2, ConvertedFacts
  <2>2. CASE AttributeOf[r] = "temperature"
    BY <1>2, <2>1, <2>2 DEF Kind
  <2>3. CASE AttributeOf[r] # "temperature"
    BY <1>1, <1>2, <2>1, <2>3 DEF Kind
  <2>. QED
    BY <2>2, <2>3
<1>5. conversion'[u].by = r /\ conversion'[u] # NoConversion
  BY <1>2, ConvertedFacts
<1>6. r \in conversion'[u].serves
  <2>1. conversion'[u].serves = Served(r, u) \ (IF ok THEN {} ELSE {r})
    BY <1>2, ConvertedFacts
  <2>. QED
    BY <1>2, <2>1
<1>. QED
  BY <1>3, <1>4, <1>5, <1>6 DEF OwnKnown, FreshKnown

\* A conversion begun is one.
LEMMA ConvertType ==
  ASSUME NEW r \in Reads, NEW started \in SUBSET Units, NEW ok \in BOOLEAN, ChipsOK,
         Convert(r, started, ok), input' \in [Monitors -> Inputs],
         queue \in Seq(Entries), NEW u \in Units
  PROVE  conversion'[u] \in {NoConversion} \cup Conversions(u)
<1>1. CASE u \notin started
  BY <1>1, ConvertedFacts DEF ChipsOK
<1>2. CASE u \in started
  <2>. DEFINE what == IF u[2] = "temperature" THEN "temperature" ELSE input'[u[1]]
              who  == Served(r, u) \ (IF ok THEN {} ELSE {r})
              cut  == conversion[u] # NoConversion
  <2>1. conversion'[u] = [left |-> ConversionTime[FamilyOf[u[1]]], input |-> what, by |-> r,
                          interrupts |-> cut, serves |-> who]
    BY <1>2 DEF Convert
  <2>2. ConversionTime[FamilyOf[u[1]]] \in 1 .. ConversionTime[FamilyOf[u[1]]]
    BY UnitFacts, ChipAssumption
  <2>3. what \in Quantities
    <3>1. u[2] = "temperature" \/ u[1] \in Monitors
      BY DEF Units
    <3>. QED
      BY <3>1 DEF Quantities
  <2>4. who \in SUBSET Reads
    <3>1. \A j \in DOMAIN queue : queue[j].read \in Reads
      <4>1. \A j \in DOMAIN queue : queue[j] \in Entries
        OBVIOUS
      <4>. QED
        BY <4>1 DEF Entries
    <3>. QED
      BY <3>1 DEF Served
  <2>5. cut \in BOOLEAN
    OBVIOUS
  <2>. HIDE DEF what, who, cut
  <2>. QED
    BY <2>1, <2>2, <2>3, <2>4, <2>5 DEF Conversions
<1>. QED
  BY <1>1, <1>2

\* Reads that come to an end do not matter to others.
LEMMA ForgetKeepsOthers ==
  ASSUME NEW r \in Reads, ChipsOK, Forget(r), UNCHANGED <<input, register, owner>>,
         NEW e \in Entries, EntryKnown(e), e.read # r
  PROVE  EntryKnown(e)'
<1>1. SUFFICES ASSUME e.pass = "ReadResult", NEW u \in e.started,
                      FamilyOf[u[1]] = FamilyFor(e.read)
               PROVE  OwnKnown(e.read, e.timer, u)' /\ FreshKnown(e.read, e.timer, u)'
  BY DEF EntryKnown
<1>2. u \in Units
  BY <1>1 DEF Entries
<1>3. OwnKnown(e.read, e.timer, u) /\ FreshKnown(e.read, e.timer, u)
  BY <1>1 DEF EntryKnown
<1>4. fresh'[u] = fresh[u] \ {r}
  BY <1>2 DEF Forget
<1>5. CASE conversion[u] = NoConversion
  <2>1. conversion'[u] = NoConversion
    BY <1>2, <1>5 DEF Forget
  <2>. QED
    BY <1>3, <1>4, <1>5, <2>1 DEF OwnKnown, FreshKnown
<1>6. CASE conversion[u] # NoConversion
  <2>1. conversion[u] \in Conversions(u)
    BY <1>2, <1>6 DEF ChipsOK
  <2>2. conversion'[u] = [conversion[u] EXCEPT !.serves = @ \ {r}]
    BY <1>2, <1>6 DEF Forget
  <2>3. /\ conversion'[u].left = conversion[u].left /\ conversion'[u].by = conversion[u].by
        /\ conversion'[u].input = conversion[u].input
        /\ conversion'[u].serves = conversion[u].serves \ {r}
    BY <2>1, <2>2 DEF Conversions
  <2>4. conversion'[u].interrupts = conversion[u].interrupts
    BY <2>1, <2>2 DEF Conversions
  <2>5. conversion'[u] # NoConversion
    BY <1>2, <1>6, <2>1, <2>3, ConversionFacts DEF NoConversion
  <2>6. OwnKnown(e.read, e.timer, u)'
    BY <1>3, <1>6, <2>3, <2>5 DEF OwnKnown
  <2>7. FreshKnown(e.read, e.timer, u)'
    BY <1>3, <1>4, <1>6, <2>3, <2>4, <2>5 DEF FreshKnown
  <2>. QED
    BY <2>6, <2>7
<1>. QED
  BY <1>5, <1>6

LEMMA ForgetType ==
  ASSUME NEW r \in Reads, ChipsOK, Forget(r)
  PROVE  /\ fresh' \in [Units -> SUBSET Reads]
         /\ \A u \in Units : conversion'[u] \in {NoConversion} \cup Conversions(u)
<1>1. fresh' \in [Units -> SUBSET Reads]
  BY DEF Forget, ChipsOK
<1>2. ASSUME NEW u \in Units, conversion[u] # NoConversion
      PROVE  conversion'[u] \in Conversions(u)
  <2>1. conversion[u] \in Conversions(u)
    BY <1>2 DEF ChipsOK
  <2>2. conversion'[u] = [conversion[u] EXCEPT !.serves = @ \ {r}]
    BY <1>2 DEF Forget
  <2>. QED
    BY <2>1, <2>2 DEF Conversions
<1>3. \A u \in Units : conversion[u] = NoConversion => conversion'[u] = NoConversion
  BY DEF Forget
<1>. QED
  BY <1>1, <1>2, <1>3

\* What a tick does to a conversion, to its register and to the reads it serves.
LEMMA TickFacts ==
  ASSUME ChipsOK, Tick, NEW u \in Units
  PROVE  /\ conversion[u] = NoConversion =>
              conversion'[u] = NoConversion /\ register'[u] = register[u] /\ fresh'[u] = fresh[u]
         /\ conversion[u].left = 1 =>
              /\ conversion'[u] = NoConversion /\ fresh'[u] = conversion[u].serves
              /\ register'[u] = [input |-> conversion[u].input, by |-> conversion[u].by]
         /\ conversion[u].left > 1 =>
              /\ conversion'[u] = [conversion[u] EXCEPT !.left = @ - 1]
              /\ register'[u] = register[u] /\ fresh'[u] = fresh[u]
<1>1. conversion[u].left \in Nat /\ (conversion[u] = NoConversion <=> conversion[u].left = 0)
  BY ConversionFacts DEF ChipsOK
<1>2. conversion'[u] = IF conversion[u].left <= 1 THEN NoConversion
                       ELSE [conversion[u] EXCEPT !.left = @ - 1]
  BY DEF Tick
<1>3. register'[u] = IF conversion[u].left = 1
                       THEN [input |-> conversion[u].input, by |-> conversion[u].by]
                       ELSE register[u]
  BY DEF Tick
<1>4. fresh'[u] = IF conversion[u].left = 1 THEN conversion[u].serves ELSE fresh[u]
  BY DEF Tick
<1>. QED
  BY <1>1, <1>2, <1>3, <1>4

Counted(e) == [e EXCEPT !.timer = IF @ > 0 THEN @ - 1 ELSE 0]

LEMMA CountedFacts ==
  ASSUME NEW e \in Entries, InTime(e)
  PROVE  /\ Counted(e) \in Entries /\ InTime(Counted(e))
         /\ Counted(e).read = e.read /\ Counted(e).pass = e.pass /\ Counted(e).started = e.started
         /\ e.timer \in Nat /\ Counted(e).timer = IF e.timer > 0 THEN e.timer - 1 ELSE 0
<1>. DEFINE Most == SamplingTime[Ds18b20] + SamplingTime[Ds2438]
<1>1. Most \in Nat
  BY ChipAssumption DEF Families
<1>2. FamilyFor(e.read) \in Families
  BY ChipAssumption, ReadAssumption DEF FamilyFor, Entries
<1>3. SamplingTime[FamilyFor(e.read)] \in Nat
  BY <1>2, ChipAssumption
<1>. HIDE DEF Most
<1>4. e \in [read : Reads, pass : {"None", "ReadResult"}, timer : 0 .. Most, started : SUBSET Units]
  BY DEF Entries, Most
<1>5. e.timer \in Nat /\ e.timer <= Most
  BY <1>1, <1>4
<1>6. (IF e.timer > 0 THEN e.timer - 1 ELSE 0) \in 0 .. Most
  BY <1>1, <1>5
<1>7. /\ Counted(e) \in [read : Reads, pass : {"None", "ReadResult"}, timer : 0 .. Most,
                         started : SUBSET Units]
      /\ Counted(e).read = e.read /\ Counted(e).pass = e.pass /\ Counted(e).started = e.started
      /\ Counted(e).timer = IF e.timer > 0 THEN e.timer - 1 ELSE 0
  BY <1>4, <1>6 DEF Counted
<1>8. InTime(Counted(e))
  BY <1>3, <1>5, <1>7 DEF InTime
<1>. QED
  BY <1>5, <1>7, <1>8 DEF Entries, Most

\* The timer of an entry and the conversions it waits for run down together.
LEMMA TickKeepsEntry ==
  ASSUME ChipsOK, Tick, NEW e \in Entries, EntryKnown(e), InTime(e)
  PROVE  EntryKnown(Counted(e))'
<1>. DEFINE r == e.read
            t == e.timer
            n == Counted(e).timer
<1>1. /\ Counted(e).read = r /\ Counted(e).pass = e.pass /\ Counted(e).started = e.started
      /\ t \in Nat /\ n = IF t > 0 THEN t - 1 ELSE 0
  BY CountedFacts
<1>2. SUFFICES ASSUME e.pass = "ReadResult", NEW u \in e.started, FamilyOf[u[1]] = FamilyFor(r)
               PROVE  OwnKnown(r, n, u)' /\ FreshKnown(r, n, u)'
  BY <1>1 DEF EntryKnown
<1>3. u \in Units /\ owner' = owner
  BY <1>2 DEF Entries, Tick
<1>4. OwnKnown(r, t, u) /\ FreshKnown(r, t, u)
  BY <1>2 DEF EntryKnown
<1>5. conversion[u] \in {NoConversion} \cup Conversions(u) /\ conversion[u].left \in Nat
      /\ (conversion[u] = NoConversion <=> conversion[u].left = 0)
  BY <1>3, ConversionFacts DEF ChipsOK
<1>. HIDE DEF r, t, n
<1>6. CASE conversion[u] = NoConversion
  BY <1>3, <1>4, <1>6, TickFacts DEF OwnKnown, FreshKnown
<1>7. CASE conversion[u].left = 1
  BY <1>3, <1>4, <1>5, <1>7, TickFacts DEF OwnKnown, FreshKnown
<1>8. CASE conversion[u].left > 1
  <2>1. conversion[u] \in Conversions(u) /\ conversion[u] # NoConversion
    BY <1>5, <1>8
  <2>2. conversion'[u] = [conversion[u] EXCEPT !.left = @ - 1]
    BY <1>3, <1>8, TickFacts
  <2>3. /\ conversion'[u].left = conversion[u].left - 1
        /\ conversion'[u].by = conversion[u].by /\ conversion'[u].input = conversion[u].input
        /\ conversion'[u].serves = conversion[u].serves
    BY <2>1, <2>2 DEF Conversions
  <2>4. conversion'[u].interrupts = conversion[u].interrupts
    BY <2>1, <2>2 DEF Conversions
  <2>5. conversion'[u] # NoConversion
    BY <1>5, <1>8, <2>3 DEF NoConversion
  <2>6. conversion[u].left <= t => conversion'[u].left <= n
    BY <1>1, <1>5, <1>8, <2>3
  <2>7. OwnKnown(r, n, u)'
    BY <1>3, <1>4, <2>1, <2>3, <2>5, <2>6 DEF OwnKnown
  <2>8. fresh'[u] = fresh[u]
    BY <1>3, <1>8, TickFacts
  <2>9. FreshKnown(r, n, u)'
    BY <1>4, <2>1, <2>3, <2>4, <2>5, <2>6, <2>8 DEF FreshKnown
  <2>. QED
    BY <2>7, <2>9
<1>. QED
  BY <1>5, <1>6, <1>7, <1>8

LEMMA TickType ==
  ASSUME ChipsOK, Tick
  PROVE  ChipsOK'
<1>1. ASSUME NEW u \in Units
      PROVE  /\ conversion'[u] \in {NoConversion} \cup Conversions(u)
             /\ register'[u] \in Samples \cup {PowerOn} /\ fresh'[u] \in SUBSET Reads
  <2>. DEFINE Span == ConversionTime[FamilyOf[u[1]]]
  <2>1. /\ conversion[u] \in {NoConversion} \cup Conversions(u) /\ conversion[u].left \in Nat
        /\ (conversion[u] = NoConversion <=> conversion[u].left = 0)
        /\ register[u] \in Samples \cup {PowerOn} /\ fresh[u] \in SUBSET Reads
    BY ConversionFacts DEF ChipsOK
  <2>2. CASE conversion[u] = NoConversion
    BY <2>1, <2>2, TickFacts
  <2>3. CASE conversion[u].left = 1
    <3>1. conversion[u] \in Conversions(u)
      BY <2>1, <2>3
    <3>2. conversion[u].input \in Quantities /\ conversion[u].by \in Reads /\ conversion[u].serves \in SUBSET Reads
      BY <3>1 DEF Conversions
    <3>3. conversion'[u] = NoConversion /\ fresh'[u] = conversion[u].serves
          /\ register'[u] = [input |-> conversion[u].input, by |-> conversion[u].by]
      BY <2>3, TickFacts
    <3>. QED
      BY <3>2, <3>3 DEF Samples
  <2>4. CASE conversion[u].left > 1
    <3>1. conversion[u] \in Conversions(u) /\ conversion[u].left \in 1 .. Span
      BY <2>1, <2>4 DEF Conversions
    <3>2. conversion[u].left - 1 \in 1 .. Span
      BY <2>4, <3>1, ConversionFacts DEF ChipsOK
    <3>. HIDE DEF Span
    <3>3. [conversion[u] EXCEPT !.left = @ - 1] \in Conversions(u)
      BY <3>1, <3>2 DEF Conversions, Span
    <3>. QED
      BY <2>1, <2>4, <3>3, TickFacts
  <2>. QED
    BY <2>1, <2>2, <2>3, <2>4
<1>2. /\ register' = [u \in Units |-> register'[u]] /\ fresh' = [u \in Units |-> fresh'[u]]
  BY DEF Tick
<1>3. register' \in [Units -> Samples \cup {PowerOn}] /\ fresh' \in [Units -> SUBSET Reads]
  BY <1>1, <1>2
<1>4. UNCHANGED <<answer, available, input, owner, scans>>
  BY DEF Tick
<1>. QED
  BY <1>1, <1>3, <1>4 DEF ChipsOK

-----------------------------------------------------------------------------
\* ---- Each step keeps the invariant ----

\* What is known of every entry the step leaves in the queue is known of the queue.
LEMMA NextQueueKnown ==
  ASSUME \A x : (\E i \in 1 .. Len(queue') : queue'[i] = x) => EntryKnown(x)'
  PROVE  QueueKnown'
BY DEF QueueKnown, EntryKnown, OwnKnown, FreshKnown

LEMMA InitIInv == Init => IInv
<1>. SUFFICES ASSUME Init PROVE IInv
  OBVIOUS
<1>1. ChipsOK
  BY ReadAssumption DEF Init, ChipsOK
<1>2. QueueOK /\ QueueKnown
  BY DEF Init, QueueOK, QueueKnown, QueueInv, Distinct
<1>. QED
  BY <1>1, <1>2, PartsMakeIInv

LEMMA SendKeeps == ASSUME IInv, NEW r \in Reads, Send(r) PROVE IInv'
<1>. DEFINE e == [read |-> r, pass |-> "None", timer |-> 0, started |-> {}]
<1>1. QueueInv(queue) /\ ChipsOK /\ QueueKnown
  BY IInvInParts DEF QueueOK
<1>2. e \in Entries /\ e.read = r /\ e.timer = 0 /\ e.pass = "None"
  BY DelayFacts DEF Entries, Families
<1>3. InTime(e)
  BY <1>1, <1>2, TargetFacts, DelayFacts DEF InTime
<1>4. queue' = Append(queue, e) /\ \A i \in 1 .. Len(queue) : queue[i].read # r
  <2>1. DOMAIN queue = 1 .. Len(queue)
    BY <1>1 DEF QueueInv
  <2>. QED
    BY <2>1 DEF Send
<1>5. ChipsOK'
  BY <1>1 DEF Send, chip_state, ChipsOK
<1>. HIDE DEF e
<1>6. /\ QueueInv(queue')
      /\ \A i \in 1 .. Len(queue') : queue'[i] = e \/ \E j \in 1 .. Len(queue) : queue'[i] = queue[j]
  BY <1>1, <1>2, <1>3, <1>4, AddedToQueue
<1>7. QueueKnown'
  <2>1. SUFFICES ASSUME NEW x, EntryKnown(x) \/ x = e PROVE EntryKnown(x)'
    BY <1>1, <1>6, NextQueueKnown DEF QueueKnown
  <2>2. EntryKnown(x)
    BY <1>2, <2>1 DEF EntryKnown
  <2>. QED
    BY <2>2, StillKnown DEF Send, chip_state
<1>. QED
  BY <1>5, <1>6, <1>7, PartsMakeIInvNext DEF QueueOK

LEMMA PostponeKeeps == IInv /\ Postpone => IInv'
<1>. SUFFICES ASSUME IInv, Postpone PROVE IInv'
  OBVIOUS
<1>. DEFINE e == Head(queue)
<1>1. QueueInv(queue) /\ ChipsOK /\ QueueKnown
  BY IInvInParts DEF QueueOK
<1>2. queue # <<>> /\ queue' = Append(Tail(queue), e) /\ UNCHANGED chip_state
  BY DEF Postpone
<1>3. e = queue[1] /\ 1 \in 1 .. Len(queue) /\ e \in Entries
  BY <1>1, <1>2, TailFacts DEF QueueInv
<1>4. InTime(e) /\ EntryKnown(e)
  BY <1>1, <1>3 DEF QueueInv, QueueKnown
<1>5. ChipsOK'
  BY <1>1 DEF Postpone, chip_state, ChipsOK
<1>. HIDE DEF e
<1>6. /\ QueueInv(queue')
      /\ \A i \in 1 .. Len(queue') : queue'[i] = e \/ \E j \in 1 .. Len(queue) : queue'[i] = queue[j]
  BY <1>1, <1>2, <1>3, <1>4, PutBackInQueue DEF e
<1>7. QueueKnown'
  <2>1. SUFFICES ASSUME NEW x, EntryKnown(x) PROVE EntryKnown(x)'
    BY <1>1, <1>4, <1>6, NextQueueKnown DEF QueueKnown
  <2>. QED
    BY <1>2, <2>1, StillKnown DEF chip_state
<1>. QED
  BY <1>5, <1>6, <1>7, PartsMakeIInvNext DEF QueueOK

LEMMA ScanKeeps == IInv /\ Scan => IInv'
<1>. SUFFICES ASSUME IInv, Scan PROVE IInv'
  OBVIOUS
<1>1. QueueInv(queue) /\ ChipsOK /\ QueueKnown
  BY IInvInParts DEF QueueOK
<1>2. queue' = queue /\ UNCHANGED chip_state
  BY DEF Scan
<1>3. ChipsOK'
  <2>1. scans' \in 0 .. MaxScans /\ available' \subseteq Chips
    BY <1>1, ReadAssumption DEF Scan, ChipsOK
  <2>. QED
    BY <1>1, <2>1 DEF Scan, chip_state, ChipsOK
<1>4. QueueKnown'
  <2>1. SUFFICES ASSUME NEW x, EntryKnown(x) PROVE EntryKnown(x)'
    BY <1>1, <1>2, NextQueueKnown DEF QueueKnown
  <2>. QED
    BY <1>2, <2>1, StillKnown DEF chip_state
<1>. QED
  BY <1>1, <1>2, <1>3, <1>4, PartsMakeIInvNext DEF QueueOK

LEMMA TickKeeps == IInv /\ Tick => IInv'
<1>. SUFFICES ASSUME IInv, Tick PROVE IInv'
  OBVIOUS
<1>1. QueueInv(queue) /\ ChipsOK /\ QueueKnown
  BY IInvInParts DEF QueueOK
<1>2. queue \in Seq(Entries) /\ DOMAIN queue = 1 .. Len(queue) /\ Len(queue) \in Nat
  BY <1>1 DEF QueueInv
<1>3. \A i \in 1 .. Len(queue) :
        queue[i] \in Entries /\ InTime(queue[i]) /\ EntryKnown(queue[i])
  BY <1>1, <1>2 DEF QueueInv, QueueKnown
<1>4. queue' = [i \in 1 .. Len(queue) |-> Counted(queue[i])]
  BY <1>2 DEF Tick, Counted
<1>5. \A i \in 1 .. Len(queue) : Counted(queue[i]) \in Entries
  BY <1>3, CountedFacts
<1>6. queue' \in Seq(Entries) /\ Len(queue') = Len(queue)
  <2>1. queue' \in [1 .. Len(queue) -> Entries]
    BY <1>4, <1>5
  <2>. QED
    BY <1>2, <2>1
<1>7. QueueInv(queue')
  <2>1. Distinct(queue')
    BY <1>1, <1>3, <1>4, <1>6, CountedFacts DEF QueueInv, Distinct
  <2>2. \A i \in 1 .. Len(queue') : InTime(queue'[i])
    BY <1>3, <1>4, <1>6, CountedFacts
  <2>. QED
    BY <1>6, <2>1, <2>2 DEF QueueInv
<1>8. QueueKnown'
  <2>1. SUFFICES ASSUME NEW e \in Entries, InTime(e), EntryKnown(e) PROVE EntryKnown(Counted(e))'
    BY <1>3, <1>4, <1>6, NextQueueKnown
  <2>. QED
    BY <1>1, <2>1, TickKeepsEntry
<1>. QED
  BY <1>1, <1>7, <1>8, TickType, PartsMakeIInvNext DEF QueueOK

\* The entries that stay when the read at the head comes to its end.
LEMMA EndKeeps ==
  ASSUME IInv, queue # <<>>, queue' = Tail(queue), Forget(Head(queue).read),
         answer' \in [Reads -> {"waiting", "answered", "failed"}],
         UNCHANGED <<available, input, register, owner, scans>>
  PROVE  IInv'
<1>. DEFINE r == Head(queue).read
<1>1. QueueInv(queue) /\ ChipsOK /\ QueueKnown
  BY IInvInParts DEF QueueOK
<1>2. r \in Reads
  <2>1. Head(queue) \in Entries
    BY <1>1, TailFacts DEF QueueInv
  <2>. QED
    BY <2>1 DEF Entries
<1>3. /\ QueueInv(queue')
      /\ \A i \in 1 .. Len(queue') : queue'[i].read # r /\ \E j \in 1 .. Len(queue) : queue'[i] = queue[j]
  BY <1>1, TakenFromQueue
<1>4. ChipsOK'
  BY <1>1, <1>2, ForgetType DEF ChipsOK
<1>5. QueueKnown'
  <2>1. \A j \in 1 .. Len(queue) : queue[j] \in Entries /\ EntryKnown(queue[j])
    BY <1>1 DEF QueueInv, QueueKnown
  <2>2. SUFFICES ASSUME NEW e \in Entries, EntryKnown(e), e.read # r PROVE EntryKnown(e)'
    BY <1>3, <2>1, NextQueueKnown
  <2>. HIDE DEF r
  <2>. QED
    BY <1>1, <1>2, <2>2, ForgetKeepsOthers DEF r
<1>. QED
  BY <1>3, <1>4, <1>5, PartsMakeIInvNext DEF QueueOK

LEMMA ReadResultKeeps == IInv /\ ReadResult => IInv'
<1>. SUFFICES ASSUME IInv, ReadResult PROVE IInv'
  OBVIOUS
<1>1. PICK a \in Outcomes : Respond(Head(queue).read, a)
  BY DEF ReadResult
<1>2. answer' \in [Reads -> {"waiting", "answered", "failed"}]
  BY <1>1 DEF Respond, Outcomes, IInv, TypeOK
<1>. QED
  BY <1>1, <1>2, EndKeeps DEF ReadResult, Turn, Respond

LEMMA NothingToReadKeeps == IInv /\ NothingToRead => IInv'
<1>. SUFFICES ASSUME IInv, NothingToRead PROVE IInv'
  OBVIOUS
<1>1. queue' = Tail(queue)
  BY DEF NothingToRead, Respond
<1>2. answer' \in [Reads -> {"waiting", "answered", "failed"}]
  BY DEF NothingToRead, Respond, IInv, TypeOK
<1>. QED
  BY <1>1, <1>2, EndKeeps DEF NothingToRead

\* The conversions a first pass starts, whether it succeeds or not.
Starts(r, started, touched, ok) ==
  /\ Convert(r, started, ok) /\ Touch(r, touched)
  /\ input' \in [Monitors -> Inputs]
  /\ UNCHANGED <<available, register, fresh, scans>>

LEMMA StartsType ==
  ASSUME NEW r \in Reads, NEW started \in SUBSET Units, NEW touched \in SUBSET Units,
         NEW ok \in BOOLEAN, ChipsOK, QueueInv(queue), Starts(r, started, touched, ok),
         answer' \in [Reads -> {"waiting", "answered", "failed"}]
  PROVE  ChipsOK'
<1>1. \A u \in Units : conversion'[u] \in {NoConversion} \cup Conversions(u)
  BY ConvertType DEF Starts, QueueInv
<1>2. owner' \in [Units -> Reads \cup {NoRead}]
  BY DEF Starts, Touch, ChipsOK
<1>. QED
  BY <1>1, <1>2 DEF ChipsOK, Starts

LEMMA StartsKeepsOthers ==
  ASSUME NEW r \in Reads, NEW started \in SUBSET Units, NEW touched \in SUBSET Units,
         started \subseteq touched, NEW ok \in BOOLEAN, ChipsOK, QueueInv(queue), QueueKnown,
         Starts(r, started, touched, ok), NEW j \in 1 .. Len(queue), NEW e, queue[j] = e, e.read # r
  PROVE  EntryKnown(e)'
<1>1. e \in Entries /\ j \in DOMAIN queue /\ EntryKnown(e)
  BY DEF QueueInv, QueueKnown
<1>2. Convert(r, started, ok) /\ Touch(r, touched) /\ UNCHANGED <<register, fresh>>
  BY DEF Starts
<1>. QED
  BY <1>1, <1>2, ConvertKeepsOthers

LEMMA FailedSampleKeeps ==
  ASSUME IInv, queue # <<>>, NEW r, r = Head(queue).read,
         NEW started \in SUBSET Units, NEW touched \in SUBSET Units, started \subseteq touched,
         NEW ok \in BOOLEAN, Starts(r, started, touched, ok), Respond(r, "failed")
  PROVE  IInv'
<1>1. QueueInv(queue) /\ ChipsOK /\ QueueKnown
  BY IInvInParts DEF QueueOK
<1>2. r \in Reads
  BY <1>1, TailFacts DEF QueueInv, Entries
<1>3. queue' = Tail(queue) /\ answer' \in [Reads -> {"waiting", "answered", "failed"}]
  BY <1>1 DEF Respond, ChipsOK
<1>4. /\ QueueInv(queue')
      /\ \A i \in 1 .. Len(queue') : queue'[i].read # r /\ \E j \in 1 .. Len(queue) : queue'[i] = queue[j]
  BY <1>1, <1>3, TakenFromQueue
<1>5. QueueKnown'
  <2>1. SUFFICES ASSUME NEW j \in 1 .. Len(queue), NEW e, queue[j] = e, e.read # r
                 PROVE  EntryKnown(e)'
    BY <1>4, NextQueueKnown
  <2>. QED
    BY <1>1, <1>2, <2>1, StartsKeepsOthers
<1>. QED
  BY <1>1, <1>2, <1>3, <1>4, <1>5, StartsType, PartsMakeIInvNext DEF QueueOK

LEMMA GoodSampleKeeps ==
  ASSUME IInv, queue # <<>>, NEW r, r = Head(queue).read,
         NEW started \in SUBSET Units, NEW touched \in SUBSET Units, started \subseteq touched,
         NEW ok \in BOOLEAN, Starts(r, started, touched, ok), UNCHANGED answer,
         queue' = Append(Tail(queue), [read |-> r, pass |-> "ReadResult",
                                       timer |-> SamplingDelay(r), started |-> started]),
         \A u \in started : r \in Served(r, u) \ (IF ok THEN {} ELSE {r}),
         \A u \in started : u[2] = Kind(r),
         Kind(r) = "voltage" => \A u \in started : input'[u[1]] = AttributeOf[r]
  PROVE  IInv'
<1>. DEFINE e == [read |-> r, pass |-> "ReadResult", timer |-> SamplingDelay(r), started |-> started]
<1>1. QueueInv(queue) /\ ChipsOK /\ QueueKnown
  BY IInvInParts DEF QueueOK
<1>2. r \in Reads
  BY <1>1, TailFacts DEF QueueInv, Entries
<1>3. /\ e \in Entries /\ e.read = r /\ e.started = started
      /\ e.timer = SamplingTime[FamilyFor(r)] /\ InTime(e)
  <2>1. SamplingTime[FamilyFor(r)] \in 0 .. SamplingTime[Ds18b20] + SamplingTime[Ds2438]
    BY <1>1, <1>2, TargetFacts, DelayFacts
  <2>2. SamplingTime[FamilyFor(r)] <= SamplingTime[FamilyFor(r)]
    BY <1>1, <1>2, TargetFacts, DelayFacts
  <2>. QED
    BY <1>2, <2>1, <2>2 DEF SamplingDelay, Entries, InTime
<1>. HIDE DEF e
<1>4. queue' = Append(Tail(queue), e)
  BY DEF e
<1>5. /\ QueueInv(queue')
      /\ \A i \in 1 .. Len(queue') :
           \/ queue'[i] = e
           \/ queue'[i].read # r /\ \E j \in 1 .. Len(queue) : queue'[i] = queue[j]
  BY <1>1, <1>3, <1>4, PutBackInQueue
<1>6. EntryKnown(e)'
  <2>1. Convert(r, started, ok) /\ Touch(r, touched)
    BY DEF Starts
  <2>. QED
    BY <1>1, <1>2, <1>3, <2>1, ConvertKnowsOwn
<1>7. QueueKnown'
  <2>1. SUFFICES ASSUME NEW j \in 1 .. Len(queue), NEW x, queue[j] = x, x.read # r
                 PROVE  EntryKnown(x)'
    BY <1>5, <1>6, NextQueueKnown
  <2>. QED
    BY <1>1, <1>2, <2>1, StartsKeepsOthers
<1>8. answer' \in [Reads -> {"waiting", "answered", "failed"}]
  BY <1>1 DEF ChipsOK
<1>. QED
  BY <1>1, <1>2, <1>5, <1>7, <1>8, StartsType, PartsMakeIInvNext DEF QueueOK

\* A first pass of either kind keeps the invariant.
LEMMA SampledKeeps ==
  ASSUME IInv, queue # <<>>, NEW r, r = Head(queue).read,
         NEW started \in SUBSET Units, NEW touched \in SUBSET Units, started \subseteq touched,
         NEW ok \in BOOLEAN, Starts(r, started, touched, ok), Sampled(r, started, ok),
         \A u \in started : u[2] = Kind(r),
         Kind(r) = "voltage" /\ ok => \A u \in started : input'[u[1]] = AttributeOf[r]
  PROVE  IInv'
<1>1. CASE ok
  <2>1. \A u \in started : r \in Served(r, u) \ (IF ok THEN {} ELSE {r})
    BY <1>1, ServesItself
  <2>2. /\ queue' = Append(Tail(queue), [read |-> r, pass |-> "ReadResult",
                                         timer |-> SamplingDelay(r), started |-> started])
        /\ UNCHANGED answer
    BY <1>1 DEF Sampled
  <2>3. Kind(r) = "voltage" => \A u \in started : input'[u[1]] = AttributeOf[r]
    BY <1>1
  <2>. QED
    BY <2>1, <2>2, <2>3, GoodSampleKeeps
<1>2. CASE ~ok
  <2>1. Respond(r, "failed")
    BY <1>2 DEF Sampled
  <2>. QED
    BY <2>1, FailedSampleKeeps
<1>. QED
  BY <1>1, <1>2

LEMMA SampleVoltageKeeps ==
  ASSUME IInv, queue # <<>>, NEW r, r = Head(queue).read, r \in Reads, Kind(r) = "voltage",
         SampleVoltage(r), UNCHANGED <<available, register, fresh, scans>>
  PROVE  IInv'
<1>1. PICK selected \in SUBSET UnitsOf(r), started \in SUBSET UnitsOf(r), ok \in BOOLEAN :
        /\ ok => selected = UnitsOf(r) /\ started = UnitsOf(r)
        /\ input' = [c \in Monitors |-> IF <<c, "voltage">> \in selected THEN SelectInput(c, r)
                                        ELSE input[c]]
        /\ Convert(r, started, ok) /\ Touch(r, selected \cup started)
        /\ Sampled(r, started, ok)
  BY DEF SampleVoltage
<1>2. ChipsOK
  BY IInvInParts
<1>3. /\ UnitsOf(r) \subseteq Units
      /\ \A u \in UnitsOf(r) : u[2] = "voltage"
  BY <1>2, TargetFacts
<1>4. AttributeOf[r] \in Inputs
  BY ReadAssumption DEF Kind
<1>5. input' \in [Monitors -> Inputs]
  BY <1>1, <1>2, <1>4 DEF SelectInput, ChipsOK
<1>6. ok => \A u \in started : input'[u[1]] = AttributeOf[r]
  <2>1. SUFFICES ASSUME NEW u \in started, <<u[1], "voltage">> \in selected
                 PROVE  input'[u[1]] = AttributeOf[r]
    <3>1. \A u \in started : u = <<u[1], "voltage">>
      BY <1>3, UnitFacts
    <3>. QED
      BY <1>1, <3>1
  <2>2. u[1] \in Monitors
    BY <1>3, <1>2 DEF Units, UnitsOf
  <2>. QED
    BY <1>1, <2>1, <2>2 DEF SelectInput
<1>7. Starts(r, started, selected \cup started, ok)
  BY <1>1, <1>5 DEF Starts
<1>. QED
  BY <1>1, <1>3, <1>6, <1>7, SampledKeeps

LEMMA SampleTemperatureKeeps ==
  ASSUME IInv, queue # <<>>, NEW r, r = Head(queue).read, r \in Reads, Kind(r) = "temperature",
         SampleTemperature(r), UNCHANGED <<available, register, fresh, scans>>
  PROVE  IInv'
<1>1. PICK started \in SUBSET UnitsOf(r), ok \in BOOLEAN :
        /\ UNCHANGED input
        /\ Convert(r, started, ok) /\ Touch(r, started)
        /\ Sampled(r, started, ok)
  BY DEF SampleTemperature
<1>2. ChipsOK
  BY IInvInParts
<1>3. started \in SUBSET Units /\ \A u \in started : u[2] = Kind(r)
  BY <1>1, <1>2, TargetFacts
<1>4. Starts(r, started, started, ok)
  BY <1>1, <1>2 DEF Starts, ChipsOK
<1>. QED
  BY <1>1, <1>3, <1>4, SampledKeeps

LEMMA BroadcastTemperatureKeeps ==
  ASSUME IInv, queue # <<>>, NEW r, r = Head(queue).read, r \in Reads, Kind(r) = "temperature",
         BroadcastTemperature(r), UNCHANGED <<available, register, fresh, scans>>
  PROVE  IInv'
<1>1. PICK started \in SUBSET (Chips \X {"temperature"}), ok \in BOOLEAN :
        /\ UNCHANGED input
        /\ Convert(r, started, ok) /\ Touch(r, started)
        /\ Sampled(r, started, ok)
  BY DEF BroadcastTemperature
<1>2. ChipsOK
  BY IInvInParts
<1>3. started \in SUBSET Units /\ \A u \in started : u[2] = Kind(r)
  BY <1>1 DEF Units
<1>4. Starts(r, started, started, ok)
  BY <1>1, <1>2 DEF Starts, ChipsOK
<1>. QED
  BY <1>1, <1>3, <1>4, SampledKeeps

LEMMA SampleKeeps == IInv /\ Sample => IInv'
<1>. SUFFICES ASSUME IInv, Sample PROVE IInv'
  OBVIOUS
<1>1. PICK r : r = Head(queue).read
  OBVIOUS
<1>2. queue # <<>> /\ UNCHANGED <<available, register, fresh, scans>>
  BY DEF Sample, Turn
<1>3. r \in Reads
  <2>1. QueueInv(queue)
    BY IInvInParts DEF QueueOK
  <2>. QED
    BY <1>1, <1>2, <2>1, TailFacts DEF QueueInv, Entries
<1>4. \/ Kind(r) = "voltage" /\ SampleVoltage(r)
      \/ Kind(r) = "temperature" /\ SampleTemperature(r)
      \/ Kind(r) = "temperature" /\ BroadcastTemperature(r)
  BY <1>1 DEF Sample
<1>. QED
  BY <1>1, <1>2, <1>3, <1>4, SampleVoltageKeeps, SampleTemperatureKeeps, BroadcastTemperatureKeeps

LEMMA NextIInv == IInv /\ [Next]_vars => IInv'
<1>. SUFFICES ASSUME IInv, [Next]_vars PROVE IInv'
  OBVIOUS
<1>1. CASE UNCHANGED vars
  <2>1. QueueOK /\ ChipsOK /\ QueueKnown
    BY IInvInParts
  <2>2. QueueOK' /\ ChipsOK'
    BY <1>1, <2>1 DEF vars, chip_state, QueueOK, ChipsOK
  <2>3. QueueKnown'
    <3>1. SUFFICES ASSUME NEW e, EntryKnown(e) PROVE EntryKnown(e)'
      BY <1>1, <2>1, NextQueueKnown DEF vars, QueueKnown
    <3>. QED
      BY <1>1, <3>1, StillKnown DEF vars, chip_state
  <2>. QED
    BY <2>2, <2>3, PartsMakeIInvNext
<1>2. CASE Next
  BY <1>2, SendKeeps, PostponeKeeps, SampleKeeps, ReadResultKeeps, NothingToReadKeeps,
     ScanKeeps, TickKeeps DEF Next
<1>. QED
  BY <1>1, <1>2

THEOREM Invariance == Spec => []IInv
BY InitIInv, NextIInv, PTL DEF Spec

-----------------------------------------------------------------------------
\* ---- What the reads rely on ----

\* Queue, conversions and registers are always of their types; no entry waits longer
\* than the sampling time of the family its request is for.
THEOREM TypeCorrect == Spec => []TypeOK
BY Invariance, PTL DEF IInv

\* The read whose second pass has its turn fetches units of the family of its request
\* that it has started itself, and its delay is over.
LEMMA FetchedFacts ==
  ASSUME IInv, NEW r \in Reads, Reading(r), NEW u \in Fetched(r)
  PROVE  OwnKnown(r, 0, u) /\ FreshKnown(r, 0, u) /\ u \in Units
<1>1. QueueInv(queue) /\ ChipsOK /\ QueueKnown
  BY IInvInParts DEF QueueOK
<1>2. queue # <<>> /\ Head(queue).timer = 0 /\ Head(queue).pass = "ReadResult" /\ Head(queue).read = r
  BY DEF Reading, Turn
<1>3. Head(queue) = queue[1] /\ 1 \in 1 .. Len(queue)
  BY <1>1, <1>2, TailFacts DEF QueueInv
<1>4. EntryKnown(queue[1])
  BY <1>1, <1>3 DEF QueueKnown
<1>5. u \in queue[1].started /\ u \in Units /\ FamilyOf[u[1]] = FamilyFor(r)
  BY <1>1, <1>3, TargetFacts DEF Fetched
<1>. QED
  BY <1>2, <1>3, <1>4, <1>5 DEF EntryKnown

\* No conversion under way has nothing left to do.
LEMMA UnderWay ==
  ASSUME ChipsOK, NEW u \in Units, conversion[u] # NoConversion
  PROVE  ~(conversion[u].left <= 0)
BY ConversionFacts DEF ChipsOK

LEMMA OwnSampleHolds == IInv => OwnSampleIsRight
<1>. SUFFICES ASSUME IInv, NEW r \in Reads, Reading(r), NEW u \in Fetched(r), owner[u] = r
              PROVE  register[u] = [input |-> AttributeOf[r], by |-> r]
  BY DEF OwnSampleIsRight
<1>. QED
  BY FetchedFacts, UnderWay, IInvInParts DEF OwnKnown

LEMMA FreshnessHolds == IInv => FreshUnlessInterrupted
<1>. SUFFICES ASSUME IInv, NEW r \in Reads, Reading(r), NEW u \in Fetched(r)
              PROVE  r \in fresh[u] \/ (conversion[u] # NoConversion /\ conversion[u].interrupts)
  BY DEF FreshUnlessInterrupted
<1>. QED
  BY FetchedFacts, UnderWay, IInvInParts DEF FreshKnown

\* DS18B20, DS2438, SampleTemperature and SampleVAD/VDD with the delay they order: a value
\* fetched from a converter nobody else has touched is the quantity asked for, sampled
\* for this very read, whatever the other reads do to the other converters.
THEOREM OwnSampleFetched == Spec => []OwnSampleIsRight
BY Invariance, OwnSampleHolds, PTL

\* The same delay, against reads and broadcasts of either family: no value is older than
\* the read that fetches it, unless a later conversion has interrupted one under way.
THEOREM FreshValues == Spec => []FreshUnlessInterrupted
BY Invariance, FreshnessHolds, PTL

-----------------------------------------------------------------------------
\* ---- The timer of a read ----

\* That a second pass does not come before its delay has passed, which the theorems above
\* take for granted, holds for the deadlines the firmware keeps, but for the wraps.

\* The deadline keeps its distance from the clock, up to the periods a wrap adds.
TimerInv ==
  /\ TimerTypeOK
  /\ delay = 0 => deadline = 0
  /\ delay > 0 => deadline + elapsed = millis + delay + slip

LEMMA TimerInitially == TimerInit => TimerInv
<1>. SUFFICES ASSUME TimerInit PROVE TimerInv
  OBVIOUS
<1>1. millis \in 0 .. Wrap - 1 /\ delay \in 0 .. Wrap - 1
  BY TimerAssumption DEF TimerInit
<1>2. deadline \in 0 .. Wrap - 1
  BY <1>1, TimerAssumption DEF TimerInit, Plus
<1>3. slip \in Int
  BY TimerAssumption DEF TimerInit, Period
<1>4. delay > 0 => deadline + elapsed = millis + delay + slip
  BY <1>1, TimerAssumption DEF TimerInit, Period, Plus
<1>5. elapsed \in Nat /\ (delay = 0 => deadline = 0)
  BY DEF TimerInit
<1>. QED
  BY <1>1, <1>2, <1>3, <1>4, <1>5, Zenon DEF TimerInv, TimerTypeOK

LEMMA TimerSteps == TimerInv /\ [TimerNext]_timer_vars => TimerInv'
<1>. SUFFICES ASSUME TimerInv, [TimerNext]_timer_vars PROVE TimerInv'
  OBVIOUS
<1>1. ASSUME NEW d \in Delays, Reset(d) PROVE TimerInv'
  <2>1. d \in 0 .. Wrap - 1 /\ millis \in 0 .. Wrap - 1
    BY TimerAssumption DEF TimerInv, TimerTypeOK
  <2>2. deadline' \in 0 .. Wrap - 1
    BY <1>1, <2>1, TimerAssumption DEF Reset, Plus
  <2>3. slip' \in Int
    BY <1>1, TimerAssumption DEF Reset, Period
  <2>4. delay' > 0 => deadline' + elapsed' = millis' + delay' + slip'
    BY <1>1, <2>1, TimerAssumption DEF Reset, Period, Plus
  <2>5. millis' = millis /\ delay' = d /\ elapsed' = 0 /\ (d = 0 => deadline' = 0)
    BY <1>1, <2>1 DEF Reset
  <2>6. delay' \in 0 .. Wrap - 1 /\ millis' \in 0 .. Wrap - 1 /\ elapsed' \in Nat
        /\ (delay' = 0 => deadline' = 0)
    BY <2>1, <2>5
  <2>. QED
    BY <2>2, <2>3, <2>4, <2>6, Zenon DEF TimerInv, TimerTypeOK
<1>2. CASE Advance
  <2>1. millis \in 0 .. Wrap - 1 /\ Wrap \in Nat
    BY TimerAssumption DEF TimerInv, TimerTypeOK
  <2>2. millis' \in 0 .. Wrap - 1 /\ millis' + Period(1) = millis + 1 /\ Period(1) \in Int
    BY <1>2, <2>1 DEF Advance, Plus, Period
  <2>3. elapsed' = elapsed + 1 /\ delay' = delay /\ deadline' = deadline /\ slip' = slip + Period(1)
    BY <1>2 DEF Advance
  <2>4. delay' > 0 => deadline' + elapsed' = millis' + delay' + slip'
    BY <2>1, <2>2, <2>3 DEF TimerInv, TimerTypeOK
  <2>5. /\ delay' \in 0 .. Wrap - 1 /\ deadline' \in 0 .. Wrap - 1 /\ elapsed' \in Nat
        /\ slip' \in Int /\ (delay' = 0 => deadline' = 0)
    BY <2>2, <2>3 DEF TimerInv, TimerTypeOK
  <2>. QED
    BY <2>2, <2>4, <2>5, Zenon DEF TimerInv, TimerTypeOK
<1>3. CASE UNCHANGED timer_vars
  BY <1>3, Zenon DEF timer_vars, TimerInv, TimerTypeOK
<1>. QED
  BY <1>1, <1>2, <1>3 DEF TimerNext

\* Counter, deadline and delay keep to the width of millis(): their sum is truncated.
THEOREM TimerTypeCorrect == TimerSpec => []TimerTypeOK
<1>1. TimerInv => TimerTypeOK
  BY DEF TimerInv
<1>. QED
  BY <1>1, TimerInitially, TimerSteps, PTL DEF TimerSpec

\* On a clock of any width and however long it runs, a timer is expired exactly when its
\* delay has passed, up to the periods by which a wrap of deadline or clock puts it off.
THEOREM TimerIsExact == TimerSpec => []ExpiresWithItsDelay
<1>1. TimerInv => ExpiresWithItsDelay
  BY TimerAssumption DEF TimerInv, TimerTypeOK, IsExpired, ExpiresWithItsDelay
<1>. QED
  BY <1>1, TimerInitially, TimerSteps, PTL DEF TimerSpec

=============================================================================

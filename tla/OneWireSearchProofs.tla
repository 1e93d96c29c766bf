--------------------------- MODULE OneWireSearchProofs ---------------------------
(***************************************************************************)
(* Theorems about OneWireSearch, for addresses of any width and any devices *)
(* on the bus: what a search lists has been there, the devices come in     *)
(* order and without a gap, and a search nothing disturbs is complete.     *)
(*                                                                         *)
(* The argument follows the search bit by bit, so that it needs no         *)
(* induction over addresses: each part of the invariant speaks of the bits *)
(* a pass has decided so far.                                              *)
(***************************************************************************)
EXTENDS OneWireSearch, FiniteSetTheorems, SequenceTheorems, TLAPS

Addresses == [1 .. Width -> Bits]

\* The first n bits of two addresses: they are the same, or decide the order.
Agrees(a, b, n)   == \A j \in 1 .. n : a[j] = b[j]
Precedes(a, b, n) == \E i \in 1 .. n : a[i] < b[i] /\ Agrees(a, b, i - 1)

-----------------------------------------------------------------------------
\* ---- The invariant ----

\* A search for one device has one pass; so has any search begin with one.
FirstPass == ~Listing \/ devices = <<>>

\* The participants of a pass are there and agree with what it has decided; the bits
\* to come are still those of the address before.
PassInv ==
  /\ pc = "triplet" <=> pass # NoPass
  /\ pc # "idle" => search \in Searches
  /\ pc = "triplet" =>
       /\ pass.participants \subseteq present
       /\ \A d \in pass.participants : Agrees(pass.address, d, pass.bit - 1)
       /\ \A j \in pass.bit .. Width : pass.address[j] = address[j]

SeenInv ==
  /\ search # NoSearch => present \subseteq seen
  /\ is_present => search.kind = "device"

\* Where a search begins.
OriginInv ==
  pc # "idle" /\ FirstPass =>
    /\ ~last_device_flag
    /\ search.kind = "all"    => last_discrepancy = 0
    /\ search.kind = "family" => last_discrepancy = Width /\ address = Padded(search.code)
    /\ search.kind = "device" => last_discrepancy = Width /\ address = search.address

\* Of the first n bits of a, z is the last one where a has a zero and a device that
\* agrees with it so far has a one: 0 if there is none.
LastTurn(a, n, z) ==
  /\ \A d \in present, i \in 1 .. n : Agrees(a, d, i - 1) /\ a[i] = 0 /\ d[i] = 1 => i <= z
  /\ z # 0 => /\ z \in 1 .. n /\ a[z] = 0
              /\ \E d \in present : Agrees(a, d, z - 1) /\ d[z] = 1

\* What an undisturbed pass knows when it has decided the first n bits of a.
\* Behind the device found before ...
OnTheWay(a, n) ==
  /\ \A j \in 1 .. n : j < last_discrepancy => a[j] = address[j]
  /\ n >= last_discrepancy => a[last_discrepancy] = 1

\* ... but not behind one that is still to be listed, ...
NothingPassed(a, n) ==
  \A d \in Wanted : d \in Range(devices) \/ Agrees(a, d, n) \/ Precedes(a, d, n)

\* ... and on the first pass straight to the family or the device, if it is there.
InFamily(a, n) == Wanted # {} => \A j \in 1 .. FamilyBits : j <= n => a[j] = search.code[j]
ToDevice(a, n) == search.address \in present => Agrees(a, search.address, n)

PassKnows(a, n, z) ==
  /\ LastTurn(a, n, z)
  /\ ~FirstPass => OnTheWay(a, n)
  /\ Listing => NothingPassed(a, n)
  /\ search.kind = "family" /\ FirstPass => InFamily(a, n)
  /\ search.kind = "device" => ToDevice(a, n)

\* All devices that agree with an undisturbed pass take part in it.
PassIsFair ==
  pc = "triplet" /\ ~disturbed =>
    /\ \A d \in present : Agrees(pass.address, d, pass.bit - 1) => d \in pass.participants
    /\ pass.bit > 1 => pass.participants # {}
    /\ PassKnows(pass.address, pass.bit - 1, pass.last_zero)

\* Between the passes, the address is that of the device listed last.
FrontierInv ==
  pc # "idle" /\ ~disturbed /\ ~FirstPass =>
    /\ address = devices[Len(devices)]
    /\ LastTurn(address, Width, last_discrepancy)
    /\ last_device_flag <=> last_discrepancy = 0
    /\ pc = "triplet" => last_discrepancy # 0

\* An undisturbed search lists what it is looking for and nothing else.
OnlyWanted == Listing /\ ~disturbed => Range(devices) \subseteq Wanted

SoundInv == TypeOK /\ PassInv /\ SeenInv /\ NoPhantoms
IInv == SoundInv /\ OriginInv /\ PassIsFair /\ FrontierInv /\ OnlyWanted
        /\ NoneSkipped /\ UndisturbedSearchIsComplete

-----------------------------------------------------------------------------
\* ---- Addresses ----

LEMMA SizesAreNatural == Width \in Nat \ {0} /\ FamilyBits \in Nat \ {0} /\ FamilyBits < Width
BY WidthAssumption

LEMMA SameAddress ==
  ASSUME NEW a \in Addresses, NEW b \in Addresses, Agrees(a, b, Width)
  PROVE  a = b
<1>1. a = [j \in 1 .. Width |-> a[j]] /\ b = [j \in 1 .. Width |-> b[j]]
  BY DEF Addresses
<1>2. \A j \in 1 .. Width : a[j] = b[j]
  BY DEF Agrees
<1>3. [j \in 1 .. Width |-> a[j]] = [j \in 1 .. Width |-> b[j]]
  BY <1>2
<1>. QED
  BY <1>1, <1>3

\* One more bit is decided.
LEMMA WithBitFacts ==
  ASSUME NEW a \in Addresses, NEW k \in 1 .. Width, NEW b \in Bits
  PROVE  LET f == WithBit(a, k, b)
         IN  /\ f \in Addresses /\ f[k] = b
             /\ \A j \in 1 .. Width : j # k => f[j] = a[j]
             /\ \A x : \A i \in 1 .. k : Agrees(f, x, i - 1) <=> Agrees(a, x, i - 1)
             /\ \A x : Agrees(f, x, k) <=> Agrees(a, x, k - 1) /\ x[k] = b
             /\ \A x : Precedes(f, x, k) <=> Precedes(a, x, k - 1) \/ (Agrees(a, x, k - 1) /\ b < x[k])
<1>. DEFINE f == WithBit(a, k, b)
<1>1. f \in Addresses /\ f[k] = b /\ \A j \in 1 .. Width : j # k => f[j] = a[j]
  BY DEF WithBit, Addresses
<1>. HIDE DEF f
<1>2. k \in Nat /\ k >= 1 /\ k <= Width /\ Width \in Nat
  BY SizesAreNatural
<1>3. \A j \in 1 .. k - 1 : j \in 1 .. Width /\ j # k
  BY <1>2
<1>4. ASSUME NEW x, NEW i \in 1 .. k PROVE Agrees(f, x, i - 1) <=> Agrees(a, x, i - 1)
  <2>1. \A j \in 1 .. i - 1 : f[j] = a[j]
    BY <1>1, <1>2, <1>3
  <2>. QED
    BY <2>1 DEF Agrees
<1>5. ASSUME NEW x PROVE Agrees(f, x, k) <=> Agrees(a, x, k - 1) /\ x[k] = b
  <2>1. 1 .. k = (1 .. k - 1) \cup {k} /\ k \in 1 .. k
    BY <1>2
  <2>2. Agrees(f, x, k) <=> Agrees(f, x, k - 1) /\ f[k] = x[k]
    BY <2>1 DEF Agrees
  <2>. QED
    BY <1>1, <1>4, <2>1, <2>2
<1>6. ASSUME NEW x
      PROVE  Precedes(f, x, k) <=> Precedes(a, x, k - 1) \/ (Agrees(a, x, k - 1) /\ b < x[k])
  <2>1. 1 .. k = (1 .. k - 1) \cup {k} /\ k \in 1 .. k
    BY <1>2
  <2>2. Precedes(f, x, k) <=> Precedes(f, x, k - 1) \/ (f[k] < x[k] /\ Agrees(f, x, k - 1))
    BY <2>1 DEF Precedes
  <2>3. Precedes(f, x, k - 1) <=> Precedes(a, x, k - 1)
    <3>1. \A i \in 1 .. k - 1 : f[i] = a[i] /\ i \in 1 .. k
      BY <1>1, <1>2, <1>3
    <3>2. \A i \in 1 .. k - 1 : (f[i] < x[i] /\ Agrees(f, x, i - 1)) <=> (a[i] < x[i] /\ Agrees(a, x, i - 1))
      BY <1>4, <3>1
    <3>. QED
      BY <3>2 DEF Precedes
  <2>. QED
    BY <1>1, <1>4, <2>1, <2>2, <2>3
<1>. QED
  BY <1>1, <1>4, <1>5, <1>6 DEF f

LEMMA BeforeIsPrecedes == \A a, b : Before(a, b) <=> Precedes(a, b, Width)
BY DEF Before, Precedes, Agrees

LEMMA BeforeIsStrict ==
  ASSUME NEW a \in Addresses, NEW b \in Addresses, Before(a, b)
  PROVE  ~Before(b, a) /\ a # b
<1>1. PICK i \in 1 .. Width : a[i] < b[i] /\ \A j \in 1 .. i - 1 : a[j] = b[j]
  BY DEF Before
<1>2. a[i] \in Nat /\ b[i] \in Nat /\ i \in Nat /\ Width \in Nat
  BY SizesAreNatural DEF Addresses, Bits
<1>3. ASSUME NEW k \in 1 .. Width, b[k] < a[k], \A j \in 1 .. k - 1 : b[j] = a[j] PROVE FALSE
  <2>1. a[k] \in Nat /\ b[k] \in Nat /\ k \in Nat
    BY <1>2 DEF Addresses, Bits
  <2>2. k = i \/ k \in 1 .. i - 1 \/ i \in 1 .. k - 1
    BY <1>2, <2>1
  <2>. QED
    BY <1>1, <1>2, <1>3, <2>1, <2>2
<1>. QED
  BY <1>1, <1>2, <1>3 DEF Before

\* The devices of a family stand together in the order.
LEMMA FamiliesStandTogether ==
  ASSUME NEW a \in Addresses, NEW b \in Addresses, NEW c \in Addresses,
         Before(a, b), Before(b, c), Family(a) = Family(c)
  PROVE  Family(b) = Family(c)
<1>. SUFFICES ASSUME Family(b) # Family(c) PROVE FALSE
  OBVIOUS
<1>1. PICK i \in 1 .. Width : a[i] < b[i] /\ \A j \in 1 .. i - 1 : a[j] = b[j]
  BY DEF Before
<1>2. PICK k \in 1 .. Width : b[k] < c[k] /\ \A j \in 1 .. k - 1 : b[j] = c[j]
  BY DEF Before
<1>3. \A j \in 1 .. FamilyBits : a[j] = c[j]
  <2>1. \A j \in 1 .. FamilyBits : Family(a)[j] = a[j] /\ Family(c)[j] = c[j]
    BY DEF Family
  <2>. QED
    BY <2>1
<1>4. PICK j \in 1 .. FamilyBits : b[j] # c[j]
  BY DEF Family
<1>5. /\ i \in Nat /\ k \in Nat /\ j \in Nat /\ 1 <= i /\ 1 <= k
      /\ a[i] \in Bits /\ b[i] \in Bits /\ c[i] \in Bits
      /\ a[k] \in Bits /\ b[k] \in Bits /\ c[k] \in Bits
  BY SizesAreNatural DEF Addresses
<1>6. k <= j /\ i <= j
  BY <1>1, <1>2, <1>3, <1>4, <1>5
<1>7. k \in 1 .. FamilyBits /\ i \in 1 .. FamilyBits
  BY <1>5, <1>6, SizesAreNatural
<1>8. a[i] = c[i] /\ a[k] = c[k]
  BY <1>3, <1>7
<1>9. i = k \/ i \in 1 .. k - 1 \/ k \in 1 .. i - 1
  BY <1>5
<1>. QED
  BY <1>1, <1>2, <1>5, <1>8, <1>9 DEF Bits

-----------------------------------------------------------------------------
\* ---- One bit of a pass ----

\* The way a triplet takes, and the address it leads to.
Way   == IF Answers = Bits THEN Branch ELSE CHOOSE b \in Answers : TRUE
Found == WithBit(pass.address, pass.bit, Way)

LEMMA PassTyped ==
  ASSUME SoundInv, pc = "triplet"
  PROVE  /\ pass \in Passes /\ pass.bit \in 1 .. Width /\ pass.last_zero \in 0 .. Width
         /\ pass.address \in Addresses /\ pass.participants \subseteq Chips
         /\ search \in Searches /\ search # NoSearch /\ present \subseteq Addresses
<1>1. pass \in Passes
  BY DEF SoundInv, TypeOK, PassInv
<1>2. search \in Searches /\ search # NoSearch
  BY DEF SoundInv, PassInv, Searches, NoSearch
<1>3. present \subseteq Addresses
  BY CrcAssumption DEF SoundInv, TypeOK, Addresses
<1>. QED
  BY <1>1, <1>2, <1>3 DEF Passes, Addresses

LEMMA WayFacts ==
  ASSUME SoundInv, pc = "triplet", Answers # {}
  PROVE  /\ Answers \subseteq Bits /\ Way \in Answers /\ Way \in Bits
         /\ Answers # Bits => Answers = {Way}
         /\ Answers = Bits => Way = Branch
<1>1. Answers \subseteq Bits
  <2>1. \A d \in pass.participants : d[pass.bit] \in Bits
    BY PassTyped, CrcAssumption
  <2>. QED
    BY <2>1 DEF Answers
<1>2. Branch \in Bits
  BY PassTyped DEF Branch, Addresses, Bits
<1>3. Answers # Bits => (CHOOSE b \in Answers : TRUE) \in Answers
  OBVIOUS
<1>4. Way \in Answers /\ (Answers = Bits => Way = Branch)
  BY <1>2, <1>3 DEF Way
<1>. QED
  BY <1>1, <1>4 DEF Bits

\* Where the CRC ends, all participants are one device.
LEMMA NoTurnAtTheEnd ==
  ASSUME SoundInv, pc = "triplet", pass.bit = Width
  PROVE  Answers # Bits
<1>. SUFFICES ASSUME Answers = Bits PROVE FALSE
  OBVIOUS
<1>1. PICK c \in pass.participants, d \in pass.participants : c[pass.bit] = 0 /\ d[pass.bit] = 1
  BY DEF Answers, Bits
<1>2. c \in Chips /\ d \in Chips
  BY PassTyped
<1>3. \A j \in 1 .. Width - 1 : pass.address[j] = c[j] /\ pass.address[j] = d[j]
  BY DEF SoundInv, PassInv, Agrees
<1>4. c = d
  BY <1>2, <1>3, CrcAssumption
<1>. QED
  BY <1>1, <1>4

\* What one bit does to the address.
LEMMA FoundFacts ==
  ASSUME SoundInv, pc = "triplet", Answers # {}
  PROVE  /\ Found \in Addresses /\ Found[pass.bit] = Way
         /\ \A j \in 1 .. Width : j # pass.bit => Found[j] = pass.address[j]
         /\ \A x : \A i \in 1 .. pass.bit : Agrees(Found, x, i - 1) <=> Agrees(pass.address, x, i - 1)
         /\ \A x : Agrees(Found, x, pass.bit)
                     <=> Agrees(pass.address, x, pass.bit - 1) /\ x[pass.bit] = Way
         /\ \A x : Precedes(Found, x, pass.bit)
                     <=> \/ Precedes(pass.address, x, pass.bit - 1)
                         \/ Agrees(pass.address, x, pass.bit - 1) /\ Way < x[pass.bit]
BY PassTyped, WayFacts, WithBitFacts DEF Found

\* A device that agrees with an undisturbed pass answers, and the way is its own or
\* that of another such device.
LEMMA FairAnswers ==
  ASSUME SoundInv, PassIsFair, pc = "triplet", ~disturbed, Answers # {},
         NEW d \in present, Agrees(pass.address, d, pass.bit - 1)
  PROVE  /\ d[pass.bit] \in Answers /\ d[pass.bit] \in Bits
         /\ d[pass.bit] # Way => Answers = Bits /\ Way = Branch
<1>1. d \in pass.participants
  BY DEF PassIsFair
<1>2. d[pass.bit] \in Answers
  BY <1>1 DEF Answers
<1>. QED
  BY <1>2, WayFacts

LEMMA TurnIsRemembered ==
  ASSUME SoundInv, PassIsFair, pc = "triplet", ~disturbed, Answers # {}
  PROVE  LastTurn(Found, pass.bit, LastZero(Way))
<1>. DEFINE k == pass.bit
            z == LastZero(Way)
<1>1. LastTurn(pass.address, k - 1, pass.last_zero)
  BY DEF PassIsFair, PassKnows
<1>2. k \in 1 .. Width /\ k \in Nat /\ pass.last_zero \in 0 .. Width /\ Width \in Nat
  BY PassTyped, SizesAreNatural
<1>3. z = k \/ z = pass.last_zero
  BY DEF LastZero
<1>4. pass.last_zero <= k - 1
  BY <1>1, <1>2 DEF LastTurn
<1>5. ASSUME NEW d \in present, NEW i \in 1 .. k, Agrees(Found, d, i - 1), Found[i] = 0, d[i] = 1
      PROVE  i <= z
  <2>1. Agrees(pass.address, d, i - 1)
    BY <1>5, FoundFacts
  <2>2. CASE i = k
    <3>1. d[k] = 1 /\ Way = 0
      BY <1>5, <2>2, FoundFacts
    <3>2. Answers = Bits
      BY <2>1, <2>2, <3>1, FairAnswers
    <3>. QED
      BY <1>2, <2>2, <3>1, <3>2 DEF LastZero
  <2>3. CASE i # k
    <3>1. i \in 1 .. k - 1 /\ i \in 1 .. Width /\ pass.address[i] = 0
      BY <1>2, <1>5, <2>3, FoundFacts
    <3>2. i <= pass.last_zero
      BY <1>1, <1>5, <2>1, <3>1 DEF LastTurn
    <3>. QED
      BY <1>2, <1>3, <1>4, <3>2
  <2>. QED
    BY <2>2, <2>3
<1>6. ASSUME z # 0
      PROVE  /\ z \in 1 .. k /\ Found[z] = 0
             /\ \E d \in present : Agrees(Found, d, z - 1) /\ d[z] = 1
  <2>1. CASE Answers = Bits /\ Way = 0
    <3>1. z = k
      BY <2>1 DEF LastZero
    <3>2. PICK d \in pass.participants : d[k] = 1
      BY <2>1 DEF Answers, Bits
    <3>3. d \in present /\ Agrees(pass.address, d, k - 1)
      BY <3>2 DEF SoundInv, PassInv
    <3>4. k \in 1 .. k
      BY <1>2
    <3>. QED
      BY <2>1, <3>1, <3>2, <3>3, <3>4, FoundFacts
  <2>2. CASE ~(Answers = Bits /\ Way = 0)
    <3>1. z = pass.last_zero
      BY <2>2 DEF LastZero
    <3>2. /\ z \in 1 .. k - 1 /\ pass.address[z] = 0
          /\ \E d \in present : Agrees(pass.address, d, z - 1) /\ d[z] = 1
      BY <1>1, <1>6, <3>1 DEF LastTurn
    <3>3. z \in 1 .. k /\ z \in 1 .. Width /\ z # k
      BY <1>2, <3>2
    <3>. QED
      BY <3>2, <3>3, FoundFacts
  <2>. QED
    BY <2>1, <2>2
<1>. QED
  BY <1>5, <1>6 DEF LastTurn

\* The device listed last is still there, and its turn is known.
LEMMA LastListed ==
  ASSUME IInv, pc # "idle", ~disturbed, ~FirstPass
  PROVE  /\ address \in present /\ address \in Addresses /\ address = devices[Len(devices)]
         /\ Listing /\ devices # <<>> /\ Len(devices) \in DOMAIN devices
         /\ LastTurn(address, Width, last_discrepancy) /\ last_discrepancy \in 0 .. Width
         /\ pc = "triplet" => last_discrepancy # 0
<1>1. Listing /\ devices # <<>> /\ devices \in Seq(Chips)
  BY DEF FirstPass, IInv, SoundInv, TypeOK
<1>2. Len(devices) \in DOMAIN devices
  BY <1>1
<1>3. address = devices[Len(devices)] /\ LastTurn(address, Width, last_discrepancy)
      /\ (pc = "triplet" => last_discrepancy # 0)
  BY DEF IInv, FrontierInv
<1>4. address \in Range(devices)
  BY <1>2, <1>3 DEF Range
<1>5. Wanted \subseteq present
  BY <1>1 DEF Wanted, Listing
<1>. QED
  BY <1>1, <1>2, <1>3, <1>4, <1>5 DEF IInv, OnlyWanted, SoundInv, TypeOK, Addresses

LEMMA StaysOnTheWay ==
  ASSUME IInv, pc = "triplet", ~disturbed, Answers # {}, ~FirstPass
  PROVE  OnTheWay(Found, pass.bit)
<1>. DEFINE k == pass.bit
            ld == last_discrepancy
<1>1. SoundInv /\ PassIsFair
  BY DEF IInv
<1>2. /\ address \in present /\ address \in Addresses /\ LastTurn(address, Width, ld)
      /\ ld \in 1 .. Width /\ ld \in Nat
  BY LastListed, SizesAreNatural
<1>3. OnTheWay(pass.address, k - 1) /\ pass.address[k] = address[k]
  BY <1>1, PassTyped DEF PassIsFair, PassKnows, SoundInv, PassInv
<1>4. k \in 1 .. Width /\ k \in Nat /\ Width \in Nat
  BY <1>1, PassTyped, SizesAreNatural
<1>5. k <= ld => Agrees(pass.address, address, k - 1)
  BY <1>2, <1>3, <1>4 DEF OnTheWay, Agrees
<1>6. \A j \in 1 .. k - 1 : j \in 1 .. Width /\ j # k /\ Found[j] = pass.address[j]
  BY <1>1, <1>4, FoundFacts
<1>7. Found[k] = Way
  BY <1>1, FoundFacts
<1>8. CASE k < ld
  <2>1. Way = address[k]
    <3>3. Agrees(pass.address, address, k - 1)
      BY <1>2, <1>4, <1>5, <1>8
    <3>1. address[k] # Way => Answers = Bits /\ Way = Branch
      BY <1>1, <1>2, <3>3, FairAnswers
    <3>2. Branch = address[k]
      BY <1>3, <1>8 DEF Branch
    <3>. QED
      BY <3>1, <3>2
  <2>2. ASSUME NEW j \in 1 .. k PROVE Found[j] = address[j]
    <3>1. CASE j = k
      BY <1>7, <2>1, <3>1
    <3>2. CASE j # k
      <4>1. j \in 1 .. k - 1 /\ j < ld
        BY <1>2, <1>4, <1>8, <3>2
      <4>. QED
        BY <1>3, <1>6, <4>1 DEF OnTheWay
    <3>. QED
      BY <3>1, <3>2
  <2>. QED
    BY <1>2, <1>4, <1>8, <2>2 DEF OnTheWay
<1>9. CASE k = ld
  <2>1. Agrees(pass.address, address, k - 1) /\ address[k] = 0
    BY <1>2, <1>5, <1>9 DEF LastTurn
  <2>2. PICK d \in present : Agrees(address, d, k - 1) /\ d[k] = 1
    BY <1>2, <1>9 DEF LastTurn
  <2>3. Agrees(pass.address, d, k - 1)
    BY <2>1, <2>2 DEF Agrees
  <2>4. 0 \in Answers /\ 1 \in Answers
    BY <1>1, <1>2, <2>1, <2>2, <2>3, FairAnswers
  <2>5. Way = 1
    BY <1>1, <1>4, <1>9, <2>4, WayFacts DEF Branch, Bits
  <2>6. \A j \in 1 .. k : j < ld => Found[j] = address[j]
    BY <1>3, <1>4, <1>6, <1>9 DEF OnTheWay
  <2>. QED
    BY <1>7, <1>9, <2>5, <2>6 DEF OnTheWay
<1>10. CASE k > ld
  <2>1. Found[ld] = 1
    BY <1>2, <1>3, <1>4, <1>6, <1>10 DEF OnTheWay
  <2>2. \A j \in 1 .. k : j < ld => Found[j] = address[j]
    BY <1>2, <1>3, <1>4, <1>6, <1>10 DEF OnTheWay
  <2>. QED
    BY <2>1, <2>2 DEF OnTheWay
<1>. QED
  BY <1>2, <1>4, <1>8, <1>9, <1>10

LEMMA WantedFacts ==
  ASSUME Listing
  PROVE  /\ Wanted \subseteq present
         /\ search.kind = "family" => \A d \in present : d \in Wanted <=> Family(d) = search.code
         /\ search.kind = "all" => Wanted = present
BY DEF Wanted, Listing

\* What is still to be listed comes after the device listed last, and differs from it
\* no later than at the last turn.
LEMMA StillToCome ==
  ASSUME IInv, pc # "idle", ~disturbed, ~FirstPass, NEW d \in Wanted, d \notin Range(devices)
  PROVE  \E i \in 1 .. last_discrepancy : /\ i \in 1 .. Width /\ address[i] = 0 /\ d[i] = 1
                                          /\ Agrees(address, d, i - 1)
<1>1. /\ address \in Range(devices) /\ address \in Addresses /\ Listing
      /\ LastTurn(address, Width, last_discrepancy) /\ last_discrepancy \in 0 .. Width
  BY LastListed DEF Range
<1>2. Before(address, d)
  BY <1>1 DEF IInv, NoneSkipped
<1>3. PICK i \in 1 .. Width : address[i] < d[i] /\ Agrees(address, d, i - 1)
  BY <1>2 DEF Before, Agrees
<1>4. d \in present /\ d \in Addresses
  BY <1>1, WantedFacts, CrcAssumption DEF IInv, SoundInv, TypeOK, Addresses
<1>5. address[i] = 0 /\ d[i] = 1
  BY <1>1, <1>3, <1>4 DEF Addresses, Bits
<1>6. i <= last_discrepancy
  BY <1>1, <1>3, <1>4, <1>5 DEF LastTurn
<1>. QED
  BY <1>1, <1>3, <1>5, <1>6, SizesAreNatural

\* Where a device still to be listed goes the other way, the pass goes towards zero.
LEMMA TurnsBeforeOthers ==
  ASSUME IInv, pc = "triplet", ~disturbed, Answers # {}, Listing,
         NEW d \in Wanted, d \notin Range(devices), Agrees(pass.address, d, pass.bit - 1),
         d[pass.bit] # Way
  PROVE  Way < d[pass.bit]
<1>. DEFINE k == pass.bit
            ld == last_discrepancy
<1>1. SoundInv /\ PassIsFair /\ PassInv /\ OriginInv
  BY DEF IInv, SoundInv
<1>2. d \in present /\ k \in 1 .. Width /\ k \in Nat /\ Width \in Nat /\ ld \in 0 .. Width
  BY <1>1, WantedFacts, PassTyped, SizesAreNatural DEF SoundInv, TypeOK
<1>3. d[k] \in Bits /\ Way \in Bits /\ Answers = Bits /\ Way = Branch
  BY <1>1, <1>2, FairAnswers, WayFacts
<1>. SUFFICES ASSUME Branch = 1, d[k] = 0 PROVE FALSE
  BY <1>3 DEF Bits
<1>4. pass.address[k] = address[k]
  BY <1>1, <1>2 DEF PassInv
<1>5. k = ld \/ (k < ld /\ address[k] = 1)
  BY <1>2, <1>4 DEF Branch
<1>6. CASE FirstPass /\ search.kind = "all"
  BY <1>1, <1>2, <1>5, <1>6 DEF OriginInv
<1>7. CASE FirstPass /\ search.kind = "family"
  <2>1. ld = Width /\ address = Padded(search.code)
    BY <1>1, <1>7 DEF OriginInv
  <2>2. k # Width
    BY <1>1, <1>3, NoTurnAtTheEnd
  <2>3. k \in 1 .. FamilyBits /\ search.code[k] = 1
    BY <1>2, <1>5, <2>1, <2>2, SizesAreNatural DEF Padded
  <2>4. Family(d) = search.code
    BY <1>2, <1>7, WantedFacts
  <2>5. Family(d)[k] = d[k]
    BY <2>3 DEF Family
  <2>. QED
    BY <2>3, <2>4, <2>5
<1>8. CASE ~FirstPass
  <2>1. PICK i \in 1 .. ld : /\ i \in 1 .. Width /\ address[i] = 0 /\ d[i] = 1
                             /\ Agrees(address, d, i - 1)
    BY <1>8, StillToCome
  <2>2. \A j \in 1 .. k - 1 : address[j] = d[j]
    <3>1. OnTheWay(pass.address, k - 1)
      BY <1>1, <1>8 DEF PassIsFair, PassKnows
    <3>. QED
      BY <1>2, <1>5, <3>1 DEF OnTheWay, Agrees
  <2>3. i \in Nat /\ i >= 1
    BY <2>1
  <2>4. i >= k
    <3>1. i < k => i \in 1 .. k - 1
      BY <1>2, <2>3
    <3>. QED
      BY <1>2, <2>1, <2>2, <2>3, <3>1
  <2>5. i # k
    BY <2>1
  <2>6. k \in 1 .. i - 1 /\ k < ld
    BY <1>2, <2>1, <2>3, <2>4, <2>5
  <2>7. address[k] = d[k]
    BY <2>1, <2>6 DEF Agrees
  <2>. QED
    BY <1>5, <2>6, <2>7
<1>. QED
  BY <1>6, <1>7, <1>8 DEF Listing

LEMMA StillNothingPassed ==
  ASSUME IInv, pc = "triplet", ~disturbed, Answers # {}, Listing
  PROVE  NothingPassed(Found, pass.bit)
<1>. SUFFICES ASSUME NEW d \in Wanted, d \notin Range(devices)
              PROVE  Agrees(Found, d, pass.bit) \/ Precedes(Found, d, pass.bit)
  BY DEF NothingPassed
<1>1. SoundInv
  BY DEF IInv
<1>2. Agrees(pass.address, d, pass.bit - 1) \/ Precedes(pass.address, d, pass.bit - 1)
  BY DEF IInv, PassIsFair, PassKnows, NothingPassed
<1>. QED
  BY <1>1, <1>2, FoundFacts, TurnsBeforeOthers

LEMMA StaysInFamily ==
  ASSUME IInv, pc = "triplet", ~disturbed, Answers # {}, search.kind = "family", FirstPass
  PROVE  InFamily(Found, pass.bit)
<1>. DEFINE k == pass.bit
<1>. SUFFICES ASSUME NEW d \in Wanted, NEW j \in 1 .. FamilyBits, j <= k
              PROVE  Found[j] = search.code[j]
  BY DEF InFamily
<1>1. SoundInv /\ PassIsFair /\ PassInv /\ OriginInv /\ Listing
  BY DEF IInv, SoundInv, Listing
<1>2. d \in present /\ Family(d) = search.code
  BY <1>1, WantedFacts
<1>3. k \in 1 .. Width /\ k \in Nat /\ j \in Nat /\ j \in 1 .. Width /\ j < Width
  BY <1>1, PassTyped, SizesAreNatural
<1>4. \A i \in 1 .. FamilyBits : i <= k - 1 => pass.address[i] = search.code[i]
  BY <1>1 DEF PassIsFair, PassKnows, InFamily
<1>5. CASE j < k
  BY <1>1, <1>3, <1>4, <1>5, FoundFacts
<1>6. CASE j = k
  <2>1. \A i \in 1 .. FamilyBits : d[i] = search.code[i]
    BY <1>2 DEF Family
  <2>2. Agrees(pass.address, d, k - 1)
    <3>1. \A i \in 1 .. k - 1 : i \in 1 .. FamilyBits /\ i <= k - 1
      BY <1>3, <1>6, SizesAreNatural
    <3>2. \A i \in 1 .. k - 1 : pass.address[i] = d[i]
      BY <1>4, <2>1, <3>1
    <3>. QED
      BY <3>2 DEF Agrees
  <2>3. last_discrepancy = Width /\ address = Padded(search.code)
    BY <1>1 DEF OriginInv
  <2>4. Branch = search.code[k]
    BY <1>1, <1>3, <1>6, <2>3 DEF Branch, PassInv, Padded
  <2>5. Way = search.code[k]
    BY <1>1, <1>2, <1>6, <2>1, <2>2, <2>4, FairAnswers
  <2>. QED
    BY <1>1, <1>6, <2>5, FoundFacts
<1>. QED
  BY <1>3, <1>5, <1>6

LEMMA StaysWithDevice ==
  ASSUME IInv, pc = "triplet", ~disturbed, Answers # {}, search.kind = "device"
  PROVE  ToDevice(Found, pass.bit)
<1>. DEFINE k == pass.bit
            d == search.address
<1>. SUFFICES ASSUME d \in present PROVE Agrees(Found, d, k)
  BY DEF ToDevice
<1>1. SoundInv /\ PassIsFair /\ PassInv /\ OriginInv /\ FirstPass
  BY DEF IInv, SoundInv, Listing, FirstPass
<1>2. Agrees(pass.address, d, k - 1)
  BY <1>1 DEF PassIsFair, PassKnows, ToDevice
<1>3. k \in 1 .. Width /\ k \in Nat /\ Width \in Nat
  BY <1>1, PassTyped, SizesAreNatural
<1>4. last_discrepancy = Width /\ address = d
  BY <1>1 DEF OriginInv
<1>5. k < Width => Branch = d[k]
  BY <1>1, <1>3, <1>4 DEF Branch, PassInv
<1>6. Way = d[k]
  <2>1. d[k] # Way => Answers = Bits /\ Way = Branch
    BY <1>1, <1>2, FairAnswers
  <2>2. k = Width => Answers # Bits
    BY <1>1, NoTurnAtTheEnd
  <2>. QED
    BY <1>3, <1>5, <2>1, <2>2
<1>. QED
  BY <1>1, <1>2, <1>6, FoundFacts

\* The pass knows one bit more.
LEMMA PassGoesOn ==
  ASSUME IInv, pc = "triplet", ~disturbed, Answers # {}
  PROVE  PassKnows(Found, pass.bit, LastZero(Way))
BY TurnIsRemembered, StaysOnTheWay, StillNothingPassed, StaysInFamily, StaysWithDevice
   DEF PassKnows, IInv

\* The last bit decides for a device that has taken part to the end.
LEMMA FoundTookPart ==
  ASSUME SoundInv, pc = "triplet", Answers # {}, pass.bit = Width
  PROVE  Found \in pass.participants /\ Found \in present
<1>1. PICK d \in pass.participants : d[pass.bit] = Way
  BY WayFacts DEF Answers
<1>2. Agrees(pass.address, d, pass.bit - 1) /\ d \in Addresses
  BY PassTyped, CrcAssumption DEF SoundInv, PassInv, Addresses
<1>3. Agrees(Found, d, Width)
  BY <1>1, <1>2, FoundFacts
<1>4. Found = d
  BY <1>2, <1>3, FoundFacts, SameAddress
<1>. QED
  BY <1>1, <1>4 DEF SoundInv, PassInv

-----------------------------------------------------------------------------
\* ---- What is listed has been there ----

LEMMA RangeOfAppend ==
  ASSUME NEW S, NEW s \in Seq(S), NEW a \in S
  PROVE  Range(Append(s, a)) = Range(s) \cup {a}
<1>1. /\ Append(s, a) \in Seq(S) /\ Len(Append(s, a)) = Len(s) + 1
      /\ \A i \in 1 .. Len(s) : Append(s, a)[i] = s[i]
      /\ Append(s, a)[Len(s) + 1] = a
  BY AppendProperties
<1>2. DOMAIN s = 1 .. Len(s) /\ DOMAIN Append(s, a) = 1 .. Len(s) + 1 /\ Len(s) \in Nat
  BY <1>1
<1>3. DOMAIN Append(s, a) = DOMAIN s \cup {Len(s) + 1}
  BY <1>2
<1>4. \A x : x \in Range(Append(s, a)) <=> \E i \in DOMAIN s \cup {Len(s) + 1} : x = Append(s, a)[i]
  BY <1>3 DEF Range
<1>5. \A x : x \in Range(s) <=> \E i \in DOMAIN s : x = s[i]
  BY DEF Range
<1>. QED
  BY <1>1, <1>2, <1>4, <1>5

LEMMA ReturnedSound ==
  ASSUME SoundInv, pc # "idle", NEW a \in present \cup {Zero}, Returned(a),
         UNCHANGED <<present, search, seen>>,
         address' \in Addresses, last_discrepancy' \in 0 .. Width, last_device_flag' \in BOOLEAN,
         changes' \in 0 .. MaxChanges, disturbed' \in BOOLEAN, failed' \in BOOLEAN
  PROVE  SoundInv'
<1>1. search \in Searches /\ search # NoSearch /\ present \subseteq seen /\ present \subseteq Chips
  BY DEF SoundInv, PassInv, SeenInv, TypeOK, Searches, NoSearch
<1>2. Zero \notin Chips /\ devices \in Seq(Chips)
  BY CrcAssumption DEF SoundInv, TypeOK
<1>3. search.kind # "device" /\ ~EndsList(a) => a \in present
  BY DEF EndsList
<1>4. /\ pc' \in {"idle", "reset"} /\ pass' = NoPass /\ result' = result
      /\ devices' = devices \/ (a \in present /\ devices' = Append(devices, a))
  BY <1>3 DEF Returned
<1>5. devices' \in Seq(Chips) /\ Range(devices') \subseteq Range(devices) \cup present
  <2>1. CASE devices' = devices
    BY <1>2, <2>1
  <2>2. CASE a \in present /\ devices' = Append(devices, a)
    <3>1. a \in Chips
      BY <1>1, <2>2
    <3>2. Append(devices, a) \in Seq(Chips)
      BY <1>2, <3>1, AppendProperties
    <3>3. Range(Append(devices, a)) = Range(devices) \cup {a}
      BY <1>2, <3>1, RangeOfAppend
    <3>. QED
      BY <2>2, <3>2, <3>3
  <2>. QED
    BY <1>4, <2>1, <2>2
<1>6. is_present' \in BOOLEAN
  BY DEF Returned, SoundInv, TypeOK
<1>7. is_present' => search.kind = "device" /\ search.address \in seen \cup {Zero}
  <2>1. CASE search.kind = "device"
    <3>1. is_present' => a = search.address
      BY <2>1 DEF Returned
    <3>. QED
      BY <1>1, <2>1, <3>1
  <2>2. CASE search.kind # "device"
    <3>1. is_present' = is_present
      BY <2>2 DEF Returned
    <3>. QED
      BY <2>2, <3>1 DEF SoundInv, SeenInv
  <2>. QED
    BY <2>1, <2>2
<1>8. TypeOK'
  BY <1>4, <1>5, <1>6 DEF SoundInv, TypeOK, Addresses
<1>9. PassInv'
  BY <1>1, <1>4 DEF PassInv
<1>10. SeenInv'
  BY <1>1, <1>7 DEF SeenInv
<1>11. NoPhantoms'
  BY <1>1, <1>5, <1>7 DEF SoundInv, NoPhantoms, Listing
<1>. QED
  BY <1>8, <1>9, <1>10, <1>11 DEF SoundInv

LEMMA ZeroIsAddress == Zero \in Addresses
BY DEF Zero, Addresses, Bits

LEMMA SearchSound == ASSUME NEW s \in Searches PROVE SoundInv /\ Search(s) => SoundInv'
<1>. SUFFICES ASSUME SoundInv, Search(s) PROVE SoundInv'
  OBVIOUS
<1>1. s \in Searches /\ s # NoSearch
  BY DEF Searches, NoSearch
<1>2. /\ search' = s /\ pc' = "reset" /\ result' = TRUE /\ is_present' = FALSE
      /\ seen' = present /\ disturbed' = FALSE /\ failed' = FALSE /\ last_device_flag' = FALSE
      /\ last_discrepancy' = IF s.kind = "all" THEN 0 ELSE Width
      /\ devices' = IF s.kind = "device" THEN devices ELSE <<>>
      /\ UNCHANGED <<present, pass, changes>> /\ pc = "idle"
  BY DEF Search
<1>3. address' \in Addresses
  <2>1. CASE s.kind = "all"
    BY <2>1, ZeroIsAddress DEF Search
  <2>2. CASE s.kind = "family"
    <3>1. s.code \in [1 .. FamilyBits -> Bits]
      BY <2>2 DEF Searches
    <3>2. Padded(s.code) \in Addresses
      BY <3>1, SizesAreNatural DEF Padded, Addresses, Bits
    <3>. QED
      BY <2>2, <3>2 DEF Search
  <2>3. CASE s.kind = "device"
    <3>1. s.address \in Chips \cup {Zero}
      BY <2>3 DEF Searches
    <3>2. s.address \in Addresses
      BY <3>1, ZeroIsAddress, CrcAssumption DEF Addresses
    <3>. QED
      BY <2>3, <3>2 DEF Search
  <2>. QED
    BY <2>1, <2>2, <2>3 DEF Searches
<1>4. last_discrepancy' \in 0 .. Width
  BY <1>2, SizesAreNatural
<1>5. devices' \in Seq(Chips) /\ (s.kind # "device" => Range(devices') = {})
  <2>1. Range(<<>>) = {}
    BY DEF Range
  <2>. QED
    BY <1>2, <2>1 DEF SoundInv, TypeOK
<1>6. TypeOK'
  BY <1>1, <1>2, <1>3, <1>4, <1>5 DEF SoundInv, TypeOK, Addresses
<1>7. PassInv' /\ SeenInv'
  BY <1>1, <1>2 DEF SoundInv, PassInv, SeenInv
<1>8. NoPhantoms'
  BY <1>2, <1>5 DEF NoPhantoms, Listing
<1>. QED
  BY <1>6, <1>7, <1>8 DEF SoundInv

LEMMA ResetBusSound == SoundInv /\ ResetBus => SoundInv'
<1>. SUFFICES ASSUME SoundInv, ResetBus PROVE SoundInv'
  OBVIOUS
<1>1. pc = "reset" /\ UNCHANGED <<present, search, search_state, changes, history>>
  BY DEF ResetBus
<1>2. /\ address' \in Addresses /\ last_discrepancy' \in 0 .. Width /\ last_device_flag' \in BOOLEAN
      /\ changes' \in 0 .. MaxChanges /\ disturbed' \in BOOLEAN /\ failed' \in BOOLEAN /\ seen' = seen
  BY <1>1 DEF SoundInv, TypeOK, search_state, history, Addresses
<1>3. CASE last_device_flag
  BY <1>1, <1>2, <1>3, ReturnedSound DEF ResetBus
<1>4. CASE ~last_device_flag
  <2>1. /\ pc' = "triplet" /\ UNCHANGED outcome
        /\ pass' = [bit |-> 1, last_zero |-> 0, address |-> address, participants |-> present]
    BY <1>4 DEF ResetBus
  <2>2. pass' \in Passes
    <3>1. 1 \in 1 .. Width /\ 0 \in 0 .. Width
      BY SizesAreNatural
    <3>. QED
      BY <2>1, <3>1 DEF SoundInv, TypeOK, Passes
  <2>3. pass' # NoPass
    BY <2>1 DEF NoPass
  <2>4. \A d \in present : Agrees(address, d, 1 - 1)
    BY DEF Agrees
  <2>5. TypeOK'
    BY <1>1, <2>1, <2>2 DEF SoundInv, TypeOK, outcome, search_state, history
  <2>6. PassInv'
    BY <1>1, <2>1, <2>3, <2>4 DEF SoundInv, PassInv, search_state
  <2>7. SeenInv' /\ NoPhantoms'
    BY <1>1, <2>1 DEF SoundInv, SeenInv, NoPhantoms, Listing, outcome, history
  <2>. QED
    BY <2>5, <2>6, <2>7 DEF SoundInv
<1>. QED
  BY <1>3, <1>4

LEMMA ResetFailsSound == SoundInv /\ ResetFails => SoundInv'
<1>. SUFFICES ASSUME SoundInv, ResetFails PROVE SoundInv'
  OBVIOUS
<1>1. /\ pc = "reset" /\ pc' = "idle" /\ result' = FALSE
      /\ UNCHANGED <<present, search, search_state, pass, devices, is_present, changes, history>>
  BY DEF ResetFails
<1>2. TypeOK'
  BY <1>1 DEF SoundInv, TypeOK, search_state, history
<1>3. PassInv' /\ SeenInv' /\ NoPhantoms'
  BY <1>1 DEF SoundInv, PassInv, SeenInv, NoPhantoms, Listing, history
<1>. QED
  BY <1>2, <1>3 DEF SoundInv

LEMMA TripletSteps ==
  ASSUME Triplet
  PROVE  /\ pc = "triplet" /\ Answers # {} /\ UNCHANGED <<present, search, changes, history>>
         /\ pass.bit < Width =>
              /\ pass' = [bit |-> pass.bit + 1, last_zero |-> LastZero(Way), address |-> Found,
                          participants |-> {d \in pass.participants : d[pass.bit] = Way}]
              /\ UNCHANGED <<pc, search_state, outcome>>
         /\ ~(pass.bit < Width) =>
              /\ last_discrepancy' = LastZero(Way) /\ address' = Found
              /\ last_device_flag' = (last_device_flag \/ LastZero(Way) = 0)
              /\ Returned(Found)
BY DEF Triplet, Way, Found

LEMMA LastZeroType ==
  ASSUME SoundInv, pc = "triplet"
  PROVE  LastZero(Way) \in 0 .. Width
BY PassTyped, SizesAreNatural DEF LastZero

LEMMA TripletSound == SoundInv /\ Triplet => SoundInv'
<1>. SUFFICES ASSUME SoundInv, Triplet PROVE SoundInv'
  OBVIOUS
<1>1. pc = "triplet" /\ Answers # {} /\ UNCHANGED <<present, search, changes, history>>
  BY TripletSteps
<1>2. pass.bit \in 1 .. Width /\ Found \in Addresses /\ LastZero(Way) \in 0 .. Width /\ Width \in Nat
  BY <1>1, PassTyped, FoundFacts, LastZeroType, SizesAreNatural
<1>3. CASE pass.bit < Width
  <2>1. /\ pass' = [bit |-> pass.bit + 1, last_zero |-> LastZero(Way), address |-> Found,
                    participants |-> {d \in pass.participants : d[pass.bit] = Way}]
        /\ UNCHANGED <<pc, search_state, outcome>>
    BY <1>3, TripletSteps
  <2>2. pass' \in Passes /\ pass'.participants \subseteq pass.participants
    <3>1. pass.bit + 1 \in 1 .. Width
      BY <1>2, <1>3
    <3>2. pass.participants \subseteq Chips
      BY <1>1, PassTyped
    <3>. QED
      BY <1>2, <2>1, <3>1, <3>2 DEF Passes, Addresses
  <2>3. pass' # NoPass
    BY <2>1 DEF NoPass
  <2>4. \A d \in pass'.participants : Agrees(Found, d, pass.bit)
    BY <1>1, <2>1, FoundFacts DEF SoundInv, PassInv
  <2>5. \A j \in pass.bit + 1 .. Width : Found[j] = address[j]
    <3>1. \A j \in pass.bit + 1 .. Width : j \in 1 .. Width /\ j # pass.bit /\ j \in pass.bit .. Width
      BY <1>2
    <3>2. \A j \in pass.bit + 1 .. Width : Found[j] = pass.address[j]
      BY <1>1, <3>1, FoundFacts
    <3>. QED
      BY <1>1, <3>1, <3>2 DEF SoundInv, PassInv
  <2>6. pass'.bit - 1 = pass.bit /\ pass'.address = Found /\ pass'.bit = pass.bit + 1
    BY <1>2, <2>1
  <2>7. TypeOK'
    BY <1>1, <2>1, <2>2 DEF SoundInv, TypeOK, outcome, search_state, history
  <2>8. PassInv'
    BY <1>1, <2>1, <2>2, <2>3, <2>4, <2>5, <2>6 DEF SoundInv, PassInv, search_state
  <2>9. SeenInv' /\ NoPhantoms'
    BY <1>1, <2>1 DEF SoundInv, SeenInv, NoPhantoms, Listing, outcome, history
  <2>. QED
    BY <2>7, <2>8, <2>9 DEF SoundInv
<1>4. CASE ~(pass.bit < Width)
  <2>1. Returned(Found) /\ address' = Found /\ last_discrepancy' = LastZero(Way)
        /\ last_device_flag' = (last_device_flag \/ LastZero(Way) = 0)
    BY <1>4, TripletSteps
  <2>2. Found \in present
    BY <1>1, <1>2, <1>4, FoundTookPart
  <2>3. last_device_flag' \in BOOLEAN
    BY <2>1
  <2>4. changes' \in 0 .. MaxChanges /\ disturbed' \in BOOLEAN /\ failed' \in BOOLEAN /\ seen' = seen
    BY <1>1 DEF SoundInv, TypeOK, history
  <2>. QED
    BY <1>1, <1>2, <2>1, <2>2, <2>3, <2>4, ReturnedSound
<1>. QED
  BY <1>3, <1>4

LEMMA GivenUpSound == SoundInv /\ (NoDevice \/ TripletFails) => SoundInv'
<1>. SUFFICES ASSUME SoundInv, NoDevice \/ TripletFails PROVE SoundInv'
  OBVIOUS
<1>1. /\ pc = "triplet" /\ Returned(Zero)
      /\ UNCHANGED <<present, search, search_state, changes, seen, disturbed>>
      /\ failed' = failed \/ failed' = TRUE
  BY DEF NoDevice, TripletFails, history
<1>2. /\ address' \in Addresses /\ last_discrepancy' \in 0 .. Width /\ last_device_flag' \in BOOLEAN
      /\ changes' \in 0 .. MaxChanges /\ disturbed' \in BOOLEAN /\ failed' \in BOOLEAN
  BY <1>1 DEF SoundInv, TypeOK, search_state, Addresses
<1>. QED
  BY <1>1, <1>2, ReturnedSound

LEMMA PlugSound == ASSUME NEW d \in Chips PROVE SoundInv /\ (Plug(d) \/ Unplug(d)) => SoundInv'
<1>. SUFFICES ASSUME SoundInv, Plug(d) \/ Unplug(d) PROVE SoundInv'
  OBVIOUS
<1>1. /\ UNCHANGED <<search, pc, search_state, outcome, failed>>
      /\ disturbed' = TRUE /\ changes' = changes + 1 /\ changes < MaxChanges
      /\ \/ present' = present \cup {d} /\ seen' = seen \cup {d} /\ pass' = pass
         \/ /\ present' = present \ {d} /\ seen' = seen
            /\ pass' = IF pass = NoPass THEN pass ELSE [pass EXCEPT !.participants = @ \ {d}]
  BY DEF Plug, Unplug
<1>2. changes' \in 0 .. MaxChanges
  BY <1>1, WidthAssumption DEF SoundInv, TypeOK
<1>3. present' \subseteq Chips /\ seen' \subseteq Chips /\ seen \subseteq seen'
      /\ (present \subseteq seen => present' \subseteq seen')
  BY <1>1 DEF SoundInv, TypeOK
<1>4. pass = NoPass <=> pass' = NoPass
  BY <1>1 DEF SoundInv, TypeOK, Passes, NoPass
<1>5. pass # NoPass => /\ pass' \in Passes /\ pass'.bit = pass.bit /\ pass'.address = pass.address
                       /\ pass'.participants \subseteq pass.participants
                       /\ pass.participants \subseteq present => pass'.participants \subseteq present'
  <2>. SUFFICES ASSUME pass # NoPass
                PROVE  /\ pass' \in Passes /\ pass'.bit = pass.bit /\ pass'.address = pass.address
                       /\ pass'.participants \subseteq pass.participants
                       /\ pass.participants \subseteq present => pass'.participants \subseteq present'
    OBVIOUS
  <2>1. pass \in Passes
    BY DEF SoundInv, TypeOK
  <2>2. CASE pass' = pass /\ present' = present \cup {d}
    BY <2>1, <2>2
  <2>3. CASE present' = present \ {d} /\ pass' = [pass EXCEPT !.participants = @ \ {d}]
    BY <2>1, <2>3 DEF Passes
  <2>. QED
    BY <1>1, <2>2, <2>3
<1>6. TypeOK'
  BY <1>1, <1>2, <1>3, <1>4, <1>5 DEF SoundInv, TypeOK, outcome, search_state
<1>7. PassInv'
  BY <1>1, <1>4, <1>5 DEF SoundInv, PassInv, search_state
<1>8. SeenInv' /\ NoPhantoms'
  BY <1>1, <1>3 DEF SoundInv, SeenInv, NoPhantoms, Listing, outcome
<1>. QED
  BY <1>6, <1>7, <1>8 DEF SoundInv

LEMMA InitSound == Init => SoundInv
<1>. SUFFICES ASSUME Init PROVE SoundInv
  OBVIOUS
<1>1. Range(<<>>) = {}
  BY DEF Range
<1>2. 0 \in 0 .. Width /\ 0 \in 0 .. MaxChanges
  BY WidthAssumption
<1>3. present \subseteq Chips /\ address \in Addresses /\ devices \in Seq(Chips)
  BY ZeroIsAddress DEF Init
<1>4. TypeOK
  BY <1>2, <1>3 DEF Init, TypeOK, Addresses
<1>. QED
  BY <1>1, <1>4 DEF Init, SoundInv, PassInv, SeenInv, NoPhantoms, NoSearch, Listing

LEMMA NextSound == SoundInv /\ [Next]_vars => SoundInv'
<1>1. SoundInv /\ UNCHANGED vars => SoundInv'
  <2>. SUFFICES ASSUME SoundInv, UNCHANGED vars PROVE SoundInv'
    OBVIOUS
  <2>1. TypeOK' /\ PassInv'
    BY DEF SoundInv, TypeOK, PassInv, vars, search_state, outcome, history
  <2>2. SeenInv' /\ NoPhantoms'
    BY DEF SoundInv, SeenInv, NoPhantoms, Listing, vars, outcome, history
  <2>. QED
    BY <2>1, <2>2 DEF SoundInv
<1>. QED
  BY <1>1, SearchSound, ResetBusSound, ResetFailsSound, TripletSound, GivenUpSound, PlugSound
     DEF Next, SearchStep

-----------------------------------------------------------------------------
\* ---- What an undisturbed search lists ----

LEMMA ListKept ==
  ASSUME IInv, UNCHANGED <<present, search, devices, disturbed>>
  PROVE  OnlyWanted' /\ NoneSkipped'
BY DEF IInv, OnlyWanted, NoneSkipped, Listing, Wanted, Range

\* The search ends with the list it has.
LEMMA EndKeeps ==
  ASSUME IInv, SoundInv', pc' = "idle", UNCHANGED <<present, search, devices, disturbed>>,
         UndisturbedSearchIsComplete'
  PROVE  IInv'
<1>1. OriginInv' /\ PassIsFair' /\ FrontierInv'
  BY DEF OriginInv, PassIsFair, FrontierInv
<1>. QED
  BY <1>1, ListKept DEF IInv

LEMMA SearchKeeps == ASSUME NEW s \in Searches PROVE IInv /\ Search(s) => IInv'
<1>. SUFFICES ASSUME IInv, Search(s) PROVE IInv'
  OBVIOUS
<1>1. SoundInv'
  BY SearchSound DEF IInv
<1>2. /\ search' = s /\ pc' = "reset" /\ last_device_flag' = FALSE
      /\ last_discrepancy' = IF s.kind = "all" THEN 0 ELSE Width
      /\ devices' = IF s.kind = "device" THEN devices ELSE <<>>
  BY DEF Search
<1>3. s.kind \in {"all", "family", "device"}
  BY DEF Searches
<1>4. FirstPass' /\ (Listing' => devices' = <<>>)
  BY <1>2, <1>3 DEF FirstPass, Listing
<1>5. OriginInv'
  <2>1. s.kind = "family" => address' = Padded(s.code)
    BY DEF Search
  <2>2. s.kind = "device" => address' = s.address
    BY DEF Search
  <2>. QED
    BY <1>2, <2>1, <2>2 DEF OriginInv
<1>6. PassIsFair' /\ FrontierInv' /\ UndisturbedSearchIsComplete'
  BY <1>2, <1>4 DEF PassIsFair, FrontierInv, UndisturbedSearchIsComplete
<1>7. OnlyWanted' /\ NoneSkipped'
  <2>1. Range(<<>>) = {} /\ DOMAIN <<>> = {}
    BY DEF Range
  <2>. QED
    BY <1>4, <2>1 DEF OnlyWanted, NoneSkipped
<1>. QED
  BY <1>1, <1>5, <1>6, <1>7 DEF IInv

\* After the last turn, nothing is left to be listed.
LEMMA LastPassIsLast ==
  ASSUME IInv, pc = "reset", last_device_flag, ~disturbed
  PROVE  Listing /\ Range(devices) = Wanted
<1>1. ~FirstPass
  BY DEF IInv, OriginInv
<1>2. Listing /\ last_discrepancy = 0
  BY <1>1 DEF FirstPass, IInv, FrontierInv
<1>3. \A d \in Wanted : d \in Range(devices)
  <2>. SUFFICES ASSUME NEW d \in Wanted, d \notin Range(devices) PROVE FALSE
    OBVIOUS
  <2>1. \E i \in 1 .. last_discrepancy : i \in 1 .. Width
    BY <1>1, StillToCome
  <2>. QED
    BY <1>2, <2>1
<1>. QED
  BY <1>2, <1>3 DEF IInv, OnlyWanted

LEMMA ResetBusKeeps == IInv /\ ResetBus => IInv'
<1>. SUFFICES ASSUME IInv, ResetBus PROVE IInv'
  OBVIOUS
<1>1. SoundInv'
  BY ResetBusSound DEF IInv
<1>2. pc = "reset" /\ UNCHANGED <<present, search, search_state, changes, history>>
  BY DEF ResetBus
<1>3. CASE last_device_flag
  <2>1. Returned(Zero)
    BY <1>3 DEF ResetBus
  <2>2. Listing /\ search.kind # "device"
    BY <1>2, <1>3 DEF IInv, OriginInv, FirstPass, Listing
  <2>3. pc' = "idle" /\ UNCHANGED devices
    BY <2>1, <2>2 DEF Returned, EndsList
  <2>4. ~disturbed => Range(devices) = Wanted
    BY <1>2, <1>3, LastPassIsLast
  <2>5. UndisturbedSearchIsComplete'
    BY <1>2, <2>2, <2>3, <2>4 DEF UndisturbedSearchIsComplete, Listing, Wanted, Range, history
  <2>. QED
    BY <1>1, <1>2, <2>3, <2>5, EndKeeps DEF history
<1>4. CASE ~last_device_flag
  <2>1. /\ pc' = "triplet" /\ UNCHANGED outcome
        /\ pass' = [bit |-> 1, last_zero |-> 0, address |-> address, participants |-> present]
    BY <1>4 DEF ResetBus
  <2>2. UNCHANGED <<present, search, address, last_discrepancy, last_device_flag, devices, disturbed>>
    BY <1>2, <2>1 DEF search_state, outcome, history
  <2>3. OriginInv' /\ OnlyWanted' /\ NoneSkipped' /\ UndisturbedSearchIsComplete'
    BY <1>2, <2>1, <2>2, ListKept DEF IInv, OriginInv, FirstPass, Listing, UndisturbedSearchIsComplete
  <2>4. ~disturbed /\ ~FirstPass => last_discrepancy # 0
    BY <1>2, <1>4 DEF IInv, FrontierInv
  <2>5. FrontierInv'
    BY <1>2, <2>1, <2>2, <2>4 DEF IInv, FrontierInv, FirstPass, Listing, LastTurn
  <2>6. PassIsFair'
    <3>1. pass'.bit = 1 /\ pass'.last_zero = 0 /\ pass'.address = address /\ pass'.participants = present
      BY <2>1
    <3>2. \A a, b : Agrees(a, b, 1 - 1)
      BY DEF Agrees
    <3>. SUFFICES ASSUME ~disturbed PROVE PassKnows(pass.address, pass.bit - 1, pass.last_zero)'
      BY <2>2, <3>1, <3>2 DEF PassIsFair
    <3>3. LastTurn(pass.address, pass.bit - 1, pass.last_zero)'
      BY <3>1 DEF LastTurn
    <3>4. ~FirstPass' => OnTheWay(pass.address, pass.bit - 1)'
      <4>1. ~FirstPass' => last_discrepancy # 0
        BY <2>2, <2>4 DEF FirstPass, Listing
      <4>2. last_discrepancy \in 0 .. Width
        BY DEF IInv, SoundInv, TypeOK
      <4>. QED
        BY <2>2, <3>1, <4>1, <4>2, SizesAreNatural DEF OnTheWay
    <3>5. /\ NothingPassed(pass.address, pass.bit - 1)' /\ ToDevice(pass.address, pass.bit - 1)'
          /\ InFamily(pass.address, pass.bit - 1)'
      BY <3>1, <3>2 DEF NothingPassed, ToDevice, InFamily
    <3>. QED
      BY <3>3, <3>4, <3>5 DEF PassKnows
  <2>. QED
    BY <1>1, <2>3, <2>5, <2>6 DEF IInv
<1>. QED
  BY <1>3, <1>4

LEMMA ResetFailsKeeps == IInv /\ ResetFails => IInv'
<1>. SUFFICES ASSUME IInv, ResetFails PROVE IInv'
  OBVIOUS
<1>1. SoundInv'
  BY ResetFailsSound DEF IInv
<1>2. pc' = "idle" /\ ~result' /\ UNCHANGED <<present, search, devices, disturbed>>
  BY DEF ResetFails, history
<1>3. UndisturbedSearchIsComplete'
  BY <1>2 DEF UndisturbedSearchIsComplete
<1>. QED
  BY <1>1, <1>2, <1>3, EndKeeps

LEMMA NoDeviceKeeps == IInv /\ NoDevice => IInv'
<1>. SUFFICES ASSUME IInv, NoDevice PROVE IInv'
  OBVIOUS
<1>1. SoundInv' /\ SoundInv
  BY GivenUpSound DEF IInv
<1>2. /\ pc = "triplet" /\ Answers = {} /\ Returned(Zero)
      /\ UNCHANGED <<present, search, search_state, changes, history>>
  BY DEF NoDevice
<1>3. pc' = "idle" /\ UNCHANGED devices /\ (search.kind = "device" => is_present' = (Zero = search.address))
  BY <1>2 DEF Returned, EndsList
<1>4. ~disturbed => present = {}
  <2>. SUFFICES ASSUME ~disturbed, NEW d \in present PROVE FALSE
    OBVIOUS
  <2>1. pass.participants = {}
    BY <1>2 DEF Answers
  <2>2. pass.bit = 1
    BY <1>1, <1>2, <2>1, PassTyped DEF IInv, PassIsFair
  <2>3. Agrees(pass.address, d, pass.bit - 1)
    BY <2>2 DEF Agrees
  <2>. QED
    BY <1>2, <2>1, <2>3 DEF IInv, PassIsFair
<1>5. UndisturbedSearchIsComplete'
  <2>. SUFFICES ASSUME ~disturbed PROVE UndisturbedSearchIsComplete'
    BY <1>2 DEF UndisturbedSearchIsComplete, history
  <2>1. present' = {} /\ search' = search /\ devices' = devices
    BY <1>2, <1>3, <1>4
  <2>2. Listing => Range(devices) = {} /\ Wanted' = {}
    BY <1>4, <2>1, WantedFacts DEF IInv, OnlyWanted, Wanted, Listing
  <2>3. search.kind = "device" => (is_present' <=> search.address = Zero)
    BY <1>3
  <2>. QED
    BY <2>1, <2>2, <2>3 DEF UndisturbedSearchIsComplete, Listing
<1>. QED
  BY <1>1, <1>2, <1>3, <1>5, EndKeeps DEF history

LEMMA TripletFailsKeeps == IInv /\ TripletFails => IInv'
<1>. SUFFICES ASSUME IInv, TripletFails PROVE IInv'
  OBVIOUS
<1>1. SoundInv'
  BY GivenUpSound DEF IInv
<1>2. pc' = "idle" /\ UNCHANGED <<present, search, devices, disturbed>> /\ failed'
  BY DEF TripletFails, Returned, EndsList
<1>3. UndisturbedSearchIsComplete'
  BY <1>2 DEF UndisturbedSearchIsComplete
<1>. QED
  BY <1>1, <1>2, <1>3, EndKeeps

LEMMA PlugKeeps == ASSUME NEW d \in Chips PROVE IInv /\ (Plug(d) \/ Unplug(d)) => IInv'
<1>. SUFFICES ASSUME IInv, Plug(d) \/ Unplug(d) PROVE IInv'
  OBVIOUS
<1>1. SoundInv'
  BY PlugSound DEF IInv
<1>2. disturbed' /\ UNCHANGED <<search, pc, search_state, outcome>>
  BY DEF Plug, Unplug
<1>3. OriginInv'
  BY <1>2 DEF IInv, OriginInv, FirstPass, Listing, search_state, outcome
<1>4. PassIsFair' /\ FrontierInv' /\ OnlyWanted' /\ NoneSkipped' /\ UndisturbedSearchIsComplete'
  BY <1>2 DEF PassIsFair, FrontierInv, OnlyWanted, NoneSkipped, UndisturbedSearchIsComplete
<1>. QED
  BY <1>1, <1>3, <1>4 DEF IInv

\* A pass goes on to its next bit.
LEMMA BitKeeps == IInv /\ Triplet /\ pass.bit < Width => IInv'
<1>. SUFFICES ASSUME IInv, Triplet, pass.bit < Width PROVE IInv'
  OBVIOUS
<1>1. SoundInv' /\ SoundInv
  BY TripletSound DEF IInv
<1>2. /\ pc = "triplet" /\ Answers # {} /\ UNCHANGED <<present, search, changes, history>>
      /\ pass' = [bit |-> pass.bit + 1, last_zero |-> LastZero(Way), address |-> Found,
                  participants |-> {d \in pass.participants : d[pass.bit] = Way}]
      /\ UNCHANGED <<pc, search_state, outcome>>
  BY TripletSteps
<1>3. /\ UNCHANGED <<present, search, address, last_discrepancy, last_device_flag, devices, disturbed, pc>>
      /\ pass'.bit = pass.bit + 1 /\ pass'.last_zero = LastZero(Way) /\ pass'.address = Found
      /\ pass'.participants = {d \in pass.participants : d[pass.bit] = Way}
  BY <1>2 DEF search_state, outcome, history
<1>4. OriginInv' /\ OnlyWanted' /\ NoneSkipped' /\ UndisturbedSearchIsComplete'
  BY <1>2, <1>3, ListKept DEF IInv, OriginInv, FirstPass, Listing, UndisturbedSearchIsComplete
<1>5. FrontierInv'
  BY <1>3 DEF IInv, FrontierInv, FirstPass, Listing, LastTurn
<1>6. PassIsFair'
  <2>. SUFFICES ASSUME ~disturbed PROVE PassIsFair'
    BY <1>3 DEF PassIsFair
  <2>1. pass'.bit - 1 = pass.bit
    BY <1>1, <1>2, <1>3, PassTyped
  <2>2. \A d \in present : Agrees(Found, d, pass.bit) => d \in pass'.participants
    BY <1>1, <1>2, <1>3, FoundFacts DEF IInv, PassIsFair
  <2>3. pass'.participants # {}
    <3>1. Way \in Answers
      BY <1>1, <1>2, WayFacts
    <3>. QED
      BY <1>3, <3>1 DEF Answers
  <2>4. PassKnows(Found, pass.bit, LastZero(Way))
    BY <1>2, PassGoesOn
  <2>5. (FirstPass <=> FirstPass') /\ (Listing <=> Listing') /\ Wanted' = Wanted
    BY <1>3 DEF FirstPass, Listing, Wanted
  <2>6. LastTurn(pass.address, pass.bit - 1, pass.last_zero)'
    BY <1>3, <2>1, <2>4 DEF PassKnows, LastTurn
  <2>7. ~FirstPass' => OnTheWay(pass.address, pass.bit - 1)'
    BY <1>3, <2>1, <2>4, <2>5 DEF PassKnows, OnTheWay
  <2>8. Listing' => NothingPassed(pass.address, pass.bit - 1)'
    BY <1>3, <2>1, <2>4, <2>5 DEF PassKnows, NothingPassed
  <2>9. search'.kind = "family" /\ FirstPass' => InFamily(pass.address, pass.bit - 1)'
    BY <1>3, <2>1, <2>4, <2>5 DEF PassKnows, InFamily
  <2>10. search'.kind = "device" => ToDevice(pass.address, pass.bit - 1)'
    BY <1>3, <2>1, <2>4 DEF PassKnows, ToDevice
  <2>11. PassKnows(pass.address, pass.bit - 1, pass.last_zero)'
    BY <2>6, <2>7, <2>8, <2>9, <2>10 DEF PassKnows
  <2>. QED
    BY <1>3, <2>1, <2>2, <2>3, <2>11 DEF PassIsFair
<1>. QED
  BY <1>1, <1>4, <1>5, <1>6 DEF IInv

\* What is known of the device an undisturbed pass has found.
LEMMA NextInOrder ==
  ASSUME IInv, pc = "triplet", Answers # {}, pass.bit = Width, ~disturbed, Listing
  PROVE  /\ \A d \in Wanted : d \in Range(devices) \/ d = Found \/ Before(Found, d)
         /\ ~FirstPass => address \in Range(devices) /\ Before(address, Found)
<1>1. SoundInv /\ Found \in Addresses /\ Found \in present /\ present \subseteq Addresses
  BY FoundFacts, FoundTookPart, PassTyped DEF IInv
<1>2. PassKnows(Found, Width, LastZero(Way))
  BY PassGoesOn
<1>3. ASSUME NEW d \in Wanted, d \notin Range(devices)
      PROVE  d = Found \/ Before(Found, d)
  <2>1. Agrees(Found, d, Width) \/ Precedes(Found, d, Width)
    BY <1>2, <1>3 DEF PassKnows, NothingPassed
  <2>2. d \in Addresses
    BY <1>1, WantedFacts
  <2>. QED
    BY <1>1, <2>1, <2>2, SameAddress, BeforeIsPrecedes
<1>4. ASSUME ~FirstPass PROVE address \in Range(devices) /\ Before(address, Found)
  <2>1. /\ address \in Range(devices) /\ address \in Addresses
        /\ LastTurn(address, Width, last_discrepancy) /\ last_discrepancy \in 1 .. Width
    BY <1>4, LastListed DEF Range
  <2>2. OnTheWay(Found, Width)
    BY <1>2, <1>4 DEF PassKnows
  <2>3. address[last_discrepancy] = 0 /\ Found[last_discrepancy] = 1
    BY <2>1, <2>2, SizesAreNatural DEF LastTurn, OnTheWay
  <2>4. \A j \in 1 .. last_discrepancy - 1 : address[j] = Found[j]
    BY <2>1, <2>2, SizesAreNatural DEF OnTheWay
  <2>. QED
    BY <2>1, <2>3, <2>4 DEF Before
<1>. QED
  BY <1>3, <1>4

\* It is listed as the next.
LEMMA ListedKeeps ==
  ASSUME IInv, Triplet, pass.bit = Width, search.kind # "device", ~EndsList(Found)
  PROVE  IInv'
<1>1. SoundInv' /\ SoundInv
  BY TripletSound DEF IInv
<1>2. /\ pc = "triplet" /\ Answers # {} /\ UNCHANGED <<present, search, disturbed>>
      /\ last_discrepancy' = LastZero(Way) /\ address' = Found
      /\ last_device_flag' = (last_device_flag \/ LastZero(Way) = 0)
      /\ pc' = "reset" /\ devices' = Append(devices, Found)
  BY <1>1, TripletSteps, PassTyped DEF Returned, history
<1>3. /\ search.kind \in {"all", "family"} /\ devices \in Seq(Chips) /\ Found \in present /\ Found \in Chips
      /\ present \subseteq Addresses
  BY <1>1, <1>2, FoundTookPart, PassTyped DEF Searches, SoundInv, TypeOK
<1>4. /\ devices' \in Seq(Chips) /\ Len(devices') = Len(devices) + 1 /\ Len(devices) \in Nat
      /\ devices'[Len(devices')] = Found /\ Range(devices') = Range(devices) \cup {Found}
      /\ \A i \in 1 .. Len(devices) : devices'[i] = devices[i]
  <2>1. Append(devices, Found) \in Seq(Chips) /\ Range(Append(devices, Found)) = Range(devices) \cup {Found}
    BY <1>3, AppendProperties, RangeOfAppend
  <2>. QED
    BY <1>2, <1>3, <2>1, AppendProperties
<1>5. ~FirstPass' /\ Listing' /\ Listing
  BY <1>2, <1>3, <1>4 DEF FirstPass, Listing
<1>6. OriginInv' /\ PassIsFair' /\ UndisturbedSearchIsComplete'
  BY <1>2, <1>5 DEF OriginInv, PassIsFair, UndisturbedSearchIsComplete
<1>7. CASE disturbed
  BY <1>1, <1>2, <1>6, <1>7 DEF FrontierInv, OnlyWanted, NoneSkipped, IInv
<1>8. CASE ~disturbed
  <2>1. FrontierInv'
    <3>1. ~last_device_flag
      BY <1>2, <1>8, LastListed DEF IInv, OriginInv, FrontierInv
    <3>2. LastTurn(Found, Width, LastZero(Way))
      BY <1>2, <1>8, PassGoesOn DEF PassKnows
    <3>3. last_device_flag' <=> last_discrepancy' = 0
      BY <1>2, <3>1
    <3>. QED
      BY <1>2, <1>4, <3>2, <3>3 DEF FrontierInv, LastTurn
  <2>2. Found \in Wanted /\ Wanted' = Wanted
    BY <1>2, <1>3, <1>5, WantedFacts DEF EndsList, Wanted
  <2>3. OnlyWanted'
    BY <1>4, <1>5, <1>8, <2>2 DEF IInv, OnlyWanted
  <2>4. \A d \in Wanted : d \in Range(devices) \/ d = Found \/ Before(Found, d)
    BY <1>2, <1>5, <1>8, NextInOrder
  <2>5. \A d \in Wanted : d \in Range(devices) \/ \A e \in Range(devices) : Before(e, d)
    BY <1>5, <1>8 DEF IInv, NoneSkipped
  <2>6. \A d \in Wanted : d \in Range(devices') \/ \A e \in Range(devices') : Before(e, d)
    BY <1>4, <2>4, <2>5
  <2>7. \A i, j \in 1 .. Len(devices) : i < j => Before(devices[i], devices[j])
    BY <1>3, <1>5, <1>8 DEF IInv, NoneSkipped
  <2>8. Found \notin Range(devices)
    <3>. SUFFICES ASSUME Found \in Range(devices) PROVE FALSE
      OBVIOUS
    <3>1. devices # <<>>
      BY DEF Range
    <3>2. ~FirstPass
      BY <1>5, <3>1 DEF FirstPass
    <3>3. Before(address, Found) /\ address = devices[Len(devices)] /\ address \in Addresses
      BY <1>2, <1>5, <1>8, <3>2, NextInOrder, LastListed
    <3>4. PICK k \in 1 .. Len(devices) : devices[k] = Found
      BY <1>3 DEF Range
    <3>5. Found # address
      BY <1>3, <3>3, BeforeIsStrict
    <3>6. k < Len(devices) /\ Len(devices) \in 1 .. Len(devices)
      BY <1>4, <3>3, <3>4, <3>5
    <3>7. Before(Found, address)
      BY <2>7, <3>3, <3>4, <3>6
    <3>. QED
      BY <1>3, <3>3, <3>7, BeforeIsStrict
  <2>9. \A i \in 1 .. Len(devices) : Before(devices[i], Found)
    <3>1. \A i \in 1 .. Len(devices) : devices[i] \in Range(devices)
      BY <1>3 DEF Range
    <3>. QED
      BY <2>2, <2>5, <2>8, <3>1
  <2>10. ASSUME NEW i \in DOMAIN devices', NEW j \in DOMAIN devices', i < j
         PROVE  Before(devices'[i], devices'[j])
    <3>1. i \in 1 .. Len(devices) + 1 /\ j \in 1 .. Len(devices) + 1
      BY <1>4
    <3>2. i \in 1 .. Len(devices)
      BY <1>4, <2>10, <3>1
    <3>3. CASE j = Len(devices) + 1
      BY <1>4, <2>9, <3>2, <3>3
    <3>4. CASE j \in 1 .. Len(devices)
      BY <1>4, <2>7, <2>10, <3>2, <3>4
    <3>. QED
      BY <1>4, <3>1, <3>3, <3>4
  <2>11. NoneSkipped'
    BY <2>2, <2>6, <2>10 DEF NoneSkipped
  <2>. QED
    BY <1>1, <1>6, <2>1, <2>3, <2>11 DEF IInv
<1>. QED
  BY <1>7, <1>8

\* A device of another family ends the list: all of the family precede it.
LEMMA ForeignKeeps ==
  ASSUME IInv, Triplet, pass.bit = Width, search.kind # "device", EndsList(Found)
  PROVE  IInv'
<1>1. SoundInv' /\ SoundInv
  BY TripletSound DEF IInv
<1>2. /\ pc = "triplet" /\ Answers # {} /\ UNCHANGED <<present, search, disturbed, failed>>
      /\ pc' = "idle" /\ UNCHANGED devices
  BY <1>1, TripletSteps, PassTyped DEF Returned, history
<1>3. /\ search \in Searches /\ Found \in present /\ Found \in Chips /\ Found \in Addresses
      /\ present \subseteq Addresses
  BY <1>1, <1>2, FoundTookPart, PassTyped DEF SoundInv, TypeOK
<1>4. search.kind = "family" /\ Family(Found) # search.code /\ Listing
  BY <1>3, CrcAssumption DEF EndsList, Listing
<1>5. ASSUME ~disturbed, NEW d \in Wanted, d \notin Range(devices) PROVE FALSE
  <2>1. Family(d) = search.code /\ d \in Addresses
    BY <1>3, <1>4, WantedFacts
  <2>2. CASE FirstPass
    <3>1. InFamily(Found, Width)
      BY <1>2, <1>4, <1>5, <2>2, PassGoesOn DEF PassKnows
    <3>2. \A j \in 1 .. FamilyBits : Found[j] = search.code[j]
      BY <1>5, <3>1, SizesAreNatural DEF InFamily
    <3>3. search.code = [j \in 1 .. FamilyBits |-> search.code[j]]
      BY <1>3, <1>4 DEF Searches
    <3>4. Family(Found) = search.code
      BY <3>2, <3>3 DEF Family
    <3>. QED
      BY <1>4, <3>4
  <2>3. CASE ~FirstPass
    <3>1. address \in Range(devices) /\ Before(address, Found) /\ address \in Addresses
      BY <1>2, <1>4, <1>5, <2>3, NextInOrder, LastListed
    <3>2. Family(address) = search.code
      BY <1>4, <1>5, <2>3, <3>1, LastListed, WantedFacts, <1>2 DEF IInv, OnlyWanted
    <3>3. d = Found \/ Before(Found, d)
      BY <1>2, <1>4, <1>5, NextInOrder
    <3>. QED
      BY <1>3, <1>4, <2>1, <3>1, <3>2, <3>3, FamiliesStandTogether
  <2>. QED
    BY <2>2, <2>3
<1>6. ~disturbed => Range(devices) = Wanted
  BY <1>4, <1>5 DEF IInv, OnlyWanted
<1>7. UndisturbedSearchIsComplete'
  BY <1>2, <1>4, <1>6 DEF UndisturbedSearchIsComplete, Listing, Wanted, Range
<1>. QED
  BY <1>1, <1>2, <1>7, EndKeeps

\* The only pass of a search for one device.
LEMMA DeviceKeeps ==
  ASSUME IInv, Triplet, pass.bit = Width, search.kind = "device"
  PROVE  IInv'
<1>1. SoundInv' /\ SoundInv
  BY TripletSound DEF IInv
<1>2. /\ pc = "triplet" /\ Answers # {} /\ UNCHANGED <<present, search, disturbed, failed>>
      /\ pc' = "idle" /\ UNCHANGED devices /\ is_present' = (Found = search.address)
  BY <1>1, TripletSteps, PassTyped DEF Returned, history
<1>3. Found \in present /\ Found \in Addresses /\ present \subseteq Addresses
  BY <1>1, <1>2, FoundTookPart, FoundFacts, PassTyped
<1>4. ~disturbed => (is_present' <=> search.address \in present)
  <2>. SUFFICES ASSUME ~disturbed, search.address \in present PROVE Found = search.address
    BY <1>2, <1>3
  <2>1. ToDevice(Found, Width)
    BY <1>2, PassGoesOn DEF PassKnows
  <2>. QED
    BY <1>3, <2>1, SameAddress DEF ToDevice
<1>5. present # {} /\ search'.kind = "device"
  BY <1>2, <1>3
<1>6. UndisturbedSearchIsComplete'
  BY <1>2, <1>4, <1>5 DEF UndisturbedSearchIsComplete, Listing
<1>. QED
  BY <1>1, <1>2, <1>6, EndKeeps

LEMMA TripletKeeps == IInv /\ Triplet => IInv'
<1>. SUFFICES ASSUME IInv, Triplet PROVE IInv'
  OBVIOUS
<1>1. pass.bit < Width \/ pass.bit = Width
  <2>1. SoundInv /\ pc = "triplet"
    BY TripletSteps DEF IInv
  <2>. QED
    BY <2>1, PassTyped, SizesAreNatural
<1>. QED
  BY <1>1, BitKeeps, ListedKeeps, ForeignKeeps, DeviceKeeps

LEMMA InitIInv == Init => IInv
<1>. SUFFICES ASSUME Init PROVE IInv
  OBVIOUS
<1>1. SoundInv /\ pc = "idle" /\ search.kind = "none"
  BY InitSound DEF Init, NoSearch
<1>. QED
  BY <1>1 DEF IInv, OriginInv, PassIsFair, FrontierInv, OnlyWanted, NoneSkipped,
              UndisturbedSearchIsComplete, Listing

LEMMA NextIInv == IInv /\ [Next]_vars => IInv'
<1>1. IInv /\ UNCHANGED vars => IInv'
  <2>. SUFFICES ASSUME IInv, UNCHANGED vars PROVE IInv'
    OBVIOUS
  <2>1. SoundInv'
    BY NextSound DEF IInv
  <2>2. OriginInv' /\ FrontierInv' /\ OnlyWanted' /\ NoneSkipped' /\ UndisturbedSearchIsComplete'
    BY ListKept DEF IInv, OriginInv, FrontierInv, LastTurn, UndisturbedSearchIsComplete, FirstPass,
       Listing, Wanted, Range, vars, search_state, outcome, history
  <2>3. PassIsFair'
    BY DEF IInv, PassIsFair, PassKnows, LastTurn, OnTheWay, NothingPassed, InFamily, ToDevice,
       FirstPass, Listing, Wanted, Range, vars, search_state, outcome, history
  <2>. QED
    BY <2>1, <2>2, <2>3 DEF IInv
<1>. QED
  BY <1>1, SearchKeeps, ResetBusKeeps, ResetFailsKeeps, TripletKeeps, NoDeviceKeeps,
     TripletFailsKeeps, PlugKeeps DEF Next, SearchStep

-----------------------------------------------------------------------------
\* ---- Theorems ----

\* The state of a search is well formed, whatever devices are plugged and whatever fails.
THEOREM TypeCorrect == Spec => []TypeOK
<1>1. SoundInv => TypeOK
  BY DEF SoundInv
<1>. QED
  BY <1>1, InitSound, NextSound, PTL DEF Spec

\* Whatever a search lists has been on the bus since it began, also when devices come
\* and go in the middle of a pass; and so has what it reports as present, but for the
\* address 0, which SearchNextDevice returns for "none".
THEOREM ListedHaveBeenThere == Spec => []NoPhantoms
<1>1. SoundInv => NoPhantoms
  BY DEF SoundInv
<1>. QED
  BY <1>1, InitSound, NextSound, PTL DEF Spec

\* While nobody plugs, the devices are listed in order and without a gap, for
\* addresses of any width.
THEOREM ListIsGapless == Spec => []NoneSkipped
<1>1. IInv => NoneSkipped
  BY DEF IInv
<1>. QED
  BY <1>1, InitIInv, NextIInv, PTL DEF Spec

\* An undisturbed search without errors finds exactly what it looks for; the search
\* for the address 0 "finds" it exactly on an empty bus.
THEOREM SearchIsComplete == Spec => []UndisturbedSearchIsComplete
<1>1. IInv => UndisturbedSearchIsComplete
  BY DEF IInv
<1>. QED
  BY <1>1, InitIInv, NextIInv, PTL DEF Spec

-----------------------------------------------------------------------------
\* ---- How many passes a search takes ----

\* An address is told by the bits that are 1, so there are finitely many.
LEMMA AddressesAreFinite == IsFiniteSet(Addresses)
<1> DEFINE Ones(a) == {i \in 1 .. Width : a[i] = 1}
           f == [a \in Addresses |-> Ones(a)]
<1>1. IsFiniteSet(SUBSET (1 .. Width))
  <2>1. 1 \in Int /\ Width \in Int
    BY SizesAreNatural
  <2>2. IsFiniteSet(1 .. Width)
    BY <2>1, FS_Interval, Zenon
  <2>. QED
    BY <2>2, FS_SUBSET, Zenon
<1>2. ASSUME NEW a \in Addresses, NEW b \in Addresses, Ones(a) = Ones(b) PROVE a = b
  <2>1. \A i \in 1 .. Width : a[i] \in Bits /\ b[i] \in Bits
    BY DEF Addresses
  <2>2. \A i \in 1 .. Width : a[i] = 1 <=> b[i] = 1
    BY <1>2
  <2>3. \A i \in 1 .. Width : a[i] = b[i]
    BY <2>1, <2>2 DEF Bits
  <2>. QED
    BY <2>3, SameAddress DEF Agrees
<1>3. f \in [Addresses -> SUBSET (1 .. Width)]
  OBVIOUS
<1>4. \A a, b \in Addresses : f[a] = f[b] => a = b
  BY <1>2
<1>5. f \in Injection(Addresses, SUBSET (1 .. Width))
  BY <1>3, <1>4 DEF Injection, IsInjective
<1>. QED
  BY <1>1, <1>5, FS_Injection

\* A list in order holds no more devices than there are to list.
LEMMA OrderedListIsShort ==
  ASSUME TypeOK, NEW S \in SUBSET Chips, Range(devices) \subseteq S,
         \A i, j \in DOMAIN devices : i < j => Before(devices[i], devices[j])
  PROVE  Len(devices) <= Cardinality(S)
<1>1. /\ devices \in Seq(Chips) /\ DOMAIN devices = 1 .. Len(devices) /\ Len(devices) \in Nat
      /\ Chips \subseteq Addresses
  BY CrcAssumption DEF TypeOK, Addresses
<1>2. IsFiniteSet(S)
  BY <1>1, AddressesAreFinite, FS_Subset
<1>3. devices \in [1 .. Len(devices) -> S]
  BY <1>1 DEF Range
<1>4. \A i, j \in 1 .. Len(devices) : i < j => devices[i] # devices[j]
  BY <1>1, <1>3, BeforeIsStrict
<1>5. \A i, j \in 1 .. Len(devices) : devices[i] = devices[j] => i = j
  BY <1>1, <1>4
<1>6. devices \in Injection(1 .. Len(devices), S)
  BY <1>3, <1>5 DEF Injection, IsInjective
<1>7. Cardinality(1 .. Len(devices)) <= Cardinality(S)
  BY <1>2, <1>6, FS_Injection
<1>. QED
  BY <1>1, <1>7, FS_Interval

\* However many addresses there could be, an undisturbed search for all devices or for
\* a family lists no more than are on the bus: each pass finds another one, so that the
\* loop, which nothing but the last device ends, takes at most one pass more than that.
THEOREM SearchNeedsFewPasses == Spec => [](Listing /\ ~disturbed => Len(devices) <= Cardinality(present))
<1>1. IInv => (Listing /\ ~disturbed => Len(devices) <= Cardinality(present))
  <2>. SUFFICES ASSUME IInv, Listing, ~disturbed
                PROVE  Len(devices) <= Cardinality(present)
    OBVIOUS
  <2>1. TypeOK
    BY DEF IInv, SoundInv
  <2>2. Wanted \subseteq present
    BY DEF Wanted
  <2>3. present \in SUBSET Chips /\ Range(devices) \subseteq present
    BY <2>1, <2>2 DEF TypeOK, IInv, OnlyWanted
  <2>. QED
    BY <2>1, <2>3, OrderedListIsShort DEF IInv, NoneSkipped
<1>. QED
  BY <1>1, InitIInv, NextIInv, PTL DEF Spec

=============================================================================

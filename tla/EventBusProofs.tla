--------------------------- MODULE EventBusProofs ---------------------------
(* What TLAPS proves about EventBus, for any number of publishers and         *)
(* consumers, any capacity of the ring and any deployment.                    *)
EXTENDS EventBus, FiniteSetTheorems, SequenceTheorems, WellFoundedInduction, TLAPS

(* Numbers, slots and minima *)

\* A set of integers that is bounded below has a least element.
LEMMA LeastElement ==
  ASSUME NEW S \in SUBSET Int, NEW b \in Int, \A x \in S : x >= b, S # {}
  PROVE  MinOf(S) \in S /\ \A y \in S : MinOf(S) <= y
<1> DEFINE T == {x - b : x \in S}
           Below == {ss \in Nat \X Nat : ss[1] < ss[2]}
<1>1. T \subseteq Nat /\ T # {}
  <2>1. \A x \in S : x - b \in Nat
    OBVIOUS
  <2> QED
    BY <2>1, Zenon
<1>2. IsWellFoundedOn(Below, Nat)
  BY NatLessThanWellFounded DEF OpToRel
<1> HIDE DEF T
<1>3. PICK z \in T : \A y \in T : <<y, z>> \notin Below
  BY <1>1, <1>2, WFMin, Zenon
<1>4. ASSUME NEW y \in T PROVE z <= y
  <2>1. <<y, z>> \in Nat \X Nat /\ <<y, z>> \notin Below
    BY <1>1, <1>3
  <2>2. <<y, z>>[1] = y /\ <<y, z>>[2] = z
    OBVIOUS
  <2>3. ~ (y < z)
    BY <2>1, <2>2, Zenon
  <2> QED
    BY <1>1, <2>3
<1> USE DEF T
<1>5. PICK x \in S : z = x - b
  BY <1>3
<1>6. \A y \in S : x <= y
  BY <1>4, <1>5
<1> QED
  BY <1>6 DEF MinOf

\* Every sequence has a slot, and a lap lies between two sequences of one slot.
LEMMA SlotType == ASSUME TypeOK, NEW s \in Int PROVE Slot(s) \in Slots
BY BusAssumption DEF TypeOK, LineType, Slot, Slots, Capacity

LEMMA SlotApart ==
  ASSUME TypeOK, NEW s \in Int, NEW t \in Int, Slot(s) = Slot(t), s < t
  PROVE  s + Capacity <= t
<1> DEFINE C == Capacity
<1>1. C \in Nat /\ C > 0
  BY BusAssumption DEF TypeOK, LineType, Capacity
<1>2. \A x \in Int : x = C * (x \div C) + (x % C) /\ x \div C \in Int
  BY <1>1
<1> HIDE DEF C
<1>3. t - s = C * ((t \div C) - (s \div C))
  BY <1>1, <1>2 DEF Slot, C
<1>4. (t \div C) - (s \div C) >= 1
  BY <1>1, <1>2, <1>3
<1> QED
  BY <1>1, <1>2, <1>3, <1>4 DEF C

\* A publish takes one sequence, a batch half a ring of them.
LEMMA SizeType == ASSUME TypeOK, NEW p \in Publishers PROVE SizeOf(p) \in 1 .. Capacity
BY BusAssumption DEF TypeOK, LineType, SizeOf, Capacity, Batchers

-----------------------------------------------------------------------------
(* Types and stages *)

LEMMA PubFields ==
  ASSUME NEW r \in PubRecords
  PROVE  /\ r.pc \in PubPlaces /\ r.seq \in Int /\ r.min \in Int /\ r.todo \in SUBSET Int
         /\ r.calls \in Nat /\ r.run \in Nat
BY DEF PubRecords

LEMMA PubConstants ==
  /\ -1 \in Int /\ {} \in SUBSET Int
  /\ "idle" \in PubPlaces /\ "claim" \in PubPlaces /\ "putBack" \in PubPlaces
  /\ "try" \in PubPlaces /\ "cas" \in PubPlaces /\ "wrap" \in PubPlaces
  /\ "scan" \in PubPlaces /\ "store" \in PubPlaces /\ "reclaim" \in PubPlaces
  /\ "fence" \in PubPlaces /\ "fenceStore" \in PubPlaces /\ "write" \in PubPlaces
  /\ "stamp" \in PubPlaces /\ "resolve" \in PubPlaces
BY DEF PubPlaces, Inside

LEMMA ConConstants ==
  /\ -1 \in Positions /\ "top" \in ConPlaces /\ "slot" \in ConPlaces
  /\ "deliver" \in ConPlaces /\ "commit" \in ConPlaces /\ "await" \in ConPlaces
  /\ "drain" \in ConPlaces /\ "joined" \in ConPlaces
BY DEF ConPlaces, Positions

LEMMA PubRecord ==
  ASSUME TypeOK, NEW p \in Publishers
  PROVE  pub[p] \in PubRecords
BY DEF TypeOK, PubType

\* A step of one publisher changes its own record only.
LEMMA PubStep ==
  ASSUME TypeOK, NEW p \in Publishers, NEW r \in PubRecords, Pub(p, r), bus' = bus
  PROVE  /\ PubType' /\ pub'[p] = r
         /\ \A q \in Publishers : q # p => pub'[q] = pub[q]
BY DEF TypeOK, PubType, Pub

\* A publisher that keeps to its stages disturbs nobody else's.
LEMMA StageKept ==
  ASSUME TypeOK, StageInv, NEW p \in Publishers, bus' = bus,
         UNCHANGED <<running, sealed, control>>,
         \A q \in Publishers : q # p => pub'[q] = pub[q],
         StageOf(p)', Outside(p) => running /\ control # "opening"
  PROVE  StageInv'
<1>1. \A q \in Publishers : q # p => StageOf(q)'
  BY DEF StageInv, StageOf, Held, SizeOf, Bounded, Batchers, Capacity
<1>2. \A q \in Publishers : StageOf(q)'
  BY <1>1
<1>3. Down' = Down
  BY DEF Down
<1>4. ~Down \/ sealed
  BY DEF StageInv, Down, Outside
<1> QED
  BY <1>2, <1>3, <1>4 DEF StageInv, Outside, Down

\* Back at the caller.
LEMMA BackStage ==
  ASSUME TypeOK, NEW p \in Publishers, bus' = bus, Back(p)
  PROVE  /\ PubType' /\ StageOf(p)' /\ pub'[p].pc = "idle"
         /\ \A q \in Publishers : q # p => pub'[q] = pub[q]
<1> DEFINE r == [NoPub EXCEPT !.calls = pub[p].calls]
<1>1. r \in PubRecords /\ r.pc = "idle"
  BY DEF TypeOK, PubType, NoPub, PubRecords, PubPlaces
<1> HIDE DEF r
<1>2. Pub(p, r)
  BY DEF Back, r
<1>3. PubType' /\ pub'[p] = r /\ \A q \in Publishers : q # p => pub'[q] = pub[q]
  BY <1>1, <1>2, PubStep
<1> QED
  BY <1>1, <1>3 DEF StageOf, Inside

\* A bounded publisher goes round again, or returns.
LEMMA AgainStage ==
  ASSUME TypeOK, NEW p \in Publishers, bus' = bus, p \in Bounded, TryAgain(p)
  PROVE  /\ PubType' /\ StageOf(p)' /\ pub'[p].pc \in {"idle", "try"}
         /\ \A q \in Publishers : q # p => pub'[q] = pub[q]
<1> DEFINE r == [pub[p] EXCEPT !.pc = "try", !.min = -1, !.todo = {}]
<1>1. CASE Pub(p, r)
  <2>1. r \in PubRecords /\ r.pc = "try"
    BY PubRecord, PubConstants DEF PubRecords
  <2> HIDE DEF r
  <2>2. PubType' /\ pub'[p] = r /\ \A q \in Publishers : q # p => pub'[q] = pub[q]
    BY <1>1, <2>1, PubStep
  <2>3. p \in Bounded' /\ pub'[p].pc = "try"
    BY <2>1, <2>2 DEF Bounded
  <2> QED
    BY <2>2, <2>3 DEF StageOf, Inside
<1> QED
  BY <1>1, BackStage DEF TryAgain

\* A publisher's step that leaves everything else alone.
LEMMA TypeKept ==
  ASSUME TypeOK, PubType', UNCHANGED <<bus, running, line, ring, closing, control, con, history>>
  PROVE  TypeOK'
BY DEF TypeOK, LineType, RingType, PubType, ConType, HistoryType, line, ring, closing, history,
       Slots, Capacity, Consumers, Required, Optional

\* What a publisher holds does not change while it moves on.
Moved(p, places) ==
  /\ pub'[p].pc \in places /\ pub'[p].seq = pub[p].seq
  /\ pub'[p].calls = pub[p].calls /\ pub'[p].run = pub[p].run
Others(p) == \A q \in Publishers : q # p => pub'[q] = pub[q]

LEMMA HeldMoved ==
  ASSUME NEW p \in Publishers, bus' = bus, pub'[p].seq = pub[p].seq
  PROVE  Held(p)' = Held(p) /\ SizeOf(p)' = SizeOf(p)
BY DEF Held, SizeOf, Batchers, Capacity

LEMMA HeldType == ASSUME TypeOK, NEW p \in Publishers
                  PROVE  Held(p) \in SUBSET Int /\ pub[p].seq \in Held(p)
                         /\ \A s \in Held(p) : s >= pub[p].seq - SizeOf(p) + 1 /\ s <= pub[p].seq
BY SizeType, PubRecord, BusAssumption DEF Held, PubRecords, TypeOK, LineType, Capacity

\* MinOf of what is still to be written is one of them.
LEMMA FirstToWrite ==
  ASSUME TypeOK, StageInv, NEW p \in Publishers, pub[p].pc = "write"
  PROVE  /\ MinOf(pub[p].todo) \in pub[p].todo /\ MinOf(pub[p].todo) \in Held(p)
         /\ \A s \in pub[p].todo : MinOf(pub[p].todo) <= s
<1>1. pub[p].todo \in SUBSET Int /\ pub[p].todo # {} /\ pub[p].todo \subseteq Held(p)
  BY PubRecord DEF StageInv, StageOf, PubRecords
<1> DEFINE b == pub[p].seq - SizeOf(p) + 1
<1>2. b \in Int
  BY SizeType, PubRecord, BusAssumption DEF PubRecords, TypeOK, LineType, Capacity
<1>3. \A s \in pub[p].todo : s >= b
  BY <1>1, HeldType
<1> HIDE DEF b
<1> QED
  BY <1>1, <1>2, <1>3, LeastElement

\* The claims of one publish, each with its own sequence.
LEMMA ClaimsType ==
  ASSUME TypeOK, NEW p \in Publishers, NEW n \in Int
  PROVE  /\ ClaimsOf(p, n) \subseteq ClaimRecords
         /\ \A x \in ClaimsOf(p, n) : /\ x.run = run /\ x.ev = <<p, pub[p].calls, n - x.seq>>
                                     /\ x.seq >= n - SizeOf(p) + 1 /\ x.seq <= n
<1>1. pub[p].calls \in Nat /\ run \in Nat /\ SizeOf(p) \in Int
  BY PubRecord, SizeType, BusAssumption DEF TypeOK, LineType, PubRecords, Capacity
<1>2. ASSUME NEW s \in n - SizeOf(p) + 1 .. n
      PROVE  [run |-> run, seq |-> s, ev |-> <<p, pub[p].calls, n - s>>] \in ClaimRecords
  <2>1. s \in Int /\ n - s \in Int
    BY <1>1
  <2>2. <<p, pub[p].calls, n - s>> \in Publishers \X Nat \X Int
    BY <1>1, <2>1
  <2> QED
    BY <1>1, <2>1, <2>2 DEF ClaimRecords, Events
<1>3. ClaimsOf(p, n) \subseteq ClaimRecords
  BY <1>2 DEF ClaimsOf
<1> QED
  BY <1>1, <1>3 DEF ClaimsOf

\* What each operation of a publisher does to its record; all of them keep types and stages.
LEMMA EnterStep ==
  ASSUME TypeOK, StageInv, NEW p \in Publishers, bus' = bus, Enter(p)
  PROVE  /\ TypeOK' /\ StageInv' /\ Others(p)
         /\ pub'[p].pc \in {"try", "claim"} /\ pub'[p].todo = {}
<1> DEFINE r == [NoPub EXCEPT !.pc = IF p \in Bounded THEN "try" ELSE "claim",
                              !.calls = pub[p].calls + 1]
<1>1. pub[p].calls + 1 \in Nat
  BY PubRecord DEF PubRecords
<1>2. r \in PubRecords /\ r.pc = (IF p \in Bounded THEN "try" ELSE "claim") /\ r.todo = {}
  BY <1>1, PubConstants DEF PubRecords, NoPub
<1> HIDE DEF r
<1>3. PubType' /\ pub'[p] = r /\ Others(p)
  BY <1>2, PubStep DEF Enter, Others, r
<1>4. StageOf(p)'
  BY <1>2, <1>3 DEF StageOf, Inside, Bounded
<1>5. TypeOK'
  BY <1>3, TypeKept DEF Enter
<1> QED
  BY <1>2, <1>3, <1>4, <1>5, StageKept DEF Enter, Others, closing

LEMMA ClaimLineStep ==
  ASSUME TypeOK, StageInv, NEW p \in Publishers, bus' = bus, ClaimLine(p)
  PROVE  /\ TypeOK' /\ StageInv' /\ Others(p)
         /\ pub'[p].pc = (IF next < -1 THEN "putBack" ELSE "wrap") /\ pub'[p].seq = next + SizeOf(p)
         /\ pub'[p].calls = pub[p].calls /\ pub'[p].run = run
<1> DEFINE a == IF next < -1 THEN "putBack" ELSE "wrap"
           n == next + SizeOf(p)
           r == [[pub[p] EXCEPT !.seq = n, !.run = run] EXCEPT !.pc = a]
<1>1. n \in Int /\ run \in Nat /\ a \in PubPlaces /\ next \in Int
  BY SizeType, PubConstants, BusAssumption DEF TypeOK, LineType, Capacity
<1>2. r \in PubRecords /\ r.pc = a /\ r.seq = n /\ r.calls = pub[p].calls /\ r.run = run
  <2> HIDE DEF a, n
  <2> QED
    BY <1>1, PubRecord DEF PubRecords
<1>3. Pub(p, r)
  BY DEF ClaimLine
<1> HIDE DEF r
<1>4. PubType' /\ pub'[p] = r /\ Others(p)
  BY <1>2, <1>3, PubStep DEF Others
<1>5. StageOf(p)'
  <2>1. p \notin Bounded
    BY DEF StageInv, StageOf, ClaimLine
  <2>2. p \notin Bounded'
    BY <2>1 DEF Bounded
  <2> QED
    BY <1>2, <1>4, <2>2 DEF StageOf
<1>6. claimed' \subseteq ClaimRecords
  <2>1. claimed \subseteq ClaimRecords /\ claimed' \subseteq claimed \cup ClaimsOf(p, n)
    BY DEF TypeOK, HistoryType, ClaimLine
  <2> QED
    BY <1>1, <2>1, ClaimsType
<1>7. TypeOK'
  BY <1>1, <1>4, <1>6 DEF ClaimLine, TypeOK, LineType, RingType, ConType, HistoryType, ring, closing, Slots,
       Capacity, Consumers, Required, Optional
<1>8. StageInv'
  BY <1>4, <1>5, StageKept DEF ClaimLine, Others, closing, Outside
<1> QED
  BY <1>2, <1>4, <1>7, <1>8

LEMMA PutBackStep ==
  ASSUME TypeOK, StageInv, NEW p \in Publishers, bus' = bus, PutBack(p)
  PROVE  TypeOK' /\ StageInv' /\ Others(p) /\ pub'[p].pc = "idle"
<1>1. PubType' /\ StageOf(p)' /\ pub'[p].pc = "idle" /\ Others(p)
  BY BackStage DEF PutBack, Others
<1>2. next' \in Int
  BY SizeType, BusAssumption DEF PutBack, TypeOK, LineType, Capacity
<1>3. TypeOK'
  BY <1>1, <1>2 DEF PutBack, TypeOK, LineType, RingType, ConType, HistoryType, ring, closing,
       history, Slots, Capacity, Consumers, Required, Optional
<1>4. StageInv'
  BY <1>1, StageKept DEF PutBack, Others, closing, Outside
<1> QED
  BY <1>1, <1>3, <1>4

LEMMA TryLineStep ==
  ASSUME TypeOK, StageInv, NEW p \in Publishers, bus' = bus, TryLine(p)
  PROVE  /\ TypeOK' /\ StageInv' /\ Others(p)
         /\ \/ pub'[p].pc = "idle"
            \/ next >= -1 /\ pub'[p].pc = "wrap" /\ pub'[p].seq = next + 1
<1>1. CASE Back(p)
  <2>1. PubType' /\ StageOf(p)' /\ pub'[p].pc = "idle" /\ Others(p)
    BY <1>1, BackStage DEF Others
  <2> QED
    BY <2>1, StageKept, TypeKept DEF TryLine, Others, closing, Outside
<1> DEFINE n == next + 1
           r == [pub[p] EXCEPT !.pc = "wrap", !.seq = n]
<1>2. CASE next >= -1 /\ Pub(p, r)
  <2>1. n \in Int /\ n >= 0
    BY <1>2 DEF TypeOK, LineType
  <2>2. r \in PubRecords /\ r.pc = "wrap" /\ r.seq = n
    <3> HIDE DEF n
    <3> QED
      BY <2>1, PubRecord, PubConstants DEF PubRecords
  <2> HIDE DEF r
  <2>3. PubType' /\ pub'[p] = r /\ Others(p)
    BY <1>2, <2>2, PubStep DEF Others
  <2>4. StageOf(p)'
    <3>1. p \in Bounded'
      BY DEF StageInv, StageOf, TryLine, Bounded
    <3> QED
      BY <2>1, <2>2, <2>3, <3>1 DEF StageOf
  <2> QED
    BY <1>2, <2>2, <2>3, <2>4, StageKept, TypeKept DEF TryLine, Others, closing, Outside
<1> QED
  BY <1>1, <1>2 DEF TryLine

Gates == {"wrap", "scan", "store", "reclaim", "fence", "fenceStore"}

\* From one place at the gates to another.
LEMMA GateMove ==
  ASSUME TypeOK, StageInv, NEW p \in Publishers, bus' = bus, NEW r \in PubRecords, Pub(p, r),
         UNCHANGED <<running, sealed, control>>, pub[p].pc \in Gates, r.pc \in Gates,
         r.seq = pub[p].seq, r.calls = pub[p].calls, r.run = pub[p].run
  PROVE  PubType' /\ StageInv' /\ Others(p) /\ Moved(p, {r.pc})
<1>1. PubType' /\ pub'[p] = r /\ Others(p)
  BY PubStep DEF Others
<1>2. StageOf(p)'
  <2>1. StageOf(p) /\ pub[p].pc \in Inside /\ Bounded' = Bounded
    BY DEF StageInv, Gates, Inside, Bounded
  <2> QED
    BY <1>1, <2>1 DEF StageOf, Gates
<1> QED
  BY <1>1, <1>2, StageKept DEF Others, Moved, Outside, Gates

LEMMA MinTypes ==
  ASSUME TypeOK
  PROVE  /\ MinGating \in Int /\ MinConsumed \in Int
         /\ \A c \in Consumers : MinConsumed <= con[c].seq
<1>1. ASSUME NEW S \in SUBSET Consumers, S # {}
      PROVE  LET m == MinOf({con[c].seq : c \in S})
             IN m \in Int /\ \A c \in S : m <= con[c].seq
  <2> DEFINE T == {con[c].seq : c \in S}
  <2>1. \A x \in T : x \in Int /\ x >= -1
    BY DEF TypeOK, ConType, ConRecords, Positions
  <2>2. T \in SUBSET Int /\ T # {} /\ -1 \in Int
    BY <1>1, <2>1
  <2>3. MinOf(T) \in T /\ \A y \in T : MinOf(T) <= y
    <3> HIDE DEF T
    <3> QED
      BY <2>1, <2>2, LeastElement
  <2> QED
    BY <2>1, <2>3
<1>2. MinGating \in Int
  BY <1>1 DEF MinGating, Consumers, TypeOK, LineType
<1>3. MinConsumed \in Int /\ \A c \in Consumers : MinConsumed <= con[c].seq
  <2>1. CASE Consumers = {}
    BY <2>1, ClosedAssumption DEF MinConsumed
  <2>2. CASE Consumers # {}
    <3>1. MinConsumed = MinOf({con[c].seq : c \in Consumers}) /\ Consumers \in SUBSET Consumers
      BY <2>2 DEF MinConsumed
    <3> QED
      BY <1>1, <2>2, <3>1, Zenon
  <2> QED
    BY <2>1, <2>2
<1> QED
  BY <1>2, <1>3

LEMMA WrapLookStep ==
  ASSUME TypeOK, StageInv, NEW p \in Publishers, bus' = bus, WrapLook(p)
  PROVE  TypeOK' /\ StageInv' /\ Others(p) /\ Moved(p, {"reclaim", "scan"})
<1> DEFINE a == IF Wrap(p) <= cachedMin THEN "reclaim" ELSE "scan"
           r == [pub[p] EXCEPT !.pc = a]
<1>1. a \in PubPlaces /\ a \in {"reclaim", "scan"}
  BY PubConstants
<1>2. /\ r \in PubRecords /\ r.pc = a /\ r.seq = pub[p].seq
      /\ r.calls = pub[p].calls /\ r.run = pub[p].run
  <2> HIDE DEF a
  <2> QED
    BY <1>1, PubRecord DEF PubRecords
<1>3. Pub(p, r)
  BY DEF WrapLook
<1> HIDE DEF a, r
<1>4. PubType' /\ StageInv' /\ Others(p) /\ Moved(p, {a})
  BY <1>1, <1>2, <1>3, GateMove DEF WrapLook, Gates, closing
<1>5. TypeOK'
  BY <1>4, TypeKept DEF WrapLook
<1> QED
  BY <1>1, <1>4, <1>5 DEF Moved

\* A blocking publisher that gives up, and one that has resolved what it published.
LEMMA AbandonStep ==
  ASSUME TypeOK, StageInv, NEW p \in Publishers, bus' = bus, Abandon(p),
         UNCHANGED <<running, control>>, ~Outside(p)
  PROVE  /\ PubType' /\ StageInv' /\ Others(p) /\ pub'[p].pc = "idle"
         /\ resolved' \in Nat
<1>1. PubType' /\ StageOf(p)' /\ pub'[p].pc = "idle" /\ Others(p)
  BY BackStage DEF Abandon, Others
<1>2. resolved' \in Nat
  BY SizeType, BusAssumption DEF Abandon, TypeOK, LineType, Capacity
<1> QED
  BY <1>1, <1>2, StageKept DEF Abandon, Others

LEMMA WrapScanStep ==
  ASSUME TypeOK, StageInv, NEW p \in Publishers, bus' = bus, WrapScan(p)
  PROVE  /\ TypeOK' /\ StageInv' /\ Others(p)
         /\ \/ p \notin Bounded /\ pub'[p].pc = "idle" /\ Abandon(p)
            \/ Moved(p, {"store"}) /\ UNCHANGED closing
<1>1. CASE p \notin Bounded /\ Abandon(p)
  <2>1. PubType' /\ StageInv' /\ Others(p) /\ pub'[p].pc = "idle" /\ resolved' \in Nat
    BY <1>1, AbandonStep DEF WrapScan, Outside
  <2>2. TypeOK'
    BY <1>1, <2>1 DEF WrapScan, Abandon, TypeOK, LineType, RingType, ConType, HistoryType,
         line, ring, history, Slots, Capacity, Consumers, Required, Optional
  <2> QED
    BY <1>1, <2>1, <2>2
<1> DEFINE r == [pub[p] EXCEPT !.pc = "store", !.min = MinGating]
<1>2. CASE Pub(p, r) /\ UNCHANGED closing
  <2>1. /\ r \in PubRecords /\ r.pc = "store" /\ r.seq = pub[p].seq
        /\ r.calls = pub[p].calls /\ r.run = pub[p].run
    BY PubRecord, PubConstants, MinTypes DEF PubRecords
  <2> HIDE DEF r
  <2>2. PubType' /\ StageInv' /\ Others(p) /\ Moved(p, {"store"})
    BY <1>2, <2>1, GateMove DEF WrapScan, Gates, closing
  <2> QED
    BY <1>2, <2>2, TypeKept DEF WrapScan
<1> QED
  BY <1>1, <1>2 DEF WrapScan

LEMMA WrapStoreStep ==
  ASSUME TypeOK, StageInv, NEW p \in Publishers, bus' = bus, WrapStore(p)
  PROVE  /\ TypeOK' /\ StageInv' /\ Others(p)
         /\ \/ p \in Bounded /\ pub'[p].pc \in {"idle", "try"}
            \/ Moved(p, {"reclaim", "scan"})
<1>1. cachedMin' \in Int
  BY PubRecord DEF WrapStore, PubRecords
<1>2. ASSUME PubType' PROVE TypeOK'
  BY <1>1, <1>2 DEF WrapStore, TypeOK, LineType, RingType, ConType, HistoryType,
       ring, closing, history, Slots, Capacity, Consumers, Required, Optional
<1>3. CASE p \in Bounded /\ TryAgain(p)
  <2>1. PubType' /\ StageOf(p)' /\ pub'[p].pc \in {"idle", "try"} /\ Others(p)
    BY <1>3, AgainStage DEF Others
  <2>2. StageInv'
    BY <2>1, StageKept DEF WrapStore, Others, closing, Outside
  <2> QED
    BY <1>2, <1>3, <2>1, <2>2
<1>4. ASSUME NEW r \in PubRecords, Pub(p, r), r.pc \in {"reclaim", "scan"}, r.seq = pub[p].seq,
             r.calls = pub[p].calls, r.run = pub[p].run
      PROVE  TypeOK' /\ StageInv' /\ Others(p) /\ Moved(p, {"reclaim", "scan"})
  <2>1. PubType' /\ StageInv' /\ Others(p) /\ Moved(p, {r.pc})
    BY <1>4, GateMove DEF WrapStore, Gates, closing
  <2> QED
    BY <1>2, <1>4, <2>1 DEF Moved
<1> DEFINE r1 == [pub[p] EXCEPT !.pc = "reclaim"]
           r2 == [pub[p] EXCEPT !.pc = "scan", !.min = -1]
<1>5. /\ r1 \in PubRecords /\ r1.pc = "reclaim" /\ r1.seq = pub[p].seq
      /\ r1.calls = pub[p].calls /\ r1.run = pub[p].run
  BY PubRecord, PubConstants DEF PubRecords
<1>6. /\ r2 \in PubRecords /\ r2.pc = "scan" /\ r2.seq = pub[p].seq
      /\ r2.calls = pub[p].calls /\ r2.run = pub[p].run
  BY PubRecord, PubConstants DEF PubRecords
<1>7. (p \in Bounded /\ TryAgain(p)) \/ Pub(p, r1) \/ Pub(p, r2)
  BY DEF WrapStore
<1> HIDE DEF r1, r2
<1>8. CASE Pub(p, r1)
  BY <1>4, <1>5, <1>8
<1>9. CASE Pub(p, r2)
  BY <1>4, <1>6, <1>9
<1> QED
  BY <1>3, <1>7, <1>8, <1>9

\* Past the fence: everything is still to be written.
LEMMA AdmitStep ==
  ASSUME TypeOK, StageInv, NEW p \in Publishers, bus' = bus, Pub(p, Admitted(p)),
         UNCHANGED <<running, sealed, control>>, pub[p].pc \in Gates
  PROVE  /\ PubType' /\ StageInv' /\ Others(p) /\ Moved(p, {"cas", "write"})
         /\ pub'[p].todo = Held(p) /\ pub'[p].pc = (IF p \in Bounded THEN "cas" ELSE "write")
<1> DEFINE a == IF p \in Bounded THEN "cas" ELSE "write"
           H == Held(p)
           r == [pub[p] EXCEPT !.pc = a, !.min = -1, !.todo = H]
<1>1. a \in PubPlaces /\ a \in {"cas", "write"} /\ (p \in Bounded <=> a = "cas") /\ H \in SUBSET Int /\ H # {}
  BY PubConstants, HeldType
<1>2. /\ r \in PubRecords /\ r.pc = a /\ r.seq = pub[p].seq /\ r.todo = H
      /\ r.calls = pub[p].calls /\ r.run = pub[p].run
  <2> HIDE DEF a, H
  <2> QED
    BY <1>1, PubRecord, PubConstants DEF PubRecords
<1>3. Pub(p, r)
  BY DEF Admitted
<1> HIDE DEF r, a
<1>4. PubType' /\ pub'[p] = r /\ Others(p)
  BY <1>2, <1>3, PubStep DEF Others
<1>5. Held(p)' = H /\ Bounded' = Bounded
  BY <1>2, <1>4, HeldMoved DEF Bounded
<1>6. StageOf(p)'
  <2>1. StageOf(p) /\ pub[p].pc \in Inside
    BY DEF StageInv, Gates, Inside
  <2> HIDE DEF H
  <2> QED
    BY <1>1, <1>2, <1>4, <1>5, <2>1 DEF StageOf
<1>7. StageInv'
  BY <1>4, <1>6, StageKept DEF Others, Outside, Gates
<1> QED
  BY <1>1, <1>2, <1>4, <1>7 DEF Moved, a

LEMMA ReclaimLookStep ==
  ASSUME TypeOK, StageInv, NEW p \in Publishers, bus' = bus, ReclaimLook(p)
  PROVE  /\ TypeOK' /\ StageInv' /\ Others(p)
         /\ \/ Moved(p, {"fence"})
            \/ /\ Wrap(p) < 0 \/ cachedMinConsumed >= Wrap(p)
               /\ Moved(p, {"cas", "write"}) /\ pub'[p].todo = Held(p)
               /\ pub'[p].pc = (IF p \in Bounded THEN "cas" ELSE "write")
<1> DEFINE r == [pub[p] EXCEPT !.pc = "fence"]
<1>1. CASE Pub(p, r)
  <2>1. /\ r \in PubRecords /\ r.pc = "fence" /\ r.seq = pub[p].seq
        /\ r.calls = pub[p].calls /\ r.run = pub[p].run
    BY PubRecord, PubConstants DEF PubRecords
  <2> HIDE DEF r
  <2>2. PubType' /\ StageInv' /\ Others(p) /\ Moved(p, {r.pc})
    BY <1>1, <2>1, GateMove DEF ReclaimLook, Gates, closing
  <2> QED
    BY <2>1, <2>2, TypeKept DEF ReclaimLook
<1>2. CASE (Wrap(p) < 0 \/ cachedMinConsumed >= Wrap(p)) /\ Pub(p, Admitted(p))
  <2>1. /\ PubType' /\ StageInv' /\ Others(p) /\ Moved(p, {"cas", "write"})
        /\ pub'[p].todo = Held(p) /\ pub'[p].pc = (IF p \in Bounded THEN "cas" ELSE "write")
    BY <1>2, AdmitStep DEF ReclaimLook, Gates, closing
  <2>2. TypeOK'
    BY <2>1, TypeKept DEF ReclaimLook
  <2> QED
    BY <1>2, <2>1, <2>2
<1> QED
  BY <1>1, <1>2 DEF ReclaimLook

LEMMA FenceScanStep ==
  ASSUME TypeOK, StageInv, NEW p \in Publishers, bus' = bus, FenceScan(p)
  PROVE  /\ TypeOK' /\ StageInv' /\ Others(p)
         /\ \/ /\ Moved(p, {"fenceStore"}) /\ pub'[p].min = MinConsumed
               /\ MinConsumed >= Wrap(p) /\ UNCHANGED closing
            \/ p \notin Bounded /\ pub'[p].pc = "idle" /\ Abandon(p)
            \/ p \in Bounded /\ pub'[p].pc \in {"idle", "try"} /\ UNCHANGED closing
<1> DEFINE r == [pub[p] EXCEPT !.pc = "fenceStore", !.min = MinConsumed]
<1>1. CASE MinConsumed >= Wrap(p) /\ Pub(p, r) /\ UNCHANGED closing
  <2>1. /\ r \in PubRecords /\ r.pc = "fenceStore" /\ r.seq = pub[p].seq /\ r.min = MinConsumed
        /\ r.calls = pub[p].calls /\ r.run = pub[p].run
    BY PubRecord, PubConstants, MinTypes DEF PubRecords
  <2> HIDE DEF r
  <2>2. PubType' /\ StageInv' /\ Others(p) /\ Moved(p, {r.pc}) /\ pub'[p] = r
    BY <1>1, <2>1, GateMove, PubStep DEF FenceScan, Gates, closing
  <2>3. TypeOK'
    BY <1>1, <2>2, TypeKept DEF FenceScan
  <2> QED
    BY <1>1, <2>1, <2>2, <2>3
<1>2. CASE p \notin Bounded /\ Abandon(p)
  <2>1. PubType' /\ StageInv' /\ Others(p) /\ pub'[p].pc = "idle" /\ resolved' \in Nat
    BY <1>2, AbandonStep DEF FenceScan, Outside
  <2>2. TypeOK'
    BY <1>2, <2>1 DEF FenceScan, Abandon, TypeOK, LineType, RingType, ConType, HistoryType,
         line, ring, history, Slots, Capacity, Consumers, Required, Optional
  <2> QED
    BY <1>2, <2>1, <2>2
<1>3. CASE p \in Bounded /\ TryAgain(p) /\ UNCHANGED closing
  <2>1. PubType' /\ StageOf(p)' /\ pub'[p].pc \in {"idle", "try"} /\ Others(p)
    BY <1>3, AgainStage DEF Others
  <2>2. StageInv'
    BY <1>3, <2>1, StageKept DEF FenceScan, Others, closing, Outside
  <2>3. TypeOK'
    BY <1>3, <2>1, TypeKept DEF FenceScan
  <2> QED
    BY <1>3, <2>1, <2>2, <2>3
<1> QED
  BY <1>1, <1>2, <1>3 DEF FenceScan

LEMMA FenceStoreStep ==
  ASSUME TypeOK, StageInv, NEW p \in Publishers, bus' = bus, FenceStore(p)
  PROVE  /\ TypeOK' /\ StageInv' /\ Others(p) /\ Moved(p, {"cas", "write"})
         /\ pub'[p].todo = Held(p) /\ pub'[p].pc = (IF p \in Bounded THEN "cas" ELSE "write")
<1>1. cachedMinConsumed' \in Int
  BY PubRecord DEF FenceStore, PubRecords
<1>2. /\ PubType' /\ StageInv' /\ Others(p) /\ Moved(p, {"cas", "write"})
      /\ pub'[p].todo = Held(p) /\ pub'[p].pc = (IF p \in Bounded THEN "cas" ELSE "write")
  BY AdmitStep DEF FenceStore, Gates, closing
<1>3. TypeOK'
  BY <1>1, <1>2 DEF FenceStore, TypeOK, LineType, RingType, ConType, HistoryType,
       ring, closing, history, Slots, Capacity, Consumers, Required, Optional
<1> QED
  BY <1>2, <1>3

LEMMA ExchangeStep ==
  ASSUME TypeOK, StageInv, NEW p \in Publishers, bus' = bus, Exchange(p)
  PROVE  /\ TypeOK' /\ StageInv' /\ Others(p) /\ p \in Bounded
         /\ \/ pub'[p].pc \in {"idle", "try"} /\ UNCHANGED <<next, claimed>>
            \/ /\ pub'[p].pc = "write" /\ pub'[p].seq = pub[p].seq /\ pub'[p].run = run
               /\ pub'[p].calls = pub[p].calls /\ pub'[p].todo = Held(p)
               /\ next = pub[p].seq - 1 /\ next' = pub[p].seq
               /\ claimed' = claimed \cup ClaimsOf(p, pub[p].seq)
<1>1. StageOf(p) /\ p \in Bounded /\ pub[p].pc = "cas"
  BY DEF StageInv, StageOf, Exchange
<1>2. CASE TryAgain(p) /\ UNCHANGED <<next, claimed>>
  <2>1. PubType' /\ StageOf(p)' /\ pub'[p].pc \in {"idle", "try"} /\ Others(p)
    BY <1>1, <1>2, AgainStage DEF Others
  <2>2. StageInv'
    BY <1>1, <2>1, StageKept DEF Exchange, Others, closing, Outside
  <2>3. TypeOK'
    BY <1>2, <2>1, TypeKept DEF Exchange, line, history
  <2> QED
    BY <1>1, <1>2, <2>1, <2>2, <2>3
<1> DEFINE r == [pub[p] EXCEPT !.pc = "write", !.run = run]
<1>3. CASE /\ next = pub[p].seq - 1 /\ next' = pub[p].seq /\ Pub(p, r)
           /\ claimed' = claimed \cup ClaimsOf(p, pub[p].seq)
  <2>1. /\ r \in PubRecords /\ r.pc = "write" /\ r.seq = pub[p].seq /\ r.todo = pub[p].todo
        /\ r.calls = pub[p].calls /\ r.run = run
    BY PubRecord, PubConstants DEF PubRecords, TypeOK, LineType
  <2> HIDE DEF r
  <2>2. PubType' /\ pub'[p] = r /\ Others(p)
    BY <1>3, <2>1, PubStep DEF Others
  <2>3. Held(p)' = Held(p) /\ Bounded' = Bounded
    BY <2>1, <2>2, HeldMoved DEF Bounded
  <2>4. StageOf(p)'
    BY <1>1, <2>1, <2>2, <2>3 DEF StageOf, Inside
  <2>5. pub[p].seq \in Int
    BY PubRecord DEF PubRecords
  <2>6. claimed' \subseteq ClaimRecords
    BY <1>3, <2>5, ClaimsType DEF TypeOK, HistoryType
  <2>7. TypeOK'
    BY <1>3, <2>2, <2>5, <2>6 DEF Exchange, TypeOK, LineType, RingType, ConType, HistoryType,
       ring, closing, Slots, Capacity, Consumers, Required, Optional
  <2>8. StageInv'
    BY <1>1, <2>2, <2>4, StageKept DEF Exchange, Others, closing, Outside
  <2>9. pub[p].todo = Held(p)
    BY <1>1 DEF StageOf
  <2> QED
    BY <1>1, <1>3, <2>1, <2>2, <2>7, <2>8, <2>9
<1> QED
  BY <1>2, <1>3 DEF Exchange

LEMMA WriteStep ==
  ASSUME TypeOK, StageInv, NEW p \in Publishers, bus' = bus, Write(p)
  PROVE  LET seq == MinOf(pub[p].todo)
             left == pub[p].todo \ {seq}
         IN /\ TypeOK' /\ StageInv' /\ Others(p) /\ Moved(p, {"write", "stamp"})
            /\ pub'[p].pc = (IF left = {} THEN "stamp" ELSE "write")
            /\ pub'[p].todo = (IF left = {} THEN Held(p) ELSE left)
<1> DEFINE seq == MinOf(pub[p].todo)
           left == pub[p].todo \ {seq}
           a == IF left = {} THEN "stamp" ELSE "write"
           S == IF left = {} THEN Held(p) ELSE left
           r == [pub[p] EXCEPT !.todo = S, !.pc = a]
<1>1. StageOf(p) /\ pub[p].pc = "write"
  BY DEF StageInv, Write
<1>2. /\ seq \in pub[p].todo /\ seq \in Held(p) /\ \A s \in pub[p].todo : seq <= s
      /\ pub[p].todo \subseteq Held(p) /\ Held(p) \in SUBSET Int /\ Held(p) # {}
  BY <1>1, FirstToWrite, HeldType DEF StageOf
<1>3. a \in PubPlaces /\ S \in SUBSET Int /\ S \subseteq Held(p) /\ S # {} /\ a \in {"write", "stamp"}
  BY <1>2, PubConstants
<1>4. /\ r \in PubRecords /\ r.pc = a /\ r.seq = pub[p].seq /\ r.todo = S
      /\ r.calls = pub[p].calls /\ r.run = pub[p].run
  <2> HIDE DEF a, S
  <2> QED
    BY <1>3, PubRecord DEF PubRecords
<1>5. Pub(p, r)
  BY DEF Write
<1> HIDE DEF r
<1>6. PubType' /\ pub'[p] = r /\ Others(p)
  BY <1>4, <1>5, PubStep DEF Others
<1>7. Held(p)' = Held(p) /\ Bounded' = Bounded
  BY <1>4, <1>6, HeldMoved DEF Bounded
<1>8. StageOf(p)'
  <2>1. a = "write" => \A s \in Held(p) \ S, t \in S : s < t
    <3> SUFFICES ASSUME left # {}, NEW s \in Held(p) \ left, NEW t \in left
                 PROVE  s < t
      OBVIOUS
    <3>1. CASE s = seq
      BY <1>2, <3>1
    <3>2. CASE s # seq
      BY <1>1, <3>2 DEF StageOf
    <3> QED
      BY <3>1, <3>2
  <2>2. p \in Bounded => pub[p].seq >= 0
    BY <1>1 DEF StageOf, Inside
  <2> HIDE DEF a, S
  <2> QED
    BY <1>3, <1>4, <1>6, <1>7, <2>1, <2>2 DEF StageOf
<1>9. StageInv'
  BY <1>1, <1>6, <1>8, StageKept DEF Write, Others, closing, Outside
<1>10. event' \in [Slots -> Events] /\ constructed' \in [Slots -> BOOLEAN]
  <2>1. EventAt(p, seq) \in Events
    <3>1. pub[p].calls \in Nat /\ pub[p].seq - seq \in Int
      BY <1>2, PubRecord DEF PubRecords
    <3> QED
      BY <3>1 DEF EventAt, Events
  <2>2. event' = [event EXCEPT ![Slot(seq)] = EventAt(p, seq)]
    BY DEF Write
  <2>3. constructed' = [i \in Slots |->
             IF left = {} /\ i \in {Slot(s) : s \in Held(p)} THEN TRUE
             ELSE IF i = Slot(seq) THEN FALSE ELSE constructed[i]]
    BY DEF Write
  <2>4. \A i \in Slots : constructed[i] \in BOOLEAN
    BY DEF TypeOK, RingType
  <2>5. event \in [Slots -> Events]
    BY DEF TypeOK, RingType
  <2>6. event' \in [Slots -> Events]
    BY <2>1, <2>2, <2>5
  <2>7. constructed' \in [Slots -> BOOLEAN]
    BY <2>3, <2>4
  <2> QED
    BY <2>6, <2>7
<1>11. TypeOK'
  <2>1. Slots' = Slots /\ Consumers' = Consumers
    BY DEF Slots, Capacity, Consumers, Required, Optional
  <2> QED
    BY <1>6, <1>10, <2>1 DEF Write, TypeOK, LineType, RingType, ConType, HistoryType,
         line, closing, history
<1> QED
  BY <1>3, <1>4, <1>6, <1>9, <1>11 DEF Moved

LEMMA WriteThrowsStep ==
  ASSUME TypeOK, StageInv, NEW p \in Publishers, bus' = bus, WriteThrows(p)
  PROVE  TypeOK' /\ StageInv' /\ Others(p) /\ pub'[p].pc = "idle"
<1>1. PubType' /\ StageInv' /\ Others(p) /\ pub'[p].pc = "idle" /\ resolved' \in Nat
  BY AbandonStep DEF WriteThrows, Outside
<1>2. constructed' \in [Slots -> BOOLEAN]
  BY DEF WriteThrows, TypeOK, RingType
<1>3. Slots' = Slots /\ Consumers' = Consumers
  BY DEF Slots, Capacity, Consumers, Required, Optional
<1>4. TypeOK'
  BY <1>1, <1>2, <1>3 DEF WriteThrows, Abandon, TypeOK, LineType, RingType, ConType, HistoryType,
         line, history
<1> QED
  BY <1>1, <1>4

LEMMA StampStep ==
  ASSUME TypeOK, StageInv, NEW p \in Publishers, bus' = bus, Stamp(p)
  PROVE  \E seq \in pub[p].todo :
            /\ TypeOK' /\ StageInv' /\ Others(p) /\ Moved(p, {"stamp", "resolve"})
            /\ published' = [published EXCEPT ![Slot(seq)] = seq]
            /\ pub'[p].pc = (IF pub[p].todo = {seq} THEN "resolve" ELSE "stamp")
            /\ pub'[p].todo = pub[p].todo \ {seq}
<1>1. StageOf(p) /\ pub[p].pc = "stamp"
  BY DEF StageInv, Stamp
<1>2. PICK seq \in pub[p].todo :
        /\ published' = [published EXCEPT ![Slot(seq)] = seq]
        /\ Pub(p, [pub[p] EXCEPT !.todo = @ \ {seq},
                                 !.pc = IF pub[p].todo = {seq} THEN "resolve" ELSE @])
  BY DEF Stamp
<1> DEFINE a == IF pub[p].todo = {seq} THEN "resolve" ELSE "stamp"
           S == pub[p].todo \ {seq}
           r == [pub[p] EXCEPT !.todo = S, !.pc = a]
<1>3. a \in PubPlaces /\ S \in SUBSET Int /\ S \subseteq Held(p) /\ (a = "stamp" => S # {}) /\ a \in {"stamp", "resolve"}
      /\ seq \in Int
  BY <1>1, PubConstants, PubRecord DEF PubRecords, StageOf
<1>4. /\ r \in PubRecords /\ r.pc = a /\ r.seq = pub[p].seq /\ r.todo = S
      /\ r.calls = pub[p].calls /\ r.run = pub[p].run
  <2> HIDE DEF a, S
  <2> QED
    BY <1>3, PubRecord DEF PubRecords
<1>5. Pub(p, r)
  BY <1>1, <1>2, PubRecord DEF PubRecords, Pub
<1> HIDE DEF r
<1>6. PubType' /\ pub'[p] = r /\ Others(p)
  BY <1>4, <1>5, PubStep DEF Others
<1>7. Held(p)' = Held(p) /\ Bounded' = Bounded
  BY <1>4, <1>6, HeldMoved DEF Bounded
<1>8. StageOf(p)'
  <2>1. p \in Bounded => pub[p].seq >= 0
    BY <1>1 DEF StageOf, Inside
  <2> HIDE DEF a, S
  <2> QED
    BY <1>3, <1>4, <1>6, <1>7, <2>1 DEF StageOf
<1>9. StageInv'
  BY <1>1, <1>6, <1>8, StageKept DEF Stamp, Others, closing, Outside
<1>10. published' \in [Slots -> Int]
  BY <1>2, <1>3 DEF TypeOK, RingType
<1>11. TypeOK'
  <2>1. Slots' = Slots /\ Consumers' = Consumers
    BY DEF Slots, Capacity, Consumers, Required, Optional
  <2> QED
    BY <1>6, <1>10, <2>1 DEF Stamp, TypeOK, LineType, RingType, ConType, HistoryType,
         line, closing, history
<1> QED
  BY <1>2, <1>3, <1>4, <1>6, <1>9, <1>11 DEF Moved

LEMMA ResolveStep ==
  ASSUME TypeOK, StageInv, NEW p \in Publishers, bus' = bus, Resolve(p)
  PROVE  TypeOK' /\ StageInv' /\ Others(p) /\ pub'[p].pc = "idle"
<1>1. PubType' /\ StageOf(p)' /\ pub'[p].pc = "idle" /\ Others(p)
  BY BackStage DEF Resolve, Others
<1>2. resolved' \in Nat
  BY SizeType, BusAssumption DEF Resolve, TypeOK, LineType, Capacity
<1>3. accepted' \subseteq ClaimRecords
  <2>1. ASSUME NEW s \in Held(p) PROVE Claim(p, s) \in ClaimRecords
    <3>1. pub[p].calls \in Nat /\ pub[p].seq - s \in Int /\ s \in Int /\ pub[p].run \in Nat
      BY PubRecord, HeldType DEF PubRecords
    <3>2. EventAt(p, s) \in Events
      BY <3>1 DEF EventAt, Events
    <3> QED
      BY <3>1, <3>2 DEF Claim, ClaimRecords
  <2> QED
    BY <2>1 DEF Resolve, TypeOK, HistoryType
<1>4. Slots' = Slots /\ Consumers' = Consumers
  BY DEF Slots, Capacity, Consumers, Required, Optional
<1>5. TypeOK'
  BY <1>1, <1>2, <1>3, <1>4 DEF Resolve, TypeOK, LineType, RingType, ConType, HistoryType,
       line, ring
<1>6. StageInv'
  BY <1>1, StageKept DEF Resolve, Others, Outside
<1> QED
  BY <1>1, <1>5, <1>6

\* A consumer's record, and a step that changes it.
LEMMA ConRecord == ASSUME TypeOK, NEW c \in Consumers PROVE con[c] \in ConRecords
BY DEF TypeOK, ConType

OtherCons(c) == \A d \in Consumers : d # c => con'[d] = con[d]

\* Who a consumer is, and where everybody else is, is left alone.
LEMMA ConStep ==
  ASSUME TypeOK, StageInv, NEW c \in Consumers, NEW r \in ConRecords, Con(c, r), bus' = bus,
         UNCHANGED <<running, line, ring, closing, control, pub, run, claimed, accepted>>,
         delivered' \in [Consumers -> Seq(ClaimRecords)]
  PROVE  TypeOK' /\ StageInv' /\ con'[c] = r /\ OtherCons(c)
<1>1. con'[c] = r /\ OtherCons(c) /\ con' \in [Consumers -> ConRecords]
  BY DEF TypeOK, ConType, Con, OtherCons
<1>2. Slots' = Slots /\ Consumers' = Consumers
  BY DEF Slots, Capacity, Consumers, Required, Optional
<1>3. TypeOK'
  BY <1>1, <1>2 DEF TypeOK, LineType, RingType, PubType, ConType, HistoryType, line, ring, closing
<1>4. StageInv'
  BY DEF StageInv, StageOf, Down, Outside, closing, Held, SizeOf, Bounded, Batchers, Capacity
<1> QED
  BY <1>1, <1>3, <1>4

LEMMA DeliveredType == ASSUME TypeOK PROVE delivered \in [Consumers -> Seq(ClaimRecords)]
BY DEF TypeOK, HistoryType

LEMMA GivenType ==
  ASSUME TypeOK, NEW c \in Consumers, NEW s \in Int
  PROVE  /\ Given(c, s) \in ClaimRecords
         /\ [delivered EXCEPT ![c] = Append(@, Given(c, s))] \in [Consumers -> Seq(ClaimRecords)]
<1>1. event[Slot(s)] \in Events /\ run \in Nat
  BY SlotType DEF TypeOK, RingType, LineType
<1>2. Given(c, s) \in ClaimRecords
  BY <1>1 DEF Given, ClaimRecords
<1>3. Append(delivered[c], Given(c, s)) \in Seq(ClaimRecords)
  BY <1>2 DEF TypeOK, HistoryType
<1> QED
  BY <1>2, <1>3 DEF TypeOK, HistoryType

LEMMA PollStep ==
  ASSUME TypeOK, StageInv, NEW c \in Consumers, bus' = bus, Poll(c)
  PROVE  /\ TypeOK' /\ StageInv' /\ OtherCons(c) /\ con'[c].failed = con[c].failed
         /\ \/ /\ ~running /\ con'[c].pc = (IF DrainOnStop THEN "await" ELSE "joined")
               /\ con'[c].next = con[c].next /\ con'[c].last = con[c].last /\ con'[c].seq = con[c].seq
            \/ /\ running /\ con'[c].pc = "slot" /\ con'[c].last = con'[c].next
               /\ \/ con'[c].next = con[c].next /\ con'[c].seq = con[c].seq
                  \/ /\ ~Anchor(c) /\ con'[c].next = next - 1 /\ con'[c].seq = next - 1
                     /\ con[c].next <= next - 1
<1> DEFINE behind == c \in Optional /\ DropBehind /\ next - con[c].next > Slack
           from == IF behind THEN next - 1 ELSE con[c].next
           n == IF behind THEN from ELSE con[c].seq
           d == con[c].dropped + (from - con[c].next)
           r == [con[c] EXCEPT !.pc = "slot", !.next = from, !.last = from, !.count = 0,
                               !.seq = n, !.dropped = d]
           a == IF DrainOnStop THEN "await" ELSE "joined"
           t == [con[c] EXCEPT !.pc = a]
<1>1. /\ con[c].next \in Positions /\ con[c].seq \in Positions /\ con[c].last \in Positions
      /\ con[c].dropped \in Int /\ con[c].failed \in BOOLEAN /\ next \in Int
  BY ConRecord DEF ConRecords, TypeOK, LineType
<1>2. behind => con[c].next <= next - 1
  BY <1>1, BusAssumption DEF Positions
<1>3. from \in Positions /\ n \in Positions /\ d \in Int
  BY <1>1, <1>2 DEF Positions
<1>4. behind => ~Anchor(c)
  BY BusAssumption DEF Anchor, Required, Optional, TypeOK, LineType
<1>5. CASE running /\ Con(c, r)
  <2>1. /\ r \in ConRecords /\ r.pc = "slot" /\ r.next = from /\ r.last = from /\ r.seq = n
        /\ r.failed = con[c].failed
    <3>1. 0 \in Nat
      OBVIOUS
    <3> HIDE DEF behind, from, n, d
    <3> QED
      BY <1>3, <3>1, ConRecord, ConConstants DEF ConRecords
  <2> HIDE DEF r
  <2>2. TypeOK' /\ StageInv' /\ con'[c] = r /\ OtherCons(c)
    BY <1>5, <2>1, ConStep, DeliveredType DEF Poll, history
  <2>3. (from = con[c].next /\ n = con[c].seq) \/ (behind /\ from = next - 1 /\ n = next - 1)
    OBVIOUS
  <2> HIDE DEF behind, from, n
  <2> QED
    BY <1>2, <1>4, <1>5, <2>1, <2>2, <2>3
<1>6. CASE ~running /\ Con(c, t)
  <2>1. a \in ConPlaces
    BY ConConstants
  <2>2. /\ t \in ConRecords /\ t.pc = a /\ t.next = con[c].next /\ t.last = con[c].last
        /\ t.seq = con[c].seq /\ t.failed = con[c].failed
    <3> HIDE DEF a
    <3> QED
      BY <2>1, ConRecord DEF ConRecords
  <2> HIDE DEF t
  <2>3. TypeOK' /\ StageInv' /\ con'[c] = t /\ OtherCons(c)
    BY <1>6, <2>2, ConStep, DeliveredType DEF Poll, history
  <2> QED
    BY <1>6, <2>2, <2>3
<1>7. con[c].dropped \in Int /\ (running => Con(c, r)) /\ (~running => Con(c, t))
  BY <1>1 DEF Poll
<1> QED
  BY <1>5, <1>6, <1>7

\* The next slot was stamped and is worth delivering, was stamped and is empty, or the
\* run is over.
LEMMA SlotLookStep ==
  ASSUME TypeOK, StageInv, NEW c \in Consumers, bus' = bus, SlotLook(c)
  PROVE  LET cur == con[c].last + 1
         IN /\ TypeOK' /\ StageInv' /\ OtherCons(c) /\ con'[c].failed = con[c].failed
            /\ con'[c].next = con[c].next /\ con'[c].seq = con[c].seq
            /\ \/ /\ con'[c].pc = "deliver" /\ con'[c].last = con[c].last
                  /\ published[Slot(cur)] = cur /\ constructed[Slot(cur)]
               \/ /\ con'[c].pc = "slot" /\ con'[c].last = cur
                  /\ published[Slot(cur)] = cur /\ ~constructed[Slot(cur)]
               \/ con'[c].pc = "top" /\ con'[c].last = con[c].last /\ con[c].last = con[c].next
               \/ con'[c].pc = "commit" /\ con'[c].last = con[c].last
<1> DEFINE cur == con[c].last + 1
           here == con[c].count < RunCap(c) /\ published[Slot(cur)] = cur
           a == IF here /\ constructed[Slot(cur)] THEN "deliver"
                ELSE IF here THEN "slot"
                ELSE IF con[c].last = con[c].next THEN "top" ELSE "commit"
           l == IF here /\ ~constructed[Slot(cur)] THEN cur ELSE con[c].last
           k == IF here THEN con[c].count + 1 ELSE con[c].count
           r == [con[c] EXCEPT !.pc = a, !.last = l, !.count = k]
<1>1. con[c].last \in Positions /\ con[c].count \in Nat /\ cur \in Positions
  BY ConRecord DEF ConRecords, Positions
<1>2. a \in ConPlaces /\ l \in Positions /\ k \in Nat
  <2> HIDE DEF cur, here
  <2> QED
    BY <1>1, ConConstants
<1>3. /\ r \in ConRecords /\ r.pc = a /\ r.next = con[c].next /\ r.last = l
      /\ r.seq = con[c].seq /\ r.failed = con[c].failed
  <2> HIDE DEF a, l, k
  <2> QED
    BY <1>2, ConRecord DEF ConRecords
<1>4. Con(c, r)
  BY DEF SlotLook
<1> HIDE DEF r
<1>5. TypeOK' /\ StageInv' /\ con'[c] = r /\ OtherCons(c)
  BY <1>3, <1>4, ConStep, DeliveredType DEF SlotLook, history
<1>6. \/ a = "deliver" /\ l = con[c].last /\ published[Slot(cur)] = cur /\ constructed[Slot(cur)]
      \/ a = "slot" /\ l = cur /\ published[Slot(cur)] = cur /\ ~constructed[Slot(cur)]
      \/ a = "top" /\ l = con[c].last /\ con[c].last = con[c].next
      \/ a = "commit" /\ l = con[c].last
  <2> HIDE DEF cur
  <2> QED
    OBVIOUS
<1> HIDE DEF a, l, k, here
<1> QED
  BY <1>3, <1>5, <1>6

\* What a listener is given is appended, and the consumer moves past it.
LEMMA DeliverStep ==
  ASSUME TypeOK, StageInv, NEW c \in Consumers, bus' = bus, Deliver(c)
  PROVE  /\ TypeOK' /\ StageInv' /\ OtherCons(c) /\ con'[c].failed = con[c].failed
         /\ con'[c].next = con[c].next /\ con'[c].seq = con[c].seq
         /\ con'[c].pc = "slot" /\ con'[c].last = con[c].last + 1
<1> DEFINE l == con[c].last + 1
           r == [con[c] EXCEPT !.pc = "slot", !.last = l]
<1>1. l \in Positions /\ l \in Int
  BY ConRecord DEF ConRecords, Positions
<1>2. /\ r \in ConRecords /\ r.pc = "slot" /\ r.next = con[c].next /\ r.last = l
      /\ r.seq = con[c].seq /\ r.failed = con[c].failed
  <2> HIDE DEF l
  <2> QED
    BY <1>1, ConRecord, ConConstants DEF ConRecords
<1>3. Con(c, r) /\ delivered' = [delivered EXCEPT ![c] = Append(@, Given(c, l))]
  BY DEF Deliver
<1> HIDE DEF r
<1>4. TypeOK' /\ StageInv' /\ con'[c] = r /\ OtherCons(c)
  <2> HIDE DEF l
  <2> QED
    BY <1>1, <1>2, <1>3, ConStep, GivenType DEF Deliver
<1> QED
  BY <1>2, <1>4

\* The listener threw, the run is over, the drain begins or ends: nothing is delivered.
LEMMA QuietConsumerStep ==
  ASSUME TypeOK, StageInv, NEW c \in Consumers, bus' = bus,
         DeliverThrows(c) \/ Commit(c) \/ DrainBegin(c) \/ DrainThrows(c) \/ DrainEnd(c)
  PROVE  /\ TypeOK' /\ StageInv' /\ OtherCons(c)
         /\ DeliverThrows(c) => /\ con'[c].pc = "joined" /\ con'[c].failed = TRUE /\ con'[c].next = con[c].last
                                /\ con'[c].seq = con[c].last /\ con'[c].last = con[c].last
         /\ Commit(c) => /\ con'[c].pc = "top" /\ con'[c].next = con[c].last /\ con'[c].last = con[c].last
                         /\ con'[c].seq = con[c].last /\ con'[c].failed = con[c].failed
         /\ DrainBegin(c) => /\ con'[c].pc = "drain" /\ con'[c].next = con[c].next
                             /\ con'[c].last = con[c].seq /\ con'[c].seq = con[c].seq
                             /\ con'[c].failed = con[c].failed
         /\ DrainThrows(c) => /\ con'[c].pc = "joined" /\ con'[c].failed = TRUE /\ con'[c].next = con[c].last
                              /\ con'[c].last = con[c].last /\ con'[c].seq = con[c].seq
         /\ DrainEnd(c) => /\ con'[c].pc = "joined" /\ con'[c].failed = con[c].failed
                           /\ con'[c].next = con[c].last /\ con'[c].last = con[c].last
                           /\ con'[c].seq = con[c].seq
<1>1. /\ con[c] \in ConRecords /\ con[c].last \in Positions /\ con[c].seq \in Positions
      /\ TRUE \in BOOLEAN
  BY ConRecord DEF ConRecords
<1> DEFINE r1 == [con[c] EXCEPT !.pc = "joined", !.failed = TRUE, !.next = con[c].last,
                                !.seq = con[c].last]
           r2 == [con[c] EXCEPT !.pc = "top", !.next = con[c].last, !.seq = con[c].last]
           r3 == [con[c] EXCEPT !.pc = "drain", !.last = con[c].seq]
           r4 == [con[c] EXCEPT !.pc = "joined", !.failed = TRUE, !.next = con[c].last]
           r5 == [con[c] EXCEPT !.pc = "joined", !.next = con[c].last]
<1>2. /\ r1 \in ConRecords /\ r1.pc = "joined" /\ r1.failed = TRUE /\ r1.next = con[c].last
      /\ r1.seq = con[c].last /\ r1.last = con[c].last
  BY <1>1, ConConstants DEF ConRecords
<1>3. /\ r2 \in ConRecords /\ r2.pc = "top" /\ r2.next = con[c].last /\ r2.last = con[c].last
      /\ r2.seq = con[c].last /\ r2.failed = con[c].failed
  BY <1>1, ConConstants DEF ConRecords
<1>4. /\ r3 \in ConRecords /\ r3.pc = "drain" /\ r3.next = con[c].next /\ r3.last = con[c].seq
      /\ r3.seq = con[c].seq /\ r3.failed = con[c].failed
  BY <1>1, ConConstants DEF ConRecords
<1>5. /\ r4 \in ConRecords /\ r4.pc = "joined" /\ r4.failed = TRUE /\ r4.next = con[c].last
      /\ r4.seq = con[c].seq /\ r4.last = con[c].last
  BY <1>1, ConConstants DEF ConRecords
<1>6. /\ r5 \in ConRecords /\ r5.pc = "joined" /\ r5.failed = con[c].failed /\ r5.next = con[c].last
      /\ r5.seq = con[c].seq /\ r5.last = con[c].last
  BY <1>1, ConConstants DEF ConRecords
<1>7. /\ DeliverThrows(c) => con[c].pc = "deliver" /\ Con(c, r1)
      /\ Commit(c) => con[c].pc = "commit" /\ Con(c, r2)
      /\ DrainBegin(c) => con[c].pc = "await" /\ Con(c, r3)
      /\ DrainThrows(c) => con[c].pc = "drain" /\ Con(c, r4)
      /\ DrainEnd(c) => con[c].pc = "drain" /\ Con(c, r5)
  BY DEF DeliverThrows, Commit, DrainBegin, DrainThrows, DrainEnd
<1>8. /\ UNCHANGED <<running, line, ring, closing, control, pub, run, claimed, accepted>>
      /\ delivered' \in [Consumers -> Seq(ClaimRecords)]
  BY DeliveredType DEF DeliverThrows, Commit, DrainBegin, DrainThrows, DrainEnd, history
<1>9. ~(DrainThrows(c) /\ DrainEnd(c))
  BY DEF DrainThrows, DrainEnd
<1> HIDE DEF r1, r2, r3, r4, r5
<1>10. ASSUME NEW r \in ConRecords, Con(c, r) PROVE TypeOK' /\ StageInv' /\ con'[c] = r /\ OtherCons(c)
  BY <1>8, <1>10, ConStep
<1>11. CASE DeliverThrows(c)
  BY <1>2, <1>7, <1>10, <1>11
<1>12. CASE Commit(c)
  BY <1>3, <1>7, <1>10, <1>12
<1>13. CASE DrainBegin(c)
  BY <1>4, <1>7, <1>10, <1>13
<1>14. CASE DrainThrows(c)
  BY <1>5, <1>7, <1>9, <1>10, <1>14
<1>15. CASE DrainEnd(c)
  BY <1>6, <1>7, <1>9, <1>10, <1>15
<1> QED
  BY <1>11, <1>12, <1>13, <1>14, <1>15

LEMMA DrainSlotStep ==
  ASSUME TypeOK, StageInv, NEW c \in Consumers, bus' = bus, DrainSlot(c)
  PROVE  /\ TypeOK' /\ StageInv' /\ OtherCons(c) /\ con'[c].failed = con[c].failed
         /\ con'[c].next = con[c].next /\ con'[c].pc = "drain"
         /\ con'[c].last = con[c].last + 1 /\ con'[c].seq = con[c].last + 1
<1> DEFINE l == con[c].last + 1
           r == [con[c] EXCEPT !.last = l, !.seq = l]
<1>1. l \in Positions /\ l \in Int
  BY ConRecord DEF ConRecords, Positions
<1>2. /\ r \in ConRecords /\ r.pc = con[c].pc /\ r.next = con[c].next /\ r.last = l
      /\ r.seq = l /\ r.failed = con[c].failed
  <2> HIDE DEF l
  <2> QED
    BY <1>1, ConRecord, ConConstants DEF ConRecords
<1>3. /\ con[c].pc = "drain" /\ Con(c, r)
      /\ UNCHANGED <<running, line, ring, closing, control, pub, run, claimed, accepted>>
      /\ delivered' = delivered \/ delivered' = [delivered EXCEPT ![c] = Append(@, Given(c, l))]
  BY DEF DrainSlot, Drained
<1> HIDE DEF r
<1>4. TypeOK' /\ StageInv' /\ con'[c] = r /\ OtherCons(c)
  <2> HIDE DEF l
  <2>1. delivered' \in [Consumers -> Seq(ClaimRecords)]
    BY <1>1, <1>3, GivenType, DeliveredType, SMTT(40)
  <2> QED
    BY <1>2, <1>3, <2>1, ConStep
<1> QED
  BY <1>2, <1>3, <1>4

LEMMA StageFrame ==
  ASSUME StageInv, bus' = bus, pub' = pub
  PROVE  (\A p \in Publishers : StageOf(p))' /\ \A p \in Publishers : Outside(p)' = Outside(p)
BY DEF StageInv, StageOf, Outside, Held, SizeOf, Bounded, Batchers, Capacity

\* start() and stop(): the consumers are spawned and torn down.
LEMMA ControlStep ==
  ASSUME TypeOK, StageInv, bus' = bus,
         StartFlag \/ StartOpen \/ StopFlag \/ Seal \/ StopQuiet \/ Teardown
  PROVE  /\ TypeOK' /\ StageInv' /\ pub' = pub
         /\ StartOpen => \A c \in Consumers :
              /\ con'[c].pc = "top" /\ con'[c].next = -1 /\ con'[c].last = -1 /\ con'[c].seq = -1
              /\ con'[c].failed = FALSE
         /\ Teardown => \A c \in Consumers :
              /\ con'[c].pc = con[c].pc /\ con'[c].failed = con[c].failed
              /\ con'[c].next = -1 /\ con'[c].last = -1 /\ con'[c].seq = -1
<1>1. Slots' = Slots /\ Consumers' = Consumers /\ pub' = pub
  BY DEF Slots, Capacity, Consumers, Required, Optional, StartFlag, StartOpen, StopFlag, Seal,
         StopQuiet, Teardown
<1>2. (\A p \in Publishers : StageOf(p))' /\ \A p \in Publishers : Outside(p)' = Outside(p)
  BY <1>1, StageFrame
<1>3. CASE StartFlag \/ StopFlag \/ Seal \/ StopQuiet
  <2>1. TypeOK'
    BY <1>1, <1>3, ClosedAssumption DEF StartFlag, StopFlag, Seal, StopQuiet, TypeOK, LineType, RingType, PubType,
         ConType, HistoryType, line, ring, closing, history
  <2>2. StageInv'
    <3>1. control' \in {"opening", "seal", "await", "join"}
      BY <1>3 DEF StartFlag, StopFlag, Seal, StopQuiet
    <3> QED
      BY <1>2, <1>3 DEF StartFlag, StopFlag, Seal, StopQuiet, StageInv, Down, closing
  <2>3. ~StartOpen /\ ~Teardown
    BY <1>3 DEF StartFlag, StopFlag, Seal, StopQuiet, StartOpen, Teardown
  <2> QED
    BY <1>1, <2>1, <2>2, <2>3
<1>4. CASE StartOpen
  <2>1. ASSUME NEW c \in Consumers
        PROVE  /\ con'[c] \in ConRecords /\ con'[c].pc = "top" /\ con'[c].next = -1
               /\ con'[c].last = -1 /\ con'[c].seq = -1 /\ con'[c].failed = FALSE
    <3>1. con'[c] = [NoCon EXCEPT !.pc = "top", !.dropped = con[c].dropped]
      BY <1>4 DEF StartOpen
    <3>2. con[c].dropped \in Int /\ 0 \in Nat
      BY ConRecord DEF ConRecords
    <3> QED
      BY <3>1, <3>2, ConConstants DEF ConRecords, NoCon
  <2>2. con' \in [Consumers -> ConRecords]
    <3>1. con' = [c \in Consumers |-> con'[c]]
      BY <1>4 DEF StartOpen
    <3> QED
      BY <2>1, <3>1
  <2>3. TypeOK'
    <3>1. LineType'
      <4>1. /\ claimBase' = resolved /\ sealed' = FALSE /\ next' = -1 /\ run' = run + 1
            /\ control' = "idle"
            /\ UNCHANGED <<running, cachedMin, cachedMinConsumed, lastClaim, resolved>>
        BY <1>4 DEF StartOpen
      <4>2. next' \in Int
        BY <4>1, PubConstants
      <4>3. sealed' \in BOOLEAN
        BY <4>1, Zenon
      <4> QED
        BY <4>1, <4>2, <4>3 DEF TypeOK, LineType
    <3>2. RingType' /\ PubType' /\ ConType' /\ HistoryType'
      BY <1>1, <1>4, <2>2 DEF StartOpen, TypeOK, RingType, PubType, ConType, HistoryType, ring
    <3> QED
      BY <3>1, <3>2 DEF TypeOK
  <2>4. StageInv'
    BY <1>2, <1>4 DEF StartOpen, StageInv, Down
  <2>5. ~Teardown
    BY <1>4 DEF StartOpen, Teardown
  <2> QED
    BY <1>1, <2>1, <2>3, <2>4, <2>5
<1>5. CASE Teardown
  <2>1. ASSUME NEW c \in Consumers
        PROVE  /\ con'[c] \in ConRecords /\ con'[c].pc = con[c].pc /\ con'[c].next = -1
               /\ con'[c].last = -1 /\ con'[c].seq = -1 /\ con'[c].failed = con[c].failed
    <3>1. con'[c] = [con[c] EXCEPT !.seq = -1, !.next = -1, !.last = -1]
      BY <1>5 DEF Teardown
    <3> QED
      BY <3>1, ConRecord, ConConstants DEF ConRecords
  <2>2. con' \in [Consumers -> ConRecords]
    <3>1. con' = [c \in Consumers |-> con'[c]]
      BY <1>5 DEF Teardown
    <3> QED
      BY <2>1, <3>1
  <2>3. published' \in [Slots -> Int] /\ constructed' \in [Slots -> BOOLEAN] /\ event' \in [Slots -> Events]
    BY <1>5, PubConstants DEF Teardown, Events
  <2>4. TypeOK'
    BY <1>1, <1>5, <2>2, <2>3, PubConstants DEF Teardown, TypeOK, LineType, RingType, PubType, ConType,
         HistoryType, closing, history
  <2>5. StageInv'
    BY <1>2, <1>5 DEF Teardown, StageInv, Down, closing
  <2>6. ~StartOpen
    BY <1>5 DEF StartOpen, Teardown
  <2> QED
    BY <1>1, <2>1, <2>4, <2>5, <2>6
<1> QED
  BY <1>3, <1>4, <1>5

-----------------------------------------------------------------------------
(* The actions, one by one; a step of the bus is one of them or changes nothing. *)

PubAction(p) ==
  \/ Enter(p) \/ ClaimLine(p) \/ PutBack(p) \/ TryLine(p) \/ WrapLook(p) \/ WrapScan(p)
  \/ WrapStore(p) \/ ReclaimLook(p) \/ FenceScan(p) \/ FenceStore(p) \/ Exchange(p)
  \/ Write(p) \/ WriteThrows(p) \/ Stamp(p) \/ Resolve(p)
ConAction(c) ==
  \/ Poll(c) \/ SlotLook(c) \/ Deliver(c) \/ DrainSlot(c)
  \/ DeliverThrows(c) \/ Commit(c) \/ DrainBegin(c) \/ DrainThrows(c) \/ DrainEnd(c)
ControlAction == StartFlag \/ StartOpen \/ StopFlag \/ Seal \/ StopQuiet \/ Teardown

LEMMA StepCases ==
  ASSUME [Next]_vars
  PROVE  /\ bus' = bus
         /\ \/ \E p \in Publishers : PubAction(p)
            \/ \E c \in Consumers : ConAction(c)
            \/ ControlAction
            \/ UNCHANGED vars
BY DEF Next, Publisher, Consumer, Finish, Over, PubAction, ConAction, ControlAction, vars

LEMMA InitStage == Init => TypeOK /\ StageInv
<1> SUFFICES ASSUME Init PROVE TypeOK /\ StageInv
  OBVIOUS
<1>1. NoPub \in PubRecords /\ NoPub.pc = "idle"
  BY PubConstants DEF NoPub, PubRecords
<1>2. NoCon \in ConRecords
  BY ConConstants DEF NoCon, ConRecords
<1>3. TypeOK
  <2>1. LineType
    BY PubConstants DEF Init, LineType
  <2>2. RingType
    BY PubConstants DEF Init, RingType, Events
  <2>3. PubType /\ ConType
    BY <1>1, <1>2 DEF Init, PubType, ConType
  <2>4. HistoryType
    BY DEF Init, HistoryType
  <2> QED
    BY <2>1, <2>2, <2>3, <2>4 DEF TypeOK
<1>4. \A p \in Publishers : pub[p].pc = "idle"
  BY <1>1 DEF Init
<1>5. StageInv
  BY <1>4 DEF Init, StageInv, StageOf, Outside, Down, Inside
<1> QED
  BY <1>3, <1>5

LEMMA NextStage == ASSUME TypeOK, StageInv, [Next]_vars PROVE TypeOK' /\ StageInv'
<1>1. bus' = bus
  BY StepCases
<1>2. ASSUME NEW p \in Publishers, PubAction(p) PROVE TypeOK' /\ StageInv'
  BY <1>1, <1>2, EnterStep, ClaimLineStep, PutBackStep, TryLineStep, WrapLookStep, WrapScanStep,
     WrapStoreStep, ReclaimLookStep, FenceScanStep, FenceStoreStep, ExchangeStep, WriteStep,
     WriteThrowsStep, StampStep, ResolveStep DEF PubAction
<1>3. ASSUME NEW c \in Consumers, ConAction(c) PROVE TypeOK' /\ StageInv'
  BY <1>1, <1>3, PollStep, SlotLookStep, DeliverStep, DrainSlotStep, QuietConsumerStep DEF ConAction
<1>4. CASE ControlAction
  BY <1>1, <1>4, ControlStep DEF ControlAction
<1>5. CASE UNCHANGED vars
  BY <1>5 DEF vars, TypeOK, LineType, RingType, PubType, ConType, HistoryType, line, ring, closing,
     history, Slots, Capacity, Consumers, Required, Optional, StageInv, StageOf, Down, Outside,
     Held, SizeOf, Bounded, Batchers
<1> QED
  BY <1>2, <1>3, <1>4, <1>5, StepCases

\* Whatever the deployment, the state of the bus keeps its types, and start() and stop() go
\* through their stages with publishers only where the stage allows them.
THEOREM BusTypes == Spec => [](TypeOK /\ StageInv)
BY InitStage, NextStage, PTL DEF Spec

-----------------------------------------------------------------------------
(* Claims *)

\* A publisher's operations are of five kinds, as far as the sequence line is concerned.
Keeps(p) ==
  /\ UNCHANGED <<next, resolved, claimed, accepted>>
  /\ pub[p].pc # "putBack" /\ pub'[p].pc # "putBack" /\ Holding(p)' = Holding(p)
  /\ Holding(p) => /\ pub'[p].seq = pub[p].seq /\ pub'[p].calls = pub[p].calls
                   /\ pub'[p].run = pub[p].run
Refuses(p) ==
  /\ UNCHANGED <<resolved, claimed, accepted>>
  /\ pub[p].pc = "claim" /\ pub'[p].pc = "putBack" /\ next < -1 /\ next' = next + SizeOf(p)
PutsBack(p) ==
  /\ UNCHANGED <<resolved, claimed, accepted>>
  /\ pub[p].pc = "putBack" /\ pub'[p].pc = "idle" /\ next' = next - SizeOf(p)
Takes(p) ==
  /\ UNCHANGED <<resolved, accepted>>
  /\ pub[p].pc \in {"claim", "cas"} /\ pub'[p].pc # "putBack" /\ ~Holding(p) /\ Holding(p)'
  /\ pub'[p].run = run /\ pub'[p].calls = pub[p].calls
  /\ next >= -1 /\ next' = next + SizeOf(p) /\ pub'[p].seq = next'
  /\ claimed' = claimed \cup ClaimsOf(p, next')
Releases(p) ==
  /\ UNCHANGED <<next, claimed>>
  /\ Holding(p) /\ pub'[p].pc = "idle" /\ resolved' = resolved + SizeOf(p)
  /\ accepted' = accepted \/ accepted' = accepted \cup {Claim(p, s) : s \in Held(p)}

LEMMA PubKinds ==
  ASSUME TypeOK, StageInv, NEW p \in Publishers, bus' = bus, PubAction(p)
  PROVE  /\ Others(p) /\ pub'[p] \in PubRecords
         /\ UNCHANGED <<running, control, sealed, lastClaim, claimBase, con, run, delivered>>
         /\ Keeps(p) \/ Refuses(p) \/ PutsBack(p) \/ Takes(p) \/ Releases(p)
<1>1. UNCHANGED <<running, control, sealed, lastClaim, claimBase, con, run, delivered>>
  BY DEF PubAction, Enter, ClaimLine, PutBack, TryLine, WrapLook, WrapScan, WrapStore, ReclaimLook,
         FenceScan, FenceStore, Exchange, Write, WriteThrows, Stamp, Resolve, Abandon, closing, history
<1>2. Bounded' = Bounded /\ StageOf(p)
  BY DEF Bounded, StageInv
<1>a. TypeOK' => pub'[p] \in PubRecords
  BY DEF TypeOK, PubType
<1>3. CASE Enter(p)
  BY <1>1, <1>2, <1>a, <1>3, EnterStep DEF Enter, Keeps, Holding, Inside, line, closing, history
<1>4. CASE ClaimLine(p)
  <2>1. /\ Others(p) /\ pub'[p].pc = (IF next < -1 THEN "putBack" ELSE "wrap")
        /\ pub'[p].seq = next + SizeOf(p) /\ pub'[p].calls = pub[p].calls /\ pub'[p].run = run
        /\ TypeOK'
    BY <1>4, ClaimLineStep
  <2>2. p \notin Bounded /\ next \in Int /\ pub[p].pc = "claim" /\ next' = next + SizeOf(p)
    BY <1>2, <1>4 DEF ClaimLine, StageOf, TypeOK, LineType
  <2>3. CASE next < -1
    BY <1>1, <1>a, <1>4, <2>1, <2>2, <2>3 DEF ClaimLine, Refuses, closing
  <2>4. CASE next >= -1
    BY <1>1, <1>2, <1>a, <1>4, <2>1, <2>2, <2>4 DEF ClaimLine, Takes, Holding, Inside, closing
  <2> QED
    BY <2>2, <2>3, <2>4
<1>5. CASE PutBack(p)
  BY <1>1, <1>a, <1>5, PutBackStep DEF PutBack, PutsBack, closing, history
<1>6. CASE TryLine(p)
  <2>1. /\ Others(p) /\ pub[p].pc = "try" /\ pub'[p].pc \in {"idle", "wrap"} /\ p \in Bounded /\ TypeOK'
        /\ UNCHANGED <<next, resolved, claimed, accepted>>
    BY <1>2, <1>6, TryLineStep DEF TryLine, StageOf, line, closing, history
  <2> QED
    BY <1>1, <1>2, <1>a, <2>1 DEF Keeps, Holding, Entered, Inside
<1>7. CASE WrapLook(p)
  BY <1>1, <1>2, <1>a, <1>7, WrapLookStep DEF WrapLook, Keeps, Moved, Holding, Entered, Inside,
     line, closing, history
<1>8. CASE WrapScan(p)
  BY <1>1, <1>2, <1>a, <1>8, WrapScanStep DEF WrapScan, Keeps, Releases, Abandon, Moved, Holding, Entered,
     Inside, line, closing, history
<1>9. CASE WrapStore(p)
  BY <1>1, <1>2, <1>a, <1>9, WrapStoreStep DEF WrapStore, Keeps, Moved, Holding, Entered, Inside,
     closing, history
<1>10. CASE ReclaimLook(p)
  BY <1>1, <1>2, <1>a, <1>10, ReclaimLookStep, SMTT(40) DEF ReclaimLook, Keeps, Moved, Holding, Entered, Inside,
     line, closing, history
<1>11. CASE FenceScan(p)
  BY <1>1, <1>2, <1>a, <1>11, FenceScanStep DEF FenceScan, Keeps, Releases, Abandon, Moved, Holding, Entered,
     Inside, line, closing, history
<1>12. CASE FenceStore(p)
  BY <1>1, <1>2, <1>a, <1>12, FenceStoreStep DEF FenceStore, Keeps, Moved, Holding, Entered, Inside,
     line, closing, history
<1>13. CASE Exchange(p)
  <2>1. /\ TypeOK' /\ Others(p) /\ p \in Bounded /\ pub[p].pc = "cas"
        /\ UNCHANGED <<resolved, accepted>> /\ pub[p].seq >= 0 /\ pub[p].seq \in Int
    BY <1>2, <1>13, ExchangeStep, PubRecord DEF Exchange, closing, StageOf, PubRecords
  <2>2. SizeOf(p) = 1
    BY <2>1, BusAssumption DEF SizeOf, Batchers, Bounded, TypeOK, LineType
  <2>3. CASE pub'[p].pc \in {"idle", "try"} /\ UNCHANGED <<next, claimed>>
    BY <1>1, <1>2, <1>a, <2>1, <2>3 DEF Keeps, Holding, Entered, Inside
  <2>4. CASE /\ pub'[p].pc = "write" /\ pub'[p].seq = pub[p].seq /\ pub'[p].run = run
             /\ pub'[p].calls = pub[p].calls /\ next = pub[p].seq - 1 /\ next' = pub[p].seq
             /\ claimed' = claimed \cup ClaimsOf(p, pub[p].seq)
    BY <1>1, <1>2, <1>a, <2>1, <2>2, <2>4 DEF Takes, Holding, Entered, Inside
  <2> QED
    BY <1>13, <2>3, <2>4, ExchangeStep, SMTT(40)
<1>14. CASE Write(p)
  BY <1>1, <1>2, <1>a, <1>14, WriteStep DEF Write, Keeps, Moved, Holding, Entered, Inside,
     line, closing, history
<1>15. CASE WriteThrows(p)
  BY <1>1, <1>2, <1>a, <1>15, WriteThrowsStep DEF WriteThrows, Releases, Abandon, Holding, Entered,
     Inside, line, history
<1>16. CASE Stamp(p)
  BY <1>1, <1>2, <1>a, <1>16, StampStep DEF Stamp, Keeps, Moved, Holding, Entered, Inside,
     line, closing, history
<1>17. CASE Resolve(p)
  BY <1>1, <1>2, <1>a, <1>17, ResolveStep DEF Resolve, Releases, Holding, Entered,
     Inside, line
<1> QED
  BY SMTT(40), <1>3, <1>4, <1>5, <1>6, <1>7, <1>8, <1>9, <1>10, <1>11, <1>12, <1>13, <1>14, <1>15, <1>16,
     <1>17 DEF PubAction

\* Two sets apart add up.
LEMMA DisjointSize ==
  ASSUME NEW S, NEW T, IsFiniteSet(S), IsFiniteSet(T), S \cap T = {}
  PROVE  /\ IsFiniteSet(S \cup T) /\ Cardinality(S) \in Nat /\ Cardinality(T) \in Nat
         /\ Cardinality(S \cup T) = Cardinality(S) + Cardinality(T)
<1>1. Cardinality(S) \in Nat /\ Cardinality(T) \in Nat
  BY FS_CardinalityType
<1>2. IsFiniteSet(S \cup T)
  BY FS_Union
<1>3. Cardinality(S \cup T) = Cardinality(S) + Cardinality(T) - Cardinality({})
  BY FS_Union
<1>4. Cardinality({}) = 0
  BY FS_EmptySet
<1> QED
  BY <1>1, <1>2, <1>3, <1>4

\* What a refused claim has added to the line, and what all of them have.
RefusedOf(p) == {p} \X (1 .. SizeOf(p))

LEMMA RefusedSize ==
  ASSUME TypeOK
  PROVE  /\ \A p \in Publishers : /\ IsFiniteSet(RefusedOf(p))
                                  /\ Cardinality(RefusedOf(p)) = SizeOf(p)
         /\ IsFiniteSet(Refused) /\ Cardinality(Refused) \in Nat
         /\ Closed + Cardinality(Refused) < -1
         /\ \A p \in Publishers : pub[p].pc # "putBack" => Refused \cap RefusedOf(p) = {}
         /\ \A p \in Publishers : pub[p].pc = "putBack" => RefusedOf(p) \subseteq Refused
<1>1. \A p \in Publishers : SizeOf(p) \in 1 .. Capacity
  BY SizeType
<1>2. Capacity \in Nat /\ IsFiniteSet(Publishers) /\ Cardinality(Publishers) \in Nat
  BY BusAssumption, FS_CardinalityType DEF TypeOK, LineType, Capacity
<1>3. ASSUME NEW p \in Publishers
      PROVE  IsFiniteSet(RefusedOf(p)) /\ Cardinality(RefusedOf(p)) = SizeOf(p)
  <2>1. IsFiniteSet(1 .. SizeOf(p)) /\ Cardinality(1 .. SizeOf(p)) = SizeOf(p) /\ SizeOf(p) \in Nat
    BY <1>1, <1>2, FS_Interval
  <2>2. IsFiniteSet({p}) /\ Cardinality({p}) = 1
    BY FS_Singleton
  <2>3. IsFiniteSet(RefusedOf(p)) /\ Cardinality(RefusedOf(p)) = 1 * SizeOf(p)
    BY <2>1, <2>2, FS_Product DEF RefusedOf
  <2> QED
    BY <2>1, <2>3
<1>4. Refused = UNION {RefusedOf(p) : p \in {q \in Publishers : pub[q].pc = "putBack"}}
  BY DEF Refused, RefusedOf
<1>5. /\ IsFiniteSet(Publishers \X (1 .. Capacity))
      /\ Cardinality(Publishers \X (1 .. Capacity)) = Cardinality(Publishers) * Capacity
  <2>1. IsFiniteSet(1 .. Capacity) /\ Cardinality(1 .. Capacity) = Capacity
    BY <1>2, FS_Interval, SMTT(40)
  <2> QED
    BY <1>2, <2>1, FS_Product
<1>6. Refused \in SUBSET (Publishers \X (1 .. Capacity))
  BY <1>1, <1>2 DEF Refused
<1>7. /\ IsFiniteSet(Refused) /\ Cardinality(Refused) \in Nat
      /\ Cardinality(Refused) <= Cardinality(Publishers) * Capacity
  BY <1>5, <1>6, FS_Subset, FS_CardinalityType
<1>8. Closed + Cardinality(Publishers) * Capacity < -1 /\ Closed \in Int
  BY ClosedAssumption DEF TypeOK, LineType, Capacity
<1>9. Closed + Cardinality(Refused) < -1
  <2>1. Cardinality(Publishers) * Capacity \in Int
    BY <1>2
  <2> QED
    BY <1>7, <1>8, <2>1
<1>10. ASSUME NEW p \in Publishers, pub[p].pc # "putBack" PROVE Refused \cap RefusedOf(p) = {}
  BY <1>10 DEF Refused, RefusedOf
<1>11. ASSUME NEW p \in Publishers, pub[p].pc = "putBack" PROVE RefusedOf(p) \subseteq Refused
  BY <1>4, <1>11
<1> QED
  BY <1>3, <1>7, <1>9, <1>10, <1>11

LEMMA RefusedStep ==
  ASSUME TypeOK, NEW p \in Publishers, bus' = bus, Others(p)
  PROVE  /\ RefusedOf(p)' = RefusedOf(p)
         /\ pub'[p].pc # "putBack" /\ pub[p].pc # "putBack" => Refused' = Refused
         /\ pub'[p].pc = "putBack" /\ pub[p].pc # "putBack" => Refused' = Refused \cup RefusedOf(p)
         /\ pub'[p].pc # "putBack" /\ pub[p].pc = "putBack" => Refused' = Refused \ RefusedOf(p)
<1>1. \A q \in Publishers : SizeOf(q)' = SizeOf(q)
  BY DEF SizeOf, Batchers, Capacity
<1>2. Refused' = UNION {{q} \X (1 .. SizeOf(q)) : q \in {s \in Publishers : pub'[s].pc = "putBack"}}
  BY <1>1 DEF Refused
<1> DEFINE R == {s \in Publishers : pub'[s].pc = "putBack"}
           Q == {s \in Publishers : pub[s].pc = "putBack"}
<1>3. pub'[p].pc # "putBack" /\ pub[p].pc # "putBack" => Refused' = Refused
  <2>1. pub'[p].pc # "putBack" /\ pub[p].pc # "putBack" => R = Q
    BY DEF Others
  <2> QED
    BY <1>2, <2>1 DEF Refused
<1>4. pub'[p].pc = "putBack" /\ pub[p].pc # "putBack" => Refused' = Refused \cup RefusedOf(p)
  <2>1. pub'[p].pc = "putBack" /\ pub[p].pc # "putBack" => R = Q \cup {p}
    BY DEF Others
  <2> HIDE DEF R, Q
  <2>2. Refused' = UNION {RefusedOf(q) : q \in R} /\ Refused = UNION {RefusedOf(q) : q \in Q}
    BY <1>2 DEF Refused, RefusedOf, R, Q
  <2> QED
    BY <2>1, <2>2
<1>5. pub'[p].pc # "putBack" /\ pub[p].pc = "putBack" => Refused' = Refused \ RefusedOf(p)
  <2>1. pub'[p].pc # "putBack" /\ pub[p].pc = "putBack" => R = Q \ {p}
    BY DEF Others
  <2> HIDE DEF R, Q
  <2>2. Refused' = UNION {RefusedOf(q) : q \in R} /\ Refused = UNION {RefusedOf(q) : q \in Q}
    BY <1>2 DEF Refused, RefusedOf, R, Q
  <2>3. \A q, s \in Publishers : q # s => RefusedOf(q) \cap RefusedOf(s) = {}
    BY DEF RefusedOf
  <2>4. Q \subseteq Publishers
    BY DEF Q
  <2> QED
    BY <2>1, <2>2, <2>3, <2>4
<1>6. RefusedOf(p)' = RefusedOf(p)
  BY <1>1 DEF RefusedOf
<1> QED
  BY <1>3, <1>4, <1>5, <1>6

\* A line that is closed reads as closed, whoever tries it.
LEMMA LineReads ==
  ASSUME TypeOK, LineInv
  PROVE  sealed <=> next < -1
BY RefusedSize DEF LineInv, TypeOK, LineType

LEMMA PublisherLine ==
  ASSUME TypeOK, StageInv, LineInv, NEW p \in Publishers, bus' = bus, PubAction(p)
  PROVE  LineInv'
<1>1. /\ Others(p) /\ UNCHANGED <<sealed, lastClaim>>
      /\ Keeps(p) \/ Refuses(p) \/ PutsBack(p) \/ Takes(p) \/ Releases(p)
  BY PubKinds
<1>2. /\ SizeOf(p) \in Nat /\ SizeOf(p) > 0 /\ next \in Int /\ Closed \in Int
      /\ Cardinality(Refused) \in Nat /\ IsFiniteSet(Refused)
      /\ IsFiniteSet(RefusedOf(p)) /\ Cardinality(RefusedOf(p)) = SizeOf(p)
  BY SizeType, RefusedSize, BusAssumption, ClosedAssumption DEF TypeOK, LineType, Capacity
<1>3. CASE Keeps(p) \/ Releases(p)
  <2>1. pub[p].pc # "putBack" /\ pub'[p].pc # "putBack" /\ next' = next
    BY <1>3 DEF Keeps, Releases, Holding, Inside
  <2>2. Refused' = Refused
    BY <1>1, <2>1, RefusedStep
  <2> QED
    BY <1>1, <2>1, <2>2 DEF LineInv
<1>4. CASE Refuses(p)
  <2>1. Refused' = Refused \cup RefusedOf(p) /\ Refused \cap RefusedOf(p) = {}
    BY <1>1, <1>4, RefusedStep, RefusedSize DEF Refuses
  <2>2. Cardinality(Refused') = Cardinality(Refused) + SizeOf(p)
    BY <1>2, <2>1, DisjointSize
  <2>3. sealed /\ next' = next + SizeOf(p)
    BY <1>4, LineReads DEF Refuses
  <2> QED
    BY <1>1, <1>2, <2>2, <2>3 DEF LineInv
<1>5. CASE PutsBack(p)
  <2>1. Refused' = Refused \ RefusedOf(p) /\ RefusedOf(p) \subseteq Refused
    BY <1>1, <1>5, RefusedStep, RefusedSize DEF PutsBack
  <2>2. IsFiniteSet(Refused') /\ Cardinality(Refused') \in Nat
    BY <1>2, <2>1, FS_Subset, FS_CardinalityType
  <2>3. Refused = Refused' \cup RefusedOf(p) /\ Refused' \cap RefusedOf(p) = {}
    BY <2>1
  <2>4. Cardinality(Refused) = Cardinality(Refused') + SizeOf(p)
    BY <1>2, <2>2, <2>3, DisjointSize
  <2>5. sealed
    <3>1. RefusedOf(p) # {}
      BY <1>2, FS_EmptySet
    <3> QED
      BY <2>1, <3>1 DEF LineInv
  <2> QED
    BY <1>1, <1>2, <1>5, <2>2, <2>4, <2>5 DEF LineInv, PutsBack
<1>6. CASE Takes(p)
  <2>1. Refused' = Refused /\ ~sealed
    BY <1>1, <1>2, <1>6, RefusedStep, LineReads DEF Takes
  <2> QED
    BY <1>1, <1>2, <1>6, <2>1 DEF LineInv, Takes
<1> QED
  BY <1>1, <1>3, <1>4, <1>5, <1>6

LEMMA InitLine == Init => LineInv
BY DEF Init, LineInv, Refused, NoPub

LEMMA NextLine == ASSUME TypeOK, StageInv, LineInv, [Next]_vars PROVE LineInv'
<1>1. bus' = bus
  BY StepCases
<1>2. ASSUME NEW p \in Publishers, PubAction(p) PROVE LineInv'
  BY <1>1, <1>2, PublisherLine
<1>3. ASSUME pub' = pub PROVE Refused' = Refused
  BY <1>1, <1>3 DEF Refused, SizeOf, Batchers, Capacity
<1>4. ASSUME NEW c \in Consumers, ConAction(c) PROVE LineInv'
  <2>1. pub' = pub /\ UNCHANGED <<next, sealed, lastClaim>>
    BY <1>4 DEF ConAction, Poll, SlotLook, Deliver, DrainSlot, DeliverThrows, Commit, DrainBegin,
       DrainThrows, DrainEnd, line, closing
  <2> QED
    BY <1>3, <2>1 DEF LineInv
<1>5. CASE ControlAction
  <2>1. pub' = pub /\ Refused' = Refused
    BY <1>1, <1>3, <1>5, ControlStep DEF ControlAction
  <2>2. CASE StartFlag \/ StopFlag \/ StopQuiet \/ Teardown
    <3>1. UNCHANGED <<next, sealed, lastClaim>>
      BY <2>2 DEF StartFlag, StopFlag, StopQuiet, Teardown, line, closing
    <3> QED
      BY <2>1, <3>1 DEF LineInv
  <2>3. CASE StartOpen
    <3>1. Refused = {}
      BY <2>3 DEF StartOpen, StageInv, Outside, Refused
    <3>2. ~sealed' /\ next' = -1 /\ lastClaim' = lastClaim
      BY <2>3 DEF StartOpen
    <3> QED
      BY <2>1, <3>1, <3>2 DEF LineInv
  <2>4. CASE Seal
    <3>1. ~sealed
      BY <2>4 DEF Seal, StageInv
    <3> QED
      BY <2>1, <2>4, <3>1, FS_EmptySet, ClosedAssumption DEF Seal, LineInv
  <2> QED
    BY <1>5, <2>2, <2>3, <2>4 DEF ControlAction
<1>6. CASE UNCHANGED vars
  BY <1>3, <1>6 DEF vars, LineInv, line, closing
<1> QED
  BY <1>2, <1>4, <1>5, <1>6, StepCases

LEMMA OthersHeld ==
  ASSUME NEW p \in Publishers, bus' = bus, Others(p), NEW q \in Publishers, q # p
  PROVE  /\ Holding(q)' = Holding(q) /\ Held(q)' = Held(q) /\ SizeOf(q)' = SizeOf(q)
         /\ Entered(q)' = Entered(q) /\ Wrap(q)' = Wrap(q)
         /\ \A s : Claim(q, s)' = Claim(q, s) /\ EventAt(q, s)' = EventAt(q, s)
BY DEF Others, Holding, Entered, Held, SizeOf, Batchers, Bounded, Capacity, Claim, EventAt, Wrap

\* The last sequence handed out moves when a claim is taken, and then only.
LEMMA LastStep ==
  ASSUME TypeOK, StageInv, LineInv, NEW p \in Publishers, bus' = bus, PubAction(p)
  PROVE  /\ Last \in Int /\ Last >= -1
         /\ Takes(p) => ~sealed /\ ~sealed' /\ Last = next /\ Last' = next + SizeOf(p)
         /\ Keeps(p) \/ Refuses(p) \/ PutsBack(p) \/ Releases(p) => Last' = Last
<1>1. UNCHANGED <<sealed, lastClaim>>
  BY PubKinds
<1>2. next \in Int /\ lastClaim \in Int /\ (sealed <=> next < -1)
  BY LineReads DEF TypeOK, LineType
<1>3. PutsBack(p) => sealed
  <2> SUFFICES ASSUME PutsBack(p) PROVE sealed
    OBVIOUS
  <2>1. RefusedOf(p) \subseteq Refused /\ RefusedOf(p) # {}
    <3>1. SizeOf(p) \in Nat /\ SizeOf(p) > 0
      BY SizeType, BusAssumption DEF TypeOK, LineType, Capacity
    <3> QED
      BY <3>1, RefusedSize, FS_EmptySet DEF PutsBack
  <2> QED
    BY <2>1 DEF LineInv
<1>4. Last \in Int /\ Last >= -1
  BY <1>2 DEF Last, LineInv
<1>5. Takes(p) => ~sealed /\ ~sealed' /\ Last = next /\ Last' = next + SizeOf(p)
  BY <1>1, <1>2 DEF Takes, Last
<1>6. Keeps(p) \/ Refuses(p) \/ PutsBack(p) \/ Releases(p) => Last' = Last
  BY <1>1, <1>2, <1>3 DEF Keeps, Refuses, PutsBack, Releases, Last
<1> QED
  BY <1>4, <1>5, <1>6

\* The claim of a sequence a publisher holds.
ClaimOf(p) ==
  Holding(p) =>
    /\ pub[p].run = run /\ pub[p].seq <= Last /\ pub[p].seq - SizeOf(p) >= -1
    /\ \A s \in Held(p) : Claim(p, s) \in claimed
Apart == \A p, q \in Publishers : Holding(p) /\ Holding(q) /\ p # q => Held(p) \cap Held(q) = {}
Recorded ==
  /\ \A x \in claimed : x.run <= run /\ (x.run = run => x.seq \in 0 .. Last)
  /\ accepted \subseteq claimed

LEMMA ClaimParts == ClaimInv <=> (\A p \in Publishers : ClaimOf(p)) /\ Apart /\ Recorded /\ OneOwnerPerSequence
BY DEF ClaimInv, ClaimOf, Apart, Recorded

LEMMA PublisherClaims ==
  ASSUME TypeOK, StageInv, LineInv, ClaimInv, NEW p \in Publishers, bus' = bus, PubAction(p)
  PROVE  ClaimInv'
<1>1. /\ Others(p) /\ pub'[p] \in PubRecords
      /\ UNCHANGED <<running, control, sealed, lastClaim, claimBase, con, run, delivered>>
      /\ Keeps(p) \/ Refuses(p) \/ PutsBack(p) \/ Takes(p) \/ Releases(p)
  BY PubKinds
<1>2. /\ SizeOf(p) \in Nat /\ SizeOf(p) > 0 /\ SizeOf(p)' = SizeOf(p) /\ Last \in Int /\ Last >= -1
      /\ pub[p].seq \in Int /\ run \in Nat /\ next \in Int
  BY SizeType, PubRecord, LastStep, BusAssumption DEF TypeOK, LineType, Capacity, SizeOf, Batchers, PubRecords
<1>3. (\A q \in Publishers : ClaimOf(q)) /\ Apart /\ Recorded /\ OneOwnerPerSequence
  BY ClaimParts
<1>4. CASE Keeps(p) \/ Refuses(p) \/ PutsBack(p) \/ Releases(p)
  <2>1. /\ Last' = Last /\ claimed' = claimed
        /\ Holding(p)' => /\ Holding(p) /\ pub'[p].seq = pub[p].seq /\ pub'[p].calls = pub[p].calls
                          /\ pub'[p].run = pub[p].run
    BY <1>4, LastStep DEF Keeps, Refuses, PutsBack, Releases, Holding, Inside
  <2>2. Holding(p)' => Held(p)' = Held(p) /\ \A s : Claim(p, s)' = Claim(p, s)
    BY <2>1, HeldMoved DEF Claim, EventAt
  <2>3. ASSUME NEW q \in Publishers PROVE ClaimOf(q)'
    <3>1. CASE q = p
      BY <1>1, <1>2, <1>3, <2>1, <2>2, <3>1 DEF ClaimOf
    <3>2. CASE q # p
      <4>1. Holding(q)' = Holding(q) /\ Held(q)' = Held(q) /\ SizeOf(q)' = SizeOf(q) /\ pub'[q] = pub[q]
            /\ \A s : Claim(q, s)' = Claim(q, s)
        BY <1>1, <3>2, OthersHeld DEF Others
      <4> QED
        BY <1>1, <1>3, <2>1, <4>1 DEF ClaimOf
    <3> QED
      BY <3>1, <3>2
  <2>4. \A q \in Publishers : Holding(q)' => Holding(q) /\ Held(q)' = Held(q)
    BY <1>1, <2>1, <2>2, OthersHeld
  <2>5. Apart'
    BY <1>3, <2>4 DEF Apart
  <2>6. Recorded'
    <3>1. accepted' \subseteq claimed
      <4>1. CASE Releases(p)
        BY <1>3, <4>1 DEF Releases, ClaimOf, Recorded
      <4>2. CASE ~Releases(p)
        BY <1>3, <1>4, <4>2 DEF Keeps, Refuses, PutsBack, Recorded
      <4> QED
        BY <4>1, <4>2
    <3> QED
      BY <1>1, <1>3, <2>1, <3>1 DEF Recorded
  <2>7. OneOwnerPerSequence'
    BY <1>3, <2>1 DEF OneOwnerPerSequence
  <2> QED
    BY <2>3, <2>5, <2>6, <2>7, ClaimParts DEF ClaimInv, ClaimOf, Apart, Recorded
<1>5. CASE Takes(p)
  <2>1. ~sealed /\ ~sealed' /\ Last = next /\ Last' = next + SizeOf(p)
    BY <1>5, LastStep
  <2> DEFINE n == next + SizeOf(p)
  <2>2. /\ pub'[p].seq = n /\ pub'[p].run = run /\ pub'[p].calls = pub[p].calls /\ next >= -1
        /\ claimed' = claimed \cup ClaimsOf(p, n) /\ n \in Int /\ Last' = n
    BY <1>2, <1>5, <2>1 DEF Takes
  <2>3. Held(p)' = next + 1 .. n
    BY <1>2, <2>2 DEF Held
  <2>4. \A x \in ClaimsOf(p, n) : x.run = run /\ x.seq >= next + 1 /\ x.seq <= n /\ x.seq \in Int
    BY <1>2, <2>2, ClaimsType DEF ClaimRecords
  <2>5. ASSUME NEW q \in Publishers PROVE ClaimOf(q)'
    <3>1. CASE q = p
      <4>1. ASSUME NEW s \in Held(p)' PROVE Claim(p, s)' \in claimed'
        <5>1. Claim(p, s)' = [run |-> run, seq |-> s, ev |-> <<p, pub[p].calls, n - s>>]
          BY <2>2 DEF Claim, EventAt
        <5>2. s \in n - SizeOf(p) + 1 .. n
          BY <1>2, <2>3
        <5> QED
          BY <2>2, <5>1, <5>2 DEF ClaimsOf
      <4> QED
        BY <1>1, <1>2, <2>2, <3>1, <4>1 DEF ClaimOf
    <3>2. CASE q # p
      <4>1. Holding(q)' = Holding(q) /\ Held(q)' = Held(q) /\ SizeOf(q)' = SizeOf(q) /\ pub'[q] = pub[q]
            /\ \A s : Claim(q, s)' = Claim(q, s)
        BY <1>1, <3>2, OthersHeld DEF Others
      <4>2. pub[q].seq \in Int
        BY PubRecord DEF PubRecords
      <4>3. Holding(q) => /\ pub[q].run = run /\ pub[q].seq <= n /\ pub[q].seq - SizeOf(q) >= -1
                          /\ \A s \in Held(q) : Claim(q, s) \in claimed
        BY <1>2, <1>3, <2>1, <2>2, <4>2 DEF ClaimOf
      <4>4. run' = run /\ Last' = n /\ claimed \subseteq claimed'
        BY <1>1, <2>2
      <4> HIDE DEF n
      <4> QED
        BY <4>1, <4>3, <4>4 DEF ClaimOf
    <3> QED
      BY <3>1, <3>2
  <2>6. ASSUME NEW q \in Publishers, q # p, Holding(q)' PROVE Holding(q) /\ Held(q)' = Held(q) /\ Held(q)' \cap Held(p)' = {}
    <3>1. Holding(q) /\ Held(q)' = Held(q)
      BY <1>1, <2>6, OthersHeld
    <3>2. \A s \in Held(q) : s <= next /\ s \in Int
      BY <1>2, <1>3, <2>1, <3>1, HeldType, PubRecord DEF ClaimOf, PubRecords
    <3> QED
      BY <1>2, <2>3, <3>1, <3>2
  <2>7. Apart'
    BY <1>3, <2>6 DEF Apart
  <2>8. Recorded'
    <3>1. \A x \in claimed : x.run <= run /\ (x.run = run => x.seq \in 0 .. n)
      BY <1>2, <1>3, <2>1, <2>2 DEF Recorded
    <3>2. \A x \in ClaimsOf(p, n) : x.run <= run /\ x.seq \in 0 .. n
      BY <1>2, <2>2, <2>4
    <3> QED
      BY <1>1, <1>3, <1>5, <2>2, <3>1, <3>2 DEF Recorded, Takes
  <2>9. OneOwnerPerSequence'
    <3>1. \A x \in claimed, y \in ClaimsOf(p, n) : ~(x.run = y.run /\ x.seq = y.seq)
      BY <1>2, <1>3, <2>1, <2>4 DEF Recorded
    <3>2. \A x, y \in ClaimsOf(p, n) : x.seq = y.seq => x = y
      BY DEF ClaimsOf
    <3> QED
      BY <1>3, <2>2, <3>1, <3>2 DEF OneOwnerPerSequence
  <2> QED
    BY <2>5, <2>7, <2>8, <2>9 DEF ClaimInv, ClaimOf, Apart, Recorded
<1> QED
  BY <1>1, <1>4, <1>5

LEMMA HeldSize ==
  ASSUME NEW n \in Int, NEW k \in Nat, k > 0
  PROVE  IsFiniteSet(n - k + 1 .. n) /\ Cardinality(n - k + 1 .. n) = k
<1> DEFINE a == n - k + 1
<1>1. a \in Int /\ ~(a > n) /\ n - a + 1 = k
  OBVIOUS
<1> HIDE DEF a
<1>2. IsFiniteSet(a .. n) /\ Cardinality(a .. n) = k
  BY <1>1, FS_Interval
<1> QED
  BY <1>2 DEF a

\* What is unresolved is finite, and what a publisher holds is part of it.
LEMMA UnresolvedFacts ==
  ASSUME TypeOK, LineInv, ClaimInv
  PROVE  /\ IsFiniteSet(Unresolved) /\ Cardinality(Unresolved) \in Nat
         /\ \A p \in Publishers : /\ IsFiniteSet(Held(p)) /\ Cardinality(Held(p)) = SizeOf(p)
                                  /\ Holding(p) => Held(p) \subseteq Unresolved
         /\ Unresolved \subseteq 0 .. Last
<1>1. ASSUME NEW p \in Publishers PROVE IsFiniteSet(Held(p)) /\ Cardinality(Held(p)) = SizeOf(p)
  <2>1. pub[p].seq \in Int /\ SizeOf(p) \in Nat /\ SizeOf(p) > 0
    BY PubRecord, SizeType, BusAssumption DEF PubRecords, TypeOK, LineType, Capacity
  <2> QED
    BY <2>1, HeldSize DEF Held
<1>2. \A p \in Publishers : Holding(p) => Held(p) \subseteq Unresolved
  BY DEF Unresolved
<1>3. Last \in Int
  BY DEF TypeOK, LineType, Last
<1>4. ASSUME NEW p \in Publishers, Holding(p) PROVE Held(p) \subseteq 0 .. Last
  <2>1. /\ pub[p].seq \in Int /\ SizeOf(p) \in Int
        /\ pub[p].seq <= Last /\ pub[p].seq - SizeOf(p) >= -1
    BY <1>4, PubRecord, SizeType, BusAssumption DEF PubRecords, TypeOK, LineType, Capacity, ClaimInv
  <2> QED
    BY <1>3, <2>1 DEF Held
<1>5. Unresolved \subseteq 0 .. Last
  BY <1>4 DEF Unresolved
<1>6. IsFiniteSet(0 .. Last)
  BY <1>3, FS_Interval
<1>7. IsFiniteSet(Unresolved) /\ Cardinality(Unresolved) \in Nat
  BY <1>5, <1>6, FS_Subset, FS_CardinalityType
<1> QED
  BY <1>1, <1>2, <1>5, <1>7

\* Nobody holds anything: nothing is unresolved, and the other way round.
LEMMA NothingHeld ==
  ASSUME TypeOK, LineInv, ClaimInv
  PROVE  Cardinality(Unresolved) = 0 <=> \A p \in Publishers : ~Holding(p)
<1>1. Cardinality(Unresolved) = 0 <=> Unresolved = {}
  BY UnresolvedFacts, FS_EmptySet
<1>2. ASSUME NEW p \in Publishers, Holding(p) PROVE Unresolved # {}
  BY <1>2, UnresolvedFacts, HeldType
<1>3. (\A p \in Publishers : ~Holding(p)) => Unresolved = {}
  BY DEF Unresolved
<1> QED
  BY <1>1, <1>2, <1>3

LEMMA PublisherCounts ==
  ASSUME TypeOK, StageInv, LineInv, ClaimInv, CountInv, NEW p \in Publishers, bus' = bus, PubAction(p)
  PROVE  CountInv'
<1>1. /\ Others(p) /\ pub'[p] \in PubRecords
      /\ UNCHANGED <<running, control, sealed, lastClaim, claimBase, con, run, delivered>>
      /\ Keeps(p) \/ Refuses(p) \/ PutsBack(p) \/ Takes(p) \/ Releases(p)
  BY PubKinds
<1>2. IsFiniteSet(Held(p)) /\ Cardinality(Held(p)) = SizeOf(p)
  BY UnresolvedFacts
<1>3. /\ SizeOf(p) \in Nat /\ SizeOf(p) > 0 /\ Last \in Int /\ resolved \in Nat /\ claimBase \in Nat
      /\ Cardinality(Unresolved) \in Nat /\ IsFiniteSet(Unresolved) /\ next \in Int
      /\ resolved - claimBase + Cardinality(Unresolved) = Last + 1
  BY SizeType, LastStep, UnresolvedFacts, BusAssumption DEF TypeOK, LineType, Capacity, CountInv
<1>4. IsFiniteSet(Held(p)') /\ Cardinality(Held(p)') = SizeOf(p)
  <2>1. SizeOf(p)' = SizeOf(p) /\ pub'[p].seq \in Int
    BY <1>1 DEF SizeOf, Batchers, Capacity, PubRecords
  <2> QED
    BY <1>3, <2>1, HeldSize DEF Held
<1>5. \A q \in Publishers : q # p => Holding(q)' = Holding(q) /\ Held(q)' = Held(q)
  BY <1>1, OthersHeld
<1> DEFINE H == {q \in Publishers : Holding(q)}
           K == {q \in Publishers : Holding(q)'}
<1>6. Unresolved = UNION {Held(q) : q \in H} /\ Unresolved' = UNION {Held(q)' : q \in K}
  BY DEF Unresolved
<1>7. CASE Keeps(p) \/ Refuses(p) \/ PutsBack(p)
  <2>1. /\ Holding(p)' = Holding(p) /\ resolved' = resolved
        /\ Holding(p) => pub'[p].seq = pub[p].seq
    BY <1>7 DEF Keeps, Refuses, PutsBack, Holding, Inside
  <2>2. Holding(p) => Held(p)' = Held(p)
    BY <2>1, HeldMoved
  <2>3. H = K /\ \A q \in H : Held(q)' = Held(q)
    BY <1>5, <2>1, <2>2
  <2>4. Unresolved' = Unresolved
    BY <1>6, <2>3
  <2>5. Last' = Last
    BY <1>7, LastStep
  <2>6. resolved' - claimBase' + Cardinality(Unresolved') = Last' + 1
    BY <1>1, <1>3, <2>1, <2>4, <2>5
  <2>7. \A q \in Publishers : Holding(q)' = Holding(q)
    BY <1>5, <2>1
  <2>8. Consumers' = Consumers /\ Down' = Down
    BY <1>1 DEF Consumers, Required, Optional, Down
  <2> QED
    BY <1>1, <2>6, <2>7, <2>8 DEF CountInv
<1>8. CASE Releases(p)
  <2>1. Holding(p) /\ ~Holding(p)' /\ resolved' = resolved + SizeOf(p)
    BY <1>8 DEF Releases, Holding, Inside
  <2>2. K = H \ {p} /\ p \in H
    BY <1>5, <2>1
  <2>3. \A q \in K : Held(q)' = Held(q) /\ Held(q) \cap Held(p) = {}
    BY <1>5, <2>1, <2>2 DEF ClaimInv
  <2> HIDE DEF H, K
  <2>4. Unresolved = Unresolved' \cup Held(p) /\ Unresolved' \cap Held(p) = {}
    BY <1>6, <2>2, <2>3
  <2>a. IsFiniteSet(Unresolved') /\ Cardinality(Unresolved') \in Nat
    BY <1>3, <2>4, FS_Subset, FS_CardinalityType
  <2>5. Cardinality(Unresolved) = Cardinality(Unresolved') + SizeOf(p)
    BY <1>2, <2>4, <2>a, DisjointSize
  <2>6. Last' = Last
    BY <1>8, LastStep
  <2>7. resolved' - claimBase' + Cardinality(Unresolved') = Last' + 1
    BY <1>1, <1>3, <2>1, <2>a, <2>5, <2>6
  <2>8. \A q \in Publishers : Holding(q)' => Holding(q)
    BY <1>5, <2>1
  <2>9. Consumers' = Consumers /\ Down' = Down
    BY <1>1 DEF Consumers, Required, Optional, Down
  <2> QED
    BY <1>1, <2>7, <2>8, <2>9 DEF CountInv
<1>9. CASE Takes(p)
  <2>1. ~Holding(p) /\ Holding(p)' /\ ~sealed /\ Last = next /\ Last' = next + SizeOf(p)
        /\ resolved' = resolved /\ pub'[p].seq = next + SizeOf(p) /\ ~Outside(p)
    BY <1>9, LastStep DEF Takes, Outside
  <2>2. K = H \cup {p} /\ p \notin H
    BY <1>5, <2>1
  <2>3. \A q \in H : Held(q)' = Held(q)
    BY <1>5, <2>2
  <2> HIDE DEF H, K
  <2>4. Unresolved' = Unresolved \cup Held(p)'
    BY <1>6, <2>2, <2>3
  <2>5. Unresolved \cap Held(p)' = {}
    <3>1. Held(p)' = next + 1 .. next + SizeOf(p)
      <4>1. SizeOf(p)' = SizeOf(p)
        BY DEF SizeOf, Batchers, Capacity
      <4> QED
        BY <1>3, <2>1, <4>1 DEF Held
    <3>2. Unresolved \subseteq 0 .. next
      BY <2>1, UnresolvedFacts
    <3> QED
      BY <1>3, <3>1, <3>2
  <2>6. Cardinality(Unresolved') = Cardinality(Unresolved) + SizeOf(p)
    BY <1>3, <1>4, <2>4, <2>5, DisjointSize
  <2>7. resolved' - claimBase' + Cardinality(Unresolved') = Last' + 1
    BY <1>1, <1>3, <2>1, <2>6
  <2>8. ~Down' /\ control' # "join"
    BY <1>1, <2>1 DEF Down, StageInv
  <2>9. \A c \in Consumers' : con'[c].pc # "drain"
    BY <1>1, <2>1 DEF CountInv, Consumers, Required, Optional
  <2> QED
    BY <2>7, <2>8, <2>9 DEF CountInv
<1> QED
  BY <1>1, <1>7, <1>8, <1>9

\* Whoever touches neither publishers nor the line keeps the claims.
LEMMA HoldFrame ==
  ASSUME bus' = bus, pub' = pub
  PROVE  /\ Unresolved' = Unresolved
         /\ \A p \in Publishers : /\ Holding(p)' = Holding(p) /\ Held(p)' = Held(p) /\ SizeOf(p)' = SizeOf(p)
                                  /\ Entered(p)' = Entered(p) /\ Wrap(p)' = Wrap(p)
                                  /\ \A s : Claim(p, s)' = Claim(p, s) /\ EventAt(p, s)' = EventAt(p, s)
BY DEF Unresolved, Holding, Entered, Held, SizeOf, Batchers, Bounded, Capacity, Claim, EventAt, Wrap

LEMMA ClaimFrame ==
  ASSUME ClaimInv, bus' = bus, pub' = pub, UNCHANGED <<claimed, accepted, run>>, Last' = Last
  PROVE  ClaimInv'
<1>1. \A p \in Publishers : /\ Holding(p)' = Holding(p) /\ Held(p)' = Held(p) /\ SizeOf(p)' = SizeOf(p)
                            /\ \A s : Claim(p, s)' = Claim(p, s)
  BY HoldFrame
<1>2. \A p \in Publishers : ClaimOf(p)'
  BY <1>1, ClaimParts DEF ClaimOf
<1>3. Apart' /\ Recorded' /\ OneOwnerPerSequence'
  BY <1>1, ClaimParts DEF Apart, Recorded, OneOwnerPerSequence
<1> QED
  BY <1>2, <1>3 DEF ClaimInv, ClaimOf, Apart, Recorded

LEMMA ConsumerFrame ==
  ASSUME NEW c \in Consumers, ConAction(c)
  PROVE  UNCHANGED <<running, next, cachedMin, cachedMinConsumed, published, constructed, event,
                     sealed, lastClaim, resolved, claimBase, control, pub, run, claimed, accepted>>
BY DEF ConAction, Poll, SlotLook, Deliver, DrainSlot, DeliverThrows, Commit, DrainBegin,
       DrainThrows, DrainEnd, line, ring, closing, history

\* A quiescent bus: every claim of the run is resolved, so nobody is inside.
LEMMA QuietIsQuiet ==
  ASSUME TypeOK, LineInv, ClaimInv, CountInv, Quiescent
  PROVE  sealed /\ \A p \in Publishers : ~Holding(p)
<1>1. sealed /\ resolved - claimBase >= lastClaim + 1 /\ Last = lastClaim
  BY DEF Quiescent, Claims, LineInv, TypeOK, LineType, Last
<1>2. Cardinality(Unresolved) \in Nat /\ lastClaim \in Int /\ resolved \in Nat /\ claimBase \in Nat
      /\ resolved - claimBase + Cardinality(Unresolved) = Last + 1
  BY UnresolvedFacts DEF CountInv, TypeOK, LineType
<1>3. Cardinality(Unresolved) = 0
  BY <1>1, <1>2
<1> QED
  BY <1>1, <1>3, NothingHeld

LEMMA ConsumerClaims ==
  ASSUME TypeOK, StageInv, LineInv, ClaimInv, CountInv, NEW c \in Consumers, bus' = bus, ConAction(c)
  PROVE  ClaimInv' /\ CountInv'
<1>1. UNCHANGED <<running, next, sealed, lastClaim, resolved, claimBase, control, pub, run, claimed, accepted>>
  BY ConsumerFrame
<1>2. Last' = Last /\ Down' = Down /\ Consumers' = Consumers
  BY <1>1 DEF Last, Down, Consumers, Required, Optional
<1>3. ClaimInv'
  BY <1>1, <1>2, ClaimFrame
<1>4. Unresolved' = Unresolved /\ \A p \in Publishers : Holding(p)' = Holding(p)
  BY <1>1, HoldFrame
<1>5. \A d \in Consumers : con'[d].pc = "drain" => con[d].pc = "drain" \/ Quiescent
  <2>1. OtherCons(c) /\ (con'[c].pc = "drain" => con[c].pc = "drain" \/ DrainBegin(c))
    <3>1. CASE Poll(c)
      BY <3>1, PollStep
    <3>2. CASE SlotLook(c)
      BY <3>2, SlotLookStep
    <3>3. CASE Deliver(c)
      BY <3>3, DeliverStep
    <3>4. CASE DrainSlot(c)
      BY <3>4, DrainSlotStep DEF DrainSlot
    <3>5. CASE DeliverThrows(c) \/ Commit(c) \/ DrainBegin(c) \/ DrainThrows(c) \/ DrainEnd(c)
      BY <3>5, QuietConsumerStep
    <3> QED
      BY <3>1, <3>2, <3>3, <3>4, <3>5 DEF ConAction
  <2> QED
    BY <2>1 DEF OtherCons, DrainBegin
<1>6. CountInv'
  BY <1>1, <1>2, <1>4, <1>5, QuietIsQuiet DEF CountInv
<1> QED
  BY <1>3, <1>6

LEMMA ControlClaims ==
  ASSUME TypeOK, StageInv, LineInv, ClaimInv, CountInv, bus' = bus, ControlAction
  PROVE  ClaimInv' /\ CountInv'
<1>1. pub' = pub /\ Consumers' = Consumers
  BY ControlStep DEF ControlAction, Consumers, Required, Optional
<1>2. Unresolved' = Unresolved /\ \A p \in Publishers : Holding(p)' = Holding(p)
  BY <1>1, HoldFrame
<1>3. \A p \in Publishers : Outside(p) => ~Holding(p)
  BY DEF Outside, Holding, Inside
<1>4. CASE StartFlag \/ StopFlag \/ StopQuiet
  <2>1. UNCHANGED <<next, sealed, lastClaim, resolved, claimBase, con, run, claimed, accepted>>
    BY <1>4 DEF StartFlag, StopFlag, StopQuiet, line, closing, history
  <2>2. Last' = Last
    BY <2>1 DEF Last
  <2>3. control' = "join" \/ Down' => \A p \in Publishers : ~Holding(p)
    <3>1. CASE StartFlag
      BY <1>3, <3>1 DEF StartFlag
    <3>2. CASE StopFlag
      BY <3>2 DEF StopFlag, Down
    <3>3. CASE StopQuiet
      BY <3>3, QuietIsQuiet DEF StopQuiet
    <3> QED
      BY <1>4, <3>1, <3>2, <3>3
  <2>4. CountInv'
    BY <1>1, <1>2, <2>1, <2>2, <2>3 DEF CountInv
  <2> QED
    BY <1>1, <2>1, <2>2, <2>4, ClaimFrame
<1>5. CASE Seal
  <2>1. /\ ~sealed /\ lastClaim' = next /\ sealed' = TRUE /\ control' = "await"
        /\ UNCHANGED <<running, resolved, claimBase, con, run, claimed, accepted>>
    BY <1>5 DEF Seal, StageInv, history
  <2>2. Last' = Last
    BY <2>1 DEF Last
  <2>3. CountInv'
    <3>1. ~Down' /\ control' # "join"
      BY <2>1 DEF Down
    <3>2. \A c \in Consumers : con'[c].pc # "drain"
      BY <2>1 DEF CountInv
    <3>3. resolved' - claimBase' + Cardinality(Unresolved') = Last' + 1
      BY <1>2, <2>1, <2>2 DEF CountInv
    <3> QED
      BY <1>1, <3>1, <3>2, <3>3 DEF CountInv
  <2> QED
    BY <1>1, <2>1, <2>2, <2>3, ClaimFrame
<1>6. CASE Teardown
  <2>1. UNCHANGED <<running, next, sealed, lastClaim, resolved, claimBase, run, claimed, accepted>>
    BY <1>6 DEF Teardown, closing, history
  <2>2. Last' = Last
    BY <2>1 DEF Last
  <2>3. \A p \in Publishers : ~Holding(p)
    BY <1>6 DEF Teardown, CountInv
  <2>4. \A c \in Consumers : con'[c].pc # "drain"
    BY <1>6, ControlStep DEF Teardown, ControlAction
  <2>5. resolved' - claimBase' + Cardinality(Unresolved') = Last' + 1
    BY <1>2, <2>1, <2>2 DEF CountInv
  <2>6. CountInv'
    BY <1>1, <1>2, <2>3, <2>4, <2>5 DEF CountInv
  <2> QED
    BY <1>1, <2>1, <2>2, <2>6, ClaimFrame
<1>7. CASE StartOpen
  <2>1. /\ ~sealed' /\ next' = -1 /\ claimBase' = resolved /\ resolved' = resolved /\ run' = run + 1
        /\ UNCHANGED <<claimed, accepted, running>> /\ control' = "idle" /\ Last' = -1
    BY <1>7 DEF StartOpen, Last
  <2>2. \A p \in Publishers : ~Holding(p)
    BY <1>3, <1>7 DEF StartOpen, StageInv
  <2>3. ClaimInv'
    <3>1. \A p \in Publishers : ~Holding(p)'
      BY <1>2, <2>2
    <3>2. \A x \in claimed : x.run \in Nat /\ x.run <= run /\ run \in Nat
      BY DEF ClaimInv, TypeOK, LineType, HistoryType, ClaimRecords
    <3>3. \A x \in claimed : x.run <= run + 1 /\ x.run # run + 1
      BY <3>2
    <3>4. Recorded'
      BY <2>1, <3>3, ClaimParts DEF Recorded
    <3>5. OneOwnerPerSequence'
      BY <2>1 DEF ClaimInv, OneOwnerPerSequence
    <3> QED
      BY <3>1, <3>4, <3>5 DEF ClaimInv, Recorded
  <2>4. CountInv'
    <3>1. Cardinality(Unresolved') = 0
      BY <1>2, <2>2, NothingHeld
    <3>2. \A c \in Consumers : con'[c].pc # "drain"
      BY <1>7, ControlStep
    <3>3. resolved' - claimBase' + Cardinality(Unresolved') = Last' + 1
      BY <2>1, <3>1 DEF TypeOK, LineType
    <3> QED
      BY <1>1, <1>2, <2>2, <3>2, <3>3 DEF CountInv
  <2> QED
    BY <2>3, <2>4
<1> QED
  BY <1>4, <1>5, <1>6, <1>7 DEF ControlAction

\* The first layer: types, stages, the line, the claims and their count.
BaseInv == TypeOK /\ StageInv /\ LineInv /\ ClaimInv /\ CountInv

LEMMA InitBase == Init => BaseInv
<1> SUFFICES ASSUME Init PROVE BaseInv
  OBVIOUS
<1>1. \A p \in Publishers : ~Holding(p)
  BY DEF Init, NoPub, Holding, Inside
<1>2. ClaimInv
  BY <1>1 DEF Init, ClaimInv, OneOwnerPerSequence
<1>3. TypeOK /\ StageInv /\ LineInv
  BY InitStage, InitLine
<1>4. Cardinality(Unresolved) = 0
  BY <1>1, <1>2, <1>3, NothingHeld
<1>5. CountInv
  BY <1>1, <1>4 DEF Init, CountInv, Last, NoCon
<1> QED
  BY <1>2, <1>3, <1>5 DEF BaseInv

LEMMA NextBase == ASSUME BaseInv, [Next]_vars PROVE BaseInv'
<1>1. bus' = bus /\ TypeOK' /\ StageInv' /\ LineInv'
  BY StepCases, NextStage, NextLine DEF BaseInv
<1>2. ASSUME NEW p \in Publishers, PubAction(p) PROVE ClaimInv' /\ CountInv'
  BY <1>1, <1>2, PublisherClaims, PublisherCounts DEF BaseInv
<1>3. ASSUME NEW c \in Consumers, ConAction(c) PROVE ClaimInv' /\ CountInv'
  BY <1>1, <1>3, ConsumerClaims DEF BaseInv
<1>4. ASSUME ControlAction PROVE ClaimInv' /\ CountInv'
  BY <1>1, <1>4, ControlClaims DEF BaseInv
<1>5. ASSUME UNCHANGED vars PROVE ClaimInv' /\ CountInv'
  <2>1. UNCHANGED <<bus, pub, con, running, control, next, sealed, lastClaim, resolved, claimBase,
                    run, claimed, accepted>>
    BY <1>5 DEF vars, line, closing, history
  <2>2. Last' = Last /\ Down' = Down /\ Consumers' = Consumers
    BY <2>1 DEF Last, Down, Consumers, Required, Optional
  <2>3. Unresolved' = Unresolved /\ \A p \in Publishers : Holding(p)' = Holding(p)
    BY <2>1, HoldFrame
  <2>4. ClaimInv'
    BY <2>1, <2>2, ClaimFrame DEF BaseInv
  <2>5. CountInv'
    <3>1. CountInv
      BY DEF BaseInv
    <3>2. /\ resolved' - claimBase' + Cardinality(Unresolved') = Last' + 1
          /\ control' = "join" \/ Down' => \A p \in Publishers : ~Holding(p)'
      BY <2>1, <2>2, <2>3, <3>1 DEF CountInv
    <3>3. \A c \in Consumers : con'[c].pc = "drain" => sealed' /\ \A p \in Publishers : ~Holding(p)'
      BY <2>1, <2>3, <3>1 DEF CountInv
    <3> QED
      BY <2>2, <3>2, <3>3 DEF CountInv
  <2> QED
    BY <2>4, <2>5
<1> QED
  BY <1>1, <1>2, <1>3, <1>4, <1>5, StepCases DEF BaseInv

\* Whatever races with whatever, start() and stop() included, no sequence of a run is handed
\* out twice: claims by fetch_add, claims by exchange and refused claims share one line.
THEOREM SequencesHaveOneOwner == Spec => []OneOwnerPerSequence
<1>1. BaseInv => OneOwnerPerSequence
  BY DEF BaseInv, ClaimInv
<1> QED
  BY <1>1, InitBase, NextBase, PTL DEF Spec

-----------------------------------------------------------------------------
(* Progress and the reclaim fence *)

\* What a consumer says of its progress.
ProgressOf(c) ==
  /\ con[c].seq >= -1 /\ con[c].seq <= con[c].last
  /\ con[c].pc \in {"top", "await", "slot", "deliver", "commit"} => con[c].next = con[c].seq
  /\ con[c].pc \in {"top", "await", "drain"} => con[c].last = con[c].seq
  /\ con[c].pc = "drain" => ~running

LEMMA PositionTypes ==
  ASSUME TypeOK, NEW c \in Consumers
  PROVE  /\ con[c].seq \in Int /\ con[c].last \in Int /\ con[c].next \in Int
         /\ con[c].seq >= -1 /\ con[c].last >= -1 /\ con[c].next >= -1
BY ConRecord DEF ConRecords, Positions

\* A consumer never takes back progress, and runs only while the bus is up.
LEMMA ConsumerProgress ==
  ASSUME BaseInv, ProgressInv, NEW c \in Consumers, bus' = bus, ConAction(c)
  PROVE  /\ ProgressInv' /\ OtherCons(c) /\ con[c].pc # "joined"
         /\ con[c].seq <= con'[c].seq /\ con[c].last <= con'[c].last
<1>1. TypeOK /\ StageInv /\ ProgressOf(c)
  BY DEF BaseInv, ProgressInv, ProgressOf
<1>2. /\ con[c].seq \in Int /\ con[c].last \in Int /\ con[c].next \in Int /\ next \in Int
      /\ con[c].seq >= -1 /\ con[c].last >= -1 /\ con[c].next >= -1
  BY <1>1, PositionTypes DEF TypeOK, LineType
<1>3. UNCHANGED <<running, published, control>> /\ Consumers' = Consumers /\ Slots' = Slots
  BY ConsumerFrame DEF Consumers, Required, Optional, Slots, Capacity
<1>4. OtherCons(c) /\ ProgressOf(c)' /\ con[c].seq <= con'[c].seq /\ con[c].last <= con'[c].last
      /\ con[c].pc # "joined"
  <2>1. CASE Poll(c)
    <3>1. con[c].pc = "top" /\ con[c].next = con[c].seq /\ con[c].last = con[c].seq
      BY <1>1, <2>1 DEF Poll, ProgressOf
    <3>2. OtherCons(c)
      BY <1>1, <2>1, PollStep
    <3>3. CASE ~running
      <4>1. /\ con'[c].pc \in {"await", "joined"} /\ con'[c].next = con[c].next
            /\ con'[c].last = con[c].last /\ con'[c].seq = con[c].seq
        BY <1>1, <2>1, <3>3, PollStep
      <4> QED
        BY <1>2, <1>3, <3>1, <3>2, <4>1 DEF ProgressOf
    <3>4. CASE running
      <4>1. /\ con'[c].pc = "slot" /\ con'[c].last = con'[c].next
            /\ \/ con'[c].next = con[c].next /\ con'[c].seq = con[c].seq
               \/ con'[c].next = next - 1 /\ con'[c].seq = next - 1 /\ con[c].next <= next - 1
        BY <1>1, <2>1, <3>4, PollStep
      <4> QED
        BY <1>2, <1>3, <3>1, <3>2, <4>1 DEF ProgressOf
    <3> QED
      BY <3>3, <3>4
  <2>2. CASE SlotLook(c)
    <3>1. con[c].pc = "slot" /\ con[c].next = con[c].seq /\ con[c].seq <= con[c].last
      BY <1>1, <2>2 DEF SlotLook, ProgressOf
    <3>2. /\ OtherCons(c) /\ con'[c].next = con[c].next /\ con'[c].seq = con[c].seq
          /\ \/ con'[c].pc = "deliver" /\ con'[c].last = con[c].last
             \/ con'[c].pc = "slot" /\ con'[c].last = con[c].last + 1
             \/ con'[c].pc = "top" /\ con'[c].last = con[c].last /\ con[c].last = con[c].next
             \/ con'[c].pc = "commit" /\ con'[c].last = con[c].last
      BY <1>1, <2>2, SlotLookStep
    <3> QED
      BY <1>2, <1>3, <3>1, <3>2 DEF ProgressOf
  <2>3. CASE Deliver(c)
    <3>1. con[c].pc = "deliver" /\ con[c].next = con[c].seq /\ con[c].seq <= con[c].last
      BY <1>1, <2>3 DEF Deliver, ProgressOf
    <3>2. /\ OtherCons(c) /\ con'[c].next = con[c].next /\ con'[c].seq = con[c].seq
          /\ con'[c].pc = "slot" /\ con'[c].last = con[c].last + 1
      BY <1>1, <2>3, DeliverStep
    <3> QED
      BY <1>2, <1>3, <3>1, <3>2 DEF ProgressOf
  <2>4. CASE DrainSlot(c)
    <3>1. con[c].pc = "drain" /\ con[c].last = con[c].seq /\ ~running
      BY <1>1, <2>4 DEF DrainSlot, ProgressOf
    <3>2. /\ OtherCons(c) /\ con'[c].pc = "drain"
          /\ con'[c].last = con[c].last + 1 /\ con'[c].seq = con[c].last + 1
      BY <1>1, <2>4, DrainSlotStep
    <3> QED
      BY <1>2, <1>3, <3>1, <3>2 DEF ProgressOf
  <2>5. CASE DeliverThrows(c) \/ Commit(c)
    <3>1. con[c].pc \in {"deliver", "commit"} /\ con[c].seq <= con[c].last
      BY <1>1, <2>5 DEF DeliverThrows, Commit, ProgressOf
    <3>2. /\ OtherCons(c) /\ con'[c].pc \in {"joined", "top"} /\ con'[c].next = con[c].last
          /\ con'[c].seq = con[c].last /\ con'[c].last = con[c].last
      BY <1>1, <2>5, QuietConsumerStep
    <3> QED
      BY <1>2, <1>3, <3>1, <3>2 DEF ProgressOf
  <2>6. CASE DrainBegin(c) \/ DrainThrows(c) \/ DrainEnd(c)
    <3>1. con[c].pc \in {"await", "drain"} /\ con[c].seq = con[c].last
      BY <1>1, <2>6 DEF DrainBegin, DrainThrows, DrainEnd, ProgressOf
    <3>2. /\ OtherCons(c) /\ con'[c].pc \in {"joined", "drain"}
          /\ con'[c].seq = con[c].seq /\ con'[c].last = con[c].last
      BY <1>1, <2>6, <3>1, QuietConsumerStep
    <3>3. con'[c].pc = "drain" => ~running
      <4>1. CASE DrainBegin(c)
        <5>1. sealed
          BY <4>1 DEF DrainBegin, Quiescent
        <5>2. running => control = "opening"
          BY <1>1, <5>1 DEF StageInv, TypeOK, LineType
        <5> QED
          BY <3>1, <5>2 DEF ProgressInv, Down
      <4>2. CASE ~DrainBegin(c)
        BY <1>1, <2>6, <4>2, QuietConsumerStep
      <4> QED
        BY <4>1, <4>2
    <3> QED
      BY <1>2, <1>3, <3>1, <3>2, <3>3 DEF ProgressOf
  <2> QED
    BY <2>1, <2>2, <2>3, <2>4, <2>5, <2>6 DEF ConAction
<1>5. ~Down' /\ \A d \in Consumers : ProgressOf(d)'
  BY <1>3, <1>4 DEF ProgressInv, ProgressOf, Down, OtherCons
<1> QED
  BY <1>3, <1>4, <1>5 DEF ProgressInv, ProgressOf

LEMMA PublisherProgress ==
  ASSUME BaseInv, ProgressInv, NEW p \in Publishers, bus' = bus, PubAction(p)
  PROVE  ProgressInv'
<1>1. TypeOK /\ StageInv /\ UNCHANGED <<running, control, con>> /\ Down' = Down
  BY PubKinds DEF BaseInv, Down
<1>2. Consumers' = Consumers /\ Slots' = Slots
  BY DEF Consumers, Required, Optional, Slots, Capacity
<1>3. CASE Stamp(p)
  <2>1. ~Down
    BY <1>3 DEF Stamp, BaseInv, CountInv, Holding, Entered, Inside
  <2> QED
    BY <1>1, <1>2, <2>1 DEF ProgressInv
<1>4. CASE ~Stamp(p)
  <2>1. published' = published
    BY <1>4 DEF PubAction, Enter, ClaimLine, PutBack, TryLine, WrapLook, WrapScan, WrapStore, ReclaimLook,
         FenceScan, FenceStore, Exchange, Write, WriteThrows, Resolve, ring
  <2> QED
    BY <1>1, <1>2, <2>1 DEF ProgressInv
<1> QED
  BY <1>3, <1>4

LEMMA ControlProgress ==
  ASSUME BaseInv, ProgressInv, bus' = bus, ControlAction
  PROVE  ProgressInv'
<1>1. TypeOK /\ StageInv
  BY DEF BaseInv
<1>2. Consumers' = Consumers /\ Slots' = Slots
  BY DEF Consumers, Required, Optional, Slots, Capacity
<1>3. CASE StartFlag \/ StopFlag \/ Seal \/ StopQuiet
  <2>1. con' = con /\ published' = published
    BY <1>3 DEF StartFlag, StopFlag, Seal, StopQuiet, ring
  <2>2. Down' => Down
    BY <1>1, <1>3 DEF StartFlag, StopFlag, Seal, StopQuiet, Down
  <2>3. (Down' \/ ~running') \/ running' = running
    BY <1>3 DEF StartFlag, StopFlag, Seal, StopQuiet, Down
  <2> QED
    BY <1>2, <2>1, <2>2, <2>3 DEF ProgressInv
<1>4. CASE StartOpen
  <2>1. \A c \in Consumers :
              /\ con'[c].pc = "top" /\ con'[c].next = -1 /\ con'[c].last = -1 /\ con'[c].seq = -1
    BY <1>1, <1>4, ControlStep
  <2>2. ~Down'
    BY <1>1, <1>4 DEF StartOpen, Down, StageInv
  <2> QED
    BY <1>2, <2>1, <2>2 DEF ProgressInv
<1>5. CASE Teardown
  <2>1. \A c \in Consumers : con'[c].pc = "joined" /\ con'[c].last = -1 /\ con'[c].seq = -1
    BY <1>1, <1>5, ControlStep DEF Teardown
  <2>2. \A i \in Slots : published'[i] = -1
    BY <1>5 DEF Teardown
  <2> QED
    BY <1>2, <2>1, <2>2 DEF ProgressInv
<1> QED
  BY <1>3, <1>4, <1>5 DEF ControlAction

LEMMA InitProgress == Init => ProgressInv
BY DEF Init, ProgressInv, NoCon

LEMMA NextProgress == ASSUME BaseInv, ProgressInv, [Next]_vars PROVE ProgressInv'
<1>1. bus' = bus
  BY StepCases
<1>2. ASSUME UNCHANGED vars PROVE ProgressInv'
  <2>1. UNCHANGED <<con, published, running, control>> /\ Consumers' = Consumers /\ Slots' = Slots /\ Down' = Down
    BY <1>1, <1>2 DEF vars, ring, Consumers, Required, Optional, Slots, Capacity, Down
  <2> QED
    BY <2>1 DEF ProgressInv
<1> QED
  BY <1>1, <1>2, StepCases, PublisherProgress, ConsumerProgress, ControlProgress

\* Whoever is past the fence has every consumer behind the slot it reuses.
FenceOf(p, c) ==
  /\ pub[p].pc = "fenceStore" => Wrap(p) <= pub[p].min /\ pub[p].min <= con[c].seq
  /\ pub[p].pc = "cas" => sealed \/ Wrap(p) <= con[c].seq
  /\ Entered(p) => Wrap(p) <= con[c].seq
FenceAt(c) == cachedMinConsumed <= con[c].seq /\ \A i \in Slots : published[i] <= con[c].seq + Capacity

LEMMA FenceParts ==
  FenceInv <=> \A c \in Consumers : FenceAt(c) /\ \A p \in Publishers : FenceOf(p, c)
BY DEF FenceInv, FenceAt, FenceOf

\* A teardown nobody is still storing a reclaim bound across: what stop() takes for granted
\* when it resets the caches ("the publishers have been waited out, so this races nobody").
CleanStep == Teardown => \A p \in Publishers : pub[p].pc # "fenceStore"
CleanTeardown == [][CleanStep]_vars

LEMMA WrapType == ASSUME TypeOK, NEW p \in Publishers PROVE Wrap(p) \in Int /\ Capacity \in Nat /\ Capacity > 0
BY PubRecord, BusAssumption DEF TypeOK, LineType, PubRecords, Wrap, Capacity

LEMMA WrapMoved ==
  ASSUME NEW p \in Publishers, bus' = bus, pub'[p].seq = pub[p].seq
  PROVE  Wrap(p)' = Wrap(p)
BY DEF Wrap, Capacity

\* Operations that neither store into the ring or its reclaim cache nor pass the fence.
LEMMA FenceKept ==
  ASSUME FenceInv, NEW p \in Publishers, bus' = bus, Others(p), UNCHANGED <<con, sealed, published>>,
         cachedMinConsumed' = cachedMinConsumed, \A c \in Consumers : FenceOf(p, c)'
  PROVE  FenceInv'
<1>1. Slots' = Slots /\ Capacity' = Capacity /\ Consumers' = Consumers
  BY DEF Slots, Capacity, Consumers, Required, Optional
<1>2. ASSUME NEW q \in Publishers, NEW c \in Consumers PROVE FenceOf(q, c)'
  <2>1. CASE q # p
    <3>1. pub'[q] = pub[q] /\ Entered(q)' = Entered(q) /\ Wrap(q)' = Wrap(q)
      BY <2>1, OthersHeld DEF Others
    <3> QED
      BY <3>1, FenceParts DEF FenceOf
  <2> QED
    BY <2>1
<1>3. \A c \in Consumers : FenceAt(c)'
  BY <1>1, FenceParts DEF FenceAt
<1> QED
  BY <1>1, <1>2, <1>3 DEF FenceInv, FenceAt, FenceOf

LEMMA PublisherFence ==
  ASSUME BaseInv, FenceInv, NEW p \in Publishers, bus' = bus, PubAction(p)
  PROVE  FenceInv'
<1>1. TypeOK /\ StageInv /\ LineInv
  BY DEF BaseInv
<1>2. Others(p) /\ UNCHANGED <<con, sealed, control>> /\ pub'[p] \in PubRecords
  BY <1>1, PubKinds
<1>3. \A c \in Consumers : con[c].seq \in Int /\ con[c].seq >= -1
  BY <1>1, PositionTypes
<1>4. Wrap(p) \in Int /\ Capacity \in Nat /\ cachedMinConsumed \in Int /\ pub[p].min \in Int
      /\ pub[p].seq \in Int
  BY <1>1, WrapType, PubRecord DEF TypeOK, LineType, PubRecords
<1>5. \A c \in Consumers : FenceAt(c) /\ FenceOf(p, c)
  BY FenceParts
<1>6. ASSUME UNCHANGED <<published, cachedMinConsumed>>,
             pub'[p].pc \notin {"fenceStore", "cas", "write", "stamp", "resolve"}
      PROVE  FenceInv'
  <2>1. \A c \in Consumers : FenceOf(p, c)'
    BY <1>6 DEF FenceOf, Entered
  <2> QED
    BY <1>2, <1>6, <2>1, FenceKept
<1>7. CASE Enter(p)
  BY <1>1, <1>6, <1>7, EnterStep, ZenonT(60) DEF Enter, line, ring
<1>8. CASE ClaimLine(p)
  BY <1>1, <1>6, <1>8, ClaimLineStep DEF ClaimLine, ring
<1>9. CASE PutBack(p)
  BY <1>1, <1>6, <1>9, PutBackStep DEF PutBack, ring
<1>10. CASE TryLine(p)
  BY <1>1, <1>6, <1>10, TryLineStep DEF TryLine, line, ring
<1>11. CASE WrapLook(p)
  BY <1>1, <1>6, <1>11, WrapLookStep DEF WrapLook, line, ring, Moved
<1>12. CASE WrapScan(p)
  BY <1>1, <1>6, <1>12, WrapScanStep DEF WrapScan, line, ring, Moved
<1>13. CASE WrapStore(p)
  BY <1>1, <1>6, <1>13, WrapStoreStep DEF WrapStore, ring, Moved
<1>14. CASE WriteThrows(p) \/ Resolve(p)
  BY <1>1, <1>6, <1>14, WriteThrowsStep, ResolveStep DEF WriteThrows, Resolve, line, ring
<1>15. CASE ReclaimLook(p)
  <2>1. UNCHANGED <<published, cachedMinConsumed>>
    BY <1>15 DEF ReclaimLook, line, ring
  <2>2. CASE Moved(p, {"fence"})
    BY <1>6, <2>1, <2>2 DEF Moved
  <2>3. CASE (Wrap(p) < 0 \/ cachedMinConsumed >= Wrap(p)) /\ Moved(p, {"cas", "write"})
    <3>1. Wrap(p)' = Wrap(p) /\ pub'[p].pc \in {"cas", "write"}
      BY <2>3, WrapMoved DEF Moved
    <3>2. \A c \in Consumers : Wrap(p) <= con[c].seq
      BY <1>3, <1>4, <1>5, <2>3 DEF FenceAt
    <3>3. \A c \in Consumers : FenceOf(p, c)'
      BY <1>2, <3>1, <3>2 DEF FenceOf
    <3> QED
      BY <1>2, <2>1, <3>3, FenceKept
  <2> QED
    BY <1>1, <1>15, <2>2, <2>3, ReclaimLookStep
<1>16. CASE FenceScan(p)
  <2>1. UNCHANGED <<published, cachedMinConsumed>>
    BY <1>16 DEF FenceScan, line, ring
  <2>2. CASE Moved(p, {"fenceStore"}) /\ pub'[p].min = MinConsumed /\ MinConsumed >= Wrap(p)
    <3>1. Wrap(p)' = Wrap(p) /\ pub'[p].pc = "fenceStore"
      BY <2>2, WrapMoved DEF Moved
    <3>2. MinConsumed \in Int /\ \A c \in Consumers : MinConsumed <= con[c].seq
      BY <1>1, MinTypes
    <3>3. \A c \in Consumers : FenceOf(p, c)'
      BY <1>2, <1>4, <2>2, <3>1, <3>2 DEF FenceOf, Entered
    <3> QED
      BY <1>2, <2>1, <3>3, FenceKept
  <2>3. CASE pub'[p].pc \in {"idle", "try"}
    BY <1>6, <2>1, <2>3
  <2> QED
    BY <1>1, <1>16, <2>2, <2>3, FenceScanStep
<1>17. CASE FenceStore(p)
  <2>1. cachedMinConsumed' = pub[p].min /\ published' = published /\ pub[p].pc = "fenceStore"
    BY <1>17 DEF FenceStore, ring
  <2>2. pub'[p].pc \in {"cas", "write"} /\ Wrap(p)' = Wrap(p)
    BY <1>1, <1>17, FenceStoreStep, WrapMoved DEF Moved
  <2>3. \A c \in Consumers : Wrap(p) <= pub[p].min /\ pub[p].min <= con[c].seq
    BY <1>5, <2>1 DEF FenceOf
  <2>4. \A c \in Consumers : FenceOf(p, c)'
    BY <1>2, <1>3, <1>4, <2>2, <2>3 DEF FenceOf
  <2>5. ASSUME NEW q \in Publishers, NEW c \in Consumers PROVE FenceOf(q, c)'
    <3>1. CASE q # p
      <4>1. pub'[q] = pub[q] /\ Entered(q)' = Entered(q) /\ Wrap(q)' = Wrap(q)
        BY <1>2, <3>1, OthersHeld DEF Others
      <4> QED
        BY <1>2, <4>1, FenceParts DEF FenceOf
    <3> QED
      BY <2>4, <3>1
  <2>6. Slots' = Slots /\ Capacity' = Capacity /\ Consumers' = Consumers
    BY DEF Slots, Capacity, Consumers, Required, Optional
  <2>7. \A c \in Consumers : FenceAt(c)'
    BY <1>2, <1>5, <2>1, <2>3, <2>6 DEF FenceAt
  <2> QED
    BY <2>5, <2>6, <2>7 DEF FenceInv, FenceAt, FenceOf
<1>18. CASE Exchange(p)
  <2>1. UNCHANGED <<published, cachedMinConsumed>> /\ pub[p].pc = "cas"
    BY <1>18 DEF Exchange, ring
  <2>2. CASE pub'[p].pc \in {"idle", "try"}
    BY <1>6, <2>1, <2>2
  <2>3. CASE pub'[p].pc = "write" /\ pub'[p].seq = pub[p].seq /\ next = pub[p].seq - 1
    <3>1. Wrap(p)' = Wrap(p)
      BY <2>3, WrapMoved
    <3>2. ~sealed
      <4>1. pub[p].seq >= 0
        BY <1>1, <2>1 DEF StageInv, StageOf
      <4> QED
        BY <1>1, <1>4, <2>3, <4>1, LineReads
    <3>3. \A c \in Consumers : Wrap(p) <= con[c].seq
      BY <1>5, <2>1, <3>2 DEF FenceOf
    <3>4. \A c \in Consumers : FenceOf(p, c)'
      BY <1>2, <2>3, <3>1, <3>3 DEF FenceOf
    <3> QED
      BY <1>2, <2>1, <3>4, FenceKept
  <2> QED
    BY <1>1, <1>18, <2>2, <2>3, ExchangeStep
<1>19. CASE Write(p)
  <2>1. UNCHANGED <<published, cachedMinConsumed>> /\ pub[p].pc = "write"
    BY <1>19 DEF Write, line
  <2>2. pub'[p].pc \in {"write", "stamp"} /\ Wrap(p)' = Wrap(p)
    BY <1>1, <1>19, WriteStep, WrapMoved DEF Moved
  <2>3. \A c \in Consumers : FenceOf(p, c)'
    BY <1>2, <1>5, <2>1, <2>2 DEF FenceOf, Entered
  <2> QED
    BY <1>2, <2>1, <2>3, FenceKept
<1>20. CASE Stamp(p)
  <2>1. PICK s \in pub[p].todo :
            /\ Moved(p, {"stamp", "resolve"}) /\ published' = [published EXCEPT ![Slot(s)] = s]
    BY <1>1, <1>20, StampStep
  <2>2. pub[p].pc = "stamp" /\ cachedMinConsumed' = cachedMinConsumed
    BY <1>20 DEF Stamp, line
  <2>3. pub'[p].pc \in {"stamp", "resolve"} /\ Wrap(p)' = Wrap(p)
    BY <2>1, WrapMoved DEF Moved
  <2>4. \A c \in Consumers : Wrap(p) <= con[c].seq
    BY <1>5, <2>2 DEF FenceOf, Entered
  <2>5. s \in Int /\ s <= Wrap(p) + Capacity
    <3>1. s \in Held(p)
      BY <1>1, <2>2 DEF StageInv, StageOf
    <3> QED
      BY <1>1, <1>4, <3>1, HeldType DEF Wrap
  <2>6. Slots' = Slots /\ Capacity' = Capacity /\ Consumers' = Consumers
    BY DEF Slots, Capacity, Consumers, Required, Optional
  <2>7. ASSUME NEW c \in Consumers PROVE FenceAt(c)'
    <3>1. \A i \in Slots : published'[i] = published[i] \/ published'[i] = s
      BY <1>1, <2>1 DEF TypeOK, RingType
    <3>2. s <= con[c].seq + Capacity
      BY <1>3, <1>4, <2>4, <2>5
    <3> QED
      BY <1>2, <1>5, <2>2, <2>6, <3>1, <3>2 DEF FenceAt
  <2>8. ASSUME NEW q \in Publishers, NEW c \in Consumers PROVE FenceOf(q, c)'
    <3>1. CASE q # p
      <4>1. pub'[q] = pub[q] /\ Entered(q)' = Entered(q) /\ Wrap(q)' = Wrap(q)
        BY <1>2, <3>1, OthersHeld DEF Others
      <4> QED
        BY <1>2, <4>1, FenceParts DEF FenceOf
    <3>2. CASE q = p
      BY <1>2, <2>3, <2>4, <3>2 DEF FenceOf, Entered
    <3> QED
      BY <3>1, <3>2
  <2> QED
    BY <2>6, <2>7, <2>8 DEF FenceInv, FenceAt, FenceOf
<1> QED
  BY <1>7, <1>8, <1>9, <1>10, <1>11, <1>12, <1>13, <1>14, <1>15, <1>16, <1>17, <1>18, <1>19, <1>20
     DEF PubAction

LEMMA NextFence ==
  ASSUME BaseInv, ProgressInv, FenceInv, [Next]_vars, [CleanStep]_vars
  PROVE  FenceInv'
<1>1. bus' = bus /\ TypeOK /\ StageInv
  BY StepCases DEF BaseInv
<1>2. Slots' = Slots /\ Capacity' = Capacity /\ Consumers' = Consumers
  BY <1>1 DEF Slots, Capacity, Consumers, Required, Optional
<1>3. ASSUME NEW c \in Consumers, ConAction(c) PROVE FenceInv'
  <2>1. OtherCons(c) /\ con[c].seq <= con'[c].seq
    BY <1>1, <1>3, ConsumerProgress
  <2>2. UNCHANGED <<cachedMinConsumed, published, sealed, pub>>
    BY <1>3, ConsumerFrame
  <2>3. BaseInv'
    BY NextBase
  <2>4. ASSUME NEW d \in Consumers
        PROVE  con[d].seq <= con'[d].seq /\ con[d].seq \in Int /\ con'[d].seq \in Int
    <3>1. con[d].seq \in Int
      BY <1>1, PositionTypes
    <3>2. con'[d].seq \in Int
      BY <1>2, <2>3 DEF BaseInv, TypeOK, ConType, ConRecords, Positions
    <3> QED
      BY <2>1, <3>1, <3>2 DEF OtherCons
  <2>5. ASSUME NEW d \in Consumers PROVE FenceAt(d)'
    <3>1. cachedMinConsumed \in Int /\ \A i \in Slots : published[i] \in Int
      BY <1>1 DEF TypeOK, LineType, RingType
    <3>2. Capacity \in Int
      BY <1>1, BusAssumption DEF TypeOK, LineType, Capacity
    <3>3. FenceAt(d)
      BY FenceParts
    <3> QED
      BY <1>2, <2>2, <2>4, <3>1, <3>2, <3>3 DEF FenceAt
  <2>6. ASSUME NEW q \in Publishers, NEW d \in Consumers PROVE FenceOf(q, d)'
    <3>1. Wrap(q)' = Wrap(q) /\ Entered(q)' = Entered(q) /\ pub' = pub
      BY <1>1, <2>2, HoldFrame
    <3>2. Wrap(q) \in Int /\ pub[q].min \in Int
      BY <1>1, WrapType, PubRecord DEF PubRecords
    <3>3. FenceOf(q, d)
      BY FenceParts
    <3> QED
      BY <2>2, <2>4, <3>1, <3>2, <3>3 DEF FenceOf
  <2> QED
    BY <1>2, <2>5, <2>6 DEF FenceInv, FenceAt, FenceOf
<1>4. ASSUME ControlAction PROVE FenceInv'
  <2>1. pub' = pub
    BY <1>1, <1>4, ControlStep DEF ControlAction
  <2>2. \A q \in Publishers : Wrap(q)' = Wrap(q) /\ Entered(q)' = Entered(q)
    BY <1>1, <2>1, HoldFrame
  <2>3. CASE StartFlag \/ StopFlag \/ Seal \/ StopQuiet
    <3>1. UNCHANGED <<con, published, cachedMinConsumed>> /\ (sealed => sealed')
      BY <2>3 DEF StartFlag, StopFlag, Seal, StopQuiet, ring, line, closing
    <3> QED
      BY <1>2, <2>1, <2>2, <3>1 DEF FenceInv
  <2>4. CASE StartOpen
    <3>1. \A c \in Consumers : con'[c].seq = -1 /\ con[c].seq = -1
      BY <1>1, <2>4, ControlStep DEF ProgressInv, Down, StartOpen
    <3>2. \A q \in Publishers : pub'[q].pc = "idle"
      BY <1>1, <2>1, <2>4 DEF StartOpen, StageInv, Outside
    <3>3. UNCHANGED <<published, cachedMinConsumed>>
      BY <2>4 DEF StartOpen, ring
    <3>4. \A q \in Publishers : ~Entered(q)'
      BY <3>2 DEF Entered
    <3>5. \A c \in Consumers : FenceAt(c)'
      BY <1>2, <3>1, <3>3, FenceParts DEF FenceAt
    <3> QED
      BY <1>2, <3>2, <3>4, <3>5 DEF FenceInv, FenceAt
  <2>5. CASE Teardown
    <3>1. \A c \in Consumers : con'[c].seq = -1
      BY <1>1, <2>5, ControlStep
    <3>2. \A q \in Publishers : pub[q].pc # "fenceStore"
      <4>1. CASE CleanStep
        BY <2>5, <4>1 DEF CleanStep
      <4>2. CASE UNCHANGED vars
        BY <2>5, <4>2 DEF vars, Teardown
      <4> QED
        BY <4>1, <4>2
    <3>3. \A q \in Publishers : ~Entered(q)
      BY <2>5 DEF Teardown, BaseInv, CountInv, Holding, Entered, Inside
    <3>4. sealed /\ sealed' = sealed
      BY <1>1, <2>5 DEF Teardown, StageInv, closing
    <3>5. (\A i \in Slots : published'[i] = -1) /\ cachedMinConsumed' = -1
      BY <2>5 DEF Teardown
    <3>6. Capacity \in Nat
      BY <1>1, BusAssumption DEF TypeOK, LineType, Capacity
    <3>7. \A c \in Consumers : FenceAt(c)'
      BY <1>2, <3>1, <3>5, <3>6 DEF FenceAt
    <3>8. \A c \in Consumers, q \in Publishers : FenceOf(q, c)'
      BY <2>1, <2>2, <3>2, <3>3, <3>4 DEF FenceOf
    <3> QED
      BY <1>2, <3>7, <3>8 DEF FenceInv, FenceAt, FenceOf
  <2> QED
    BY <1>4, <2>3, <2>4, <2>5 DEF ControlAction
<1>5. ASSUME UNCHANGED vars PROVE FenceInv'
  <2>1. UNCHANGED <<pub, con, published, cachedMinConsumed, sealed>>
    BY <1>5 DEF vars, line, ring, closing
  <2>2. \A q \in Publishers : Wrap(q)' = Wrap(q) /\ Entered(q)' = Entered(q)
    BY <1>1, <2>1, HoldFrame
  <2> QED
    BY <1>2, <2>1, <2>2 DEF FenceInv
<1> QED
  BY <1>1, <1>3, <1>4, <1>5, StepCases, PublisherFence

LEMMA InitFence == Init => FenceInv
<1> SUFFICES ASSUME Init PROVE FenceInv
  OBVIOUS
<1>1. TypeOK
  BY InitStage
<1>2. Capacity \in Nat
  BY <1>1, BusAssumption DEF TypeOK, LineType, Capacity
<1>3. \A c \in Consumers : con[c].seq = -1
  BY DEF Init, NoCon
<1>4. \A p \in Publishers : pub[p].pc = "idle"
  BY DEF Init, NoPub
<1>5. cachedMinConsumed = -1 /\ \A i \in Slots : published[i] = -1
  BY DEF Init
<1> QED
  BY <1>2, <1>3, <1>4, <1>5 DEF FenceInv, Entered

\* No slot is stamped over before every required consumer has read it, however claims, gates,
\* caches, throws and stop() interleave.
THEOREM NothingIsOverwritten == Spec /\ CleanTeardown => []NothingOverwritten
<1>1. Init => BaseInv /\ ProgressInv /\ FenceInv
  BY InitBase, InitProgress, InitFence
<1>2. BaseInv /\ ProgressInv /\ FenceInv /\ [Next]_vars /\ [CleanStep]_vars
        => (BaseInv /\ ProgressInv /\ FenceInv)'
  BY NextBase, NextProgress, NextFence
<1>3. FenceInv => NothingOverwritten
  BY DEF FenceInv, NothingOverwritten, Consumers
<1> QED
  BY <1>1, <1>2, <1>3, PTL DEF Spec, CleanTeardown

(* The slots of the ring and what is delivered, for deployments with a consumer *)
(* that never jumps.                                                             *)

\* Somebody reads every event: a required consumer, or an optional one that is waited for.
Anchored == \A d \in Deployments : d.required # {} \/ (d.optional # {} /\ ~d.dropBehind)

LEMMA AnchorExists == ASSUME TypeOK, Anchored PROVE \E a \in Consumers : Anchor(a)
BY DEF TypeOK, LineType, Anchored, Anchor, Consumers, Required, Optional, DropBehind

\* Everything the layers below establish.
LowerInv == BaseInv /\ ProgressInv /\ FenceInv

LEMMA HeldRange ==
  ASSUME LowerInv, NEW p \in Publishers, Holding(p), NEW s \in Held(p)
  PROVE  /\ s \in Int /\ 0 <= s /\ s <= Last /\ Last \in Int
         /\ s <= Wrap(p) + Capacity /\ Wrap(p) < s /\ pub[p].run = run /\ Wrap(p) \in Int
<1>1. TypeOK /\ ClaimInv
  BY DEF LowerInv, BaseInv
<1>2. pub[p].seq \in Int /\ SizeOf(p) \in Int /\ SizeOf(p) <= Capacity /\ Capacity \in Nat /\ Last \in Int
  BY <1>1, PubRecord, SizeType, WrapType DEF PubRecords, TypeOK, LineType, Last
<1>3. s \in Int /\ s >= pub[p].seq - SizeOf(p) + 1 /\ s <= pub[p].seq
  BY <1>1, HeldType
<1>4. pub[p].run = run /\ pub[p].seq <= Last /\ pub[p].seq - SizeOf(p) >= -1
  BY <1>1 DEF ClaimInv
<1> QED
  BY <1>2, <1>3, <1>4 DEF Wrap

LEMMA UnstampedHeld ==
  ASSUME LowerInv, NEW p \in Publishers
  PROVE  /\ \A s \in Unstamped(p) : Holding(p) /\ s \in Held(p)
         /\ pub[p].pc \in {"write", "stamp"} => Entered(p) /\ Holding(p)
         /\ pub[p].pc = "write" => Unstamped(p) = Held(p) /\ pub[p].todo \subseteq Held(p)
         /\ pub[p].pc = "stamp" => Unstamped(p) = pub[p].todo /\ pub[p].todo \subseteq Held(p)
<1>1. StageOf(p)
  BY DEF LowerInv, BaseInv, StageInv
<1> QED
  BY <1>1 DEF Unstamped, StageOf, Holding, Entered, Inside

\* Whoever is past the fence is at most a ring ahead of every consumer.
LEMMA EnteredBehind ==
  ASSUME LowerInv, NEW p \in Publishers, Entered(p), NEW s \in Held(p), NEW c \in Consumers
  PROVE  /\ s <= con[c].seq + Capacity /\ con[c].seq <= con[c].last /\ Capacity \in Nat
         /\ con[c].seq \in Int /\ con[c].last \in Int /\ con[c].seq >= -1 /\ Holding(p)
<1>1. TypeOK /\ Holding(p)
  BY DEF LowerInv, BaseInv, Entered, Holding, Inside
<1>2. con[c].seq \in Int /\ con[c].last \in Int /\ con[c].seq <= con[c].last /\ con[c].seq >= -1
  BY <1>1, PositionTypes DEF LowerInv, ProgressInv
<1>3. Wrap(p) <= con[c].seq
  BY DEF LowerInv, FenceInv
<1>4. Capacity \in Nat
  BY <1>1, WrapType
<1> QED
  BY <1>1, <1>2, <1>3, <1>4, HeldRange

\* A slot that is owed a sequence still carries an older one.
LEMMA OwedSlotIsOld ==
  ASSUME LowerInv, StampInv, Anchored, NEW p \in Publishers, NEW s \in Unstamped(p)
  PROVE  published[Slot(s)] < s
<1>1. TypeOK
  BY DEF LowerInv, BaseInv
<1>2. PICK a \in Consumers : Anchor(a)
  BY <1>1, AnchorExists
<1>3. s \in Int /\ 0 <= s /\ Slot(s) \in Slots
  BY <1>1, UnstampedHeld, HeldRange, SlotType
<1> DEFINE v == published[Slot(s)]
<1>4. v \in Int /\ v >= -1 /\ (v >= 0 => Slot(v) = Slot(s)) /\ v # s
  BY <1>1, <1>3 DEF TypeOK, RingType, StampInv
<1>5. v <= con[a].seq + Capacity /\ con[a].seq <= con[a].last /\ con[a].last < s
  BY <1>2, <1>3 DEF LowerInv, FenceInv, ProgressInv, StampInv
<1>6. con[a].seq \in Int /\ con[a].last \in Int /\ Capacity \in Nat
  BY <1>1, <1>2, PositionTypes, BusAssumption DEF TypeOK, LineType, Capacity
<1> HIDE DEF v
<1>7. CASE v >= 0 /\ v > s
  <2>1. s + Capacity <= v
    BY <1>1, <1>3, <1>4, <1>7, SlotApart
  <2> QED
    BY <1>3, <1>4, <1>5, <1>6, <2>1 DEF v
<1>8. CASE ~(v >= 0 /\ v > s)
  BY <1>3, <1>4, <1>8 DEF v
<1> QED
  BY <1>7, <1>8

\* ... and everybody has read that one, once the slot is being built in.
LEMMA OwedSlotIsRead ==
  ASSUME LowerInv, StampInv, Anchored, NEW p \in Publishers, Entered(p), NEW s \in Unstamped(p),
         NEW c \in Consumers
  PROVE  published[Slot(s)] <= con[c].seq
<1>1. TypeOK
  BY DEF LowerInv, BaseInv
<1>2. s \in Held(p) /\ s \in Int /\ Slot(s) \in Slots
  BY <1>1, UnstampedHeld, HeldRange, SlotType
<1>3. s <= con[c].seq + Capacity /\ con[c].seq \in Int /\ con[c].seq >= -1 /\ Capacity \in Nat
  BY <1>2, EnteredBehind
<1> DEFINE v == published[Slot(s)]
<1>4. v \in Int /\ (v >= 0 => Slot(v) = Slot(s)) /\ v < s
  BY <1>1, <1>2, OwedSlotIsOld DEF TypeOK, RingType, StampInv
<1> HIDE DEF v
<1>5. CASE v >= 0
  <2>1. v + Capacity <= s
    BY <1>1, <1>2, <1>4, <1>5, SlotApart
  <2> QED
    BY <1>2, <1>3, <1>4, <2>1 DEF v
<1>6. CASE v < 0
  <2>1. v <= con[c].seq
    BY <1>3, <1>4, <1>6
  <2> QED
    BY <2>1 DEF v
<1> QED
  BY <1>4, <1>5, <1>6

\* Two publishers past the fence never owe one slot.
LEMMA OwedSlotsApart ==
  ASSUME LowerInv, StampInv, Anchored, NEW p \in Publishers, NEW q \in Publishers,
         Entered(p), Entered(q), NEW s \in Unstamped(p), NEW t \in Unstamped(q), s # t
  PROVE  Slot(s) # Slot(t)
<1>1. TypeOK
  BY DEF LowerInv, BaseInv
<1>2. PICK a \in Consumers : Anchor(a)
  BY <1>1, AnchorExists
<1>3. s \in Held(p) /\ t \in Held(q) /\ s \in Int /\ t \in Int
  BY UnstampedHeld, HeldRange
<1>4. /\ s <= con[a].seq + Capacity /\ t <= con[a].seq + Capacity /\ con[a].seq <= con[a].last
      /\ con[a].seq \in Int /\ con[a].last \in Int /\ Capacity \in Nat
  BY <1>3, EnteredBehind
<1>5. con[a].last < s /\ con[a].last < t
  BY <1>2 DEF StampInv
<1>6. ~(s + Capacity <= t) /\ ~(t + Capacity <= s)
  BY <1>3, <1>4, <1>5
<1> QED
  BY <1>1, <1>3, <1>6, SlotApart

\* Nobody past the fence owes the slot a consumer has its event in.
LEMMA ReadSlotIsNotOwed ==
  ASSUME LowerInv, StampInv, Anchored, NEW p \in Publishers, Entered(p), NEW s \in Unstamped(p),
         NEW c \in Consumers, published[Slot(con[c].last + 1)] = con[c].last + 1
  PROVE  Slot(s) # Slot(con[c].last + 1)
<1>1. published[Slot(s)] <= con[c].seq
  BY OwedSlotIsRead
<1>2. TypeOK /\ s \in Held(p)
  BY UnstampedHeld DEF LowerInv, BaseInv
<1>3. con[c].seq \in Int /\ con[c].last \in Int /\ con[c].seq <= con[c].last
  BY <1>2, EnteredBehind
<1> QED
  BY <1>1, <1>3

\* Two sequences of one publish have slots of their own.
LEMMA HeldSlotsApart ==
  ASSUME LowerInv, NEW p \in Publishers, NEW s \in Held(p), NEW t \in Held(p), Holding(p), s # t
  PROVE  Slot(s) # Slot(t)
<1>1. TypeOK /\ s \in Int /\ t \in Int
  BY HeldRange DEF LowerInv, BaseInv
<1>2. ~(s + Capacity <= t) /\ ~(t + Capacity <= s)
  <2>1. s <= Wrap(p) + Capacity /\ Wrap(p) < s /\ t <= Wrap(p) + Capacity /\ Wrap(p) < t /\ Wrap(p) \in Int
    BY HeldRange
  <2>2. Capacity \in Nat
    BY <1>1, WrapType
  <2> QED
    BY <1>1, <2>1, <2>2
<1> QED
  BY <1>1, <1>2, SlotApart

\* A slot and the sequence that names it have one owner at a time.
LEMMA OwnedSlots == ASSUME LowerInv, StampInv, Anchored PROVE SlotsAreOwned
<1>1. OneOwnerPerSequence
  BY DEF LowerInv, BaseInv, ClaimInv
<1>2. ASSUME NEW p \in Publishers, NEW c \in Consumers, con[c].pc = "deliver"
      PROVE  Slot(con[c].last + 1) \notin Writing(p)
  <2> SUFFICES ASSUME pub[p].pc = "write", NEW s \in pub[p].todo
               PROVE  Slot(s) # Slot(con[c].last + 1)
    BY DEF Writing
  <2>1. s \in Unstamped(p) /\ Entered(p)
    BY UnstampedHeld
  <2>2. published[Slot(con[c].last + 1)] = con[c].last + 1
    BY <1>2 DEF StampInv
  <2> QED
    BY <2>1, <2>2, ReadSlotIsNotOwed
<1>3. ASSUME NEW p \in Publishers, NEW q \in Publishers, p # q PROVE Writing(p) \cap Writing(q) = {}
  <2> SUFFICES ASSUME pub[p].pc = "write", pub[q].pc = "write", NEW s \in pub[p].todo, NEW t \in pub[q].todo
               PROVE  Slot(s) # Slot(t)
    BY DEF Writing
  <2>1. s \in Unstamped(p) /\ Entered(p) /\ t \in Unstamped(q) /\ Entered(q)
    BY UnstampedHeld
  <2>2. s # t
    <3>1. Holding(p) /\ Holding(q) /\ s \in Held(p) /\ t \in Held(q)
      BY <2>1, UnstampedHeld
    <3> QED
      BY <1>3, <3>1 DEF LowerInv, BaseInv, ClaimInv
  <2> QED
    BY <2>1, <2>2, OwedSlotsApart
<1> QED
  BY <1>1, <1>2, <1>3 DEF SlotsAreOwned, BuiltAlone

-----------------------------------------------------------------------------
(* Stamps *)

StampAt(i) == published[i] >= -1 /\ (published[i] >= 0 => Slot(published[i]) = i /\ published[i] <= Last)
OwedBy(p) ==
  \A s \in Unstamped(p) :
    published[Slot(s)] # s /\ \A c \in Consumers : Anchor(c) => con[c].last < s
ReadingOf(c) ==
  /\ con[c].last <= Last
  /\ con[c].pc = "deliver" => published[Slot(con[c].last + 1)] = con[c].last + 1

LEMMA StampParts ==
  StampInv <=> /\ \A i \in Slots : StampAt(i)
               /\ \A p \in Publishers : OwedBy(p)
               /\ \A c \in Consumers : ReadingOf(c)
BY DEF StampInv, StampAt, OwedBy, ReadingOf

\* What the deployment settles stays settled.
LEMMA BusFrame ==
  ASSUME bus' = bus
  PROVE  /\ Slots' = Slots /\ Consumers' = Consumers /\ Capacity' = Capacity /\ DrainOnStop' = DrainOnStop
         /\ \A s : Slot(s)' = Slot(s)
         /\ \A c : Anchor(c)' = Anchor(c)
BY DEF Slots, Consumers, Capacity, Required, Optional, Slot, Anchor, DropBehind, DrainOnStop

\* A publisher comes to owe the ring sequences when it takes them, and then only.
LEMMA OwedStep ==
  ASSUME BaseInv, BaseInv', NEW p \in Publishers, bus' = bus, PubAction(p)
  PROVE  /\ \A q \in Publishers : q # p => Unstamped(q)' = Unstamped(q)
         /\ ~Stamp(p) => published' = published
         /\ ~Stamp(p) /\ ~Takes(p) => Unstamped(p)' \subseteq Unstamped(p)
<1>1. TypeOK /\ StageInv /\ StageOf(p)'
  BY DEF BaseInv, StageInv
<1>2. Others(p) /\ (Keeps(p) \/ Refuses(p) \/ PutsBack(p) \/ Takes(p) \/ Releases(p))
  BY <1>1, PubKinds
<1>3. ASSUME NEW q \in Publishers, q # p PROVE Unstamped(q)' = Unstamped(q)
  <2>1. pub'[q] = pub[q] /\ Holding(q)' = Holding(q) /\ Held(q)' = Held(q)
    BY <1>2, <1>3, OthersHeld DEF Others
  <2> QED
    BY <2>1 DEF Unstamped
<1>4. ASSUME ~Stamp(p) PROVE published' = published
  BY <1>4 DEF PubAction, Enter, ClaimLine, PutBack, TryLine, WrapLook, WrapScan, WrapStore, ReclaimLook,
       FenceScan, FenceStore, Exchange, Write, WriteThrows, Resolve, ring
<1>5. ASSUME ~Stamp(p), ~Takes(p) PROVE Unstamped(p)' \subseteq Unstamped(p)
  <2>1. CASE Refuses(p) \/ PutsBack(p) \/ Releases(p)
    <3>1. pub'[p].pc \notin Inside
      BY <2>1 DEF Refuses, PutsBack, Releases, Inside
    <3> QED
      BY <3>1 DEF Unstamped, Holding
  <2>2. CASE Keeps(p) /\ ~Holding(p)
    BY <2>2 DEF Keeps, Unstamped
  <2>3. CASE Keeps(p) /\ Holding(p)
    <3>1. pub[p].pc # "stamp" /\ (pub[p].pc = "resolve" => Resolve(p))
      BY <1>5 DEF PubAction, Enter, ClaimLine, PutBack, TryLine, WrapLook, WrapScan, WrapStore, ReclaimLook,
           FenceScan, FenceStore, Exchange, Write, WriteThrows, Resolve
    <3>2. ~Resolve(p)
      <4>1. ASSUME Resolve(p) PROVE pub'[p].pc = "idle"
        BY <1>1, <4>1, ResolveStep
      <4>2. Holding(p)'
        BY <2>3 DEF Keeps
      <4> QED
        BY <4>1, <4>2 DEF Holding, Inside
    <3>3. Holding(p)' /\ Held(p)' = Held(p)
      BY <2>3, HeldMoved DEF Keeps
    <3>4. Unstamped(p)' \subseteq Held(p)'
      BY <1>1 DEF Unstamped, StageOf
    <3> QED
      BY <2>3, <3>1, <3>2, <3>3, <3>4 DEF Unstamped
  <2> QED
    BY <1>2, <1>5, <2>1, <2>2, <2>3
<1> QED
  BY <1>3, <1>4, <1>5

LEMMA PublisherStamps ==
  ASSUME LowerInv, BaseInv', StampInv, Anchored, NEW p \in Publishers, bus' = bus, PubAction(p)
  PROVE  StampInv'
<1>1. TypeOK /\ StageInv /\ LineInv /\ ClaimInv /\ BaseInv /\ TypeOK' /\ ClaimInv'
  BY DEF LowerInv, BaseInv
<1>2. Others(p) /\ con' = con
  BY <1>1, PubKinds
<1>3. Last \in Int /\ Last' \in Int /\ Last <= Last'
  <2>1. Last' \in Int
    BY <1>1 DEF TypeOK, LineType, Last
  <2>2. Last' = Last \/ Last' = Last + SizeOf(p)
    BY <1>1, LastStep, PubKinds
  <2>3. SizeOf(p) \in 1 .. Capacity /\ Capacity \in Nat
    BY <1>1, SizeType, WrapType
  <2> QED
    BY <1>1, <2>1, <2>2, <2>3, LastStep
<1>4. /\ Slots' = Slots /\ Consumers' = Consumers
      /\ \A s : Slot(s)' = Slot(s)
      /\ \A c : Anchor(c)' = Anchor(c)
  BY BusFrame
<1>5. \A q \in Publishers : q # p => Unstamped(q)' = Unstamped(q)
  BY <1>1, OwedStep
<1>6. ASSUME ~Stamp(p) PROVE StampInv'
  <2>1. published' = published
    BY <1>1, <1>6, OwedStep
  <2>2. \A i \in Slots' : StampAt(i)'
    <3> SUFFICES ASSUME NEW i \in Slots PROVE StampAt(i)'
      BY <1>4
    <3>1. StampAt(i) /\ published[i] \in Int
      BY <1>1, StampParts DEF TypeOK, RingType
    <3> QED
      BY <1>3, <1>4, <2>1, <3>1 DEF StampAt
  <2>3. \A c \in Consumers' : ReadingOf(c)'
    <3> SUFFICES ASSUME NEW c \in Consumers PROVE ReadingOf(c)'
      BY <1>4
    <3>1. ReadingOf(c) /\ con[c].last \in Int
      BY <1>1, StampParts, PositionTypes
    <3>2. con[c].last <= Last'
      BY <1>3, <3>1 DEF ReadingOf
    <3> QED
      BY <1>2, <1>4, <2>1, <3>1, <3>2 DEF ReadingOf
  <2>4. \A q \in Publishers : q # p => OwedBy(q)'
    <3> SUFFICES ASSUME NEW q \in Publishers, q # p PROVE OwedBy(q)'
      OBVIOUS
    <3>1. OwedBy(q) /\ Unstamped(q)' = Unstamped(q)
      BY <1>5, StampParts
    <3> QED
      BY <1>2, <1>4, <2>1, <3>1 DEF OwedBy
  <2>5. CASE ~Takes(p)
    <3>1. OwedBy(p) /\ Unstamped(p)' \subseteq Unstamped(p)
      BY <1>1, <1>6, <2>5, OwedStep, StampParts
    <3>2. OwedBy(p)'
      BY <1>2, <1>4, <2>1, <3>1 DEF OwedBy
    <3> QED
      BY <2>2, <2>3, <2>4, <3>2 DEF StampInv, StampAt, OwedBy, ReadingOf
  <2>6. CASE Takes(p)
    <3>1. Last = next /\ SizeOf(p)' = SizeOf(p) /\ pub'[p].seq = Last + SizeOf(p)
      BY <1>1, <2>6, LastStep DEF Takes, SizeOf, Batchers, Capacity
    <3>2. SizeOf(p) \in Int
      BY <1>1, SizeType, WrapType
    <3>3. StageOf(p)'
      BY DEF BaseInv, StageInv
    <3>4. ASSUME NEW s \in Unstamped(p)' PROVE s \in Int /\ s > Last
      <4>1. s \in Held(p)'
        BY <3>3 DEF Unstamped, StageOf
      <4>2. s \in (pub'[p].seq - SizeOf(p)' + 1) .. pub'[p].seq
        BY <4>1 DEF Held
      <4> QED
        BY <1>3, <3>1, <3>2, <4>2
    <3>5. ASSUME NEW s \in Unstamped(p)', NEW c \in Consumers PROVE con[c].last < s
      BY <1>1, <1>3, <3>4, StampParts, PositionTypes DEF ReadingOf
    <3>6. ASSUME NEW s \in Unstamped(p)' PROVE published[Slot(s)] # s
      <4>1. Slot(s) \in Slots /\ s \in Int /\ s > Last
        BY <1>1, <3>4, SlotType
      <4>2. StampAt(Slot(s)) /\ published[Slot(s)] \in Int
        BY <1>1, <4>1, StampParts DEF TypeOK, RingType
      <4>3. Last >= -1
        BY <1>1, LastStep
      <4> QED
        BY <1>3, <4>1, <4>2, <4>3 DEF StampAt
    <3>7. OwedBy(p)'
      BY <1>2, <1>4, <2>1, <3>5, <3>6 DEF OwedBy
    <3> QED
      BY <2>2, <2>3, <2>4, <3>7 DEF StampInv, StampAt, OwedBy, ReadingOf
  <2> QED
    BY <2>5, <2>6
<1>7. ASSUME Stamp(p) PROVE StampInv'
  <2>1. PICK t \in pub[p].todo :
           /\ Moved(p, {"stamp", "resolve"})
           /\ published' = [published EXCEPT ![Slot(t)] = t]
           /\ pub'[p].pc = (IF pub[p].todo = {t} THEN "resolve" ELSE "stamp")
           /\ pub'[p].todo = pub[p].todo \ {t}
    BY <1>1, <1>7, StampStep
  <2>2. pub[p].pc = "stamp"
    BY <1>7 DEF Stamp
  <2>3. Unstamped(p) = pub[p].todo /\ Entered(p) /\ Holding(p) /\ t \in Held(p)
    BY <2>2, UnstampedHeld
  <2>4. t \in Int /\ 0 <= t /\ t <= Last /\ Slot(t) \in Slots
    BY <1>1, <2>3, HeldRange, SlotType
  <2>5. \A i \in Slots : published'[i] = IF i = Slot(t) THEN t ELSE published[i]
    BY <1>1, <2>1 DEF TypeOK, RingType
  <2>6. \A i \in Slots' : StampAt(i)'
    <3> SUFFICES ASSUME NEW i \in Slots PROVE StampAt(i)'
      BY <1>4
    <3>1. StampAt(i) /\ published[i] \in Int
      BY <1>1, StampParts DEF TypeOK, RingType
    <3>2. CASE i = Slot(t)
      BY <1>3, <1>4, <2>4, <2>5, <3>2 DEF StampAt
    <3>3. CASE i # Slot(t)
      BY <1>3, <1>4, <2>5, <3>1, <3>3 DEF StampAt
    <3> QED
      BY <3>2, <3>3
  <2>7. Unstamped(p)' \subseteq Unstamped(p) /\ t \notin Unstamped(p)'
    BY <2>1, <2>2, <2>3 DEF Unstamped
  <2>8. ASSUME NEW q \in Publishers, NEW s \in Unstamped(q)' PROVE s \in Unstamped(q) /\ s # t
    <3>1. CASE q = p
      BY <2>7, <2>8, <3>1
    <3>2. CASE q # p
      <4>1. s \in Unstamped(q)
        BY <1>5, <2>8, <3>2
      <4>2. Holding(q) /\ s \in Held(q)
        BY <4>1, UnstampedHeld
      <4> QED
        BY <1>1, <2>3, <3>2, <4>1, <4>2 DEF ClaimInv
    <3> QED
      BY <3>1, <3>2
  <2>9. \A q \in Publishers : OwedBy(q)'
    <3> SUFFICES ASSUME NEW q \in Publishers, NEW s \in Unstamped(q)'
                 PROVE  published'[Slot(s)] # s /\ \A c \in Consumers : Anchor(c) => con[c].last < s
      BY <1>2, <1>4 DEF OwedBy
    <3>1. s \in Unstamped(q) /\ s # t /\ OwedBy(q)
      BY <2>8, StampParts
    <3>2. Slot(s) \in Slots
      BY <1>1, <3>1, UnstampedHeld, HeldRange, SlotType
    <3> QED
      BY <2>5, <3>1, <3>2 DEF OwedBy
  <2>10. \A c \in Consumers' : ReadingOf(c)'
    <3> SUFFICES ASSUME NEW c \in Consumers PROVE ReadingOf(c)'
      BY <1>4
    <3>1. ReadingOf(c) /\ con[c].last \in Int
      BY <1>1, StampParts, PositionTypes
    <3>2. con[c].last <= Last'
      BY <1>3, <3>1 DEF ReadingOf
    <3> DEFINE cur == con[c].last + 1
    <3>3. ASSUME con[c].pc = "deliver" PROVE published'[Slot(cur)] = cur
      <4>1. published[Slot(cur)] = cur /\ Slot(cur) \in Slots
        BY <1>1, <3>1, <3>3, SlotType DEF ReadingOf
      <4>2. Slot(t) # Slot(cur)
        BY <2>3, <4>1, ReadSlotIsNotOwed
      <4> QED
        BY <2>5, <4>1, <4>2
    <3> QED
      BY <1>2, <1>4, <3>1, <3>2, <3>3 DEF ReadingOf
  <2> QED
    BY <2>6, <2>9, <2>10 DEF StampInv, StampAt, OwedBy, ReadingOf
<1> QED
  BY <1>6, <1>7

\* A consumer advances over a stamped slot, over what was given up on while it drains, or by
\* a jump only some may make.
LEMMA Advances ==
  ASSUME LowerInv, StampInv, NEW c \in Consumers, bus' = bus, ConAction(c)
  PROVE  LET cur == con[c].last + 1
         IN /\ \/ con'[c].last = con[c].last
               \/ con'[c].last = cur /\ published[Slot(cur)] = cur
               \/ con'[c].last = cur /\ con[c].pc = "drain" /\ cur <= lastClaim
               \/ ~Anchor(c) /\ con'[c].last = next - 1 /\ next >= 0
            /\ con'[c].pc = "deliver" => con'[c].last = con[c].last /\ published[Slot(cur)] = cur
<1>1. TypeOK /\ StageInv
  BY DEF LowerInv, BaseInv
<1>2. /\ con[c].seq \in Int /\ con[c].last \in Int /\ con[c].next \in Int /\ con[c].next >= -1
      /\ next \in Int
  BY <1>1, PositionTypes DEF TypeOK, LineType
<1>3. /\ con[c].pc \in {"top", "await", "slot", "deliver", "commit"} => con[c].next = con[c].seq
      /\ con[c].pc \in {"top", "await", "drain"} => con[c].last = con[c].seq
  BY DEF LowerInv, ProgressInv
<1>4. CASE Poll(c)
  <2>1. con[c].pc = "top"
    BY <1>4 DEF Poll
  <2>2. con'[c].pc # "deliver"
    BY <1>1, <1>4, PollStep
  <2>3. \/ con'[c].last = con[c].last
        \/ con'[c].last = con[c].next
        \/ ~Anchor(c) /\ con'[c].last = next - 1 /\ con[c].next <= next - 1
    BY <1>1, <1>4, PollStep
  <2> QED
    BY <1>2, <1>3, <2>1, <2>2, <2>3
<1>5. CASE SlotLook(c)
  BY <1>1, <1>5, SlotLookStep
<1>6. CASE Deliver(c)
  <2>1. con'[c].pc = "slot" /\ con'[c].last = con[c].last + 1
    BY <1>1, <1>6, DeliverStep
  <2>2. published[Slot(con[c].last + 1)] = con[c].last + 1
    BY <1>6 DEF Deliver, StampInv
  <2> QED
    BY <2>1, <2>2
<1>7. CASE DrainSlot(c)
  <2>1. con'[c].pc = "drain" /\ con'[c].last = con[c].last + 1
    BY <1>1, <1>7, DrainSlotStep
  <2>2. /\ con[c].pc = "drain"
        /\ published[Slot(con[c].last + 1)] = con[c].last + 1 \/ con[c].last + 1 <= lastClaim
    BY <1>7 DEF DrainSlot
  <2> QED
    BY <2>1, <2>2
<1>8. CASE DeliverThrows(c) \/ Commit(c) \/ DrainBegin(c) \/ DrainThrows(c) \/ DrainEnd(c)
  <2>1. con'[c].pc # "deliver" /\ (con'[c].last = con[c].last \/ (con'[c].last = con[c].seq /\ DrainBegin(c)))
    BY <1>1, <1>8, QuietConsumerStep
  <2>2. DrainBegin(c) => con[c].pc = "await"
    BY DEF DrainBegin
  <2> QED
    BY <1>3, <2>1, <2>2
<1> QED
  BY <1>4, <1>5, <1>6, <1>7, <1>8 DEF ConAction

LEMMA UnstampedFrame ==
  ASSUME bus' = bus, pub' = pub, NEW p \in Publishers
  PROVE  Unstamped(p)' = Unstamped(p)
<1>1. Holding(p)' = Holding(p) /\ Held(p)' = Held(p)
  BY HoldFrame
<1> QED
  BY <1>1 DEF Unstamped

LEMMA ConsumerStamps ==
  ASSUME LowerInv, StampInv, NEW c \in Consumers, bus' = bus, ConAction(c)
  PROVE  StampInv'
<1>1. TypeOK /\ StageInv /\ LineInv /\ CountInv
  BY DEF LowerInv, BaseInv
<1>2. /\ Slots' = Slots /\ Consumers' = Consumers
      /\ \A s : Slot(s)' = Slot(s)
      /\ \A d : Anchor(d)' = Anchor(d)
  BY BusFrame
<1>3. published' = published /\ pub' = pub /\ Last' = Last
  BY ConsumerFrame DEF Last
<1>4. \A p \in Publishers : Unstamped(p)' = Unstamped(p)
  BY <1>3, UnstampedFrame
<1>5. OtherCons(c)
  BY ConsumerProgress DEF LowerInv
<1> DEFINE cur == con[c].last + 1
<1>6. /\ \/ con'[c].last = con[c].last
         \/ con'[c].last = cur /\ published[Slot(cur)] = cur
         \/ con'[c].last = cur /\ con[c].pc = "drain" /\ cur <= lastClaim
         \/ ~Anchor(c) /\ con'[c].last = next - 1 /\ next >= 0
      /\ con'[c].pc = "deliver" => con'[c].last = con[c].last /\ published[Slot(cur)] = cur
  BY Advances
<1>7. cur \in Int /\ Slot(cur) \in Slots /\ con[c].last \in Int /\ cur >= 0 /\ Last \in Int
  BY <1>1, PositionTypes, SlotType DEF TypeOK, LineType, Last
<1>8. \A i \in Slots' : StampAt(i)'
  BY <1>2, <1>3 DEF StampAt, StampInv
<1>9. ASSUME NEW d \in Consumers PROVE ReadingOf(d)'
  <2>1. ReadingOf(d)
    BY StampParts
  <2>2. CASE d # c
    BY <1>2, <1>3, <1>5, <2>1, <2>2 DEF OtherCons, ReadingOf
  <2>3. CASE d = c
    <3>1. con'[c].last <= Last
      <4>1. CASE con'[c].last = con[c].last
        BY <2>1, <2>3, <4>1 DEF ReadingOf
      <4>2. CASE con'[c].last = cur /\ published[Slot(cur)] = cur
        BY <1>7, <4>2 DEF StampInv
      <4>3. CASE con'[c].last = cur /\ con[c].pc = "drain" /\ cur <= lastClaim
        BY <1>1, <4>3 DEF CountInv, Last
      <4>4. CASE con'[c].last = next - 1 /\ next >= 0
        <5>1. ~sealed /\ next \in Int
          BY <1>1, <4>4, LineReads DEF TypeOK, LineType
        <5> QED
          BY <4>4, <5>1 DEF Last
      <4> QED
        BY <1>6, <4>1, <4>2, <4>3, <4>4
    <3> QED
      BY <1>2, <1>3, <1>6, <2>3, <3>1 DEF ReadingOf
  <2> QED
    BY <2>2, <2>3
<1>10. ASSUME NEW p \in Publishers PROVE OwedBy(p)'
  <2> SUFFICES ASSUME NEW s \in Unstamped(p), NEW d \in Consumers, Anchor(d) PROVE con'[d].last < s
    BY <1>2, <1>3, <1>4, StampParts DEF OwedBy
  <2>1. published[Slot(s)] # s /\ con[d].last < s
    BY DEF StampInv
  <2>2. CASE d # c
    BY <1>5, <2>1, <2>2 DEF OtherCons
  <2>3. CASE d = c
    <3>1. s \in Int /\ Holding(p)
      BY UnstampedHeld, HeldRange
    <3>2. con[c].pc # "drain"
      BY <1>1, <3>1 DEF CountInv
    <3> QED
      BY <1>6, <1>7, <2>1, <2>3, <3>1, <3>2
  <2> QED
    BY <2>2, <2>3
<1> QED
  BY <1>2, <1>8, <1>9, <1>10 DEF StampInv, StampAt, OwedBy, ReadingOf

LEMMA NobodyOwes == ASSUME \A p \in Publishers : ~Holding(p) PROVE \A p \in Publishers : Unstamped(p) = {}
BY DEF Unstamped

LEMMA ControlStamps ==
  ASSUME LowerInv, StampInv, bus' = bus, ControlAction
  PROVE  StampInv'
<1>1. TypeOK /\ StageInv /\ LineInv /\ CountInv
  BY DEF LowerInv, BaseInv
<1>2. /\ Slots' = Slots /\ Consumers' = Consumers
      /\ \A s : Slot(s)' = Slot(s)
      /\ \A d : Anchor(d)' = Anchor(d)
  BY BusFrame
<1>3. pub' = pub
  BY <1>1, ControlStep DEF ControlAction
<1>4. \A p \in Publishers : Unstamped(p)' = Unstamped(p)
  BY <1>3, UnstampedFrame
<1>5. CASE StartFlag \/ StopFlag \/ StopQuiet \/ Seal
  <2>1. published' = published /\ con' = con
    BY <1>5 DEF StartFlag, StopFlag, StopQuiet, Seal, ring
  <2>2. Last' = Last
    <3>1. CASE Seal
      BY <1>1, <3>1 DEF Seal, StageInv, Last
    <3>2. CASE StartFlag \/ StopFlag \/ StopQuiet
      BY <3>2 DEF StartFlag, StopFlag, StopQuiet, line, closing, Last
    <3> QED
      BY <1>5, <3>1, <3>2
  <2> QED
    BY <1>2, <1>4, <2>1, <2>2 DEF StampInv
<1>6. CASE StartOpen
  <2>1. /\ \A i \in Slots : published[i] = -1
        /\ \A p \in Publishers : Unstamped(p) = {}
    <3>1. Down
      BY <1>6 DEF StartOpen, Down
    <3> QED
      BY <1>1, <3>1, NobodyOwes DEF CountInv, LowerInv, ProgressInv
  <2>2. published' = published /\ Last' = -1
    BY <1>6 DEF StartOpen, ring, Last
  <2>3. \A c \in Consumers : con'[c].pc = "top" /\ con'[c].last = -1
    BY <1>1, <1>6, ControlStep
  <2> QED
    BY <1>2, <1>4, <2>1, <2>2, <2>3 DEF StampInv
<1>7. CASE Teardown
  <2>1. \A p \in Publishers : Unstamped(p) = {}
    BY <1>1, <1>7, NobodyOwes DEF CountInv, Teardown
  <2>2. published' = [i \in Slots |-> -1] /\ Last' = Last /\ \A c \in Consumers : con[c].pc = "joined"
    BY <1>7 DEF Teardown, Last, closing
  <2>3. \A c \in Consumers : con'[c].pc = con[c].pc /\ con'[c].last = -1
    BY <1>1, <1>7, ControlStep
  <2>4. -1 <= Last
    BY <1>1 DEF LineInv, Last
  <2> QED
    BY <1>2, <1>4, <2>1, <2>2, <2>3, <2>4 DEF StampInv
<1> QED
  BY <1>5, <1>6, <1>7 DEF ControlAction

LEMMA NextStamps ==
  ASSUME LowerInv, StampInv, Anchored, BaseInv', [Next]_vars
  PROVE  StampInv'
<1>1. ASSUME UNCHANGED vars PROVE StampInv'
  <2>1. pub' = pub /\ con' = con /\ published' = published /\ bus' = bus /\ Last' = Last
    BY <1>1 DEF vars, line, ring, closing, history, Last
  <2>2. \A p \in Publishers : Unstamped(p)' = Unstamped(p)
    BY <2>1, UnstampedFrame
  <2> QED
    BY <2>1, <2>2, BusFrame DEF StampInv
<1> QED
  BY <1>1, StepCases, PublisherStamps, ConsumerStamps, ControlStamps

LEMMA InitStamps == Init => StampInv
<1> SUFFICES ASSUME Init PROVE StampInv
  OBVIOUS
<1>1. \A p \in Publishers : ~Holding(p)
  BY DEF Init, NoPub, Holding, Inside
<1>2. TypeOK /\ LineInv
  BY InitBase DEF BaseInv
<1>3. \A i \in Slots : published[i] = -1
  BY DEF Init
<1>4. \A c \in Consumers : con[c].pc = "joined" /\ con[c].last = -1
  BY DEF Init, NoCon
<1>5. -1 <= Last
  BY DEF Init, Last
<1> QED
  BY <1>1, <1>3, <1>4, <1>5, NobodyOwes DEF StampInv

-----------------------------------------------------------------------------
(* Contents *)

BuiltBy(p) ==
  /\ pub[p].pc = "write" => \A s \in Held(p) \ pub[p].todo :
       event[Slot(s)] = EventAt(p, s) /\ ~constructed[Slot(s)]
  /\ pub[p].pc = "stamp" => \A s \in pub[p].todo :
       event[Slot(s)] = EventAt(p, s) /\ constructed[Slot(s)]
Stands(i) == constructed[i] /\ [run |-> run, seq |-> published[i], ev |-> event[i]] \in claimed
IsGone(i) == ~constructed[i] /\ \A c \in Consumers : published[i] <= con[c].seq
IsBuilt(i) == \E p \in Publishers : pub[p].pc = "stamp" /\ \E s \in pub[p].todo : Slot(s) = i
ContentAt(i) == published[i] >= 0 => Stands(i) \/ IsGone(i) \/ IsBuilt(i)

LEMMA ContentParts ==
  ContentInv <=> (\A p \in Publishers : BuiltBy(p)) /\ (\A i \in Slots : ContentAt(i))
BY DEF ContentInv, BuiltBy, ContentAt, Stands, IsGone, IsBuilt

\* Only a publisher that builds or stamps touches the ring.
LEMMA RingStep ==
  ASSUME TypeOK, StageInv, NEW p \in Publishers, bus' = bus, PubAction(p),
         ~Write(p), ~WriteThrows(p), ~Stamp(p)
  PROVE  /\ UNCHANGED <<published, constructed, event>>
         /\ pub[p].pc \notin {"write", "stamp"} /\ pub'[p].pc # "stamp"
         /\ pub'[p].pc = "write" => pub'[p].todo = Held(p)'
<1>1. UNCHANGED <<published, constructed, event>> /\ pub[p].pc \notin {"write", "stamp"}
  BY DEF PubAction, Enter, ClaimLine, PutBack, TryLine, WrapLook, WrapScan, WrapStore, ReclaimLook,
         FenceScan, FenceStore, Exchange, Resolve, ring
<1>2. pub'[p].seq = pub[p].seq => Held(p)' = Held(p)
  BY HeldMoved
<1>3. CASE Enter(p) \/ ClaimLine(p) \/ PutBack(p) \/ TryLine(p) \/ Resolve(p)
  <2>1. pub'[p].pc \notin {"write", "stamp"}
    BY <1>3, EnterStep, ClaimLineStep, PutBackStep, TryLineStep, ResolveStep
  <2> QED
    BY <1>1, <2>1
<1>4. CASE WrapLook(p) \/ WrapScan(p) \/ WrapStore(p) \/ FenceScan(p)
  <2>1. pub'[p].pc \notin {"write", "stamp"}
    BY <1>4, WrapLookStep, WrapScanStep, WrapStoreStep, FenceScanStep DEF Moved
  <2> QED
    BY <1>1, <2>1
<1>5. CASE ReclaimLook(p) \/ FenceStore(p)
  <2>1. \/ pub'[p].pc = "fence"
        \/ pub'[p].pc # "stamp" /\ pub'[p].seq = pub[p].seq /\ pub'[p].todo = Held(p)
    BY <1>5, ReclaimLookStep, FenceStoreStep DEF Moved
  <2> QED
    BY <1>1, <1>2, <2>1
<1>6. CASE Exchange(p)
  <2>1. \/ pub'[p].pc \in {"idle", "try"}
        \/ pub'[p].pc # "stamp" /\ pub'[p].seq = pub[p].seq /\ pub'[p].todo = Held(p)
    BY <1>6, ExchangeStep
  <2> QED
    BY <1>1, <1>2, <2>1
<1> QED
  BY <1>3, <1>4, <1>5, <1>6 DEF PubAction

LEMMA OthersBuilt ==
  ASSUME NEW p \in Publishers, bus' = bus, Others(p), NEW q \in Publishers, q # p, BuiltBy(q),
         pub[q].pc = "write" => \A s \in Held(q) : event'[Slot(s)] = event[Slot(s)] /\ constructed'[Slot(s)] = constructed[Slot(s)],
         pub[q].pc = "stamp" => \A s \in pub[q].todo : event'[Slot(s)] = event[Slot(s)] /\ constructed'[Slot(s)] = constructed[Slot(s)]
  PROVE  BuiltBy(q)'
<1>1. pub'[q] = pub[q] /\ Held(q)' = Held(q) /\ \A s : EventAt(q, s)' = EventAt(q, s)
  BY OthersHeld DEF Others
<1>2. \A s : Slot(s)' = Slot(s)
  BY BusFrame
<1> QED
  BY <1>1, <1>2 DEF BuiltBy

\* Nobody else owes the slots a publisher builds in.
LEMMA OthersApart ==
  ASSUME LowerInv, StampInv, Anchored, NEW p \in Publishers, NEW q \in Publishers, q # p,
         pub[p].pc \in {"write", "stamp"}, NEW u \in Unstamped(p)
  PROVE  /\ pub[q].pc = "write" => \A s \in Held(q) : Slot(s) # Slot(u)
         /\ pub[q].pc = "stamp" => \A s \in pub[q].todo : Slot(s) # Slot(u)
<1> SUFFICES ASSUME pub[q].pc \in {"write", "stamp"}, NEW s \in Unstamped(q) PROVE Slot(s) # Slot(u)
  BY UnstampedHeld
<1>1. Entered(p) /\ Holding(p) /\ Entered(q) /\ Holding(q) /\ s \in Held(q) /\ u \in Held(p)
  BY UnstampedHeld
<1>2. s # u
  BY <1>1 DEF LowerInv, BaseInv, ClaimInv
<1> QED
  BY <1>1, <1>2, OwedSlotsApart

LEMMA BuiltFrame ==
  ASSUME NEW p \in Publishers, bus' = bus, Others(p), pub[p].pc # "stamp", NEW i, IsBuilt(i)
  PROVE  IsBuilt(i)'
BY BusFrame DEF IsBuilt, Others

LEMMA WriteContents ==
  ASSUME LowerInv, StampInv, Anchored, ContentInv, NEW p \in Publishers, bus' = bus, Write(p)
  PROVE  ContentInv'
<1> DEFINE m == MinOf(pub[p].todo)
           left == pub[p].todo \ {m}
           Mine == {Slot(s) : s \in Held(p)}
<1>1. TypeOK /\ StageInv /\ pub[p].pc = "write"
  BY DEF LowerInv, BaseInv, Write
<1>2. /\ Others(p) /\ Moved(p, {"write", "stamp"})
      /\ pub'[p].pc = (IF left = {} THEN "stamp" ELSE "write")
      /\ pub'[p].todo = (IF left = {} THEN Held(p) ELSE left)
  BY <1>1, WriteStep
<1>3. m \in pub[p].todo /\ m \in Held(p) /\ Held(p) \in SUBSET Int
  BY <1>1, FirstToWrite, HeldType
<1>4. /\ event' = [event EXCEPT ![Slot(m)] = EventAt(p, m)]
      /\ constructed' = [i \in Slots |-> IF left = {} /\ i \in Mine THEN TRUE
                                         ELSE IF i = Slot(m) THEN FALSE ELSE constructed[i]]
      /\ UNCHANGED <<published, con, claimed, run>>
  BY DEF Write, history
<1>5. Entered(p) /\ Holding(p) /\ Unstamped(p) = Held(p)
  BY <1>1, UnstampedHeld
<1> HIDE DEF m
<1>6. Slot(m) \in Slots /\ \A s \in Held(p) : Slot(s) \in Slots
  BY <1>1, <1>3, SlotType
<1>7. \A i \in Slots : event'[i] = IF i = Slot(m) THEN EventAt(p, m) ELSE event[i]
  BY <1>1, <1>4, <1>6 DEF TypeOK, RingType
<1>8. \A i \in Slots : constructed'[i] = (IF left = {} /\ i \in Mine THEN TRUE
                                         ELSE IF i = Slot(m) THEN FALSE ELSE constructed[i])
  BY <1>4
<1>9. /\ Slots' = Slots /\ Consumers' = Consumers
      /\ \A s : Slot(s)' = Slot(s)
  BY BusFrame
<1>10. Held(p)' = Held(p) /\ \A s : EventAt(p, s)' = EventAt(p, s)
  BY <1>2, HeldMoved DEF Moved, EventAt
<1>11. \A s \in Held(p) : s # m => Slot(s) # Slot(m)
  BY <1>3, <1>5, HeldSlotsApart
<1>12. BuiltBy(p)
  BY ContentParts
<1>13. BuiltBy(p)'
  <2>1. ASSUME NEW s \in Held(p), s \notin left PROVE event'[Slot(s)] = EventAt(p, s)
    <3>1. CASE s = m
      BY <1>6, <1>7, <3>1
    <3>2. CASE s # m
      BY <1>1, <1>6, <1>7, <1>11, <1>12, <2>1, <3>2 DEF BuiltBy
    <3> QED
      BY <3>1, <3>2
  <2>2. CASE left = {}
    <3>1. \A s \in Held(p) : constructed'[Slot(s)]
      BY <1>6, <1>8, <2>2
    <3> QED
      BY <1>2, <1>9, <1>10, <2>1, <2>2, <3>1 DEF BuiltBy
  <2>3. CASE left # {}
    <3>1. ASSUME NEW s \in Held(p), s \notin left PROVE ~constructed'[Slot(s)]
      <4>1. CASE s = m
        BY <1>6, <1>8, <2>3, <4>1
      <4>2. CASE s # m
        BY <1>1, <1>6, <1>8, <1>11, <1>12, <2>3, <3>1, <4>2 DEF BuiltBy
      <4> QED
        BY <4>1, <4>2
    <3> QED
      BY <1>2, <1>9, <1>10, <2>1, <2>3, <3>1 DEF BuiltBy
  <2> QED
    BY <2>2, <2>3
<1>14. ASSUME NEW q \in Publishers, q # p PROVE BuiltBy(q)'
  <2>1. /\ pub[q].pc = "write" => \A s \in Held(q) : Slot(s) \in Slots /\ Slot(s) \notin Mine
        /\ pub[q].pc = "stamp" => \A s \in pub[q].todo : Slot(s) \in Slots /\ Slot(s) \notin Mine
    <3>1. /\ pub[q].pc = "write" => \A s \in Held(q) : Slot(s) \notin Mine
          /\ pub[q].pc = "stamp" => \A s \in pub[q].todo : Slot(s) \notin Mine
      BY <1>1, <1>5, <1>14, OthersApart
    <3>2. \A s \in Int : Slot(s) \in Slots
      BY <1>1, SlotType
    <3>3. Held(q) \subseteq Int /\ pub[q].todo \subseteq Int
      BY <1>1, HeldType, PubRecord DEF PubRecords
    <3> QED
      BY <3>1, <3>2, <3>3
  <2>2. \A i \in Slots : i \notin Mine => event'[i] = event[i] /\ constructed'[i] = constructed[i]
    BY <1>3, <1>7, <1>8
  <2>3. BuiltBy(q)
    BY ContentParts
  <2> HIDE DEF Mine
  <2> QED
    BY <1>2, <1>14, <2>1, <2>2, <2>3, OthersBuilt
<1>15. ASSUME NEW i \in Slots, published[i] >= 0 PROVE (Stands(i) \/ IsGone(i) \/ IsBuilt(i))'
  <2>1. Stands(i) \/ IsGone(i) \/ IsBuilt(i)
    BY <1>15, ContentParts DEF ContentAt
  <2>2. IsBuilt(i) => IsBuilt(i)'
    BY <1>1, <1>2, BuiltFrame
  <2>3. CASE event'[i] = event[i] /\ constructed'[i] = constructed[i]
    <3>1. UNCHANGED <<published, con, claimed, run>>
      BY <1>4
    <3>2. (Stands(i) => Stands(i)') /\ (IsGone(i) => IsGone(i)')
      BY <1>9, <2>3, <3>1 DEF Stands, IsGone
    <3> QED
      BY <2>1, <2>2, <3>2
  <2>4. CASE left = {} /\ i \in Mine
    BY <1>2, <1>9, <2>4 DEF IsBuilt
  <2>5. CASE left # {} /\ i = Slot(m)
    <3>1. ~constructed'[i]
      BY <1>8, <2>5
    <3>2. \A c \in Consumers : published[i] <= con[c].seq
      BY <1>3, <1>5, <2>5, OwedSlotIsRead
    <3> QED
      BY <1>4, <1>9, <3>1, <3>2 DEF IsGone
  <2> QED
    BY <1>3, <1>7, <1>8, <2>3, <2>4, <2>5
<1> QED
  BY <1>4, <1>9, <1>13, <1>14, <1>15 DEF ContentInv, BuiltBy, ContentAt, Stands, IsGone, IsBuilt

LEMMA WriteThrowsContents ==
  ASSUME LowerInv, StampInv, Anchored, ContentInv, NEW p \in Publishers, bus' = bus, WriteThrows(p)
  PROVE  ContentInv'
<1> DEFINE m == MinOf(pub[p].todo)
<1>1. TypeOK /\ StageInv /\ pub[p].pc = "write"
  BY DEF LowerInv, BaseInv, WriteThrows
<1>2. Others(p) /\ pub'[p].pc = "idle"
  BY <1>1, WriteThrowsStep
<1>3. m \in pub[p].todo /\ m \in Held(p) /\ m \in Int
  BY <1>1, FirstToWrite, HeldType
<1>4. /\ constructed' = [constructed EXCEPT ![Slot(m)] = FALSE]
      /\ UNCHANGED <<published, event, con, claimed, run>>
  BY DEF WriteThrows, history
<1>5. Entered(p) /\ Holding(p) /\ Unstamped(p) = Held(p)
  BY <1>1, UnstampedHeld
<1> HIDE DEF m
<1>6. Slot(m) \in Slots
  BY <1>1, <1>3, SlotType
<1>7. \A i \in Slots : constructed'[i] = IF i = Slot(m) THEN FALSE ELSE constructed[i]
  BY <1>1, <1>4, <1>6 DEF TypeOK, RingType
<1>8. /\ Slots' = Slots /\ Consumers' = Consumers
      /\ \A s : Slot(s)' = Slot(s)
  BY BusFrame
<1>9. BuiltBy(p)'
  BY <1>2 DEF BuiltBy
<1>10. ASSUME NEW q \in Publishers, q # p PROVE BuiltBy(q)'
  <2>1. /\ pub[q].pc = "write" => \A s \in Held(q) : Slot(s) # Slot(m)
        /\ pub[q].pc = "stamp" => \A s \in pub[q].todo : Slot(s) # Slot(m)
    BY <1>1, <1>3, <1>5, <1>10, OthersApart
  <2>2. \A s \in Int : Slot(s) \in Slots
    BY <1>1, SlotType
  <2>3. Held(q) \subseteq Int /\ pub[q].todo \subseteq Int
    BY <1>1, HeldType, PubRecord DEF PubRecords
  <2>4. BuiltBy(q)
    BY ContentParts
  <2> QED
    BY <1>2, <1>4, <1>7, <1>10, <2>1, <2>2, <2>3, <2>4, OthersBuilt
<1>11. ASSUME NEW i \in Slots, published[i] >= 0 PROVE (Stands(i) \/ IsGone(i) \/ IsBuilt(i))'
  <2>1. Stands(i) \/ IsGone(i) \/ IsBuilt(i)
    BY <1>11, ContentParts DEF ContentAt
  <2>2. IsBuilt(i) => IsBuilt(i)'
    BY <1>1, <1>2, BuiltFrame
  <2>3. CASE i # Slot(m)
    <3>1. constructed'[i] = constructed[i]
      BY <1>7, <2>3
    <3> QED
      BY <1>4, <1>8, <2>1, <2>2, <3>1 DEF Stands, IsGone
  <2>4. CASE i = Slot(m)
    <3>1. ~constructed'[i]
      BY <1>7, <2>4
    <3>2. \A c \in Consumers : published[i] <= con[c].seq
      BY <1>3, <1>5, <2>4, OwedSlotIsRead
    <3> QED
      BY <1>4, <1>8, <3>1, <3>2 DEF IsGone
  <2> QED
    BY <2>3, <2>4
<1> QED
  BY <1>4, <1>8, <1>9, <1>10, <1>11 DEF ContentInv, BuiltBy, ContentAt, Stands, IsGone, IsBuilt

LEMMA StampContents ==
  ASSUME LowerInv, StampInv, Anchored, ContentInv, NEW p \in Publishers, bus' = bus, Stamp(p)
  PROVE  ContentInv'
<1>1. TypeOK /\ StageInv /\ pub[p].pc = "stamp"
  BY DEF LowerInv, BaseInv, Stamp
<1>2. PICK t \in pub[p].todo :
         /\ Others(p) /\ Moved(p, {"stamp", "resolve"})
         /\ published' = [published EXCEPT ![Slot(t)] = t]
         /\ pub'[p].pc = (IF pub[p].todo = {t} THEN "resolve" ELSE "stamp")
         /\ pub'[p].todo = pub[p].todo \ {t}
  BY <1>1, StampStep
<1>3. UNCHANGED <<constructed, event, con, claimed, run>>
  BY DEF Stamp, history
<1>4. Entered(p) /\ Holding(p) /\ t \in Held(p)
  BY <1>1, <1>2, UnstampedHeld
<1>5. t \in Int /\ Slot(t) \in Slots /\ pub[p].run = run
  BY <1>1, <1>4, HeldRange, SlotType
<1>6. \A i \in Slots : published'[i] = IF i = Slot(t) THEN t ELSE published[i]
  BY <1>1, <1>2, <1>5 DEF TypeOK, RingType
<1>7. /\ Slots' = Slots /\ Consumers' = Consumers
      /\ \A s : Slot(s)' = Slot(s)
  BY BusFrame
<1>8. ASSUME NEW q \in Publishers PROVE BuiltBy(q)'
  <2>1. BuiltBy(q)
    BY ContentParts
  <2>2. CASE q # p
    BY <1>2, <1>3, <2>1, <2>2, OthersBuilt
  <2>3. CASE q = p
    <3>1. Held(p)' = Held(p) /\ \A s : EventAt(p, s)' = EventAt(p, s)
      BY <1>2, HeldMoved DEF Moved, EventAt
    <3> QED
      BY <1>1, <1>2, <1>3, <1>7, <2>1, <2>3, <3>1 DEF BuiltBy
  <2> QED
    BY <2>2, <2>3
<1>9. ASSUME NEW i \in Slots, published'[i] >= 0 PROVE (Stands(i) \/ IsGone(i) \/ IsBuilt(i))'
  <2>1. CASE i = Slot(t)
    <3>1. constructed[i] /\ event[i] = EventAt(p, t)
      BY <1>1, <1>2, <2>1, ContentParts DEF BuiltBy
    <3>2. Claim(p, t) \in claimed
      BY <1>4 DEF LowerInv, BaseInv, ClaimInv
    <3>3. [run |-> run, seq |-> t, ev |-> event[i]] \in claimed
      BY <1>5, <3>1, <3>2 DEF Claim
    <3> QED
      BY <1>3, <1>6, <2>1, <3>1, <3>3 DEF Stands
  <2>2. CASE i # Slot(t)
    <3>1. published'[i] = published[i]
      BY <1>6, <2>2
    <3>2. Stands(i) \/ IsGone(i) \/ IsBuilt(i)
      BY <1>9, <3>1, ContentParts DEF ContentAt
    <3>3. (Stands(i) => Stands(i)') /\ (IsGone(i) => IsGone(i)')
      BY <1>3, <1>7, <3>1 DEF Stands, IsGone
    <3>4. ASSUME IsBuilt(i) PROVE IsBuilt(i)'
      <4>1. PICK q \in Publishers : pub[q].pc = "stamp" /\ \E s \in pub[q].todo : Slot(s) = i
        BY <3>4 DEF IsBuilt
      <4>2. CASE q # p
        BY <1>2, <1>7, <4>1, <4>2 DEF IsBuilt, Others
      <4>3. CASE q = p
        <5>1. PICK s \in pub[p].todo : Slot(s) = i
          BY <4>1, <4>3
        <5>2. s \in pub'[p].todo /\ pub'[p].pc = "stamp"
          BY <1>2, <2>2, <5>1
        <5> QED
          BY <1>7, <5>1, <5>2 DEF IsBuilt
      <4> QED
        BY <4>2, <4>3
    <3> QED
      BY <3>2, <3>3, <3>4
  <2> QED
    BY <2>1, <2>2
<1> QED
  BY <1>7, <1>8, <1>9 DEF ContentInv, BuiltBy, ContentAt, Stands, IsGone, IsBuilt

LEMMA NextContents ==
  ASSUME LowerInv, StampInv, Anchored, ContentInv, [Next]_vars
  PROVE  ContentInv'
<1>1. BaseInv /\ TypeOK /\ StageInv /\ bus' = bus
  BY StepCases DEF LowerInv, BaseInv
<1>2. /\ Slots' = Slots /\ Consumers' = Consumers
      /\ \A s : Slot(s)' = Slot(s)
  BY <1>1, BusFrame
<1>3. ASSUME NEW p \in Publishers, PubAction(p) PROVE ContentInv'
  <2>1. CASE ~Write(p) /\ ~WriteThrows(p) /\ ~Stamp(p)
    <3>1. /\ UNCHANGED <<published, constructed, event>>
          /\ pub[p].pc \notin {"write", "stamp"} /\ pub'[p].pc # "stamp"
          /\ pub'[p].pc = "write" => pub'[p].todo = Held(p)'
      BY <1>1, <1>3, <2>1, RingStep
    <3>2. Others(p) /\ UNCHANGED <<con, run>> /\ claimed \subseteq claimed'
      BY <1>1, <1>3, PubKinds DEF Keeps, Refuses, PutsBack, Takes, Releases
    <3>3. BuiltBy(p)'
      BY <3>1 DEF BuiltBy
    <3>4. ASSUME NEW q \in Publishers, q # p PROVE BuiltBy(q)'
      BY <1>1, <3>1, <3>2, <3>4, ContentParts, OthersBuilt
    <3>5. ASSUME NEW i \in Slots PROVE ContentAt(i)'
      <4>1. (Stands(i) => Stands(i)') /\ (IsGone(i) => IsGone(i)')
        BY <1>2, <3>1, <3>2 DEF Stands, IsGone
      <4>2. IsBuilt(i) => IsBuilt(i)'
        BY <1>1, <3>1, <3>2, BuiltFrame
      <4>3. ContentAt(i)
        BY ContentParts
      <4> QED
        BY <3>1, <4>1, <4>2, <4>3 DEF ContentAt
    <3> QED
      BY <1>2, <3>3, <3>4, <3>5 DEF ContentInv, BuiltBy, ContentAt, Stands, IsGone, IsBuilt
  <2> QED
    BY <1>1, <2>1, WriteContents, WriteThrowsContents, StampContents
<1>4. ASSUME pub' = pub, UNCHANGED <<published, constructed, event, run, claimed>>,
             \A c \in Consumers : con[c].seq <= con'[c].seq
      PROVE  ContentInv'
  <2>1. \A q \in Publishers : Held(q)' = Held(q) /\ \A s : EventAt(q, s)' = EventAt(q, s)
    BY <1>1, <1>4, HoldFrame
  <2>2. ASSUME NEW q \in Publishers PROVE BuiltBy(q)'
    BY <1>2, <1>4, <2>1, ContentParts DEF BuiltBy
  <2>3. ASSUME NEW i \in Slots PROVE ContentAt(i)'
    <3>1. Stands(i) => Stands(i)'
      BY <1>4 DEF Stands
    <3>2. IsBuilt(i) => IsBuilt(i)'
      BY <1>2, <1>4 DEF IsBuilt
    <3>3. ASSUME IsGone(i) PROVE IsGone(i)'
      <4> SUFFICES ASSUME NEW c \in Consumers PROVE published[i] <= con'[c].seq
        BY <1>2, <1>4, <3>3 DEF IsGone
      <4>1. published[i] <= con[c].seq /\ con[c].seq <= con'[c].seq
        BY <1>4, <3>3 DEF IsGone
      <4>2. published[i] \in Int /\ con[c].seq \in Int /\ con'[c].seq \in Int
        <5>1. TypeOK'
          BY <1>1, NextStage
        <5>2. con'[c] \in ConRecords
          BY <1>2, <5>1 DEF TypeOK, ConType
        <5> QED
          BY <1>1, <5>2, PositionTypes DEF TypeOK, RingType, ConRecords, Positions
      <4> QED
        BY <4>1, <4>2
    <3>4. ContentAt(i)
      BY ContentParts
    <3> QED
      BY <1>4, <3>1, <3>2, <3>3, <3>4 DEF ContentAt
  <2> QED
    BY <1>2, <2>2, <2>3 DEF ContentInv, BuiltBy, ContentAt, Stands, IsGone, IsBuilt
<1>5. ASSUME NEW c \in Consumers, ConAction(c) PROVE ContentInv'
  <2>1. pub' = pub /\ UNCHANGED <<published, constructed, event, run, claimed>>
    BY <1>5, ConsumerFrame
  <2>2. OtherCons(c) /\ con[c].seq <= con'[c].seq
    BY <1>1, <1>5, ConsumerProgress DEF LowerInv
  <2>3. \A d \in Consumers : con[d].seq <= con'[d].seq
    BY <1>1, <2>2, PositionTypes DEF OtherCons
  <2> QED
    BY <1>4, <2>1, <2>3
<1>6. ASSUME pub' = pub, \A p \in Publishers : ~Holding(p), \A i \in Slots : published'[i] = -1
      PROVE  ContentInv'
  <2>1. \A p \in Publishers : pub'[p].pc \notin {"write", "stamp"}
    BY <1>6, UnstampedHeld
  <2> QED
    BY <1>2, <1>6, <2>1 DEF ContentInv
<1>7. ASSUME ControlAction PROVE ContentInv'
  <2>1. pub' = pub
    BY <1>1, <1>7, ControlStep DEF ControlAction
  <2>2. CASE StartFlag \/ StopFlag \/ StopQuiet \/ Seal
    <3>1. UNCHANGED <<published, constructed, event, run, claimed, con>>
      BY <2>2 DEF StartFlag, StopFlag, StopQuiet, Seal, ring, history
    <3> QED
      BY <1>1, <1>4, <2>1, <3>1, PositionTypes
  <2>3. CASE StartOpen
    <3>1. Down /\ published' = published
      BY <2>3 DEF StartOpen, Down, ring
    <3> QED
      BY <1>1, <1>6, <2>1, <3>1 DEF BaseInv, CountInv, LowerInv, ProgressInv
  <2>4. CASE Teardown
    <3>1. control = "join" /\ \A i \in Slots : published'[i] = -1
      BY <2>4 DEF Teardown
    <3> QED
      BY <1>1, <1>6, <2>1, <3>1 DEF BaseInv, CountInv
  <2> QED
    BY <1>7, <2>2, <2>3, <2>4 DEF ControlAction
<1>8. ASSUME UNCHANGED vars PROVE ContentInv'
  <2>1. UNCHANGED <<pub, published, constructed, event, run, claimed, con>>
    BY <1>8 DEF vars, ring, history
  <2> QED
    BY <1>1, <1>4, <2>1, PositionTypes
<1> QED
  BY <1>3, <1>5, <1>7, <1>8, StepCases

LEMMA InitContents == Init => ContentInv
BY DEF Init, ContentInv, NoPub

\* The inductive invariant of the ring.
RingInv == LowerInv /\ StampInv /\ ContentInv

LEMMA InitRing == Init => RingInv
BY InitBase, InitProgress, InitFence, InitStamps, InitContents DEF RingInv, LowerInv

LEMMA NextRing ==
  ASSUME RingInv, Anchored, [Next]_vars, [CleanStep]_vars
  PROVE  RingInv'
<1>1. BaseInv'
  BY NextBase DEF RingInv, LowerInv
<1>2. ProgressInv' /\ FenceInv'
  BY NextProgress, NextFence DEF RingInv, LowerInv
<1>3. StampInv' /\ ContentInv'
  BY <1>1, NextStamps, NextContents DEF RingInv
<1> QED
  BY <1>1, <1>2, <1>3 DEF RingInv, LowerInv

\* SlotsAreOwned, of every publish, tryPublish and publishBatch against every listener: a
\* slot in which a publisher builds is nobody else's.  It takes a consumer that never jumps:
\* on a bus whose consumers may all drop behind, pollOnce's jump releases a slot in which a
\* slower publisher is still at work.
THEOREM SlotsHaveOneOwner == ASSUME Anchored PROVE Spec /\ CleanTeardown => []SlotsAreOwned
<1>1. Init => RingInv
  BY InitRing
<1>2. RingInv /\ [Next]_vars /\ [CleanStep]_vars => RingInv'
  BY NextRing
<1>3. RingInv => SlotsAreOwned
  BY OwnedSlots DEF RingInv
<1> QED
  BY <1>1, <1>2, <1>3, PTL DEF Spec, CleanTeardown

-----------------------------------------------------------------------------
(* Deliveries *)

\* The event a consumer finds stamped next is whole, and is the one that was claimed.
LEMMA StandingSlot ==
  ASSUME RingInv, Anchored, NEW c \in Consumers, published[Slot(con[c].last + 1)] = con[c].last + 1
  PROVE  constructed[Slot(con[c].last + 1)] /\ Given(c, con[c].last + 1) \in claimed
<1> DEFINE cur == con[c].last + 1
<1>1. TypeOK /\ LowerInv /\ StampInv /\ ContentInv
  BY DEF RingInv, LowerInv, BaseInv
<1>2. con[c].last \in Int /\ con[c].seq \in Int /\ cur \in Int /\ cur >= 0 /\ Slot(cur) \in Slots
  BY <1>1, PositionTypes, SlotType
<1>3. Stands(Slot(cur)) \/ IsGone(Slot(cur)) \/ IsBuilt(Slot(cur))
  BY <1>1, <1>2, ContentParts DEF ContentAt
<1>4. ~IsGone(Slot(cur))
  <2>1. con[c].seq <= con[c].last
    BY <1>1 DEF LowerInv, ProgressInv
  <2>2. ~(published[Slot(cur)] <= con[c].seq)
    BY <1>2, <2>1
  <2> QED
    BY <2>2 DEF IsGone
<1>5. ~IsBuilt(Slot(cur))
  <2> SUFFICES ASSUME NEW p \in Publishers, pub[p].pc = "stamp", NEW s \in pub[p].todo PROVE Slot(s) # Slot(cur)
    BY DEF IsBuilt
  <2>1. Entered(p) /\ s \in Unstamped(p)
    BY <1>1, UnstampedHeld
  <2> QED
    BY <1>1, <2>1, ReadSlotIsNotOwed
<1> QED
  BY <1>3, <1>4, <1>5 DEF Stands, Given

\* How a consumer's position and its deliveries move together.
LEMMA Deliveries ==
  ASSUME RingInv, Anchored, NEW c \in Consumers, bus' = bus, ConAction(c)
  PROVE  LET cur == con[c].last + 1
         IN \/ con'[c].last = con[c].last /\ delivered' = delivered
            \/ /\ con'[c].last = cur /\ published[Slot(cur)] = cur
               /\ delivered' = [delivered EXCEPT ![c] = Append(@, Given(c, cur))]
            \/ /\ con'[c].last = cur /\ published[Slot(cur)] # cur /\ con[c].pc = "drain"
               /\ delivered' = delivered
            \/ ~Anchor(c) /\ delivered' = delivered
<1>1. TypeOK /\ StageInv /\ LowerInv /\ StampInv
  BY DEF RingInv, LowerInv, BaseInv
<1>2. /\ con[c].pc \in {"top", "await", "slot", "deliver", "commit"} => con[c].next = con[c].seq
      /\ con[c].pc \in {"top", "await", "drain"} => con[c].last = con[c].seq
  BY <1>1 DEF LowerInv, ProgressInv
<1> DEFINE cur == con[c].last + 1
<1>3. published[Slot(cur)] = cur => constructed[Slot(cur)]
  BY StandingSlot
<1>4. CASE Poll(c)
  <2>1. con[c].pc = "top" /\ delivered' = delivered
    BY <1>4 DEF Poll, history
  <2>2. con'[c].last = con[c].last \/ con'[c].last = con[c].next \/ ~Anchor(c)
    BY <1>1, <1>4, PollStep
  <2> QED
    BY <1>2, <2>1, <2>2
<1>5. CASE SlotLook(c)
  <2>1. delivered' = delivered
    BY <1>5 DEF SlotLook, history
  <2>2. con'[c].last = con[c].last \/ (published[Slot(cur)] = cur /\ ~constructed[Slot(cur)])
    BY <1>1, <1>5, SlotLookStep
  <2> QED
    BY <1>3, <2>1, <2>2
<1>6. CASE Deliver(c)
  <2>1. con'[c].last = cur
    BY <1>1, <1>6, DeliverStep
  <2>2. /\ published[Slot(cur)] = cur
        /\ delivered' = [delivered EXCEPT ![c] = Append(@, Given(c, cur))]
    BY <1>1, <1>6 DEF Deliver, StampInv
  <2> QED
    BY <2>1, <2>2
<1>7. CASE DrainSlot(c)
  <2>1. con'[c].last = cur
    BY <1>1, <1>7, DrainSlotStep
  <2>2. /\ con[c].pc = "drain"
        /\ delivered' = IF published[Slot(cur)] = cur /\ constructed[Slot(cur)]
                          THEN [delivered EXCEPT ![c] = Append(@, Given(c, cur))]
                          ELSE delivered
    BY <1>7 DEF DrainSlot
  <2> QED
    BY <1>3, <2>1, <2>2
<1>8. CASE DeliverThrows(c) \/ Commit(c) \/ DrainBegin(c) \/ DrainThrows(c) \/ DrainEnd(c)
  <2>1. con'[c].last = con[c].last \/ (con'[c].last = con[c].seq /\ DrainBegin(c))
    BY <1>1, <1>8, QuietConsumerStep
  <2>2. (DrainBegin(c) => con[c].pc = "await") /\ delivered' = delivered
    BY <1>8 DEF DeliverThrows, Commit, DrainBegin, DrainThrows, DrainEnd, history
  <2> QED
    BY <1>2, <2>1, <2>2
<1> QED
  BY <1>4, <1>5, <1>6, <1>7, <1>8 DEF ConAction

LEMMA Appended ==
  ASSUME NEW D \in Seq(ClaimRecords), NEW g \in ClaimRecords
  PROVE  /\ DOMAIN D = 1 .. Len(D) /\ Len(D) \in Nat
         /\ DOMAIN Append(D, g) = 1 .. (Len(D) + 1) /\ Len(Append(D, g)) = Len(D) + 1
         /\ Append(D, g)[Len(D) + 1] = g
         /\ \A k \in 1 .. Len(D) : Append(D, g)[k] = D[k]
         /\ \A k \in 1 .. Len(D) : D[k] \in ClaimRecords
OBVIOUS

Precedes(x, y) == x.run < y.run \/ (x.run = y.run /\ x.seq < y.seq)
OrderOf(c) ==
  /\ \A k \in DOMAIN delivered[c] : delivered[c][k] \in claimed
  /\ \A k \in 1 .. Len(delivered[c]) - 1 : Precedes(delivered[c][k], delivered[c][k + 1])
BehindOf(c) ==
  con[c].pc # "joined" =>
    \A k \in DOMAIN delivered[c] : delivered[c][k].run = run => delivered[c][k].seq <= con[c].last

LEMMA OrderParts == OrderInv <=> \A c \in Consumers : OrderOf(c) /\ BehindOf(c)
BY DEF OrderInv, DeliversWhatWasClaimed, OrderOf, BehindOf, Precedes

LEMMA ConsumerOrder ==
  ASSUME RingInv, Anchored, OrderInv, NEW c \in Consumers, bus' = bus, ConAction(c)
  PROVE  OrderInv'
<1>1. TypeOK /\ StageInv /\ LowerInv /\ BaseInv /\ ClaimInv
  BY DEF RingInv, LowerInv, BaseInv
<1>2. UNCHANGED <<run, claimed>>
  BY ConsumerFrame
<1>3. OtherCons(c) /\ con[c].pc # "joined" /\ con[c].last <= con'[c].last
  BY <1>1, ConsumerProgress DEF LowerInv
<1>4. Consumers' = Consumers
  BY BusFrame
<1> DEFINE cur == con[c].last + 1
           g == Given(c, cur)
<1>5. con[c].last \in Int /\ cur \in Int /\ con'[c].last \in Int
  <2>1. TypeOK'
    BY <1>1, NextStage, StepCases DEF Next, Consumer, ConAction
  <2>2. con'[c] \in ConRecords
    BY <1>4, <2>1 DEF TypeOK, ConType
  <2> QED
    BY <1>1, <2>2, PositionTypes DEF ConRecords, Positions
<1>6. OrderOf(c) /\ BehindOf(c)
  BY OrderParts
<1>7. delivered[c] \in Seq(ClaimRecords)
  BY <1>1 DEF TypeOK, HistoryType
<1>8. ASSUME NEW d \in Consumers, delivered'[d] = delivered[d] PROVE OrderOf(d)' /\ BehindOf(d)'
  <2>1. OrderOf(d) /\ BehindOf(d)
    BY OrderParts
  <2>2. OrderOf(d)'
    BY <1>2, <1>8, <2>1 DEF OrderOf, Precedes
  <2>3. CASE d # c
    BY <1>2, <1>3, <1>8, <2>1, <2>2, <2>3 DEF BehindOf, OtherCons
  <2>4. CASE d = c
    <3> SUFFICES ASSUME NEW k \in DOMAIN delivered[c], delivered[c][k].run = run
                 PROVE  delivered[c][k].seq <= con'[c].last
      BY <1>2, <1>8, <2>2, <2>4 DEF BehindOf
    <3>1. delivered[c][k].seq <= con[c].last
      BY <1>3, <1>6 DEF BehindOf
    <3>2. delivered[c][k] \in claimed /\ claimed \subseteq ClaimRecords
      BY <1>1, <1>6 DEF OrderOf, TypeOK, HistoryType
    <3>3. delivered[c][k].seq \in Int
      BY <3>2 DEF ClaimRecords
    <3> QED
      BY <1>3, <1>5, <3>1, <3>3
  <2> QED
    BY <2>3, <2>4
<1>9. CASE delivered' = delivered
  BY <1>4, <1>8, <1>9 DEF OrderInv, DeliversWhatWasClaimed, OrderOf, BehindOf, Precedes
<1>10. CASE /\ con'[c].last = cur /\ published[Slot(cur)] = cur
            /\ delivered' = [delivered EXCEPT ![c] = Append(@, g)]
  <2> DEFINE D == delivered[c]
  <2>1. delivered'[c] = Append(D, g) /\ \A d \in Consumers : d # c => delivered'[d] = delivered[d]
    BY <1>1, <1>10 DEF TypeOK, HistoryType
  <2>2. g \in claimed /\ g.run = run /\ g.seq = cur
    BY <1>10, StandingSlot DEF Given
  <2>3. g \in ClaimRecords
    BY <1>1, <2>2 DEF TypeOK, HistoryType
  <2>4. /\ DOMAIN D = 1 .. Len(D) /\ Len(D) \in Nat
        /\ DOMAIN Append(D, g) = 1 .. (Len(D) + 1) /\ Len(Append(D, g)) = Len(D) + 1
        /\ Append(D, g)[Len(D) + 1] = g
        /\ \A k \in 1 .. Len(D) : Append(D, g)[k] = D[k]
        /\ \A k \in 1 .. Len(D) : D[k] \in ClaimRecords
    BY <1>7, <2>3, Appended
  <2> DEFINE E == delivered'[c]
  <2>5. /\ DOMAIN E = 1 .. (Len(D) + 1) /\ Len(E) = Len(D) + 1 /\ E[Len(D) + 1] = g
        /\ \A k \in 1 .. Len(D) : E[k] = D[k]
    BY <2>1, <2>4
  <2>6. \A k \in 1 .. Len(D) : D[k] \in claimed /\ D[k].run \in Nat /\ D[k].seq \in Int
    BY <1>6, <2>4 DEF OrderOf, ClaimRecords
  <2> HIDE DEF g, E, D, cur
  <2>7. \A k \in 1 .. Len(D) : Precedes(D[k], g)
    <3> SUFFICES ASSUME NEW k \in 1 .. Len(D) PROVE Precedes(D[k], g)
      OBVIOUS
    <3>1. D[k].run <= run /\ run \in Nat /\ D[k].run \in Nat /\ D[k].seq \in Int
      BY <1>1, <2>6 DEF ClaimInv, TypeOK, LineType
    <3>2. D[k].run = run => D[k].seq <= con[c].last
      BY <1>3, <1>6, <2>4 DEF BehindOf, D
    <3> QED
      BY <1>5, <2>2, <3>1, <3>2 DEF Precedes, cur
  <2>8. ASSUME NEW k \in DOMAIN E PROVE E[k] \in claimed /\ (E[k].run = run => E[k].seq <= cur)
    <3>1. CASE k \in 1 .. Len(D)
      <4>1. E[k] = D[k] /\ D[k] \in claimed /\ D[k].seq \in Int
        BY <2>5, <2>6, <3>1
      <4>2. D[k].run = run => D[k].seq <= con[c].last
        BY <1>3, <1>6, <2>4, <3>1 DEF BehindOf, D
      <4> QED
        BY <1>5, <4>1, <4>2 DEF cur
    <3>2. CASE k = Len(D) + 1
      BY <1>5, <2>2, <2>5, <3>2
    <3> QED
      BY <2>4, <2>5, <2>8, <3>1, <3>2
  <2>9. ASSUME NEW k \in 1 .. Len(E) - 1 PROVE Precedes(E[k], E[k + 1])
    <3>1. k \in 1 .. Len(D) /\ E[k] = D[k]
      BY <2>4, <2>5, <2>9
    <3>2. CASE k = Len(D)
      BY <2>5, <2>7, <3>1, <3>2
    <3>3. CASE k # Len(D)
      <4> DEFINE n == Len(D)
      <4>1. n \in Nat /\ k \in 1 .. n /\ k # n
        BY <2>4, <3>1, <3>3
      <4> HIDE DEF n
      <4>2. k \in 1 .. n - 1 /\ k + 1 \in 1 .. n
        BY <4>1
      <4>3. E[k + 1] = D[k + 1]
        BY <2>5, <4>2 DEF n
      <4> QED
        BY <1>6, <3>1, <4>2, <4>3, SMTT(40) DEF OrderOf, D, n
    <3> QED
      BY <3>2, <3>3
  <2>10. OrderOf(c)' /\ BehindOf(c)'
    <3>1. OrderOf(c)'
      BY <1>2, <2>8, <2>9 DEF OrderOf, Precedes, E
    <3>2. BehindOf(c)'
      BY <1>2, <1>10, <2>8 DEF BehindOf, E
    <3> QED
      BY <3>1, <3>2
  <2>11. \A d \in Consumers : OrderOf(d)' /\ BehindOf(d)'
    BY <1>8, <2>1, <2>10
  <2> QED
    BY <1>4, <2>11 DEF OrderInv, DeliversWhatWasClaimed, OrderOf, BehindOf, Precedes
<1> HIDE DEF g
<1> QED
  BY <1>9, <1>10, Deliveries DEF g

LEMMA NextOrder ==
  ASSUME RingInv, Anchored, OrderInv, [Next]_vars
  PROVE  OrderInv'
<1>1. TypeOK /\ StageInv /\ ClaimInv /\ bus' = bus
  BY StepCases DEF RingInv, LowerInv, BaseInv
<1>2. Consumers' = Consumers
  BY <1>1, BusFrame
<1>3. ASSUME delivered' = delivered, claimed \subseteq claimed', \A c \in Consumers : BehindOf(c)'
      PROVE  OrderInv'
  <2>1. \A c \in Consumers : OrderOf(c)'
    BY <1>3, OrderParts DEF OrderOf, Precedes
  <2> QED
    BY <1>2, <1>3, <2>1 DEF OrderInv, DeliversWhatWasClaimed, OrderOf, BehindOf, Precedes
<1>4. ASSUME UNCHANGED <<run, con, delivered>> PROVE \A c \in Consumers : BehindOf(c)'
  BY <1>4, OrderParts DEF BehindOf
<1>5. ASSUME NEW p \in Publishers, PubAction(p) PROVE OrderInv'
  <2>1. UNCHANGED <<run, con, delivered>> /\ claimed \subseteq claimed'
    BY <1>1, <1>5, PubKinds DEF Keeps, Refuses, PutsBack, Takes, Releases
  <2> QED
    BY <1>3, <1>4, <2>1
<1>6. ASSUME ControlAction PROVE OrderInv'
  <2>1. delivered' = delivered /\ claimed' = claimed
    BY <1>6 DEF ControlAction, StartFlag, StartOpen, StopFlag, Seal, StopQuiet, Teardown, history
  <2>2. CASE StartFlag \/ StopFlag \/ StopQuiet \/ Seal
    <3>1. UNCHANGED <<run, con>>
      BY <2>2 DEF StartFlag, StopFlag, StopQuiet, Seal, history
    <3> QED
      BY <1>3, <1>4, <2>1, <3>1
  <2>3. CASE StartOpen
    <3>1. run' = run + 1 /\ run \in Nat
      BY <1>1, <2>3 DEF StartOpen, TypeOK, LineType
    <3>2. ASSUME NEW c \in Consumers, NEW k \in DOMAIN delivered[c] PROVE delivered[c][k].run # run'
      <4>1. delivered[c][k] \in claimed
        BY OrderParts DEF OrderOf
      <4>2. delivered[c][k].run <= run /\ delivered[c][k].run \in Nat
        BY <1>1, <4>1 DEF ClaimInv, TypeOK, HistoryType, ClaimRecords
      <4> QED
        BY <3>1, <4>2
    <3>3. \A c \in Consumers : BehindOf(c)'
      BY <2>1, <3>2 DEF BehindOf
    <3> QED
      BY <1>3, <2>1, <3>3
  <2>4. CASE Teardown
    <3>1. \A c \in Consumers : con[c].pc = "joined" /\ con'[c].pc = con[c].pc
      BY <1>1, <2>4, ControlStep DEF Teardown
    <3>2. \A c \in Consumers : BehindOf(c)'
      BY <3>1 DEF BehindOf
    <3> QED
      BY <1>3, <2>1, <3>2
  <2> QED
    BY <1>6, <2>2, <2>3, <2>4 DEF ControlAction
<1>7. ASSUME UNCHANGED vars PROVE OrderInv'
  <2>1. UNCHANGED <<run, con, delivered>> /\ claimed' = claimed
    BY <1>7 DEF vars, history
  <2> QED
    BY <1>3, <1>4, <2>1
<1> QED
  BY <1>1, <1>5, <1>6, <1>7, StepCases, ConsumerOrder

-----------------------------------------------------------------------------
(* Arrival *)

AcceptedAt(c) == \A x \in accepted : x.run = run /\ x.seq > con[c].seq => published[Slot(x.seq)] = x.seq
StampedAt(c) == \A p \in Publishers : \A s \in Stamped(p) : s > con[c].seq => published[Slot(s)] = s
Passed(c) ==
  \A x \in claimed : x.run = run /\ x.seq <= con[c].last =>
    GivenUp(x) \/ \E k \in DOMAIN delivered[c] : delivered[c][k] = x
Emptied(c) == con[c].pc = "joined" /\ ~con[c].failed => sealed /\ con[c].last >= lastClaim

LEMMA ArrivalParts ==
  ArrivalInv <=> /\ ~Down => \A c \in Consumers : AcceptedAt(c) /\ StampedAt(c)
                 /\ \A c \in Consumers : Anchor(c) => Passed(c)
                 /\ ~Down /\ DrainOnStop => \A c \in Consumers : Emptied(c)
BY DEF ArrivalInv, AcceptedAt, StampedAt, Passed, Emptied

\* A stamp covers only what everybody has read.
LEMMA StampCovers ==
  ASSUME RingInv, Anchored, NEW p \in Publishers, pub[p].pc = "stamp", NEW t \in pub[p].todo,
         NEW c \in Consumers, NEW s \in Int, s > con[c].seq, published[Slot(s)] = s
  PROVE  Slot(s) # Slot(t)
<1>1. LowerInv /\ StampInv /\ TypeOK
  BY DEF RingInv, LowerInv, BaseInv
<1>2. t \in Unstamped(p) /\ Entered(p)
  BY <1>1, UnstampedHeld
<1>3. published[Slot(t)] <= con[c].seq
  BY <1>1, <1>2, OwedSlotIsRead
<1>4. con[c].seq \in Int
  BY <1>1, PositionTypes
<1> QED
  BY <1>3, <1>4

LEMMA StampedStep ==
  ASSUME BaseInv, NEW p \in Publishers, bus' = bus, PubAction(p)
  PROVE  /\ \A q \in Publishers : q # p => Stamped(q)' = Stamped(q)
         /\ ~Stamp(p) => Stamped(p)' = {}
<1>1. TypeOK /\ StageInv
  BY DEF BaseInv
<1>2. Others(p)
  BY <1>1, PubKinds
<1>3. ASSUME NEW q \in Publishers, q # p PROVE Stamped(q)' = Stamped(q)
  <2>1. pub'[q] = pub[q] /\ Held(q)' = Held(q)
    BY <1>2, <1>3, OthersHeld DEF Others
  <2> QED
    BY <2>1 DEF Stamped
<1>4. ASSUME ~Stamp(p) PROVE Stamped(p)' = {}
  <2>1. CASE Write(p)
    <3>1. /\ pub'[p].pc = "stamp" => pub'[p].todo = Held(p)
          /\ pub'[p].pc # "resolve" /\ pub'[p].seq = pub[p].seq
      BY <1>1, <2>1, WriteStep DEF Moved
    <3>2. Held(p)' = Held(p)
      BY <3>1, HeldMoved
    <3> QED
      BY <3>1, <3>2 DEF Stamped
  <2>2. CASE WriteThrows(p)
    <3>1. pub'[p].pc = "idle"
      BY <1>1, <2>2, WriteThrowsStep
    <3> QED
      BY <3>1 DEF Stamped
  <2>3. CASE ~Write(p) /\ ~WriteThrows(p)
    <3>1. pub'[p].pc # "stamp"
      BY <1>1, <1>4, <2>3, RingStep
    <3>2. pub'[p].pc # "resolve"
      BY <1>1, <1>4, <2>3, EnterStep, ClaimLineStep, PutBackStep, TryLineStep, WrapLookStep, WrapScanStep,
         WrapStoreStep, ReclaimLookStep, FenceScanStep, FenceStoreStep, ExchangeStep, ResolveStep
         DEF PubAction, Moved
    <3> QED
      BY <3>1, <3>2 DEF Stamped
  <2> QED
    BY <2>1, <2>2, <2>3
<1> QED
  BY <1>3, <1>4

\* A publisher does not bring back what was given up on.
LEMMA GivenUpStep ==
  ASSUME BaseInv, NEW p \in Publishers, bus' = bus, PubAction(p),
         NEW x \in claimed, x.run = run, GivenUp(x)
  PROVE  GivenUp(x)'
<1>1. TypeOK /\ StageInv /\ LineInv /\ ClaimInv
  BY DEF BaseInv
<1>2. Others(p) /\ (Keeps(p) \/ Refuses(p) \/ PutsBack(p) \/ Takes(p) \/ Releases(p))
  BY <1>1, PubKinds
<1>3. x.seq \in Int /\ x.seq <= Last /\ Last \in Int
  BY <1>1 DEF ClaimInv, TypeOK, HistoryType, ClaimRecords, LineType, Last
<1>4. \A q \in Publishers : q # p => (Holding(q)' => x.seq \notin Held(q)')
  BY <1>2, OthersHeld DEF GivenUp
<1>5. x \notin accepted'
  <2>1. CASE Releases(p)
    <3>1. x.seq \notin Held(p)
      BY <2>1 DEF Releases, GivenUp
    <3>2. \A s \in Held(p) : Claim(p, s).seq = s
      BY DEF Claim
    <3> QED
      BY <2>1, <3>1, <3>2 DEF Releases, GivenUp
  <2>2. CASE ~Releases(p)
    BY <1>2, <2>2 DEF Keeps, Refuses, PutsBack, Takes, GivenUp
  <2> QED
    BY <2>1, <2>2
<1>6. Holding(p)' => x.seq \notin Held(p)'
  <2>1. CASE Keeps(p)
    <3>1. Holding(p)' => Holding(p) /\ Held(p)' = Held(p)
      BY <2>1, HeldMoved DEF Keeps
    <3> QED
      BY <3>1 DEF GivenUp
  <2>2. CASE Refuses(p) \/ PutsBack(p) \/ Releases(p)
    BY <2>2 DEF Refuses, PutsBack, Releases, Holding, Inside
  <2>3. CASE Takes(p)
    <3>1. pub'[p].seq = Last + SizeOf(p) /\ SizeOf(p)' = SizeOf(p) /\ SizeOf(p) \in Int
      BY <1>1, <2>3, LastStep, SizeType, WrapType DEF Takes, SizeOf, Batchers, Capacity
    <3>2. ASSUME x.seq \in Held(p)' PROVE FALSE
      <4>1. x.seq \in (pub'[p].seq - SizeOf(p)' + 1) .. pub'[p].seq
        BY <3>2 DEF Held
      <4> QED
        BY <1>3, <3>1, <4>1
    <3> QED
      BY <3>2
  <2> QED
    BY <1>2, <2>1, <2>2, <2>3
<1> QED
  BY <1>4, <1>5, <1>6 DEF GivenUp

LEMMA PublisherArrival ==
  ASSUME RingInv, Anchored, ArrivalInv, NEW p \in Publishers, bus' = bus, PubAction(p)
  PROVE  ArrivalInv'
<1>1. TypeOK /\ StageInv /\ LineInv /\ ClaimInv /\ BaseInv /\ LowerInv /\ StampInv
  BY DEF RingInv, LowerInv, BaseInv
<1>2. Others(p) /\ UNCHANGED <<running, control, sealed, lastClaim, con, run, delivered>>
  BY <1>1, PubKinds
<1>3. /\ Consumers' = Consumers /\ DrainOnStop' = DrainOnStop /\ Down' = Down
      /\ \A s : Slot(s)' = Slot(s)
      /\ \A c : Anchor(c)' = Anchor(c)
  BY <1>2, BusFrame DEF Down
<1>4. ASSUME NEW c \in Consumers, NEW s \in Int, s > con[c].seq, published[Slot(s)] = s
      PROVE  published'[Slot(s)] = s
  <2>1. CASE ~Stamp(p)
    <3>1. published' = published
      BY <2>1 DEF PubAction, Enter, ClaimLine, PutBack, TryLine, WrapLook, WrapScan, WrapStore,
           ReclaimLook, FenceScan, FenceStore, Exchange, Write, WriteThrows, Resolve, ring
    <3> QED
      BY <1>4, <3>1
  <2>2. CASE Stamp(p)
    <3>1. PICK t \in pub[p].todo : published' = [published EXCEPT ![Slot(t)] = t]
      BY <1>1, <2>2, StampStep
    <3>2. Slot(s) # Slot(t)
      BY <1>4, <2>2, StampCovers DEF Stamp
    <3>3. Slot(s) \in Slots
      BY <1>1, SlotType
    <3> QED
      BY <1>1, <1>4, <3>1, <3>2, <3>3 DEF TypeOK, RingType
  <2> QED
    BY <2>1, <2>2
<1>5. ASSUME ~Down, NEW c \in Consumers PROVE AcceptedAt(c)' /\ StampedAt(c)'
  <2>1. AcceptedAt(c) /\ StampedAt(c)
    BY <1>5, ArrivalParts
  <2>2. ASSUME NEW x \in accepted', x.run = run, x.seq > con[c].seq PROVE published'[Slot(x.seq)] = x.seq
    <3>1. CASE x \in accepted
      <4>1. x.seq \in Int /\ published[Slot(x.seq)] = x.seq
        BY <1>1, <2>1, <2>2, <3>1 DEF AcceptedAt, TypeOK, HistoryType, ClaimRecords
      <4> QED
        BY <1>4, <2>2, <4>1
    <3>2. CASE x \notin accepted
      <4>1. Resolve(p)
        BY <2>2, <3>2 DEF PubAction, Enter, ClaimLine, PutBack, TryLine, WrapLook, WrapScan, WrapStore,
           ReclaimLook, FenceScan, FenceStore, Exchange, Write, WriteThrows, Stamp, history
      <4>2. PICK s \in Held(p) : x = Claim(p, s)
        BY <2>2, <3>2, <4>1 DEF Resolve
      <4>3. x.seq = s /\ s \in Int /\ s \in Stamped(p)
        BY <1>1, <4>1, <4>2, HeldType DEF Resolve, Claim, Stamped
      <4>4. published[Slot(s)] = s
        BY <2>1, <2>2, <4>3 DEF StampedAt
      <4> QED
        BY <1>4, <2>2, <4>3, <4>4, SMTT(40)
    <3> QED
      BY <3>1, <3>2
  <2>3. ASSUME NEW q \in Publishers, NEW s \in Stamped(q)', s > con[c].seq PROVE published'[Slot(s)] = s
    <3>1. ASSUME s \in Stamped(q) PROVE published'[Slot(s)] = s
      <4>1. s \in Int
        BY <1>1, <3>1, HeldType DEF Stamped
      <4>2. published[Slot(s)] = s
        BY <2>1, <2>3, <3>1 DEF StampedAt
      <4> QED
        BY <1>4, <2>3, <4>1, <4>2
    <3>2. CASE q # p
      BY <1>1, <2>3, <3>1, <3>2, StampedStep
    <3>3. CASE q = p /\ s \notin Stamped(p)
      <4>1. Stamp(p)
        BY <1>1, <2>3, <3>3, StampedStep
      <4>2. PICK t \in pub[p].todo :
               /\ Moved(p, {"stamp", "resolve"})
               /\ published' = [published EXCEPT ![Slot(t)] = t]
               /\ pub'[p].pc = (IF pub[p].todo = {t} THEN "resolve" ELSE "stamp")
               /\ pub'[p].todo = pub[p].todo \ {t}
        BY <1>1, <4>1, StampStep
      <4>3. pub[p].pc = "stamp" /\ Held(p)' = Held(p)
        BY <4>1, <4>2, HeldMoved DEF Stamp, Moved
      <4>4. s = t
        <5>1. s \in Held(p) /\ s \notin pub'[p].todo
          BY <2>3, <3>3, <4>2, <4>3 DEF Stamped
        <5>2. s \in pub[p].todo
          BY <3>3, <4>3, <5>1 DEF Stamped
        <5> QED
          BY <4>2, <5>1, <5>2
      <4>5. t \in Int /\ Slot(t) \in Slots
        BY <1>1, <4>3, HeldType, SlotType, UnstampedHeld
      <4> QED
        BY <1>1, <4>2, <4>4, <4>5 DEF TypeOK, RingType
    <3> QED
      BY <3>1, <3>2, <3>3
  <2> QED
    BY <1>2, <1>3, <2>2, <2>3 DEF AcceptedAt, StampedAt
<1>6. ASSUME NEW c \in Consumers, Anchor(c) PROVE Passed(c)'
  <2> SUFFICES ASSUME NEW x \in claimed', x.run = run, x.seq <= con[c].last
               PROVE  GivenUp(x)' \/ \E k \in DOMAIN delivered[c] : delivered[c][k] = x
    BY <1>2 DEF Passed
  <2>1. x \in claimed
    <3>1. CASE Takes(p)
      <4>1. next' = Last + SizeOf(p) /\ Last \in Int /\ SizeOf(p) \in Int
        BY <1>1, <3>1, LastStep, SizeType, WrapType DEF Takes
      <4>2. next' \in Int
        BY <4>1
      <4>3. \A y \in ClaimsOf(p, next') : y.seq >= next' - SizeOf(p) + 1
        BY <1>1, <4>2, ClaimsType
      <4>4. con[c].last <= Last /\ con[c].last \in Int
        BY <1>1, PositionTypes DEF StampInv
      <4>5. ClaimsOf(p, next') \subseteq ClaimRecords
        BY <1>1, <4>2, ClaimsType
      <4>6. ASSUME x \in ClaimsOf(p, next') PROVE FALSE
        <5>1. x.seq \in Int /\ x.seq >= next' - SizeOf(p) + 1
          BY <4>3, <4>5, <4>6 DEF ClaimRecords
        <5> QED
          BY <4>1, <4>2, <4>4, <5>1
      <4> QED
        BY <3>1, <4>6 DEF Takes
    <3>2. CASE ~Takes(p)
      BY <1>1, <3>2, PubKinds DEF Keeps, Refuses, PutsBack, Releases
    <3> QED
      BY <3>1, <3>2
  <2>2. GivenUp(x) \/ \E k \in DOMAIN delivered[c] : delivered[c][k] = x
    BY <1>6, <2>1, ArrivalParts DEF Passed
  <2> QED
    BY <1>1, <2>1, <2>2, GivenUpStep
<1>7. ASSUME ~Down, DrainOnStop, NEW c \in Consumers PROVE Emptied(c)'
  BY <1>2, <1>7, ArrivalParts DEF Emptied
<1> QED
  BY <1>3, <1>5, <1>6, <1>7 DEF ArrivalInv, AcceptedAt, StampedAt, Passed, Emptied

LEMMA GivenUpFrame ==
  ASSUME bus' = bus, pub' = pub, accepted' = accepted
  PROVE  \A x : GivenUp(x)' = GivenUp(x)
<1>1. \A p \in Publishers : Holding(p)' = Holding(p) /\ Held(p)' = Held(p)
  BY HoldFrame
<1> QED
  BY <1>1 DEF GivenUp

LEMMA StampedFrame ==
  ASSUME bus' = bus, pub' = pub, NEW p \in Publishers
  PROVE  Stamped(p)' = Stamped(p)
<1>1. Held(p)' = Held(p)
  BY HoldFrame
<1> QED
  BY <1>1 DEF Stamped

LEMMA ConsumerArrival ==
  ASSUME RingInv, Anchored, ArrivalInv, NEW c \in Consumers, bus' = bus, ConAction(c)
  PROVE  ArrivalInv'
<1>1. TypeOK /\ StageInv /\ LineInv /\ ClaimInv /\ CountInv /\ BaseInv /\ LowerInv /\ StampInv
  BY DEF RingInv, LowerInv, BaseInv
<1>2. UNCHANGED <<running, published, sealed, lastClaim, control, pub, run, claimed, accepted>>
  BY ConsumerFrame
<1>3. /\ Consumers' = Consumers /\ DrainOnStop' = DrainOnStop /\ Down' = Down
      /\ \A s : Slot(s)' = Slot(s)
      /\ \A d : Anchor(d)' = Anchor(d)
  BY <1>2, BusFrame DEF Down
<1>4. /\ OtherCons(c) /\ con[c].pc # "joined"
      /\ con[c].seq <= con'[c].seq /\ con[c].last <= con'[c].last
  BY <1>1, ConsumerProgress DEF LowerInv
<1>5. /\ \A x : GivenUp(x)' = GivenUp(x)
      /\ \A q \in Publishers : Stamped(q)' = Stamped(q)
  BY <1>2, GivenUpFrame, StampedFrame
<1>6. con[c].seq \in Int /\ con[c].last \in Int /\ con'[c].seq \in Int /\ con'[c].last \in Int
  <2>1. TypeOK'
    BY <1>1, NextStage, StepCases DEF Next, Consumer, ConAction
  <2>2. con'[c] \in ConRecords
    BY <1>3, <2>1 DEF TypeOK, ConType
  <2> QED
    BY <1>1, <2>2, PositionTypes DEF ConRecords, Positions
<1>7. ~Down
  BY <1>1, <1>4 DEF LowerInv, ProgressInv
<1>8. AcceptedAt(c) /\ StampedAt(c)
  BY <1>7, ArrivalParts
<1>9. ASSUME NEW d \in Consumers PROVE AcceptedAt(d)' /\ StampedAt(d)'
  <2>1. CASE d # c
    <3>1. AcceptedAt(d) /\ StampedAt(d) /\ con'[d] = con[d]
      BY <1>4, <1>7, <2>1, ArrivalParts DEF OtherCons
    <3> QED
      BY <1>2, <1>3, <1>5, <3>1 DEF AcceptedAt, StampedAt
  <2>2. CASE d = c
    <3>1. ASSUME NEW s \in Int, s > con'[c].seq PROVE s > con[c].seq
      BY <1>4, <1>6, <3>1
    <3>2. \A x \in accepted : x.seq \in Int
      BY <1>1 DEF TypeOK, HistoryType, ClaimRecords
    <3>3. \A q \in Publishers : \A s \in Stamped(q) : s \in Int
      BY <1>1, HeldType DEF Stamped
    <3>4. AcceptedAt(c)'
      BY <1>2, <1>3, <1>8, <3>1, <3>2 DEF AcceptedAt
    <3>5. StampedAt(c)'
      BY <1>2, <1>3, <1>5, <1>8, <3>1, <3>3 DEF StampedAt
    <3> QED
      BY <2>2, <3>4, <3>5
  <2> QED
    BY <2>1, <2>2
<1> DEFINE cur == con[c].last + 1
           g == Given(c, cur)
           D == delivered[c]
<1>10. /\ \/ con'[c].last = con[c].last
          \/ con'[c].last = cur /\ published[Slot(cur)] = cur
          \/ con'[c].last = cur /\ published[Slot(cur)] # cur /\ con[c].pc = "drain"
          \/ ~Anchor(c)
       /\ \/ delivered' = delivered /\ ~(con'[c].last = cur /\ published[Slot(cur)] = cur)
          \/ delivered' = [delivered EXCEPT ![c] = Append(@, g)] /\ published[Slot(cur)] = cur
          \/ ~Anchor(c) /\ delivered' = delivered
  BY <1>6, Deliveries
<1>11. delivered[c] \in Seq(ClaimRecords) /\ delivered \in [Consumers -> Seq(ClaimRecords)] /\ g \in ClaimRecords
  BY <1>1, <1>6, GivenType DEF TypeOK, HistoryType
<1>12. ASSUME NEW d \in Consumers, NEW k \in DOMAIN delivered[d]
       PROVE  k \in DOMAIN delivered'[d] /\ delivered'[d][k] = delivered[d][k]
  <2>1. CASE delivered' = delivered
    BY <1>12, <2>1
  <2>2. CASE delivered' = [delivered EXCEPT ![c] = Append(@, g)]
    <3>1. CASE d # c
      BY <1>11, <1>12, <2>2, <3>1
    <3>2. CASE d = c
      <4>1. delivered'[c] = Append(D, g)
        BY <1>11, <2>2
      <4>2. k \in 1 .. Len(D) /\ Len(D) \in Nat
        BY <1>11, <1>12, <3>2, Appended
      <4>3. k \in 1 .. (Len(D) + 1)
        BY <4>2
      <4> HIDE DEF g, D
      <4>4. DOMAIN Append(D, g) = 1 .. (Len(D) + 1) /\ Append(D, g)[k] = D[k]
        BY <1>11, <4>2, Appended DEF D
      <4> QED
        BY <3>2, <4>1, <4>3, <4>4 DEF D
    <3> QED
      BY <3>1, <3>2
  <2> HIDE DEF g
  <2> QED
    BY <1>10, <2>1, <2>2
<1>13. ASSUME NEW d \in Consumers, Anchor(d) PROVE Passed(d)'
  <2> SUFFICES ASSUME NEW x \in claimed, x.run = run, x.seq <= con'[d].last
               PROVE  GivenUp(x) \/ \E k \in DOMAIN delivered'[d] : delivered'[d][k] = x
    BY <1>2, <1>5 DEF Passed
  <2>1. ASSUME x.seq <= con[d].last PROVE GivenUp(x) \/ \E k \in DOMAIN delivered'[d] : delivered'[d][k] = x
    <3>1. GivenUp(x) \/ \E k \in DOMAIN delivered[d] : delivered[d][k] = x
      BY <1>13, <2>1, ArrivalParts DEF Passed
    <3> QED
      BY <1>12, <3>1
  <2>2. CASE ~(x.seq <= con[d].last)
    <3>1. d = c
      BY <1>4, <2>2 DEF OtherCons
    <3>2. x.seq \in Int /\ x \in ClaimRecords
      BY <1>1 DEF TypeOK, HistoryType, ClaimRecords
    <3>3. con'[c].last = cur /\ x.seq = cur
      BY <1>6, <1>10, <1>13, <2>2, <3>1, <3>2
    <3>4. CASE published[Slot(cur)] = cur
      <4>1. g \in claimed /\ g.run = run /\ g.seq = cur
        BY <3>4, StandingSlot DEF Given
      <4>2. x = g
        BY <1>1, <3>3, <4>1 DEF ClaimInv, OneOwnerPerSequence
      <4>3. delivered' = [delivered EXCEPT ![c] = Append(@, g)]
        BY <1>10, <1>13, <3>1, <3>3, <3>4
      <4>4. delivered'[c] = Append(D, g)
        BY <1>11, <4>3
      <4> HIDE DEF g, D
      <4>5. /\ DOMAIN Append(D, g) = 1 .. (Len(D) + 1) /\ Append(D, g)[Len(D) + 1] = g
            /\ Len(D) \in Nat
        BY <1>11, Appended DEF D
      <4>6. Len(D) + 1 \in 1 .. (Len(D) + 1)
        BY <4>5
      <4> QED
        BY <3>1, <4>2, <4>4, <4>5, <4>6
    <3>5. CASE published[Slot(cur)] # cur
      <4>1. con[c].pc = "drain"
        BY <1>10, <1>13, <3>1, <3>3, <3>5, <1>6
      <4>2. con[c].last = con[c].seq /\ \A p \in Publishers : ~Holding(p)
        BY <1>1, <4>1 DEF LowerInv, ProgressInv, CountInv
      <4>3. x \notin accepted
        <5>1. x.seq > con[c].seq
          BY <1>6, <3>3, <4>2
        <5> QED
          BY <1>8, <3>3, <3>5, <5>1 DEF AcceptedAt
      <4> QED
        BY <4>2, <4>3 DEF GivenUp
    <3> QED
      BY <3>4, <3>5
  <2> QED
    BY <2>1, <2>2
<1>14. ASSUME DrainOnStop, NEW d \in Consumers PROVE Emptied(d)'
  <2>1. Emptied(d)
    BY <1>7, <1>14, ArrivalParts
  <2>2. CASE d # c
    BY <1>2, <1>4, <2>1, <2>2 DEF Emptied, OtherCons
  <2>3. CASE d = c
    <3> SUFFICES ASSUME con'[c].pc = "joined", ~con'[c].failed PROVE sealed /\ con'[c].last >= lastClaim
      BY <1>2, <2>3 DEF Emptied
    <3>1. DrainEnd(c)
      <4>1. ~Poll(c)
        BY <1>1, <1>14, PollStep
      <4>2. ~SlotLook(c) /\ ~Deliver(c) /\ ~DrainSlot(c)
        BY <1>1, SlotLookStep, DeliverStep, DrainSlotStep
      <4>3. ~DeliverThrows(c) /\ ~Commit(c) /\ ~DrainBegin(c) /\ ~DrainThrows(c)
        BY <1>1, QuietConsumerStep
      <4> QED
        BY <4>1, <4>2, <4>3 DEF ConAction
    <3>2. con'[c].last = con[c].last
      BY <1>1, <3>1, QuietConsumerStep
    <3>3. con[c].last + 1 > lastClaim /\ con[c].pc = "drain" /\ lastClaim \in Int
      BY <1>1, <3>1 DEF DrainEnd, TypeOK, LineType
    <3>4. sealed
      BY <1>1, <3>3 DEF CountInv
    <3> QED
      BY <1>6, <3>2, <3>3, <3>4
  <2> QED
    BY <2>2, <2>3
<1> QED
  BY <1>3, <1>9, <1>13, <1>14 DEF ArrivalInv, AcceptedAt, StampedAt, Passed, Emptied

LEMMA ControlArrival ==
  ASSUME RingInv, Anchored, ArrivalInv, bus' = bus, ControlAction
  PROVE  ArrivalInv'
<1>1. TypeOK /\ StageInv /\ ClaimInv /\ CountInv /\ LowerInv
  BY DEF RingInv, LowerInv, BaseInv
<1>2. pub' = pub
  BY <1>1, ControlStep DEF ControlAction
<1>3. UNCHANGED <<claimed, accepted, delivered>>
  BY DEF ControlAction, StartFlag, StartOpen, StopFlag, Seal, StopQuiet, Teardown, history
<1>4. /\ Consumers' = Consumers /\ DrainOnStop' = DrainOnStop
      /\ \A s : Slot(s)' = Slot(s)
      /\ \A c : Anchor(c)' = Anchor(c)
  BY BusFrame
<1>5. /\ \A x : GivenUp(x)' = GivenUp(x)
      /\ \A q \in Publishers : Stamped(q)' = Stamped(q)
  BY <1>2, <1>3, GivenUpFrame, StampedFrame
<1>6. ASSUME UNCHANGED <<con, run>>, NEW c \in Consumers, Anchor(c) PROVE Passed(c)'
  BY <1>3, <1>5, <1>6, ArrivalParts DEF Passed
<1>7. ASSUME UNCHANGED <<con, run, published>>, ~Down, NEW c \in Consumers
      PROVE  AcceptedAt(c)' /\ StampedAt(c)'
  BY <1>3, <1>4, <1>5, <1>7, ArrivalParts DEF AcceptedAt, StampedAt
<1>8. CASE StartFlag
  <2>1. UNCHANGED <<con, run>> /\ Down'
    BY <1>8 DEF StartFlag, history, Down
  <2> QED
    BY <1>4, <1>6, <2>1 DEF ArrivalInv, Passed
<1>9. CASE StopFlag \/ StopQuiet
  <2>1. UNCHANGED <<con, run, published, sealed, lastClaim>> /\ ~Down
    BY <1>9 DEF StopFlag, StopQuiet, history, ring, closing, Down
  <2>2. DrainOnStop => \A c \in Consumers : Emptied(c)'
    BY <2>1, ArrivalParts DEF Emptied
  <2> QED
    BY <1>4, <1>6, <1>7, <2>1, <2>2 DEF ArrivalInv, AcceptedAt, StampedAt, Passed, Emptied
<1>10. CASE Seal
  <2>1. UNCHANGED <<con, run, published>> /\ ~Down /\ ~sealed
    BY <1>1, <1>10 DEF Seal, history, ring, Down, StageInv
  <2>2. DrainOnStop => \A c \in Consumers : Emptied(c)'
    BY <2>1, ArrivalParts DEF Emptied
  <2> QED
    BY <1>4, <1>6, <1>7, <2>1, <2>2 DEF ArrivalInv, AcceptedAt, StampedAt, Passed, Emptied
<1>11. CASE StartOpen
  <2>1. run' = run + 1 /\ run \in Nat /\ Down
    BY <1>1, <1>11 DEF StartOpen, TypeOK, LineType, Down
  <2>2. \A x \in claimed : x.run # run'
    <3> SUFFICES ASSUME NEW x \in claimed PROVE x.run # run'
      OBVIOUS
    <3>1. x.run <= run /\ x.run \in Nat
      BY <1>1 DEF ClaimInv, TypeOK, HistoryType, ClaimRecords
    <3> QED
      BY <2>1, <3>1
  <2>3. accepted \subseteq claimed
    BY <1>1 DEF ClaimInv
  <2>4. \A p \in Publishers : Stamped(p) = {}
    BY <1>1, <2>1 DEF CountInv, Stamped, Holding, Entered, Inside
  <2>5. \A c \in Consumers : con'[c].pc = "top"
    BY <1>1, <1>11, ControlStep
  <2> QED
    BY <1>3, <1>4, <1>5, <2>2, <2>3, <2>4, <2>5 DEF ArrivalInv
<1>12. CASE Teardown
  <2>1. Down' /\ run' = run
    BY <1>1, <1>12 DEF Teardown, Down, StageInv, history
  <2>2. \A c \in Consumers : con'[c].last = -1
    BY <1>1, <1>12, ControlStep
  <2>3. ASSUME NEW x \in claimed, x.run = run PROVE ~(x.seq <= -1)
    BY <1>1, <2>3 DEF ClaimInv
  <2> QED
    BY <1>3, <1>4, <2>1, <2>2, <2>3 DEF ArrivalInv
<1> QED
  BY <1>8, <1>9, <1>10, <1>11, <1>12 DEF ControlAction

LEMMA NextArrival ==
  ASSUME RingInv, Anchored, ArrivalInv, [Next]_vars
  PROVE  ArrivalInv'
<1>1. ASSUME UNCHANGED vars PROVE ArrivalInv'
  <2>1. /\ UNCHANGED <<bus, running, control, pub, con, run, claimed, accepted, delivered>>
        /\ UNCHANGED <<published, sealed, lastClaim>>
    BY <1>1 DEF vars, ring, closing, history
  <2>2. /\ \A x : GivenUp(x)' = GivenUp(x)
        /\ \A q \in Publishers : Stamped(q)' = Stamped(q)
    BY <2>1, GivenUpFrame, StampedFrame
  <2>3. /\ Consumers' = Consumers /\ DrainOnStop' = DrainOnStop /\ Down' = Down
        /\ \A s : Slot(s)' = Slot(s)
        /\ \A c : Anchor(c)' = Anchor(c)
    BY <2>1, BusFrame DEF Down
  <2> QED
    BY <2>1, <2>2, <2>3 DEF ArrivalInv
<1> QED
  BY <1>1, StepCases, PublisherArrival, ConsumerArrival, ControlArrival

LEMMA EverythingArrives == ASSUME RingInv, ArrivalInv PROVE AcceptedIsDelivered
<1> SUFFICES ASSUME control = "join", DrainOnStop, NEW c \in Consumers, con[c].pc = "joined",
                    ~con[c].failed, ~(c \in Optional /\ DropBehind), NEW x \in accepted, x.run = run
             PROVE  \E k \in DOMAIN delivered[c] : delivered[c][k] = x
  BY DEF AcceptedIsDelivered
<1>1. TypeOK /\ ClaimInv
  BY DEF RingInv, LowerInv, BaseInv
<1>2. Anchor(c) /\ ~Down
  BY DEF Anchor, Consumers, Down
<1>3. sealed /\ con[c].last >= lastClaim
  BY <1>2, ArrivalParts DEF Emptied
<1>4. x \in claimed /\ x.seq \in 0 .. Last
  BY <1>1 DEF ClaimInv
<1>5. x.seq <= con[c].last
  <2>1. con[c].last \in Int /\ lastClaim \in Int
    BY <1>1, PositionTypes DEF TypeOK, LineType
  <2> QED
    BY <1>3, <1>4, <2>1 DEF Last
<1> QED
  BY <1>2, <1>4, <1>5, ArrivalParts DEF Passed, GivenUp

\* DeliversExactly, of consumerLoop and the drain of stop(): what a consumer is given under a
\* sequence is the event that was published under it, in order, and once a bus that drains is
\* torn down every accepted event of the run has reached every consumer that neither failed
\* nor may drop events.
THEOREM DeliveriesAreExact == ASSUME Anchored PROVE Spec /\ CleanTeardown => []DeliversExactly
<1> DEFINE Inv == RingInv /\ OrderInv /\ ArrivalInv
<1>1. Init => Inv
  <2> SUFFICES ASSUME Init PROVE OrderInv /\ ArrivalInv
    BY InitRing
  <2>1. /\ claimed = {} /\ accepted = {} /\ \A c \in Consumers : delivered[c] = <<>>
        /\ Down
    BY DEF Init, Down
  <2> QED
    BY <2>1 DEF OrderInv, ArrivalInv, DeliversWhatWasClaimed
<1>2. Inv /\ [Next]_vars /\ [CleanStep]_vars => Inv'
  BY NextRing, NextOrder, NextArrival
<1>3. Inv => DeliversExactly
  BY EverythingArrives DEF OrderInv, DeliversExactly
<1> HIDE DEF Inv
<1> QED
  BY <1>1, <1>2, <1>3, PTL DEF Spec, CleanTeardown

\* Where every publisher blocks (publish, publishBatch), stop() waits each of them out before
\* it tears the ring down: a teardown is clean, and the bus is exact without more ado.
THEOREM BlockingBusIsExact ==
  ASSUME Anchored, \A d \in Deployments : d.bounded = {}
  PROVE  Spec => CleanTeardown /\ []SlotsAreOwned /\ []NothingOverwritten /\ []DeliversExactly
<1>1. Init => BaseInv
  BY InitBase
<1>2. BaseInv /\ [Next]_vars => BaseInv'
  BY NextBase
<1>3. BaseInv => CleanStep
  <2> SUFFICES ASSUME BaseInv, Teardown, NEW p \in Publishers PROVE pub[p].pc # "fenceStore"
    BY DEF CleanStep
  <2>1. ~Holding(p) /\ Bounded = {}
    BY DEF BaseInv, CountInv, Teardown, TypeOK, LineType, Bounded
  <2> QED
    BY <2>1 DEF Holding, Inside
<1>4. Spec => CleanTeardown
  BY <1>1, <1>2, <1>3, PTL DEF Spec, CleanTeardown
<1>5. Spec /\ CleanTeardown => []SlotsAreOwned
  BY SlotsHaveOneOwner
<1>6. Spec /\ CleanTeardown => []NothingOverwritten
  BY NothingIsOverwritten
<1>7. Spec /\ CleanTeardown => []DeliversExactly
  BY DeliveriesAreExact
<1> QED
  BY <1>4, <1>5, <1>6, <1>7, PTL
=============================================================================

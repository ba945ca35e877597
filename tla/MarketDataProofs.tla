-------------------------- MODULE MarketDataProofs --------------------------
(***************************************************************************)
(* For every feed, every length of its stream, every capacity and whatever *)
(* the network loses, doubles or reorders: as long as the publisher lives,  *)
(* the book of a subscriber is a prefix of the stream, and a gap that the   *)
(* detector knows of is being recovered.                                   *)
(***************************************************************************)
EXTENDS MarketData, FiniteSetTheorems, FunctionTheorems, WellFoundedInduction,
        SequenceTheorems, TLAPS

-----------------------------------------------------------------------------
(* Numbers *)

\* A set of numbers that is not empty has a least element.
LEMMA LeastOf ==
  ASSUME NEW S \in SUBSET Nat, S # {}
  PROVE  \E x \in S : \A y \in S : x <= y
<1>. DEFINE Below == {ss \in Nat \X Nat : ss[1] < ss[2]}
<1>1. IsWellFoundedOn(Below, Nat)
  BY NatLessThanWellFounded DEF OpToRel
<1>2. PICK x \in S : \A y \in S : <<y, x>> \notin Below
  BY <1>1, WFMin, Zenon
<1>3. ASSUME NEW y \in S PROVE x <= y
  <2>1. <<y, x>> \in Nat \X Nat /\ <<y, x>> \notin Below
    BY <1>2
  <2>2. <<y, x>>[1] = y /\ <<y, x>>[2] = x
    OBVIOUS
  <2>3. ~(y < x)
    BY <2>1, <2>2, Zenon
  <2>. QED
    BY <2>3
<1>. QED
  BY <1>3

\* So has one that is bounded a greatest.
LEMMA GreatestOf ==
  ASSUME NEW S \in SUBSET Nat, S # {}, NEW n \in Nat, \A x \in S : x <= n
  PROVE  \E x \in S : \A y \in S : y <= x
<1>. DEFINE T == {n - x : x \in S}
<1>1. T \in SUBSET Nat /\ T # {}
  <2>1. \A x \in S : n - x \in Nat
    OBVIOUS
  <2>. QED
    BY <2>1
<1>2. PICK t \in T : \A y \in T : t <= y
  BY <1>1, LeastOf
<1>3. PICK x \in S : t = n - x
  OBVIOUS
<1>4. ASSUME NEW y \in S PROVE y <= x
  <2>1. n - y \in T
    OBVIOUS
  <2>2. n - x <= n - y
    BY <1>2, <1>3, <2>1
  <2>. QED
    BY <2>2
<1>. QED
  BY <1>4

-----------------------------------------------------------------------------
(* The detector *)

\* The stream of the first n messages.
Msgs(n) == {Message(1, k) : k \in 1..n}

LEMMA MsgIs ==
  ASSUME NEW n \in Nat, NEW m \in Msgs(n)
  PROVE  m.epoch = 1 /\ m.seq \in 1..n /\ m = Message(1, m.seq)
  BY DEF Msgs, Message

LEMMA MsgsGrow ==
  ASSUME NEW n \in Nat
  PROVE  Msgs(n) \subseteq Msgs(n + 1) /\ Message(1, n + 1) \in Msgs(n + 1)
  BY DEF Msgs

LEMMA MsgsFinite ==
  ASSUME NEW n \in Nat, NEW M \in SUBSET Msgs(n)
  PROVE  IsFiniteSet(M) /\ Cardinality(M) \in Nat
<1>. DEFINE f == [k \in 1..n |-> Message(1, k)]
<1>1. f \in [1..n -> Msgs(n)] /\ \A t \in Msgs(n) : \E k \in 1..n : f[k] = t
  BY DEF Msgs
<1>2. \A a, b \in 1..n : f[a] = f[b] => a = b
  BY DEF Message
<1>3. ExistsBijection(1..n, Msgs(n))
  <2>1. f \in Bijection(1..n, Msgs(n))
    BY <1>1, <1>2, Fun_IsBij
  <2>. QED
    BY <2>1, Fun_ExistsBij, Zenon
<1>4. IsFiniteSet(Msgs(n))
  BY <1>3, FS_Interval, FS_Bijection
<1>. QED
  BY <1>4, FS_Subset, FS_CardinalityType

\* What drainHeld delivers: the numbers from next up to the first that is missing.
LEMMA RunIs ==
  ASSUME NEW n \in Nat, NEW s, s.held \in SUBSET Msgs(n), s.next \in Nat \ {0},
         \A m \in s.held : m.seq >= s.next
  PROVE  /\ Cardinality(Run(s)) \in Nat
         /\ Run(s) = {Message(1, k) : k \in s.next..(s.next + Cardinality(Run(s)) - 1)}
         /\ \A m \in s.held \ Run(s) : m.seq > s.next + Cardinality(Run(s))
<1>. DEFINE Q == Seqs(s.held)
            G == {k \in Nat : k >= s.next /\ k \notin Q}
<1>1. \A m \in s.held : m.seq \in 1..n /\ m = Message(1, m.seq)
  BY MsgIs
<1>2. \A k \in Q : k \in 1..n
  BY <1>1 DEF Seqs
<1>3. s.next + n + 1 \in G
  BY <1>2
<1>4. PICK x \in G : \A y \in G : x <= y
  BY <1>3, LeastOf
<1>5. \A k \in s.next..(x - 1) : k \in Q /\ Message(1, k) \in s.held
  <2>. TAKE k \in s.next..(x - 1)
  <2>1. k \in Nat /\ k \notin G
    BY <1>4
  <2>2. k \in Q
    BY <2>1
  <2>3. PICK m \in s.held : m.seq = k
    BY <2>2 DEF Seqs
  <2>. QED
    BY <2>2, <2>3, <1>1
<1>6. Run(s) = {Message(1, k) : k \in s.next..(x - 1)}
  <2>1. ASSUME NEW m \in Run(s) PROVE m \in {Message(1, k) : k \in s.next..(x - 1)}
    <3>1. m \in s.held /\ m.seq >= s.next /\ \A k \in s.next..m.seq : k \in Q
      BY DEF Run
    <3>2. m.seq \in Nat /\ m = Message(1, m.seq)
      BY <1>1, <3>1
    <3>3. m.seq < x
      <4>. SUFFICES ASSUME m.seq >= x PROVE FALSE
        BY <3>2
      <4>1. x \in s.next..m.seq
        BY <3>2
      <4>. QED
        BY <3>1, <4>1
    <3>. QED
      BY <3>1, <3>2, <3>3
  <2>2. ASSUME NEW k \in s.next..(x - 1) PROVE Message(1, k) \in Run(s)
    <3>1. Message(1, k) \in s.held /\ Message(1, k).seq = k
      BY <1>5 DEF Message
    <3>2. \A j \in s.next..k : j \in Q
      BY <1>5
    <3>. QED
      BY <3>1, <3>2 DEF Run
  <2>. QED
    BY <2>1, <2>2
<1>7. Cardinality(Run(s)) = x - s.next
  <2>. DEFINE f == [k \in s.next..(x - 1) |-> Message(1, k)]
  <2>1. f \in [s.next..(x - 1) -> Run(s)] /\ \A t \in Run(s) : \E k \in s.next..(x - 1) : f[k] = t
    BY <1>6
  <2>2. \A a, b \in s.next..(x - 1) : f[a] = f[b] => a = b
    BY DEF Message
  <2>3. f \in Bijection(s.next..(x - 1), Run(s))
    BY <2>1, <2>2, Fun_IsBij
  <2>4. ExistsBijection(s.next..(x - 1), Run(s))
    BY <2>3, Fun_ExistsBij, Zenon
  <2>5. IsFiniteSet(s.next..(x - 1)) /\ Cardinality(s.next..(x - 1)) = x - s.next
    <3>1. s.next \in Int /\ x - 1 \in Int /\ x >= s.next
      BY <1>4
    <3>2. /\ IsFiniteSet(s.next..(x - 1))
          /\ Cardinality(s.next..(x - 1)) = IF s.next > x - 1 THEN 0 ELSE (x - 1) - s.next + 1
      BY <3>1, FS_Interval
    <3>. QED
      BY <3>1, <3>2
  <2>. QED
    BY <2>4, <2>5, FS_Bijection
<1>8. ASSUME NEW m \in s.held \ Run(s) PROVE m.seq > x
  <2>1. m.seq \in Nat /\ m.seq >= s.next /\ m = Message(1, m.seq) /\ m.seq \in Q
    BY <1>1 DEF Seqs
  <2>2. m.seq # x
    BY <2>1
  <2>3. ~(m.seq < x)
    BY <2>1, <1>6
  <2>. QED
    BY <2>1, <2>2, <2>3
<1>9. x \in Nat /\ x >= s.next
  BY <1>4
<1>10. Cardinality(Run(s)) \in Nat /\ s.next + Cardinality(Run(s)) = x
  BY <1>7, <1>9
<1>11. s.next + Cardinality(Run(s)) - 1 = x - 1
  BY <1>7, <1>9
<1>. QED
  BY <1>6, <1>8, <1>10, <1>11

LEMMA DrainedIs ==
  ASSUME NEW n \in Nat, NEW s, s.held \in SUBSET Msgs(n), s.next \in Nat \ {0},
         \A m \in s.held : m.seq >= s.next
  PROVE  /\ Drained(s) \in Seq(Msgs(n)) /\ Len(Drained(s)) = Cardinality(Run(s))
         /\ \A i \in 1..Len(Drained(s)) : Drained(s)[i].seq = s.next + i - 1
<1>. DEFINE c == Cardinality(Run(s))
<1>1. c \in Nat /\ Run(s) = {Message(1, k) : k \in s.next..(s.next + c - 1)}
  BY RunIs
<1>2. Run(s) \subseteq Msgs(n)
  BY DEF Run
<1>3. ASSUME NEW i \in 1..c
      PROVE  /\ (CHOOSE m \in Run(s) : m.seq = s.next + i - 1) \in Run(s)
             /\ (CHOOSE m \in Run(s) : m.seq = s.next + i - 1).seq = s.next + i - 1
  <2>1. Message(1, s.next + i - 1) \in Run(s) /\ Message(1, s.next + i - 1).seq = s.next + i - 1
    BY <1>1 DEF Message
  <2>. QED
    BY <2>1
<1>4. Drained(s) = [i \in 1..c |-> CHOOSE m \in Run(s) : m.seq = s.next + i - 1]
  BY DEF Drained
<1>5. Drained(s) \in [1..c -> Msgs(n)]
  BY <1>2, <1>3, <1>4
<1>6. Drained(s) \in Seq(Msgs(n)) /\ Len(Drained(s)) = c
  BY <1>1, <1>5, IsASeq, LenProperties
<1>. QED
  BY <1>3, <1>4, <1>6

\* Messages can be put in the order of their numbers.
LEMMA BySeqIs ==
  ASSUME NEW n \in Nat, NEW M \in SUBSET Msgs(n)
  PROVE  /\ BySeq(M) \in [1..Cardinality(M) -> M] /\ Cardinality(M) \in Nat
         /\ \A i, j \in 1..Cardinality(M) : i < j => BySeq(M)[i].seq < BySeq(M)[j].seq
<1>. DEFINE Sorts(q, S) == /\ q \in [1..Cardinality(S) -> S]
                           /\ \A i, j \in 1..Cardinality(S) : i < j => q[i].seq < q[j].seq
            Bad == {k \in Nat : ~ \A S \in SUBSET Msgs(k) : \E q : Sorts(q, S)}
<1>1. Bad = {}
  <2>. SUFFICES ASSUME Bad # {} PROVE FALSE
    OBVIOUS
  <2>1. PICK k \in Bad : \A y \in Bad : k <= y
    <3>1. Bad \in SUBSET Nat
      OBVIOUS
    <3>. QED
      BY <3>1, LeastOf
  <2>2. PICK S \in SUBSET Msgs(k) : ~ \E q : Sorts(q, S)
    BY <2>1
  <2>3. S # {}
    <3>. SUFFICES ASSUME S = {} PROVE FALSE
      OBVIOUS
    <3>1. Cardinality(S) = 0
      BY FS_EmptySet
    <3>2. Sorts([i \in 1..0 |-> i], S)
      BY <3>1
    <3>. QED
      BY <3>2, <2>2
  <2>4. k >= 1
    <3>1. k = 0 => Msgs(k) = {}
      BY DEF Msgs
    <3>. QED
      BY <3>1, <2>3
  <2>5. \A R \in SUBSET Msgs(k - 1) : \E q : Sorts(q, R)
    <3>1. k - 1 \in Nat /\ k - 1 \notin Bad
      BY <2>1, <2>4
    <3>. QED
      BY <3>1
  <2>. DEFINE x == Message(1, k)
              R == S \ {x}
  <2>6. R \in SUBSET Msgs(k - 1)
    <3>1. ASSUME NEW m \in R PROVE m \in Msgs(k - 1)
      <4>1. m \in Msgs(k) /\ m # x
        OBVIOUS
      <4>2. m.seq \in 1..k /\ m = Message(1, m.seq)
        BY <4>1, <2>1, MsgIs
      <4>3. m.seq \in 1..(k - 1)
        BY <4>1, <4>2, <2>4
      <4>. QED
        BY <4>2, <4>3 DEF Msgs
    <3>. QED
      BY <3>1
  <2>7. PICK q : Sorts(q, R)
    BY <2>5, <2>6
  <2>8. x \in S
    <3>. SUFFICES ASSUME x \notin S PROVE FALSE
      OBVIOUS
    <3>1. R = S
      OBVIOUS
    <3>. QED
      BY <3>1, <2>2, <2>7
  <2>9. Cardinality(R) \in Nat /\ Cardinality(S) = Cardinality(R) + 1
    <3>1. IsFiniteSet(S) /\ Cardinality(S) \in Nat /\ Cardinality(R) \in Nat
      BY <2>1, <2>2, MsgsFinite
    <3>2. Cardinality(R) = Cardinality(S) - 1
      <4>. HIDE DEF x
      <4>. QED
        BY <3>1, <2>8, FS_RemoveElement
    <3>. QED
      BY <3>1, <3>2
  <2>. DEFINE p == [i \in 1..Cardinality(S) |-> IF i <= Cardinality(R) THEN q[i] ELSE x]
  <2>10. \A i \in 1..Cardinality(R) : q[i] \in R /\ q[i].seq \in Nat /\ q[i].seq < k
    <3>. TAKE i \in 1..Cardinality(R)
    <3>1. q[i] \in R
      BY <2>7
    <3>2. q[i] \in Msgs(k - 1) /\ k - 1 \in Nat
      BY <3>1, <2>6, <2>4
    <3>. QED
      BY <3>1, <3>2, MsgIs
  <2>11. p \in [1..Cardinality(S) -> S]
    <3>1. \A i \in 1..Cardinality(S) : i <= Cardinality(R) => i \in 1..Cardinality(R)
      BY <2>9
    <3>2. \A i \in 1..Cardinality(S) : (IF i <= Cardinality(R) THEN q[i] ELSE x) \in S
      BY <2>8, <2>10, <3>1
    <3>. QED
      BY <3>2
  <2>12. \A i, j \in 1..Cardinality(S) : i < j => p[i].seq < p[j].seq
    <3>. TAKE i, j \in 1..Cardinality(S)
    <3>. HAVE i < j
    <3>1. i \in 1..Cardinality(R) /\ p[i] = q[i] /\ x.seq = k
      BY <2>9 DEF Message
    <3>2. CASE j \in 1..Cardinality(R)
      <4>1. p[j] = q[j]
        BY <3>2
      <4>. QED
        BY <3>1, <3>2, <4>1, <2>7
    <3>3. CASE j \notin 1..Cardinality(R)
      <4>1. p[j] = x
        BY <3>3, <2>9
      <4>. QED
        BY <3>1, <4>1, <2>10
    <3>. QED
      BY <3>2, <3>3
  <2>. QED
    BY <2>2, <2>11, <2>12
<1>2. PICK q : Sorts(q, M)
  <2>1. n \notin Bad
    BY <1>1
  <2>. QED
    BY <2>1
<1>. DEFINE Increasing(r) == \A i, j \in DOMAIN r : i < j => r[i].seq < r[j].seq
<1>3. q \in [1..Cardinality(M) -> M] /\ Increasing(q)
  BY <1>2
<1>4. BySeq(M) = CHOOSE r \in [1..Cardinality(M) -> M] : Increasing(r)
  BY Zenon DEF BySeq
<1>5. BySeq(M) \in [1..Cardinality(M) -> M] /\ Increasing(BySeq(M))
  BY <1>3, <1>4, Zenon
<1>6. DOMAIN BySeq(M) = 1..Cardinality(M)
  BY <1>5
<1>. QED
  BY <1>5, <1>6, MsgsFinite

\* A detector that has heard of the first n messages only.
Streams(n) == [epoch : {0, 1}, next : Nat \ {0}, held : SUBSET Msgs(n), open : BOOLEAN, since : Nat]
Ahead(s) == \A h \in s.held : h.seq > s.next
StreamOK(s, n) == s \in Streams(n) /\ Ahead(s) /\ (s.open <=> s.held # {})

\* What handing it message m comes to: what it delivers continues what it delivered before,
\* without a hole unless it gives up, and a gap that opens is reported.
Outcomes(n) == [s : Streams(n), out : Seq(Msgs(n)), gap : Nat, abandoned : BOOLEAN]
Delivers(s, r) ==
  /\ r.s.next >= s.next
  /\ \A i \in 1..Len(r.out) : s.next <= r.out[i].seq /\ r.out[i].seq < r.s.next
  /\ \A i, j \in 1..Len(r.out) : i < j => r.out[i].seq < r.out[j].seq
  /\ ~r.abandoned => /\ r.s.next = s.next + Len(r.out)
                     /\ \A i \in 1..Len(r.out) : r.out[i].seq = s.next + i - 1
Reports(s, r) == r.gap <= r.s.next /\ (r.s.held # {} /\ s.held = {} => r.gap # 0)
Placed(s, m, n, r) ==
  /\ r \in Outcomes(n) /\ Ahead(r.s)
  /\ m.seq <= s.next => r.s.next > m.seq
  /\ Delivers(s, r) /\ Reports(s, r)

LEMMA PlacedInOrder ==
  ASSUME NEW n \in Nat, NEW s \in Streams(n), Ahead(s), NEW m \in Msgs(n), m.seq = s.next
  PROVE  Placed(s, m, n, InOrder(s, m))
<1>. DEFINE t == [s EXCEPT !.next = @ + 1]
            r == InOrder(s, m)
            c == Cardinality(Run(t))
<1>1. /\ s.next \in Nat \ {0} /\ s.held \in SUBSET Msgs(n) /\ m.seq \in 1..n
      /\ \A h \in s.held : h.seq \in 1..n
  BY MsgIs DEF Streams
<1>2. t \in Streams(n) /\ t.held = s.held /\ t.next = s.next + 1
  BY <1>1 DEF Streams
<1>8. r = [s |-> Drain(t), out |-> <<m>> \o Drained(t), gap |-> 0, abandoned |-> FALSE]
  BY DEF InOrder
<1>. HIDE DEF t
<1>3. t.held \in SUBSET Msgs(n) /\ t.next \in Nat \ {0} /\ \A h \in t.held : h.seq >= t.next
  BY <1>1, <1>2 DEF Ahead
<1>4. c \in Nat /\ \A h \in t.held \ Run(t) : h.seq > t.next + c
  BY <1>3, RunIs
<1>5. /\ Drained(t) \in Seq(Msgs(n)) /\ Len(Drained(t)) = c
      /\ \A i \in 1..c : Drained(t)[i].seq = s.next + i
  <2>1. /\ Drained(t) \in Seq(Msgs(n)) /\ Len(Drained(t)) = c
        /\ \A i \in 1..Len(Drained(t)) : Drained(t)[i].seq = t.next + i - 1
    BY <1>3, DrainedIs
  <2>. QED
    BY <1>1, <1>2, <2>1
<1>6. Drain(t) = [t EXCEPT !.next = @ + c, !.held = @ \ Run(t)]
  BY DEF Drain
<1>7. /\ Drain(t) \in Streams(n) /\ Drain(t).next = s.next + 1 + c
      /\ Drain(t).held = s.held \ Run(t)
  <2>. DEFINE a == t.next + c
              rest == t.held \ Run(t)
  <2>1. a \in Nat \ {0} /\ rest \in SUBSET Msgs(n) /\ a = s.next + 1 + c
    BY <1>1, <1>2, <1>3, <1>4
  <2>2. Drain(t) = [t EXCEPT !.next = a, !.held = rest]
    BY <1>6
  <2>. HIDE DEF a, rest, c
  <2>3. Drain(t) \in Streams(n) /\ Drain(t).next = a /\ Drain(t).held = rest
    BY <1>2, <2>1, <2>2 DEF Streams
  <2>. QED
    BY <1>2, <2>1, <2>3 DEF rest
<1>. DEFINE out == <<m>> \o Drained(t)
<1>9. out \in Seq(Msgs(n)) /\ Len(out) = c + 1
  BY <1>4, <1>5
<1>10. \A i \in 1..(c + 1) : out[i].seq = s.next + i - 1
  <2>. TAKE i \in 1..(c + 1)
  <2>1. CASE i = 1
    <3>1. out[1] = m
      BY <1>4, <1>5
    <3>. QED
      BY <1>1, <2>1, <3>1
  <2>2. CASE i # 1
    <3>1. i - 1 \in 1..c /\ out[i] = Drained(t)[i - 1]
      BY <1>4, <1>5, <2>2
    <3>. QED
      BY <1>1, <1>5, <3>1
  <2>. QED
    BY <2>1, <2>2
<1>. HIDE DEF t, r, c, out
<1>11. r \in Outcomes(n) /\ r.s = Drain(t) /\ r.out = out /\ r.gap = 0 /\ r.abandoned = FALSE
  BY <1>7, <1>8, <1>9 DEF Outcomes, out
<1>12. Ahead(r.s)
  BY <1>1, <1>2, <1>4, <1>7, <1>11 DEF Ahead
<1>13. Delivers(s, r)
  <2>1. /\ s.next \in Nat /\ c \in Nat /\ r.s.next = s.next + 1 + c /\ Len(r.out) = c + 1
        /\ \A i \in 1..(c + 1) : r.out[i].seq = s.next + i - 1
    BY <1>1, <1>4, <1>7, <1>9, <1>10, <1>11
  <2>2. \A i \in 1..(c + 1) : s.next <= r.out[i].seq /\ r.out[i].seq < r.s.next
    BY <2>1
  <2>3. \A i, j \in 1..(c + 1) : i < j => r.out[i].seq < r.out[j].seq
    BY <2>1
  <2>4. /\ \A i \in 1..Len(r.out) : s.next <= r.out[i].seq /\ r.out[i].seq < r.s.next
        /\ \A i, j \in 1..Len(r.out) : i < j => r.out[i].seq < r.out[j].seq
        /\ \A i \in 1..Len(r.out) : r.out[i].seq = s.next + i - 1
    BY <2>1, <2>2, <2>3, Zenon
  <2>5. r.s.next >= s.next /\ r.s.next = s.next + Len(r.out)
    BY <2>1, SMTT(40)
  <2>. QED
    BY <2>4, <2>5, Zenon DEF Delivers
<1>14. Reports(s, r) /\ r.s.next > m.seq
  BY <1>1, <1>4, <1>7, <1>11 DEF Reports
<1>. QED
  BY <1>11, <1>12, <1>13, <1>14 DEF Placed, r

LEMMA PlacedAhead ==
  ASSUME NEW n \in Nat, NEW s, StreamOK(s, n), NEW m \in Msgs(n), m.seq > s.next,
         NEW maxHeld \in Nat
  PROVE  Placed(s, m, n, Hold(s, m, maxHeld))
<1>. DEFINE dup == m.seq \in Seqs(s.held)
            fresh == ~dup /\ ~s.open
            held == IF dup THEN s.held ELSE s.held \cup {m}
            t == [s EXCEPT !.held = held, !.since = IF fresh THEN 0 ELSE @]
            r == Hold(s, m, maxHeld)
            g == IF fresh THEN s.next ELSE 0
<1>1. /\ s \in Streams(n) /\ s.next \in Nat \ {0} /\ s.held \in SUBSET Msgs(n) /\ m.seq \in 1..n
      /\ s.since \in Nat /\ s.open \in BOOLEAN
  BY MsgIs DEF StreamOK, Streams
<1>2. held \in SUBSET Msgs(n) /\ \A h \in held : h.seq \in 1..n /\ h.seq > s.next
  BY <1>1, MsgIs DEF StreamOK, Ahead
<1>3. held # {}
  BY DEF Seqs
<1>4. t \in Streams(n) /\ t.held = held /\ t.next = s.next
  BY <1>1, <1>2 DEF Streams
<1>5. s.held = {} => fresh
  BY DEF Seqs, StreamOK
<1>6. g \in Nat /\ g <= s.next /\ (s.held = {} => g # 0)
  BY <1>1, <1>5
<1>7. r = IF Cardinality(held) <= maxHeld
            THEN [s |-> t, out |-> <<>>, gap |-> g, abandoned |-> FALSE]
            ELSE [s |-> Abandon(t), out |-> BySeq(held), gap |-> g, abandoned |-> TRUE]
  BY DEF Hold
<1>. HIDE DEF dup, fresh, held, t, r, g
<1>8. CASE Cardinality(held) <= maxHeld
  <2>1. r = [s |-> t, out |-> <<>>, gap |-> g, abandoned |-> FALSE]
    BY <1>7, <1>8
  <2>2. r \in Outcomes(n) /\ r.s = t /\ r.out = <<>> /\ r.gap = g /\ r.abandoned = FALSE
    BY <1>4, <1>6, <2>1 DEF Outcomes
  <2>3. Ahead(r.s) /\ Delivers(s, r) /\ Reports(s, r)
    BY <1>1, <1>2, <1>4, <1>6, <2>2 DEF Ahead, Delivers, Reports
  <2>. QED
    BY <1>1, <2>2, <2>3 DEF Placed, r
<1>9. CASE ~(Cardinality(held) <= maxHeld)
  <2>. DEFINE x == CHOOSE k \in Seqs(held) : \A j \in Seqs(held) : j <= k
              out == BySeq(held)
  <2>1. x \in Seqs(held) /\ \A j \in Seqs(held) : j <= x
    <3>1. Seqs(held) \in SUBSET Nat /\ Seqs(held) # {} /\ \A j \in Seqs(held) : j <= n
      BY <1>2, <1>3 DEF Seqs
    <3>2. \E k \in Seqs(held) : \A j \in Seqs(held) : j <= k
      BY <3>1, GreatestOf
    <3>. QED
      BY <3>2
  <2>3. Abandon(t) = [t EXCEPT !.held = {}, !.next = 1 + x]
    BY <1>4 DEF Abandon
  <2>. HIDE DEF x
  <2>2. x \in Nat /\ x > s.next /\ \A h \in held : h.seq <= x
    <3>1. PICK h \in held : h.seq = x
      BY <2>1 DEF Seqs
    <3>2. x \in Nat /\ x > s.next
      BY <1>1, <1>2, <3>1
    <3>. QED
      BY <2>1, <3>2 DEF Seqs
  <2>4. Abandon(t) \in Streams(n) /\ Abandon(t).held = {} /\ Abandon(t).next = 1 + x
    <3>. DEFINE a == 1 + x
    <3>1. a \in Nat \ {0} /\ {} \in SUBSET Msgs(n)
      BY <2>2
    <3>2. Abandon(t) = [t EXCEPT !.held = {}, !.next = a]
      BY <2>3
    <3>. HIDE DEF a
    <3>3. Abandon(t) \in Streams(n) /\ Abandon(t).held = {} /\ Abandon(t).next = a
      BY <1>4, <3>1, <3>2 DEF Streams
    <3>. QED
      BY <3>3 DEF a
  <2>5. /\ out \in [1..Cardinality(held) -> held] /\ Cardinality(held) \in Nat
        /\ \A i, j \in 1..Cardinality(held) : i < j => out[i].seq < out[j].seq
    BY <1>2, BySeqIs
  <2>6. out \in Seq(Msgs(n)) /\ Len(out) = Cardinality(held)
    <3>1. out \in [1..Cardinality(held) -> Msgs(n)]
      BY <1>2, <2>5
    <3>. QED
      BY <2>5, <3>1
  <2>7. r = [s |-> Abandon(t), out |-> out, gap |-> g, abandoned |-> TRUE]
    BY <1>7, <1>9
  <2>. HIDE DEF out
  <2>8. r \in Outcomes(n) /\ r.s = Abandon(t) /\ r.out = out /\ r.gap = g /\ r.abandoned = TRUE
    BY <1>6, <2>4, <2>6, <2>7 DEF Outcomes
  <2>9. \A i \in 1..Len(out) : s.next <= out[i].seq /\ out[i].seq < 1 + x
    <3>. TAKE i \in 1..Len(out)
    <3>1. out[i] \in held
      BY <2>5, <2>6
    <3>2. out[i].seq \in Nat /\ out[i].seq > s.next /\ out[i].seq <= x
      BY <1>2, <2>2, <3>1
    <3>. QED
      BY <1>1, <2>2, <3>2
  <2>10. Delivers(s, r)
    BY <1>1, <2>2, <2>4, <2>5, <2>6, <2>8, <2>9 DEF Delivers
  <2>11. Ahead(r.s) /\ Reports(s, r)
    BY <1>1, <1>6, <2>2, <2>4, <2>8 DEF Ahead, Reports
  <2>. QED
    BY <1>1, <2>8, <2>10, <2>11 DEF Placed, r
<1>. QED
  BY <1>8, <1>9

LEMMA PlacedIs ==
  ASSUME NEW n \in Nat, NEW s, StreamOK(s, n), NEW m \in Msgs(n), NEW maxHeld \in Nat
  PROVE  Placed(s, m, n, Place(s, m, maxHeld))
<1>1. s \in Streams(n) /\ Ahead(s) /\ s.next \in Nat \ {0} /\ m.seq \in 1..n
  BY MsgIs DEF StreamOK, Streams
<1>2. CASE m.seq = s.next
  <2>1. Place(s, m, maxHeld) = InOrder(s, m)
    BY <1>1, <1>2 DEF Place
  <2>. QED
    BY <1>1, <1>2, <2>1, PlacedInOrder
<1>3. CASE m.seq > s.next
  <2>1. Place(s, m, maxHeld) = Hold(s, m, maxHeld)
    BY <1>1, <1>3 DEF Place
  <2>. QED
    BY <1>3, <2>1, PlacedAhead
<1>4. CASE m.seq < s.next
  <2>. DEFINE r == [s |-> s, out |-> <<>>, gap |-> 0, abandoned |-> FALSE]
  <2>1. Place(s, m, maxHeld) = r
    BY <1>1, <1>4 DEF Place
  <2>2. r \in Outcomes(n)
    BY <1>1 DEF Outcomes
  <2>3. Ahead(r.s) /\ Delivers(s, r) /\ Reports(s, r)
    BY <1>1 DEF Delivers, Reports
  <2>. QED
    BY <1>4, <2>1, <2>2, <2>3 DEF Placed
<1>. QED
  BY <1>1, <1>2, <1>3, <1>4

LEMMA ObserveIs ==
  ASSUME NEW n \in Nat, NEW s, StreamOK(s, n), NEW m \in Msgs(n), NEW maxHeld \in Nat,
         NEW reraise \in Nat \ {0}
  PROVE  LET r == Observe(s, m, maxHeld, reraise)
         IN  Placed(s, m, n, r) /\ StreamOK(r.s, n)
<1>. DEFINE u == [s EXCEPT !.epoch = m.epoch]
            p == Place(u, m, maxHeld)
            open == p.s.held # {}
            counted == open /\ p.gap = 0
            again == counted /\ p.s.since + 1 >= reraise
            z == [p.s EXCEPT !.open = open, !.since = IF again THEN 0 ELSE IF counted THEN @ + 1 ELSE @]
            g == IF again THEN p.s.next ELSE p.gap
            r == Observe(s, m, maxHeld, reraise)
<1>1. s \in Streams(n) /\ s.epoch \in {0, 1} /\ m.epoch = 1
  BY MsgIs DEF StreamOK, Streams
<1>2. InEpoch(s, m) = u
  BY <1>1 DEF InEpoch, Restarted
<1>3. u \in Streams(n) /\ u.next = s.next /\ u.held = s.held /\ u.open = s.open
  BY <1>1 DEF Streams
<1>4. StreamOK(u, n)
  BY <1>3 DEF StreamOK, Ahead
<1>5. Placed(u, m, n, p)
  BY <1>4, PlacedIs
<1>6. r = [p EXCEPT !.s = z, !.gap = g]
  BY <1>2 DEF Observe
<1>. HIDE DEF u, p, r
<1>7. /\ p \in Outcomes(n) /\ p.s \in Streams(n) /\ p.s.next \in Nat \ {0} /\ p.s.since \in Nat
      /\ p.gap \in Nat /\ Ahead(p.s)
  BY <1>5 DEF Placed, Outcomes, Streams
<1>8. /\ z \in Streams(n) /\ z.next = p.s.next /\ z.held = p.s.held
      /\ z.open = (p.s.held # {})
  <2>. DEFINE k == IF again THEN 0 ELSE IF counted THEN p.s.since + 1 ELSE p.s.since
  <2>1. open \in BOOLEAN /\ k \in Nat
    BY <1>7
  <2>2. z = [p.s EXCEPT !.open = open, !.since = k]
    OBVIOUS
  <2>. HIDE DEF open, k, z
  <2>3. z \in Streams(n) /\ z.next = p.s.next /\ z.held = p.s.held /\ z.open = open
    BY <1>7, <2>1, <2>2 DEF Streams
  <2>. QED
    BY <2>3, Zenon DEF open
<1>9. g \in Nat /\ g <= p.s.next /\ (p.gap # 0 => g # 0)
  BY <1>5, <1>7 DEF Placed, Reports
<1>. HIDE DEF z, g
<1>10. /\ r \in Outcomes(n) /\ r.s = z /\ r.out = p.out /\ r.gap = g /\ r.abandoned = p.abandoned
  BY <1>6, <1>7, <1>8, <1>9 DEF Outcomes
<1>11. StreamOK(r.s, n)
  BY <1>7, <1>8, <1>10 DEF StreamOK, Ahead
<1>12. Delivers(s, r)
  BY <1>3, <1>5, <1>8, <1>10 DEF Placed, Delivers
<1>13. Reports(s, r) /\ (m.seq <= s.next => r.s.next > m.seq)
  BY <1>3, <1>5, <1>8, <1>9, <1>10 DEF Placed, Reports
<1>14. Placed(s, m, n, r)
  BY <1>10, <1>11, <1>12, <1>13 DEF Placed, StreamOK
<1>. QED
  BY <1>11, <1>14 DEF r

-----------------------------------------------------------------------------
(* What is ready, behind the book and in front of the detector *)

\* Unless a snapshot overtook what was ready, every message to come is later than the last;
\* unless a gap was given up, each is at most one behind all that came before it.
Later(v, rd, s) ==
  /\ \A i, j \in 1..Len(rd) : i < j => rd[i].seq < rd[j].seq
  /\ \A i \in 1..Len(rd) : v.seq < rd[i].seq /\ rd[i].seq < s.next
  /\ v.seq < s.next
Whole(v, rd, s) ==
  /\ \A i \in 1..Len(rd) : v.seq + 1 >= rd[i].seq \/ \E j \in 1..(i - 1) : rd[j].seq + 1 >= rd[i].seq
  /\ v.seq + 1 >= s.next \/ \E j \in 1..Len(rd) : rd[j].seq + 1 >= s.next
Chain(v, rd, s, ov, ab) == (~ov => Later(v, rd, s)) /\ (~ab => Whole(v, rd, s))

\* The detector delivers where it stopped.
LEMMA ChainGoesOn ==
  ASSUME NEW n \in Nat, NEW v, v.seq \in Nat, NEW rd \in Seq(Msgs(n)), NEW s \in Streams(n),
         NEW r \in Outcomes(n), Delivers(s, r), NEW ov \in BOOLEAN, NEW ab \in BOOLEAN,
         Chain(v, rd, s, ov, ab)
  PROVE  /\ rd \o r.out \in Seq(Msgs(n))
         /\ Chain(v, rd \o r.out, r.s, ov, ab \/ r.abandoned)
<1>. DEFINE o == r.out
            q == rd \o o
            a == Len(rd)
            b == Len(o)
<1>1. /\ o \in Seq(Msgs(n)) /\ r.s \in Streams(n) /\ r.abandoned \in BOOLEAN
      /\ s.next \in Nat \ {0} /\ r.s.next \in Nat \ {0}
  BY DEF Outcomes, Streams
<1>2. a \in Nat /\ b \in Nat /\ q \in Seq(Msgs(n)) /\ Len(q) = a + b
  BY <1>1
<1>3. \A i \in 1..a : q[i] = rd[i] /\ rd[i].seq \in Nat
  <2>. TAKE i \in 1..a
  <2>1. q[i] = rd[i] /\ rd[i] \in Msgs(n)
    BY <1>1, <1>2
  <2>. QED
    BY <2>1, MsgIs
<1>4. \A i \in (a + 1)..(a + b) : i - a \in 1..b /\ q[i] = o[i - a] /\ o[i - a].seq \in Nat
  <2>. TAKE i \in (a + 1)..(a + b)
  <2>1. i - a \in 1..b
    BY <1>2
  <2>2. q[i] = o[i - a] /\ o[i - a] \in Msgs(n)
    BY <1>1, <1>2, <2>1
  <2>. QED
    BY <2>1, <2>2, MsgIs
<1>5. /\ r.s.next >= s.next
      /\ \A i \in 1..b : s.next <= o[i].seq /\ o[i].seq < r.s.next
      /\ \A i, j \in 1..b : i < j => o[i].seq < o[j].seq
      /\ ~r.abandoned => /\ r.s.next = s.next + b
                         /\ \A i \in 1..b : o[i].seq = s.next + i - 1
  BY DEF Delivers
<1>. HIDE DEF o, q, a, b
<1>6. ASSUME Later(v, rd, s) PROVE Later(v, q, r.s)
  <2>1. /\ \A i, j \in 1..a : i < j => rd[i].seq < rd[j].seq
        /\ \A i \in 1..a : v.seq < rd[i].seq /\ rd[i].seq < s.next
        /\ v.seq < s.next
    BY <1>6 DEF Later, a
  <2>2. \A i \in 1..(a + b) : /\ q[i].seq \in Nat
                              /\ v.seq < q[i].seq /\ q[i].seq < r.s.next
                              /\ i \in 1..a => q[i].seq < s.next
                              /\ i \notin 1..a => q[i].seq >= s.next
    <3>. TAKE i \in 1..(a + b)
    <3>1. CASE i \in 1..a
      BY <1>1, <1>3, <1>5, <2>1, <3>1
    <3>2. CASE i \notin 1..a
      <4>1. i \in (a + 1)..(a + b)
        BY <1>2, <3>2
      <4>. QED
        BY <1>1, <1>4, <1>5, <2>1, <3>2, <4>1
    <3>. QED
      BY <3>1, <3>2
  <2>3. \A i, j \in 1..(a + b) : i < j => q[i].seq < q[j].seq
    <3>. TAKE i, j \in 1..(a + b)
    <3>. HAVE i < j
    <3>1. CASE j \in 1..a
      <4>1. i \in 1..a
        BY <1>2, <3>1
      <4>. QED
        BY <1>3, <2>1, <3>1, <4>1
    <3>2. CASE i \in 1..a /\ j \notin 1..a
      BY <1>1, <2>2, <3>2
    <3>3. CASE i \notin 1..a /\ j \notin 1..a
      <4>1. i \in (a + 1)..(a + b) /\ j \in (a + 1)..(a + b) /\ i - a < j - a
        BY <1>2, <3>3
      <4>. QED
        BY <1>4, <1>5, <4>1
    <3>. QED
      BY <1>2, <3>1, <3>2, <3>3
  <2>. QED
    BY <1>1, <1>2, <1>5, <2>1, <2>2, <2>3 DEF Later
<1>7. ASSUME Whole(v, rd, s), ~r.abandoned PROVE Whole(v, q, r.s)
  <2>1. /\ \A i \in 1..a : v.seq + 1 >= rd[i].seq \/ \E j \in 1..(i - 1) : rd[j].seq + 1 >= rd[i].seq
        /\ v.seq + 1 >= s.next \/ \E j \in 1..a : rd[j].seq + 1 >= s.next
    BY <1>7 DEF Whole, a
  <2>2. r.s.next = s.next + b /\ \A i \in 1..b : o[i].seq = s.next + i - 1
    BY <1>5, <1>7
  <2>3. ASSUME NEW i \in 1..a
        PROVE  v.seq + 1 >= q[i].seq \/ \E j \in 1..(i - 1) : q[j].seq + 1 >= q[i].seq
    <3>1. CASE v.seq + 1 >= rd[i].seq
      BY <1>3, <3>1
    <3>2. CASE ~(v.seq + 1 >= rd[i].seq)
      <4>1. PICK j \in 1..(i - 1) : rd[j].seq + 1 >= rd[i].seq
        BY <2>1, <3>2
      <4>2. j \in 1..a
        BY <1>2
      <4>. QED
        BY <1>3, <4>1, <4>2
    <3>. QED
      BY <3>1, <3>2
  <2>4. v.seq + 1 >= s.next \/ \E j \in 1..a : q[j].seq + 1 >= s.next
    BY <1>3, <2>1
  <2>5. ASSUME NEW i \in (a + 1)..(a + b)
        PROVE  v.seq + 1 >= q[i].seq \/ \E j \in 1..(i - 1) : q[j].seq + 1 >= q[i].seq
    <3>1. i - a \in 1..b /\ q[i].seq = s.next + (i - a) - 1
      BY <1>4, <2>2
    <3>2. CASE i = a + 1
      <4>1. q[i].seq = s.next
        BY <1>1, <1>2, <3>1, <3>2
      <4>2. i - 1 = a
        BY <1>2, <3>2
      <4>. QED
        BY <2>4, <4>1, <4>2
    <3>3. CASE i # a + 1
      <4>1. i - 1 \in (a + 1)..(a + b) /\ (i - 1) - a \in 1..b /\ i - 1 \in 1..(i - 1)
        BY <1>2, <3>3
      <4>2. q[i - 1].seq = s.next + ((i - 1) - a) - 1
        BY <1>4, <2>2, <4>1
      <4>3. q[i - 1].seq + 1 >= q[i].seq
        <5>1. s.next \in Nat /\ a \in Nat /\ i \in Nat
          BY <1>1, <1>2
        <5>2. q[i].seq = s.next + i - a - 1 /\ q[i - 1].seq = s.next + i - a - 2
          BY <3>1, <4>2, <5>1
        <5>. QED
          BY <5>1, <5>2
      <4>. QED
        BY <4>1, <4>3
    <3>. QED
      BY <3>2, <3>3
  <2>6. v.seq + 1 >= r.s.next \/ \E j \in 1..(a + b) : q[j].seq + 1 >= r.s.next
    <3>1. CASE b = 0
      <4>1. r.s.next = s.next /\ a + b = a
        BY <1>1, <1>2, <2>2, <3>1
      <4>. QED
        BY <2>4, <4>1
    <3>2. CASE b # 0
      <4>1. a + b \in (a + 1)..(a + b) /\ (a + b) - a = b /\ b \in 1..b /\ a + b \in 1..(a + b)
        BY <1>2, <3>2
      <4>2. q[a + b].seq = s.next + b - 1
        BY <1>4, <2>2, <4>1
      <4>3. q[a + b].seq + 1 >= r.s.next
        BY <1>1, <1>2, <2>2, <4>2
      <4>. QED
        BY <4>1, <4>3
    <3>. QED
      BY <3>1, <3>2
  <2>7. \A i \in 1..(a + b) : v.seq + 1 >= q[i].seq \/ \E j \in 1..(i - 1) : q[j].seq + 1 >= q[i].seq
    <3>. TAKE i \in 1..(a + b)
    <3>1. i \in 1..a \/ i \in (a + 1)..(a + b)
      BY <1>2
    <3>. QED
      BY <2>3, <2>5, <3>1
  <2>. QED
    BY <1>2, <2>6, <2>7 DEF Whole
<1>. QED
  BY <1>2, <1>6, <1>7 DEF Chain, q, o

\* The head of what is ready goes to the book.
LEMMA ChainMovesUp ==
  ASSUME NEW n \in Nat, NEW v, v.seq \in Nat, NEW rd \in Seq(Msgs(n)), rd # <<>>, NEW s \in Streams(n),
         NEW ov \in BOOLEAN, NEW ab \in BOOLEAN, Chain(v, rd, s, ov, ab), NEW w, w.seq \in Nat,
         w.seq = IF Head(rd).seq <= v.seq THEN v.seq ELSE Head(rd).seq
  PROVE  Chain(w, Tail(rd), s, ov, ab)
<1>. DEFINE q == Tail(rd)
            a == Len(rd)
<1>1. a \in Nat /\ a >= 1 /\ Len(q) = a - 1 /\ Head(rd) = rd[1] /\ q \in Seq(Msgs(n))
  OBVIOUS
<1>2. \A i \in 1..(a - 1) : q[i] = rd[i + 1] /\ i + 1 \in 1..a
  BY <1>1
<1>3. \A i \in 1..a : rd[i].seq \in Nat
  <2>. TAKE i \in 1..a
  <2>1. rd[i] \in Msgs(n)
    OBVIOUS
  <2>. QED
    BY <2>1, MsgIs
<1>4. s.next \in Nat
  BY DEF Streams
<1>. HIDE DEF q, a
<1>5. ASSUME Later(v, rd, s) PROVE Later(w, q, s)
  <2>1. /\ \A i, j \in 1..a : i < j => rd[i].seq < rd[j].seq
        /\ \A i \in 1..a : v.seq < rd[i].seq /\ rd[i].seq < s.next
    BY <1>5 DEF Later, a
  <2>2. 1 \in 1..a /\ w.seq = rd[1].seq /\ w.seq < s.next
    BY <1>1, <1>3, <2>1
  <2>3. \A i \in 1..(a - 1) : w.seq < q[i].seq /\ q[i].seq < s.next
    <3>. TAKE i \in 1..(a - 1)
    <3>1. q[i] = rd[i + 1] /\ i + 1 \in 1..a /\ 1 < i + 1
      BY <1>1, <1>2
    <3>. QED
      BY <2>1, <2>2, <3>1
  <2>4. \A i, j \in 1..(a - 1) : i < j => q[i].seq < q[j].seq
    <3>. TAKE i, j \in 1..(a - 1)
    <3>1. /\ q[i] = rd[i + 1] /\ i + 1 \in 1..a
          /\ q[j] = rd[j + 1] /\ j + 1 \in 1..a
          /\ i < j => i + 1 < j + 1
      BY <1>1, <1>2
    <3>. QED
      BY <2>1, <3>1
  <2>. QED
    BY <1>1, <2>2, <2>3, <2>4 DEF Later
<1>6. ASSUME Whole(v, rd, s) PROVE Whole(w, q, s)
  <2>1. /\ \A i \in 1..a : v.seq + 1 >= rd[i].seq \/ \E j \in 1..(i - 1) : rd[j].seq + 1 >= rd[i].seq
        /\ v.seq + 1 >= s.next \/ \E j \in 1..a : rd[j].seq + 1 >= s.next
    BY <1>6 DEF Whole, a
  <2>2. w.seq >= v.seq /\ w.seq >= rd[1].seq /\ rd[1].seq \in Nat
    BY <1>1, <1>3
  <2>3. ASSUME NEW k \in Nat, NEW c \in 0..a,
               v.seq + 1 >= k \/ \E j \in 1..c : rd[j].seq + 1 >= k
        PROVE  w.seq + 1 >= k \/ \E j \in 1..(c - 1) : q[j].seq + 1 >= k
    <3>1. CASE v.seq + 1 >= k
      BY <2>2, <3>1
    <3>2. CASE \E j \in 1..c : rd[j].seq + 1 >= k
      <4>1. PICK j \in 1..c : rd[j].seq + 1 >= k
        BY <3>2
      <4>2. CASE j = 1
        BY <2>2, <4>1, <4>2
      <4>3. CASE j # 1
        <5>1. j - 1 \in 1..(c - 1) /\ j - 1 \in 1..(a - 1) /\ (j - 1) + 1 = j
          BY <1>1, <4>3
        <5>2. q[j - 1] = rd[j]
          BY <1>2, <5>1
        <5>. QED
          BY <4>1, <5>1, <5>2
      <4>. QED
        BY <4>2, <4>3
    <3>. QED
      BY <2>3, <3>1, <3>2
  <2>4. \A i \in 1..(a - 1) : w.seq + 1 >= q[i].seq \/ \E j \in 1..(i - 1) : q[j].seq + 1 >= q[i].seq
    <3>. TAKE i \in 1..(a - 1)
    <3>1. i + 1 \in 1..a /\ q[i] = rd[i + 1] /\ (i + 1) - 1 = i /\ i \in 0..a
      BY <1>1, <1>2
    <3>2. q[i].seq \in Nat
      BY <1>3, <3>1
    <3>3. v.seq + 1 >= q[i].seq \/ \E j \in 1..i : rd[j].seq + 1 >= q[i].seq
      BY <2>1, <3>1
    <3>. QED
      BY <2>3, <3>1, <3>2, <3>3
  <2>5. w.seq + 1 >= s.next \/ \E j \in 1..(a - 1) : q[j].seq + 1 >= s.next
    <3>1. a \in 0..a
      BY <1>1
    <3>. QED
      BY <1>4, <2>1, <2>3, <3>1
  <2>. QED
    BY <1>1, <2>4, <2>5 DEF Whole
<1>. QED
  BY <1>5, <1>6 DEF Chain, q

\* A replay that starts at or below what the detector expects closes every gap up to its end.
LEMMA WovenIs ==
  ASSUME NEW n \in Nat, StreamOK(gd, n), ready \in Seq(Msgs(n)), view.seq \in Nat,
         past.overtaken \in BOOLEAN, past.abandoned \in BOOLEAN,
         Chain(view, ready, gd, past.overtaken, past.abandoned),
         Feed.maxHeld \in Nat, Feed.reraise \in Nat \ {0},
         NEW ms \in Seq(Msgs(n)), NEW x \in Nat, x <= gd.next,
         \A i \in 1..Len(ms) : ms[i].seq = x + i - 1
  PROVE  LET w == Woven(ms)
         IN  /\ StreamOK(w.s, n) /\ w.out \in Seq(Msgs(n)) /\ w.abandoned \in BOOLEAN
             /\ Chain(view, w.out, w.s, past.overtaken, w.abandoned)
             /\ w.s.next >= gd.next /\ w.s.next >= x + Len(ms)
             /\ past.abandoned => w.abandoned
<1>. DEFINE z == [s |-> gd, out |-> ready, abandoned |-> past.abandoned]
            O(a, k) == Observe(a.s, ms[k], Feed.maxHeld, Feed.reraise)
            S(a, k) == [s |-> O(a, k).s, out |-> a.out \o O(a, k).out,
                        abandoned |-> a.abandoned \/ O(a, k).abandoned]
            Fits(g, N) == g = [k \in 0..N |-> IF k = 0 THEN z ELSE S(g[k - 1], k)]
            C == CHOOSE g : Fits(g, Len(ms))
<1>1. Woven(ms) = C[Len(ms)]
  BY Zenon DEF Woven
<1>2. Len(ms) \in Nat
  OBVIOUS
<1>. DEFINE Holds(w, k) ==
              /\ w.s \in Streams(n) /\ StreamOK(w.s, n) /\ w.out \in Seq(Msgs(n)) /\ w.abandoned \in BOOLEAN
              /\ Chain(view, w.out, w.s, past.overtaken, w.abandoned)
              /\ w.s.next >= gd.next /\ w.s.next >= x + k
              /\ past.abandoned => w.abandoned
<1>3. Holds(z, 0)
  BY DEF StreamOK, Streams
<1>4. ASSUME NEW k \in 1..Len(ms), NEW w, Holds(w, k - 1) PROVE Holds(S(w, k), k)
  <2>. DEFINE r == O(w, k)
  <2>1. ms[k] \in Msgs(n) /\ ms[k].seq = x + k - 1
    OBVIOUS
  <2>2. Placed(w.s, ms[k], n, r) /\ StreamOK(r.s, n)
    BY <1>4, <2>1, ObserveIs
  <2>3. /\ S(w, k).s = r.s /\ S(w, k).out = w.out \o r.out
        /\ S(w, k).abandoned = (w.abandoned \/ r.abandoned)
    OBVIOUS
  <2>. HIDE DEF r, S, O
  <2>4. r \in Outcomes(n) /\ Delivers(w.s, r) /\ r.abandoned \in BOOLEAN /\ r.s \in Streams(n)
    BY <2>2 DEF Placed, Outcomes
  <2>5. w.out \o r.out \in Seq(Msgs(n)) /\ Chain(view, w.out \o r.out, r.s, past.overtaken, w.abandoned \/ r.abandoned)
    BY <1>4, <2>4, ChainGoesOn
  <2>6. r.s.next >= gd.next /\ r.s.next >= x + k
    <3>1. r.s.next \in Nat /\ w.s.next \in Nat /\ gd.next \in Nat
      BY <1>4, <2>4 DEF StreamOK, Streams
    <3>2. r.s.next >= w.s.next /\ (ms[k].seq <= w.s.next => r.s.next > ms[k].seq)
      BY <2>2 DEF Placed, Delivers
    <3>3. w.s.next >= gd.next /\ w.s.next >= x + (k - 1)
      BY <1>4
    <3>4. ms[k].seq <= w.s.next
      BY <2>1, <3>1, <3>3
    <3>. QED
      BY <2>1, <3>1, <3>2, <3>3, <3>4, SMTT(40)
  <2>7. (w.abandoned \/ r.abandoned) \in BOOLEAN /\ (past.abandoned => w.abandoned \/ r.abandoned)
    BY <1>4, <2>4
  <2>. QED
    BY <2>2, <2>3, <2>4, <2>5, <2>6, <2>7
<1>. HIDE DEF z, S, O, Holds
<1>5. \E g : Fits(g, Len(ms))
  <2>. DEFINE Bad == {N \in Nat : ~ \E g : Fits(g, N)}
  <2>. SUFFICES ASSUME Bad # {} PROVE FALSE
    BY <1>2
  <2>1. PICK N \in Bad : \A y \in Bad : N <= y
    <3>1. Bad \in SUBSET Nat
      OBVIOUS
    <3>. QED
      BY <3>1, LeastOf
  <2>2. N # 0
    <3>1. Fits([k \in 0..0 |-> z], 0)
      OBVIOUS
    <3>. QED
      BY <3>1, <2>1
  <2>3. PICK g : Fits(g, N - 1)
    <3>1. N \in Nat /\ N - 1 \in Nat /\ ~(N <= N - 1)
      BY <2>2
    <3>2. N - 1 \notin Bad
      BY <2>1, <3>1
    <3>. QED
      BY <3>1, <3>2
  <2>. DEFINE h == [k \in 0..N |-> IF k = N THEN S(g[N - 1], N) ELSE g[k]]
  <2>4. \A k \in 0..N : h[k] = IF k = 0 THEN z ELSE S(h[k - 1], k)
    <3>. TAKE k \in 0..N
    <3>1. CASE k = N
      <4>1. h[k - 1] = g[N - 1] /\ h[k] = S(g[N - 1], N)
        BY <2>2, <3>1
      <4>. QED
        BY <2>2, <3>1, <4>1
    <3>2. CASE k # N
      <4>1. k \in 0..(N - 1) /\ h[k] = g[k] /\ (k # 0 => h[k - 1] = g[k - 1])
        BY <2>2, <3>2, SMTT(40)
      <4>2. g[k] = IF k = 0 THEN z ELSE S(g[k - 1], k)
        BY <2>3, <4>1
      <4>. QED
        BY <4>1, <4>2
    <3>. QED
      BY <3>1, <3>2
  <2>5. Fits(h, N)
    BY <2>4
  <2>. QED
    BY <2>1, <2>5
<1>6. Fits(C, Len(ms))
  BY <1>5, Zenon
<1>7. \A k \in 0..Len(ms) : C[k] = IF k = 0 THEN z ELSE S(C[k - 1], k)
  BY <1>6
<1>. HIDE DEF C, Fits
<1>8. \A k \in 0..Len(ms) : Holds(C[k], k)
  <2>. DEFINE Bad == {k \in 0..Len(ms) : ~Holds(C[k], k)}
  <2>. SUFFICES ASSUME Bad # {} PROVE FALSE
    OBVIOUS
  <2>1. PICK k \in Bad : \A y \in Bad : k <= y
    <3>1. Bad \in SUBSET Nat
      BY <1>2
    <3>. QED
      BY <3>1, LeastOf
  <2>2. k # 0
    BY <1>2, <1>3, <1>7, <2>1
  <2>3. k \in 1..Len(ms) /\ k - 1 \in 0..Len(ms) /\ k - 1 \notin Bad
    <3>1. k \in 1..Len(ms) /\ k - 1 \in 0..Len(ms) /\ ~(k <= k - 1)
      BY <1>2, <2>2
    <3>. QED
      BY <2>1, <3>1
  <2>4. Holds(C[k - 1], k - 1) /\ C[k] = S(C[k - 1], k)
    BY <1>7, <2>2, <2>3
  <2>5. Holds(C[k], k)
    BY <1>4, <2>3, <2>4
  <2>. QED
    BY <2>1, <2>5
<1>9. Holds(Woven(ms), Len(ms))
  BY <1>1, <1>2, <1>8
<1>. QED
  BY <1>9 DEF Holds

-----------------------------------------------------------------------------
(* The invariant *)

Views(n) == [epoch : {0, 1}, seq : 0..n, fault : {"none", "hole", "stale"}]
Pasts == [abandoned : BOOLEAN, overtaken : BOOLEAN, gaveUp : BOOLEAN, fails : Nat, connects : Nat,
          fresh : BOOLEAN]
Pendings == [active : BOOLEAN, snapshot : BOOLEAN, fromSeq : Nat, attempts : Nat]

Shape ==
  /\ view \in Views(pub.seq) /\ past \in Pasts /\ pend \in Pendings
  /\ StreamOK(gd, pub.seq) /\ ready \in Seq(Msgs(pub.seq))
  /\ DOMAIN net \subseteq Msgs(pub.seq)

\* What the recovery would ask for starts at or below the gap.
Pursued == pend.fromSeq <= gd.next /\ (gd.open => pend.active \/ past.gaveUp)

Excused ==
  /\ view.fault = "hole" => past.abandoned
  /\ view.fault = "stale" => past.overtaken

\* The last message of a frame, and what it takes for one to go on where another ended.
EndOf(f) == IF f.snap THEN f.seq ELSE f.msgs[Len(f.msgs)].seq
Frames(n) == [snap : BOOLEAN, epoch : {0, 1}, seq : 0..n, msgs : Seq(Msgs(n))]
FrameOK(f) ==
  \/ f.snap /\ f.epoch = 1
  \/ /\ ~f.snap /\ f.msgs # <<>>
     /\ \A i \in 1..Len(f.msgs) : f.msgs[i].seq = f.msgs[1].seq + i - 1
Follows(e, f) == f.snap \/ f.msgs[1].seq = e + 1

\* A queue of frames goes on from e, each frame from the one before it; where it ends.
Links(e, q) ==
  \A i \in 1..Len(q) : FrameOK(q[i]) /\ Follows(IF i = 1 THEN e ELSE EndOf(q[i - 1]), q[i])
End(e, q) == IF Len(q) = 0 THEN e ELSE EndOf(q[Len(q)])

SessionFields == {"alive", "sub", "from", "once", "deliverFrom", "epoch", "pending", "taken", "queue"}

\* What was emitted since the session parked.
Parked(s, n) ==
  /\ s.pending \in Seq(Msgs(n)) /\ Len(s.pending) <= n
  /\ \A i \in 1..Len(s.pending) : s.pending[i].seq = n - Len(s.pending) + i
Requested(s, v) == s.from \in Nat /\ (s.from = 0 \/ (Len(s.queue) = 0 /\ s.from = v.seq + 1))

\* The answer goes on from the book and reaches at least to where the session parked.
Nothing(a) == ~a.snap /\ a.msgs = <<>>
AnsweredTo(s) == IF Nothing(s.taken) THEN s.from - 1 ELSE EndOf(s.taken)
AnswerOK(s, v, n) ==
  /\ s.taken \in Frames(n)
  /\ \/ Nothing(s.taken) /\ s.from # 0
     \/ ~Nothing(s.taken) /\ FrameOK(s.taken) /\ (s.taken.snap \/ (s.from # 0 /\ Follows(v.seq, s.taken)))
  /\ AnsweredTo(s) \in (n - Len(s.pending))..n

SessionOK(s, v, n) ==
  /\ DOMAIN s = SessionFields
  /\ s.queue \in Seq(Frames(n)) /\ Links(v.seq, s.queue)
  /\ s.sub \in {"none", "parked", "taken", "armed"}
  /\ s.sub = "armed" => /\ End(v.seq, s.queue) = n
                        /\ s.deliverFrom \in Nat /\ s.deliverFrom <= n + 1
                        /\ s.epoch \in {0, 1}
  /\ s.sub \in {"parked", "taken"} => Parked(s, n) /\ Requested(s, v)
  /\ s.sub = "taken" => AnswerOK(s, v, n)

Connection ==
  /\ view.fault = "none"
  /\ sess.alive \in BOOLEAN
  /\ sess.alive => SessionOK(sess, view, pub.seq)
  /\ sess.alive /\ past.fresh => sess.sub = "none" /\ Len(sess.queue) = 0

Lives ==
  /\ Shape /\ Pursued /\ Excused
  /\ Udp => Chain(view, ready, gd, past.overtaken, past.abandoned)
  /\ Tcp => Connection

Base == feed \in DOMAIN Feeds /\ pub \in [epoch : Nat \ {0}, seq : Nat]

FeedInv == Base /\ (pub.epoch = 1 => Lives)

LEMMA FeedIs ==
  ASSUME Base
  PROVE  /\ Feed.client \in {"udp", "tcp"} /\ Feed.ring \in Nat \ {0}
         /\ Feed.maxHeld \in Nat /\ Feed.reraise \in Nat \ {0}
         /\ (Udp <=> ~Tcp)
<1>. DEFINE f == Feeds[feed]
<1>1. /\ f.client \in {"udp", "tcp"}
      /\ {f.ring, f.copies, f.reraise, f.maxAttempts, f.maxSeq, f.maxEpoch} \subseteq Nat \ {0}
      /\ {f.maxHeld, f.maxGap, f.pendingCap, f.queueCap, f.maxFails, f.maxConnects} \subseteq Nat
  BY FeedAssumption DEF Base
<1>2. f.ring \in Nat \ {0} /\ f.reraise \in Nat \ {0} /\ f.maxHeld \in Nat
  BY <1>1
<1>. QED
  BY <1>1, <1>2 DEF Feed, Udp, Tcp

LEMMA CapsAre ==
  ASSUME Base
  PROVE  Feed.queueCap \in Nat /\ Feed.pendingCap \in Nat
<1>. DEFINE f == Feeds[feed]
<1>1. {f.maxHeld, f.maxGap, f.pendingCap, f.queueCap, f.maxFails, f.maxConnects} \subseteq Nat
  BY FeedAssumption DEF Base
<1>. QED
  BY <1>1 DEF Feed

LEMMA InitFeed == Init => FeedInv
<1>. SUFFICES ASSUME Init PROVE FeedInv
  OBVIOUS
<1>1. Base /\ pub.seq = 0 /\ pub.seq \in Nat
  BY DEF Init, Base
<1>2. view \in Views(pub.seq) /\ past \in Pasts /\ pend \in Pendings
  BY <1>1 DEF Init, Views, Pasts, Pendings, NoPending
<1>3. StreamOK(gd, pub.seq)
  BY DEF Init, NewStream, StreamOK, Streams, Ahead
<1>4. ready \in Seq(Msgs(pub.seq)) /\ DOMAIN net \subseteq Msgs(pub.seq)
  BY DEF Init
<1>5. Pursued /\ Excused
  BY DEF Init, NewStream, NoPending, Pursued, Excused
<1>6. Chain(view, ready, gd, past.overtaken, past.abandoned)
  <2>1. Len(ready) = 0 /\ view.seq = 0 /\ gd.next = 1
    BY DEF Init, NewStream
  <2>. QED
    BY <2>1 DEF Chain, Later, Whole
<1>7. Connection
  <2>1. view.fault = "none" /\ sess = NewSession /\ view.seq = 0
    BY DEF Init
  <2>2. /\ sess.alive = TRUE /\ sess.sub = "none" /\ sess.queue = <<>> /\ Len(sess.queue) = 0
        /\ DOMAIN sess = SessionFields
    BY <2>1 DEF NewSession, SessionFields
  <2>3. SessionOK(sess, view, pub.seq)
    BY <1>1, <2>2 DEF SessionOK, Links
  <2>. QED
    BY <2>1, <2>2, <2>3 DEF Connection
<1>. QED
  BY <1>1, <1>2, <1>3, <1>4, <1>5, <1>6, <1>7 DEF FeedInv, Lives, Shape

-----------------------------------------------------------------------------
(* The publisher *)

LEMMA StreamGrows ==
  ASSUME NEW n \in Nat, NEW s, StreamOK(s, n)
  PROVE  StreamOK(s, n + 1)
<1>1. Msgs(n) \subseteq Msgs(n + 1)
  BY MsgsGrow
<1>. QED
  BY <1>1 DEF StreamOK, Streams

LEMMA MessagesGrow ==
  ASSUME NEW n \in Nat
  PROVE  Seq(Msgs(n)) \subseteq Seq(Msgs(n + 1)) /\ Frames(n) \subseteq Frames(n + 1)
<1>1. Msgs(n) \subseteq Msgs(n + 1)
  BY MsgsGrow
<1>2. \A q \in Seq(Msgs(n)) : q \in Seq(Msgs(n + 1))
  BY <1>1
<1>. QED
  BY <1>2 DEF Frames

\* What the ring and the book answer to a request for x and what follows.
LEMMA ResendIs ==
  ASSUME Base, pub.epoch = 1, NEW x \in Nat
  PROVE  \/ ResendFrom(x) = SnapFrame(1, pub.seq)
         \/ x > pub.seq /\ ResendFrom(x) = IncFrame(<<>>)
         \/ /\ x \in 1..pub.seq
            /\ ResendFrom(x) = IncFrame([i \in 1..(pub.seq - x + 1) |-> Message(1, x + i - 1)])
<1>1. pub.seq \in Nat /\ Feed.ring \in Nat \ {0}
  BY FeedIs DEF Base
<1>2. RingFront \in Nat \ {0}
  BY <1>1 DEF RingFront
<1>3. CASE x > pub.seq
  BY <1>1, <1>3 DEF ResendFrom
<1>4. CASE x <= pub.seq /\ (pub.seq = 0 \/ x < RingFront)
  BY <1>1, <1>4 DEF ResendFrom
<1>5. CASE ~(x > pub.seq) /\ ~(x <= pub.seq /\ (pub.seq = 0 \/ x < RingFront))
  <2>1. x \in 1..pub.seq
    BY <1>1, <1>2, <1>5
  <2>. QED
    BY <2>1, <1>5 DEF ResendFrom
<1>. QED
  BY <1>3, <1>4, <1>5

LEMMA ReplayIs ==
  ASSUME NEW n \in Nat, NEW x \in 1..n
  PROVE  LET ms == [i \in 1..(n - x + 1) |-> Message(1, x + i - 1)]
         IN  /\ ms \in Seq(Msgs(n)) /\ Len(ms) = n - x + 1
             /\ \A i \in 1..Len(ms) : ms[i].seq = x + i - 1
<1>. DEFINE ms == [i \in 1..(n - x + 1) |-> Message(1, x + i - 1)]
<1>1. n - x + 1 \in Nat
  OBVIOUS
<1>2. \A i \in 1..(n - x + 1) : x + i - 1 \in 1..n
  OBVIOUS
<1>3. ms \in [1..(n - x + 1) -> Msgs(n)]
  BY <1>2 DEF Msgs
<1>4. ms \in Seq(Msgs(n)) /\ Len(ms) = n - x + 1
  BY <1>1, <1>3
<1>5. \A i \in 1..(n - x + 1) : ms[i].seq = x + i - 1
  BY DEF Message
<1>. QED
  BY <1>4, <1>5

-----------------------------------------------------------------------------
(* The datagrams *)

Receiver == <<feed, pub>>

\* A step of a subscriber over datagrams keeps the invariant when it keeps its parts.
LEMMA UdpKeeps ==
  ASSUME FeedInv, pub.epoch = 1, Udp, UNCHANGED Receiver, Shape', Pursued', Excused',
         Chain(view', ready', gd', past'.overtaken, past'.abandoned)
  PROVE  FeedInv'
<1>1. Base' /\ Udp' /\ ~Tcp'
  BY DEF FeedInv, Base, Receiver, Udp, Tcp, Feed
<1>. QED
  BY <1>1 DEF FeedInv, Lives

LEMMA ReceiveKeeps == FeedInv /\ pub.epoch = 1 /\ Receive => FeedInv'
<1>. SUFFICES ASSUME FeedInv, pub.epoch = 1, Receive PROVE FeedInv'
  OBVIOUS
<1>. DEFINE n == pub.seq
<1>1. /\ Base /\ n \in Nat /\ Lives /\ Shape /\ Pursued /\ Excused /\ Udp
      /\ Chain(view, ready, gd, past.overtaken, past.abandoned)
  BY DEF FeedInv, Base, Lives, Receive
<1>2. PICK m \in DOMAIN net :
        /\ Udp /\ MayGoOn /\ ready = <<>> /\ net[m] > 0
        /\ net' = [net EXCEPT ![m] = @ - 1]
        /\ LET r == Observe(gd, m, Feed.maxHeld, Feed.reraise)
           IN /\ gd' = r.s
              /\ ready' = r.out
              /\ pend' = AfterObserve(r, m, Restarted(gd, m))
              /\ past' = [past EXCEPT !.abandoned = @ \/ r.abandoned]
        /\ served' = FALSE
        /\ UNCHANGED <<feed, pub, sess, view>>
  BY DEF Receive
<1>. DEFINE r == Observe(gd, m, Feed.maxHeld, Feed.reraise)
<1>3. m \in Msgs(n) /\ m.epoch = 1 /\ m.seq \in Nat /\ StreamOK(gd, n) /\ gd \in Streams(n) /\ gd.epoch \in {0, 1}
  BY <1>1, MsgIs DEF Shape, StreamOK, Streams
<1>4. Placed(gd, m, n, r) /\ StreamOK(r.s, n)
  BY <1>1, <1>3, FeedIs, ObserveIs
<1>5. gd' = r.s /\ ready' = r.out /\ past' = [past EXCEPT !.abandoned = @ \/ r.abandoned]
  BY <1>2
<1>6. pend' = AfterObserve(r, m, FALSE)
  BY <1>2, <1>3 DEF Restarted
<1>7. UNCHANGED <<feed, pub, view>> /\ DOMAIN net' = DOMAIN net /\ ready = <<>>
  BY <1>2
<1>. HIDE DEF r
<1>8. /\ r \in Outcomes(n) /\ r.abandoned \in BOOLEAN /\ r.gap \in Nat /\ r.out \in Seq(Msgs(n))
      /\ Delivers(gd, r) /\ Reports(gd, r)
      /\ r.s.next \in Nat /\ gd.next \in Nat /\ r.s.next >= gd.next /\ r.gap <= r.s.next
  BY <1>3, <1>4 DEF Placed, Outcomes, Delivers, Reports, Streams
<1>9. /\ past \in Pasts /\ past.abandoned \in BOOLEAN /\ past.overtaken \in BOOLEAN
      /\ past' \in Pasts /\ past'.overtaken = past.overtaken /\ past'.gaveUp = past.gaveUp
      /\ past'.abandoned = (past.abandoned \/ r.abandoned)
  <2>. DEFINE b == past.abandoned \/ r.abandoned
  <2>1. past \in Pasts /\ past.abandoned \in BOOLEAN /\ past.overtaken \in BOOLEAN /\ b \in BOOLEAN
    BY <1>1, <1>8 DEF Shape, Pasts
  <2>2. past' = [past EXCEPT !.abandoned = b]
    BY <1>5
  <2>. HIDE DEF b
  <2>3. /\ past' \in Pasts /\ past'.overtaken = past.overtaken /\ past'.gaveUp = past.gaveUp
        /\ past'.abandoned = b
    BY <2>1, <2>2 DEF Pasts
  <2>. QED
    BY <2>1, <2>3, Zenon DEF b
<1>10. /\ pend \in Pendings /\ pend' \in Pendings
       /\ pend.active \/ r.gap # 0 => pend'.active
       /\ pend'.fromSeq = IF r.gap = 0 THEN pend.fromSeq ELSE r.gap
  <2>. DEFINE started == [NoPending EXCEPT !.active = TRUE]
              q == IF r.gap = 0 THEN pend ELSE [(IF pend.active THEN pend ELSE started) EXCEPT !.fromSeq = r.gap]
              deep == q.active /\ m.seq > q.fromSeq /\ m.seq - q.fromSeq > Feed.maxGap
              d == q.snapshot \/ deep
  <2>1. pend \in Pendings /\ started \in Pendings /\ started.active = TRUE
    BY <1>1 DEF Shape, Pendings, NoPending
  <2>2. /\ q \in Pendings /\ (pend.active \/ r.gap # 0 => q.active)
        /\ q.fromSeq = IF r.gap = 0 THEN pend.fromSeq ELSE r.gap
    <3>. HIDE DEF started
    <3>1. CASE r.gap = 0
      BY <2>1, <3>1
    <3>2. CASE r.gap # 0
      BY <1>8, <2>1, <3>2 DEF Pendings
    <3>. QED
      BY <3>1, <3>2
  <2>3. pend' = [q EXCEPT !.snapshot = d]
    BY <1>6 DEF AfterObserve
  <2>4. d \in BOOLEAN
    BY <2>2 DEF Pendings
  <2>. HIDE DEF q, d
  <2>5. pend' \in Pendings /\ pend'.active = q.active /\ pend'.fromSeq = q.fromSeq
    BY <2>2, <2>3, <2>4 DEF Pendings
  <2>. QED
    BY <2>1, <2>2, <2>5
<1>11. Shape'
  BY <1>1, <1>4, <1>5, <1>7, <1>8, <1>9, <1>10 DEF Shape
<1>12. Pursued'
  <2>1. pend'.fromSeq <= gd'.next
    <3>1. pend.fromSeq \in Nat /\ pend.fromSeq <= gd.next
      BY <1>1, <1>10 DEF Pursued, Pendings
    <3>. QED
      BY <1>5, <1>8, <1>10, <3>1
  <2>2. ASSUME gd'.open, ~past.gaveUp PROVE pend'.active
    <3>1. r.s.held # {}
      BY <1>4, <1>5, <2>2 DEF StreamOK
    <3>2. CASE gd.open
      BY <1>1, <1>10, <2>2, <3>2 DEF Pursued
    <3>3. CASE ~gd.open
      <4>1. gd.held = {}
        BY <1>3, <3>3 DEF StreamOK
      <4>. QED
        BY <1>8, <1>10, <3>1, <4>1 DEF Reports
    <3>. QED
      BY <3>2, <3>3
  <2>. QED
    BY <1>9, <2>1, <2>2 DEF Pursued
<1>13. Excused'
  BY <1>1, <1>7, <1>9 DEF Excused
<1>14. Chain(view', ready', gd', past'.overtaken, past'.abandoned)
  <2>1. view.seq \in Nat /\ ready \in Seq(Msgs(n))
    BY <1>1 DEF Shape, Views
  <2>2. Chain(view, ready \o r.out, r.s, past.overtaken, past.abandoned \/ r.abandoned)
    BY <1>1, <1>3, <1>8, <1>9, <2>1, ChainGoesOn
  <2>3. ready \o r.out = r.out
    BY <1>7, <1>8
  <2>4. Chain(view, r.out, r.s, past.overtaken, past'.abandoned)
    BY <1>9, <2>2, <2>3
  <2>. QED
    BY <1>5, <1>7, <1>9, <2>4
<1>. QED
  BY <1>1, <1>7, <1>11, <1>12, <1>13, <1>14, UdpKeeps DEF Receiver

LEMMA SurfaceKeeps == FeedInv /\ pub.epoch = 1 /\ Surface => FeedInv'
<1>. SUFFICES ASSUME FeedInv, pub.epoch = 1, Surface PROVE FeedInv'
  OBVIOUS
<1>. DEFINE n == pub.seq
            m == Head(ready)
            f == Faulty(view, m)
<1>1. /\ Base /\ n \in Nat /\ Shape /\ Pursued /\ Excused /\ Udp
      /\ Chain(view, ready, gd, past.overtaken, past.abandoned)
  BY DEF FeedInv, Base, Lives, Surface
<1>2. /\ ready # <<>> /\ view' = Apply(view, m) /\ ready' = Tail(ready)
      /\ UNCHANGED <<feed, pub, net, gd, pend, past>>
  BY DEF Surface
<1>3. /\ view \in Views(n) /\ view.epoch \in {0, 1} /\ view.seq \in 0..n /\ gd \in Streams(n)
      /\ past.overtaken \in BOOLEAN /\ past.abandoned \in BOOLEAN
  BY <1>1 DEF Shape, Views, Pasts, StreamOK
<1>4. ready \in Seq(Msgs(n)) /\ m = ready[1] /\ m \in Msgs(n) /\ 1 \in 1..Len(ready)
  BY <1>1, <1>2 DEF Shape
<1>5. m.epoch = 1 /\ m.seq \in 1..n
  BY <1>1, <1>4, MsgIs
<1>. HIDE DEF m
<1>6. /\ f \in {"none", "hole", "stale"}
      /\ f = "hole" <=> m.seq > view.seq + 1
      /\ f = "stale" <=> m.seq <= view.seq
  BY <1>3, <1>5 DEF Faulty
<1>7. view' = [epoch |-> m.epoch, seq |-> IF f = "stale" THEN view.seq ELSE m.seq,
               fault |-> IF view.fault # "none" THEN view.fault ELSE f]
  BY <1>2 DEF Apply
<1>. HIDE DEF f
<1>8. /\ view' \in Views(n) /\ view'.fault = (IF view.fault # "none" THEN view.fault ELSE f)
      /\ view'.seq = (IF m.seq <= view.seq THEN view.seq ELSE m.seq)
  BY <1>3, <1>5, <1>6, <1>7 DEF Views
<1>9. Tail(ready) \in Seq(Msgs(n))
  BY <1>2, <1>4
<1>10. Shape'
  BY <1>1, <1>2, <1>8, <1>9 DEF Shape
<1>11. Pursued'
  BY <1>1, <1>2 DEF Pursued
<1>12. Excused'
  <2>1. ASSUME ~past.abandoned PROVE f # "hole"
    <3>1. view.seq + 1 >= ready[1].seq \/ \E j \in 1..(1 - 1) : ready[j].seq + 1 >= ready[1].seq
      BY <1>1, <1>4, <2>1 DEF Chain, Whole
    <3>2. view.seq + 1 >= m.seq
      BY <1>4, <3>1
    <3>. QED
      BY <1>3, <1>5, <1>6, <3>2
  <2>2. ASSUME ~past.overtaken PROVE f # "stale"
    <3>1. view.seq < m.seq
      BY <1>1, <1>4, <2>2 DEF Chain, Later
    <3>. QED
      BY <1>3, <1>5, <1>6, <3>1
  <2>. QED
    BY <1>1, <1>2, <1>8, <2>1, <2>2 DEF Excused
<1>13. Chain(view', ready', gd', past'.overtaken, past'.abandoned)
  <2>1. view.seq \in Nat /\ view'.seq \in Nat
    BY <1>3, <1>8 DEF Views
  <2>2. Chain(view', Tail(ready), gd, past.overtaken, past.abandoned)
    BY <1>1, <1>2, <1>3, <1>4, <1>8, <2>1, ChainMovesUp DEF m
  <2>. QED
    BY <1>2, <2>2
<1>. QED
  BY <1>1, <1>2, <1>10, <1>11, <1>12, <1>13, UdpKeeps DEF Receiver

LEMMA TimeoutKeeps == FeedInv /\ pub.epoch = 1 /\ ReceiveTimeout => FeedInv'
<1>. SUFFICES ASSUME FeedInv, pub.epoch = 1, ReceiveTimeout PROVE FeedInv'
  OBVIOUS
<1>1. /\ Shape /\ Pursued /\ Excused /\ Udp
      /\ Chain(view, ready, gd, past.overtaken, past.abandoned)
  BY DEF FeedInv, Lives, ReceiveTimeout
<1>2. UNCHANGED <<feed, pub, net, gd, pend, ready, sess, view, past>>
  BY DEF ReceiveTimeout
<1>3. Shape' /\ Pursued' /\ Excused'
  BY <1>1, <1>2 DEF Shape, Pursued, Excused
<1>. QED
  BY <1>1, <1>2, <1>3, UdpKeeps DEF Receiver

LEMMA FailsKeeps == FeedInv /\ pub.epoch = 1 /\ RecoveryFails => FeedInv'
<1>. SUFFICES ASSUME FeedInv, pub.epoch = 1, RecoveryFails PROVE FeedInv'
  OBVIOUS
<1>. DEFINE over == pend.attempts + 1 >= Feed.maxAttempts
<1>1. /\ Shape /\ Pursued /\ Excused /\ Udp
      /\ Chain(view, ready, gd, past.overtaken, past.abandoned)
  BY DEF FeedInv, Lives, RecoveryFails
<1>2. /\ UNCHANGED <<feed, pub, net, gd, ready, sess, view>> /\ pend.active
      /\ pend' = (IF over THEN NoPending ELSE [pend EXCEPT !.attempts = @ + 1])
      /\ past' = [past EXCEPT !.fails = @ + 1, !.gaveUp = @ \/ over]
  BY DEF RecoveryFails
<1>3. over \in BOOLEAN
  OBVIOUS
<1>. HIDE DEF over
<1>4. /\ past \in Pasts /\ past' \in Pasts /\ past'.overtaken = past.overtaken
      /\ past'.abandoned = past.abandoned /\ past'.gaveUp = (past.gaveUp \/ over)
  <2>. DEFINE b == past.gaveUp \/ over
              k == past.fails + 1
  <2>1. past \in Pasts /\ b \in BOOLEAN /\ k \in Nat
    BY <1>1, <1>3 DEF Shape, Pasts
  <2>2. past' = [past EXCEPT !.fails = k, !.gaveUp = b]
    BY <1>2
  <2>. HIDE DEF b, k
  <2>3. /\ past' \in Pasts /\ past'.overtaken = past.overtaken
        /\ past'.abandoned = past.abandoned /\ past'.gaveUp = b
    BY <2>1, <2>2 DEF Pasts
  <2>. QED
    BY <2>1, <2>3, Zenon DEF b
<1>5. /\ pend' \in Pendings /\ (over \/ pend'.active)
      /\ pend'.fromSeq = 0 \/ pend'.fromSeq = pend.fromSeq
  <2>1. pend \in Pendings /\ NoPending \in Pendings /\ NoPending.fromSeq = 0
    BY <1>1 DEF Shape, Pendings, NoPending
  <2>2. CASE over
    BY <1>2, <2>1, <2>2
  <2>3. CASE ~over
    BY <1>2, <2>1, <2>3 DEF Pendings
  <2>. QED
    BY <2>2, <2>3
<1>6. Shape'
  BY <1>1, <1>2, <1>4, <1>5 DEF Shape
<1>7. Pursued'
  <2>1. gd.next \in Nat
    BY <1>1 DEF Shape, StreamOK, Streams
  <2>2. pend'.fromSeq <= gd'.next
    BY <1>1, <1>2, <1>5, <2>1 DEF Pursued
  <2>. QED
    BY <1>4, <1>5, <2>2 DEF Pursued
<1>8. Excused'
  BY <1>1, <1>2, <1>4 DEF Excused
<1>. QED
  BY <1>1, <1>2, <1>4, <1>6, <1>7, <1>8, UdpKeeps DEF Receiver

\* A snapshot is beyond everything that is held: the detector starts over behind it.
LEMMA ResetIs ==
  ASSUME NEW n \in Nat, NEW s, StreamOK(s, n)
  PROVE  LET r == Reset(s, 1, n + 1)
         IN  /\ StreamOK(r.s, n) /\ r.s.next = n + 1 /\ r.s.held = {} /\ r.s.open = FALSE
             /\ r.out = <<>>
<1>. DEFINE t == [s EXCEPT !.epoch = 1, !.next = n + 1, !.held = {m \in @ : m.seq >= n + 1}]
            r == Reset(s, 1, n + 1)
            d == Drain(t)
<1>1. s \in Streams(n) /\ s.held \in SUBSET Msgs(n) /\ n + 1 \in Nat \ {0}
  BY DEF StreamOK, Streams
<1>2. {m \in s.held : m.seq >= n + 1} = {}
  <2>1. \A m \in s.held : m.seq \in 1..n
    BY <1>1, MsgIs
  <2>. QED
    BY <2>1
<1>3. t = [s EXCEPT !.epoch = 1, !.next = n + 1, !.held = {}]
  BY <1>2
<1>4. r = [s |-> [d EXCEPT !.open = d.held # {}, !.since = 0], out |-> Drained(t)]
  BY DEF Reset
<1>. HIDE DEF t, r
<1>5. t \in Streams(n) /\ t.held = {} /\ t.next = n + 1
  BY <1>1, <1>3 DEF Streams
<1>6. Run(t) = {} /\ Cardinality(Run(t)) = 0
  BY <1>5, FS_EmptySet DEF Run
<1>7. Drained(t) = <<>>
  BY <1>6 DEF Drained
<1>8. d = [t EXCEPT !.next = @ + 0, !.held = @ \ {}]
  BY <1>6 DEF Drain
<1>9. d = t
  <2>1. t.next + 0 = t.next /\ t.held \ {} = t.held
    BY <1>5
  <2>2. d = [t EXCEPT !.next = t.next, !.held = t.held]
    BY <1>8, <2>1
  <2>. HIDE DEF d
  <2>. QED
    BY <1>5, <2>2 DEF Streams
<1>. HIDE DEF d
<1>10. r.out = <<>> /\ r.s = [t EXCEPT !.open = FALSE, !.since = 0]
  BY <1>4, <1>5, <1>7, <1>9
<1>11. r.s \in Streams(n) /\ r.s.held = {} /\ r.s.next = n + 1 /\ r.s.open = FALSE
  <2>. DEFINE no == FALSE
              zero == 0
              u == r.s
  <2>1. no \in BOOLEAN /\ zero \in Nat /\ u = [t EXCEPT !.open = no, !.since = zero]
    BY <1>10
  <2>. HIDE DEF no, zero, u
  <2>2. u \in Streams(n) /\ u.held = t.held /\ u.next = t.next /\ u.open = no
    BY <1>5, <2>1 DEF Streams
  <2>. QED
    BY <1>5, <2>2 DEF no, u
<1>. QED
  BY <1>10, <1>11 DEF r, StreamOK, Ahead

LEMMA SnapshotKeeps == FeedInv /\ pub.epoch = 1 /\ SnapshotRecovery => FeedInv'
<1>. SUFFICES ASSUME FeedInv, pub.epoch = 1, SnapshotRecovery PROVE FeedInv'
  OBVIOUS
<1>. DEFINE n == pub.seq
            r == Reset(gd, Asked.epoch, Asked.seq + 1)
<1>1. /\ Base /\ n \in Nat /\ Shape /\ Pursued /\ Excused /\ Udp
      /\ Chain(view, ready, gd, past.overtaken, past.abandoned)
  BY DEF FeedInv, Base, Lives, SnapshotRecovery
<1>2. /\ UNCHANGED <<feed, pub, net, sess>> /\ Asked.snap /\ view' = ApplyFrame(view, Asked)
      /\ gd' = r.s /\ ready' = ready \o r.out
      /\ pend' = NoPending /\ past' = [past EXCEPT !.overtaken = @ \/ Overtakes]
  BY DEF SnapshotRecovery
<1>3. Asked = SnapFrame(1, n)
  <2>. DEFINE x == IF pend.snapshot THEN 0 ELSE pend.fromSeq
  <2>1. x \in Nat
    BY <1>1 DEF Shape, Pendings
  <2>2. Asked = ResendFrom(x)
    BY DEF Asked
  <2>3. \A ms : IncFrame(ms).snap = FALSE
    BY DEF IncFrame
  <2>. HIDE DEF x
  <2>. QED
    BY <1>1, <1>2, <2>1, <2>2, <2>3, ResendIs
<1>4. Asked.snap = TRUE /\ Asked.epoch = 1 /\ Asked.seq = n
  BY <1>3 DEF SnapFrame
<1>5. view' = [epoch |-> 1, seq |-> n, fault |-> "none"]
  BY <1>2, <1>4 DEF ApplyFrame
<1>6. StreamOK(gd, n) /\ r = Reset(gd, 1, n + 1)
  BY <1>1, <1>4 DEF Shape
<1>7. /\ StreamOK(r.s, n) /\ r.s.next = n + 1 /\ r.s.held = {} /\ r.s.open = FALSE
      /\ r.out = <<>>
  <2>. DEFINE u == Reset(gd, 1, n + 1)
  <2>1. /\ StreamOK(u.s, n) /\ u.s.next = n + 1 /\ u.s.held = {} /\ u.s.open = FALSE
        /\ u.out = <<>>
    BY <1>1, <1>6, ResetIs
  <2>2. r = u
    BY <1>6
  <2>. HIDE DEF r, u, n
  <2>. QED
    BY <2>1, <2>2
<1>. HIDE DEF r
<1>8. ready \in Seq(Msgs(n)) /\ ready' = ready
  BY <1>1, <1>2, <1>7 DEF Shape
<1>9. /\ past \in Pasts /\ past' \in Pasts /\ past'.abandoned = past.abandoned
      /\ past'.overtaken = (past.overtaken \/ Overtakes)
  <2>. DEFINE b == past.overtaken \/ Overtakes
  <2>1. past \in Pasts /\ b \in BOOLEAN
    BY <1>1 DEF Shape, Pasts
  <2>2. past' = [past EXCEPT !.overtaken = b]
    BY <1>2
  <2>. HIDE DEF b
  <2>3. past' \in Pasts /\ past'.abandoned = past.abandoned /\ past'.overtaken = b
    BY <2>1, <2>2 DEF Pasts
  <2>. QED
    BY <2>1, <2>3, Zenon DEF b
<1>10. view' \in Views(n) /\ view'.seq = n /\ view'.fault = "none"
  BY <1>1, <1>5 DEF Views
<1>11. pend' \in Pendings /\ pend'.fromSeq = 0
  BY <1>2 DEF Pendings, NoPending
<1>12. Shape'
  BY <1>1, <1>2, <1>7, <1>8, <1>9, <1>10, <1>11 DEF Shape
<1>13. Pursued' /\ Excused'
  BY <1>1, <1>2, <1>7, <1>10, <1>11 DEF Pursued, Excused
<1>14. \A i \in 1..Len(ready) : ready[i].epoch = 1 /\ ready[i].seq \in 1..n
  <2>. TAKE i \in 1..Len(ready)
  <2>1. ready[i] \in Msgs(n)
    BY <1>8
  <2>. QED
    BY <1>1, <2>1, MsgIs
<1>15. ASSUME ~past'.overtaken PROVE Later(view', ready', gd')
  <2>1. ~Overtakes
    BY <1>9, <1>15
  <2>2. Len(ready) = 0
    <3>. SUFFICES ASSUME Len(ready) # 0 PROVE FALSE
      OBVIOUS
    <3>1. 1 \in DOMAIN ready /\ 1 \in 1..Len(ready)
      BY <1>8
    <3>2. ready[1].epoch = Asked.epoch /\ ready[1].seq <= Asked.seq
      BY <1>1, <1>4, <1>14, <3>1
    <3>. QED
      BY <2>1, <3>1, <3>2 DEF Overtakes
  <2>. QED
    BY <1>1, <1>2, <1>7, <1>8, <1>10, <2>2 DEF Later
<1>16. Whole(view', ready', gd')
  BY <1>1, <1>2, <1>7, <1>8, <1>10, <1>14 DEF Whole
<1>17. Chain(view', ready', gd', past'.overtaken, past'.abandoned)
  BY <1>15, <1>16 DEF Chain
<1>. QED
  BY <1>1, <1>2, <1>12, <1>13, <1>17, UdpKeeps DEF Receiver

LEMMA ReplayKeeps == FeedInv /\ pub.epoch = 1 /\ ReplayRecovery => FeedInv'
<1>. SUFFICES ASSUME FeedInv, pub.epoch = 1, ReplayRecovery PROVE FeedInv'
  OBVIOUS
<1>. DEFINE n == pub.seq
            x == IF pend.snapshot THEN 0 ELSE pend.fromSeq
            A == Asked.msgs
<1>1. /\ Base /\ n \in Nat /\ Shape /\ Pursued /\ Excused /\ Udp
      /\ Chain(view, ready, gd, past.overtaken, past.abandoned)
  BY DEF FeedInv, Base, Lives, ReplayRecovery
<1>2. PICK k \in 0..Len(A) :
        LET cut == Asked.snap \/ k < Len(A)
            w == Woven(SubSeq(A, 1, k))
        IN /\ cut => past.fails < Feed.maxFails
           /\ gd' = w.s /\ ready' = w.out
           /\ past' = [past EXCEPT !.fails = IF cut THEN @ + 1 ELSE @, !.gaveUp = @ \/ cut,
                                   !.abandoned = w.abandoned]
  BY DEF ReplayRecovery
<1>3. pend' = NoPending /\ UNCHANGED <<feed, pub, net, sess, view>>
  BY DEF ReplayRecovery
<1>. DEFINE cut == Asked.snap \/ k < Len(A)
            ms == SubSeq(A, 1, k)
            w == Woven(ms)
<1>4. /\ x \in Nat /\ x <= gd.next /\ gd.next \in Nat /\ StreamOK(gd, n) /\ view.seq \in Nat
      /\ past \in Pasts /\ past.overtaken \in BOOLEAN /\ past.abandoned \in BOOLEAN
      /\ ready \in Seq(Msgs(n))
  BY <1>1 DEF Shape, Pendings, Pasts, Views, Pursued, StreamOK, Streams
<1>5. /\ A \in Seq(Msgs(n)) /\ \A i \in 1..Len(A) : A[i].seq = x + i - 1
      /\ ~Asked.snap => x + Len(A) > n
      /\ Asked.snap \in BOOLEAN
  <2>1. Asked = ResendFrom(x)
    BY DEF Asked
  <2>2. CASE Asked = SnapFrame(1, n)
    BY <2>2 DEF SnapFrame
  <2>3. CASE x > n /\ Asked = IncFrame(<<>>)
    BY <1>1, <1>4, <2>3 DEF IncFrame
  <2>4. CASE /\ x \in 1..n
             /\ Asked = IncFrame([i \in 1..(n - x + 1) |-> Message(1, x + i - 1)])
    <3>1. A = [i \in 1..(n - x + 1) |-> Message(1, x + i - 1)] /\ Asked.snap = FALSE
      BY <2>4 DEF IncFrame
    <3>. HIDE DEF A, x
    <3>2. /\ A \in Seq(Msgs(n)) /\ Len(A) = n - x + 1
          /\ \A i \in 1..Len(A) : A[i].seq = x + i - 1
      BY <1>1, <2>4, <3>1, ReplayIs
    <3>3. x + Len(A) > n
      BY <1>1, <1>4, <3>2
    <3>. QED
      BY <3>1, <3>2, <3>3 DEF A
  <2>. HIDE DEF x, A
  <2>. QED
    BY <1>1, <1>4, <2>1, <2>2, <2>3, <2>4, ResendIs
<1>. HIDE DEF x, A
<1>6. ms \in Seq(Msgs(n)) /\ Len(ms) = k /\ k \in Nat /\ \A i \in 1..Len(ms) : ms[i].seq = x + i - 1
  <2>1. Len(A) \in Nat /\ k \in Nat /\ k <= Len(A)
    BY <1>5
  <2>2. ms \in Seq(Msgs(n)) /\ Len(ms) = k /\ \A i \in 1..k : ms[i] = A[i]
    BY <1>5, <2>1, SubSeqProperties
  <2>. QED
    BY <1>5, <2>1, <2>2
<1>. HIDE DEF ms
<1>7. /\ StreamOK(w.s, n) /\ w.out \in Seq(Msgs(n)) /\ w.abandoned \in BOOLEAN
      /\ Chain(view, w.out, w.s, past.overtaken, w.abandoned)
      /\ w.s.next >= gd.next /\ w.s.next >= x + Len(ms)
      /\ past.abandoned => w.abandoned
  BY <1>1, <1>4, <1>6, FeedIs, WovenIs
<1>8. /\ gd' = w.s /\ ready' = w.out
      /\ past' = [past EXCEPT !.fails = IF cut THEN @ + 1 ELSE @, !.gaveUp = @ \/ cut,
                              !.abandoned = w.abandoned]
  BY <1>2 DEF ms
<1>9. cut \in BOOLEAN
  BY <1>5
<1>. HIDE DEF w
<1>10. /\ past' \in Pasts /\ past'.overtaken = past.overtaken /\ past'.abandoned = w.abandoned
       /\ past'.gaveUp = (past.gaveUp \/ cut)
  <2>. DEFINE b == past.gaveUp \/ cut
              c == IF cut THEN past.fails + 1 ELSE past.fails
  <2>1. b \in BOOLEAN /\ c \in Nat
    BY <1>4, <1>9 DEF Pasts
  <2>2. past' = [past EXCEPT !.fails = c, !.gaveUp = b, !.abandoned = w.abandoned]
    BY <1>8
  <2>. HIDE DEF b, c
  <2>3. /\ past' \in Pasts /\ past'.overtaken = past.overtaken /\ past'.abandoned = w.abandoned
        /\ past'.gaveUp = b
    BY <1>4, <1>7, <2>1, <2>2 DEF Pasts
  <2>. QED
    BY <2>3, Zenon DEF b
<1>11. pend' \in Pendings /\ pend'.fromSeq = 0
  BY <1>3 DEF Pendings, NoPending
<1>12. Shape'
  BY <1>1, <1>3, <1>7, <1>8, <1>10, <1>11 DEF Shape
<1>13. ASSUME ~cut PROVE ~w.s.open
  <2>1. ~Asked.snap /\ k = Len(A)
    BY <1>5, <1>6, <1>13
  <2>2. w.s.next > n /\ w.s.next \in Nat
    BY <1>1, <1>4, <1>5, <1>6, <1>7, <2>1 DEF StreamOK, Streams
  <2>3. \A h \in w.s.held : h.seq \in 1..n /\ h.seq > w.s.next
    BY <1>1, <1>7, MsgIs DEF StreamOK, Streams, Ahead
  <2>4. w.s.held = {}
    BY <1>1, <2>2, <2>3
  <2>. QED
    BY <1>7, <2>4 DEF StreamOK
<1>14. Pursued'
  <2>1. w.s.next \in Nat
    BY <1>7 DEF StreamOK, Streams
  <2>2. pend'.fromSeq <= gd'.next
    BY <1>8, <1>11, <2>1
  <2>. QED
    BY <1>8, <1>10, <1>13, <2>2 DEF Pursued
<1>15. Excused'
  BY <1>1, <1>3, <1>7, <1>10 DEF Excused
<1>16. Chain(view', ready', gd', past'.overtaken, past'.abandoned)
  BY <1>3, <1>7, <1>8, <1>10
<1>. QED
  BY <1>1, <1>3, <1>12, <1>14, <1>15, <1>16, UdpKeeps DEF Receiver

-----------------------------------------------------------------------------
(* The frames of a session *)

LEMMA LinksAppend ==
  ASSUME NEW n \in Nat, NEW e, NEW q \in Seq(Frames(n)), Links(e, q),
         NEW f \in Frames(n), FrameOK(f), Follows(End(e, q), f)
  PROVE  /\ Append(q, f) \in Seq(Frames(n)) /\ Links(e, Append(q, f))
         /\ End(e, Append(q, f)) = EndOf(f)
<1>. DEFINE p == Append(q, f)
            l == Len(q)
<1>1. /\ l \in Nat /\ p \in Seq(Frames(n)) /\ Len(p) = l + 1 /\ p[l + 1] = f
      /\ \A i \in 1..l : p[i] = q[i]
  OBVIOUS
<1>. HIDE DEF p, l
<1>2. ASSUME NEW i \in 1..Len(p)
      PROVE  FrameOK(p[i]) /\ Follows(IF i = 1 THEN e ELSE EndOf(p[i - 1]), p[i])
  <2>1. CASE i \in 1..l
    <3>1. FrameOK(q[i]) /\ Follows(IF i = 1 THEN e ELSE EndOf(q[i - 1]), q[i])
      BY <2>1 DEF Links, l
    <3>2. p[i] = q[i] /\ (i # 1 => p[i - 1] = q[i - 1])
      BY <1>1, <2>1
    <3>. QED
      BY <3>1, <3>2
  <2>2. CASE i = l + 1
    <3>1. End(e, q) = IF i = 1 THEN e ELSE EndOf(p[i - 1])
      BY <1>1, <2>2 DEF End, l
    <3>. QED
      BY <1>1, <2>2, <3>1
  <2>. QED
    BY <1>1, <2>1, <2>2
<1>3. Links(e, p)
  BY <1>2 DEF Links
<1>4. End(e, p) = EndOf(f)
  BY <1>1 DEF End
<1>. QED
  BY <1>1, <1>3, <1>4 DEF p

LEMMA LinksTail ==
  ASSUME NEW n \in Nat, NEW e, NEW q \in Seq(Frames(n)), q # <<>>, Links(e, q)
  PROVE  /\ Head(q) \in Frames(n) /\ FrameOK(Head(q)) /\ Follows(e, Head(q))
         /\ Tail(q) \in Seq(Frames(n)) /\ Links(EndOf(Head(q)), Tail(q))
         /\ End(EndOf(Head(q)), Tail(q)) = End(e, q)
<1>. DEFINE p == Tail(q)
            f == Head(q)
            l == Len(q)
<1>1. /\ l \in Nat \ {0} /\ p \in Seq(Frames(n)) /\ Len(p) = l - 1 /\ f = q[1] /\ f \in Frames(n)
      /\ \A i \in 1..Len(p) : p[i] = q[i + 1]
  BY HeadTailProperties
<1>. HIDE DEF p, f, l
<1>2. FrameOK(f) /\ Follows(e, f)
  BY <1>1 DEF Links, l
<1>3. ASSUME NEW i \in 1..Len(p)
      PROVE  FrameOK(p[i]) /\ Follows(IF i = 1 THEN EndOf(f) ELSE EndOf(p[i - 1]), p[i])
  <2>1. i + 1 \in 1..Len(q) /\ i + 1 # 1 /\ (i + 1) - 1 = i /\ (i # 1 => i - 1 \in 1..Len(p) /\ (i - 1) + 1 = i)
    BY <1>1 DEF l
  <2>2. FrameOK(q[i + 1]) /\ Follows(EndOf(q[i]), q[i + 1])
    BY <2>1 DEF Links
  <2>3. p[i] = q[i + 1] /\ (i # 1 => p[i - 1] = q[i])
    BY <1>1, <2>1
  <2>4. i = 1 => f = q[i]
    BY <1>1
  <2>. QED
    BY <2>2, <2>3, <2>4
<1>4. Links(EndOf(f), p)
  BY <1>3 DEF Links
<1>5. End(EndOf(f), p) = End(e, q)
  <2>1. CASE l = 1
    BY <1>1, <2>1 DEF End, l
  <2>2. CASE l # 1
    <3>1. Len(p) # 0 /\ Len(p) \in 1..Len(p) /\ Len(p) + 1 = l
      BY <1>1, <2>2
    <3>2. p[Len(p)] = q[l]
      BY <1>1, <3>1
    <3>. QED
      BY <1>1, <3>1, <3>2 DEF End, l
  <2>. QED
    BY <2>1, <2>2
<1>. QED
  BY <1>1, <1>2, <1>4, <1>5 DEF p, f

LEMMA EndIs ==
  ASSUME NEW n \in Nat, NEW f \in Frames(n), FrameOK(f)
  PROVE  /\ EndOf(f) \in 0..n
         /\ ~f.snap => /\ f.msgs \in Seq(Msgs(n)) /\ Len(f.msgs) \in Nat \ {0}
                       /\ EndOf(f) = f.msgs[1].seq + Len(f.msgs) - 1
                       /\ f.msgs[Len(f.msgs)].epoch = 1
<1>1. f.msgs \in Seq(Msgs(n)) /\ f.seq \in 0..n
  BY DEF Frames
<1>2. CASE f.snap
  BY <1>1, <1>2 DEF EndOf
<1>3. CASE ~f.snap
  <2>1. /\ f.msgs # <<>>
        /\ \A i \in 1..Len(f.msgs) : f.msgs[i].seq = f.msgs[1].seq + i - 1
    BY <1>3 DEF FrameOK
  <2>2. Len(f.msgs) \in Nat \ {0} /\ Len(f.msgs) \in 1..Len(f.msgs)
    BY <1>1, <2>1
  <2>3. f.msgs[Len(f.msgs)] \in Msgs(n)
    BY <1>1, <2>2
  <2>4. f.msgs[Len(f.msgs)].seq \in 1..n /\ f.msgs[Len(f.msgs)].epoch = 1
    BY <2>3, MsgIs
  <2>5. EndOf(f) = f.msgs[Len(f.msgs)].seq
    BY <1>3 DEF EndOf
  <2>. QED
    BY <1>1, <2>1, <2>2, <2>4, <2>5
<1>. QED
  BY <1>2, <1>3

\* A frame that goes on from the book takes it to the frame's end.
LEMMA ApplyFrameIs ==
  ASSUME NEW n \in Nat, NEW v \in Views(n), v.fault = "none",
         NEW f \in Frames(n), FrameOK(f), Follows(v.seq, f)
  PROVE  ApplyFrame(v, f) = [epoch |-> 1, seq |-> EndOf(f), fault |-> "none"]
<1>1. CASE f.snap
  BY <1>1 DEF ApplyFrame, FrameOK, EndOf
<1>2. CASE ~f.snap
  <2>. DEFINE ms == f.msgs
              L == Len(ms)
              Fits(g) == g = [k \in 0..Len(f.msgs) |-> IF k = 0 THEN v ELSE Apply(g[k - 1], f.msgs[k])]
              C == CHOOSE g : Fits(g)
              B(k) == [epoch |-> 1, seq |-> v.seq + k, fault |-> "none"]
              b == [k \in 0..L |-> IF k = 0 THEN v ELSE B(k)]
  <2>1. ApplyFrame(v, f) = C[Len(f.msgs)]
    BY <1>2, Zenon DEF ApplyFrame
  <2>2. /\ ms \in Seq(Msgs(n)) /\ L \in Nat \ {0} /\ EndOf(f) = ms[1].seq + L - 1
        /\ \A i \in 1..L : ms[i].seq = ms[1].seq + i - 1
        /\ ms[1].seq = v.seq + 1 /\ v.seq \in Nat /\ v.epoch \in {0, 1}
    BY <1>2, EndIs DEF FrameOK, Follows, Views
  <2>3. \A i \in 1..L : ms[i].epoch = 1 /\ ms[i].seq = v.seq + i
    <3>. TAKE i \in 1..L
    <3>1. ms[i] \in Msgs(n)
      BY <2>2
    <3>2. ms[i].epoch = 1
      BY <3>1, MsgIs
    <3>3. ms[i].seq = (v.seq + 1) + i - 1
      BY <2>2
    <3>. QED
      BY <2>2, <3>2, <3>3
  <2>4. ASSUME NEW k \in 1..L, NEW w, w.epoch \in {0, 1}, w.seq = v.seq + (k - 1), w.fault = "none"
        PROVE  Apply(w, ms[k]) = B(k)
    <3>1. ms[k].epoch = 1 /\ ms[k].seq = w.seq + 1 /\ w.seq \in Nat
      <4>. HIDE DEF ms, L
      <4>1. ms[k].epoch = 1 /\ ms[k].seq = v.seq + k
        BY <2>3
      <4>2. k \in Nat /\ v.seq \in Nat
        BY <2>2
      <4>. QED
        BY <2>4, <4>1, <4>2
    <3>2. Faulty(w, ms[k]) = "none"
      BY <2>4, <3>1 DEF Faulty
    <3>. QED
      BY <2>3, <2>4, <3>1, <3>2 DEF Apply
  <2>5. ASSUME NEW k \in 0..L
        PROVE  b[k].epoch \in {0, 1} /\ b[k].seq = v.seq + k /\ b[k].fault = "none"
    BY <2>2
  <2>6. Fits(b)
    <3>1. ASSUME NEW k \in 1..L PROVE b[k] = Apply(b[k - 1], ms[k])
      <4>1. k - 1 \in 0..L /\ k \in 0..L /\ k # 0
        BY <2>2
      <4>2. b[k] = B(k)
        BY <4>1
      <4>3. b[k - 1].epoch \in {0, 1} /\ b[k - 1].seq = v.seq + (k - 1) /\ b[k - 1].fault = "none"
        BY <2>5, <4>1
      <4>. HIDE DEF b, B
      <4>. QED
        BY <2>4, <4>2, <4>3
    <3>2. \A k \in 0..L : b[k] = IF k = 0 THEN v ELSE Apply(b[k - 1], ms[k])
      <4>. TAKE k \in 0..L
      <4>1. CASE k = 0
        BY <4>1
      <4>2. CASE k # 0
        <5>1. k \in 1..L
          BY <2>2, <4>2
        <5>. QED
          BY <3>1, <4>2, <5>1
      <4>. QED
        BY <4>1, <4>2
    <3>3. b = [k \in 0..L |-> b[k]]
      OBVIOUS
    <3>. HIDE DEF b
    <3>. QED
      BY <3>2, <3>3
  <2>7. Fits(C)
    <3>1. \E g : Fits(g)
      BY <2>6
    <3>. HIDE DEF Fits
    <3>. QED
      BY <3>1, Zenon
  <2>8. \A k \in 0..L : C[k] = IF k = 0 THEN v ELSE Apply(C[k - 1], ms[k])
    BY <2>7
  <2>. HIDE DEF C, Fits, b, B
  <2>9. \A k \in 1..L : C[k] = B(k)
    <3>. DEFINE Bad == {k \in 1..L : C[k] # B(k)}
    <3>. SUFFICES ASSUME Bad # {} PROVE FALSE
      OBVIOUS
    <3>1. PICK k \in Bad : \A y \in Bad : k <= y
      <4>1. Bad \in SUBSET Nat
        BY <2>2
      <4>. QED
        BY <4>1, LeastOf
    <3>2. k \in 1..L /\ k \in 0..L /\ k # 0 /\ k - 1 \in 0..L /\ ~(k <= k - 1)
      BY <2>2
    <3>3. C[k - 1].epoch \in {0, 1} /\ C[k - 1].seq = v.seq + (k - 1) /\ C[k - 1].fault = "none"
      <4>1. CASE k = 1
        <5>1. k - 1 = 0 /\ C[0] = v
          BY <2>2, <2>8, <3>2, <4>1
        <5>. QED
          BY <2>2, <5>1
      <4>2. CASE k # 1
        <5>1. k - 1 \in 1..L /\ k - 1 \notin Bad
          <6>1. k - 1 \in 1..L
            BY <2>2, <3>2, <4>2
          <6>2. k - 1 \in Bad => k <= k - 1
            BY <3>1
          <6>. QED
            BY <3>2, <6>1, <6>2
        <5>2. C[k - 1] = B(k - 1)
          BY <5>1
        <5>. QED
          BY <5>2 DEF B
      <4>. QED
        BY <4>1, <4>2
    <3>4. C[k] = Apply(C[k - 1], ms[k])
      BY <2>8, <3>2
    <3>5. C[k] = B(k)
      BY <2>4, <3>2, <3>3, <3>4
    <3>. QED
      BY <3>1, <3>5
  <2>10. C[L] = B(L) /\ v.seq + L = EndOf(f)
    <3>1. L \in 1..L
      BY <2>2
    <3>2. C[L] = B(L)
      BY <2>9, <3>1
    <3>3. ms[1].seq = v.seq + 1 /\ EndOf(f) = ms[1].seq + L - 1 /\ L \in Nat /\ v.seq \in Nat
      BY <2>2
    <3>. HIDE DEF ms, L
    <3>4. v.seq + L = EndOf(f)
      BY <3>3
    <3>. QED
      BY <3>2, <3>4
  <2>. QED
    BY <2>1, <2>10 DEF B
<1>. QED
  BY <1>1, <1>2

-----------------------------------------------------------------------------
(* The session *)

\* What is true of a session's queue, whatever it waits for.
Queued(s, e, n) == DOMAIN s = SessionFields /\ s.queue \in Seq(Frames(n)) /\ Links(e, s.queue)

\* A frame that goes on from the last is queued, or the session dies.
LEMMA EnqueueIs ==
  ASSUME NEW n \in Nat, NEW e, NEW s, NEW f \in Frames(n), NEW cap \in Nat, FrameOK(f),
         DOMAIN s = SessionFields, s.alive \in BOOLEAN,
         s.alive => Queued(s, e, n) /\ Follows(End(e, s.queue), f)
  PROVE  LET t == Enqueue(s, f, cap)
         IN  /\ DOMAIN t = SessionFields /\ t.alive \in BOOLEAN
             /\ t.alive => Queued(t, e, n) /\ End(e, t.queue) = EndOf(f)
<1>. DEFINE t == Enqueue(s, f, cap)
<1>1. CASE ~s.alive
  BY <1>1 DEF Enqueue
<1>2. CASE s.alive
  <2>1. DOMAIN s = SessionFields /\ s.queue \in Seq(Frames(n)) /\ Links(e, s.queue) /\ Follows(End(e, s.queue), f)
    BY <1>2 DEF Queued
  <2>2. CASE Len(s.queue) >= cap
    <3>1. t = Killed(s)
      BY <1>2, <2>2 DEF Enqueue
    <3>2. t.alive = FALSE /\ DOMAIN t = SessionFields
      BY <2>1, <3>1 DEF Killed, SessionFields
    <3>. QED
      BY <3>2
  <2>3. CASE ~(Len(s.queue) >= cap)
    <3>. DEFINE q == Append(s.queue, f)
    <3>1. t = [s EXCEPT !.queue = q]
      BY <1>2, <2>3 DEF Enqueue
    <3>2. q \in Seq(Frames(n)) /\ Links(e, q) /\ End(e, q) = EndOf(f)
      BY <2>1, LinksAppend
    <3>. HIDE DEF q, t
    <3>3. t.queue = q /\ t.alive = s.alive /\ DOMAIN t = SessionFields
      BY <2>1, <3>1 DEF SessionFields
    <3>. QED
      BY <1>2, <3>1, <3>2, <3>3 DEF Queued, t, q
  <2>. QED
    BY <2>2, <2>3
<1>. QED
  BY <1>1, <1>2

LEMMA EnqueueAppends ==
  ASSUME NEW s, NEW f, NEW cap \in Nat, DOMAIN s = SessionFields, Enqueue(s, f, cap).alive
  PROVE  Enqueue(s, f, cap) = [s EXCEPT !.queue = Append(s.queue, f)]
<1>1. Killed(s).alive = FALSE
  BY DEF Killed, SessionFields
<1>. QED
  BY <1>1 DEF Enqueue

\* An increment as a frame of its own.
LEMMA IncrementIs ==
  ASSUME NEW n \in Nat, NEW m \in Msgs(n)
  PROVE  LET f == IncFrame(<<m>>)
         IN  /\ f \in Frames(n) /\ FrameOK(f) /\ EndOf(f) = m.seq
             /\ \A e : e + 1 = m.seq => Follows(e, f)
<1>. DEFINE f == IncFrame(<<m>>)
            ms == <<m>>
<1>1. ms \in Seq(Msgs(n)) /\ Len(ms) = 1 /\ ms[1] = m /\ ms # <<>>
  OBVIOUS
<1>. HIDE DEF ms
<1>2. f = [snap |-> FALSE, epoch |-> 0, seq |-> 0, msgs |-> ms]
  BY DEF IncFrame, ms
<1>. HIDE DEF f
<1>3. f \in Frames(n)
  BY <1>1, <1>2 DEF Frames
<1>4. m.seq \in Nat
  BY MsgIs
<1>5. f.snap = FALSE /\ f.msgs = ms
  BY <1>2
<1>6. FrameOK(f)
  <2>1. \A i \in 1..Len(ms) : ms[i].seq = ms[1].seq + i - 1
    BY <1>1, <1>4
  <2>. QED
    BY <1>1, <1>5, <2>1 DEF FrameOK
<1>7. EndOf(f) = m.seq
  BY <1>1, <1>5 DEF EndOf
<1>8. \A e : e + 1 = m.seq => Follows(e, f)
  BY <1>1, <1>5 DEF Follows
<1>. QED
  BY <1>3, <1>6, <1>7, <1>8 DEF f

\* So a message that goes on from the last is queued, or the session dies.
LEMMA IncrementQueued ==
  ASSUME NEW n \in Nat, NEW e, NEW s, NEW m \in Msgs(n), NEW cap \in Nat,
         DOMAIN s = SessionFields, s.alive \in BOOLEAN,
         s.alive => Queued(s, e, n) /\ End(e, s.queue) + 1 = m.seq
  PROVE  LET t == Enqueue(s, IncFrame(<<m>>), cap)
         IN  /\ DOMAIN t = SessionFields /\ t.alive \in BOOLEAN
             /\ t.alive => Queued(t, e, n) /\ End(e, t.queue) = m.seq
<1>. DEFINE f == IncFrame(<<m>>)
<1>1. f \in Frames(n) /\ FrameOK(f) /\ EndOf(f) = m.seq /\ \A x : x + 1 = m.seq => Follows(x, f)
  BY IncrementIs
<1>. HIDE DEF f
<1>2. s.alive => Queued(s, e, n) /\ Follows(End(e, s.queue), f)
  BY <1>1
<1>3. LET t == Enqueue(s, f, cap)
      IN  /\ DOMAIN t = SessionFields /\ t.alive \in BOOLEAN
          /\ t.alive => Queued(t, e, n) /\ End(e, t.queue) = EndOf(f)
  BY <1>1, <1>2, EnqueueIs
<1>. QED
  BY <1>1, <1>3 DEF f

LEMMA SessionGrows ==
  ASSUME NEW n \in Nat, NEW s, NEW v, SessionOK(s, v, n), s.sub = "none"
  PROVE  SessionOK(s, v, n + 1)
<1>1. s.queue \in Seq(Frames(n + 1))
  BY MessagesGrow DEF SessionOK
<1>. QED
  BY <1>1 DEF SessionOK

\* A message is queued, parked or of no interest; or the session dies.
LEMMA OnIncrementIs ==
  ASSUME NEW n \in Nat, NEW s, NEW v, SessionOK(s, v, n), s.alive \in BOOLEAN, s.alive,
         NEW cap \in Nat, NEW pendingCap \in Nat
  PROVE  LET t == OnIncrement(s, Message(1, n + 1), cap, pendingCap)
         IN  /\ t.alive \in BOOLEAN
             /\ t.alive => SessionOK(t, v, n + 1)
             /\ s.sub = "none" => t = s
<1>. DEFINE m == Message(1, n + 1)
            t == OnIncrement(s, m, cap, pendingCap)
<1>0. s.alive = TRUE
  OBVIOUS
<1>. USE <1>0
<1>1. m \in Msgs(n + 1) /\ m.epoch = 1 /\ m.seq = n + 1 /\ n + 1 \in Nat
  BY MsgsGrow DEF Message
<1>2. /\ DOMAIN s = SessionFields /\ s.queue \in Seq(Frames(n)) /\ Links(v.seq, s.queue)
      /\ s.sub \in {"none", "parked", "taken", "armed"}
  BY DEF SessionOK
<1>3. s.queue \in Seq(Frames(n + 1))
  BY <1>2, MessagesGrow
<1>. HIDE DEF m
<1>4. CASE s.sub = "none"
  <2>1. t = s
    BY <1>4 DEF OnIncrement
  <2>. QED
    BY <1>4, <2>1, SessionGrows DEF m
<1>5. CASE s.sub \in {"parked", "taken"}
  <2>1. t = IF Len(s.pending) >= pendingCap THEN Killed(s) ELSE [s EXCEPT !.pending = Append(@, m)]
    BY <1>5 DEF OnIncrement
  <2>2. CASE Len(s.pending) >= pendingCap
    <3>1. t.alive = FALSE
      BY <1>2, <2>1, <2>2 DEF Killed, SessionFields
    <3>. QED
      BY <1>5, <3>1 DEF m
  <2>3. CASE ~(Len(s.pending) >= pendingCap)
    <3>. DEFINE p == Append(s.pending, m)
                l == Len(s.pending)
    <3>1. /\ s.pending \in Seq(Msgs(n)) /\ l <= n
          /\ \A i \in 1..l : s.pending[i].seq = n - l + i
      BY <1>5 DEF SessionOK, Parked
    <3>2. l \in Nat /\ s.pending \in Seq(Msgs(n + 1))
      BY <3>1, MessagesGrow
    <3>3. /\ p \in Seq(Msgs(n + 1)) /\ Len(p) = l + 1 /\ p[l + 1] = m
          /\ \A i \in 1..l : p[i] = s.pending[i]
      BY <1>1, <3>2
    <3>4. t = [s EXCEPT !.pending = p]
      BY <2>1, <2>3
    <3>. HIDE DEF t, p, l
    <3>5. /\ t.pending = p /\ t.queue = s.queue /\ t.sub = s.sub /\ t.from = s.from
          /\ t.taken = s.taken /\ t.alive = TRUE /\ DOMAIN t = SessionFields
      BY <1>2, <3>4 DEF SessionFields
    <3>6. Parked(t, n + 1)
      <4>1. ASSUME NEW i \in 1..(l + 1) PROVE p[i].seq = (n + 1) - (l + 1) + i
        <5>1. CASE i \in 1..l
          BY <3>1, <3>2, <3>3, <5>1, SMTT(40)
        <5>2. CASE i = l + 1
          BY <1>1, <3>2, <3>3, <5>2
        <5>. QED
          BY <3>2, <5>1, <5>2
      <4>2. t.pending = p /\ Len(t.pending) = l + 1 /\ t.pending \in Seq(Msgs(n + 1)) /\ l + 1 <= n + 1
        BY <3>1, <3>2, <3>3, <3>5
      <4>. QED
        BY <4>1, <4>2 DEF Parked
    <3>7. Requested(t, v)
      BY <1>5, <3>5 DEF SessionOK, Requested
    <3>8. ASSUME s.sub = "taken" PROVE AnswerOK(t, v, n + 1)
      <4>1. AnswerOK(s, v, n) /\ AnsweredTo(t) = AnsweredTo(s)
        BY <3>5, <3>8 DEF SessionOK, AnsweredTo
      <4>2. AnsweredTo(s) \in (n - l)..n
        BY <4>1 DEF AnswerOK, l
      <4>3. AnsweredTo(t) \in ((n + 1) - Len(t.pending))..(n + 1)
        BY <3>2, <3>3, <3>5, <4>1, <4>2
      <4>4. t.taken \in Frames(n + 1)
        BY <3>5, <4>1, MessagesGrow DEF AnswerOK
      <4>. QED
        BY <3>5, <4>1, <4>3, <4>4 DEF AnswerOK
    <3>9. SessionOK(t, v, n + 1)
      BY <1>2, <1>3, <1>5, <3>5, <3>6, <3>7, <3>8 DEF SessionOK
    <3>. QED
      BY <1>5, <3>5, <3>9 DEF t, m
  <2>. QED
    BY <2>2, <2>3
<1>6. CASE s.sub = "armed"
  <2>. DEFINE u == [s EXCEPT !.epoch = 1]
              f == IncFrame(<<m>>)
  <2>1. End(v.seq, s.queue) = n /\ s.deliverFrom \in Nat /\ s.deliverFrom <= n + 1 /\ s.epoch \in {0, 1}
    BY <1>6 DEF SessionOK
  <2>2. t = Enqueue(u, f, cap)
    <3>. DEFINE moved == s.epoch \notin {0, m.epoch}
                w == [s EXCEPT !.epoch = m.epoch, !.deliverFrom = IF moved THEN m.seq ELSE @]
    <3>1. ~moved
      BY <1>1, <2>1
    <3>2. w = [s EXCEPT !.epoch = 1, !.deliverFrom = s.deliverFrom]
      BY <1>1, <3>1
    <3>. HIDE DEF w
    <3>3. w = u
      BY <1>2, <3>2 DEF SessionFields
    <3>4. w.deliverFrom = s.deliverFrom
      BY <1>2, <3>2 DEF SessionFields
    <3>5. ~(m.seq < w.deliverFrom)
      BY <1>1, <2>1, <3>4
    <3>6. t = IF m.seq < w.deliverFrom THEN w ELSE Enqueue(w, IncFrame(<<m>>), cap)
      BY <1>6, Zenon DEF OnIncrement, w
    <3>. QED
      BY <3>3, <3>5, <3>6
  <2>3. /\ u.alive = TRUE /\ u.queue = s.queue /\ u.sub = "armed" /\ u.deliverFrom = s.deliverFrom
        /\ u.epoch = 1 /\ DOMAIN u = SessionFields
    BY <1>2, <1>6 DEF SessionFields
  <2>4. f \in Frames(n + 1) /\ FrameOK(f) /\ EndOf(f) = n + 1 /\ Follows(n, f)
    BY <1>1, IncrementIs
  <2>. HIDE DEF u, f, t
  <2>5. Queued(u, v.seq, n + 1) /\ Follows(End(v.seq, u.queue), f)
    BY <1>2, <1>3, <2>1, <2>3, <2>4 DEF Queued
  <2>. DEFINE x == Enqueue(u, f, cap)
  <2>6. /\ x.alive \in BOOLEAN
        /\ x.alive => /\ Queued(x, v.seq, n + 1) /\ End(v.seq, x.queue) = EndOf(f)
                      /\ x = [u EXCEPT !.queue = Append(u.queue, f)]
    <3>1. /\ x.alive \in BOOLEAN
          /\ x.alive => Queued(x, v.seq, n + 1) /\ End(v.seq, x.queue) = EndOf(f)
      BY <1>1, <2>3, <2>4, <2>5, EnqueueIs
    <3>2. ASSUME x.alive PROVE x = [u EXCEPT !.queue = Append(u.queue, f)]
      BY <2>3, <3>2, EnqueueAppends
    <3>. QED
      BY <3>1, <3>2
  <2>7. x = t
    BY <2>2
  <2>. HIDE DEF x
  <2>8. ASSUME t.alive PROVE SessionOK(t, v, n + 1)
    <3>1. /\ Queued(t, v.seq, n + 1) /\ End(v.seq, t.queue) = n + 1
          /\ t = [u EXCEPT !.queue = Append(u.queue, f)]
      BY <2>4, <2>6, <2>7, <2>8
    <3>2. t.sub = "armed" /\ t.deliverFrom = s.deliverFrom /\ t.epoch = 1
      BY <2>3, <3>1 DEF SessionFields
    <3>. QED
      BY <1>1, <2>1, <3>1, <3>2 DEF SessionOK, Queued
  <2>. QED
    BY <1>6, <2>6, <2>7, <2>8 DEF t, m
<1>. QED
  BY <1>2, <1>4, <1>5, <1>6

\* The last step of armFrom: the answer and what was parked go into the queue, without a hole.
LEMMA ArmIs ==
  ASSUME NEW n \in Nat, NEW s, NEW v, v.seq \in 0..n, SessionOK(s, v, n), s.alive = TRUE, s.sub = "taken",
         NEW cap \in Nat
  PROVE  LET t == Arm(s, cap)
         IN  t.alive \in BOOLEAN /\ (t.alive => SessionOK(t, v, n))
<1>. DEFINE a == s.taken
            none == ~a.snap /\ a.msgs = <<>>
            from == IF a.snap THEN a.seq + 1 ELSE IF none THEN s.from ELSE a.msgs[Len(a.msgs)].seq + 1
            epoch == IF a.snap THEN a.epoch ELSE IF none THEN 0 ELSE a.msgs[Len(a.msgs)].epoch
            first == IF none THEN s ELSE Enqueue(s, a, cap)
            L == Len(s.pending)
            S(t, k) == IF s.pending[k].seq >= from THEN Enqueue(t, IncFrame(<<s.pending[k]>>), cap) ELSE t
            Fits(g, N) == g = [k \in 0..N |-> IF k = 0 THEN first ELSE S(g[k - 1], k)]
            C == CHOOSE g : Fits(g, L)
            sub == IF s.once THEN "none" ELSE "armed"
            to == AnsweredTo(s)
<1>1. Arm(s, cap) = [C[L] EXCEPT !.sub = sub, !.deliverFrom = from, !.epoch = epoch, !.pending = <<>>]
  BY Zenon DEF Arm
<1>2. /\ DOMAIN s = SessionFields /\ s.queue \in Seq(Frames(n)) /\ Links(v.seq, s.queue)
      /\ Parked(s, n) /\ Requested(s, v) /\ AnswerOK(s, v, n)
  BY DEF SessionOK
<1>3. /\ s.pending \in Seq(Msgs(n)) /\ L \in Nat /\ L <= n
      /\ \A i \in 1..L : s.pending[i].seq = n - L + i
  <2>1. /\ s.pending \in Seq(Msgs(n)) /\ L <= n
        /\ \A i \in 1..L : s.pending[i].seq = n - L + i
    BY <1>2, Zenon DEF Parked
  <2>2. L \in Nat
    BY <2>1
  <2>. QED
    BY <2>1, <2>2, Zenon
<1>4. a \in Frames(n) /\ to \in (n - L)..n /\ (none <=> Nothing(a))
  BY <1>2 DEF AnswerOK, Nothing
<1>5. to \in 0..n /\ from = to + 1 /\ epoch \in {0, 1}
  <2>1. to \in 0..n
    BY <1>3, <1>4
  <2>2. CASE none
    <3>1. to = s.from - 1 /\ s.from \in Nat /\ ~a.snap
      BY <1>2, <1>4, <2>2 DEF AnsweredTo, Requested
    <3>. QED
      BY <2>1, <2>2, <3>1
  <2>3. CASE ~none
    <3>1. to = EndOf(a) /\ FrameOK(a)
      BY <1>2, <1>4, <2>3 DEF AnsweredTo, AnswerOK
    <3>2. CASE a.snap
      BY <2>1, <3>1, <3>2 DEF EndOf, FrameOK
    <3>3. CASE ~a.snap
      <4>1. a.msgs[Len(a.msgs)].epoch = 1
        BY <1>4, <3>1, <3>3, EndIs
      <4>. QED
        BY <2>1, <2>3, <3>1, <3>3, <4>1 DEF EndOf
    <3>. QED
      BY <3>2, <3>3
  <2>. QED
    BY <2>2, <2>3, <2>1
\* What is queued reaches to the answer's end, or to the parked message k.
<1>. DEFINE Reach(k) == IF to >= n - L + k THEN to ELSE n - L + k
            Holds(t, k) == /\ DOMAIN t = SessionFields /\ t.alive \in BOOLEAN
                           /\ t.alive => Queued(t, v.seq, n) /\ End(v.seq, t.queue) = Reach(k)
<1>6. Holds(first, 0)
  <2>1. Reach(0) = to
    BY <1>3, <1>4
  <2>2. CASE none
    <3>1. s.from # 0 /\ to = s.from - 1
      BY <1>2, <1>4, <2>2 DEF AnswerOK, AnsweredTo
    <3>2. Len(s.queue) = 0 /\ s.from = v.seq + 1
      BY <1>2, <3>1 DEF Requested
    <3>3. End(v.seq, s.queue) = to
      BY <3>1, <3>2 DEF End
    <3>. QED
      BY <1>2, <2>1, <2>2, <3>3 DEF Queued
  <2>3. CASE ~none
    <3>1. FrameOK(a) /\ to = EndOf(a)
      BY <1>2, <1>4, <2>3 DEF AnswerOK, AnsweredTo
    <3>2. Follows(End(v.seq, s.queue), a)
      <4>1. CASE a.snap
        BY <4>1 DEF Follows
      <4>2. CASE ~a.snap
        <5>1. s.from # 0 /\ Follows(v.seq, a)
          BY <1>2, <1>4, <2>3, <4>2 DEF AnswerOK
        <5>2. Len(s.queue) = 0
          BY <1>2, <5>1 DEF Requested
        <5>. QED
          BY <5>1, <5>2 DEF End
      <4>. QED
        BY <4>1, <4>2
    <3>3. Queued(s, v.seq, n)
      BY <1>2 DEF Queued
    <3>. DEFINE t == Enqueue(s, a, cap)
    <3>6. a \in Frames(n) /\ DOMAIN s = SessionFields /\ s.alive \in BOOLEAN
      BY <1>2, <1>4
    <3>4. /\ DOMAIN t = SessionFields /\ t.alive \in BOOLEAN
          /\ t.alive => Queued(t, v.seq, n) /\ End(v.seq, t.queue) = EndOf(a)
      <4>. HIDE DEF a
      <4>. QED
        BY <3>1, <3>2, <3>3, <3>6, EnqueueIs
    <3>5. first = t
      BY <2>3
    <3>. HIDE DEF t, first, Reach
    <3>. QED
      BY <2>1, <3>1, <3>4, <3>5
  <2>. QED
    BY <2>2, <2>3
<1>7. ASSUME NEW k \in 1..L, NEW t, Holds(t, k - 1) PROVE Holds(S(t, k), k)
  <2>. DEFINE m == s.pending[k]
              u == Enqueue(t, IncFrame(<<m>>), cap)
  <2>1. m \in Msgs(n) /\ m.seq = n - L + k /\ L \in Nat /\ to \in Nat
    <3>1. m \in Msgs(n) /\ L \in Nat /\ to \in Nat
      BY <1>3, <1>5
    <3>2. m.seq = n - L + k
      BY <1>3, Zenon
    <3>. QED
      BY <3>1, <3>2
  <2>3. CASE m.seq >= from
    <3>1. Reach(k - 1) + 1 = m.seq /\ Reach(k) = m.seq
      <4>1. n - L + k >= to + 1
        BY <1>5, <2>1, <2>3
      <4>. HIDE DEF to, L, m
      <4>. QED
        BY <2>1, <4>1
    <3>. HIDE DEF Reach, L, m
    <3>2. DOMAIN t = SessionFields /\ t.alive \in BOOLEAN /\ (t.alive => Queued(t, v.seq, n) /\ End(v.seq, t.queue) + 1 = m.seq)
      BY <1>7, <3>1
    <3>3. /\ DOMAIN u = SessionFields /\ u.alive \in BOOLEAN
          /\ u.alive => Queued(u, v.seq, n) /\ End(v.seq, u.queue) = m.seq
      BY <2>1, <3>2, IncrementQueued
    <3>4. S(t, k) = u
      BY <2>3 DEF m
    <3>. HIDE DEF u, S
    <3>. QED
      BY <3>1, <3>3, <3>4
  <2>4. CASE ~(m.seq >= from)
    <3>1. Reach(k - 1) = Reach(k)
      <4>1. ~(n - L + k >= to + 1)
        BY <1>5, <2>1, <2>4
      <4>. HIDE DEF to, L, m
      <4>. QED
        BY <2>1, <4>1
    <3>2. S(t, k) = t
      BY <2>4
    <3>. HIDE DEF S, Reach
    <3>. QED
      BY <1>7, <3>1, <3>2
  <2>. QED
    BY <2>3, <2>4
<1>. HIDE DEF first, S, Holds
<1>8. \E g : Fits(g, L)
  <2>. DEFINE Bad == {N \in Nat : ~ \E g : Fits(g, N)}
  <2>. SUFFICES ASSUME Bad # {} PROVE FALSE
    BY <1>3
  <2>. HIDE DEF L
  <2>1. PICK N \in Bad : \A y \in Bad : N <= y
    <3>1. Bad \in SUBSET Nat
      OBVIOUS
    <3>. QED
      BY <3>1, LeastOf
  <2>2. N # 0
    <3>1. Fits([k \in 0..0 |-> first], 0)
      OBVIOUS
    <3>. QED
      BY <3>1, <2>1
  <2>3. PICK g : Fits(g, N - 1)
    <3>1. N \in Nat /\ N - 1 \in Nat /\ ~(N <= N - 1)
      BY <2>2
    <3>2. N - 1 \notin Bad
      BY <2>1, <3>1
    <3>. QED
      BY <3>1, <3>2
  <2>. DEFINE h == [k \in 0..N |-> IF k = N THEN S(g[N - 1], N) ELSE g[k]]
  <2>4. \A k \in 0..N : h[k] = IF k = 0 THEN first ELSE S(h[k - 1], k)
    <3>. TAKE k \in 0..N
    <3>1. CASE k = N
      <4>1. h[k - 1] = g[N - 1] /\ h[k] = S(g[N - 1], N)
        BY <2>2, <3>1
      <4>. QED
        BY <2>2, <3>1, <4>1
    <3>2. CASE k # N
      <4>1. k \in 0..(N - 1) /\ h[k] = g[k] /\ (k # 0 => h[k - 1] = g[k - 1])
        BY <2>2, <3>2
      <4>2. g[k] = IF k = 0 THEN first ELSE S(g[k - 1], k)
        BY <2>3, <4>1
      <4>. QED
        BY <4>1, <4>2
    <3>. QED
      BY <3>1, <3>2
  <2>5. Fits(h, N)
    BY <2>4
  <2>. QED
    BY <2>1, <2>5
<1>9. Fits(C, L)
  BY <1>8, Zenon
<1>10. \A k \in 0..L : C[k] = IF k = 0 THEN first ELSE S(C[k - 1], k)
  <2>. HIDE DEF L
  <2>. QED
    BY <1>9
<1>. HIDE DEF C, Fits, L
<1>11. \A k \in 0..L : Holds(C[k], k)
  <2>. DEFINE Bad == {k \in 0..L : ~Holds(C[k], k)}
  <2>. SUFFICES ASSUME Bad # {} PROVE FALSE
    OBVIOUS
  <2>1. PICK k \in Bad : \A y \in Bad : k <= y
    <3>1. Bad \in SUBSET Nat
      BY <1>3
    <3>. QED
      BY <3>1, LeastOf
  <2>2. k # 0
    BY <1>3, <1>6, <1>10, <2>1
  <2>3. k \in 1..L /\ k - 1 \in 0..L /\ k - 1 \notin Bad
    <3>1. k \in 1..L /\ k - 1 \in 0..L /\ ~(k <= k - 1)
      BY <1>3, <2>2
    <3>. QED
      BY <2>1, <3>1
  <2>4. Holds(C[k - 1], k - 1) /\ C[k] = S(C[k - 1], k)
    BY <1>10, <2>2, <2>3
  <2>5. Holds(C[k], k)
    BY <1>7, <2>3, <2>4
  <2>. QED
    BY <2>1, <2>5
<1>. DEFINE c == C[L]
            t == Arm(s, cap)
<1>12. Holds(c, L)
  BY <1>3, <1>11
<1>13. /\ DOMAIN c = SessionFields /\ c.alive \in BOOLEAN
       /\ c.alive => Queued(c, v.seq, n) /\ End(v.seq, c.queue) = n
  <2>1. Reach(L) = n
    BY <1>3, <1>5
  <2>. HIDE DEF Reach
  <2>. QED
    BY <1>12, <2>1 DEF Holds
<1>14. t = [c EXCEPT !.sub = sub, !.deliverFrom = from, !.epoch = epoch, !.pending = <<>>]
  BY <1>1
<1>15. sub \in {"none", "armed"} /\ from \in Nat /\ from <= n + 1 /\ epoch \in {0, 1}
  BY <1>5
<1>. HIDE DEF c, t, sub, from, epoch
<1>16. /\ t.alive = c.alive /\ t.queue = c.queue /\ t.sub = sub /\ t.deliverFrom = from
       /\ t.epoch = epoch /\ DOMAIN t = SessionFields
  BY <1>13, <1>14 DEF SessionFields
<1>17. ASSUME t.alive PROVE SessionOK(t, v, n)
  BY <1>13, <1>15, <1>16, <1>17 DEF SessionOK, Queued
<1>. QED
  BY <1>13, <1>16, <1>17 DEF t

-----------------------------------------------------------------------------
(* The steps of a session *)

\* A step of a session keeps the invariant when it keeps the connection.
LEMMA TcpKeeps ==
  ASSUME FeedInv, pub.epoch = 1, Tcp, UNCHANGED <<feed, pub, net, client>>,
         view' \in Views(pub.seq), past' \in Pasts, past'.gaveUp = past.gaveUp, Connection'
  PROVE  FeedInv'
<1>1. Base' /\ ~Udp' /\ UNCHANGED <<feed, pub, net, gd, pend, ready>>
  BY FeedIs DEF FeedInv, Base, Udp, Tcp, Feed, client
<1>2. Shape /\ Pursued
  BY DEF FeedInv, Lives
<1>3. Shape' /\ Pursued'
  BY <1>1, <1>2 DEF Shape, Pursued
<1>4. Excused'
  BY DEF Connection, Excused
<1>. QED
  BY <1>1, <1>3, <1>4 DEF FeedInv, Lives

LEMMA TcpFacts ==
  ASSUME FeedInv, pub.epoch = 1, Tcp
  PROVE  /\ Base /\ pub.seq \in Nat /\ Shape /\ Connection /\ view \in Views(pub.seq) /\ past \in Pasts
         /\ view.seq \in 0..pub.seq
<1>1. Base /\ Shape /\ Connection
  BY DEF FeedInv, Lives
<1>2. pub.seq \in Nat /\ view \in Views(pub.seq) /\ past \in Pasts
  BY <1>1 DEF Base, Shape
<1>. QED
  BY <1>1, <1>2 DEF Views

LEMMA NewSessionIs ==
  ASSUME NEW n \in Nat, NEW v
  PROVE  /\ NewSession.alive = TRUE /\ NewSession.sub = "none" /\ Len(NewSession.queue) = 0
         /\ SessionOK(NewSession, v, n)
<1>. DEFINE s == NewSession
<1>1. s.alive = TRUE /\ s.sub = "none" /\ s.queue = <<>> /\ Len(s.queue) = 0 /\ DOMAIN s = SessionFields
  BY DEF NewSession, SessionFields
<1>. HIDE DEF s
<1>2. SessionOK(s, v, n)
  BY <1>1 DEF SessionOK, Links
<1>. QED
  BY <1>1, <1>2 DEF s

LEMMA SubscribeKeeps == FeedInv /\ pub.epoch = 1 /\ Subscribe => FeedInv'
<1>. SUFFICES ASSUME FeedInv, pub.epoch = 1, Subscribe PROVE FeedInv'
  OBVIOUS
<1>. DEFINE n == pub.seq
<1>1. Tcp /\ sess.alive /\ UNCHANGED <<feed, pub, net, client, view>> /\ past' = [past EXCEPT !.fresh = FALSE]
  BY DEF Subscribe
<1>2. PICK from \in {0, view.seq + 1}, once \in BOOLEAN :
        (from > 0 => past.fresh) /\ sess' = Park(sess, from, once)
  BY DEF Subscribe
<1>3. n \in Nat /\ Connection /\ view \in Views(n) /\ past \in Pasts /\ view.seq \in 0..n
  BY <1>1, TcpFacts
<1>4. SessionOK(sess, view, n) /\ view.fault = "none" /\ (past.fresh => Len(sess.queue) = 0)
  BY <1>1, <1>3 DEF Connection
<1>5. /\ DOMAIN sess = SessionFields /\ sess.queue \in Seq(Frames(n)) /\ Links(view.seq, sess.queue)
  BY <1>4 DEF SessionOK
<1>. DEFINE t == Park(sess, from, once)
<1>6. /\ t.alive = sess.alive /\ t.sub = "parked" /\ t.from = from /\ t.pending = <<>>
      /\ t.queue = sess.queue /\ DOMAIN t = SessionFields
  BY <1>5 DEF Park, SessionFields
<1>. HIDE DEF t
<1>7. Parked(t, n)
  BY <1>3, <1>6 DEF Parked
<1>8. Requested(t, view)
  <2>1. CASE from = 0
    BY <1>6, <2>1 DEF Requested
  <2>2. CASE from = view.seq + 1
    <3>1. from > 0 /\ from \in Nat
      BY <1>3, <2>2
    <3>. QED
      BY <1>2, <1>4, <1>6, <2>2, <3>1 DEF Requested
  <2>. QED
    BY <1>2, <2>1, <2>2
<1>9. SessionOK(t, view, n)
  BY <1>5, <1>6, <1>7, <1>8 DEF SessionOK
<1>10. past' \in Pasts /\ past'.gaveUp = past.gaveUp /\ past'.fresh = FALSE
  <2>. DEFINE no == FALSE
  <2>1. no \in BOOLEAN /\ past' = [past EXCEPT !.fresh = no]
    BY <1>1
  <2>. HIDE DEF no
  <2>2. past' \in Pasts /\ past'.gaveUp = past.gaveUp /\ past'.fresh = no
    BY <1>3, <2>1 DEF Pasts
  <2>. QED
    BY <2>2 DEF no
<1>11. sess.alive \in BOOLEAN
  BY <1>3 DEF Connection
<1>12. Connection'
  <2>1. sess' = t /\ view' = view /\ pub' = pub
    BY <1>1, <1>2 DEF t
  <2>. QED
    BY <1>4, <1>6, <1>9, <1>10, <1>11, <2>1 DEF Connection
<1>. QED
  BY <1>1, <1>3, <1>10, <1>12, TcpKeeps

LEMMA UnsubscribeKeeps == FeedInv /\ pub.epoch = 1 /\ Unsubscribe => FeedInv'
<1>. SUFFICES ASSUME FeedInv, pub.epoch = 1, Unsubscribe PROVE FeedInv'
  OBVIOUS
<1>. DEFINE n == pub.seq
            t == [sess EXCEPT !.sub = "none"]
<1>1. /\ Tcp /\ sess.alive /\ sess.sub = "armed" /\ sess' = t
      /\ UNCHANGED <<feed, pub, net, client, view, past>>
  BY DEF Unsubscribe
<1>2. n \in Nat /\ Connection /\ view \in Views(n) /\ past \in Pasts
  BY <1>1, TcpFacts
<1>3. SessionOK(sess, view, n) /\ view.fault = "none" /\ ~past.fresh /\ sess.alive \in BOOLEAN
  BY <1>1, <1>2 DEF Connection
<1>4. t.alive = sess.alive /\ t.sub = "none" /\ t.queue = sess.queue /\ DOMAIN t = SessionFields
  BY <1>3 DEF SessionOK, SessionFields
<1>. HIDE DEF t
<1>5. SessionOK(t, view, n)
  BY <1>3, <1>4 DEF SessionOK
<1>6. Connection'
  BY <1>1, <1>3, <1>4, <1>5 DEF Connection
<1>. QED
  BY <1>1, <1>2, <1>6, TcpKeeps

LEMMA TakeKeeps == FeedInv /\ pub.epoch = 1 /\ TakeAnswer => FeedInv'
<1>. SUFFICES ASSUME FeedInv, pub.epoch = 1, TakeAnswer PROVE FeedInv'
  OBVIOUS
<1>. DEFINE n == pub.seq
            x == sess.from
            a == ResendFrom(x)
            t == Take(sess, a)
<1>1. /\ Tcp /\ sess.alive /\ sess.sub = "parked" /\ sess' = t
      /\ UNCHANGED <<feed, pub, net, client, view, past>>
  BY DEF TakeAnswer
<1>2. Base /\ n \in Nat /\ Connection /\ view \in Views(n) /\ past \in Pasts /\ view.seq \in 0..n
  BY <1>1, TcpFacts
<1>3. SessionOK(sess, view, n) /\ view.fault = "none" /\ ~past.fresh /\ sess.alive \in BOOLEAN
  BY <1>1, <1>2 DEF Connection
<1>4. /\ DOMAIN sess = SessionFields /\ sess.queue \in Seq(Frames(n)) /\ Links(view.seq, sess.queue)
      /\ Parked(sess, n) /\ Requested(sess, view)
  BY <1>1, <1>3 DEF SessionOK
<1>5. /\ t.alive = sess.alive /\ t.sub = "taken" /\ t.queue = sess.queue /\ t.from = x
      /\ t.pending = sess.pending /\ t.taken = a /\ DOMAIN t = SessionFields
  BY <1>4 DEF Take, SessionFields
<1>6. x \in Nat /\ (x = 0 \/ x = view.seq + 1) /\ Len(sess.pending) \in Nat
  BY <1>4 DEF Requested, Parked
<1>7. \/ a = SnapFrame(1, n)
      \/ x > n /\ a = IncFrame(<<>>)
      \/ x \in 1..n /\ a = IncFrame([i \in 1..(n - x + 1) |-> Message(1, x + i - 1)])
  BY <1>2, <1>6, ResendIs
<1>. HIDE DEF t, a, x, n
<1>8. /\ a \in Frames(n)
      /\ \/ Nothing(a) /\ x = n + 1
         \/ ~Nothing(a) /\ FrameOK(a) /\ EndOf(a) = n /\ (a.snap \/ (x # 0 /\ Follows(view.seq, a)))
  <2>1. CASE a = SnapFrame(1, n)
    <3>1. a \in Frames(n) /\ a.snap = TRUE /\ a.epoch = 1 /\ a.seq = n
      BY <1>2, <2>1 DEF SnapFrame, Frames
    <3>. QED
      BY <3>1 DEF Nothing, FrameOK, EndOf
  <2>2. CASE x > n /\ a = IncFrame(<<>>)
    <3>1. a \in Frames(n) /\ a.snap = FALSE /\ a.msgs = <<>>
      BY <1>2, <2>2 DEF IncFrame, Frames
    <3>2. x = n + 1
      BY <1>2, <1>6, <2>2
    <3>. QED
      BY <3>1, <3>2 DEF Nothing
  <2>3. CASE x \in 1..n /\ a = IncFrame([i \in 1..(n - x + 1) |-> Message(1, x + i - 1)])
    <3>. DEFINE ms == [i \in 1..(n - x + 1) |-> Message(1, x + i - 1)]
    <3>1. /\ ms \in Seq(Msgs(n)) /\ Len(ms) = n - x + 1
          /\ \A i \in 1..Len(ms) : ms[i].seq = x + i - 1
      BY <1>2, <2>3, ReplayIs
    <3>2. a = IncFrame(ms)
      BY <2>3
    <3>. HIDE DEF ms
    <3>3. a \in Frames(n) /\ a.snap = FALSE /\ a.msgs = ms
      BY <1>2, <3>1, <3>2 DEF IncFrame, Frames
    <3>4. Len(ms) \in Nat \ {0} /\ 1 \in 1..Len(ms) /\ Len(ms) \in 1..Len(ms) /\ ms # <<>>
      BY <1>2, <2>3, <3>1
    <3>5. ms[1].seq = x /\ ms[Len(ms)].seq = n
      <4>1. ms[1].seq = x + 1 - 1 /\ ms[Len(ms)].seq = x + Len(ms) - 1
        BY <3>1, <3>4
      <4>. QED
        BY <1>2, <1>6, <3>1, <4>1
    <3>6. FrameOK(a)
      BY <3>1, <3>3, <3>4, <3>5 DEF FrameOK
    <3>7. ~Nothing(a) /\ EndOf(a) = n
      BY <3>3, <3>4, <3>5 DEF Nothing, EndOf
    <3>8. x # 0 /\ Follows(view.seq, a)
      BY <1>6, <2>3, <3>3, <3>5 DEF Follows
    <3>. QED
      BY <3>3, <3>6, <3>7, <3>8
  <2>. QED
    BY <1>7, <2>1, <2>2, <2>3
<1>9. AnsweredTo(t) = n
  <2>1. CASE Nothing(a)
    BY <1>2, <1>5, <1>8, <2>1 DEF AnsweredTo
  <2>2. CASE ~Nothing(a)
    BY <1>5, <1>8, <2>2 DEF AnsweredTo
  <2>. QED
    BY <2>1, <2>2
<1>10. AnswerOK(t, view, n)
  <2>1. AnsweredTo(t) \in (n - Len(t.pending))..n
    BY <1>2, <1>5, <1>6, <1>9
  <2>2. Nothing(a) => x # 0
    BY <1>2, <1>8
  <2>. QED
    BY <1>5, <1>8, <2>1, <2>2 DEF AnswerOK
<1>11. Parked(t, n) /\ Requested(t, view)
  BY <1>4, <1>5 DEF Parked, Requested, x
<1>12. SessionOK(t, view, n)
  BY <1>4, <1>5, <1>10, <1>11 DEF SessionOK
<1>13. Connection'
  BY <1>1, <1>3, <1>5, <1>12 DEF Connection, n
<1>. QED
  BY <1>1, <1>2, <1>13, TcpKeeps DEF n

LEMMA ArmKeeps == FeedInv /\ pub.epoch = 1 /\ ArmSession => FeedInv'
<1>. SUFFICES ASSUME FeedInv, pub.epoch = 1, ArmSession PROVE FeedInv'
  OBVIOUS
<1>. DEFINE n == pub.seq
            t == Arm(sess, Feed.queueCap)
<1>1. /\ Tcp /\ sess.alive /\ sess.sub = "taken" /\ sess' = t
      /\ UNCHANGED <<feed, pub, net, client, view, past>>
  BY DEF ArmSession
<1>2. Base /\ n \in Nat /\ Connection /\ view \in Views(n) /\ past \in Pasts /\ view.seq \in 0..n
  BY <1>1, TcpFacts
<1>3. SessionOK(sess, view, n) /\ view.fault = "none" /\ ~past.fresh /\ sess.alive = TRUE
  BY <1>1, <1>2 DEF Connection
<1>4. Feed.queueCap \in Nat
  BY <1>2, CapsAre
<1>5. t.alive \in BOOLEAN /\ (t.alive => SessionOK(t, view, n))
  BY <1>1, <1>2, <1>3, <1>4, ArmIs
<1>. HIDE DEF t
<1>6. Connection'
  BY <1>1, <1>3, <1>5 DEF Connection
<1>. QED
  BY <1>1, <1>2, <1>6, TcpKeeps

LEMMA WriteKeeps == FeedInv /\ pub.epoch = 1 /\ WriteFrame => FeedInv'
<1>. SUFFICES ASSUME FeedInv, pub.epoch = 1, WriteFrame PROVE FeedInv'
  OBVIOUS
<1>. DEFINE n == pub.seq
            f == Head(sess.queue)
            q == Tail(sess.queue)
            t == [sess EXCEPT !.queue = q]
<1>1. /\ Tcp /\ sess.alive /\ sess.queue # <<>> /\ sess' = t /\ view' = ApplyFrame(view, f)
      /\ UNCHANGED <<feed, pub, net, client, past>>
  BY DEF WriteFrame
<1>2. Base /\ n \in Nat /\ Connection /\ view \in Views(n) /\ past \in Pasts /\ view.seq \in 0..n
  BY <1>1, TcpFacts
<1>3. SessionOK(sess, view, n) /\ view.fault = "none" /\ sess.alive = TRUE
  BY <1>1, <1>2 DEF Connection
<1>4. DOMAIN sess = SessionFields /\ sess.queue \in Seq(Frames(n)) /\ Links(view.seq, sess.queue)
  BY <1>3 DEF SessionOK
<1>5. Len(sess.queue) # 0
  BY <1>1, <1>4
<1>6. ~past.fresh
  BY <1>1, <1>2, <1>5 DEF Connection
<1>7. /\ f \in Frames(n) /\ FrameOK(f) /\ Follows(view.seq, f) /\ q \in Seq(Frames(n))
      /\ Links(EndOf(f), q) /\ End(EndOf(f), q) = End(view.seq, sess.queue)
  BY <1>1, <1>2, <1>4, LinksTail
<1>8. view' = [epoch |-> 1, seq |-> EndOf(f), fault |-> "none"]
  BY <1>1, <1>2, <1>3, <1>7, ApplyFrameIs
<1>9. EndOf(f) \in 0..n
  BY <1>2, <1>7, EndIs
<1>10. view' \in Views(n) /\ view'.seq = EndOf(f) /\ view'.fault = "none"
  BY <1>8, <1>9 DEF Views
<1>. HIDE DEF q, f
<1>11. /\ t.queue = q /\ t.sub = sess.sub /\ t.from = sess.from /\ t.pending = sess.pending
       /\ t.taken = sess.taken /\ t.alive = TRUE /\ t.deliverFrom = sess.deliverFrom
       /\ t.epoch = sess.epoch /\ DOMAIN t = SessionFields
  BY <1>3, <1>4 DEF SessionFields
<1>. HIDE DEF t
<1>12. ASSUME t.sub \in {"parked", "taken"}
       PROVE  Parked(t, n) /\ Requested(t, view') /\ sess.from = 0
  <2>1. Parked(sess, n) /\ Requested(sess, view)
    BY <1>3, <1>11, <1>12 DEF SessionOK
  <2>2. sess.from = 0
    BY <1>5, <2>1 DEF Requested
  <2>. QED
    BY <1>11, <2>1, <2>2 DEF Parked, Requested
<1>13. ASSUME t.sub = "taken" PROVE AnswerOK(t, view', n)
  <2>1. AnswerOK(sess, view, n) /\ sess.from = 0
    BY <1>3, <1>11, <1>12, <1>13 DEF SessionOK
  <2>2. sess.taken.snap /\ ~Nothing(sess.taken) /\ FrameOK(sess.taken)
    BY <2>1 DEF AnswerOK
  <2>3. AnsweredTo(t) = AnsweredTo(sess)
    BY <1>11 DEF AnsweredTo
  <2>. QED
    BY <1>11, <2>1, <2>2, <2>3 DEF AnswerOK
<1>14. SessionOK(t, view', n)
  <2>1. t.sub \in {"none", "parked", "taken", "armed"}
    BY <1>3, <1>11 DEF SessionOK
  <2>2. ASSUME t.sub = "armed"
        PROVE  /\ End(view'.seq, t.queue) = n /\ t.deliverFrom \in Nat /\ t.deliverFrom <= n + 1
               /\ t.epoch \in {0, 1}
    BY <1>3, <1>7, <1>10, <1>11, <2>2 DEF SessionOK
  <2>. QED
    BY <1>7, <1>10, <1>11, <1>12, <1>13, <2>1, <2>2 DEF SessionOK
<1>15. Connection'
  BY <1>1, <1>6, <1>10, <1>11, <1>14 DEF Connection
<1>. QED
  BY <1>1, <1>2, <1>10, <1>15, TcpKeeps

LEMMA DisconnectKeeps == FeedInv /\ pub.epoch = 1 /\ Disconnect => FeedInv'
<1>. SUFFICES ASSUME FeedInv, pub.epoch = 1, Disconnect PROVE FeedInv'
  OBVIOUS
<1>1. /\ Tcp /\ sess.alive /\ sess' = Killed(sess)
      /\ UNCHANGED <<feed, pub, net, client, view, past>>
  BY DEF Disconnect
<1>2. Connection /\ view \in Views(pub.seq) /\ past \in Pasts
  BY <1>1, TcpFacts
<1>3. DOMAIN sess = SessionFields /\ view.fault = "none"
  BY <1>1, <1>2 DEF Connection, SessionOK
<1>4. sess'.alive = FALSE
  BY <1>1, <1>3 DEF Killed, SessionFields
<1>5. Connection'
  BY <1>1, <1>3, <1>4 DEF Connection
<1>. QED
  BY <1>1, <1>2, <1>5, TcpKeeps

LEMMA ReconnectKeeps == FeedInv /\ pub.epoch = 1 /\ Reconnect => FeedInv'
<1>. SUFFICES ASSUME FeedInv, pub.epoch = 1, Reconnect PROVE FeedInv'
  OBVIOUS
<1>1. /\ Tcp /\ sess' = NewSession /\ UNCHANGED <<feed, pub, net, client, view>>
      /\ past' = [past EXCEPT !.connects = @ + 1, !.fresh = TRUE]
  BY DEF Reconnect
<1>2. Connection /\ view \in Views(pub.seq) /\ past \in Pasts /\ pub.seq \in Nat
  BY <1>1, TcpFacts
<1>3. past' \in Pasts /\ past'.gaveUp = past.gaveUp
  <2>. DEFINE k == past.connects + 1
              yes == TRUE
  <2>1. k \in Nat /\ yes \in BOOLEAN /\ past' = [past EXCEPT !.connects = k, !.fresh = yes]
    BY <1>1, <1>2 DEF Pasts
  <2>. HIDE DEF k, yes
  <2>. QED
    BY <1>2, <2>1 DEF Pasts
<1>4. /\ sess'.alive = TRUE /\ sess'.sub = "none" /\ Len(sess'.queue) = 0
      /\ SessionOK(sess', view', pub'.seq)
  BY <1>1, <1>2, NewSessionIs
<1>5. view'.fault = "none"
  BY <1>1, <1>2 DEF Connection
<1>6. Connection'
  BY <1>4, <1>5 DEF Connection
<1>. QED
  BY <1>1, <1>2, <1>3, <1>6, TcpKeeps

-----------------------------------------------------------------------------
(* The publisher's steps, and every step *)

LEMMA EmitKeeps == FeedInv /\ pub.epoch = 1 /\ Emit => FeedInv'
<1>. SUFFICES ASSUME FeedInv, pub.epoch = 1, Emit PROVE FeedInv'
  OBVIOUS
<1>. DEFINE n == pub.seq
            m == Message(1, n + 1)
<1>1. /\ Base /\ n \in Nat /\ Shape /\ Pursued /\ Excused /\ pub \in [epoch : Nat \ {0}, seq : Nat]
      /\ Udp => Chain(view, ready, gd, past.overtaken, past.abandoned)
      /\ Tcp => Connection
  BY DEF FeedInv, Base, Lives
<1>2. /\ pub' = [pub EXCEPT !.seq = @ + 1]
      /\ net' = IF Udp THEN [k \in DOMAIN net \cup {m} |-> IF k = m THEN Feed.copies ELSE net[k]] ELSE net
      /\ sess' = IF sess.alive THEN OnIncrement(sess, m, Feed.queueCap, Feed.pendingCap) ELSE sess
      /\ UNCHANGED <<feed, gd, pend, ready, view, past>>
  BY DEF Emit, client
<1>3. pub'.seq = n + 1 /\ pub'.epoch = 1 /\ pub' \in [epoch : Nat \ {0}, seq : Nat]
  BY <1>1, <1>2
<1>4. Base' /\ (Udp' <=> Udp) /\ (Tcp' <=> Tcp)
  BY <1>1, <1>2, <1>3 DEF Base, Udp, Tcp, Feed
<1>5. m \in Msgs(n + 1) /\ Msgs(n) \subseteq Msgs(n + 1)
  BY <1>1, MsgsGrow
<1>6. Shape'
  <2>1. view \in Views(n + 1)
    BY <1>1 DEF Shape, Views
  <2>2. StreamOK(gd, n + 1)
    BY <1>1, StreamGrows DEF Shape
  <2>3. ready \in Seq(Msgs(n + 1))
    BY <1>1, MessagesGrow DEF Shape
  <2>4. DOMAIN net \subseteq Msgs(n)
    BY <1>1 DEF Shape
  <2>. HIDE DEF m, n
  <2>5. DOMAIN net' \subseteq Msgs(n + 1)
    <3>1. CASE Udp
      <4>1. DOMAIN net' = DOMAIN net \cup {m}
        BY <1>2, <3>1
      <4>. QED
        BY <1>5, <2>4, <4>1
    <3>2. CASE ~Udp
      BY <1>2, <1>5, <2>4, <3>2
    <3>. QED
      BY <3>1, <3>2
  <2>. QED
    BY <1>1, <1>2, <1>3, <2>1, <2>2, <2>3, <2>5 DEF Shape
<1>7. Pursued' /\ Excused'
  BY <1>1, <1>2 DEF Pursued, Excused
<1>8. Udp' => Chain(view', ready', gd', past'.overtaken, past'.abandoned)
  BY <1>1, <1>2, <1>4
<1>9. ASSUME Tcp PROVE Connection'
  <2>. DEFINE t == OnIncrement(sess, m, Feed.queueCap, Feed.pendingCap)
  <2>1. /\ view.fault = "none" /\ sess.alive \in BOOLEAN
        /\ sess.alive => SessionOK(sess, view, n)
        /\ sess.alive /\ past.fresh => sess.sub = "none" /\ Len(sess.queue) = 0
    BY <1>1, <1>9 DEF Connection
  <2>2. CASE ~sess.alive
    <3>1. sess' = sess
      BY <1>2, <2>2
    <3>. QED
      BY <1>2, <2>1, <2>2, <3>1 DEF Connection
  <2>3. CASE sess.alive
    <3>1. sess.alive /\ sess.alive \in BOOLEAN /\ SessionOK(sess, view, n) /\ sess' = t
      BY <1>2, <2>1, <2>3
    <3>2. /\ t.alive \in BOOLEAN
          /\ t.alive => SessionOK(t, view, n + 1)
          /\ sess.sub = "none" => t = sess
      <4>. DEFINE cap == Feed.queueCap
                  pendingCap == Feed.pendingCap
      <4>1. cap \in Nat /\ pendingCap \in Nat /\ n \in Nat
        BY <1>1, CapsAre
      <4>2. t = OnIncrement(sess, Message(1, n + 1), cap, pendingCap)
        OBVIOUS
      <4>. HIDE DEF cap, pendingCap, t, n
      <4>3. OnIncrement(sess, Message(1, n + 1), cap, pendingCap).alive \in BOOLEAN
        BY <3>1, <4>1, OnIncrementIs, ZenonT(60)
      <4>4. OnIncrement(sess, Message(1, n + 1), cap, pendingCap).alive
              => SessionOK(OnIncrement(sess, Message(1, n + 1), cap, pendingCap), view, n + 1)
        BY <3>1, <4>1, OnIncrementIs, ZenonT(60)
      <4>5. sess.sub = "none" => OnIncrement(sess, Message(1, n + 1), cap, pendingCap) = sess
        BY DEF OnIncrement
      <4>. QED
        BY <4>2, <4>3, <4>4, <4>5
    <3>. HIDE DEF t, m
    <3>3. past.fresh => t = sess
      BY <2>1, <3>1, <3>2
    <3>4. sess'.alive /\ past'.fresh => sess'.sub = "none" /\ Len(sess'.queue) = 0
      BY <1>2, <2>1, <3>1, <3>3
    <3>5. sess'.alive => SessionOK(sess', view', pub'.seq)
      BY <1>2, <1>3, <3>1, <3>2
    <3>. QED
      BY <1>2, <2>1, <3>1, <3>2, <3>4, <3>5 DEF Connection
  <2>. QED
    BY <2>2, <2>3
<1>. QED
  BY <1>3, <1>4, <1>6, <1>7, <1>8, <1>9 DEF FeedInv, Lives

\* Another publisher is not the one that the books are compared with.
LEMMA LaterEpochKeeps == FeedInv /\ (Restart \/ (pub.epoch # 1 /\ [Next]_vars)) => FeedInv'
<1>. SUFFICES ASSUME FeedInv, Restart \/ (pub.epoch # 1 /\ [Next]_vars) PROVE FeedInv'
  OBVIOUS
<1>1. feed \in DOMAIN Feeds /\ pub \in [epoch : Nat \ {0}, seq : Nat]
  BY DEF FeedInv, Base
<1>2. feed' = feed /\ pub' \in [epoch : Nat \ {0}, seq : Nat] /\ pub'.epoch # 1
  <2>1. CASE Restart
    BY <1>1, <2>1 DEF Restart
  <2>2. CASE pub.epoch # 1 /\ Emit
    BY <1>1, <2>2 DEF Emit
  <2>3. CASE pub.epoch # 1 /\ UNCHANGED <<feed, pub>>
    BY <1>1, <2>3, SMTT(40)
  <2>4. Restart \/ Emit \/ UNCHANGED <<feed, pub>>
    BY DEF Next, vars, Receive, ReceiveTimeout, Surface, RecoveryFails, SnapshotRecovery, ReplayRecovery,
           Subscribe, Unsubscribe, TakeAnswer, ArmSession, WriteFrame, Disconnect, Reconnect
  <2>. QED
    BY <2>1, <2>2, <2>3, <2>4
<1>. QED
  BY <1>1, <1>2 DEF FeedInv, Base

LEMMA FeedStep == FeedInv /\ [Next]_vars => FeedInv'
<1>. SUFFICES ASSUME FeedInv, [Next]_vars PROVE FeedInv'
  OBVIOUS
<1>1. CASE pub.epoch # 1 \/ Restart
  BY <1>1, LaterEpochKeeps
<1>2. CASE pub.epoch = 1 /\ Next /\ ~Restart
  BY <1>2, EmitKeeps, ReceiveKeeps, TimeoutKeeps, SurfaceKeeps, FailsKeeps, SnapshotKeeps, ReplayKeeps,
     SubscribeKeeps, UnsubscribeKeeps, TakeKeeps, ArmKeeps, WriteKeeps, DisconnectKeeps, ReconnectKeeps
  DEF Next
<1>3. CASE UNCHANGED vars
  <2>1. UNCHANGED <<feed, pub, net, gd, pend, ready, sess, view, past>>
    BY <1>3 DEF vars
  <2>2. Base' /\ (Udp' <=> Udp) /\ (Tcp' <=> Tcp)
    BY <2>1 DEF FeedInv, Base, Udp, Tcp, Feed
  <2>3. ASSUME Lives PROVE Lives'
    <3>1. Shape' /\ Pursued' /\ Excused'
      BY <2>1, <2>3 DEF Lives, Shape, Pursued, Excused
    <3>2. Udp' => Chain(view', ready', gd', past'.overtaken, past'.abandoned)
      BY <2>1, <2>2, <2>3 DEF Lives
    <3>3. Tcp' => Connection'
      BY <2>1, <2>2, <2>3 DEF Lives, Connection
    <3>. QED
      BY <3>1, <3>2, <3>3 DEF Lives
  <2>. QED
    BY <2>1, <2>2, <2>3 DEF FeedInv
<1>. QED
  BY <1>1, <1>2, <1>3

\* The whole invariant of the feed: for every feed, the detector and what is ready go on from the
\* book, the queue of a session goes on from it frame by frame, and every answer that is on its way
\* reaches what was parked behind it (market_data.h, resend_buffer.h, md_recovery.h,
\* md_distribution.h).
THEOREM FeedInvariant == Spec => []FeedInv
  BY InitFeed, FeedStep, PTL DEF Spec

\* While the publisher lives, the book of every subscriber is a prefix of its stream, whatever was
\* lost, doubled, reordered, parked or resent: a message is left out only where GapDetector gave the
\* gap up (abandonGap), and applied late only behind a snapshot that overtook ready_.
THEOREM BooksArePrefixes == Spec => []BookIsAPrefix
<1>1. FeedInv => BookIsAPrefix
  BY DEF FeedInv, Lives, Shape, Views, Excused, BookIsAPrefix
<1>. QED
  BY <1>1, FeedInvariant, PTL

\* While the publisher lives, RecoveringMdSubscriber pursues every gap its detector has open: the
\* gap is reported when it opens, a replay that is not cut short closes it, and a snapshot leaves
\* none open.
THEOREM GapsArePursued == Spec => []GapIsPursued
<1>1. FeedInv => GapIsPursued
  BY DEF FeedInv, Lives, Pursued, GapIsPursued
<1>. QED
  BY <1>1, FeedInvariant, PTL
=============================================================================

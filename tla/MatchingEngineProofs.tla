------------------------ MODULE MatchingEngineProofs ------------------------
(***************************************************************************)
(* For every set of accounts and order ids, every owner, every venue and    *)
(* every menu of orders, amends and quotes: what is alive is reserved, what *)
(* is reserved is alive, every print settles and no money appears or        *)
(* vanishes.                                                                *)
(***************************************************************************)
EXTENDS MatchingEngine, FiniteSetTheorems, NaturalsInduction, WellFoundedInduction,
        SequenceTheorems, TLAPS

Pick(s) == CHOOSE x \in s : TRUE

(* g adds up f over every subset of S of at most n elements. *)
AddsUp(g, f, S, n) ==
  /\ g = [s \in SUBSET S |-> g[s]]
  /\ \A s \in SUBSET S : Cardinality(s) <= n =>
       g[s] = IF s = {} THEN 0 ELSE f[Pick(s)] + g[s \ {Pick(s)}]

Below == {ss \in Nat \X Nat : ss[1] < ss[2]}

LEMMA LeastOf ==
  ASSUME NEW N \in SUBSET Nat, N # {}
  PROVE  \E m \in N : \A k \in Nat : k < m => k \notin N
<1>1. IsWellFoundedOn(Below, Nat)
  BY NatLessThanWellFounded DEF Below, OpToRel
<1>2. PICK m \in N : \A k \in Nat : <<k, m>> \in Below => k \notin N
  BY <1>1, WFMin, Zenon
<1>. QED
  BY <1>2 DEF Below

LEMMA AddsUpExists ==
  ASSUME NEW f, NEW S, IsFiniteSet(S), NEW n \in Nat
  PROVE  \E g : AddsUp(g, f, S, n)
<1>. DEFINE N == {k \in Nat : ~\E g : AddsUp(g, f, S, k)}
<1>1. SUFFICES ASSUME N # {} PROVE FALSE
  OBVIOUS
<1>2. PICK m \in N : \A k \in Nat : k < m => k \notin N
  BY <1>1, LeastOf
<1>3. CASE m = 0
  <2>1. AddsUp([s \in SUBSET S |-> 0], f, S, 0)
    <3>1. \A s \in SUBSET S : Cardinality(s) <= 0 => s = {}
      BY FS_Subset, FS_EmptySet, FS_CardinalityType
    <3>. QED
      BY <3>1 DEF AddsUp
  <2>. QED
    BY <1>2, <1>3, <2>1
<1>4. CASE m # 0
  <2>1. PICK g : AddsUp(g, f, S, m - 1)
    BY <1>2, <1>4
  <2>. DEFINE h == [s \in SUBSET S |-> IF s = {} THEN 0 ELSE f[Pick(s)] + g[s \ {Pick(s)}]]
  <2>2. ASSUME NEW s \in SUBSET S, Cardinality(s) <= m
        PROVE  h[s] = IF s = {} THEN 0 ELSE f[Pick(s)] + h[s \ {Pick(s)}]
    <3>1. CASE s = {}
      BY <3>1
    <3>2. CASE s # {}
      <4>1. Pick(s) \in s
        BY <3>2 DEF Pick
      <4>2. IsFiniteSet(s)
        BY FS_Subset
      <4>3. s \ {Pick(s)} \in SUBSET S /\ Cardinality(s \ {Pick(s)}) <= m - 1
        <5>1. Cardinality(s \ {Pick(s)}) = Cardinality(s) - 1 /\ Cardinality(s) \in Nat
          BY <4>1, <4>2, FS_RemoveElement, FS_CardinalityType
        <5>. QED
          BY <2>2, <5>1
      <4>4. h[s \ {Pick(s)}] = g[s \ {Pick(s)}]
        BY <4>3, <2>1 DEF AddsUp
      <4>. QED
        BY <3>2, <4>4
    <3>. QED
      BY <3>1, <3>2
  <2>3. AddsUp(h, f, S, m)
    BY <2>2 DEF AddsUp
  <2>. QED
    BY <1>2, <2>3
<1>. QED
  BY <1>3, <1>4

(* g is the fold over the subsets of S. *)
Adds(g, f, S) ==
  g = [s \in SUBSET S |-> IF s = {} THEN 0 ELSE f[Pick(s)] + g[s \ {Pick(s)}]]

LEMMA AddsExists ==
  ASSUME NEW f, NEW S, IsFiniteSet(S)
  PROVE  \E g : Adds(g, f, S)
<1>1. Cardinality(S) \in Nat /\ \A s \in SUBSET S : Cardinality(s) <= Cardinality(S)
  BY FS_Subset, FS_CardinalityType
<1>2. PICK g : AddsUp(g, f, S, Cardinality(S))
  BY <1>1, AddsUpExists
<1>3. \A s \in SUBSET S : g[s] = IF s = {} THEN 0 ELSE f[Pick(s)] + g[s \ {Pick(s)}]
  BY <1>1, <1>2 DEF AddsUp
<1>. QED
  BY <1>2, <1>3 DEF AddsUp, Adds

LEMMA SumIs ==
  ASSUME NEW f, NEW S, IsFiniteSet(S)
  PROVE  \E g : Adds(g, f, S) /\ SumFunctionOnSet(f, S) = g[S]
<1>. DEFINE it == CHOOSE g : Adds(g, f, S)
<1>1. Adds(it, f, S)
  BY AddsExists
<1>2. SumFunctionOnSet(f, S) = it[S]
  BY DEF SumFunctionOnSet, FoldFunctionOnSet, MapThenFoldSet, Adds, Pick
<1>. QED
  BY <1>1, <1>2

(* What holds of a set once it holds of its proper subsets holds of it. *)
LEMMA LeastSet ==
  ASSUME NEW S, IsFiniteSet(S), NEW B \in SUBSET SUBSET S, B # {}
  PROVE  \E s \in B : \A x \in s : s \ {x} \notin B
<1>. DEFINE N == {Cardinality(s) : s \in B}
<1>1. N \in SUBSET Nat /\ N # {}
  BY FS_Subset, FS_CardinalityType
<1>2. PICK m \in N : \A k \in Nat : k < m => k \notin N
  BY <1>1, LeastOf
<1>3. PICK s \in B : m = Cardinality(s)
  BY <1>2
<1>4. ASSUME NEW x \in s PROVE s \ {x} \notin B
  <2>1. IsFiniteSet(s)
    BY FS_Subset
  <2>2. Cardinality(s \ {x}) = m - 1 /\ Cardinality(s \ {x}) \in Nat
    BY <1>3, <2>1, FS_RemoveElement, FS_CardinalityType
  <2>. QED
    BY <1>1, <1>2, <2>2
<1>. QED
  BY <1>4

LEMMA AddsType ==
  ASSUME NEW S, IsFiniteSet(S), NEW f, \A x \in S : f[x] \in Int, NEW g, Adds(g, f, S),
         NEW s \in SUBSET S
  PROVE  g[s] \in Int
<1>. DEFINE B == {t \in SUBSET S : g[t] \notin Int}
<1>1. SUFFICES ASSUME B # {} PROVE FALSE
  OBVIOUS
<1>2. PICK t \in B : \A x \in t : t \ {x} \notin B
  BY <1>1, LeastSet
<1>3. t # {} /\ Pick(t) \in t
  BY <1>2 DEF Adds, Pick
<1>4. g[t] = f[Pick(t)] + g[t \ {Pick(t)}]
  BY <1>2, <1>3 DEF Adds
<1>5. g[t \ {Pick(t)}] \in Int
  BY <1>2, <1>3
<1>. QED
  BY <1>2, <1>3, <1>4, <1>5

LEMMA AddsNat ==
  ASSUME NEW S, IsFiniteSet(S), NEW f, \A x \in S : f[x] \in Nat, NEW g, Adds(g, f, S),
         NEW s \in SUBSET S
  PROVE  g[s] \in Nat
<1>. DEFINE B == {t \in SUBSET S : g[t] \notin Nat}
<1>1. SUFFICES ASSUME B # {} PROVE FALSE
  OBVIOUS
<1>2. PICK t \in B : \A x \in t : t \ {x} \notin B
  BY <1>1, LeastSet
<1>3. t # {} /\ Pick(t) \in t
  BY <1>2 DEF Adds, Pick
<1>4. g[t] = f[Pick(t)] + g[t \ {Pick(t)}]
  BY <1>2, <1>3 DEF Adds
<1>5. g[t \ {Pick(t)}] \in Nat
  BY <1>2, <1>3
<1>. QED
  BY <1>2, <1>3, <1>4, <1>5

LEMMA AddsSplits ==
  ASSUME NEW S, IsFiniteSet(S), NEW f, \A x \in S : f[x] \in Int, NEW g, Adds(g, f, S),
         NEW s \in SUBSET S, NEW x \in s
  PROVE  g[s] = f[x] + g[s \ {x}]
<1>. DEFINE B == {t \in SUBSET S : \E y \in t : g[t] # f[y] + g[t \ {y}]}
<1>1. SUFFICES ASSUME B # {} PROVE FALSE
  OBVIOUS
<1>2. PICK t \in B : \A y \in t : t \ {y} \notin B
  BY <1>1, LeastSet
<1>3. PICK y \in t : g[t] # f[y] + g[t \ {y}]
  BY <1>2
<1>. DEFINE p == Pick(t)
<1>4. t \in SUBSET S /\ p \in t
  BY <1>2, <1>3 DEF Pick
<1>5. g[t] = f[p] + g[t \ {p}]
  BY <1>3, <1>4 DEF Adds
<1>6. y # p
  BY <1>3, <1>5
<1>. DEFINE u == t \ {p}
            v == t \ {y}
            w == (t \ {p}) \ {y}
<1>7. g[u] = f[y] + g[w]
  <2>1. u \in SUBSET S /\ u \notin B /\ y \in u
    BY <1>2, <1>3, <1>4, <1>6
  <2>. QED
    BY <2>1
<1>8. g[v] = f[p] + g[w]
  <2>1. v \in SUBSET S /\ v \notin B /\ p \in v
    BY <1>2, <1>3, <1>4, <1>6
  <2>2. v \ {p} = w
    OBVIOUS
  <2>. QED
    BY <2>1, <2>2
<1>9. g[w] \in Int /\ f[p] \in Int /\ f[y] \in Int
  BY <1>3, <1>4, AddsType
<1>. QED
  BY <1>3, <1>5, <1>7, <1>8, <1>9

LEMMA AddsAgree ==
  ASSUME NEW S, IsFiniteSet(S), NEW T \in SUBSET S, NEW f, NEW h, \A x \in T : f[x] = h[x],
         NEW g, Adds(g, f, S), NEW k, Adds(k, h, T),
         NEW s \in SUBSET T
  PROVE  g[s] = k[s]
<1>. DEFINE B == {t \in SUBSET T : g[t] # k[t]}
<1>1. SUFFICES ASSUME B # {} PROVE FALSE
  OBVIOUS
<1>2. PICK t \in B : \A y \in t : t \ {y} \notin B
  <2>1. IsFiniteSet(T)
    BY FS_Subset
  <2>. QED
    BY <1>1, <2>1, LeastSet
<1>3. t \in SUBSET T /\ t \in SUBSET S
  BY <1>2
<1>4. t # {}
  BY <1>2, <1>3 DEF Adds
<1>5. Pick(t) \in t
  BY <1>4 DEF Pick
<1>6. g[t] = f[Pick(t)] + g[t \ {Pick(t)}] /\ k[t] = h[Pick(t)] + k[t \ {Pick(t)}]
  BY <1>3, <1>4 DEF Adds
<1>7. g[t \ {Pick(t)}] = k[t \ {Pick(t)}] /\ f[Pick(t)] = h[Pick(t)]
  BY <1>2, <1>3, <1>5
<1>. QED
  BY <1>2, <1>6, <1>7

-----------------------------------------------------------------------------
(* What the proofs below use of a sum *)

LEMMA SumType ==
  ASSUME NEW f, IsFiniteSet(DOMAIN f), \A x \in DOMAIN f : f[x] \in Int
  PROVE  SumFunction(f) \in Int
<1>1. PICK g : Adds(g, f, DOMAIN f) /\ SumFunction(f) = g[DOMAIN f]
  BY SumIs DEF SumFunction
<1>. QED
  BY <1>1, AddsType

LEMMA SumNat ==
  ASSUME NEW f, IsFiniteSet(DOMAIN f), \A x \in DOMAIN f : f[x] \in Nat
  PROVE  SumFunction(f) \in Nat
<1>1. PICK g : Adds(g, f, DOMAIN f) /\ SumFunction(f) = g[DOMAIN f]
  BY SumIs DEF SumFunction
<1>. QED
  BY <1>1, AddsNat

LEMMA SumEmpty ==
  ASSUME NEW f, DOMAIN f = {}
  PROVE  SumFunction(f) = 0
<1>1. PICK g : Adds(g, f, DOMAIN f) /\ SumFunction(f) = g[DOMAIN f]
  BY SumIs, FS_EmptySet DEF SumFunction
<1>. QED
  BY <1>1 DEF Adds

(* A sum is one term and the sum of the others. *)
LEMMA SumSplits ==
  ASSUME NEW f, IsFiniteSet(DOMAIN f), \A x \in DOMAIN f : f[x] \in Int,
         NEW x \in DOMAIN f, NEW h, DOMAIN h = DOMAIN f \ {x},
         \A y \in DOMAIN h : h[y] = f[y]
  PROVE  SumFunction(f) = f[x] + SumFunction(h)
<1>1. PICK g : Adds(g, f, DOMAIN f) /\ SumFunction(f) = g[DOMAIN f]
  BY SumIs DEF SumFunction
<1>2. IsFiniteSet(DOMAIN h)
  BY FS_Subset
<1>3. PICK k : Adds(k, h, DOMAIN h) /\ SumFunction(h) = k[DOMAIN h]
  BY <1>2, SumIs DEF SumFunction
<1>4. g[DOMAIN f] = f[x] + g[DOMAIN h]
  BY <1>1, AddsSplits
<1>5. g[DOMAIN h] = k[DOMAIN h]
  BY <1>1, <1>3, AddsAgree
<1>. QED
  BY <1>1, <1>3, <1>4, <1>5

-----------------------------------------------------------------------------
(* The invariant *)

IsSeq(q) == q \in Seq({q[i] : i \in DOMAIN q})

(* The book: one place per order, best price first. *)
OrderOK(r) ==
  /\ DOMAIN r = {"id", "px", "leaves", "hidden", "peak", "ll", "post", "cum"}
  /\ r.id \in Ids /\ r.px \in 1..MaxPx
  /\ r.leaves \in Nat \ {0} /\ r.hidden \in Nat /\ r.peak \in Nat
  /\ r.hidden > 0 => r.peak > 0

QueueOK(s, q) ==
  /\ IsSeq(q)
  /\ \A i \in DOMAIN q : OrderOK(q[i])
  /\ \A i, j \in DOMAIN q : q[i].id = q[j].id => i = j
  /\ \A i, j \in DOMAIN q : i < j => Ahead(s, q[i].px, q[j].px)

BookOK(b) ==
  /\ b = [s \in Sides |-> b[s]]
  /\ \A s \in Sides : QueueOK(s, b[s])
  /\ \A r \in On(b, "buy"), q \in On(b, "sell") : r.id # q.id

HoldOK(h) ==
  /\ {h.maker, h.taker} \subseteq Ids /\ h.maker # h.taker /\ h.side \in Sides
  /\ h.px \in 1..MaxPx /\ h.takerPx \in 1..MaxPx /\ h.qty \in Nat \ {0}

HoldsOK(H) ==
  /\ IsFiniteSet(H)
  /\ \A h \in H : HoldOK(h)
  /\ \A g, h \in H : g.hid = h.hid => g = h

(* Balances and reservations. *)
Balance == [avail : Nat, rsvd : Nat]
Reservation == [side : Sides, limit : Nat \ {0}, raw : Nat]

IsRsv(v) == DOMAIN v \subseteq Ids /\ v \in [DOMAIN v -> Reservation]

FundsTyped(f) ==
  /\ DOMAIN f = {"bal", "rsv"}
  /\ f.bal \in [Accounts -> [Assets -> Balance]]
  /\ IsRsv(f.rsv)

FundsOK(f) ==
  /\ FundsTyped(f)
  /\ \A a \in Accounts, x \in Assets : f.bal[a][x].rsvd = ReservedBy(f.rsv, a, x)
  /\ \A x \in Assets : Supply(f.bal, x) = Deposits * Cardinality(Accounts)

(* What is left of the command.  A sweep is all that goes on but for holds  *)
(* that stand in its way.                                                   *)
SweepOK(w) ==
  /\ DOMAIN w = {"op", "o", "left", "filled", "prior", "amended", "dead"}
  /\ w.o.id \in Ids /\ w.o.side \in Sides /\ w.o.px \in 1..MaxPx /\ w.o.vis \in Nat
  /\ w.left \in Nat

StepOK(u) ==
  /\ u.op = "sweep" => SweepOK(u)
  /\ u.op = "new" => NewOrderOK(u.o)
  /\ u.op \in {"modify", "amend"} =>
       u.m.id \in Ids /\ u.m.px \in 0..MaxPx /\ u.m.qty \in Nat \ {0}

Precedes(u, w) ==
  /\ u.op \in {"sweep", "new", "modify", "amend"} => w.op \in {"new", "answer"}
  /\ w.op = "sweep" => u.op \in {"rejectFor", "resolve"}

WorkOK(k) ==
  /\ IsSeq(k)
  /\ \A i \in DOMAIN k : StepOK(k[i])
  /\ \A i, j \in DOMAIN k : i < j => Precedes(k[i], k[j])

(* The holds a step wants gone, and the ones a step is about to resolve.    *)
Needs(u, h) ==
  \/ u.op = "pull" /\ u.id \in {h.maker, h.taker}
  \/ u.op = "amend" /\ u.m.id \in {h.maker, h.taker}
  \/ u.op = "pullAll" /\ u.acct \in {Owner[h.maker], Owner[h.taker]}

Clears(u, h) ==
  \/ u.op = "resolve" /\ u.hid = h.hid
  \/ u.op = "rejectFor" /\ u.id \in {h.maker, h.taker}
  \/ u.op = "rejectForAccount" /\ u.acct \in {Owner[h.maker], Owner[h.taker]}

Cleared(k, H) ==
  \A i \in DOMAIN k, h \in H :
    Needs(k[i], h) => \E j \in DOMAIN k : j < i /\ Clears(k[j], h)

(* The order that sweeps is not in the book, its holds are with strangers   *)
(* and stay as they are until it is done.                                   *)
Apart(k, b, H) ==
  \A i \in DOMAIN k : k[i].op = "sweep" =>
    /\ ~IsResting(b, k[i].o.id)
    /\ \A h \in HoldsOf(H, k[i].o.id) :
         /\ h.taker = k[i].o.id
         /\ k[i].o.stp # "None" => Scope[Owner[h.maker]] # Scope[Owner[h.taker]]
         /\ \A j \in DOMAIN k : j < i => ~Clears(k[j], h)

Meets(b, o) == \E r \in On(b, Opposite(o.side)) : Crosses(o, r.px)

(* A sweep with a slice on hold finds room for its residual, or goes on.    *)
Room(k, b, H) ==
  /\ Size(b) <= Config.capacity
  /\ \A i \in DOMAIN k : k[i].op = "sweep" =>
       /\ i > 1 => k[i].left > 0 /\ ~k[i].dead /\ Meets(b, k[i].o)
       /\ HoldsOf(H, k[i].o.id) # {} /\ k[i].left > 0 /\ ~k[i].dead =>
            Size(b) < Config.capacity \/ Meets(b, k[i].o)

(* What is alive.  W are the sweeps at work, of which there is at most one; *)
(* of each order in S a handler has q in hand: it has taken it from one     *)
(* place and not put it to another yet.                                     *)
RestIn(b, id) == IF IsResting(b, id) THEN Total(Find(b, id)) ELSE 0
SweepsIn(k) == {k[i] : i \in {j \in DOMAIN k : k[j].op = "sweep"}}
Flies(W, id) == \E w \in W : w.o.id = id
FlyIn(W, id) == IF Flies(W, id) THEN (CHOOSE w \in W : w.o.id = id).left ELSE 0
InHand(S, q, id) == IF id \in S THEN q ELSE 0
Alive(b, H, W, S, q, id) == RestIn(b, id) + HeldQtyFor(H, id) + FlyIn(W, id) + InHand(S, q, id)

OnlyOne(W) == \A w \in W : SweepOK(w) /\ \A v \in W : v = w

(* A reservation is good for an order of this side up to this price.        *)
GoodFor(v, id, s, px) ==
  id \in DOMAIN v /\ v[id].side = s /\ (s = "buy" => px <= v[id].limit)

LimitOf(o) == IF o.mkt THEN MaxPx ELSE o.px

(* Every live piece has a reservation of its side and price.                *)
BookFunded(b, v) == \A s \in Sides : \A r \in On(b, s) : GoodFor(v, r.id, s, r.px)
HoldFunded(h, v) ==
  /\ GoodFor(v, h.maker, Opposite(h.side), h.px)
  /\ GoodFor(v, h.taker, h.side, h.px)
  /\ ~h.mkt => GoodFor(v, h.taker, h.side, h.takerPx)
SweepFunded(w, v) ==
  w.left > 0 \/ w.o.id \in DOMAIN v => GoodFor(v, w.o.id, w.o.side, LimitOf(w.o))
Funded(b, H, W, v) ==
  BookFunded(b, v) /\ (\A h \in H : HoldFunded(h, v)) /\ (\A w \in W : SweepFunded(w, v))

(* It covers what is alive, exactly unless something was netted off.        *)
Cover(r, k, q) == r.raw >= Backing(r, q) /\ (k = 0 => r.raw = Backing(r, q))
Covered(b, H, W, v, n, S, q) ==
  \A id \in DOMAIN v : Cover(v[id], n[id], Alive(b, H, W, S, q, id))

(* Nothing is reserved for an order that is gone, but for the ids in X.     *)
Present(b, H, W, id) ==
  \/ IsResting(b, id) \/ HoldsOf(H, id) # {}
  \/ \E w \in W : w.o.id = id /\ (w.left > 0 \/ w.dead)
Needed(b, H, W, v, X) == \A id \in DOMAIN v \ X : Present(b, H, W, id)

Backed(b, H, W, v, n, S, q, X) ==
  /\ BookOK(b) /\ HoldsOK(H) /\ OnlyOne(W) /\ IsRsv(v)
  /\ n \in [Ids -> Nat] /\ S \subseteq Ids /\ q \in Nat
  /\ Funded(b, H, W, v) /\ Covered(b, H, W, v, n, S, q) /\ Needed(b, H, W, v, X)

-----------------------------------------------------------------------------
(* Sequences *)

LEMMA InSeq ==
  ASSUME NEW S, NEW q \in Seq(S)
  PROVE  IsSeq(q)
  BY DEF IsSeq

LEMMA SeqShape ==
  ASSUME NEW q, IsSeq(q)
  PROVE  Len(q) \in Nat /\ DOMAIN q = 1..Len(q)
  BY DEF IsSeq

LEMMA InsertShape ==
  ASSUME NEW q, IsSeq(q), NEW k \in 1..(Len(q) + 1), NEW r
  PROVE  /\ IsSeq(InsertAt(q, k, r)) /\ Len(InsertAt(q, k, r)) = Len(q) + 1
         /\ \A i \in 1..(Len(q) + 1) :
              InsertAt(q, k, r)[i] = IF i < k THEN q[i] ELSE IF i = k THEN r ELSE q[i - 1]
<1>. DEFINE S == {q[i] : i \in DOMAIN q} \cup {r}
            a == SubSeq(q, 1, k - 1)
            c == SubSeq(q, k, Len(q))
<1>1. q \in Seq(S) /\ Len(q) \in Nat /\ k \in Nat
  BY DEF IsSeq
<1>2. a \in Seq(S) /\ Len(a) = k - 1 /\ \A i \in 1..(k - 1) : a[i] = q[i]
  BY <1>1
<1>3. c \in Seq(S) /\ Len(c) = Len(q) - k + 1 /\ \A i \in 1..(Len(q) - k + 1) : c[i] = q[k + i - 1]
  BY <1>1
<1>4. InsertAt(q, k, r) = a \o <<r>> \o c
  BY DEF InsertAt
<1>. HIDE DEF a, c, S
<1>5. /\ a \o <<r>> \in Seq(S) /\ Len(a \o <<r>>) = k
      /\ \A i \in 1..k : (a \o <<r>>)[i] = IF i < k THEN q[i] ELSE r
  BY <1>1, <1>2 DEF S
<1>. DEFINE d == a \o <<r>>
            z == InsertAt(q, k, r)
<1>9. d \in Seq(S) /\ Len(d) = k /\ z = d \o c /\ \A i \in 1..k : d[i] = IF i < k THEN q[i] ELSE r
  BY <1>4, <1>5
<1>. HIDE DEF d, z
<1>10. /\ z \in Seq(S) /\ Len(z) = Len(d) + Len(c)
       /\ \A i \in 1..(Len(d) + Len(c)) : z[i] = IF i <= Len(d) THEN d[i] ELSE c[i - Len(d)]
  <2>1. /\ d \o c \in Seq(S) /\ Len(d \o c) = Len(d) + Len(c)
        /\ \A i \in 1..(Len(d) + Len(c)) : (d \o c)[i] = IF i <= Len(d) THEN d[i] ELSE c[i - Len(d)]
    BY <1>3, <1>9, ConcatProperties, Zenon
  <2>. QED
    BY <1>9, <2>1, Zenon
<1>11. /\ z \in Seq(S) /\ Len(z) = Len(q) + 1
       /\ \A i \in 1..(Len(q) + 1) : z[i] = IF i <= k THEN d[i] ELSE c[i - k]
  BY <1>1, <1>3, <1>9, <1>10
<1>6. InsertAt(q, k, r) \in Seq(S) /\ Len(InsertAt(q, k, r)) = Len(q) + 1
  BY <1>11 DEF z
<1>7. ASSUME NEW i \in 1..(Len(q) + 1)
      PROVE  InsertAt(q, k, r)[i] = IF i < k THEN q[i] ELSE IF i = k THEN r ELSE q[i - 1]
  <2>1. CASE i <= k
    <3>1. z[i] = d[i]
      BY <1>11, <2>1
    <3>. QED
      BY <1>1, <1>9, <2>1, <3>1 DEF z
  <2>2. CASE i > k
    <3>1. i - k \in 1..(Len(q) - k + 1)
      BY <1>1, <2>2
    <3>2. z[i] = c[i - k]
      BY <1>1, <1>11, <2>2
    <3>3. c[i - k] = q[k + (i - k) - 1]
      BY <1>3, <3>1
    <3>. QED
      BY <1>1, <2>2, <3>2, <3>3 DEF z
  <2>. QED
    BY <1>1, <2>1, <2>2
<1>8. IsSeq(InsertAt(q, k, r))
  BY <1>6, InSeq, Zenon
<1>. QED
  BY <1>6, <1>7, <1>8

LEMMA RemoveShape ==
  ASSUME NEW q, IsSeq(q), NEW k \in 1..Len(q)
  PROVE  /\ IsSeq(RemoveAt(q, k)) /\ Len(RemoveAt(q, k)) = Len(q) - 1
         /\ \A i \in 1..(Len(q) - 1) : RemoveAt(q, k)[i] = IF i < k THEN q[i] ELSE q[i + 1]
<1>. DEFINE S == {q[i] : i \in DOMAIN q}
            a == SubSeq(q, 1, k - 1)
            c == SubSeq(q, k + 1, Len(q))
<1>1. q \in Seq(S) /\ Len(q) \in Nat /\ k \in Nat
  BY DEF IsSeq
<1>2. a \in Seq(S) /\ Len(a) = k - 1 /\ \A i \in 1..(k - 1) : a[i] = q[i]
  BY <1>1
<1>3. c \in Seq(S) /\ Len(c) = Len(q) - k /\ \A i \in 1..(Len(q) - k) : c[i] = q[k + i]
  BY <1>1
<1>4. RemoveAt(q, k) = a \o c
  BY DEF RemoveAt
<1>. HIDE DEF a, c, S
<1>5. RemoveAt(q, k) \in Seq(S) /\ Len(RemoveAt(q, k)) = Len(q) - 1
  <2>0. a \in Seq(S) /\ c \in Seq(S)
    BY <1>2, <1>3
  <2>1. a \o c \in Seq(S) /\ Len(a \o c) = Len(a) + Len(c)
    BY <2>0, ConcatProperties
  <2>2. Len(a) + Len(c) = Len(q) - 1
    BY <1>1, <1>2, <1>3
  <2>. QED
    BY <1>4, <2>1, <2>2, Zenon
<1>6. ASSUME NEW i \in 1..(Len(q) - 1)
      PROVE  RemoveAt(q, k)[i] = IF i < k THEN q[i] ELSE q[i + 1]
  BY <1>1, <1>2, <1>3, <1>4
<1>7. IsSeq(RemoveAt(q, k))
  BY <1>5, InSeq, Zenon
<1>. QED
  BY <1>5, <1>6, <1>7

LEMMA TailShape ==
  ASSUME NEW q, IsSeq(q), q # <<>>
  PROVE  /\ IsSeq(Tail(q)) /\ Len(Tail(q)) = Len(q) - 1 /\ Len(q) >= 1 /\ Head(q) = q[1]
         /\ \A i \in 1..(Len(q) - 1) : Tail(q)[i] = q[i + 1]
<1>1. q \in Seq({q[i] : i \in DOMAIN q})
  BY DEF IsSeq
<1>2. Tail(q) \in Seq({q[i] : i \in DOMAIN q})
  BY <1>1
<1>3. IsSeq(Tail(q))
  BY <1>2, InSeq, Zenon
<1>. QED
  BY <1>1, <1>3

LEMMA SetShape ==
  ASSUME NEW q, IsSeq(q), NEW k \in 1..Len(q), NEW r
  PROVE  /\ IsSeq([q EXCEPT ![k] = r]) /\ Len([q EXCEPT ![k] = r]) = Len(q)
         /\ \A i \in 1..Len(q) : [q EXCEPT ![k] = r][i] = IF i = k THEN r ELSE q[i]
<1>. DEFINE S == {q[i] : i \in DOMAIN q} \cup {r}
<1>1. q \in Seq(S)
  BY DEF IsSeq
<1>2. [q EXCEPT ![k] = r] \in Seq(S)
  BY <1>1
<1>3. IsSeq([q EXCEPT ![k] = r])
  BY <1>2, InSeq, Zenon
<1>. QED
  BY <1>1, <1>3

(* What is put before the rest of the work. *)
LEMMA PushShape ==
  ASSUME NEW q, IsSeq(q), NEW p, IsSeq(p)
  PROVE  /\ IsSeq(p \o q) /\ Len(p \o q) = Len(p) + Len(q)
         /\ \A i \in 1..Len(p) : (p \o q)[i] = p[i]
         /\ \A i \in 1..Len(q) : (p \o q)[Len(p) + i] = q[i]
<1>. DEFINE S == {q[i] : i \in DOMAIN q} \cup {p[i] : i \in DOMAIN p}
<1>1. q \in Seq(S) /\ p \in Seq(S)
  BY DEF IsSeq
<1>2. p \o q \in Seq(S)
  BY <1>1
<1>3. IsSeq(p \o q)
  BY <1>2, InSeq, Zenon
<1>. QED
  BY <1>1, <1>3

-----------------------------------------------------------------------------
(* The book *)

Elems(q) == {q[i] : i \in DOMAIN q}

(* The orders at least as good as a price are the first ones. *)
LEMMA PlaceOf ==
  ASSUME NEW s \in Sides, NEW q, QueueOK(s, q), NEW px \in 1..MaxPx
  PROVE  LET k == 1 + Cardinality({i \in DOMAIN q : Ahead(s, q[i].px, px)})
         IN  k \in 1..(Len(q) + 1) /\ \A i \in DOMAIN q : i < k <=> Ahead(s, q[i].px, px)
<1>. DEFINE A == {i \in DOMAIN q : Ahead(s, q[i].px, px)}
            N == {n \in Nat : n >= 1 /\ n \notin A}
<1>1. Len(q) \in Nat /\ DOMAIN q = 1..Len(q)
  BY SeqShape DEF QueueOK
<1>2. Len(q) + 1 \in N
  BY <1>1
<1>3. PICK m \in N : \A n \in Nat : n < m => n \notin N
  <2>1. N \in SUBSET Nat /\ N # {}
    BY <1>2
  <2>. QED
    BY <2>1, LeastOf
<1>4. m \in Nat /\ m >= 1 /\ m <= Len(q) + 1
  BY <1>1, <1>2, <1>3
<1>5. \A i \in 1..(m - 1) : i \in A
  BY <1>3, <1>4
<1>6. ASSUME NEW i \in DOMAIN q, i >= m
      PROVE  i \notin A
  <2>1. m \in DOMAIN q /\ m \notin A
    BY <1>1, <1>3, <1>4, <1>6
  <2>2. ~Ahead(s, q[m].px, px)
    BY <2>1
  <2>3. i # m => Ahead(s, q[m].px, q[i].px)
    BY <1>1, <1>4, <1>6, <2>1 DEF QueueOK
  <2>4. q[m].px \in Nat /\ q[i].px \in Nat /\ px \in Nat
    BY <2>1, EngineAssumption DEF QueueOK, OrderOK
  <2>. QED
    BY <2>2, <2>3, <2>4 DEF Ahead
<1>7. A = 1..(m - 1)
  <2>1. A \subseteq 1..(m - 1)
    BY <1>1, <1>4, <1>6
  <2>. QED
    BY <1>5, <2>1
<1>8. \A i \in DOMAIN q : i < m <=> Ahead(s, q[i].px, px)
  BY <1>1, <1>4, <1>7
<1>. HIDE DEF A
<1>9. 1 + Cardinality(A) = m
  <2>1. 1 \in Int /\ m - 1 \in Int
    BY <1>4
  <2>2. Cardinality(1..(m - 1)) = IF 1 > m - 1 THEN 0 ELSE (m - 1) - 1 + 1
    BY <2>1, FS_Interval
  <2>3. Cardinality(A) = Cardinality(1..(m - 1))
    BY <1>7, Zenon
  <2>. QED
    BY <1>4, <2>2, <2>3
<1>. DEFINE k == 1 + Cardinality(A)
<1>10. k = m
  BY <1>9
<1>. HIDE DEF k
<1>11. k \in 1..(Len(q) + 1) /\ \A i \in DOMAIN q : i < k <=> Ahead(s, q[i].px, px)
  BY <1>1, <1>4, <1>8, <1>10
<1>. QED
  BY <1>11, Zenon DEF k, A

LEMMA InsertQueue ==
  ASSUME NEW s \in Sides, NEW q, QueueOK(s, q), NEW r, OrderOK(r),
         \A i \in DOMAIN q : q[i].id # r.id
  PROVE  LET k == 1 + Cardinality({i \in DOMAIN q : Ahead(s, q[i].px, r.px)})
             z == InsertAt(q, k, r)
         IN  QueueOK(s, z) /\ Len(z) = Len(q) + 1 /\ Elems(z) = Elems(q) \cup {r}
<1>. DEFINE k == 1 + Cardinality({i \in DOMAIN q : Ahead(s, q[i].px, r.px)})
            z == InsertAt(q, k, r)
<1>1. IsSeq(q) /\ Len(q) \in Nat /\ DOMAIN q = 1..Len(q) /\ r.px \in 1..MaxPx
  BY SeqShape DEF QueueOK, OrderOK
<1>2. k \in 1..(Len(q) + 1) /\ \A i \in DOMAIN q : i < k <=> Ahead(s, q[i].px, r.px)
  BY <1>1, PlaceOf
<1>. HIDE DEF k
<1>3. /\ IsSeq(z) /\ Len(z) = Len(q) + 1
      /\ \A i \in 1..(Len(q) + 1) : z[i] = IF i < k THEN q[i] ELSE IF i = k THEN r ELSE q[i - 1]
  BY <1>1, <1>2, InsertShape
<1>. HIDE DEF z
<1>4. DOMAIN z = 1..(Len(q) + 1)
  BY <1>3, SeqShape
<1>. DEFINE from(i) == IF i < k THEN i ELSE i - 1
<1>5. \A i \in DOMAIN z : i # k => from(i) \in DOMAIN q /\ z[i] = q[from(i)]
  BY <1>1, <1>2, <1>3, <1>4
<1>6. k \in DOMAIN z /\ z[k] = r
  BY <1>2, <1>3, <1>4
<1>7. \A i \in DOMAIN z : OrderOK(z[i])
  BY <1>5, <1>6 DEF QueueOK
<1>8. \A i, j \in DOMAIN z : z[i].id = z[j].id => i = j
  <2>1. SUFFICES ASSUME NEW i \in DOMAIN z, NEW j \in DOMAIN z, z[i].id = z[j].id
                 PROVE  i = j
    OBVIOUS
  <2>2. CASE i = k \/ j = k
    BY <1>5, <1>6, <2>1, <2>2
  <2>3. CASE i # k /\ j # k
    <3>1. from(i) = from(j)
      BY <1>5, <2>1, <2>3 DEF QueueOK
    <3>. QED
      BY <1>1, <1>2, <1>4, <2>3, <3>1
  <2>. QED
    BY <2>2, <2>3
<1>9. \A i, j \in DOMAIN z : i < j => Ahead(s, z[i].px, z[j].px)
  <2>1. SUFFICES ASSUME NEW i \in DOMAIN z, NEW j \in DOMAIN z, i < j
                 PROVE  Ahead(s, z[i].px, z[j].px)
    OBVIOUS
  <2>2. CASE j = k
    BY <1>1, <1>2, <1>4, <1>5, <1>6, <2>1, <2>2
  <2>3. CASE i = k
    <3>1. j # k /\ ~(from(j) < k) /\ from(j) \in DOMAIN q
      BY <1>1, <1>2, <1>4, <1>5, <2>1, <2>3
    <3>2. ~Ahead(s, q[from(j)].px, r.px)
      BY <1>2, <3>1
    <3>3. q[from(j)].px \in Nat /\ r.px \in Nat
      BY <1>1, <3>1, EngineAssumption DEF QueueOK, OrderOK
    <3>. QED
      BY <1>5, <1>6, <2>3, <3>1, <3>2, <3>3 DEF Ahead
  <2>4. CASE i # k /\ j # k
    <3>1. from(i) < from(j)
      BY <1>1, <1>2, <1>4, <2>1, <2>4
    <3>. QED
      BY <1>5, <2>4, <3>1 DEF QueueOK
  <2>. QED
    BY <2>2, <2>3, <2>4
<1>10. Elems(z) = Elems(q) \cup {r}
  <2>1. Elems(z) \subseteq Elems(q) \cup {r}
    BY <1>5, <1>6 DEF Elems
  <2>2. ASSUME NEW i \in DOMAIN q
        PROVE  q[i] \in Elems(z)
    <3>1. CASE i < k
      BY <1>1, <1>3, <1>4, <3>1 DEF Elems
    <3>2. CASE ~(i < k)
      <4>1. i + 1 \in DOMAIN z /\ z[i + 1] = q[(i + 1) - 1] /\ (i + 1) - 1 = i
        BY <1>1, <1>2, <1>3, <1>4, <3>2
      <4>. QED
        BY <4>1 DEF Elems
    <3>. QED
      BY <3>1, <3>2
  <2>. QED
    BY <1>6, <2>1, <2>2 DEF Elems
<1>11. QueueOK(s, z)
  BY <1>3, <1>7, <1>8, <1>9 DEF QueueOK
<1>. QED
  BY <1>3, <1>10, <1>11 DEF k, z

LEMMA RemoveQueue ==
  ASSUME NEW s \in Sides, NEW q, QueueOK(s, q), NEW k \in DOMAIN q
  PROVE  LET z == RemoveAt(q, k)
         IN  QueueOK(s, z) /\ Len(z) = Len(q) - 1 /\ Elems(z) = {r \in Elems(q) : r.id # q[k].id}
<1>. DEFINE z == RemoveAt(q, k)
<1>1. IsSeq(q) /\ Len(q) \in Nat /\ DOMAIN q = 1..Len(q)
  BY SeqShape, SMTT(40) DEF QueueOK
<1>2. /\ IsSeq(z) /\ Len(z) = Len(q) - 1
      /\ \A i \in 1..(Len(q) - 1) : z[i] = IF i < k THEN q[i] ELSE q[i + 1]
  BY <1>1, RemoveShape
<1>. HIDE DEF z
<1>3. DOMAIN z = 1..(Len(q) - 1)
  BY <1>2, SeqShape
<1>. DEFINE from(i) == IF i < k THEN i ELSE i + 1
<1>4. \A i \in DOMAIN z : from(i) \in DOMAIN q /\ z[i] = q[from(i)] /\ from(i) # k
  BY <1>1, <1>2, <1>3
<1>5. \A i, j \in DOMAIN z : (from(i) = from(j) => i = j) /\ (i < j => from(i) < from(j))
  BY <1>1, <1>3
<1>6. QueueOK(s, z)
  <2>1. \A i \in DOMAIN z : OrderOK(z[i])
    BY <1>4 DEF QueueOK
  <2>2. \A i, j \in DOMAIN z : z[i].id = z[j].id => i = j
    BY <1>4, <1>5 DEF QueueOK
  <2>3. \A i, j \in DOMAIN z : i < j => Ahead(s, z[i].px, z[j].px)
    BY <1>4, <1>5 DEF QueueOK
  <2>. QED
    BY <1>2, <2>1, <2>2, <2>3 DEF QueueOK
<1>7. Elems(z) = {r \in Elems(q) : r.id # q[k].id}
  <2>1. Elems(z) \subseteq {r \in Elems(q) : r.id # q[k].id}
    BY <1>4 DEF Elems, QueueOK
  <2>2. ASSUME NEW i \in DOMAIN q, i # k
        PROVE  q[i] \in Elems(z)
    <3>1. CASE i < k
      BY <1>1, <1>2, <1>3, <3>1 DEF Elems
    <3>2. CASE i > k
      <4>1. i - 1 \in DOMAIN z /\ z[i - 1] = q[(i - 1) + 1] /\ (i - 1) + 1 = i
        BY <1>1, <1>2, <1>3, <3>2
      <4>. QED
        BY <4>1 DEF Elems
    <3>. QED
      BY <1>1, <2>2, <3>1, <3>2
  <2>3. \A r \in Elems(q) : r.id # q[k].id => r \in Elems(z)
    BY <2>2 DEF Elems
  <2>. QED
    BY <2>1, <2>3
<1>. QED
  BY <1>2, <1>6, <1>7 DEF z

LEMMA TailQueue ==
  ASSUME NEW s \in Sides, NEW q, QueueOK(s, q), q # <<>>
  PROVE  /\ QueueOK(s, Tail(q)) /\ Len(Tail(q)) = Len(q) - 1 /\ 1 \in DOMAIN q /\ Head(q) = q[1]
         /\ Elems(Tail(q)) = {r \in Elems(q) : r.id # q[1].id}
<1>1. /\ IsSeq(q) /\ Len(q) \in Nat /\ DOMAIN q = 1..Len(q) /\ Len(q) >= 1
      /\ 1 \in DOMAIN q /\ Head(q) = q[1]
  BY SeqShape, TailShape DEF QueueOK
<1>2. /\ IsSeq(Tail(q)) /\ Len(Tail(q)) = Len(q) - 1 /\ DOMAIN Tail(q) = 1..(Len(q) - 1)
      /\ \A i \in 1..(Len(q) - 1) : Tail(q)[i] = q[i + 1]
  BY <1>1, TailShape, SeqShape
<1>. DEFINE z == Tail(q)
<1>. HIDE DEF z
<1>3. \A i \in DOMAIN z : i + 1 \in DOMAIN q /\ z[i] = q[i + 1] /\ i + 1 # 1
  BY <1>1, <1>2 DEF z
<1>4. QueueOK(s, z)
  <2>1. \A i \in DOMAIN z : OrderOK(z[i])
    BY <1>3 DEF QueueOK
  <2>2. \A i, j \in DOMAIN z : i \in Int /\ j \in Int /\ (i + 1 = j + 1 => i = j) /\ (i < j => i + 1 < j + 1)
    BY <1>1, <1>2 DEF z
  <2>3. \A i, j \in DOMAIN z : z[i].id = z[j].id => i = j
    BY <1>3, <2>2 DEF QueueOK
  <2>4. \A i, j \in DOMAIN z : i < j => Ahead(s, z[i].px, z[j].px)
    BY <1>3, <2>2 DEF QueueOK
  <2>. QED
    BY <1>2, <2>1, <2>3, <2>4 DEF QueueOK, z
<1>5. Elems(z) = {r \in Elems(q) : r.id # q[1].id}
  <2>1. Elems(z) \subseteq {r \in Elems(q) : r.id # q[1].id}
    BY <1>1, <1>3 DEF Elems, QueueOK
  <2>2. ASSUME NEW i \in DOMAIN q, i # 1
        PROVE  q[i] \in Elems(z)
    <3>1. i - 1 \in DOMAIN z /\ z[i - 1] = q[(i - 1) + 1] /\ (i - 1) + 1 = i
      BY <1>1, <1>2, <2>2 DEF z
    <3>. QED
      BY <3>1 DEF Elems
  <2>3. \A r \in Elems(q) : r.id # q[1].id => r \in Elems(z)
    BY <2>2 DEF Elems
  <2>. QED
    BY <2>1, <2>3
<1>. QED
  BY <1>1, <1>2, <1>4, <1>5 DEF z

Put(f, k, r) == [f EXCEPT ![k] = r]

(* An order is replaced where it is. *)
LEMMA SetQueue ==
  ASSUME NEW s \in Sides, NEW q, QueueOK(s, q), NEW k \in DOMAIN q, NEW r, OrderOK(r),
         r.id = q[k].id, r.px = q[k].px, NEW z, z = Put(q, k, r)
  PROVE  /\ QueueOK(s, z) /\ Len(z) = Len(q)
         /\ Elems(z) = {x \in Elems(q) : x.id # r.id} \cup {r}
<1>1. IsSeq(q) /\ Len(q) \in Nat /\ DOMAIN q = 1..Len(q)
  BY SeqShape DEF QueueOK
<1>2. /\ IsSeq(z) /\ Len(z) = Len(q) /\ DOMAIN z = DOMAIN q
      /\ \A i \in DOMAIN q : z[i] = IF i = k THEN r ELSE q[i]
  BY <1>1, SetShape DEF Put
<1>3. \A i \in DOMAIN q : OrderOK(z[i]) /\ z[i].id = q[i].id /\ z[i].px = q[i].px
  BY <1>2 DEF QueueOK
<1>4. QueueOK(s, z)
  BY <1>2, <1>3 DEF QueueOK
<1>5. Elems(z) = {x \in Elems(q) : x.id # r.id} \cup {r}
  <2>1. Elems(z) \subseteq {x \in Elems(q) : x.id # r.id} \cup {r}
    BY <1>2 DEF Elems, QueueOK
  <2>2. \A x \in Elems(q) : x.id # r.id => x \in Elems(z)
    BY <1>2 DEF Elems
  <2>3. r \in Elems(z)
    BY <1>2 DEF Elems
  <2>. QED
    BY <2>1, <2>2, <2>3
<1>. QED
  BY <1>2, <1>4, <1>5

(* What a call of the book does: the order `id` becomes N, which is empty or  *)
(* holds the order's new form on side s.                                     *)
Becomes(b, c, s, id, N) ==
  /\ \A x \in N : x.id = id
  /\ \A z \in Sides :
       On(c, z) = {x \in On(b, z) : x.id # id} \cup (IF z = s THEN N ELSE {})

LEMMA OneEach ==
  ASSUME NEW b, BookOK(b), NEW s \in Sides, NEW z \in Sides, NEW r \in On(b, s), NEW q \in On(b, z),
         r.id = q.id
  PROVE  s = z /\ r = q
<1>1. s = z
  BY DEF BookOK, Sides
<1>. QED
  BY <1>1 DEF BookOK, QueueOK, On

LEMMA RestingIs ==
  ASSUME NEW b, NEW id
  PROVE  IsResting(b, id) <=> \E s \in Sides : \E r \in On(b, s) : r.id = id
  BY DEF IsResting, Orders, Sides

LEMMA OrderIs ==
  ASSUME NEW b, BookOK(b), NEW s \in Sides, NEW r \in On(b, s)
  PROVE  /\ OrderOK(r) /\ IsResting(b, r.id) /\ Find(b, r.id) = r /\ SideOf(b, r.id) = s
         /\ Place(b, r.id) \in DOMAIN b[s] /\ b[s][Place(b, r.id)] = r
<1>1. OrderOK(r)
  BY DEF BookOK, QueueOK, On
<1>2. r \in Orders(b)
  BY DEF Orders, Sides
<1>3. \A q \in Orders(b) : q.id = r.id => q = r
  BY OneEach DEF Orders, Sides
<1>4. Find(b, r.id) = r
  BY <1>2, <1>3 DEF Find
<1>5. SideOf(b, r.id) = s
  <2>1. CASE s = "buy"
    BY <2>1 DEF SideOf
  <2>2. CASE s = "sell"
    BY <2>2 DEF SideOf, BookOK
  <2>. QED
    BY <2>1, <2>2 DEF Sides
<1>6. PICK k \in DOMAIN b[s] : b[s][k] = r
  BY DEF On
<1>7. \A i \in DOMAIN b[s] : b[s][i].id = r.id => i = k
  BY <1>6 DEF BookOK, QueueOK
<1>8. Place(b, r.id) = k
  <2>1. Place(b, r.id) = CHOOSE i \in DOMAIN b[s] : b[s][i].id = r.id
    BY <1>5 DEF Place
  <2>. QED
    BY <1>6, <1>7, <2>1
<1>. QED
  BY <1>1, <1>2, <1>4, <1>5, <1>6, <1>8 DEF IsResting

(* The orders of a queue but for `id`, and N. *)
Sheds(A, B, id, N) == A = {x \in B : x.id # id} \cup N

(* One queue is replaced. *)
LEMMA QueueReplaced ==
  ASSUME NEW b, BookOK(b), NEW s \in Sides, NEW q, QueueOK(s, q), NEW id, NEW N,
         \A x \in N : x.id = id,
         Sheds(Elems(q), On(b, s), id, N),
         \A r \in On(b, Opposite(s)) : r.id # id,
         NEW c, c = Put(b, s, q)
  PROVE  /\ BookOK(c) /\ Becomes(b, c, s, id, N)
         /\ Size(c) = Size(b) - Len(b[s]) + Len(q)
<1>. DEFINE o == Opposite(s)
<1>1. DOMAIN b = Sides /\ o \in Sides /\ o # s /\ Sides = {s, o}
  BY DEF BookOK, Opposite, Sides
<1>2. c[s] = q /\ c[o] = b[o] /\ c = [z \in Sides |-> c[z]]
  BY <1>1 DEF Put
<1>3. Len(b[s]) \in Nat /\ Len(b[o]) \in Nat /\ Len(q) \in Nat
  BY <1>1, SeqShape DEF BookOK, QueueOK
<1>4. On(c, s) = Elems(q) /\ On(c, o) = On(b, o)
  BY <1>2 DEF On, Elems
<1>5. On(b, o) = {x \in On(b, o) : x.id # id}
  OBVIOUS
<1>6. Becomes(b, c, s, id, N)
  BY <1>1, <1>4, <1>5 DEF Becomes, Sheds
<1>7. \A r \in On(c, s), p \in On(c, o) : r.id # p.id
  <2>1. \A r \in On(b, s), p \in On(b, o) : r.id # p.id
    BY <1>1, OneEach
  <2>. QED
    BY <1>4, <2>1 DEF Sheds
<1>8. BookOK(c)
  <2>1. \A z \in Sides : QueueOK(z, c[z])
    BY <1>1, <1>2 DEF BookOK
  <2>2. \A r \in On(c, "buy"), p \in On(c, "sell") : r.id # p.id
    BY <1>7 DEF Sides, Opposite
  <2>. QED
    BY <1>2, <2>1, <2>2 DEF BookOK
<1>9. Size(c) = Size(b) - Len(b[s]) + Len(q)
  <2>0. c[s] = q /\ c[o] = b[o]
    BY <1>2
  <2>1. CASE s = "buy"
    <3>1. c["buy"] = q /\ c["sell"] = b["sell"] /\ s = "buy" /\ o = "sell"
      BY <2>0, <2>1 DEF Opposite
    <3>2. Len(b["buy"]) \in Nat /\ Len(b["sell"]) \in Nat /\ Len(q) \in Nat
      BY <1>3, <3>1
    <3>3. Size(c) = Len(q) + Len(b["sell"]) /\ Size(b) = Len(b["buy"]) + Len(b["sell"])
      BY <3>1, Zenon DEF Size
    <3>. QED
      BY <2>1, <3>2, <3>3
  <2>2. CASE s = "sell"
    <3>1. c["sell"] = q /\ c["buy"] = b["buy"] /\ s = "sell" /\ o = "buy"
      BY <2>0, <2>2 DEF Opposite
    <3>2. Len(b["buy"]) \in Nat /\ Len(b["sell"]) \in Nat /\ Len(q) \in Nat
      BY <1>3, <3>1
    <3>3. Size(c) = Len(b["buy"]) + Len(q) /\ Size(b) = Len(b["buy"]) + Len(b["sell"])
      BY <3>1, Zenon DEF Size
    <3>. QED
      BY <2>2, <3>2, <3>3
  <2>. QED
    BY <2>1, <2>2 DEF Sides
<1>. QED
  BY <1>6, <1>8, <1>9

LEMMA NotAcross ==
  ASSUME NEW b, BookOK(b), NEW s \in Sides, NEW r \in On(b, s)
  PROVE  \A p \in On(b, Opposite(s)) : p.id # r.id
  BY OneEach DEF Opposite, Sides

LEMMA CancelKeeps ==
  ASSUME NEW b, BookOK(b), NEW s \in Sides, NEW r \in On(b, s)
  PROVE  /\ BookOK(Cancel(b, r.id)) /\ Becomes(b, Cancel(b, r.id), s, r.id, {})
         /\ Size(Cancel(b, r.id)) = Size(b) - 1
<1>. DEFINE k == Place(b, r.id)
            q == RemoveAt(b[s], k)
<1>1. k \in DOMAIN b[s] /\ b[s][k] = r /\ IsResting(b, r.id) /\ SideOf(b, r.id) = s
  BY OrderIs
<1>2. QueueOK(s, b[s]) /\ DOMAIN b = Sides /\ Len(b[s]) \in Nat
  BY SeqShape DEF BookOK, QueueOK
<1>. DEFINE c == Cancel(b, r.id)
<1>3. c = Put(b, s, q)
  BY <1>1, <1>2 DEF Cancel, Put
<1>. HIDE DEF k
<1>4. QueueOK(s, q) /\ Len(q) = Len(b[s]) - 1 /\ Elems(q) = {x \in Elems(b[s]) : x.id # r.id}
  BY <1>1, <1>2, RemoveQueue
<1>. HIDE DEF q, c
<1>5. Sheds(Elems(q), On(b, s), r.id, {}) /\ \A x \in {} : x.id = r.id
  BY <1>4 DEF Elems, On, Sheds
<1>6. /\ BookOK(c) /\ Becomes(b, c, s, r.id, {})
      /\ Size(c) = Size(b) - Len(b[s]) + Len(q)
  <2>1. \A p \in On(b, Opposite(s)) : p.id # r.id
    BY NotAcross
  <2>2. QueueOK(s, q)
    BY <1>4
  <2>. QED
    BY <1>3, <1>5, <2>1, <2>2, QueueReplaced, SMTT(30)
<1>7. Size(b) \in Int
  BY SeqShape DEF Size, BookOK, QueueOK, Sides
<1>. QED
  BY <1>2, <1>4, <1>6, <1>7 DEF c

LEMMA AddKeeps ==
  ASSUME NEW b, BookOK(b), NEW s \in Sides, NEW r, OrderOK(r), ~IsResting(b, r.id)
  PROVE  /\ BookOK(AddResting(b, s, r)) /\ Becomes(b, AddResting(b, s, r), s, r.id, {r})
         /\ Size(AddResting(b, s, r)) = Size(b) + 1
<1>. DEFINE k == 1 + Cardinality({i \in DOMAIN b[s] : Ahead(s, b[s][i].px, r.px)})
            q == InsertAt(b[s], k, r)
<1>1. QueueOK(s, b[s]) /\ DOMAIN b = Sides /\ Len(b[s]) \in Nat
  BY SeqShape DEF BookOK, QueueOK
<1>2. \A z \in Sides : \A x \in On(b, z) : x.id # r.id
  BY RestingIs
<1>. DEFINE c == AddResting(b, s, r)
<1>3. c = Put(b, s, q)
  BY <1>1 DEF AddResting, Put
<1>4. QueueOK(s, q) /\ Len(q) = Len(b[s]) + 1 /\ Elems(q) = Elems(b[s]) \cup {r}
  <2>1. \A i \in DOMAIN b[s] : b[s][i].id # r.id
    BY <1>2 DEF On
  <2>. QED
    BY <1>1, <2>1, InsertQueue
<1>. HIDE DEF q, c
<1>5. Sheds(Elems(q), On(b, s), r.id, {r})
  BY <1>2, <1>4 DEF Elems, On, Sheds
<1>6. \A x \in {r} : x.id = r.id
  OBVIOUS
<1>7. \A p \in On(b, Opposite(s)) : p.id # r.id
  BY <1>2 DEF Opposite, Sides
<1>8. /\ BookOK(c) /\ Becomes(b, c, s, r.id, {r})
      /\ Size(c) = Size(b) - Len(b[s]) + Len(q)
  <2>1. QueueOK(s, q)
    BY <1>4
  <2>. QED
    BY <1>3, <1>5, <1>6, <1>7, <2>1, QueueReplaced, SMTT(30)
<1>9. Size(b) \in Int
  BY SeqShape DEF Size, BookOK, QueueOK, Sides
<1>. QED
  BY <1>1, <1>4, <1>8, <1>9 DEF c

LEMMA InPlaceKeeps ==
  ASSUME NEW b, BookOK(b), NEW s \in Sides, NEW r \in On(b, s), NEW n, OrderOK(n),
         n.id = r.id, n.px = r.px
  PROVE  /\ BookOK(InPlace(b, n)) /\ Becomes(b, InPlace(b, n), s, r.id, {n})
         /\ Size(InPlace(b, n)) = Size(b)
<1>. DEFINE k == Place(b, r.id)
            q == Put(b[s], k, n)
<1>1. k \in DOMAIN b[s] /\ b[s][k] = r /\ SideOf(b, r.id) = s
  BY OrderIs
<1>2. QueueOK(s, b[s]) /\ DOMAIN b = Sides /\ Len(b[s]) \in Nat
  BY SeqShape DEF BookOK, QueueOK
<1>. DEFINE c == InPlace(b, n)
<1>3. c = Put(b, s, q)
  BY <1>1, <1>2 DEF InPlace, Put
<1>. HIDE DEF k
<1>4. QueueOK(s, q) /\ Len(q) = Len(b[s]) /\ Elems(q) = {x \in Elems(b[s]) : x.id # n.id} \cup {n}
  <2>1. n.id = b[s][k].id /\ n.px = b[s][k].px
    BY <1>1
  <2>. QED
    BY <1>1, <1>2, <2>1, SetQueue
<1>. HIDE DEF q, c
<1>5. Sheds(Elems(q), On(b, s), r.id, {n}) /\ \A x \in {n} : x.id = r.id
  BY <1>4 DEF Elems, On, Sheds
<1>6. /\ BookOK(c) /\ Becomes(b, c, s, r.id, {n})
      /\ Size(c) = Size(b) - Len(b[s]) + Len(q)
  <2>1. \A p \in On(b, Opposite(s)) : p.id # r.id
    BY NotAcross
  <2>2. QueueOK(s, q)
    BY <1>4
  <2>. QED
    BY <1>3, <1>5, <2>1, <2>2, QueueReplaced, SMTT(30)
<1>7. Size(b) \in Int
  BY SeqShape DEF Size, BookOK, QueueOK, Sides
<1>. QED
  BY <1>2, <1>4, <1>6, <1>7 DEF c

(* Order r of side s is left with a total of t. *)
Sized(b, c, s, r, t) ==
  /\ BookOK(c)
  /\ \/ t = 0 /\ Becomes(b, c, s, r.id, {}) /\ Size(c) = Size(b) - 1
     \/ /\ t > 0 /\ Size(c) = Size(b)
        /\ \E n : /\ OrderOK(n) /\ n.id = r.id /\ n.px = r.px /\ Total(n) = t /\ n.ll = r.ll
                  /\ Becomes(b, c, s, r.id, {n})

LEMMA SizeType ==
  ASSUME NEW b, BookOK(b)
  PROVE  Size(b) \in Nat
<1>1. Len(b["buy"]) \in Nat /\ Len(b["sell"]) \in Nat
  BY SeqShape DEF BookOK, QueueOK, Sides
<1>. DEFINE x == Len(b["buy"])
            y == Len(b["sell"])
<1>2. x \in Nat /\ y \in Nat
  BY <1>1
<1>3. Size(b) = x + y
  BY DEF Size
<1>. HIDE DEF x, y
<1>. QED
  BY <1>2, <1>3

LEMMA HeadIs ==
  ASSUME NEW b, BookOK(b), NEW s \in Sides, b[s] # <<>>
  PROVE  /\ 1 \in DOMAIN b[s] /\ Head(b[s]) = b[s][1] /\ Head(b[s]) \in On(b, s)
         /\ OrderOK(Head(b[s]))
         /\ \A r \in On(b, s) : Ahead(s, Head(b[s]).px, r.px)
<1>1. QueueOK(s, b[s])
  BY DEF BookOK
<1>2. 1 \in DOMAIN b[s] /\ Head(b[s]) = b[s][1] /\ DOMAIN b[s] = 1..Len(b[s])
  BY <1>1, TailQueue, SeqShape DEF QueueOK
<1>3. Head(b[s]) \in On(b, s)
  BY <1>2 DEF On
<1>4. OrderOK(Head(b[s]))
  BY <1>1, <1>2 DEF QueueOK
<1>5. ASSUME NEW i \in DOMAIN b[s]
      PROVE  Ahead(s, Head(b[s]).px, b[s][i].px)
  <2>1. CASE i = 1
    BY <1>2, <1>4, <2>1, EngineAssumption DEF Ahead, OrderOK
  <2>2. CASE i # 1
    <3>1. 1 < i
      BY <1>1, <1>2, <2>2, SeqShape DEF QueueOK
    <3>. QED
      BY <1>1, <1>2, <3>1 DEF QueueOK
  <2>. QED
    BY <2>1, <2>2
<1>. QED
  BY <1>2, <1>3, <1>4, <1>5 DEF On

LEMMA TailKeeps ==
  ASSUME NEW b, BookOK(b), NEW s \in Sides, b[s] # <<>>, NEW r, r = Head(b[s]),
         NEW c, c = Put(b, s, Tail(b[s]))
  PROVE  BookOK(c) /\ Becomes(b, c, s, r.id, {}) /\ Size(c) = Size(b) - 1
<1>1. QueueOK(s, b[s]) /\ DOMAIN b = Sides /\ Len(b[s]) \in Nat
  BY SeqShape DEF BookOK, QueueOK
<1>. DEFINE q == Tail(b[s])
<1>2. c = Put(b, s, q)
  OBVIOUS
<1>3. /\ QueueOK(s, q) /\ Len(q) = Len(b[s]) - 1 /\ r = b[s][1] /\ r \in On(b, s)
      /\ Elems(q) = {x \in Elems(b[s]) : x.id # r.id}
  BY <1>1, TailQueue, HeadIs
<1>. HIDE DEF q
<1>4. Sheds(Elems(q), On(b, s), r.id, {}) /\ \A x \in {} : x.id = r.id
  BY <1>3 DEF Elems, On, Sheds
<1>5. \A p \in On(b, Opposite(s)) : p.id # r.id
  BY <1>3, NotAcross
<1>6. QueueOK(s, q)
  BY <1>3
<1>7. BookOK(c) /\ Becomes(b, c, s, r.id, {}) /\ Size(c) = Size(b) - Len(b[s]) + Len(q)
  BY <1>2, <1>4, <1>5, <1>6, QueueReplaced, SMTT(30)
<1>. QED
  BY <1>1, <1>3, <1>7, SizeType

First(b, s, n) == Put(b, s, Put(b[s], 1, n))

LEMMA FirstKeeps ==
  ASSUME NEW b, BookOK(b), NEW s \in Sides, b[s] # <<>>, NEW n, OrderOK(n),
         n.id = Head(b[s]).id, n.px = Head(b[s]).px
  PROVE  /\ BookOK(First(b, s, n)) /\ Becomes(b, First(b, s, n), s, n.id, {n})
         /\ Size(First(b, s, n)) = Size(b)
<1>1. QueueOK(s, b[s]) /\ DOMAIN b = Sides /\ Len(b[s]) \in Nat
  BY SeqShape DEF BookOK, QueueOK
<1>. DEFINE q == Put(b[s], 1, n)
            c == First(b, s, n)
            r == Head(b[s])
<1>2. c = Put(b, s, q)
  BY DEF First
<1>3. 1 \in DOMAIN b[s] /\ r = b[s][1] /\ r \in On(b, s)
  BY HeadIs
<1>4. /\ QueueOK(s, q) /\ Len(q) = Len(b[s])
      /\ Elems(q) = {x \in Elems(b[s]) : x.id # n.id} \cup {n}
  <2>1. n.id = b[s][1].id /\ n.px = b[s][1].px
    BY <1>3
  <2>. QED
    BY <1>1, <1>3, <2>1, SetQueue
<1>. HIDE DEF q, c
<1>5. Sheds(Elems(q), On(b, s), n.id, {n}) /\ \A x \in {n} : x.id = n.id
  BY <1>4 DEF Elems, On, Sheds
<1>6. \A p \in On(b, Opposite(s)) : p.id # n.id
  BY <1>3, NotAcross
<1>7. QueueOK(s, q)
  BY <1>4
<1>8. BookOK(c) /\ Becomes(b, c, s, n.id, {n}) /\ Size(c) = Size(b) - Len(b[s]) + Len(q)
  BY <1>2, <1>5, <1>6, <1>7, QueueReplaced, SMTT(30)
<1>. QED
  BY <1>1, <1>4, <1>8, SizeType DEF c

(* Taken out and put in again. *)
LEMMA BecomesTwice ==
  ASSUME NEW b, NEW c, NEW d, NEW s \in Sides, NEW id, NEW N,
         Becomes(b, c, s, id, {}), Becomes(c, d, s, id, N)
  PROVE  Becomes(b, d, s, id, N)
  BY DEF Becomes

LEMMA GoneAfter ==
  ASSUME NEW b, NEW c, NEW s \in Sides, NEW id, Becomes(b, c, s, id, {})
  PROVE  ~IsResting(c, id)
  BY RestingIs DEF Becomes

LEMMA FillKeeps ==
  ASSUME NEW b, BookOK(b), NEW s \in Sides, b[s] # <<>>, NEW r, r = Head(b[s]),
         NEW q \in 1..r.leaves
  PROVE  Sized(b, FillBest(b, s, q), s, r, Total(r) - q)
<1>. DEFINE left == [r EXCEPT !.leaves = @ - q, !.cum = @ + q]
            peak == Least(r.peak, r.hidden)
            c == FillBest(b, s, q)
<1>1. OrderOK(r) /\ r \in On(b, s) /\ DOMAIN b = Sides
  BY HeadIs DEF BookOK
<1>2. /\ left.leaves = r.leaves - q /\ left.id = r.id /\ left.px = r.px /\ left.hidden = r.hidden
      /\ left.peak = r.peak /\ left.ll = r.ll /\ DOMAIN left = DOMAIN r
  BY <1>1 DEF OrderOK
<1>3. CASE left.leaves > 0
  <2>1. OrderOK(left) /\ Total(left) = Total(r) - q /\ Total(left) > 0
    BY <1>1, <1>2, <1>3, SMTT(40) DEF OrderOK, Total
  <2>2. c = First(b, s, left)
    BY <1>1, <1>3 DEF FillBest, First, Put
  <2>. HIDE DEF left, c
  <2>3. BookOK(c) /\ Becomes(b, c, s, r.id, {left}) /\ Size(c) = Size(b)
    <3>1. OrderOK(left) /\ left.id = r.id /\ left.px = r.px
      BY <1>2, <2>1
    <3>2. /\ BookOK(First(b, s, left)) /\ Becomes(b, First(b, s, left), s, left.id, {left})
          /\ Size(First(b, s, left)) = Size(b)
      BY <3>1, FirstKeeps
    <3>. QED
      BY <2>2, <3>1, <3>2
  <2>. QED
    BY <1>2, <2>1, <2>3 DEF Sized, c
<1>4. CASE left.leaves = 0 /\ r.hidden > 0
  <2>. DEFINE n == [left EXCEPT !.leaves = peak, !.hidden = @ - peak]
              m == Put(b, s, Tail(b[s]))
  <2>1. /\ n.leaves = peak /\ n.hidden = r.hidden - peak /\ n.id = r.id /\ n.px = r.px
        /\ n.peak = r.peak /\ n.ll = r.ll /\ DOMAIN n = DOMAIN r
    BY <1>1, <1>2 DEF OrderOK
  <2>2. peak \in Nat \ {0} /\ peak <= r.hidden
    BY <1>1, <1>4 DEF OrderOK, Least
  <2>3. OrderOK(n) /\ Total(n) = Total(r) - q /\ Total(n) > 0
    BY <1>1, <1>2, <1>4, <2>1, <2>2, SMTT(40) DEF OrderOK, Total
  <2>4. c = AddResting(m, s, n)
    BY <1>1, <1>2, <1>4 DEF FillBest, Put
  <2>. HIDE DEF n, m, c
  <2>5. BookOK(m) /\ Becomes(b, m, s, r.id, {}) /\ Size(m) = Size(b) - 1
    BY TailKeeps DEF m
  <2>6. ~IsResting(m, n.id)
    BY <2>1, <2>5, GoneAfter
  <2>7. BookOK(c) /\ Becomes(m, c, s, n.id, {n}) /\ Size(c) = Size(m) + 1
    BY <2>3, <2>4, <2>5, <2>6, AddKeeps
  <2>8. Becomes(b, c, s, r.id, {n})
    <3>1. Becomes(m, c, s, r.id, {n})
      BY <2>1, <2>7
    <3>. QED
      BY <2>5, <3>1, BecomesTwice
  <2>9. Size(c) = Size(b)
    BY <2>5, <2>7, SizeType
  <2>. QED
    BY <2>1, <2>3, <2>7, <2>8, <2>9 DEF Sized, c
<1>5. CASE left.leaves = 0 /\ ~(r.hidden > 0)
  <2>1. Total(r) - q = 0
    BY <1>1, <1>2, <1>5 DEF OrderOK, Total
  <2>2. c = Put(b, s, Tail(b[s]))
    BY <1>1, <1>2, <1>5 DEF FillBest, Put
  <2>. HIDE DEF c
  <2>3. BookOK(c) /\ Becomes(b, c, s, r.id, {}) /\ Size(c) = Size(b) - 1
    BY <2>2, TailKeeps
  <2>. QED
    BY <2>1, <2>3 DEF Sized, c
<1>. QED
  BY <1>1, <1>2, <1>3, <1>4, <1>5 DEF OrderOK

(* Reduce and reduceTotal. *)
LEMMA ReduceKeeps ==
  ASSUME NEW b, BookOK(b), NEW s \in Sides, NEW r \in On(b, s), NEW t \in 1..r.leaves, r.hidden = 0
  PROVE  Sized(b, Reduce(b, r.id, t), s, r, t)
<1>. DEFINE n == [r EXCEPT !.leaves = t]
            c == Reduce(b, r.id, t)
<1>1. OrderOK(r) /\ Find(b, r.id) = r
  BY OrderIs
<1>2. /\ n.leaves = t /\ n.hidden = 0 /\ n.id = r.id /\ n.px = r.px /\ n.peak = r.peak
      /\ n.ll = r.ll /\ DOMAIN n = DOMAIN r
  BY <1>1 DEF OrderOK
<1>3. OrderOK(n) /\ Total(n) = t /\ t > 0
  BY <1>1, <1>2 DEF OrderOK, Total
<1>4. c = InPlace(b, n)
  BY <1>1 DEF Reduce
<1>. HIDE DEF n, c
<1>5. BookOK(c) /\ Becomes(b, c, s, r.id, {n}) /\ Size(c) = Size(b)
  BY <1>2, <1>3, <1>4, InPlaceKeeps
<1>. QED
  BY <1>2, <1>3, <1>5 DEF Sized, c

LEMMA ReduceTotalKeeps ==
  ASSUME NEW b, BookOK(b), NEW s \in Sides, NEW r \in On(b, s), NEW t \in 1..Total(r)
  PROVE  Sized(b, ReduceTotal(b, r.id, t), s, r, t)
<1>. DEFINE n == [r EXCEPT !.leaves = Least(@, t), !.hidden = t - Least(r.leaves, t)]
            c == ReduceTotal(b, r.id, t)
<1>1. OrderOK(r) /\ Find(b, r.id) = r
  BY OrderIs
<1>2. /\ n.leaves = Least(r.leaves, t) /\ n.hidden = t - Least(r.leaves, t)
      /\ n.id = r.id /\ n.px = r.px /\ n.peak = r.peak /\ n.ll = r.ll /\ DOMAIN n = DOMAIN r
  BY <1>1 DEF OrderOK
<1>3. OrderOK(n) /\ Total(n) = t /\ t > 0
  <2>. DEFINE l == Least(r.leaves, t)
  <2>1. r.leaves \in Nat \ {0} /\ r.hidden \in Nat /\ r.peak \in Nat /\ (r.hidden > 0 => r.peak > 0)
    BY <1>1 DEF OrderOK
  <2>2. t \in Nat /\ t > 0 /\ t <= r.leaves + r.hidden
    BY <2>1 DEF Total
  <2>3. /\ l \in Nat \ {0} /\ t - l \in Nat /\ (t - l > 0 => r.hidden > 0) /\ l + (t - l) = t
    BY <2>1, <2>2 DEF Least
  <2>. HIDE DEF l
  <2>4. n.leaves = l /\ n.hidden = t - l
    BY <1>2 DEF l
  <2>. HIDE DEF n
  <2>. QED
    BY <1>1, <1>2, <2>1, <2>2, <2>3, <2>4 DEF OrderOK, Total
<1>4. c = InPlace(b, n)
  BY <1>1 DEF ReduceTotal
<1>. HIDE DEF n, c
<1>5. BookOK(c) /\ Becomes(b, c, s, r.id, {n}) /\ Size(c) = Size(b)
  BY <1>2, <1>3, <1>4, InPlaceKeeps
<1>. QED
  BY <1>2, <1>3, <1>5 DEF Sized, c

(* What rests after a change of one order. *)
LEMMA RestAfter ==
  ASSUME NEW b, BookOK(b), NEW c, BookOK(c), NEW s \in Sides, NEW id, NEW N, Becomes(b, c, s, id, N)
  PROVE  /\ \A j : j # id => /\ IsResting(c, j) <=> IsResting(b, j)
                             /\ RestIn(c, j) = RestIn(b, j)
         /\ IsResting(c, id) <=> N # {}
         /\ \A n \in N : n.id = id /\ RestIn(c, id) = Total(n)
         /\ N = {} => RestIn(c, id) = 0
<1>1. ASSUME NEW j, j # id
      PROVE  (IsResting(c, j) <=> IsResting(b, j)) /\ RestIn(c, j) = RestIn(b, j)
  <2>1. \A z \in Sides : \A x : x.id = j => (x \in On(c, z) <=> x \in On(b, z))
    BY <1>1 DEF Becomes
  <2>2. IsResting(c, j) <=> IsResting(b, j)
    BY <2>1, RestingIs
  <2>3. CASE IsResting(b, j)
    <3>0. PICK z \in Sides : \E x \in On(b, z) : x.id = j
      BY <2>3, RestingIs
    <3>1. PICK x \in On(b, z) : x.id = j
      BY <3>0
    <3>2. x \in On(c, z)
      BY <2>1, <3>1
    <3>3. Find(b, j) = x /\ Find(c, j) = x
      BY <3>1, <3>2, OrderIs
    <3>. QED
      BY <2>2, <3>3 DEF RestIn
  <2>. QED
    BY <2>2, <2>3 DEF RestIn
<1>2. IsResting(c, id) <=> N # {}
  BY RestingIs DEF Becomes
<1>3. ASSUME NEW n \in N
      PROVE  n.id = id /\ RestIn(c, id) = Total(n)
  <2>1. n.id = id /\ n \in On(c, s)
    BY DEF Becomes
  <2>2. Find(c, id) = n /\ IsResting(c, id)
    BY <2>1, OrderIs
  <2>. QED
    BY <2>1, <2>2 DEF RestIn
<1>. QED
  BY <1>1, <1>2, <1>3 DEF RestIn

LEMMA RestIs ==
  ASSUME NEW b, BookOK(b), NEW s \in Sides, NEW r \in On(b, s)
  PROVE  RestIn(b, r.id) = Total(r) /\ Total(r) \in Nat \ {0}
  BY OrderIs DEF RestIn, OrderOK, Total

LEMMA RestType ==
  ASSUME NEW b, BookOK(b), NEW id
  PROVE  RestIn(b, id) \in Nat /\ (RestIn(b, id) > 0 <=> IsResting(b, id))
<1>1. CASE IsResting(b, id)
  <2>1. PICK s \in Sides : \E r \in On(b, s) : r.id = id
    BY <1>1, RestingIs
  <2>2. PICK r \in On(b, s) : r.id = id
    BY <2>1
  <2>. QED
    BY <1>1, <2>2, RestIs
<1>. QED
  BY <1>1 DEF RestIn

-----------------------------------------------------------------------------
(* Holds *)

LEMMA HoldsOfFinite ==
  ASSUME NEW H, HoldsOK(H), NEW id
  PROVE  IsFiniteSet(HoldsOf(H, id)) /\ HoldsOf(H, id) \in SUBSET H
<1>1. HoldsOf(H, id) \in SUBSET H
  BY DEF HoldsOf
<1>. QED
  BY <1>1, FS_Subset DEF HoldsOK

LEMMA HeldType ==
  ASSUME NEW H, HoldsOK(H), NEW id
  PROVE  HeldQtyFor(H, id) \in Nat
<1>. DEFINE f == [h \in HoldsOf(H, id) |-> h.qty]
<1>1. DOMAIN f = HoldsOf(H, id) /\ IsFiniteSet(HoldsOf(H, id))
  BY HoldsOfFinite
<1>2. \A h \in DOMAIN f : f[h] \in Nat
  BY HoldsOfFinite DEF HoldsOK, HoldOK
<1>. HIDE DEF f
<1>3. SumFunction(f) \in Nat
  BY <1>1, <1>2, SumNat
<1>. QED
  BY <1>3 DEF HeldQtyFor, f

LEMMA HeldNone ==
  ASSUME NEW H, NEW id, HoldsOf(H, id) = {}
  PROVE  HeldQtyFor(H, id) = 0
<1>. DEFINE f == [h \in HoldsOf(H, id) |-> h.qty]
<1>1. DOMAIN f = {}
  OBVIOUS
<1>. HIDE DEF f
<1>2. SumFunction(f) = 0
  BY <1>1, SumEmpty
<1>. QED
  BY <1>2 DEF HeldQtyFor, f

Without(H, h) == H \ {h}

(* A hold is taken away. *)
LEMMA HeldLess ==
  ASSUME NEW H, HoldsOK(H), NEW h \in H, NEW G, G = Without(H, h)
  PROVE  /\ HoldsOK(G)
         /\ \A id : HoldsOf(G, id) = HoldsOf(H, id) \ {h}
         /\ \A id : id \notin {h.maker, h.taker} =>
              HoldsOf(G, id) = HoldsOf(H, id) /\ HeldQtyFor(G, id) = HeldQtyFor(H, id)
         /\ \A id \in {h.maker, h.taker} :
              h \in HoldsOf(H, id) /\ HeldQtyFor(H, id) = h.qty + HeldQtyFor(G, id)
<1>1. HoldsOK(G)
  <2>1. G \in SUBSET H
    BY DEF Without
  <2>2. IsFiniteSet(G)
    BY <2>1, FS_Subset DEF HoldsOK
  <2>. QED
    BY <2>1, <2>2 DEF HoldsOK
<1>2. \A id : HoldsOf(G, id) = HoldsOf(H, id) \ {h}
  BY DEF HoldsOf, Without
<1>3. ASSUME NEW id, id \notin {h.maker, h.taker}
      PROVE  HoldsOf(G, id) = HoldsOf(H, id) /\ HeldQtyFor(G, id) = HeldQtyFor(H, id)
  <2>1. HoldsOf(G, id) = HoldsOf(H, id)
    BY <1>3 DEF HoldsOf, Without
  <2>. QED
    BY <2>1 DEF HeldQtyFor
<1>4. ASSUME NEW id, id \in {h.maker, h.taker}
      PROVE  h \in HoldsOf(H, id) /\ HeldQtyFor(H, id) = h.qty + HeldQtyFor(G, id)
  <2>. DEFINE f == [k \in HoldsOf(H, id) |-> k.qty]
              g == [k \in HoldsOf(G, id) |-> k.qty]
  <2>1. h \in HoldsOf(H, id)
    BY <1>4 DEF HoldsOf
  <2>2. DOMAIN f = HoldsOf(H, id) /\ IsFiniteSet(DOMAIN f) /\ h \in DOMAIN f /\ f[h] = h.qty
    BY <2>1, HoldsOfFinite
  <2>3. \A k \in DOMAIN f : f[k] \in Int
    BY HoldsOfFinite DEF HoldsOK, HoldOK
  <2>4. DOMAIN g = DOMAIN f \ {h}
    BY <1>2
  <2>5. \A k \in DOMAIN g : g[k] = f[k]
    BY <2>4
  <2>. HIDE DEF f, g
  <2>6. SumFunction(f) = f[h] + SumFunction(g)
    BY <2>2, <2>3, <2>4, <2>5, SumSplits
  <2>. QED
    BY <2>1, <2>2, <2>6 DEF HeldQtyFor, f, g
<1>. QED
  BY <1>1, <1>2, <1>3, <1>4

(* A hold is added. *)
LEMMA HeldMore ==
  ASSUME NEW H, HoldsOK(H), NEW h, HoldOK(h), \A k \in H : k.hid # h.hid, NEW G, G = H \cup {h}
  PROVE  /\ HoldsOK(G) /\ h \in G
         /\ \A id : HoldsOf(H, id) \subseteq HoldsOf(G, id)
         /\ \A id : id \notin {h.maker, h.taker} =>
              HoldsOf(G, id) = HoldsOf(H, id) /\ HeldQtyFor(G, id) = HeldQtyFor(H, id)
         /\ \A id \in {h.maker, h.taker} :
              h \in HoldsOf(G, id) /\ HeldQtyFor(G, id) = h.qty + HeldQtyFor(H, id)
<1>1. HoldsOK(G)
  <2>1. IsFiniteSet(G)
    BY FS_AddElement DEF HoldsOK
  <2>. QED
    BY <2>1 DEF HoldsOK
<1>2. h \in G /\ H = Without(G, h)
  BY DEF Without
<1>3. \A id : HoldsOf(H, id) \subseteq HoldsOf(G, id)
  BY DEF HoldsOf
<1>4. /\ \A id : id \notin {h.maker, h.taker} =>
           HoldsOf(H, id) = HoldsOf(G, id) /\ HeldQtyFor(H, id) = HeldQtyFor(G, id)
      /\ \A id \in {h.maker, h.taker} :
           h \in HoldsOf(G, id) /\ HeldQtyFor(G, id) = h.qty + HeldQtyFor(H, id)
  BY <1>1, <1>2, HeldLess
<1>. QED
  BY <1>1, <1>2, <1>3, <1>4

LEMMA HeldSome ==
  ASSUME NEW H, HoldsOK(H), NEW id
  PROVE  HeldQtyFor(H, id) > 0 <=> HoldsOf(H, id) # {}
<1>1. CASE HoldsOf(H, id) = {}
  BY <1>1, HeldNone
<1>2. CASE HoldsOf(H, id) # {}
  <2>1. PICK h : h \in HoldsOf(H, id)
    BY <1>2
  <2>2. h \in H /\ id \in {h.maker, h.taker} /\ h.qty \in Nat \ {0}
    BY <2>1 DEF HoldsOf, HoldsOK, HoldOK
  <2>. DEFINE G == Without(H, h)
  <2>. HIDE DEF G
  <2>3. HoldsOK(G) /\ HeldQtyFor(H, id) = h.qty + HeldQtyFor(G, id)
    BY <2>2, HeldLess DEF G
  <2>4. HeldQtyFor(G, id) \in Nat
    BY <2>3, HeldType
  <2>. QED
    BY <1>2, <2>2, <2>3, <2>4
<1>. QED
  BY <1>1, <1>2

(* The sweep at work. *)
LEMMA FlyType ==
  ASSUME NEW W, OnlyOne(W), NEW id
  PROVE  /\ FlyIn(W, id) \in Nat
         /\ \A w \in W : w.o.id = id => Flies(W, id) /\ FlyIn(W, id) = w.left
         /\ ~Flies(W, id) => FlyIn(W, id) = 0
<1>1. ASSUME NEW w \in W, w.o.id = id
      PROVE  Flies(W, id) /\ FlyIn(W, id) = w.left /\ w.left \in Nat
  BY <1>1 DEF Flies, FlyIn, OnlyOne, SweepOK
<1>2. ~Flies(W, id) => FlyIn(W, id) = 0
  BY DEF FlyIn
<1>3. FlyIn(W, id) \in Nat
  BY <1>1, <1>2 DEF Flies
<1>. QED
  BY <1>1, <1>2, <1>3

LEMMA AliveType ==
  ASSUME NEW b, BookOK(b), NEW H, HoldsOK(H), NEW W, OnlyOne(W), NEW S, NEW q \in Nat, NEW id
  PROVE  /\ Alive(b, H, W, S, q, id) \in Nat /\ RestIn(b, id) \in Nat /\ HeldQtyFor(H, id) \in Nat
         /\ FlyIn(W, id) \in Nat /\ InHand(S, q, id) \in Nat
<1>1. /\ RestIn(b, id) \in Nat /\ HeldQtyFor(H, id) \in Nat /\ FlyIn(W, id) \in Nat
      /\ InHand(S, q, id) \in Nat
  BY RestType, HeldType, FlyType DEF InHand
<1>. QED
  BY <1>1 DEF Alive

-----------------------------------------------------------------------------
(* Backing is linear. *)

LEMMA BackingIs ==
  ASSUME NEW r \in Reservation, NEW x \in Nat, NEW y \in Nat
  PROVE  /\ Backing(r, x) \in Nat
         /\ Backing(r, x + y) = Backing(r, x) + Backing(r, y)
         /\ Backing(r, 0) = 0
         /\ x > 0 => Backing(r, x) > 0
<1>1. r.limit \in Nat /\ r.limit > 0
  BY DEF Reservation
<1>2. r.limit * x \in Nat /\ r.limit * (x + y) = r.limit * x + r.limit * y /\ r.limit * 0 = 0
  BY <1>1
<1>3. x > 0 => r.limit * x > 0
  BY <1>1
<1>. QED
  BY <1>2, <1>3 DEF Backing

LEMMA BackingSame ==
  ASSUME NEW r, NEW u, r.side = u.side, r.limit = u.limit
  PROVE  \A x : Backing(r, x) = Backing(u, x)
  BY DEF Backing

-----------------------------------------------------------------------------
(* What a handler does to the orders alive, one thing at a time.  What it    *)
(* takes it has in hand until it puts it somewhere or gives its funds back.  *)

LEMMA TakeBook ==
  ASSUME NEW b, NEW H, NEW W, NEW v, NEW n, NEW S, NEW q, NEW X, Backed(b, H, W, v, n, S, q, X),
         NEW s \in Sides, NEW r \in On(b, s), r.id \notin S, q <= Total(r),
         NEW c, Sized(b, c, s, r, Total(r) - q)
  PROVE  Backed(c, H, W, v, n, S \cup {r.id}, q, X \cup {r.id})
<1>1. BookOK(b) /\ BookOK(c) /\ HoldsOK(H) /\ OnlyOne(W) /\ q \in Nat /\ S \subseteq Ids
  BY DEF Backed, Sized
<1>2. OrderOK(r) /\ r.id \in Ids /\ RestIn(b, r.id) = Total(r) /\ Total(r) \in Nat
  BY <1>1, OrderIs, RestIs DEF OrderOK
<1>3. PICK N : /\ Becomes(b, c, s, r.id, N)
               /\ \A m \in N : m.px = r.px /\ Total(m) = Total(r) - q
               /\ N = {} => Total(r) - q = 0
  <2>1. CASE Total(r) - q = 0 /\ Becomes(b, c, s, r.id, {})
    BY <2>1
  <2>2. CASE \E m : m.px = r.px /\ Total(m) = Total(r) - q /\ Becomes(b, c, s, r.id, {m})
    BY <2>2
  <2>. QED
    BY <2>1, <2>2 DEF Sized
<1>4. /\ \A j : j # r.id => (IsResting(c, j) <=> IsResting(b, j)) /\ RestIn(c, j) = RestIn(b, j)
      /\ RestIn(c, r.id) = Total(r) - q
  BY <1>1, <1>3, RestAfter
<1>5. BookFunded(c, v)
  <2>1. BookFunded(b, v)
    BY DEF Backed, Funded
  <2>2. GoodFor(v, r.id, s, r.px)
    BY <2>1 DEF BookFunded
  <2>. QED
    BY <1>3, <2>1, <2>2 DEF BookFunded, Becomes
<1>6. ASSUME NEW j \in Ids
      PROVE  Alive(c, H, W, S \cup {r.id}, q, j) = Alive(b, H, W, S, q, j)
  <2>1. /\ RestIn(b, j) \in Nat /\ HeldQtyFor(H, j) \in Nat /\ FlyIn(W, j) \in Nat
        /\ InHand(S, q, j) \in Nat
    BY <1>1, AliveType
  <2>2. RestIn(c, j) + InHand(S \cup {r.id}, q, j) = RestIn(b, j) + InHand(S, q, j)
    BY <1>1, <1>2, <1>4, <2>1 DEF InHand
  <2>3. RestIn(c, j) \in Nat /\ InHand(S \cup {r.id}, q, j) \in Nat
    BY <1>1, RestType DEF InHand
  <2>. QED
    BY <2>1, <2>2, <2>3 DEF Alive
<1>7. Covered(c, H, W, v, n, S \cup {r.id}, q)
  BY <1>6 DEF Backed, Covered, IsRsv
<1>8. Needed(c, H, W, v, X \cup {r.id})
  BY <1>4 DEF Backed, Needed, Present
<1>. QED
  BY <1>1, <1>2, <1>5, <1>7, <1>8 DEF Backed, Funded

LEMMA PutBook ==
  ASSUME NEW b, NEW H, NEW W, NEW v, NEW n, NEW S, NEW q, NEW X, Backed(b, H, W, v, n, S, q, X),
         NEW id \in S, NEW s \in Sides, NEW c, BookOK(c), NEW m, Becomes(b, c, s, id, {m}),
         Total(m) = RestIn(b, id) + q, GoodFor(v, id, s, m.px)
  PROVE  Backed(c, H, W, v, n, S \ {id}, q, X \ {id})
<1>1. BookOK(b) /\ HoldsOK(H) /\ OnlyOne(W) /\ q \in Nat /\ S \subseteq Ids
  BY DEF Backed
<1>2. /\ \A j : j # id => (IsResting(c, j) <=> IsResting(b, j)) /\ RestIn(c, j) = RestIn(b, j)
      /\ RestIn(c, id) = RestIn(b, id) + q /\ IsResting(c, id)
  BY <1>1, RestAfter
<1>3. BookFunded(c, v)
  <2>1. BookFunded(b, v)
    BY DEF Backed, Funded
  <2>. QED
    BY <2>1 DEF BookFunded, Becomes
<1>4. ASSUME NEW j \in Ids
      PROVE  Alive(c, H, W, S \ {id}, q, j) = Alive(b, H, W, S, q, j)
  <2>1. /\ RestIn(b, j) \in Nat /\ HeldQtyFor(H, j) \in Nat /\ FlyIn(W, j) \in Nat
        /\ InHand(S, q, j) \in Nat
    BY <1>1, AliveType
  <2>2. RestIn(c, j) + InHand(S \ {id}, q, j) = RestIn(b, j) + InHand(S, q, j)
    BY <1>1, <1>2, <2>1 DEF InHand
  <2>3. RestIn(c, j) \in Nat /\ InHand(S \ {id}, q, j) \in Nat
    BY <1>1, RestType DEF InHand
  <2>. QED
    BY <2>1, <2>2, <2>3 DEF Alive
<1>5. Covered(c, H, W, v, n, S \ {id}, q)
  BY <1>4 DEF Backed, Covered, IsRsv
<1>6. Needed(c, H, W, v, X \ {id})
  BY <1>2 DEF Backed, Needed, Present
<1>. QED
  BY <1>1, <1>3, <1>5, <1>6 DEF Backed, Funded

LEMMA TakeHold ==
  ASSUME NEW b, NEW H, NEW W, NEW v, NEW n, NEW q, NEW X, Backed(b, H, W, v, n, {}, q, X),
         NEW h \in H, h.qty = q, NEW G, G = Without(H, h)
  PROVE  Backed(b, G, W, v, n, {h.maker, h.taker}, q, X \cup {h.maker, h.taker})
<1>. DEFINE S == {h.maker, h.taker}
<1>1. BookOK(b) /\ HoldsOK(H) /\ OnlyOne(W) /\ q \in Nat /\ S \subseteq Ids
  BY DEF Backed, HoldsOK, HoldOK
<1>2. /\ HoldsOK(G) /\ \A id : HoldsOf(G, id) = HoldsOf(H, id) \ {h}
      /\ \A id : id \notin S => HoldsOf(G, id) = HoldsOf(H, id) /\ HeldQtyFor(G, id) = HeldQtyFor(H, id)
      /\ \A id \in S : HeldQtyFor(H, id) = q + HeldQtyFor(G, id)
  <2>1. /\ HoldsOK(G) /\ \A id : HoldsOf(G, id) = HoldsOf(H, id) \ {h}
        /\ \A id : id \notin {h.maker, h.taker} =>
             HoldsOf(G, id) = HoldsOf(H, id) /\ HeldQtyFor(G, id) = HeldQtyFor(H, id)
        /\ \A id \in {h.maker, h.taker} : HeldQtyFor(H, id) = h.qty + HeldQtyFor(G, id)
    BY <1>1, HeldLess
  <2>. QED
    BY <2>1
<1>3. ASSUME NEW j \in Ids
      PROVE  Alive(b, G, W, S, q, j) = Alive(b, H, W, {}, q, j)
  <2>1. RestIn(b, j) \in Nat /\ HeldQtyFor(H, j) \in Nat /\ FlyIn(W, j) \in Nat /\ HeldQtyFor(G, j) \in Nat
    BY <1>1, <1>2, AliveType, HeldType
  <2>. HIDE DEF S
  <2>2. /\ HeldQtyFor(G, j) + InHand(S, q, j) = HeldQtyFor(H, j) /\ InHand({}, q, j) = 0
        /\ InHand(S, q, j) \in Nat
    <3>1. CASE j \in S
      BY <1>1, <1>2, <2>1, <3>1 DEF InHand
    <3>2. CASE j \notin S
      BY <1>1, <1>2, <2>1, <3>2 DEF InHand
    <3>. QED
      BY <3>1, <3>2
  <2>. QED
    BY <2>1, <2>2 DEF Alive
<1>4. Covered(b, G, W, v, n, S, q)
  BY <1>3 DEF Backed, Covered, IsRsv
<1>5. Needed(b, G, W, v, X \cup S)
  BY <1>2 DEF Backed, Needed, Present
<1>6. Funded(b, G, W, v)
  BY DEF Backed, Funded, Without
<1>. QED
  BY <1>1, <1>2, <1>4, <1>5, <1>6 DEF Backed

LEMMA PutHold ==
  ASSUME NEW b, NEW H, NEW W, NEW v, NEW n, NEW q, NEW X, NEW h, HoldOK(h), h.qty = q,
         Backed(b, H, W, v, n, {h.maker, h.taker}, q, X),
         \A k \in H : k.hid # h.hid, HoldFunded(h, v), NEW G, G = H \cup {h}
  PROVE  Backed(b, G, W, v, n, {}, q, X \ {h.maker, h.taker})
<1>. DEFINE S == {h.maker, h.taker}
<1>1. BookOK(b) /\ HoldsOK(H) /\ OnlyOne(W) /\ q \in Nat /\ S \subseteq Ids
  BY DEF Backed, HoldsOK, HoldOK
<1>2. /\ HoldsOK(G) /\ h \in G /\ \A id : HoldsOf(H, id) \subseteq HoldsOf(G, id)
      /\ \A id : id \notin S => HoldsOf(G, id) = HoldsOf(H, id) /\ HeldQtyFor(G, id) = HeldQtyFor(H, id)
      /\ \A id \in S : h \in HoldsOf(G, id) /\ HeldQtyFor(G, id) = q + HeldQtyFor(H, id)
  BY <1>1, HeldMore
<1>3. ASSUME NEW j \in Ids
      PROVE  Alive(b, G, W, {}, q, j) = Alive(b, H, W, S, q, j)
  <2>1. RestIn(b, j) \in Nat /\ HeldQtyFor(H, j) \in Nat /\ FlyIn(W, j) \in Nat /\ HeldQtyFor(G, j) \in Nat
    BY <1>1, <1>2, AliveType, HeldType
  <2>. HIDE DEF S
  <2>2. /\ HeldQtyFor(H, j) + InHand(S, q, j) = HeldQtyFor(G, j) /\ InHand({}, q, j) = 0
        /\ InHand(S, q, j) \in Nat
    <3>1. CASE j \in S
      BY <1>1, <1>2, <2>1, <3>1 DEF InHand
    <3>2. CASE j \notin S
      BY <1>1, <1>2, <2>1, <3>2 DEF InHand
    <3>. QED
      BY <3>1, <3>2
  <2>. QED
    BY <2>1, <2>2 DEF Alive
<1>4. Covered(b, G, W, v, n, {}, q)
  BY <1>3 DEF Backed, Covered, IsRsv
<1>5. Needed(b, G, W, v, X \ S)
  BY <1>2 DEF Backed, Needed, Present
<1>6. Funded(b, G, W, v)
  BY DEF Backed, Funded, Without
<1>. QED
  BY <1>1, <1>2, <1>4, <1>5, <1>6 DEF Backed

LEMMA TakeSweep ==
  ASSUME NEW b, NEW H, NEW v, NEW n, NEW S, NEW q, NEW X, NEW w, Backed(b, H, {w}, v, n, S, q, X),
         w.o.id \notin S, q <= w.left, NEW u, SweepOK(u), u.o = w.o, u.left = w.left - q
  PROVE  Backed(b, H, {u}, v, n, S \cup {w.o.id}, q, X \cup {w.o.id})
<1>. DEFINE id == w.o.id
<1>1. BookOK(b) /\ HoldsOK(H) /\ OnlyOne({w}) /\ OnlyOne({u}) /\ q \in Nat /\ S \subseteq Ids
  BY DEF Backed, OnlyOne
<1>2. SweepOK(w) /\ id \in Ids /\ w.left \in Nat /\ u.left \in Nat
  BY <1>1 DEF OnlyOne, SweepOK
<1>3. /\ FlyIn({w}, id) = w.left /\ FlyIn({u}, id) = w.left - q
      /\ \A j : j # id => FlyIn({w}, j) = 0 /\ FlyIn({u}, j) = 0
  <2>1. FlyIn({w}, id) = w.left
    BY <1>1, FlyType
  <2>2. FlyIn({u}, id) = u.left
    BY <1>1, FlyType
  <2>3. \A j : j # id => ~Flies({w}, j) /\ ~Flies({u}, j)
    BY DEF Flies
  <2>4. \A j : j # id => FlyIn({w}, j) = 0 /\ FlyIn({u}, j) = 0
    BY <2>3 DEF FlyIn
  <2>. QED
    BY <2>1, <2>2, <2>4
<1>4. ASSUME NEW j \in Ids
      PROVE  Alive(b, H, {u}, S \cup {id}, q, j) = Alive(b, H, {w}, S, q, j)
  <2>1. /\ RestIn(b, j) \in Nat /\ HeldQtyFor(H, j) \in Nat /\ FlyIn({w}, j) \in Nat
        /\ FlyIn({u}, j) \in Nat /\ InHand(S, q, j) \in Nat
    BY <1>1, AliveType
  <2>2. FlyIn({u}, j) + InHand(S \cup {id}, q, j) = FlyIn({w}, j) + InHand(S, q, j)
    <3>1. CASE j = id
      <4>1. InHand(S \cup {id}, q, j) = q /\ InHand(S, q, j) = 0
        BY <3>1 DEF InHand
      <4>. QED
        BY <1>1, <1>2, <1>3, <3>1, <4>1
    <3>2. CASE j # id
      BY <1>3, <3>2 DEF InHand
    <3>. QED
      BY <3>1, <3>2
  <2>3. InHand(S \cup {id}, q, j) \in Nat
    BY <1>1 DEF InHand
  <2>. HIDE DEF id
  <2>. QED
    BY <2>1, <2>2, <2>3 DEF Alive
<1>5. Covered(b, H, {u}, v, n, S \cup {id}, q)
  BY <1>4 DEF Backed, Covered, IsRsv
<1>6. Needed(b, H, {u}, v, X \cup {id})
  BY DEF Backed, Needed, Present
<1>7. Funded(b, H, {u}, v)
  <2>1. SweepFunded(w, v)
    BY DEF Backed, Funded
  <2>2. SweepFunded(u, v)
    BY <1>1, <1>2, <2>1 DEF SweepFunded
  <2>. QED
    BY <2>2 DEF Backed, Funded
<1>. QED
  BY <1>1, <1>2, <1>5, <1>6, <1>7 DEF Backed

LEMMA DropSweep ==
  ASSUME NEW b, NEW H, NEW v, NEW n, NEW S, NEW q, NEW X, NEW w, Backed(b, H, {w}, v, n, S, q, X),
         w.o.id \notin S, q = w.left
  PROVE  Backed(b, H, {}, v, n, S \cup {w.o.id}, q, X \cup {w.o.id})
<1>. DEFINE id == w.o.id
<1>1. BookOK(b) /\ HoldsOK(H) /\ OnlyOne({w}) /\ OnlyOne({}) /\ q \in Nat /\ S \subseteq Ids
  BY DEF Backed, OnlyOne
<1>2. SweepOK(w) /\ id \in Ids /\ w.left \in Nat
  BY <1>1 DEF OnlyOne, SweepOK
<1>3. /\ FlyIn({w}, id) = q /\ \A j : FlyIn({}, j) = 0
      /\ \A j : j # id => FlyIn({w}, j) = 0
  <2>1. FlyIn({w}, id) = w.left
    BY <1>1, FlyType
  <2>2. \A j : j # id => FlyIn({w}, j) = 0
    BY DEF FlyIn, Flies
  <2>3. \A j : FlyIn({}, j) = 0
    BY DEF FlyIn, Flies
  <2>. QED
    BY <2>1, <2>2, <2>3
<1>4. ASSUME NEW j \in Ids
      PROVE  Alive(b, H, {}, S \cup {id}, q, j) = Alive(b, H, {w}, S, q, j)
  <2>1. /\ RestIn(b, j) \in Nat /\ HeldQtyFor(H, j) \in Nat /\ FlyIn({w}, j) \in Nat
        /\ FlyIn({}, j) \in Nat /\ InHand(S, q, j) \in Nat
    BY <1>1, AliveType
  <2>2. FlyIn({}, j) + InHand(S \cup {id}, q, j) = FlyIn({w}, j) + InHand(S, q, j)
    <3>1. CASE j = id
      <4>1. InHand(S \cup {id}, q, j) = q /\ InHand(S, q, j) = 0
        BY <3>1 DEF InHand
      <4>. QED
        BY <1>1, <1>2, <1>3, <3>1, <4>1
    <3>2. CASE j # id
      BY <1>3, <3>2 DEF InHand
    <3>. QED
      BY <3>1, <3>2
  <2>3. InHand(S \cup {id}, q, j) \in Nat
    BY <1>1 DEF InHand
  <2>. HIDE DEF id
  <2>. QED
    BY <2>1, <2>2, <2>3 DEF Alive
<1>5. Covered(b, H, {}, v, n, S \cup {id}, q)
  BY <1>4 DEF Backed, Covered, IsRsv
<1>6. Needed(b, H, {}, v, X \cup {id})
  BY DEF Backed, Needed, Present
<1>7. Funded(b, H, {}, v)
  BY DEF Backed, Funded
<1>. QED
  BY <1>1, <1>2, <1>5, <1>6, <1>7 DEF Backed

LEMMA PutSweep ==
  ASSUME NEW b, NEW H, NEW v, NEW n, NEW q, NEW X, NEW u, SweepOK(u), u.left = q, q > 0,
         Backed(b, H, {}, v, n, {u.o.id}, q, X), GoodFor(v, u.o.id, u.o.side, LimitOf(u.o))
  PROVE  Backed(b, H, {u}, v, n, {}, q, X \ {u.o.id})
<1>. DEFINE id == u.o.id
<1>1. BookOK(b) /\ HoldsOK(H) /\ OnlyOne({u}) /\ OnlyOne({}) /\ q \in Nat /\ id \in Ids
  BY DEF Backed, OnlyOne, SweepOK
<1>3. /\ FlyIn({u}, id) = q /\ \A j : FlyIn({}, j) = 0
      /\ \A j : j # id => FlyIn({u}, j) = 0
  <2>1. FlyIn({u}, id) = u.left
    BY <1>1, FlyType
  <2>2. \A j : j # id => FlyIn({u}, j) = 0
    BY DEF FlyIn, Flies
  <2>3. \A j : FlyIn({}, j) = 0
    BY DEF FlyIn, Flies
  <2>. QED
    BY <2>1, <2>2, <2>3
<1>4. ASSUME NEW j \in Ids
      PROVE  Alive(b, H, {u}, {}, q, j) = Alive(b, H, {}, {id}, q, j)
  <2>1. RestIn(b, j) \in Nat /\ HeldQtyFor(H, j) \in Nat /\ FlyIn({u}, j) \in Nat /\ FlyIn({}, j) \in Nat
    BY <1>1, AliveType
  <2>2. FlyIn({u}, j) + InHand({}, q, j) = FlyIn({}, j) + InHand({id}, q, j)
    <3>1. CASE j = id
      <4>1. InHand({id}, q, j) = q /\ InHand({}, q, j) = 0
        BY <3>1 DEF InHand
      <4>. QED
        BY <1>1, <1>3, <3>1, <4>1
    <3>2. CASE j # id
      BY <1>3, <3>2 DEF InHand
    <3>. QED
      BY <3>1, <3>2
  <2>3. InHand({id}, q, j) \in Nat /\ InHand({}, q, j) \in Nat
    BY <1>1 DEF InHand
  <2>. HIDE DEF id
  <2>. QED
    BY <2>1, <2>2, <2>3 DEF Alive
<1>5. Covered(b, H, {u}, v, n, {}, q)
  BY <1>4 DEF Backed, Covered, IsRsv
<1>6. Needed(b, H, {u}, v, X \ {id})
  BY DEF Backed, Needed, Present
<1>7. Funded(b, H, {u}, v)
  BY DEF Backed, Funded, SweepFunded
<1>. QED
  BY <1>1, <1>5, <1>6, <1>7 DEF Backed

(* What is reserved for one order changes. *)
Revalued(v, u, id, raw) ==
  /\ DOMAIN u = DOMAIN v /\ \A j \in DOMAIN v : j # id => u[j] = v[j]
  /\ u[id] = [side |-> v[id].side, limit |-> v[id].limit, raw |-> raw]

LEMMA Revalue ==
  ASSUME NEW b, NEW H, NEW W, NEW v, NEW n, NEW S, NEW q, NEW X, Backed(b, H, W, v, n, S, q, X),
         NEW id \in S, id \in DOMAIN v, NEW raw \in Nat, NEW u, Revalued(v, u, id, raw), IsRsv(u),
         LET a == Alive(b, H, W, S, q, id) - q
         IN  raw >= Backing(v[id], a) /\ (n[id] = 0 => raw = Backing(v[id], a))
  PROVE  Backed(b, H, W, u, n, S \ {id}, q, X)
<1>1. BookOK(b) /\ HoldsOK(H) /\ OnlyOne(W) /\ q \in Nat /\ S \subseteq Ids /\ IsRsv(v)
  BY DEF Backed
<1>2. /\ DOMAIN u = DOMAIN v /\ \A j \in DOMAIN v : u[j].side = v[j].side /\ u[j].limit = v[j].limit
      /\ u[id].raw = raw
  BY DEF Revalued
<1>3. \A s, px, j : GoodFor(v, j, s, px) => GoodFor(u, j, s, px)
  BY <1>2 DEF GoodFor
<1>4. Funded(b, H, W, u)
  <2>1. Funded(b, H, W, v)
    BY DEF Backed
  <2>2. BookFunded(b, u)
    BY <1>3, <2>1 DEF Funded, BookFunded
  <2>3. \A h \in H : HoldFunded(h, u)
    BY <1>3, <2>1 DEF Funded, HoldFunded
  <2>4. \A w \in W : SweepFunded(w, u)
    BY <1>2, <1>3, <2>1 DEF Funded, SweepFunded
  <2>. QED
    BY <2>2, <2>3, <2>4 DEF Funded
<1>5. ASSUME NEW j \in DOMAIN u
      PROVE  Cover(u[j], n[j], Alive(b, H, W, S \ {id}, q, j))
  <2>1. CASE j = id
    <3>1. Alive(b, H, W, S \ {id}, q, j) = Alive(b, H, W, S, q, id) - q
      <4>1. InHand(S \ {id}, q, id) = 0 /\ InHand(S, q, id) = q
        BY DEF InHand
      <4>2. RestIn(b, id) \in Nat /\ HeldQtyFor(H, id) \in Nat /\ FlyIn(W, id) \in Nat
        BY <1>1, AliveType
      <4>. QED
        BY <1>1, <2>1, <4>1, <4>2 DEF Alive
    <3>2. \A x : Backing(u[id], x) = Backing(v[id], x)
      BY <1>2, BackingSame
    <3>. QED
      BY <1>2, <2>1, <3>1, <3>2 DEF Cover
  <2>2. CASE j # id
    <3>1. InHand(S \ {id}, q, j) = InHand(S, q, j)
      BY <2>2 DEF InHand
    <3>2. Alive(b, H, W, S \ {id}, q, j) = Alive(b, H, W, S, q, j)
      BY <3>1 DEF Alive
    <3>3. u[j] = v[j] /\ j \in DOMAIN v
      BY <1>2, <2>2 DEF Revalued
    <3>4. Cover(v[j], n[j], Alive(b, H, W, S, q, j))
      BY <3>3 DEF Backed, Covered
    <3>. QED
      BY <3>2, <3>3, <3>4
  <2>. QED
    BY <2>1, <2>2
<1>6. Needed(b, H, W, u, X)
  BY <1>2 DEF Backed, Needed
<1>. QED
  BY <1>1, <1>4, <1>5, <1>6 DEF Backed, Covered

(* A reservation goes with the last piece of its order. *)
Dropped(v, u, id) == DOMAIN u = DOMAIN v \ {id} /\ \A j \in DOMAIN u : u[j] = v[j]

LEMMA DropIt ==
  ASSUME NEW b, NEW H, NEW W, NEW v, NEW n, NEW S, NEW q, NEW X, Backed(b, H, W, v, n, S, q, X),
         NEW id, ~IsResting(b, id), HoldsOf(H, id) = {}, \A w \in W : w.o.id = id => w.left = 0,
         NEW u, Dropped(v, u, id), IsRsv(u)
  PROVE  Backed(b, H, W, u, n, S \ {id}, q, X \ {id})
<1>1. BookOK(b) /\ HoldsOK(H) /\ OnlyOne(W) /\ q \in Nat /\ S \subseteq Ids /\ IsRsv(v)
  BY DEF Backed
<1>2. DOMAIN u = DOMAIN v \ {id} /\ \A j \in DOMAIN u : u[j] = v[j] /\ j \in DOMAIN v /\ j # id
  BY DEF Dropped
<1>3. \A s, px, j : GoodFor(v, j, s, px) /\ j # id => GoodFor(u, j, s, px)
  BY <1>2 DEF GoodFor
<1>4. Funded(b, H, W, u)
  <2>1. Funded(b, H, W, v)
    BY DEF Backed
  <2>2. BookFunded(b, u)
    <3>1. \A s \in Sides : \A r \in On(b, s) : r.id # id
      BY RestingIs
    <3>. QED
      BY <1>3, <2>1, <3>1 DEF Funded, BookFunded
  <2>3. \A h \in H : HoldFunded(h, u)
    <3>1. \A h \in H : h.maker # id /\ h.taker # id
      BY DEF HoldsOf
    <3>. QED
      BY <1>3, <2>1, <3>1 DEF Funded, HoldFunded
  <2>4. ASSUME NEW w \in W PROVE SweepFunded(w, u)
    <3>1. SweepFunded(w, v) /\ (w.o.id = id => ~(w.left > 0))
      BY <2>1 DEF Funded
    <3>. QED
      BY <1>2, <1>3, <3>1 DEF SweepFunded
  <2>. QED
    BY <2>2, <2>3, <2>4 DEF Funded
<1>5. ASSUME NEW j \in DOMAIN u
      PROVE  Cover(u[j], n[j], Alive(b, H, W, S \ {id}, q, j))
  <2>1. InHand(S \ {id}, q, j) = InHand(S, q, j)
    BY <1>2 DEF InHand
  <2>2. Alive(b, H, W, S \ {id}, q, j) = Alive(b, H, W, S, q, j)
    BY <2>1 DEF Alive
  <2>3. Cover(v[j], n[j], Alive(b, H, W, S, q, j))
    BY <1>2 DEF Backed, Covered
  <2>. QED
    BY <1>2, <2>2, <2>3
<1>6. Needed(b, H, W, u, X \ {id})
  BY <1>2 DEF Backed, Needed
<1>. QED
  BY <1>1, <1>4, <1>5, <1>6 DEF Backed, Covered

(* Empty hands. *)
LEMMA HandsFree ==
  ASSUME NEW b, NEW H, NEW W, NEW v, NEW n, NEW S, NEW q, NEW X, Backed(b, H, W, v, n, S, q, X),
         S = {} \/ q = 0, NEW Z, Z \subseteq Ids, NEW p \in Nat, Z = {} \/ p = 0
  PROVE  Backed(b, H, W, v, n, Z, p, X)
<1>1. \A j : InHand(S, q, j) = 0 /\ InHand(Z, p, j) = 0
  BY DEF InHand
<1>2. \A j : Alive(b, H, W, S, q, j) = Alive(b, H, W, Z, p, j)
  BY <1>1 DEF Alive
<1>3. Covered(b, H, W, v, n, Z, p)
  BY <1>2 DEF Backed, Covered
<1>. QED
  BY <1>3 DEF Backed

LEMMA Shrink ==
  ASSUME NEW b, NEW H, NEW W, NEW v, NEW n, NEW S, NEW q, NEW X, Backed(b, H, W, v, n, S, q, X),
         NEW Y, \A id \in DOMAIN v : id \in X /\ id \notin Y => Present(b, H, W, id)
  PROVE  Backed(b, H, W, v, n, S, q, Y)
  BY DEF Backed, Needed

LEMMA CoverIs ==
  ASSUME NEW b, NEW H, NEW W, NEW v, NEW n, NEW S, NEW q, NEW X, Backed(b, H, W, v, n, S, q, X),
         NEW id \in DOMAIN v
  PROVE  /\ id \in Ids /\ v[id] \in Reservation /\ v[id].raw \in Nat /\ q \in Nat /\ n[id] \in Nat
         /\ v[id].raw >= Backing(v[id], Alive(b, H, W, S, q, id))
         /\ n[id] = 0 => v[id].raw = Backing(v[id], Alive(b, H, W, S, q, id))
         /\ Alive(b, H, W, S, q, id) \in Nat
         /\ id \in S => Alive(b, H, W, S, q, id) - q \in Nat
<1>1. /\ BookOK(b) /\ HoldsOK(H) /\ OnlyOne(W) /\ q \in Nat /\ IsRsv(v) /\ n \in [Ids -> Nat]
      /\ Covered(b, H, W, v, n, S, q)
  BY DEF Backed
<1>2. id \in Ids /\ v[id] \in Reservation /\ n[id] \in Nat
  BY <1>1 DEF IsRsv
<1>3. v[id].raw \in Nat
  BY <1>2 DEF Reservation
<1>4. Cover(v[id], n[id], Alive(b, H, W, S, q, id))
  BY <1>1 DEF Covered
<1>5. /\ RestIn(b, id) \in Nat /\ HeldQtyFor(H, id) \in Nat /\ FlyIn(W, id) \in Nat
      /\ Alive(b, H, W, S, q, id) \in Nat
  BY <1>1, AliveType
<1>6. id \in S => Alive(b, H, W, S, q, id) - q \in Nat
  <2>1. id \in S => InHand(S, q, id) = q
    BY DEF InHand
  <2>. QED
    BY <1>1, <1>5, <2>1 DEF Alive
<1>. QED
  BY <1>1, <1>2, <1>3, <1>4, <1>5, <1>6 DEF Cover

(* A trade, or a release, takes what backs the piece in hand. *)
LEMMA Spend ==
  ASSUME NEW b, NEW H, NEW W, NEW v, NEW n, NEW S, NEW q, NEW X, Backed(b, H, W, v, n, S, q, X),
         NEW id \in S, id \in DOMAIN v, NEW u, IsRsv(u),
         Revalued(v, u, id, v[id].raw - Backing(v[id], q))
  PROVE  /\ Backed(b, H, W, u, n, S \ {id}, q, X)
         /\ v[id].raw >= Backing(v[id], q)
<1>. DEFINE a == Alive(b, H, W, S, q, id) - q
            r == v[id]
            x == Backing(r, a)
            y == Backing(r, q)
            z == Backing(r, a + q)
<1>1. /\ r \in Reservation /\ r.raw \in Nat /\ q \in Nat /\ a \in Nat /\ n[id] \in Nat
      /\ a + q = Alive(b, H, W, S, q, id)
  BY CoverIs
<1>2. r.raw >= z /\ (n[id] = 0 => r.raw = z)
  BY <1>1, CoverIs
<1>. HIDE DEF a
<1>3. x \in Nat /\ y \in Nat /\ z = x + y
  BY <1>1, BackingIs
<1>. HIDE DEF x, y, z
<1>4. r.raw - y \in Nat /\ r.raw >= y /\ r.raw - y >= x /\ (n[id] = 0 => r.raw - y = x)
  BY <1>1, <1>2, <1>3
<1>5. \A raw \in Nat : Revalued(v, u, id, raw) /\ raw >= x /\ (n[id] = 0 => raw = x) =>
        Backed(b, H, W, u, n, S \ {id}, q, X)
  BY Revalue DEF x, a
<1>. QED
  BY <1>4, <1>5 DEF y

Share(raw, q, from) == (raw * q) \div from
ShareOK(c, raw, from, q) ==
  /\ Share(raw, q, from) \in Nat /\ Share(raw, q, from) <= raw
  /\ raw - Share(raw, q, from) >= c * (from - q)
  /\ raw = c * from => raw - Share(raw, q, from) = c * (from - q)

(* What is left of the reservation of a shrinking order still covers it. *)
LEMMA ShareIs ==
  ASSUME NEW c \in Nat, NEW raw \in Nat, NEW from \in Nat \ {0}, NEW q \in Nat, q <= from,
         raw >= c * from
  PROVE  ShareOK(c, raw, from, q)
<1>. DEFINE k == Share(raw, q, from)
<1>1. k \in Nat /\ k * from <= raw * q /\ raw * q < (k + 1) * from
  <2>1. raw * q \in Nat
    OBVIOUS
  <2>. QED
    BY <2>1 DEF Share
<1>. HIDE DEF k
<1>2. k <= raw
  <2>1. SUFFICES ASSUME k >= raw + 1 PROVE FALSE
    BY <1>1
  <2>2. k * from >= (raw + 1) * from
    BY <1>1, <2>1
  <2>3. (raw + 1) * from = raw * from + from
    OBVIOUS
  <2>4. raw * q <= raw * from
    OBVIOUS
  <2>. QED
    BY <1>1, <2>2, <2>3, <2>4
<1>3. raw - k >= c * (from - q)
  <2>. DEFINE d == from - q
              t == c * d
  <2>0. d \in Nat /\ from = d + q
    OBVIOUS
  <2>00. t \in Nat
    BY <2>0
  <2>1. SUFFICES ASSUME raw - k <= t - 1 PROVE FALSE
    BY <1>1, <2>00
  <2>2. (raw - k) * from <= (t - 1) * from
    BY <1>1, <2>00, <2>1
  <2>3. (raw - k) * from = raw * from - k * from
    BY <1>1
  <2>4. raw * from = raw * d + raw * q
    BY <2>0
  <2>5. (c * from) * d <= raw * d
    BY <2>0
  <2>6. (t - 1) * from = t * from - from /\ t * from = (c * from) * d
    BY <2>0
  <2>. HIDE DEF d, t
  <2>. QED
    BY <1>1, <2>0, <2>00, <2>2, <2>3, <2>4, <2>5, <2>6
<1>4. raw = c * from => raw - k = c * (from - q)
  <2>1. SUFFICES ASSUME raw = c * from PROVE k = c * q
    BY <1>1
  <2>2. raw * q = (c * q) * from
    BY <2>1
  <2>3. c * q \in Nat
    OBVIOUS
  <2>4. k <= c * q
    <3>1. SUFFICES ASSUME k >= c * q + 1 PROVE FALSE
      BY <1>1, <2>3
    <3>2. k * from >= (c * q + 1) * from
      BY <1>1, <2>3, <3>1
    <3>3. (c * q + 1) * from = (c * q) * from + from
      BY <2>3
    <3>. QED
      BY <1>1, <2>2, <2>3, <3>2, <3>3
  <2>5. k >= c * q
    <3>1. SUFFICES ASSUME k + 1 <= c * q PROVE FALSE
      BY <1>1, <2>3
    <3>2. (k + 1) * from <= (c * q) * from
      BY <1>1, <2>3, <3>1
    <3>. QED
      BY <1>1, <2>2, <2>3, <3>2
  <2>. QED
    BY <1>1, <2>3, <2>4, <2>5
<1>. QED
  BY <1>1, <1>2, <1>3, <1>4 DEF k, ShareOK

LEMMA ProRate ==
  ASSUME NEW b, NEW H, NEW W, NEW v, NEW n, NEW S, NEW q, NEW X, Backed(b, H, W, v, n, S, q, X),
         NEW id \in S, id \in DOMAIN v, NEW from, from = Alive(b, H, W, S, q, id), from # 0,
         NEW u, IsRsv(u), Revalued(v, u, id, v[id].raw - Share(v[id].raw, q, from))
  PROVE  Backed(b, H, W, u, n, S \ {id}, q, X)
<1>. DEFINE r == v[id]
            c == IF r.side = "buy" THEN r.limit ELSE 1
            k == Share(r.raw, q, from)
            x == Backing(r, from - q)
<1>1. /\ r \in Reservation /\ r.raw \in Nat /\ q \in Nat /\ from \in Nat /\ n[id] \in Nat
      /\ from - q \in Nat
  BY CoverIs
<1>2. r.raw >= Backing(r, from) /\ (n[id] = 0 => r.raw = Backing(r, from))
  BY CoverIs
<1>3. c \in Nat
  BY <1>1 DEF Reservation
<1>4. Backing(r, from) = c * from /\ x = c * (from - q)
  BY <1>1 DEF Backing
<1>. HIDE DEF c
<1>5. from \in Nat \ {0} /\ q <= from /\ r.raw >= c * from
  BY <1>1, <1>2, <1>4
<1>6. k \in Nat /\ k <= r.raw /\ r.raw - k >= c * (from - q) /\ (r.raw = c * from => r.raw - k = c * (from - q))
  <2>1. r.raw \in Nat /\ q \in Nat
    BY <1>1
  <2>. HIDE DEF r
  <2>2. ShareOK(c, r.raw, from, q)
    BY <1>3, <1>5, <2>1, ShareIs, Zenon
  <2>. QED
    BY <2>2 DEF ShareOK
<1>. HIDE DEF k, x
<1>7. r.raw - k \in Nat /\ r.raw - k >= x /\ (n[id] = 0 => r.raw - k = x)
  BY <1>1, <1>2, <1>4, <1>6
<1>8. \A raw \in Nat : Revalued(v, u, id, raw) /\ raw >= x /\ (n[id] = 0 => raw = x) =>
        Backed(b, H, W, u, n, S \ {id}, q, X)
  BY Revalue DEF x
<1>. QED
  BY <1>7, <1>8 DEF k

(* What is left is worth exactly what is alive. *)
LEMMA Trim ==
  ASSUME NEW b, NEW H, NEW W, NEW v, NEW n, NEW S, NEW q, NEW X, Backed(b, H, W, v, n, S, q, X),
         NEW id \in S, id \in DOMAIN v, NEW a, a = Alive(b, H, W, S, q, id) - q,
         NEW u, IsRsv(u), Revalued(v, u, id, Backing(v[id], a))
  PROVE  Backed(b, H, W, u, n, S \ {id}, q, X)
<1>. DEFINE x == Backing(v[id], a)
<1>1. v[id] \in Reservation /\ a \in Nat
  BY CoverIs
<1>2. x \in Nat
  BY <1>1, BackingIs
<1>. HIDE DEF x
<1>3. \A raw \in Nat : Revalued(v, u, id, raw) /\ raw >= x /\ (n[id] = 0 => raw = x) =>
        Backed(b, H, W, u, n, S \ {id}, q, X)
  BY Revalue DEF x
<1>. QED
  BY <1>2, <1>3 DEF x

(* A new reservation, and the order it is for in hand. *)
Granted(v, u, id, r) ==
  DOMAIN u = DOMAIN v \cup {id} /\ u[id] = r /\ \A j \in DOMAIN v : j # id => u[j] = v[j]

LEMMA ReserveIt ==
  ASSUME NEW b, NEW H, NEW v, NEW n, NEW q \in Nat, NEW X, Backed(b, H, {}, v, n, {}, q, X),
         NEW id \in Ids, id \notin DOMAIN v, ~IsResting(b, id), HoldsOf(H, id) = {},
         NEW r \in Reservation, r.raw = Backing(r, q), NEW u, IsRsv(u), Granted(v, u, id, r)
  PROVE  Backed(b, H, {}, u, n, {id}, q, X \cup {id})
<1>1. BookOK(b) /\ HoldsOK(H) /\ OnlyOne({}) /\ IsRsv(v)
  BY DEF Backed
<1>2. DOMAIN u = DOMAIN v \cup {id} /\ u[id] = r /\ \A j \in DOMAIN v : u[j] = v[j]
  BY DEF Granted
<1>3. \A s, px, j : GoodFor(v, j, s, px) => GoodFor(u, j, s, px)
  BY <1>2 DEF GoodFor
<1>4. Funded(b, H, {}, u)
  <2>1. Funded(b, H, {}, v)
    BY DEF Backed
  <2>2. BookFunded(b, u)
    BY <1>3, <2>1 DEF Funded, BookFunded
  <2>3. \A h \in H : HoldFunded(h, u)
    BY <1>3, <2>1 DEF Funded, HoldFunded
  <2>. QED
    BY <2>2, <2>3 DEF Funded
<1>5. ASSUME NEW j \in DOMAIN u
      PROVE  Cover(u[j], n[j], Alive(b, H, {}, {id}, q, j))
  <2>1. CASE j = id
    <3>1. RestIn(b, id) = 0 /\ HeldQtyFor(H, id) = 0 /\ FlyIn({}, id) = 0 /\ InHand({id}, q, id) = q
      BY HeldNone DEF RestIn, FlyIn, Flies, InHand
    <3>2. Alive(b, H, {}, {id}, q, id) = q
      BY <3>1 DEF Alive
    <3>3. Backing(r, q) \in Nat
      BY BackingIs
    <3>. QED
      BY <1>2, <2>1, <3>2, <3>3 DEF Cover
  <2>2. CASE j # id
    <3>1. InHand({id}, q, j) = InHand({}, q, j)
      BY <2>2 DEF InHand
    <3>2. Alive(b, H, {}, {id}, q, j) = Alive(b, H, {}, {}, q, j)
      BY <3>1 DEF Alive
    <3>3. u[j] = v[j] /\ j \in DOMAIN v
      BY <1>2, <2>2
    <3>4. Cover(v[j], n[j], Alive(b, H, {}, {}, q, j))
      BY <3>3 DEF Backed, Covered
    <3>. QED
      BY <3>2, <3>3, <3>4
  <2>. QED
    BY <2>1, <2>2
<1>6. Needed(b, H, {}, u, X \cup {id})
  BY <1>2 DEF Backed, Needed
<1>7. n \in [Ids -> Nat]
  BY DEF Backed
<1>. QED
  BY <1>1, <1>4, <1>5, <1>6, <1>7 DEF Backed, Covered

-----------------------------------------------------------------------------
(* Funds *)

Part(v, a, x, id) ==
  IF id \in DOMAIN v /\ Owner[id] = a /\ AssetOf(v[id].side) = x THEN v[id].raw ELSE 0

LEMMA ReservedType ==
  ASSUME NEW v, IsRsv(v), NEW a, NEW x
  PROVE  ReservedBy(v, a, x) \in Nat
<1>. DEFINE K == {k \in DOMAIN v : Owner[k] = a /\ AssetOf(v[k].side) = x}
            f == [k \in K |-> v[k].raw]
<1>1. IsFiniteSet(K)
  <2>1. K \in SUBSET Ids
    BY DEF IsRsv
  <2>. QED
    BY <2>1, FS_Subset, EngineAssumption
<1>2. DOMAIN f = K /\ \A k \in DOMAIN f : f[k] \in Nat
  BY DEF IsRsv, Reservation
<1>. HIDE DEF f, K
<1>3. SumFunction(f) \in Nat
  BY <1>1, <1>2, SumNat
<1>. QED
  BY <1>3, Zenon DEF ReservedBy, f, K

LEMMA PartSplits ==
  ASSUME NEW v, IsRsv(v), NEW w, NEW id, Dropped(v, w, id), NEW a, NEW x
  PROVE  ReservedBy(v, a, x) = Part(v, a, x, id) + ReservedBy(w, a, x)
<1>. DEFINE K == {k \in DOMAIN v : Owner[k] = a /\ AssetOf(v[k].side) = x}
            L == {k \in DOMAIN w : Owner[k] = a /\ AssetOf(w[k].side) = x}
            f == [k \in K |-> v[k].raw]
            g == [k \in L |-> w[k].raw]
<1>1. IsFiniteSet(K)
  <2>1. K \in SUBSET Ids
    BY DEF IsRsv
  <2>. QED
    BY <2>1, FS_Subset, EngineAssumption
<1>2. DOMAIN f = K /\ DOMAIN g = L /\ \A k \in DOMAIN f : f[k] \in Int
  BY DEF IsRsv, Reservation
<1>3. L = K \ {id} /\ \A k \in DOMAIN g : g[k] = f[k]
  BY DEF Dropped
<1>4. ReservedBy(v, a, x) = SumFunction(f) /\ ReservedBy(w, a, x) = SumFunction(g)
  BY Zenon DEF ReservedBy
<1>5. CASE id \in K
  <2>1. f[id] = Part(v, a, x, id)
    BY <1>5 DEF Part
  <2>. HIDE DEF f, g, K, L
  <2>2. SumFunction(f) = f[id] + SumFunction(g)
    BY <1>1, <1>2, <1>3, <1>5, SumSplits
  <2>. QED
    BY <1>4, <2>1, <2>2
<1>6. CASE id \notin K
  <2>1. K = L
    BY <1>3, <1>6
  <2>2. f = g
    BY <1>3, <2>1
  <2>3. Part(v, a, x, id) = 0
    BY <1>6 DEF Part
  <2>4. ReservedBy(v, a, x) \in Nat
    BY ReservedType
  <2>. HIDE DEF f, g, K, L
  <2>. QED
    BY <1>4, <2>2, <2>3, <2>4
<1>. QED
  BY <1>5, <1>6

(* Only what is reserved for one order changes. *)
AgreeOff(v, u, id) ==
  /\ \A j : j # id => (j \in DOMAIN v <=> j \in DOMAIN u)
  /\ \A j \in DOMAIN v : j # id => u[j] = v[j]

LEMMA PartMoves ==
  ASSUME NEW v, IsRsv(v), NEW u, IsRsv(u), NEW id, AgreeOff(v, u, id), NEW a, NEW x
  PROVE  /\ ReservedBy(u, a, x) = ReservedBy(v, a, x) - Part(v, a, x, id) + Part(u, a, x, id)
         /\ ReservedBy(v, a, x) >= Part(v, a, x, id)
         /\ ReservedBy(v, a, x) \in Nat /\ Part(v, a, x, id) \in Nat /\ Part(u, a, x, id) \in Nat
<1>. DEFINE w == [j \in DOMAIN v \ {id} |-> v[j]]
<1>1. Dropped(v, w, id) /\ Dropped(u, w, id)
  BY DEF Dropped, AgreeOff
<1>2. IsRsv(w)
  BY DEF IsRsv
<1>. HIDE DEF w
<1>3. ReservedBy(v, a, x) = Part(v, a, x, id) + ReservedBy(w, a, x)
  BY <1>1, PartSplits
<1>4. ReservedBy(u, a, x) = Part(u, a, x, id) + ReservedBy(w, a, x)
  BY <1>1, PartSplits
<1>5. ReservedBy(v, a, x) \in Nat /\ ReservedBy(u, a, x) \in Nat /\ ReservedBy(w, a, x) \in Nat
  BY <1>2, ReservedType
<1>6. Part(v, a, x, id) \in Nat /\ Part(u, a, x, id) \in Nat
  BY DEF Part, IsRsv, Reservation
<1>. QED
  BY <1>3, <1>4, <1>5, <1>6

Bals == [Accounts -> [Assets -> Balance]]
Cells(bal, a, x, da, dr) ==
  [bal EXCEPT ![a][x] = [avail |-> @.avail + da, rsvd |-> @.rsvd + dr]]

LEMMA CellsAre ==
  ASSUME NEW bal \in Bals, NEW a \in Accounts, NEW x \in Assets, NEW da \in Int, NEW dr \in Int,
         bal[a][x].avail + da >= 0, bal[a][x].rsvd + dr >= 0
  PROVE  LET new == Cells(bal, a, x, da, dr)
         IN  /\ new \in Bals
             /\ new[a][x].avail = bal[a][x].avail + da /\ new[a][x].rsvd = bal[a][x].rsvd + dr
             /\ \A c \in Accounts, y \in Assets : c # a \/ y # x => new[c][y] = bal[c][y]
<1>. DEFINE cell == [avail |-> bal[a][x].avail + da, rsvd |-> bal[a][x].rsvd + dr]
            row == [bal[a] EXCEPT ![x] = cell]
            new == [bal EXCEPT ![a] = row]
<1>1. bal[a] \in [Assets -> Balance] /\ bal[a][x] \in Balance
  BY DEF Bals
<1>2. bal[a][x].avail \in Nat /\ bal[a][x].rsvd \in Nat
  BY <1>1 DEF Balance
<1>3. bal[a][x].avail + da \in Nat /\ bal[a][x].rsvd + dr \in Nat
  BY <1>2
<1>4. cell \in Balance /\ cell.avail = bal[a][x].avail + da /\ cell.rsvd = bal[a][x].rsvd + dr
  BY <1>3 DEF Balance
<1>5. Cells(bal, a, x, da, dr) = new
  BY DEF Cells
<1>. HIDE DEF cell
<1>6. row \in [Assets -> Balance] /\ row[x] = cell /\ \A y \in Assets : y # x => row[y] = bal[a][y]
  BY <1>1, <1>4
<1>. HIDE DEF row
<1>7. new \in Bals /\ new[a] = row /\ \A c \in Accounts : c # a => new[c] = bal[c]
  BY <1>6 DEF Bals
<1>. HIDE DEF new
<1>. QED
  BY <1>4, <1>5, <1>6, <1>7

LEMMA CellType ==
  ASSUME NEW bal \in Bals, NEW a \in Accounts, NEW x \in Assets
  PROVE  bal[a][x].avail \in Nat /\ bal[a][x].rsvd \in Nat
<1>1. bal[a][x] \in Balance
  BY DEF Bals
<1>. QED
  BY <1>1 DEF Balance

Others(bal, a, x) == [c \in Accounts \ {a} |-> bal[c][x].avail + bal[c][x].rsvd]

LEMMA SupplySplits ==
  ASSUME NEW bal \in Bals, NEW a \in Accounts, NEW x \in Assets
  PROVE  /\ Supply(bal, x) = (bal[a][x].avail + bal[a][x].rsvd) + SumFunction(Others(bal, a, x))
         /\ SumFunction(Others(bal, a, x)) \in Int /\ Supply(bal, x) \in Int
<1>. DEFINE f == [c \in Accounts |-> bal[c][x].avail + bal[c][x].rsvd]
            h == Others(bal, a, x)
<1>1. /\ DOMAIN f = Accounts /\ f[a] = bal[a][x].avail + bal[a][x].rsvd
      /\ DOMAIN h = Accounts \ {a} /\ \A c \in DOMAIN h : h[c] = f[c]
  BY DEF Others
<1>2. \A c \in Accounts : f[c] \in Int
  BY CellType
<1>3. IsFiniteSet(Accounts) /\ IsFiniteSet(Accounts \ {a})
  BY EngineAssumption, FS_RemoveElement
<1>4. Supply(bal, x) = SumFunction(f)
  BY DEF Supply
<1>. HIDE DEF f, h
<1>5. SumFunction(f) \in Int
  BY <1>1, <1>2, <1>3, SumType
<1>6. SumFunction(h) \in Int
  BY <1>1, <1>2, <1>3, SumType
<1>7. SumFunction(f) = f[a] + SumFunction(h)
  <2>1. IsFiniteSet(DOMAIN f) /\ \A c \in DOMAIN f : f[c] \in Int
    BY <1>1, <1>2, <1>3
  <2>2. a \in DOMAIN f /\ DOMAIN h = DOMAIN f \ {a} /\ \A c \in DOMAIN h : h[c] = f[c]
    BY <1>1
  <2>. QED
    BY <2>1, <2>2, SumSplits
<1>. QED
  BY <1>1, <1>4, <1>5, <1>6, <1>7 DEF h

LEMMA SupplyMoves ==
  ASSUME NEW bal \in Bals, NEW new \in Bals, NEW a \in Accounts, NEW x \in Assets,
         \A c \in Accounts, y \in Assets : c # a \/ y # x => new[c][y] = bal[c][y]
  PROVE  /\ Supply(new, x) = Supply(bal, x) + (new[a][x].avail + new[a][x].rsvd)
                                            - (bal[a][x].avail + bal[a][x].rsvd)
         /\ \A y \in Assets : y # x => Supply(new, y) = Supply(bal, y)
         /\ \A y \in Assets : Supply(bal, y) \in Int
<1>1. Others(new, a, x) = Others(bal, a, x)
  BY DEF Others
<1>2. ASSUME NEW y \in Assets, y # x PROVE Supply(new, y) = Supply(bal, y)
  <2>1. \A c \in Accounts : new[c][y] = bal[c][y]
    BY <1>2
  <2>. QED
    BY <2>1 DEF Supply
<1>3. /\ bal[a][x].avail \in Nat /\ bal[a][x].rsvd \in Nat
      /\ new[a][x].avail \in Nat /\ new[a][x].rsvd \in Nat
  BY CellType
<1>4. \A y \in Assets : Supply(bal, y) \in Int
  BY SupplySplits
<1>. DEFINE z == SumFunction(Others(bal, a, x))
<1>5. Supply(bal, x) = (bal[a][x].avail + bal[a][x].rsvd) + z /\ z \in Int
  BY SupplySplits
<1>6. Supply(new, x) = (new[a][x].avail + new[a][x].rsvd) + z
  BY <1>1, SupplySplits
<1>. HIDE DEF z
<1>. QED
  BY <1>2, <1>3, <1>4, <1>5, <1>6

(* What an account has reserved is what its orders have. *)
FundsHeld(f) ==
  FundsTyped(f) /\ \A a \in Accounts, x \in Assets : f.bal[a][x].rsvd = ReservedBy(f.rsv, a, x)

SameSupply(f, g, x, k) ==
  /\ Supply(g.bal, x) = Supply(f.bal, x) + k
  /\ \A y \in Assets : y # x => Supply(g.bal, y) = Supply(f.bal, y)

LEMMA HeldIsOK ==
  ASSUME NEW f
  PROVE  FundsOK(f) <=> /\ FundsHeld(f)
                        /\ \A x \in Assets : Supply(f.bal, x) = Deposits * Cardinality(Accounts)
  BY DEF FundsOK, FundsHeld

LEMMA TypedIs ==
  ASSUME NEW f, FundsTyped(f)
  PROVE  f.bal \in Bals /\ IsRsv(f.rsv) /\ DOMAIN f = {"bal", "rsv"}
  BY DEF FundsTyped, Bals

LEMMA ShiftKeeps ==
  ASSUME NEW f, FundsHeld(f), NEW g, DOMAIN g = {"bal", "rsv"}, IsRsv(g.rsv),
         NEW id \in Ids, AgreeOff(f.rsv, g.rsv, id),
         NEW x \in Assets, NEW da \in Int, NEW dr \in Int,
         f.bal[Owner[id]][x].avail + da >= 0,
         g.bal = Cells(f.bal, Owner[id], x, da, dr),
         Part(g.rsv, Owner[id], x, id) = Part(f.rsv, Owner[id], x, id) + dr,
         \A y \in Assets : y # x => Part(g.rsv, Owner[id], y, id) = Part(f.rsv, Owner[id], y, id)
  PROVE  FundsHeld(g) /\ SameSupply(f, g, x, da + dr)
<1>. DEFINE a == Owner[id]
            v == f.rsv
            u == g.rsv
<1>1. f.bal \in Bals /\ IsRsv(v) /\ IsRsv(u) /\ a \in Accounts
  BY TypedIs, EngineAssumption DEF FundsHeld
<1>2. f.bal[a][x].avail \in Nat /\ f.bal[a][x].rsvd \in Nat /\ f.bal[a][x].rsvd = ReservedBy(v, a, x)
  BY <1>1, CellType DEF FundsHeld
<1>3. \A c, y : /\ ReservedBy(u, c, y) = ReservedBy(v, c, y) - Part(v, c, y, id) + Part(u, c, y, id)
                /\ ReservedBy(v, c, y) \in Nat /\ ReservedBy(u, c, y) \in Nat
                /\ Part(v, c, y, id) \in Nat /\ Part(u, c, y, id) \in Nat
  BY <1>1, PartMoves, ReservedType
<1>4. f.bal[a][x].rsvd + dr = ReservedBy(u, a, x) /\ f.bal[a][x].rsvd + dr >= 0
  <2>1. Part(u, a, x, id) = Part(v, a, x, id) + dr
    OBVIOUS
  <2>. HIDE DEF a, v, u
  <2>. QED
    BY <1>2, <1>3, <2>1
<1>5. /\ g.bal \in Bals
      /\ g.bal[a][x].avail = f.bal[a][x].avail + da /\ g.bal[a][x].rsvd = f.bal[a][x].rsvd + dr
      /\ \A c \in Accounts, y \in Assets : c # a \/ y # x => g.bal[c][y] = f.bal[c][y]
  <2>1. f.bal[a][x].avail + da >= 0 /\ g.bal = Cells(f.bal, a, x, da, dr)
    OBVIOUS
  <2>. HIDE DEF a
  <2>. QED
    BY <1>1, <1>4, <2>1, CellsAre
<1>6. ASSUME NEW c \in Accounts, NEW y \in Assets
      PROVE  g.bal[c][y].rsvd = ReservedBy(u, c, y)
  <2>1. CASE c = a /\ y = x
    BY <1>4, <1>5, <2>1
  <2>2. CASE c # a \/ y # x
    <3>1. g.bal[c][y] = f.bal[c][y] /\ f.bal[c][y].rsvd = ReservedBy(v, c, y)
      BY <1>5, <2>2 DEF FundsHeld
    <3>2. Part(u, c, y, id) = Part(v, c, y, id)
      <4>1. CASE c # a
        BY <4>1 DEF Part
      <4>2. CASE c = a
        BY <2>2, <4>2
      <4>. QED
        BY <4>1, <4>2
    <3>. HIDE DEF a, v, u
    <3>. QED
      BY <1>3, <3>1, <3>2
  <2>. QED
    BY <2>1, <2>2
<1>7. SameSupply(f, g, x, da + dr)
  <2>1. /\ Supply(g.bal, x) = Supply(f.bal, x) + (g.bal[a][x].avail + g.bal[a][x].rsvd)
                                              - (f.bal[a][x].avail + f.bal[a][x].rsvd)
        /\ \A y \in Assets : y # x => Supply(g.bal, y) = Supply(f.bal, y)
        /\ Supply(f.bal, x) \in Int
    <3>. HIDE DEF a
    <3>. QED
      BY <1>1, <1>5, SupplyMoves, SMTT(150)
  <2>. QED
    BY <1>2, <1>5, <2>1 DEF SameSupply
<1>8. FundsHeld(g)
  BY <1>1, <1>5, <1>6 DEF FundsHeld, FundsTyped, Bals
<1>. QED
  BY <1>7, <1>8

LEMMA CreditKeeps ==
  ASSUME NEW f, FundsHeld(f), NEW a \in Accounts, NEW x \in Assets, NEW k \in Nat,
         NEW g, g = Move(f, a, x, k, 0)
  PROVE  FundsHeld(g) /\ SameSupply(f, g, x, k) /\ g.rsv = f.rsv
<1>1. f.bal \in Bals /\ IsRsv(f.rsv) /\ DOMAIN f = {"bal", "rsv"}
  BY TypedIs DEF FundsHeld
<1>2. g.rsv = f.rsv /\ DOMAIN g = {"bal", "rsv"} /\ g.bal = Cells(f.bal, a, x, k, 0)
  BY <1>1 DEF Move, Cells
<1>3. f.bal[a][x].avail \in Nat /\ f.bal[a][x].rsvd \in Nat
  BY <1>1, CellType
<1>4. /\ g.bal \in Bals
      /\ g.bal[a][x].avail = f.bal[a][x].avail + k /\ g.bal[a][x].rsvd = f.bal[a][x].rsvd + 0
      /\ \A c \in Accounts, y \in Assets : c # a \/ y # x => g.bal[c][y] = f.bal[c][y]
  <2>1. f.bal[a][x].avail + k >= 0 /\ f.bal[a][x].rsvd + 0 >= 0 /\ k \in Int /\ 0 \in Int
    BY <1>3
  <2>. QED
    BY <1>1, <1>2, <2>1, CellsAre
<1>5. \A c \in Accounts, y \in Assets : g.bal[c][y].rsvd = f.bal[c][y].rsvd
  BY <1>3, <1>4
<1>6. /\ Supply(g.bal, x) = Supply(f.bal, x) + (g.bal[a][x].avail + g.bal[a][x].rsvd)
                                            - (f.bal[a][x].avail + f.bal[a][x].rsvd)
      /\ \A y \in Assets : y # x => Supply(g.bal, y) = Supply(f.bal, y)
      /\ Supply(f.bal, x) \in Int
  <2>. DEFINE new == g.bal
              old == f.bal
  <2>1. /\ new \in Bals /\ old \in Bals
        /\ \A c \in Accounts, y \in Assets : c # a \/ y # x => new[c][y] = old[c][y]
    BY <1>1, <1>4
  <2>. HIDE DEF new, old
  <2>2. /\ Supply(new, x) = Supply(old, x) + (new[a][x].avail + new[a][x].rsvd)
                                          - (old[a][x].avail + old[a][x].rsvd)
        /\ \A y \in Assets : y # x => Supply(new, y) = Supply(old, y)
        /\ Supply(old, x) \in Int
    BY <2>1, SupplyMoves
  <2>. QED
    BY <2>2 DEF new, old
<1>7. SameSupply(f, g, x, k)
  BY <1>3, <1>4, <1>6 DEF SameSupply
<1>8. FundsHeld(g)
  BY <1>1, <1>2, <1>4, <1>5 DEF FundsHeld, FundsTyped, Bals
<1>. QED
  BY <1>2, <1>7, <1>8

LEMMA MoveIs ==
  ASSUME NEW f, FundsTyped(f), NEW a \in Accounts, NEW x \in Assets, NEW da \in Int, NEW dr \in Int
  PROVE  LET g == Move(f, a, x, da, dr)
         IN  DOMAIN g = {"bal", "rsv"} /\ g.rsv = f.rsv /\ g.bal = Cells(f.bal, a, x, da, dr)
  BY DEF Move, Cells, FundsTyped

(* Two moves of one balance are one. *)
LEMMA MovedTwice ==
  ASSUME NEW bal \in Bals, NEW a \in Accounts, NEW x \in Assets,
         NEW da \in Int, NEW dr \in Int, NEW ea \in Int, NEW er \in Int
  PROVE  /\ Cells(Cells(bal, a, x, da, dr), a, x, ea, er) = Cells(bal, a, x, da + ea, dr + er)
         /\ Cells(bal, a, x, da, dr)[a][x] = [avail |-> bal[a][x].avail + da, rsvd |-> bal[a][x].rsvd + dr]
<1>1. bal[a][x].avail \in Nat /\ bal[a][x].rsvd \in Nat
  BY CellType
<1>2. DOMAIN bal = Accounts /\ DOMAIN bal[a] = Assets
  BY DEF Bals
<1>. DEFINE one == [avail |-> bal[a][x].avail + da, rsvd |-> bal[a][x].rsvd + dr]
            two == [avail |-> bal[a][x].avail + (da + ea), rsvd |-> bal[a][x].rsvd + (dr + er)]
<1>3. Cells(bal, a, x, da, dr) = [bal EXCEPT ![a] = [bal[a] EXCEPT ![x] = one]]
  BY DEF Cells
<1>4. Cells(bal, a, x, da + ea, dr + er) = [bal EXCEPT ![a] = [bal[a] EXCEPT ![x] = two]]
  BY DEF Cells
<1>5. two = [avail |-> one.avail + ea, rsvd |-> one.rsvd + er]
  BY <1>1
<1>. HIDE DEF one, two
<1>. DEFINE mid == Cells(bal, a, x, da, dr)
<1>6. /\ mid[a][x] = one /\ mid = [bal EXCEPT ![a] = [bal[a] EXCEPT ![x] = one]]
  BY <1>2, <1>3
<1>7. Cells(mid, a, x, ea, er) = [mid EXCEPT ![a] = [mid[a] EXCEPT ![x] = two]]
  BY <1>5, <1>6 DEF Cells
<1>8. [mid EXCEPT ![a] = [mid[a] EXCEPT ![x] = two]] = [bal EXCEPT ![a] = [bal[a] EXCEPT ![x] = two]]
  <2>. HIDE DEF mid
  <2>. QED
    BY <1>2, <1>6
<1>. QED
  BY <1>4, <1>6, <1>7, <1>8 DEF one

LEMMA RsvOf ==
  ASSUME NEW v, IsRsv(v), NEW id \in DOMAIN v
  PROVE  /\ id \in Ids /\ Owner[id] \in Accounts /\ AssetOf(v[id].side) \in Assets
         /\ v[id] \in Reservation /\ v[id].side \in Sides /\ v[id].raw \in Nat
         /\ v[id].limit \in Nat \ {0}
<1>1. id \in Ids /\ v[id] \in Reservation
  BY DEF IsRsv
<1>. QED
  BY <1>1, EngineAssumption DEF Reservation, AssetOf, Assets

LEMMA RsvdEnough ==
  ASSUME NEW f, FundsHeld(f), NEW id \in DOMAIN f.rsv
  PROVE  /\ f.bal[Owner[id]][AssetOf(f.rsv[id].side)].rsvd >= f.rsv[id].raw
         /\ f.bal[Owner[id]][AssetOf(f.rsv[id].side)].rsvd \in Nat
         /\ f.bal[Owner[id]][AssetOf(f.rsv[id].side)].avail \in Nat
<1>. DEFINE v == f.rsv
            a == Owner[id]
            x == AssetOf(v[id].side)
<1>1. f.bal \in Bals /\ IsRsv(v) /\ a \in Accounts /\ x \in Assets
  BY TypedIs, RsvOf DEF FundsHeld
<1>2. f.bal[a][x].rsvd \in Nat /\ f.bal[a][x].avail \in Nat
  BY <1>1, CellType
<1>3. f.bal[a][x].rsvd = ReservedBy(v, a, x)
  BY <1>1 DEF FundsHeld
<1>4. AgreeOff(v, v, id)
  BY DEF AgreeOff
<1>5. ReservedBy(v, a, x) >= Part(v, a, x, id)
  BY <1>1, <1>4, PartMoves
<1>6. Part(v, a, x, id) = v[id].raw
  BY DEF Part
<1>. QED
  BY <1>2, <1>3, <1>5, <1>6

(* A reservation gets another value. *)
LEMMA RevaluedIs ==
  ASSUME NEW v, IsRsv(v), NEW id \in DOMAIN v, NEW raw \in Nat, NEW u,
         u = [v EXCEPT ![id].raw = raw]
  PROVE  /\ IsRsv(u) /\ Revalued(v, u, id, raw) /\ AgreeOff(v, u, id)
         /\ \A a, x : Part(u, a, x, id) =
              IF Owner[id] = a /\ AssetOf(v[id].side) = x THEN raw ELSE 0
         /\ \A a, x : Part(v, a, x, id) =
              IF Owner[id] = a /\ AssetOf(v[id].side) = x THEN v[id].raw ELSE 0
<1>. DEFINE r == [side |-> v[id].side, limit |-> v[id].limit, raw |-> raw]
<1>1. v[id] \in Reservation
  BY DEF IsRsv
<1>2. [v[id] EXCEPT !.raw = raw] = r
  BY <1>1 DEF Reservation
<1>3. u = [v EXCEPT ![id] = r]
  BY <1>2
<1>4. r \in Reservation /\ r.side = v[id].side /\ r.raw = raw
  BY <1>1 DEF Reservation
<1>. HIDE DEF r
<1>5. DOMAIN u = DOMAIN v /\ u[id] = r /\ \A j \in DOMAIN v : j # id => u[j] = v[j]
  BY <1>3
<1>6. IsRsv(u)
  BY <1>3, <1>4 DEF IsRsv
<1>7. Revalued(v, u, id, raw)
  BY <1>5 DEF Revalued, r
<1>8. AgreeOff(v, u, id)
  BY <1>5 DEF AgreeOff
<1>. QED
  BY <1>4, <1>5, <1>6, <1>7, <1>8 DEF Part

LEMMA ReturnHeld ==
  ASSUME NEW f, FundsHeld(f), NEW id \in DOMAIN f.rsv, NEW raw \in Nat, raw <= f.rsv[id].raw
  PROVE  LET g == Return(f, id, raw)
         IN  /\ FundsHeld(g) /\ SameSupply(f, g, AssetOf(f.rsv[id].side), 0)
             /\ Revalued(f.rsv, g.rsv, id, f.rsv[id].raw - raw)
<1>. DEFINE v == f.rsv
            a == Owner[id]
            x == AssetOf(v[id].side)
            m == Move(f, a, x, raw, -raw)
            g == Return(f, id, raw)
            left == v[id].raw - raw
<1>1. /\ IsRsv(v) /\ id \in Ids /\ a \in Accounts /\ x \in Assets /\ v[id].raw \in Nat
      /\ FundsTyped(f) /\ left \in Nat
  BY TypedIs, RsvOf DEF FundsHeld
<1>2. f.bal[a][x].rsvd >= v[id].raw /\ f.bal[a][x].rsvd \in Nat /\ f.bal[a][x].avail \in Nat
  BY RsvdEnough
<1>3. MinOf(raw, f.bal[a][x].rsvd) = raw
  BY <1>1, <1>2 DEF MinOf
<1>4. LedgerRelease(f, a, x, raw) = m
  BY <1>3 DEF LedgerRelease
<1>5. DOMAIN m = {"bal", "rsv"} /\ m.rsv = v /\ m.bal = Cells(f.bal, a, x, raw, -raw)
  BY <1>1, MoveIs
<1>. HIDE DEF m
<1>6. g = [m EXCEPT !.rsv[id].raw = @ - raw]
  BY <1>4 DEF Return
<1>7. DOMAIN g = {"bal", "rsv"} /\ g.bal = Cells(f.bal, a, x, raw, -raw)
      /\ g.rsv = [v EXCEPT ![id].raw = left]
  BY <1>5, <1>6
<1>. DEFINE u == g.rsv
<1>. HIDE DEF g, left
<1>8. /\ IsRsv(u) /\ Revalued(v, u, id, left) /\ AgreeOff(v, u, id)
      /\ \A c, y : Part(u, c, y, id) = IF Owner[id] = c /\ AssetOf(v[id].side) = y THEN left ELSE 0
      /\ \A c, y : Part(v, c, y, id) = IF Owner[id] = c /\ AssetOf(v[id].side) = y THEN v[id].raw ELSE 0
  <2>1. u = [v EXCEPT ![id].raw = left]
    BY <1>7
  <2>. HIDE DEF u
  <2>. QED
    BY <1>1, <2>1, RevaluedIs
<1>9. /\ Part(u, a, x, id) = Part(v, a, x, id) + (-raw)
      /\ \A y \in Assets : y # x => Part(u, a, y, id) = Part(v, a, y, id)
  BY <1>1, <1>8 DEF left
<1>10. FundsHeld(g) /\ SameSupply(f, g, x, raw + (-raw))
  <2>1. f.bal[a][x].avail + raw >= 0 /\ raw \in Int /\ -raw \in Int
    BY <1>2
  <2>. QED
    BY <1>1, <1>7, <1>8, <1>9, <2>1, ShiftKeeps
<1>. QED
  BY <1>8, <1>10 DEF g, left

LEMMA SupplyStays ==
  ASSUME NEW f, FundsOK(f), NEW g, FundsHeld(g), NEW x, SameSupply(f, g, x, 0), x \in Assets
  PROVE  FundsOK(g)
<1>1. Deposits * Cardinality(Accounts) \in Nat
  <2>1. Deposits \in Nat /\ Cardinality(Accounts) \in Nat
    BY EngineAssumption, FS_CardinalityType
  <2>. QED
    BY <2>1
<1>2. \A y \in Assets : Supply(f.bal, y) = Deposits * Cardinality(Accounts)
  BY DEF FundsOK
<1>3. \A y \in Assets : Supply(g.bal, y) = Deposits * Cardinality(Accounts)
  BY <1>1, <1>2 DEF SameSupply
<1>. QED
  BY <1>3, HeldIsOK

LEMMA ReturnKeeps ==
  ASSUME NEW f, FundsOK(f), NEW id \in DOMAIN f.rsv, NEW raw \in Nat, raw <= f.rsv[id].raw
  PROVE  /\ FundsOK(Return(f, id, raw))
         /\ Revalued(f.rsv, Return(f, id, raw).rsv, id, f.rsv[id].raw - raw)
         /\ IsRsv(Return(f, id, raw).rsv)
<1>. DEFINE g == Return(f, id, raw)
            x == AssetOf(f.rsv[id].side)
<1>1. FundsHeld(f)
  BY HeldIsOK
<1>2. x \in Assets
  BY <1>1, TypedIs, RsvOf DEF FundsHeld
<1>3. FundsHeld(g) /\ SameSupply(f, g, x, 0) /\ Revalued(f.rsv, g.rsv, id, f.rsv[id].raw - raw)
  BY <1>1, ReturnHeld
<1>. HIDE DEF g
<1>4. FundsOK(g)
  BY <1>2, <1>3, SupplyStays
<1>5. IsRsv(g.rsv)
  BY <1>3, TypedIs DEF FundsHeld
<1>. QED
  BY <1>3, <1>4, <1>5 DEF g

LEMMA EraseKeeps ==
  ASSUME NEW f, FundsOK(f), NEW id \in DOMAIN f.rsv, f.rsv[id].raw = 0
  PROVE  /\ FundsOK(Erase(f, id)) /\ Dropped(f.rsv, Erase(f, id).rsv, id)
         /\ IsRsv(Erase(f, id).rsv)
<1>. DEFINE v == f.rsv
            g == Erase(f, id)
            u == g.rsv
<1>1. IsRsv(v) /\ DOMAIN f = {"bal", "rsv"}
  BY TypedIs DEF FundsOK
<1>2. g.bal = f.bal /\ u = [j \in DOMAIN v \ {id} |-> v[j]] /\ DOMAIN g = {"bal", "rsv"}
  BY <1>1 DEF Erase, Restrict
<1>3. Dropped(v, u, id) /\ AgreeOff(v, u, id)
  BY <1>2 DEF Dropped, AgreeOff
<1>4. IsRsv(u)
  BY <1>1, <1>2 DEF IsRsv
<1>. HIDE DEF g
<1>5. ASSUME NEW a, NEW x PROVE ReservedBy(u, a, x) = ReservedBy(v, a, x)
  <2>1. Part(u, a, x, id) = 0 /\ Part(v, a, x, id) = 0
    BY <1>3 DEF Part, Dropped
  <2>2. /\ ReservedBy(u, a, x) = ReservedBy(v, a, x) - Part(v, a, x, id) + Part(u, a, x, id)
        /\ ReservedBy(v, a, x) \in Nat
    BY <1>1, <1>3, <1>4, PartMoves
  <2>. HIDE DEF u, v
  <2>. QED
    BY <2>1, <2>2, SMTT(40)
<1>6. FundsOK(g)
  BY <1>2, <1>4, <1>5, ZenonT(60) DEF FundsOK, FundsTyped
<1>. QED
  BY <1>3, <1>4, <1>6 DEF g

LEMMA DroppedAgain ==
  ASSUME NEW v, NEW u, NEW w, NEW id, NEW raw, Revalued(v, u, id, raw), Dropped(u, w, id)
  PROVE  Dropped(v, w, id)
  BY DEF Revalued, Dropped

LEMMA ReleaseKeeps ==
  ASSUME NEW f, FundsOK(f), NEW id
  PROVE  /\ FundsOK(ReleaseReservation(f, id)) /\ Dropped(f.rsv, ReleaseReservation(f, id).rsv, id)
         /\ IsRsv(ReleaseReservation(f, id).rsv)
<1>. DEFINE v == f.rsv
            g == Return(f, id, v[id].raw)
<1>1. IsRsv(v)
  BY TypedIs DEF FundsOK
<1>2. CASE id \in DOMAIN v
  <2>1. v[id].raw \in Nat /\ v[id].raw <= v[id].raw
    BY <1>1, <1>2, RsvOf
  <2>2. FundsOK(g) /\ Revalued(v, g.rsv, id, v[id].raw - v[id].raw)
    BY <1>2, <2>1, ReturnKeeps
  <2>3. id \in DOMAIN g.rsv /\ g.rsv[id].raw = 0
    BY <1>2, <2>1, <2>2 DEF Revalued
  <2>4. ReleaseReservation(f, id) = Erase(g, id)
    BY <1>2 DEF ReleaseReservation, Reserved
  <2>. HIDE DEF g
  <2>5. FundsOK(Erase(g, id)) /\ Dropped(g.rsv, Erase(g, id).rsv, id) /\ IsRsv(Erase(g, id).rsv)
    BY <2>2, <2>3, EraseKeeps
  <2>. QED
    BY <2>2, <2>4, <2>5, DroppedAgain
<1>3. CASE id \notin DOMAIN v
  <2>1. ReleaseReservation(f, id) = f
    BY <1>3 DEF ReleaseReservation, Reserved
  <2>. QED
    BY <1>1, <1>3, <2>1 DEF Dropped
<1>. QED
  BY <1>2, <1>3

LEMMA ExceptHeldKeeps ==
  ASSUME NEW f, FundsOK(f), NEW id, NEW held \in Nat, NEW g,
         g = ReleaseReservationExceptHeld(f, id, held),
         id \in DOMAIN f.rsv => f.rsv[id].raw >= Backing(f.rsv[id], held)
  PROVE  /\ FundsOK(g) /\ IsRsv(g.rsv)
         /\ held = 0 => Dropped(f.rsv, g.rsv, id)
         /\ held > 0 /\ id \in DOMAIN f.rsv => Revalued(f.rsv, g.rsv, id, Backing(f.rsv[id], held))
         /\ held > 0 /\ id \notin DOMAIN f.rsv => g.rsv = f.rsv
<1>. DEFINE v == f.rsv
            r == v[id]
            y == Backing(r, held)
<1>1. IsRsv(v)
  BY TypedIs DEF FundsOK
<1>2. CASE held = 0
  <2>1. g = ReleaseReservation(f, id)
    BY <1>2 DEF ReleaseReservationExceptHeld
  <2>. QED
    BY <1>2, <2>1, ReleaseKeeps
<1>3. CASE held > 0 /\ id \in DOMAIN v
  <2>1. r \in Reservation /\ r.raw \in Nat
    BY <1>1, <1>3, RsvOf
  <2>2. y \in Nat
    BY <2>1, BackingIs
  <2>3. r.raw >= y
    BY <1>3
  <2>4. g = Return(f, id, r.raw - MinOf(r.raw, y))
    BY <1>3 DEF ReleaseReservationExceptHeld, Reserved
  <2>. HIDE DEF y
  <2>5. MinOf(r.raw, y) = y
    BY <2>1, <2>2, <2>3 DEF MinOf
  <2>6. r.raw - y \in Nat /\ r.raw - y <= r.raw /\ r.raw - (r.raw - y) = y
    BY <2>1, <2>2, <2>3
  <2>. DEFINE k == r.raw - y
  <2>7. k \in Nat /\ k <= r.raw /\ g = Return(f, id, k) /\ r.raw - k = y
    BY <2>4, <2>5, <2>6
  <2>. HIDE DEF k
  <2>8. FundsOK(g) /\ IsRsv(g.rsv) /\ Revalued(v, g.rsv, id, r.raw - k)
    BY <1>3, <2>7, ReturnKeeps
  <2>. QED
    BY <1>3, <2>7, <2>8 DEF y
<1>4. CASE held > 0 /\ id \notin DOMAIN v
  <2>1. g = f
    BY <1>4 DEF ReleaseReservationExceptHeld, Reserved
  <2>. QED
    BY <1>1, <1>4, <2>1
<1>. QED
  BY <1>2, <1>3, <1>4

LEMMA ProKeeps ==
  ASSUME NEW f, FundsOK(f), NEW id \in DOMAIN f.rsv, NEW from \in Nat, NEW to \in Nat, to < from,
         NEW g, g = ReleaseReservationPro(f, id, from, to)
  PROVE  /\ FundsOK(g) /\ IsRsv(g.rsv)
         /\ Revalued(f.rsv, g.rsv, id, f.rsv[id].raw - Share(f.rsv[id].raw, from - to, from))
<1>. DEFINE r == f.rsv[id]
            q == from - to
            k == Share(r.raw, q, from)
<1>1. r.raw \in Nat
  BY TypedIs, RsvOf DEF FundsOK
<1>2. from \in Nat \ {0} /\ q \in Nat /\ q <= from /\ 0 \in Nat
  OBVIOUS
<1>3. k \in Nat /\ k <= r.raw
  <2>1. r.raw >= 0 * from
    BY <1>1
  <2>. HIDE DEF r, q
  <2>2. ShareOK(0, r.raw, from, q)
    BY <1>1, <1>2, <2>1, ShareIs, Zenon
  <2>. QED
    BY <2>2 DEF ShareOK
<1>4. g = Return(f, id, k)
  BY DEF ReleaseReservationPro, Reserved, Share
<1>. HIDE DEF k
<1>5. FundsOK(g) /\ IsRsv(g.rsv) /\ Revalued(f.rsv, g.rsv, id, r.raw - k)
  BY <1>3, <1>4, ReturnKeeps
<1>. QED
  BY <1>5 DEF k

LEMMA HeldLegKeeps ==
  ASSUME NEW f, FundsOK(f), NEW id \in DOMAIN f.rsv, NEW qty \in Nat, NEW resting \in BOOLEAN,
         f.rsv[id].raw >= Backing(f.rsv[id], qty),
         NEW g, g = ReleaseHeldLeg(f, id, qty, resting)
  PROVE  /\ FundsOK(g) /\ IsRsv(g.rsv)
         /\ \E u : /\ IsRsv(u) /\ Revalued(f.rsv, u, id, f.rsv[id].raw - Backing(f.rsv[id], qty))
                   /\ \/ g.rsv = u
                      \/ ~resting /\ u[id].raw = 0 /\ Dropped(u, g.rsv, id)
<1>. DEFINE r == f.rsv[id]
            y == Backing(r, qty)
            m == Return(f, id, y)
<1>1. r \in Reservation /\ r.raw \in Nat
  BY TypedIs, RsvOf DEF FundsOK
<1>2. y \in Nat /\ y <= r.raw
  BY <1>1, BackingIs
<1>3. MinOf(r.raw, y) = y
  BY <1>1, <1>2 DEF MinOf
<1>4. g = IF m.rsv[id].raw <= 0 /\ ~resting THEN Erase(m, id) ELSE m
  BY <1>3 DEF ReleaseHeldLeg, Reserved
<1>. HIDE DEF y
<1>5. FundsOK(m) /\ IsRsv(m.rsv) /\ Revalued(f.rsv, m.rsv, id, r.raw - y)
  BY <1>2, ReturnKeeps
<1>. HIDE DEF m
<1>6. id \in DOMAIN m.rsv /\ m.rsv[id].raw \in Nat
  BY <1>1, <1>2, <1>5 DEF Revalued
<1>7. CASE m.rsv[id].raw <= 0 /\ ~resting
  <2>1. m.rsv[id].raw = 0 /\ g = Erase(m, id)
    BY <1>4, <1>6, <1>7
  <2>2. FundsOK(g) /\ IsRsv(g.rsv) /\ Dropped(m.rsv, g.rsv, id)
    BY <1>5, <1>6, <2>1, EraseKeeps
  <2>. QED
    BY <1>5, <1>7, <2>1, <2>2 DEF y
<1>8. CASE ~(m.rsv[id].raw <= 0 /\ ~resting)
  <2>1. g = m
    BY <1>4, <1>8
  <2>. QED
    BY <1>5, <2>1 DEF y
<1>. QED
  BY <1>7, <1>8

OrderIn(o) ==
  /\ o.id \in Ids /\ o.side \in Sides /\ o.px \in 1..MaxPx /\ o.qty \in Nat \ {0}
  /\ o.mkt \in BOOLEAN

LEMMA ReservationIs ==
  ASSUME NEW o, OrderIn(o), NEW r, r = ReservationFor(o)
  PROVE  /\ r \in Reservation /\ r.side = o.side /\ r.raw = Backing(r, o.qty)
         /\ o.side = "buy" => LimitOf(o) <= r.limit
<1>. DEFINE lim == IF o.mkt /\ o.side = "buy" THEN MaxPx ELSE o.px
            z == [side |-> o.side, limit |-> lim]
            k == Backing(z, o.qty)
<1>1. o.px \in Nat \ {0} /\ MaxPx \in Nat \ {0} /\ o.px <= MaxPx
  BY EngineAssumption DEF OrderIn
<1>2. lim \in Nat \ {0} /\ (o.side = "buy" => LimitOf(o) <= lim)
  BY <1>1 DEF LimitOf, OrderIn
<1>. HIDE DEF lim
<1>3. k \in Nat
  <2>1. z.side = o.side /\ z.limit = lim
    OBVIOUS
  <2>2. lim * o.qty \in Nat /\ o.qty \in Nat
    BY <1>2 DEF OrderIn
  <2>. QED
    BY <2>1, <2>2 DEF Backing
<1>4. r = [side |-> o.side, limit |-> lim, raw |-> k]
  BY DEF ReservationFor, lim
<1>5. r.side = o.side /\ r.limit = lim /\ r.raw = k
  BY <1>4
<1>6. r \in Reservation
  BY <1>2, <1>3, <1>4 DEF Reservation, OrderIn
<1>7. Backing(r, o.qty) = k
  <2>1. z.side = r.side /\ z.limit = r.limit
    BY <1>5
  <2>. QED
    BY <2>1, BackingSame
<1>. QED
  BY <1>2, <1>5, <1>6, <1>7

LEMMA ReserveKeeps ==
  ASSUME NEW f, FundsOK(f), NEW o, OrderIn(o), o.id \notin DOMAIN f.rsv, CanReserve(f, o)
  PROVE  LET g == ReserveFunds(f, o)
         IN  /\ FundsOK(g) /\ IsRsv(g.rsv) /\ Granted(f.rsv, g.rsv, o.id, ReservationFor(o))
             /\ GoodFor(g.rsv, o.id, o.side, LimitOf(o))
<1>. DEFINE v == f.rsv
            id == o.id
            a == Owner[id]
            x == AssetOf(o.side)
            r == ReservationFor(o)
            m == Move(f, a, x, -r.raw, r.raw)
            g == ReserveFunds(f, o)
            u == g.rsv
<1>1. /\ r \in Reservation /\ r.side = o.side /\ r.raw = Backing(r, o.qty)
      /\ o.side = "buy" => LimitOf(o) <= r.limit
  BY ReservationIs
<1>2. r.raw \in Nat /\ -r.raw \in Int
  BY <1>1 DEF Reservation
<1>3. f.bal[a][x].avail >= r.raw
  BY DEF CanReserve
<1>. HIDE DEF r
<1>4. /\ id \in Ids /\ a \in Accounts /\ x \in Assets /\ FundsTyped(f) /\ FundsHeld(f)
      /\ IsRsv(v) /\ f.bal \in Bals
  BY EngineAssumption, TypedIs, HeldIsOK DEF FundsOK, OrderIn, AssetOf, Assets
<1>5. DOMAIN m = {"bal", "rsv"} /\ m.rsv = v /\ m.bal = Cells(f.bal, a, x, -r.raw, r.raw)
  BY <1>2, <1>4, MoveIs
<1>6. g = [m EXCEPT !.rsv = [j \in DOMAIN @ \cup {id} |-> IF j = id THEN r ELSE @[j]]]
  BY DEF ReserveFunds, r
<1>. HIDE DEF m
<1>7. /\ DOMAIN g = {"bal", "rsv"} /\ g.bal = Cells(f.bal, a, x, -r.raw, r.raw)
      /\ u = [j \in DOMAIN v \cup {id} |-> IF j = id THEN r ELSE v[j]]
  BY <1>5, <1>6
<1>. HIDE DEF g
<1>8. Granted(v, u, id, r) /\ AgreeOff(v, u, id)
  BY <1>7 DEF Granted, AgreeOff
<1>9. IsRsv(u)
  BY <1>1, <1>4, <1>7 DEF IsRsv
<1>10. /\ Part(u, a, x, id) = Part(v, a, x, id) + r.raw
       /\ \A y \in Assets : y # x => Part(u, a, y, id) = Part(v, a, y, id)
  <2>1. id \notin DOMAIN v /\ id \in DOMAIN u /\ u[id] = r
    BY <1>7
  <2>2. \A y : Part(v, a, y, id) = 0
    BY <2>1 DEF Part
  <2>3. \A y : Part(u, a, y, id) = IF y = x THEN r.raw ELSE 0
    BY <1>1, <2>1 DEF Part
  <2>. QED
    BY <1>2, <2>2, <2>3
<1>11. f.bal[a][x].avail + (-r.raw) >= 0
  <2>1. f.bal[a][x].avail \in Nat
    BY <1>4, CellType
  <2>. QED
    BY <1>2, <1>3, <2>1
<1>12. FundsHeld(g) /\ SameSupply(f, g, x, -r.raw + r.raw)
  <2>1. r.raw \in Int
    BY <1>2
  <2>. QED
    BY <1>2, <1>4, <1>7, <1>8, <1>9, <1>10, <1>11, <2>1, ShiftKeeps
<1>13. FundsOK(g)
  <2>1. -r.raw + r.raw = 0
    BY <1>2
  <2>. QED
    BY <1>4, <1>12, <2>1, SupplyStays
<1>14. GoodFor(u, id, o.side, LimitOf(o))
  BY <1>1, <1>8 DEF GoodFor, Granted
<1>. QED
  BY <1>8, <1>9, <1>13, <1>14 DEF g, r

(* A leg with a reservation pays out of it and gets the rest of its share   *)
(* back.                                                                    *)
LEMMA PayHeld ==
  ASSUME NEW f, FundsHeld(f), NEW id \in DOMAIN f.rsv, NEW paid \in Nat, NEW reserved \in Nat,
         paid <= reserved, reserved <= f.rsv[id].raw, NEW x, x = AssetOf(f.rsv[id].side)
  PROVE  LET g == Pay(f, id, x, paid, reserved)
         IN  /\ FundsHeld(g) /\ SameSupply(f, g, x, -paid)
             /\ Revalued(f.rsv, g.rsv, id, f.rsv[id].raw - reserved)
<1>. DEFINE v == f.rsv
            a == Owner[id]
            back == reserved - paid
            m == Move(f, a, x, 0, -paid)
            n == IF reserved > paid THEN LedgerRelease(m, a, x, back) ELSE m
            g == Pay(f, id, x, paid, reserved)
            left == v[id].raw - reserved
            bal == f.bal
<1>1. /\ IsRsv(v) /\ id \in Ids /\ a \in Accounts /\ x \in Assets /\ v[id].raw \in Nat
      /\ FundsTyped(f) /\ left \in Nat /\ back \in Nat /\ -paid \in Int /\ -back \in Int
      /\ bal \in Bals /\ 0 \in Int /\ -reserved \in Int
  BY TypedIs, RsvOf, SMTT(40) DEF FundsHeld
<1>2. bal[a][x].rsvd >= v[id].raw /\ bal[a][x].rsvd \in Nat /\ bal[a][x].avail \in Nat
  BY RsvdEnough
<1>3. DOMAIN m = {"bal", "rsv"} /\ m.rsv = v /\ m.bal = Cells(bal, a, x, 0, -paid)
  BY <1>1, MoveIs
<1>. HIDE DEF m
<1>4. DOMAIN n = {"bal", "rsv"} /\ n.rsv = v /\ n.bal = Cells(bal, a, x, back, -reserved)
  <2>1. CASE reserved > paid
    <3>0. /\ Cells(Cells(bal, a, x, 0, -paid), a, x, back, -back) =
               Cells(bal, a, x, 0 + back, -paid + (-back))
          /\ Cells(bal, a, x, 0, -paid)[a][x] =
               [avail |-> bal[a][x].avail + 0, rsvd |-> bal[a][x].rsvd + (-paid)]
      <4>1. bal \in Bals /\ a \in Accounts /\ x \in Assets
        BY <1>1
      <4>2. 0 \in Int /\ -paid \in Int /\ back \in Int /\ -back \in Int
        BY <1>1
      <4>. HIDE DEF bal, back, a
      <4>3. \A p \in Int, q \in Int :
              /\ Cells(Cells(bal, a, x, 0, p), a, x, back, q) = Cells(bal, a, x, 0 + back, p + q)
              /\ Cells(bal, a, x, 0, p)[a][x] =
                   [avail |-> bal[a][x].avail + 0, rsvd |-> bal[a][x].rsvd + p]
        BY <4>1, <4>2, MovedTwice
      <4>. QED
        BY <4>2, <4>3
    <3>1. m.bal[a][x].rsvd = bal[a][x].rsvd + (-paid)
      BY <1>3, <3>0
    <3>2. MinOf(back, m.bal[a][x].rsvd) = back
      BY <1>1, <1>2, <3>1 DEF MinOf
    <3>3. n = Move(m, a, x, back, -back)
      BY <2>1, <3>2 DEF LedgerRelease
    <3>4. FundsTyped(m)
      <4>1. bal[a][x].avail + 0 >= 0 /\ bal[a][x].rsvd + (-paid) >= 0
        BY <1>1, <1>2
      <4>2. Cells(bal, a, x, 0, -paid) \in Bals
        BY <1>1, <4>1, CellsAre
      <4>. QED
        BY <1>1, <1>3, <4>2 DEF FundsTyped, Bals
    <3>5. DOMAIN n = {"bal", "rsv"} /\ n.rsv = m.rsv /\ n.bal = Cells(m.bal, a, x, back, -back)
      <4>1. back \in Int
        BY <1>1
      <4>. QED
        BY <1>1, <3>3, <3>4, <4>1, MoveIs
    <3>6. Cells(m.bal, a, x, back, -back) = Cells(bal, a, x, 0 + back, -paid + (-back))
      BY <1>3, <3>0
    <3>7. 0 + back = back /\ -paid + (-back) = -reserved
      BY <1>1
    <3>. QED
      BY <1>3, <3>5, <3>6, <3>7
  <2>2. CASE ~(reserved > paid)
    <3>1. n = m
      BY <2>2
    <3>2. back = 0 /\ reserved = paid
      BY <2>2
    <3>. QED
      BY <1>3, <3>1, <3>2
  <2>. QED
    BY <2>1, <2>2
<1>5. g = [n EXCEPT !.rsv[id].raw = @ - reserved]
  BY DEF Pay, Reserved, m
<1>. HIDE DEF n
<1>6. DOMAIN g = {"bal", "rsv"} /\ g.bal = Cells(bal, a, x, back, -reserved)
      /\ g.rsv = [v EXCEPT ![id].raw = left]
  BY <1>4, <1>5
<1>. DEFINE u == g.rsv
<1>. HIDE DEF g, left
<1>7. /\ IsRsv(u) /\ Revalued(v, u, id, left) /\ AgreeOff(v, u, id)
      /\ \A c, y : Part(u, c, y, id) = IF Owner[id] = c /\ AssetOf(v[id].side) = y THEN left ELSE 0
      /\ \A c, y : Part(v, c, y, id) = IF Owner[id] = c /\ AssetOf(v[id].side) = y THEN v[id].raw ELSE 0
  <2>1. u = [v EXCEPT ![id].raw = left]
    BY <1>6
  <2>. HIDE DEF u
  <2>. QED
    BY <1>1, <2>1, RevaluedIs
<1>8. /\ Part(u, a, x, id) = Part(v, a, x, id) + (-reserved)
      /\ \A y \in Assets : y # x => Part(u, a, y, id) = Part(v, a, y, id)
  BY <1>1, <1>7 DEF left
<1>9. FundsHeld(g) /\ SameSupply(f, g, x, back + (-reserved))
  <2>1. bal[a][x].avail + back >= 0 /\ back \in Int
    BY <1>1, <1>2
  <2>. QED
    BY <1>1, <1>6, <1>7, <1>8, <2>1, ShiftKeeps
<1>10. back + (-reserved) = -paid
  OBVIOUS
<1>. HIDE DEF back
<1>. QED
  BY <1>7, <1>9, <1>10 DEF g, left

Exchanged(f, g) == \A x \in Assets : Supply(g.bal, x) = Supply(f.bal, x)

LEMMA FourMoves ==
  ASSUME NEW f, NEW p, NEW q, NEW r, NEW z, NEW k \in Int, NEW n \in Int,
         \A x \in Assets : Supply(f.bal, x) \in Int,
         SameSupply(f, p, "quote", -n), SameSupply(p, q, "base", k),
         SameSupply(q, r, "base", -k), SameSupply(r, z, "quote", n)
  PROVE  Exchanged(f, z)
<1>1. "base" # "quote" /\ Assets = {"base", "quote"}
  BY DEF Assets
<1>2. Supply(f.bal, "base") \in Int /\ Supply(f.bal, "quote") \in Int
  BY <1>1
<1>3. /\ Supply(p.bal, "quote") = Supply(f.bal, "quote") + (-n)
      /\ Supply(p.bal, "base") = Supply(f.bal, "base")
      /\ Supply(q.bal, "quote") = Supply(p.bal, "quote")
      /\ Supply(q.bal, "base") = Supply(p.bal, "base") + k
      /\ Supply(r.bal, "quote") = Supply(q.bal, "quote")
      /\ Supply(r.bal, "base") = Supply(q.bal, "base") + (-k)
      /\ Supply(z.bal, "quote") = Supply(r.bal, "quote") + n
      /\ Supply(z.bal, "base") = Supply(r.bal, "base")
  BY <1>1 DEF SameSupply
<1>4. Supply(z.bal, "quote") = Supply(f.bal, "quote") /\ Supply(z.bal, "base") = Supply(f.bal, "base")
  BY <1>2, <1>3
<1>. QED
  BY <1>1, <1>4 DEF Exchanged

(* What a trade leaves of the reservations of its legs. *)
SpentBy(v, w, B, S, k) ==
  \E u : /\ IsRsv(u) /\ Revalued(v, u, B, v[B].raw - Backing(v[B], k))
         /\ Revalued(u, w, S, u[S].raw - Backing(u[S], k))

Payable(v, B, S, px, k) ==
  /\ px \in Nat /\ k \in Nat /\ B # S
  /\ GoodFor(v, B, "buy", px) /\ GoodFor(v, S, "sell", px)
  /\ v[B].raw >= Backing(v[B], k) /\ v[S].raw >= Backing(v[S], k)

LEMMA SettleKeeps ==
  ASSUME NEW f, FundsOK(f), NEW t, Payable(f.rsv, Legs(t).buyer, Legs(t).seller, t.px, t.qty)
  PROVE  LET g == SettleTrade(f, t)
         IN  /\ CanSettle(f, t) /\ FundsOK(g) /\ IsRsv(g.rsv)
             /\ SpentBy(f.rsv, g.rsv, Legs(t).buyer, Legs(t).seller, t.qty)
<1>. DEFINE v == f.rsv
            B == Legs(t).buyer
            S == Legs(t).seller
            k == t.qty
            n == t.px * t.qty
            lim == v[B].limit * k
            p == Pay(f, B, "quote", n, lim)
            q == Move(p, Owner[B], "base", k, 0)
            r == Pay(q, S, "base", k, k)
            z == Move(r, Owner[S], "quote", n, 0)
<1>1. /\ B \in DOMAIN v /\ S \in DOMAIN v /\ B # S /\ v[B].side = "buy" /\ v[S].side = "sell"
      /\ t.px \in Nat /\ k \in Nat /\ t.px <= v[B].limit
      /\ v[B].raw >= lim /\ v[S].raw >= k
  BY DEF Payable, GoodFor, Backing
<1>2. CanSettle(f, t)
  BY <1>1 DEF CanSettle, Reserved
<1>3. SettleTrade(f, t) = z
  BY <1>1, <1>2 DEF SettleTrade, Reserved
<1>. HIDE DEF B, S
<1>4. FundsHeld(f) /\ IsRsv(v)
  BY HeldIsOK, TypedIs DEF FundsHeld
<1>5. /\ Owner[B] \in Accounts /\ Owner[S] \in Accounts /\ v[B].raw \in Nat /\ v[S].raw \in Nat
      /\ v[B].limit \in Nat /\ v[B] \in Reservation /\ v[S] \in Reservation
  BY <1>1, <1>4, RsvOf
<1>6. n \in Nat /\ lim \in Nat /\ n <= lim
  <2>. HIDE DEF v
  <2>1. \A a, b, c \in Nat : a <= b => a * c <= b * c /\ a * c \in Nat /\ b * c \in Nat
    OBVIOUS
  <2>. QED
    BY <1>1, <1>5, <2>1
<1>7. /\ AssetOf(v[B].side) = "quote" /\ AssetOf(v[S].side) = "base"
      /\ "quote" \in Assets /\ "base" \in Assets
      /\ Backing(v[B], k) = lim /\ Backing(v[S], k) = k
  BY <1>1 DEF AssetOf, Assets, Backing
<1>. HIDE DEF n, lim
<1>8. /\ FundsHeld(p) /\ SameSupply(f, p, "quote", -n)
      /\ Revalued(v, p.rsv, B, v[B].raw - lim)
  BY <1>1, <1>4, <1>6, <1>7, PayHeld
<1>. HIDE DEF p
<1>9. FundsHeld(q) /\ SameSupply(p, q, "base", k) /\ q.rsv = p.rsv
  <2>1. q = Move(p, Owner[B], "base", k, 0)
    OBVIOUS
  <2>2. Owner[B] \in Accounts /\ "base" \in Assets /\ k \in Nat
    BY <1>1, <1>5, <1>7
  <2>. HIDE DEF q, k
  <2>. QED
    BY <1>8, <2>1, <2>2, CreditKeeps
<1>. HIDE DEF q
<1>10. S \in DOMAIN q.rsv /\ q.rsv[S] = v[S]
  BY <1>1, <1>8, <1>9 DEF Revalued
<1>11. /\ FundsHeld(r) /\ SameSupply(q, r, "base", -k)
       /\ Revalued(q.rsv, r.rsv, S, q.rsv[S].raw - k)
  <2>1. k <= k /\ k <= q.rsv[S].raw /\ "base" = AssetOf(q.rsv[S].side)
    BY <1>1, <1>5, <1>7, <1>10
  <2>. QED
    BY <1>1, <1>9, <1>10, <2>1, PayHeld
<1>. HIDE DEF r
<1>12. FundsHeld(z) /\ SameSupply(r, z, "quote", n) /\ z.rsv = r.rsv
  <2>1. z = Move(r, Owner[S], "quote", n, 0)
    OBVIOUS
  <2>2. Owner[S] \in Accounts /\ "quote" \in Assets /\ n \in Nat
    BY <1>5, <1>6, <1>7
  <2>. HIDE DEF z
  <2>. QED
    BY <1>11, <2>1, <2>2, CreditKeeps
<1>. HIDE DEF z
<1>13. Exchanged(f, z)
  <2>1. \A x \in Assets : Supply(f.bal, x) \in Int
    <3>1. Deposits \in Nat /\ Cardinality(Accounts) \in Nat
      BY EngineAssumption, FS_CardinalityType
    <3>. QED
      BY <3>1 DEF FundsOK
  <2>2. k \in Int /\ n \in Int
    BY <1>1, <1>6
  <2>. QED
    BY <1>8, <1>9, <1>11, <1>12, <2>1, <2>2, FourMoves
<1>14. FundsOK(z)
  <2>1. \A x \in Assets : Supply(z.bal, x) = Deposits * Cardinality(Accounts)
    BY <1>13 DEF Exchanged, FundsOK
  <2>. QED
    BY <1>12, <2>1, HeldIsOK
<1>15. IsRsv(z.rsv) /\ IsRsv(p.rsv)
  BY <1>8, <1>12, TypedIs DEF FundsHeld
<1>16. SpentBy(v, z.rsv, B, S, k)
  <2>1. Revalued(v, p.rsv, B, v[B].raw - Backing(v[B], k))
    BY <1>7, <1>8
  <2>2. Revalued(p.rsv, z.rsv, S, p.rsv[S].raw - Backing(p.rsv[S], k))
    BY <1>7, <1>9, <1>10, <1>11, <1>12
  <2>. QED
    BY <1>15, <2>1, <2>2 DEF SpentBy
<1>. QED
  BY <1>2, <1>3, <1>14, <1>15, <1>16 DEF B, S

Sound(f, b, H, W, n, S, q, X) == FundsOK(f) /\ Backed(b, H, W, f.rsv, n, S, q, X)

Idles(W, id) == \A w \in W : w.o.id = id => w.left = 0

LEMMA SoundHands ==
  ASSUME NEW f, NEW b, NEW H, NEW W, NEW n, NEW q, NEW X, Sound(f, b, H, W, n, {}, q, X),
         NEW p \in Nat
  PROVE  Sound(f, b, H, W, n, {}, p, X)
  BY HandsFree DEF Sound

LEMMA CleanupSound ==
  ASSUME NEW f, NEW b, NEW H, NEW W, NEW n, NEW q, NEW X, Sound(f, b, H, W, n, {}, q, X),
         NEW g, NEW id, Idles(W, id)
  PROVE  Sound(Cleanup(f, g, b, H, id).funds, b, H, W, n, {}, q, X \ {id})
<1>. DEFINE c == Cleanup(f, g, b, H, id)
<1>1. CASE IsResting(b, id) \/ HoldsOf(H, id) # {}
  <2>1. c.funds = f
    BY <1>1 DEF Cleanup
  <2>2. Present(b, H, W, id)
    BY <1>1 DEF Present
  <2>3. Backed(b, H, W, f.rsv, n, {}, q, X \ {id})
    BY <2>2, Shrink DEF Sound
  <2>. QED
    BY <2>1, <2>3 DEF Sound
<1>2. CASE ~(IsResting(b, id) \/ HoldsOf(H, id) # {})
  <2>. DEFINE z == ReleaseReservation(f, id)
  <2>1. c.funds = z
    BY <1>2 DEF Cleanup
  <2>2. FundsOK(z) /\ Dropped(f.rsv, z.rsv, id) /\ IsRsv(z.rsv)
    BY ReleaseKeeps DEF Sound
  <2>. HIDE DEF z
  <2>3. Backed(b, H, W, z.rsv, n, {} \ {id}, q, X \ {id})
    BY <1>2, <2>2, DropIt DEF Sound, Idles
  <2>4. {} \ {id} = {}
    OBVIOUS
  <2>. QED
    BY <2>1, <2>2, <2>3, <2>4 DEF Sound
<1>. QED
  BY <1>1, <1>2

(* What is in hand is reserved. *)
LEMMA HandBacked ==
  ASSUME NEW b, NEW H, NEW W, NEW v, NEW n, NEW S, NEW q, NEW X, Backed(b, H, W, v, n, S, q, X),
         NEW id \in S, id \in DOMAIN v
  PROVE  v[id].raw >= Backing(v[id], q) /\ q \in Nat
<1>. DEFINE a == Alive(b, H, W, S, q, id)
<1>1. /\ v[id] \in Reservation /\ v[id].raw \in Nat /\ q \in Nat /\ a - q \in Nat /\ a \in Nat
      /\ v[id].raw >= Backing(v[id], a)
  BY CoverIs
<1>2. /\ Backing(v[id], q) \in Nat /\ Backing(v[id], a - q) \in Nat
      /\ Backing(v[id], (a - q) + q) = Backing(v[id], a - q) + Backing(v[id], q)
  BY <1>1, BackingIs
<1>3. (a - q) + q = a
  BY <1>1
<1>. HIDE DEF a
<1>. QED
  BY <1>1, <1>2, <1>3

LEMMA SettleSound ==
  ASSUME NEW f, NEW b, NEW H, NEW W, NEW n, NEW X, NEW t,
         Sound(f, b, H, W, n, {t.maker, t.taker}, t.qty, X),
         t.maker # t.taker, t.side \in Sides, t.px \in Nat,
         GoodFor(f.rsv, t.maker, Opposite(t.side), t.px), GoodFor(f.rsv, t.taker, t.side, t.px)
  PROVE  CanSettle(f, t) /\ Sound(SettleTrade(f, t), b, H, W, n, {}, t.qty, X)
<1>. DEFINE v == f.rsv
            B == Legs(t).buyer
            S == Legs(t).seller
            q == t.qty
            g == SettleTrade(f, t)
            Z == {t.maker, t.taker}
<1>1. /\ B \in Z /\ S \in Z /\ B # S /\ (Z \ {B}) \ {S} = {}
      /\ GoodFor(v, B, "buy", t.px) /\ GoodFor(v, S, "sell", t.px)
  BY DEF Legs, Opposite, Sides
<1>. HIDE DEF B, S, Z
<1>2. Backed(b, H, W, v, n, Z, q, X) /\ FundsOK(f)
  BY DEF Sound, Z
<1>3. B \in DOMAIN v /\ S \in DOMAIN v
  BY <1>1 DEF GoodFor
<1>4. v[B].raw >= Backing(v[B], q) /\ q \in Nat
  BY <1>1, <1>2, <1>3, HandBacked
<1>5. v[S].raw >= Backing(v[S], q)
  BY <1>1, <1>2, <1>3, HandBacked
<1>6. Payable(v, B, S, t.px, q)
  BY <1>1, <1>4, <1>5 DEF Payable
<1>7. CanSettle(f, t) /\ FundsOK(g) /\ IsRsv(g.rsv) /\ SpentBy(v, g.rsv, B, S, q)
  BY <1>2, <1>6, SettleKeeps DEF B, S
<1>. HIDE DEF g
<1>8. PICK u : /\ IsRsv(u) /\ Revalued(v, u, B, v[B].raw - Backing(v[B], q))
               /\ Revalued(u, g.rsv, S, u[S].raw - Backing(u[S], q))
  BY <1>7 DEF SpentBy
<1>. HIDE DEF q, v
<1>9. Backed(b, H, W, u, n, Z \ {B}, q, X)
  BY <1>1, <1>2, <1>3, <1>8, Spend
<1>10. S \in Z \ {B} /\ S \in DOMAIN u
  BY <1>1, <1>3, <1>8 DEF Revalued
<1>. DEFINE Y == Z \ {B}
            w == g.rsv
<1>. HIDE DEF Y, w
<1>11. Backed(b, H, W, w, n, Y \ {S}, q, X)
  <2>1. Backed(b, H, W, u, n, Y, q, X) /\ S \in Y /\ S \in DOMAIN u /\ IsRsv(w)
        /\ Revalued(u, w, S, u[S].raw - Backing(u[S], q))
    BY <1>7, <1>8, <1>9, <1>10 DEF Y, w
  <2>. QED
    BY <2>1, Spend
<1>12. Y \ {S} = {}
  BY <1>1 DEF Y
<1>. QED
  BY <1>7, <1>11, <1>12 DEF Sound, w, q, g

TradeOf(h) ==
  [maker |-> h.maker, taker |-> h.taker, side |-> h.side, px |-> h.px, qty |-> h.qty]

LEMMA HoldIs ==
  ASSUME NEW f, NEW b, NEW H, NEW W, NEW n, NEW S, NEW q, NEW X, Sound(f, b, H, W, n, S, q, X),
         NEW h \in H
  PROVE  HoldOK(h) /\ HoldFunded(h, f.rsv) /\ h.qty \in Nat
  BY DEF Sound, Backed, Funded, HoldsOK, HoldOK

(* acceptHold: the slice trades and what is done is cleaned up. *)
LEMMA AcceptSound ==
  ASSUME NEW f, NEW b, NEW H, NEW W, NEW n, Sound(f, b, H, W, n, {}, 0, {}),
         NEW h \in H, Idles(W, h.maker), Idles(W, h.taker), NEW g, NEW c, NEW t, t = TradeOf(h),
         c = Cleanup(SettleTrade(f, t), g, b, H \ {h}, h.taker)
  PROVE  /\ CanSettle(f, t)
         /\ Sound(Cleanup(c.funds, c.reg, b, H \ {h}, h.maker).funds, b, H \ {h}, W, n, {}, 0, {})
<1>. DEFINE G == H \ {h}
            Z == {h.maker, h.taker}
            z == SettleTrade(f, t)
<1>1. HoldOK(h) /\ HoldFunded(h, f.rsv) /\ h.qty \in Nat
  BY HoldIs
<1>2. Sound(f, b, H, W, n, {}, h.qty, {})
  BY <1>1, SoundHands
<1>3. Sound(f, b, G, W, n, Z, h.qty, {} \cup Z)
  <2>1. G = Without(H, h)
    BY DEF Without
  <2>. HIDE DEF G
  <2>. QED
    BY <1>2, <2>1, TakeHold DEF Sound
<1>4. /\ t.maker = h.maker /\ t.taker = h.taker /\ t.qty = h.qty /\ t.px = h.px /\ t.side = h.side
  BY DEF TradeOf
<1>5. /\ t.maker # t.taker /\ t.side \in Sides /\ t.px \in Nat
      /\ GoodFor(f.rsv, t.maker, Opposite(t.side), t.px) /\ GoodFor(f.rsv, t.taker, t.side, t.px)
  BY <1>1, <1>4 DEF HoldOK, HoldFunded
<1>. DEFINE X == {} \cup Z
            V == {t.maker, t.taker}
<1>6. V = Z
  BY <1>4
<1>7. (X \ {h.taker}) \ {h.maker} = {}
  OBVIOUS
<1>. HIDE DEF G, Z, X, V
<1>8. Sound(f, b, G, W, n, V, t.qty, X)
  BY <1>3, <1>4, <1>6 DEF X
<1>9. CanSettle(f, t) /\ Sound(z, b, G, W, n, {}, t.qty, X)
  BY <1>5, <1>8, SettleSound DEF V
<1>. HIDE DEF z
<1>10. Sound(c.funds, b, G, W, n, {}, t.qty, X \ {h.taker})
  BY <1>9, CleanupSound DEF z, G
<1>. DEFINE d == Cleanup(c.funds, c.reg, b, G, h.maker).funds
<1>11. Sound(d, b, G, W, n, {}, t.qty, (X \ {h.taker}) \ {h.maker})
  BY <1>10, CleanupSound
<1>. HIDE DEF d
<1>12. Sound(d, b, G, W, n, {}, t.qty, {})
  BY <1>7, <1>11
<1>13. Sound(d, b, G, W, n, {}, 0, {})
  BY <1>12, SoundHands
<1>. QED
  BY <1>9, <1>13 DEF d, G

(* The order comes to rest beside what else rests, at a price the others    *)
(* leave alone.                                                             *)
Grown(b, c, I) ==
  /\ \A j : IsResting(c, j) => IsResting(b, j) \/ j \in I
  /\ \A s \in Sides : \A r \in On(b, s) : \E p \in On(c, s) : p.px = r.px
  /\ Size(b) <= Config.capacity => Size(c) <= Config.capacity

LEMMA SoundBook ==
  ASSUME NEW f, NEW b, NEW H, NEW W, NEW n, NEW S, NEW q, NEW X, Sound(f, b, H, W, n, S, q, X)
  PROVE  BookOK(b) /\ HoldsOK(H) /\ OnlyOne(W) /\ IsRsv(f.rsv) /\ q \in Nat /\ FundsOK(f)
         /\ Size(b) \in Nat
  BY SizeType DEF Sound, Backed

LEMMA RestingOrder ==
  ASSUME NEW f, NEW b, NEW H, NEW W, NEW n, NEW S, NEW q, NEW X, Sound(f, b, H, W, n, S, q, X),
         NEW id, IsResting(b, id)
  PROVE  \E s \in Sides : /\ Find(b, id) \in On(b, s) /\ Find(b, id).id = id /\ SideOf(b, id) = s
                          /\ OrderOK(Find(b, id)) /\ GoodFor(f.rsv, id, s, Find(b, id).px)
<1>1. BookOK(b)
  BY SoundBook
<1>2. PICK s \in Sides : \E r \in On(b, s) : r.id = id
  BY RestingIs
<1>3. PICK r \in On(b, s) : r.id = id
  BY <1>2
<1>4. Find(b, r.id) = r /\ OrderOK(r) /\ SideOf(b, r.id) = s
  BY <1>1, OrderIs
<1>5. GoodFor(f.rsv, r.id, s, r.px)
  BY DEF Sound, Backed, Funded, BookFunded
<1>. QED
  BY <1>3, <1>4, <1>5

LEMMA OnItsSide ==
  ASSUME NEW f, NEW b, NEW H, NEW W, NEW n, NEW S, NEW q, NEW X, Sound(f, b, H, W, n, S, q, X),
         NEW id, IsResting(b, id), NEW s \in Sides, NEW px, GoodFor(f.rsv, id, s, px)
  PROVE  /\ Find(b, id) \in On(b, s) /\ Find(b, id).id = id
         /\ OrderOK(Find(b, id)) /\ GoodFor(f.rsv, id, s, Find(b, id).px)
<1>1. PICK z \in Sides : /\ Find(b, id) \in On(b, z) /\ Find(b, id).id = id
                         /\ OrderOK(Find(b, id)) /\ GoodFor(f.rsv, id, z, Find(b, id).px)
  BY RestingOrder
<1>2. z = s
  BY <1>1 DEF GoodFor
<1>. QED
  BY <1>1, <1>2

LEMMA GiveBack ==
  ASSUME NEW f, NEW b, NEW H, NEW W, NEW n, NEW S, NEW q, NEW X, Sound(f, b, H, W, n, S, q, X),
         NEW id \in S, NEW s \in Sides, NEW c, BookOK(c), NEW m, Becomes(b, c, s, id, {m}),
         Total(m) = RestIn(b, id) + q, GoodFor(f.rsv, id, s, m.px)
  PROVE  Sound(f, c, H, W, n, S \ {id}, q, X)
<1>1. Backed(c, H, W, f.rsv, n, S \ {id}, q, X \ {id})
  BY PutBook DEF Sound
<1>2. Backed(c, H, W, f.rsv, n, S \ {id}, q, X)
  BY <1>1, Shrink
<1>. QED
  BY <1>2 DEF Sound

LEMMA CombineBook ==
  ASSUME NEW b, BookOK(b), NEW s \in Sides, NEW r \in On(b, s), NEW m, OrderOK(m),
         m.id = r.id, m.px = r.px
  PROVE  LET c == AddResting(Cancel(b, r.id), s, m)
         IN  BookOK(c) /\ Becomes(b, c, s, r.id, {m}) /\ Size(c) = Size(b)
<1>. DEFINE d == Cancel(b, r.id)
            c == AddResting(d, s, m)
<1>1. BookOK(d) /\ Becomes(b, d, s, r.id, {}) /\ Size(d) = Size(b) - 1
  BY CancelKeeps
<1>. HIDE DEF d
<1>2. ~IsResting(d, m.id)
  BY <1>1, GoneAfter
<1>3. BookOK(c) /\ Becomes(d, c, s, m.id, {m}) /\ Size(c) = Size(d) + 1
  BY <1>1, <1>2, AddKeeps
<1>. HIDE DEF c
<1>4. Becomes(b, c, s, r.id, {m})
  BY <1>1, <1>3, BecomesTwice
<1>5. Size(b) \in Nat /\ Size(d) \in Nat
  BY <1>1, SizeType
<1>. QED
  BY <1>1, <1>3, <1>4, <1>5 DEF c, d

LEMMA BecomesGrown ==
  ASSUME NEW b, BookOK(b), NEW c, BookOK(c), NEW s \in Sides, NEW id, NEW m,
         Becomes(b, c, s, id, {m}),
         \A z \in Sides : \A r \in On(b, z) : r.id = id => z = s /\ r.px = m.px,
         Size(b) <= Config.capacity => Size(c) <= Config.capacity
  PROVE  Grown(b, c, {id})
<1>1. \A j : IsResting(c, j) => IsResting(b, j) \/ j \in {id}
  BY RestAfter
<1>2. ASSUME NEW z \in Sides, NEW r \in On(b, z) PROVE \E p \in On(c, z) : p.px = r.px
  <2>1. CASE r.id # id
    BY <2>1 DEF Becomes
  <2>2. CASE r.id = id
    <3>1. m \in On(c, s)
      BY DEF Becomes
    <3>. QED
      BY <2>2, <3>1
  <2>. QED
    BY <2>1, <2>2
<1>. QED
  BY <1>1, <1>2 DEF Grown

(* An order that rests takes its slice back. *)
LEMMA CombineSound ==
  ASSUME NEW f, NEW b, NEW H, NEW W, NEW n, NEW S, NEW q, NEW X, Sound(f, b, H, W, n, S, q, X),
         NEW id \in S, IsResting(b, id), NEW s \in Sides, NEW px, GoodFor(f.rsv, id, s, px),
         NEW m, OrderOK(m), m.id = id, m.px = Find(b, id).px, Total(m) = Total(Find(b, id)) + q
  PROVE  LET c == AddResting(Cancel(b, id), s, m)
         IN  Sound(f, c, H, W, n, S \ {id}, q, X) /\ Grown(b, c, {id})
<1>. DEFINE r == Find(b, id)
            c == AddResting(Cancel(b, id), s, m)
<1>1. BookOK(b)
  BY SoundBook
<1>2. r \in On(b, s) /\ r.id = id /\ OrderOK(r) /\ GoodFor(f.rsv, id, s, r.px)
  BY OnItsSide
<1>. HIDE DEF r
<1>3. BookOK(c) /\ Becomes(b, c, s, id, {m}) /\ Size(c) = Size(b)
  BY <1>1, <1>2, CombineBook DEF r
<1>. HIDE DEF c
<1>4. RestIn(b, id) = Total(r)
  BY <1>1, <1>2, RestIs
<1>5. Sound(f, c, H, W, n, S \ {id}, q, X)
  BY <1>2, <1>3, <1>4, GiveBack DEF r
<1>6. \A z \in Sides : \A p \in On(b, z) : p.id = id => z = s /\ p.px = m.px
  BY <1>1, <1>2, OneEach DEF r
<1>7. Grown(b, c, {id})
  BY <1>1, <1>3, <1>6, BecomesGrown
<1>. QED
  BY <1>5, <1>7 DEF c

(* One that has left the book comes back, if there is room. *)
LEMMA RebuildSound ==
  ASSUME NEW f, NEW b, NEW H, NEW W, NEW n, NEW S, NEW q, NEW X, Sound(f, b, H, W, n, S, q, X),
         NEW id \in S, ~IsResting(b, id), ~Full(b), NEW s \in Sides, NEW m, OrderOK(m), m.id = id,
         Total(m) = q, GoodFor(f.rsv, id, s, m.px), Config.capacity \in Nat
  PROVE  LET c == AddResting(b, s, m)
         IN  Sound(f, c, H, W, n, S \ {id}, q, X) /\ Grown(b, c, {id})
<1>. DEFINE c == AddResting(b, s, m)
<1>1. BookOK(b) /\ q \in Nat /\ Size(b) \in Nat
  BY SoundBook
<1>2. BookOK(c) /\ Becomes(b, c, s, id, {m}) /\ Size(c) = Size(b) + 1
  BY <1>1, AddKeeps
<1>. HIDE DEF c
<1>3. Total(m) = RestIn(b, id) + q
  BY <1>1 DEF RestIn
<1>4. Sound(f, c, H, W, n, S \ {id}, q, X)
  BY <1>2, <1>3, GiveBack
<1>5. \A z \in Sides : \A p \in On(b, z) : p.id = id => z = s /\ p.px = m.px
  BY RestingIs
<1>6. Size(b) <= Config.capacity => Size(c) <= Config.capacity
  BY <1>1, <1>2 DEF Full
<1>7. Grown(b, c, {id})
  BY <1>1, <1>2, <1>5, <1>6, BecomesGrown
<1>. QED
  BY <1>4, <1>7 DEF c

(* The slice dies. *)
LEMMA RefusedSound ==
  ASSUME NEW f, NEW b, NEW H, NEW W, NEW n, NEW S, NEW q, NEW X, Sound(f, b, H, W, n, S, q, X),
         NEW id \in S, id \in DOMAIN f.rsv,
         NEW g, g = ReleaseHeldLeg(f, id, q, IsResting(b, id))
  PROVE  Sound(g, b, H, W, n, S \ {id}, q, X) /\ AgreeOff(f.rsv, g.rsv, id)
<1>. DEFINE v == f.rsv
            resting == IsResting(b, id)
<1>1. Backed(b, H, W, v, n, S, q, X) /\ FundsOK(f)
  BY DEF Sound
<1>2. v[id].raw >= Backing(v[id], q) /\ q \in Nat
  BY <1>1, HandBacked
<1>3. resting \in BOOLEAN
  BY DEF IsResting
<1>. HIDE DEF resting
<1>4. /\ FundsOK(g) /\ IsRsv(g.rsv)
      /\ \E u : /\ IsRsv(u) /\ Revalued(v, u, id, v[id].raw - Backing(v[id], q))
                /\ \/ g.rsv = u
                   \/ ~resting /\ u[id].raw = 0 /\ Dropped(u, g.rsv, id)
  <2>1. g = ReleaseHeldLeg(f, id, q, resting)
    BY DEF resting
  <2>. QED
    BY <1>1, <1>2, <1>3, <2>1, HeldLegKeeps
<1>5. PICK u : /\ IsRsv(u) /\ Revalued(v, u, id, v[id].raw - Backing(v[id], q))
               /\ \/ g.rsv = u
                  \/ ~resting /\ u[id].raw = 0 /\ Dropped(u, g.rsv, id)
  BY <1>4
<1>. HIDE DEF v
<1>6. Backed(b, H, W, u, n, S \ {id}, q, X) /\ id \in DOMAIN v
  BY <1>1, <1>5, Spend DEF v
<1>7. CASE g.rsv = u
  <2>1. AgreeOff(v, g.rsv, id)
    BY <1>5, <1>7 DEF Revalued, AgreeOff
  <2>. QED
    BY <1>4, <1>6, <1>7, <2>1 DEF Sound, v
<1>8. CASE ~resting /\ u[id].raw = 0 /\ Dropped(u, g.rsv, id)
  <2>1. AgreeOff(v, g.rsv, id)
    BY <1>5, <1>8 DEF Revalued, AgreeOff, Dropped
  <2>2. id \in DOMAIN u
    BY <1>5, <1>6 DEF Revalued
  <2>. DEFINE Y == S \ {id}
              a == Alive(b, H, W, Y, q, id)
  <2>. HIDE DEF Y
  <2>3. /\ u[id] \in Reservation /\ 0 >= Backing(u[id], a) /\ a \in Nat
    BY <1>6, <1>8, <2>2, CoverIs DEF Y
  <2>4. a = 0
    BY <2>3, BackingIs
  <2>5. BookOK(b) /\ HoldsOK(H) /\ OnlyOne(W) /\ q \in Nat
    BY <1>1 DEF Backed
  <2>6. HeldQtyFor(H, id) = 0 /\ FlyIn(W, id) = 0
    <3>1. /\ RestIn(b, id) \in Nat /\ HeldQtyFor(H, id) \in Nat
          /\ FlyIn(W, id) \in Nat /\ InHand(Y, q, id) \in Nat
      BY <2>5, AliveType
    <3>. QED
      BY <2>4, <3>1 DEF Alive
  <2>7. HoldsOf(H, id) = {}
    BY <2>5, <2>6, HeldSome
  <2>8. \A w \in W : w.o.id = id => w.left = 0
    BY <2>5, <2>6, FlyType
  <2>9. Backed(b, H, W, g.rsv, n, Y \ {id}, q, X \ {id})
    BY <1>4, <1>6, <1>8, <2>7, <2>8, DropIt DEF resting, Y
  <2>10. Y \ {id} = Y
    BY DEF Y
  <2>11. Backed(b, H, W, g.rsv, n, Y, q, X)
    <3>1. Backed(b, H, W, g.rsv, n, Y, q, X \ {id})
      BY <2>9, <2>10
    <3>. QED
      BY <3>1, Shrink
  <2>. QED
    BY <1>4, <2>1, <2>11 DEF Sound, v, Y
<1>. QED
  BY <1>5, <1>7, <1>8

LEMMA GrownSame ==
  ASSUME NEW b, NEW I
  PROVE  Grown(b, b, I)
  BY DEF Grown

LEMMA GrownTwice ==
  ASSUME NEW b, NEW c, NEW d, NEW I, NEW J, Grown(b, c, I), Grown(c, d, J)
  PROVE  Grown(b, d, I \cup J)
<1>1. \A j : IsResting(d, j) => IsResting(b, j) \/ j \in I \cup J
  BY DEF Grown
<1>2. ASSUME NEW s \in Sides, NEW r \in On(b, s) PROVE \E p \in On(d, s) : p.px = r.px
  <2>1. PICK x \in On(c, s) : x.px = r.px
    BY DEF Grown
  <2>2. PICK p \in On(d, s) : p.px = x.px
    BY DEF Grown
  <2>. QED
    BY <2>1, <2>2
<1>3. Size(b) <= Config.capacity => Size(d) <= Config.capacity
  BY DEF Grown
<1>. QED
  BY <1>1, <1>2, <1>3 DEF Grown

(* What a restore does to the book, the funds and the reservations. *)
Restored(s, z, H, W, n, S, q, X, id) ==
  /\ Sound(z.funds, z.book, H, W, n, S \ {id}, q, X)
  /\ AgreeOff(s.funds.rsv, z.funds.rsv, id)
  /\ Grown(s.book, z.book, {id})

LEMMA RefusedIs ==
  ASSUME NEW s, NEW H, NEW W, NEW n, NEW S, NEW q, NEW X, Sound(s.funds, s.book, H, W, n, S, q, X),
         NEW id \in S, id \in DOMAIN s.funds.rsv
  PROVE  Restored(s, Refused(s, id, q), H, W, n, S, q, X, id)
<1>. DEFINE f == s.funds
            b == s.book
            z == Refused(s, id, q)
            g == ReleaseHeldLeg(f, id, q, IsResting(b, id))
<1>1. z.funds = g /\ z.book = b
  BY DEF Refused, Desk
<1>. HIDE DEF z
<1>2. Sound(g, b, H, W, n, S \ {id}, q, X) /\ AgreeOff(f.rsv, g.rsv, id)
  <2>1. g = ReleaseHeldLeg(f, id, q, IsResting(b, id))
    OBVIOUS
  <2>. HIDE DEF g, f, b
  <2>. QED
    BY <2>1, RefusedSound DEF f, b
<1>. HIDE DEF g
<1>. QED
  BY <1>1, <1>2, GrownSame DEF Restored, z

LEMMA PlainIs ==
  ASSUME NEW id \in Ids, NEW px \in 1..MaxPx, NEW leaves \in Nat \ {0}, NEW cum, NEW ll
  PROVE  LET m == Plain(id, px, leaves, cum, ll)
         IN  OrderOK(m) /\ m.id = id /\ m.px = px /\ Total(m) = leaves
<1>. DEFINE m == Plain(id, px, leaves, cum, ll)
<1>1. /\ DOMAIN m = {"id", "px", "leaves", "hidden", "peak", "ll", "post", "cum"}
      /\ m.id = id /\ m.px = px /\ m.leaves = leaves /\ m.hidden = 0 /\ m.peak = 0
  BY DEF Plain
<1>. HIDE DEF m
<1>2. OrderOK(m) /\ Total(m) = leaves
  BY <1>1 DEF OrderOK, Total
<1>. QED
  BY <1>1, <1>2 DEF m

HasMore(x, r, q) ==
  /\ DOMAIN x = {"id", "px", "leaves", "hidden", "peak", "ll", "post", "cum"}
  /\ x.id = r.id /\ x.px = r.px /\ x.leaves = r.leaves + q /\ x.hidden = r.hidden
  /\ x.peak = r.peak

LEMMA HasMoreIs ==
  ASSUME NEW r, OrderOK(r), NEW q \in Nat, NEW m, HasMore(m, r, q)
  PROVE  OrderOK(m) /\ m.id = r.id /\ m.px = r.px /\ Total(m) = Total(r) + q
  BY DEF OrderOK, Total, HasMore

LEMMA MoreLeaves ==
  ASSUME NEW r, OrderOK(r), NEW q \in Nat, NEW m,
         m = [r EXCEPT !.leaves = @ + q] \/ \E k : m = [r EXCEPT !.leaves = @ + q, !.cum = k]
  PROVE  OrderOK(m) /\ m.id = r.id /\ m.px = r.px /\ Total(m) = Total(r) + q
<1>1. HasMore([r EXCEPT !.leaves = @ + q], r, q)
  BY DEF OrderOK, HasMore
<1>2. \A k : HasMore([r EXCEPT !.leaves = @ + q, !.cum = k], r, q)
  BY DEF OrderOK, HasMore
<1>3. HasMore(m, r, q)
  BY <1>1, <1>2
<1>. QED
  BY <1>3, HasMoreIs, Zenon

LEMMA MakerRestored ==
  ASSUME NEW s, NEW H, NEW W, NEW n, NEW S, NEW h, NEW X,
         Sound(s.funds, s.book, H, W, n, S, h.qty, X),
         h.maker \in S, HoldOK(h), GoodFor(s.funds.rsv, h.maker, Opposite(h.side), h.px),
         Config.capacity \in Nat
  PROVE  Restored(s, RestoreMaker(s, h), H, W, n, S, h.qty, X, h.maker)
<1>. DEFINE f == s.funds
            b == s.book
            id == h.maker
            q == h.qty
            side == Opposite(h.side)
            z == RestoreMaker(s, h)
            r == Find(b, id)
<1>1. side \in Sides /\ q \in Nat \ {0} /\ id \in Ids /\ h.px \in 1..MaxPx
  BY DEF HoldOK, Opposite, Sides
<1>2. id \in DOMAIN f.rsv
  BY DEF GoodFor
<1>3. AgreeOff(f.rsv, f.rsv, id)
  BY DEF AgreeOff
<1>4. CASE IsResting(b, id)
  <2>. DEFINE m == [r EXCEPT !.leaves = @ + q, !.cum = @ - q]
              c == AddResting(Cancel(b, id), side, m)
  <2>1. OrderOK(r) /\ r.id = id
    BY <1>1, <1>4, OnItsSide
  <2>2. z.book = AddResting(Cancel(b, m.id), side, m) /\ z.funds = f
    BY <1>4 DEF RestoreMaker, Combine, Desk
  <2>. HIDE DEF r
  <2>3. OrderOK(m) /\ m.id = r.id /\ m.px = r.px /\ Total(m) = Total(r) + q
    BY <1>1, <2>1, MoreLeaves
  <2>. HIDE DEF m
  <2>4. z.book = c
    BY <2>1, <2>2, <2>3
  <2>. HIDE DEF z, side, q, id
  <2>5. Sound(f, c, H, W, n, S \ {id}, q, X) /\ Grown(b, c, {id})
    <3>1. /\ Sound(f, b, H, W, n, S, q, X) /\ id \in S /\ GoodFor(f.rsv, id, side, h.px)
      BY DEF q, id, side
    <3>. HIDE DEF f, b
    <3>. QED
      BY <1>1, <1>4, <2>1, <2>3, <3>1, CombineSound DEF r
  <2>. QED
    BY <1>3, <2>2, <2>4, <2>5 DEF Restored, z, id, q
<1>5. CASE ~IsResting(b, id) /\ Full(b)
  <2>1. z = Refused(s, id, q)
    BY <1>5 DEF RestoreMaker
  <2>. HIDE DEF z
  <2>. QED
    BY <1>2, <2>1, RefusedIs DEF z
<1>6. CASE ~IsResting(b, id) /\ ~Full(b)
  <2>. DEFINE m == Plain(id, h.px, q, h.makerCum, TRUE)
              c == AddResting(b, side, m)
  <2>1. z.book = c /\ z.funds = f
    BY <1>6 DEF RestoreMaker, Rebuild, Desk
  <2>2. OrderOK(m) /\ m.id = id /\ m.px = h.px /\ Total(m) = q
    <3>. DEFINE ll == TRUE
                d == Plain(id, h.px, q, h.makerCum, ll)
    <3>. HIDE DEF ll
    <3>1. OrderOK(d) /\ d.id = id /\ d.px = h.px /\ Total(d) = q
      BY <1>1, PlainIs
    <3>. QED
      BY <3>1 DEF ll
  <2>. HIDE DEF m, z, side, q, id
  <2>3. Sound(f, c, H, W, n, S \ {id}, q, X) /\ Grown(b, c, {id})
    <3>1. /\ Sound(f, b, H, W, n, S, q, X) /\ id \in S /\ GoodFor(f.rsv, id, side, m.px)
      BY <2>2 DEF q, id, side
    <3>. HIDE DEF f, b
    <3>. QED
      BY <1>1, <1>6, <2>2, <3>1, RebuildSound
  <2>. QED
    BY <1>3, <2>1, <2>3 DEF Restored, z, id, q
<1>. QED
  BY <1>4, <1>5, <1>6

LEMMA TakerRestored ==
  ASSUME NEW s, NEW H, NEW W, NEW n, NEW S, NEW h, NEW X,
         Sound(s.funds, s.book, H, W, n, S, h.qty, X),
         h.taker \in S, HoldOK(h), GoodFor(s.funds.rsv, h.taker, h.side, h.px),
         ~h.mkt => GoodFor(s.funds.rsv, h.taker, h.side, h.takerPx),
         Config.capacity \in Nat
  PROVE  Restored(s, RestoreTaker(s, h), H, W, n, S, h.qty, X, h.taker)
<1>. DEFINE f == s.funds
            b == s.book
            id == h.taker
            q == h.qty
            side == h.side
            z == RestoreTaker(s, h)
            r == Find(b, id)
            rests == ~h.mkt /\ h.tif \in {"GTC", "GTD"}
<1>1. side \in Sides /\ q \in Nat \ {0} /\ id \in Ids /\ h.takerPx \in 1..MaxPx
  BY DEF HoldOK
<1>2. id \in DOMAIN f.rsv
  BY DEF GoodFor
<1>3. AgreeOff(f.rsv, f.rsv, id)
  BY DEF AgreeOff
<1>4. CASE rests /\ IsResting(b, id)
  <2>. DEFINE m == [r EXCEPT !.leaves = @ + q]
              c == AddResting(Cancel(b, id), side, m)
  <2>1. OrderOK(r) /\ r.id = id
    BY <1>1, <1>4, OnItsSide
  <2>2. z.book = AddResting(Cancel(b, m.id), side, m) /\ z.funds = f
    BY <1>4 DEF RestoreTaker, Combine, Desk
  <2>. HIDE DEF r
  <2>3. OrderOK(m) /\ m.id = r.id /\ m.px = r.px /\ Total(m) = Total(r) + q
    BY <1>1, <2>1, MoreLeaves
  <2>. HIDE DEF m
  <2>4. z.book = c
    BY <2>1, <2>2, <2>3
  <2>. HIDE DEF z, side, q, id
  <2>5. Sound(f, c, H, W, n, S \ {id}, q, X) /\ Grown(b, c, {id})
    <3>1. /\ Sound(f, b, H, W, n, S, q, X) /\ id \in S /\ GoodFor(f.rsv, id, side, h.px)
      BY DEF q, id, side
    <3>. HIDE DEF f, b
    <3>. QED
      BY <1>1, <1>4, <2>1, <2>3, <3>1, CombineSound DEF r
  <2>. QED
    BY <1>3, <2>2, <2>4, <2>5 DEF Restored, z, id, q
<1>5. CASE rests /\ ~IsResting(b, id) /\ ~Full(b)
  <2>. DEFINE m == Plain(id, h.takerPx, q, h.takerCum, FALSE)
              c == AddResting(b, side, m)
  <2>1. z.book = c /\ z.funds = f
    BY <1>5 DEF RestoreTaker, Rebuild, Desk
  <2>2. OrderOK(m) /\ m.id = id /\ m.px = h.takerPx /\ Total(m) = q
    <3>. DEFINE ll == FALSE
                d == Plain(id, h.takerPx, q, h.takerCum, ll)
    <3>. HIDE DEF ll
    <3>1. OrderOK(d) /\ d.id = id /\ d.px = h.takerPx /\ Total(d) = q
      BY <1>1, PlainIs
    <3>. QED
      BY <3>1 DEF ll
  <2>. HIDE DEF m, z
  <2>3. Sound(f, c, H, W, n, S \ {id}, q, X) /\ Grown(b, c, {id})
    <3>1. /\ Sound(f, b, H, W, n, S, q, X) /\ id \in S /\ GoodFor(f.rsv, id, side, m.px)
      BY <1>5, <2>2
    <3>. HIDE DEF f, b, q, id, side
    <3>. QED
      BY <1>1, <1>5, <2>2, <3>1, RebuildSound
  <2>. QED
    BY <1>3, <2>1, <2>3 DEF Restored, z
<1>6. CASE ~(rests /\ IsResting(b, id)) /\ ~(rests /\ ~IsResting(b, id) /\ ~Full(b))
  <2>1. z = Refused(s, id, q)
    BY <1>6 DEF RestoreTaker
  <2>. HIDE DEF z
  <2>. QED
    BY <1>2, <2>1, RefusedIs DEF z
<1>. QED
  BY <1>4, <1>5, <1>6

LEMMA GoodStays ==
  ASSUME NEW v, NEW u, NEW id, AgreeOff(v, u, id), NEW j, j # id, NEW s, NEW px, GoodFor(v, j, s, px)
  PROVE  GoodFor(u, j, s, px)
  BY DEF AgreeOff, GoodFor

(* rejectHold: both legs get their slice back, or lose it. *)
LEMMA RejectSound ==
  ASSUME NEW s, NEW H, NEW W, NEW n, Sound(s.funds, s.book, H, W, n, {}, 0, {}),
         NEW h \in H, Idles(W, h.maker), Idles(W, h.taker), Config.capacity \in Nat,
         NEW z, z = RestoreTaker(RestoreMaker(s, h), h),
         NEW c, c = Cleanup(z.funds, z.reg, z.book, H \ {h}, h.taker)
  PROVE  /\ Sound(Cleanup(c.funds, c.reg, z.book, H \ {h}, h.maker).funds, z.book, H \ {h}, W, n,
                  {}, 0, {})
         /\ Grown(s.book, z.book, {h.maker, h.taker})
<1>. DEFINE G == H \ {h}
            Z == {h.maker, h.taker}
            q == h.qty
            y == RestoreMaker(s, h)
            v == s.funds.rsv
            X == {} \cup Z
<1>1. HoldOK(h) /\ HoldFunded(h, v) /\ q \in Nat
  BY HoldIs
<1>2. /\ GoodFor(v, h.maker, Opposite(h.side), h.px) /\ GoodFor(v, h.taker, h.side, h.px)
      /\ ~h.mkt => GoodFor(v, h.taker, h.side, h.takerPx)
      /\ h.maker # h.taker
  BY <1>1 DEF HoldFunded, HoldOK
<1>3. Sound(s.funds, s.book, H, W, n, {}, q, {})
  BY <1>1, SoundHands
<1>4. /\ h.maker \in Z /\ h.taker \in Z \ {h.maker} /\ (Z \ {h.maker}) \ {h.taker} = {}
      /\ (X \ {h.taker}) \ {h.maker} = {} /\ {h.maker} \cup {h.taker} = Z
  BY <1>2
<1>5. Sound(s.funds, s.book, G, W, n, Z, q, X)
  <2>1. G = Without(H, h)
    BY DEF Without
  <2>. HIDE DEF G
  <2>. QED
    BY <1>3, <2>1, TakeHold DEF Sound
<1>. HIDE DEF G, Z, X, q
<1>6. Restored(s, y, G, W, n, Z, q, X, h.maker)
  BY <1>1, <1>2, <1>4, <1>5, MakerRestored DEF q
<1>. HIDE DEF y
<1>. DEFINE Y == Z \ {h.maker}
<1>7. Sound(y.funds, y.book, G, W, n, Y, q, X) /\ AgreeOff(v, y.funds.rsv, h.maker)
      /\ Grown(s.book, y.book, {h.maker})
  BY <1>6 DEF Restored
<1>8. /\ GoodFor(y.funds.rsv, h.taker, h.side, h.px)
      /\ ~h.mkt => GoodFor(y.funds.rsv, h.taker, h.side, h.takerPx)
  BY <1>2, <1>7, GoodStays
<1>9. h.taker \in Y /\ Y \ {h.taker} = {}
  BY <1>4
<1>. HIDE DEF Y
<1>10. Restored(y, z, G, W, n, Y, q, X, h.taker)
  BY <1>1, <1>7, <1>8, <1>9, TakerRestored DEF q, y
<1>11. Sound(z.funds, z.book, G, W, n, {}, q, X) /\ Grown(y.book, z.book, {h.taker})
  BY <1>9, <1>10 DEF Restored
<1>12. Grown(s.book, z.book, Z)
  <2>1. Grown(s.book, z.book, {h.maker} \cup {h.taker})
    BY <1>7, <1>11, GrownTwice
  <2>. QED
    BY <1>4, <2>1
<1>13. Sound(c.funds, z.book, G, W, n, {}, q, X \ {h.taker})
  BY <1>11, CleanupSound DEF G
<1>. DEFINE d == Cleanup(c.funds, c.reg, z.book, G, h.maker).funds
<1>14. Sound(d, z.book, G, W, n, {}, q, (X \ {h.taker}) \ {h.maker})
  BY <1>13, CleanupSound
<1>. HIDE DEF d
<1>15. Sound(d, z.book, G, W, n, {}, 0, {})
  <2>1. Sound(d, z.book, G, W, n, {}, q, {})
    BY <1>4, <1>14
  <2>. QED
    BY <2>1, SoundHands
<1>. QED
  BY <1>12, <1>15 DEF d, G, Z

Shed(b, c, id) ==
  /\ \A j : IsResting(c, j) <=> IsResting(b, j) /\ j # id
  /\ Size(c) = Size(b) - 1

(* An order with no slice on hold leaves the book and its reservation is    *)
(* released.                                                                *)
LEMMA PullSound ==
  ASSUME NEW f, NEW b, NEW H, NEW W, NEW n, Sound(f, b, H, W, n, {}, 0, {}),
         NEW id, IsResting(b, id), HoldsOf(H, id) = {}, Idles(W, id)
  PROVE  LET g == ReleaseReservation(f, id)
         IN  /\ Sound(g, Cancel(b, id), H, W, n, {}, 0, {}) /\ Shed(b, Cancel(b, id), id)
             /\ id \notin DOMAIN g.rsv
<1>. DEFINE c == Cancel(b, id)
            r == Find(b, id)
            q == Total(r)
            v == f.rsv
            g == ReleaseReservation(f, id)
<1>1. BookOK(b) /\ FundsOK(f)
  BY SoundBook
<1>2. PICK s \in Sides : r \in On(b, s) /\ r.id = id /\ OrderOK(r)
  BY RestingOrder
<1>. HIDE DEF r
<1>3. BookOK(c) /\ Becomes(b, c, s, id, {}) /\ Size(c) = Size(b) - 1
  BY <1>1, <1>2, CancelKeeps
<1>. HIDE DEF c
<1>4. q \in Nat \ {0} /\ q <= q /\ Total(r) - q = 0
  BY <1>1, <1>2, RestIs
<1>5. Sized(b, c, s, r, Total(r) - q)
  BY <1>2, <1>3, <1>4 DEF Sized
<1>6. Sound(f, b, H, W, n, {}, q, {})
  BY <1>4, SoundHands
<1>. HIDE DEF q
<1>7. Backed(c, H, W, v, n, {} \cup {id}, q, {} \cup {id})
  <2>1. Backed(b, H, W, v, n, {}, q, {}) /\ r.id \notin {} /\ q <= Total(r)
    BY <1>6, <1>4 DEF Sound, q
  <2>. QED
    BY <1>2, <1>5, <2>1, TakeBook
<1>8. FundsOK(g) /\ Dropped(v, g.rsv, id) /\ IsRsv(g.rsv)
  BY <1>1, ReleaseKeeps
<1>. HIDE DEF g
<1>. DEFINE S == {} \cup {id}
<1>9. S \ {id} = {}
  OBVIOUS
<1>10. ~IsResting(c, id)
  BY <1>3, GoneAfter
<1>11. \A w \in W : w.o.id = id => w.left = 0
  BY DEF Idles
<1>. HIDE DEF S, v
<1>12. Backed(c, H, W, g.rsv, n, S \ {id}, q, S \ {id})
  <2>1. Backed(c, H, W, v, n, S, q, S)
    BY <1>7 DEF S
  <2>. QED
    BY <1>8, <1>10, <1>11, <2>1, DropIt
<1>13. Sound(g, c, H, W, n, {}, q, {})
  BY <1>8, <1>9, <1>12 DEF Sound
<1>14. Sound(g, c, H, W, n, {}, 0, {})
  BY <1>13, SoundHands
<1>15. Shed(b, c, id)
  <2>1. \A j : j # id => (IsResting(c, j) <=> IsResting(b, j))
    BY <1>1, <1>3, RestAfter
  <2>. QED
    BY <1>3, <1>10, <2>1 DEF Shed
<1>16. id \notin DOMAIN g.rsv
  BY <1>8 DEF Dropped
<1>. QED
  BY <1>14, <1>15, <1>16 DEF c, g

LEMMA Renet ==
  ASSUME NEW f, NEW b, NEW H, NEW W, NEW n, NEW S, NEW q, NEW X, Sound(f, b, H, W, n, S, q, X),
         NEW m \in [Ids -> Nat], \A id \in DOMAIN f.rsv : m[id] >= n[id]
  PROVE  Sound(f, b, H, W, m, S, q, X)
<1>1. IsRsv(f.rsv) /\ n \in [Ids -> Nat]
  BY DEF Sound, Backed
<1>2. \A id \in DOMAIN f.rsv : m[id] \in Nat /\ n[id] \in Nat /\ (m[id] = 0 => n[id] = 0)
  BY <1>1 DEF IsRsv
<1>3. Covered(b, H, W, f.rsv, m, S, q)
  BY <1>2 DEF Sound, Backed, Covered, Cover
<1>. QED
  BY <1>3 DEF Sound, Backed

(* A new order, or an amended one, has its reservation before it sweeps. *)
LEMMA EnterSound ==
  ASSUME NEW f, NEW b, NEW H, NEW n, Sound(f, b, H, {}, n, {}, 0, {}),
         NEW o, OrderIn(o), o.vis \in Nat, ~IsResting(b, o.id), HoldsOf(H, o.id) = {},
         o.id \notin DOMAIN f.rsv, CanReserve(f, o),
         NEW w, SweepOK(w), w.o = o, w.left = o.qty
  PROVE  Sound(ReserveFunds(f, o), b, H, {w}, n, {}, 0, {})
<1>. DEFINE g == ReserveFunds(f, o)
            q == o.qty
            r == ReservationFor(o)
            v == f.rsv
            id == o.id
<1>1. q \in Nat /\ q > 0 /\ id \in Ids
  BY DEF OrderIn
<1>2. r \in Reservation /\ r.raw = Backing(r, q)
  BY ReservationIs
<1>3. /\ FundsOK(g) /\ IsRsv(g.rsv) /\ Granted(v, g.rsv, id, r)
      /\ GoodFor(g.rsv, id, o.side, LimitOf(o))
  BY ReserveKeeps DEF Sound
<1>. HIDE DEF g, r, q
<1>4. Backed(b, H, {}, v, n, {}, q, {})
  BY <1>1, SoundHands DEF Sound
<1>. HIDE DEF v, id
<1>5. Backed(b, H, {}, g.rsv, n, {id}, q, {} \cup {id})
  <2>1. id \notin DOMAIN v /\ ~IsResting(b, id) /\ HoldsOf(H, id) = {}
    BY DEF v, id
  <2>. QED
    BY <1>1, <1>2, <1>3, <1>4, <2>1, ReserveIt
<1>. DEFINE X == {} \cup {id}
            S == {w.o.id}
<1>6. S = {id} /\ X \ {w.o.id} = {}
  BY DEF id
<1>. HIDE DEF X, S
<1>7. Backed(b, H, {w}, g.rsv, n, {}, q, X \ {w.o.id})
  <2>1. Backed(b, H, {}, g.rsv, n, S, q, X)
    BY <1>5, <1>6 DEF X
  <2>2. GoodFor(g.rsv, w.o.id, w.o.side, LimitOf(w.o)) /\ w.left = q
    BY <1>3 DEF id, q
  <2>. QED
    BY <1>1, <2>1, <2>2, PutSweep DEF S
<1>8. Sound(g, b, H, {w}, n, {}, q, {})
  BY <1>3, <1>6, <1>7 DEF Sound
<1>9. Sound(g, b, H, {w}, n, {}, 0, {})
  BY <1>8, SoundHands
<1>. QED
  BY <1>9 DEF g

(* An order shrinks in its place and gives back its share. *)
LEMMA ReduceSound ==
  ASSUME NEW f, NEW b, NEW H, NEW W, NEW n, Sound(f, b, H, W, n, {}, 0, {}),
         NEW s \in Sides, NEW r \in On(b, s), HoldsOf(H, r.id) = {}, \A w \in W : w.o.id # r.id,
         NEW t \in 1..Total(r), NEW c, Sized(b, c, s, r, t)
  PROVE  Sound(ReleaseReservationPro(f, r.id, Total(r), t), c, H, W, n, {}, 0, {})
<1>. DEFINE id == r.id
            from == Total(r)
            q == from - t
            v == f.rsv
            g == ReleaseReservationPro(f, id, from, t)
            S == {} \cup {id}
<1>1. BookOK(b) /\ FundsOK(f) /\ HoldsOK(H) /\ OnlyOne(W)
  BY SoundBook
<1>2. from \in Nat \ {0} /\ q \in Nat /\ from - q = t /\ q <= from /\ t \in Nat /\ q + t = from /\ t # 0
  BY <1>1, RestIs
<1>3. GoodFor(v, id, s, r.px)
  BY DEF Sound, Backed, Funded, BookFunded
<1>4. id \in DOMAIN v
  BY <1>3 DEF GoodFor
<1>. HIDE DEF from, q
<1>5. Backed(b, H, W, v, n, {}, q, {})
  BY <1>2, SoundHands DEF Sound
<1>6. Backed(c, H, W, v, n, S, q, S)
  <2>1. r.id \notin {} /\ q <= Total(r) /\ Sized(b, c, s, r, Total(r) - q)
    BY <1>2 DEF from
  <2>2. Backed(c, H, W, v, n, {} \cup {r.id}, q, {} \cup {r.id})
    BY <1>5, <2>1, TakeBook
  <2>. QED
    BY <2>2
<1>7. /\ IsResting(c, id) /\ RestIn(c, id) = t /\ BookOK(c)
  <2>1. PICK m : OrderOK(m) /\ m.id = r.id /\ Total(m) = t /\ Becomes(b, c, s, r.id, {m})
    BY <1>2 DEF Sized
  <2>2. BookOK(c)
    BY DEF Sized
  <2>. QED
    BY <1>1, <2>1, <2>2, RestAfter
<1>8. HeldQtyFor(H, id) = 0 /\ FlyIn(W, id) = 0
  <2>1. ~Flies(W, id)
    BY DEF Flies
  <2>. QED
    BY <1>1, <2>1, HeldNone, FlyType
<1>9. Alive(c, H, W, S, q, id) = from
  BY <1>2, <1>7, <1>8 DEF Alive, InHand
<1>10. id \in S /\ S \ {id} = {} /\ S \subseteq Ids
  BY <1>6 DEF Backed
<1>. HIDE DEF S, v
<1>11. ASSUME NEW u, Backed(c, H, W, u, n, {}, q, S)
       PROVE  Backed(c, H, W, u, n, {}, 0, {})
  <2>1. Present(c, H, W, id)
    BY <1>7 DEF Present
  <2>2. Backed(c, H, W, u, n, {}, q, {})
    BY <1>11, <2>1, Shrink DEF S
  <2>. QED
    BY <2>2, HandsFree
<1>12. CASE q # 0
  <2>1. t < from /\ from - t = q
    BY <1>2, <1>12
  <2>2. /\ FundsOK(g) /\ IsRsv(g.rsv)
        /\ Revalued(v, g.rsv, id, v[id].raw - Share(v[id].raw, from - t, from))
    BY <1>1, <1>2, <1>4, <2>1, ProKeeps DEF v
  <2>. HIDE DEF g, id
  <2>3. Revalued(v, g.rsv, id, v[id].raw - Share(v[id].raw, q, from))
    BY <2>1, <2>2
  <2>4. Backed(c, H, W, g.rsv, n, S \ {id}, q, S)
    BY <1>2, <1>4, <1>6, <1>9, <1>10, <2>2, <2>3, ProRate
  <2>5. Backed(c, H, W, g.rsv, n, {}, 0, {})
    BY <1>10, <1>11, <2>4
  <2>. QED
    BY <2>2, <2>5 DEF Sound, g, id, from
<1>13. CASE q = 0
  <2>1. ~(t < from)
    BY <1>2, <1>13
  <2>2. g = f
    BY <2>1 DEF ReleaseReservationPro
  <2>3. Backed(c, H, W, v, n, {}, q, S)
    BY <1>2, <1>6, <1>13, HandsFree
  <2>4. Backed(c, H, W, v, n, {}, 0, {})
    BY <1>11, <2>3
  <2>. QED
    BY <1>1, <2>2, <2>4 DEF Sound, v, from
<1>. QED
  BY <1>12, <1>13

LEMMA SweepIs ==
  ASSUME NEW f, NEW b, NEW H, NEW n, NEW S, NEW q, NEW X, NEW w, Sound(f, b, H, {w}, n, S, q, X)
  PROVE  /\ SweepOK(w) /\ w.left \in Nat /\ w.o.id \in Ids /\ w.o.side \in Sides
         /\ SweepFunded(w, f.rsv) /\ Opposite(w.o.side) \in Sides
  BY DEF Sound, Backed, OnlyOne, SweepOK, Funded, Opposite, Sides

LEMMA BackingLess ==
  ASSUME NEW r \in Reservation, NEW raw \in Nat, NEW a \in Nat, raw >= Backing(r, a),
         NEW c, a - c \in Nat, c \in Nat
  PROVE  raw >= Backing(r, a - c)
<1>. DEFINE d == a - c
<1>1. d \in Nat /\ d + c = a
  OBVIOUS
<1>. HIDE DEF d
<1>2. Backing(r, d) \in Nat /\ Backing(r, c) \in Nat /\ Backing(r, d + c) = Backing(r, d) + Backing(r, c)
  BY <1>1, BackingIs
<1>3. raw >= Backing(r, d)
  BY <1>1, <1>2
<1>. QED
  BY <1>3 DEF d

(* What self-trade prevention nets off the aggressor stays reserved. *)
LEMMA NetSweep ==
  ASSUME NEW f, NEW b, NEW H, NEW n, NEW w, Sound(f, b, H, {w}, n, {}, 0, {}), w.left > 0,
         NEW dec \in Nat, dec <= w.left, NEW u, SweepOK(u), u.o = w.o, u.left = w.left - dec,
         u.left > 0 \/ u.dead, NEW m \in [Ids -> Nat], m[w.o.id] >= n[w.o.id] + dec,
         \A j \in Ids : j # w.o.id => m[j] >= n[j]
  PROVE  Sound(f, b, H, {u}, m, {}, 0, {})
<1>. DEFINE id == w.o.id
            v == f.rsv
            S == {} \cup {id}
<1>1. SweepOK(w) /\ w.left \in Nat /\ id \in Ids /\ SweepFunded(w, v)
  BY SweepIs
<1>2. id \in DOMAIN v
  BY <1>1 DEF SweepFunded, GoodFor
<1>3. n \in [Ids -> Nat] /\ IsRsv(v)
  BY DEF Sound, Backed
<1>4. Sound(f, b, H, {w}, n, {}, dec, {})
  BY SoundHands
<1>5. Sound(f, b, H, {w}, m, {}, dec, {})
  <2>1. \A j \in DOMAIN v : m[j] >= n[j]
    BY <1>1, <1>3 DEF IsRsv
  <2>. QED
    BY <1>4, <2>1, Renet
<1>6. Backed(b, H, {u}, v, m, S, dec, S)
  <2>1. w.o.id \notin {} /\ Backed(b, H, {w}, v, m, {}, dec, {})
    BY <1>5 DEF Sound
  <2>2. Backed(b, H, {u}, v, m, {} \cup {w.o.id}, dec, {} \cup {w.o.id})
    BY <2>1, TakeSweep
  <2>. QED
    BY <2>2
<1>7. id \in S /\ S \ {id} = {}
  OBVIOUS
<1>8. Present(b, H, {u}, id)
  BY DEF Present
<1>9. \A j \in S : j = id
  OBVIOUS
<1>. HIDE DEF S, v, id
<1>10. Backed(b, H, {u}, v, m, {}, dec, S)
  <2>1. CASE dec = 0
    BY <1>6, <2>1, HandsFree
  <2>2. CASE dec # 0
    <3>1. m[id] # 0
      BY <1>1, <1>3, <2>2 DEF id
    <3>. DEFINE a == Alive(b, H, {u}, S, dec, id)
                raw == v[id].raw
    <3>2. /\ v[id] \in Reservation /\ raw \in Nat /\ a - dec \in Nat /\ a \in Nat
          /\ raw >= Backing(v[id], a)
      BY <1>2, <1>6, <1>7, CoverIs
    <3>3. raw >= Backing(v[id], a - dec)
      BY <3>2, BackingLess
    <3>4. Revalued(v, v, id, raw)
      BY <3>2 DEF Revalued, Reservation
    <3>. HIDE DEF raw
    <3>5. Backed(b, H, {u}, v, m, S \ {id}, dec, S)
      BY <1>2, <1>3, <1>6, <1>7, <3>1, <3>2, <3>3, <3>4, Revalue
    <3>. QED
      BY <1>7, <3>5
  <2>. QED
    BY <2>1, <2>2
<1>11. Backed(b, H, {u}, v, m, {}, dec, {})
  BY <1>8, <1>9, <1>10, Shrink
<1>12. Sound(f, b, H, {u}, m, {}, dec, {})
  BY <1>11 DEF Sound, v
<1>. QED
  BY <1>12, SoundHands

(* The best order of the other side and the sweep both give q. *)
LEMMA BothGive ==
  ASSUME NEW f, NEW b, NEW H, NEW n, NEW w, Sound(f, b, H, {w}, n, {}, 0, {}), NEW s \in Sides,
         b[s] # <<>>, NEW r, r = Head(b[s]), r.id # w.o.id, NEW q \in Nat \ {0}, q <= w.left,
         q <= r.leaves, NEW u, SweepOK(u), u.o = w.o, u.left = w.left - q
  PROVE  LET c == FillBest(b, s, q)
         IN  /\ Sound(f, c, H, {u}, n, {r.id, w.o.id}, q, {r.id, w.o.id})
             /\ Sized(b, c, s, r, Total(r) - q)
<1>. DEFINE c == FillBest(b, s, q)
            v == f.rsv
<1>1. BookOK(b)
  BY SoundBook
<1>2. r \in On(b, s) /\ OrderOK(r)
  BY <1>1, HeadIs
<1>3. Sized(b, c, s, r, Total(r) - q)
  <2>1. q \in 1..r.leaves
    BY <1>2 DEF OrderOK
  <2>. QED
    BY <1>1, <2>1, FillKeeps
<1>. HIDE DEF c
<1>4. q <= Total(r)
  BY <1>2 DEF OrderOK, Total
<1>5. Backed(b, H, {w}, v, n, {}, q, {}) /\ r.id \notin {}
  BY SoundHands DEF Sound
<1>6. Backed(c, H, {w}, v, n, {} \cup {r.id}, q, {} \cup {r.id})
  BY <1>2, <1>3, <1>4, <1>5, TakeBook
<1>. DEFINE S == {} \cup {r.id}
<1>7. w.o.id \notin S /\ S \cup {w.o.id} = {r.id, w.o.id}
  OBVIOUS
<1>. HIDE DEF S
<1>8. Backed(c, H, {u}, v, n, S \cup {w.o.id}, q, S \cup {w.o.id})
  <2>1. Backed(c, H, {w}, v, n, S, q, S)
    BY <1>6 DEF S
  <2>. QED
    BY <1>7, <2>1, TakeSweep
<1>. QED
  BY <1>3, <1>7, <1>8 DEF Sound, c

LEMMA InReach ==
  ASSUME NEW f, NEW b, NEW H, NEW n, NEW w, Sound(f, b, H, {w}, n, {}, 0, {}), w.left > 0,
         NEW r \in On(b, Opposite(w.o.side)), Crosses(w.o, r.px)
  PROVE  /\ GoodFor(f.rsv, r.id, Opposite(w.o.side), r.px) /\ GoodFor(f.rsv, w.o.id, w.o.side, r.px)
         /\ ~w.o.mkt => GoodFor(f.rsv, w.o.id, w.o.side, w.o.px)
<1>. DEFINE v == f.rsv
            o == w.o
<1>1. /\ SweepOK(w) /\ o.side \in Sides /\ SweepFunded(w, v)
      /\ Opposite(o.side) \in Sides
  BY SweepIs
<1>2. GoodFor(v, o.id, o.side, LimitOf(o))
  BY <1>1 DEF SweepFunded
<1>3. GoodFor(v, r.id, Opposite(o.side), r.px)
  BY <1>1 DEF Sound, Backed, Funded, BookFunded
<1>4. r.px \in 1..MaxPx /\ o.px \in 1..MaxPx
  <2>1. BookOK(b)
    BY SoundBook
  <2>2. OrderOK(r)
    BY <1>1, <2>1, OrderIs
  <2>. QED
    BY <1>1, <2>2 DEF OrderOK, SweepOK
<1>5. v[o.id].limit \in Nat /\ MaxPx \in Nat
  <2>1. IsRsv(v)
    BY SoundBook
  <2>. QED
    BY <1>2, <2>1, RsvOf, EngineAssumption DEF GoodFor
<1>6. o.side = "buy" => r.px <= LimitOf(o)
  BY <1>4, <1>5 DEF Crosses, Ahead, LimitOf
<1>7. LimitOf(o) \in Nat
  BY <1>4, <1>5 DEF LimitOf
<1>8. GoodFor(v, o.id, o.side, r.px)
  BY <1>2, <1>4, <1>5, <1>6, <1>7 DEF GoodFor
<1>9. ~o.mkt => LimitOf(o) = o.px
  BY DEF LimitOf
<1>. QED
  BY <1>2, <1>3, <1>8, <1>9

LEMMA HoldSound ==
  ASSUME NEW f, NEW b, NEW H, NEW n, NEW w, NEW S, NEW q, Sound(f, b, H, {w}, n, S, q, S),
         NEW h, HoldOK(h), HoldFunded(h, f.rsv), h.qty = q, S = {h.maker, h.taker},
         \A k \in H : k.hid # h.hid
  PROVE  Sound(f, b, H \cup {h}, {w}, n, {}, 0, {})
<1>. DEFINE G == H \cup {h}
            v == f.rsv
            Z == {h.maker, h.taker}
<1>1. Backed(b, H, {w}, v, n, Z, q, Z)
  BY DEF Sound
<1>2. Z \ Z = {} /\ G = H \cup {h}
  OBVIOUS
<1>. HIDE DEF G
<1>3. Backed(b, G, {w}, v, n, {}, q, Z \ Z)
  BY <1>1, <1>2, PutHold
<1>. HIDE DEF Z
<1>4. Sound(f, b, G, {w}, n, {}, q, {})
  BY <1>2, <1>3 DEF Sound
<1>. QED
  BY <1>4, SoundHands DEF G

(* A print of the sweep: it settles, and what is complete is cleaned up. *)
LEMMA PrintSound ==
  ASSUME NEW f, NEW b, NEW H, NEW n, NEW u, NEW t, NEW Z, Z = {t.maker, t.taker},
         Sound(f, b, H, {u}, n, Z, t.qty, Z),
         t.maker # t.taker, t.side \in Sides, t.px \in Nat,
         GoodFor(f.rsv, t.maker, Opposite(t.side), t.px), GoodFor(f.rsv, t.taker, t.side, t.px),
         u.o.id = t.taker, NEW g, NEW c, c = Cleanup(SettleTrade(f, t), g, b, H, t.maker)
  PROVE  /\ CanSettle(f, t)
         /\ u.left = 0 => Sound(Cleanup(c.funds, c.reg, b, H, t.taker).funds, b, H, {u}, n, {}, 0, {})
         /\ u.left > 0 => Sound(c.funds, b, H, {u}, n, {}, 0, {})
<1>. DEFINE z == SettleTrade(f, t)
            q == t.qty
            Y == Z \ {t.maker}
<1>1. Y \ {t.taker} = {} /\ \A j \in Y : j = t.taker
  OBVIOUS
<1>2. CanSettle(f, t) /\ Sound(z, b, H, {u}, n, {}, q, Z)
  BY SettleSound
<1>3. Idles({u}, t.maker) /\ c = Cleanup(z, g, b, H, t.maker)
  BY DEF Idles
<1>. HIDE DEF z, q
<1>4. Sound(c.funds, b, H, {u}, n, {}, q, Y)
  BY <1>2, <1>3, CleanupSound
<1>. HIDE DEF Y
<1>5. ASSUME u.left = 0
      PROVE  Sound(Cleanup(c.funds, c.reg, b, H, t.taker).funds, b, H, {u}, n, {}, 0, {})
  <2>1. Idles({u}, t.taker)
    BY <1>5 DEF Idles
  <2>. DEFINE d == Cleanup(c.funds, c.reg, b, H, t.taker).funds
  <2>2. Sound(d, b, H, {u}, n, {}, q, Y \ {t.taker})
    BY <1>4, <2>1, CleanupSound
  <2>3. Sound(d, b, H, {u}, n, {}, q, {})
    BY <1>1, <2>2
  <2>. QED
    BY <2>3, SoundHands
<1>6. ASSUME u.left > 0 PROVE Sound(c.funds, b, H, {u}, n, {}, 0, {})
  <2>1. Present(b, H, {u}, t.taker)
    BY <1>6 DEF Present
  <2>2. Backed(b, H, {u}, c.funds.rsv, n, {}, q, {})
    <3>. DEFINE v == c.funds.rsv
    <3>1. Backed(b, H, {u}, v, n, {}, q, Y)
      BY <1>4 DEF Sound
    <3>2. \A j \in DOMAIN v : j \in Y /\ j \notin {} => Present(b, H, {u}, j)
      BY <1>1, <2>1
    <3>. HIDE DEF v
    <3>. QED
      BY <3>1, <3>2, Shrink DEF v
  <2>3. Sound(c.funds, b, H, {u}, n, {}, q, {})
    BY <1>4, <2>2 DEF Sound
  <2>. QED
    BY <2>3, SoundHands
<1>. QED
  BY <1>2, <1>5, <1>6

LEMMA LeastIs ==
  ASSUME NEW f, NEW b, NEW H, NEW n, NEW w, Sound(f, b, H, {w}, n, {}, 0, {}), w.left > 0,
         b[Opposite(w.o.side)] # <<>>, NEW r, r = Head(b[Opposite(w.o.side)]),
         NEW q, q = Least(w.left, r.leaves)
  PROVE  /\ q \in Nat \ {0} /\ q <= w.left /\ q <= r.leaves /\ w.left \in Nat /\ q \in 1..w.left
         /\ r \in On(b, Opposite(w.o.side)) /\ OrderOK(r) /\ Opposite(w.o.side) \in Sides
<1>1. w.left \in Nat /\ Opposite(w.o.side) \in Sides /\ BookOK(b)
  BY SweepIs, SoundBook
<1>2. r \in On(b, Opposite(w.o.side)) /\ OrderOK(r)
  BY <1>1, HeadIs
<1>3. r.leaves \in Nat \ {0}
  BY <1>2 DEF OrderOK
<1>4. q \in Nat \ {0} /\ q <= w.left /\ q <= r.leaves
  BY <1>1, <1>3, SMTT(40) DEF Least
<1>. QED
  BY <1>1, <1>2, <1>4

(* The print of q of r with the sweep w, which goes on as u. *)
SettlesInto(f, b, H, n, w, r, q, u, t, x, c) ==
  /\ CanSettle(f, t)
  /\ w.left = q => Sound(Cleanup(c.funds, c.reg, x, H, t.taker).funds, x, H, {u}, n, {}, 0, {})
  /\ w.left # q => Sound(c.funds, x, H, {u}, n, {}, 0, {})
  /\ Sized(b, x, Opposite(w.o.side), r, Total(r) - q)

LEMMA FillSound ==
  ASSUME NEW f, NEW b, NEW H, NEW n, NEW w, Sound(f, b, H, {w}, n, {}, 0, {}), w.left > 0,
         b[Opposite(w.o.side)] # <<>>, NEW r, r = Head(b[Opposite(w.o.side)]), r.id # w.o.id,
         Crosses(w.o, r.px), NEW q, q = Least(w.left, r.leaves),
         NEW u, SweepOK(u), u.o = w.o, u.left = w.left - q,
         NEW t, t.maker = r.id, t.taker = w.o.id, t.side = w.o.side, t.px = r.px, t.qty = q,
         NEW g, NEW x, x = FillBest(b, Opposite(w.o.side), q),
         NEW c, c = Cleanup(SettleTrade(f, t), g, x, H, t.maker)
  PROVE  SettlesInto(f, b, H, n, w, r, q, u, t, x, c)
<1>. DEFINE Z == {r.id, w.o.id}
<1>1. /\ q \in Nat \ {0} /\ q <= w.left /\ q <= r.leaves /\ w.left \in Nat
      /\ r \in On(b, Opposite(w.o.side)) /\ OrderOK(r) /\ Opposite(w.o.side) \in Sides
  BY LeastIs
<1>2. Sound(f, x, H, {u}, n, Z, q, Z) /\ Sized(b, x, Opposite(w.o.side), r, Total(r) - q)
  BY <1>1, BothGive, ZenonT(60)
<1>3. GoodFor(f.rsv, r.id, Opposite(w.o.side), r.px) /\ GoodFor(f.rsv, w.o.id, w.o.side, r.px)
  BY <1>1, InReach, ZenonT(60)
<1>4. Z = {t.maker, t.taker} /\ u.o.id = t.taker /\ t.maker # t.taker
  OBVIOUS
<1>5. t.side \in Sides /\ t.px \in Nat
  <2>1. w.o.side \in Sides
    BY SweepIs
  <2>2. r.px \in Nat
    BY <1>1, SMTT(40) DEF OrderOK
  <2>. QED
    BY <2>1, <2>2
<1>6. GoodFor(f.rsv, t.maker, Opposite(t.side), t.px) /\ GoodFor(f.rsv, t.taker, t.side, t.px)
  BY <1>3, SMTT(40)
<1>. HIDE DEF Z
<1>7. Sound(f, x, H, {u}, n, Z, t.qty, Z)
  BY <1>2
<1>8. /\ CanSettle(f, t)
      /\ u.left = 0 => Sound(Cleanup(c.funds, c.reg, x, H, t.taker).funds, x, H, {u}, n, {}, 0, {})
      /\ u.left > 0 => Sound(c.funds, x, H, {u}, n, {}, 0, {})
  BY <1>4, <1>5, <1>6, <1>7, PrintSound, ZenonT(60)
<1>9. (w.left = q => u.left = 0) /\ (w.left # q => u.left > 0)
  BY <1>1
<1>. QED
  BY <1>2, <1>8, <1>9 DEF SettlesInto

LEMMA FilledSound ==
  ASSUME NEW f, NEW b, NEW H, NEW n, NEW w, Sound(f, b, H, {w}, n, {}, 0, {}), w.left = 0, ~w.dead
  PROVE  Sound(f, b, H, {}, n, {}, 0, {})
<1>. DEFINE id == w.o.id
            S == {} \cup {id}
<1>1. Backed(b, H, {w}, f.rsv, n, {}, 0, {}) /\ w.o.id \notin {}
  BY DEF Sound
<1>2. Backed(b, H, {}, f.rsv, n, {} \cup {w.o.id}, 0, {} \cup {w.o.id})
  BY <1>1, DropSweep
<1>3. S \subseteq Ids /\ \A j \in S : j = id
  BY <1>2 DEF Backed
<1>4. id \in DOMAIN f.rsv => Present(b, H, {}, id)
  BY <1>1 DEF Backed, Needed, Present
<1>. HIDE DEF S
<1>5. Backed(b, H, {}, f.rsv, n, {}, 0, S)
  BY <1>2, HandsFree DEF S
<1>6. Backed(b, H, {}, f.rsv, n, {}, 0, {})
  BY <1>3, <1>4, <1>5, Shrink
<1>. QED
  BY <1>6 DEF Sound

(* What is left of a sweep dies, what is on hold stays reserved. *)
LEMMA KillSound ==
  ASSUME NEW f, NEW b, NEW H, NEW n, NEW w, Sound(f, b, H, {w}, n, {}, 0, {}),
         ~IsResting(b, w.o.id),
         NEW g, g = ReleaseReservationExceptHeld(f, w.o.id, HeldQtyFor(H, w.o.id))
  PROVE  Sound(g, b, H, {}, n, {}, 0, {})
<1>. DEFINE id == w.o.id
            S == {} \cup {id}
            v == f.rsv
            q == w.left
            held == HeldQtyFor(H, id)
            a == Alive(b, H, {}, S, q, id)
<1>1. BookOK(b) /\ HoldsOK(H) /\ q \in Nat /\ FundsOK(f)
  BY SoundBook, SweepIs
<1>2. held \in Nat /\ (held > 0 <=> HoldsOf(H, id) # {})
  BY <1>1, HeldType, HeldSome
<1>3. Backed(b, H, {w}, v, n, {}, q, {}) /\ w.o.id \notin {}
  BY <1>1, SoundHands DEF Sound
<1>4. Backed(b, H, {}, v, n, S, q, S)
  <2>1. Backed(b, H, {}, v, n, {} \cup {w.o.id}, q, {} \cup {w.o.id})
    BY <1>3, DropSweep
  <2>. QED
    BY <2>1
<1>5. id \in S /\ S \ {id} = {} /\ \A j \in S : j = id
  OBVIOUS
<1>6. a = held + q
  <2>1. RestIn(b, id) = 0 /\ FlyIn({}, id) = 0
    BY DEF RestIn, FlyIn, Flies
  <2>. QED
    BY <1>1, <1>2, <1>5, <2>1 DEF Alive, InHand
<1>. HIDE DEF S, a
<1>7. ASSUME id \in DOMAIN v PROVE v[id].raw >= Backing(v[id], held)
  <2>1. v[id] \in Reservation /\ v[id].raw \in Nat /\ v[id].raw >= Backing(v[id], a) /\ a \in Nat
    BY <1>4, <1>7, CoverIs DEF a
  <2>2. a - q = held /\ a - q \in Nat
    BY <1>1, <1>2, <1>6
  <2>. HIDE DEF held, v, q, id
  <2>3. v[id].raw >= Backing(v[id], a - q)
    BY <1>1, <2>1, <2>2, BackingLess
  <2>. QED
    BY <2>2, <2>3
<1>. HIDE DEF v, id, q, held
<1>8. /\ FundsOK(g) /\ IsRsv(g.rsv)
      /\ held = 0 => Dropped(v, g.rsv, id)
      /\ held > 0 /\ id \in DOMAIN v => Revalued(v, g.rsv, id, Backing(v[id], held))
  BY <1>1, <1>2, <1>7, ExceptHeldKeeps DEF held, id, v
<1>9. CASE held = 0
  <2>1. HoldsOf(H, id) = {} /\ ~IsResting(b, id) /\ \A y \in {} : y.o.id = id => y.left = 0
    BY <1>2, <1>9 DEF id
  <2>2. Backed(b, H, {}, g.rsv, n, S \ {id}, q, S \ {id})
    BY <1>4, <1>8, <1>9, <2>1, DropIt
  <2>3. Sound(g, b, H, {}, n, {}, q, {})
    BY <1>5, <1>8, <2>2 DEF Sound
  <2>. QED
    BY <2>3, SoundHands
<1>10. CASE held # 0
  <2>1. held > 0 /\ HoldsOf(H, id) # {}
    BY <1>2, <1>10
  <2>2. id \in DOMAIN v
    <3>1. PICK h \in H : id \in {h.maker, h.taker}
      BY <2>1 DEF HoldsOf
    <3>2. HoldFunded(h, v)
      BY HoldIs DEF v
    <3>. QED
      BY <3>1, <3>2 DEF HoldFunded, GoodFor
  <2>3. held = Alive(b, H, {}, S, q, id) - q
    BY <1>1, <1>2, <1>6 DEF a
  <2>4. Revalued(v, g.rsv, id, Backing(v[id], held))
    BY <1>8, <2>1, <2>2
  <2>5. Backed(b, H, {}, g.rsv, n, S \ {id}, q, S)
    BY <1>4, <1>5, <1>8, <2>2, <2>3, <2>4, Trim
  <2>6. Present(b, H, {}, id)
    BY <2>1 DEF Present
  <2>7. Backed(b, H, {}, g.rsv, n, {}, q, {})
    <3>1. Backed(b, H, {}, g.rsv, n, {}, q, S)
      BY <1>5, <2>5
    <3>. QED
      BY <1>5, <2>6, <3>1, Shrink
  <2>8. Sound(g, b, H, {}, n, {}, q, {})
    BY <1>8, <2>7 DEF Sound
  <2>. QED
    BY <2>8, SoundHands
<1>. QED
  BY <1>9, <1>10

LEMMA RestingFormIs ==
  ASSUME NEW w, SweepOK(w), w.left > 0
  PROVE  LET m == RestingForm(w)
         IN  OrderOK(m) /\ m.id = w.o.id /\ m.px = w.o.px /\ Total(m) = w.left
<1>. DEFINE m == RestingForm(w)
            iceberg == w.o.vis > 0 /\ w.o.vis < w.left
<1>1. /\ DOMAIN m = {"id", "px", "leaves", "hidden", "peak", "ll", "post", "cum"}
      /\ m.id = w.o.id /\ m.px = w.o.px /\ m.leaves = IF iceberg THEN w.o.vis ELSE w.left
      /\ m.hidden = IF iceberg THEN w.left - w.o.vis ELSE 0
      /\ m.peak = IF iceberg THEN w.o.vis ELSE 0
  BY DEF RestingForm
<1>. HIDE DEF m
<1>2. w.left \in Nat /\ w.o.vis \in Nat /\ w.o.id \in Ids /\ w.o.px \in 1..MaxPx
  BY DEF SweepOK
<1>3. OrderOK(m) /\ Total(m) = w.left
  BY <1>1, <1>2 DEF OrderOK, Total
<1>. QED
  BY <1>1, <1>3 DEF m

LEMMA RestSound ==
  ASSUME NEW f, NEW b, NEW H, NEW n, NEW w, Sound(f, b, H, {w}, n, {}, 0, {}), w.left > 0,
         ~w.o.mkt, ~IsResting(b, w.o.id), NEW c, c = AddResting(b, w.o.side, RestingForm(w))
  PROVE  Sound(f, c, H, {}, n, {}, 0, {}) /\ Size(c) = Size(b) + 1
<1>. DEFINE id == w.o.id
            S == {} \cup {id}
            v == f.rsv
            q == w.left
            m == RestingForm(w)
            s == w.o.side
<1>1. BookOK(b) /\ q \in Nat /\ FundsOK(f) /\ SweepOK(w) /\ s \in Sides /\ SweepFunded(w, v)
  BY SoundBook, SweepIs
<1>2. OrderOK(m) /\ m.id = id /\ m.px = w.o.px /\ Total(m) = q
  BY <1>1, RestingFormIs
<1>. HIDE DEF m
<1>3. BookOK(c) /\ Becomes(b, c, s, id, {m}) /\ Size(c) = Size(b) + 1
  BY <1>1, <1>2, AddKeeps DEF m
<1>4. GoodFor(v, id, s, m.px)
  BY <1>1, <1>2 DEF SweepFunded, LimitOf
<1>5. Backed(b, H, {w}, v, n, {}, q, {}) /\ w.o.id \notin {}
  BY <1>1, SoundHands DEF Sound
<1>6. Backed(b, H, {}, v, n, S, q, S)
  <2>1. Backed(b, H, {}, v, n, {} \cup {w.o.id}, q, {} \cup {w.o.id})
    BY <1>5, DropSweep
  <2>. QED
    BY <2>1
<1>7. id \in S /\ S \ {id} = {}
  OBVIOUS
<1>8. Total(m) = RestIn(b, id) + q
  BY <1>1, <1>2 DEF RestIn
<1>. HIDE DEF S, v, id, s, q
<1>9. Backed(c, H, {}, v, n, S \ {id}, q, S \ {id})
  BY <1>1, <1>3, <1>4, <1>6, <1>7, <1>8, PutBook
<1>10. Sound(f, c, H, {}, n, {}, q, {})
  BY <1>1, <1>7, <1>9 DEF Sound, v
<1>. QED
  BY <1>3, <1>10, SoundHands

(* Ascending lists every id once. *)
Rank(ids, x) == Cardinality({y \in ids : y < x})

LEMMA RankIs ==
  ASSUME NEW ids, IsFiniteSet(ids), ids \in SUBSET Nat, NEW x \in ids
  PROVE  Rank(ids, x) \in 0..(Cardinality(ids) - 1) /\ Cardinality(ids) \in Nat
<1>. DEFINE L == {y \in ids : y < x}
<1>1. IsFiniteSet(L) /\ Cardinality(L) <= Cardinality(ids) /\ L \in SUBSET ids
      /\ (Cardinality(ids) = Cardinality(L) => ids = L)
  BY FS_Subset
<1>2. x \notin L
  OBVIOUS
<1>3. Cardinality(L) \in Nat /\ Cardinality(ids) \in Nat
  BY <1>1, FS_CardinalityType
<1>. HIDE DEF L
<1>4. Cardinality(L) # Cardinality(ids)
  BY <1>1, <1>2
<1>. QED
  BY <1>1, <1>3, <1>4 DEF Rank, L

LEMMA RankGrows ==
  ASSUME NEW ids, IsFiniteSet(ids), ids \in SUBSET Nat, NEW x \in ids, NEW y \in ids, x < y
  PROVE  Rank(ids, x) # Rank(ids, y)
<1>. DEFINE L == {z \in ids : z < x}
            M == {z \in ids : z < y}
<1>1. L \in SUBSET M /\ x \in M /\ x \notin L
  <2>1. x \in Nat /\ y \in Nat /\ \A z \in ids : z \in Nat
    OBVIOUS
  <2>2. \A z \in ids : z < x => z < y
    BY <2>1
  <2>3. x \in M
    OBVIOUS
  <2>4. ~(x < x)
    BY <2>1
  <2>5. x \notin L
    BY <2>4
  <2>6. L \in SUBSET M
    BY <2>2
  <2>. QED
    BY <2>3, <2>5, <2>6
<1>2. IsFiniteSet(M)
  BY FS_Subset
<1>3. Cardinality(M) = Cardinality(L) => M = L
  BY <1>1, <1>2, FS_Subset
<1>. HIDE DEF L, M
<1>4. Cardinality(M) # Cardinality(L)
  BY <1>1, <1>3
<1>. QED
  BY <1>4 DEF Rank, L, M

LEMMA RankReaches ==
  ASSUME NEW ids, IsFiniteSet(ids), ids \in SUBSET Nat, NEW i \in 1..Cardinality(ids)
  PROVE  \E x \in ids : Rank(ids, x) = i - 1
<1>. DEFINE n == Cardinality(ids)
            T == 0..(n - 1)
            f == [x \in ids |-> Rank(ids, x)]
<1>1. n \in Nat
  BY FS_CardinalityType
<1>2. IsFiniteSet(T) /\ Cardinality(T) = n
  <2>1. 0 \in Int /\ n - 1 \in Int
    BY <1>1
  <2>2. IsFiniteSet(T) /\ Cardinality(T) = IF 0 > n - 1 THEN 0 ELSE (n - 1) - 0 + 1
    BY <2>1, FS_Interval
  <2>. QED
    BY <1>1, <2>2
<1>3. f \in [ids -> T]
  BY RankIs
<1>4. ASSUME NEW x \in ids, NEW y \in ids, f[x] = f[y] PROVE x = y
  <2>1. Rank(ids, x) = Rank(ids, y)
    BY <1>4
  <2>2. x \in Nat /\ y \in Nat /\ (x < y \/ y < x \/ x = y)
    OBVIOUS
  <2>. QED
    BY <2>1, <2>2, RankGrows
<1>5. f \in Injection(ids, T)
  <2>1. DOMAIN f = ids
    OBVIOUS
  <2>. HIDE DEF f, T
  <2>. QED
    BY <1>3, <1>4, <2>1 DEF Injection, IsInjective
<1>. HIDE DEF f, T
<1>6. f \in Surjection(ids, T)
  BY <1>2, <1>5, FS_Injection
<1>7. i - 1 \in T
  BY <1>1 DEF T
<1>. QED
  BY <1>6, <1>7 DEF Surjection, f

LEMMA AscendingIs ==
  ASSUME NEW ids, IsFiniteSet(ids), ids \in SUBSET Nat, NEW s, s = Ascending(ids)
  PROVE  /\ IsSeq(s) /\ \A i \in DOMAIN s : s[i] \in ids
         /\ \A x \in ids : \E i \in DOMAIN s : s[i] = x
<1>. DEFINE n == Cardinality(ids)
            At(i) == CHOOSE x \in ids : Rank(ids, x) = i - 1
<1>1. n \in Nat
  BY FS_CardinalityType
<1>2. s = [i \in 1..n |-> At(i)]
  BY DEF Ascending, Rank
<1>3. \A i \in 1..n : At(i) \in ids /\ Rank(ids, At(i)) = i - 1
  BY RankReaches
<1>. HIDE DEF At
<1>4. s \in Seq(ids)
  BY <1>1, <1>2, <1>3
<1>5. IsSeq(s)
  BY <1>4, InSeq
<1>6. ASSUME NEW x \in ids PROVE \E i \in DOMAIN s : s[i] = x
  <2>. DEFINE i == Rank(ids, x) + 1
  <2>1. i \in 1..n /\ i - 1 = Rank(ids, x)
    <3>1. Rank(ids, x) \in 0..(n - 1)
      BY RankIs
    <3>. HIDE DEF n
    <3>. QED
      BY <1>1, <3>1
  <2>2. At(i) \in ids /\ Rank(ids, At(i)) = Rank(ids, x)
    BY <1>3, <2>1
  <2>. HIDE DEF i
  <2>3. At(i) = x
    <3>1. At(i) \in Nat /\ x \in Nat
      BY <2>2
    <3>2. At(i) < x \/ x < At(i) \/ At(i) = x
      BY <3>1
    <3>. QED
      BY <2>2, <3>2, RankGrows
  <2>. QED
    BY <1>2, <2>1, <2>3
<1>. QED
  BY <1>2, <1>3, <1>5, <1>6

LEMMA ForEachIs ==
  ASSUME NEW op, NEW ids, IsFiniteSet(ids), ids \in SUBSET Nat, NEW p, p = ForEach(op, ids)
  PROVE  /\ IsSeq(p)
         /\ \A i \in DOMAIN p : p[i].op = op /\ p[i].id \in ids
<1>. DEFINE s == Ascending(ids)
<1>1. IsSeq(s) /\ \A i \in DOMAIN s : s[i] \in ids
  BY AscendingIs
<1>2. p = [i \in DOMAIN s |-> [op |-> op, id |-> s[i]]]
  BY DEF ForEach
<1>. HIDE DEF s
<1>3. Len(s) \in Nat /\ DOMAIN s = 1..Len(s)
  BY <1>1, SeqShape
<1>4. p \in Seq({[op |-> op, id |-> x] : x \in ids})
  BY <1>1, <1>2, <1>3
<1>. QED
  BY <1>1, <1>2, <1>4, InSeq

LEMMA ResolveAllIs ==
  ASSUME NEW H, HoldsOK(H), NEW m \in Nat, \A h \in H : h.hid \in 1..m, NEW G \in SUBSET H,
         NEW accept, NEW p, p = ResolveAll(G, accept)
  PROVE  /\ IsSeq(p) /\ \A i \in DOMAIN p : p[i].op = "resolve"
         /\ \A i \in DOMAIN p : \A h \in H : Clears(p[i], h) => h \in G
         /\ \A h \in G : \E i \in DOMAIN p : Clears(p[i], h)
<1>. DEFINE ids == {h.hid : h \in G}
            s == Ascending(ids)
<1>1. ids \in SUBSET Nat /\ \A x \in ids : x <= m
  OBVIOUS
<1>2. IsFiniteSet(ids)
  BY <1>1, FS_BoundedSetOfNaturals
<1>3. /\ IsSeq(s) /\ \A i \in DOMAIN s : s[i] \in ids
      /\ \A x \in ids : \E i \in DOMAIN s : s[i] = x
  <2>1. s = Ascending(ids)
    OBVIOUS
  <2>. HIDE DEF ids, s
  <2>. QED
    BY <1>1, <1>2, <2>1, AscendingIs
<1>4. p = [i \in DOMAIN s |-> ResolveStep(s[i], accept)]
  BY DEF ResolveAll
<1>. HIDE DEF s
<1>5. Len(s) \in Nat /\ DOMAIN s = 1..Len(s)
  BY <1>3, SeqShape
<1>6. p \in Seq({ResolveStep(x, accept) : x \in ids})
  BY <1>3, <1>4, <1>5
<1>7. IsSeq(p)
  BY <1>6, InSeq
<1>8. \A i \in DOMAIN p : p[i].op = "resolve" /\ p[i].hid = s[i]
  BY <1>4 DEF ResolveStep
<1>9. DOMAIN p = DOMAIN s
  BY <1>4
<1>10. ASSUME NEW i \in DOMAIN p, NEW h \in H, Clears(p[i], h) PROVE h \in G
  <2>1. p[i].hid = h.hid
    BY <1>8, <1>10 DEF Clears
  <2>2. PICK g \in G : s[i] = g.hid
    BY <1>3, <1>9
  <2>. QED
    BY <1>8, <2>1, <2>2 DEF HoldsOK
<1>11. ASSUME NEW h \in G PROVE \E i \in DOMAIN p : Clears(p[i], h)
  <2>1. PICK i \in DOMAIN s : s[i] = h.hid
    BY <1>3
  <2>. QED
    BY <1>8, <1>9, <2>1 DEF Clears
<1>. QED
  BY <1>7, <1>8, <1>10, <1>11

(* The steps p take the place of the first one of k. *)
Next1(k, p) == p \o Tail(k)

Shifted(k, p, z) ==
  /\ IsSeq(z) /\ 1 \in DOMAIN k /\ Head(k) = k[1]
  /\ \A i \in DOMAIN p : i \in DOMAIN z /\ z[i] = p[i] /\ i <= Len(p) /\ i \in Nat
  /\ \A j \in DOMAIN k : j > 1 => Len(p) + j - 1 \in DOMAIN z /\ z[Len(p) + j - 1] = k[j]
  /\ \A i \in DOMAIN z : \/ i \in DOMAIN p /\ z[i] = p[i]
                         \/ \E j \in DOMAIN k : j > 1 /\ i = Len(p) + j - 1 /\ z[i] = k[j]
  /\ \A j \in DOMAIN k : j \in Nat \ {0} /\ Len(p) \in Nat

LEMMA PushAt ==
  ASSUME NEW k, IsSeq(k), k # <<>>, NEW p, IsSeq(p), NEW z, z = Next1(k, p)
  PROVE  Shifted(k, p, z)
<1>. DEFINE t == Tail(k)
<1>1. /\ IsSeq(t) /\ Len(t) = Len(k) - 1 /\ Len(k) >= 1 /\ Head(k) = k[1]
      /\ \A i \in 1..(Len(k) - 1) : t[i] = k[i + 1]
  BY TailShape
<1>2. /\ Len(k) \in Nat /\ DOMAIN k = 1..Len(k) /\ Len(p) \in Nat /\ DOMAIN p = 1..Len(p)
  BY SeqShape
<1>. HIDE DEF t
<1>3. /\ IsSeq(z) /\ Len(z) = Len(p) + Len(t)
      /\ \A i \in 1..Len(p) : z[i] = p[i]
      /\ \A i \in 1..Len(t) : z[Len(p) + i] = t[i]
  <2>1. z = p \o t
    BY DEF Next1, t
  <2>. QED
    BY <1>1, <2>1, PushShape
<1>4. DOMAIN z = 1..(Len(p) + Len(k) - 1)
  <2>1. DOMAIN z = 1..Len(z)
    BY <1>3, SeqShape
  <2>. QED
    BY <1>1, <1>2, <1>3, <2>1
<1>5. \A i \in DOMAIN p : i \in DOMAIN z /\ z[i] = p[i] /\ i <= Len(p) /\ i \in Nat
  BY <1>1, <1>2, <1>3, <1>4
<1>6. ASSUME NEW j \in DOMAIN k, j > 1
      PROVE  Len(p) + j - 1 \in DOMAIN z /\ z[Len(p) + j - 1] = k[j]
  <2>. DEFINE i == j - 1
  <2>1. i \in 1..(Len(k) - 1) /\ i + 1 = j /\ Len(p) + i = Len(p) + j - 1 /\ i \in 1..Len(t)
        /\ Len(p) + i \in 1..(Len(p) + Len(k) - 1)
    BY <1>1, <1>2, <1>6
  <2>. HIDE DEF i
  <2>2. z[Len(p) + i] = t[i] /\ t[i] = k[i + 1]
    BY <1>1, <1>3, <2>1
  <2>. QED
    BY <1>4, <2>1, <2>2
<1>7. ASSUME NEW i \in DOMAIN z
      PROVE  \/ i \in DOMAIN p /\ z[i] = p[i]
             \/ \E j \in DOMAIN k : j > 1 /\ i = Len(p) + j - 1 /\ z[i] = k[j]
  <2>1. i \in Nat /\ 1 <= i /\ i <= Len(p) + Len(k) - 1
    BY <1>2, <1>4
  <2>2. CASE i <= Len(p)
    BY <1>2, <1>3, <2>1, <2>2
  <2>3. CASE ~(i <= Len(p))
    <3>. DEFINE j == i - Len(p) + 1
    <3>1. j \in DOMAIN k /\ j > 1 /\ i = Len(p) + j - 1
      BY <1>2, <2>1, <2>3
    <3>. HIDE DEF j
    <3>. QED
      BY <1>6, <3>1
  <2>. QED
    BY <2>2, <2>3
<1>. QED
  BY <1>1, <1>2, <1>3, <1>5, <1>6, <1>7 DEF Shifted

Inherits(u, v) == \A w : Precedes(u, w) => Precedes(v, w)

LEMMA PushWork ==
  ASSUME NEW k, WorkOK(k), k # <<>>, NEW p, IsSeq(p),
         \A i \in DOMAIN p : StepOK(p[i]) /\ Inherits(k[1], p[i]),
         \A i, j \in DOMAIN p : i < j => Precedes(p[i], p[j]),
         NEW z, z = Next1(k, p)
  PROVE  WorkOK(z)
<1>1. IsSeq(k)
  BY DEF WorkOK
<1>2. /\ IsSeq(z) /\ 1 \in DOMAIN k
      /\ \A i \in DOMAIN p : i \in DOMAIN z /\ z[i] = p[i] /\ i <= Len(p) /\ i \in Nat
      /\ \A i \in DOMAIN z : \/ i \in DOMAIN p /\ z[i] = p[i]
                             \/ \E j \in DOMAIN k : j > 1 /\ i = Len(p) + j - 1 /\ z[i] = k[j]
      /\ \A j \in DOMAIN k : j \in Nat \ {0} /\ Len(p) \in Nat
  <2>1. Shifted(k, p, z)
    BY <1>1, PushAt, Zenon
  <2>. QED
    BY <2>1 DEF Shifted
<1>3. ASSUME NEW i \in DOMAIN z PROVE StepOK(z[i])
  BY <1>2 DEF WorkOK
<1>4. ASSUME NEW i \in DOMAIN z, NEW j \in DOMAIN z, i < j PROVE Precedes(z[i], z[j])
  <2>1. CASE i \in DOMAIN p /\ z[i] = p[i]
    <3>1. CASE j \in DOMAIN p /\ z[j] = p[j]
      BY <1>4, <2>1, <3>1
    <3>2. CASE \E m \in DOMAIN k : m > 1 /\ j = Len(p) + m - 1 /\ z[j] = k[m]
      <4>1. PICK m \in DOMAIN k : m > 1 /\ j = Len(p) + m - 1 /\ z[j] = k[m]
        BY <3>2
      <4>2. Precedes(k[1], k[m])
        BY <1>2, <4>1 DEF WorkOK
      <4>. QED
        BY <2>1, <4>1, <4>2 DEF Inherits
    <3>. QED
      BY <1>2, <3>1, <3>2
  <2>2. CASE \E m \in DOMAIN k : m > 1 /\ i = Len(p) + m - 1 /\ z[i] = k[m]
    <3>1. PICK m \in DOMAIN k : m > 1 /\ i = Len(p) + m - 1 /\ z[i] = k[m]
      BY <2>2
    <3>2. j \notin DOMAIN p
      BY <1>2, <1>4, <3>1
    <3>3. PICK l \in DOMAIN k : l > 1 /\ j = Len(p) + l - 1 /\ z[j] = k[l]
      BY <1>2, <3>2
    <3>4. m < l
      BY <1>2, <1>4, <3>1, <3>3
    <3>5. Precedes(k[m], k[l])
      BY <3>4 DEF WorkOK
    <3>. QED
      BY <3>1, <3>3, <3>5
  <2>. QED
    BY <1>2, <2>1, <2>2
<1>. QED
  BY <1>2, <1>3, <1>4 DEF WorkOK

LEMMA PushCleared ==
  ASSUME NEW k, IsSeq(k), k # <<>>, NEW p, IsSeq(p), NEW z, z = Next1(k, p),
         NEW H, Cleared(k, H), NEW G \in SUBSET H,
         \A h \in G : Clears(k[1], h) => \E i \in DOMAIN p : Clears(p[i], h),
         \A i \in DOMAIN p, h \in G : Needs(p[i], h) => \E j \in DOMAIN p : j < i /\ Clears(p[j], h)
  PROVE  Cleared(z, G)
<1>1. /\ IsSeq(z) /\ 1 \in DOMAIN k
      /\ \A i \in DOMAIN p : i \in DOMAIN z /\ z[i] = p[i] /\ i <= Len(p) /\ i \in Nat
      /\ \A j \in DOMAIN k : j > 1 => Len(p) + j - 1 \in DOMAIN z /\ z[Len(p) + j - 1] = k[j]
      /\ \A i \in DOMAIN z : \/ i \in DOMAIN p /\ z[i] = p[i]
                             \/ \E j \in DOMAIN k : j > 1 /\ i = Len(p) + j - 1 /\ z[i] = k[j]
      /\ \A j \in DOMAIN k : j \in Nat \ {0} /\ Len(p) \in Nat
  <2>1. Shifted(k, p, z)
    BY PushAt, Zenon
  <2>. QED
    BY <2>1 DEF Shifted
<1>2. SUFFICES ASSUME NEW i \in DOMAIN z, NEW h \in G, Needs(z[i], h)
               PROVE  \E j \in DOMAIN z : j < i /\ Clears(z[j], h)
  BY DEF Cleared
<1>3. CASE i \in DOMAIN p /\ z[i] = p[i]
  BY <1>1, <1>2, <1>3
<1>4. CASE \E m \in DOMAIN k : m > 1 /\ i = Len(p) + m - 1 /\ z[i] = k[m]
  <2>1. PICK m \in DOMAIN k : m > 1 /\ i = Len(p) + m - 1 /\ z[i] = k[m]
    BY <1>4
  <2>2. PICK l \in DOMAIN k : l < m /\ Clears(k[l], h)
    BY <1>2, <2>1 DEF Cleared
  <2>3. CASE l = 1
    <3>1. PICK j \in DOMAIN p : Clears(p[j], h)
      BY <2>2, <2>3
    <3>2. j < i
      BY <1>1, <2>1
    <3>. QED
      BY <1>1, <3>1, <3>2
  <2>4. CASE l # 1
    <3>1. l > 1 /\ Len(p) + l - 1 < i
      BY <1>1, <2>1, <2>2, <2>4
    <3>. QED
      BY <1>1, <2>2, <3>1
  <2>. QED
    BY <2>3, <2>4
<1>. QED
  BY <1>1, <1>3, <1>4

LEMMA PushApart ==
  ASSUME NEW k, IsSeq(k), k # <<>>, NEW p, IsSeq(p), NEW z, z = Next1(k, p),
         NEW b, NEW H, Apart(k, b, H), NEW G \in SUBSET H,
         \A i \in DOMAIN p : p[i].op # "sweep",
         \A i \in DOMAIN p, h \in G : Clears(p[i], h) => Clears(k[1], h),
         NEW c, \A i \in DOMAIN k : k[i].op = "sweep" /\ IsResting(c, k[i].o.id) => IsResting(b, k[i].o.id)
  PROVE  Apart(z, c, G)
<1>1. /\ 1 \in DOMAIN k
      /\ \A i \in DOMAIN p : i \in DOMAIN z /\ z[i] = p[i] /\ i <= Len(p) /\ i \in Nat
      /\ \A i \in DOMAIN z : \/ i \in DOMAIN p /\ z[i] = p[i]
                             \/ \E j \in DOMAIN k : j > 1 /\ i = Len(p) + j - 1 /\ z[i] = k[j]
      /\ \A j \in DOMAIN k : j \in Nat \ {0} /\ Len(p) \in Nat
  <2>1. Shifted(k, p, z)
    BY PushAt, Zenon
  <2>. QED
    BY <2>1 DEF Shifted
<1>2. SUFFICES ASSUME NEW i \in DOMAIN z, z[i].op = "sweep"
               PROVE  /\ ~IsResting(c, z[i].o.id)
                      /\ \A h \in HoldsOf(G, z[i].o.id) :
                           /\ h.taker = z[i].o.id
                           /\ z[i].o.stp # "None" => Scope[Owner[h.maker]] # Scope[Owner[h.taker]]
                           /\ \A j \in DOMAIN z : j < i => ~Clears(z[j], h)
  BY DEF Apart
<1>3. PICK m \in DOMAIN k : m > 1 /\ i = Len(p) + m - 1 /\ z[i] = k[m]
  BY <1>1, <1>2
<1>4. ~IsResting(c, z[i].o.id)
  BY <1>2, <1>3 DEF Apart
<1>5. ASSUME NEW h \in HoldsOf(G, z[i].o.id)
      PROVE  /\ h.taker = z[i].o.id
             /\ z[i].o.stp # "None" => Scope[Owner[h.maker]] # Scope[Owner[h.taker]]
             /\ \A j \in DOMAIN z : j < i => ~Clears(z[j], h)
  <2>1. h \in G /\ h \in HoldsOf(H, k[m].o.id)
    BY <1>3 DEF HoldsOf
  <2>2. /\ h.taker = k[m].o.id
        /\ k[m].o.stp # "None" => Scope[Owner[h.maker]] # Scope[Owner[h.taker]]
        /\ \A j \in DOMAIN k : j < m => ~Clears(k[j], h)
    BY <1>2, <1>3, <2>1 DEF Apart
  <2>3. ASSUME NEW j \in DOMAIN z, j < i, Clears(z[j], h) PROVE FALSE
    <3>1. CASE j \in DOMAIN p /\ z[j] = p[j]
      BY <1>1, <1>3, <2>1, <2>2, <2>3, <3>1
    <3>2. CASE \E l \in DOMAIN k : l > 1 /\ j = Len(p) + l - 1 /\ z[j] = k[l]
      <4>1. PICK l \in DOMAIN k : l > 1 /\ j = Len(p) + l - 1 /\ z[j] = k[l]
        BY <3>2
      <4>2. l < m
        BY <1>1, <1>3, <2>3, <4>1
      <4>. QED
        BY <2>2, <2>3, <4>1, <4>2
    <3>. QED
      BY <1>1, <3>1, <3>2
  <2>. QED
    BY <1>3, <2>2, <2>3
<1>. QED
  BY <1>4, <1>5

LEMMA MeetsGrown ==
  ASSUME NEW b, NEW c, NEW I, Grown(b, c, I), NEW o, o.side \in Sides, Meets(b, o)
  PROVE  Meets(c, o)
<1>1. Opposite(o.side) \in Sides
  BY DEF Opposite, Sides
<1>2. PICK r \in On(b, Opposite(o.side)) : Crosses(o, r.px)
  BY DEF Meets
<1>3. PICK q \in On(c, Opposite(o.side)) : q.px = r.px
  BY <1>1 DEF Grown
<1>. QED
  BY <1>2, <1>3 DEF Meets

LEMMA PushRoom ==
  ASSUME NEW k, WorkOK(k), k # <<>>, NEW p, IsSeq(p), NEW z, z = Next1(k, p),
         \A i \in DOMAIN p : p[i].op # "sweep",
         NEW b, NEW H, Room(k, b, H), NEW c, NEW I, Grown(b, c, I), NEW G
  PROVE  Room(z, c, G)
<1>1. IsSeq(k)
  BY DEF WorkOK
<1>2. /\ \A i \in DOMAIN z : \/ i \in DOMAIN p /\ z[i] = p[i]
                             \/ \E j \in DOMAIN k : j > 1 /\ i = Len(p) + j - 1 /\ z[i] = k[j]
  <2>1. Shifted(k, p, z)
    BY <1>1, PushAt, Zenon
  <2>. QED
    BY <2>1 DEF Shifted
<1>3. Size(c) <= Config.capacity
  BY DEF Room, Grown
<1>4. ASSUME NEW i \in DOMAIN z, z[i].op = "sweep"
      PROVE  z[i].left > 0 /\ ~z[i].dead /\ Meets(c, z[i].o)
  <2>1. PICK m \in DOMAIN k : m > 1 /\ z[i] = k[m]
    BY <1>2, <1>4
  <2>2. z[i].left > 0 /\ ~z[i].dead /\ Meets(b, z[i].o)
    BY <1>4, <2>1 DEF Room
  <2>3. z[i].o.side \in Sides
    BY <1>4, <2>1 DEF WorkOK, StepOK, SweepOK
  <2>. QED
    BY <2>2, <2>3, MeetsGrown
<1>. QED
  BY <1>3, <1>4 DEF Room

(* What is left of the command fits the book and the holds. *)
Fit(k, b, H) == WorkOK(k) /\ Cleared(k, H) /\ Apart(k, b, H) /\ Room(k, b, H)

LEMMA FirstStep ==
  ASSUME NEW k, WorkOK(k), k # <<>>
  PROVE  /\ IsSeq(k) /\ 1 \in DOMAIN k /\ Head(k) = k[1] /\ StepOK(k[1])
         /\ \A j \in DOMAIN k : j > 1 => Precedes(k[1], k[j])
         /\ \A j \in DOMAIN k : j # 1 => j > 1
<1>1. IsSeq(k)
  BY DEF WorkOK
<1>. DEFINE z == Next1(k, k)
<1>2. Shifted(k, k, z)
  BY <1>1, PushAt, Zenon
<1>. QED
  BY <1>1, <1>2 DEF Shifted, WorkOK

(* Once a command has come to its order, further orders are all that follows. *)
LEMMA Late ==
  ASSUME NEW k, WorkOK(k), k # <<>>, k[1].op \in {"sweep", "new", "modify", "amend"}
  PROVE  \A j \in DOMAIN k : j # 1 => j > 1 /\ k[j].op \in {"new", "answer"}
  BY FirstStep DEF Precedes

(* Whatever is neither a sweep nor in the way of one has none behind it. *)
LEMMA NoSweepBehind ==
  ASSUME NEW k, WorkOK(k), k # <<>>, k[1].op \notin {"rejectFor", "resolve", "sweep"}
  PROVE  SweepsIn(k) = {} /\ \A j \in DOMAIN k : k[j].op # "sweep"
<1>1. \A j \in DOMAIN k : k[j].op # "sweep"
  BY FirstStep DEF Precedes
<1>. QED
  BY <1>1 DEF SweepsIn

LEMMA SweepFirst ==
  ASSUME NEW k, WorkOK(k), k # <<>>, k[1].op = "sweep"
  PROVE  SweepsIn(k) = {k[1]} /\ SweepOK(k[1]) /\ 1 \in DOMAIN k
<1>1. \A j \in DOMAIN k : k[j].op = "sweep" <=> j = 1
  BY Late, FirstStep
<1>2. 1 \in DOMAIN k /\ StepOK(k[1])
  BY FirstStep
<1>. QED
  BY <1>1, <1>2 DEF SweepsIn, StepOK

(* The steps that replace the first one. *)
Replaces(p, u, G) ==
  /\ IsSeq(p)
  /\ \A i \in DOMAIN p : StepOK(p[i]) /\ Inherits(u, p[i]) /\ p[i].op # "sweep"
  /\ \A i, j \in DOMAIN p : i < j => Precedes(p[i], p[j])
  /\ \A h \in G : Clears(u, h) => \E i \in DOMAIN p : Clears(p[i], h)
  /\ \A i \in DOMAIN p, h \in G : Needs(p[i], h) => \E j \in DOMAIN p : j < i /\ Clears(p[j], h)

LEMMA PushSweeps ==
  ASSUME NEW k, IsSeq(k), k # <<>>, NEW p, IsSeq(p), NEW z, z = Next1(k, p),
         k[1].op # "sweep", \A i \in DOMAIN p : p[i].op # "sweep"
  PROVE  SweepsIn(z) = SweepsIn(k)
<1>1. Shifted(k, p, z)
  BY PushAt, Zenon
<1>2. ASSUME NEW w \in SweepsIn(z) PROVE w \in SweepsIn(k)
  <2>1. PICK i \in DOMAIN z : z[i].op = "sweep" /\ w = z[i]
    BY <1>2 DEF SweepsIn
  <2>2. PICK j \in DOMAIN k : z[i] = k[j]
    BY <1>1, <2>1 DEF Shifted
  <2>. QED
    BY <2>1, <2>2 DEF SweepsIn
<1>3. ASSUME NEW w \in SweepsIn(k) PROVE w \in SweepsIn(z)
  <2>1. PICK j \in DOMAIN k : k[j].op = "sweep" /\ w = k[j]
    BY <1>3 DEF SweepsIn
  <2>2. j > 1
    BY <1>1, <2>1 DEF Shifted
  <2>3. Len(p) + j - 1 \in DOMAIN z /\ z[Len(p) + j - 1] = k[j]
    BY <1>1, <2>2 DEF Shifted
  <2>. QED
    BY <2>1, <2>3 DEF SweepsIn
<1>. QED
  BY <1>2, <1>3

(* A step in the way of a sweep is done. *)
LEMMA PushFit ==
  ASSUME NEW k, NEW b, NEW H, Fit(k, b, H), k # <<>>, k[1].op \in {"rejectFor", "resolve"},
         NEW G \in SUBSET H, NEW p, Replaces(p, k[1], G),
         \A i \in DOMAIN p, h \in G : Clears(p[i], h) => Clears(k[1], h),
         NEW c, NEW I, Grown(b, c, I), \A w \in SweepsIn(k) : w.o.id \notin I
  PROVE  Fit(Next1(k, p), c, G) /\ SweepsIn(Next1(k, p)) = SweepsIn(k)
<1>. DEFINE z == Next1(k, p)
<1>0. z = Next1(k, p)
  OBVIOUS
<1>1. WorkOK(k) /\ IsSeq(k) /\ Cleared(k, H) /\ Apart(k, b, H) /\ Room(k, b, H)
  BY DEF Fit, WorkOK
<1>2. /\ IsSeq(p)
      /\ \A i \in DOMAIN p : StepOK(p[i]) /\ Inherits(k[1], p[i])
      /\ \A i \in DOMAIN p : p[i].op # "sweep"
      /\ \A i, j \in DOMAIN p : i < j => Precedes(p[i], p[j])
      /\ \A h \in G : Clears(k[1], h) => \E i \in DOMAIN p : Clears(p[i], h)
      /\ \A i \in DOMAIN p, h \in G : Needs(p[i], h) => \E j \in DOMAIN p : j < i /\ Clears(p[j], h)
  BY DEF Replaces
<1>3. k[1].op # "sweep"
  OBVIOUS
<1>4. \A i \in DOMAIN k : k[i].op = "sweep" /\ IsResting(c, k[i].o.id) => IsResting(b, k[i].o.id)
  BY DEF Grown, SweepsIn
<1>. HIDE DEF z
<1>5. WorkOK(z)
  BY <1>0, <1>1, <1>2, PushWork, Zenon
<1>6. Cleared(z, G)
  BY <1>0, <1>1, <1>2, PushCleared
<1>7. Apart(z, c, G)
  BY <1>0, <1>1, <1>2, <1>4, PushApart, Zenon
<1>8. Room(z, c, G)
  BY <1>0, <1>1, <1>2, PushRoom, Zenon
<1>9. SweepsIn(z) = SweepsIn(k)
  BY <1>0, <1>1, <1>2, <1>3, PushSweeps, Zenon
<1>. QED
  BY <1>0, <1>5, <1>6, <1>7, <1>8, <1>9 DEF Fit

(* Any other step that starts no sweep. *)
LEMMA QuietFit ==
  ASSUME NEW k, NEW b, NEW H, Fit(k, b, H), k # <<>>,
         k[1].op \notin {"rejectFor", "resolve", "sweep"},
         NEW G \in SUBSET H, NEW p, Replaces(p, k[1], G), NEW c, Size(c) <= Config.capacity
  PROVE  Fit(Next1(k, p), c, G) /\ SweepsIn(Next1(k, p)) = {} /\ SweepsIn(k) = {}
<1>. DEFINE z == Next1(k, p)
<1>0. z = Next1(k, p)
  OBVIOUS
<1>1. WorkOK(k) /\ IsSeq(k) /\ Cleared(k, H)
  BY DEF Fit, WorkOK
<1>2. /\ IsSeq(p)
      /\ \A i \in DOMAIN p : StepOK(p[i]) /\ Inherits(k[1], p[i])
      /\ \A i \in DOMAIN p : p[i].op # "sweep"
      /\ \A i, j \in DOMAIN p : i < j => Precedes(p[i], p[j])
      /\ \A h \in G : Clears(k[1], h) => \E i \in DOMAIN p : Clears(p[i], h)
      /\ \A i \in DOMAIN p, h \in G : Needs(p[i], h) => \E j \in DOMAIN p : j < i /\ Clears(p[j], h)
  BY DEF Replaces
<1>3. SweepsIn(k) = {} /\ k[1].op # "sweep"
  BY <1>1, NoSweepBehind
<1>. HIDE DEF z
<1>5. WorkOK(z)
  BY <1>0, <1>1, <1>2, PushWork, Zenon
<1>6. Cleared(z, G)
  BY <1>0, <1>1, <1>2, PushCleared, Zenon
<1>9. SweepsIn(z) = SweepsIn(k)
  BY <1>0, <1>1, <1>2, <1>3, PushSweeps, Zenon
<1>10. \A i \in DOMAIN z : z[i].op # "sweep"
  BY <1>3, <1>9 DEF SweepsIn
<1>. QED
  BY <1>0, <1>3, <1>5, <1>6, <1>9, <1>10 DEF Fit, Apart, Room

LEMMA OneStep ==
  ASSUME NEW u
  PROVE  IsSeq(<<u>>) /\ DOMAIN <<u>> = {1} /\ <<u>>[1] = u /\ Len(<<u>>) = 1
<1>1. <<u>> \in Seq({u})
  OBVIOUS
<1>2. IsSeq(<<u>>)
  BY <1>1, InSeq, Zenon
<1>. QED
  BY <1>2

LEMMA NoStep == IsSeq(<<>>) /\ DOMAIN <<>> = {} /\ Len(<<>>) = 0
<1>1. <<>> \in Seq({})
  OBVIOUS
<1>2. IsSeq(<<>>)
  BY <1>1, InSeq, Zenon
<1>. QED
  BY <1>2

LEMMA TwoSteps ==
  ASSUME NEW u, NEW v
  PROVE  IsSeq(<<u, v>>) /\ DOMAIN <<u, v>> = 1..2 /\ <<u, v>>[1] = u /\ <<u, v>>[2] = v
         /\ Len(<<u, v>>) = 2
<1>1. <<u, v>> \in Seq({u, v})
  OBVIOUS
<1>2. IsSeq(<<u, v>>)
  BY <1>1, InSeq, Zenon
<1>. QED
  BY <1>2

(* The command has come to its order and to the end of it. *)
LEMMA LateEnd ==
  ASSUME NEW k, WorkOK(k), k # <<>>, k[1].op \in {"sweep", "new", "modify", "amend"},
         NEW c, NEW G, Size(c) <= Config.capacity
  PROVE  Fit(Next1(k, <<>>), c, G) /\ SweepsIn(Next1(k, <<>>)) = {}
<1>. DEFINE p == <<>>
            z == Next1(k, p)
<1>0. z = Next1(k, p) /\ IsSeq(p) /\ DOMAIN p = {}
  BY NoStep
<1>1. IsSeq(k)
  BY DEF WorkOK
<1>. HIDE DEF z, p
<1>2. Shifted(k, p, z)
  BY <1>0, <1>1, PushAt, Zenon
<1>3. ASSUME NEW i \in DOMAIN z
      PROVE  z[i].op \in {"new", "answer"}
  <2>1. PICK j \in DOMAIN k : j > 1 /\ z[i] = k[j]
    BY <1>0, <1>2 DEF Shifted
  <2>. QED
    BY <2>1, Late
<1>4. WorkOK(z)
  <2>1. \A i \in DOMAIN p : StepOK(p[i]) /\ Inherits(k[1], p[i])
    BY <1>0
  <2>2. \A i, j \in DOMAIN p : i < j => Precedes(p[i], p[j])
    BY <1>0
  <2>. QED
    BY <1>0, <2>1, <2>2, PushWork, Zenon
<1>5. Cleared(z, G)
  BY <1>3 DEF Cleared, Needs
<1>6. Apart(z, c, G) /\ Room(z, c, G) /\ SweepsIn(z) = {}
  BY <1>3 DEF Apart, Room, SweepsIn
<1>. QED
  BY <1>0, <1>4, <1>5, <1>6 DEF Fit, p

(* The order sweeps, or goes on with it. *)
LEMMA LateSweep ==
  ASSUME NEW k, WorkOK(k), k # <<>>, k[1].op \in {"sweep", "new", "amend"},
         NEW c, NEW G, Size(c) <= Config.capacity, NEW u, SweepOK(u), u.op = "sweep",
         ~IsResting(c, u.o.id),
         \A h \in HoldsOf(G, u.o.id) :
           h.taker = u.o.id /\ (u.o.stp # "None" => Scope[Owner[h.maker]] # Scope[Owner[h.taker]]),
         HoldsOf(G, u.o.id) # {} /\ u.left > 0 /\ ~u.dead => Size(c) < Config.capacity \/ Meets(c, u.o)
  PROVE  Fit(Next1(k, <<u>>), c, G) /\ SweepsIn(Next1(k, <<u>>)) = {u}
<1>. DEFINE p == <<u>>
            z == Next1(k, p)
<1>0. z = Next1(k, p) /\ IsSeq(p) /\ DOMAIN p = {1} /\ p[1] = u /\ Len(p) = 1
  BY OneStep
<1>1. IsSeq(k)
  BY DEF WorkOK
<1>. HIDE DEF z, p
<1>2. Shifted(k, p, z)
  BY <1>0, <1>1, PushAt, Zenon
<1>3. 1 \in DOMAIN z /\ z[1] = u
  BY <1>0, <1>2 DEF Shifted
<1>4. ASSUME NEW i \in DOMAIN z, i # 1
      PROVE  z[i].op \in {"new", "answer"} /\ i > 1 /\ i \in Nat
  <2>1. PICK j \in DOMAIN k : j > 1 /\ z[i] = k[j] /\ i = Len(p) + j - 1
    BY <1>0, <1>2, <1>4 DEF Shifted
  <2>2. i = j /\ j \in Nat
    BY <1>0, <1>2, <2>1 DEF Shifted
  <2>. QED
    BY <2>1, <2>2, Late
<1>5. WorkOK(z)
  <2>1. StepOK(u)
    BY DEF StepOK
  <2>2. Inherits(k[1], u)
    BY DEF Inherits, Precedes
  <2>3. \A i \in DOMAIN p : StepOK(p[i]) /\ Inherits(k[1], p[i])
    BY <1>0, <2>1, <2>2
  <2>4. \A i, j \in DOMAIN p : i < j => Precedes(p[i], p[j])
    BY <1>0
  <2>. QED
    BY <1>0, <2>3, <2>4, PushWork, Zenon
<1>6. Cleared(z, G)
  BY <1>3, <1>4 DEF Cleared, Needs
<1>7. \A i \in DOMAIN z : z[i].op = "sweep" => i = 1
  BY <1>4
<1>8. \A j \in DOMAIN z : ~(j < 1)
  BY <1>4
<1>9. Apart(z, c, G)
  <2>1. \A h \in HoldsOf(G, u.o.id), j \in DOMAIN z : j < 1 => ~Clears(z[j], h)
    BY <1>8
  <2>2. SUFFICES ASSUME NEW i \in DOMAIN z, z[i].op = "sweep"
                 PROVE  /\ ~IsResting(c, z[i].o.id)
                        /\ \A h \in HoldsOf(G, z[i].o.id) :
                             /\ h.taker = z[i].o.id
                             /\ z[i].o.stp # "None" => Scope[Owner[h.maker]] # Scope[Owner[h.taker]]
                             /\ \A j \in DOMAIN z : j < i => ~Clears(z[j], h)
    BY DEF Apart
  <2>3. i = 1 /\ z[i] = u
    BY <1>3, <1>7, <2>2
  <2>. QED
    BY <2>1, <2>3, Zenon
<1>10. Room(z, c, G)
  BY <1>3, <1>7 DEF Room
<1>11. SweepsIn(z) = {u}
  BY <1>3, <1>7 DEF SweepsIn
<1>. QED
  BY <1>0, <1>5, <1>6, <1>9, <1>10, <1>11 DEF Fit, p

Prepend(x, k) == <<x>> \o k

(* An own order in the way of the sweep is relieved of its holds first. *)
LEMMA RelieveFit ==
  ASSUME NEW k, NEW b, NEW H, Fit(k, b, H), k # <<>>, k[1].op = "sweep", k[1].left > 0, ~k[1].dead,
         Meets(b, k[1].o), NEW x, x.op = "rejectFor",
         \A h \in HoldsOf(H, k[1].o.id) : ~Clears(x, h),
         NEW z, z = Prepend(x, k)
  PROVE  Fit(z, b, H) /\ SweepsIn(z) = SweepsIn(k)
<1>1. WorkOK(k) /\ IsSeq(k) /\ Cleared(k, H) /\ Apart(k, b, H) /\ Room(k, b, H)
  BY DEF Fit, WorkOK
<1>. DEFINE p == <<x>>
<1>2. IsSeq(p) /\ DOMAIN p = {1} /\ p[1] = x /\ Len(p) = 1 /\ z = p \o k
  BY OneStep DEF Prepend
<1>. HIDE DEF p
<1>3. /\ IsSeq(z) /\ Len(z) = Len(p) + Len(k)
      /\ \A i \in 1..Len(p) : z[i] = p[i]
      /\ \A i \in 1..Len(k) : z[Len(p) + i] = k[i]
  <2>1. /\ IsSeq(p \o k) /\ Len(p \o k) = Len(p) + Len(k)
        /\ \A i \in 1..Len(p) : (p \o k)[i] = p[i]
        /\ \A i \in 1..Len(k) : (p \o k)[Len(p) + i] = k[i]
    BY <1>1, <1>2, PushShape, ZenonT(60)
  <2>2. z = p \o k
    BY <1>2
  <2>. QED
    BY <2>1, <2>2, Zenon
<1>4. Len(k) \in Nat /\ DOMAIN k = 1..Len(k) /\ DOMAIN z = 1..Len(z) /\ Len(z) \in Nat
  BY <1>1, <1>3, SeqShape
<1>5. /\ 1 \in DOMAIN z /\ z[1] = x
      /\ \A i \in DOMAIN k : i + 1 \in DOMAIN z /\ z[i + 1] = k[i] /\ i \in Nat /\ i >= 1
      /\ \A i \in DOMAIN z : i = 1 \/ (i > 1 /\ i \in Nat /\ i - 1 \in DOMAIN k /\ z[i] = k[i - 1])
      /\ \A i \in DOMAIN z : i = 1 \/ \E j \in DOMAIN k : i = j + 1 /\ z[i] = k[j]
  <2>1. ASSUME NEW i \in DOMAIN z, i # 1
        PROVE  i > 1 /\ i \in Nat /\ i - 1 \in DOMAIN k /\ z[i] = k[i - 1] /\ i = (i - 1) + 1
    <3>. DEFINE j == i - 1
    <3>1. j \in 1..Len(k) /\ i = Len(p) + j /\ i > 1 /\ i \in Nat /\ i = j + 1
      BY <1>2, <1>3, <1>4, <2>1
    <3>. HIDE DEF j
    <3>2. z[i] = k[j]
      BY <1>3, <3>1
    <3>. QED
      BY <1>4, <3>1, <3>2 DEF j
  <2>2. ASSUME NEW i \in DOMAIN k
        PROVE  i + 1 \in DOMAIN z /\ z[i + 1] = k[i] /\ i \in Nat /\ i >= 1
    <3>1. i \in 1..Len(k) /\ Len(p) + i = i + 1 /\ i + 1 \in 1..Len(z)
      BY <1>2, <1>3, <1>4
    <3>. QED
      BY <1>3, <1>4, <3>1
  <2>3. 1 \in DOMAIN z /\ z[1] = x
    BY <1>2, <1>3, <1>4
  <2>. QED
    BY <2>1, <2>2, <2>3
<1>6. 1 \in DOMAIN k /\ \A j \in DOMAIN k : j # 1 => j > 1 /\ k[j].op \in {"new", "answer"}
  BY <1>1, Late, FirstStep
<1>7. ASSUME NEW i \in DOMAIN z, z[i].op = "sweep" PROVE i = 2 /\ z[i] = k[1]
  <2>1. PICK j \in DOMAIN k : i = j + 1 /\ z[i] = k[j]
    BY <1>5, <1>7
  <2>. QED
    BY <1>6, <1>7, <2>1
<1>8. 2 \in DOMAIN z /\ z[2] = k[1]
  BY <1>5, <1>6
<1>9. WorkOK(z)
  <2>1. ASSUME NEW i \in DOMAIN z PROVE StepOK(z[i])
    <3>1. CASE i = 1
      BY <1>5, <3>1 DEF StepOK
    <3>2. CASE i # 1
      BY <1>1, <1>5, <3>2 DEF WorkOK
    <3>. QED
      BY <3>1, <3>2
  <2>2. ASSUME NEW i \in DOMAIN z, NEW j \in DOMAIN z, i < j PROVE Precedes(z[i], z[j])
    <3>1. CASE i = 1
      BY <1>5, <3>1 DEF Precedes
    <3>2. CASE i # 1
      <4>1. /\ i - 1 \in DOMAIN k /\ j - 1 \in DOMAIN k /\ i - 1 < j - 1
            /\ z[i] = k[i - 1] /\ z[j] = k[j - 1]
        BY <1>5, <2>2, <3>2
      <4>. QED
        BY <1>1, <4>1 DEF WorkOK
    <3>. QED
      BY <3>1, <3>2
  <2>. QED
    BY <1>3, <2>1, <2>2 DEF WorkOK
<1>10. Cleared(z, H)
  <2>1. ASSUME NEW i \in DOMAIN z PROVE z[i].op \in {"new", "answer", "sweep", "rejectFor"}
    <3>1. CASE i = 1
      BY <1>5, <3>1
    <3>2. CASE i # 1
      <4>1. PICK j \in DOMAIN k : z[i] = k[j]
        BY <1>5, <3>2
      <4>. QED
        BY <1>6, <4>1
    <3>. QED
      BY <3>1, <3>2
  <2>. QED
    BY <2>1 DEF Cleared, Needs
<1>11. Apart(z, b, H)
  <2>1. ASSUME NEW j \in DOMAIN z, j < 2 PROVE z[j] = x
    <3>1. j = 1
      BY <1>4, <2>1
    <3>. QED
      BY <1>5, <3>1
  <2>. QED
    BY <1>1, <1>6, <1>7, <2>1 DEF Apart
<1>12. Room(z, b, H)
  BY <1>1, <1>7 DEF Room
<1>13. SweepsIn(z) = SweepsIn(k)
  <2>1. SweepsIn(k) = {k[1]}
    BY <1>1, SweepFirst
  <2>2. SweepsIn(z) = {k[1]}
    BY <1>7, <1>8 DEF SweepsIn
  <2>. QED
    BY <2>1, <2>2
<1>. QED
  BY <1>9, <1>10, <1>11, <1>12, <1>13 DEF Fit

-----------------------------------------------------------------------------
(* The invariant of the engine *)

RegOK(g) == DOMAIN g = {"tracked", "expiry", "stp"} /\ g.tracked \subseteq Ids

TapeOK(t) ==
  /\ DOMAIN t = {"entered", "traded", "killed", "netted", "limit", "mode", "restored", "held",
                 "print", "unsettled", "muted"}
  /\ ~t.unsettled

HoldsNumbered(H, m) == m \in Nat /\ \A h \in H : h.hid \in 1..m

Inv ==
  /\ venue \in DOMAIN Venues /\ HoldsNumbered(holds, holdSeq)
  /\ RegOK(reg) /\ TapeOK(tape)
  /\ Sound(funds, book, holds, SweepsIn(work), tape.netted, {}, 0, {})
  /\ Fit(work, book, holds)

LEMMA ForgetIs ==
  ASSUME NEW g, RegOK(g), NEW id
  PROVE  RegOK(Forget(g, id))
  BY DEF RegOK, Forget

LEMMA TrackIs ==
  ASSUME NEW g, RegOK(g), NEW id \in Ids, NEW mode
  PROVE  RegOK(Track(g, id, mode))
  BY DEF RegOK, Track

LEMMA ExpiryIs ==
  ASSUME NEW g, RegOK(g), NEW id, NEW e
  PROVE  RegOK([g EXCEPT !.expiry[id] = e]) /\ RegOK([g EXCEPT !.stp[id] = e])
  BY DEF RegOK

LEMMA CleanupReg ==
  ASSUME NEW f, NEW g, RegOK(g), NEW b, NEW H, NEW id
  PROVE  RegOK(Cleanup(f, g, b, H, id).reg)
  BY ForgetIs DEF Cleanup

LEMMA BuryIs ==
  ASSUME NEW t, TapeOK(t), NEW id, NEW q
  PROVE  TapeOK(Bury(t, id, q)) /\ Bury(t, id, q).netted = t.netted
  BY DEF TapeOK, Bury

LEMMA MuteIs ==
  ASSUME NEW t, TapeOK(t), NEW id
  PROVE  TapeOK(Mute(t, id)) /\ Mute(t, id).netted = t.netted
  BY DEF TapeOK, Mute

LEMMA EnterIs ==
  ASSUME NEW t, TapeOK(t), NEW o
  PROVE  TapeOK(Enter(t, o)) /\ Enter(t, o).netted = t.netted
  BY DEF TapeOK, Enter

LEMMA FreshIs ==
  ASSUME NEW t, TapeOK(t), t.netted \in [Ids -> Nat], NEW id \in Ids
  PROVE  /\ TapeOK(Fresh(t, id)) /\ Fresh(t, id).netted \in [Ids -> Nat]
         /\ \A j \in Ids : j # id => Fresh(t, id).netted[j] = t.netted[j]
<1>1. TapeOK(Fresh(t, id))
  BY DEF TapeOK, Fresh
<1>2. Fresh(t, id).netted = [t.netted EXCEPT ![id] = 0]
  BY DEF TapeOK, Fresh
<1>. QED
  BY <1>1, <1>2

LEMMA OnTapeIs ==
  ASSUME TapeOK(tape), NEW t, CanSettle(funds, t)
  PROVE  TapeOK(OnTape(t)) /\ OnTape(t).netted = tape.netted
<1>. DEFINE y == CanSettle(funds, t)
<1>1. y = TRUE
  BY DEF CanSettle
<1>2. OnTape(t).unsettled = (tape.unsettled \/ ~y)
  BY DEF OnTape, TapeOK
<1>3. DOMAIN OnTape(t) = DOMAIN tape /\ OnTape(t).netted = tape.netted
  BY DEF OnTape, TapeOK
<1>4. ~OnTape(t).unsettled
  BY <1>1, <1>2, Zenon DEF TapeOK
<1>. QED
  BY <1>3, <1>4 DEF TapeOK

LEMMA CapacityIs ==
  ASSUME venue \in DOMAIN Venues
  PROVE  Config.capacity \in Nat
  BY EngineAssumption DEF Config

LEMMA NettedIs ==
  ASSUME NEW f, NEW b, NEW H, NEW W, NEW n, NEW S, NEW q, NEW X, Sound(f, b, H, W, n, S, q, X)
  PROVE  n \in [Ids -> Nat]
  BY DEF Sound, Backed

LEMMA SumConstant ==
  ASSUME NEW f, IsFiniteSet(DOMAIN f), NEW d \in Nat, \A x \in DOMAIN f : f[x] = d
  PROVE  SumFunction(f) = d * Cardinality(DOMAIN f)
<1>. DEFINE S == DOMAIN f
<1>1. PICK g : Adds(g, f, S) /\ SumFunction(f) = g[S]
  BY SumIs DEF SumFunction
<1>. DEFINE B == {s \in SUBSET S : g[s] # d * Cardinality(s)}
<1>2. SUFFICES ASSUME B # {} PROVE FALSE
  BY <1>1
<1>3. PICK t \in B : \A y \in t : t \ {y} \notin B
  BY <1>2, LeastSet
<1>4. t \in SUBSET S /\ IsFiniteSet(t)
  BY <1>3, FS_Subset
<1>5. t # {}
  <2>1. g[{}] = 0 /\ Cardinality({}) = 0
    BY <1>1, FS_EmptySet DEF Adds
  <2>2. d * 0 = 0
    OBVIOUS
  <2>. QED
    BY <1>3, <2>1, <2>2
<1>6. Pick(t) \in t
  BY <1>5 DEF Pick
<1>7. g[t] = d + g[t \ {Pick(t)}]
  BY <1>1, <1>4, <1>5, <1>6 DEF Adds
<1>8. g[t \ {Pick(t)}] = d * Cardinality(t \ {Pick(t)})
  BY <1>3, <1>4, <1>6
<1>9. Cardinality(t \ {Pick(t)}) = Cardinality(t) - 1 /\ Cardinality(t) \in Nat
  BY <1>4, <1>6, FS_RemoveElement, FS_CardinalityType
<1>10. \A m \in Nat : d + d * (m - 1) = d * m
  OBVIOUS
<1>. QED
  BY <1>3, <1>7, <1>8, <1>9, <1>10

LEMMA InitInv == ASSUME Init PROVE Inv
<1>1. venue \in DOMAIN Venues /\ HoldsNumbered(holds, holdSeq) /\ RegOK(reg) /\ TapeOK(tape)
  BY DEF Init, HoldsNumbered, RegOK, TapeOK
<1>2. BookOK(book) /\ \A s \in Sides : On(book, s) = {}
  <2>1. \A s \in Sides : book[s] = <<>>
    BY DEF Init, EmptyBook
  <2>2. book = [s \in Sides |-> book[s]]
    BY DEF Init, EmptyBook
  <2>3. \A s \in Sides : On(book, s) = {}
    BY <2>1, NoStep DEF On
  <2>4. \A s \in Sides : QueueOK(s, book[s])
    BY <2>1, NoStep DEF QueueOK
  <2>. QED
    BY <2>2, <2>3, <2>4 DEF BookOK, Sides
<1>3. Size(book) = 0
  BY DEF Init, EmptyBook, Size, Sides
<1>4. HoldsOK(holds) /\ SweepsIn(work) = {} /\ work = <<>> /\ holds = {}
  <2>1. IsFiniteSet({})
    BY FS_EmptySet
  <2>. QED
    BY <2>1, NoStep DEF Init, HoldsOK, SweepsIn
<1>5. FundsTyped(funds) /\ DOMAIN funds.rsv = {} /\ IsRsv(funds.rsv)
  BY EngineAssumption DEF Init, FundsTyped, IsRsv, Balance, Reservation
<1>6. ASSUME NEW a \in Accounts, NEW x \in Assets
      PROVE  funds.bal[a][x].rsvd = ReservedBy(funds.rsv, a, x)
  <2>1. funds.bal[a][x].rsvd = 0
    BY DEF Init
  <2>2. ReservedBy(funds.rsv, a, x) = 0
    BY <1>5, SumEmpty DEF ReservedBy
  <2>. QED
    BY <2>1, <2>2
<1>7. ASSUME NEW x \in Assets
      PROVE  Supply(funds.bal, x) = Deposits * Cardinality(Accounts)
  <2>. DEFINE f == [a \in Accounts |-> funds.bal[a][x].avail + funds.bal[a][x].rsvd]
  <2>1. \A a \in Accounts : f[a] = Deposits
    BY EngineAssumption DEF Init
  <2>2. DOMAIN f = Accounts /\ IsFiniteSet(Accounts) /\ Deposits \in Nat
    BY EngineAssumption
  <2>3. Supply(funds.bal, x) = SumFunction(f)
    BY DEF Supply
  <2>. HIDE DEF f
  <2>4. SumFunction(f) = Deposits * Cardinality(DOMAIN f)
    BY <2>1, <2>2, SumConstant, Zenon
  <2>. QED
    BY <2>2, <2>3, <2>4
<1>8. FundsOK(funds)
  BY <1>5, <1>6, <1>7 DEF FundsOK
<1>9. tape.netted \in [Ids -> Nat]
  BY DEF Init, Zero
<1>10. Funded(book, holds, {}, funds.rsv)
  BY <1>2, <1>4 DEF Funded, BookFunded
<1>11. Backed(book, holds, {}, funds.rsv, tape.netted, {}, 0, {})
  BY <1>2, <1>4, <1>5, <1>9, <1>10 DEF Backed, OnlyOne, Covered, Needed
<1>12. Fit(work, book, holds)
  <2>1. Size(book) <= Config.capacity
    BY <1>1, <1>3, CapacityIs
  <2>. QED
    BY <1>4, <2>1, NoStep DEF Fit, WorkOK, Cleared, Apart, Room
<1>. QED
  BY <1>1, <1>4, <1>8, <1>11, <1>12 DEF Inv, Sound

(* Steps without a sweep, each after whatever clears the holds it wants gone. *)
Listed(k, H) ==
  /\ WorkOK(k) /\ Cleared(k, H)
  /\ \A i \in DOMAIN k : k[i].op # "sweep"

LEMMA ListFits ==
  ASSUME NEW k, NEW H, Listed(k, H), NEW b, Size(b) <= Config.capacity
  PROVE  Fit(k, b, H) /\ SweepsIn(k) = {}
  BY DEF Listed, Fit, Apart, Room, SweepsIn

Joined(p, q, z) ==
  /\ IsSeq(z)
  /\ \A i \in DOMAIN p : i \in DOMAIN z /\ z[i] = p[i]
  /\ \A j \in DOMAIN q : Len(p) + j \in DOMAIN z /\ z[Len(p) + j] = q[j]
  /\ \A i \in DOMAIN z : \/ i \in DOMAIN p /\ z[i] = p[i] /\ i <= Len(p) /\ i \in Nat
                         \/ \E j \in DOMAIN q : i = Len(p) + j /\ z[i] = q[j]
  /\ \A j \in DOMAIN q : j \in Nat \ {0} /\ Len(p) \in Nat

LEMMA JoinAt ==
  ASSUME NEW p, IsSeq(p), NEW q, IsSeq(q), NEW z, z = p \o q
  PROVE  Joined(p, q, z)
<1>1. /\ Len(p) \in Nat /\ DOMAIN p = 1..Len(p) /\ Len(q) \in Nat /\ DOMAIN q = 1..Len(q)
  BY SeqShape
<1>2. /\ IsSeq(p \o q) /\ Len(p \o q) = Len(p) + Len(q)
      /\ \A i \in 1..Len(p) : (p \o q)[i] = p[i]
      /\ \A i \in 1..Len(q) : (p \o q)[Len(p) + i] = q[i]
  BY PushShape, Zenon
<1>3. /\ IsSeq(z) /\ Len(z) = Len(p) + Len(q)
      /\ \A i \in 1..Len(p) : z[i] = p[i]
      /\ \A i \in 1..Len(q) : z[Len(p) + i] = q[i]
  BY <1>2, Zenon
<1>4. DOMAIN z = 1..(Len(p) + Len(q))
  BY <1>3, SeqShape
<1>5. ASSUME NEW i \in DOMAIN z, ~(i <= Len(p))
      PROVE  \E j \in DOMAIN q : i = Len(p) + j /\ z[i] = q[j]
  <2>. DEFINE j == i - Len(p)
  <2>1. j \in 1..Len(q) /\ i = Len(p) + j
    BY <1>1, <1>4, <1>5
  <2>. HIDE DEF j
  <2>. QED
    BY <1>1, <1>3, <2>1
<1>6. ASSUME NEW i \in DOMAIN z, i <= Len(p)
      PROVE  i \in DOMAIN p /\ z[i] = p[i] /\ i \in Nat
  BY <1>1, <1>3, <1>4, <1>6
<1>7. \A i \in DOMAIN p : i \in DOMAIN z /\ z[i] = p[i]
  BY <1>1, <1>3, <1>4
<1>8. \A j \in DOMAIN q : Len(p) + j \in DOMAIN z /\ z[Len(p) + j] = q[j]
  BY <1>1, <1>3, <1>4
<1>. QED
  BY <1>1, <1>3, <1>5, <1>6, <1>7, <1>8 DEF Joined

LEMMA ListsJoin ==
  ASSUME NEW p, NEW q, NEW H, Listed(p, H), Listed(q, H),
         \A i \in DOMAIN p, j \in DOMAIN q : Precedes(p[i], q[j]), NEW z, z = p \o q
  PROVE  Listed(z, H) /\ Joined(p, q, z)
<1>1. IsSeq(p) /\ IsSeq(q)
  BY DEF Listed, WorkOK
<1>2. Joined(p, q, z)
  BY <1>1, JoinAt, Zenon
<1>3. ASSUME NEW i \in DOMAIN z PROVE StepOK(z[i]) /\ z[i].op # "sweep"
  BY <1>2 DEF Joined, Listed, WorkOK
<1>4. ASSUME NEW i \in DOMAIN z, NEW j \in DOMAIN z, i < j PROVE Precedes(z[i], z[j])
  <2>1. CASE i \in DOMAIN p /\ z[i] = p[i]
    <3>1. CASE j \in DOMAIN p /\ z[j] = p[j]
      BY <1>4, <2>1, <3>1 DEF Listed, WorkOK
    <3>2. CASE \E m \in DOMAIN q : z[j] = q[m]
      BY <2>1, <3>2
    <3>. QED
      BY <1>2, <3>1, <3>2 DEF Joined
  <2>2. CASE \E m \in DOMAIN q : i = Len(p) + m /\ z[i] = q[m]
    <3>1. PICK m \in DOMAIN q : i = Len(p) + m /\ z[i] = q[m]
      BY <2>2
    <3>2. PICK l \in DOMAIN q : j = Len(p) + l /\ z[j] = q[l]
      BY <1>2, <1>4, <3>1 DEF Joined
    <3>3. m < l
      BY <1>2, <1>4, <3>1, <3>2 DEF Joined
    <3>. QED
      BY <3>1, <3>2, <3>3 DEF Listed, WorkOK
  <2>. QED
    BY <1>2, <2>1, <2>2 DEF Joined
<1>5. ASSUME NEW i \in DOMAIN z, NEW h \in H, Needs(z[i], h)
      PROVE  \E j \in DOMAIN z : j < i /\ Clears(z[j], h)
  <2>1. CASE i \in DOMAIN p /\ z[i] = p[i]
    <3>1. PICK j \in DOMAIN p : j < i /\ Clears(p[j], h)
      BY <1>5, <2>1 DEF Listed, Cleared
    <3>. QED
      BY <1>2, <3>1 DEF Joined
  <2>2. CASE \E m \in DOMAIN q : i = Len(p) + m /\ z[i] = q[m]
    <3>1. PICK m \in DOMAIN q : i = Len(p) + m /\ z[i] = q[m]
      BY <2>2
    <3>2. PICK l \in DOMAIN q : l < m /\ Clears(q[l], h)
      BY <1>5, <3>1 DEF Listed, Cleared
    <3>3. Len(p) + l \in DOMAIN z /\ z[Len(p) + l] = q[l] /\ Len(p) + l < i
      BY <1>2, <3>1, <3>2 DEF Joined
    <3>. QED
      BY <3>2, <3>3
  <2>. QED
    BY <1>2, <2>1, <2>2 DEF Joined
<1>. QED
  BY <1>2, <1>3, <1>4, <1>5 DEF Listed, WorkOK, Cleared, Joined

LEMMA ListOfNone ==
  ASSUME NEW H
  PROVE  Listed(<<>>, H)
  BY NoStep DEF Listed, WorkOK, Cleared

LEMMA ListOfOne ==
  ASSUME NEW H, NEW u, StepOK(u), u.op # "sweep", \A h \in H : ~Needs(u, h)
  PROVE  Listed(<<u>>, H)
<1>. DEFINE p == <<u>>
<1>1. IsSeq(p) /\ DOMAIN p = {1} /\ p[1] = u
  BY OneStep
<1>. HIDE DEF p
<1>2. Listed(p, H)
  BY <1>1 DEF Listed, WorkOK, Cleared
<1>. QED
  BY <1>2 DEF p

LEMMA ListOfTwo ==
  ASSUME NEW H, NEW u, NEW v, StepOK(u), StepOK(v), u.op # "sweep", v.op # "sweep", Precedes(u, v),
         \A h \in H : ~Needs(u, h) /\ (Needs(v, h) => Clears(u, h))
  PROVE  Listed(<<u, v>>, H)
<1>. DEFINE p == <<u, v>>
<1>1. IsSeq(p) /\ DOMAIN p = 1..2 /\ p[1] = u /\ p[2] = v
  BY TwoSteps
<1>. HIDE DEF p
<1>2. \A i \in DOMAIN p : i = 1 \/ i = 2
  BY <1>1
<1>3. WorkOK(p) /\ \A i \in DOMAIN p : p[i].op # "sweep"
  BY <1>1, <1>2 DEF WorkOK
<1>4. Cleared(p, H)
  BY <1>1, <1>2 DEF Cleared
<1>5. Listed(p, H)
  BY <1>3, <1>4 DEF Listed
<1>. QED
  BY <1>5 DEF p

(* submit() puts the expiries before the command and the answer after it. *)
LEMMA SubmitKeeps ==
  ASSUME Inv, NEW steps, Listed(steps, holds), NEW done, done.op = "answer", Submit(steps, done)
  PROVE  Inv'
<1>. DEFINE x == [op |-> "expireHolds"]
            y == [op |-> "expireOrders"]
            p == <<x, y>>
            z == p \o steps
            l == <<done>>
<1>1. Listed(p, holds) /\ \A i \in DOMAIN p : p[i].op \in {"expireHolds", "expireOrders"}
  <2>1. x.op = "expireHolds" /\ y.op = "expireOrders"
    OBVIOUS
  <2>. HIDE DEF x, y
  <2>2. StepOK(x) /\ StepOK(y) /\ Precedes(x, y) /\ \A h \in holds : ~Needs(x, h) /\ ~Needs(y, h)
    BY <2>1 DEF StepOK, Precedes, Needs
  <2>3. x.op # "sweep" /\ y.op # "sweep"
    BY <2>1
  <2>4. Listed(<<x, y>>, holds)
    BY <2>2, <2>3, ListOfTwo, Zenon
  <2>. QED
    BY <2>1, <2>4, TwoSteps
<1>2. Listed(l, holds) /\ DOMAIN l = {1} /\ l[1] = done
  <2>1. StepOK(done) /\ \A h \in holds : ~Needs(done, h)
    BY DEF StepOK, Needs
  <2>2. Listed(<<done>>, holds)
    BY <2>1, ListOfOne
  <2>. QED
    BY <2>2, OneStep
<1>3. work' = z \o l
  BY DEF Submit
<1>4. z = p \o steps
  OBVIOUS
<1>. HIDE DEF p, z, l
<1>5. Listed(z, holds)
  <2>1. \A i \in DOMAIN p, j \in DOMAIN steps : Precedes(p[i], steps[j])
    BY <1>1 DEF Precedes, Listed
  <2>. QED
    BY <1>1, <1>4, <2>1, ListsJoin, Zenon
<1>6. Listed(work', holds)
  <2>1. \A i \in DOMAIN z, j \in DOMAIN l : Precedes(z[i], l[j])
    BY <1>2, <1>5 DEF Precedes, Listed
  <2>. QED
    BY <1>2, <1>3, <1>5, <2>1, ListsJoin, Zenon
<1>7. UNCHANGED <<venue, book, holds, holdSeq, funds, reg, tape>> /\ work = <<>>
  BY DEF Submit, Idle
<1>8. Config' = Config
  BY <1>7 DEF Config
<1>9. SweepsIn(work) = {}
  BY <1>7, NoStep DEF SweepsIn
<1>10. Size(book) <= Config.capacity
  BY DEF Inv, Fit, Room
<1>11. Fit(work', book, holds) /\ SweepsIn(work') = {}
  BY <1>6, <1>10, ListFits
<1>12. Fit(work, book, holds)' /\ SweepsIn(work)' = {}
  BY <1>7, <1>8, <1>11 DEF Fit, Room
<1>. QED
  BY <1>7, <1>9, <1>12 DEF Inv

LEMMA AnswerOp ==
  ASSUME NEW cmd, NEW id, NEW acct
  PROVE  Answer(cmd, id, acct).op = "answer"
  BY DEF Answer

LEMMA NewListed ==
  ASSUME NEW o, NewOrderOK(o), NEW u, u.op = "new", u.o = o, NEW H
  PROVE  StepOK(u) /\ u.op # "sweep" /\ \A h \in H : ~Needs(u, h)
  BY DEF StepOK, Needs

LEMMA VenueIs ==
  ASSUME venue \in DOMAIN Venues
  PROVE  /\ \A o \in Config.orders : NewOrderOK(o)
         /\ \A m \in Config.amends : m.id \in Ids /\ m.px \in 0..MaxPx /\ m.qty \in Nat \ {0}
         /\ \A q \in Config.quotes : /\ {q.bid, q.ask} \subseteq Ids
                                     /\ DOMAIN q.legs = 1..Len(q.legs) /\ Len(q.legs) \in Nat
                                     /\ \A i \in DOMAIN q.legs : NewOrderOK(q.legs[i])
  BY EngineAssumption DEF Config

(* The holds of an order are refused before it is pulled. *)
LEMMA PairListed ==
  ASSUME NEW id, NEW H, NEW u, u.op = "rejectFor", u.id = id, NEW v, v.op = "pull", v.id = id
  PROVE  Listed(<<u, v>>, H)
<1>1. /\ StepOK(u) /\ StepOK(v) /\ u.op # "sweep" /\ v.op # "sweep" /\ Precedes(u, v)
      /\ \A h \in H : ~Needs(u, h) /\ (Needs(v, h) => Clears(u, h))
  BY DEF StepOK, Precedes, Needs, Clears
<1>. QED
  BY <1>1, ListOfTwo, Zenon

LEMMA AccountListed ==
  ASSUME NEW a, NEW H, NEW u, u.op = "rejectForAccount", u.acct = a,
         NEW v, v.op = "pullAll", v.acct = a
  PROVE  Listed(<<u, v>>, H)
<1>1. /\ StepOK(u) /\ StepOK(v) /\ u.op # "sweep" /\ v.op # "sweep" /\ Precedes(u, v)
      /\ \A h \in H : ~Needs(u, h) /\ (Needs(v, h) => Clears(u, h))
  BY DEF StepOK, Precedes, Needs, Clears
<1>. QED
  BY <1>1, ListOfTwo, Zenon

LEMMA QuoteListed ==
  ASSUME NEW x, NEW y, NEW v, NEW w, x.op = "rejectFor", y.op = "rejectFor", v.op = "pull", w.op = "pull",
         v.id = x.id, w.id = y.id, NEW H
  PROVE  LET p == <<x, y, v, w>>
         IN  Listed(p, H) /\ \A i \in DOMAIN p : p[i].op \in {"rejectFor", "pull"}
<1>. DEFINE p == <<x, y, v, w>>
<1>1. IsSeq(p)
  <2>1. p \in Seq({x, y, v, w})
    OBVIOUS
  <2>. HIDE DEF p
  <2>. QED
    BY <2>1, InSeq
<1>2. DOMAIN p = 1..4 /\ p[1] = x /\ p[2] = y /\ p[3] = v /\ p[4] = w
  OBVIOUS
<1>. HIDE DEF p
<1>3. \A i \in DOMAIN p : i \in {1, 2, 3, 4}
  BY <1>2
<1>4. \A i \in DOMAIN p : p[i].op \in {"rejectFor", "pull"}
  BY <1>2, <1>3
<1>5. WorkOK(p) /\ \A i \in DOMAIN p : p[i].op # "sweep"
  BY <1>1, <1>4 DEF WorkOK, StepOK, Precedes
<1>6. Cleared(p, H)
  <2>1. SUFFICES ASSUME NEW i \in DOMAIN p, NEW h \in H, Needs(p[i], h)
                 PROVE  \E j \in DOMAIN p : j < i /\ Clears(p[j], h)
    BY DEF Cleared
  <2>2. CASE i = 1 \/ i = 2
    BY <1>2, <2>1, <2>2 DEF Needs
  <2>3. CASE i = 3
    <3>1. Clears(p[1], h)
      BY <1>2, <2>1, <2>3 DEF Needs, Clears
    <3>. QED
      BY <1>2, <2>3, <3>1
  <2>4. CASE i = 4
    <3>1. Clears(p[2], h)
      BY <1>2, <2>1, <2>4 DEF Needs, Clears
    <3>. QED
      BY <1>2, <2>4, <3>1
  <2>. QED
    BY <1>3, <2>2, <2>3, <2>4
<1>. QED
  BY <1>4, <1>5, <1>6 DEF Listed, p

LEMMA LegsListed ==
  ASSUME NEW legs, DOMAIN legs = 1..Len(legs), Len(legs) \in Nat,
         \A i \in DOMAIN legs : NewOrderOK(legs[i]), NEW H,
         NEW p, p = [i \in DOMAIN legs |-> [op |-> "new", o |-> legs[i]]]
  PROVE  Listed(p, H) /\ \A i \in DOMAIN p : p[i].op = "new"
<1>1. DOMAIN p = DOMAIN legs /\ \A i \in DOMAIN p : p[i].op = "new" /\ p[i].o = legs[i]
  OBVIOUS
<1>2. IsSeq(p)
  <2>. DEFINE S == {p[i] : i \in DOMAIN p}
  <2>1. p \in [1..Len(legs) -> S]
    BY <1>1
  <2>2. p \in Seq(S)
    BY <2>1
  <2>. QED
    BY <2>2 DEF IsSeq
<1>3. \A i \in DOMAIN p : StepOK(p[i]) /\ p[i].op # "sweep" /\ \A h \in H : ~Needs(p[i], h)
  BY <1>1 DEF StepOK, Needs
<1>4. \A i, j \in DOMAIN p : Precedes(p[i], p[j])
  BY <1>1 DEF Precedes
<1>. QED
  BY <1>1, <1>2, <1>3, <1>4 DEF Listed, WorkOK, Cleared

LEMMA SubmitNewKeeps == ASSUME Inv, SubmitNew PROVE Inv'
<1>1. PICK o \in Config.orders :
        Submit(<<[op |-> "new", o |-> o]>>, Answer("new", o.id, Owner[o.id]))
  BY DEF SubmitNew
<1>. DEFINE u == [op |-> "new", o |-> o]
<1>2. u.op = "new" /\ u.o = o /\ NewOrderOK(o)
  BY VenueIs DEF Inv
<1>. HIDE DEF u
<1>3. StepOK(u) /\ u.op # "sweep" /\ \A h \in holds : ~Needs(u, h)
  BY <1>2, NewListed
<1>4. Listed(<<u>>, holds)
  BY <1>3, ListOfOne, Zenon
<1>. QED
  BY <1>1, <1>4, AnswerOp, SubmitKeeps DEF u

LEMMA SubmitCancelKeeps == ASSUME Inv, SubmitCancel PROVE Inv'
<1>1. PICK id \in Ids : Submit(<<[op |-> "rejectFor", id |-> id], [op |-> "pull", id |-> id]>>,
                               Answer("cancel", id, Owner[id]))
  BY DEF SubmitCancel
<1>. DEFINE u == [op |-> "rejectFor", id |-> id]
            v == [op |-> "pull", id |-> id]
<1>2. u.op = "rejectFor" /\ u.id = id /\ v.op = "pull" /\ v.id = id
  OBVIOUS
<1>. HIDE DEF u, v
<1>3. Listed(<<u, v>>, holds)
  BY <1>2, PairListed, Zenon
<1>. QED
  BY <1>1, <1>3, AnswerOp, SubmitKeeps DEF u, v

LEMMA SubmitModifyKeeps == ASSUME Inv, SubmitModify PROVE Inv'
<1>1. PICK m \in Config.amends :
        Submit(<<[op |-> "modify", m |-> m]>>, Answer("modify", m.id, Owner[m.id]))
  BY DEF SubmitModify
<1>. DEFINE u == [op |-> "modify", m |-> m]
<1>2. u.op = "modify" /\ u.m = m /\ m.id \in Ids /\ m.px \in 0..MaxPx /\ m.qty \in Nat \ {0}
  BY VenueIs DEF Inv
<1>. HIDE DEF u
<1>3. StepOK(u) /\ u.op # "sweep" /\ \A h \in holds : ~Needs(u, h)
  BY <1>2 DEF StepOK, Needs
<1>4. Listed(<<u>>, holds)
  BY <1>3, ListOfOne, Zenon
<1>. QED
  BY <1>1, <1>4, AnswerOp, SubmitKeeps DEF u

LEMMA SubmitMassCancelKeeps == ASSUME Inv, SubmitMassCancel PROVE Inv'
<1>1. PICK a \in Accounts :
        Submit(<<[op |-> "rejectForAccount", acct |-> a], [op |-> "pullAll", acct |-> a]>>,
               Answer("massCancel", 0, a))
  BY DEF SubmitMassCancel
<1>. DEFINE u == [op |-> "rejectForAccount", acct |-> a]
            v == [op |-> "pullAll", acct |-> a]
<1>2. u.op = "rejectForAccount" /\ u.acct = a /\ v.op = "pullAll" /\ v.acct = a
  OBVIOUS
<1>. HIDE DEF u, v
<1>3. Listed(<<u, v>>, holds)
  BY <1>2, AccountListed, Zenon
<1>. QED
  BY <1>1, <1>3, AnswerOp, SubmitKeeps DEF u, v

LEMMA SubmitQuoteKeeps == ASSUME Inv, SubmitQuote PROVE Inv'
<1>. DEFINE x(q) == [op |-> "rejectFor", id |-> q.bid]
            y(q) == [op |-> "rejectFor", id |-> q.ask]
            v(q) == [op |-> "pull", id |-> q.bid]
            w(q) == [op |-> "pull", id |-> q.ask]
            p(q) == <<x(q), y(q), v(q), w(q)>>
            l(q) == [i \in DOMAIN q.legs |-> [op |-> "new", o |-> q.legs[i]]]
<1>1. PICK q \in Config.quotes : Submit(p(q) \o l(q), Answer("quote", q.bid, Owner[q.bid]))
  BY DEF SubmitQuote
<1>2. Listed(p(q), holds) /\ \A i \in DOMAIN p(q) : p(q)[i].op \in {"rejectFor", "pull"}
  <2>1. /\ x(q).op = "rejectFor" /\ y(q).op = "rejectFor" /\ v(q).op = "pull" /\ w(q).op = "pull"
        /\ v(q).id = x(q).id /\ w(q).id = y(q).id
    OBVIOUS
  <2>. HIDE DEF x, y, v, w
  <2>. QED
    BY <2>1, QuoteListed, Zenon
<1>3. Listed(l(q), holds) /\ \A i \in DOMAIN l(q) : l(q)[i].op = "new"
  <2>. DEFINE legs == q.legs
              z == [i \in DOMAIN legs |-> [op |-> "new", o |-> legs[i]]]
  <2>1. DOMAIN legs = 1..Len(legs) /\ Len(legs) \in Nat /\ \A i \in DOMAIN legs : NewOrderOK(legs[i])
    BY VenueIs DEF Inv
  <2>2. z = [i \in DOMAIN legs |-> [op |-> "new", o |-> legs[i]]] /\ l(q) = z
    OBVIOUS
  <2>. HIDE DEF legs, z, l
  <2>3. Listed(z, holds) /\ \A i \in DOMAIN z : z[i].op = "new"
    BY <2>1, <2>2, LegsListed, ZenonT(60)
  <2>. QED
    BY <2>2, <2>3
<1>. DEFINE z == p(q) \o l(q)
<1>4. z = p(q) \o l(q)
  OBVIOUS
<1>. HIDE DEF z, p, l
<1>5. Listed(z, holds)
  <2>1. \A i \in DOMAIN p(q), j \in DOMAIN l(q) : Precedes(p(q)[i], l(q)[j])
    BY <1>2, <1>3 DEF Precedes
  <2>. QED
    BY <1>2, <1>3, <1>4, <2>1, ListsJoin, Zenon
<1>6. Submit(z, Answer("quote", q.bid, Owner[q.bid]))
  BY <1>1, <1>4, Zenon
<1>. QED
  BY <1>5, <1>6, AnswerOp, SubmitKeeps, Zenon

LEMMA SubmitDecisionKeeps == ASSUME Inv, SubmitDecision PROVE Inv'
<1>1. PICK h \in holds, accept \in BOOLEAN :
        Submit(<<[op |-> "resolve", hid |-> h.hid, accept |-> accept]>>,
               Answer("decision", h.hid, Owner[h.maker]))
  BY DEF SubmitDecision
<1>. DEFINE u == [op |-> "resolve", hid |-> h.hid, accept |-> accept]
<1>2. u.op = "resolve"
  OBVIOUS
<1>. HIDE DEF u
<1>3. StepOK(u) /\ u.op # "sweep" /\ \A g \in holds : ~Needs(u, g)
  BY <1>2 DEF StepOK, Needs
<1>4. Listed(<<u>>, holds)
  BY <1>3, ListOfOne, Zenon
<1>. QED
  BY <1>1, <1>4, AnswerOp, SubmitKeeps DEF u

LEMMA SubmitTickKeeps == ASSUME Inv, SubmitTick PROVE Inv'
<1>1. Submit(<<>>, Answer("tick", 0, 0))
  BY DEF SubmitTick
<1>. QED
  BY <1>1, ListOfNone, AnswerOp, SubmitKeeps

LEMMA StepKeeps ==
  ASSUME Inv, venue' = venue, HoldsNumbered(holds', holdSeq'), RegOK(reg'), TapeOK(tape'),
         Sound(funds', book', holds', SweepsIn(work'), tape'.netted, {}, 0, {}),
         Fit(work', book', holds')
  PROVE  Inv'
<1>1. Config' = Config
  BY DEF Config
<1>2. Fit(work, book, holds)'
  BY <1>1 DEF Fit, Room
<1>. QED
  BY <1>2 DEF Inv

LEMMA AtWork ==
  ASSUME Inv, NEW op, Step(op)
  PROVE  /\ work # <<>> /\ Head(work) = work[1] /\ work[1].op = op /\ 1 \in DOMAIN work
         /\ WorkOK(work) /\ IsSeq(work) /\ StepOK(work[1])
<1>1. WorkOK(work) /\ work # <<>> /\ Head(work).op = op
  BY DEF Inv, Fit, Step
<1>. QED
  BY <1>1, FirstStep

LEMMA DoIs ==
  ASSUME NEW p, Do(p)
  PROVE  work' = Next1(work, p)
  BY DEF Do, Next1

(* A step that changes nothing but what is left of the command. *)
Still == UNCHANGED <<venue, book, holds, holdSeq, funds>>

LEMMA QuietKeeps ==
  ASSUME Inv, work # <<>>, work[1].op \notin {"rejectFor", "resolve", "sweep"}, Still, RegOK(reg'),
         TapeOK(tape'), tape'.netted = tape.netted, NEW p, Replaces(p, work[1], holds),
         work' = Next1(work, p)
  PROVE  Inv'
<1>1. Fit(work, book, holds) /\ Size(book) <= Config.capacity
  BY DEF Inv, Fit, Room
<1>2. Fit(Next1(work, p), book, holds) /\ SweepsIn(Next1(work, p)) = {} /\ SweepsIn(work) = {}
  BY <1>1, QuietFit
<1>. DEFINE z == Next1(work, p)
<1>3. Fit(z, book, holds) /\ SweepsIn(z) = SweepsIn(work) /\ work' = z
  BY <1>2
<1>. HIDE DEF z
<1>4. Fit(work', book, holds) /\ SweepsIn(work') = SweepsIn(work)
  BY <1>3
<1>5. Sound(funds, book, holds, SweepsIn(work), tape.netted, {}, 0, {}) /\ HoldsNumbered(holds, holdSeq)
  BY DEF Inv
<1>6. /\ venue' = venue /\ Fit(work', book', holds') /\ HoldsNumbered(holds', holdSeq')
      /\ Sound(funds', book', holds', SweepsIn(work'), tape'.netted, {}, 0, {})
  BY <1>4, <1>5 DEF Still
<1>. QED
  BY <1>6, StepKeeps

LEMMA BarKeeps ==
  ASSUME Inv, work # <<>>, work[1].op \in {"rejectFor", "resolve"}, Still, RegOK(reg'),
         TapeOK(tape'), tape'.netted = tape.netted, NEW p, Replaces(p, work[1], holds),
         \A i \in DOMAIN p, h \in holds : Clears(p[i], h) => Clears(work[1], h),
         work' = Next1(work, p)
  PROVE  Inv'
<1>1. Fit(work, book, holds) /\ Grown(book, book, {})
  BY GrownSame DEF Inv
<1>2. \A w \in SweepsIn(work) : w.o.id \notin {}
  OBVIOUS
<1>3. Fit(Next1(work, p), book, holds) /\ SweepsIn(Next1(work, p)) = SweepsIn(work)
  BY <1>1, <1>2, PushFit, SMTT(40)
<1>4. Fit(work', book, holds) /\ SweepsIn(work') = SweepsIn(work)
  BY <1>3
<1>5. Sound(funds, book, holds, SweepsIn(work), tape.netted, {}, 0, {}) /\ HoldsNumbered(holds, holdSeq)
  BY DEF Inv
<1>6. /\ venue' = venue /\ Fit(work', book', holds') /\ HoldsNumbered(holds', holdSeq')
      /\ Sound(funds', book', holds', SweepsIn(work'), tape'.netted, {}, 0, {})
  BY <1>4, <1>5 DEF Still
<1>. QED
  BY <1>6, StepKeeps

LEMMA NoneReplaces ==
  ASSUME NEW u, NEW G, \A h \in G : ~Clears(u, h)
  PROVE  Replaces(<<>>, u, G)
  BY NoStep DEF Replaces

LEMMA AnsweredKeeps == ASSUME Inv, Answered PROVE Inv'
<1>1. work # <<>> /\ work[1].op = "answer"
  BY AtWork DEF Answered
<1>2. Replaces(<<>>, work[1], holds)
  BY <1>1, NoneReplaces DEF Clears
<1>3. Still /\ RegOK(reg') /\ TapeOK(tape') /\ tape'.netted = tape.netted
  BY DEF Answered, Still, Inv, TapeOK
<1>4. work' = Next1(work, <<>>)
  BY DoIs DEF Answered, Done
<1>5. work[1].op \notin {"rejectFor", "resolve", "sweep"}
  BY <1>1
<1>. QED
  BY <1>1, <1>2, <1>3, <1>4, <1>5, QuietKeeps

LEMMA SameIs ==
  ASSUME Inv, reg' = reg, tape' = tape
  PROVE  RegOK(reg') /\ TapeOK(tape') /\ tape'.netted = tape.netted
  BY DEF Inv

(* The steps that resolve the holds in G take the place of u. *)
ResolvesFor(p, u, G, H) ==
  Replaces(p, u, H) /\ \A i \in DOMAIN p, h \in H : Clears(p[i], h) => h \in G

LEMMA ResolvesReplace ==
  ASSUME NEW H, HoldsOK(H), NEW m, HoldsNumbered(H, m), NEW G \in SUBSET H, NEW accept,
         NEW p, p = ResolveAll(G, accept),
         NEW u, u.op \in {"expireHolds", "rejectFor", "rejectForAccount"},
         \A h \in H : Clears(u, h) => h \in G
  PROVE  ResolvesFor(p, u, G, H)
<1>1. m \in Nat /\ \A h \in H : h.hid \in 1..m
  BY DEF HoldsNumbered
<1>2. /\ IsSeq(p) /\ \A i \in DOMAIN p : p[i].op = "resolve"
      /\ \A i \in DOMAIN p : \A h \in H : Clears(p[i], h) => h \in G
      /\ \A h \in G : \E i \in DOMAIN p : Clears(p[i], h)
  BY <1>1, ResolveAllIs
<1>3. ASSUME NEW i \in DOMAIN p
      PROVE  StepOK(p[i]) /\ Inherits(u, p[i]) /\ p[i].op # "sweep" /\ \A h \in H : ~Needs(p[i], h)
  BY <1>2 DEF StepOK, Inherits, Precedes, Needs
<1>4. \A i, j \in DOMAIN p : Precedes(p[i], p[j])
  BY <1>2 DEF Precedes
<1>. QED
  BY <1>2, <1>3, <1>4 DEF Replaces, ResolvesFor

LEMMA HoldsAre ==
  ASSUME Inv
  PROVE  HoldsOK(holds) /\ HoldsNumbered(holds, holdSeq)
  BY SoundBook DEF Inv

LEMMA ExpireHoldsKeeps == ASSUME Inv, ExpireHolds PROVE Inv'
<1>. DEFINE G == {h \in holds : now >= h.deadline}
            p == ResolveAll(G, Config.acceptOnTimeout)
<1>1. work # <<>> /\ work[1].op = "expireHolds"
  BY AtWork DEF ExpireHolds
<1>2. work' = Next1(work, p) /\ G \in SUBSET holds /\ p = ResolveAll(G, Config.acceptOnTimeout)
  BY DoIs DEF ExpireHolds
<1>. HIDE DEF G, p
<1>3. \A h \in holds : Clears(work[1], h) => h \in G
  BY <1>1 DEF Clears
<1>4. Replaces(p, work[1], holds)
  <2>1. work[1].op \in {"expireHolds", "rejectFor", "rejectForAccount"}
    BY <1>1
  <2>h. HoldsOK(holds) /\ HoldsNumbered(holds, holdSeq)
    BY HoldsAre
  <2>2. ResolvesFor(p, work[1], G, holds)
    BY <1>2, <1>3, <2>1, <2>h, ResolvesReplace, SMT
  <2>. QED
    BY <2>2 DEF ResolvesFor
<1>5. Still /\ RegOK(reg') /\ TapeOK(tape') /\ tape'.netted = tape.netted
  BY SameIs DEF ExpireHolds, Still
<1>6. work[1].op \notin {"rejectFor", "resolve", "sweep"}
  BY <1>1
<1>. QED
  BY <1>1, <1>2, <1>4, <1>5, <1>6, QuietKeeps

LEMMA RejectHoldsForKeeps == ASSUME Inv, RejectHoldsFor PROVE Inv'
<1>. DEFINE G == HoldsOf(holds, work[1].id)
            no == FALSE
            p == ResolveAll(G, no)
<1>1. work # <<>> /\ work[1].op = "rejectFor" /\ Head(work) = work[1]
  BY AtWork DEF RejectHoldsFor
<1>2. work' = Next1(work, p)
  BY <1>1, DoIs DEF RejectHoldsFor, RejectAll
<1>3. G \in SUBSET holds /\ \A h \in holds : Clears(work[1], h) <=> h \in G
  BY <1>1 DEF Clears, HoldsOf
<1>4. p = ResolveAll(G, no)
  OBVIOUS
<1>. HIDE DEF G, p, no
<1>5. Replaces(p, work[1], holds) /\ \A i \in DOMAIN p, h \in holds : Clears(p[i], h) => h \in G
  <2>1. work[1].op \in {"expireHolds", "rejectFor", "rejectForAccount"}
    BY <1>1
  <2>2. \A h \in holds : Clears(work[1], h) => h \in G
    BY <1>3
  <2>h. HoldsOK(holds) /\ HoldsNumbered(holds, holdSeq)
    BY HoldsAre
  <2>3. ResolvesFor(p, work[1], G, holds)
    BY <1>3, <1>4, <2>1, <2>2, <2>h, ResolvesReplace, SMT
  <2>. QED
    BY <2>3 DEF ResolvesFor
<1>6. \A i \in DOMAIN p, h \in holds : Clears(p[i], h) => Clears(work[1], h)
  BY <1>3, <1>5
<1>7. Still /\ RegOK(reg') /\ TapeOK(tape') /\ tape'.netted = tape.netted
  BY SameIs DEF RejectHoldsFor, Still
<1>8. work[1].op \in {"rejectFor", "resolve"}
  BY <1>1
<1>. QED
  BY <1>1, <1>2, <1>5, <1>6, <1>7, <1>8, BarKeeps

LEMMA RejectHoldsForAccountKeeps == ASSUME Inv, RejectHoldsForAccount PROVE Inv'
<1>. DEFINE G == {h \in holds : work[1].acct \in {Owner[h.maker], Owner[h.taker]}}
            no == FALSE
            p == ResolveAll(G, no)
<1>1. work # <<>> /\ work[1].op = "rejectForAccount" /\ Head(work) = work[1]
  BY AtWork DEF RejectHoldsForAccount
<1>2. work' = Next1(work, p)
  BY <1>1, DoIs DEF RejectHoldsForAccount, RejectAll
<1>3. G \in SUBSET holds /\ \A h \in holds : Clears(work[1], h) => h \in G
  BY <1>1 DEF Clears
<1>4. p = ResolveAll(G, no)
  OBVIOUS
<1>. HIDE DEF G, p, no
<1>5. Replaces(p, work[1], holds)
  <2>1. work[1].op \in {"expireHolds", "rejectFor", "rejectForAccount"}
    BY <1>1
  <2>h. HoldsOK(holds) /\ HoldsNumbered(holds, holdSeq)
    BY HoldsAre
  <2>2. ResolvesFor(p, work[1], G, holds)
    BY <1>3, <1>4, <2>1, <2>h, ResolvesReplace, SMT
  <2>. QED
    BY <2>2 DEF ResolvesFor
<1>7. Still /\ RegOK(reg') /\ TapeOK(tape') /\ tape'.netted = tape.netted
  BY SameIs DEF RejectHoldsForAccount, Still
<1>8. work[1].op \notin {"rejectFor", "resolve", "sweep"}
  BY <1>1
<1>. QED
  BY <1>1, <1>2, <1>5, <1>7, <1>8, QuietKeeps

LEMMA ResolveGoneKeeps == ASSUME Inv, ResolveGone PROVE Inv'
<1>1. work # <<>> /\ work[1].op = "resolve" /\ Head(work) = work[1]
  BY AtWork DEF ResolveGone
<1>2. work' = Next1(work, <<>>)
  BY DoIs DEF ResolveGone, Done
<1>3. \A h \in holds : ~Clears(work[1], h)
  BY <1>1 DEF Clears, ResolveGone
<1>4. Replaces(<<>>, work[1], holds)
  BY <1>3, NoneReplaces
<1>5. Still /\ RegOK(reg') /\ TapeOK(tape') /\ tape'.netted = tape.netted
  BY SameIs DEF ResolveGone, Still
<1>6. work[1].op \in {"rejectFor", "resolve"}
  BY <1>1
<1>7. \A i \in DOMAIN <<>>, h \in holds : Clears(<<>>[i], h) => Clears(work[1], h)
  BY NoStep
<1>. DEFINE p == <<>>
<1>8. /\ work' = Next1(work, p) /\ Replaces(p, work[1], holds)
      /\ \A i \in DOMAIN p, h \in holds : Clears(p[i], h) => Clears(work[1], h)
  BY <1>2, <1>4, <1>7
<1>. HIDE DEF p
<1>. QED
  BY <1>1, <1>5, <1>6, <1>8, BarKeeps

(* The holds of the order that sweeps are not resolved while it does. *)
LEMMA NotItsHold ==
  ASSUME NEW k, NEW b, NEW H, Fit(k, b, H), k # <<>>, k[1].op = "resolve", NEW h \in H, k[1].hid = h.hid
  PROVE  /\ \A w \in SweepsIn(k) : w.o.id \notin {h.maker, h.taker}
         /\ Idles(SweepsIn(k), h.maker) /\ Idles(SweepsIn(k), h.taker)
<1>1. 1 \in DOMAIN k /\ \A j \in DOMAIN k : j # 1 => j > 1
  BY FirstStep DEF Fit
<1>2. Clears(k[1], h)
  BY DEF Clears
<1>3. ASSUME NEW w \in SweepsIn(k), w.o.id \in {h.maker, h.taker} PROVE FALSE
  <2>1. PICK i \in DOMAIN k : k[i].op = "sweep" /\ w = k[i]
    BY <1>3 DEF SweepsIn
  <2>2. i > 1 /\ 1 < i
    BY <1>1, <2>1
  <2>3. h \in HoldsOf(H, k[i].o.id)
    BY <1>3, <2>1 DEF HoldsOf
  <2>. QED
    BY <1>1, <1>2, <2>1, <2>2, <2>3 DEF Fit, Apart
<1>. QED
  BY <1>3 DEF Idles

(* The hold is gone, the rest of the command goes on. *)
LEMMA ResolvedFit ==
  ASSUME NEW k, NEW b, NEW H, Fit(k, b, H), HoldsOK(H), k # <<>>, k[1].op = "resolve",
         NEW h \in H, k[1].hid = h.hid, NEW G, G = Without(H, h),
         NEW c, Grown(b, c, {h.maker, h.taker})
  PROVE  Fit(Next1(k, <<>>), c, G) /\ SweepsIn(Next1(k, <<>>)) = SweepsIn(k)
<1>1. G \in SUBSET H /\ h \notin G
  BY DEF Without
<1>2. \A g \in G : ~Clears(k[1], g)
  BY <1>1 DEF Clears, HoldsOK
<1>. DEFINE p == <<>>
            I == {h.maker, h.taker}
<1>3. Replaces(p, k[1], G) /\ DOMAIN p = {}
  BY <1>2, NoneReplaces, NoStep
<1>4. Grown(b, c, I) /\ \A w \in SweepsIn(k) : w.o.id \notin I
  BY NotItsHold
<1>5. k[1].op \in {"rejectFor", "resolve"}
  OBVIOUS
<1>. HIDE DEF p, I
<1>6. \A i \in DOMAIN p, g \in G : Clears(p[i], g) => Clears(k[1], g)
  BY <1>3
<1>7. Fit(Next1(k, p), c, G) /\ SweepsIn(Next1(k, p)) = SweepsIn(k)
  BY <1>1, <1>3, <1>4, <1>5, <1>6, PushFit
<1>. QED
  BY <1>7 DEF p

LEMMA AcceptHoldKeeps == ASSUME Inv, AcceptHold PROVE Inv'
<1>. DEFINE T(h) == TradeOf(h)
            C(h) == Cleanup(SettleTrade(funds, T(h)), reg, book, holds \ {h}, h.taker)
            D(h) == Cleanup(C(h).funds, C(h).reg, book, holds \ {h}, h.maker)
<1>1. PICK h \in holds :
        /\ Step("resolve") /\ Head(work).hid = h.hid /\ Done
        /\ funds' = D(h).funds /\ reg' = D(h).reg /\ tape' = OnTape(T(h))
        /\ holds' = holds \ {h} /\ UNCHANGED <<venue, book, holdSeq>>
  BY DEF AcceptHold, TradeOf
<1>2. work # <<>> /\ work[1].op = "resolve" /\ work[1].hid = h.hid
  BY <1>1, AtWork
<1>3. Fit(work, book, holds) /\ Sound(funds, book, holds, SweepsIn(work), tape.netted, {}, 0, {})
  BY DEF Inv
<1>4. Idles(SweepsIn(work), h.maker) /\ Idles(SweepsIn(work), h.taker)
  BY <1>2, <1>3, NotItsHold
<1>. DEFINE t == T(h)
            c == C(h)
            W == SweepsIn(work)
            n == tape.netted
<1>5. /\ t = TradeOf(h) /\ c = Cleanup(SettleTrade(funds, t), reg, book, holds \ {h}, h.taker)
      /\ D(h) = Cleanup(c.funds, c.reg, book, holds \ {h}, h.maker)
      /\ Sound(funds, book, holds, W, n, {}, 0, {}) /\ Idles(W, h.maker) /\ Idles(W, h.taker)
  BY <1>3, <1>4
<1>. HIDE DEF T, C, D, t, c, W, n
<1>6. /\ CanSettle(funds, t)
      /\ Sound(Cleanup(c.funds, c.reg, book, holds \ {h}, h.maker).funds, book, holds \ {h}, W, n, {}, 0, {})
  BY <1>5, AcceptSound, Zenon
<1>7. Sound(funds', book', holds', W, n, {}, 0, {})
  <2>1. funds' = Cleanup(c.funds, c.reg, book, holds \ {h}, h.maker).funds
    BY <1>1, <1>5, Zenon
  <2>. QED
    BY <1>1, <1>6, <2>1
<1>8. TapeOK(tape') /\ tape'.netted = n
  <2>1. TapeOK(OnTape(t)) /\ OnTape(t).netted = tape.netted
    BY <1>6, OnTapeIs DEF Inv
  <2>. QED
    BY <1>1, <2>1 DEF n, t
<1>9. RegOK(reg')
  <2>1. RegOK(c.reg)
    BY <1>5, CleanupReg DEF Inv
  <2>2. RegOK(D(h).reg)
    BY <1>5, <2>1, CleanupReg
  <2>. QED
    BY <1>1, <2>2
<1>10. Fit(work', book', holds') /\ SweepsIn(work') = W
  <2>. DEFINE G == holds'
  <2>1. G = Without(holds, h)
    BY <1>1 DEF Without
  <2>2. Grown(book, book, {h.maker, h.taker}) /\ HoldsOK(holds)
    BY GrownSame, HoldsAre
  <2>3. work' = Next1(work, <<>>)
    BY <1>1, DoIs DEF Done
  <2>. HIDE DEF G
  <2>4. Fit(Next1(work, <<>>), book, G) /\ SweepsIn(Next1(work, <<>>)) = SweepsIn(work)
    BY <1>2, <1>3, <2>1, <2>2, ResolvedFit
  <2>. QED
    BY <1>1, <2>3, <2>4 DEF G, W
<1>11. HoldsNumbered(holds', holdSeq') /\ venue' = venue
  BY <1>1 DEF Inv, HoldsNumbered
<1>. QED
  BY <1>7, <1>8, <1>9, <1>10, <1>11, StepKeeps

DeskFields == {"book", "funds", "reg", "tape", "md"}

(* What a restore leaves of the registers and of the tape. *)
DeskOK(s, n) == RegOK(s.reg) /\ TapeOK(s.tape) /\ s.tape.netted = n

LEMMA RestoredTape ==
  ASSUME NEW t, TapeOK(t), NEW R, NEW u, u = [t EXCEPT !.restored = @ \cup R]
  PROVE  TapeOK(u) /\ u.netted = t.netted
  BY DEF TapeOK

LEMMA RefusedDesk ==
  ASSUME NEW s, NEW n, DeskOK(s, n), NEW id, NEW q
  PROVE  DeskOK(Refused(s, id, q), n)
<1>. DEFINE f == ReleaseHeldLeg(s.funds, id, q, IsResting(s.book, id))
            g == IF Reserved(s.funds, id) /\ ~Reserved(f, id) THEN Forget(s.reg, id) ELSE s.reg
            z == Refused(s, id, q)
<1>1. z.reg = g /\ z.tape = Bury(s.tape, id, q)
  BY DEF Refused, Desk
<1>2. RegOK(g)
  BY ForgetIs DEF DeskOK
<1>3. TapeOK(Bury(s.tape, id, q)) /\ Bury(s.tape, id, q).netted = n
  BY BuryIs DEF DeskOK
<1>. QED
  BY <1>1, <1>2, <1>3 DEF DeskOK

LEMMA CombineDesk ==
  ASSUME NEW s, NEW n, DeskOK(s, n), NEW r, NEW side
  PROVE  DeskOK(Combine(s, r, side), n) /\ DeskOK(Rebuild(s, r, side), n)
         /\ DOMAIN Rebuild(s, r, side) = DeskFields
<1>. DEFINE u == [s.tape EXCEPT !.restored = @ \cup {r.id}]
<1>1. TapeOK(u) /\ u.netted = n
  BY RestoredTape DEF DeskOK
<1>2. /\ Combine(s, r, side).reg = s.reg /\ Combine(s, r, side).tape = u
      /\ Rebuild(s, r, side).reg = s.reg /\ Rebuild(s, r, side).tape = u
      /\ DOMAIN Rebuild(s, r, side) = DeskFields
  BY DEF Combine, Rebuild, Desk, DeskFields
<1>. HIDE DEF u
<1>. QED
  BY <1>1, <1>2 DEF DeskOK

LEMMA MakerDesk ==
  ASSUME NEW s, NEW n, DeskOK(s, n), NEW h
  PROVE  DeskOK(RestoreMaker(s, h), n)
<1>. DEFINE side == Opposite(h.side)
            r == Find(s.book, h.maker)
            x == [r EXCEPT !.leaves = @ + h.qty, !.cum = @ - h.qty]
            back == Rebuild(s, Plain(h.maker, h.px, h.qty, h.makerCum, TRUE), side)
            z == [back EXCEPT !.md = OnModified(@, h.maker, h.px, h.qty),
                              !.tape = IF Shows(s.md, h.maker) THEN @ ELSE Mute(@, h.maker)]
<1>1. CASE IsResting(s.book, h.maker)
  <2>1. RestoreMaker(s, h) = Combine(s, x, side)
    BY <1>1 DEF RestoreMaker
  <2>. HIDE DEF x, side
  <2>. QED
    BY <2>1, CombineDesk
<1>2. CASE ~IsResting(s.book, h.maker) /\ Full(s.book)
  <2>1. RestoreMaker(s, h) = Refused(s, h.maker, h.qty)
    BY <1>2 DEF RestoreMaker
  <2>. QED
    BY <2>1, RefusedDesk
<1>3. CASE ~IsResting(s.book, h.maker) /\ ~Full(s.book)
  <2>1. RestoreMaker(s, h) = z
    BY <1>3 DEF RestoreMaker
  <2>2. DeskOK(back, n) /\ DOMAIN back = DeskFields
    BY CombineDesk
  <2>. HIDE DEF back
  <2>3. z.reg = back.reg /\ z.tape = IF Shows(s.md, h.maker) THEN back.tape ELSE Mute(back.tape, h.maker)
    BY <2>2 DEF DeskFields
  <2>4. TapeOK(Mute(back.tape, h.maker)) /\ Mute(back.tape, h.maker).netted = n
    BY <2>2, MuteIs DEF DeskOK
  <2>. HIDE DEF z
  <2>. QED
    BY <2>1, <2>2, <2>3, <2>4 DEF DeskOK
<1>. QED
  BY <1>1, <1>2, <1>3

LEMMA AdoptIs ==
  ASSUME NEW g, RegOK(g), NEW h, h.taker \in Ids
  PROVE  RegOK(Adopt(g, h))
<1>. DEFINE k == Track(g, h.taker, g.stp[h.taker])
<1>1. RegOK(k)
  BY TrackIs
<1>. HIDE DEF k
<1>2. RegOK([k EXCEPT !.expiry[h.taker] = h.exp])
  BY <1>1, ExpiryIs
<1>. QED
  BY <1>1, <1>2 DEF Adopt, k

LEMMA TakerDesk ==
  ASSUME NEW s, NEW n, DeskOK(s, n), NEW h, h.taker \in Ids
  PROVE  DeskOK(RestoreTaker(s, h), n)
<1>. DEFINE rests == ~h.mkt /\ h.tif \in {"GTC", "GTD"}
            r == Find(s.book, h.taker)
            x == [r EXCEPT !.leaves = @ + h.qty]
            back == Rebuild(s, Plain(h.taker, h.takerPx, h.qty, h.takerCum, FALSE), h.side)
            z == [back EXCEPT !.reg = Adopt(@, h),
                              !.md = OnAccepted(@, h.taker, h.side, h.takerPx, h.qty)]
<1>1. CASE rests /\ IsResting(s.book, h.taker)
  <2>1. RestoreTaker(s, h) = Combine(s, x, h.side)
    BY <1>1 DEF RestoreTaker
  <2>. HIDE DEF x
  <2>. QED
    BY <2>1, CombineDesk
<1>2. CASE rests /\ ~IsResting(s.book, h.taker) /\ ~Full(s.book)
  <2>1. RestoreTaker(s, h) = z
    BY <1>2 DEF RestoreTaker
  <2>2. DeskOK(back, n) /\ DOMAIN back = DeskFields
    BY CombineDesk
  <2>. HIDE DEF back
  <2>3. z.reg = Adopt(back.reg, h) /\ z.tape = back.tape
    BY <2>2 DEF DeskFields
  <2>4. RegOK(Adopt(back.reg, h))
    BY <2>2, AdoptIs DEF DeskOK
  <2>. HIDE DEF z
  <2>. QED
    BY <2>1, <2>2, <2>3, <2>4 DEF DeskOK
<1>3. CASE ~(rests /\ IsResting(s.book, h.taker)) /\ ~(rests /\ ~IsResting(s.book, h.taker) /\ ~Full(s.book))
  <2>1. RestoreTaker(s, h) = Refused(s, h.taker, h.qty)
    BY <1>3 DEF RestoreTaker
  <2>. QED
    BY <2>1, RefusedDesk
<1>. QED
  BY <1>1, <1>2, <1>3

LEMMA RejectHoldKeeps == ASSUME Inv, RejectHold PROVE Inv'
<1>. DEFINE s == Desk(book, funds, reg, tape, md)
            Z(h) == RestoreTaker(RestoreMaker(s, h), h)
            C(h) == Cleanup(Z(h).funds, Z(h).reg, Z(h).book, holds \ {h}, h.taker)
            D(h) == Cleanup(C(h).funds, C(h).reg, Z(h).book, holds \ {h}, h.maker)
<1>1. PICK h \in holds :
        /\ Step("resolve") /\ Head(work).hid = h.hid /\ Done
        /\ book' = Z(h).book /\ funds' = D(h).funds /\ reg' = D(h).reg /\ tape' = Z(h).tape
        /\ holds' = holds \ {h} /\ UNCHANGED <<venue, holdSeq>>
  BY DEF RejectHold
<1>2. work # <<>> /\ work[1].op = "resolve" /\ work[1].hid = h.hid
  BY <1>1, AtWork
<1>3. Fit(work, book, holds) /\ Sound(funds, book, holds, SweepsIn(work), tape.netted, {}, 0, {})
  BY DEF Inv
<1>4. Idles(SweepsIn(work), h.maker) /\ Idles(SweepsIn(work), h.taker)
  BY <1>2, <1>3, NotItsHold
<1>. DEFINE z == Z(h)
            c == C(h)
            W == SweepsIn(work)
            n == tape.netted
<1>5. s.book = book /\ s.funds = funds /\ s.reg = reg /\ s.tape = tape
  BY DEF Desk
<1>6. /\ z = RestoreTaker(RestoreMaker(s, h), h)
      /\ c = Cleanup(z.funds, z.reg, z.book, holds \ {h}, h.taker)
      /\ D(h) = Cleanup(c.funds, c.reg, z.book, holds \ {h}, h.maker)
      /\ Sound(s.funds, s.book, holds, W, n, {}, 0, {}) /\ Idles(W, h.maker) /\ Idles(W, h.taker)
  BY <1>3, <1>4, <1>5
<1>7. book' = z.book /\ tape' = z.tape /\ h.taker \in Ids /\ n = tape.netted /\ Config.capacity \in Nat
  <2>1. HoldOK(h)
    BY HoldsAre DEF HoldsOK
  <2>. QED
    BY <1>1, <2>1, CapacityIs DEF HoldOK, Inv
<1>. HIDE DEF s, Z, C, D, z, c, W, n
<1>8. /\ Sound(Cleanup(c.funds, c.reg, z.book, holds \ {h}, h.maker).funds, z.book, holds \ {h}, W, n,
               {}, 0, {})
      /\ Grown(s.book, z.book, {h.maker, h.taker})
  BY <1>6, <1>7, RejectSound, Zenon
<1>9. Sound(funds', book', holds', W, n, {}, 0, {})
  <2>1. funds' = Cleanup(c.funds, c.reg, z.book, holds \ {h}, h.maker).funds
    BY <1>1, <1>6, Zenon
  <2>. QED
    BY <1>1, <1>7, <1>8, <2>1
<1>10. DeskOK(z, n)
  <2>1. DeskOK(s, n)
    BY <1>5, <1>7 DEF DeskOK, Inv
  <2>2. DeskOK(RestoreMaker(s, h), n)
    BY <2>1, MakerDesk
  <2>. QED
    BY <1>6, <1>7, <2>2, TakerDesk
<1>11. TapeOK(tape') /\ tape'.netted = n
  BY <1>7, <1>10 DEF DeskOK
<1>12. RegOK(reg')
  <2>1. RegOK(c.reg)
    BY <1>6, <1>10, CleanupReg DEF DeskOK
  <2>2. RegOK(D(h).reg)
    BY <1>6, <2>1, CleanupReg
  <2>. QED
    BY <1>1, <2>2
<1>13. Fit(work', book', holds') /\ SweepsIn(work') = W
  <2>. DEFINE G == holds'
              x == z.book
  <2>1. G = Without(holds, h)
    BY <1>1 DEF Without
  <2>2. Grown(book, x, {h.maker, h.taker}) /\ HoldsOK(holds)
    BY <1>5, <1>8, HoldsAre
  <2>3. work' = Next1(work, <<>>)
    BY <1>1, DoIs DEF Done
  <2>. HIDE DEF G, x
  <2>4. Fit(Next1(work, <<>>), x, G) /\ SweepsIn(Next1(work, <<>>)) = SweepsIn(work)
    BY <1>2, <1>3, <2>1, <2>2, ResolvedFit
  <2>. QED
    BY <1>1, <1>7, <2>3, <2>4 DEF G, W, x
<1>14. HoldsNumbered(holds', holdSeq') /\ venue' = venue
  BY <1>1 DEF Inv, HoldsNumbered
<1>. QED
  BY <1>9, <1>11, <1>12, <1>13, <1>14, StepKeeps

LEMMA EachReplaces ==
  ASSUME NEW op, NEW ids, IsFiniteSet(ids), ids \in SUBSET Nat, NEW p, p = ForEach(op, ids),
         NEW u, NEW G, op \in {"expire", "pull"}, u.op \in {"expireOrders", "pullAll"},
         \A h \in G, id \in ids : op = "pull" => id \notin {h.maker, h.taker}
  PROVE  Replaces(p, u, G)
<1>1. IsSeq(p) /\ \A i \in DOMAIN p : p[i].op = op /\ p[i].id \in ids
  BY ForEachIs
<1>2. ASSUME NEW i \in DOMAIN p
      PROVE  StepOK(p[i]) /\ Inherits(u, p[i]) /\ p[i].op # "sweep" /\ \A h \in G : ~Needs(p[i], h)
  BY <1>1 DEF StepOK, Inherits, Precedes, Needs
<1>3. \A i, j \in DOMAIN p : Precedes(p[i], p[j])
  BY <1>1 DEF Precedes
<1>4. \A h \in G : ~Clears(u, h)
  BY DEF Clears
<1>. QED
  BY <1>1, <1>2, <1>3, <1>4 DEF Replaces

LEMMA IdsFinite ==
  ASSUME NEW ids \in SUBSET Ids
  PROVE  IsFiniteSet(ids) /\ ids \in SUBSET Nat
  BY EngineAssumption, FS_Subset

LEMMA ExpireOrdersKeeps == ASSUME Inv, ExpireOrders PROVE Inv'
<1>. DEFINE ids == {id \in Ids : reg.expiry[id] > 0 /\ now >= reg.expiry[id]}
            op == "expire"
            p == ForEach(op, ids)
<1>1. work # <<>> /\ work[1].op = "expireOrders"
  BY AtWork DEF ExpireOrders
<1>2. work' = Next1(work, p) /\ ids \in SUBSET Ids /\ p = ForEach(op, ids) /\ op = "expire"
  BY DoIs DEF ExpireOrders
<1>. HIDE DEF ids, p, op
<1>3. Replaces(p, work[1], holds)
  <2>1. \A h \in holds, id \in ids : op = "pull" => id \notin {h.maker, h.taker}
    BY <1>2
  <2>2. op \in {"expire", "pull"} /\ work[1].op \in {"expireOrders", "pullAll"}
    BY <1>1, <1>2
  <2>. QED
    BY <1>2, <2>1, <2>2, IdsFinite, EachReplaces
<1>4. Still /\ RegOK(reg') /\ TapeOK(tape') /\ tape'.netted = tape.netted
  BY SameIs DEF ExpireOrders, Still
<1>5. work[1].op \notin {"rejectFor", "resolve", "sweep"}
  BY <1>1
<1>. QED
  BY <1>1, <1>2, <1>3, <1>4, <1>5, QuietKeeps

(* Nothing is before the first step: the holds it wants gone are gone. *)
LEMMA FirstNeedsNone ==
  ASSUME Inv, work # <<>>, NEW h \in holds
  PROVE  ~Needs(work[1], h)
<1>1. 1 \in DOMAIN work /\ \A j \in DOMAIN work : j # 1 => j > 1
  BY FirstStep DEF Inv, Fit
<1>2. \A j \in DOMAIN work : ~(j < 1)
  <2>1. Len(work) \in Nat /\ DOMAIN work = 1..Len(work)
    BY SeqShape DEF Inv, Fit, WorkOK
  <2>. QED
    BY <2>1
<1>. QED
  BY <1>1, <1>2 DEF Inv, Fit, Cleared

LEMMA PullAllKeeps == ASSUME Inv, PullAll PROVE Inv'
<1>. DEFINE ids == {id \in reg.tracked : Owner[id] = work[1].acct}
            op == "pull"
            p == ForEach(op, ids)
<1>1. work # <<>> /\ work[1].op = "pullAll" /\ Head(work) = work[1]
  BY AtWork DEF PullAll
<1>2. work' = Next1(work, p) /\ p = ForEach(op, ids) /\ op = "pull"
  BY <1>1, DoIs DEF PullAll
<1>3. ids \in SUBSET Ids /\ \A id \in ids : Owner[id] = work[1].acct
  BY DEF Inv, RegOK
<1>. HIDE DEF ids, p, op
<1>4. Replaces(p, work[1], holds)
  <2>1. ASSUME NEW h \in holds, NEW id \in ids, id \in {h.maker, h.taker} PROVE FALSE
    <3>1. Needs(work[1], h)
      BY <1>1, <1>3, <2>1 DEF Needs
    <3>. QED
      BY <1>1, <3>1, FirstNeedsNone
  <2>2. op \in {"expire", "pull"} /\ work[1].op \in {"expireOrders", "pullAll"}
    BY <1>1, <1>2
  <2>3. \A h \in holds, id \in ids : op = "pull" => id \notin {h.maker, h.taker}
    BY <2>1
  <2>. QED
    BY <1>2, <1>3, <2>2, <2>3, IdsFinite, EachReplaces
<1>5. Still /\ RegOK(reg') /\ TapeOK(tape') /\ tape'.netted = tape.netted
  BY SameIs DEF PullAll, Still
<1>6. work[1].op \notin {"rejectFor", "resolve", "sweep"}
  BY <1>1
<1>. QED
  BY <1>1, <1>2, <1>4, <1>5, <1>6, QuietKeeps

LEMMA PairReplaces ==
  ASSUME NEW u, NEW v, NEW x, NEW G, Listed(<<u, v>>, G), Inherits(x, u), Inherits(x, v),
         \A h \in G : ~Clears(x, h)
  PROVE  Replaces(<<u, v>>, x, G)
<1>. DEFINE p == <<u, v>>
<1>1. IsSeq(p) /\ DOMAIN p = 1..2 /\ p[1] = u /\ p[2] = v
  BY TwoSteps
<1>2. Listed(p, G)
  OBVIOUS
<1>. HIDE DEF p
<1>3. \A i \in DOMAIN p : Inherits(x, p[i])
  BY <1>1
<1>4. Replaces(p, x, G)
  BY <1>1, <1>2, <1>3 DEF Replaces, Listed, WorkOK, Cleared
<1>. QED
  BY <1>4 DEF p

LEMMA ExpireOrderKeeps == ASSUME Inv, ExpireOrder PROVE Inv'
<1>. DEFINE id == work[1].id
            u == [op |-> "rejectFor", id |-> id]
            v == [op |-> "pull", id |-> id]
            p == <<u, v>>
<1>1. work # <<>> /\ work[1].op = "expire" /\ Head(work) = work[1]
  BY AtWork DEF ExpireOrder
<1>2. work' = Next1(work, p) /\ u.op = "rejectFor" /\ u.id = id /\ v.op = "pull" /\ v.id = id
  BY <1>1, DoIs DEF ExpireOrder
<1>3. p = <<u, v>>
  OBVIOUS
<1>4. RegOK(reg')
  <2>1. reg' = [reg EXCEPT !.expiry[id] = 0] /\ RegOK(reg)
    BY <1>1 DEF ExpireOrder, Inv
  <2>. HIDE DEF id
  <2>. QED
    BY <2>1, ExpiryIs
<1>. HIDE DEF id, u, v, p
<1>5. Listed(<<u, v>>, holds)
  BY <1>2, PairListed, Zenon
<1>6. Inherits(work[1], u) /\ Inherits(work[1], v) /\ \A h \in holds : ~Clears(work[1], h)
  BY <1>1, <1>2 DEF Inherits, Precedes, Clears
<1>7. Replaces(p, work[1], holds)
  BY <1>3, <1>5, <1>6, PairReplaces
<1>8. Still /\ TapeOK(tape') /\ tape'.netted = tape.netted
  BY DEF ExpireOrder, Still, Inv
<1>9. work[1].op \notin {"rejectFor", "resolve", "sweep"}
  BY <1>1
<1>. QED
  BY <1>1, <1>2, <1>4, <1>7, <1>8, <1>9, QuietKeeps

LEMMA ModifyKeeps == ASSUME Inv, Modify PROVE Inv'
<1>. DEFINE m == work[1].m
            u == [op |-> "rejectFor", id |-> m.id]
            v == [op |-> "amend", m |-> m]
            p == <<u, v>>
<1>1. work # <<>> /\ work[1].op = "modify" /\ Head(work) = work[1] /\ StepOK(work[1])
  BY AtWork DEF Modify
<1>2. work' = Next1(work, p) \/ work' = Next1(work, <<>>)
  BY <1>1, DoIs DEF Modify, Done
<1>3. p = <<u, v>> /\ u.op = "rejectFor" /\ u.id = m.id /\ v.op = "amend" /\ v.m = m
  OBVIOUS
<1>4. m.id \in Ids /\ m.px \in 0..MaxPx /\ m.qty \in Nat \ {0}
  BY <1>1 DEF StepOK
<1>. HIDE DEF m, u, v, p
<1>5. Listed(<<u, v>>, holds)
  <2>1. /\ StepOK(u) /\ StepOK(v) /\ u.op # "sweep" /\ v.op # "sweep" /\ Precedes(u, v)
        /\ \A h \in holds : ~Needs(u, h) /\ (Needs(v, h) => Clears(u, h))
    BY <1>3, <1>4 DEF StepOK, Precedes, Needs, Clears
  <2>. QED
    BY <2>1, ListOfTwo, Zenon
<1>6. Inherits(work[1], u) /\ Inherits(work[1], v) /\ \A h \in holds : ~Clears(work[1], h)
  BY <1>1, <1>3 DEF Inherits, Precedes, Clears
<1>7. Replaces(p, work[1], holds)
  BY <1>3, <1>5, <1>6, PairReplaces
<1>8. Replaces(<<>>, work[1], holds)
  BY <1>6, NoneReplaces
<1>9. Still /\ RegOK(reg') /\ TapeOK(tape') /\ tape'.netted = tape.netted
  BY SameIs DEF Modify, Still
<1>10. work[1].op \notin {"rejectFor", "resolve", "sweep"}
  BY <1>1
<1>. QED
  BY <1>1, <1>2, <1>7, <1>8, <1>9, <1>10, QuietKeeps

LEMMA RefuseNewKeeps == ASSUME Inv, RefuseNew PROVE Inv'
<1>1. work # <<>> /\ work[1].op = "new"
  BY AtWork DEF RefuseNew
<1>2. Replaces(<<>>, work[1], holds)
  BY <1>1, NoneReplaces DEF Clears
<1>3. Still /\ RegOK(reg') /\ TapeOK(tape') /\ tape'.netted = tape.netted
  BY SameIs DEF RefuseNew, Still
<1>4. work' = Next1(work, <<>>)
  BY DoIs DEF RefuseNew, Done
<1>5. work[1].op \notin {"rejectFor", "resolve", "sweep"}
  BY <1>1
<1>. QED
  BY <1>1, <1>2, <1>3, <1>4, <1>5, QuietKeeps

LEMMA AmendUnknownKeeps == ASSUME Inv, AmendUnknown PROVE Inv'
<1>1. work # <<>> /\ work[1].op = "amend"
  BY AtWork DEF AmendUnknown
<1>2. Replaces(<<>>, work[1], holds)
  BY <1>1, NoneReplaces DEF Clears
<1>3. Still /\ RegOK(reg') /\ TapeOK(tape') /\ tape'.netted = tape.netted
  BY SameIs DEF AmendUnknown, Still
<1>4. work' = Next1(work, <<>>)
  BY DoIs DEF AmendUnknown, Done
<1>5. work[1].op \notin {"rejectFor", "resolve", "sweep"}
  BY <1>1
<1>. QED
  BY <1>1, <1>2, <1>3, <1>4, <1>5, QuietKeeps

LEMMA PullKeeps == ASSUME Inv, Pull PROVE Inv'
<1>. DEFINE id == work[1].id
            W == SweepsIn(work)
            n == tape.netted
<1>1. work # <<>> /\ work[1].op = "pull" /\ Head(work) = work[1]
  BY AtWork DEF Pull
<1>2. Replaces(<<>>, work[1], holds)
  BY <1>1, NoneReplaces DEF Clears
<1>3. work' = Next1(work, <<>>) /\ UNCHANGED <<venue, holds, holdSeq>>
  BY DoIs DEF Pull, Done
<1>4. work[1].op \notin {"rejectFor", "resolve", "sweep"}
  BY <1>1
<1>5. CASE ~IsResting(book, id)
  <2>1. UNCHANGED <<book, funds, reg, tape>>
    BY <1>1, <1>5 DEF Pull
  <2>2. Still /\ RegOK(reg') /\ TapeOK(tape') /\ tape'.netted = tape.netted
    BY <1>3, <2>1, SameIs DEF Still
  <2>. QED
    BY <1>1, <1>2, <1>3, <1>4, <2>2, QuietKeeps
<1>6. CASE IsResting(book, id)
  <2>1. /\ book' = Cancel(book, id) /\ funds' = ReleaseReservation(funds, id)
        /\ reg' = Forget(reg, id) /\ tape' = Bury(tape, id, Total(Find(book, id)))
    BY <1>1, <1>6 DEF Pull
  <2>2. HoldsOf(holds, id) = {}
    <3>1. \A h \in holds : id \notin {h.maker, h.taker}
      BY <1>1, FirstNeedsNone DEF Needs
    <3>. QED
      BY <3>1 DEF HoldsOf
  <2>3. W = {} /\ Sound(funds, book, holds, W, n, {}, 0, {})
    BY <1>1, <1>4, NoSweepBehind DEF Inv, Fit
  <2>4. Idles(W, id)
    BY <2>3 DEF Idles
  <2>. HIDE DEF id, W, n
  <2>. DEFINE c == Cancel(book, id)
              g == ReleaseReservation(funds, id)
  <2>5. Sound(g, c, holds, W, n, {}, 0, {}) /\ Shed(book, c, id)
    BY <1>6, <2>2, <2>3, <2>4, PullSound
  <2>6. book' = c /\ funds' = g
    BY <2>1
  <2>. HIDE DEF c, g
  <2>7. Size(c) <= Config.capacity
    <3>1. Size(book) <= Config.capacity /\ Config.capacity \in Nat
      BY CapacityIs DEF Inv, Fit, Room
    <3>2. Size(book) \in Nat
      BY <2>3, SoundBook
    <3>. QED
      BY <2>5, <3>1, <3>2 DEF Shed
  <2>8. Fit(Next1(work, <<>>), c, holds) /\ SweepsIn(Next1(work, <<>>)) = {}
    BY <1>1, <1>2, <1>4, <2>7, QuietFit DEF Inv
  <2>9. Fit(work', book', holds') /\ SweepsIn(work') = W
    BY <1>3, <2>3, <2>6, <2>8
  <2>10. RegOK(reg') /\ TapeOK(tape') /\ tape'.netted = n
    BY <2>1, ForgetIs, BuryIs DEF Inv, n
  <2>11. HoldsNumbered(holds', holdSeq') /\ venue' = venue
    BY <1>3 DEF Inv
  <2>12. Sound(funds', book', holds', SweepsIn(work'), tape'.netted, {}, 0, {})
    BY <1>3, <2>5, <2>6, <2>9, <2>10
  <2>. QED
    BY <2>9, <2>10, <2>11, <2>12, StepKeeps
<1>. QED
  BY <1>5, <1>6

(* What is left of the command, once it has come to its order. *)
LEMMA Handled ==
  ASSUME Inv, NEW op, Step(op)
  PROVE  /\ Sound(funds, book, holds, SweepsIn(work), tape.netted, {}, 0, {})
         /\ Size(book) <= Config.capacity /\ Config.capacity \in Nat /\ Size(book) \in Nat
         /\ RegOK(reg) /\ TapeOK(tape) /\ HoldsNumbered(holds, holdSeq)
         /\ op \notin {"rejectFor", "resolve", "sweep"} => SweepsIn(work) = {}
<1>1. work # <<>> /\ work[1].op = op /\ WorkOK(work)
  BY AtWork
<1>2. Sound(funds, book, holds, SweepsIn(work), tape.netted, {}, 0, {})
  BY DEF Inv
<1>3. Size(book) \in Nat
  BY <1>2, SoundBook
<1>. QED
  BY <1>1, <1>2, <1>3, NoSweepBehind, CapacityIs DEF Inv, Fit, Room

LEMMA SweepShape ==
  ASSUME NEW o, o.id \in Ids, o.side \in Sides, o.px \in 1..MaxPx, o.vis \in Nat, o.qty \in Nat,
         NEW prior, NEW amended, NEW u, u = Sweep(o, prior, amended)
  PROVE  SweepOK(u) /\ u.op = "sweep" /\ u.o = o /\ u.left = o.qty
  BY DEF Sweep, SweepOK

LEMMA AcceptNewKeeps == ASSUME Inv, AcceptNew PROVE Inv'
<1>. DEFINE o == work[1].o
            no == FALSE
            u == Sweep(o, 0, no)
            t == Fresh(tape, o.id)
            n == t.netted
<1>1. work # <<>> /\ work[1].op = "new" /\ Head(work) = work[1] /\ StepOK(work[1]) /\ WorkOK(work)
  BY AtWork DEF AcceptNew
<1>2. NewOrderOK(o)
  BY <1>1 DEF StepOK
<1>3. /\ ~IsResting(book, o.id) /\ HoldsOf(holds, o.id) = {} /\ CanReserve(funds, o)
      /\ funds' = ReserveFunds(funds, o) /\ tape' = Enter(t, o) /\ work' = Next1(work, <<u>>)
      /\ UNCHANGED <<venue, book, holds, holdSeq, reg>>
  BY <1>1, DoIs DEF AcceptNew
<1>4. /\ Sound(funds, book, holds, {}, tape.netted, {}, 0, {})
      /\ Size(book) <= Config.capacity /\ RegOK(reg) /\ TapeOK(tape) /\ HoldsNumbered(holds, holdSeq)
  <2>1. Step("new")
    BY DEF AcceptNew
  <2>. DEFINE op == "new"
  <2>2. Step(op) /\ op \notin {"rejectFor", "resolve", "sweep"}
    BY <2>1
  <2>. HIDE DEF op
  <2>. QED
    BY <2>2, Handled
<1>5. o.id \notin DOMAIN funds.rsv
  BY <1>3, <1>4 DEF Sound, Backed, Needed, Present
<1>6. SweepOK(u) /\ u.op = "sweep" /\ u.o = o /\ u.left = o.qty
  <2>1. u = Sweep(o, 0, no)
    OBVIOUS
  <2>. HIDE DEF u, no
  <2>. QED
    BY <1>2, <2>1, SweepShape DEF NewOrderOK
<1>7. TapeOK(t) /\ n \in [Ids -> Nat] /\ \A j \in Ids : j # o.id => n[j] = tape.netted[j]
  BY <1>2, <1>4, NettedIs, FreshIs DEF NewOrderOK
<1>8. OrderIn(o) /\ o.vis \in Nat
  BY <1>2 DEF NewOrderOK, OrderIn
<1>. HIDE DEF o, u, t, n, no
<1>9. Sound(funds, book, holds, {}, n, {}, 0, {})
  <2>1. IsRsv(funds.rsv) /\ tape.netted \in [Ids -> Nat]
    BY <1>4, SoundBook, NettedIs
  <2>2. \A j \in DOMAIN funds.rsv : n[j] >= tape.netted[j]
    BY <1>5, <1>7, <2>1 DEF IsRsv
  <2>. QED
    BY <1>4, <1>7, <2>2, Renet
<1>10. Sound(ReserveFunds(funds, o), book, holds, {u}, n, {}, 0, {})
  BY <1>3, <1>5, <1>6, <1>8, <1>9, EnterSound
<1>11. TapeOK(tape') /\ tape'.netted = n
  BY <1>3, <1>7, EnterIs DEF n
<1>12. Fit(Next1(work, <<u>>), book, holds) /\ SweepsIn(Next1(work, <<u>>)) = {u}
  <2>1. ~IsResting(book, u.o.id) /\ HoldsOf(holds, u.o.id) = {}
    BY <1>3, <1>6
  <2>2. work[1].op \in {"sweep", "new", "amend"}
    BY <1>1
  <2>3. \A h \in HoldsOf(holds, u.o.id) :
          h.taker = u.o.id /\ (u.o.stp # "None" => Scope[Owner[h.maker]] # Scope[Owner[h.taker]])
    BY <2>1
  <2>. QED
    BY <1>1, <1>4, <1>6, <2>1, <2>2, <2>3, LateSweep
<1>13. Fit(work', book', holds') /\ SweepsIn(work') = {u}
  BY <1>3, <1>12
<1>14. Sound(funds', book', holds', SweepsIn(work'), tape'.netted, {}, 0, {})
  BY <1>3, <1>10, <1>11, <1>13
<1>15. RegOK(reg') /\ HoldsNumbered(holds', holdSeq') /\ venue' = venue
  BY <1>3, <1>4
<1>. QED
  BY <1>11, <1>13, <1>14, <1>15, StepKeeps

(* An amend is looked at when nothing of the order is on hold any more. *)
LEMMA AmendIs ==
  ASSUME Inv, Step("amend"), IsResting(book, Head(work).m.id)
  PROVE  LET m == work[1].m
             r == Find(book, m.id)
         IN  /\ work # <<>> /\ work[1].op = "amend" /\ Head(work) = work[1] /\ WorkOK(work)
             /\ m.id \in Ids /\ m.px \in 0..MaxPx /\ m.qty \in Nat \ {0}
             /\ HoldsOf(holds, m.id) = {} /\ IsResting(book, m.id)
             /\ Sound(funds, book, holds, {}, tape.netted, {}, 0, {})
             /\ Size(book) <= Config.capacity /\ Config.capacity \in Nat /\ Size(book) \in Nat
             /\ RegOK(reg) /\ TapeOK(tape) /\ HoldsNumbered(holds, holdSeq)
             /\ r \in On(book, SideOf(book, m.id)) /\ r.id = m.id /\ SideOf(book, m.id) \in Sides
             /\ OrderOK(r)
<1>. DEFINE m == work[1].m
            op == "amend"
<1>1. work # <<>> /\ work[1].op = "amend" /\ Head(work) = work[1] /\ StepOK(work[1]) /\ WorkOK(work)
  BY AtWork
<1>2. m.id \in Ids /\ m.px \in 0..MaxPx /\ m.qty \in Nat \ {0} /\ IsResting(book, m.id)
  BY <1>1 DEF StepOK
<1>3. HoldsOf(holds, m.id) = {}
  <2>1. \A h \in holds : m.id \notin {h.maker, h.taker}
    BY <1>1, FirstNeedsNone DEF Needs
  <2>. QED
    BY <2>1 DEF HoldsOf
<1>4. /\ Sound(funds, book, holds, {}, tape.netted, {}, 0, {})
      /\ Size(book) <= Config.capacity /\ Config.capacity \in Nat /\ Size(book) \in Nat
      /\ RegOK(reg) /\ TapeOK(tape) /\ HoldsNumbered(holds, holdSeq)
  <2>1. Step(op) /\ op \notin {"rejectFor", "resolve", "sweep"}
    OBVIOUS
  <2>. HIDE DEF op
  <2>. QED
    BY <2>1, Handled
<1>. HIDE DEF m
<1>5. \E s \in Sides : /\ Find(book, m.id) \in On(book, s) /\ Find(book, m.id).id = m.id
                       /\ SideOf(book, m.id) = s /\ OrderOK(Find(book, m.id))
  BY <1>2, <1>4, RestingOrder
<1>. QED
  BY <1>1, <1>2, <1>3, <1>4, <1>5 DEF m

LEMMA AmendInPlaceKeeps == ASSUME Inv, AmendInPlace PROVE Inv'
<1>. DEFINE m == work[1].m
            r == Find(book, m.id)
            s == SideOf(book, m.id)
            c == Reduce(book, r.id, m.qty)
            n == tape.netted
            f == ReleaseReservationPro(funds, r.id, Total(r), m.qty)
<1>1. Step("amend") /\ IsResting(book, Head(work).m.id) /\ work' = Next1(work, <<>>)
      /\ UNCHANGED <<venue, holds, holdSeq, reg>>
  BY DoIs DEF AmendInPlace, Done
<1>2. /\ work # <<>> /\ work[1].op = "amend" /\ Head(work) = work[1] /\ WorkOK(work)
      /\ m.id \in Ids /\ m.qty \in Nat \ {0} /\ HoldsOf(holds, m.id) = {}
      /\ Sound(funds, book, holds, {}, n, {}, 0, {}) /\ Size(book) <= Config.capacity
      /\ RegOK(reg) /\ TapeOK(tape) /\ HoldsNumbered(holds, holdSeq)
      /\ r \in On(book, s) /\ r.id = m.id /\ s \in Sides /\ OrderOK(r)
  BY <1>1, AmendIs
<1>3. /\ KeepsItsPlace(m, r) /\ book' = Reduce(book, m.id, m.qty)
      /\ funds' = ReleaseReservationPro(funds, m.id, r.leaves, m.qty)
      /\ tape' = Bury(tape, m.id, r.leaves - m.qty)
  BY <1>2 DEF AmendInPlace
<1>4. m.qty \in 1..r.leaves /\ r.hidden = 0 /\ Total(r) = r.leaves
  BY <1>2, <1>3 DEF KeepsItsPlace, OrderOK, Total
<1>5. book' = c /\ funds' = f
  BY <1>2, <1>3, <1>4
<1>. HIDE DEF m, r, s, n
<1>6. BookOK(book)
  BY <1>2, SoundBook
<1>7. Sized(book, c, s, r, m.qty) /\ m.qty \in 1..Total(r)
  BY <1>2, <1>4, <1>6, ReduceKeeps
<1>8. HoldsOf(holds, r.id) = {} /\ \A w \in {} : w.o.id # r.id
  BY <1>2
<1>. DEFINE q == m.qty
            W == {}
<1>9. /\ Sound(funds, book, holds, W, n, {}, 0, {}) /\ \A w \in W : w.o.id # r.id
      /\ q \in 1..Total(r) /\ Sized(book, c, s, r, q) /\ f = ReleaseReservationPro(funds, r.id, Total(r), q)
  BY <1>2, <1>7, <1>8
<1>. HIDE DEF c, f, q, W
<1>10. Sound(ReleaseReservationPro(funds, r.id, Total(r), q), c, holds, W, n, {}, 0, {})
  BY <1>2, <1>8, <1>9, ReduceSound
<1>11. Sound(f, c, holds, {}, n, {}, 0, {})
  BY <1>9, <1>10 DEF W
<1>12. Size(c) <= Config.capacity
  <2>1. Size(c) = Size(book)
    BY <1>9 DEF Sized
  <2>. QED
    BY <1>2, <2>1
<1>13. work[1].op \in {"sweep", "new", "modify", "amend"}
  BY <1>2
<1>14. Fit(Next1(work, <<>>), c, holds) /\ SweepsIn(Next1(work, <<>>)) = {}
  BY <1>2, <1>12, <1>13, LateEnd
<1>15. Fit(work', book', holds') /\ SweepsIn(work') = {}
  BY <1>1, <1>5, <1>14
<1>16. TapeOK(tape') /\ tape'.netted = n
  BY <1>2, <1>3, BuryIs DEF n
<1>17. Sound(funds', book', holds', SweepsIn(work'), tape'.netted, {}, 0, {})
  BY <1>1, <1>5, <1>11, <1>15, <1>16
<1>18. RegOK(reg') /\ HoldsNumbered(holds', holdSeq') /\ venue' = venue
  BY <1>1, <1>2
<1>. QED
  BY <1>15, <1>16, <1>17, <1>18, StepKeeps

LEMMA AmendReenterKeeps == ASSUME Inv, AmendReenter PROVE Inv'
<1>. DEFINE m == work[1].m
            r == Find(book, m.id)
            o == Amended(m, r)
            freed == ReleaseReservation(funds, m.id)
            out == Bury(tape, m.id, Total(r))
            c == Cancel(book, m.id)
            n == tape.netted
            yes == TRUE
            u == Sweep(o, r.cum, yes)
<1>1. Step("amend") /\ IsResting(book, Head(work).m.id) /\ UNCHANGED <<venue, holds, holdSeq>>
  BY DEF AmendReenter
<1>2. /\ work # <<>> /\ work[1].op = "amend" /\ Head(work) = work[1] /\ WorkOK(work)
      /\ m.id \in Ids /\ m.px \in 0..MaxPx /\ m.qty \in Nat \ {0} /\ HoldsOf(holds, m.id) = {}
      /\ Sound(funds, book, holds, {}, n, {}, 0, {}) /\ IsResting(book, m.id)
      /\ Size(book) <= Config.capacity /\ Config.capacity \in Nat /\ Size(book) \in Nat
      /\ RegOK(reg) /\ TapeOK(tape) /\ HoldsNumbered(holds, holdSeq)
      /\ r \in On(book, SideOf(book, m.id)) /\ r.id = m.id /\ SideOf(book, m.id) \in Sides /\ OrderOK(r)
  BY <1>1, AmendIs
<1>3. /\ book' = c
      /\ \/ /\ funds' = freed /\ reg' = Forget(reg, m.id) /\ tape' = Mute(out, m.id)
            /\ work' = Next1(work, <<>>)
         \/ /\ CanReserve(freed, o)
            /\ funds' = ReserveFunds(freed, o) /\ reg' = reg /\ tape' = Enter(out, o)
            /\ work' = Next1(work, <<u>>)
  BY <1>2, DoIs DEF AmendReenter, Done
<1>4. OrderIn(o) /\ o.vis \in Nat /\ o.id = m.id
  BY <1>2 DEF OrderIn, Amended, OrderOK
<1>5. TapeOK(out) /\ out.netted = n
  BY <1>2, BuryIs
<1>6. SweepOK(u) /\ u.op = "sweep" /\ u.o = o /\ u.left = o.qty
  <2>1. u = Sweep(o, r.cum, yes)
    OBVIOUS
  <2>. HIDE DEF u, yes, o
  <2>. QED
    BY <1>4, <2>1, SweepShape DEF OrderIn
<1>. DEFINE W == {}
<1>7. Sound(freed, c, holds, W, n, {}, 0, {}) /\ Shed(book, c, m.id) /\ m.id \notin DOMAIN freed.rsv
  <2>1. Idles(W, m.id) /\ Sound(funds, book, holds, W, n, {}, 0, {})
    BY <1>2 DEF Idles
  <2>. HIDE DEF W, m, n
  <2>. QED
    BY <1>2, <2>1, PullSound
<1>8. Sound(freed, c, holds, {}, n, {}, 0, {}) /\ Size(c) <= Config.capacity /\ ~IsResting(c, m.id)
  BY <1>2, <1>7 DEF Shed
<1>. HIDE DEF m, r, o, freed, out, c, n, yes, u, W
<1>9. HoldsNumbered(holds', holdSeq') /\ venue' = venue /\ holds' = holds
  BY <1>1, <1>2
<1>10. CASE /\ funds' = freed /\ reg' = Forget(reg, m.id) /\ tape' = Mute(out, m.id)
            /\ work' = Next1(work, <<>>)
  <2>1. work[1].op \in {"sweep", "new", "modify", "amend"}
    BY <1>2
  <2>2. Fit(Next1(work, <<>>), c, holds) /\ SweepsIn(Next1(work, <<>>)) = {}
    BY <1>2, <1>8, <2>1, LateEnd
  <2>3. Fit(work', book', holds') /\ SweepsIn(work') = {}
    BY <1>3, <1>9, <1>10, <2>2
  <2>4. TapeOK(tape') /\ tape'.netted = n /\ RegOK(reg')
    BY <1>2, <1>5, <1>10, MuteIs, ForgetIs
  <2>5. Sound(funds', book', holds', SweepsIn(work'), tape'.netted, {}, 0, {})
    BY <1>3, <1>8, <1>9, <1>10, <2>3, <2>4
  <2>. QED
    BY <1>9, <2>3, <2>4, <2>5, StepKeeps
<1>11. CASE /\ CanReserve(freed, o)
            /\ funds' = ReserveFunds(freed, o) /\ reg' = reg /\ tape' = Enter(out, o)
            /\ work' = Next1(work, <<u>>)
  <2>1. Sound(ReserveFunds(freed, o), c, holds, {u}, n, {}, 0, {})
    BY <1>2, <1>4, <1>6, <1>7, <1>8, <1>11, EnterSound
  <2>2. ~IsResting(c, u.o.id) /\ HoldsOf(holds, u.o.id) = {}
    BY <1>2, <1>4, <1>6, <1>8
  <2>3. work[1].op \in {"sweep", "new", "amend"}
    BY <1>2
  <2>4. \A h \in HoldsOf(holds, u.o.id) :
          h.taker = u.o.id /\ (u.o.stp # "None" => Scope[Owner[h.maker]] # Scope[Owner[h.taker]])
    BY <2>2
  <2>5. Fit(Next1(work, <<u>>), c, holds) /\ SweepsIn(Next1(work, <<u>>)) = {u}
    BY <1>2, <1>6, <1>8, <2>2, <2>3, <2>4, LateSweep, SMTT(40)
  <2>6. Fit(work', book', holds') /\ SweepsIn(work') = {u}
    BY <1>3, <1>9, <1>11, <2>5
  <2>7. TapeOK(tape') /\ tape'.netted = n /\ RegOK(reg')
    BY <1>2, <1>5, <1>11, EnterIs
  <2>8. Sound(funds', book', holds', SweepsIn(work'), tape'.netted, {}, 0, {})
    BY <1>3, <1>9, <1>11, <2>1, <2>6, <2>7
  <2>. QED
    BY <1>9, <2>6, <2>7, <2>8, StepKeeps
<1>. QED
  BY <1>3, <1>10, <1>11

(* The holds of an order that sweeps are with strangers. *)
Strangers(H, w) ==
  \A h \in HoldsOf(H, w.o.id) :
    h.taker = w.o.id /\ (w.o.stp # "None" => Scope[Owner[h.maker]] # Scope[Owner[h.taker]])

HasRoom(H, w, b) ==
  HoldsOf(H, w.o.id) # {} /\ w.left > 0 /\ ~w.dead => Size(b) < Config.capacity \/ Meets(b, w.o)

(* The engine sweeps with w. *)
Sweeping(w) ==
  /\ work # <<>> /\ work[1] = w /\ Head(work) = w /\ w.op = "sweep" /\ WorkOK(work) /\ SweepOK(w)
  /\ SweepsIn(work) = {w} /\ Sound(funds, book, holds, {w}, tape.netted, {}, 0, {})
  /\ ~IsResting(book, w.o.id) /\ Strangers(holds, w) /\ HasRoom(holds, w, book)
  /\ Size(book) <= Config.capacity /\ Config.capacity \in Nat /\ Size(book) \in Nat
  /\ RegOK(reg) /\ TapeOK(tape) /\ HoldsNumbered(holds, holdSeq)

LEMMA SweepAt ==
  ASSUME Inv, Step("sweep")
  PROVE  Sweeping(work[1])
<1>. DEFINE op == "sweep"
<1>0. Step(op) /\ op = "sweep"
  OBVIOUS
<1>. HIDE DEF op
<1>1. work # <<>> /\ Head(work) = work[1] /\ work[1].op = op /\ 1 \in DOMAIN work /\ WorkOK(work)
  BY <1>0, AtWork
<1>2. /\ Sound(funds, book, holds, SweepsIn(work), tape.netted, {}, 0, {})
      /\ Size(book) <= Config.capacity /\ Config.capacity \in Nat /\ Size(book) \in Nat
      /\ RegOK(reg) /\ TapeOK(tape) /\ HoldsNumbered(holds, holdSeq)
  BY <1>0, Handled
<1>3. SweepsIn(work) = {work[1]} /\ SweepOK(work[1])
  BY <1>0, <1>1, SweepFirst
<1>4. ~IsResting(book, work[1].o.id) /\ Strangers(holds, work[1])
  BY <1>0, <1>1 DEF Inv, Fit, Apart, Strangers
<1>5. HasRoom(holds, work[1], book)
  BY <1>0, <1>1 DEF Inv, Fit, Room, HasRoom
<1>6. Sound(funds, book, holds, {work[1]}, tape.netted, {}, 0, {})
  BY <1>2, <1>3, Zenon
<1>. QED
  BY <1>0, <1>1, <1>2, <1>3, <1>4, <1>5, <1>6 DEF Sweeping

LEMMA MarketIs ==
  ASSUME NEW w, Sweeping(w), Marketable(w), NEW r, r = Maker
  PROVE  /\ w.left > 0 /\ ~w.dead /\ book[Opposite(w.o.side)] # <<>> /\ r = Head(book[Opposite(w.o.side)])
         /\ Crosses(w.o, r.px) /\ Opposite(w.o.side) \in Sides /\ r \in On(book, Opposite(w.o.side))
         /\ OrderOK(r) /\ r.id # w.o.id /\ IsResting(book, r.id) /\ BookOK(book)
<1>1. BookOK(book) /\ w.o.side \in Sides /\ Opposite(w.o.side) \in Sides
  BY SoundBook DEF Sweeping, SweepOK, Opposite, Sides
<1>2. /\ w.left > 0 /\ ~w.dead /\ book[Opposite(w.o.side)] # <<>>
      /\ r = Head(book[Opposite(w.o.side)]) /\ Crosses(w.o, r.px)
  BY DEF Marketable, Maker, Sweeping
<1>3. r \in On(book, Opposite(w.o.side)) /\ OrderOK(r)
  BY <1>1, <1>2, HeadIs
<1>4. IsResting(book, r.id)
  BY <1>1, <1>3, OrderIs
<1>. QED
  BY <1>1, <1>2, <1>3, <1>4 DEF Sweeping

(* A sweep that finds nothing to take has nobody in its reach. *)
LEMMA SweptOut ==
  ASSUME NEW w, Sweeping(w), ~Marketable(w), w.left > 0, ~w.dead
  PROVE  ~Meets(book, w.o)
<1>. DEFINE s == Opposite(w.o.side)
<1>1. BookOK(book) /\ w.o.side \in Sides /\ s \in Sides
  BY SoundBook DEF Sweeping, SweepOK, Opposite, Sides
<1>2. SUFFICES ASSUME NEW r \in On(book, s), Crosses(w.o, r.px) PROVE FALSE
  BY DEF Meets
<1>3. book[s] # <<>>
  BY <1>2, NoStep DEF On
<1>4. Head(book[s]) \in On(book, s) /\ Ahead(s, Head(book[s]).px, r.px) /\ OrderOK(Head(book[s]))
  BY <1>1, <1>2, <1>3, HeadIs
<1>5. OrderOK(r)
  BY <1>1, <1>2, OrderIs
<1>6. Crosses(w.o, Head(book[s]).px)
  <2>1. r.px \in Nat /\ Head(book[s]).px \in Nat
    BY <1>4, <1>5 DEF OrderOK
  <2>2. w.o.px \in Nat
    BY DEF Sweeping, SweepOK
  <2>. DEFINE x == Head(book[s]).px
  <2>3. Ahead(s, x, r.px) /\ x \in Nat
    BY <1>4, <2>1
  <2>. HIDE DEF x
  <2>4. Crosses(w.o, x)
    BY <1>1, <1>2, <2>1, <2>2, <2>3 DEF Crosses, Ahead, s, Opposite, Sides
  <2>. QED
    BY <2>4 DEF x
<1>. QED
  BY <1>3, <1>6 DEF Marketable, Maker, Sweeping

(* What a maker leaves behind: itself at its price, or a free place. *)
LEMMA RoomAfter ==
  ASSUME NEW b, BookOK(b), NEW o, NEW s, s = Opposite(o.side), s \in Sides, NEW r \in On(b, s),
         Crosses(o, r.px), NEW t, NEW c, Sized(b, c, s, r, t)
  PROVE  /\ Size(c) <= Size(b) /\ (Size(c) < Size(b) \/ Meets(c, o))
         /\ \A j : j # r.id => (IsResting(c, j) <=> IsResting(b, j))
<1>1. Size(b) \in Nat /\ BookOK(c)
  BY SizeType DEF Sized
<1>2. CASE Becomes(b, c, s, r.id, {}) /\ Size(c) = Size(b) - 1
  BY <1>1, <1>2, RestAfter
<1>3. CASE \E n : n.px = r.px /\ Becomes(b, c, s, r.id, {n}) /\ Size(c) = Size(b)
  <2>1. PICK n : n.px = r.px /\ Becomes(b, c, s, r.id, {n}) /\ Size(c) = Size(b)
    BY <1>3
  <2>2. n \in On(c, s)
    BY <2>1 DEF Becomes
  <2>3. Meets(c, o)
    BY <2>1, <2>2 DEF Meets
  <2>. QED
    BY <1>1, <2>1, <2>3, RestAfter
<1>. QED
  BY <1>2, <1>3 DEF Sized

(* The sweep goes on with u. *)
LEMMA SweepOn ==
  ASSUME NEW w, Sweeping(w), NEW u, SweepOK(u), u.op = "sweep", u.o = w.o,
         NEW c, Size(c) <= Config.capacity, ~IsResting(c, w.o.id),
         NEW G, Strangers(G, w), HasRoom(G, u, c)
  PROVE  Fit(Next1(work, <<u>>), c, G) /\ SweepsIn(Next1(work, <<u>>)) = {u}
<1>1. WorkOK(work) /\ work # <<>> /\ work[1].op \in {"sweep", "new", "amend"}
  BY DEF Sweeping
<1>2. \A h \in HoldsOf(G, u.o.id) :
        h.taker = u.o.id /\ (u.o.stp # "None" => Scope[Owner[h.maker]] # Scope[Owner[h.taker]])
  BY DEF Strangers
<1>3. HoldsOf(G, u.o.id) # {} /\ u.left > 0 /\ ~u.dead => Size(c) < Config.capacity \/ Meets(c, u.o)
  BY DEF HasRoom
<1>4. ~IsResting(c, u.o.id)
  OBVIOUS
<1>. QED
  BY <1>1, <1>2, <1>3, <1>4, LateSweep

(* The sweep is over. *)
LEMMA SweepEnds ==
  ASSUME NEW w, Sweeping(w), NEW c, Size(c) <= Config.capacity, NEW G
  PROVE  Fit(Next1(work, <<>>), c, G) /\ SweepsIn(Next1(work, <<>>)) = {}
<1>1. WorkOK(work) /\ work # <<>> /\ work[1].op \in {"sweep", "new", "modify", "amend"}
  BY DEF Sweeping
<1>. QED
  BY <1>1, LateEnd

LEMMA StpRelieveKeeps == ASSUME Inv, StpRelieve PROVE Inv'
<1>. DEFINE w == work[1]
            r == Maker
            x == [op |-> "rejectFor", id |-> r.id]
            z == <<x>> \o work
<1>1. Sweeping(w) /\ Head(work) = w
  BY SweepAt DEF StpRelieve, Sweeping
<1>2. Marketable(w) /\ SameScope(w.o, r) /\ work' = z /\ UNCHANGED <<venue, book, holds, holdSeq, funds, reg, tape>>
  BY <1>1 DEF StpRelieve
<1>3. r = Maker /\ x.op = "rejectFor" /\ x.id = r.id /\ z = Prepend(x, work)
  BY DEF Prepend
<1>. HIDE DEF w, r, x, z
<1>4. /\ w.left > 0 /\ ~w.dead /\ Crosses(w.o, r.px) /\ r \in On(book, Opposite(w.o.side))
      /\ r.id # w.o.id
  BY <1>1, <1>2, <1>3, MarketIs
<1>5. Meets(book, w.o)
  BY <1>4 DEF Meets
<1>6. ASSUME NEW h \in HoldsOf(holds, w.o.id), Clears(x, h) PROVE FALSE
  <2>1. r.id \in {h.maker, h.taker}
    BY <1>3, <1>6 DEF Clears
  <2>2. h.taker = w.o.id /\ (w.o.stp # "None" => Scope[Owner[h.maker]] # Scope[Owner[h.taker]])
    BY <1>1 DEF Sweeping, Strangers
  <2>. QED
    BY <1>2, <1>4, <2>1, <2>2 DEF SameScope
<1>7. Fit(work, book, holds) /\ Sound(funds, book, holds, SweepsIn(work), tape.netted, {}, 0, {})
      /\ HoldsNumbered(holds, holdSeq) /\ RegOK(reg) /\ TapeOK(tape)
  BY DEF Inv
<1>8. Fit(z, book, holds) /\ SweepsIn(z) = SweepsIn(work)
  <2>1. work # <<>> /\ work[1] = w /\ w.op = "sweep"
    BY <1>1 DEF Sweeping
  <2>2. /\ work[1].op = "sweep" /\ work[1].left > 0 /\ ~work[1].dead /\ Meets(book, work[1].o)
        /\ \A h \in HoldsOf(holds, work[1].o.id) : ~Clears(x, h)
    BY <1>4, <1>5, <1>6, <2>1
  <2>. QED
    BY <1>3, <1>7, <2>1, <2>2, RelieveFit, SMTT(30)
<1>9. /\ Fit(work', book', holds') /\ Sound(funds', book', holds', SweepsIn(work'), tape'.netted, {}, 0, {})
      /\ HoldsNumbered(holds', holdSeq') /\ RegOK(reg') /\ TapeOK(tape') /\ venue' = venue
  BY <1>2, <1>7, <1>8
<1>. QED
  BY <1>9, StepKeeps

LEMMA SweepFilledKeeps == ASSUME Inv, SweepFilled PROVE Inv'
<1>. DEFINE w == work[1]
            n == tape.netted
<1>1. Sweeping(w) /\ Head(work) = w
  BY SweepAt DEF SweepFilled, SweepOver, Sweeping
<1>2. /\ w.left = 0 /\ ~w.dead /\ work' = Next1(work, <<>>)
      /\ UNCHANGED <<venue, book, holds, holdSeq, funds, reg, tape>>
  BY <1>1, DoIs DEF SweepFilled, Done
<1>3. Sound(funds, book, holds, {w}, n, {}, 0, {}) /\ Size(book) <= Config.capacity
      /\ HoldsNumbered(holds, holdSeq) /\ RegOK(reg) /\ TapeOK(tape)
  BY <1>1 DEF Sweeping
<1>. HIDE DEF w, n
<1>4. Sound(funds, book, holds, {}, n, {}, 0, {})
  BY <1>2, <1>3, FilledSound
<1>5. Fit(Next1(work, <<>>), book, holds) /\ SweepsIn(Next1(work, <<>>)) = {}
  BY <1>1, <1>3, SweepEnds
<1>6. /\ Fit(work', book', holds') /\ Sound(funds', book', holds', SweepsIn(work'), tape'.netted, {}, 0, {})
      /\ HoldsNumbered(holds', holdSeq') /\ RegOK(reg') /\ TapeOK(tape') /\ venue' = venue
  BY <1>2, <1>3, <1>4, <1>5 DEF n
<1>. QED
  BY <1>6, StepKeeps

LEMMA ForgetIfIs ==
  ASSUME NEW g, RegOK(g), NEW a, NEW id, NEW k, k = IF a THEN Forget(g, id) ELSE g
  PROVE  RegOK(k)
  BY ForgetIs

LEMMA KillResidualKeeps == ASSUME Inv, KillResidual PROVE Inv'
<1>. DEFINE w == work[1]
            n == tape.netted
            g == ReleaseReservationExceptHeld(funds, w.o.id, HeldQtyFor(holds, w.o.id))
<1>1. Sweeping(w) /\ Head(work) = w
  BY SweepAt DEF KillResidual, SweepOver, Sweeping
<1>2. /\ funds' = g /\ reg' = (IF w.amended THEN Forget(reg, w.o.id) ELSE reg)
      /\ tape' = Bury(tape, w.o.id, w.left) /\ work' = Next1(work, <<>>)
      /\ UNCHANGED <<venue, book, holds, holdSeq>>
  BY <1>1, DoIs DEF KillResidual, Done
<1>3. Sound(funds, book, holds, {w}, n, {}, 0, {}) /\ Size(book) <= Config.capacity
      /\ HoldsNumbered(holds, holdSeq) /\ RegOK(reg) /\ TapeOK(tape) /\ ~IsResting(book, w.o.id)
  BY <1>1 DEF Sweeping
<1>4. g = ReleaseReservationExceptHeld(funds, w.o.id, HeldQtyFor(holds, w.o.id))
  OBVIOUS
<1>. HIDE DEF w, n, g
<1>5. Sound(g, book, holds, {}, n, {}, 0, {})
  BY <1>3, <1>4, KillSound
<1>6. Fit(Next1(work, <<>>), book, holds) /\ SweepsIn(Next1(work, <<>>)) = {}
  BY <1>1, <1>3, SweepEnds
<1>7. RegOK(reg')
  BY <1>2, <1>3, ForgetIfIs
<1>8. TapeOK(tape') /\ tape'.netted = n
  BY <1>2, <1>3, BuryIs DEF n
<1>9. /\ Fit(work', book', holds') /\ Sound(funds', book', holds', SweepsIn(work'), tape'.netted, {}, 0, {})
      /\ HoldsNumbered(holds', holdSeq') /\ venue' = venue
  BY <1>2, <1>3, <1>5, <1>6, <1>8
<1>. QED
  BY <1>7, <1>8, <1>9, StepKeeps

LEMMA RestResidualKeeps == ASSUME Inv, RestResidual PROVE Inv'
<1>. DEFINE w == work[1]
            n == tape.netted
            c == AddResting(book, w.o.side, RestingForm(w))
            k == Track(reg, w.o.id, w.o.stp)
<1>1. Sweeping(w) /\ Head(work) = w
  BY SweepAt DEF RestResidual, SweepOver, Sweeping
<1>2. /\ w.left > 0 /\ ~Dies(w) /\ ~Full(book) /\ work' = Next1(work, <<>>)
      /\ UNCHANGED <<venue, holds, holdSeq, funds>>
  BY <1>1, DoIs DEF RestResidual, Done
<1>3. /\ book' = c /\ (reg' = k \/ reg' = [k EXCEPT !.expiry[w.o.id] = w.o.exp])
      /\ tape' = tape \/ tape' = Mute(tape, w.o.id)
  BY <1>1 DEF RestResidual
<1>4. Sound(funds, book, holds, {w}, n, {}, 0, {}) /\ Size(book) <= Config.capacity
      /\ HoldsNumbered(holds, holdSeq) /\ RegOK(reg) /\ TapeOK(tape) /\ ~IsResting(book, w.o.id)
      /\ Config.capacity \in Nat /\ Size(book) \in Nat /\ w.o.id \in Ids
  BY <1>1 DEF Sweeping, SweepOK
<1>5. RegOK(k)
  BY <1>4, TrackIs
<1>6. c = AddResting(book, w.o.side, RestingForm(w)) /\ ~w.o.mkt
  BY <1>2 DEF Dies
<1>. HIDE DEF w, n, c, k
<1>7. Sound(funds, c, holds, {}, n, {}, 0, {}) /\ Size(c) = Size(book) + 1
  BY <1>2, <1>4, <1>6, RestSound
<1>8. Size(c) <= Config.capacity
  BY <1>2, <1>4, <1>7 DEF Full
<1>9. Fit(Next1(work, <<>>), c, holds) /\ SweepsIn(Next1(work, <<>>)) = {}
  BY <1>1, <1>8, SweepEnds
<1>10. RegOK(reg')
  <2>1. RegOK([k EXCEPT !.expiry[w.o.id] = w.o.exp])
    BY <1>5, ExpiryIs
  <2>. QED
    BY <1>3, <1>5, <2>1
<1>11. TapeOK(tape') /\ tape'.netted = n
  BY <1>3, <1>4, MuteIs DEF n
<1>12. /\ Fit(work', book', holds') /\ Sound(funds', book', holds', SweepsIn(work'), tape'.netted, {}, 0, {})
       /\ HoldsNumbered(holds', holdSeq') /\ venue' = venue
  BY <1>2, <1>3, <1>4, <1>7, <1>9, <1>11
<1>. QED
  BY <1>10, <1>11, <1>12, StepKeeps

LEMMA RefuseResidualKeeps == ASSUME Inv, RefuseResidual PROVE Inv'
<1>. DEFINE w == work[1]
            n == tape.netted
            g == ReleaseReservationExceptHeld(funds, w.o.id, HeldQtyFor(holds, w.o.id))
            y == ReleaseReservation(funds, w.o.id)
<1>1. Sweeping(w) /\ Head(work) = w
  BY SweepAt DEF RefuseResidual, SweepOver, Sweeping
<1>2. /\ (funds' = g \/ funds' = y) /\ reg' = (IF w.amended THEN Forget(reg, w.o.id) ELSE reg)
      /\ work' = Next1(work, <<>>) /\ UNCHANGED <<venue, book, holds, holdSeq>>
      /\ w.left > 0 /\ ~Dies(w) /\ Full(book) /\ ~Marketable(w)
  BY <1>1, DoIs DEF RefuseResidual, Done, SweepOver
<1>3. \E q : tape' = Bury(tape, w.o.id, q)
  BY <1>1 DEF RefuseResidual
<1>4. Sound(funds, book, holds, {w}, n, {}, 0, {}) /\ Size(book) <= Config.capacity
      /\ HoldsNumbered(holds, holdSeq) /\ RegOK(reg) /\ TapeOK(tape) /\ ~IsResting(book, w.o.id)
      /\ Config.capacity \in Nat /\ Size(book) \in Nat /\ HasRoom(holds, w, book)
  BY <1>1 DEF Sweeping
<1>5. ~w.dead
  BY <1>2 DEF Dies
<1>. HIDE DEF w
<1>6. ~Meets(book, w.o)
  BY <1>1, <1>2, <1>5, SweptOut
<1>7. HoldsOf(holds, w.o.id) = {}
  BY <1>2, <1>4, <1>5, <1>6 DEF HasRoom, Full
<1>8. g = y
  <2>1. HeldQtyFor(holds, w.o.id) = 0
    BY <1>7, HeldNone
  <2>. QED
    BY <2>1 DEF ReleaseReservationExceptHeld
<1>9. g = ReleaseReservationExceptHeld(funds, w.o.id, HeldQtyFor(holds, w.o.id)) /\ funds' = g
  BY <1>2, <1>8
<1>. HIDE DEF n, g, y
<1>10. Sound(g, book, holds, {}, n, {}, 0, {})
  BY <1>4, <1>9, KillSound
<1>11. Fit(Next1(work, <<>>), book, holds) /\ SweepsIn(Next1(work, <<>>)) = {}
  BY <1>1, <1>4, SweepEnds
<1>12. RegOK(reg')
  BY <1>2, <1>4, ForgetIfIs
<1>13. TapeOK(tape') /\ tape'.netted = n
  BY <1>3, <1>4, BuryIs DEF n
<1>14. /\ Fit(work', book', holds') /\ Sound(funds', book', holds', SweepsIn(work'), tape'.netted, {}, 0, {})
       /\ HoldsNumbered(holds', holdSeq') /\ venue' = venue
  BY <1>2, <1>4, <1>9, <1>10, <1>11, <1>13
<1>. QED
  BY <1>12, <1>13, <1>14, StepKeeps

(* What the sweep needs of the book after it has taken from the best order. *)
LEMMA TakenFit ==
  ASSUME NEW w, Sweeping(w), Marketable(w), NEW r, r = Maker, NEW t, NEW c,
         Sized(book, c, Opposite(w.o.side), r, t), NEW G, Strangers(G, w),
         NEW u, SweepOK(u), u.op = "sweep", u.o = w.o
  PROVE  Fit(Next1(work, <<u>>), c, G) /\ SweepsIn(Next1(work, <<u>>)) = {u}
<1>. DEFINE s == Opposite(w.o.side)
            o == w.o
<1>1. /\ BookOK(book) /\ s = Opposite(o.side) /\ s \in Sides /\ r \in On(book, s)
      /\ Crosses(o, r.px) /\ Sized(book, c, s, r, t) /\ r.id # w.o.id
  BY MarketIs
<1>2. Size(book) <= Config.capacity /\ Config.capacity \in Nat /\ Size(book) \in Nat
      /\ ~IsResting(book, w.o.id)
  BY DEF Sweeping
<1>. HIDE DEF s, o
<1>3. /\ Size(c) <= Size(book) /\ (Size(c) < Size(book) \/ Meets(c, o))
      /\ \A j : j # r.id => (IsResting(c, j) <=> IsResting(book, j))
  BY <1>1, RoomAfter
<1>4. Size(c) \in Nat
  BY <1>1, SizeType DEF Sized
<1>5. Size(c) <= Config.capacity /\ ~IsResting(c, w.o.id) /\ (Size(c) < Config.capacity \/ Meets(c, u.o))
  BY <1>1, <1>2, <1>3, <1>4 DEF o
<1>6. HasRoom(G, u, c)
  BY <1>5 DEF HasRoom
<1>. QED
  BY <1>5, <1>6, SweepOn

LEMMA SweepFillKeeps == ASSUME Inv, SweepFill PROVE Inv'
<1>. DEFINE w == work[1]
            r == Maker
            q == Least(w.left, r.leaves)
            t == [maker |-> r.id, taker |-> w.o.id, side |-> w.o.side, px |-> r.px, qty |-> q]
            x == FillBest(book, Opposite(w.o.side), q)
            c == Cleanup(SettleTrade(funds, t), reg, x, holds, t.maker)
            d == Cleanup(c.funds, c.reg, x, holds, t.taker)
            u == [w EXCEPT !.left = @ - q, !.filled = @ + q]
            n == tape.netted
<1>1. Sweeping(w) /\ Head(work) = w /\ Marketable(w)
  BY SweepAt, SMTT(40) DEF SweepFill, Sweeping
<1>2. /\ book' = x /\ tape' = OnTape(t) /\ work' = Next1(work, <<u>>)
      /\ w.left = q => funds' = d.funds /\ reg' = d.reg
      /\ w.left # q => funds' = c.funds /\ reg' = c.reg
      /\ UNCHANGED <<venue, holds, holdSeq>>
  BY <1>1 DEF SweepFill, Next1
<1>3. /\ q = Least(w.left, r.leaves) /\ x = FillBest(book, Opposite(w.o.side), q)
      /\ t.maker = r.id /\ t.taker = w.o.id /\ t.side = w.o.side /\ t.px = r.px /\ t.qty = q
      /\ c = Cleanup(SettleTrade(funds, t), reg, x, holds, t.maker)
      /\ d = Cleanup(c.funds, c.reg, x, holds, t.taker) /\ r = Maker
  OBVIOUS
<1>4. DOMAIN u = DOMAIN w /\ u.op = w.op /\ u.o = w.o /\ u.left = w.left - q
  BY <1>1 DEF Sweeping, SweepOK
<1>. HIDE DEF w, r, q, t, x, c, d, u, n
<1>5. /\ w.left > 0 /\ ~w.dead /\ book[Opposite(w.o.side)] # <<>> /\ r = Head(book[Opposite(w.o.side)])
      /\ Crosses(w.o, r.px) /\ r.id # w.o.id
  BY <1>1, <1>3, MarketIs
<1>6. Sound(funds, book, holds, {w}, n, {}, 0, {}) /\ RegOK(reg) /\ TapeOK(tape) /\ SweepOK(w)
      /\ w.op = "sweep" /\ HoldsNumbered(holds, holdSeq) /\ Strangers(holds, w)
  BY <1>1, SMTT(40) DEF Sweeping, n
<1>7. q \in Nat \ {0} /\ q <= w.left /\ w.left \in Nat
  BY <1>3, <1>5, <1>6, LeastIs
<1>8. SweepOK(u) /\ u.op = "sweep" /\ u.o = w.o /\ u.left = w.left - q
  <2>1. w.left - q \in Nat
    BY <1>7
  <2>. QED
    BY <1>4, <1>6, <2>1 DEF SweepOK
<1>9. /\ CanSettle(funds, t)
      /\ w.left = q => Sound(Cleanup(c.funds, c.reg, x, holds, t.taker).funds, x, holds, {u}, n, {}, 0, {})
      /\ w.left # q => Sound(c.funds, x, holds, {u}, n, {}, 0, {})
      /\ Sized(book, x, Opposite(w.o.side), r, Total(r) - q)
  <2>1. SettlesInto(funds, book, holds, n, w, r, q, u, t, x, c)
    BY <1>3, <1>5, <1>6, <1>8, FillSound, Zenon
  <2>. QED
    BY <2>1 DEF SettlesInto
<1>10. Sound(funds', x, holds, {u}, n, {}, 0, {})
  BY <1>2, <1>3, <1>9
<1>11. Fit(Next1(work, <<u>>), x, holds) /\ SweepsIn(Next1(work, <<u>>)) = {u}
  <2>. DEFINE y == Total(r) - q
  <2>1. Sized(book, x, Opposite(w.o.side), r, y)
    BY <1>9
  <2>. HIDE DEF y
  <2>. QED
    BY <1>1, <1>3, <1>6, <1>8, <2>1, TakenFit
<1>12. TapeOK(tape') /\ tape'.netted = n
  BY <1>2, <1>6, <1>9, OnTapeIs DEF n
<1>13. RegOK(reg')
  <2>1. RegOK(c.reg)
    BY <1>3, <1>6, CleanupReg
  <2>2. RegOK(d.reg)
    BY <1>3, <2>1, CleanupReg
  <2>. QED
    BY <1>2, <2>1, <2>2
<1>14. /\ Fit(work', book', holds') /\ Sound(funds', book', holds', SweepsIn(work'), tape'.netted, {}, 0, {})
       /\ HoldsNumbered(holds', holdSeq') /\ venue' = venue
  BY <1>2, <1>6, <1>10, <1>11, <1>12
<1>. QED
  BY <1>12, <1>13, <1>14, StepKeeps, SMTT(40)

LEMMA SweepHoldKeeps == ASSUME Inv, SweepHold PROVE Inv'
<1>. DEFINE w == work[1]
            r == Maker
            q == Least(w.left, r.leaves)
            x == FillBest(book, Opposite(w.o.side), q)
            u == [w EXCEPT !.left = @ - q]
            n == tape.netted
            h == [hid |-> holdSeq + 1, maker |-> r.id, taker |-> w.o.id, side |-> w.o.side,
                  px |-> r.px, qty |-> q, deadline |-> now + Config.window, tif |-> w.o.tif,
                  mkt |-> w.o.mkt, takerPx |-> w.o.px, exp |-> w.o.exp, makerCum |-> r.cum,
                  takerCum |-> w.prior + w.filled]
            S == {r.id, w.o.id}
<1>1. Sweeping(w) /\ Head(work) = w /\ Marketable(w)
  BY SweepAt DEF SweepHold, Sweeping
<1>2. /\ book' = x /\ holds' = holds \cup {h} /\ holdSeq' = holdSeq + 1 /\ work' = Next1(work, <<u>>)
      /\ (reg' = reg \/ reg' = [reg EXCEPT !.stp[w.o.id] = w.o.stp])
      /\ \E R : tape' = [tape EXCEPT !.held = @ \cup R]
      /\ ~SameScope(w.o, r) /\ UNCHANGED <<venue, funds>>
  BY <1>1 DEF SweepHold, Next1
<1>3. /\ q = Least(w.left, r.leaves) /\ x = FillBest(book, Opposite(w.o.side), q)
      /\ h.hid = holdSeq + 1 /\ h.maker = r.id /\ h.taker = w.o.id /\ h.side = w.o.side
      /\ h.px = r.px /\ h.qty = q /\ h.mkt = w.o.mkt /\ h.takerPx = w.o.px /\ r = Maker
      /\ u = [w EXCEPT !.left = @ - q]
  OBVIOUS
<1>4. S = {h.maker, h.taker} /\ S = {r.id, w.o.id}
  OBVIOUS
<1>4a. DOMAIN u = DOMAIN w /\ u.op = w.op /\ u.o = w.o /\ u.left = w.left - q
  BY <1>1 DEF Sweeping, SweepOK
<1>. HIDE DEF w, r, q, x, u, n, h, S
<1>5. /\ w.left > 0 /\ ~w.dead /\ book[Opposite(w.o.side)] # <<>> /\ r = Head(book[Opposite(w.o.side)])
      /\ Crosses(w.o, r.px) /\ r.id # w.o.id /\ Opposite(w.o.side) \in Sides
      /\ r \in On(book, Opposite(w.o.side)) /\ OrderOK(r)
  BY <1>1, <1>3, MarketIs, SMTT(40)
<1>6. Sound(funds, book, holds, {w}, n, {}, 0, {}) /\ RegOK(reg) /\ TapeOK(tape) /\ SweepOK(w)
      /\ w.op = "sweep" /\ HoldsNumbered(holds, holdSeq) /\ Strangers(holds, w)
  BY <1>1 DEF Sweeping, n
<1>7. q \in Nat \ {0} /\ q <= w.left /\ q <= r.leaves /\ w.left \in Nat
  BY <1>3, <1>5, <1>6, LeastIs
<1>8. SweepOK(u) /\ u.op = "sweep" /\ u.o = w.o /\ u.left = w.left - q
  <2>1. w.left - q \in Nat
    BY <1>7
  <2>. QED
    BY <1>4a, <1>6, <2>1 DEF SweepOK
<1>9. Sound(funds, x, holds, {u}, n, S, q, S) /\ Sized(book, x, Opposite(w.o.side), r, Total(r) - q)
  <2>. DEFINE s == Opposite(w.o.side)
  <2>1. s \in Sides /\ book[s] # <<>> /\ r = Head(book[s]) /\ x = FillBest(book, s, q)
    BY <1>3, <1>5
  <2>. HIDE DEF s
  <2>2. /\ Sound(funds, FillBest(book, s, q), holds, {u}, n, {r.id, w.o.id}, q, {r.id, w.o.id})
        /\ Sized(book, FillBest(book, s, q), s, r, Total(r) - q)
    BY <1>5, <1>6, <1>7, <1>8, <2>1, BothGive, Zenon
  <2>. QED
    BY <1>4, <2>1, <2>2, Zenon DEF s
<1>10. HoldOK(h) /\ HoldFunded(h, funds.rsv)
  <2>1. /\ GoodFor(funds.rsv, r.id, Opposite(w.o.side), r.px) /\ GoodFor(funds.rsv, w.o.id, w.o.side, r.px)
        /\ ~w.o.mkt => GoodFor(funds.rsv, w.o.id, w.o.side, w.o.px)
    BY <1>5, <1>6, InReach, ZenonT(60)
  <2>2. HoldFunded(h, funds.rsv)
    BY <1>3, <2>1, SMTT(40) DEF HoldFunded
  <2>3. HoldOK(h)
    BY <1>3, <1>5, <1>6, <1>7, SMTT(40) DEF HoldOK, SweepOK, OrderOK
  <2>. QED
    BY <2>2, <2>3
<1>11. /\ \A k \in holds : k.hid # h.hid
       /\ HoldsNumbered(holds', holdSeq')
  BY <1>2, <1>3, <1>6 DEF HoldsNumbered
<1>. DEFINE G == holds \cup {h}
<1>12. Sound(funds, x, G, {u}, n, {}, 0, {})
  BY <1>3, <1>4, <1>9, <1>10, <1>11, HoldSound
<1>13. Strangers(G, w)
  <2>1. ASSUME NEW k \in HoldsOf(G, w.o.id)
        PROVE  /\ k.taker = w.o.id
               /\ w.o.stp # "None" => Scope[Owner[k.maker]] # Scope[Owner[k.taker]]
    <3>1. CASE k = h
      BY <1>2, <1>3, <3>1 DEF SameScope
    <3>2. CASE k # h
      BY <1>6, <2>1, <3>2 DEF Strangers, HoldsOf
    <3>. QED
      BY <3>1, <3>2
  <2>. QED
    BY <2>1 DEF Strangers
<1>14. holds' = G
  BY <1>2
<1>. HIDE DEF G
<1>15. Fit(Next1(work, <<u>>), x, G) /\ SweepsIn(Next1(work, <<u>>)) = {u}
  <2>. DEFINE y == Total(r) - q
  <2>1. Sized(book, x, Opposite(w.o.side), r, y)
    BY <1>9
  <2>. HIDE DEF y
  <2>. QED
    BY <1>1, <1>3, <1>8, <1>13, <2>1, TakenFit, ZenonT(60)
<1>16. TapeOK(tape') /\ tape'.netted = n
  BY <1>2, <1>6 DEF n, TapeOK
<1>17. RegOK(reg')
  <2>1. RegOK([reg EXCEPT !.stp[w.o.id] = w.o.stp])
    BY <1>6, ExpiryIs
  <2>. QED
    BY <1>2, <1>6, <2>1
<1>18. /\ Fit(work', book', holds') /\ Sound(funds', book', holds', SweepsIn(work'), tape'.netted, {}, 0, {})
       /\ venue' = venue
  BY <1>2, <1>12, <1>14, <1>15, <1>16
<1>. QED
  BY <1>11, <1>16, <1>17, <1>18, StepKeeps

Netting(t, id, d) == [t EXCEPT !.netted[id] = @ + d]

LEMMA NetsIs ==
  ASSUME NEW t, TapeOK(t), t.netted \in [Ids -> Nat], NEW id \in Ids, NEW d \in Nat,
         NEW x, x = Netting(t, id, d)
  PROVE  /\ TapeOK(x) /\ x.netted \in [Ids -> Nat] /\ x.netted[id] = t.netted[id] + d
         /\ \A j \in Ids : j # id => x.netted[j] = t.netted[j]
<1>1. TapeOK(x)
  BY DEF TapeOK, Netting
<1>2. x.netted = [t.netted EXCEPT ![id] = @ + d]
  BY DEF TapeOK, Netting
<1>. QED
  BY <1>1, <1>2

(* Self-trade prevention has dealt with the order in the way. *)
LEMMA StpGoesOn ==
  ASSUME Inv, NEW w, Sweeping(w), w.left > 0, NEW dec \in Nat, dec <= w.left,
         NEW u, SweepOK(u), u.op = "sweep", u.o = w.o, u.left = w.left - dec, u.left > 0 \/ u.dead,
         work' = Next1(work, <<u>>), venue' = venue, holds' = holds, holdSeq' = holdSeq,
         Sound(funds', book', holds, {w}, tape.netted, {}, 0, {}), RegOK(reg'), TapeOK(tape'),
         tape'.netted \in [Ids -> Nat], tape'.netted[w.o.id] >= tape.netted[w.o.id] + dec,
         \A j \in Ids : j # w.o.id => tape'.netted[j] >= tape.netted[j],
         Size(book') <= Config.capacity, ~IsResting(book', w.o.id),
         Size(book') < Config.capacity \/ u.dead
  PROVE  Inv'
<1>. DEFINE c == book'
            f == funds'
            n == tape.netted
            m == tape'.netted
<1>1. /\ Sound(f, c, holds, {w}, n, {}, 0, {}) /\ Size(c) <= Config.capacity /\ ~IsResting(c, w.o.id)
      /\ Size(c) < Config.capacity \/ u.dead
      /\ m \in [Ids -> Nat] /\ m[w.o.id] >= n[w.o.id] + dec /\ \A j \in Ids : j # w.o.id => m[j] >= n[j]
  OBVIOUS
<1>. HIDE DEF c, f, n, m
<1>2. Sound(f, c, holds, {u}, m, {}, 0, {})
  BY <1>1, NetSweep
<1>3. Strangers(holds, w) /\ HoldsNumbered(holds, holdSeq)
  BY DEF Sweeping
<1>4. HasRoom(holds, u, c)
  BY <1>1 DEF HasRoom
<1>5. Fit(Next1(work, <<u>>), c, holds) /\ SweepsIn(Next1(work, <<u>>)) = {u}
  BY <1>1, <1>3, <1>4, SweepOn
<1>6. Fit(work', book', holds') /\ SweepsIn(work') = {u}
  BY <1>5 DEF c
<1>7. Sound(funds', book', holds', SweepsIn(work'), tape'.netted, {}, 0, {})
  BY <1>2, <1>6 DEF c, f, m
<1>8. HoldsNumbered(holds', holdSeq')
  BY <1>3
<1>. QED
  BY <1>6, <1>7, <1>8, StepKeeps

LEMMA StpApplyKeeps == ASSUME Inv, StpApply PROVE Inv'
<1>. DEFINE w == work[1]
            r == Maker
            s == Opposite(w.o.side)
            dec == IF w.o.stp = "Decrement" THEN Least(w.left, Total(r)) ELSE 0
            dead == w.o.stp \in {"CancelNewest", "CancelBoth"} \/ w.left = dec
            u == [w EXCEPT !.left = @ - dec, !.dead = dead]
            n == tape.netted
            nets == Netting(tape, w.o.id, dec)
            both == Netting(nets, r.id, dec)
<1>1. Sweeping(w) /\ Head(work) = w /\ Marketable(w)
  BY SweepAt, SMTT(40) DEF StpApply, Sweeping
<1>2. /\ work' = Next1(work, <<u>>) /\ HoldsOf(holds, r.id) = {}
      /\ venue' = venue /\ holds' = holds /\ holdSeq' = holdSeq
      /\ \/ /\ StpCancelsMaker(w)
            /\ book' = Cancel(book, r.id) /\ funds' = ReleaseReservation(funds, r.id)
            /\ reg' = Forget(reg, r.id) /\ tape' = Bury(nets, r.id, Total(r))
         \/ /\ ~StpCancelsMaker(w) /\ w.o.stp = "Decrement"
            /\ book' = ReduceTotal(book, r.id, Total(r) - dec)
            /\ funds' = ReleaseReservationPro(funds, r.id, Total(r), Total(r) - dec)
            /\ tape' = Mute(both, r.id) /\ reg' = reg
         \/ w.o.stp = "CancelNewest" /\ UNCHANGED <<book, funds, reg, tape>>
  BY <1>1 DEF StpApply, Next1, Netting
<1>3. DOMAIN u = DOMAIN w /\ u.op = w.op /\ u.o = w.o /\ u.left = w.left - dec /\ u.dead = dead
  BY <1>1 DEF Sweeping, SweepOK
<1>4. /\ w.left > 0 /\ s \in Sides /\ r \in On(book, s) /\ OrderOK(r) /\ r.id # w.o.id
      /\ IsResting(book, r.id) /\ BookOK(book)
  BY <1>1, MarketIs
<1>5. /\ SweepOK(w) /\ w.op = "sweep" /\ w.left \in Nat /\ w.o.id \in Ids /\ n \in [Ids -> Nat]
      /\ Sound(funds, book, holds, {w}, n, {}, 0, {}) /\ RegOK(reg) /\ TapeOK(tape)
      /\ Size(book) <= Config.capacity /\ Config.capacity \in Nat /\ Size(book) \in Nat
      /\ ~IsResting(book, w.o.id)
  BY <1>1, NettedIs DEF Sweeping, SweepOK
<1>6. Total(r) \in Nat \ {0} /\ r.id \in Ids
  BY <1>4, RestIs DEF OrderOK
<1>7. dec \in Nat /\ dec <= w.left /\ w.left - dec \in Nat
  BY <1>5, <1>6 DEF Least
<1>8. /\ w.o.stp = "Decrement" => dec = Least(w.left, Total(r))
      /\ w.o.stp # "Decrement" => dec = 0
      /\ w.o.stp = "CancelNewest" => dead
      /\ w.left = dec => dead
  OBVIOUS
<1>9. nets = Netting(tape, w.o.id, dec) /\ both = Netting(nets, r.id, dec)
  OBVIOUS
<1>. HIDE DEF dec, dead, u, nets, both
<1>11. SweepOK(u) /\ u.op = "sweep" /\ u.o = w.o /\ u.left = w.left - dec
  BY <1>3, <1>5, <1>7 DEF SweepOK
<1>12. u.left > 0 \/ u.dead
  <2>1. CASE w.left = dec
    BY <1>3, <1>8, <2>1, ZenonT(60)
  <2>2. CASE w.left # dec
    BY <1>5, <1>7, <1>11, <2>2, SMTT(40)
  <2>. QED
    BY <2>1, <2>2
<1>13. /\ TapeOK(nets) /\ nets.netted \in [Ids -> Nat] /\ nets.netted[w.o.id] = n[w.o.id] + dec
       /\ \A j \in Ids : j # w.o.id => nets.netted[j] = n[j]
  BY <1>5, <1>7, <1>9, NetsIs, SMTT(40)
<1>14. /\ TapeOK(both) /\ both.netted \in [Ids -> Nat] /\ both.netted[r.id] = nets.netted[r.id] + dec
       /\ \A j \in Ids : j # r.id => both.netted[j] = nets.netted[j]
  BY <1>6, <1>7, <1>9, <1>13, NetsIs
<1>. HIDE DEF w, r, s, n
<1>15. CASE /\ book' = Cancel(book, r.id) /\ funds' = ReleaseReservation(funds, r.id)
            /\ reg' = Forget(reg, r.id) /\ tape' = Bury(nets, r.id, Total(r))
  <2>. DEFINE c == Cancel(book, r.id)
              g == ReleaseReservation(funds, r.id)
              W == {w}
  <2>0. W = {w} /\ Idles(W, r.id)
    BY <1>4 DEF Idles
  <2>. HIDE DEF W
  <2>1. Sound(g, c, holds, W, n, {}, 0, {}) /\ Shed(book, c, r.id)
    BY <1>2, <1>4, <1>5, <2>0, PullSound
  <2>2. book' = c /\ funds' = g
    BY <1>15
  <2>. HIDE DEF c, g
  <2>3. Size(c) < Config.capacity /\ Size(c) <= Config.capacity /\ ~IsResting(c, w.o.id)
    BY <1>5, <2>1 DEF Shed
  <2>4. RegOK(reg') /\ TapeOK(tape') /\ tape'.netted = nets.netted
    BY <1>5, <1>13, <1>15, ForgetIs, BuryIs
  <2>5. Sound(funds', book', holds, {w}, tape.netted, {}, 0, {})
    BY <2>0, <2>1, <2>2 DEF n
  <2>6. /\ tape'.netted \in [Ids -> Nat] /\ tape'.netted[w.o.id] >= tape.netted[w.o.id] + dec
        /\ \A j \in Ids : j # w.o.id => tape'.netted[j] >= tape.netted[j]
    BY <1>5, <1>7, <1>13, <2>4 DEF n
  <2>7. Size(book') < Config.capacity /\ Size(book') <= Config.capacity /\ ~IsResting(book', w.o.id)
    BY <2>2, <2>3
  <2>. QED
    BY <1>1, <1>2, <1>4, <1>7, <1>11, <1>12, <2>4, <2>5, <2>6, <2>7, StpGoesOn
<1>16. CASE /\ ~StpCancelsMaker(w) /\ w.o.stp = "Decrement"
            /\ book' = ReduceTotal(book, r.id, Total(r) - dec)
            /\ funds' = ReleaseReservationPro(funds, r.id, Total(r), Total(r) - dec)
            /\ tape' = Mute(both, r.id) /\ reg' = reg
  <2>. DEFINE t == Total(r) - dec
              c == ReduceTotal(book, r.id, t)
              g == ReleaseReservationPro(funds, r.id, Total(r), t)
              W == {w}
  <2>1. Total(r) > w.left /\ dec = w.left /\ t \in 1..Total(r)
    BY <1>4, <1>5, <1>6, <1>8, <1>16 DEF StpCancelsMaker, Least, r
  <2>2. book' = c /\ funds' = g
    BY <1>16
  <2>3. W = {w} /\ \A v \in W : v.o.id # r.id
    BY <1>4
  <2>. HIDE DEF t, W
  <2>4. Sized(book, c, s, r, t)
    BY <1>4, <2>1, ReduceTotalKeeps
  <2>. HIDE DEF c
  <2>5. Sound(g, c, holds, W, n, {}, 0, {})
    BY <1>2, <1>4, <1>5, <2>1, <2>3, <2>4, ReduceSound
  <2>. HIDE DEF g
  <2>6. Size(c) <= Size(book) /\ Size(c) \in Nat /\ (IsResting(c, w.o.id) <=> IsResting(book, w.o.id))
    <3>1. BookOK(c) /\ \E N : Becomes(book, c, s, r.id, N)
      BY <2>4 DEF Sized
    <3>2. Size(c) <= Size(book)
      BY <1>5, <2>4 DEF Sized
    <3>. QED
      BY <1>4, <3>1, <3>2, RestAfter, SizeType
  <2>7. Size(book') <= Config.capacity /\ ~IsResting(book', w.o.id) /\ u.dead
    BY <1>3, <1>5, <1>8, <2>1, <2>2, <2>6
  <2>8. RegOK(reg') /\ TapeOK(tape') /\ tape'.netted = both.netted
    BY <1>5, <1>14, <1>16, MuteIs
  <2>9. Sound(funds', book', holds, {w}, tape.netted, {}, 0, {})
    BY <2>2, <2>3, <2>5 DEF n
  <2>10. /\ tape'.netted \in [Ids -> Nat] /\ tape'.netted[w.o.id] >= tape.netted[w.o.id] + dec
         /\ \A j \in Ids : j # w.o.id => tape'.netted[j] >= tape.netted[j]
    BY <1>4, <1>5, <1>6, <1>7, <1>13, <1>14, <2>8 DEF n
  <2>. QED
    BY <1>1, <1>2, <1>4, <1>7, <1>11, <1>12, <2>7, <2>8, <2>9, <2>10, StpGoesOn
<1>17. CASE w.o.stp = "CancelNewest" /\ UNCHANGED <<book, funds, reg, tape>>
  <2>1. dec = 0 /\ u.dead
    BY <1>3, <1>8, <1>17
  <2>2. /\ tape'.netted \in [Ids -> Nat] /\ tape'.netted[w.o.id] >= tape.netted[w.o.id] + dec
        /\ \A j \in Ids : j # w.o.id => tape'.netted[j] >= tape.netted[j]
    BY <1>5, <1>17, <2>1 DEF n
  <2>3. /\ Sound(funds', book', holds, {w}, tape.netted, {}, 0, {}) /\ RegOK(reg') /\ TapeOK(tape')
        /\ Size(book') <= Config.capacity /\ ~IsResting(book', w.o.id)
    BY <1>5, <1>17 DEF n
  <2>. QED
    BY <1>1, <1>2, <1>4, <1>7, <1>11, <1>12, <2>1, <2>2, <2>3, StpGoesOn
<1>. QED
  BY <1>2, <1>15, <1>16, <1>17

-----------------------------------------------------------------------------
(* Every step keeps the invariant *)

LEMMA SubmissionsKeep == ASSUME Inv, Submissions PROVE Inv'
  BY SubmitNewKeeps, SubmitCancelKeeps, SubmitModifyKeeps, SubmitMassCancelKeeps, SubmitQuoteKeeps,
     SubmitDecisionKeeps, SubmitTickKeeps DEF Submissions

LEMMA HandlingKeeps == ASSUME Inv, Handling PROVE Inv'
  BY ExpireHoldsKeeps, RejectHoldsForKeeps, RejectHoldsForAccountKeeps, ResolveGoneKeeps,
     AcceptHoldKeeps, RejectHoldKeeps, ExpireOrdersKeeps, ExpireOrderKeeps, PullAllKeeps, PullKeeps,
     RefuseNewKeeps, AcceptNewKeeps, ModifyKeeps, AmendUnknownKeeps, AmendInPlaceKeeps,
     AmendReenterKeeps, AnsweredKeeps DEF Handling

LEMMA MatchingKeeps == ASSUME Inv, Matching PROVE Inv'
  BY StpRelieveKeeps, StpApplyKeeps, SweepHoldKeeps, SweepFillKeeps, SweepFilledKeeps,
     KillResidualKeeps, RestResidualKeeps, RefuseResidualKeeps DEF Matching

LEMMA StutterKeeps == ASSUME Inv, UNCHANGED vars PROVE Inv'
<1>1. /\ venue' = venue /\ HoldsNumbered(holds', holdSeq') /\ RegOK(reg') /\ TapeOK(tape')
      /\ Sound(funds', book', holds', SweepsIn(work'), tape'.netted, {}, 0, {})
      /\ Fit(work', book', holds')
  BY DEF Inv, vars
<1>. QED
  BY <1>1, StepKeeps

LEMMA NextKeeps == ASSUME Inv, [Next]_vars PROVE Inv'
<1>1. CASE Submissions
  BY <1>1, SubmissionsKeep
<1>2. CASE Handling
  BY <1>2, HandlingKeeps
<1>3. CASE Matching
  BY <1>3, MatchingKeeps
<1>4. CASE UNCHANGED vars
  BY <1>4, StutterKeeps
<1>. QED
  BY <1>1, <1>2, <1>3, <1>4 DEF Next, OutOfCommands

(***************************************************************************)
(* The inductive invariant holds in every state: whatever the handlers of  *)
(* engine/ and matcher.h call, the book, the holds and the sweep stay well *)
(* formed and apart, each live piece of an order is backed by a            *)
(* reservation of its side and price, and every step still to come finds   *)
(* the holds it needs gone resolved before it.                             *)
(***************************************************************************)
THEOREM EngineInvariant == Spec => []Inv
<1>1. Init => Inv
  BY InitInv
<1>2. Inv /\ [Next]_vars => Inv'
  BY NextKeeps
<1>. QED
  BY <1>1, <1>2, PTL DEF Spec

-----------------------------------------------------------------------------
(* What the invariant says of the properties *)

LEMMA InFlightIs ==
  ASSUME Inv, NEW id
  PROVE  InFlight(id) = FlyIn(SweepsIn(work), id)
<1>. DEFINE D == {j \in DOMAIN work : work[j].op = "sweep" /\ work[j].o.id = id}
            f == [i \in D |-> work[i].left]
            W == SweepsIn(work)
<1>1. WorkOK(work) /\ OnlyOne(W)
  BY SoundBook DEF Inv, Fit
<1>2. DOMAIN work = 1..Len(work) /\ Len(work) \in Nat
  BY <1>1, SeqShape DEF WorkOK
<1>3. \A i, j \in D : i = j
  <2>1. SUFFICES ASSUME NEW i \in D, NEW j \in D, i < j PROVE FALSE
    BY <1>2
  <2>. QED
    BY <1>1, <2>1 DEF WorkOK, Precedes
<1>4. InFlight(id) = SumFunction(f)
  BY DEF InFlight
<1>5. CASE D = {}
  <2>1. DOMAIN f = {}
    BY <1>5
  <2>. HIDE DEF f
  <2>2. SumFunction(f) = 0
    BY <2>1, SumEmpty
  <2>3. ~Flies(W, id)
    BY <1>5 DEF Flies, SweepsIn
  <2>. QED
    BY <1>4, <2>2, <2>3 DEF FlyIn
<1>6. CASE D # {}
  <2>1. PICK i \in D : TRUE
    BY <1>6
  <2>2. D = {i} /\ work[i] \in W
    BY <1>3, <2>1 DEF SweepsIn
  <2>3. work[i].left \in Nat
    BY <1>1, <2>2 DEF OnlyOne, SweepOK
  <2>. DEFINE h == [y \in {} |-> 0]
  <2>4. DOMAIN f = D /\ f[i] = work[i].left /\ DOMAIN h = {} /\ \A x \in DOMAIN f : f[x] = work[x].left
    BY <2>1
  <2>. HIDE DEF f, h, D
  <2>5. /\ DOMAIN h = DOMAIN f \ {i} /\ i \in DOMAIN f /\ IsFiniteSet(DOMAIN f)
        /\ \A x \in DOMAIN f : f[x] \in Int
        /\ \A y \in DOMAIN h : h[y] = f[y]
    <3>1. IsFiniteSet({i})
      BY FS_Singleton
    <3>. QED
      BY <2>2, <2>3, <2>4, <3>1
  <2>6. SumFunction(f) = f[i] + SumFunction(h) /\ SumFunction(h) = 0
    <3>1. SumFunction(h) = 0
      BY <2>4, SumEmpty, Zenon
    <3>2. SumFunction(f) = f[i] + SumFunction(h)
      BY <2>5, SumSplits
    <3>. QED
      BY <3>1, <3>2
  <2>7. FlyIn(W, id) = work[i].left
    <3>1. Flies(W, id) /\ \A w \in W : w = work[i]
      BY <1>1, <2>1, <2>2 DEF Flies, OnlyOne, D
    <3>2. (CHOOSE w \in W : w.o.id = id) = work[i]
      BY <2>1, <2>2, <3>1 DEF D
    <3>. QED
      BY <3>1, <3>2 DEF FlyIn
  <2>. QED
    BY <1>4, <2>3, <2>4, <2>6, <2>7
<1>. QED
  BY <1>5, <1>6

LEMMA LiveIs ==
  ASSUME Inv, NEW id
  PROVE  /\ Live(id) = Alive(book, holds, SweepsIn(work), {}, 0, id)
         /\ Live(id) = RestIn(book, id) + HeldQtyFor(holds, id) + FlyIn(SweepsIn(work), id)
         /\ RestIn(book, id) \in Nat /\ HeldQtyFor(holds, id) \in Nat /\ FlyIn(SweepsIn(work), id) \in Nat
<1>. DEFINE W == SweepsIn(work)
<1>1. BookOK(book) /\ HoldsOK(holds) /\ OnlyOne(W)
  BY SoundBook DEF Inv
<1>2. RestIn(book, id) \in Nat /\ HeldQtyFor(holds, id) \in Nat /\ FlyIn(W, id) \in Nat
  BY <1>1, AliveType
<1>3. Resting(id) = RestIn(book, id)
  BY DEF Resting, RestIn
<1>4. Live(id) = RestIn(book, id) + HeldQtyFor(holds, id) + FlyIn(W, id)
  BY <1>3, InFlightIs DEF Live
<1>. QED
  BY <1>2, <1>4 DEF Alive, InHand

LEMMA LiveHasFunds ==
  ASSUME Inv, NEW id \in Ids, Live(id) > 0
  PROVE  id \in DOMAIN funds.rsv
<1>. DEFINE W == SweepsIn(work)
            v == funds.rsv
            n == tape.netted
<1>1. Sound(funds, book, holds, W, n, {}, 0, {}) /\ BookOK(book) /\ HoldsOK(holds) /\ OnlyOne(W)
  BY SoundBook DEF Inv
<1>2. RestIn(book, id) > 0 \/ HeldQtyFor(holds, id) > 0 \/ FlyIn(W, id) > 0
  BY LiveIs
<1>. HIDE DEF W, n
<1>3. CASE RestIn(book, id) > 0
  <2>1. IsResting(book, id)
    BY <1>1, <1>3, RestType
  <2>. QED
    BY <1>1, <2>1, RestingOrder DEF GoodFor
<1>4. CASE HeldQtyFor(holds, id) > 0
  <2>1. PICK h \in holds : id \in {h.maker, h.taker}
    BY <1>1, <1>4, HeldSome DEF HoldsOf
  <2>2. HoldFunded(h, v)
    BY <1>1, HoldIs
  <2>. QED
    BY <2>1, <2>2 DEF HoldFunded, GoodFor
<1>5. CASE FlyIn(W, id) > 0
  <2>1. Flies(W, id)
    BY <1>5 DEF FlyIn
  <2>. DEFINE w == CHOOSE u \in W : u.o.id = id
  <2>2. w \in W /\ w.o.id = id
    BY <2>1 DEF Flies
  <2>3. w.left > 0
    BY <1>5, <2>1 DEF FlyIn
  <2>. HIDE DEF w
  <2>4. SweepFunded(w, v)
    BY <1>1, <2>2 DEF Sound, Backed, Funded
  <2>. QED
    BY <2>2, <2>3, <2>4 DEF SweepFunded, GoodFor
<1>. QED
  BY <1>2, <1>3, <1>4, <1>5

LEMMA InvReserved == ASSUME Inv PROVE LiveIsReserved
<1>. DEFINE W == SweepsIn(work)
            v == funds.rsv
            n == tape.netted
<1>1. SUFFICES ASSUME NEW id \in Ids, Live(id) > 0
               PROVE  id \in DOMAIN v /\ v[id].raw >= Backing(v[id], Live(id))
  BY DEF LiveIsReserved, Reserved
<1>2. id \in DOMAIN v /\ Live(id) = Alive(book, holds, W, {}, 0, id)
  BY <1>1, LiveHasFunds, LiveIs
<1>3. Backed(book, holds, W, v, n, {}, 0, {})
  BY DEF Inv, Sound
<1>. HIDE DEF W, v, n
<1>. QED
  BY <1>2, <1>3, CoverIs

LEMMA InvFrozen == ASSUME Inv PROVE NothingFrozen
<1>. DEFINE W == SweepsIn(work)
            v == funds.rsv
            n == tape.netted
<1>1. SUFFICES ASSUME work = <<>>, NEW id \in DOMAIN v
               PROVE  Live(id) > 0 /\ (n[id] = 0 => v[id].raw = Backing(v[id], Live(id)))
  BY DEF NothingFrozen, Idle
<1>2. Backed(book, holds, W, v, n, {}, 0, {})
  BY DEF Inv, Sound
<1>3. /\ Live(id) = Alive(book, holds, W, {}, 0, id)
      /\ Live(id) = RestIn(book, id) + HeldQtyFor(holds, id) + FlyIn(W, id)
      /\ RestIn(book, id) \in Nat /\ HeldQtyFor(holds, id) \in Nat /\ FlyIn(W, id) \in Nat
  BY LiveIs
<1>4. W = {}
  BY <1>1, NoStep DEF SweepsIn
<1>5. Present(book, holds, W, id)
  BY <1>1, <1>2 DEF Backed, Needed
<1>6. IsResting(book, id) \/ HoldsOf(holds, id) # {}
  BY <1>4, <1>5 DEF Present
<1>7. RestIn(book, id) > 0 \/ HeldQtyFor(holds, id) > 0
  BY <1>2, <1>6, RestType, HeldSome DEF Backed
<1>8. Live(id) > 0
  BY <1>3, <1>7
<1>9. id \in DOMAIN v
  BY <1>1
<1>. HIDE DEF W, v, n
<1>10. n[id] = 0 => v[id].raw = Backing(v[id], Live(id))
  BY <1>2, <1>3, <1>9, CoverIs
<1>. QED
  BY <1>8, <1>10

LEMMA InvBalance == ASSUME Inv PROVE FundsBalance
<1>1. FundsOK(funds) /\ ~tape.unsettled
  BY SoundBook DEF Inv, TapeOK
<1>2. ASSUME NEW a \in Accounts, NEW x \in Assets
      PROVE  funds.bal[a][x].avail >= 0 /\ funds.bal[a][x].rsvd = ReservedBy(funds.rsv, a, x)
  <2>1. funds.bal[a][x] \in Balance
    BY <1>1 DEF FundsOK, FundsTyped
  <2>. QED
    BY <1>1, <2>1 DEF FundsOK, Balance
<1>. QED
  BY <1>1, <1>2 DEF FundsBalance, FundsOK

(***************************************************************************)
(* Money is only exchanged: every print settles in full and never falls    *)
(* back to an unchecked debit, what an account has reserved in the ledger  *)
(* is the sum of the reservations of its orders, no balance is negative,   *)
(* and the total of each asset is what was deposited, through fills, last- *)
(* look holds, amends, netting, releases and expiry (ledger.h, credit.h).  *)
(***************************************************************************)
THEOREM FundsStayBalanced == Spec => []FundsBalance
<1>1. Inv => FundsBalance
  BY InvBalance
<1>. QED
  BY <1>1, EngineInvariant, PTL

(***************************************************************************)
(* What rests, is out under last look or sweeps is covered by its          *)
(* reservation after every step of every handler (reserveFunds,            *)
(* releaseReservationExceptHeld, releaseReservationPro, settlement);       *)
(* between commands nothing is reserved for an order that is gone, and an  *)
(* order nothing was netted off has reserved exactly what it still needs.  *)
(***************************************************************************)
THEOREM ReservationsStayExact == Spec => []ReservationsAreExact
<1>1. Inv => ReservationsAreExact
  BY InvReserved, InvFrozen DEF ReservationsAreExact
<1>. QED
  BY <1>1, EngineInvariant, PTL
=============================================================================

---------------------------- MODULE RestingBook ----------------------------
(***************************************************************************)
(* The book of one symbol (matching_book.h): a queue of resting orders per  *)
(* side, best price first and, at one price, oldest first.  A book is a     *)
(* function from sides to sequences of records                              *)
(*   [id, px, leaves, hidden, peak, ll, post, cum]                          *)
(* where leaves is displayed, hidden is the reserve of an iceberg of the    *)
(* given peak, ll and post are the last-look and post-only flags and cum is *)
(* RestingOrder::cumQty.                                                    *)
(***************************************************************************)
EXTENDS Integers, Sequences, FiniteSets, SequencesExt

Sides == {"buy", "sell"}
Opposite(s) == IF s = "buy" THEN "sell" ELSE "buy"
Least(a, b) == IF a < b THEN a ELSE b

\* On side s a price of p is served no later than one of q.
Ahead(s, p, q) == IF s = "buy" THEN p >= q ELSE p <= q

EmptyBook == [s \in Sides |-> <<>>]
Total(r) == r.leaves + r.hidden
On(b, s) == {b[s][i] : i \in DOMAIN b[s]}
Orders(b) == On(b, "buy") \cup On(b, "sell")
IsResting(b, id) == \E r \in Orders(b) : r.id = id
Find(b, id) == CHOOSE r \in Orders(b) : r.id = id
SideOf(b, id) == IF \E r \in On(b, "buy") : r.id = id THEN "buy" ELSE "sell"
Size(b) == Len(b["buy"]) + Len(b["sell"])

AddResting(b, s, r) ==
  [b EXCEPT ![s] =
     InsertAt(@, 1 + Cardinality({i \in DOMAIN @ : Ahead(s, @[i].px, r.px)}), r)]

\* The place of a resting order in its queue.
Place(b, id) == LET q == b[SideOf(b, id)] IN CHOOSE i \in DOMAIN q : q[i].id = id

Cancel(b, id) ==
  IF IsResting(b, id) THEN [b EXCEPT ![SideOf(b, id)] = RemoveAt(@, Place(b, id))] ELSE b

\* A change that keeps the order's place in the queue.
InPlace(b, new) == [b EXCEPT ![SideOf(b, new.id)][Place(b, new.id)] = new]

Reduce(b, id, leaves) == InPlace(b, [Find(b, id) EXCEPT !.leaves = leaves])

\* Trims a displayed-plus-hidden total, the hidden part first.
ReduceTotal(b, id, total) ==
  LET r == Find(b, id)
  IN InPlace(b, [r EXCEPT !.leaves = Least(@, total), !.hidden = total - Least(r.leaves, total)])

\* Takes q off the displayed size of the best order of side s.  A spent peak is
\* replenished from the reserve and goes to the back of its price.
FillBest(b, s, q) ==
  LET r == Head(b[s])
      left == [r EXCEPT !.leaves = @ - q, !.cum = @ + q]
      peak == Least(r.peak, r.hidden)
  IN CASE left.leaves > 0 -> [b EXCEPT ![s][1] = left]
       [] left.leaves = 0 /\ r.hidden > 0 ->
            AddResting([b EXCEPT ![s] = Tail(@)], s,
                       [left EXCEPT !.leaves = peak, !.hidden = @ - peak])
       [] OTHER -> [b EXCEPT ![s] = Tail(@)]

\* The same by id, anywhere at its price (consumeById).
ConsumeById(b, id, q) ==
  LET s == SideOf(b, id)
      r == Find(b, id)
      left == [r EXCEPT !.leaves = @ - q, !.cum = @ + q]
      peak == Least(r.peak, r.hidden)
  IN CASE left.leaves > 0 -> InPlace(b, left)
       [] left.leaves = 0 /\ r.hidden > 0 ->
            AddResting(Cancel(b, id), s, [left EXCEPT !.leaves = peak, !.hidden = @ - peak])
       [] OTHER -> Cancel(b, id)
=============================================================================

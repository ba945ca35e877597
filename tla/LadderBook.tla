----------------------------- MODULE LadderBook -----------------------------
(***************************************************************************)
(* The performance book (flox/book/ladder_book.h): a ladder of price levels *)
(* per side, each an intrusive list over a pool of nodes, a bitmap of the   *)
(* occupied levels with a cached best cursor, and an open-addressing table  *)
(* from order ids to nodes.  Operators on a ladder b:                       *)
(*   nodes   n -> [order, prev, next, level, side, nextFree]                *)
(*   levels  side -> level -> [head, tail, total]                           *)
(*   bits    side -> occupied levels       best   side -> cursor, -1: none  *)
(*   idx     slot -> [id, node]            free   first free node, -1: none *)
(* Levels and nodes count from 0, as in the code.                           *)
(***************************************************************************)
EXTENDS Integers, Sequences, FiniteSets, SequencesExt, FiniteSetsExt

CONSTANTS
  Base, Tick, NumLevels, MaxOrders,   \* Config
  Hash                                \* order id -> its home slot

Nil == -1
Slots == 0..(CHOOSE k \in {2^i : i \in 0..(MaxOrders + 1)} :
               k >= 2 * MaxOrders + 1 /\ k \div 2 < 2 * MaxOrders + 1) - 1
IdxCap == Cardinality(Slots)

ASSUME LadderAssumption ==
  /\ Base \in Nat /\ Tick \in Nat \ {0} /\ NumLevels \in Nat \ {0} /\ MaxOrders \in Nat \ {0}
  /\ \A id \in DOMAIN Hash : Hash[id] \in Slots

NoOrder == [id |-> 0, px |-> 0, leaves |-> 0, hidden |-> 0, peak |-> 0, cum |-> 0]
Spare(next) ==
  [order |-> NoOrder, prev |-> Nil, next |-> Nil, level |-> Nil, side |-> "buy", nextFree |-> next]
Vacant == [id |-> 0, node |-> Nil]
NewLadder ==
  [nodes |-> [n \in 0..(MaxOrders - 1) |-> Spare(IF n = MaxOrders - 1 THEN Nil ELSE n + 1)],
   levels |-> [s \in {"buy", "sell"} |->
                [l \in 0..(NumLevels - 1) |-> [head |-> Nil, tail |-> Nil, total |-> 0]]],
   bits |-> [s \in {"buy", "sell"} |-> {}], best |-> [s \in {"buy", "sell"} |-> Nil],
   idx |-> [k \in Slots |-> Vacant], free |-> 0]

Capped(l) == IF l > NumLevels THEN NumLevels ELSE l
\* -1 below the ladder, NumLevels above it; the division floors.
LevelOf(px) == IF px < Base THEN Nil ELSE Capped((px - Base) \div Tick)
CanRest(px) == LevelOf(px) \in 0..(NumLevels - 1)
Full(b) == b.free = Nil

-----------------------------------------------------------------------------
(* The id table: linear probing, backward-shift deletion *)

Slot(id, i) == (Hash[id] + i) % IdxCap
\* Where a probe for id ends: on id, or on the first vacant slot.
Ends(idx, id) == {i \in 0..(IdxCap - 1) : idx[Slot(id, i)] = Vacant \/ idx[Slot(id, i)].id = id}
FindSlot(b, id) == IF Ends(b.idx, id) = {} THEN Nil ELSE b.idx[Slot(id, Min(Ends(b.idx, id)))].node
Holds(b, id) == FindSlot(b, id) # Nil

InsertSlot(b, id, n) ==
  [b EXCEPT !.idx[Slot(id, Min({i \in 0..(IdxCap - 1) : b.idx[Slot(id, i)] = Vacant}))] =
              [id |-> id, node |-> n]]

\* An entry at j whose home lies in (hole, j], cyclically, does not need the hole.
PastHole(hole, home, j) ==
  IF hole <= j THEN hole < home /\ home <= j ELSE hole < home \/ home <= j
\* One step of the scan; s is [idx, hole, j, done].
ShiftOne(s) ==
  CASE s.done \/ s.idx[s.j] = Vacant -> [s EXCEPT !.done = TRUE]
    [] ~s.done /\ s.idx[s.j] # Vacant /\ PastHole(s.hole, Hash[s.idx[s.j].id], s.j) ->
         [s EXCEPT !.j = (@ + 1) % IdxCap]
    [] OTHER -> [s EXCEPT !.idx[s.hole] = s.idx[s.j], !.hole = s.j, !.j = (@ + 1) % IdxCap]

\* Backward-shift deletion: later entries of the chain move up until one need not.
EraseSlot(b, id) ==
  LET at == Slot(id, Min(Ends(b.idx, id)))
      s == FoldLeft(LAMBDA x, i : ShiftOne(x), [idx |-> b.idx, hole |-> at, j |-> (at + 1) % IdxCap, done |-> FALSE],
                    [i \in 1..(IdxCap - 1) |-> i])
  IN [b EXCEPT !.idx = [s.idx EXCEPT ![s.hole] = Vacant]]

-----------------------------------------------------------------------------
(* Levels, their bits and the best cursor *)

\* The next occupied level behind l on side s.
Below(bits, l) == LET S == {x \in bits : x < l} IN IF S = {} THEN Nil ELSE Max(S)
Above(bits, l) == LET S == {x \in bits : x > l} IN IF S = {} THEN Nil ELSE Min(S)
NextLevel(b, s, l) == IF s = "buy" THEN Below(b.bits[s], l) ELSE Above(b.bits[s], l)

Beats(s, l, best) == IF s = "buy" THEN l > best ELSE best = Nil \/ l < best
OnLevelOccupied(b, s, l) ==
  [b EXCEPT !.bits[s] = @ \cup {l}, !.best[s] = IF Beats(s, l, @) THEN l ELSE @]

\* Mutant: the cursor stays where it was.
OnLevelEmptiedStuck(b, s, l) == [b EXCEPT !.bits[s] = @ \ {l}]
OnLevelEmptied(b, s, l) ==
  [b EXCEPT !.bits[s] = @ \ {l}, !.best[s] = IF @ = l THEN NextLevel(b, s, l) ELSE @]

LinkLast(b, s, l, n) ==
  IF b.levels[s][l].head = Nil
    THEN OnLevelOccupied([b EXCEPT !.levels[s][l].head = n, !.levels[s][l].tail = n], s, l)
    ELSE [b EXCEPT !.nodes[b.levels[s][l].tail].next = n, !.nodes[n].prev = b.levels[s][l].tail,
                   !.levels[s][l].tail = n]

AddResting(b, s, o) ==
  LET n == b.free
      l == LevelOf(o.px)
      taken == [InsertSlot(b, o.id, n) EXCEPT
                  !.free = b.nodes[n].nextFree,
                  !.nodes[n] = [@ EXCEPT !.order = o, !.level = l, !.side = s, !.prev = Nil, !.next = Nil]]
      linked == LinkLast(taken, s, l, n)
  IN [linked EXCEPT !.levels[s][l].total = @ + o.leaves + o.hidden]

\* A node leaves its list; an emptied level is reset.
Bypass(b, n, x) ==
  LET up == IF x.prev # Nil THEN [b EXCEPT !.nodes[x.prev].next = x.next]
            ELSE [b EXCEPT !.levels[x.side][x.level].head = x.next]
  IN IF x.next # Nil THEN [up EXCEPT !.nodes[x.next].prev = x.prev]
     ELSE [up EXCEPT !.levels[x.side][x.level].tail = x.prev]
Unlink(b, n) ==
  LET x == b.nodes[n]
      cut == Bypass(b, n, x)
  IN IF cut.levels[x.side][x.level].head = Nil
       THEN OnLevelEmptied([cut EXCEPT !.levels[x.side][x.level].total = 0], x.side, x.level)
       ELSE [cut EXCEPT !.levels[x.side][x.level].total = @ - (x.order.leaves + x.order.hidden)]
FreeNode(b, n) == [b EXCEPT !.nodes[n] = Spare(b.free), !.free = n]

\* Takes an order off the book; its node is the first to be used again.
RemoveNode(b, n) == FreeNode(EraseSlot(Unlink(b, n), b.nodes[n].order.id), n)
Cancel(b, id) == IF Holds(b, id) THEN RemoveNode(b, FindSlot(b, id)) ELSE b

\* To the back of the queue at its price.
MoveToTail(b, n) ==
  LET x == b.nodes[n]
      out == Bypass(b, n, x)
      tail == b.levels[x.side][x.level].tail
  IN IF tail = n THEN b
     ELSE [out EXCEPT !.nodes[n].prev = tail, !.nodes[n].next = Nil, !.nodes[tail].next = n,
                      !.levels[x.side][x.level].tail = n]

-----------------------------------------------------------------------------
(* Changes to one order *)

Reduce(b, id, leaves) ==
  LET n == FindSlot(b, id) x == b.nodes[n]
  IN [b EXCEPT !.levels[x.side][x.level].total = @ - (x.order.leaves - leaves),
               !.nodes[n].order.leaves = leaves]

\* The level's total follows the displayed part only.
ReduceTotal(b, id, total) ==
  LET n == FindSlot(b, id) x == b.nodes[n]
  IN IF total < x.order.leaves
       THEN [b EXCEPT !.levels[x.side][x.level].total = @ - (x.order.leaves - total),
                      !.nodes[n].order = [@ EXCEPT !.leaves = total, !.hidden = 0]]
       ELSE [b EXCEPT !.nodes[n].order.hidden = total - x.order.leaves]

\* q off the displayed size: a spent peak is replenished and goes to the back of its price.
Peak(o) == IF o.peak < o.hidden THEN o.peak ELSE o.hidden
ConsumeNode(b, n, q) ==
  LET x == b.nodes[n]
      cut == [b EXCEPT !.levels[x.side][x.level].total = @ - q,
                       !.nodes[n].order = [@ EXCEPT !.leaves = @ - q, !.cum = @ + q]]
  IN CASE x.order.leaves > q -> cut
       [] x.order.leaves = q /\ x.order.hidden > 0 ->
            MoveToTail([cut EXCEPT !.nodes[n].order =
                          [@ EXCEPT !.leaves = Peak(x.order), !.hidden = @ - Peak(x.order)]], n)
       [] OTHER -> RemoveNode(cut, n)
ConsumeById(b, id, q) == ConsumeNode(b, FindSlot(b, id), q)
FillBest(b, s, q) == ConsumeNode(b, b.levels[s][b.best[s]].head, q)

-----------------------------------------------------------------------------
(* What a reader sees *)

\* A level from its head, a side from its cursor.  The pool bounds a walk.
HeadOf(b, s, l) == IF l = Nil THEN Nil ELSE b.levels[s][l].head
Behind(b, s, n) ==
  IF b.nodes[n].next # Nil THEN b.nodes[n].next ELSE HeadOf(b, s, NextLevel(b, s, b.nodes[n].level))
Walk(b, from, Step(_)) ==
  FoldLeft(LAMBDA w, i : IF w.at = Nil THEN w
                         ELSE [seq |-> Append(w.seq, b.nodes[w.at].order), at |-> Step(w.at)],
           [seq |-> <<>>, at |-> from], [i \in 1..MaxOrders |-> i]).seq
BestLevel(b, s) == Walk(b, HeadOf(b, s, b.best[s]), LAMBDA n : b.nodes[n].next)
ForEachOrder(b, s) == Walk(b, HeadOf(b, s, b.best[s]), LAMBDA n : Behind(b, s, n))
Shown(b) == [s \in {"buy", "sell"} |-> ForEachOrder(b, s)]
PriceOf(l) == Base + l * Tick
\* What levels() says of a level it walks to.
Levels(b, s) == {[px |-> PriceOf(l), qty |-> b.levels[s][l].total] : l \in b.bits[s]}
=============================================================================

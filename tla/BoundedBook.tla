---------------------------- MODULE BoundedBook ----------------------------
(***************************************************************************)
(* What the matcher is promised of a book (docs/venue/matching.md): it      *)
(* behaves as MatchingBook, the oracle (RestingBook), within a band of      *)
(* prices and a number of orders, and says which bound refuses an order.    *)
(* The caller's command and its result are in call.                         *)
(***************************************************************************)
EXTENDS RestingBook

CONSTANTS
  Capacity,    \* the orders the book can hold
  InBand(_)    \* whether it has a level for a price

VARIABLES book, call

NoCall == [op |-> "none"]
Init == book = EmptyBook /\ call = NoCall

AddResult(px) ==
  CASE ~InBand(px) -> "PriceOutOfBand"
    [] InBand(px) /\ Size(book) = Capacity -> "PoolExhausted"
    [] OTHER -> "Accepted"
Add(c) ==
  /\ c.result = AddResult(c.order.px)
  /\ book' = IF c.result = "Accepted" THEN AddResting(book, c.side, c.order) ELSE book

CancelOne(c) ==
  /\ c.result = IF IsResting(book, c.id) THEN Find(book, c.id) ELSE NoCall
  /\ book' = Cancel(book, c.id)

\* What each command does to the oracle; the matcher names orders that rest.
Named(c) == IsResting(book, c.id)
Next ==
  \/ call'.op = "add" /\ Add(call')
  \/ call'.op = "cancel" /\ CancelOne(call')
  \/ call'.op = "reduce" /\ Named(call') /\ book' = Reduce(book, call'.id, call'.leaves)
  \/ call'.op = "reduceTotal" /\ Named(call') /\ book' = ReduceTotal(book, call'.id, call'.total)
  \/ call'.op = "consume" /\ Named(call') /\ book' = ConsumeById(book, call'.id, call'.qty)
  \/ call'.op = "fill" /\ book[call'.side] # <<>> /\ book' = FillBest(book, call'.side, call'.qty)
Spec == Init /\ [][Next]_<<book, call>>
=============================================================================

----------------------------- MODULE PublicBook -----------------------------
(***************************************************************************)
(* The public book of one symbol: what MarketDataPublisher (market_data.h)  *)
(* makes of the engine's events.  A public book is a record                 *)
(*   [orders |-> id -> [side, px, leaves], level |-> side -> price -> size] *)
(* Hidden reserves are not in it.  Trades, triggers, rejects and status     *)
(* changes print or are dropped and leave it alone.                         *)
(***************************************************************************)
EXTENDS Integers, Functions

NoPublicBook(prices) == [orders |-> [id \in {} |-> 0],
                         level |-> [s \in {"buy", "sell"} |-> [p \in prices |-> 0]]]

ApplyLevel(d, s, p, by) == [d EXCEPT !.level[s][p] = @ + by]

Shows(d, id) == id \in DOMAIN d.orders

\* OrderAccepted of an order that rests.
OnAccepted(d, id, s, p, shown) ==
  LET o == [side |-> s, px |-> p, leaves |-> shown]
      known == [d EXCEPT !.orders = [k \in DOMAIN @ \cup {id} |-> IF k = id THEN o ELSE @[k]]]
  IN ApplyLevel(known, s, p, shown)

\* An order shows `shown` from now on, where it is.
Shown(d, id, shown) ==
  LET o == d.orders[id]
  IN ApplyLevel([d EXCEPT !.orders[id].leaves = shown], o.side, o.px, shown - o.leaves)

Drop(d, id) == [d EXCEPT !.orders = Restrict(@, DOMAIN @ \ {id})]

OnExecuted(d, id, shown, complete) ==
  CASE ~Shows(d, id) -> d
    [] Shows(d, id) /\ complete -> Drop(Shown(d, id, shown), id)
    [] OTHER -> Shown(d, id, shown)

OnCanceled(d, id) == IF Shows(d, id) THEN Drop(Shown(d, id, 0), id) ELSE d

OnModified(d, id, p, leaves) ==
  IF ~Shows(d, id) THEN d
  ELSE LET gone == Shown(d, id, 0)
       IN Shown([gone EXCEPT !.orders[id].px = p], id, leaves)

\* Mutant: a slice on hold stays on display.
OnFillHeldShown(d, id, shown) == d

\* A slice on hold is off the public book; the order stays known at size 0.
OnFillHeld(d, id, shown) == IF Shows(d, id) THEN Shown(d, id, shown) ELSE d
=============================================================================

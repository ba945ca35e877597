-------------------------- MODULE MCMatchingEngine --------------------------
(* Model values for MatchingEngine: two accounts, the venues they trade on   *)
(* and the orders they may send there.                                       *)
EXTENDS MatchingEngine

\* Orders 1 and 2 are the maker's, 3 and 4 the client's.
OwnerOf == 1 :> "mm" @@ 2 :> "mm" @@ 3 :> "c" @@ 4 :> "c"
ScopeOf == "mm" :> 1 @@ "c" :> 2

Order(id, side, px, qty) ==
  [id |-> id, side |-> side, px |-> px, qty |-> qty, mkt |-> FALSE, tif |-> "GTC",
   stp |-> "None", post |-> FALSE, ll |-> FALSE, vis |-> 0, exp |-> 0]

Ask(id, px, qty) == Order(id, "sell", px, qty)
Bid(id, px, qty) == Order(id, "buy", px, qty)
LastLook(o) == [o EXCEPT !.ll = TRUE]
Tif(o, tif) == [o EXCEPT !.tif = tif]
GoodTill(o, t) == [o EXCEPT !.tif = "GTD", !.exp = t]
Market(o) == [o EXCEPT !.mkt = TRUE, !.tif = "IOC"]
Iceberg(o, peak) == [o EXCEPT !.vis = peak]
PostOnly(o) == [o EXCEPT !.post = TRUE]
Stp(o, mode) == [o EXCEPT !.stp = mode]
Amend(id, px, qty) == [id |-> id, px |-> px, qty |-> qty]

\* Last look: quotes and orders that rest, on a book without bounds.
Otc == [window |-> 1, capacity |-> 9, acceptOnTimeout |-> FALSE,
        orders |-> {LastLook(Ask(1, 1, 2)), Ask(2, 2, 1), Bid(3, 2, 3), Tif(Bid(3, 1, 1), "IOC"),
                    GoodTill(Bid(4, 2, 2), 1)},
        amends |-> {Amend(3, 0, 1), Amend(1, 2, 2)},
        quotes |-> {[bid |-> 2, ask |-> 1, legs |-> <<LastLook(Bid(2, 1, 1)), LastLook(Ask(1, 2, 1))>>]}]

\* No last look, a pool of two nodes, every kind of order.
Ladder == [window |-> 0, capacity |-> 2, acceptOnTimeout |-> FALSE,
           orders |-> {Iceberg(Ask(1, 1, 3), 1), PostOnly(Ask(2, 1, 1)), Tif(Bid(3, 1, 2), "FOK"),
                       Market(Bid(3, 1, 2)), Bid(4, 2, 2), GoodTill(Ask(2, 2, 1), 1)},
           amends |-> {Amend(4, 1, 1), Amend(1, 2, 2)},
           quotes |-> {}]

\* Own orders meet, some of them with a slice on hold.
Desks == [window |-> 1, capacity |-> 9, acceptOnTimeout |-> TRUE,
          orders |-> {LastLook(Ask(1, 1, 1)), LastLook(Bid(2, 2, 2))}
                     \cup {Stp(Ask(4, 1, 2), s) : s \in {"CancelOldest", "Decrement"}}
                     \cup {Stp(Bid(3, 2, 3), s) : s \in {"CancelNewest", "CancelBoth", "Decrement"}},
          amends |-> {Amend(3, 1, 2)},
          quotes |-> {}]

\* Last look and own orders on a pool of two nodes.
Tight == [window |-> 1, capacity |-> 2, acceptOnTimeout |-> FALSE,
          orders |-> {LastLook(Ask(1, 1, 1)), LastLook(Ask(2, 1, 2)), Tif(Bid(3, 1, 2), "IOC"),
                      Ask(4, 2, 1), Ask(3, 2, 1), Stp(Bid(4, 2, 2), "CancelOldest")},
          amends |-> {Amend(1, 2, 1)},
          quotes |-> {}]

\* One last-look order, two takers that hit it one after the other.
Looks == [window |-> 1, capacity |-> 9, acceptOnTimeout |-> FALSE,
          orders |-> {LastLook(Ask(1, 1, 2)), Tif(Bid(3, 1, 1), "IOC"), Tif(Bid(4, 1, 1), "IOC")},
          amends |-> {}, quotes |-> {}]

LooksOnly == "looks" :> Looks
MatchVenues == "otc" :> Otc @@ "ladder" :> Ladder @@ "desks" :> Desks @@ "tight" :> Tight
=============================================================================

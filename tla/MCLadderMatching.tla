-------------------------- MODULE MCLadderMatching --------------------------
(* Model values for LadderMatching: two firms, a ladder of two levels and a  *)
(* pool of three orders, so that both are exceeded, on a table of eight      *)
(* slots where every home collides and the chains wrap around the end.       *)
EXTENDS LadderMatching, TLC

MCHash == 1 :> 7 @@ 2 :> 7 @@ 3 :> 6 @@ 4 :> 0
MCScope == 1 :> "a" @@ 2 :> "b" @@ 3 :> "b" @@ 4 :> "a"

Offer(id, side, px, qty) ==
  [id |-> id, side |-> side, px |-> px, qty |-> qty, tif |-> "gtc", stp |-> "none", post |-> FALSE, peak |-> 0]
Iceberg(o, peak) == [o EXCEPT !.peak = peak]
Stp(o, mode) == [o EXCEPT !.stp = mode]
Tif(o, tif) == [o EXCEPT !.tif = tif]
PostOnly(o) == [o EXCEPT !.post = TRUE]

MCOffers ==
  {Iceberg(Offer(1, "sell", 10, 3), 1), Offer(1, "buy", 10, 2), Offer(2, "sell", 12, 1), Offer(2, "sell", 10, 1),
   Iceberg(Offer(2, "buy", 12, 2), 1), Offer(3, "sell", 10, 2), Offer(3, "buy", 10, 1),
   Offer(3, "sell", 9, 1), Offer(3, "buy", 14, 1),
   Stp(Offer(4, "buy", 12, 2), "decrement"), Stp(Offer(4, "buy", 10, 1), "oldest"),
   Stp(Offer(4, "sell", 10, 1), "newest"), Stp(Offer(4, "buy", 12, 2), "both"),
   Tif(Offer(4, "buy", 12, 4), "fok"), Stp(Tif(Offer(4, "buy", 12, 3), "fok"), "oldest"),
   Tif(Offer(4, "buy", 0, 3), "ioc"), PostOnly(Offer(4, "sell", 10, 1))}
=============================================================================

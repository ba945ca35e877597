----------------------------- MODULE MCTrading -----------------------------
(***************************************************************************)
(* Desks for Trading: each puts one family of features to work, with the     *)
(* orders that make its hard cases happen.                                  *)
(***************************************************************************)
EXTENDS Trading

\* Orders 1 to 3 are the maker's, 4 to 6 the taker's.
OwnerOf == [i \in 1..6 |-> IF i <= 3 THEN "mm" ELSE "tk"]
ScopeOf == [a \in {"mm", "tk"} |-> a]

\* A plain day order; the desks override what they are about.
Day(id, side, px, qty) ==
  [id |-> id, cl |-> 0, side |-> side, qty |-> qty, px |-> px, type |-> "limit", tif |-> "GTC",
   stp |-> "CancelOldest", peg |-> "None", offset |-> 0, group |-> 0, trig |-> 0, exp |-> 0,
   vis |-> 0, post |-> FALSE]
MarketOrder(id, side, qty) == [Day(id, side, 0, qty) EXCEPT !.type = "market"]
StopOrder(id, side, trig, qty) == [MarketOrder(id, side, qty) EXCEPT !.type = "stop", !.trig = trig]
Trailing(id, side, offset, qty) == [MarketOrder(id, side, qty) EXCEPT !.type = "trailing", !.offset = offset]

Plain ==
  [lo |-> 1, hi |-> MaxPx, tick |-> 1, luld |-> 0, pause |-> 0, mmp |-> [a \in {} |-> 0],
   window |-> 0, credit |-> [a \in {"mm", "tk"} |-> MaxPx], noRest |-> {}, cap |-> 0, reuse |-> FALSE, time |-> 1, cmds |-> 7,
   orders |-> {}, amends |-> {}, mass |-> {}, quotes |-> {}, admin |-> {}, marks |-> {}, refs |-> {}]

\* Stops that set each other off across a gap, a trailing stop, a halt and two references.
Stops ==
  [Plain EXCEPT
     !.orders = {Day(1, "buy", 4, 1), Day(2, "buy", 2, 1), Day(3, "sell", 5, 2),
                 [StopOrder(4, "sell", 4, 1) EXCEPT !.group = 1],
                 Trailing(5, "sell", 1, 1), MarketOrder(6, "sell", 1)},
     !.admin = {"Halt", "Resume"}, !.marks = {3, 5}, !.refs = {"Mark"}, !.cmds = 6]

\* A call auction: several prices, a market order, an iceberg and both orders of one account.
Auction ==
  [Plain EXCEPT
     !.orders = {Day(1, "sell", 2, 2), [Day(2, "sell", 3, 3) EXCEPT !.vis = 1], [Day(3, "buy", 3, 1) EXCEPT !.stp = "Decrement"],
                 Day(4, "buy", 3, 2), MarketOrder(5, "buy", 1), Day(6, "buy", 5, 2)},
     !.admin = {"BeginPreOpen", "OpenContinuous", "CloseSession", "OpenSession", "ResumeAuction"}, !.cmds = 6]

\* Pegs on both sides that follow each other, a thin credit line, and quotes around them.
Pegs ==
  [Plain EXCEPT
     !.orders = {[Day(1, "buy", 0, 1) EXCEPT !.peg = "Mid"], [Day(2, "sell", 0, 1) EXCEPT !.peg = "Ask", !.offset = -1],
                 Day(3, "sell", 5, 1), Day(4, "buy", 3, 1), Day(5, "buy", 2, 1),
                 [Day(6, "buy", 0, 1) EXCEPT !.peg = "Bid", !.offset = 1]},
     !.credit = [a \in {"mm", "tk"} |-> IF a = "tk" THEN 4 ELSE MaxPx],
     !.amends = {[id |-> 4, px |-> 4, qty |-> 2]}]

\* A group of a take-profit, a stop and a resting order, ids used again, deadlines.
Oco ==
  [Plain EXCEPT
     !.orders = {[Day(1, "sell", 4, 1) EXCEPT !.group = 1, !.tif = "GTD", !.exp = 3],
                 [StopOrder(2, "sell", 2, 1) EXCEPT !.group = 1, !.type = "stopLimit", !.px = 2, !.tif = "GTD", !.exp = 2],
                 [StopOrder(3, "sell", 3, 1) EXCEPT !.group = 1, !.type = "takeProfit"],
                 Day(4, "buy", 4, 1), Day(5, "buy", 2, 1), MarketOrder(6, "sell", 1)},
     !.reuse = TRUE, !.time = 3, !.cmds = 5, !.amends = {[id |-> 1, px |-> 2, qty |-> 2]},
     !.admin = {"Halt", "HaltAndCancelAll", "Resume"}]

\* Market-maker protection on a clock, a volatility pause, quotes of two rungs and names.
Maker ==
  [Plain EXCEPT
     !.luld = 3000, !.pause = 1, !.mmp = [a \in {"mm"} |-> [limit |-> 2, window |-> 2]],
     !.window = 2, !.time = 3, !.cmds = 5, !.reuse = TRUE, !.noRest = {"tk"}, !.cap = 2,
     !.quotes = {[acct |-> "mm", cl |-> 7, rungs |-> <<[bid |-> 1, ask |-> 2, legs |-> <<Day(1, "buy", 3, 1), Day(2, "sell", 4, 1)>>],
                                                    [bid |-> 3, ask |-> 3, legs |-> <<>>]>>],
                 [acct |-> "mm", cl |-> 9, rungs |-> <<[bid |-> 1, ask |-> 2, legs |-> <<Day(1, "buy", 4, 2)>>]>>]},
     !.orders = {Day(3, "sell", 6, 1), [Day(4, "sell", 1, 1) EXCEPT !.tif = "IOC", !.cl = 8],
                 [Day(5, "buy", 6, 2) EXCEPT !.tif = "IOC"], [Day(6, "sell", 4, 1) EXCEPT !.post = TRUE]},
     !.mass = {"mm"}, !.admin = {"BeginPreOpen", "OpenContinuous", "Delist", "Relist"}]

\* For EverySnapshotLoads: the price of an uncross is set by a bid that self-trade prevention
\* then takes away.
Clash ==
  [Plain EXCEPT
     !.orders = {[Day(1, "buy", 5, 2) EXCEPT !.stp = "CancelNewest"], Day(2, "sell", 3, 2), Day(4, "buy", 3, 1)},
     !.admin = {"BeginPreOpen", "OpenContinuous"}]
ClashDesks == [clash |-> Clash]

AllDesks == [stops |-> Stops, auction |-> Auction, pegs |-> Pegs, oco |-> Oco, maker |-> Maker]
=============================================================================

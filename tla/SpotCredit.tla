----------------------------- MODULE SpotCredit -----------------------------
(***************************************************************************)
(* Balances and order reservations of a spot symbol (ledger.h, the spot     *)
(* half of engine/credit.h).  Funds are a record                            *)
(*   [bal |-> account -> asset -> [avail, rsvd], rsv |-> order -> reservation] *)
(* A buy reserves the quote asset at its limit price, a sell the base asset. *)
(* Amounts are whole units: one tick times one lot is one unit of quote.    *)
(***************************************************************************)
EXTENDS Integers, FiniteSets, FiniteSetsExt, Functions

CONSTANTS
  Accounts,
  Ids,        \* order ids
  Owner,      \* the account each order id belongs to
  MaxPx       \* SymbolConfig::maxPrice, what a market buy is funded at

Assets == {"base", "quote"}
AssetOf(side) == IF side = "buy" THEN "quote" ELSE "base"
MinOf(a, b) == IF a < b THEN a ELSE b

Move(f, acct, asset, avail, rsvd) ==
  [f EXCEPT !.bal[acct][asset] = [avail |-> @.avail + avail, rsvd |-> @.rsvd + rsvd]]

\* Ledger::release never takes more than is reserved.
LedgerRelease(f, acct, asset, raw) ==
  LET m == MinOf(raw, f.bal[acct][asset].rsvd) IN Move(f, acct, asset, m, -m)

Reserved(f, id) == id \in DOMAIN f.rsv

\* backingFor: what a quantity of this order has to have reserved.
Backing(r, qty) == IF r.side = "buy" THEN r.limit * qty ELSE qty

ReservationFor(o) ==
  LET r == [side |-> o.side, limit |-> IF o.mkt /\ o.side = "buy" THEN MaxPx ELSE o.px]
  IN [side |-> r.side, limit |-> r.limit, raw |-> Backing(r, o.qty)]

CanReserve(f, o) == f.bal[Owner[o.id]][AssetOf(o.side)].avail >= ReservationFor(o).raw

ReserveFunds(f, o) ==
  LET r == ReservationFor(o)
      g == Move(f, Owner[o.id], AssetOf(o.side), -r.raw, r.raw)
  IN [g EXCEPT !.rsv = [id \in DOMAIN @ \cup {o.id} |-> IF id = o.id THEN r ELSE @[id]]]

Erase(f, id) == [f EXCEPT !.rsv = Restrict(@, DOMAIN @ \ {id})]

\* Gives back `raw` of what an order has reserved.
Return(f, id, raw) ==
  LET g == LedgerRelease(f, Owner[id], AssetOf(f.rsv[id].side), raw)
  IN [g EXCEPT !.rsv[id].raw = @ - raw]

ReleaseReservation(f, id) ==
  IF Reserved(f, id) THEN Erase(Return(f, id, f.rsv[id].raw), id) ELSE f

\* Mutant: a residual that dies takes the reservation of the held slices with it.
ReleaseHeldToo(f, id, held) == ReleaseReservation(f, id)

\* Keeps what backs the slices this order has out under last look.
ReleaseReservationExceptHeld(f, id, held) ==
  CASE held = 0 -> ReleaseReservation(f, id)
    [] held > 0 /\ Reserved(f, id) ->
         LET r == f.rsv[id] IN Return(f, id, r.raw - MinOf(r.raw, Backing(r, held)))
    [] OTHER -> f

\* The share of a shrinking order; rounds down.
ReleaseReservationPro(f, id, from, to) ==
  IF Reserved(f, id) /\ to < from
    THEN Return(f, id, (f.rsv[id].raw * (from - to)) \div from) ELSE f

ReleaseHeldLeg(f, id, qty, resting) ==
  IF ~Reserved(f, id) THEN f
  ELSE LET r == f.rsv[id]
           g == Return(f, id, MinOf(r.raw, Backing(r, qty)))
       IN IF g.rsv[id].raw <= 0 /\ ~resting THEN Erase(g, id) ELSE g

(***************************************************************************)
(* settleTrade.  A leg with a reservation spends it (a buyer gets back what *)
(* it reserved above the price); one without pays from its available        *)
(* balance, and when it cannot the trade stays on the tape and nothing      *)
(* moves.                                                                   *)
(***************************************************************************)
Legs(t) == [buyer  |-> IF t.side = "buy" THEN t.taker ELSE t.maker,
            seller |-> IF t.side = "buy" THEN t.maker ELSE t.taker]

CanSettle(f, t) ==
  LET l == Legs(t)
  IN /\ Reserved(f, l.buyer) \/ f.bal[Owner[l.buyer]]["quote"].avail >= t.px * t.qty
     /\ Reserved(f, l.seller) \/ f.bal[Owner[l.seller]]["base"].avail >= t.qty

\* Mutant: what was reserved above the price is not given back.
PayWithoutRefund(f, id, asset, paid, reserved) ==
  IF ~Reserved(f, id) THEN Move(f, Owner[id], asset, -paid, 0)
  ELSE [Move(f, Owner[id], asset, 0, -paid) EXCEPT !.rsv[id].raw = @ - reserved]

Pay(f, id, asset, paid, reserved) ==
  IF ~Reserved(f, id) THEN Move(f, Owner[id], asset, -paid, 0)
  ELSE LET spent == Move(f, Owner[id], asset, 0, -paid)
           g == IF reserved > paid
                  THEN LedgerRelease(spent, Owner[id], asset, reserved - paid) ELSE spent
       IN [g EXCEPT !.rsv[id].raw = @ - reserved]

SettleTrade(f, t) ==
  LET l == Legs(t)
      notional == t.px * t.qty
      limit == IF Reserved(f, l.buyer) THEN f.rsv[l.buyer].limit * t.qty ELSE notional
      bought == Move(Pay(f, l.buyer, "quote", notional, limit),
                     Owner[l.buyer], "base", t.qty, 0)
      sold == Move(Pay(bought, l.seller, "base", t.qty, t.qty),
                   Owner[l.seller], "quote", notional, 0)
  IN IF CanSettle(f, t) THEN sold ELSE f
=============================================================================

---------------------------- MODULE PerpClearing ----------------------------
(***************************************************************************)
(* A linear perpetual with isolated margin: the positions, funding,         *)
(* liquidation and auto-deleveraging of engine/clearing.h, the initial      *)
(* margin and fill limits of engine/credit.h and the sweep that asks them.  *)
(*                                                                         *)
(* Operators on an engine e:                                                *)
(*   led    the ledger                      book  the resting orders        *)
(*   ro     reduce-only orders that rest    rsv   margin held by an order   *)
(*   pos    positions [qty, entry, margin]  caps  position caps by account  *)
(*   mark   the mark, 0 before the first    fund  the funding calendar      *)
(*   now    sequencer time                  out   prints and liquidations   *)
(* c is the symbol's configuration: im and mm in 1/10000, cap, top of the   *)
(* band, adl, external, and the maker and taker fee in 1/100.               *)
(***************************************************************************)
EXTENDS RestingBook, Ledger, Functions

CONSTANT Owner   \* the account of each order id

Flat == [qty |-> 0, entry |-> 0, margin |-> 0]
Pos(e, a) == IF a \in DOMAIN e.pos THEN e.pos[a] ELSE Flat
Put(f, k, v) == [x \in DOMAIN f \cup {k} |-> IF x = k THEN v ELSE f[x]]
Without(f, k) == Restrict(f, DOMAIN f \ {k})
Note(e, event) == [e EXCEPT !.out = Append(@, event)]

-----------------------------------------------------------------------------
(* Initial margin of an order *)

IMFor(c, qty, px) == (px * qty * c.im) \div 10000

\* An order without a price is bounded by the top of the band on both sides.
LimitOf(c, o) == IF o.px = 0 THEN c.top ELSE o.px
MarginOf(c, o) == IF o.ro THEN 0 ELSE IMFor(c, o.qty, LimitOf(c, o))
CanReserve(c, e, o) ==
  /\ o.ro \/ LimitOf(c, o) > 0
  /\ MarginOf(c, o) > 0 => CanPay(e.led, Owner[o.id], "quote", MarginOf(c, o))
ReserveFunds(c, e, o) ==
  [e EXCEPT !.led = Reserve(@, Owner[o.id], "quote", MarginOf(c, o)),
            !.rsv = Put(@, o.id, [amt |-> MarginOf(c, o), limit |-> LimitOf(c, o)])]

ReleaseReservation(e, id) ==
  IF id \notin DOMAIN e.rsv THEN e
  ELSE [e EXCEPT !.led = Release(@, Owner[id], "quote", e.rsv[id].amt), !.rsv = Without(@, id)]

\* What qty of an order takes from its reservation.
OrderIM(c, e, id, qty) ==
  IF id \in DOMAIN e.rsv THEN Lesser(IMFor(c, qty, e.rsv[id].limit), e.rsv[id].amt) ELSE 0
Spent(e, id, im) == IF id \in DOMAIN e.rsv THEN [e EXCEPT !.rsv[id].amt = @ - im] ELSE e

\* Mutant: the margin a reducing order did not need leaves the reservation and stays reserved.
ReleaseOrderIMForgotten(c, e, id, qty) == Spent(e, id, OrderIM(c, e, id, qty))
ReleaseOrderIM(c, e, id, qty) ==
  LET im == OrderIM(c, e, id, qty)
  IN [Spent(e, id, im) EXCEPT !.led = Release(@, Owner[id], "quote", im)]

-----------------------------------------------------------------------------
(* A fill's effect on a position: the part that reduces, then the part that opens *)

UPnl(p, mark) == (mark - p.entry) * p.qty

\* s is +1 for a buy; q units of the position close at px.
ReduceLeg(c, e, a, id, s, q, px) ==
  LET p == e.pos[a]
      back == (p.margin * q) \div Abs(p.qty)
      paid == [e EXCEPT
                 !.led = Release(Pay(@, a, "quote", (px - p.entry) * q * (-s)), a, "quote", back),
                 !.pos[a] = [qty |-> p.qty + s * q, margin |-> p.margin - back,
                             entry |-> IF q = Abs(p.qty) THEN 0 ELSE p.entry]]
  IN IF q = 0 THEN e ELSE ReleaseOrderIM(c, paid, id, q)

OpenLeg(c, e, a, id, s, q, px) ==
  LET p == e.pos[a]
      im == OrderIM(c, e, id, q)
  IN IF q = 0 THEN e
     ELSE [Spent(e, id, im) EXCEPT
             !.pos[a] = [qty |-> p.qty + s * q, margin |-> p.margin + im,
                         entry |-> (Abs(p.qty) * p.entry + q * px) \div (Abs(p.qty) + q)]]

\* A flat position gives back what margin is left and goes.
CloseIfFlat(e, a) ==
  IF e.pos[a].qty # 0 THEN e
  ELSE [e EXCEPT !.led = Release(@, a, "quote", e.pos[a].margin), !.pos = Without(@, a)]

UpdatePerpPosition(c, e, a, id, s, q, px) ==
  LET cut == IF Pos(e, a).qty * s < 0 THEN Lesser(q, Abs(Pos(e, a).qty)) ELSE 0
      held == [e EXCEPT !.pos = Put(@, a, Pos(e, a))]
  IN CloseIfFlat(OpenLeg(c, ReduceLeg(c, held, a, id, s, cut, px), a, id, s, q - cut, px), a)

\* settlePerp: the buyer, then the seller, then the fees of maker and taker.
SettlePerp(c, e, buyer, seller, maker, taker, q, px) ==
  LET e1 == UpdatePerpPosition(c, e, Owner[buyer], buyer, 1, q, px)
      e2 == UpdatePerpPosition(c, e1, Owner[seller], seller, -1, q, px)
      fee(bps) == -Quotient(q * px * bps, 100)
  IN [e2 EXCEPT !.led = Pay(Pay(@, Owner[maker], "quote", fee(c.maker)),
                            Owner[taker], "quote", fee(c.taker))]

-----------------------------------------------------------------------------
(* What a fill may take *)

Reducible(e, a, side) == Greater(0, IF side = "buy" THEN -Pos(e, a).qty ELSE Pos(e, a).qty)

\* positionCapRaw: the tighter of the symbol's and the account's, 0 for none.
CapOf(c, e, a) ==
  IF c.cap = 0 THEN e.caps[a] ELSE IF e.caps[a] = 0 THEN c.cap ELSE Lesser(c.cap, e.caps[a])
Room(c, e, a, side) == CapOf(c, e, a) - (IF side = "buy" THEN 1 ELSE -1) * Pos(e, a).qty

\* How much of want a leg may fill now: what a reduce-only order can still reduce, within
\* the account's cap.
LegFillLimit(c, e, a, side, ro, want) ==
  LET allowed == IF ro THEN Lesser(want, Reducible(e, a, side)) ELSE want
  IN IF CapOf(c, e, a) > 0 THEN Greater(0, Lesser(allowed, Room(c, e, a, side))) ELSE allowed

\* Reduce-only size the account has on a side already.
RestingReduceOnly(e, a, side, exclude) ==
  FoldLeft(LAMBDA n, r : n + Total(r), 0,
           SelectSeq(e.book[side], LAMBDA r : Owner[r.id] = a /\ r.id \in e.ro /\ r.id # exclude))

\* perpRiskGate caps a reduce-only order, then asks the symbol's cap.
Gated(e, o) ==
  LET left == Reducible(e, Owner[o.id], o.side)
              - RestingReduceOnly(e, Owner[o.id], o.side, o.id)
  IN IF o.ro THEN [o EXCEPT !.qty = Lesser(@, Greater(0, left))] ELSE o
PastCap(c, e, o) ==
  c.cap # 0 /\ Abs(Pos(e, Owner[o.id]).qty + (IF o.side = "buy" THEN o.qty ELSE -o.qty)) > c.cap

-----------------------------------------------------------------------------
(* The sweep of an order *)

Crosses(o, px) == o.px = 0 \/ Ahead(o.side, o.px, px)

\* An order is off the book for good.
Gone(e, id) ==
  ReleaseReservation([e EXCEPT !.book = Cancel(@, id), !.ro = @ \ {id}], id)
GoneIf(e, id, p) == IF p THEN Gone(e, id) ELSE e

\* For the record: what the print did to both positions.
Effect(e, f, id, ro) ==
  [acct |-> Owner[id], before |-> Pos(e, Owner[id]).qty, after |-> Pos(f, Owner[id]).qty, ro |-> ro]

Execute(c, s, o, m, q) ==
  LET buy == o.side = "buy"
      settled == SettlePerp(c, s.e, IF buy THEN o.id ELSE m.id, IF buy THEN m.id ELSE o.id,
                            m.id, o.id, q, m.px)
      event == [kind |-> "trade",
                legs |-> {Effect(s.e, settled, m.id, m.id \in s.e.ro), Effect(s.e, settled, o.id, o.ro)}]
      filled == [Note(settled, event) EXCEPT !.book = FillBest(@, Opposite(o.side), q)]
  IN [s EXCEPT !.left = @ - q,
               !.e = GoneIf(GoneIf(filled, m.id, ~IsResting(filled.book, m.id)), o.id, s.left = q)]

\* The tighter leg decides; a maker that may not trade leaves, a taker ends the sweep.
Bite(c, s, o, m, mk, tk) ==
  CASE mk <= tk /\ mk = 0 -> [s EXCEPT !.e = Gone(@, m.id)]
    [] tk < mk /\ tk = 0 -> [s EXCEPT !.dead = TRUE]
    [] OTHER -> Execute(c, s, o, m, Lesser(mk, tk))

Meet(c, s, o, m, want) ==
  Bite(c, s, o, m, LegFillLimit(c, s.e, Owner[m.id], Opposite(o.side), m.id \in s.e.ro, want),
                   LegFillLimit(c, s.e, Owner[o.id], o.side, o.ro, want))

SweepOne(c, s, o) ==
  LET queue == s.e.book[Opposite(o.side)]
  IN IF s.left = 0 \/ s.dead \/ queue = <<>> \/ ~Crosses(o, Head(queue).px) THEN s
     ELSE Meet(c, s, o, Head(queue), Lesser(s.left, Head(queue).leaves))

\* Every pass prints a unit, removes a maker or ends the sweep.
Depth(b) == FoldLeft(LAMBDA n, r : n + Total(r), 0, b["buy"] \o b["sell"])
Repeat(n, Step(_), x) == LET f[i \in 0..n] == IF i = 0 THEN x ELSE Step(f[i - 1]) IN f[n]
Sweep(c, e, o) ==
  Repeat(Depth(e.book) + 1, LAMBDA s : SweepOne(c, s, o), [e |-> e, left |-> o.qty, dead |-> FALSE])

\* The residual of an unpriced or immediate order, or of one its limits stopped, is dropped.
Settle(s, o) ==
  CASE s.left = 0 -> s.e
    [] s.left > 0 /\ (s.dead \/ o.px = 0 \/ o.ioc) -> ReleaseReservation(s.e, o.id)
    [] OTHER ->
         [s.e EXCEPT !.ro = IF o.ro THEN @ \cup {o.id} ELSE @,
                     !.book = AddResting(@, o.side,
                       [id |-> o.id, px |-> o.px, leaves |-> s.left, hidden |-> 0, peak |-> 0,
                        ll |-> FALSE, post |-> FALSE, cum |-> o.qty - s.left])]

Admit(c, e, o) ==
  IF o.qty = 0 \/ PastCap(c, e, o) \/ IsResting(e.book, o.id) \/ ~CanReserve(c, e, o) THEN e
  ELSE Settle(Sweep(c, ReserveFunds(c, e, o), o), o)
OnNew(c, e, o) == Admit(c, e, Gated(e, o))

OnCancel(e, id) == IF IsResting(e.book, id) THEN Gone(e, id) ELSE e
CancelAllFor(e, a) ==
  FoldLeft(LAMBDA x, r : Gone(x, r.id), e,
           SelectSeq(e.book["buy"] \o e.book["sell"], LAMBDA r : Owner[r.id] = a))

-----------------------------------------------------------------------------
(* Liquidation and auto-deleveraging *)

\* Close a position at the mark and give its margin back.
CloseAt(e, a, p, mark) ==
  [e EXCEPT !.led = Release(Pay(@, a, "quote", UPnl(p, mark)), a, "quote", p.margin)]

\* Never more than the winner has.
Take(l, a, haircut) ==
  Pay(l, a, "quote", -Lesser(haircut, Greater(0, Available(l, a, "quote"))))

\* One winner: s is [e, owed].  Its gain is realised, then cut.
Deleverage(s, a, mark) ==
  LET p == s.e.pos[a]
      closed == CloseAt([s.e EXCEPT !.pos = Without(@, a)], a, p, mark)
      led == Take(closed.led, a, Lesser(s.owed, UPnl(p, mark)))
  IN IF s.owed <= 0 THEN s
     ELSE [e |-> Note([closed EXCEPT !.led = led], [kind |-> "adl", acct |-> a]),
           owed |-> s.owed - (Available(closed.led, a, "quote") - Available(led, a, "quote"))]

\* The winners on the other side, most profitable first, then by account.
Winners(e, sign, mark) ==
  SetToSortSeq({a \in DOMAIN e.pos : Sign(e.pos[a].qty) = -sign /\ UPnl(e.pos[a], mark) > 0},
               LAMBDA a, b : LET x == UPnl(e.pos[a], mark) y == UPnl(e.pos[b], mark)
                             IN x > y \/ (x = y /\ a < b))
AutoDeleverage(e, sign, deficit, mark) ==
  FoldLeft(LAMBDA s, a : Deleverage(s, a, mark), [e |-> e, owed |-> deficit],
           Winners(e, sign, mark)).e

\* The insurance fund tops a negative wallet up to zero.
Bankrupt(c, e, a, sign, deficit, mark) ==
  IF c.adl THEN AutoDeleverage([e EXCEPT !.led = Pay(@, a, "quote", deficit)], sign, deficit, mark)
  ELSE [e EXCEPT !.led = Pay(@, a, "quote", deficit)]
Closed(c, e, a, sign, mark) ==
  LET avail == Available(e.led, a, "quote")
      told == Note(e, [kind |-> "liquidation", acct |-> a, bankrupt |-> avail < 0])
  IN IF avail < 0 THEN Bankrupt(c, told, a, sign, -avail, mark) ELSE told

\* The account's orders go first: their margin is its own collateral.
ForceClose(c, e, a, mark) ==
  IF a \notin DOMAIN e.pos THEN e
  ELSE Closed(c, CloseAt(CancelAllFor([e EXCEPT !.pos = Without(@, a)], a), a, e.pos[a], mark), a,
              IF e.pos[a].qty > 0 THEN 1 ELSE -1, mark)

\* Mutant: the wallet is left out.
UnderwaterIsolated(c, e, a, mark) ==
  e.pos[a].margin + UPnl(e.pos[a], mark) < (mark * Abs(e.pos[a].qty) * c.mm) \div 10000

\* A negative wallet drags the equity of a position, a positive one does not help it.
Underwater(c, e, a, mark) ==
  e.pos[a].margin + UPnl(e.pos[a], mark) + Lesser(0, Available(e.led, a, "quote"))
    < (mark * Abs(e.pos[a].qty) * c.mm) \div 10000

CheckLiquidations(c, e, mark) ==
  IF c.external \/ c.mm = 0 THEN e
  ELSE FoldLeft(LAMBDA x, a : ForceClose(c, x, a, mark), Note(e, [kind |-> "swept", mark |-> mark]),
                SetToSortSeq({a \in DOMAIN e.pos : Underwater(c, e, a, mark)}, <))

SetMark(c, e, mark) == CheckLiquidations(c, [e EXCEPT !.mark = mark], mark)
OnForceClose(c, e, a) == IF e.mark = 0 THEN e ELSE ForceClose(c, e, a, e.mark)

-----------------------------------------------------------------------------
(* Funding, and the operator's corrections *)

\* advanceFundingSchedule: whole intervals, past now.
Advance(f, now) ==
  IF f.every = 0 \/ f.next = 0 THEN f
  ELSE LET next == f.next + f.every
       IN [f EXCEPT !.next = IF next > now THEN next
                             ELSE next + ((now - next) \div f.every + 1) * f.every]

\* Longs pay when the rate (in 1/100) is positive.
FundingOf(p, rate, mark) ==
  LET mag == Quotient(mark * Abs(p.qty) * rate, 100) IN IF p.qty > 0 THEN -mag ELSE mag
ApplyFunding(c, e, rate, mark) ==
  CheckLiquidations(c,
    [e EXCEPT !.fund = Advance([@ EXCEPT !.rate = rate], e.now),
              !.led = FoldLeft(LAMBDA l, a : Pay(l, a, "quote", FundingOf(e.pos[a], rate, mark)), @,
                               SetToSeq(DOMAIN e.pos))], mark)

\* No money and no margin moves; a record that is flat stays.
AdjustRefused(e, a, delta, entry) == entry = 0 /\ (delta = 0 \/ a \notin DOMAIN e.pos)
Adjusted(p, delta, entry) ==
  [p EXCEPT !.qty = @ + delta, !.entry = IF p.qty + delta = 0 THEN 0 ELSE IF entry # 0 THEN entry ELSE @]
AdjustPosition(e, a, delta, entry) ==
  IF AdjustRefused(e, a, delta, entry) THEN e
  ELSE [e EXCEPT !.pos = Put(@, a, Adjusted(Pos(e, a), delta, entry))]
=============================================================================

---------------------------- MODULE CrossMargin ----------------------------
(***************************************************************************)
(* Portfolio margin over several symbols (cross_margin.h) with a basket of  *)
(* collateral (collateral.h).  Operators on a manager m:                    *)
(*   led    the ledger                     legs   account -> symbol -> leg  *)
(*   marks  symbol -> mark, 0: none yet    paused the circuit breaker       *)
(*   px     price of a collateral asset    out    liquidations              *)
(* A leg is [qty, entry]; a quantity of 0 is no leg.  c is the              *)
(* configuration: rates (im, mm in 1/10000) of the symbols it knows, the    *)
(* fallback rates, the haircut of a collateral asset in 1/10000, adl.       *)
(***************************************************************************)
EXTENDS Ledger, Sequences, FiniteSets, SequencesExt, FiniteSetsExt

CONSTANTS Symbols, Assets   \* numbers: their order breaks ties; asset 0 is the quote

NoLeg == [qty |-> 0, entry |-> 0]
LegsOf(m, a) == {s \in Symbols : m.legs[a][s].qty # 0}
Holders(m) == {a \in DOMAIN m.legs : LegsOf(m, a) # {}}
Logged(m, event) == [m EXCEPT !.out = Append(@, event)]

\* A symbol without a mark is priced at entry: no gain, no loss.
MarkOf(m, s, entry) == IF m.marks[s] = 0 THEN entry ELSE m.marks[s]
LegPnl(m, a, s) ==
  (MarkOf(m, s, m.legs[a][s].entry) - m.legs[a][s].entry) * m.legs[a][s].qty

Configured(c, s) == s \in DOMAIN c.rates
Rates(c, s) == IF Configured(c, s) THEN c.rates[s] ELSE c.fallback
LegMargin(c, s, qty, mark, bps) == (mark * Abs(qty) * bps) \div 10000
LegIM(c, m, a, s) ==
  LegMargin(c, s, m.legs[a][s].qty, MarkOf(m, s, m.legs[a][s].entry), Rates(c, s).im)
LegMM(c, m, a, s) ==
  LegMargin(c, s, m.legs[a][s].qty, MarkOf(m, s, m.legs[a][s].entry), Rates(c, s).mm)
SumOver(S, Of(_)) == FoldSet(LAMBDA s, n : n + Of(s), 0, S)
InitialMargin(c, m, a) == SumOver(LegsOf(m, a), LAMBDA s : LegIM(c, m, a, s))
MaintenanceMargin(c, m, a) == SumOver(LegsOf(m, a), LAMBDA s : LegMM(c, m, a, s))

\* The haircut discounts what is owned, never what is owed.
Value(c, m, s, bal) ==
  IF bal * m.px[s] <= 0 THEN bal * m.px[s] ELSE (bal * m.px[s] * (10000 - c.haircut[s])) \div 10000
FreeValue(c, m, a) == SumOver(Assets, LAMBDA s : Value(c, m, s, Available(m.led, a, s)))
Equity(c, m, a) == FreeValue(c, m, a) + SumOver(LegsOf(m, a), LAMBDA s : LegPnl(m, a, s))

Withdrawable(c, m, a) == Greater(0, Equity(c, m, a) - InitialMargin(c, m, a))

\* A fill that shrinks the exposure is always allowed; one that grows it must be margined.
CanOpen(c, m, a, s, delta, px) ==
  LET next == m.legs[a][s].qty + delta
      others == SumOver(LegsOf(m, a) \ {s}, LAMBDA x : LegIM(c, m, a, x))
  IN \/ Abs(next) <= Abs(m.legs[a][s].qty)
     \/ /\ Configured(c, s)
        /\ others + LegMargin(c, s, next, MarkOf(m, s, px), Rates(c, s).im) <= Equity(c, m, a)

\* delta units of s at px: what reduces is realised, what opens averages the entry.
ApplyFill(m, a, s, delta, px) ==
  LET p == m.legs[a][s]
      cut == IF p.qty * delta < 0 THEN Lesser(Abs(delta), Abs(p.qty)) ELSE 0
      kept == Abs(p.qty) - cut
      opened == Abs(delta) - cut
      base == IF kept = 0 THEN 0 ELSE p.entry
      entry == IF opened = 0 THEN base ELSE (kept * base + opened * px) \div (kept + opened)
  IN [m EXCEPT !.led = Pay(@, a, 0, (px - p.entry) * cut * Sign(p.qty)),
               !.legs[a][s] = IF p.qty + delta = 0 THEN NoLeg ELSE [qty |-> p.qty + delta, entry |-> entry]]

-----------------------------------------------------------------------------
(* Liquidation *)

\* Sell one asset of the basket to the venue for what is still owed; s is [m, owed].
ConvertOne(c, s, a, asset) ==
  LET bal == Available(s.m.led, a, asset)
      val == Value(c, s.m, asset, bal)
      take == Lesser(s.owed, val)
      units == (bal * take) \div val
  IN IF s.owed <= 0 \/ bal <= 0 \/ val <= 0 THEN s
     ELSE [m |-> [s.m EXCEPT !.led = Pay(Pay(@, a, asset, -units), a, 0, take)], owed |-> s.owed - take]
ConvertCollateral(c, m, a, deficit) ==
  FoldLeft(LAMBDA s, asset : ConvertOne(c, s, a, asset), [m |-> m, owed |-> deficit],
           SetToSortSeq(Assets \ {0}, <)).m

\* Mutant: the pool is credited the whole haircut, whatever the winner could pay.
ConfiscateWhole(l, a, haircut) == Credit(Debit(l, a, 0, haircut), Venue, 0, haircut)
Confiscate(l, a, haircut) == Pay(l, a, 0, -Lesser(haircut, Greater(0, Available(l, a, 0))))

\* One winning leg is closed at the mark and its gain cut; s is [m, owed].
DeleverageLeg(s, w) ==
  LET paid == Pay(s.m.led, w.acct, 0, LegPnl(s.m, w.acct, w.sym))
      led == Confiscate(paid, w.acct, Lesser(s.owed, w.up))
  IN IF s.owed <= 0 \/ s.m.legs[w.acct][w.sym].qty = 0 THEN s
     ELSE [m |-> Logged([s.m EXCEPT !.led = led, !.legs[w.acct][w.sym] = NoLeg],
                        [kind |-> "adl", acct |-> w.acct]),
           owed |-> s.owed - (Available(paid, w.acct, 0) - Available(led, w.acct, 0))]

Outranks(x, y) ==
  \/ x.up > y.up
  \/ x.up = y.up /\ (x.acct < y.acct \/ (x.acct = y.acct /\ x.sym < y.sym))
WinningLegs(m, sides) ==
  SetToSortSeq({w \in {[acct |-> a, sym |-> s, up |-> LegPnl(m, a, s)] :
                        a \in Holders(m), s \in {x \in Symbols : sides[x] # 0}} :
                w.up > 0 /\ Sign(m.legs[w.acct][w.sym].qty) = -sides[w.sym]}, Outranks)
AutoDeleverageLegs(m, sides, deficit) ==
  FoldLeft(LAMBDA s, w : DeleverageLeg(s, w), [m |-> m, owed |-> deficit], WinningLegs(m, sides)).m

CoverDeficit(c, m, a, sides, deficit) ==
  IF deficit <= 0 THEN m
  ELSE IF c.adl THEN AutoDeleverageLegs([m EXCEPT !.led = Pay(@, a, 0, deficit)], sides, deficit)
  ELSE [m EXCEPT !.led = Pay(@, a, 0, deficit)]
Judge(c, m, a, sides) ==
  CoverDeficit(c, Logged(m, [kind |-> "liquidation", acct |-> a, bankrupt |-> Available(m.led, a, 0) < 0]),
               a, sides, -Available(m.led, a, 0))
Basket(c, m, a) ==
  IF Available(m.led, a, 0) < 0 THEN ConvertCollateral(c, m, a, -Available(m.led, a, 0)) ELSE m

\* Every leg closes at its mark; then the basket, then the fund, then the winners.
Liquidate(c, m, a) ==
  IF LegsOf(m, a) = {} THEN m
  ELSE Judge(c, Basket(c, [m EXCEPT
                   !.led = Pay(@, a, 0, SumOver(LegsOf(m, a), LAMBDA s : LegPnl(m, a, s))),
                   !.legs[a] = [s \in Symbols |-> NoLeg]], a),
             a, [s \in Symbols |-> Sign(m.legs[a][s].qty)])

Breaches(c, m, a) == Equity(c, m, a) < MaintenanceMargin(c, m, a)

SweepPortfolios(c, m) ==
  IF m.paused THEN m
  ELSE FoldLeft(LAMBDA x, a : Liquidate(c, x, a), Logged(m, [kind |-> "swept"]),
                SetToSortSeq({a \in Holders(m) : Breaches(c, m, a)}, <))

SetPortfolioMark(c, m, s, mark) == SweepPortfolios(c, [m EXCEPT !.marks[s] = mark])

\* Every holder of s pays or receives; the pool mirrors it.
PortfolioFunding(c, m, s, rate, mark) ==
  SweepPortfolios(c, [m EXCEPT !.led =
    FoldLeft(LAMBDA l, a : Pay(l, a, 0, -Quotient(mark * m.legs[a][s].qty * rate, 100)), @,
             SetToSeq(Holders(m)))])
=============================================================================

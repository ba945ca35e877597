------------------------------ MODULE Clearing ------------------------------
(***************************************************************************)
(* Clearing of perpetuals, on one of several desks: an engine with isolated *)
(* margin and its funding scheduler, or a portfolio-margin manager fed by   *)
(* the mark drivers of its symbols.  Each runs one command at a time.       *)
(*                                                                         *)
(* The isolated engine has a ledger bound; its other order types, amends    *)
(* and last look are those of MatchingEngine and Trading.                   *)
(***************************************************************************)
EXTENDS PerpClearing, MarkFeed

CONSTANTS
  Traders,          \* accounts, numbers above 0
  Symbols, Assets,  \* of the portfolio; asset 0 is the quote
  Sources,          \* of an index
  Desks,            \* configurations and inputs by name, see below
  MaxTime           \* bound: the clock

Portfolio == INSTANCE CrossMargin

\* A desk: its kind, its configuration (see PerpClearing, CrossMargin, MarkFeed), the funds
\* its accounts start with and, as bounds, what is sent to it and how many commands.
ASSUME ClearingAssumption ==
  /\ Traders \subseteq Nat \ {0} /\ Owner \in [DOMAIN Owner -> Traders] /\ MaxTime \in Nat
  /\ \A n \in DOMAIN Desks : LET d == Desks[n] IN
       /\ d.kind \in {"isolated", "portfolio"} /\ d.cmds \in Nat
       /\ d.kind = "isolated" => /\ d.cfg.mm <= d.cfg.im /\ d.cfg.top > 0
                                 /\ \A o \in d.send.orders : o.id \in DOMAIN Owner /\ o.qty > 0
       /\ d.kind = "portfolio" => DOMAIN d.cfg.rates \subseteq Symbols /\ 0 \in Assets

VARIABLES
  desk,    \* the name of the desk, fixed when it is built
  eng,     \* the engine of an isolated desk
  port,    \* the manager of a portfolio desk
  feed,    \* symbol -> source -> [px, at], what the index has heard
  drive,   \* symbol -> [paused, last, mid], its mark driver
  sched,   \* the funding scheduler
  cmds,    \* commands run
  net      \* history: what was paid in less what was paid out, by asset

vars == <<desk, eng, port, feed, drive, sched, cmds, net>>
Config == Desks[desk].cfg
Send(what) == Desks[desk].send[what]

-----------------------------------------------------------------------------

Wallets(funds, assets) ==
  [a \in Traders \cup {Venue} |-> [s \in assets |-> [avail |-> IF a = Venue THEN 0 ELSE funds[a][s], rsvd |-> 0]]]
NewEngine(d) ==
  [led |-> Wallets(d.funds, {"quote"}), book |-> EmptyBook, ro |-> {}, rsv |-> <<>>, pos |-> <<>>,
   caps |-> [a \in Traders |-> 0], mark |-> 0, fund |-> [rate |-> 0, every |-> 0, next |-> 0],
   now |-> 1, out |-> <<>>]
NewPortfolio(d) ==
  [led |-> Wallets(d.funds, Assets), legs |-> [a \in Traders |-> [s \in Symbols |-> Portfolio!NoLeg]],
   marks |-> [s \in Symbols |-> 0], paused |-> FALSE, px |-> d.px, now |-> 1, out |-> <<>>]
NewFeed == [s \in Symbols |-> [r \in Sources |-> [px |-> 0, at |-> 0]]]
NewDriver == [s \in Symbols |-> [paused |-> FALSE, last |-> 0, mid |-> 0]]
NewSched == [due |-> 0, sum |-> 0, n |-> 0]
None == [none |-> TRUE]

Isolated == Desks[desk].kind = "isolated"

PaidIn(funds, s) == FoldLeft(LAMBDA n, a : n + funds[a][s], 0, SetToSeq(Traders))

Init ==
  /\ desk \in DOMAIN Desks
  /\ eng = IF Isolated THEN NewEngine(Desks[desk]) ELSE None
  /\ port = IF Isolated THEN None ELSE NewPortfolio(Desks[desk])
  /\ feed = NewFeed /\ drive = NewDriver /\ sched = NewSched /\ cmds = 0
  /\ net = [s \in IF Isolated THEN {"quote"} ELSE Assets |-> PaidIn(Desks[desk].funds, s)]

\* One command of the engine, or of the manager.
Turn == cmds < Desks[desk].cmds /\ cmds' = cmds + 1 /\ UNCHANGED desk
Engine(e) == Isolated /\ Turn /\ eng' = e /\ UNCHANGED <<port, feed, drive>>
Command(e) == Engine(e) /\ UNCHANGED <<sched, net>>
Quiet == [eng EXCEPT !.out = <<>>]
Manager(m) == ~Isolated /\ Turn /\ port' = m /\ UNCHANGED <<eng, sched>>
Still == [port EXCEPT !.out = <<>>]

-----------------------------------------------------------------------------
(* The isolated engine *)

New == Isolated /\ \E o \in Send("orders") : Command(OnNew(Config, Quiet, o))
CancelOrder == Isolated /\ \E r \in Orders(eng.book) : Command(OnCancel(Quiet, r.id))
MassCancel == Isolated /\ \E a \in Send("pulls") : Command(CancelAllFor(Quiet, a))
Mark == Isolated /\ \E m \in Send("marks") : Command(SetMark(Config, Quiet, m))
Fund == Isolated /\ \E r \in Send("rates"), m \in Send("marks") : Command(ApplyFunding(Config, Quiet, r, m))
Calendar ==
  Isolated /\ \E n \in Send("calendar") :
    Command([Quiet EXCEPT !.fund = [@ EXCEPT !.every = n, !.next = IF n = 0 THEN 0 ELSE eng.now + n]])
Close == Isolated /\ \E a \in Send("closes") : Command(OnForceClose(Config, Quiet, a))
Adjust == Isolated /\ \E x \in Send("fixes") : Command(AdjustPosition(Quiet, x.acct, x.delta, x.entry))
Limit == Isolated /\ \E x \in Send("caps") : Command([Quiet EXCEPT !.caps[x.acct] = x.cap])
Deposit ==
  Isolated /\ \E x \in Send("deposits") :
    /\ Engine([Quiet EXCEPT !.led = Credit(@, x.acct, "quote", x.amt)])
    /\ net' = [net EXCEPT !["quote"] = @ + x.amt] /\ UNCHANGED sched
\* A no-op unless the whole of it is available.
Withdraw ==
  Isolated /\ \E x \in Send("withdrawals") :
    /\ Engine([Quiet EXCEPT !.led = Debit(@, x.acct, "quote", x.amt)])
    /\ net' = [net EXCEPT !["quote"] = @ - IF CanPay(eng.led, x.acct, "quote", x.amt) THEN x.amt ELSE 0]
    /\ UNCHANGED sched
\* FundingScheduler::onTick: one boundary is settled per tick, however late it is.
FundingTick ==
  Isolated /\ \E m \in Send("ticks"), i \in Send("indexes") :
    LET f == Sampled(Config, sched, eng.now, m, i) IN
    /\ UNCHANGED net
    /\ IF eng.now >= f.due
         THEN Engine(ApplyFunding(Config, Quiet, IntervalRate(Config, f), m)) /\ sched' = Rolled(Config, f)
         ELSE Engine(Quiet) /\ sched' = f
Tick == Isolated /\ eng.now < MaxTime /\ eng' = [Quiet EXCEPT !.now = @ + 1] /\ UNCHANGED <<desk, port, feed, drive, sched, cmds, net>>

-----------------------------------------------------------------------------
(* The portfolio manager *)

\* A fill the venue asked about on both sides.
Trade ==
  ~Isolated /\ \E t \in Send("trades") :
    /\ Portfolio!CanOpen(Config, port, t.buyer, t.sym, t.qty, t.px)
    /\ Portfolio!CanOpen(Config, port, t.seller, t.sym, -t.qty, t.px)
    /\ Manager(Portfolio!ApplyFill(Portfolio!ApplyFill(Still, t.buyer, t.sym, t.qty, t.px),
                                   t.seller, t.sym, -t.qty, t.px))
    /\ UNCHANGED <<feed, drive, net>>

\* A source of an index reports.
Source ==
  ~Isolated /\ \E u \in Send("sources") :
    /\ feed' = [feed EXCEPT ![u.sym][u.src] = [px |-> u.px, at |-> port.now]]
    /\ Manager(Still) /\ UNCHANGED <<drive, net>>

\* MarkFeedDriver::onTick with the last trade and the book it is given, 0 for none.
Paused(m, s) == [m EXCEPT !.paused = TRUE]
Resumed(m, s) == IF drive[s].paused THEN [m EXCEPT !.paused = FALSE] ELSE m
Drive ==
  ~Isolated /\ \E s \in Symbols, last \in Send("lasts"), b \in Send("books") :
    LET mid == ImpactMid(b, Config.impact)
        d == [drive[s] EXCEPT !.last = IF last > 0 THEN last ELSE @, !.mid = IF mid > 0 THEN mid ELSE @]
        fresh == HasIndex(Config, feed[s], port.now)
    IN /\ UNCHANGED <<feed, net>>
       /\ IF fresh
            THEN /\ drive' = [drive EXCEPT ![s] = [d EXCEPT !.paused = FALSE]]
                 /\ Manager(Portfolio!SetPortfolioMark(Config, Resumed(Still, s), s,
                              MarkValue(Config, Index(Config, feed[s], port.now), d.last, d.mid)))
            ELSE /\ drive' = [drive EXCEPT ![s].paused = TRUE]
                 /\ Manager(Paused(Still, s))

FundPortfolio ==
  ~Isolated /\ \E s \in Symbols, r \in Send("rates"), m \in Send("marks") :
    Manager(Portfolio!PortfolioFunding(Config, Still, s, r, m)) /\ UNCHANGED <<feed, drive, net>>
\* The price of the coin an account posted.
Reprice ==
  ~Isolated /\ \E p \in Send("coin") :
    Manager([Still EXCEPT !.px[1] = p]) /\ UNCHANGED <<feed, drive, net>>
\* The operator's circuit breaker.
Pause ==
  ~Isolated /\ \E p \in Send("pause") : Manager([Still EXCEPT !.paused = p]) /\ UNCHANGED <<feed, drive, net>>
\* A withdrawal goes through when what backs the positions stays.
WithdrawQuote ==
  ~Isolated /\ \E x \in Send("withdrawals") :
    /\ x.amt <= Portfolio!Withdrawable(Config, port, x.acct) /\ CanPay(port.led, x.acct, 0, x.amt)
    /\ Manager([Still EXCEPT !.led = Debit(@, x.acct, 0, x.amt)])
    /\ net' = [net EXCEPT ![0] = @ - x.amt] /\ UNCHANGED <<feed, drive>>
Age == ~Isolated /\ port.now < MaxTime /\ port' = [Still EXCEPT !.now = @ + 1] /\ UNCHANGED <<desk, eng, feed, drive, sched, cmds, net>>

Next ==
  \/ New \/ CancelOrder \/ MassCancel \/ Mark \/ Fund \/ Calendar \/ Close \/ Adjust \/ Limit
  \/ Deposit \/ Withdraw \/ FundingTick \/ Tick
  \/ Trade \/ Source \/ Drive \/ FundPortfolio \/ Reprice \/ Pause \/ WithdrawQuote \/ Age
Spec == Init /\ [][Next]_vars

-----------------------------------------------------------------------------

\* Money moves and is never made: by asset, what all accounts and the venue hold is what was
\* paid in less what was paid out, whatever trades, funding, liquidations, haircuts and sales
\* of collateral happened.
Books(led) == \A s \in DOMAIN net :
  FoldLeft(LAMBDA n, a : n + led[a][s].avail + led[a][s].rsvd, 0, SetToSeq(DOMAIN led)) = net[s]
Conserved == Books(IF Isolated THEN eng.led ELSE port.led)

\* Every unit an account has reserved backs one of its resting orders or its position
\* (totalPositionMargin, after the orders are drained): fills, flips, corrections and
\* liquidations neither strand margin nor count it twice.
Backing(a) ==
  FoldLeft(LAMBDA n, id : n + IF Owner[id] = a THEN eng.rsv[id].amt ELSE 0, Pos(eng, a).margin,
           SetToSeq(DOMAIN eng.rsv))
MarginIsReserved ==
  Isolated => /\ \A a \in Traders : eng.led[a]["quote"].rsvd = Backing(a)
              /\ \A id \in DOMAIN eng.rsv : IsResting(eng.book, id)

\* The insurance fund pays last: an account it had to top up has nothing left, neither margin
\* behind an order nor collateral in another asset.
Events(out, kind) == {out[i] : i \in {j \in DOMAIN out : out[j].kind = kind}}
Ruined(out) == {x.acct : x \in {y \in Events(out, "liquidation") : y.bankrupt}}
FundPaysLast ==
  IF Isolated THEN \A a \in Ruined(eng.out) : eng.led[a]["quote"] = [avail |-> 0, rsvd |-> 0]
  ELSE \A a \in Ruined(port.out), s \in Assets : Portfolio!Value(Config, port, s, port.led[a][s].avail) = 0

\* After a mark or a funding payment nobody is left below maintenance: a wallet funding has
\* drawn below zero counts.  In a portfolio only an account that has just been deleveraged
\* may be, until the next mark.
AtMaintenance(a, mark) ==
  LET p == eng.pos[a]
  IN p.margin + (mark - p.entry) * p.qty + Lesser(0, eng.led[a]["quote"].avail)
       >= (mark * Abs(p.qty) * Config.mm) \div 10000
NoneUnderwater ==
  IF Isolated THEN \A x \in Events(eng.out, "swept"), a \in DOMAIN eng.pos : AtMaintenance(a, x.mark)
  ELSE Events(port.out, "swept") # {} =>
         \A a \in Portfolio!Holders(port) \ {x.acct : x \in Events(port.out, "adl")} :
           Portfolio!Equity(Config, port, a) >= Portfolio!MaintenanceMargin(Config, port, a)

\* No print takes an account past its cap or lets a reduce-only order open or turn a
\* position, whatever happened to the position while the order rested.
WithinFillLimits ==
  Isolated => \A x \in UNION {t.legs : t \in Events(eng.out, "trade")} :
    /\ x.ro => x.before * x.after >= 0 /\ Abs(x.after) <= Abs(x.before)
    /\ CapOf(Config, eng, x.acct) > 0 => Abs(x.after) <= Greater(CapOf(Config, eng, x.acct), Abs(x.before))

\* Risk stays within what is backed: no print exceeds an account's limits, no sweep leaves
\* an account below maintenance, and the insurance fund pays last.
RiskIsBounded == NoneUnderwater /\ WithinFillLimits /\ FundPaysLast

\* What docs/venue/risk.md says of MarkFeedDriver::paused(): liquidations are halted while a
\* driver reports its index is not fresh.
\* Does not hold (README, section 4).
PausedMeansHalted ==
  ~Isolated /\ (\E s \in Symbols : drive[s].paused) => Events(port.out, "liquidation") = {}
=============================================================================

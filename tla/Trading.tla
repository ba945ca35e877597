------------------------------ MODULE Trading ------------------------------
(***************************************************************************)
(* The features of a symbol around its matcher: the trading session and its *)
(* auctions, conditional and pegged orders, one-cancels-the-other groups,   *)
(* market-maker protection, the volatility pause, good-till-date deadlines  *)
(* and the uniqueness of client order ids (engine/session.inl, orders.inl,  *)
(* expiry_pegs.inl, quote_mmp.inl, validate.inl, dispatch.inl).             *)
(*                                                                         *)
(* The engine runs one command at a time, so a command is one step of the   *)
(* model: `eng` is what the engine holds between two commands, and the      *)
(* operators below carry an engine through the calls a command makes.  A    *)
(* loop of the code is an iteration whose bound is named beside it.         *)
(*                                                                         *)
(* No ledger is bound and last look is off; MatchingEngine has both.  The   *)
(* book takes every order (its node pool is MatchingEngine's, too).         *)
(***************************************************************************)
EXTENDS RestingBook, Conduct, EngineSnapshot

CONSTANTS
  Ids, Owner, Scope,   \* orders, their accounts, the self-trade scope of an account
  Groups,              \* OCO groups, numbers above 0
  MaxPx,               \* prices are 1..MaxPx
  Desks,               \* configurations and inputs to look at, by name, see below
  MaxTime              \* bound: the clock

\* A desk: the price band, the tick, the volatility band in 1/10000 of the last price
\* (0: off) and the length of the pause it trips, the protected market makers, the window
\* of client order ids, the price up to which the credit hook funds an account, the
\* accounts that may not leave an order resting, the cap on an account's resting orders, and,
\* as bounds, what its clients and operators send, how much of it, and until when.
OrderOK(o) ==
  /\ o.id \in Ids /\ o.cl \in Nat /\ o.side \in Sides /\ o.qty \in Nat \ {0} /\ o.px \in 0..MaxPx
  /\ o.type \in {"limit", "market"} \cup Conditional /\ o.tif \in {"GTC", "IOC", "GTD"}
  /\ o.stp \in {"None", "CancelOldest", "CancelNewest", "CancelBoth", "Decrement"}
  /\ o.peg \in {"None", "Bid", "Ask", "Mid"} /\ o.group \in Groups \cup {0}
  /\ o.type = "trailing" => o.offset > 0
  /\ o.type \in Conditional \ {"trailing"} => o.trig > 0

ASSUME TradingAssumption ==
  /\ Owner \in [Ids -> DOMAIN Scope] /\ Ids \subseteq Nat \ {0} /\ Groups \subseteq Nat \ {0}
  /\ {MaxPx, MaxTime} \subseteq Nat
  /\ \A n \in DOMAIN Desks : LET d == Desks[n] IN
       /\ d.lo \in Nat /\ d.hi \in Nat /\ d.tick \in Nat \ {0} /\ d.luld \in Nat /\ d.pause \in Nat
       /\ d.window \in Nat /\ DOMAIN d.mmp \subseteq DOMAIN Scope
       /\ d.noRest \subseteq DOMAIN Scope /\ d.admin \subseteq AdminActions
       /\ d.marks \subseteq 1..MaxPx /\ \A o \in d.orders : OrderOK(o)
       /\ \A m \in d.amends : m.id \in Ids /\ m.px \in 0..MaxPx /\ m.qty \in Nat \ {0}

Accounts == DOMAIN Scope

VARIABLES
  desk,   \* the name of the configuration, fixed by the constructor
  eng,    \* the engine between two commands, see Engine0
  cmds,   \* commands submitted
  tape    \* history: the last command and its prints, and what later commands owe to them

vars == <<desk, eng, cmds, tape>>
Config == Desks[desk]

\* What the engine holds: the clock, the book, the session, the reference prices (0: none
\* yet) and which of them triggers, the parked stops, and by order the tracking, the
\* deadline (0: none), the self-trade mode and the peg; groups, protection and ids as in
\* Conduct.  `out` is what a command has emitted: prints, losers of a group, pulls.
NoPeg == [ref |-> "None", offset |-> 0]
Engine0 ==
  [now |-> 1, book |-> EmptyBook, sess |-> NewSession, last |-> 0, mark |-> 0, ref |-> "Last",
   stops |-> {}, tracked |-> {}, exp |-> [i \in Ids |-> 0], stp |-> [i \in Ids |-> "None"],
   pegs |-> [i \in Ids |-> NoPeg], oco |-> NewOco(Ids, Groups), mmp |-> NewMmp(Accounts),
   seen |-> [a \in Accounts |-> NewWindow], out |-> <<>>]

\* Apply Step n times.
Iterate(n, Step(_), s) == LET f[i \in 0..n] == IF i = 0 THEN s ELSE Step(f[i - 1]) IN f[n]

Emit(e, event) == [e EXCEPT !.out = Append(@, event)]

\* forgetOrder: nothing happens to an order that was never tracked.
Forget(e, id) ==
  IF id \notin e.tracked THEN e
  ELSE [e EXCEPT !.tracked = @ \ {id}, !.exp[id] = 0, !.stp[id] = "None", !.pegs[id] = NoPeg,
                 !.oco = Unlink(@, id)]

\* An order leaves the book for good.
Leave(e, id) == Forget([e EXCEPT !.book = Cancel(@, id)], id)
LeaveAll(e, ids) ==
  FoldLeft(LAMBDA x, id : IF IsResting(x.book, id) THEN Leave(x, id) ELSE x, e, SetToSortSeq(ids, <))

-----------------------------------------------------------------------------
(* A print, and the sweep of an aggressor *)

\* For the record: whom this print owes its OCO group, if it is the one that decides it.
LostBy(c, maker, taker) ==
  UNION {IF c.group[i] \in Decided(c) \cup {0} THEN {} ELSE c.members[c.group[i]] \ {maker, taker}
         : i \in {maker, taker}}

\* emit_ on a Trade: the last price moves, protection counts both sides, a group is decided.
OnTrade(e, maker, taker, px, qty, how) ==
  LET once == MmpAdd(e.mmp, Config.mmp, Owner[maker], qty, e.now)
      event == [kind |-> "trade", how |-> how, status |-> Status(e.sess), maker |-> maker,
                taker |-> taker, px |-> px, qty |-> qty, lost |-> LostBy(e.oco, maker, taker)]
  IN [Emit(e, event) EXCEPT !.last = px, !.oco = NoteFill(@, maker, taker),
                            !.mmp = MmpAdd(once, Config.mmp, Owner[taker], qty, e.now)]

Complete(e, id) == IF IsResting(e.book, id) THEN e ELSE Forget(e, id)
Done(e, id, filled) == IF filled THEN Forget(e, id) ELSE e

\* decrementForStp: an order with nothing left goes.
Trim(e, id, by) ==
  LET left == Total(Find(e.book, id)) - by
  IN IF left = 0 THEN Leave(e, id) ELSE [e EXCEPT !.book = ReduceTotal(@, id, left)]

Crosses(o, px) == o.type = "market" \/ Ahead(o.side, o.px, px)
Best(b, side) == IF b[side] = <<>> THEN 0 ELSE Head(b[side]).px
Market(o) == o.type = "market"

\* Self-trade prevention between the order and a maker m of its scope.
Prevent(s, o, m, dec) ==
  CASE o.stp = "CancelOldest" -> [s EXCEPT !.e = Leave(@, m.id)]
    [] o.stp = "CancelNewest" -> [s EXCEPT !.dead = TRUE]
    [] o.stp = "CancelBoth" -> [s EXCEPT !.e = Leave(@, m.id), !.dead = TRUE]
    [] o.stp = "Decrement" -> [e |-> Trim(s.e, m.id, dec), left |-> s.left - dec, dead |-> s.left = dec]

Fill(s, o, m, q, how) ==
  LET traded == OnTrade(s.e, m.id, o.id, m.px, q, how)
      filled == Complete([traded EXCEPT !.book = FillBest(@, Opposite(o.side), q)], m.id)
  IN [s EXCEPT !.left = @ - q, !.e = Done(filled, o.id, s.left = q)]

Meet(s, o, m, how) ==
  CASE ~Crosses(o, m.px) -> s
    [] Crosses(o, m.px) /\ o.stp # "None" /\ Scope[Owner[m.id]] = Scope[Owner[o.id]] ->
         Prevent(s, o, m, Least(s.left, Total(m)))
    [] OTHER -> Fill(s, o, m, Least(s.left, m.leaves), how)

\* One maker: s is [e, left, dead], the engine and what is left of the order.
SweepOne(s, o, how) ==
  IF s.left = 0 \/ s.dead \/ s.e.book[Opposite(o.side)] = <<>> THEN s
  ELSE Meet(s, o, Head(s.e.book[Opposite(o.side)]), how)

\* Every pass takes at least one unit off a side or ends the sweep.
Depth(b) == FoldLeft(LAMBDA n, r : n + Total(r), 0, b["buy"] \o b["sell"])
Sweep(e, o, how) ==
  Iterate(Depth(e.book) + 1, LAMBDA s : SweepOne(s, o, how), [e |-> e, left |-> o.qty, dead |-> FALSE])

\* What rests of an order whose sweep is over; a market or immediate order never does.
Rests(s, o) == s.left > 0 /\ ~s.dead /\ ~Market(o) /\ o.tif # "IOC"

Resting(o, px, leaves, cum) ==
  [id |-> o.id, px |-> px, leaves |-> IF o.vis > 0 THEN Least(o.vis, leaves) ELSE leaves,
   hidden |-> IF o.vis > 0 THEN leaves - Least(o.vis, leaves) ELSE 0,
   peak |-> IF o.vis > 0 /\ o.vis < leaves THEN o.vis ELSE 0, ll |-> FALSE, post |-> o.post,
   cum |-> cum]

RestOnBook(e, o, px, leaves, cum) ==
  [e EXCEPT !.book = AddResting(@, o.side, Resting(o, px, leaves, cum)),
            !.tracked = @ \cup {o.id}, !.stp[o.id] = o.stp]

\* The registrations of an accepted order that rests.
Enlist(e, o) ==
  [e EXCEPT !.exp[o.id] = IF o.tif = "GTD" /\ o.exp > 0 THEN o.exp ELSE @,
            !.pegs[o.id] = IF o.peg # "None" THEN [ref |-> o.peg, offset |-> o.offset] ELSE @]

\* The external risk owner: it funds a limit up to the account's price, and an unpriced
\* order only when there is no price it would refuse.
Funded(o) == IF Market(o) THEN Config.credit[Owner[o.id]] >= MaxPx
             ELSE o.px <= Config.credit[Owner[o.id]]

-----------------------------------------------------------------------------
(* Conditional orders *)

\* triggerReference: 0 while there is none.
Reference(e) == IF e.ref = "Mark" THEN e.mark ELSE e.last

\* What rests of a fired stop has lost its post-only flag; the rest is gone without a trace.
Fired(s, o) ==
  IF Rests(s, o) THEN RestOnBook(s.e, [o EXCEPT !.post = FALSE], o.px, s.left, o.qty - s.left) ELSE s.e

\* A stop that fires is funded and trades like any order.
FireAs(e, o, how) ==
  LET touch == Best(e.book, Opposite(o.side))
  IN IF ~Funded(o) \/ (o.post /\ touch # 0 /\ Crosses(o, touch)) THEN e
     ELSE Fired(Sweep(e, o, how), o)
Fire(e, stop, how) == FireAs([e EXCEPT !.stops = @ \ {stop}], ToAggressor(stop), how)

\* popTriggered once, the trailing triggers brought up to the reference first.
FireDue(e, due, ref, how) == IF due = {} THEN e ELSE Fire(e, First(due, ref), how)
TriggerAt(e, ref, how) == FireDue(e, Triggered(e.stops, ref), ref, how)
TriggerOne(e, ref, how) == TriggerAt([e EXCEPT !.stops = UpdateTrailing(@, ref)], ref, how)

\* Mutant: the cascade keeps the reference it started with.
ProcessTriggersOnce(e, how) ==
  IF Status(e.sess) # "Trading" \/ Reference(e) = 0 THEN e
  ELSE Iterate(Cardinality(e.stops) + 1, LAMBDA x : TriggerOne(x, Reference(e), how), e)

\* Mutant: stops fire whatever the session says.
ProcessTriggersAlways(e, how) ==
  IF Reference(e) = 0 THEN e
  ELSE Iterate(Cardinality(e.stops) + 1, LAMBDA x : TriggerOne(x, Reference(x), how), e)

\* Fire what the reference has crossed, most crossed first; every trade may move the
\* reference and cross more.  Each pass but the last takes a stop away.
ProcessTriggers(e, how) ==
  IF Status(e.sess) # "Trading" \/ Reference(e) = 0 THEN e
  ELSE Iterate(Cardinality(e.stops) + 1, LAMBDA x : TriggerOne(x, Reference(x), how), e)

InBand(px) == (Config.lo > 0 => px >= Config.lo) /\ (Config.hi > 0 => px <= Config.hi)
OnTick(px) == px % Config.tick = 0

\* instrumentStateRefusal
Shut(e) == e.sess.delisted \/ e.sess.closed \/ e.sess.halted
Known(e, id) == IsResting(e.book, id) \/ Parked(e.stops, id)

\* validateConditional and onStop
StopRefused(e, o) ==
  \/ o.trig > 0 /\ ~(InBand(o.trig) /\ OnTick(o.trig))
  \/ IsLimitStop(o.type) /\ (o.px = 0 \/ ~(InBand(o.px) /\ OnTick(o.px)))
  \/ Shut(e) \/ Known(e, o.id)

Park(e, o) ==
  LET parked == [e EXCEPT !.stops = @ \cup {[o |-> o, trig |-> InitialTrigger(o, e.last)]},
                          !.exp[o.id] = IF o.tif = "GTD" /\ o.exp > 0 THEN o.exp ELSE @]
  IN ProcessTriggers(parked, "stop")

-----------------------------------------------------------------------------
(* onNew *)

Unlinked(e, o) == IF o.group > 0 THEN [e EXCEPT !.oco = Unlink(@, o.id)] ELSE e

\* luldBand: around the last price, absent before the first trade.
LuldOn(e) == Config.luld > 0 /\ e.last # 0
LuldWidth(e) == (e.last * Config.luld) \div 10000
TripLuldHalt(e) == [e EXCEPT !.sess = ApplySession(@, "LuldBreach", e.now + Config.pause)]

\* Pre-open: everything accumulates, a market order at the edge of the band.
RestInAuction(e, o) ==
  LET px == IF ~Market(o) THEN o.px ELSE IF o.side = "buy" THEN Config.hi ELSE Config.lo
  IN Enlist(RestOnBook(e, o, px, o.qty, 0), o)

\* The end of a sweep: what is left rests, or is canceled.
Settled(s, o) ==
  CASE Rests(s, o) -> Enlist(RestOnBook(s.e, o, o.px, s.left, o.qty - s.left), o)
    [] ~Rests(s, o) -> IF s.left > 0 THEN Unlinked(s.e, o) ELSE s.e

\* A print outside the band of the last price before the command stands, and pauses trading.
PauseOnBreach(e, last) ==
  IF last.on /\ e.last \notin last.px - last.width..last.px + last.width THEN TripLuldHalt(e) ELSE e

Trade(e, o) ==
  LET touch == Best(e.book, Opposite(o.side))
      outside == LuldOn(e) /\ ~Market(o) /\
                 IF o.side = "buy" THEN o.px > e.last + LuldWidth(e) ELSE o.px < e.last - LuldWidth(e)
  IN CASE outside -> TripLuldHalt(Unlinked(e, o))
       [] ~outside /\ o.post /\ touch # 0 /\ Crosses(o, touch) -> Unlinked(e, o)
       [] OTHER -> PauseOnBreach(ProcessTriggers(Settled(Sweep(e, o, "new"), o), "stop"),
                                 [on |-> LuldOn(e), px |-> e.last, width |-> LuldWidth(e)])

PegMarket(e) ==
  [bid |-> Best(e.book, "buy"), ask |-> Best(e.book, "sell"), tick |-> Config.tick,
   last |-> IF e.last # 0 THEN e.last ELSE (Config.lo + Config.hi) \div 2,
   lo |-> Config.lo, hi |-> Config.hi]

\* A peg is a passive limit priced off the book.
Priced(e, o) ==
  IF o.peg = "None" THEN o
  ELSE [o EXCEPT !.type = "limit", !.px = PegTarget(o.side, o.peg, o.offset, PegMarket(e))]

\* The cap on resting orders, and validate; a stop is counted by neither.
Refused(e, o) ==
  \/ Config.cap > 0 /\ Cardinality({i \in e.tracked : Owner[i] = Owner[o.id]}) >= Config.cap
  \/ Shut(e) \/ Known(e, o.id)
  \/ ~Market(o) /\ (o.px <= 0 \/ ~InBand(o.px) \/ ~OnTick(o.px))
  \/ ~Funded(o)

Dispatched(e, o) ==
  CASE o.type \in Conditional -> IF StopRefused(e, o) THEN Unlinked(e, o) ELSE Park(e, o)
    [] o.type \notin Conditional /\ Refused(e, o) -> Unlinked(e, o)
    [] OTHER -> IF e.sess.auction THEN RestInAuction(e, o) ELSE Trade(e, o)

\* The group is joined before the order is validated.
Joined(e, o) == IF o.group > 0 THEN [e EXCEPT !.oco = Link(@, o.id, o.group)] ELSE e
Admitted(e, o) == Dispatched(Joined(e, o), Priced(e, o))

\* admissionGate: a call auction rests everything it admits.  The profile is the desk's;
\* SetAdmissionProfile, which changes it while the venue runs, is not a command here.
MayNotRest(e, o) ==
  Owner[o.id] \in Config.noRest /\ (e.sess.auction \/ o.tif # "IOC" \/ o.post)

Named(e, a, cl) == IF cl = 0 THEN e ELSE Emit(e, [kind |-> "named", acct |-> a, cl |-> cl])

OnNew(e, o) ==
  LET w == IF o.cl = 0 THEN e.seen[Owner[o.id]] ELSE Rotate(e.seen[Owner[o.id]], e.now, Config.window)
      noted == [e EXCEPT !.seen[Owner[o.id]] = Register(w, o.cl)]
  IN CASE MayNotRest(e, o) -> e
       [] ~MayNotRest(e, o) /\ IsDuplicate(w, o.cl) -> [e EXCEPT !.seen[Owner[o.id]] = w]
       [] OTHER -> Admitted(Named(noted, Owner[o.id], o.cl), o)

-----------------------------------------------------------------------------
(* onModify, onCancel, onMassCancel.  None of them asks for the session. *)

\* The remainder goes back to the book with its fills counted on, or is forgotten.
Amended(s, o, cum) ==
  IF Rests(s, o) THEN RestOnBook(s.e, o, o.px, s.left, cum + o.qty - s.left)
  ELSE IF s.left > 0 THEN Forget(s.e, o.id) ELSE s.e

Reenter(e, o, cum) ==
  LET touch == Best(e.book, Opposite(o.side))
  IN IF ~Funded(o) \/ (o.post /\ touch # 0 /\ Crosses(o, touch)) THEN Forget(e, o.id)
     ELSE ProcessTriggers(Amended(Sweep(e, o, "amend"), o, cum), "stop")

\* In place when only the displayed size goes down, and otherwise a new arrival.
OnModify(e, m) ==
  LET r == Find(e.book, m.id)
      px == IF m.px = 0 THEN r.px ELSE m.px
      o == [id |-> m.id, side |-> SideOf(e.book, m.id), px |-> px, qty |-> m.qty, type |-> "limit",
            tif |-> "GTC", stp |-> e.stp[m.id], post |-> r.post, vis |-> r.peak]
  IN CASE m.id \notin e.tracked \/ ~InBand(px) \/ ~OnTick(px) -> e
       [] m.id \in e.tracked /\ px = r.px /\ m.qty <= r.leaves /\ r.hidden = 0 ->
            [e EXCEPT !.book = Reduce(@, m.id, m.qty)]
       [] OTHER -> Reenter([e EXCEPT !.book = Cancel(@, m.id)], o, r.cum)

\* A stop was never tracked, so forgetting it does nothing.
OnCancel(e, id) ==
  CASE IsResting(e.book, id) -> Leave(e, id)
    [] ~IsResting(e.book, id) /\ Parked(e.stops, id) ->
         Forget([e EXCEPT !.stops = Unpark(@, id), !.oco = Unlink(@, id)], id)
    [] OTHER -> e

\* cancelAllForAccount: the orders in the book, not the parked ones.
CancelAllFor(e, a) == LeaveAll(e, {id \in e.tracked : Owner[id] = a})

\* applyQuote: a pair of orders is replaced, or left alone when new ones would be refused.
ApplyQuote(e, q) ==
  LET Pull(x, id) == IF IsResting(x.book, id) THEN Leave(x, id) ELSE x
      Post(x, o) == IF MayNotRest(x, o) THEN x ELSE Admitted(x, o)
  IN IF Shut(e) THEN e ELSE FoldLeft(Post, FoldLeft(Pull, e, <<q.bid, q.ask>>), q.legs)

\* onQuote and onQuoteLadder: one client order id for all the rungs, an empty rung takes
\* its pair down.
OnQuote(e, l) ==
  LET w == IF l.cl = 0 THEN e.seen[l.acct] ELSE Rotate(e.seen[l.acct], e.now, Config.window)
      noted == [e EXCEPT !.seen[l.acct] = Register(w, l.cl)]
  IN IF IsDuplicate(w, l.cl) THEN [e EXCEPT !.seen[l.acct] = w]
     ELSE FoldLeft(ApplyQuote, Named(noted, l.acct, l.cl), l.rungs)

-----------------------------------------------------------------------------
(* The uncross *)

Volume(side, b, p) ==
  FoldLeft(LAMBDA n, r : IF Ahead(side, r.px, p) THEN n + Total(r) ELSE n, 0, b[side])
Demand(b, p) == Volume("buy", b, p)
Supply(b, p) == Volume("sell", b, p)
Executable(b, p) == Least(Demand(b, p), Supply(b, p))
Imbalance(b, p) == IF Demand(b, p) > Supply(b, p) THEN Demand(b, p) - Supply(b, p)
                   ELSE Supply(b, p) - Demand(b, p)

\* Mutant: the lowest price at which anything trades.
AuctionPriceLowest(b) == Min({p \in {r.px : r \in Orders(b)} : Executable(b, p) > 0})

\* The price of an order that trades most, then leaves the least over, then the lowest.
AuctionPrice(b) ==
  CHOOSE p \in {r.px : r \in Orders(b)} : \A q \in {r.px : r \in Orders(b)} :
    \/ Executable(b, p) > Executable(b, q)
    \/ Executable(b, p) = Executable(b, q) /\ Imbalance(b, p) < Imbalance(b, q)
    \/ Executable(b, p) = Executable(b, q) /\ Imbalance(b, p) = Imbalance(b, q) /\ p <= q

\* The best bid against the best ask, at px.
UncrossOne(e, px) ==
  LET bid == Head(e.book["buy"])
      ask == Head(e.book["sell"])
      fill == Least(bid.leaves, ask.leaves)
      bm == e.stp[bid.id]
      am == e.stp[ask.id]
      own == Scope[Owner[bid.id]] = Scope[Owner[ask.id]] /\ Protects(bm, am)
      traded == OnTrade(e, ask.id, bid.id, px, fill, "uncross")
      filled == [traded EXCEPT !.book = FillBest(FillBest(@, "buy", fill), "sell", fill)]
      meet == e.book["buy"] # <<>> /\ e.book["sell"] # <<>>
  IN IF ~meet \/ (meet /\ (bid.px < px \/ px < ask.px)) THEN e
     ELSE IF ~own THEN Complete(Complete(filled, bid.id), ask.id)
     ELSE IF Trims(bm, am) THEN Trim(Trim(e, bid.id, fill), ask.id, fill)
     ELSE LeaveAll(e, {i \in {bid.id} : DropsBid(bm, am)} \cup {i \in {ask.id} : DropsAsk(bm, am)})

\* runAuction: every pass takes at least one unit off the book.
RunAuction(e) ==
  LET px == AuctionPrice(e.book)
  IN IF \A r \in Orders(e.book) : Executable(e.book, r.px) = 0 THEN e
     ELSE Iterate(Depth(e.book), LAMBDA x : UncrossOne(x, px), e)

-----------------------------------------------------------------------------
(* Operators *)

\* A parked stop goes without leaving its group or its deadline behind it.
CancelEntireBook(e) == [LeaveAll(e, e.tracked) EXCEPT !.stops = {}]

\* onAdmin: the uncross runs before the flags move, the mass cancel after them.
OnAdmin(e, action) ==
  LET effect == Table[action].effect
      pre == IF effect = "uncrossBefore"
             THEN RunAuction([e EXCEPT !.sess = Say(@, "AuctionUncross", 0)]) ELSE e
      moved == [pre EXCEPT !.sess = ApplySession(@, action, 0)]
  IN IF ~Allowed(e.sess, action, e.now) THEN e
     ELSE IF effect = "cancelBookAfter" THEN CancelEntireBook(moved) ELSE moved

SetMark(e, px) == ProcessTriggers([e EXCEPT !.mark = px], "stop")
SetTriggerRef(e, ref) == [e EXCEPT !.ref = ref]

-----------------------------------------------------------------------------
(* What every command starts and ends with *)

ExpireOrders(e) ==
  LET One(x, id) ==
        LET y == [x EXCEPT !.exp[id] = 0]
        IN IF IsResting(y.book, id) THEN Leave(y, id)
           ELSE IF Parked(y.stops, id)
                THEN Forget([y EXCEPT !.stops = Unpark(@, id), !.oco = Unlink(@, id)], id)
                ELSE y
  IN FoldLeft(One, e, SetToSortSeq({i \in Ids : e.exp[i] # 0 /\ e.exp[i] <= e.now}, <))

\* Mutant: a loser that waits for its trigger is left waiting.
ProcessOcoInBook(e) == LeaveAll([e EXCEPT !.oco = Dissolve(@)], Losers(e.oco))

\* Losers leave the book or, never tracked, the stops.
ProcessOco(e) ==
  LET settled == LeaveAll([e EXCEPT !.oco = Dissolve(@)], Losers(e.oco))
  IN [settled EXCEPT !.stops = {s \in @ : s.o.id \notin Losers(e.oco)}]

\* The order is off the book while its target is computed, and goes back at the tail.
RepegOne(e, id) ==
  LET r == Find(e.book, id)
      side == SideOf(e.book, id)
      off == [e EXCEPT !.book = Cancel(@, id)]
      px == PegTarget(side, e.pegs[id].ref, e.pegs[id].offset, PegMarket(off))
      funded == px = r.px \/ Funded([id |-> id, px |-> px, type |-> "limit"])
  IN IF ~IsResting(e.book, id) THEN [e EXCEPT !.pegs[id] = NoPeg]
     ELSE IF ~funded THEN Forget(off, id)
     ELSE [off EXCEPT !.book = AddResting(@, side, [r EXCEPT !.px = px])]

Repeg(e) == FoldLeft(RepegOne, e, SetToSortSeq({i \in Ids : e.pegs[i] # NoPeg}, <))

MmpEnforce(e) ==
  LET Pull(x, a) == LET y == CancelAllFor(x, a)
                    IN Emit([y EXCEPT !.mmp = Rearm(@, a)], [kind |-> "pull", acct |-> a])
      done == FoldLeft(Pull, e, e.mmp.breached)
  IN [done EXCEPT !.mmp.breached = <<>>]

\* The clock moves, a timed pause that is over ends, what is due expires.
Begin(e, now) ==
  LET at == [e EXCEPT !.now = now, !.out = <<>>]
  IN ExpireOrders(IF PauseElapsed(at.sess, now)
                  THEN [at EXCEPT !.sess = ApplySession(@, "LuldPauseElapsed", 0)] ELSE at)

\* The tail of submit, after every command.
Finish(e) == MmpEnforce(Repeg(ProcessOco(e)))

-----------------------------------------------------------------------------
(* The history: what was sent last and what it printed, the book the command found, the
   ids a print has sentenced, the deadlines asked for, the fills of a protected account
   since its last pull, and when each client order id was last taken. *)

Tape0 ==
  [cmd |-> "none", out |-> <<>>, pre |-> EmptyBook, sent |-> {}, used |-> {}, lost |-> {},
   due |-> [i \in Ids |-> 0], fills |-> [a \in Accounts |-> <<>>],
   named |-> [a \in Accounts |-> {}], twice |-> FALSE]

Trades(out) == SelectSeq(out, LAMBDA x : x.kind = "trade")
Pulled(out) == {x.acct : x \in {y \in ToSet(out) : y.kind = "pull"}}
Names(out) == {x \in ToSet(out) : x.kind = "named"}

FillsOf(out, a, now) ==
  FoldLeft(LAMBDA acc, x : LET n == Cardinality({i \in {"maker", "taker"} : Owner[x[i]] = a})
                           IN IF n = 0 THEN acc ELSE Append(acc, [at |-> now, qty |-> n * x.qty]),
           <<>>, Trades(out))

\* Fills a protection window may still look at.
Recent(fills, a, now) ==
  IF a \notin DOMAIN Config.mmp THEN <<>>
  ELSE SelectSeq(fills, LAMBDA f : f.at > now - Config.mmp[a].window)

Record(cmd, pre, e, ids, due) ==
  LET fills == [a \in Accounts |-> Recent(tape.fills[a] \o FillsOf(e.out, a, e.now), a, e.now)]
      again == {x \in Names(e.out) : \E n \in tape.named[x.acct] :
                  n.cl = x.cl /\ (Config.window = 0 \/ e.now - n.at < Config.window)}
  IN tape' = [cmd |-> cmd, out |-> e.out, pre |-> pre, sent |-> ids, used |-> tape.used \cup ids,
              lost |-> (tape.lost \ ids) \cup UNION {x.lost : x \in ToSet(Trades(e.out))},
              due |-> [i \in Ids |-> IF i \in ids THEN due ELSE tape.due[i]],
              fills |-> [a \in Accounts |-> IF a \in Pulled(tape.out)
                           THEN Recent(FillsOf(e.out, a, e.now), a, e.now) ELSE fills[a]],
              named |-> [a \in Accounts |->
                           {n \in tape.named[a] : \A x \in Names(e.out) : x.acct = a => x.cl # n.cl}
                           \cup {[cl |-> x.cl, at |-> e.now] : x \in {y \in Names(e.out) : y.acct = a}}],
              twice |-> again # {}]

-----------------------------------------------------------------------------
Init == /\ desk \in DOMAIN Desks
        /\ eng = Engine0 /\ cmds = 0 /\ tape = Tape0

\* submit: the clock may have moved since the last command, one unit at a time.
Submit(cmd, Body(_), ids, due) ==
  /\ cmds < Config.cmds
  /\ cmds' = cmds + 1
  /\ \E now \in {eng.now} \cup {t \in {eng.now + 1} : t <= MaxTime /\ t <= Config.time} :
       LET begun == Begin(eng, now)
           done == Finish(Body(begun))
       IN /\ eng' = [done EXCEPT !.out = <<>>]
          /\ Record(cmd, begun.book, done, ids, due)
  /\ UNCHANGED desk

\* A client may use an id again once its order is gone, where the desk lets it.
Fresh(id) == id \notin tape.used \/ (Config.reuse /\ ~Known(eng, id))

New == \E o \in Config.orders :
  /\ Fresh(o.id)
  /\ Submit("new", LAMBDA e : OnNew(e, o), {o.id}, IF o.tif = "GTD" THEN o.exp ELSE 0)
Modify == \E m \in Config.amends : Submit("modify", LAMBDA e : OnModify(e, m), {}, 0)
CancelOrder == \E id \in {i \in Ids : Known(eng, i)} : Submit("cancel", LAMBDA e : OnCancel(e, id), {}, 0)
MassCancel == \E a \in Config.mass : Submit("massCancel", LAMBDA e : CancelAllFor(e, a), {}, 0)
RungIds(q) == UNION {{r.bid, r.ask} : r \in ToSet(q.rungs)}
Quote == \E q \in Config.quotes : Submit("quote", LAMBDA e : OnQuote(e, q), RungIds(q), 0)
Admin == \E a \in Config.admin : Submit(a, LAMBDA e : OnAdmin(e, a), {}, 0)
Mark == \E px \in Config.marks : Submit("mark", LAMBDA e : SetMark(e, px), {}, 0)
TriggerRef == \E r \in Config.refs : Submit("ref", LAMBDA e : SetTriggerRef(e, r), {}, 0)
Tick == eng.now < Config.time /\ Submit("tick", LAMBDA e : e, {}, 0)

\* A record of the configuration section is a command like any other.
LivePath(e, x) ==
  LET begun == Begin(e, eng.now)
  IN Finish(IF x.kind = "ref" THEN SetTriggerRef(begun, x.ref) ELSE OnAdmin(begun, x.action))

ApplySnapshotRecord(e, x) ==
  CASE x.kind = "order" -> RestoreOrder(e, x)
    [] x.kind = "stop" -> RestoreStop(e, x)
    [] x.kind \in {"peg", "stp", "mmp", "ids"} -> ComponentRestore(e, x)
    [] x.kind = "end" -> ApplySnapshotEnd(e, x)
    [] x.kind \in {"ref", "admin"} -> [ok |-> TRUE, e |-> LivePath(e, x)]

\* The load of a snapshot into a new engine ends at the first record that is refused.
Reloaded ==
  FoldLeft(LAMBDA y, x : IF y.ok THEN ApplySnapshotRecord(y.e, x) ELSE y,
           [ok |-> TRUE, e |-> Engine0], WriteSnapshot(eng))

\* The process restarts from a snapshot taken between two commands.  One that is refused is
\* skipped for an older one and the journal, which lead to the engine there was.
Restart ==
  /\ cmds < Config.cmds
  /\ LET r == Reloaded
     IN r.ok /\ eng' = [r.e EXCEPT !.out = <<>>]
  /\ UNCHANGED <<desk, cmds, tape>>

Next == \/ New \/ Modify \/ CancelOrder \/ MassCancel \/ Quote \/ Admin \/ Mark \/ TriggerRef \/ Tick
        \/ Restart

Spec == Init /\ [][Next]_vars

-----------------------------------------------------------------------------
(* Properties *)

Live(e) == {r.id : r \in Orders(e.book)} \cup {s.o.id : s \in e.stops}

\* Nothing changes hands while the instrument is not trading, except in the uncross: no stop
\* fires through a halt, a pause, an auction or a closed session, whatever moves the
\* reference (processTriggers' own gate).  Amends are excepted: onModify has no such gate.
NoPrintWhileStopped ==
  \A x \in ToSet(Trades(tape.out)) : x.how \in {"uncross", "amend"} \/ x.status = "Trading"

\* The same without the exception: docs/venue/matching.md says an amend passes the gate of
\* the instrument's state.
\* Does not hold (README, section 4).
NothingPrintsWhileStopped ==
  \A x \in ToSet(Trades(tape.out)) : x.how = "uncross" \/ x.status = "Trading"

\* A cascade runs to its end: when the last print of a command, or a new mark, has moved the
\* reference, no stop is left parked that the reference has reached.  Excepted: the prints
\* of an uncross, whose price wakes no stop before the next print, and prints made while
\* the instrument is not trading, where the gate of processTriggers keeps stops asleep
\* (README, section 4).
NoStopSleptThrough ==
  LET prints == Trades(tape.out)
      moved == \/ prints # <<>> /\ Last(prints).how # "uncross" /\ Last(prints).status = "Trading"
               \/ tape.cmd = "mark" /\ eng.ref = "Mark" /\ Status(eng.sess) = "Trading"
  IN moved /\ Reference(eng) # 0 => Triggered(eng.stops, Reference(eng)) = {}

\* Of a group at most the orders of its deciding print survive: whoever else was in it is
\* neither in the book nor parked once the command is over.
OcoLosersLeave == tape.lost \cap Live(eng) = {}

\* An uncross with no self-trade to prevent trades, at one price within both limits, as much
\* as any price could, and leaves no bid at or above an ask.
UncrossIsFair ==
  LET prints == Trades(tape.out)
      Limit(id) == Find(tape.pre, id).px
      clash == \E b \in On(tape.pre, "buy"), a \in On(tape.pre, "sell") :
                 Scope[Owner[b.id]] = Scope[Owner[a.id]]
  IN tape.cmd = "OpenContinuous" /\ ~clash =>
       /\ \A x \in ToSet(prints) : x.px = prints[1].px /\ Limit(x.maker) <= x.px /\ x.px <= Limit(x.taker)
       /\ FoldLeft(LAMBDA n, x : n + x.qty, 0, prints) = Max({Executable(tape.pre, p) : p \in 1..MaxPx})
       /\ eng.book["buy"] # <<>> /\ eng.book["sell"] # <<>> => Best(eng.book, "buy") < Best(eng.book, "sell")

\* Outside auctions a pegged order is strictly inside the opposite touch, wherever the
\* reprices of the other pegs have moved it, unless that touch is at the edge of the band.
PegStaysPassive ==
  \A id \in Ids : eng.pegs[id] # NoPeg /\ IsResting(eng.book, id) =>
    LET side == SideOf(eng.book, id)
        touch == Best(eng.book, Opposite(side))
    IN touch = 0 \/ touch \in {Config.lo, Config.hi} \/ ~Ahead(side, Find(eng.book, id).px, touch)

\* The orders of a protected account are pulled exactly when its fills in its window, since
\* its last pull, have reached its limit, and then none of them rests.
MmpPulls ==
  \A a \in DOMAIN Config.mmp :
    /\ a \in Pulled(tape.out) <=> FillSum(tape.fills[a]) >= Config.mmp[a].limit
    /\ a \in Pulled(tape.out) => \A r \in Orders(eng.book) : Owner[r.id] # a

\* No client order id is taken twice within the window, whenever the generations rotate.
ClOrdIdsOnce == ~tape.twice

\* No command but the one that sends it finds a good-till-date order past its deadline, be
\* it resting, parked, amended, or resting because it fired.
NoneOutlivesItsDeadline ==
  \A id \in Live(eng) \ tape.sent : tape.due[id] # 0 => eng.now < tape.due[id]

\* What a command must take away is away when it ends: the losers of a group, the orders of
\* a maker whose protection tripped, whatever passed its deadline.  Of groups it says that
\* losers leave, not that nobody else is taken along.
NothingOverstays == OcoLosersLeave /\ MmpPulls /\ NoneOutlivesItsDeadline

\* What an uncross with a self-trade to prevent, a peg at the edge of the band, and an id used
\* again after its parked order was swept away can break (README, section 4).
Locked(b) == b["buy"] # <<>> /\ b["sell"] # <<>> /\ Best(b, "buy") >= Best(b, "sell")
Orderly(e) ==
  /\ e.sess.auction \/ ~Locked(e.book)
  /\ \A s \in e.stops : /\ e.exp[s.o.id] = IF s.o.tif = "GTD" THEN s.o.exp ELSE 0
                       /\ e.oco.group[s.o.id] = s.o.group

\* The snapshot of an orderly engine is never refused, and the engine rebuilt from it is the
\* one that wrote it in everything a later command can see: queue positions, deadlines,
\* triggers, groups, protection windows and both generations of client order ids.  All it
\* leaves behind are the deadlines and groups of orders that are gone.
RestartIsExact ==
  LET gone == Ids \ Live(eng)
      kept == [eng EXCEPT !.exp = [i \in Ids |-> IF i \in gone THEN 0 ELSE @[i]],
                          !.oco.group = [i \in Ids |-> IF i \in gone THEN 0 ELSE @[i]],
                          !.oco.members = [g \in Groups |-> @[g] \ gone]]
      r == Reloaded
  IN Orderly(eng) => r.ok /\ r.e = kept

\* Every snapshot loads: checkpoint_restore.inl has the book uncrossed "by invariant".
\* Does not hold (README, section 4).
EverySnapshotLoads == Reloaded.ok

\* An account that may not leave an order resting has none, auctions included.
DeniedNeverRest == \A r \in Orders(eng.book) : Owner[r.id] \notin Config.noRest

\* Nothing prints or rests where the state of the instrument, the account or the order
\* forbids it; the print of an amend excepted (NoPrintWhileStopped).
StatesAreRespected == NoPrintWhileStopped /\ DeniedNeverRest /\ PegStaysPassive
=============================================================================

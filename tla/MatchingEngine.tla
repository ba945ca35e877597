--------------------------- MODULE MatchingEngine ---------------------------
(***************************************************************************)
(* The matching engine of one spot symbol in continuous trading, with the   *)
(* ledger bound: matcher.h (price-time policy) and the fragments of         *)
(* matching_engine.h that route a command to it (engine/dispatch.inl,       *)
(* validate.inl, orders.inl, quote_mmp.inl, last_look.h, publications.inl). *)
(*                                                                         *)
(* The engine is sequential.  A command is a list of steps, `work`, whose   *)
(* head is what the handler does next: a step may put further steps before  *)
(* the rest, as a handler calls another.  The book, the holds and the funds *)
(* between two steps are the ones the code has between two calls.           *)
(*                                                                         *)
(* Left to the symbol's other features: conditional and pegged orders, OCO, *)
(* market-maker protection, auctions and halts, price bands, admission      *)
(* profiles, client order ids, fees.  Commands come from the order's owner. *)
(***************************************************************************)
EXTENDS RestingBook, SpotCredit, PublicBook

CONSTANTS
  Scope,      \* the self-trade scope of an account (setStpGroup)
  Deposits,   \* what each account starts with in either asset
  Venues,     \* the symbol configurations to look at, by name, see below
  MaxCmds, MaxTime   \* bounds: commands submitted, and the clock

Modes == {"None", "CancelOldest", "CancelNewest", "CancelBoth", "Decrement"}

\* What a venue settles: the last-look window (0 turns last look off) and what an
\* unanswered hold becomes, the size of the book's node pool, and, as bounds, the
\* orders, amends and quotes its clients may send.
NewOrderOK(o) ==
  /\ o.id \in Ids /\ o.side \in Sides /\ o.px \in 1..MaxPx /\ o.qty \in Nat \ {0}
  /\ o.stp \in Modes /\ o.tif \in {"GTC", "IOC", "FOK", "GTD"}
  /\ {o.mkt, o.post, o.ll} \subseteq BOOLEAN /\ o.vis \in Nat /\ o.exp \in Nat

ASSUME EngineAssumption ==
  /\ Owner \in [Ids -> Accounts] /\ Ids \subseteq Nat \ {0}
  /\ IsFiniteSet(Ids) /\ IsFiniteSet(Accounts)
  /\ {Deposits, MaxPx, MaxCmds, MaxTime} \subseteq Nat
  /\ \A n \in DOMAIN Venues : LET v == Venues[n] IN
       /\ v.window \in Nat /\ v.capacity \in Nat /\ v.acceptOnTimeout \in BOOLEAN
       /\ \A o \in v.orders : NewOrderOK(o)
       /\ \A m \in v.amends : m.id \in Ids /\ m.px \in 0..MaxPx /\ m.qty \in Nat \ {0}
       /\ \A q \in v.quotes : /\ {q.bid, q.ask} \subseteq Ids
                              /\ DOMAIN q.legs = 1..Len(q.legs) /\ Len(q.legs) \in Nat
                              /\ \A i \in DOMAIN q.legs : NewOrderOK(q.legs[i])

VARIABLES
  venue,   \* the name of the configuration, fixed by the constructor
  now,     \* now_: the time stamp of the command at work
  book,    \* book_
  holds,   \* LastLook::held_
  holdSeq, \* LastLook::seq_
  funds,   \* ledger_ and Credit::reserve_
  md,      \* the public book of the symbol's MarketDataPublisher
  reg,     \* orderAccount_ (tracked), ExpiryBook and StpState, by order id
  work,    \* what is left of the command at work
  cmds,    \* commands submitted
  tape     \* history: what was entered, traded, reported dead, ...

vars == <<venue, now, book, holds, holdSeq, funds, md, reg, work, cmds, tape>>

Config == Venues[venue]
Idle == work = <<>>
Step(op) == work # <<>> /\ Head(work).op = op
Do(steps) == work' = steps \o Tail(work)
Done == Do(<<>>)

\* Ids in ascending order: std::sort before every such loop.
Ascending(ids) ==
  [i \in 1..Cardinality(ids) |-> CHOOSE x \in ids : Cardinality({y \in ids : y < x}) = i - 1]

-----------------------------------------------------------------------------
(* Registers of an order: who tracks it, when it expires, its STP mode *)

Track(g, id, mode) == [g EXCEPT !.tracked = @ \cup {id}, !.stp[id] = mode]

\* forgetOrder: nothing happens to an order that was never tracked.
Forget(g, id) ==
  IF id \notin g.tracked THEN g
  ELSE [g EXCEPT !.tracked = @ \ {id}, !.expiry[id] = 0, !.stp[id] = "None"]

HoldsOf(H, id) == {h \in H : id \in {h.maker, h.taker}}
HeldQtyFor(H, id) == SumFunction([h \in HoldsOf(H, id) |-> h.qty])

\* What an order has in the book, and what of it is displayed.
Resting(id) == IF IsResting(book, id) THEN Total(Find(book, id)) ELSE 0
Displayed(b, id) == IF IsResting(b, id) THEN Find(b, id).leaves ELSE 0

\* What the best order displays once q of it is taken: the next peak, if it is spent.
DisplayAfter(r, q) == IF q < r.leaves THEN r.leaves - q ELSE Least(r.peak, r.hidden)

\* restOnBook answers full(); the prices of this model all have a level.
Full(b) == Size(b) >= Config.capacity

\* cleanupOrderIfDone, and what emit_ does for a leg that has left the book.
Cleanup(f, g, b, H, id) ==
  IF IsResting(b, id) \/ HoldsOf(H, id) # {} THEN [funds |-> f, reg |-> g]
  ELSE [funds |-> ReleaseReservation(f, id), reg |-> Forget(g, id)]

Bury(t, id, qty) == [t EXCEPT !.killed[id] = @ + qty]

\* The displayed size of this order changed and no event says so.
Mute(t, id) == [t EXCEPT !.muted = @ \cup {id}]

\* A Trade and what it does to the money.
OnTape(t) ==
  [tape EXCEPT !.traded[t.maker] = @ + t.qty, !.traded[t.taker] = @ + t.qty, !.print = {t},
               !.unsettled = @ \/ ~CanSettle(funds, t)]

-----------------------------------------------------------------------------
(* submit(): time first, then the command *)

Submit(steps, done) ==
  /\ Idle /\ cmds < MaxCmds
  /\ cmds' = cmds + 1
  /\ now' \in {t \in {now, now + 1} : t <= MaxTime}
  /\ work' = <<[op |-> "expireHolds"], [op |-> "expireOrders"]>> \o steps \o <<done>>
  /\ UNCHANGED <<venue, book, holds, holdSeq, funds, md, reg, tape>>

\* A command for an order or a hold nobody knows is answered and changes nothing.
Known(id) == id \in reg.tracked \/ HoldsOf(holds, id) # {}
Answer(cmd, id, acct) == [op |-> "answer", cmd |-> cmd, id |-> id, acct |-> acct]

SubmitNew ==
  \E o \in Config.orders : Submit(<<[op |-> "new", o |-> o]>>, Answer("new", o.id, Owner[o.id]))

SubmitCancel ==
  \E id \in Ids :
    /\ Known(id)
    /\ Submit(<<[op |-> "rejectFor", id |-> id], [op |-> "pull", id |-> id]>>,
              Answer("cancel", id, Owner[id]))

SubmitModify ==
  \E m \in Config.amends :
    /\ Known(m.id)
    /\ Submit(<<[op |-> "modify", m |-> m]>>, Answer("modify", m.id, Owner[m.id]))

SubmitMassCancel ==
  \E a \in Accounts :
    /\ \E id \in Ids : Owner[id] = a /\ Known(id)
    /\ Submit(<<[op |-> "rejectForAccount", acct |-> a], [op |-> "pullAll", acct |-> a]>>,
              Answer("massCancel", 0, a))

\* A quote replaces both of its legs.
SubmitQuote ==
  \E q \in Config.quotes :
    Submit(<<[op |-> "rejectFor", id |-> q.bid], [op |-> "rejectFor", id |-> q.ask],
             [op |-> "pull", id |-> q.bid], [op |-> "pull", id |-> q.ask]>>
           \o [i \in DOMAIN q.legs |-> [op |-> "new", o |-> q.legs[i]]],
           Answer("quote", q.bid, Owner[q.bid]))

SubmitDecision ==
  \E h \in holds, accept \in BOOLEAN :
    Submit(<<[op |-> "resolve", hid |-> h.hid, accept |-> accept]>>,
           Answer("decision", h.hid, Owner[h.maker]))

SubmitTick == Submit(<<>>, Answer("tick", 0, 0))

\* The caller has its answer.
Answered ==
  /\ Step("answer") /\ Done
  /\ tape' = [tape EXCEPT !.print = {}]
  /\ UNCHANGED <<venue, md, now, book, holds, holdSeq, funds, reg, cmds>>

-----------------------------------------------------------------------------
(* Holds: created by a sweep, resolved by an answer, a timeout or whatever    *)
(* removes or reshapes one of their legs                                      *)

ResolveStep(hid, accept) == [op |-> "resolve", hid |-> hid, accept |-> accept]
ResolveAll(H, accept) ==
  LET s == Ascending({h.hid : h \in H}) IN [i \in DOMAIN s |-> ResolveStep(s[i], accept)]
RejectAll(H) == ResolveAll(H, FALSE)

\* Mutant: a hold outlives its deadline by one tick.
ExpireHoldsLate ==
  /\ Step("expireHolds")
  /\ Do(ResolveAll({h \in holds : now > h.deadline}, Config.acceptOnTimeout))
  /\ UNCHANGED <<venue, md, now, book, holds, holdSeq, funds, reg, cmds, tape>>

ExpireHolds ==
  /\ Step("expireHolds")
  /\ Do(ResolveAll({h \in holds : now >= h.deadline}, Config.acceptOnTimeout))
  /\ UNCHANGED <<venue, md, now, book, holds, holdSeq, funds, reg, cmds, tape>>

RejectHoldsFor ==
  /\ Step("rejectFor")
  /\ Do(RejectAll(HoldsOf(holds, Head(work).id)))
  /\ UNCHANGED <<venue, md, now, book, holds, holdSeq, funds, reg, cmds, tape>>

RejectHoldsForAccount ==
  /\ Step("rejectForAccount")
  /\ Do(RejectAll({h \in holds : Head(work).acct \in {Owner[h.maker], Owner[h.taker]}}))
  /\ UNCHANGED <<venue, md, now, book, holds, holdSeq, funds, reg, cmds, tape>>

\* A decision for a hold that has meanwhile been resolved changes nothing.
ResolveGone ==
  /\ Step("resolve") /\ Done
  /\ \A h \in holds : h.hid # Head(work).hid
  /\ UNCHANGED <<venue, md, now, book, holds, holdSeq, funds, reg, cmds, tape>>

AcceptHold ==
  \E h \in holds :
    /\ Step("resolve") /\ Head(work).hid = h.hid /\ Head(work).accept /\ Done
    /\ LET t == [maker |-> h.maker, taker |-> h.taker, side |-> h.side, px |-> h.px, qty |-> h.qty]
           c == Cleanup(SettleTrade(funds, t), reg, book, holds \ {h}, h.taker)
           d == Cleanup(c.funds, c.reg, book, holds \ {h}, h.maker)
       IN /\ funds' = d.funds
          /\ reg' = d.reg
          /\ tape' = OnTape(t)
          /\ md' = OnExecuted(OnExecuted(md, h.maker, Displayed(book, h.maker), Resting(h.maker) = 0),
                              h.taker, Displayed(book, h.taker),
                              Resting(h.taker) + HeldQtyFor(holds \ {h}, h.taker) = 0)
    /\ holds' = holds \ {h}
    /\ UNCHANGED <<venue, now, book, holdSeq, cmds>>

\* The state a restore works on.
Desk(b, f, g, t, d) == [book |-> b, funds |-> f, reg |-> g, tape |-> t, md |-> d]

\* The book will not take the returning slice: it dies.
Refused(s, id, qty) ==
  LET f == ReleaseHeldLeg(s.funds, id, qty, IsResting(s.book, id))
      erased == Reserved(s.funds, id) /\ ~Reserved(f, id)
  IN Desk(s.book, f, IF erased THEN Forget(s.reg, id) ELSE s.reg, Bury(s.tape, id, qty),
          OnCanceled(s.md, id))

\* An order that still rests takes its slice back and goes to the tail.
Combine(s, r, side) ==
  Desk(AddResting(Cancel(s.book, r.id), side, r), s.funds, s.reg,
       [s.tape EXCEPT !.restored = @ \cup {r.id}], OnModified(s.md, r.id, r.px, r.leaves))

Rebuild(s, r, side) ==
  Desk(AddResting(s.book, side, r), s.funds, s.reg, [s.tape EXCEPT !.restored = @ \cup {r.id}], s.md)

Plain(id, px, leaves, cum, ll) ==
  [id |-> id, px |-> px, leaves |-> leaves, hidden |-> 0, peak |-> 0, ll |-> ll, post |-> FALSE,
   cum |-> cum]

RestoreMaker(s, h) ==
  LET side == Opposite(h.side)
      r == Find(s.book, h.maker)
  IN CASE IsResting(s.book, h.maker) ->
            Combine(s, [r EXCEPT !.leaves = @ + h.qty, !.cum = @ - h.qty], side)
       [] ~IsResting(s.book, h.maker) /\ Full(s.book) -> Refused(s, h.maker, h.qty)
       [] OTHER ->
            LET back == Rebuild(s, Plain(h.maker, h.px, h.qty, h.makerCum, TRUE), side)
            IN [back EXCEPT !.md = OnModified(@, h.maker, h.px, h.qty),
                            !.tape = IF Shows(s.md, h.maker) THEN @ ELSE Mute(@, h.maker)]

\* adoptRestingTaker: an order the book had never seen.
Adopt(g, h) ==
  LET k == Track(g, h.taker, g.stp[h.taker])
  IN IF h.tif = "GTD" /\ h.exp > 0 THEN [k EXCEPT !.expiry[h.taker] = h.exp] ELSE k

RestoreTaker(s, h) ==
  LET rests == ~h.mkt /\ h.tif \in {"GTC", "GTD"}
      r == Find(s.book, h.taker)
      back == Rebuild(s, Plain(h.taker, h.takerPx, h.qty, h.takerCum, FALSE), h.side)
  IN CASE rests /\ IsResting(s.book, h.taker) ->
            Combine(s, [r EXCEPT !.leaves = @ + h.qty], h.side)
       [] rests /\ ~IsResting(s.book, h.taker) /\ ~Full(s.book) ->
            [back EXCEPT !.reg = Adopt(@, h), !.md = OnAccepted(@, h.taker, h.side, h.takerPx, h.qty)]
       [] OTHER -> Refused(s, h.taker, h.qty)

RejectHold ==
  \E h \in holds :
    /\ Step("resolve") /\ Head(work).hid = h.hid /\ ~Head(work).accept /\ Done
    /\ LET s == RestoreTaker(RestoreMaker(Desk(book, funds, reg, tape, md), h), h)
           c == Cleanup(s.funds, s.reg, s.book, holds \ {h}, h.taker)
           d == Cleanup(c.funds, c.reg, s.book, holds \ {h}, h.maker)
       IN /\ book' = s.book
          /\ funds' = d.funds
          /\ reg' = d.reg
          /\ tape' = s.tape
          /\ md' = s.md
    /\ holds' = holds \ {h}
    /\ UNCHANGED <<venue, now, holdSeq, cmds>>

-----------------------------------------------------------------------------
(* Orders that leave: cancel, mass cancel, expiry, the old legs of a quote *)

ForEach(op, ids) ==
  LET s == Ascending(ids) IN [i \in DOMAIN s |-> [op |-> op, id |-> s[i]]]

ExpireOrders ==
  /\ Step("expireOrders")
  /\ Do(ForEach("expire", {id \in Ids : reg.expiry[id] > 0 /\ now >= reg.expiry[id]}))
  /\ UNCHANGED <<venue, md, now, book, holds, holdSeq, funds, reg, cmds, tape>>

ExpireOrder ==
  /\ Step("expire")
  /\ LET id == Head(work).id
     IN /\ reg' = [reg EXCEPT !.expiry[id] = 0]
        /\ Do(<<[op |-> "rejectFor", id |-> id], [op |-> "pull", id |-> id]>>)
  /\ UNCHANGED <<venue, md, now, book, holds, holdSeq, funds, cmds, tape>>

PullAll ==
  /\ Step("pullAll")
  /\ Do(ForEach("pull", {id \in reg.tracked : Owner[id] = Head(work).acct}))
  /\ UNCHANGED <<venue, md, now, book, holds, holdSeq, funds, reg, cmds, tape>>

Pull ==
  /\ Step("pull") /\ Done
  /\ LET id == Head(work).id
     IN IF ~IsResting(book, id) THEN UNCHANGED <<book, funds, md, reg, tape>>
        ELSE /\ book' = Cancel(book, id)
             /\ funds' = ReleaseReservation(funds, id)
             /\ md' = OnCanceled(md, id)
             /\ reg' = Forget(reg, id)
             /\ tape' = Bury(tape, id, Total(Find(book, id)))
  /\ UNCHANGED <<venue, now, holds, holdSeq, cmds>>

-----------------------------------------------------------------------------
(* Orders that enter: onNew and onModify, up to the sweep *)

Crosses(o, px) == o.mkt \/ Ahead(o.side, o.px, px)

SameScope(o, r) == o.stp # "None" /\ Scope[Owner[r.id]] = Scope[Owner[o.id]]

\* planFillOrKill: firm depth in the crossing range that is not the order's own.
FillOrKillPlan(o) ==
  LET range == {r \in On(book, Opposite(o.side)) : Crosses(o, r.px) /\ ~SameScope(o, r)}
  IN /\ MapThenSumSet(Total, {r \in range : ~r.ll}) >= o.qty
     /\ \A r \in range : ~r.ll

\* The two reasons for which the matcher refuses an order before it prints.
MatcherRefuses(o) ==
  \/ /\ o.post
     /\ book[Opposite(o.side)] # <<>> /\ Crosses(o, Head(book[Opposite(o.side)]).px)
  \/ o.tif = "FOK" /\ ~FillOrKillPlan(o)

Sweep(o, prior, amended) ==
  [op |-> "sweep", o |-> o, left |-> o.qty, filled |-> 0, prior |-> prior, amended |-> amended,
   dead |-> FALSE]

\* An id may be used again once its order is gone: its history starts anew.
Fresh(t, id) ==
  [t EXCEPT !.entered[id] = 0, !.traded[id] = 0, !.killed[id] = 0, !.netted[id] = 0,
            !.restored = @ \ {id}, !.held = @ \ {id}]

\* The limit and the mode are those of the prints to come.
Enter(t, o) ==
  [t EXCEPT !.entered[o.id] = @ + o.qty, !.limit[o.id] = IF o.mkt THEN 0 ELSE o.px,
            !.mode[o.id] = o.stp, !.print = {}]

\* Nothing of a refused order stays: what it had reserved is released again.
RefuseNew ==
  /\ Step("new") /\ Done
  /\ LET o == Head(work).o
     IN \/ IsResting(book, o.id) \/ HoldsOf(holds, o.id) # {}
        \/ ~CanReserve(funds, o)
        \/ MatcherRefuses(o)
  /\ UNCHANGED <<venue, md, now, book, holds, holdSeq, funds, reg, cmds, tape>>

AcceptNew ==
  /\ Step("new")
  /\ LET o == Head(work).o
     IN /\ ~IsResting(book, o.id) /\ HoldsOf(holds, o.id) = {}
        /\ CanReserve(funds, o)
        /\ ~MatcherRefuses(o)
        /\ funds' = ReserveFunds(funds, o)
        /\ tape' = Enter(Fresh(tape, o.id), o)
        /\ Do(<<Sweep(o, 0, FALSE)>>)
  /\ UNCHANGED <<venue, md, now, book, holds, holdSeq, reg, cmds>>

\* Mutant: an order is reshaped under its open holds.
ModifyUnderHolds ==
  /\ Step("modify")
  /\ LET m == Head(work).m
     IN IF m.id \in reg.tracked THEN Do(<<[op |-> "amend", m |-> m]>>) ELSE Done
  /\ UNCHANGED <<venue, md, now, book, holds, holdSeq, funds, reg, cmds, tape>>

Modify ==
  /\ Step("modify")
  /\ LET m == Head(work).m
     IN IF m.id \in reg.tracked
          THEN Do(<<[op |-> "rejectFor", id |-> m.id], [op |-> "amend", m |-> m]>>)
          ELSE Done
  /\ UNCHANGED <<venue, md, now, book, holds, holdSeq, funds, reg, cmds, tape>>

\* The order an amend sends back into the matcher.
Amended(m, r) ==
  [id |-> m.id, side |-> SideOf(book, m.id), px |-> IF m.px = 0 THEN r.px ELSE m.px,
   qty |-> m.qty, mkt |-> FALSE, tif |-> "GTC", stp |-> reg.stp[m.id], post |-> r.post,
   ll |-> r.ll, vis |-> r.peak, exp |-> 0]

KeepsItsPlace(m, r) == m.px \in {0, r.px} /\ m.qty <= r.leaves /\ r.hidden = 0

AmendUnknown ==
  /\ Step("amend") /\ ~IsResting(book, Head(work).m.id) /\ Done
  /\ UNCHANGED <<venue, md, now, book, holds, holdSeq, funds, reg, cmds, tape>>

AmendInPlace ==
  /\ Step("amend") /\ IsResting(book, Head(work).m.id) /\ Done
  /\ LET m == Head(work).m
         r == Find(book, m.id)
     IN /\ KeepsItsPlace(m, r)
        /\ book' = Reduce(book, m.id, m.qty)
        /\ funds' = ReleaseReservationPro(funds, m.id, r.leaves, m.qty)
        /\ md' = OnModified(md, m.id, r.px, m.qty)
        /\ tape' = Bury(tape, m.id, r.leaves - m.qty)
  /\ UNCHANGED <<venue, now, holds, holdSeq, reg, cmds>>

\* Cancel and enter again; an order that cannot come back is gone.
AmendReenter ==
  /\ Step("amend") /\ IsResting(book, Head(work).m.id)
  /\ LET m == Head(work).m
         r == Find(book, m.id)
         o == Amended(m, r)
         freed == ReleaseReservation(funds, m.id)
         out == Bury(tape, m.id, Total(r))
         others == Cancel(book, m.id)
     IN /\ ~KeepsItsPlace(m, r)
        /\ book' = others
        /\ \/ /\ ~CanReserve(freed, o) \/ MatcherRefuses(o)
              /\ funds' = freed /\ reg' = Forget(reg, m.id) /\ tape' = Mute(out, m.id)
              /\ Done
           \/ /\ CanReserve(freed, o) /\ ~MatcherRefuses(o)
              /\ funds' = ReserveFunds(freed, o) /\ reg' = reg /\ tape' = Enter(out, o)
              /\ Do(<<Sweep(o, r.cum, TRUE)>>)
  /\ UNCHANGED <<venue, md, now, holds, holdSeq, cmds>>

-----------------------------------------------------------------------------
(* Matcher::cross: the sweep, one resting order at a time *)

Maker == Head(book[Opposite(Head(work).o.side)])

Marketable(w) ==
  /\ w.left > 0 /\ ~w.dead
  /\ book[Opposite(w.o.side)] # <<>>
  /\ Crosses(w.o, Maker.px)

\* An own order in the way is first relieved of its holds; then look again.
StpRelieve ==
  /\ Step("sweep") /\ Marketable(Head(work)) /\ SameScope(Head(work).o, Maker)
  /\ HoldsOf(holds, Maker.id) # {}
  /\ work' = <<[op |-> "rejectFor", id |-> Maker.id]>> \o work
  /\ UNCHANGED <<venue, md, now, book, holds, holdSeq, funds, reg, cmds, tape>>

\* applySelfTradePrevention: whether the maker goes, what is netted off both, and
\* whether the aggressor is cancelled.
StpCancelsMaker(w) ==
  \/ w.o.stp \in {"CancelOldest", "CancelBoth"}
  \/ w.o.stp = "Decrement" /\ Total(Maker) <= w.left

StpApply ==
  /\ Step("sweep") /\ Marketable(Head(work)) /\ SameScope(Head(work).o, Maker)
  /\ HoldsOf(holds, Maker.id) = {}
  /\ LET w == Head(work)
         dec == IF w.o.stp = "Decrement" THEN Least(w.left, Total(Maker)) ELSE 0
         nets == [tape EXCEPT !.netted[w.o.id] = @ + dec]
     IN /\ work' = <<[w EXCEPT !.left = @ - dec,
                               !.dead = w.o.stp \in {"CancelNewest", "CancelBoth"} \/ w.left = dec]>>
                   \o Tail(work)
        /\ \/ /\ StpCancelsMaker(w)
              /\ book' = Cancel(book, Maker.id)
              /\ funds' = ReleaseReservation(funds, Maker.id)
              /\ reg' = Forget(reg, Maker.id)
              /\ md' = OnCanceled(md, Maker.id)
              /\ tape' = Bury(nets, Maker.id, Total(Maker))
           \/ /\ ~StpCancelsMaker(w) /\ w.o.stp = "Decrement"
              /\ book' = ReduceTotal(book, Maker.id, Total(Maker) - dec)
              /\ funds' = ReleaseReservationPro(funds, Maker.id, Total(Maker), Total(Maker) - dec)
              /\ tape' = Mute([nets EXCEPT !.netted[Maker.id] = @ + dec], Maker.id)
              /\ UNCHANGED <<md, reg>>
           \/ /\ w.o.stp = "CancelNewest"
              /\ UNCHANGED <<book, funds, md, reg, tape>>
  /\ UNCHANGED <<venue, now, holds, holdSeq, cmds>>

\* createHeld: the slice leaves the book and waits for the maker's answer.
SweepHold ==
  /\ Step("sweep") /\ Marketable(Head(work)) /\ ~SameScope(Head(work).o, Maker)
  /\ Maker.ll
  /\ LET w == Head(work)
         o == w.o
         q == Least(w.left, Maker.leaves)
     IN /\ holdSeq' = holdSeq + 1
        /\ holds' = holds \cup
             {[hid |-> holdSeq', maker |-> Maker.id, taker |-> o.id, side |-> o.side,
               px |-> Maker.px, qty |-> q, deadline |-> now + Config.window, tif |-> o.tif,
               mkt |-> o.mkt, takerPx |-> o.px, exp |-> o.exp, makerCum |-> Maker.cum,
               takerCum |-> w.prior + w.filled]}
        /\ reg' = IF o.stp # "None" THEN [reg EXCEPT !.stp[o.id] = o.stp] ELSE reg
        /\ book' = FillBest(book, Opposite(o.side), q)
        /\ md' = OnFillHeld(md, Maker.id, DisplayAfter(Maker, q))
        /\ work' = <<[w EXCEPT !.left = @ - q]>> \o Tail(work)
        /\ tape' = [tape EXCEPT !.held = @ \cup {Maker.id, o.id}]
  /\ UNCHANGED <<venue, now, funds, cmds>>

\* A print; a leg that is complete and has nothing on hold is cleaned up.
SweepFill ==
  /\ Step("sweep") /\ Marketable(Head(work)) /\ ~SameScope(Head(work).o, Maker)
  /\ ~Maker.ll
  /\ LET w == Head(work)
         q == Least(w.left, Maker.leaves)
         t == [maker |-> Maker.id, taker |-> w.o.id, side |-> w.o.side, px |-> Maker.px, qty |-> q]
         b == FillBest(book, Opposite(w.o.side), q)
         c == Cleanup(SettleTrade(funds, t), reg, b, holds, Maker.id)
         d == IF w.left = q THEN Cleanup(c.funds, c.reg, b, holds, w.o.id) ELSE c
     IN /\ book' = b /\ funds' = d.funds /\ reg' = d.reg
        /\ tape' = OnTape(t)
        /\ md' = OnExecuted(OnExecuted(md, Maker.id, DisplayAfter(Maker, q), Total(Maker) = q),
                            w.o.id, w.left - q, w.left = q)
        /\ work' = <<[w EXCEPT !.left = @ - q, !.filled = @ + q]>> \o Tail(work)
  /\ UNCHANGED <<venue, now, holds, holdSeq, cmds>>

-----------------------------------------------------------------------------
(* After the sweep: what is left of the order rests or dies *)

SweepOver(w) == Step("sweep") /\ ~Marketable(w)
Dies(w) == w.dead \/ (w.left > 0 /\ (w.o.mkt \/ w.o.tif \in {"IOC", "FOK"}))

SweepFilled ==
  /\ SweepOver(Head(work)) /\ Head(work).left = 0 /\ ~Head(work).dead
  /\ Done
  /\ md' = IF Head(work).amended THEN OnModified(md, Head(work).o.id, Head(work).o.px, 0) ELSE md
  /\ UNCHANGED <<venue, now, book, holds, holdSeq, funds, reg, cmds, tape>>

\* An amended order is tracked and has to be forgotten.
KillResidual ==
  /\ SweepOver(Head(work)) /\ Dies(Head(work)) /\ Done
  /\ LET w == Head(work)
     IN /\ funds' = ReleaseReservationExceptHeld(funds, w.o.id, HeldQtyFor(holds, w.o.id))
        /\ reg' = IF w.amended THEN Forget(reg, w.o.id) ELSE reg
        /\ md' = OnCanceled(md, w.o.id)
        /\ tape' = Bury(tape, w.o.id, w.left)
  /\ UNCHANGED <<venue, now, book, holds, holdSeq, cmds>>

RestingForm(w) ==
  LET iceberg == w.o.vis > 0 /\ w.o.vis < w.left
  IN [id |-> w.o.id, px |-> w.o.px, leaves |-> IF iceberg THEN w.o.vis ELSE w.left,
      hidden |-> IF iceberg THEN w.left - w.o.vis ELSE 0, peak |-> IF iceberg THEN w.o.vis ELSE 0,
      ll |-> w.o.ll /\ Config.window > 0, post |-> w.o.post, cum |-> w.prior + w.filled]

RestResidual ==
  /\ SweepOver(Head(work)) /\ Head(work).left > 0 /\ ~Dies(Head(work)) /\ ~Full(book)
  /\ Done
  /\ LET w == Head(work)
         g == Track(reg, w.o.id, w.o.stp)
     IN /\ book' = AddResting(book, w.o.side, RestingForm(w))
        /\ reg' = IF ~w.amended /\ w.o.tif = "GTD" /\ w.o.exp > 0
                    THEN [g EXCEPT !.expiry[w.o.id] = w.o.exp] ELSE g
        /\ md' = IF w.amended THEN OnModified(md, w.o.id, w.o.px, w.left)
                 ELSE OnAccepted(md, w.o.id, w.o.side, w.o.px, RestingForm(w).leaves)
        /\ tape' = IF w.amended /\ RestingForm(w).hidden > 0 THEN Mute(tape, w.o.id) ELSE tape
  /\ UNCHANGED <<venue, now, holds, holdSeq, funds, cmds>>

\* A full book: a new order that has not printed is rejected as a whole, any
\* other loses its residual.  LiveIsReserved rests on the fact that an order with a
\* slice on hold finds room here: the sweep has just freed a node.
RefuseResidual ==
  /\ SweepOver(Head(work)) /\ Head(work).left > 0 /\ ~Dies(Head(work)) /\ Full(book)
  /\ Done
  /\ LET w == Head(work)
         rejected == ~w.amended /\ w.filled = 0
     IN /\ funds' = IF rejected THEN ReleaseReservation(funds, w.o.id)
                    ELSE ReleaseReservationExceptHeld(funds, w.o.id, HeldQtyFor(holds, w.o.id))
        /\ reg' = IF w.amended THEN Forget(reg, w.o.id) ELSE reg
        /\ md' = IF rejected THEN md ELSE OnCanceled(md, w.o.id)
        /\ tape' = Bury(tape, w.o.id, IF rejected THEN w.o.qty ELSE w.left)
  /\ UNCHANGED <<venue, now, book, holds, holdSeq, cmds>>

-----------------------------------------------------------------------------
Zero == [id \in Ids |-> 0]

Init ==
  /\ venue \in DOMAIN Venues
  /\ now = 0
  /\ book = EmptyBook
  /\ holds = {} /\ holdSeq = 0
  /\ funds = [bal |-> [a \in Accounts |-> [x \in Assets |-> [avail |-> Deposits, rsvd |-> 0]]],
              rsv |-> [id \in {} |-> 0]]
  /\ md = NoPublicBook(1..MaxPx)
  /\ reg = [tracked |-> {}, expiry |-> Zero, stp |-> [id \in Ids |-> "None"]]
  /\ work = <<>>
  /\ cmds = 0
  /\ tape = [entered |-> Zero, traded |-> Zero, killed |-> Zero, netted |-> Zero, limit |-> Zero,
             mode |-> [id \in Ids |-> "None"], restored |-> {}, held |-> {}, print |-> {},
             unsettled |-> FALSE, muted |-> {}]

Submissions ==
  \/ SubmitNew \/ SubmitCancel \/ SubmitModify \/ SubmitMassCancel
  \/ SubmitQuote \/ SubmitDecision \/ SubmitTick

Matching ==
  \/ StpRelieve \/ StpApply \/ SweepHold \/ SweepFill
  \/ SweepFilled \/ KillResidual \/ RestResidual \/ RefuseResidual

Handling ==
  \/ ExpireHolds \/ RejectHoldsFor \/ RejectHoldsForAccount
  \/ ResolveGone \/ AcceptHold \/ RejectHold
  \/ ExpireOrders \/ ExpireOrder \/ PullAll \/ Pull
  \/ RefuseNew \/ AcceptNew \/ Modify \/ AmendUnknown \/ AmendInPlace \/ AmendReenter
  \/ Answered

\* Every handler runs to its end: only the bound on commands stops the engine.
OutOfCommands == Idle /\ cmds = MaxCmds /\ UNCHANGED vars

Next == Submissions \/ Handling \/ Matching \/ OutOfCommands

Spec == Init /\ [][Next]_vars

-----------------------------------------------------------------------------
(* Properties *)

\* What of an order is still alive: resting, out under last look, or on its way
\* through the book.
InFlight(id) ==
  SumFunction([i \in {j \in DOMAIN work : work[j].op = "sweep" /\ work[j].o.id = id}
                 |-> work[i].left])
Live(id) == Resting(id) + HeldQtyFor(holds, id) + InFlight(id)

\* The shape of the state.
TypeOK ==
  /\ venue \in DOMAIN Venues /\ now \in 0..MaxTime /\ cmds \in 0..MaxCmds /\ holdSeq \in Nat
  /\ \A s \in Sides : \A r \in On(book, s) :
       /\ r.id \in Ids /\ r.px \in 1..MaxPx /\ r.leaves > 0 /\ r.hidden >= 0 /\ r.cum \in Int
       /\ (r.hidden > 0 => r.peak > 0)
  /\ \A h \in holds : h.maker # h.taker /\ h.qty > 0 /\ h.hid \in 1..holdSeq
  /\ DOMAIN funds.rsv \subseteq Ids /\ reg.tracked \subseteq Ids

\* Every unit a client entered has traded, has been reported dead, was netted off
\* by self-trade prevention, or is still alive: nothing vanishes and nothing is
\* reported twice, across sweeps, holds, restores, amends and expiry.
Accounted ==
  \A id \in Ids :
    tape.entered[id] = tape.traded[id] + tape.killed[id] + tape.netted[id] + Live(id)

\* Whatever is alive, the slices out under last look included, has its reservation
\* ("the held slice stays reserved until its hold resolves", docs/venue/matching.md).
LiveIsReserved ==
  \A id \in Ids :
    Live(id) > 0 => Reserved(funds, id) /\ funds.rsv[id].raw >= Backing(funds.rsv[id], Live(id))

\* Between commands nothing is reserved for an order that is gone, and an order
\* nothing was netted off has reserved exactly what it still needs.
NothingFrozen ==
  Idle => \A id \in DOMAIN funds.rsv :
            /\ Live(id) > 0
            /\ tape.netted[id] = 0 => funds.rsv[id].raw = Backing(funds.rsv[id], Live(id))

\* What is reserved is what is alive: neither less, nor, between commands, more.
ReservationsAreExact == LiveIsReserved /\ NothingFrozen

\* What the orders of an account have reserved of an asset, and all there is of it.
ReservedBy(rsv, a, x) ==
  SumFunction([id \in {k \in DOMAIN rsv : Owner[k] = a /\ AssetOf(rsv[k].side) = x} |-> rsv[id].raw])
Supply(bal, x) == SumFunction([a \in Accounts |-> bal[a][x].avail + bal[a][x].rsvd])

\* Money is only ever exchanged, and only once: every print settles, the reserved
\* balance of an account is the sum of its reservations, no balance is negative and
\* the total of each asset never changes.
FundsBalance ==
  /\ ~tape.unsettled
  /\ \A a \in Accounts, x \in Assets :
       /\ funds.bal[a][x].avail >= 0
       /\ funds.bal[a][x].rsvd = ReservedBy(funds.rsv, a, x)
  /\ \A x \in Assets : Supply(funds.bal, x) = Deposits * Cardinality(Accounts)

\* A print is within the limits both orders carry at that moment, however long the
\* slice was on hold and whatever was amended meanwhile.
WithinLimits ==
  \A t \in tape.print :
    LET l == Legs(t)
    IN /\ tape.limit[l.buyer] = 0 \/ t.px <= tape.limit[l.buyer]
       /\ tape.limit[l.seller] = 0 \/ t.px >= tape.limit[l.seller]

\* An order that asked for self-trade prevention never takes one of its own scope.
NoSelfTrade ==
  \A t \in tape.print :
    Scope[Owner[t.maker]] = Scope[Owner[t.taker]] => tape.mode[t.taker] = "None"

\* A crossed book has an order a refused hold put back ("the book may be
\* transiently crossed against the rejecting maker", docs/venue/matching.md).
CrossedByRestoreOnly ==
  Idle => \A b \in On(book, "buy"), s \in On(book, "sell") :
            b.px >= s.px => {b.id, s.id} \cap tape.restored # {}

\* An order that was never on hold reports as executed what it has traded, across
\* amends too.
CumIsTraded ==
  \A r \in Orders(book) : r.id \notin tape.held => r.cum = tape.traded[r.id]

\* An order's life adds up: its quantity is accounted for, it printed within its limit
\* and against no order of its own scope, it rests crossed only where a refused hold put
\* it, and it reports what it has traded.
OrdersAreSound ==
  Accounted /\ WithinLimits /\ NoSelfTrade /\ CrossedByRestoreOnly /\ CumIsTraded

\* Between commands the public book shows of every order what the matching book
\* displays, and adds up to it at every price ("after any hold/accept/reject sequence
\* the published depth equals the matching book", market_data.h), as long as no
\* order's size changed without an event: those are in tape.muted.  A maker with two slices
\* on hold, one accepted and one refused, gets there: the publisher has forgotten it
\* (README, section 4); from then on only the other orders are compared.
ShownSize(id) == IF Shows(md, id) THEN md.orders[id].leaves ELSE 0
DisplayedAt(s, p) == MapThenSumSet(LAMBDA r : r.leaves, {r \in On(book, s) : r.px = p})
DepthIsBook ==
  Idle => /\ \A id \in Ids \ tape.muted :
               /\ ShownSize(id) = Displayed(book, id)
               /\ ShownSize(id) > 0 => /\ md.orders[id].px = Find(book, id).px
                                       /\ md.orders[id].side = SideOf(book, id)
          /\ tape.muted = {} => \A s \in Sides, p \in 1..MaxPx : md.level[s][p] = DisplayedAt(s, p)

\* The same without exception.
\* Does not hold (README, section 4).
PublishedDepthIsBook ==
  Idle => \A s \in Sides, p \in 1..MaxPx : md.level[s][p] = DisplayedAt(s, p)

\* When the answer goes out the command has taken effect: a cancelled order and
\* every order of a mass-cancelled account are gone with their holds and their
\* reservations, and no hold is past its deadline.
AnswerIsTrue ==
  Step("answer") =>
    LET w == Head(work)
        gone == {id \in Ids : \/ w.cmd = "cancel" /\ id = w.id
                              \/ w.cmd = "massCancel" /\ Owner[id] = w.acct}
    IN /\ \A id \in gone : Live(id) = 0 /\ ~Reserved(funds, id) /\ id \notin reg.tracked
       /\ \A h \in holds : now < h.deadline
=============================================================================

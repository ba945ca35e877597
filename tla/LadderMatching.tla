--------------------------- MODULE LadderMatching ---------------------------
(***************************************************************************)
(* Matcher<LadderBook> (matcher.h) on a spot symbol without last look: the  *)
(* price-time sweep, the pro-rata sweep, self-trade prevention, the         *)
(* fill-or-kill plan, and the cancels and amends between two orders.  One   *)
(* thread runs it; a step here is one command to the book, so that the book *)
(* can be compared with the oracle command by command.                      *)
(*                                                                         *)
(* An order is [id, side, px, qty, tif, stp, post, peak]; a price of 0 is a *)
(* market order, a peak of 0 no iceberg.                                    *)
(***************************************************************************)
EXTENDS LadderBook

CONSTANTS
  Offers,      \* the orders clients send
  Scope,       \* order id -> the firm it trades for
  Policies,    \* matching policies of the symbol
  MaxCommands  \* bound: commands of clients

VARIABLES
  ladder,   \* the book
  policy,   \* the symbol's matching policy
  sweep,    \* the order being matched
  call,     \* the last command to the book, with its result
  commands  \* commands of clients so far
vars == <<ladder, policy, sweep, call, commands>>

Oracle == INSTANCE BoundedBook WITH book <- Shown(ladder), Capacity <- MaxOrders, InBand <- CanRest

Opposite(s) == IF s = "buy" THEN "sell" ELSE "buy"
Smaller(a, b) == IF a < b THEN a ELSE b
SumOf(seq) == FoldLeft(LAMBDA x, y : x + y, 0, seq)
Depth(seq) == SumOf([i \in DOMAIN seq |-> seq[i].leaves + seq[i].hidden])
Crosses(o, px) == o.px = 0 \/ IF o.side = "buy" THEN o.px >= px ELSE o.px <= px
Own(o, m) == o.stp # "none" /\ Scope[m.id] = Scope[o.id]

\* stage: "idle" between orders, "walk" before a level, "share" while one is shared out.
Idle == [stage |-> "idle", shares |-> <<>>]
Init ==
  /\ ladder = NewLadder /\ policy \in Policies /\ call = Oracle!NoCall
  /\ sweep = Idle /\ commands = 0

\* The next command of a client, once the last one is done with.
Command ==
  sweep.stage = "idle" /\ commands < MaxCommands /\ commands' = commands + 1 /\ UNCHANGED policy
Step == UNCHANGED <<policy, commands>>

-----------------------------------------------------------------------------

\* What an order could take, best first.
InReach(o) == SelectSeq(ForEachOrder(ladder, Opposite(o.side)), LAMBDA m : Crosses(o, m.px))
PostOnlyWouldCross(o) == o.post /\ InReach(o) # <<>>

\* Mutant: depth the aggressor may not trade with is counted.
PlanFillOrKillRaw(o) == Depth(InReach(o)) >= o.qty
\* The displayed and the hidden size within the limit, own orders left out.
PlanFillOrKill(o) == Depth(SelectSeq(InReach(o), LAMBDA m : ~Own(o, m))) >= o.qty

\* A price without a level is refused by validate(), before anything trades, so addResting
\* never meets one here; prices between ticks, which validate() refuses too, are not offered.
Refused(o) ==
  \/ o.px # 0 /\ ~CanRest(o.px)
  \/ PostOnlyWouldCross(o)
  \/ o.tif = "fok" /\ ~PlanFillOrKill(o)
New ==
  /\ Command
  /\ \E o \in Offers :
       /\ ~Holds(ladder, o.id)
       /\ sweep' = IF Refused(o) THEN sweep
                   ELSE [stage |-> "walk", o |-> o, left |-> o.qty, filled |-> 0, dead |-> FALSE,
                         over |-> FALSE, shares |-> <<>>]
  /\ UNCHANGED <<ladder, call>>

Best == BestLevel(ladder, Opposite(sweep.o.side))
Goes ==
  /\ sweep.left > 0 /\ ~sweep.dead /\ ~sweep.over
  /\ Best # <<>> /\ Crosses(sweep.o, Head(Best).px)
Walking == sweep.stage = "walk" /\ Goes

-----------------------------------------------------------------------------
(* Self-trade prevention, applySelfTradePrevention *)

OwnAtBest == SelectSeq(Best, LAMBDA m : Own(sweep.o, m))
\* Price-time meets the head of the level; pro-rata clears the level of own orders first.
Prevented ==
  IF policy = "fifo" THEN Own(sweep.o, Head(Best)) ELSE OwnAtBest # <<>>
Conflict == Head(OwnAtBest)

CancelCall(id) ==
  [op |-> "cancel", id |-> id,
   result |-> IF Holds(ladder, id) THEN ladder.nodes[FindSlot(ladder, id)].order ELSE Oracle!NoCall]
CancelMaker ==
  /\ Walking /\ Prevented /\ sweep.o.stp \in {"oldest", "both"}
  /\ ladder' = Cancel(ladder, Conflict.id) /\ call' = CancelCall(Conflict.id)
  /\ sweep' = [sweep EXCEPT !.dead = sweep.o.stp = "both"] /\ Step
CancelTaker ==
  /\ Walking /\ Prevented /\ sweep.o.stp = "newest"
  /\ sweep' = [sweep EXCEPT !.dead = TRUE] /\ UNCHANGED <<ladder, call>> /\ Step
\* The smaller leg goes, measured by all it holds; the larger is cut by it.
Decrement ==
  /\ Walking /\ Prevented /\ sweep.o.stp = "decrement"
  /\ LET m == Conflict
         held == m.leaves + m.hidden
         dec == Smaller(sweep.left, held)
     IN /\ IF dec = held
             THEN ladder' = Cancel(ladder, m.id) /\ call' = CancelCall(m.id)
             ELSE /\ ladder' = ReduceTotal(ladder, m.id, held - dec)
                  /\ call' = [op |-> "reduceTotal", id |-> m.id, total |-> held - dec]
        /\ sweep' = [sweep EXCEPT !.left = @ - dec, !.dead = sweep.left = dec] /\ Step

-----------------------------------------------------------------------------
(* Prints *)

\* cross(): a bite of the best order's displayed size.
PrintBest ==
  /\ Walking /\ policy = "fifo" /\ ~Prevented
  /\ LET q == Smaller(sweep.left, Head(Best).leaves)
         side == Opposite(sweep.o.side)
     IN /\ ladder' = FillBest(ladder, side, q) /\ call' = [op |-> "fill", side |-> side, qty |-> q]
        /\ sweep' = [sweep EXCEPT !.left = @ - q, !.filled = @ + q] /\ Step

\* What the division drops goes to the oldest that have room.
Spread(s, x) ==
  LET extra == Smaller(x.room, s.left)
  IN [left |-> s.left - extra, got |-> Append(s.got, x.share + extra)]
\* want over the sizes of a level: the floor of each share, then the rest.
Split(sizes, want) ==
  LET share == [i \in DOMAIN sizes |-> (want * sizes[i]) \div SumOf(sizes)]
  IN FoldLeft(Spread, [left |-> want - SumOf(share), got |-> <<>>],
              [i \in DOMAIN sizes |-> [share |-> share[i], room |-> sizes[i] - share[i]]]).got

\* crossProRata(): the level as it is read now, and what each order at it will give.
Share(sizes, got, want) ==
  sweep' = [sweep EXCEPT !.stage = "share", !.over = want < SumOf(sizes),
              !.shares = [i \in DOMAIN sizes |-> [id |-> Best[i].id, size |-> sizes[i], got |-> got[i], due |-> TRUE]]]
Allocate ==
  /\ Walking /\ policy = "prorata" /\ ~Prevented
  /\ LET sizes == [i \in DOMAIN Best |-> Best[i].leaves]
         want == Smaller(sweep.left, SumOf(sizes))
     IN Share(sizes, Split(sizes, want), want)
  /\ UNCHANGED <<ladder, call>> /\ Step

\* The orders of the level, as it was read, trade oldest first.
Due == {i \in DOMAIN sweep.shares : sweep.shares[i].due /\ sweep.shares[i].got > 0}
Consume ==
  /\ sweep.stage = "share" /\ Due # {}
  /\ LET i == Min(Due)
         x == sweep.shares[i]
     IN /\ ladder' = ConsumeById(ladder, x.id, x.got)
        /\ call' = [op |-> "consume", id |-> x.id, qty |-> x.got]
        /\ sweep' = [sweep EXCEPT !.left = @ - x.got, !.filled = @ + x.got, !.shares[i].due = FALSE]
  /\ Step
NextLevelUp ==
  /\ sweep.stage = "share" /\ Due = {}
  /\ sweep' = [sweep EXCEPT !.stage = "walk"] /\ UNCHANGED <<ladder, call>> /\ Step

-----------------------------------------------------------------------------
(* The end of a sweep, and the commands between two *)

Resting(o) ==
  LET shown == IF o.peak > 0 THEN Smaller(o.peak, sweep.left) ELSE sweep.left
  IN [id |-> o.id, px |-> o.px, leaves |-> shown, hidden |-> sweep.left - shown, peak |-> o.peak,
      cum |-> sweep.filled]
ResidualRests == sweep.left > 0 /\ ~sweep.dead /\ sweep.o.px # 0 /\ sweep.o.tif = "gtc"

\* restOnBook: full() is asked after the sweep, which may have freed a node.
Finish ==
  /\ sweep.stage = "walk" /\ ~Goes
  /\ sweep' = Idle /\ Step
  /\ IF ResidualRests
       THEN /\ ladder' = IF Full(ladder) THEN ladder ELSE AddResting(ladder, sweep.o.side, Resting(sweep.o))
            /\ call' = [op |-> "add", side |-> sweep.o.side, order |-> Resting(sweep.o),
                        result |-> IF Full(ladder) THEN "PoolExhausted" ELSE "Accepted"]
       ELSE UNCHANGED <<ladder, call>>

CancelOrder ==
  /\ Command
  /\ \E id \in DOMAIN Scope : ladder' = Cancel(ladder, id) /\ call' = CancelCall(id)
  /\ UNCHANGED sweep

\* onModify: a smaller size at the same price stays in the queue; an iceberg re-enters.
Amend ==
  /\ Command
  /\ \E id \in {x \in DOMAIN Scope : Holds(ladder, x)} :
       LET r == ladder.nodes[FindSlot(ladder, id)].order IN
       /\ r.hidden = 0 /\ r.leaves > 1
       /\ ladder' = Reduce(ladder, id, r.leaves - 1)
       /\ call' = [op |-> "reduce", id |-> id, leaves |-> r.leaves - 1]
  /\ UNCHANGED sweep

Next ==
  \/ New \/ CancelMaker \/ CancelTaker \/ Decrement \/ PrintBest \/ Allocate \/ Consume
  \/ NextLevelUp \/ Finish \/ CancelOrder \/ Amend
Spec == Init /\ [][Next]_vars

-----------------------------------------------------------------------------

\* docs/venue/matching.md: the two books are interchangeable.  Every command to the ladder
\* does what it does to the oracle: same orders, same priority, same answer, and nothing is
\* refused but out of the band or with the pool used up.
ImplementsOracle == Oracle!Spec

\* A level is shared out whole: nobody gives less than the floor of its share of the
\* displayed size or more than it displays, and together they give what the aggressor wants
\* or what the level has; a level only partly taken ends the sweep.
SharedOut ==
  sweep.shares # <<>> =>
    LET sizes == SumOf([i \in DOMAIN sweep.shares |-> sweep.shares[i].size])
        want == SumOf([i \in DOMAIN sweep.shares |-> sweep.shares[i].got])
        due == SumOf([i \in DOMAIN sweep.shares |-> IF sweep.shares[i].due THEN sweep.shares[i].got ELSE 0])
    IN /\ \A i \in DOMAIN sweep.shares :
            LET x == sweep.shares[i] IN x.got <= x.size /\ x.got >= (want * x.size) \div sizes
       /\ sweep.stage = "share" => want = sizes \/ sweep.left = due

\* A fill-or-kill order that its own firm's orders do not stop trades all of it or nothing:
\* under the modes that cancel or cut the aggressor it may end half filled (README, section 4).
AllOrNone ==
  sweep.stage = "walk" /\ ~Goes /\ sweep.o.tif = "fok" /\ sweep.o.stp \in {"none", "oldest"} =>
    sweep.filled = sweep.o.qty

\* Fills come out even: shares add up, and fill-or-kill is all or none.
FillsAreExact == SharedOut /\ AllOrNone

\* levels() says what rests at each price, as MatchingBook's does: the auction is priced off it.
\* Does not hold (README, section 4).
LevelsAgree ==
  \A s \in {"buy", "sell"} : \A lv \in Levels(ladder, s) :
    lv.qty = Depth(SelectSeq(ForEachOrder(ladder, s), LAMBDA r : r.px = lv.px))
=============================================================================

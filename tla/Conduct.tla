------------------------------ MODULE Conduct ------------------------------
(***************************************************************************)
(* What the engine keeps about orders and accounts beside the book: the      *)
(* conditional orders that wait for their trigger (stop_book.h), groups     *)
(* of which one order cancels the others (engine/oco.h), pegged orders      *)
(* (engine/pegs.h), market-maker protection (engine/mmp.h), self-trade      *)
(* verdicts of an auction (engine/stp.h), the window in which a client order *)
(* id may not be used again (engine/clordid_window.h) and the state of the  *)
(* trading session (engine/session.h).                                      *)
(***************************************************************************)
EXTENDS Integers, Sequences, FiniteSets, FiniteSetsExt, SequencesExt

(* StopBook: a set of records [o, trig].  o is the submitted order, whose     *)
(* type is one of Conditional; trig is 0 while a trailing stop has no          *)
(* reference yet.                                                             *)

Conditional == {"stop", "stopLimit", "takeProfit", "takeProfitLimit", "trailing"}
IsLimitStop(type) == type \in {"stopLimit", "takeProfitLimit"}
IsTakeProfit(type) == type \in {"takeProfit", "takeProfitLimit"}

Parked(S, id) == \E s \in S : s.o.id = id
Unpark(S, id) == {s \in S : s.o.id # id}

\* Up fires when the reference reaches the trigger from below: a buy stop, a sell
\* take-profit, a trailing buy.
FiresUp(o) == (o.side = "buy") # IsTakeProfit(o.type)

InitialTrigger(o, last) ==
  CASE o.type # "trailing" -> o.trig
    [] o.type = "trailing" /\ last = 0 -> 0
    [] OTHER -> IF o.side = "sell" THEN last - o.offset ELSE last + o.offset

\* A trailing trigger follows the reference one way only.
Ratchet(s, ref) ==
  LET cand == IF s.o.side = "sell" THEN ref - s.o.offset ELSE ref + s.o.offset
      closer == IF s.o.side = "sell" THEN cand > s.trig ELSE cand < s.trig
  IN IF s.o.type = "trailing" /\ (s.trig = 0 \/ closer) THEN [s EXCEPT !.trig = cand] ELSE s

UpdateTrailing(S, ref) == {Ratchet(s, ref) : s \in S}

\* How far the reference is past the trigger; a stop fires from 0 on.
Distance(s, ref) == IF FiresUp(s.o) THEN ref - s.trig ELSE s.trig - ref
Triggered(S, ref) == {s \in S : (s.o.type = "trailing" => s.trig # 0) /\ Distance(s, ref) >= 0}

\* popTriggered: most crossed first, the lowest id on a tie.
First(S, ref) ==
  CHOOSE s \in S : \A t \in S :
    \/ Distance(s, ref) > Distance(t, ref)
    \/ Distance(s, ref) = Distance(t, ref) /\ s.o.id <= t.o.id

\* A fired stop trades as the order it stands for, shown in full.
ToAggressor(s) ==
  [s.o EXCEPT !.type = IF IsLimitStop(s.o.type) THEN "limit" ELSE "market", !.vis = 0]

(* OcoBook: [group, members, won].  group maps an id to its group, 0 if none; *)
(* members is the inverse index; won lists the prints that decided a group.   *)

NewOco(ids, groups) ==
  [group |-> [i \in ids |-> 0], members |-> [g \in groups |-> {}], won |-> <<>>]

Link(c, id, g) == [c EXCEPT !.group[id] = g, !.members[g] = @ \cup {id}]

Unlink(c, id) ==
  IF c.group[id] = 0 THEN c
  ELSE [c EXCEPT !.group[id] = 0, !.members[c.group[id]] = @ \ {id}]

NoteFill(c, maker, taker) ==
  [c EXCEPT !.won = @ \o SelectSeq(<<[g |-> c.group[maker], id |-> maker],
                                     [g |-> c.group[taker], id |-> taker]>>,
                                   LAMBDA w : w.g # 0)]

\* drainLosers: the first print of a group decides it; who else was in it loses.
Decided(c) == {w.g : w \in ToSet(c.won)}
Winner(c, g) == c.won[Min({i \in DOMAIN c.won : c.won[i].g = g})].id
Losers(c) == UNION {c.members[g] \ {Winner(c, g)} : g \in Decided(c)}
Dissolve(c) ==
  [group |-> [i \in DOMAIN c.group |->
                IF \E g \in Decided(c) : i \in c.members[g] THEN 0 ELSE c.group[i]],
   members |-> [g \in DOMAIN c.members |-> IF g \in Decided(c) THEN {} ELSE c.members[g]],
   won |-> <<>>]

(* PegBook::targetRaw.  m is the market the order tracks, without the order:  *)
(* [bid, ask, last, tick, lo, hi], 0 for what is missing.                     *)

PegReference(ref, m) ==
  CASE ref = "Bid" -> IF m.bid # 0 THEN m.bid ELSE IF m.ask # 0 THEN m.ask ELSE m.last
    [] ref = "Ask" -> IF m.ask # 0 THEN m.ask ELSE IF m.bid # 0 THEN m.bid ELSE m.last
    [] ref = "Mid" -> IF m.bid # 0 /\ m.ask # 0 THEN (m.bid + m.ask) \div 2
                      ELSE IF m.bid # 0 THEN m.bid ELSE IF m.ask # 0 THEN m.ask ELSE m.last

\* Aligned down, one tick inside the opposite touch, and then inside the band.
PegTarget(side, ref, offset, m) ==
  LET aligned == ((PegReference(ref, m) + offset) \div m.tick) * m.tick
      inside == CASE side = "buy" /\ m.ask # 0 /\ aligned >= m.ask -> m.ask - m.tick
                  [] side = "sell" /\ m.bid # 0 /\ aligned <= m.bid -> m.bid + m.tick
                  [] OTHER -> aligned
  IN CASE m.lo > 0 /\ inside < m.lo -> m.lo
       [] m.hi > 0 /\ inside > m.hi -> m.hi
       [] OTHER -> inside

(* MmpState: [fills, breached], the fills of each account in its window and   *)
(* the accounts whose orders are due to be pulled, in order.  cfg maps the     *)
(* protected accounts to [limit, window].                                     *)

NewMmp(accounts) == [fills |-> [a \in accounts |-> <<>>], breached |-> <<>>]
FillSum(s) == FoldLeft(LAMBDA acc, f : acc + f.qty, 0, s)

MmpAdd(p, cfg, a, qty, now) ==
  IF a \notin DOMAIN cfg THEN p
  ELSE LET kept == SelectSeq(Append(p.fills[a], [at |-> now, qty |-> qty]),
                             LAMBDA f : f.at > now - cfg[a].window)
           breach == FillSum(kept) >= cfg[a].limit /\ a \notin ToSet(p.breached)
       IN [fills |-> [p.fills EXCEPT ![a] = kept],
           breached |-> IF breach THEN Append(p.breached, a) ELSE p.breached]

Rearm(p, a) == [p EXCEPT !.fills[a] = <<>>]

(* StpState::auctionVerdict: which legs of a pair of the same scope go.       *)

Protects(bidMode, askMode) == bidMode # "None" \/ askMode # "None"
Trims(bidMode, askMode) == "Decrement" \in {bidMode, askMode}
DropsBid(bidMode, askMode) ==
  bidMode \in {"CancelNewest", "CancelBoth"} \/ askMode \in {"CancelOldest", "CancelBoth"}
DropsAsk(bidMode, askMode) ==
  bidMode \in {"CancelOldest", "CancelBoth"} \/ askMode \in {"CancelNewest", "CancelBoth"}

(* ClOrdIdWindow, per account: [cur, prev, at], two generations of ids and    *)
(* when they were last rotated.  A window of 0 never rotates.                 *)

NewWindow == [cur |-> {}, prev |-> {}, at |-> 0]

\* Mutant: both generations go at once.
RotateBoth(w, now, window) ==
  CASE window <= 0 -> w
    [] window > 0 /\ w.at = 0 -> [w EXCEPT !.at = now]
    [] window > 0 /\ w.at # 0 /\ now - w.at < window -> w
    [] OTHER -> [cur |-> {}, prev |-> {}, at |-> now]

Rotate(w, now, window) ==
  CASE window <= 0 -> w
    [] window > 0 /\ w.at = 0 -> [w EXCEPT !.at = now]
    [] window > 0 /\ w.at # 0 /\ now - w.at < window -> w
    [] OTHER -> [cur |-> {}, prev |-> w.cur, at |-> now]

IsDuplicate(w, id) == id # 0 /\ id \in w.cur \cup w.prev
Register(w, id) == IF id = 0 THEN w ELSE [w EXCEPT !.cur = @ \cup {id}]

-----------------------------------------------------------------------------
(* The session automaton of one instrument (engine/session.h): four flags     *)
(* and the deadline of the timed pause, moved by one row of a table per       *)
(* event, and the memo of what the feed was last told.  A session is a        *)
(* record [halted, until, auction, closed, delisted, said] where until is 0   *)
(* without a deadline and said is the last published status and deadline.     *)

Row(guard, moves, effect) == [guard |-> guard, moves |-> moves, effect |-> effect]

\* kSessionTransitions.  A flag a row does not name is left alone, and the pause
\* deadline is one of them: a halt does not end the pause under it.
Table ==
  [Halt             |-> Row("always", [halted |-> TRUE], "none"),
   Resume           |-> Row("always", [halted |-> FALSE, until |-> FALSE], "none"),
   HaltAndCancelAll |-> Row("always", [halted |-> TRUE, until |-> FALSE], "cancelBookAfter"),
   BeginPreOpen     |-> Row("always", [auction |-> TRUE], "none"),
   OpenContinuous   |-> Row("always", [auction |-> FALSE], "uncrossBefore"),
   ResumeAuction    |-> Row("always", [halted |-> FALSE, until |-> FALSE, auction |-> TRUE], "none"),
   CloseSession     |-> Row("always", [closed |-> TRUE], "none"),
   OpenSession      |-> Row("always", [closed |-> FALSE], "none"),
   Delist           |-> Row("notDelisted", [delisted |-> TRUE], "cancelBookAfter"),
   Relist           |-> Row("always", [delisted |-> FALSE], "none"),
   LuldBreach       |-> Row("always", [halted |-> TRUE, until |-> TRUE], "none"),
   LuldPauseElapsed |-> Row("pauseElapsed", [halted |-> FALSE, until |-> FALSE], "none")]

\* What an operator can send; the last two rows are the engine's own.
AdminActions == DOMAIN Table \ {"LuldBreach", "LuldPauseElapsed"}

\* Outermost first.
Status(s) ==
  CASE s.delisted -> "Delisted"
    [] ~s.delisted /\ s.closed -> "Closed"
    [] ~s.delisted /\ ~s.closed /\ s.auction -> "AuctionPreOpen"
    [] ~s.delisted /\ ~s.closed /\ ~s.auction /\ s.halted ->
         IF s.until # 0 THEN "LuldPause" ELSE "Halted"
    [] OTHER -> "Trading"

\* Only the timed pause has a deadline to publish.
PublishedUntil(s) == IF Status(s) = "LuldPause" THEN s.until ELSE 0

NewSession ==
  [halted |-> FALSE, until |-> 0, auction |-> FALSE, closed |-> FALSE, delisted |-> FALSE,
   said |-> [status |-> "Trading", until |-> 0]]

PauseElapsed(s, now) == s.halted /\ s.until # 0 /\ now >= s.until

Allowed(s, event, now) ==
  CASE Table[event].guard = "always" -> TRUE
    [] Table[event].guard = "notDelisted" -> ~s.delisted
    [] Table[event].guard = "pauseElapsed" -> PauseElapsed(s, now)

\* The flags a row moves; the deadline it sets is the caller's.
Move(s, event, deadline) ==
  LET m == Table[event].moves
      Flag(f) == IF f \in DOMAIN m THEN m[f] ELSE s[f]
  IN [s EXCEPT !.halted = Flag("halted"), !.auction = Flag("auction"), !.closed = Flag("closed"),
               !.delisted = Flag("delisted"),
               !.until = IF "until" \notin DOMAIN m THEN @ ELSE IF m.until THEN deadline ELSE 0]

Say(s, status, until) == [s EXCEPT !.said = [status |-> status, until |-> until]]

Publish(s) == Say(s, Status(s), PublishedUntil(s))

\* apply, and the publication the engine makes of every row that fires.
ApplySession(s, event, deadline) == Publish(Move(s, event, deadline))
=============================================================================

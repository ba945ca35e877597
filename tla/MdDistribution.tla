--------------------------- MODULE MdDistribution ---------------------------
(***************************************************************************)
(* One subscriber of the TCP feed (MdDistributionServer::Session in          *)
(* md_distribution.h, SessionWriter in session_registry.h) and one symbol.   *)
(* A session is [alive, sub, from, once, deliverFrom, epoch, pending, taken, *)
(* queue]: sub is "none", "parked" (armFrom has registered the symbol),      *)
(* "taken" (it holds a snapshot or a replay) or "armed".                     *)
(* A frame is what one write carries: a snapshot or a run of increments.     *)
(***************************************************************************)
EXTENDS Integers, Sequences

SnapFrame(e, n) == [snap |-> TRUE, epoch |-> e, seq |-> n, msgs |-> <<>>]
IncFrame(ms) == [snap |-> FALSE, epoch |-> 0, seq |-> 0, msgs |-> ms]

NewSession ==
  [alive |-> TRUE, sub |-> "none", from |-> 0, once |-> FALSE, deliverFrom |-> 0, epoch |-> 0,
   pending |-> <<>>, taken |-> SnapFrame(0, 0), queue |-> <<>>]

\* A dead writer drops what it has queued.
Killed(s) == [s EXCEPT !.alive = FALSE, !.queue = <<>>]

\* SessionWriter::enqueue: a full queue is a slow consumer.
Enqueue(s, f, cap) ==
  CASE ~s.alive -> s
    [] s.alive /\ Len(s.queue) >= cap -> Killed(s)
    [] OTHER -> [s EXCEPT !.queue = Append(@, f)]

\* Mutant: an increment is not parked while the snapshot is on its way.
OnIncrementUnparked(s, m, cap, pendingCap) ==
  IF s.sub # "armed" \/ m.seq < s.deliverFrom THEN s
  ELSE Enqueue([s EXCEPT !.epoch = m.epoch], IncFrame(<<m>>), cap)

OnIncrement(s, m, cap, pendingCap) ==
  LET moved == s.epoch \notin {0, m.epoch}
      t == [s EXCEPT !.epoch = m.epoch, !.deliverFrom = IF moved THEN m.seq ELSE @]
  IN CASE s.sub = "none" -> s
       [] s.sub \in {"parked", "taken"} ->
            IF Len(s.pending) >= pendingCap THEN Killed(s)
            ELSE [s EXCEPT !.pending = Append(@, m)]
       [] s.sub = "armed" ->
            IF m.seq < t.deliverFrom THEN t ELSE Enqueue(t, IncFrame(<<m>>), cap)

\* armFrom: park from this instant on, take the snapshot or the replay outside the
\* session's lock, then queue it with what was parked behind it and arm.
Park(s, from, once) ==
  [s EXCEPT !.sub = "parked", !.from = from, !.once = once, !.pending = <<>>]

Take(s, answer) == [s EXCEPT !.sub = "taken", !.taken = answer]

Arm(s, cap) ==
  LET a == s.taken
      none == ~a.snap /\ a.msgs = <<>>
      from == IF a.snap THEN a.seq + 1 ELSE IF none THEN s.from ELSE a.msgs[Len(a.msgs)].seq + 1
      epoch == IF a.snap THEN a.epoch ELSE IF none THEN 0 ELSE a.msgs[Len(a.msgs)].epoch
      first == IF none THEN s ELSE Enqueue(s, a, cap)
      sent[n \in 0..Len(s.pending)] ==
        IF n = 0 THEN first
        ELSE IF s.pending[n].seq >= from THEN Enqueue(sent[n - 1], IncFrame(<<s.pending[n]>>), cap)
             ELSE sent[n - 1]
  IN [sent[Len(s.pending)] EXCEPT !.sub = IF s.once THEN "none" ELSE "armed", !.deliverFrom = from,
                  !.epoch = epoch, !.pending = <<>>]
=============================================================================

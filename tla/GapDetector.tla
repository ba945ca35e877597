---------------------------- MODULE GapDetector ----------------------------
(***************************************************************************)
(* The client-side sequencer of the market-data feed (resend_buffer.h), for  *)
(* one symbol.  A message is [epoch, seq]; a stream is GapDetector::Stream,  *)
(* with epoch 0 while none is set and the held messages as a set.           *)
(***************************************************************************)
EXTENDS Integers, Sequences, FiniteSets

Message(e, n) == [epoch |-> e, seq |-> n]
NewStream == [epoch |-> 0, next |-> 1, held |-> {}, open |-> FALSE, since |-> 0]

Seqs(M) == {m.seq : m \in M}

\* held is a map: its messages come in the order of their numbers.
BySeq(M) ==
  CHOOSE q \in [1..Cardinality(M) -> M] : \A i, j \in DOMAIN q : i < j => q[i].seq < q[j].seq

\* drainHeld: the held messages that continue the stream without a hole.
Run(s) == {m \in s.held : m.seq >= s.next /\ \A n \in s.next..m.seq : n \in Seqs(s.held)}
Drained(s) == [i \in 1..Cardinality(Run(s)) |-> CHOOSE m \in Run(s) : m.seq = s.next + i - 1]
Drain(s) == [s EXCEPT !.next = @ + Cardinality(Run(s)), !.held = @ \ Run(s)]

\* A message of another epoch starts the stream over.
Restarted(s, m) == s.epoch \notin {0, m.epoch}
InEpoch(s, m) ==
  IF Restarted(s, m) THEN [NewStream EXCEPT !.epoch = m.epoch] ELSE [s EXCEPT !.epoch = m.epoch]

\* What becomes of the stream and what is delivered, before the gap is reported.
InOrder(s, m) ==
  LET t == [s EXCEPT !.next = @ + 1]
  IN [s |-> Drain(t), out |-> <<m>> \o Drained(t), gap |-> 0, abandoned |-> FALSE]

\* abandonGap: everything held is delivered, with the hole.
Abandon(s) ==
  [s EXCEPT !.held = {}, !.next = 1 + CHOOSE n \in Seqs(s.held) : \A k \in Seqs(s.held) : k <= n]

\* A message ahead of the stream is held; over maxHeld the gap is abandoned.
Hold(s, m, maxHeld) ==
  LET dup == m.seq \in Seqs(s.held)
      fresh == ~dup /\ ~s.open
      held == IF dup THEN s.held ELSE s.held \cup {m}
      t == [s EXCEPT !.held = held, !.since = IF fresh THEN 0 ELSE @]
  IN IF Cardinality(held) <= maxHeld
       THEN [s |-> t, out |-> <<>>, gap |-> IF fresh THEN s.next ELSE 0, abandoned |-> FALSE]
       ELSE [s |-> Abandon(t), out |-> BySeq(held), gap |-> IF fresh THEN s.next ELSE 0, abandoned |-> TRUE]

Place(s, m, maxHeld) ==
  CASE m.seq = s.next -> InOrder(s, m)
    [] m.seq > s.next -> Hold(s, m, maxHeld)
    [] OTHER -> [s |-> s, out |-> <<>>, gap |-> 0, abandoned |-> FALSE]

\* A gap is reported when it opens and again every `reraise` messages.
Observe(stream, m, maxHeld, reraise) ==
  LET r == Place(InEpoch(stream, m), m, maxHeld)
      open == r.s.held # {}
      counted == open /\ r.gap = 0
      again == counted /\ r.s.since + 1 >= reraise
  IN [r EXCEPT !.s = [r.s EXCEPT !.open = open,
                                 !.since = IF again THEN 0 ELSE IF counted THEN @ + 1 ELSE @],
               !.gap = IF again THEN r.s.next ELSE @]

\* A snapshot covers everything below n: what is held beyond it drains.
Reset(stream, e, n) ==
  LET t == [stream EXCEPT !.epoch = e, !.next = n, !.held = {m \in @ : m.seq >= n}]
      s == Drain(t)
  IN [s |-> [s EXCEPT !.open = s.held # {}, !.since = 0], out |-> Drained(t)]
=============================================================================

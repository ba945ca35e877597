----------------------------- MODULE MarketData -----------------------------
(***************************************************************************)
(* The market-data feed of one symbol, from MarketDataPublisher              *)
(* (market_data.h) to a subscriber: over datagrams that are lost, doubled    *)
(* and reordered, with a RecoveringMdSubscriber that asks MdRecoveryServer   *)
(* for what it misses (md_recovery.h), or over a TCP session of              *)
(* MdDistributionServer (md_distribution.h).                                 *)
(*                                                                         *)
(* A message is its epoch and its sequence number: the book after n messages *)
(* of epoch e is <<e, n>>, and a subscriber has it exactly when it applied   *)
(* a snapshot and then every later message once, in order.                   *)
(***************************************************************************)
EXTENDS GapDetector, MdDistribution

CONSTANT Feeds   \* the feeds to look at, by name, see below

\* What a feed settles: the subscriber's transport; resendCapacity; how many copies
\* of a datagram may arrive; GapDetector::Config and RecoveringMdSubscriber::Config;
\* MdDistributionConfig's capacities; and, as bounds, the messages of an epoch, the
\* epochs, the round trips that fail and the connections of a TCP subscriber.
ASSUME FeedAssumption ==
  \A n \in DOMAIN Feeds : LET f == Feeds[n] IN
    /\ f.client \in {"udp", "tcp"}
    /\ {f.ring, f.copies, f.reraise, f.maxAttempts, f.maxSeq, f.maxEpoch} \subseteq Nat \ {0}
    /\ {f.maxHeld, f.maxGap, f.pendingCap, f.queueCap, f.maxFails, f.maxConnects} \subseteq Nat

VARIABLES
  feed,     \* the name of the feed, fixed from the start
  pub,      \* MarketDataPublisher: its epoch_ and seq_
  net,      \* datagrams -> copies that may still arrive
  gd,       \* RecoveringMdSubscriber::gd_
  pend,     \* its Pending
  ready,    \* ready_: sequenced messages not yet returned by recv()
  served,   \* recv() has serviced the pending recovery in this pass of its loop
  sess,     \* the TCP session
  view,     \* the subscriber's book, and what is wrong with it
  past      \* history: gaps abandoned, recoveries given up or cut short, snapshots
            \* that overtook messages in ready_; and what the bounds count

vars == <<feed, pub, net, gd, pend, ready, served, sess, view, past>>
client == <<gd, pend, ready, served>>

Feed == Feeds[feed]
Udp == Feed.client = "udp"
Tcp == Feed.client = "tcp"

NoPending == [active |-> FALSE, snapshot |-> FALSE, fromSeq |-> 0, attempts |-> 0]

-----------------------------------------------------------------------------
(* The publisher, and what its ring and its book answer under its lock *)

RingFront == IF pub.seq > Feed.ring THEN pub.seq - Feed.ring + 1 ELSE 1

\* Mutant: the replay starts behind the message asked for.
ResendFromAfter(from) ==
  CASE from > pub.seq -> IncFrame(<<>>)
    [] from <= pub.seq /\ (pub.seq = 0 \/ from < RingFront) -> SnapFrame(pub.epoch, pub.seq)
    [] OTHER -> IncFrame([i \in 1..(pub.seq - from) |-> Message(pub.epoch, from + i)])

\* resendFrom and, when it has nothing to replay, snapshotAtomic.
ResendFrom(from) ==
  CASE from > pub.seq -> IncFrame(<<>>)
    [] from <= pub.seq /\ (pub.seq = 0 \/ from < RingFront) -> SnapFrame(pub.epoch, pub.seq)
    [] OTHER -> IncFrame([i \in 1..(pub.seq - from + 1) |-> Message(pub.epoch, from + i - 1)])

\* emit(): the ring, then the sink, which hands the message to either transport.
Emit ==
  LET m == Message(pub.epoch, pub.seq + 1)
  IN /\ pub.seq < Feed.maxSeq
     /\ pub' = [pub EXCEPT !.seq = @ + 1]
     /\ net' = IF Udp THEN [k \in DOMAIN net \cup {m} |-> IF k = m THEN Feed.copies ELSE net[k]] ELSE net
     /\ sess' = IF sess.alive THEN OnIncrement(sess, m, Feed.queueCap, Feed.pendingCap) ELSE sess
     /\ UNCHANGED <<feed, client, view, past>>

\* The publisher is built anew: another epoch, numbers from 1, an empty ring.
Restart ==
  /\ pub.epoch < Feed.maxEpoch
  /\ pub' = [epoch |-> pub.epoch + 1, seq |-> 0]
  /\ UNCHANGED <<feed, net, client, sess, view, past>>

-----------------------------------------------------------------------------
(* What the subscriber does with a message or a snapshot.  A fault stays until *)
(* a snapshot replaces the book.                                              *)

Faulty(v, m) ==
  CASE v.epoch \notin {0, m.epoch} -> "foreign"
    [] v.epoch \in {0, m.epoch} /\ m.seq > v.seq + 1 -> "hole"
    [] v.epoch \in {0, m.epoch} /\ m.seq <= v.seq -> "stale"
    [] OTHER -> "none"

Apply(v, m) ==
  LET fault == Faulty(v, m)
  IN [epoch |-> m.epoch, seq |-> IF fault = "stale" THEN v.seq ELSE m.seq,
      fault |-> IF v.fault # "none" THEN v.fault ELSE fault]

ApplyFrame(v, f) ==
  LET after[n \in 0..Len(f.msgs)] == IF n = 0 THEN v ELSE Apply(after[n - 1], f.msgs[n])
  IN IF f.snap THEN [epoch |-> f.epoch, seq |-> f.seq, fault |-> "none"] ELSE after[Len(f.msgs)]

-----------------------------------------------------------------------------
(* RecoveringMdSubscriber::recv, one pass of its loop after another: a pending *)
(* recovery is tried once, then a ready message is returned, else a datagram   *)
(* is observed.                                                              *)

MayGoOn == served \/ ~pend.active

\* The callbacks of observe(), the epoch's before the gap's, and the depth check.
AfterObserve(r, m, restarted) ==
  LET started == [NoPending EXCEPT !.active = TRUE]
      p == IF restarted THEN [started EXCEPT !.snapshot = TRUE] ELSE pend
      q == IF r.gap = 0 THEN p ELSE [(IF p.active THEN p ELSE started) EXCEPT !.fromSeq = r.gap]
      deep == q.active /\ m.seq > q.fromSeq /\ m.seq - q.fromSeq > Feed.maxGap
  IN [q EXCEPT !.snapshot = @ \/ deep]

Receive ==
  \E m \in DOMAIN net :
    /\ Udp /\ MayGoOn /\ ready = <<>> /\ net[m] > 0
    /\ net' = [net EXCEPT ![m] = @ - 1]
    /\ LET r == Observe(gd, m, Feed.maxHeld, Feed.reraise)
       IN /\ gd' = r.s
          /\ ready' = r.out
          /\ pend' = AfterObserve(r, m, Restarted(gd, m))
          /\ past' = [past EXCEPT !.abandoned = @ \/ r.abandoned]
    /\ served' = FALSE
    /\ UNCHANGED <<feed, pub, sess, view>>

\* No datagram in time; the pending recovery is tried again.
ReceiveTimeout ==
  /\ Udp /\ served /\ ready = <<>> /\ pend.active
  /\ served' = FALSE
  /\ UNCHANGED <<feed, pub, net, gd, pend, ready, sess, view, past>>

Surface ==
  /\ Udp /\ MayGoOn /\ ready # <<>>
  /\ view' = Apply(view, Head(ready))
  /\ ready' = Tail(ready)
  /\ served' = FALSE
  /\ UNCHANGED <<feed, pub, net, gd, pend, sess, past>>

Asked == ResendFrom(IF pend.snapshot THEN 0 ELSE pend.fromSeq)

\* The server cannot be reached, stalls, or a snapshot breaks off.
RecoveryFails ==
  /\ Udp /\ pend.active /\ ~served /\ past.fails < Feed.maxFails
  /\ LET over == pend.attempts + 1 >= Feed.maxAttempts
     IN /\ pend' = IF over THEN NoPending ELSE [pend EXCEPT !.attempts = @ + 1]
        /\ past' = [past EXCEPT !.fails = @ + 1, !.gaveUp = @ \/ over]
  /\ served' = TRUE
  /\ UNCHANGED <<feed, pub, net, gd, ready, sess, view>>

Overtakes == \E i \in DOMAIN ready : ready[i].epoch = Asked.epoch /\ ready[i].seq <= Asked.seq

\* onSnapshot runs here and now; the messages in ready_ surface behind it.
SnapshotRecovery ==
  /\ Udp /\ pend.active /\ ~served /\ Asked.snap
  /\ view' = ApplyFrame(view, Asked)
  /\ LET r == Reset(gd, Asked.epoch, Asked.seq + 1)
     IN gd' = r.s /\ ready' = ready \o r.out
  /\ pend' = NoPending /\ served' = TRUE
  /\ past' = [past EXCEPT !.overtaken = @ \/ Overtakes]
  /\ UNCHANGED <<feed, pub, net, sess>>

\* A replay goes through the detector with no callback but deliver.  A connection
\* that is closed early looks like its end, and like an empty replay when nothing
\* came, not even the announcement of a snapshot.
Woven(ms) ==
  LET at[n \in 0..Len(ms)] ==
        IF n = 0 THEN [s |-> gd, out |-> ready, abandoned |-> past.abandoned]
        ELSE LET a == at[n - 1]
                 r == Observe(a.s, ms[n], Feed.maxHeld, Feed.reraise)
             IN [s |-> r.s, out |-> a.out \o r.out, abandoned |-> a.abandoned \/ r.abandoned]
  IN at[Len(ms)]

ReplayRecovery ==
  /\ Udp /\ pend.active /\ ~served
  /\ \E n \in 0..Len(Asked.msgs) :
       LET cut == Asked.snap \/ n < Len(Asked.msgs)
           w == Woven(SubSeq(Asked.msgs, 1, n))
       IN /\ cut => past.fails < Feed.maxFails
          /\ gd' = w.s /\ ready' = w.out
          /\ past' = [past EXCEPT !.fails = IF cut THEN @ + 1 ELSE @, !.gaveUp = @ \/ cut,
                                  !.abandoned = w.abandoned]
  /\ pend' = NoPending /\ served' = TRUE
  /\ UNCHANGED <<feed, pub, net, sess, view>>

-----------------------------------------------------------------------------
(* The TCP session: the reader thread handles one request at a time, the       *)
(* writer thread one frame                                                    *)

\* A subscriber may ask for the book at any time and, on a new connection, for
\* what follows the last message it applied.
Subscribe ==
  /\ Tcp /\ sess.alive /\ sess.sub \in {"none", "armed"}
  /\ \E from \in {0, view.seq + 1}, once \in BOOLEAN :
       /\ from > 0 => past.fresh
       /\ sess' = Park(sess, from, once)
  /\ past' = [past EXCEPT !.fresh = FALSE]
  /\ UNCHANGED <<feed, pub, net, client, view>>

Unsubscribe ==
  /\ Tcp /\ sess.alive /\ sess.sub = "armed"
  /\ sess' = [sess EXCEPT !.sub = "none"]
  /\ UNCHANGED <<feed, pub, net, client, view, past>>

TakeAnswer ==
  /\ Tcp /\ sess.alive /\ sess.sub = "parked"
  /\ sess' = Take(sess, ResendFrom(sess.from))
  /\ UNCHANGED <<feed, pub, net, client, view, past>>

ArmSession ==
  /\ Tcp /\ sess.alive /\ sess.sub = "taken"
  /\ sess' = Arm(sess, Feed.queueCap)
  /\ UNCHANGED <<feed, pub, net, client, view, past>>

WriteFrame ==
  /\ Tcp /\ sess.alive /\ sess.queue # <<>>
  /\ view' = ApplyFrame(view, Head(sess.queue))
  /\ sess' = [sess EXCEPT !.queue = Tail(@)]
  /\ UNCHANGED <<feed, pub, net, client, past>>

\* The peer goes, or the write fails.
Disconnect ==
  /\ Tcp /\ sess.alive
  /\ sess' = Killed(sess)
  /\ UNCHANGED <<feed, pub, net, client, view, past>>

Reconnect ==
  /\ Tcp /\ ~sess.alive /\ past.connects < Feed.maxConnects
  /\ sess' = NewSession
  /\ past' = [past EXCEPT !.connects = @ + 1, !.fresh = TRUE]
  /\ UNCHANGED <<feed, pub, net, client, view>>

-----------------------------------------------------------------------------
Init ==
  /\ feed \in DOMAIN Feeds
  /\ pub = [epoch |-> 1, seq |-> 0]
  /\ net = [m \in {} |-> 0]
  /\ gd = NewStream /\ pend = NoPending /\ ready = <<>> /\ served = FALSE
  /\ sess = NewSession
  /\ view = [epoch |-> 0, seq |-> 0, fault |-> "none"]
  /\ past = [abandoned |-> FALSE, overtaken |-> FALSE, gaveUp |-> FALSE, fails |-> 0, connects |-> 0, fresh |-> TRUE]

Next ==
  \/ Emit \/ Restart
  \/ Receive \/ ReceiveTimeout \/ Surface
  \/ RecoveryFails \/ SnapshotRecovery \/ ReplayRecovery
  \/ Subscribe \/ Unsubscribe \/ TakeAnswer \/ ArmSession \/ WriteFrame
  \/ Disconnect \/ Reconnect

Spec == Init /\ [][Next]_vars

-----------------------------------------------------------------------------
(* Properties *)

\* The shape of the state.
TypeOK ==
  /\ feed \in DOMAIN Feeds
  /\ pub.epoch \in 1..Feed.maxEpoch /\ pub.seq \in 0..Feed.maxSeq
  /\ \A m \in DOMAIN net : net[m] \in 0..Feed.copies
  /\ gd.next \in 1..(Feed.maxSeq + 1) /\ gd.open = (gd.held # {})
  /\ \A m \in gd.held : m.seq > gd.next
  /\ Cardinality(gd.held) <= Feed.maxHeld
  /\ pend.active \in BOOLEAN /\ pend.attempts \in 0..(Feed.maxAttempts - 1)
  /\ view.fault \in {"none", "hole", "stale", "foreign"}

\* While the publisher lives, a subscriber's book is its book at an earlier moment:
\* nothing is applied twice, late or out of order, and nothing is left out, unless the
\* detector gave a gap up or a snapshot overtook messages already in ready_ ("strictly
\* in seq order, holes already recovered", docs/venue/market-data.md; "must neither
\* lose an increment nor let one jump ahead of the book it belongs to",
\* md_distribution.h).
BookIsAPrefix ==
  pub.epoch = 1 =>
    \/ view.fault = "none"
    \/ view.fault = "hole" /\ past.abandoned
    \/ view.fault = "stale" /\ past.overtaken

\* While the publisher lives, a gap the detector knows is being recovered, unless a
\* recovery was given up or cut short: then only further traffic reports it again.
GapIsPursued ==
  pub.epoch = 1 /\ gd.open => pend.active \/ past.gaveUp

\* No message surfaces behind a snapshot that already holds it ("the wrapper resumes
\* the incremental stream at begin.lastSeq + 1 afterwards", md_recovery.h).
\* Does not hold (README, section 4).
NeverStale == view.fault # "stale"
=============================================================================

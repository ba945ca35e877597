------------------------- MODULE CheckpointProtocol -------------------------
(***************************************************************************)
(* Who asks for a checkpoint, who takes it, and who waits for it.           *)
(*                                                                         *)
(* Shards may share one CheckpointLane (checkpoint_lane.h).  On each,       *)
(* four threads meet at two atomics and one future (sequenced_shard.h): the *)
(* sweeper asks automatically, checkpointNow asks by name and waits, the    *)
(* consumer takes the request at a command boundary, and a background task  *)
(* publishes the snapshot and hands the lane back.  What the snapshots hold *)
(* is the subject of SequencedShard.                                        *)
(***************************************************************************)
EXTENDS Naturals, FiniteSets

CONSTANTS
  Shards,       \* shards of the venue
  Laned,        \* those with a CheckpointLane: they share one
  Driven,       \* setOwnThreads(false): one driver steps and sweeps these
  Named,        \* shards whose operator calls checkpointNow
  Capacity,     \* slots of an ingress ring
  Threshold,    \* records after which a segment asks for a checkpoint
  MaxFailures   \* bound: cuts and publishes that fail in a behaviour

Nobody == "nobody"

ASSUME ProtocolAssumption ==
  /\ Nobody \notin Shards
  /\ Laned \subseteq Shards /\ Driven \subseteq Shards
  /\ Named \subseteq Shards \ Driven   \* flush() steps a driven shard itself
  /\ Capacity \in Nat \ {0} /\ Threshold \in Nat \ {0} /\ MaxFailures \in Nat

VARIABLES
  backlog,    \* commands in the ring, not yet consumed
  records,    \* journal_.count() of the open segment, up to Threshold
  requested,  \* checkpointRequested_
  mandatory,  \* checkpointMandatory_
  pc,         \* the consumer, inside onCommand
  named,      \* the consumer's copy of mandatory
  publish,    \* the background task: "none", "writing", "counted"
  holds,      \* calls of checkpointNow the snapshot in flight covers
  lane,       \* who holds the lane, or Nobody
  sweep,      \* the sweeper, inside sweepOnce
  now,        \* a call of checkpointNow
  driver,     \* what the shared driver is doing
  failures

vars == <<backlog, records, requested, mandatory, pc, named, publish, holds,
          lane, sweep, now, driver, failures>>

\* Where a consumer is inside onCommand ("out": it threw there, and the bus took it out
\* of service), and a background task in its publish.
Places == {"idle", "load", "clear", "take", "busy", "lane", "cut", "done", "out"}
PublishStates == {"none", "writing", "counted"}

Idle == [job |-> "idle", shard |-> Nobody]
At(job, s) == [job |-> job, shard |-> s]

\* What one call of checkpointNow knows and is told.
NoCall == [pc |-> "idle", ahead |-> 0, counted |-> FALSE, covered |-> FALSE, result |-> "none"]

Init ==
  /\ backlog = [s \in Shards |-> 0] /\ records = [s \in Shards |-> 0]
  /\ requested = [s \in Shards |-> FALSE] /\ mandatory = [s \in Shards |-> FALSE]
  /\ pc = [s \in Shards |-> "idle"] /\ named = [s \in Shards |-> FALSE]
  /\ publish = [s \in Shards |-> "none"] /\ holds = [s \in Shards |-> FALSE]
  /\ lane = Nobody
  /\ sweep = [s \in Shards |-> "idle"]
  /\ now = [s \in Shards |-> NoCall]
  /\ driver = Idle
  /\ failures = 0

\* The consumer of a shard, and its sweeper, run on threads of their own or
\* when the driver is at them.
Consuming(s) == s \notin Driven \/ driver = At("poll", s)
Sweeping(s) == s \notin Driven \/ driver = At("sweep", s)

\* A driven shard's turn is over.
TurnEnds(s) == driver' = IF s \in Driven THEN Idle ELSE driver

-----------------------------------------------------------------------------
(* Producers and the driver *)

\* submit() from a gateway: blocks while the ring is full.
Submit(s) ==
  /\ backlog[s] < Capacity
  /\ backlog' = [backlog EXCEPT ![s] = @ + 1]
  /\ UNCHANGED <<records, requested, mandatory, pc, named, publish, holds, lane,
                 sweep, now, driver, failures>>

\* A driver goes round its shards, polling and sweeping each.
DriverTurn(s) ==
  /\ s \in Driven /\ driver = Idle
  /\ \/ backlog[s] > 0 /\ pc[s] # "out" /\ driver' = At("poll", s)
     \/ driver' = At("sweep", s)
  /\ UNCHANGED <<backlog, records, requested, mandatory, pc, named, publish, holds,
                 lane, sweep, now, failures>>

-----------------------------------------------------------------------------
(* sweepOnce *)

\* The threshold is crossed and the exchange finds no request: ask.
SweepAsk(s) ==
  /\ Sweeping(s) /\ sweep[s] = "idle"
  /\ records[s] >= Threshold /\ ~requested[s]
  /\ requested' = [requested EXCEPT ![s] = TRUE]
  /\ sweep' = [sweep EXCEPT ![s] = "nudge"]
  /\ UNCHANGED <<backlog, records, mandatory, pc, named, publish, holds, lane, now,
                 driver, failures>>

\* No checkpoint to ask for.  Whether holds are open and the interval has
\* passed is the engine's and the clock's business: either may be.
SweepSkip(s) ==
  /\ Sweeping(s) /\ sweep[s] = "idle"
  /\ records[s] < Threshold \/ requested[s]
  /\ \/ sweep' = [sweep EXCEPT ![s] = "tick"] /\ UNCHANGED driver
     \/ UNCHANGED sweep /\ TurnEnds(s)
  /\ UNCHANGED <<backlog, records, requested, mandatory, pc, named, publish, holds,
                 lane, now, failures>>

\* The TimeTick goes through the ring, and waits for room in it.
Tick(s) ==
  /\ backlog[s] < Capacity
  /\ backlog' = [backlog EXCEPT ![s] = @ + 1]
  /\ UNCHANGED <<records, requested, mandatory, pc, named, publish, holds, lane, now,
                 failures>>

\* The checkpoint's tick; holds may want a second one.
SweepNudge(s) ==
  /\ Sweeping(s) /\ sweep[s] = "nudge" /\ Tick(s)
  /\ \/ sweep' = [sweep EXCEPT ![s] = "tick"] /\ UNCHANGED driver
     \/ sweep' = [sweep EXCEPT ![s] = "idle"] /\ TurnEnds(s)

\* The expiry's tick.
SweepTick(s) ==
  /\ Sweeping(s) /\ sweep[s] = "tick" /\ Tick(s)
  /\ sweep' = [sweep EXCEPT ![s] = "idle"]
  /\ TurnEnds(s)

-----------------------------------------------------------------------------
(* checkpointNow *)

Now(s, f) == now' = [now EXCEPT ![s] = f]
NowOnly == <<records, requested, mandatory, pc, named, publish, holds, lane, sweep,
             driver, failures>>

\* `before` is read, then flush() waits for what is in the ring.
NowBegin(s) ==
  /\ s \in Named /\ now[s].pc = "idle"
  /\ Now(s, [NoCall EXCEPT !.pc = "drain", !.ahead = backlog[s]])
  /\ UNCHANGED <<backlog, NowOnly>>

\* Mutant: the request goes out without the drain.
NowUndrained(s) ==
  /\ now[s].pc = "drain"
  /\ Now(s, [now[s] EXCEPT !.pc = "mandatory"])
  /\ UNCHANGED <<backlog, NowOnly>>

NowDrained(s) ==
  /\ now[s].pc = "drain" /\ now[s].ahead = 0
  /\ Now(s, [now[s] EXCEPT !.pc = "mandatory"])
  /\ UNCHANGED <<backlog, NowOnly>>

NowMandatory(s) ==
  /\ now[s].pc = "mandatory"
  /\ mandatory' = [mandatory EXCEPT ![s] = TRUE]
  /\ Now(s, [now[s] EXCEPT !.pc = "request"])
  /\ UNCHANGED <<backlog, records, requested, pc, named, publish, holds, lane, sweep,
                 driver, failures>>

NowRequest(s) ==
  /\ now[s].pc = "request"
  /\ requested' = [requested EXCEPT ![s] = TRUE]
  /\ Now(s, [now[s] EXCEPT !.pc = "nudge"])
  /\ UNCHANGED <<backlog, records, mandatory, pc, named, publish, holds, lane, sweep,
                 driver, failures>>

\* The TimeTick, and the flush behind it.
NowNudge(s) ==
  /\ now[s].pc = "nudge" /\ backlog[s] < Capacity
  /\ backlog' = [backlog EXCEPT ![s] = @ + 1]
  /\ Now(s, [now[s] EXCEPT !.pc = "flush", !.ahead = backlog[s] + 1])
  /\ UNCHANGED NowOnly

\* Mutant: the call looks at whatever publish is in flight each time it looks.
NowWaitAny(s) ==
  /\ now[s].pc = "flush" /\ now[s].ahead = 0 /\ publish[s] = "none"
  /\ Now(s, [now[s] EXCEPT !.pc = "answer"])
  /\ UNCHANGED <<backlog, NowOnly>>

\* waitCheckpointPublish copies the future and waits for that one: a later
\* publish does not hold the call up.
NowWait(s) ==
  /\ now[s].pc = "flush" /\ now[s].ahead = 0
  /\ Now(s, [now[s] EXCEPT !.pc = IF publish[s] = "none" THEN "answer" ELSE "wait"])
  /\ UNCHANGED <<backlog, NowOnly>>

NowReturn(s) ==
  /\ now[s].pc = "answer"
  /\ Now(s, [now[s] EXCEPT !.pc = "idle", !.result = IF now[s].counted THEN "true" ELSE "false"])
  /\ UNCHANGED <<backlog, NowOnly>>

-----------------------------------------------------------------------------
(* The consumer, from onCommand to the end of its run *)

\* journal_.append and engine_.submit; the boundary follows.
Apply(s) ==
  /\ Consuming(s) /\ pc[s] = "idle" /\ backlog[s] > 0
  /\ records' = [records EXCEPT ![s] = IF @ < Threshold THEN @ + 1 ELSE @]
  /\ pc' = [pc EXCEPT ![s] = "load"]
  /\ UNCHANGED <<backlog, requested, mandatory, named, publish, holds, lane, sweep,
                 now, driver, failures>>

\* maybeCheckpoint: load, then clear, then take the mandatory flag with it.
LoadRequest(s) ==
  /\ pc[s] = "load"
  /\ pc' = [pc EXCEPT ![s] = IF requested[s] THEN "clear" ELSE "done"]
  /\ UNCHANGED <<backlog, records, requested, mandatory, named, publish, holds, lane,
                 sweep, now, driver, failures>>

\* Mutant: a request stays up until a checkpoint has been taken.
KeepRequest(s) ==
  /\ pc[s] = "clear"
  /\ pc' = [pc EXCEPT ![s] = "take"]
  /\ UNCHANGED <<backlog, records, requested, mandatory, named, publish, holds, lane,
                 sweep, now, driver, failures>>

ClearRequest(s) ==
  /\ pc[s] = "clear"
  /\ requested' = [requested EXCEPT ![s] = FALSE]
  /\ pc' = [pc EXCEPT ![s] = "take"]
  /\ UNCHANGED <<backlog, records, mandatory, named, publish, holds, lane, sweep, now,
                 driver, failures>>

TakeMandatory(s) ==
  /\ pc[s] = "take"
  /\ named' = [named EXCEPT ![s] = mandatory[s]]
  /\ mandatory' = [mandatory EXCEPT ![s] = FALSE]
  /\ pc' = [pc EXCEPT ![s] = "busy"]
  /\ UNCHANGED <<backlog, records, requested, publish, holds, lane, sweep, now, driver,
                 failures>>

\* doCheckpoint: a named one waits for the previous publish, an automatic one
\* skips ...
PreviousDone(s) ==
  /\ pc[s] = "busy"
  /\ \/ publish[s] = "none" /\ pc' = [pc EXCEPT ![s] = "lane"]
     \/ publish[s] # "none" /\ ~named[s] /\ pc' = [pc EXCEPT ![s] = "done"]
  /\ UNCHANGED <<backlog, records, requested, mandatory, named, publish, holds, lane,
                 sweep, now, driver, failures>>

\* Mutant: tryEnter stores instead of exchanging.
EnterLaneUnchecked(s) ==
  /\ pc[s] = "lane"
  /\ lane' = IF s \in Laned THEN s ELSE lane
  /\ pc' = [pc EXCEPT ![s] = "cut"]
  /\ UNCHANGED <<backlog, records, requested, mandatory, named, publish, holds, sweep,
                 now, driver, failures>>

\* ... and so with the lane, if there is one: enterBlocking spins, tryEnter
\* gives up.
EnterLane(s) ==
  /\ pc[s] = "lane"
  /\ \/ s \notin Laned /\ UNCHANGED lane /\ pc' = [pc EXCEPT ![s] = "cut"]
     \/ s \in Laned /\ lane = Nobody /\ lane' = s /\ pc' = [pc EXCEPT ![s] = "cut"]
     \/ /\ s \in Laned /\ lane # Nobody /\ ~named[s]
        /\ UNCHANGED lane /\ pc' = [pc EXCEPT ![s] = "done"]
  /\ UNCHANGED <<backlog, records, requested, mandatory, named, publish, holds, sweep,
                 now, driver, failures>>

\* Clone, rotate, spawn the background task.  The cut covers the call in
\* progress if everything submitted before the call has been applied.
Cut(s) ==
  /\ pc[s] = "cut"
  /\ records' = [records EXCEPT ![s] = 0]
  /\ publish' = [publish EXCEPT ![s] = "writing"]
  /\ holds' = [holds EXCEPT ![s] = /\ now[s].pc # "idle"
                                      /\ now[s].pc # "flush" => now[s].ahead <= 1]
  /\ pc' = [pc EXCEPT ![s] = "done"]
  /\ UNCHANGED <<backlog, requested, mandatory, named, lane, sweep, now, driver, failures>>

\* The clone, the new segment or the hook throws.  The task that would give the lane
\* back is not spawned; the bus catches the exception and takes the consumer out of
\* service with its command unconsumed.
CutThrows(s) ==
  /\ pc[s] = "cut" /\ failures < MaxFailures
  /\ pc' = [pc EXCEPT ![s] = "out"]
  /\ records' \in {records, [records EXCEPT ![s] = 0]}
  /\ failures' = failures + 1
  /\ TurnEnds(s)
  /\ UNCHANGED <<backlog, requested, mandatory, named, publish, holds, lane, sweep, now>>

\* The slot is consumed: the sequence moves on and flush() may see it.
Consumed(s) ==
  /\ pc[s] = "done"
  /\ pc' = [pc EXCEPT ![s] = "idle"]
  /\ named' = [named EXCEPT ![s] = FALSE]
  /\ backlog' = [backlog EXCEPT ![s] = @ - 1]
  /\ now' = [now EXCEPT ![s].ahead = IF @ > 0 THEN @ - 1 ELSE 0]
  /\ TurnEnds(s)
  /\ UNCHANGED <<records, requested, mandatory, publish, holds, lane, sweep, failures>>

-----------------------------------------------------------------------------
(* The background task *)

\* Written, renamed, pruned, counted.
Published(s) ==
  /\ publish[s] = "writing"
  /\ publish' = [publish EXCEPT ![s] = "counted"]
  /\ now' = [now EXCEPT ![s].counted = @ \/ now[s].pc # "idle",
                        ![s].covered = @ \/ holds[s]]
  /\ UNCHANGED <<backlog, records, requested, mandatory, pc, named, holds, lane, sweep,
                 driver, failures>>

\* notePublishFailure: no snapshot, no count.
PublishFails(s) ==
  /\ publish[s] = "writing" /\ failures < MaxFailures
  /\ publish' = [publish EXCEPT ![s] = "counted"]
  /\ failures' = failures + 1
  /\ UNCHANGED <<backlog, records, requested, mandatory, pc, named, holds, lane, sweep,
                 now, driver>>

\* The LaneGuard lets go and the future becomes ready.
Leave(s) ==
  /\ publish[s] = "counted"
  /\ lane' = IF s \in Laned THEN Nobody ELSE lane
  /\ publish' = [publish EXCEPT ![s] = "none"]
  /\ holds' = [holds EXCEPT ![s] = FALSE]
  /\ now' = [now EXCEPT ![s].pc = IF @ = "wait" THEN "answer" ELSE @]
  /\ UNCHANGED <<backlog, records, requested, mandatory, pc, named, sweep, driver, failures>>

-----------------------------------------------------------------------------
Consumer(s) ==
  \/ Apply(s) \/ LoadRequest(s) \/ ClearRequest(s) \/ TakeMandatory(s)
  \/ PreviousDone(s) \/ EnterLane(s) \/ Cut(s) \/ CutThrows(s) \/ Consumed(s)

Sweeper(s) == SweepAsk(s) \/ SweepSkip(s) \/ SweepNudge(s) \/ SweepTick(s)

Caller(s) == NowDrained(s) \/ NowMandatory(s) \/ NowRequest(s) \/ NowNudge(s)
             \/ NowWait(s) \/ NowReturn(s)

Task(s) == Published(s) \/ PublishFails(s) \/ Leave(s)

Next ==
  \E s \in Shards :
    \/ Submit(s) \/ DriverTurn(s) \/ NowBegin(s)
    \/ Consumer(s) \/ Sweeper(s) \/ Caller(s) \/ Task(s)

Spec == Init /\ [][Next]_vars

\* Threads that can run do; the CAS of the lane is won in the end by a thread
\* that keeps trying, and a producer that keeps finding room gets its slot.
\* Holds need never be open: nothing here relies on the expiry's tick.
Fairness ==
  \A s \in Shards :
    /\ WF_vars(Consumer(s)) /\ SF_vars(EnterLane(s))
    /\ WF_vars(SweepAsk(s)) /\ SF_vars(SweepNudge(s) \/ SweepTick(s))
    /\ WF_vars(Caller(s)) /\ SF_vars(NowNudge(s))
    /\ WF_vars(Published(s) \/ Leave(s))

FairSpec == Spec /\ Fairness

-----------------------------------------------------------------------------
(* Properties *)

CallPlaces == {"idle", "drain", "mandatory", "request", "nudge", "flush", "wait", "answer"}
Calls == [pc : CallPlaces, ahead : 0 .. Capacity, counted : BOOLEAN, covered : BOOLEAN,
          result : {"none", "true", "false"}]

\* The types of the flags, counters and program counters.
TypeOK ==
  /\ backlog \in [Shards -> 0 .. Capacity] /\ records \in [Shards -> 0 .. Threshold]
  /\ requested \in [Shards -> BOOLEAN] /\ mandatory \in [Shards -> BOOLEAN]
  /\ pc \in [Shards -> Places]
  /\ named \in [Shards -> BOOLEAN] /\ holds \in [Shards -> BOOLEAN]
  /\ publish \in [Shards -> PublishStates]
  /\ lane \in Shards \cup {Nobody}
  /\ sweep \in [Shards -> {"idle", "nudge", "tick"}]
  /\ now \in [Shards -> Calls]
  /\ driver \in {Idle} \cup [job : {"poll", "sweep"}, shard : Shards]
  /\ failures \in 0 .. MaxFailures

\* "Two shards sharing a driver never pause at the same time; at most one
\* snapshot per lane is being written" (checkpoint_lane.h): whoever is between
\* its cut and the end of its publish holds the lane.
OneCheckpointPerLane ==
  \A s \in Laned : pc[s] = "cut" \/ publish[s] # "none" => lane = s

\* "At most one background publish in flight" (doCheckpoint): a cut never finds
\* the previous snapshot of its shard still being written.
OnePublishInFlight == \A s \in Shards : pc[s] = "cut" => publish[s] = "none"

\* The invariant that makes both inductive: a shard asks for the lane only once its
\* previous publish is over, so what it gives back is its own.
LaneInv ==
  /\ pc \in [Shards -> Places] /\ publish \in [Shards -> PublishStates]
  /\ OneCheckpointPerLane
  /\ \A s \in Shards : pc[s] \in {"lane", "cut"} => publish[s] = "none"

\* checkpointNow "still returns true only once the new generation is on disk":
\* a call that answers true has a snapshot on disk that covers everything
\* submitted before the call.
TrueMeansCovered == \A s \in Shards : now[s].result = "true" => now[s].covered

\* Where no cut and no publish fails, checkpointNow never answers false: whichever boundary
\* consumes its request, and however the sweeper's request races it.
NowSucceeds == failures = 0 => \A s \in Shards : now[s].result # "false"

\* Where no cut and no publish fails, checkpointNow answers true, and truly.
NowTellsTheTruth == TrueMeansCovered /\ NowSucceeds

\* A consumer inside onCommand is at a command that is still in the ring.
AtACommand == \A s \in Shards : pc[s] # "idle" => backlog[s] > 0

\* The snapshot a call asked for: on disk and counted, or being written.
Served(s) == \/ now[s].counted /\ now[s].covered
             \/ publish[s] = "writing" /\ holds[s]

\* The request of a call on its way: the flag is up, or a boundary has taken it and
\* will not let go of it before the cut, or there is the snapshot.
OnItsWay(s) == mandatory[s] \/ (named[s] /\ pc[s] \in {"busy", "lane", "cut"}) \/ Served(s)

\* A boundary before the tick, or the tick's own, takes the flag: a raised flag has
\* its request beside it, and the command that is last before the flush ends has
\* looked at the request after it was raised.
FlagIsTaken(s) ==
  /\ now[s].pc \in {"nudge", "flush"} /\ mandatory[s] => requested[s] \/ pc[s] = "take"
  /\ now[s].pc = "flush" /\ mandatory[s] =>
       /\ now[s].ahead > 0
       /\ now[s].ahead = 1 => pc[s] \notin {"busy", "lane", "cut", "done"}

\* The invariant that makes NowTellsTheTruth inductive.
CallInv(s) ==
  /\ now[s].pc \in {"mandatory", "request", "nudge"} => now[s].ahead = 0
  /\ FlagIsTaken(s)
  /\ failures = 0 =>
       /\ now[s].pc \in {"request", "nudge", "flush"} => OnItsWay(s)
       /\ now[s].pc = "flush" /\ now[s].ahead = 0 => Served(s)
       /\ now[s].pc = "wait" => Served(s)
       /\ now[s].pc = "answer" => now[s].counted /\ now[s].covered
       /\ now[s].result # "false"
       /\ now[s].result = "true" => now[s].covered
NowInv == \A s \in Shards : CallInv(s)

\* A call of checkpointNow returns, whatever publishes fail and whichever requests it
\* overlaps (checkpointNow waits in flush and in waitCheckpointPublish).  Excepted: a cut
\* that threw.  Its shard consumes nothing more, and on a lane it leaves the lane taken
\* for good, where a call for another shard spins (README, section 4).
NowReturns ==
  \A s \in Named :
    now[s].pc # "idle" ~> now[s].pc = "idle" \/ \E t \in Shards : pc[t] = "out"

\* "The threshold that triggered it has not gone away, so the sweep asks again"
\* (doCheckpoint): a segment over its threshold is cut in the end, however often the
\* previous publish made the shard skip and whichever publishes fail.  Not said of a
\* shard on a lane, which the other shards may crowd out (checkpoint_lane.h, skipped()),
\* of a driven one, since a driver that sweeps a full ring waits for itself, nor of one
\* whose cut threw.
ThresholdIsHonoured ==
  \A s \in Shards \ (Driven \cup Laned) :
    records[s] >= Threshold ~> records[s] = 0 \/ pc[s] = "out"
=============================================================================

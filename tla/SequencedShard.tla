--------------------------- MODULE SequencedShard ---------------------------
(***************************************************************************)
(* One shard of the venue: the matching consumer of SequencedShard with    *)
(* its write-ahead Journal, its checkpoints and its recovery              *)
(* (sequenced_shard.h, journal.h, file_io.h).                              *)
(*                                                                         *)
(* A command is known by the timestamp the sequencer stamps on it, so a    *)
(* journal file is a sequence of timestamps and the state of the engine is *)
(* the sequence of the commands applied to it.  -t stands for the half of  *)
(* command t that an apply left behind when it threw, and TORN for the     *)
(* bytes of a record that are not all there.  File 0 is the pre-checkpoint *)
(* journal <base>; file t > 0 is the segment <base>.journal.<t>.           *)
(***************************************************************************)
EXTENDS Integers, Sequences, FiniteSets

CONSTANTS
  Deployments    \* the ways a shard may be set up and what may befall it, see below

FaultKinds == {"power", "torn", "write", "throw", "fsync", "publish", "rot"}

\* What a deployment settles: Journal::Sync, CheckpointConfig::retainGenerations,
\* the record threshold of a segment after its jitter cut, what the injected
\* TimeSource may answer, the kinds of fault that may strike, and, as bounds, the
\* commands submitted, the stops and crashes, and the other faults.
ASSUME ShardAssumption ==
  \A d \in Deployments :
    /\ d.mode \in {"Off", "Full", "Group"}
    /\ d.retain \in Int
    /\ d.segmentRecords \in Nat \ {0}
    /\ d.clock \subseteq Int
    /\ d.faults \subseteq FaultKinds
    /\ d.maxCommands \in Nat /\ d.maxCrashes \in Nat /\ d.maxFaults \in Nat

VARIABLES
  shard,      \* the deployment, fixed by the constructor
  \* what is on disk
  files,      \* name -> [recs, durable]: durable is the length an fsync has covered
  snaps,      \* boundary -> [st, at, ok]: a published snapshot; ok until it rots
  \* the shard's memory
  phase,      \* "down", "replay", "up" or "refused" (start() threw)
  eng,        \* commands applied to the engine, in order
  lastTs,     \* MatchingConsumer::lastTs_
  lastBatchTs, lastCheckpointTs,
  cur,        \* the file journal_ has open
  count,      \* journal_.count(): records since that file was opened
  staged,     \* events held until the barrier (Group)
  failed,     \* failed_
  backlog,    \* commands in the ingress ring
  batch,      \* a run has been delivered and onBatchEnd is still due (Group)
  pc,         \* where the consumer thread is
  requested, mandatory,   \* checkpointRequested_, checkpointMandatory_
  pub,        \* the background publish
  todo, rest, \* recovery: records of the open file, files still to replay
  \* history variables
  hist,       \* every command the journal accepted, from the empty venue on
  acked,      \* commands whose events this incarnation has published
  promised,   \* commands whose events an earlier incarnation published
  lossy,      \* the power went since the shard last served
  submitted, crashes, faults

disk == <<files, snaps>>
engine == <<eng, lastTs, lastBatchTs>>
journal == <<cur, count>>
requests == <<requested, mandatory>>
recovery == <<todo, rest>>
ghosts == <<hist, acked, promised, lossy>>
bounds == <<submitted, crashes, faults>>
vars == <<shard, files, snaps, phase, eng, lastTs, lastBatchTs, lastCheckpointTs, cur,
          count, staged, failed, backlog, batch, pc, requested, mandatory, pub,
          todo, rest, hist, acked, promised, lossy, submitted, crashes, faults>>

Mode == shard.mode
Retain == shard.retain
SegmentRecords == shard.segmentRecords
ClockReadings == shard.clock
Faults == shard.faults
MaxCommands == shard.maxCommands
MaxCrashes == shard.maxCrashes
MaxFaults == shard.maxFaults

TORN == 0
Group == Mode = "Group"
Segments == DOMAIN files \ {0}

\* A fault of kind k strikes in this step.
Strikes(k) == k \in Faults /\ faults < MaxFaults /\ faults' = faults + 1

Empty == [recs |-> <<>>, durable |-> 0]
Synced(f) == [recs |-> f.recs, durable |-> Len(f.recs)]
Written(f, r) == [recs |-> Append(f.recs, r), durable |-> f.durable]
Without(f, n) == [m \in DOMAIN f \ {n} |-> f[m]]
With(f, n, v) == [m \in DOMAIN f \cup {n} |-> IF m = n THEN v ELSE f[m]]

NoPub == [pc |-> "none", ts |-> 0, st |-> <<>>, at |-> 0, keep |-> 0, legacy |-> FALSE]

-----------------------------------------------------------------------------
(* A shard is constructed over an empty directory and not yet started.      *)
Init ==
  /\ shard \in Deployments
  /\ files = <<>> /\ snaps = <<>>
  /\ phase = "down"
  /\ eng = <<>> /\ lastTs = 0 /\ lastBatchTs = 0 /\ lastCheckpointTs = 0
  /\ cur = 0 /\ count = 0 /\ staged = <<>> /\ failed = FALSE
  /\ backlog = 0 /\ batch = FALSE /\ pc = "idle"
  /\ requested = FALSE /\ mandatory = FALSE /\ pub = NoPub
  /\ todo = <<>> /\ rest = {}
  /\ hist = <<>> /\ acked = {} /\ promised = {} /\ lossy = FALSE
  /\ submitted = 0 /\ crashes = 0 /\ faults = 0

-----------------------------------------------------------------------------
(* Producers *)

\* submit(): a failed shard rejects, any other publishes into the ring.
Submit ==
  /\ phase = "up" /\ ~failed /\ submitted < MaxCommands
  /\ submitted' = submitted + 1
  /\ backlog' = backlog + 1
  /\ UNCHANGED <<shard, disk, phase, engine, lastCheckpointTs, journal, staged, failed,
                 batch, pc, requests, pub, recovery, ghosts, crashes, faults>>

\* sweepOnce(), first arm: the segment crossed its threshold and nobody has
\* asked yet; the TimeTick nudge follows through the ring like any command.
Sweep ==
  /\ phase = "up" /\ count >= SegmentRecords /\ ~requested
  /\ requested' = TRUE
  /\ IF failed \/ submitted >= MaxCommands
       THEN UNCHANGED <<submitted, backlog>>
       ELSE submitted' = submitted + 1 /\ backlog' = backlog + 1
  /\ UNCHANGED <<shard, disk, phase, engine, lastCheckpointTs, journal, staged, failed,
                 batch, pc, mandatory, pub, recovery, ghosts, crashes, faults>>

\* checkpointNow(): drain, then ask for a checkpoint that may not be skipped,
\* then nudge.
RequestNow ==
  /\ phase = "up" /\ ~failed /\ backlog = 0 /\ pc = "idle" /\ ~batch
  /\ submitted < MaxCommands
  /\ requested' = TRUE /\ mandatory' = TRUE
  /\ submitted' = submitted + 1 /\ backlog' = backlog + 1
  /\ UNCHANGED <<shard, disk, phase, engine, lastCheckpointTs, journal, staged, failed,
                 batch, pc, pub, recovery, ghosts, crashes, faults>>

-----------------------------------------------------------------------------
(* The matching consumer *)

\* Strictly monotonic sequencer time, whatever the clock says.
NextTs(t) == IF t <= lastTs THEN lastTs + 1 ELSE t

\* The bus hands the next command to onCommand; the run it belongs to will end
\* in an onBatchEnd.
Deliver ==
  /\ phase = "up" /\ pc = "idle" /\ backlog > 0
  /\ backlog' = backlog - 1
  /\ batch' = Group

\* Journal::append: the record reaches the file, and the disk too under Full
\* -- unless the fsync fails, which nothing looks at.
Append_(t) ==
  /\ count' = count + 1
  /\ hist' = Append(hist, t)
  /\ \/ /\ Mode = "Full"
        /\ files' = [files EXCEPT ![cur] = Synced(Written(@, t))]
        /\ UNCHANGED faults
     \/ /\ Mode = "Full" => Strikes("fsync")
        /\ Mode # "Full" => UNCHANGED faults
        /\ files' = [files EXCEPT ![cur] = Written(@, t)]

\* onCommand up to and including the write-ahead record.
AppendCommand ==
  /\ ~failed /\ Deliver
  /\ \E clock \in ClockReadings :
       /\ lastTs' = NextTs(clock)
       /\ Append_(NextTs(clock))
  /\ pc' = "apply"
  /\ UNCHANGED <<shard, snaps, phase, eng, lastBatchTs, lastCheckpointTs, cur, staged,
                 failed, requests, pub, recovery, acked, promised, lossy,
                 submitted, crashes>>

\* The file refuses part of the record: append throws, onCommand catches, the
\* shard stops applying.  Part of the record stays in the file.
WriteFails ==
  /\ ~failed /\ Deliver
  /\ Strikes("write")
  /\ \E clock \in ClockReadings : lastTs' = NextTs(clock)
  /\ files' = [files EXCEPT ![cur] = Written(@, TORN)]
  /\ failed' = TRUE
  /\ UNCHANGED <<shard, snaps, phase, eng, lastBatchTs, lastCheckpointTs, journal, staged,
                 pc, requests, pub, recovery, ghosts, submitted, crashes>>

\* A failed shard drops what is still in the ring.
DropCommand ==
  /\ failed /\ Deliver
  /\ UNCHANGED <<shard, disk, phase, engine, lastCheckpointTs, journal, staged, failed,
                 pc, requests, pub, recovery, ghosts, bounds>>

\* Mutant: the sink forgets to stage.
EmitAtOnce(t) == acked' = acked \cup {t} /\ UNCHANGED staged

\* The event sink: held for the barrier under Group, published at once else.
Emit(t) ==
  IF Group THEN staged' = Append(staged, t) /\ UNCHANGED acked
           ELSE acked' = acked \cup {t} /\ UNCHANGED staged

\* engine_.submit returns: the rest of onCommand.
ApplyCommand ==
  /\ phase = "up" /\ pc = "apply"
  /\ eng' = Append(eng, lastTs)
  /\ Emit(lastTs)
  /\ lastBatchTs' = lastTs
  /\ pc' = IF Group THEN "idle" ELSE "boundary"
  /\ UNCHANGED <<shard, disk, phase, lastTs, lastCheckpointTs, journal, failed, backlog,
                 batch, requests, pub, recovery, hist, promised, lossy, bounds>>

\* engine_.submit throws part-way, before or after its events.
ApplyThrows ==
  /\ phase = "up" /\ pc = "apply"
  /\ Strikes("throw")
  /\ eng' = Append(eng, -lastTs)
  /\ Emit(lastTs) \/ UNCHANGED <<staged, acked>>
  /\ failed' = TRUE
  /\ pc' = "idle"
  /\ UNCHANGED <<shard, disk, phase, lastTs, lastBatchTs, lastCheckpointTs, journal,
                 backlog, batch, requests, pub, recovery, hist, promised, lossy,
                 submitted, crashes>>

\* syncFd on the open file: nothing looks at whether it failed.
Fsync ==
  \/ files' = [files EXCEPT ![cur] = Synced(@)] /\ UNCHANGED faults
  \/ files' = files /\ Strikes("fsync")

\* onBatchEnd: the barrier.
BatchSync ==
  /\ phase = "up" /\ pc = "idle" /\ batch
  /\ Fsync
  /\ pc' = "publish"
  /\ UNCHANGED <<shard, snaps, phase, engine, lastCheckpointTs, journal, staged, failed,
                 backlog, batch, requests, pub, recovery, ghosts, submitted, crashes>>

\* ... then the staged events leave one by one ...
PublishStaged ==
  /\ phase = "up" /\ pc = "publish" /\ staged # <<>>
  /\ acked' = acked \cup {Head(staged)}
  /\ staged' = Tail(staged)
  /\ UNCHANGED <<shard, disk, phase, engine, lastCheckpointTs, journal, failed, backlog,
                 batch, pc, requests, pub, recovery, hist, promised, lossy, bounds>>

\* ... and the batch is a command boundary once a command has been applied.
BatchDone ==
  /\ phase = "up" /\ pc = "publish" /\ staged = <<>>
  /\ batch' = FALSE
  /\ pc' = IF lastBatchTs # 0 THEN "boundary" ELSE "idle"
  /\ UNCHANGED <<shard, disk, phase, engine, lastCheckpointTs, journal, staged, failed,
                 backlog, requests, pub, recovery, ghosts, bounds>>

-----------------------------------------------------------------------------
(* Checkpoints: the consumer's half *)

\* maybeCheckpoint, and doCheckpoint up to the cut.  A named request waits for
\* the previous publish, an automatic one is skipped while it runs.
Boundary ==
  /\ phase = "up" /\ pc = "boundary"
  /\ \/ ~requested /\ pc' = "idle" /\ UNCHANGED requests
     \/ /\ requested
        /\ requested' = FALSE /\ mandatory' = FALSE
        /\ \/ lastBatchTs <= lastCheckpointTs /\ pc' = "idle"
           \/ lastBatchTs > lastCheckpointTs /\ pub.pc # "none" /\ ~mandatory /\ pc' = "idle"
           \/ lastBatchTs > lastCheckpointTs /\ pub.pc = "none" /\ pc' = "cut"
  /\ UNCHANGED <<shard, disk, phase, engine, lastCheckpointTs, journal, staged, failed,
                 backlog, batch, pub, recovery, ghosts, bounds>>

\* journal_.flush(): the old file is durable before the new one exists.
RotateFlush ==
  /\ phase = "up" /\ pc = "cut"
  /\ Fsync
  /\ pc' = "rotate"
  /\ UNCHANGED <<shard, snaps, phase, engine, lastCheckpointTs, journal, staged, failed,
                 backlog, batch, requests, pub, recovery, ghosts, submitted, crashes>>

\* reopen(Truncate) + syncDir, and the clone goes to the background.  A segment that cannot
\* be opened, or a clone or hook that throws, leaves doCheckpoint by an exception, and the
\* bus takes the consumer out of service (CheckpointProtocol, CutThrows): that is this step
\* never taken, with the directory as RotateFlush left it, or this step with nothing of the
\* publish behind it, and either may be followed by a stop or a crash here too.
RotateReopen ==
  /\ phase = "up" /\ pc = "rotate"
  /\ files' = With(files, lastBatchTs, Empty)
  /\ cur' = lastBatchTs /\ count' = 0
  /\ lastCheckpointTs' = lastBatchTs
  /\ pub' = [NoPub EXCEPT !.pc = "write", !.ts = lastBatchTs, !.st = eng, !.at = lastTs]
  /\ pc' = "idle"
  /\ UNCHANGED <<shard, snaps, phase, engine, staged, failed, backlog, batch, requests,
                 recovery, ghosts, bounds>>

-----------------------------------------------------------------------------
(* Checkpoints: the background publish *)

Publisher == <<shard, phase, engine, lastCheckpointTs, journal, staged, failed, backlog,
               batch, pc, requests, recovery, ghosts, submitted, crashes>>

\* Staging file written and fsynced; nothing a recovery would look at.
PubWrite ==
  /\ phase = "up" /\ pub.pc = "write"
  /\ pub' = [pub EXCEPT !.pc = "rename"]
  /\ UNCHANGED <<disk, faults, Publisher>>

\* Writing or renaming fails: notePublishFailure, no snapshot.
PubFails ==
  /\ phase = "up" /\ pub.pc \in {"write", "rename"}
  /\ Strikes("publish")
  /\ pub' = NoPub
  /\ UNCHANGED <<disk, Publisher>>

\* Mutant: the background thread reads the live engine.
SerializedLive == [st |-> eng, at |-> lastTs, ok |-> TRUE]

\* writeSnapshot serializes the clone the consumer took, not the live engine.
Serialized == [st |-> pub.st, at |-> pub.at, ok |-> TRUE]

\* The snapshot appears whole, by rename.
PubRename ==
  /\ phase = "up" /\ pub.pc = "rename"
  /\ snaps' = With(snaps, pub.ts, Serialized)
  /\ pub' = [pub EXCEPT !.pc = "scan"]
  /\ UNCHANGED <<files, faults, Publisher>>

\* Mutant: one generation too few is kept.
RetainedOneLess == IF Retain < 2 THEN 1 ELSE Retain - 1

Retained == IF Retain < 1 THEN 1 ELSE Retain

\* pruneGenerations decides what goes: everything below the oldest of the
\* retained snapshots, and the pre-checkpoint file once enough of them exist.
PubScan ==
  /\ phase = "up" /\ pub.pc = "scan"
  /\ \/ /\ Cardinality(DOMAIN snaps) < Retained
        /\ pub' = [pub EXCEPT !.pc = "prune"]
     \/ /\ Cardinality(DOMAIN snaps) = Retained
        /\ pub' = [pub EXCEPT !.pc = "prune", !.legacy = TRUE]
     \/ /\ Cardinality(DOMAIN snaps) > Retained
        /\ \E k \in DOMAIN snaps :
             /\ Cardinality({s \in DOMAIN snaps : s >= k}) = Retained
             /\ pub' = [pub EXCEPT !.pc = "prune", !.keep = k, !.legacy = TRUE]
  /\ UNCHANGED <<disk, faults, Publisher>>

OldSnaps == {s \in DOMAIN snaps : s < pub.keep}
OldSegments == {s \in Segments : s < pub.keep}

\* Files go one at a time: snapshots oldest first, then segments, then <base>.
PruneSnapshot ==
  /\ phase = "up" /\ pub.pc = "prune"
  /\ \E s \in OldSnaps :
       /\ \A o \in OldSnaps : s <= o
       /\ snaps' = Without(snaps, s)
  /\ UNCHANGED <<files, pub, faults, Publisher>>

PruneSegment ==
  /\ phase = "up" /\ pub.pc = "prune" /\ OldSnaps = {}
  /\ \E s \in OldSegments :
       /\ \A o \in OldSegments : s <= o
       /\ files' = Without(files, s)
  /\ UNCHANGED <<snaps, pub, faults, Publisher>>

PruneLegacy ==
  /\ phase = "up" /\ pub.pc = "prune" /\ OldSnaps = {} /\ OldSegments = {}
  /\ files' = IF pub.legacy THEN Without(files, 0) ELSE files
  /\ pub' = NoPub   \* the count goes up and the future becomes ready
  /\ UNCHANGED <<snaps, faults, Publisher>>

-----------------------------------------------------------------------------
(* Stopping, crashing, recovering *)

\* Whatever the process held is gone; what clients were told stays said.
MemoryLost ==
  /\ phase' = "down"
  /\ eng' = <<>> /\ lastTs' = 0 /\ lastBatchTs' = 0 /\ lastCheckpointTs' = 0
  /\ count' = 0 /\ staged' = <<>> /\ failed' = FALSE
  /\ backlog' = 0 /\ batch' = FALSE /\ pc' = "idle"
  /\ requested' = FALSE /\ mandatory' = FALSE /\ pub' = NoPub
  /\ todo' = <<>> /\ rest' = {}
  /\ promised' = promised \cup acked /\ acked' = {}
  /\ crashes' = crashes + 1
  /\ UNCHANGED <<shard, cur, hist, submitted>>

\* stop(): drained, published, fsynced.
Stop ==
  /\ phase = "up" /\ crashes < MaxCrashes
  /\ backlog = 0 /\ pc = "idle" /\ ~batch /\ pub.pc = "none"
  /\ files' = [files EXCEPT ![cur] = Synced(@)]
  /\ MemoryLost
  /\ UNCHANGED <<snaps, lossy, faults>>

\* An append may be caught in the middle of its write.
InFlight == phase = "up" /\ pc = "idle" /\ ~failed /\ backlog > 0

\* The process is killed: the page cache survives.
Kill ==
  /\ phase \in {"up", "replay"} /\ crashes < MaxCrashes
  /\ \/ UNCHANGED <<files, faults>>
     \/ /\ InFlight /\ Strikes("torn")
        /\ files' = [files EXCEPT ![cur] = Written(@, TORN)]
     \/ /\ pc = "rotate" /\ Strikes("torn")   \* inside reserveFirstBlock
        /\ files' = With(files, lastBatchTs, Synced(Written(Empty, TORN)))
  /\ MemoryLost
  /\ UNCHANGED <<snaps, lossy>>

\* The power goes: any part of the unsynced tail may be missing, and its last
\* record may be cut.
PowerLoss ==
  /\ "power" \in Faults
  /\ phase \in {"down", "up", "replay"} /\ crashes < MaxCrashes
  /\ cur \in DOMAIN files
  /\ \E k \in files[cur].durable .. Len(files[cur].recs) :
       LET left == [recs |-> SubSeq(files[cur].recs, 1, k), durable |-> k]
       IN \/ files' = [files EXCEPT ![cur] = left] /\ UNCHANGED faults
          \/ /\ k < Len(files[cur].recs) \/ InFlight
             /\ Strikes("torn")
             /\ files' = [files EXCEPT ![cur] = Synced(Written(left, TORN))]
  /\ lossy' = TRUE
  /\ MemoryLost
  /\ UNCHANGED snaps

\* A published snapshot stops validating (bit rot, a foreign format).
Rot ==
  /\ phase = "down" /\ Strikes("rot")
  /\ \E s \in DOMAIN snaps :
       /\ snaps[s].ok
       /\ snaps' = [snaps EXCEPT ![s].ok = FALSE]
  /\ UNCHANGED <<shard, files, phase, engine, lastCheckpointTs, journal, staged, failed,
                 backlog, batch, pc, requests, pub, recovery, ghosts, submitted, crashes>>

Valid == {s \in DOMAIN snaps : snaps[s].ok}

\* Mutant: the segment of the snapshot itself is left out.
TailSegmentsStrict(c) == {f \in Segments : f > c}

\* The segments recovery replays after snapshot c.
TailSegments(c) == {f \in Segments : f >= c}

\* The constructor opens the newest segment, or creates <base> when there is
\* none; start() then picks the newest snapshot that validates, or the whole
\* history, or refuses.
StartRecovery ==
  /\ phase = "down"
  /\ files' = IF Segments = {} /\ 0 \notin DOMAIN files THEN With(files, 0, Empty) ELSE files
  /\ \E c \in Valid \cup {0} :
       /\ \A v \in Valid : v <= c
       /\ c = 0 => Valid = {}
       /\ lastCheckpointTs' = c
       /\ eng' = IF c = 0 THEN <<>> ELSE snaps[c].st
       /\ lastTs' = IF c = 0 THEN 0 ELSE snaps[c].at
       /\ rest' = IF c = 0 THEN DOMAIN files' ELSE TailSegments(c)
       /\ phase' = IF c = 0 /\ 0 \notin DOMAIN files' THEN "refused" ELSE "replay"
  /\ UNCHANGED <<shard, snaps, lastBatchTs, journal, staged, failed, backlog, batch, pc,
                 requests, pub, todo, ghosts, bounds>>

\* loadReported: the intact prefix of the next file.  A first record that does
\* not verify although bytes follow it refuses the file, unless those bytes
\* are too few to fill the extent it claims.
ReplayOpen ==
  /\ phase = "replay" /\ todo = <<>>
  /\ \E f \in rest :
       /\ \A g \in rest : f <= g
       /\ rest' = rest \ {f}
       /\ \E n \in 0 .. Len(files[f].recs) :
            /\ \A i \in 1 .. n : files[f].recs[i] # TORN
            /\ n < Len(files[f].recs) => files[f].recs[n + 1] = TORN
            /\ todo' = SubSeq(files[f].recs, 1, n)
            /\ \/ phase' = "replay"
               \/ n = 0 /\ Len(files[f].recs) > 1 /\ phase' = "refused"
  /\ UNCHANGED <<shard, disk, engine, lastCheckpointTs, journal, staged, failed, backlog,
                 batch, pc, requests, pub, ghosts, bounds>>

\* recover(): one record into the engine, its events suppressed.
ReplayRecord ==
  /\ phase = "replay" /\ todo # <<>>
  /\ eng' = Append(eng, Head(todo))
  /\ lastTs' = IF Head(todo) > lastTs THEN Head(todo) ELSE lastTs
  /\ todo' = Tail(todo)
  /\ UNCHANGED <<shard, disk, phase, lastBatchTs, lastCheckpointTs, journal, staged, failed,
                 backlog, batch, pc, requests, pub, rest, ghosts, bounds>>

\* The file the recovered shard appends to: the newest segment, or the one of
\* the snapshot when no segment is as new.
AppendTarget(n) == n >= lastCheckpointTs /\ \A f \in DOMAIN files : f <= n

\* The journal goes on in the newest segment of the recovered history, and the
\* shard serves.
FinishRecovery ==
  /\ phase = "replay" /\ todo = <<>> /\ rest = {}
  /\ \E n \in DOMAIN files \cup {lastCheckpointTs} :
       /\ AppendTarget(n)
       /\ cur' = n
       /\ files' = IF lastCheckpointTs = 0 THEN files
                   ELSE IF n \in DOMAIN files THEN [files EXCEPT ![n] = Synced(@)]
                   ELSE With(files, n, Empty)
  /\ phase' = "up"
  /\ hist' = eng
  /\ lossy' = FALSE
  /\ UNCHANGED <<shard, snaps, engine, lastCheckpointTs, count, staged, failed, backlog,
                 batch, pc, requests, pub, recovery, acked, promised, bounds>>

-----------------------------------------------------------------------------
Consumer ==
  \/ AppendCommand \/ WriteFails \/ DropCommand \/ ApplyCommand \/ ApplyThrows
  \/ BatchSync \/ PublishStaged \/ BatchDone
  \/ Boundary \/ RotateFlush \/ RotateReopen

Background ==
  \/ PubWrite \/ PubFails \/ PubRename \/ PubScan
  \/ PruneSnapshot \/ PruneSegment \/ PruneLegacy

Recovery == StartRecovery \/ ReplayOpen \/ ReplayRecord \/ FinishRecovery

Next ==
  \/ Submit \/ Sweep \/ RequestNow
  \/ Consumer \/ Background \/ Recovery
  \/ Stop \/ Kill \/ PowerLoss \/ Rot

Spec == Init /\ [][Next]_vars

-----------------------------------------------------------------------------
(* Properties *)

\* The records of a file, of the open file, that a power loss may take.
Unsynced(f) == {f.recs[i] : i \in f.durable + 1 .. Len(f.recs)}
Volatile == IF cur \in DOMAIN files THEN Unsynced(files[cur]) ELSE {}

File == [recs : Seq(Nat), durable : Nat]
Publish == [pc : {"none", "write", "rename", "scan", "prune"}, ts : Nat,
            st : Seq(Int), at : Nat, keep : Nat, legacy : BOOLEAN]

Snapshot == [st : Seq(Int), at : Nat, ok : BOOLEAN]

DiskType ==
  /\ files \in [DOMAIN files -> File] /\ DOMAIN files \subseteq Nat
  /\ snaps \in [DOMAIN snaps -> Snapshot] /\ DOMAIN snaps \subseteq Nat
  /\ pub \in Publish

FlagType ==
  /\ phase \in {"down", "replay", "up", "refused"}
  /\ pc \in {"idle", "apply", "publish", "boundary", "cut", "rotate"}
  /\ failed \in BOOLEAN /\ batch \in BOOLEAN /\ lossy \in BOOLEAN
  /\ requested \in BOOLEAN /\ mandatory \in BOOLEAN

SeqType ==
  /\ eng \in Seq(Int) /\ hist \in Seq(Int)
  /\ staged \in Seq(Nat) /\ todo \in Seq(Nat)
  /\ rest \subseteq Nat
  /\ phase = "replay" => rest \subseteq DOMAIN files

NumType ==
  /\ lastTs \in Nat /\ lastBatchTs \in Nat /\ lastCheckpointTs \in Nat
  /\ cur \in Nat /\ count \in Nat /\ backlog \in Nat
  /\ acked \subseteq Nat /\ promised \subseteq Nat
  /\ submitted \in Nat /\ crashes \in Nat /\ faults \in Nat

\* The types of everything a shard keeps on disk and in memory.
TypeOK == shard \in Deployments /\ DiskType /\ FlagType /\ SeqType /\ NumType

\* "An event is a promise, and a promise made before the record behind it is
\* durable is the promise this mode exists to keep" (the event sink): under
\* Full and Group no event that has been published rests on a record of the
\* open journal file that no fsync has covered yet.
NoAckedUnsynced ==
  Mode # "Off" /\ phase = "up" => Volatile \cap acked = {}

\* Rotation leaves nothing volatile behind: when the journal moves on to another
\* file, an fsync has covered every record of the one it leaves.
RotatesOffDurableFile ==
  [][phase = "up" /\ cur' # cur /\ cur \in DOMAIN files'
       => Unsynced(files'[cur]) = {}]_vars

\* A snapshot named s holds exactly the commands stamped up to s: what its tail
\* segments add to it neither repeats nor skips a command.
SnapshotHoldsItsBoundary ==
  \A s \in DOMAIN snaps :
    \A i \in 1 .. Len(hist) : hist[i] <= s <=> \E j \in 1 .. Len(snaps[s].st) : snaps[s].st[j] = hist[i]

\* Whatever happens to it, a shard finds a state it can start from: no crash
\* point inside rotation, publication or pruning leaves a directory that
\* recoverAll refuses.
NeverRefused == phase # "refused"

\* Hence, as long as fsync does what it reports, only the newest file on disk may
\* hold records no fsync covered, and a power loss can only shorten that one,
\* across any number of restarts.
OnlyNewestVolatile ==
  "fsync" \notin Faults =>
    \A f \in DOMAIN files :
      Unsynced(files[f]) # {} => \A g \in DOMAIN files : g <= f

\* "New records never land in a segment older than the snapshot they follow"
\* (recoverAll): a serving shard appends to the newest file on disk, and no
\* snapshot is newer than it.
AppendsToNewest ==
  phase = "up" =>
    /\ cur \in DOMAIN files
    /\ \A f \in DOMAIN files : f <= cur
    /\ \A s \in DOMAIN snaps : s <= cur

\* What is on disk can be recovered from: snapshots hold their boundary, only the
\* newest file is volatile, and it is the one appended to.
DirectoryIsSound == SnapshotHoldsItsBoundary /\ OnlyNewestVolatile /\ AppendsToNewest

Served == phase = "replay" /\ phase' = "up"

\* "Recovery either reconstructs history back to zero or refuses to start"
\* (verification.md): the state a restarted shard serves is a prefix of the
\* history its journal accepted, without a hole, a repetition or half a command.
RecoversAPrefix ==
  [][Served => /\ Len(eng') <= Len(hist)
               /\ \A i \in 1 .. Len(eng') : eng'[i] = hist[i]]_vars

\* A stop or a process crash loses nothing the journal accepted.
CrashLosesNothing == [][Served /\ ~lossy => Len(eng') >= Len(hist)]_vars

\* Every command whose event any incarnation published is in the state any
\* later incarnation serves.
PromisesSurvive ==
  [][Served => \A t \in promised : \E i \in 1 .. Len(eng') : eng'[i] = t]_vars

\* A restart serves what it should: a prefix of the accepted history, without loss
\* unless the power went, with every promise in it.  Excepted, since the deployment
\* whose records may be torn crashes once: a record torn in one crash, appended to after the restart, and met again by a second
\* restart, which stops at it and loses what lies behind (README, section 4).
RecoversFaithfully == RecoversAPrefix /\ CrashLosesNothing /\ PromisesSurvive

\* Why NoAckedUnsynced is kept: events leave only where the open file is
\* durable, and a record written later carries a later timestamp than every
\* event that has left.
BarrierInv ==
  /\ phase # "up" => acked = {} /\ staged = <<>> /\ pc = "idle"
  /\ \A t \in acked : 0 < t /\ t <= lastTs
  /\ \A i \in 1 .. Len(staged) : 0 < staged[i] /\ staged[i] <= lastTs
  /\ pc = "apply" => lastTs > 0
  /\ pc \in {"publish", "rotate"} => Volatile = {}
  /\ pc = "apply" /\ Mode = "Full" => Volatile = {}
  /\ NoAckedUnsynced
=============================================================================

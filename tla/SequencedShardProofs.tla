------------------------ MODULE SequencedShardProofs ------------------------
(* What TLAPS proves about SequencedShard, for every journal mode, every    *)
(* retention, every clock and every bound.                                  *)
EXTENDS SequencedShard, FiniteSetTheorems, SequenceTheorems, TLAPS

\* The operations on a journal file yield journal files.
LEMMA FileOps ==
  ASSUME NEW f \in File, NEW r \in Nat
  PROVE  /\ Synced(f) \in File
         /\ Written(f, r) \in File
         /\ Synced(Written(f, r)) \in File
         /\ Empty \in File
<1>1. Append(f.recs, r) \in Seq(Nat) /\ Len(Append(f.recs, r)) \in Nat
  BY DEF File
<1>2. <<>> \in Seq(Nat) /\ Len(f.recs) \in Nat
  BY DEF File
<1> QED
  BY <1>1, <1>2 DEF File, Synced, Written, Empty

\* Adding a name to a directory and removing one keep the types of its files.
LEMMA DirectoryOps ==
  ASSUME NEW S, NEW d, d \in [DOMAIN d -> S], DOMAIN d \subseteq Nat,
         NEW n \in Nat, NEW v \in S
  PROVE  /\ With(d, n, v) \in [DOMAIN With(d, n, v) -> S]
         /\ DOMAIN With(d, n, v) = DOMAIN d \cup {n}
         /\ DOMAIN With(d, n, v) \subseteq Nat
         /\ Without(d, n) \in [DOMAIN Without(d, n) -> S]
         /\ DOMAIN Without(d, n) = DOMAIN d \ {n}
         /\ DOMAIN Without(d, n) \subseteq Nat
BY DEF With, Without

\* NextTs is strictly monotonic, whatever the clock reads.
LEMMA NextTsAdvances ==
  ASSUME lastTs \in Nat, NEW t \in Int
  PROVE  NextTs(t) \in Nat /\ NextTs(t) > lastTs
BY DEF NextTs

\* The event sink stages or publishes, and never touches the other side.
LEMMA EmitType ==
  ASSUME staged \in Seq(Nat), acked \subseteq Nat, NEW t \in Nat, Emit(t)
  PROVE  staged' \in Seq(Nat) /\ acked' \subseteq Nat
<1>1. CASE Group
  <2>1. staged' = Append(staged, t) /\ acked' = acked
    BY <1>1 DEF Emit
  <2>2. Append(staged, t) \in Seq(Nat)
    OBVIOUS
  <2> QED
    BY <2>1, <2>2
<1>2. CASE ~Group
  BY <1>2 DEF Emit
<1> QED
  BY <1>1, <1>2

-----------------------------------------------------------------------------
(* Type correctness *)

\* A shard is what it was constructed as.
LEMMA DeploymentStep == [Next]_vars => shard' = shard
BY DEF Next, Consumer, Background, Recovery, vars, MemoryLost, Publisher,
   Submit, Sweep, RequestNow, AppendCommand, WriteFails, DropCommand, ApplyCommand,
   ApplyThrows, BatchSync, PublishStaged, BatchDone, Boundary, RotateFlush, RotateReopen,
   PubWrite, PubFails, PubRename, PubScan, PruneSnapshot, PruneSegment, PruneLegacy,
   StartRecovery, ReplayOpen, ReplayRecord, FinishRecovery, Stop, Kill, PowerLoss, Rot

\* What a deployment is assumed to be.
LEMMA DeploymentType ==
  ASSUME TypeOK
  PROVE  ClockReadings \subseteq Int /\ Mode \in {"Off", "Full", "Group"}
BY ShardAssumption DEF TypeOK, ClockReadings, Mode

\* The empty directory a shard is constructed over is well typed.
LEMMA InitType == Init => TypeOK
<1> SUFFICES ASSUME Init PROVE TypeOK
  OBVIOUS
<1>1. NoPub \in Publish
  BY DEF NoPub, Publish
<1>2. DiskType
  BY <1>1 DEF Init, DiskType
<1>3. FlagType
  BY DEF Init, FlagType
<1>4. SeqType
  BY DEF Init, SeqType
<1>5. NumType
  BY DEF Init, NumType
<1> QED
  BY <1>2, <1>3, <1>4, <1>5 DEF Init, TypeOK

\* Files, snapshots and the publish in flight keep their types.
LEMMA DiskStep == TypeOK /\ [Next]_vars => DiskType'
<1> SUFFICES ASSUME TypeOK, [Next]_vars PROVE DiskType'
  OBVIOUS
<1> USE DEF disk, engine, journal, requests, recovery, ghosts, bounds, Publisher
<1>n. NoPub \in Publish
  BY DEF NoPub, Publish
<1>e. Empty \in File
  BY DEF Empty, File
<1>f. /\ files \in [DOMAIN files -> File] /\ DOMAIN files \subseteq Nat
      /\ snaps \in [DOMAIN snaps -> Snapshot] /\ DOMAIN snaps \subseteq Nat
      /\ pub \in Publish
      /\ lastTs \in Nat /\ lastBatchTs \in Nat /\ lastCheckpointTs \in Nat
  BY DEF TypeOK, DiskType, NumType
<1>c. ClockReadings \subseteq Int
  BY DeploymentType
<1>1. CASE AppendCommand
  <2>1. PICK clock \in ClockReadings : lastTs' = NextTs(clock) /\ Append_(NextTs(clock))
    BY <1>1 DEF Deliver, AppendCommand
  <2>2. NextTs(clock) \in Nat
    BY <1>c, <1>f, NextTsAdvances
  <2>3. files' \in [DOMAIN files' -> File] /\ DOMAIN files' = DOMAIN files
    <3>1. CASE files' = [files EXCEPT ![cur] = Synced(Written(@, NextTs(clock)))]
      BY <1>f, <3>1, <2>2, FileOps
    <3>2. CASE files' = [files EXCEPT ![cur] = Written(@, NextTs(clock))]
      BY <1>f, <3>2, <2>2, FileOps
    <3> QED
      BY <2>1, <3>1, <3>2 DEF Append_
  <2> QED
    BY <1>1, <2>3, <1>f DEF Deliver, AppendCommand, DiskType
<1>2. CASE WriteFails
  BY <1>2, <1>f, FileOps DEF Deliver, WriteFails, TORN, DiskType
<1>3. CASE BatchSync
  <2>1. files' \in [DOMAIN files' -> File] /\ DOMAIN files' = DOMAIN files
    BY <1>3, <1>f, FileOps DEF Fsync, BatchSync
  <2> QED
    BY <1>3, <1>f, <1>n, <2>1 DEF Fsync, BatchSync, MemoryLost, DiskType
<1>4. CASE RotateFlush
  <2>1. files' \in [DOMAIN files' -> File] /\ DOMAIN files' = DOMAIN files
    BY <1>4, <1>f, FileOps DEF Fsync, RotateFlush
  <2> QED
    BY <1>4, <1>f, <1>n, <2>1 DEF Fsync, RotateFlush, MemoryLost, DiskType
<1>5. CASE Stop
  <2>1. files' \in [DOMAIN files' -> File] /\ DOMAIN files' = DOMAIN files
    BY <1>5, <1>f, FileOps DEF Stop
  <2> QED
    BY <1>5, <1>f, <1>n, <2>1 DEF Stop, MemoryLost, DiskType
<1>6. CASE RotateReopen
  <2>1. files' \in [DOMAIN files' -> File] /\ DOMAIN files' \subseteq Nat
    BY <1>6, <1>e, <1>f, DirectoryOps DEF RotateReopen
  <2>2. pub' \in Publish
    BY <1>6 DEF RotateReopen, NoPub, Publish, SeqType, NumType, TypeOK
  <2> QED
    BY <1>6, <1>f, <2>1, <2>2 DEF RotateReopen, DiskType
<1>7. CASE PubWrite
  BY <1>7, <1>f DEF PubWrite, Publish, DiskType
<1>8. CASE PubFails
  BY <1>8, <1>f, <1>n DEF PubFails, DiskType
<1>9. CASE PubRename
  <2>1. Serialized \in Snapshot /\ pub.ts \in Nat
    BY <1>f DEF Serialized, Publish, Snapshot
  <2>2. snaps' \in [DOMAIN snaps' -> Snapshot] /\ DOMAIN snaps' \subseteq Nat
    BY <1>9, <1>f, <2>1, DirectoryOps DEF Serialized, PubRename
  <2>3. pub' \in Publish
    BY <1>9, <1>f DEF Serialized, PubRename, Publish
  <2> QED
    BY <1>9, <1>f, <2>2, <2>3 DEF Serialized, PubRename, DiskType
<1>10. CASE PubScan
  <2>1. pub' \in Publish
    <3>1. CASE \/ pub' = [pub EXCEPT !.pc = "prune"]
               \/ pub' = [pub EXCEPT !.pc = "prune", !.legacy = TRUE]
      BY <1>f, <3>1 DEF Publish
    <3>2. ASSUME NEW k \in DOMAIN snaps,
                 pub' = [pub EXCEPT !.pc = "prune", !.keep = k, !.legacy = TRUE]
          PROVE  pub' \in Publish
      BY <1>f, <3>2 DEF Publish
    <3> QED
      BY <1>10, <3>1, <3>2 DEF PubScan
  <2> QED
    BY <1>10, <1>f, <2>1 DEF PubScan, DiskType
<1>11. CASE PruneSnapshot
  <2>1. PICK s \in OldSnaps : snaps' = Without(snaps, s)
    BY <1>11 DEF PruneSnapshot
  <2>2. snaps' \in [DOMAIN snaps' -> Snapshot] /\ DOMAIN snaps' \subseteq Nat
    BY <1>f, <2>1 DEF Without
  <2> QED
    BY <1>11, <1>f, <2>2 DEF PruneSnapshot, DiskType
<1>12. CASE PruneSegment
  <2>1. PICK s \in OldSegments : files' = Without(files, s)
    BY <1>12 DEF PruneSegment
  <2>2. files' \in [DOMAIN files' -> File] /\ DOMAIN files' \subseteq Nat
    BY <1>f, <2>1 DEF Without
  <2> QED
    BY <1>12, <1>f, <2>2 DEF PruneSegment, DiskType
<1>13. CASE PruneLegacy
  <2>1. files' \in [DOMAIN files' -> File] /\ DOMAIN files' \subseteq Nat
    BY <1>13, <1>f DEF PruneLegacy, Without
  <2> QED
    BY <1>13, <1>f, <1>n, <2>1 DEF PruneLegacy, DiskType
<1>14. CASE Kill
  <2>1. files' \in [DOMAIN files' -> File] /\ DOMAIN files' \subseteq Nat
    <3>1. CASE files' = files
      BY <3>1, <1>f
    <3>2. CASE files' = [files EXCEPT ![cur] = Written(@, TORN)]
      BY <3>2, <1>f, FileOps DEF TORN
    <3>3. CASE files' = With(files, lastBatchTs, Synced(Written(Empty, TORN)))
      <4>1. Synced(Written(Empty, TORN)) \in File
        BY <1>e, FileOps DEF TORN
      <4> QED
        BY <3>3, <4>1, <1>f, DirectoryOps
    <3> QED
      BY <1>14, <3>1, <3>2, <3>3 DEF Kill
  <2> QED
    BY <1>14, <1>f, <1>n, <2>1 DEF Kill, MemoryLost, DiskType
<1>15. CASE PowerLoss
  <2>1. PICK k \in files[cur].durable .. Len(files[cur].recs) :
          LET left == [recs |-> SubSeq(files[cur].recs, 1, k), durable |-> k]
          IN \/ files' = [files EXCEPT ![cur] = left]
             \/ files' = [files EXCEPT ![cur] = Synced(Written(left, TORN))]
    BY <1>15 DEF PowerLoss
  <2> DEFINE left == [recs |-> SubSeq(files[cur].recs, 1, k), durable |-> k]
  <2>2. cur \in DOMAIN files /\ files[cur] \in File
    BY <1>15, <1>f DEF PowerLoss
  <2>3. k \in Nat /\ SubSeq(files[cur].recs, 1, k) \in Seq(Nat)
    <3>1. files[cur].recs \in Seq(Nat) /\ Len(files[cur].recs) \in Nat /\ files[cur].durable \in Nat
      BY <2>2 DEF File
    <3>2. k \in Nat /\ k <= Len(files[cur].recs)
      BY <2>1, <3>1
    <3> QED
      BY <3>1, <3>2
  <2>4. left \in File
    BY <2>3 DEF File
  <2>5. Synced(Written(left, TORN)) \in File
    BY <2>4, FileOps DEF TORN
  <2>6. \/ files' = [files EXCEPT ![cur] = left]
        \/ files' = [files EXCEPT ![cur] = Synced(Written(left, TORN))]
    BY <2>1
  <2> HIDE DEF left
  <2>7. files' \in [DOMAIN files' -> File] /\ DOMAIN files' = DOMAIN files
    BY <2>6, <2>4, <2>5, <1>f
  <2> QED
    BY <1>15, <1>f, <1>n, <2>7 DEF PowerLoss, MemoryLost, DiskType
<1>16. CASE Rot
  <2>1. PICK s \in DOMAIN snaps : snaps' = [snaps EXCEPT ![s].ok = FALSE]
    BY <1>16 DEF Rot
  <2>2. [snaps[s] EXCEPT !.ok = FALSE] \in Snapshot
    BY <1>f DEF Snapshot
  <2>3. snaps' \in [DOMAIN snaps' -> Snapshot] /\ DOMAIN snaps' = DOMAIN snaps
    BY <1>f, <2>1, <2>2
  <2> QED
    BY <1>16, <1>f, <2>3 DEF Rot, DiskType
<1>17. CASE StartRecovery
  <2>1. files' \in [DOMAIN files' -> File] /\ DOMAIN files' \subseteq Nat
    <3>1. With(files, 0, Empty) \in [DOMAIN With(files, 0, Empty) -> File]
          /\ DOMAIN With(files, 0, Empty) \subseteq Nat
      BY <1>e, <1>f, DirectoryOps
    <3> QED
      BY <1>17, <1>f, <3>1 DEF StartRecovery
  <2> QED
    BY <1>17, <1>f, <2>1 DEF StartRecovery, DiskType
<1>18. CASE FinishRecovery
  <2>1. PICK n \in DOMAIN files \cup {lastCheckpointTs} :
          files' = IF lastCheckpointTs = 0 THEN files
                   ELSE IF n \in DOMAIN files THEN [files EXCEPT ![n] = Synced(@)]
                   ELSE With(files, n, Empty)
    BY <1>18 DEF FinishRecovery
  <2>2. n \in Nat
    BY <1>f
  <2>3. files' \in [DOMAIN files' -> File] /\ DOMAIN files' \subseteq Nat
    <3>1. With(files, n, Empty) \in [DOMAIN With(files, n, Empty) -> File]
          /\ DOMAIN With(files, n, Empty) \subseteq Nat
      BY <1>e, <1>f, <2>2, DirectoryOps
    <3>2. [files EXCEPT ![n] = Synced(@)] \in [DOMAIN files -> File]
      BY <1>f, FileOps
    <3> QED
      BY <2>1, <3>1, <3>2, <1>f
  <2> QED
    BY <1>18, <1>f, <2>3 DEF FinishRecovery, DiskType
<1>19. CASE Submit \/ Sweep \/ RequestNow \/ DropCommand \/ ApplyCommand
  BY <1>19 DEF Deliver, Submit, Sweep, RequestNow, DropCommand, ApplyCommand, DiskType, TypeOK
<1>20. CASE ApplyThrows \/ PublishStaged \/ BatchDone \/ Boundary \/ ReplayOpen
  BY <1>20 DEF ApplyThrows, PublishStaged, BatchDone, Boundary, ReplayOpen, DiskType, TypeOK
<1>21. CASE ReplayRecord
  BY <1>21 DEF ReplayRecord, DiskType, TypeOK
<1>22. CASE UNCHANGED vars
  BY <1>22 DEF vars, DiskType, TypeOK
<1> QED
  BY <1>1, <1>2, <1>3, <1>4, <1>5, <1>6, <1>7, <1>8, <1>9, <1>10, <1>11, <1>12, <1>13, <1>14, <1>15, <1>16, <1>17, <1>18, <1>19, <1>20, <1>21, <1>22 DEF Next, Consumer, Background, Recovery

\* Program counters and flags keep their types.
LEMMA FlagStep == TypeOK /\ [Next]_vars => FlagType'
<1> SUFFICES ASSUME TypeOK, [Next]_vars PROVE FlagType'
  OBVIOUS
<1> USE DEF disk, engine, journal, requests, recovery, ghosts, bounds, Publisher
<1>1. CASE AppendCommand
  <2>1. batch' \in BOOLEAN
    BY <1>1 DEF Deliver, AppendCommand, Group
  <2> QED
    BY <1>1, <2>1 DEF Deliver, AppendCommand, FlagType, TypeOK
<1>2. CASE WriteFails
  <2>1. batch' \in BOOLEAN
    BY <1>2 DEF Deliver, WriteFails, Group
  <2> QED
    BY <1>2, <2>1 DEF Deliver, WriteFails, FlagType, TypeOK
<1>3. CASE DropCommand
  <2>1. batch' \in BOOLEAN
    BY <1>3 DEF Deliver, DropCommand, Group
  <2> QED
    BY <1>3, <2>1 DEF Deliver, DropCommand, FlagType, TypeOK
<1>4. CASE StartRecovery
  <2>1. phase' \in {"replay", "refused"}
    BY <1>4 DEF StartRecovery
  <2> QED
    BY <1>4, <2>1 DEF StartRecovery, FlagType, TypeOK
<1>5. CASE Submit \/ Sweep \/ RequestNow \/ ApplyCommand \/ ApplyThrows
  BY <1>5 DEF Submit, Sweep, RequestNow, ApplyCommand, ApplyThrows, MemoryLost, FlagType, TypeOK
<1>6. CASE BatchSync \/ PublishStaged \/ BatchDone \/ Boundary \/ RotateFlush
  BY <1>6 DEF Fsync, BatchSync, PublishStaged, BatchDone, Boundary, RotateFlush, MemoryLost, FlagType, TypeOK
<1>7. CASE RotateReopen \/ PubWrite \/ PubFails \/ PubRename \/ PubScan
  BY <1>7, ZenonT(60) DEF Serialized, RotateReopen, PubWrite, PubFails, PubRename, PubScan, MemoryLost, FlagType, TypeOK
<1>8. CASE PruneSnapshot \/ PruneSegment \/ PruneLegacy \/ ReplayOpen \/ ReplayRecord
  BY <1>8 DEF PruneSnapshot, PruneSegment, PruneLegacy, ReplayOpen, ReplayRecord, MemoryLost, FlagType, TypeOK
<1>9. CASE FinishRecovery \/ Stop \/ Kill \/ PowerLoss \/ Rot
  BY <1>9 DEF FinishRecovery, Stop, Kill, PowerLoss, Rot, MemoryLost, FlagType, TypeOK
<1>10. CASE UNCHANGED vars
  BY <1>10 DEF vars, FlagType, TypeOK
<1> QED
  BY <1>1, <1>2, <1>3, <1>4, <1>5, <1>6, <1>7, <1>8, <1>9, <1>10 DEF Next, Consumer, Background, Recovery

\* The engine, the history and the recovery queue keep their types.
LEMMA SeqStep == TypeOK /\ [Next]_vars => SeqType'
<1> SUFFICES ASSUME TypeOK, [Next]_vars PROVE SeqType'
  OBVIOUS
<1> USE DEF disk, engine, journal, requests, recovery, ghosts, bounds, Publisher
<1>f. /\ eng \in Seq(Int) /\ hist \in Seq(Int) /\ staged \in Seq(Nat)
      /\ todo \in Seq(Nat) /\ rest \subseteq Nat /\ lastTs \in Nat
      /\ phase = "replay" => rest \subseteq DOMAIN files
      /\ acked \subseteq Nat
  BY DEF TypeOK, SeqType, NumType
<1>1. CASE AppendCommand
  <2>1. PICK clock \in ClockReadings : lastTs' = NextTs(clock) /\ Append_(NextTs(clock))
    BY <1>1 DEF Deliver, AppendCommand
  <2>2. NextTs(clock) \in Nat
    BY <2>1, <1>f, DeploymentType, NextTsAdvances
  <2>3. hist' \in Seq(Int)
    BY <2>1, <2>2, <1>f DEF Append_
  <2> QED
    BY <1>1, <2>3, <1>f DEF Deliver, AppendCommand, SeqType
<1>2. CASE ApplyCommand
  <2>1. eng' \in Seq(Int)
    BY <1>2, <1>f DEF ApplyCommand
  <2>2. staged' \in Seq(Nat)
    BY <1>2, <1>f, EmitType DEF ApplyCommand
  <2> QED
    BY <1>2, <2>1, <2>2, <1>f DEF ApplyCommand, SeqType
<1>3. CASE ApplyThrows
  <2>1. eng' \in Seq(Int)
    BY <1>3, <1>f DEF ApplyThrows
  <2>2. staged' \in Seq(Nat)
    BY <1>3, <1>f, EmitType DEF ApplyThrows
  <2> QED
    BY <1>3, <2>1, <2>2, <1>f DEF ApplyThrows, SeqType
<1>4. CASE StartRecovery
  <2>1. PICK c \in Valid \cup {0} :
          /\ eng' = IF c = 0 THEN <<>> ELSE snaps[c].st
          /\ rest' = IF c = 0 THEN DOMAIN files' ELSE TailSegments(c)
    BY <1>4 DEF StartRecovery
  <2>2. eng' \in Seq(Int)
    BY <2>1 DEF Valid, Snapshot, TypeOK, DiskType
  <2>3. DOMAIN files \subseteq DOMAIN files'
    BY <1>4 DEF StartRecovery, With
  <2>4. rest' \subseteq DOMAIN files' /\ DOMAIN files' \subseteq Nat
    BY <2>1, <2>3, DiskStep DEF Segments, TailSegments, DiskType
  <2> QED
    BY <1>4, <2>2, <2>4, <1>f DEF StartRecovery, SeqType
<1>5. CASE ReplayOpen
  <2>0. PICK f \in rest :
          /\ rest' = rest \ {f}
          /\ \E n \in 0 .. Len(files[f].recs) : todo' = SubSeq(files[f].recs, 1, n)
    BY <1>5 DEF ReplayOpen
  <2>1. PICK n \in 0 .. Len(files[f].recs) : todo' = SubSeq(files[f].recs, 1, n)
    BY <2>0
  <2>2. files[f] \in File
    BY <1>5, <1>f DEF ReplayOpen, TypeOK, DiskType
  <2>3. todo' \in Seq(Nat)
    <3>1. files[f].recs \in Seq(Nat) /\ Len(files[f].recs) \in Nat
      BY <2>2 DEF File
    <3> QED
      BY <2>1, <3>1, SMTT(40)
  <2> QED
    BY <1>5, <2>0, <2>3, <1>f DEF ReplayOpen, SeqType
<1>6. CASE ReplayRecord
  <2>1. Head(todo) \in Nat /\ Tail(todo) \in Seq(Nat)
    BY <1>6, <1>f DEF ReplayRecord
  <2>2. eng' \in Seq(Int)
    BY <1>6, <1>f, <2>1 DEF ReplayRecord
  <2> QED
    BY <1>6, <2>1, <2>2, <1>f DEF ReplayRecord, SeqType
<1>7. CASE Submit
  BY <1>7 DEF Submit, MemoryLost, SeqType, TypeOK
<1>8. CASE Sweep
  BY <1>8 DEF Sweep, MemoryLost, SeqType, TypeOK
<1>9. CASE RequestNow
  BY <1>9 DEF RequestNow, MemoryLost, SeqType, TypeOK
<1>10. CASE WriteFails
  BY <1>10 DEF Deliver, WriteFails, MemoryLost, SeqType, TypeOK
<1>11. CASE DropCommand
  BY <1>11 DEF Deliver, DropCommand, MemoryLost, SeqType, TypeOK
<1>12. CASE BatchSync
  BY <1>12 DEF Fsync, BatchSync, MemoryLost, SeqType, TypeOK
<1>13. CASE PublishStaged
  BY <1>13 DEF PublishStaged, MemoryLost, SeqType, TypeOK
<1>14. CASE BatchDone
  BY <1>14 DEF BatchDone, MemoryLost, SeqType, TypeOK
<1>15. CASE Boundary
  BY <1>15 DEF Boundary, MemoryLost, SeqType, TypeOK
<1>16. CASE RotateFlush
  BY <1>16 DEF Fsync, RotateFlush, MemoryLost, SeqType, TypeOK
<1>17. CASE RotateReopen
  BY <1>17 DEF RotateReopen, MemoryLost, SeqType, TypeOK
<1>18. CASE PubWrite
  BY <1>18 DEF PubWrite, MemoryLost, SeqType, TypeOK
<1>19. CASE PubFails
  BY <1>19 DEF PubFails, MemoryLost, SeqType, TypeOK
<1>20. CASE PubRename
  BY <1>20 DEF Serialized, PubRename, MemoryLost, SeqType, TypeOK
<1>21. CASE PubScan
  BY <1>21 DEF PubScan, MemoryLost, SeqType, TypeOK
<1>22. CASE PruneSnapshot
  BY <1>22 DEF PruneSnapshot, MemoryLost, SeqType, TypeOK
<1>23. CASE PruneSegment
  BY <1>23 DEF PruneSegment, MemoryLost, SeqType, TypeOK
<1>24. CASE PruneLegacy
  BY <1>24 DEF PruneLegacy, MemoryLost, SeqType, TypeOK
<1>25. CASE FinishRecovery
  BY <1>25 DEF FinishRecovery, MemoryLost, SeqType, TypeOK
<1>26. CASE Stop
  BY <1>26 DEF Stop, MemoryLost, SeqType, TypeOK
<1>27. CASE Kill
  BY <1>27 DEF Kill, MemoryLost, SeqType, TypeOK
<1>28. CASE PowerLoss
  BY <1>28 DEF PowerLoss, MemoryLost, SeqType, TypeOK
<1>29. CASE Rot
  BY <1>29 DEF Rot, MemoryLost, SeqType, TypeOK
<1>30. CASE UNCHANGED vars
  BY <1>30 DEF vars, SeqType, TypeOK
<1> QED
  BY <1>1, <1>2, <1>3, <1>4, <1>5, <1>6, <1>7, <1>8, <1>9, <1>10, <1>11, <1>12, <1>13, <1>14, <1>15, <1>16, <1>17, <1>18, <1>19, <1>20, <1>21, <1>22, <1>23, <1>24, <1>25, <1>26, <1>27, <1>28, <1>29, <1>30 DEF Next, Consumer, Background, Recovery

\* Timestamps, counters and the sets of acknowledged commands keep their types.
LEMMA NumStep == TypeOK /\ [Next]_vars => NumType'
<1> SUFFICES ASSUME TypeOK, [Next]_vars PROVE NumType'
  OBVIOUS
<1> USE DEF disk, engine, journal, requests, recovery, ghosts, bounds, Publisher
<1>1. CASE AppendCommand
  <2>1. PICK clock \in ClockReadings : lastTs' = NextTs(clock) /\ Append_(NextTs(clock))
    BY <1>1 DEF Deliver, AppendCommand
  <2>2. lastTs' \in Nat
    BY <2>1, DeploymentType, NextTsAdvances DEF TypeOK, NumType
  <2>3. count' \in Nat /\ faults' \in Nat
    BY <2>1 DEF Append_, Strikes, TypeOK, NumType
  <2> QED
    BY <1>1, <2>2, <2>3 DEF Deliver, AppendCommand, TypeOK, NumType
<1>2. CASE WriteFails
  <2>1. lastTs' \in Nat
    BY <1>2, DeploymentType, NextTsAdvances DEF Deliver, WriteFails, TypeOK, NumType
  <2> QED
    BY <1>2, <2>1 DEF Deliver, WriteFails, Strikes, TypeOK, NumType
<1>3. CASE ApplyCommand
  <2>1. acked' \subseteq Nat
    BY <1>3, EmitType DEF ApplyCommand, TypeOK, SeqType, NumType
  <2> QED
    BY <1>3, <2>1 DEF ApplyCommand, Strikes, TypeOK, NumType
<1>4. CASE ApplyThrows
  <2>1. acked' \subseteq Nat
    BY <1>4, EmitType DEF ApplyThrows, TypeOK, SeqType, NumType
  <2> QED
    BY <1>4, <2>1 DEF ApplyThrows, Strikes, TypeOK, NumType
<1>5. CASE PublishStaged
  <2>1. Head(staged) \in Nat
    BY <1>5 DEF PublishStaged, TypeOK, SeqType
  <2> QED
    BY <1>5, <2>1 DEF PublishStaged, TypeOK, NumType
<1>6. CASE StartRecovery
  <2>1. PICK c \in Valid \cup {0} :
          lastCheckpointTs' = c /\ lastTs' = IF c = 0 THEN 0 ELSE snaps[c].at
    BY <1>6 DEF StartRecovery
  <2>2. c \in Nat /\ lastTs' \in Nat
    BY <2>1 DEF Valid, Snapshot, TypeOK, DiskType
  <2> QED
    BY <1>6, <2>1, <2>2 DEF StartRecovery, TypeOK, NumType
<1>7. CASE ReplayRecord
  <2>1. Head(todo) \in Nat
    BY <1>7 DEF ReplayRecord, TypeOK, SeqType
  <2> QED
    BY <1>7, <2>1 DEF ReplayRecord, TypeOK, NumType
<1>8. CASE FinishRecovery
  <2>1. cur' \in Nat
    BY <1>8 DEF FinishRecovery, TypeOK, DiskType, NumType
  <2> QED
    BY <1>8, <2>1 DEF FinishRecovery, TypeOK, NumType
<1>9. CASE Submit
  BY <1>9 DEF Submit, MemoryLost, Emit, Strikes, Group, NumType, TypeOK
<1>10. CASE Sweep
  BY <1>10 DEF Sweep, MemoryLost, Emit, Strikes, Group, NumType, TypeOK
<1>11. CASE RequestNow
  BY <1>11 DEF RequestNow, MemoryLost, Emit, Strikes, Group, NumType, TypeOK
<1>12. CASE DropCommand
  BY <1>12 DEF Deliver, DropCommand, MemoryLost, Emit, Strikes, Group, NumType, TypeOK
<1>13. CASE BatchSync
  BY <1>13 DEF Fsync, BatchSync, MemoryLost, Emit, Strikes, Group, NumType, TypeOK
<1>14. CASE BatchDone
  BY <1>14 DEF BatchDone, MemoryLost, Emit, Strikes, Group, NumType, TypeOK
<1>15. CASE Boundary
  BY <1>15 DEF Boundary, MemoryLost, Emit, Strikes, Group, NumType, TypeOK
<1>16. CASE RotateFlush
  BY <1>16 DEF Fsync, RotateFlush, MemoryLost, Emit, Strikes, Group, NumType, TypeOK
<1>17. CASE RotateReopen
  BY <1>17 DEF RotateReopen, MemoryLost, Emit, Strikes, Group, NumType, TypeOK
<1>18. CASE PubWrite
  BY <1>18 DEF PubWrite, MemoryLost, Emit, Strikes, Group, NumType, TypeOK
<1>19. CASE PubFails
  BY <1>19 DEF PubFails, MemoryLost, Emit, Strikes, Group, NumType, TypeOK
<1>20. CASE PubRename
  BY <1>20 DEF Serialized, PubRename, MemoryLost, Emit, Strikes, Group, NumType, TypeOK
<1>21. CASE PubScan
  BY <1>21 DEF PubScan, MemoryLost, Emit, Strikes, Group, NumType, TypeOK
<1>22. CASE PruneSnapshot
  BY <1>22 DEF PruneSnapshot, MemoryLost, Emit, Strikes, Group, NumType, TypeOK
<1>23. CASE PruneSegment
  BY <1>23 DEF PruneSegment, MemoryLost, Emit, Strikes, Group, NumType, TypeOK
<1>24. CASE PruneLegacy
  BY <1>24 DEF PruneLegacy, MemoryLost, Emit, Strikes, Group, NumType, TypeOK
<1>25. CASE ReplayOpen
  BY <1>25 DEF ReplayOpen, MemoryLost, Emit, Strikes, Group, NumType, TypeOK
<1>26. CASE Stop
  BY <1>26 DEF Stop, MemoryLost, Emit, Strikes, Group, NumType, TypeOK
<1>27. CASE Kill
  BY <1>27 DEF Kill, MemoryLost, Emit, Strikes, Group, NumType, TypeOK
<1>28. CASE PowerLoss
  BY <1>28 DEF PowerLoss, MemoryLost, Emit, Strikes, Group, NumType, TypeOK
<1>29. CASE Rot
  BY <1>29 DEF Rot, MemoryLost, Emit, Strikes, Group, NumType, TypeOK
<1>30. CASE UNCHANGED vars
  BY <1>30 DEF vars, NumType, TypeOK
<1> QED
  BY <1>1, <1>2, <1>3, <1>4, <1>5, <1>6, <1>7, <1>8, <1>9, <1>10, <1>11, <1>12, <1>13, <1>14, <1>15, <1>16, <1>17, <1>18, <1>19, <1>20, <1>21, <1>22, <1>23, <1>24, <1>25, <1>26, <1>27, <1>28, <1>29, <1>30 DEF Next, Consumer, Background, Recovery

\* Type correctness of the whole shard.
THEOREM TypeCorrect == Spec => []TypeOK
<1>1. TypeOK /\ [Next]_vars => TypeOK'
  BY DeploymentStep, DiskStep, FlagStep, SeqStep, NumStep DEF TypeOK
<1> QED
  BY InitType, <1>1, PTL DEF Spec

-----------------------------------------------------------------------------
(* The durability barrier *)

\* An fsync leaves nothing volatile, a new file has nothing, and writing a
\* record makes at most that record volatile.
LEMMA UnsyncedOps ==
  ASSUME NEW f \in File, NEW r \in Nat
  PROVE  /\ Unsynced(Synced(f)) = {}
         /\ Unsynced(Empty) = {}
         /\ Unsynced(Written(f, r)) \subseteq Unsynced(f) \cup {r}
<1>1. f.recs \in Seq(Nat) /\ f.durable \in Nat /\ Len(f.recs) \in Nat
  BY DEF File
<1>2. Unsynced(Synced(f)) = {}
  BY <1>1 DEF Unsynced, Synced
<1>3. Unsynced(Empty) = {}
  BY DEF Unsynced, Empty
<1>4. Unsynced(Written(f, r)) \subseteq Unsynced(f) \cup {r}
  <2> SUFFICES ASSUME NEW i \in f.durable + 1 .. Len(Append(f.recs, r))
               PROVE  Append(f.recs, r)[i] \in Unsynced(f) \cup {r}
    BY DEF Unsynced, Written
  <2>1. CASE i = Len(f.recs) + 1
    BY <1>1, <2>1
  <2>2. CASE i # Len(f.recs) + 1
    <3>1. i \in f.durable + 1 .. Len(f.recs) /\ i \in 1 .. Len(f.recs)
      BY <1>1, <2>2
    <3>2. Append(f.recs, r)[i] = f.recs[i]
      BY <1>1, <3>1
    <3> QED
      BY <3>1, <3>2 DEF Unsynced
  <2> QED
    BY <2>1, <2>2
<1> QED
  BY <1>2, <1>3, <1>4

\* fsync does what it reports.
HonestFsync == \A d \in Deployments : "fsync" \notin d.faults

\* Nothing has been published by a shard that has not started.
LEMMA InitBarrier == Init => BarrierInv
BY DEF Init, BarrierInv, NoAckedUnsynced

\* Every step keeps the barrier, as long as fsync does what it reports.
LEMMA BarrierStep ==
  ASSUME HonestFsync
  PROVE  TypeOK /\ BarrierInv /\ [Next]_vars => BarrierInv'
<1> SUFFICES ASSUME TypeOK, BarrierInv, [Next]_vars PROVE BarrierInv'
  OBVIOUS
<1>h. "fsync" \notin Faults
  BY DEF HonestFsync, TypeOK, Faults
<1>m. Mode' = Mode
  BY DeploymentStep DEF Mode
<1> USE DEF disk, engine, journal, requests, recovery, ghosts, bounds, Publisher
<1>t. /\ files \in [DOMAIN files -> File] /\ lastTs \in Nat /\ lastBatchTs \in Nat
      /\ staged \in Seq(Nat) /\ acked \subseteq Nat
  BY DEF TypeOK, DiskType, SeqType, NumType
<1>b. BarrierInv
  OBVIOUS
<1>1. CASE Submit
  BY <1>m, <1>1, <1>b DEF Submit, BarrierInv, NoAckedUnsynced, Volatile
<1>2. CASE Sweep
  BY <1>m, <1>2, <1>b DEF Sweep, BarrierInv, NoAckedUnsynced, Volatile
<1>3. CASE RequestNow
  BY <1>m, <1>3, <1>b DEF RequestNow, BarrierInv, NoAckedUnsynced, Volatile
<1>4. CASE DropCommand
  BY <1>m, <1>4, <1>b DEF Deliver, DropCommand, BarrierInv, NoAckedUnsynced, Volatile
<1>5. CASE BatchDone
  BY <1>m, <1>5, <1>b DEF BatchDone, BarrierInv, NoAckedUnsynced, Volatile
<1>6. CASE Boundary
  BY <1>m, <1>6, <1>b DEF Boundary, BarrierInv, NoAckedUnsynced, Volatile
<1>7. CASE PubWrite
  BY <1>m, <1>7, <1>b DEF PubWrite, BarrierInv, NoAckedUnsynced, Volatile
<1>8. CASE PubFails
  BY <1>m, <1>8, <1>b DEF PubFails, BarrierInv, NoAckedUnsynced, Volatile
<1>9. CASE PubRename
  BY <1>m, <1>9, <1>b DEF Serialized, PubRename, BarrierInv, NoAckedUnsynced, Volatile
<1>10. CASE PubScan
  BY <1>m, <1>10, <1>b DEF PubScan, BarrierInv, NoAckedUnsynced, Volatile
<1>11. CASE PruneSnapshot
  BY <1>m, <1>11, <1>b DEF PruneSnapshot, BarrierInv, NoAckedUnsynced, Volatile
<1>12. CASE Stop
  BY <1>m, <1>12 DEF Stop, MemoryLost, BarrierInv, NoAckedUnsynced
<1>13. CASE Kill
  BY <1>m, <1>13 DEF Kill, MemoryLost, BarrierInv, NoAckedUnsynced
<1>14. CASE PowerLoss
  BY <1>m, <1>14 DEF PowerLoss, MemoryLost, BarrierInv, NoAckedUnsynced
<1>15. CASE Rot
  <2>1. acked = {} /\ staged = <<>> /\ pc = "idle"
    BY <1>m, <1>15, <1>b DEF Rot, BarrierInv
  <2> QED
    BY <1>m, <1>15, <2>1 DEF Rot, BarrierInv, NoAckedUnsynced
<1>16. CASE StartRecovery
  <2>1. acked = {} /\ staged = <<>> /\ pc = "idle"
    BY <1>m, <1>16, <1>b DEF StartRecovery, BarrierInv
  <2> QED
    BY <1>m, <1>16, <2>1 DEF StartRecovery, BarrierInv, NoAckedUnsynced
<1>17. CASE ReplayOpen
  <2>1. acked = {} /\ staged = <<>> /\ pc = "idle"
    BY <1>m, <1>17, <1>b DEF ReplayOpen, BarrierInv
  <2> QED
    BY <1>m, <1>17, <2>1 DEF ReplayOpen, BarrierInv, NoAckedUnsynced
<1>18. CASE ReplayRecord
  <2>1. acked = {} /\ staged = <<>> /\ pc = "idle"
    BY <1>m, <1>18, <1>b DEF ReplayRecord, BarrierInv
  <2> QED
    BY <1>m, <1>18, <2>1 DEF ReplayRecord, BarrierInv, NoAckedUnsynced
<1>19. CASE FinishRecovery
  <2>1. acked = {} /\ staged = <<>> /\ pc = "idle"
    BY <1>m, <1>19, <1>b DEF FinishRecovery, BarrierInv
  <2> QED
    BY <1>m, <1>19, <2>1 DEF FinishRecovery, BarrierInv, NoAckedUnsynced
<1>20. CASE AppendCommand
  <2>1. PICK clock \in ClockReadings : lastTs' = NextTs(clock) /\ Append_(NextTs(clock))
    BY <1>m, <1>20 DEF Deliver, AppendCommand
  <2> DEFINE t == NextTs(clock)
  <2>2. t \in Nat /\ t > lastTs
    BY <1>t, DeploymentType, NextTsAdvances
  <2>3. cur' = cur /\ acked' = acked /\ staged' = staged /\ phase' = "up" /\ phase = "up" /\ pc' = "apply"
    BY <1>m, <1>20 DEF Deliver, AppendCommand
  <2> HIDE DEF t
  <2>4. CASE Mode = "Full"
    <3>1. files' = [files EXCEPT ![cur] = Synced(Written(@, t))]
      BY <2>1, <2>4, <1>h DEF Append_, Strikes, t
    <3>2. Volatile' = {}
      BY <1>t, <2>2, <2>3, <3>1, FileOps, UnsyncedOps DEF Volatile
    <3> QED
      BY <1>m, <1>b, <1>t, <2>1, <2>2, <2>3, <3>2 DEF BarrierInv, NoAckedUnsynced, t
  <2>5. CASE Mode # "Full"
    <3>1. files' = [files EXCEPT ![cur] = Written(@, t)]
      BY <2>1, <2>5 DEF Append_, t
    <3>2. Volatile' \subseteq Volatile \cup {t}
      BY <1>t, <2>2, <2>3, <3>1, UnsyncedOps DEF Volatile
    <3>3. t \notin acked
      BY <1>m, <1>b, <1>t, <2>2 DEF BarrierInv
    <3>4. NoAckedUnsynced'
      BY <1>m, <1>b, <2>3, <3>2, <3>3 DEF BarrierInv, NoAckedUnsynced
    <3> QED
      BY <1>m, <1>b, <1>t, <2>1, <2>2, <2>3, <2>5, <3>4 DEF BarrierInv, t
  <2> QED
    BY <2>4, <2>5
<1>21. CASE WriteFails
  <2>1. PICK clock \in ClockReadings : lastTs' = NextTs(clock)
    BY <1>m, <1>21 DEF Deliver, WriteFails
  <2>2. lastTs' \in Nat /\ lastTs' > lastTs
    BY <1>t, <2>1, DeploymentType, NextTsAdvances
  <2>3. /\ cur' = cur /\ acked' = acked /\ staged' = staged /\ phase' = "up" /\ phase = "up"
        /\ pc' = "idle" /\ files' = [files EXCEPT ![cur] = Written(@, TORN)]
    BY <1>m, <1>21 DEF Deliver, WriteFails
  <2>4. Volatile' \subseteq Volatile \cup {TORN}
    BY <1>t, <2>3, UnsyncedOps DEF Volatile, TORN
  <2>5. TORN \notin acked
    BY <1>m, <1>b DEF BarrierInv, TORN
  <2>6. NoAckedUnsynced'
    BY <1>m, <1>b, <2>3, <2>4, <2>5 DEF BarrierInv, NoAckedUnsynced
  <2> QED
    BY <1>m, <1>b, <1>t, <2>2, <2>3, <2>6 DEF BarrierInv
<1>22. CASE ApplyCommand
  <2>1. /\ files' = files /\ cur' = cur /\ lastTs' = lastTs /\ phase' = "up" /\ phase = "up"
        /\ pc = "apply" /\ pc' \in {"idle", "boundary"} /\ lastTs > 0
        /\ Emit(lastTs) \/ (staged' = staged /\ acked' = acked)
    BY <1>m, <1>22, <1>b DEF ApplyCommand, BarrierInv
  <2>2. Volatile' = Volatile
    BY <2>1 DEF Volatile
  <2>3. CASE staged' = staged /\ acked' = acked
    BY <1>m, <1>b, <2>1, <2>2, <2>3 DEF BarrierInv, NoAckedUnsynced
  <2>4. CASE Emit(lastTs) /\ Group
    <3>1. staged' = Append(staged, lastTs) /\ acked' = acked
      BY <2>4 DEF Emit
    <3>2. \A i \in 1 .. Len(staged') : 0 < staged'[i] /\ staged'[i] <= lastTs
      BY <1>m, <1>b, <1>t, <2>1, <3>1 DEF BarrierInv
    <3> QED
      BY <1>m, <1>b, <2>1, <2>2, <3>1, <3>2 DEF BarrierInv, NoAckedUnsynced
  <2>5. CASE Emit(lastTs) /\ ~Group
    <3>1. staged' = staged /\ acked' = acked \cup {lastTs}
      BY <2>5 DEF Emit
    <3>2. Mode # "Off" => Volatile = {}
      BY <1>m, <1>b, <2>1, <2>5, DeploymentType DEF BarrierInv, Group
    <3> QED
      BY <1>m, <1>b, <1>t, <2>1, <2>2, <3>1, <3>2 DEF BarrierInv, NoAckedUnsynced
  <2> QED
    BY <2>1, <2>3, <2>4, <2>5
<1>23. CASE ApplyThrows
  <2>1. /\ files' = files /\ cur' = cur /\ lastTs' = lastTs /\ phase' = "up" /\ phase = "up"
        /\ pc = "apply" /\ pc' \in {"idle", "boundary"} /\ lastTs > 0
        /\ Emit(lastTs) \/ (staged' = staged /\ acked' = acked)
    BY <1>m, <1>23, <1>b DEF ApplyThrows, BarrierInv
  <2>2. Volatile' = Volatile
    BY <2>1 DEF Volatile
  <2>3. CASE staged' = staged /\ acked' = acked
    BY <1>m, <1>b, <2>1, <2>2, <2>3 DEF BarrierInv, NoAckedUnsynced
  <2>4. CASE Emit(lastTs) /\ Group
    <3>1. staged' = Append(staged, lastTs) /\ acked' = acked
      BY <2>4 DEF Emit
    <3>2. \A i \in 1 .. Len(staged') : 0 < staged'[i] /\ staged'[i] <= lastTs
      BY <1>m, <1>b, <1>t, <2>1, <3>1 DEF BarrierInv
    <3> QED
      BY <1>m, <1>b, <2>1, <2>2, <3>1, <3>2 DEF BarrierInv, NoAckedUnsynced
  <2>5. CASE Emit(lastTs) /\ ~Group
    <3>1. staged' = staged /\ acked' = acked \cup {lastTs}
      BY <2>5 DEF Emit
    <3>2. Mode # "Off" => Volatile = {}
      BY <1>m, <1>b, <2>1, <2>5, DeploymentType DEF BarrierInv, Group
    <3> QED
      BY <1>m, <1>b, <1>t, <2>1, <2>2, <3>1, <3>2 DEF BarrierInv, NoAckedUnsynced
  <2> QED
    BY <2>1, <2>3, <2>4, <2>5
<1>24. CASE BatchSync
  <2>1. /\ files' = [files EXCEPT ![cur] = Synced(@)] /\ cur' = cur /\ acked' = acked
        /\ staged' = staged /\ lastTs' = lastTs /\ phase' = "up" /\ phase = "up"
        /\ pc' \in {"publish", "rotate"}
    BY <1>h, <1>24 DEF Fsync, BatchSync, Strikes
  <2>2. Volatile' = {}
    BY <1>t, <2>1, UnsyncedOps DEF Volatile
  <2> QED
    BY <1>m, <1>b, <2>1, <2>2 DEF BarrierInv, NoAckedUnsynced
<1>25. CASE RotateFlush
  <2>1. /\ files' = [files EXCEPT ![cur] = Synced(@)] /\ cur' = cur /\ acked' = acked
        /\ staged' = staged /\ lastTs' = lastTs /\ phase' = "up" /\ phase = "up"
        /\ pc' \in {"publish", "rotate"}
    BY <1>h, <1>25 DEF Fsync, RotateFlush, Strikes
  <2>2. Volatile' = {}
    BY <1>t, <2>1, UnsyncedOps DEF Volatile
  <2> QED
    BY <1>m, <1>b, <2>1, <2>2 DEF BarrierInv, NoAckedUnsynced
<1>26. CASE PublishStaged
  <2>1. /\ files' = files /\ cur' = cur /\ lastTs' = lastTs /\ phase' = "up" /\ phase = "up"
        /\ pc' = "publish" /\ pc = "publish" /\ staged # <<>>
        /\ acked' = acked \cup {Head(staged)} /\ staged' = Tail(staged)
    BY <1>m, <1>26 DEF PublishStaged
  <2>2. Volatile' = {}
    BY <1>m, <1>b, <2>1 DEF BarrierInv, Volatile
  <2>3. 0 < Head(staged) /\ Head(staged) <= lastTs
    BY <1>m, <1>b, <1>t, <2>1 DEF BarrierInv
  <2>4. \A i \in 1 .. Len(Tail(staged)) : 0 < Tail(staged)[i] /\ Tail(staged)[i] <= lastTs
    <3>1. \A i \in 1 .. Len(Tail(staged)) :
            i + 1 \in 1 .. Len(staged) /\ Tail(staged)[i] = staged[i + 1]
      BY <1>t, <2>1
    <3> QED
      BY <1>m, <1>b, <3>1 DEF BarrierInv
  <2> QED
    BY <1>m, <1>b, <2>1, <2>2, <2>3, <2>4 DEF BarrierInv, NoAckedUnsynced
<1>27. CASE RotateReopen
  <2>1. /\ files' = With(files, lastBatchTs, Empty) /\ cur' = lastBatchTs /\ acked' = acked
        /\ staged' = staged /\ lastTs' = lastTs /\ phase' = "up" /\ phase = "up" /\ pc' = "idle"
    BY <1>m, <1>27 DEF RotateReopen
  <2>2. Unsynced(Empty) = {}
    BY DEF Unsynced, Empty
  <2>3. Volatile' = {}
    BY <2>1, <2>2 DEF Volatile, With
  <2> QED
    BY <1>m, <1>b, <2>1, <2>3 DEF BarrierInv, NoAckedUnsynced
<1>28. CASE PruneSegment
  <2>1. /\ cur' = cur /\ acked' = acked /\ staged' = staged /\ lastTs' = lastTs
        /\ phase' = "up" /\ phase = "up" /\ pc' = pc
        /\ files' = files \/ \E s \in Nat : files' = Without(files, s)
    BY <1>m, <1>28 DEF PruneSegment, OldSegments, Segments, TypeOK, DiskType
  <2>2. Volatile' \subseteq Volatile
    BY <2>1 DEF Volatile, Without
  <2> QED
    BY <1>m, <1>b, <2>1, <2>2 DEF BarrierInv, NoAckedUnsynced
<1>29. CASE PruneLegacy
  <2>1. /\ cur' = cur /\ acked' = acked /\ staged' = staged /\ lastTs' = lastTs
        /\ phase' = "up" /\ phase = "up" /\ pc' = pc
        /\ files' = files \/ \E s \in Nat : files' = Without(files, s)
    BY <1>m, <1>29 DEF PruneLegacy, OldSegments, Segments, TypeOK, DiskType
  <2>2. Volatile' \subseteq Volatile
    BY <2>1 DEF Volatile, Without
  <2> QED
    BY <1>m, <1>b, <2>1, <2>2 DEF BarrierInv, NoAckedUnsynced
<1>30. CASE UNCHANGED vars
  BY <1>m, <1>30, <1>b DEF vars, BarrierInv, NoAckedUnsynced, Volatile
<1> QED
  BY <1>1, <1>2, <1>3, <1>4, <1>5, <1>6, <1>7, <1>8, <1>9, <1>10, <1>11, <1>12, <1>13, <1>14, <1>15, <1>16, <1>17, <1>18, <1>19, <1>20, <1>21, <1>22, <1>23, <1>24, <1>25, <1>26, <1>27, <1>28, <1>29, <1>30 DEF Next, Consumer, Background, Recovery

\* Under Full and Group, whatever crashes and faults strike short of a lying
\* fsync, no published event ever rests on a volatile record.
THEOREM PublishedIsDurable ==
  ASSUME HonestFsync
  PROVE  Spec => []NoAckedUnsynced
<1>1. TypeOK /\ BarrierInv /\ [Next]_vars => BarrierInv'
  BY BarrierStep
<1>2. BarrierInv => NoAckedUnsynced
  BY DEF BarrierInv
<1> QED
  BY InitBarrier, TypeCorrect, <1>1, <1>2, PTL DEF Spec

\* A step that moves the journal to another file leaves a durable one behind.
LEMMA RotationStep ==
  ASSUME TypeOK, BarrierInv, [Next]_vars,
         phase = "up", cur' # cur, cur \in DOMAIN files'
  PROVE  Unsynced(files'[cur]) = {}
<1> USE DEF disk, engine, journal, requests, recovery, ghosts, bounds, Publisher
<1>1. RotateReopen
  BY DEF Next, Consumer, Background, Recovery, vars, MemoryLost,
     Submit, Sweep, RequestNow, AppendCommand, WriteFails, DropCommand, ApplyCommand,
     ApplyThrows, BatchSync, PublishStaged, BatchDone, Boundary, RotateFlush,
     PubWrite, PubFails, PubRename, PubScan, PruneSnapshot, PruneSegment, PruneLegacy,
     StartRecovery, ReplayOpen, ReplayRecord, FinishRecovery, Stop, Kill, PowerLoss, Rot
<1>2. Volatile = {}
  BY <1>1 DEF RotateReopen, BarrierInv
<1>3. cur \in DOMAIN files /\ files'[cur] = files[cur]
  BY <1>1 DEF RotateReopen, With
<1> QED
  BY <1>2, <1>3 DEF Volatile

\* Rotation never leaves a volatile record behind.
THEOREM RotationIsDurable ==
  ASSUME HonestFsync
  PROVE  Spec => RotatesOffDurableFile
<1>1. TypeOK /\ BarrierInv /\ [Next]_vars => BarrierInv'
  BY BarrierStep
<1>2. TypeOK /\ BarrierInv /\ [Next]_vars
        => [phase = "up" /\ cur' # cur /\ cur \in DOMAIN files' => Unsynced(files'[cur]) = {}]_vars
  BY RotationStep
<1> QED
  BY InitBarrier, TypeCorrect, <1>1, <1>2, PTL DEF Spec, RotatesOffDurableFile

-----------------------------------------------------------------------------
(***************************************************************************)
(* The directory a shard leaves behind and what a restart makes of it.     *)
(*                                                                         *)
(* The argument: every journal file is a stretch of the accepted history,  *)
(* which begins right behind the command the file is named after; the      *)
(* stretches of neighbouring files meet; a snapshot is the history up to   *)
(* the command it is named after.  So a snapshot and the files from its    *)
(* own on are the history up to the end of the newest file.                *)
(***************************************************************************)
(* The inductive invariant *)

\* Commands are stamped in strictly increasing order.
Increasing(h) ==
  \A i, j \in 1 .. Len(h) : 0 < h[i] /\ (i < j => h[i] < h[j])

\* The file named f goes on behind the b-th command of history h.
StartsAt(h, f, b) ==
  /\ b \in 0 .. Len(h)
  /\ f = 0 => b = 0
  /\ f # 0 => b # 0 /\ h[b] = f

Begin(h, f) == CHOOSE b \in 0 .. Len(h) : StartsAt(h, f, b)

PrefixOf(p, h) == Len(p) <= Len(h) /\ \A i \in 1 .. Len(p) : p[i] = h[i]

Covered(f) == files[f].durable = Len(files[f].recs)
EndOf(f) == Begin(hist, f) + Len(files[f].recs)
Newest(f) == \A g \in DOMAIN files : g <= f
Follows(f, g) == f < g /\ \A h \in DOMAIN files : h <= f \/ g <= h

\* Too few snapshots exist for anything to have been pruned.
Intact == Cardinality(DOMAIN snaps) < Retained

\* A file is a stretch of history, and durable unless it is the newest.
FileInv(f) ==
  /\ StartsAt(hist, f, Begin(hist, f))
  /\ EndOf(f) <= Len(hist)
  /\ \A j \in 1 .. Len(files[f].recs) : files[f].recs[j] = hist[Begin(hist, f) + j]
  /\ files[f].durable <= Len(files[f].recs)
  /\ "fsync" \notin Faults /\ ~Newest(f) => Covered(f)

\* Neighbouring files meet, unless the one is the pre-checkpoint file and pruning
\* has begun, and the newest one ends where history ends until the power goes.
ChainInv ==
  /\ \A f, g \in DOMAIN files : f < g => EndOf(f) <= Begin(hist, g)
  /\ \A f, g \in DOMAIN files : Follows(f, g) /\ (f # 0 \/ Intact) => EndOf(f) = Begin(hist, g)
  /\ \A f \in DOMAIN files : Newest(f) /\ ~lossy => EndOf(f) = Len(hist)

JournalInv ==
  /\ Increasing(hist)
  /\ \A f \in DOMAIN files : FileInv(f)
  /\ ChainInv
  /\ cur \in DOMAIN files => Newest(cur)
  /\ Intact => \/ 0 \in DOMAIN files
               \/ DOMAIN files = {} /\ hist = <<>> /\ phase = "down"
  /\ lossy => "power" \in Faults

\* A snapshot, or one on its way, is the history its own file goes on behind.
Image(s, st, at) ==
  /\ s \in DOMAIN files /\ s # 0 /\ at = s
  /\ Len(st) = Begin(hist, s) /\ PrefixOf(st, hist)

SnapsInv ==
  /\ IsFiniteSet(DOMAIN snaps)
  /\ \A s \in DOMAIN snaps : Image(s, snaps[s].st, snaps[s].at)

\* What a publish keeps is enough, whatever it still has to prune.
PubInv ==
  /\ pub.pc \in {"write", "rename"} => Image(pub.ts, pub.st, pub.at)
  /\ pub.pc # "prune" => pub.keep = 0 /\ ~pub.legacy
  /\ pub.keep # 0 => /\ pub.keep \in DOMAIN snaps
                     /\ Cardinality({s \in DOMAIN snaps : s >= pub.keep}) >= Retained
  /\ pub.legacy => ~Intact

\* Every snapshot that does not validate has cost a fault.
RotInv ==
  /\ faults <= MaxFaults
  /\ Cardinality(DOMAIN snaps \ Valid) <= faults
  /\ "rot" \notin Faults => Valid = DOMAIN snaps

AtBoundary == lastBatchTs = lastTs /\ hist # <<>> /\ hist[Len(hist)] = lastTs /\ cur < lastTs

\* A serving shard: its engine is its history, up to the command in hand or the
\* one it failed on.
ServingInv ==
  phase = "up" =>
    /\ cur \in DOMAIN files /\ ~lossy /\ cur <= lastTs
    /\ \A i \in 1 .. Len(hist) : hist[i] <= lastTs
    /\ pc = "apply" => ~failed /\ hist = Append(eng, lastTs) /\ cur < lastTs
    /\ pc # "apply" /\ ~failed => eng = hist
    /\ failed => pc = "idle" /\ ~Group
    /\ batch => Group /\ pc \notin {"boundary", "cut", "rotate"}
    /\ pc \in {"publish", "boundary", "cut", "rotate"} \/ (pc = "idle" /\ batch) => AtBoundary
    /\ /\ "fsync" \notin Faults
       /\ pc \in {"publish", "rotate"} \/ (pc = "apply" /\ Mode = "Full")
       => Covered(cur)

\* A shard that does not serve has nothing in its hands.
RestInv ==
  phase # "up" => /\ pc = "idle" /\ ~failed /\ ~batch /\ pub = NoPub
                  /\ staged = <<>> /\ acked = {}
                  /\ phase = "down" => todo = <<>>

\* A recovery: what has been replayed and read is a prefix of history, and the
\* oldest file still to come goes on behind it.
ReplayInv ==
  phase = "replay" =>
    /\ \A f \in rest, g \in DOMAIN files : f <= g => g \in rest
    /\ Len(eng) + Len(todo) <= Len(hist)
    /\ \A i \in 1 .. Len(eng) : eng[i] = hist[i]
    /\ \A j \in 1 .. Len(todo) : todo[j] = hist[Len(eng) + j]
    /\ \A f \in rest : (\A g \in rest : f <= g) => Begin(hist, f) = Len(eng) + Len(todo)
    /\ 0 \in rest => Intact
    /\ rest = {} => \A f \in DOMAIN files : Newest(f) => EndOf(f) = Len(eng) + Len(todo)
    /\ lastTs = IF eng = <<>> THEN 0 ELSE eng[Len(eng)]
    /\ lastCheckpointTs \in DOMAIN files

Within(t, n) == \E i \in 1 .. n : hist[i] = t

\* What has been promised is in history, in the part of it no power loss can take.
PromiseInv ==
  /\ \A t \in promised \cup acked : Within(t, Len(hist))
  /\ \A i \in 1 .. Len(staged) : Within(staged[i], Len(hist))
  /\ "power" \in Faults =>
       \A t \in promised \cup acked : \A f \in DOMAIN files :
         Newest(f) => Within(t, Begin(hist, f) + files[f].durable)

RecoveryInv ==
  /\ JournalInv /\ SnapsInv /\ PubInv /\ RotInv
  /\ ServingInv /\ RestInv /\ ReplayInv /\ PromiseInv

\* What the deployments may not have in store for a shard: a record that is left
\* torn, which recovery keeps and appends behind; an apply that throws under
\* Group, which may be followed by a checkpoint of half a command; a power loss
\* without fsync, or with one that lies; and as many rotten snapshots as are kept.
Dependable ==
  \A d \in Deployments :
    /\ "torn" \notin d.faults /\ "write" \notin d.faults
    /\ d.mode = "Group" => "throw" \notin d.faults
    /\ "power" \in d.faults => d.mode # "Off" /\ "fsync" \notin d.faults
    /\ "rot" \in d.faults => d.maxFaults < d.retain

-----------------------------------------------------------------------------
(* Stretches of history *)

\* At most one place of history is the one a file goes on behind.
LEMMA BeginUnique ==
  ASSUME NEW h \in Seq(Int), Increasing(h), NEW f \in Int, NEW b, StartsAt(h, f, b)
  PROVE  Begin(h, f) = b /\ b \in Nat
<1>0. Len(h) \in Nat
  OBVIOUS
<1>1. b \in 0 .. Len(h)
  BY DEF StartsAt
<1>2. Begin(h, f) \in 0 .. Len(h) /\ StartsAt(h, f, Begin(h, f))
  BY <1>1 DEF Begin
<1>3. ASSUME NEW c \in 0 .. Len(h), StartsAt(h, f, c) PROVE c = b
  <2>1. CASE f = 0
    BY <1>3, <2>1 DEF StartsAt
  <2>2. CASE f # 0
    <3>1. b \in 1 .. Len(h) /\ c \in 1 .. Len(h) /\ h[b] = f /\ h[c] = f
      BY <1>0, <1>1, <1>3, <2>2 DEF StartsAt
    <3>2. h[b] \in Int /\ h[c] \in Int
      BY <3>1
    <3>3. (b < c => h[b] < h[c]) /\ (c < b => h[c] < h[b])
      BY <3>1 DEF Increasing
    <3> QED
      BY <1>0, <3>1, <3>2, <3>3
  <2> QED
    BY <2>1, <2>2
<1> QED
  BY <1>0, <1>1, <1>2, <1>3

\* A file goes on behind the same command in a longer and in a shorter history.
LEMMA BeginPrefix ==
  ASSUME NEW h \in Seq(Int), NEW k \in Seq(Int), PrefixOf(h, k), Increasing(k),
         NEW f \in Int
  PROVE  /\ Increasing(h)
         /\ StartsAt(h, f, Begin(h, f)) => StartsAt(k, f, Begin(k, f)) /\ Begin(k, f) = Begin(h, f)
         /\ StartsAt(k, f, Begin(k, f)) /\ Begin(k, f) <= Len(h)
              => StartsAt(h, f, Begin(h, f)) /\ Begin(h, f) = Begin(k, f)
<1>0. Len(h) \in Nat /\ Len(k) \in Nat /\ Len(h) <= Len(k)
  BY DEF PrefixOf
<1>1. Increasing(h)
  <2> SUFFICES ASSUME NEW i \in 1 .. Len(h), NEW j \in 1 .. Len(h)
               PROVE  0 < h[i] /\ (i < j => h[i] < h[j])
    BY DEF Increasing
  <2>1. i \in 1 .. Len(k) /\ j \in 1 .. Len(k) /\ k[i] = h[i] /\ k[j] = h[j]
    BY <1>0, SMTT(40) DEF PrefixOf
  <2> QED
    BY <2>1 DEF Increasing
<1>2. ASSUME NEW b, StartsAt(h, f, b) PROVE StartsAt(k, f, b)
  <2>1. b \in 0 .. Len(h) /\ b \in 0 .. Len(k)
    BY <1>0, <1>2 DEF StartsAt
  <2>2. b # 0 => b \in 1 .. Len(h)
    BY <1>0, <2>1
  <2>3. b # 0 => k[b] = h[b]
    BY <2>2 DEF PrefixOf
  <2> QED
    BY <1>2, <2>1, <2>3 DEF StartsAt
<1>3. ASSUME NEW b, StartsAt(k, f, b), b <= Len(h) PROVE StartsAt(h, f, b)
  <2>1. b \in 0 .. Len(h)
    BY <1>0, <1>3 DEF StartsAt
  <2>2. b # 0 => b \in 1 .. Len(h)
    BY <1>0, <2>1
  <2>3. b # 0 => k[b] = h[b]
    BY <2>2 DEF PrefixOf
  <2> QED
    BY <1>3, <2>1, <2>3 DEF StartsAt
<1>4. ASSUME StartsAt(h, f, Begin(h, f))
      PROVE  StartsAt(k, f, Begin(k, f)) /\ Begin(k, f) = Begin(h, f)
  <2>1. StartsAt(k, f, Begin(h, f))
    BY <1>2, <1>4
  <2>2. Begin(k, f) = Begin(h, f)
    BY <2>1, BeginUnique
  <2> QED
    BY <2>1, <2>2
<1>5. ASSUME StartsAt(k, f, Begin(k, f)), Begin(k, f) <= Len(h)
      PROVE  StartsAt(h, f, Begin(h, f)) /\ Begin(h, f) = Begin(k, f)
  <2>1. StartsAt(h, f, Begin(k, f))
    BY <1>3, <1>5
  <2>2. Begin(h, f) = Begin(k, f)
    BY <1>1, <2>1, BeginUnique
  <2> QED
    BY <2>1, <2>2
<1> QED
  BY <1>1, <1>4, <1>5

\* The types the proofs below keep needing: of the files, ...
LEMMA FileTypes ==
  ASSUME TypeOK
  PROVE  /\ files \in [DOMAIN files -> File] /\ DOMAIN files \subseteq Nat
         /\ \A f \in DOMAIN files : /\ f \in Nat /\ files[f] \in File /\ files[f].recs \in Seq(Nat)
                                    /\ Len(files[f].recs) \in Nat /\ files[f].durable \in Nat
<1>1. files \in [DOMAIN files -> File] /\ DOMAIN files \subseteq Nat
  BY DEF TypeOK, DiskType
<1>2. ASSUME NEW f \in DOMAIN files
      PROVE  /\ f \in Nat /\ files[f] \in File /\ files[f].recs \in Seq(Nat)
             /\ Len(files[f].recs) \in Nat /\ files[f].durable \in Nat
  <2>1. f \in Nat /\ files[f] \in File
    BY <1>1
  <2>2. files[f].recs \in Seq(Nat) /\ files[f].durable \in Nat
    BY <2>1 DEF File
  <2>3. Len(files[f].recs) \in Nat
    BY <2>2
  <2> QED
    BY <2>1, <2>2, <2>3
<1> QED
  BY <1>1, <1>2

\* ... of the snapshots and the publish, ...
LEMMA SnapTypes ==
  ASSUME TypeOK
  PROVE  /\ snaps \in [DOMAIN snaps -> Snapshot] /\ DOMAIN snaps \subseteq Nat
         /\ pub \in Publish /\ pub.keep \in Nat /\ pub.ts \in Nat
         /\ Retained \in Nat /\ Retained > 0 /\ Retain \in Int /\ Retain <= Retained
         /\ MaxFaults \in Nat /\ faults \in Nat
<1>1. shard \in Deployments
  BY DEF TypeOK
<1>2. Retain \in Int /\ MaxFaults \in Nat
  BY <1>1, ShardAssumption DEF Retain, MaxFaults
<1>3. Retained \in Nat /\ Retained > 0 /\ Retain <= Retained
  BY <1>2 DEF Retained
<1>4. snaps \in [DOMAIN snaps -> Snapshot] /\ DOMAIN snaps \subseteq Nat /\ pub \in Publish
  BY DEF TypeOK, DiskType
<1>5. pub.keep \in Nat /\ pub.ts \in Nat
  BY <1>4 DEF Publish
<1>6. faults \in Nat
  BY DEF TypeOK, NumType
<1> QED
  BY <1>2, <1>3, <1>4, <1>5, <1>6

\* ... and of what a shard holds in memory.
LEMMA MemoryTypes ==
  ASSUME TypeOK
  PROVE  /\ eng \in Seq(Int) /\ hist \in Seq(Int) /\ staged \in Seq(Nat) /\ todo \in Seq(Nat)
         /\ rest \subseteq Nat
         /\ Len(hist) \in Nat /\ Len(eng) \in Nat /\ Len(todo) \in Nat /\ Len(staged) \in Nat
         /\ lastTs \in Nat /\ lastBatchTs \in Nat /\ lastCheckpointTs \in Nat /\ cur \in Nat
<1>1. /\ eng \in Seq(Int) /\ hist \in Seq(Int) /\ staged \in Seq(Nat) /\ todo \in Seq(Nat)
      /\ rest \subseteq Nat
  BY DEF TypeOK, SeqType
<1>2. Len(hist) \in Nat /\ Len(eng) \in Nat /\ Len(todo) \in Nat /\ Len(staged) \in Nat
  BY <1>1
<1>3. lastTs \in Nat /\ lastBatchTs \in Nat /\ lastCheckpointTs \in Nat /\ cur \in Nat
  BY DEF TypeOK, NumType
<1> QED
  BY <1>1, <1>2, <1>3

\* What a dependable deployment rules out for the shard at hand.
LEMMA Luck ==
  ASSUME TypeOK, Dependable
  PROVE  /\ "torn" \notin Faults /\ "write" \notin Faults
         /\ Group => "throw" \notin Faults
         /\ "power" \in Faults => Mode # "Off" /\ "fsync" \notin Faults
         /\ "rot" \in Faults => MaxFaults < Retain
BY DEF TypeOK, Dependable, Faults, Group, Mode, MaxFaults, Retain

\* A file begins and ends inside history.
LEMMA Bounds ==
  ASSUME TypeOK, JournalInv
  PROVE  /\ \A f \in DOMAIN files : /\ Begin(hist, f) \in Nat /\ EndOf(f) \in Nat
                                    /\ Begin(hist, f) <= EndOf(f) /\ EndOf(f) <= Len(hist)
                                    /\ EndOf(f) = Begin(hist, f) + Len(files[f].recs)
<1> SUFFICES ASSUME NEW f \in DOMAIN files
             PROVE  /\ Begin(hist, f) \in Nat /\ EndOf(f) \in Nat
                    /\ Begin(hist, f) <= EndOf(f) /\ EndOf(f) <= Len(hist)
                    /\ EndOf(f) = Begin(hist, f) + Len(files[f].recs)
  OBVIOUS
<1>1. FileInv(f)
  BY DEF JournalInv
<1>2. Begin(hist, f) \in 0 .. Len(hist) /\ EndOf(f) <= Len(hist)
  BY <1>1 DEF FileInv, StartsAt
<1> QED
  BY <1>2, FileTypes, MemoryTypes, SMTT(40) DEF EndOf

-----------------------------------------------------------------------------
(* Steps that leave the directory and the history alone *)

DiskKept == UNCHANGED <<shard, files, snaps, hist, cur, lossy>>

\* The directory is as sound as it was.
LEMMA DiskFrame ==
  ASSUME JournalInv, SnapsInv, DiskKept, phase = "down" => phase' = "down"
  PROVE  JournalInv' /\ SnapsInv'
<1>1. /\ shard' = shard /\ files' = files /\ snaps' = snaps /\ hist' = hist /\ cur' = cur
      /\ lossy' = lossy
  BY DEF DiskKept
<1>2. Intact' = Intact /\ Faults' = Faults
  BY <1>1 DEF Intact, Retained, Retain, Faults
<1>3. \A f : EndOf(f)' = EndOf(f) /\ Newest(f)' = Newest(f) /\ Covered(f)' = Covered(f)
  BY <1>1 DEF EndOf, Newest, Covered
<1>4. \A f, g : Follows(f, g)' = Follows(f, g)
  BY <1>1 DEF Follows
<1>5. \A f \in DOMAIN files : FileInv(f)'
  BY <1>1, <1>2, <1>3 DEF FileInv, JournalInv
<1>6. ChainInv'
  BY <1>1, <1>2, <1>3, <1>4 DEF ChainInv, JournalInv
<1>7. JournalInv'
  BY <1>1, <1>2, <1>3, <1>5, <1>6 DEF JournalInv
<1>8. SnapsInv'
  BY <1>1 DEF SnapsInv, Image
<1> QED
  BY <1>7, <1>8

\* A publish that stays where it is stays as sound as it was.
LEMMA PubFrame ==
  ASSUME PubInv, DiskKept, pub' = pub
  PROVE  PubInv'
BY DEF PubInv, DiskKept, Image, Intact, Retained, Retain

\* Faults only go up, and snapshots do not rot by themselves.
LEMMA RotFrame ==
  ASSUME TypeOK, SnapsInv, RotInv, shard' = shard, snaps' = snaps, faults' \in Nat,
         faults <= faults', faults' <= MaxFaults
  PROVE  RotInv'
<1>1. /\ MaxFaults' = MaxFaults /\ Faults' = Faults /\ Valid' = Valid
      /\ DOMAIN snaps' = DOMAIN snaps
  BY DEF MaxFaults, Faults, Valid
<1>2. IsFiniteSet(DOMAIN snaps \ Valid)
  BY FS_Difference DEF SnapsInv
<1>3. Cardinality(DOMAIN snaps \ Valid) \in Nat
  BY <1>2, FS_CardinalityType
<1>4. Cardinality(DOMAIN snaps \ Valid) <= faults'
  BY <1>3, SnapTypes DEF RotInv
<1> QED
  BY <1>1, <1>4 DEF RotInv

\* No promise is added: the promises are as safe as they were.
LEMMA PromiseFrame ==
  ASSUME PromiseInv, DiskKept, promised' \cup acked' \subseteq promised \cup acked,
         staged' = staged
  PROVE  PromiseInv'
<1>1. shard' = shard /\ files' = files /\ hist' = hist
  BY DEF DiskKept
<1>2. \A t, n : Within(t, n)' = Within(t, n)
  BY <1>1 DEF Within
<1>3. Faults' = Faults /\ \A f : Newest(f)' = Newest(f)
  BY <1>1 DEF Faults, Newest
<1> QED
  BY <1>1, <1>2, <1>3 DEF PromiseInv

\* A serving shard that leaves directory, history and publish alone keeps all
\* but what depends on where its consumer is.
LEMMA UpFrame ==
  ASSUME TypeOK, RecoveryInv, DiskKept, phase = "up", phase' = "up",
         faults' = faults \/ (faults < MaxFaults /\ faults' = faults + 1)
  PROVE  /\ JournalInv' /\ SnapsInv' /\ RotInv' /\ RestInv' /\ ReplayInv'
         /\ pub' = pub => PubInv'
<1>1. JournalInv' /\ SnapsInv'
  BY DiskFrame DEF RecoveryInv
<1>2. faults' \in Nat /\ faults <= faults' /\ faults' <= MaxFaults
  BY SnapTypes DEF RecoveryInv, RotInv
<1>3. RotInv'
  BY <1>2, RotFrame DEF RecoveryInv, DiskKept
<1>4. RestInv' /\ ReplayInv'
  BY DEF RestInv, ReplayInv
<1>5. pub' = pub => PubInv'
  BY PubFrame DEF RecoveryInv
<1> QED
  BY <1>1, <1>3, <1>4, <1>5

\* A fault that strikes is counted.
LEMMA StrikesCounts ==
  ASSUME NEW k, Strikes(k)
  PROVE  k \in Faults /\ faults < MaxFaults /\ faults' = faults + 1
BY DEF Strikes

\* The steps of producers, and of a failed shard that drops a command.
LEMMA ProducerStep ==
  ASSUME TypeOK, RecoveryInv, Submit \/ Sweep \/ RequestNow \/ DropCommand
  PROVE  RecoveryInv'
<1> USE DEF disk, engine, journal, requests, recovery, ghosts, bounds
<1>1. /\ DiskKept /\ phase = "up" /\ phase' = "up" /\ faults' = faults /\ pub' = pub
      /\ UNCHANGED <<eng, lastTs, lastBatchTs, pc, failed, staged, acked, promised>>
      /\ batch' = batch \/ (failed /\ batch' = Group)
  BY DEF Submit, Sweep, RequestNow, DropCommand, Deliver, DiskKept
<1>2. /\ JournalInv' /\ SnapsInv' /\ RotInv' /\ RestInv' /\ ReplayInv' /\ PubInv'
  BY <1>1, UpFrame
<1>3. PromiseInv'
  BY <1>1, PromiseFrame DEF RecoveryInv
<1>4. ServingInv'
  BY <1>1 DEF RecoveryInv, ServingInv, DiskKept, AtBoundary, Covered, Faults, Mode, Group
<1> QED
  BY <1>2, <1>3, <1>4 DEF RecoveryInv

\* The end of a batch and a look at the request flag.
LEMMA BoundaryStep ==
  ASSUME TypeOK, RecoveryInv, BatchDone \/ Boundary
  PROVE  RecoveryInv'
<1> USE DEF disk, engine, journal, requests, recovery, ghosts, bounds
<1>1. /\ DiskKept /\ phase = "up" /\ phase' = "up" /\ faults' = faults /\ pub' = pub
      /\ UNCHANGED <<eng, lastTs, lastBatchTs, failed, staged, acked, promised>>
      /\ pc \in {"publish", "boundary"} /\ pc' \in {"idle", "boundary", "cut"}
      /\ batch' = batch \/ batch' = FALSE
      /\ pc = "publish" => batch' = FALSE
  BY DEF BatchDone, Boundary, DiskKept
<1>2. /\ JournalInv' /\ SnapsInv' /\ RotInv' /\ RestInv' /\ ReplayInv' /\ PubInv'
  BY <1>1, UpFrame
<1>3. PromiseInv'
  BY <1>1, PromiseFrame DEF RecoveryInv
<1>4. ServingInv'
  BY <1>1 DEF RecoveryInv, ServingInv, DiskKept, AtBoundary, Covered, Faults, Mode, Group
<1> QED
  BY <1>2, <1>3, <1>4 DEF RecoveryInv

\* Where the open file is durable, all of history is.
LEMMA CoveredIsAll ==
  ASSUME TypeOK, RecoveryInv, phase = "up", Covered(cur), NEW f \in DOMAIN files, Newest(f)
  PROVE  Begin(hist, f) + files[f].durable = Len(hist)
<1>1. cur \in DOMAIN files /\ ~lossy
  BY DEF RecoveryInv, ServingInv
<1>2. Newest(cur)
  BY <1>1 DEF RecoveryInv, JournalInv
<1>3. f = cur
  BY <1>1, <1>2, FileTypes DEF Newest
<1>4. EndOf(cur) = Len(hist)
  BY <1>1, <1>2 DEF RecoveryInv, JournalInv, ChainInv
<1> QED
  BY <1>3, <1>4 DEF EndOf, Covered

\* An event of an accepted command leaves or is staged.
LEMMA PromiseMore ==
  ASSUME TypeOK, RecoveryInv, DiskKept, phase = "up",
         NEW t, Within(t, Len(hist)), acked' \subseteq acked \cup {t}, promised' = promised,
         t \in acked' /\ t \notin acked /\ "power" \in Faults => Covered(cur),
         \A i \in 1 .. Len(staged') : Within(staged'[i], Len(hist))
  PROVE  PromiseInv'
<1>1. shard' = shard /\ files' = files /\ hist' = hist
  BY DEF DiskKept
<1>2. \A u, n : Within(u, n)' = Within(u, n)
  BY <1>1 DEF Within
<1>3. Faults' = Faults /\ \A f : Newest(f)' = Newest(f)
  BY <1>1 DEF Faults, Newest
<1>4. \A u \in promised' \cup acked' : Within(u, Len(hist))
  BY DEF RecoveryInv, PromiseInv
<1>5. ASSUME "power" \in Faults, NEW u \in promised' \cup acked', NEW f \in DOMAIN files, Newest(f)
      PROVE  Within(u, Begin(hist, f) + files[f].durable)
  <2>1. CASE u \in promised \cup acked
    BY <1>5, <2>1 DEF RecoveryInv, PromiseInv
  <2>2. CASE u \notin promised \cup acked
    <3>1. u = t /\ Covered(cur)
      BY <1>5, <2>2
    <3>2. Begin(hist, f) + files[f].durable = Len(hist)
      BY <1>5, <3>1, CoveredIsAll
    <3> QED
      BY <3>1, <3>2
  <2> QED
    BY <2>1, <2>2
<1>6. \A u \in promised' \cup acked' : Within(u, Len(hist))'
  BY <1>1, <1>2, <1>4
<1>7. \A i \in 1 .. Len(staged') : Within(staged[i], Len(hist))'
  BY <1>1, <1>2
<1>8. "power" \in Faults' =>
        \A u \in promised' \cup acked' : \A f \in DOMAIN files' :
          Newest(f)' => Within(u, Begin(hist, f) + files[f].durable)'
  BY <1>1, <1>2, <1>3, <1>5
<1> QED
  BY <1>6, <1>7, <1>8 DEF PromiseInv

\* What the sink does with the command that has just been applied.
LEMMA EmitPromise ==
  ASSUME TypeOK, Dependable, RecoveryInv, DiskKept, phase = "up", pc = "apply",
         promised' = promised, Emit(lastTs) \/ UNCHANGED <<staged, acked>>
  PROVE  PromiseInv'
<1>1. hist = Append(eng, lastTs)
  BY DEF RecoveryInv, ServingInv
<1>2. Len(hist) = Len(eng) + 1 /\ hist[Len(hist)] = lastTs
  BY <1>1, MemoryTypes
<1>3. Within(lastTs, Len(hist))
  BY <1>2, MemoryTypes, SMTT(40) DEF Within
<1>4. CASE UNCHANGED <<staged, acked>>
  BY <1>4, PromiseFrame DEF RecoveryInv
<1>5. CASE Emit(lastTs) /\ Group
  <2>1. staged' = Append(staged, lastTs) /\ acked' = acked
    BY <1>5 DEF Emit
  <2>2. ASSUME NEW i \in 1 .. Len(staged') PROVE Within(staged'[i], Len(hist))
    <3>1. CASE i \in 1 .. Len(staged)
      <4>1. staged'[i] = staged[i]
        BY <2>1, <3>1, MemoryTypes
      <4> QED
        BY <3>1, <4>1 DEF RecoveryInv, PromiseInv
    <3>2. CASE i \notin 1 .. Len(staged)
      <4>0. Len(staged') = Len(staged) + 1 /\ staged'[Len(staged) + 1] = lastTs
        BY <2>1, MemoryTypes
      <4>1. i = Len(staged) + 1 /\ staged'[i] = lastTs
        BY <4>0, <3>2, MemoryTypes
      <4> QED
        BY <4>1, <1>3
    <3> QED
      BY <3>1, <3>2
  <2> QED
    BY <1>3, <2>1, <2>2, PromiseMore
<1>6. CASE Emit(lastTs) /\ ~Group
  <2>1. staged' = staged /\ acked' = acked \cup {lastTs}
    BY <1>6 DEF Emit
  <2>2. "power" \in Faults => Covered(cur)
    BY <1>6, Luck, DeploymentType DEF Group, RecoveryInv, ServingInv
  <2>3. \A i \in 1 .. Len(staged') : Within(staged'[i], Len(hist))
    BY <2>1 DEF RecoveryInv, PromiseInv
  <2> QED
    BY <1>3, <2>1, <2>2, <2>3, PromiseMore
<1> QED
  BY <1>4, <1>5, <1>6

\* A command is applied.
LEMMA ApplyStep ==
  ASSUME TypeOK, Dependable, RecoveryInv, ApplyCommand
  PROVE  RecoveryInv'
<1> USE DEF disk, engine, journal, requests, recovery, ghosts, bounds
<1>1. /\ DiskKept /\ phase = "up" /\ phase' = "up" /\ faults' = faults /\ pub' = pub
      /\ UNCHANGED <<lastTs, failed, batch, promised>>
      /\ eng' = Append(eng, lastTs) /\ lastBatchTs' = lastTs
      /\ pc = "apply" /\ pc' \in {"idle", "boundary"} /\ (Group => pc' = "idle")
      /\ Emit(lastTs)
  BY DEF ApplyCommand, DiskKept
<1>2. /\ JournalInv' /\ SnapsInv' /\ RotInv' /\ RestInv' /\ ReplayInv' /\ PubInv'
  BY <1>1, UpFrame
<1>3. PromiseInv'
  BY <1>1, EmitPromise
<1>4. hist = Append(eng, lastTs) /\ cur < lastTs /\ ~failed
  BY <1>1 DEF RecoveryInv, ServingInv
<1>5. Len(hist) = Len(eng) + 1 /\ hist[Len(hist)] = lastTs
  BY <1>4, MemoryTypes
<1>7. hist # <<>>
  BY <1>5, MemoryTypes
<1>6. ServingInv'
  BY <1>1, <1>4, <1>5, <1>7 DEF RecoveryInv, ServingInv, DiskKept, AtBoundary, Covered, Faults, Mode, Group
<1> QED
  BY <1>2, <1>3, <1>6 DEF RecoveryInv

\* An apply throws: the shard fails, and its journal has the command.
LEMMA ThrowStep ==
  ASSUME TypeOK, Dependable, RecoveryInv, ApplyThrows
  PROVE  RecoveryInv'
<1> USE DEF disk, engine, journal, requests, recovery, ghosts, bounds
<1>0. Strikes("throw")
  BY DEF ApplyThrows
<1>1. /\ DiskKept /\ phase = "up" /\ phase' = "up" /\ pub' = pub
      /\ UNCHANGED <<lastTs, lastBatchTs, batch, promised>>
      /\ failed' = TRUE /\ pc = "apply" /\ pc' = "idle"
      /\ Emit(lastTs) \/ UNCHANGED <<staged, acked>>
  BY DEF ApplyThrows, DiskKept
<1>2. /\ JournalInv' /\ SnapsInv' /\ RotInv' /\ RestInv' /\ ReplayInv' /\ PubInv'
  BY <1>0, <1>1, StrikesCounts, UpFrame
<1>3. PromiseInv'
  BY <1>1, EmitPromise
<1>4. ~Group
  BY <1>0, StrikesCounts, Luck
<1>5. ~batch
  BY <1>1, <1>4 DEF RecoveryInv, ServingInv
<1>6. ServingInv'
  BY <1>1, <1>4, <1>5 DEF RecoveryInv, ServingInv, DiskKept, AtBoundary, Covered, Faults, Mode, Group
<1> QED
  BY <1>2, <1>3, <1>6 DEF RecoveryInv

\* A staged event leaves, behind the barrier.
LEMMA PublishStep ==
  ASSUME TypeOK, Dependable, RecoveryInv, PublishStaged
  PROVE  RecoveryInv'
<1> USE DEF disk, engine, journal, requests, recovery, ghosts, bounds
<1>1. /\ DiskKept /\ phase = "up" /\ phase' = "up" /\ pub' = pub /\ faults' = faults
      /\ UNCHANGED <<eng, lastTs, lastBatchTs, batch, failed, pc, promised>>
      /\ pc = "publish" /\ staged # <<>>
      /\ acked' = acked \cup {Head(staged)} /\ staged' = Tail(staged)
  BY DEF PublishStaged, DiskKept
<1>2. /\ JournalInv' /\ SnapsInv' /\ RotInv' /\ RestInv' /\ ReplayInv' /\ PubInv'
  BY <1>1, UpFrame
<1>3. Head(staged) = staged[1] /\ 1 \in 1 .. Len(staged)
  BY <1>1, MemoryTypes
<1>4. Within(Head(staged), Len(hist))
  BY <1>3 DEF RecoveryInv, PromiseInv
<1>5. \A i \in 1 .. Len(Tail(staged)) :
        i + 1 \in 1 .. Len(staged) /\ Tail(staged)[i] = staged[i + 1]
  BY <1>1, MemoryTypes
<1>6. \A i \in 1 .. Len(staged') : Within(staged'[i], Len(hist))
  BY <1>1, <1>5 DEF RecoveryInv, PromiseInv
<1>7. "power" \in Faults => Covered(cur)
  BY <1>1, Luck DEF RecoveryInv, ServingInv
<1>8. PromiseInv'
  BY <1>1, <1>4, <1>6, <1>7, PromiseMore
<1>9. ServingInv'
  BY <1>1 DEF RecoveryInv, ServingInv, DiskKept, AtBoundary, Covered, Faults, Mode, Group
<1> QED
  BY <1>2, <1>8, <1>9 DEF RecoveryInv

-----------------------------------------------------------------------------
(* Steps that write to the journal *)

\* A new command goes behind everything files and snapshots refer to.
LEMMA HistGrows ==
  ASSUME TypeOK, JournalInv, NEW t \in Nat, t > 0,
         \A i \in 1 .. Len(hist) : hist[i] < t, hist' = Append(hist, t)
  PROVE  /\ hist' \in Seq(Int) /\ Increasing(hist') /\ PrefixOf(hist, hist')
         /\ Len(hist') = Len(hist) + 1 /\ hist'[Len(hist) + 1] = t
         /\ \A i \in 1 .. Len(hist) : hist'[i] = hist[i]
         /\ \A f \in DOMAIN files : /\ Begin(hist', f) = Begin(hist, f)
                                    /\ StartsAt(hist', f, Begin(hist', f))
<1>0. hist \in Seq(Int) /\ Len(hist) \in Nat
  BY MemoryTypes
<1>1. hist' \in Seq(Int) /\ Len(hist') = Len(hist) + 1 /\ hist'[Len(hist) + 1] = t
  BY <1>0
<1>2. \A i \in 1 .. Len(hist) : hist'[i] = hist[i]
  BY <1>0
<1>3. PrefixOf(hist, hist')
  BY <1>0, <1>1, <1>2 DEF PrefixOf
<1>4. Increasing(hist')
  <2> SUFFICES ASSUME NEW i \in 1 .. Len(hist'), NEW j \in 1 .. Len(hist')
               PROVE  0 < hist'[i] /\ (i < j => hist'[i] < hist'[j])
    BY DEF Increasing
  <2>1. i \in 1 .. Len(hist) \/ i = Len(hist) + 1
    BY <1>0, <1>1
  <2>2. j \in 1 .. Len(hist) \/ j = Len(hist) + 1
    BY <1>0, <1>1
  <2>3. \A n \in 1 .. Len(hist) : 0 < hist[n] /\ \A m \in 1 .. Len(hist) : n < m => hist[n] < hist[m]
    BY DEF JournalInv, Increasing
  <2> QED
    BY <1>0, <1>1, <1>2, <2>1, <2>2, <2>3
<1>5. ASSUME NEW f \in DOMAIN files
      PROVE  Begin(hist', f) = Begin(hist, f) /\ StartsAt(hist', f, Begin(hist', f))
  <2>1. StartsAt(hist, f, Begin(hist, f)) /\ f \in Int
    BY FileTypes DEF JournalInv, FileInv
  <2> QED
    BY <1>0, <1>1, <1>3, <1>4, <2>1, BeginPrefix
<1> QED
  BY <1>1, <1>2, <1>3, <1>4, <1>5

\* What was promised stays promised while history and the durable part of the
\* newest file do not shrink.
LEMMA PromiseCarry ==
  ASSUME TypeOK, RecoveryInv, shard' = shard,
         promised' \cup acked' \subseteq promised \cup acked,
         staged' = staged \/ staged' = <<>>,
         Len(hist') \in Nat, Len(hist) <= Len(hist'),
         \A i \in 1 .. Len(hist) : hist'[i] = hist[i],
         \A f \in DOMAIN files' : Newest(f)' =>
            \E g \in DOMAIN files :
               /\ Newest(g)
               /\ Begin(hist', f) + files'[f].durable \in Nat
               /\ Begin(hist, g) + files[g].durable <= Begin(hist', f) + files'[f].durable
  PROVE  PromiseInv'
<1>0. Len(hist) \in Nat
  BY MemoryTypes
<1>1. Faults' = Faults
  BY DEF Faults
<1>2. ASSUME NEW u, NEW n \in Nat, NEW m \in Nat, n <= m, n <= Len(hist), Within(u, n)
      PROVE  Within(u, m)'
  <2>1. PICK i \in 1 .. n : hist[i] = u
    BY <1>2 DEF Within
  <2>2. i \in 1 .. Len(hist) /\ i \in 1 .. m
    BY <1>0, <1>2
  <2>3. hist'[i] = u
    BY <2>1, <2>2
  <2> QED
    BY <2>2, <2>3 DEF Within
<1>3. \A u \in promised' \cup acked' : Within(u, Len(hist))'
  BY <1>0, <1>2 DEF RecoveryInv, PromiseInv
<1>4. \A i \in 1 .. Len(staged') : Within(staged[i], Len(hist))'
  <2>1. CASE staged' = staged
    BY <1>0, <1>2, <2>1 DEF RecoveryInv, PromiseInv
  <2>2. CASE staged' = <<>>
    BY <2>2
  <2> QED
    BY <2>1, <2>2
<1>5. ASSUME "power" \in Faults, NEW u \in promised' \cup acked', NEW f \in DOMAIN files', Newest(f)'
      PROVE  Within(u, Begin(hist, f) + files[f].durable)'
  <2>1. PICK g \in DOMAIN files :
           /\ Newest(g)
           /\ Begin(hist', f) + files'[f].durable \in Nat
           /\ Begin(hist, g) + files[g].durable <= Begin(hist', f) + files'[f].durable
    BY <1>5
  <2>2. Within(u, Begin(hist, g) + files[g].durable)
    BY <1>5, <2>1 DEF RecoveryInv, PromiseInv
  <2>3. Begin(hist, g) + files[g].durable \in Nat /\ Begin(hist, g) + files[g].durable <= Len(hist)
    <3>1. FileInv(g)
      BY DEF RecoveryInv, JournalInv
    <3>2. files[g].durable <= Len(files[g].recs)
      BY <3>1 DEF FileInv
    <3> QED
      BY <3>2, <1>0, Bounds, FileTypes DEF RecoveryInv
  <2> QED
    BY <1>2, <2>1, <2>2, <2>3
<1>6. "power" \in Faults' =>
        \A u \in promised' \cup acked' : \A f \in DOMAIN files' :
          Newest(f)' => Within(u, Begin(hist, f) + files[f].durable)'
  BY <1>1, <1>5
<1> QED
  BY <1>3, <1>4, <1>6 DEF PromiseInv

\* The open file is the newest one, and every other file ends before it begins.
LEMMA OpenFile ==
  ASSUME TypeOK, RecoveryInv, phase = "up"
  PROVE  /\ cur \in DOMAIN files /\ Newest(cur) /\ ~lossy /\ EndOf(cur) = Len(hist)
         /\ \A f \in DOMAIN files : f # cur => f < cur /\ ~Newest(f)
         /\ \A f \in DOMAIN files : Newest(f) => f = cur
<1>1. cur \in DOMAIN files /\ ~lossy
  BY DEF RecoveryInv, ServingInv
<1>2. Newest(cur)
  BY <1>1 DEF RecoveryInv, JournalInv
<1>3. EndOf(cur) = Len(hist)
  BY <1>1, <1>2 DEF RecoveryInv, JournalInv, ChainInv
<1> QED
  BY <1>1, <1>2, <1>3, FileTypes DEF Newest

\* A write-ahead record: the open file and history grow by the same command.
LEMMA AppendKeepsJournal ==
  ASSUME TypeOK, RecoveryInv, phase = "up", phase' = "up",
         NEW t \in Nat, t > lastTs, hist' = Append(hist, t),
         NEW v, files' = [files EXCEPT ![cur] = v],
         v.recs = Append(files[cur].recs, t),
         v.durable \in Nat, v.durable <= Len(v.recs), files[cur].durable <= v.durable,
         UNCHANGED <<shard, snaps, cur, lossy>>
  PROVE  /\ JournalInv' /\ SnapsInv'
         /\ \A s, st, at : Image(s, st, at) => Image(s, st, at)'
         /\ promised' = promised /\ acked' = acked /\ staged' = staged => PromiseInv'
<1>o. /\ cur \in DOMAIN files /\ Newest(cur) /\ ~lossy /\ EndOf(cur) = Len(hist)
      /\ \A f \in DOMAIN files : f # cur => f < cur /\ ~Newest(f)
      /\ \A f \in DOMAIN files : Newest(f) => f = cur
  BY OpenFile
<1> USE <1>o
<1>j. JournalInv /\ SnapsInv /\ ServingInv
  BY DEF RecoveryInv
<1>0. /\ t > 0 /\ \A i \in 1 .. Len(hist) : hist[i] < t
  <2>1. \A i \in 1 .. Len(hist) : hist[i] <= lastTs /\ hist[i] \in Int
    BY <1>j, MemoryTypes DEF ServingInv
  <2> QED
    BY <2>1, MemoryTypes
<1>h. /\ hist' \in Seq(Int) /\ Increasing(hist') /\ PrefixOf(hist, hist')
      /\ Len(hist') = Len(hist) + 1 /\ hist'[Len(hist) + 1] = t
      /\ \A i \in 1 .. Len(hist) : hist'[i] = hist[i]
      /\ \A f \in DOMAIN files : /\ Begin(hist', f) = Begin(hist, f)
                                 /\ StartsAt(hist', f, Begin(hist', f))
  BY <1>0, <1>j, HistGrows
<1>d. /\ DOMAIN files' = DOMAIN files /\ files'[cur] = v
      /\ \A f \in DOMAIN files : f # cur => files'[f] = files[f]
  OBVIOUS
<1>v. /\ Len(v.recs) = Len(files[cur].recs) + 1 /\ v.recs[Len(files[cur].recs) + 1] = t
      /\ \A j \in 1 .. Len(files[cur].recs) : v.recs[j] = files[cur].recs[j]
  BY FileTypes
<1>i. Intact' = Intact /\ Faults' = Faults
  BY DEF Intact, Retained, Retain, Faults
<1>n. \A f : Newest(f)' = Newest(f)
  BY <1>d DEF Newest
<1>f. \A f, g : Follows(f, g)' = Follows(f, g)
  BY <1>d DEF Follows
<1>e. /\ \A f \in DOMAIN files : f # cur => EndOf(f)' = EndOf(f)
      /\ EndOf(cur)' = Len(hist) + 1
  <2>1. \A f \in DOMAIN files : f # cur => EndOf(f)' = EndOf(f)
    BY <1>d, <1>h DEF EndOf
  <2>2. EndOf(cur)' = Begin(hist, cur) + (Len(files[cur].recs) + 1)
    BY <1>d, <1>h, <1>v DEF EndOf
  <2>3. Begin(hist, cur) \in Nat /\ EndOf(cur) = Begin(hist, cur) + Len(files[cur].recs)
    BY <1>j, Bounds
  <2>4. Len(files[cur].recs) \in Nat
    BY FileTypes
  <2>5. EndOf(cur)' = EndOf(cur) + 1
    BY <2>2, <2>3, <2>4
  <2> QED
    BY <2>1, <2>5
<1>b. /\ Len(hist) \in Nat /\ cur \in Nat /\ Len(files[cur].recs) \in Nat
      /\ \A f \in DOMAIN files : /\ Begin(hist, f) \in Nat /\ EndOf(f) \in Nat
                                 /\ Begin(hist, f) <= EndOf(f) /\ EndOf(f) <= Len(hist)
                                 /\ EndOf(f) = Begin(hist, f) + Len(files[f].recs)
                                 /\ Len(files[f].recs) \in Nat
  BY <1>j, Bounds, MemoryTypes, FileTypes
<1>1. ASSUME NEW f \in DOMAIN files PROVE FileInv(f)'
  <2>0. FileInv(f)
    BY <1>j DEF JournalInv
  <2>1. CASE f = cur
    <3>1. \A j \in 1 .. Len(v.recs) : v.recs[j] = hist'[Begin(hist, cur) + j]
      <4> SUFFICES ASSUME NEW j \in 1 .. Len(v.recs)
                   PROVE  v.recs[j] = hist'[Begin(hist, cur) + j]
        OBVIOUS
      <4>1. CASE j \in 1 .. Len(files[cur].recs)
        <5>1. v.recs[j] = hist[Begin(hist, cur) + j]
          BY <1>v, <2>0, <2>1, <4>1 DEF FileInv
        <5>0. /\ Begin(hist, cur) \in Nat /\ Len(files[cur].recs) \in Nat /\ Len(hist) \in Nat
              /\ Begin(hist, cur) + Len(files[cur].recs) = Len(hist)
          BY <1>b
        <5>2. Begin(hist, cur) + j \in 1 .. Len(hist)
          BY <5>0, <4>1
        <5> QED
          BY <5>1, <5>2, <1>h
      <4>2. CASE j \notin 1 .. Len(files[cur].recs)
        <5>0. /\ Begin(hist, cur) \in Nat /\ Len(files[cur].recs) \in Nat /\ Len(hist) \in Nat
              /\ Begin(hist, cur) + Len(files[cur].recs) = Len(hist)
          BY <1>b
        <5>1. j = Len(files[cur].recs) + 1
          BY <5>0, <1>v, <4>2
        <5>2. Begin(hist, cur) + j = Len(hist) + 1
          BY <5>0, <5>1
        <5> QED
          BY <1>v, <1>h, <5>1, <5>2
      <4> QED
        BY <4>1, <4>2
    <3>2. EndOf(cur)' <= Len(hist')
      BY <1>e, <1>h, <1>b
    <3> QED
      BY <1>d, <1>h, <1>n, <2>1, <3>1, <3>2 DEF FileInv
  <2>2. CASE f # cur
    <3>1. \A j \in 1 .. Len(files[f].recs) : files[f].recs[j] = hist'[Begin(hist, f) + j]
      <4> SUFFICES ASSUME NEW j \in 1 .. Len(files[f].recs)
                   PROVE  files[f].recs[j] = hist'[Begin(hist, f) + j]
        OBVIOUS
      <4>0. /\ Begin(hist, f) \in Nat /\ Len(files[f].recs) \in Nat /\ Len(hist) \in Nat
            /\ Begin(hist, f) + Len(files[f].recs) <= Len(hist)
        BY <1>b
      <4>1. Begin(hist, f) + j \in 1 .. Len(hist)
        BY <4>0
      <4> QED
        BY <4>1, <1>h, <2>0 DEF FileInv
    <3>2. EndOf(f)' <= Len(hist')
      BY <1>e, <1>h, <1>b, <2>2
    <3>3. Covered(f)' = Covered(f)
      BY <1>d, <2>2 DEF Covered
    <3> QED
      BY <1>d, <1>h, <1>n, <1>i, <2>0, <2>2, <3>1, <3>2, <3>3 DEF FileInv
  <2> QED
    BY <2>1, <2>2
<1>2. ChainInv'
  <2>1. ASSUME NEW f \in DOMAIN files, NEW g \in DOMAIN files, f < g
        PROVE  EndOf(f)' <= Begin(hist', g)
    <3>1. f # cur
      BY <2>1, FileTypes, SMTT(40)
    <3> QED
      BY <3>1, <2>1, <1>e, <1>h, <1>j DEF JournalInv, ChainInv
  <2>2. ASSUME NEW f \in DOMAIN files, NEW g \in DOMAIN files, Follows(f, g), f # 0 \/ Intact
        PROVE  EndOf(f)' = Begin(hist', g)
    <3>1. f # cur
      BY <2>2, FileTypes DEF Follows
    <3> QED
      BY <3>1, <2>2, <1>e, <1>h, <1>j DEF JournalInv, ChainInv
  <2>3. ASSUME NEW f \in DOMAIN files, Newest(f)
        PROVE  EndOf(f)' = Len(hist')
    BY <2>3, <1>e, <1>h
  <2> QED
    BY <2>1, <2>2, <2>3, <1>d, <1>f, <1>i, <1>n DEF ChainInv
<1>3. JournalInv'
  <2>1. 0 \in DOMAIN files \/ ~Intact
    BY <1>j DEF JournalInv
  <2> QED
    BY <2>1, <1>j, <1>1, <1>2, <1>d, <1>h, <1>i, <1>n DEF JournalInv
<1>4. ASSUME NEW s, NEW st, NEW at, Image(s, st, at) PROVE Image(s, st, at)'
  <2>1. s \in DOMAIN files /\ s # 0 /\ at = s /\ Len(st) = Begin(hist, s) /\ PrefixOf(st, hist)
    BY <1>4 DEF Image
  <2>2. Len(st) = Begin(hist', s) /\ s \in DOMAIN files'
    BY <2>1, <1>h, <1>d
  <2>3. Len(st) \in Nat /\ Len(st) <= Len(hist)
    BY <2>1, <1>b
  <2>4. \A i \in 1 .. Len(st) : i \in 1 .. Len(hist)
    BY <2>3, <1>b
  <2>5. PrefixOf(st, hist')
    BY <2>1, <2>3, <2>4, <1>b, <1>h DEF PrefixOf
  <2> QED
    BY <2>1, <2>2, <2>5 DEF Image
<1>5. SnapsInv'
  BY <1>j, <1>4 DEF SnapsInv
<1>6. promised' = promised /\ acked' = acked /\ staged' = staged => PromiseInv'
  <2> SUFFICES ASSUME promised' = promised, acked' = acked, staged' = staged PROVE PromiseInv'
    OBVIOUS
  <2>1. ASSUME NEW f \in DOMAIN files', Newest(f)'
        PROVE  \E g \in DOMAIN files :
                 /\ Newest(g)
                 /\ Begin(hist', f) + files'[f].durable \in Nat
                 /\ Begin(hist, g) + files[g].durable <= Begin(hist', f) + files'[f].durable
    <3>1. f = cur
      BY <2>1, <1>d, <1>n
    <3>2. files[cur].durable \in Nat /\ Begin(hist', cur) = Begin(hist, cur)
      BY <1>h, FileTypes
    <3>3. Begin(hist, cur) + files[cur].durable <= Begin(hist', cur) + files'[cur].durable
      BY <1>b, <1>d, <3>2
    <3> QED
      BY <1>b, <1>d, <3>1, <3>2, <3>3, SMTT(40)
  <2>2. Len(hist') \in Nat /\ Len(hist) <= Len(hist')
    BY <1>b, <1>h
  <2> QED
    BY <2>1, <2>2, <1>h, PromiseCarry
<1> QED
  BY <1>3, <1>4, <1>5, <1>6

\* onCommand up to its write-ahead record.
LEMMA AppendStep ==
  ASSUME TypeOK, Dependable, RecoveryInv, AppendCommand
  PROVE  RecoveryInv'
<1>1. /\ phase = "up" /\ phase' = "up" /\ ~failed /\ pc = "idle" /\ pc' = "apply"
      /\ batch' = Group /\ pub' = pub
      /\ UNCHANGED <<shard, snaps, cur, lossy, eng, failed, acked, promised, staged>>
  BY DEF AppendCommand, Deliver
<1>2. PICK clock \in ClockReadings : lastTs' = NextTs(clock) /\ Append_(NextTs(clock))
  BY DEF AppendCommand
<1> DEFINE t == NextTs(clock)
<1>3. t \in Nat /\ t > lastTs
  BY MemoryTypes, DeploymentType, NextTsAdvances
<1>4. hist' = Append(hist, t) /\ lastTs' = t
  BY <1>2 DEF Append_
<1>5. /\ faults' = faults \/ (faults < MaxFaults /\ faults' = faults + 1)
      /\ \/ files' = [files EXCEPT ![cur] = Synced(Written(@, t))]
         \/ /\ files' = [files EXCEPT ![cur] = Written(@, t)]
            /\ Mode = "Full" => "fsync" \in Faults
  BY <1>2, StrikesCounts DEF Append_
<1> HIDE DEF t
<1>o. cur \in DOMAIN files
  BY <1>1, OpenFile
<1>6. PICK v : /\ files' = [files EXCEPT ![cur] = v]
               /\ v = Synced(Written(files[cur], t)) \/ v = Written(files[cur], t)
               /\ Mode = "Full" /\ "fsync" \notin Faults => v = Synced(Written(files[cur], t))
  BY <1>5
<1>7. /\ v.recs = Append(files[cur].recs, t)
      /\ v.durable \in Nat /\ v.durable <= Len(v.recs) /\ files[cur].durable <= v.durable
      /\ Mode = "Full" /\ "fsync" \notin Faults => v.durable = Len(v.recs)
  <2>1. /\ files[cur].recs \in Seq(Nat) /\ files[cur].durable \in Nat /\ Len(files[cur].recs) \in Nat
    BY <1>o, FileTypes
  <2>2. files[cur].durable <= Len(files[cur].recs)
    BY <1>o DEF RecoveryInv, JournalInv, FileInv
  <2>3. v.recs = Append(files[cur].recs, t)
    BY <1>6 DEF Synced, Written
  <2>4. Len(v.recs) = Len(files[cur].recs) + 1
    BY <2>1, <2>3, <1>3
  <2>5. v.durable = files[cur].durable \/ v.durable = Len(v.recs)
    BY <1>6 DEF Synced, Written
  <2>6. Mode = "Full" /\ "fsync" \notin Faults => v.durable = Len(v.recs)
    BY <1>6 DEF Synced, Written
  <2> QED
    BY <2>1, <2>2, <2>3, <2>4, <2>5, <2>6
<1>8. /\ JournalInv' /\ SnapsInv'
      /\ \A s, st, at : Image(s, st, at) => Image(s, st, at)'
      /\ PromiseInv'
  BY <1>1, <1>3, <1>4, <1>6, <1>7, AppendKeepsJournal
<1>9. PubInv'
  BY <1>1, <1>8 DEF RecoveryInv, PubInv, Intact, Retained, Retain
<1>10. RotInv'
  <2>1. faults' \in Nat /\ faults <= faults' /\ faults' <= MaxFaults
    BY <1>5, SnapTypes DEF RecoveryInv, RotInv
  <2> QED
    BY <1>1, <2>1, RotFrame DEF RecoveryInv
<1>11. RestInv' /\ ReplayInv'
  BY <1>1 DEF RestInv, ReplayInv
<1>12. ServingInv'
  <2>1. eng = hist /\ ~lossy /\ cur <= lastTs /\ \A i \in 1 .. Len(hist) : hist[i] <= lastTs
    BY <1>1 DEF RecoveryInv, ServingInv
  <2>2. cur \in DOMAIN files' /\ files'[cur] = v
    BY <1>o, <1>6
  <2>3. cur < t
    BY <1>3, <2>1, MemoryTypes
  <2>4. \A i \in 1 .. Len(hist') : hist'[i] <= t
    <3>1. Len(hist') = Len(hist) + 1
      BY <1>4, MemoryTypes
    <3>2. ASSUME NEW i \in 1 .. Len(hist') PROVE hist'[i] <= t
      <4>1. CASE i \in 1 .. Len(hist)
        <5>1. hist'[i] = hist[i] /\ hist[i] \in Int /\ hist[i] <= lastTs
          BY <1>4, <2>1, <4>1, MemoryTypes
        <5> QED
          BY <5>1, <1>3, MemoryTypes
      <4>2. CASE i \notin 1 .. Len(hist)
        <5>1. i = Len(hist) + 1
          BY <3>1, <4>2, MemoryTypes
        <5>2. hist'[i] = t
          BY <5>1, <1>4, MemoryTypes
        <5> QED
          BY <5>2, <1>3
      <4> QED
        BY <4>1, <4>2
    <3> QED
      BY <3>2
  <2>5. "fsync" \notin Faults' /\ Mode' = "Full" => Covered(cur)'
    BY <1>1, <1>7, <2>2 DEF Covered, Faults, Mode
  <2>6. hist' = Append(eng', lastTs') /\ cur' < lastTs' /\ cur' <= lastTs'
    BY <1>1, <1>3, <1>4, <2>1, <2>3, MemoryTypes
  <2>7. Group' = Group
    BY <1>1 DEF Group, Mode
  <2> QED
    BY <1>1, <1>4, <2>1, <2>2, <2>4, <2>5, <2>6, <2>7 DEF ServingInv
<1> QED
  BY <1>8, <1>9, <1>10, <1>11, <1>12 DEF RecoveryInv

\* The files hold what they held, perhaps more of it durable, and history is cut
\* at most behind the end of the newest: the directory stays sound.
LEMMA JournalKept ==
  ASSUME TypeOK, JournalInv, SnapsInv,
         DOMAIN files' = DOMAIN files,
         \A f \in DOMAIN files : /\ files'[f].recs = files[f].recs
                                 /\ files'[f].durable \in Nat
                                 /\ files[f].durable <= files'[f].durable
                                 /\ files'[f].durable <= Len(files[f].recs),
         hist' \in Seq(Int), PrefixOf(hist', hist),
         \A f \in DOMAIN files : EndOf(f) <= Len(hist'),
         UNCHANGED <<shard, snaps>>,
         cur' \in DOMAIN files => Newest(cur'),
         lossy' => lossy,
         ~lossy' => \A f \in DOMAIN files : Newest(f) => EndOf(f) = Len(hist'),
         DOMAIN files = {} => hist' = <<>> /\ phase' = "down"
  PROVE  /\ JournalInv' /\ SnapsInv'
         /\ \A s, st, at : Image(s, st, at) => Image(s, st, at)'
<1>b. /\ Len(hist) \in Nat /\ Len(hist') \in Nat /\ Len(hist') <= Len(hist)
      /\ \A f \in DOMAIN files : /\ Begin(hist, f) \in Nat /\ EndOf(f) \in Nat
                                 /\ Begin(hist, f) <= EndOf(f) /\ EndOf(f) <= Len(hist)
                                 /\ EndOf(f) = Begin(hist, f) + Len(files[f].recs)
                                 /\ Len(files[f].recs) \in Nat /\ f \in Int
  BY Bounds, MemoryTypes, FileTypes DEF PrefixOf
<1>h. /\ Increasing(hist')
      /\ \A i \in 1 .. Len(hist') : hist'[i] = hist[i]
      /\ \A f \in DOMAIN files : /\ Begin(hist', f) = Begin(hist, f)
                                 /\ StartsAt(hist', f, Begin(hist', f))
  <2>0. hist \in Seq(Int) /\ Increasing(hist)
    BY MemoryTypes DEF JournalInv
  <2>1. Increasing(hist')
    BY <2>0, BeginPrefix
  <2>2. \A i \in 1 .. Len(hist') : hist'[i] = hist[i]
    BY DEF PrefixOf
  <2>3. ASSUME NEW f \in DOMAIN files
        PROVE  Begin(hist', f) = Begin(hist, f) /\ StartsAt(hist', f, Begin(hist', f))
    <3>1. StartsAt(hist, f, Begin(hist, f))
      BY DEF JournalInv, FileInv
    <3>2. Begin(hist, f) <= Len(hist')
      BY <1>b
    <3> QED
      BY <1>b, <2>0, <3>1, <3>2, BeginPrefix
  <2> QED
    BY <2>1, <2>2, <2>3
<1>i. Intact' = Intact /\ Faults' = Faults
  BY DEF Intact, Retained, Retain, Faults
<1>n. \A f : Newest(f)' = Newest(f)
  BY DEF Newest
<1>f. \A f, g : Follows(f, g)' = Follows(f, g)
  BY DEF Follows
<1>e. \A f \in DOMAIN files : EndOf(f)' = EndOf(f)
  BY <1>h DEF EndOf
<1>1. ASSUME NEW f \in DOMAIN files PROVE FileInv(f)'
  <2>0. FileInv(f)
    BY DEF JournalInv
  <2>1. \A j \in 1 .. Len(files[f].recs) : files[f].recs[j] = hist'[Begin(hist, f) + j]
    <3> SUFFICES ASSUME NEW j \in 1 .. Len(files[f].recs)
                 PROVE  files[f].recs[j] = hist'[Begin(hist, f) + j]
      OBVIOUS
    <3>0. /\ Begin(hist, f) \in Nat /\ Len(files[f].recs) \in Nat /\ Len(hist') \in Nat
          /\ Begin(hist, f) + Len(files[f].recs) <= Len(hist')
      BY <1>b
    <3>1. Begin(hist, f) + j \in 1 .. Len(hist')
      BY <3>0
    <3> QED
      BY <3>1, <1>h, <2>0 DEF FileInv
  <2>2. Covered(f) => Covered(f)'
    BY <1>b, FileTypes DEF Covered
  <2> QED
    BY <1>e, <1>h, <1>i, <1>n, <2>0, <2>1, <2>2 DEF FileInv
<1>2. ChainInv'
  BY <1>e, <1>f, <1>h, <1>i, <1>n DEF ChainInv, JournalInv
<1>3. JournalInv'
  BY <1>1, <1>2, <1>h, <1>i, <1>n DEF JournalInv
<1>4. ASSUME NEW s, NEW st, NEW at, Image(s, st, at) PROVE Image(s, st, at)'
  <2>1. s \in DOMAIN files /\ s # 0 /\ at = s /\ Len(st) = Begin(hist, s) /\ PrefixOf(st, hist)
    BY <1>4 DEF Image
  <2>2. Len(st) = Begin(hist', s) /\ s \in DOMAIN files'
    BY <2>1, <1>h
  <2>3. Len(st) \in Nat /\ Len(st) <= Len(hist')
    BY <2>1, <1>b
  <2>4. \A i \in 1 .. Len(st) : i \in 1 .. Len(hist')
    BY <2>3, <1>b
  <2>5. PrefixOf(st, hist')
    BY <2>1, <2>3, <2>4, <1>b, <1>h DEF PrefixOf
  <2> QED
    BY <2>1, <2>2, <2>5 DEF Image
<1>5. SnapsInv'
  BY <1>4 DEF SnapsInv
<1> QED
  BY <1>3, <1>4, <1>5

\* An fsync that does what it reports, or does nothing.
LEMMA SyncKeeps ==
  ASSUME TypeOK, RecoveryInv, NEW c \in DOMAIN files,
         files' = [files EXCEPT ![c] = Synced(@)] \/ files' = files,
         UNCHANGED <<shard, snaps, hist, cur, lossy>>
  PROVE  /\ JournalInv' /\ SnapsInv'
         /\ \A s, st, at : Image(s, st, at) => Image(s, st, at)'
         /\ /\ promised' \cup acked' \subseteq promised \cup acked
            /\ staged' = staged \/ staged' = <<>>
            => PromiseInv'
         /\ DOMAIN files' = DOMAIN files
         /\ \A f \in DOMAIN files : files'[f].recs = files[f].recs
<1>j. JournalInv /\ SnapsInv
  BY DEF RecoveryInv
<1>1. DOMAIN files' = DOMAIN files
  OBVIOUS
<1>2. ASSUME NEW f \in DOMAIN files
      PROVE  /\ files'[f].recs = files[f].recs
             /\ files'[f].durable \in Nat
             /\ files[f].durable <= files'[f].durable
             /\ files'[f].durable <= Len(files[f].recs)
  <2>1. /\ files[f].durable \in Nat /\ Len(files[f].recs) \in Nat
    BY FileTypes
  <2>2. files[f].durable <= Len(files[f].recs)
    BY <1>j DEF JournalInv, FileInv
  <2>3. files'[f] = files[f] \/ files'[f] = Synced(files[f])
    OBVIOUS
  <2> QED
    BY <2>1, <2>2, <2>3 DEF Synced
<1>3. hist' \in Seq(Int) /\ PrefixOf(hist', hist) /\ Len(hist') \in Nat
  BY MemoryTypes DEF PrefixOf
<1>4. \A f \in DOMAIN files : EndOf(f) <= Len(hist')
  BY <1>j, Bounds
<1>5. cur' \in DOMAIN files => Newest(cur')
  BY <1>j DEF JournalInv
<1>6. ~lossy' => \A f \in DOMAIN files : Newest(f) => EndOf(f) = Len(hist')
  BY <1>j DEF JournalInv, ChainInv
<1>7. /\ JournalInv' /\ SnapsInv'
      /\ \A s, st, at : Image(s, st, at) => Image(s, st, at)'
  BY <1>j, <1>1, <1>2, <1>3, <1>4, <1>5, <1>6, JournalKept
<1>8. ASSUME promised' \cup acked' \subseteq promised \cup acked, staged' = staged \/ staged' = <<>>
      PROVE  PromiseInv'
  <2>1. ASSUME NEW f \in DOMAIN files', Newest(f)'
        PROVE  \E g \in DOMAIN files :
                 /\ Newest(g)
                 /\ Begin(hist', f) + files'[f].durable \in Nat
                 /\ Begin(hist, g) + files[g].durable <= Begin(hist', f) + files'[f].durable
    <3>1. f \in DOMAIN files /\ Newest(f)
      BY <1>1, <2>1 DEF Newest
    <3>2. /\ Begin(hist, f) \in Nat /\ files[f].durable \in Nat /\ files'[f].durable \in Nat
          /\ files[f].durable <= files'[f].durable /\ Begin(hist', f) = Begin(hist, f)
      BY <3>1, <1>2, <1>j, Bounds, FileTypes
    <3>3. /\ Begin(hist', f) + files'[f].durable \in Nat
          /\ Begin(hist, f) + files[f].durable <= Begin(hist', f) + files'[f].durable
      BY <3>2
    <3> QED
      BY <3>1, <3>3
  <2>2. Len(hist) <= Len(hist') /\ \A i \in 1 .. Len(hist) : hist'[i] = hist[i]
    BY MemoryTypes
  <2> QED
    BY <1>3, <1>8, <2>1, <2>2, PromiseCarry
<1> QED
  BY <1>1, <1>2, <1>7, <1>8

\* The barrier of a batch, and the flush that precedes a rotation.
LEMMA SyncStep ==
  ASSUME TypeOK, RecoveryInv, BatchSync \/ RotateFlush
  PROVE  RecoveryInv'
<1> USE DEF engine, journal, requests, recovery, ghosts
<1>1. /\ phase = "up" /\ phase' = "up" /\ pub' = pub /\ Fsync
      /\ (pc = "idle" /\ batch /\ pc' = "publish") \/ (pc = "cut" /\ pc' = "rotate")
      /\ UNCHANGED <<shard, snaps, hist, cur, lossy, eng, lastTs, lastBatchTs, batch, failed,
                     staged, acked, promised>>
  BY DEF BatchSync, RotateFlush
<1>o. cur \in DOMAIN files
  BY <1>1, OpenFile
<1>2. /\ files' = [files EXCEPT ![cur] = Synced(@)] \/ files' = files
      /\ "fsync" \notin Faults => files' = [files EXCEPT ![cur] = Synced(@)]
      /\ faults' = faults \/ (faults < MaxFaults /\ faults' = faults + 1)
  BY <1>1, StrikesCounts DEF Fsync
<1>3. /\ JournalInv' /\ SnapsInv' /\ PromiseInv' /\ DOMAIN files' = DOMAIN files
      /\ \A s, st, at : Image(s, st, at) => Image(s, st, at)'
  BY <1>1, <1>2, <1>o, SyncKeeps
<1>4. PubInv'
  BY <1>1, <1>3 DEF RecoveryInv, PubInv, Intact, Retained, Retain
<1>5. RotInv'
  <2>1. faults' \in Nat /\ faults <= faults' /\ faults' <= MaxFaults
    BY <1>2, SnapTypes DEF RecoveryInv, RotInv
  <2> QED
    BY <1>1, <2>1, RotFrame DEF RecoveryInv
<1>6. RestInv' /\ ReplayInv'
  BY <1>1 DEF RestInv, ReplayInv
<1>7. "fsync" \notin Faults => Covered(cur)'
  BY <1>1, <1>2, <1>o DEF Covered, Synced
<1>8. ServingInv'
  <2>1. Faults' = Faults /\ Mode' = Mode /\ Group' = Group /\ AtBoundary' = AtBoundary
    BY <1>1 DEF Faults, Mode, Group, AtBoundary
  <2> QED
    BY <1>1, <1>3, <1>7, <2>1 DEF RecoveryInv, ServingInv
<1> QED
  BY <1>3, <1>4, <1>5, <1>6, <1>8 DEF RecoveryInv

\* Rotation: a new, empty file behind all of history, and its image.
LEMMA RotateStep ==
  ASSUME TypeOK, RecoveryInv, RotateReopen
  PROVE  RecoveryInv'
<1> USE DEF engine, requests, recovery, ghosts, bounds
<1>p. PICK t : t = lastBatchTs
  OBVIOUS
<1>1. /\ phase = "up" /\ phase' = "up" /\ pc = "rotate" /\ pc' = "idle"
      /\ files' = With(files, t, Empty) /\ cur' = t
      /\ pub' = [NoPub EXCEPT !.pc = "write", !.ts = t, !.st = eng, !.at = lastTs]
      /\ UNCHANGED <<shard, snaps, hist, lossy, eng, lastTs, lastBatchTs, batch, failed,
                     staged, acked, promised, faults>>
  BY <1>p DEF RotateReopen
<1>j. JournalInv /\ SnapsInv /\ ServingInv
  BY DEF RecoveryInv
<1>2. /\ t = lastTs /\ hist # <<>> /\ hist[Len(hist)] = t /\ cur < t /\ eng = hist /\ ~failed /\ ~batch
      /\ "fsync" \notin Faults => Covered(cur)
  BY <1>1, <1>j, <1>p DEF ServingInv, AtBoundary
<1>3. /\ t \in Nat /\ t # 0 /\ Len(hist) \in Nat /\ Len(hist) # 0 /\ hist \in Seq(Int) /\ cur \in Nat
  BY <1>2, MemoryTypes
<1>o. /\ cur \in DOMAIN files /\ Newest(cur) /\ ~lossy /\ EndOf(cur) = Len(hist)
      /\ \A f \in DOMAIN files : f \in Nat /\ f <= cur
  BY <1>1, OpenFile, FileTypes DEF Newest
<1>4. \A f \in DOMAIN files : f < t /\ f # t
  BY <1>2, <1>3, <1>o
<1>d. /\ DOMAIN files' = DOMAIN files \cup {t} /\ files'[t] = Empty
      /\ \A f \in DOMAIN files : files'[f] = files[f]
  BY <1>1, <1>4 DEF With
<1>5. /\ StartsAt(hist, t, Len(hist)) /\ Begin(hist, t) = Len(hist)
  <2>1. StartsAt(hist, t, Len(hist))
    BY <1>2, <1>3 DEF StartsAt
  <2> QED
    BY <1>3, <1>j, <2>1, BeginUnique DEF JournalInv
<1>b. \A f \in DOMAIN files : /\ Begin(hist, f) \in Nat /\ EndOf(f) \in Nat /\ EndOf(f) <= Len(hist)
  BY <1>j, Bounds
<1>i. Intact' = Intact /\ Faults' = Faults
  BY <1>1 DEF Intact, Retained, Retain, Faults
<1>e. /\ EndOf(t)' = Len(hist) /\ \A f \in DOMAIN files : EndOf(f)' = EndOf(f)
  <2>1. \A f \in DOMAIN files : EndOf(f)' = EndOf(f)
    BY <1>1, <1>d DEF EndOf
  <2>2. EndOf(t)' = Len(hist) + 0
    BY <1>1, <1>d, <1>5 DEF EndOf, Empty
  <2> QED
    BY <1>3, <2>1, <2>2
<1>n. Newest(t)' /\ \A f \in DOMAIN files : ~Newest(f)'
  BY <1>3, <1>4, <1>d, <1>o DEF Newest
<1>6. ASSUME NEW f \in DOMAIN files' PROVE FileInv(f)'
  <2>1. CASE f = t
    <3>1. EndOf(t)' <= Len(hist')
      BY <1>1, <1>3, <1>e
    <3> QED
      BY <1>1, <1>5, <1>d, <1>n, <2>1, <3>1 DEF FileInv, Empty
  <2>2. CASE f # t
    <3>1. f \in DOMAIN files /\ FileInv(f)
      BY <1>d, <1>j, <2>2 DEF JournalInv
    <3>2. Covered(f)' = Covered(f)
      BY <1>d, <3>1 DEF Covered
    <3>3. "fsync" \notin Faults => Covered(f)
      <4>1. CASE f = cur
        BY <1>2, <4>1
      <4>2. CASE f # cur
        <5>1. ~Newest(f)
          BY <1>1, <3>1, <4>2, OpenFile
        <5> QED
          BY <3>1, <5>1 DEF FileInv
      <4> QED
        BY <4>1, <4>2
    <3> QED
      BY <1>1, <1>d, <1>e, <1>i, <3>1, <3>2, <3>3 DEF FileInv
  <2> QED
    BY <2>1, <2>2
<1>7. ChainInv'
  <2>1. ASSUME NEW f \in DOMAIN files', NEW g \in DOMAIN files', f < g
        PROVE  EndOf(f)' <= Begin(hist', g)
    <3>1. f \in DOMAIN files
      BY <2>1, <1>3, <1>4, <1>d, <1>o
    <3>2. CASE g = t
      BY <1>1, <1>5, <1>b, <1>e, <3>1, <3>2
    <3>3. CASE g # t
      BY <1>1, <1>d, <1>e, <1>j, <2>1, <3>1, <3>3 DEF JournalInv, ChainInv
    <3> QED
      BY <3>2, <3>3
  <2>2. ASSUME NEW f \in DOMAIN files', NEW g \in DOMAIN files', Follows(f, g)', f # 0 \/ Intact
        PROVE  EndOf(f)' = Begin(hist', g)
    <3>1. f < g /\ f \in DOMAIN files
      BY <2>2, <1>3, <1>4, <1>d, <1>o DEF Follows
    <3>2. CASE g = t
      <4>1. f = cur
        BY <1>3, <1>4, <1>d, <1>o, <2>2, <3>1, <3>2 DEF Follows
      <4> QED
        BY <4>1, <3>2, <1>1, <1>5, <1>e, <1>o
    <3>3. CASE g # t
      <4>1. g \in DOMAIN files /\ Follows(f, g)
        BY <1>d, <2>2, <3>1, <3>3 DEF Follows
      <4> QED
        BY <4>1, <1>1, <1>e, <1>j, <2>2, <3>1 DEF JournalInv, ChainInv
    <3> QED
      BY <3>2, <3>3
  <2>3. ASSUME NEW f \in DOMAIN files', Newest(f)' PROVE EndOf(f)' = Len(hist')
    BY <2>3, <1>1, <1>d, <1>e, <1>n
  <2> QED
    BY <2>1, <2>2, <2>3, <1>i DEF ChainInv
<1>8. JournalInv'
  BY <1>1, <1>2, <1>6, <1>7, <1>d, <1>i, <1>j, <1>n, <1>o DEF JournalInv
<1>9. \A s, st, at : Image(s, st, at) => Image(s, st, at)'
  BY <1>1, <1>d DEF Image
<1>10. SnapsInv'
  BY <1>1, <1>9, <1>j DEF SnapsInv
<1>11. PubInv'
  <2>1. /\ pub'.pc = "write" /\ pub'.ts = t /\ pub'.st = eng /\ pub'.at = lastTs
        /\ pub'.keep = 0 /\ pub'.legacy = FALSE
    BY <1>1 DEF NoPub
  <2>2. Image(pub.ts, pub.st, pub.at)'
    BY <2>1, <1>1, <1>2, <1>3, <1>5, <1>d DEF Image, PrefixOf
  <2> QED
    BY <2>1, <2>2 DEF PubInv
<1>12. RotInv'
  BY <1>1, RotFrame, SnapTypes DEF RecoveryInv, RotInv
<1>13. RestInv' /\ ReplayInv'
  BY <1>1 DEF RestInv, ReplayInv
<1>14. ServingInv'
  BY <1>1, <1>2, <1>3, <1>d, <1>j, <1>o DEF ServingInv
<1>15. PromiseInv'
  <2>1. ASSUME NEW f \in DOMAIN files', Newest(f)'
        PROVE  \E g \in DOMAIN files :
                 /\ Newest(g)
                 /\ Begin(hist', f) + files'[f].durable \in Nat
                 /\ Begin(hist, g) + files[g].durable <= Begin(hist', f) + files'[f].durable
    <3>1. f = t
      BY <2>1, <1>d, <1>n
    <3>2. Begin(hist', f) + files'[f].durable = Len(hist)
      BY <3>1, <1>1, <1>3, <1>5, <1>d DEF Empty
    <3>3. files[cur].durable \in Nat /\ files[cur].durable <= Len(files[cur].recs)
      BY <1>j, <1>o, FileTypes DEF JournalInv, FileInv
    <3>4. Begin(hist, cur) \in Nat /\ Begin(hist, cur) + Len(files[cur].recs) = Len(hist)
      BY <1>b, <1>o DEF EndOf
    <3>5. Len(files[cur].recs) \in Nat
      BY <1>o, FileTypes
    <3>6. Begin(hist, cur) + files[cur].durable <= Len(hist)
      BY <3>3, <3>4, <3>5
    <3> QED
      BY <3>2, <3>6, <1>3, <1>o
  <2> QED
    BY <2>1, <1>1, <1>3, PromiseCarry
<1> QED
  BY <1>8, <1>10, <1>11, <1>12, <1>13, <1>14, <1>15 DEF RecoveryInv

-----------------------------------------------------------------------------
(* The background publish *)

\* Snapshots come and go: the journal does not mind as long as an intact
\* directory does not come back.
LEMMA SnapsChange ==
  ASSUME JournalInv, UNCHANGED <<shard, files, hist, cur, lossy, phase>>, Intact' => Intact
  PROVE  JournalInv' /\ \A s, st, at : Image(s, st, at)' = Image(s, st, at)
<1>1. Faults' = Faults
  BY DEF Faults
<1>2. \A f : EndOf(f)' = EndOf(f) /\ Newest(f)' = Newest(f) /\ Covered(f)' = Covered(f)
  BY DEF EndOf, Newest, Covered
<1>3. \A f, g : Follows(f, g)' = Follows(f, g)
  BY DEF Follows
<1>4. \A f \in DOMAIN files : FileInv(f)'
  BY <1>1, <1>2 DEF FileInv, JournalInv
<1>5. ChainInv'
  BY <1>2, <1>3 DEF ChainInv, JournalInv
<1>6. JournalInv'
  BY <1>1, <1>2, <1>4, <1>5 DEF JournalInv
<1>7. \A s, st, at : Image(s, st, at)' = Image(s, st, at)
  BY DEF Image
<1> QED
  BY <1>6, <1>7

\* The consumer does not notice what the background task does.
LEMMA ServingFrame ==
  ASSUME ServingInv, Publisher' = Publisher, cur \in DOMAIN files' , files'[cur] = files[cur]
  PROVE  ServingInv'
<1>1. UNCHANGED <<shard, phase, eng, lastTs, lastBatchTs, cur, staged, failed, batch, pc, hist, lossy>>
  BY DEF Publisher, engine, journal, ghosts
<1>2. Faults' = Faults /\ Mode' = Mode /\ Group' = Group /\ AtBoundary' = AtBoundary
  BY <1>1 DEF Faults, Mode, Group, AtBoundary
<1>3. Covered(cur)' = Covered(cur)
  BY <1>1 DEF Covered
<1> QED
  BY <1>1, <1>2, <1>3 DEF ServingInv

\* Fewer or no more rotten snapshots.
LEMMA RotSubset ==
  ASSUME TypeOK, SnapsInv, RotInv, shard' = shard, faults' = faults,
         DOMAIN snaps' \ Valid' \subseteq DOMAIN snaps \ Valid,
         Valid' \subseteq DOMAIN snaps'
  PROVE  RotInv'
<1>1. MaxFaults' = MaxFaults /\ Faults' = Faults
  BY DEF MaxFaults, Faults
<1>2. IsFiniteSet(DOMAIN snaps \ Valid)
  BY FS_Difference DEF SnapsInv
<1>3. /\ IsFiniteSet(DOMAIN snaps' \ Valid')
      /\ Cardinality(DOMAIN snaps' \ Valid') <= Cardinality(DOMAIN snaps \ Valid)
  BY <1>2, FS_Subset
<1>4. Cardinality(DOMAIN snaps' \ Valid') \in Nat /\ Cardinality(DOMAIN snaps \ Valid) \in Nat
  BY <1>2, <1>3, FS_CardinalityType
<1>5. Cardinality(DOMAIN snaps' \ Valid') <= faults
  BY <1>3, <1>4, SnapTypes DEF RotInv
<1>6. "rot" \notin Faults => Valid' = DOMAIN snaps'
  BY DEF RotInv
<1> QED
  BY <1>1, <1>5, <1>6 DEF RotInv

\* The publish moves on without touching the directory.
LEMMA PubMoves ==
  ASSUME TypeOK, RecoveryInv, PubWrite \/ PubFails \/ PubScan
  PROVE  RecoveryInv'
<1>1. /\ DiskKept /\ phase = "up" /\ phase' = "up" /\ Publisher' = Publisher
      /\ UNCHANGED <<staged, acked, promised>>
      /\ faults' = faults \/ (faults < MaxFaults /\ faults' = faults + 1)
  BY StrikesCounts DEF PubWrite, PubFails, PubScan, DiskKept, Publisher, disk, journal, ghosts
<1>2. JournalInv' /\ SnapsInv' /\ RotInv' /\ RestInv' /\ ReplayInv'
  BY <1>1, UpFrame
<1>3. PromiseInv'
  BY <1>1, PromiseFrame DEF RecoveryInv
<1>4. ServingInv'
  BY <1>1, OpenFile, ServingFrame DEF RecoveryInv, DiskKept
<1>i. /\ Intact' = Intact /\ Retained' = Retained /\ snaps' = snaps
      /\ \A s, st, at : Image(s, st, at)' = Image(s, st, at)
  BY <1>1 DEF DiskKept, Intact, Retained, Retain, Image
<1>5. PubInv'
  <2>0. PubInv /\ pub \in Publish
    BY SnapTypes DEF RecoveryInv
  <2>1. CASE PubWrite
    <3>1. /\ pub.pc = "write" /\ pub'.pc = "rename" /\ pub'.ts = pub.ts /\ pub'.st = pub.st
          /\ pub'.at = pub.at /\ pub'.keep = pub.keep /\ pub'.legacy = pub.legacy
      BY <2>0, <2>1 DEF PubWrite, Publish
    <3> QED
      BY <2>0, <3>1, <1>i DEF PubInv
  <2>2. CASE PubFails
    BY <2>2 DEF PubFails, PubInv, NoPub
  <2>3. CASE PubScan
    <3>0. pub.pc = "scan" /\ pub.keep = 0 /\ ~pub.legacy
      BY <2>0, <2>3 DEF PubScan, PubInv
    <3>c. Cardinality(DOMAIN snaps) \in Nat /\ Retained \in Nat
      BY SnapTypes, FS_CardinalityType DEF RecoveryInv, SnapsInv
    <3>1. CASE pub' = [pub EXCEPT !.pc = "prune"]
      <4>1. pub'.pc = "prune" /\ pub'.keep = 0 /\ pub'.legacy = pub.legacy
        BY <2>0, <3>0, <3>1 DEF Publish
      <4> QED
        BY <3>0, <4>1 DEF PubInv
    <3>2. CASE /\ Cardinality(DOMAIN snaps) = Retained
               /\ pub' = [pub EXCEPT !.pc = "prune", !.legacy = TRUE]
      <4>1. pub'.pc = "prune" /\ pub'.keep = 0
        BY <2>0, <3>0, <3>2 DEF Publish
      <4>2. ~Intact
        BY <3>2, <3>c DEF Intact
      <4> QED
        BY <4>1, <4>2, <1>i DEF PubInv
    <3>3. ASSUME Cardinality(DOMAIN snaps) > Retained, NEW k \in DOMAIN snaps,
                 Cardinality({s \in DOMAIN snaps : s >= k}) = Retained,
                 pub' = [pub EXCEPT !.pc = "prune", !.keep = k, !.legacy = TRUE]
          PROVE  PubInv'
      <4>1. pub'.pc = "prune" /\ pub'.keep = k
        BY <2>0, <3>3 DEF Publish
      <4>2. ~Intact
        BY <3>3, <3>c DEF Intact
      <4>3. Cardinality({s \in DOMAIN snaps : s >= k}) >= Retained
        BY <3>3, <3>c
      <4> QED
        BY <4>1, <4>2, <4>3, <1>i DEF PubInv
    <3> QED
      BY <2>3, <3>1, <3>2, <3>3 DEF PubScan
  <2> QED
    BY <2>1, <2>2, <2>3
<1> QED
  BY <1>2, <1>3, <1>4, <1>5 DEF RecoveryInv

\* A snapshot appears under its name.
LEMMA RenameStep ==
  ASSUME TypeOK, RecoveryInv, PubRename
  PROVE  RecoveryInv'
<1>1. /\ phase = "up" /\ phase' = "up" /\ Publisher' = Publisher /\ pub.pc = "rename"
      /\ UNCHANGED <<shard, files, hist, cur, lossy, staged, acked, promised, faults>>
      /\ snaps' = With(snaps, pub.ts, Serialized)
      /\ pub' = [pub EXCEPT !.pc = "scan"]
  BY DEF PubRename, Publisher, journal, ghosts
<1>2. /\ DOMAIN snaps' = DOMAIN snaps \cup {pub.ts} /\ snaps'[pub.ts] = Serialized
      /\ \A s \in DOMAIN snaps : s # pub.ts => snaps'[s] = snaps[s]
  BY <1>1 DEF With
<1>f. IsFiniteSet(DOMAIN snaps) /\ Cardinality(DOMAIN snaps) \in Nat
  BY FS_CardinalityType DEF RecoveryInv, SnapsInv
<1>3. /\ IsFiniteSet(DOMAIN snaps') /\ Cardinality(DOMAIN snaps') \in Nat
      /\ Cardinality(DOMAIN snaps) <= Cardinality(DOMAIN snaps')
  BY <1>2, <1>f, FS_AddElement
<1>4. Retained' = Retained /\ Retained \in Nat
  BY <1>1, SnapTypes DEF Retained, Retain
<1>5. Intact' => Intact
  BY <1>3, <1>4, <1>f DEF Intact
<1>6. JournalInv' /\ \A s, st, at : Image(s, st, at)' = Image(s, st, at)
  BY <1>1, <1>5, SnapsChange DEF RecoveryInv
<1>7. SnapsInv'
  <2>1. Image(pub.ts, pub.st, pub.at)
    BY <1>1 DEF RecoveryInv, PubInv
  <2>2. ASSUME NEW s \in DOMAIN snaps' PROVE Image(s, snaps'[s].st, snaps'[s].at)
    <3>1. CASE s = pub.ts
      BY <3>1, <1>2, <2>1 DEF Serialized
    <3>2. CASE s # pub.ts
      BY <3>2, <1>2 DEF RecoveryInv, SnapsInv
    <3> QED
      BY <3>1, <3>2
  <2> QED
    BY <1>3, <1>6, <2>2 DEF SnapsInv
<1>8. PubInv'
  <2>1. pub'.pc = "scan" /\ pub'.keep = pub.keep /\ pub'.legacy = pub.legacy
    BY <1>1, SnapTypes DEF Publish
  <2> QED
    BY <1>1, <2>1 DEF RecoveryInv, PubInv
<1>9. RotInv'
  <2>1. DOMAIN snaps' \ Valid' \subseteq DOMAIN snaps \ Valid
    BY <1>2 DEF Valid, Serialized
  <2>2. Valid' \subseteq DOMAIN snaps'
    BY DEF Valid
  <2>3. "rot" \notin Faults => Valid' = DOMAIN snaps'
    BY <2>1, <2>2 DEF RecoveryInv, RotInv
  <2> QED
    BY <1>1, <2>1, <2>2, <2>3, RotSubset DEF RecoveryInv
<1>10. RestInv' /\ ReplayInv'
  BY <1>1 DEF RestInv, ReplayInv
<1>11. ServingInv'
  BY <1>1, OpenFile, ServingFrame DEF RecoveryInv
<1>12. PromiseInv'
  BY <1>1 DEF RecoveryInv, PromiseInv, Within, Newest, Faults
<1> QED
  BY <1>6, <1>7, <1>8, <1>9, <1>10, <1>11, <1>12 DEF RecoveryInv

\* A snapshot below the ones that are kept goes.
LEMMA PruneSnapshotStep ==
  ASSUME TypeOK, RecoveryInv, PruneSnapshot
  PROVE  RecoveryInv'
<1>1. /\ phase = "up" /\ phase' = "up" /\ Publisher' = Publisher /\ pub.pc = "prune" /\ pub' = pub
      /\ UNCHANGED <<shard, files, hist, cur, lossy, staged, acked, promised, faults>>
  BY DEF PruneSnapshot, Publisher, journal, ghosts
<1>2. PICK s \in OldSnaps : snaps' = Without(snaps, s)
  BY DEF PruneSnapshot
<1>3. s \in DOMAIN snaps /\ s < pub.keep /\ s \in Nat /\ pub.keep \in Nat
  BY SnapTypes DEF OldSnaps
<1>4. /\ DOMAIN snaps' = DOMAIN snaps \ {s}
      /\ \A x \in DOMAIN snaps' : snaps'[x] = snaps[x]
  BY <1>2 DEF Without
<1>5. /\ pub.keep \in DOMAIN snaps
      /\ Cardinality({x \in DOMAIN snaps : x >= pub.keep}) >= Retained
  BY <1>3 DEF RecoveryInv, PubInv
<1>f. IsFiniteSet(DOMAIN snaps')
  BY <1>4, FS_RemoveElement DEF RecoveryInv, SnapsInv
<1>6. {x \in DOMAIN snaps' : x >= pub.keep} = {x \in DOMAIN snaps : x >= pub.keep}
  BY <1>3, <1>4
<1>7. Retained' = Retained /\ Retained \in Nat
  BY <1>1, SnapTypes DEF Retained, Retain
<1>8. ~Intact'
  <2> DEFINE K == {x \in DOMAIN snaps' : x >= pub.keep}
  <2>1. K \in SUBSET DOMAIN snaps'
    OBVIOUS
  <2>2. IsFiniteSet(K) /\ Cardinality(K) <= Cardinality(DOMAIN snaps')
    BY <1>f, <2>1, FS_Subset
  <2>3. Cardinality(K) \in Nat /\ Cardinality(DOMAIN snaps') \in Nat
    BY <1>f, <2>2, FS_CardinalityType
  <2>4. Cardinality(K) >= Retained
    BY <1>5, <1>6
  <2> HIDE DEF K
  <2>5. Cardinality(DOMAIN snaps') >= Retained
    BY <2>2, <2>3, <2>4, <1>7
  <2> QED
    BY <2>3, <2>5, <1>7 DEF Intact
<1>9. JournalInv' /\ \A x, st, at : Image(x, st, at)' = Image(x, st, at)
  BY <1>1, <1>8, SnapsChange DEF RecoveryInv
<1>10. SnapsInv'
  BY <1>4, <1>9, <1>f DEF RecoveryInv, SnapsInv
<1>11. PubInv'
  BY <1>1, <1>3, <1>4, <1>5, <1>6, <1>7, <1>8 DEF RecoveryInv, PubInv
<1>12. RotInv'
  <2>1. DOMAIN snaps' \ Valid' \subseteq DOMAIN snaps \ Valid
    BY <1>4 DEF Valid
  <2>2. Valid' \subseteq DOMAIN snaps'
    BY DEF Valid
  <2> QED
    BY <1>1, <2>1, <2>2, RotSubset DEF RecoveryInv
<1>13. RestInv' /\ ReplayInv'
  BY <1>1 DEF RestInv, ReplayInv
<1>14. ServingInv'
  BY <1>1, OpenFile, ServingFrame DEF RecoveryInv
<1>15. PromiseInv'
  BY <1>1 DEF RecoveryInv, PromiseInv, Within, Newest, Faults
<1> QED
  BY <1>9, <1>10, <1>11, <1>12, <1>13, <1>14, <1>15 DEF RecoveryInv

\* A file goes that no snapshot needs and nothing but the pre-checkpoint file
\* comes before.
LEMMA PruneFile ==
  ASSUME TypeOK, RecoveryInv, phase = "up", ~Intact,
         UNCHANGED <<shard, snaps, hist, cur, lossy, phase, staged, acked, promised>>,
         NEW s \in DOMAIN files, s # cur, s \notin DOMAIN snaps,
         \A f \in DOMAIN files : f = 0 \/ s <= f,
         files' = Without(files, s)
  PROVE  JournalInv' /\ SnapsInv' /\ PromiseInv' /\ cur \in DOMAIN files' /\ files'[cur] = files[cur]
<1>j. JournalInv /\ SnapsInv
  BY DEF RecoveryInv
<1>o. /\ cur \in DOMAIN files /\ Newest(cur) /\ ~lossy /\ EndOf(cur) = Len(hist)
      /\ \A f \in DOMAIN files : f # cur => f < cur /\ ~Newest(f)
  BY OpenFile
<1>d. /\ DOMAIN files' = DOMAIN files \ {s}
      /\ \A f \in DOMAIN files' : files'[f] = files[f]
  BY DEF Without
<1>t. \A f \in DOMAIN files : f \in Nat
  BY FileTypes
<1>i. Intact' = Intact /\ Faults' = Faults
  BY DEF Intact, Retained, Retain, Faults
<1>e. \A f \in DOMAIN files' : EndOf(f)' = EndOf(f) /\ Covered(f)' = Covered(f)
  BY <1>d DEF EndOf, Covered
<1>n. \A f \in DOMAIN files' : Newest(f)' = Newest(f)
  <2> SUFFICES ASSUME NEW f \in DOMAIN files' PROVE Newest(f)' <=> Newest(f)
    BY DEF Newest
  <2>1. Newest(f) => Newest(f)'
    BY <1>d DEF Newest
  <2>2. ASSUME Newest(f)' PROVE Newest(f)
    <3>1. cur <= f
      BY <2>2, <1>d, <1>o DEF Newest
    <3>2. f = cur
      BY <3>1, <1>d, <1>o, <1>t
    <3> QED
      BY <3>2, <1>o
  <2> QED
    BY <2>1, <2>2
<1>1. \A f \in DOMAIN files' : FileInv(f)'
  BY <1>d, <1>e, <1>i, <1>j, <1>n DEF FileInv, JournalInv
<1>2. ChainInv'
  <2>1. ASSUME NEW f \in DOMAIN files', NEW g \in DOMAIN files', f < g
        PROVE  EndOf(f)' <= Begin(hist', g)
    BY <2>1, <1>d, <1>e, <1>j DEF JournalInv, ChainInv
  <2>2. ASSUME NEW f \in DOMAIN files', NEW g \in DOMAIN files', Follows(f, g)', f # 0
        PROVE  EndOf(f)' = Begin(hist', g)
    <3>1. s <= f
      BY <2>2, <1>d
    <3>2. Follows(f, g)
      BY <2>2, <3>1, <1>d DEF Follows
    <3> QED
      BY <3>2, <2>2, <1>d, <1>e, <1>j DEF JournalInv, ChainInv
  <2>3. ASSUME NEW f \in DOMAIN files', Newest(f)' PROVE EndOf(f)' = Len(hist')
    BY <2>3, <1>d, <1>e, <1>j, <1>n, <1>o DEF JournalInv, ChainInv
  <2> QED
    BY <2>1, <2>2, <2>3, <1>i DEF ChainInv
<1>c. cur \in DOMAIN files' /\ files'[cur] = files[cur]
  BY <1>d, <1>o
<1>3. JournalInv'
  BY <1>1, <1>2, <1>c, <1>i, <1>j, <1>n, <1>o DEF JournalInv
<1>4. SnapsInv'
  BY <1>d, <1>j DEF SnapsInv, Image
<1>5. PromiseInv'
  <2>1. ASSUME NEW f \in DOMAIN files', Newest(f)'
        PROVE  \E g \in DOMAIN files :
                 /\ Newest(g)
                 /\ Begin(hist', f) + files'[f].durable \in Nat
                 /\ Begin(hist, g) + files[g].durable <= Begin(hist', f) + files'[f].durable
    <3>1. f \in DOMAIN files /\ Newest(f) /\ files'[f] = files[f]
      BY <2>1, <1>d, <1>n
    <3>2. Begin(hist, f) \in Nat /\ files[f].durable \in Nat
      BY <3>1, <1>j, Bounds, FileTypes
    <3> QED
      BY <3>1, <3>2
  <2>2. Len(hist) \in Nat
    BY MemoryTypes
  <2> QED
    BY <2>1, <2>2, PromiseCarry
<1> QED
  BY <1>3, <1>4, <1>5, <1>c

\* A segment below the snapshots that are kept goes.
LEMMA PruneSegmentStep ==
  ASSUME TypeOK, RecoveryInv, PruneSegment
  PROVE  RecoveryInv'
<1>1. /\ phase = "up" /\ phase' = "up" /\ Publisher' = Publisher /\ pub.pc = "prune" /\ pub' = pub
      /\ UNCHANGED <<shard, snaps, hist, cur, lossy, phase, staged, acked, promised, faults>>
      /\ OldSnaps = {}
  BY DEF PruneSegment, Publisher, journal, ghosts
<1>2. PICK s \in OldSegments : (\A o \in OldSegments : s <= o) /\ files' = Without(files, s)
  BY DEF PruneSegment
<1>3. /\ s \in DOMAIN files /\ s # 0 /\ s < pub.keep /\ s \in Nat /\ pub.keep \in Nat
      /\ \A f \in DOMAIN files : f \in Nat
  BY SnapTypes, FileTypes DEF OldSegments, Segments
<1>4. /\ pub.keep \in DOMAIN snaps
      /\ Cardinality({x \in DOMAIN snaps : x >= pub.keep}) >= Retained
  BY <1>3 DEF RecoveryInv, PubInv
<1>5. pub.keep \in DOMAIN files
  BY <1>4 DEF RecoveryInv, SnapsInv, Image
<1>6. s # cur
  BY <1>1, <1>3, <1>5, OpenFile, MemoryTypes DEF Newest
<1>7. s \notin DOMAIN snaps
  BY <1>1, <1>3 DEF OldSnaps
<1>8. \A f \in DOMAIN files : f = 0 \/ s <= f
  <2> SUFFICES ASSUME NEW f \in DOMAIN files, f # 0 PROVE s <= f
    OBVIOUS
  <2>1. CASE f < pub.keep
    BY <2>1, <1>2 DEF OldSegments, Segments
  <2>2. CASE ~(f < pub.keep)
    BY <2>2, <1>3
  <2> QED
    BY <2>1, <2>2
<1>9. ~Intact
  <2> DEFINE K == {x \in DOMAIN snaps : x >= pub.keep}
  <2>1. K \in SUBSET DOMAIN snaps /\ IsFiniteSet(DOMAIN snaps)
    BY DEF RecoveryInv, SnapsInv
  <2>2. IsFiniteSet(K) /\ Cardinality(K) <= Cardinality(DOMAIN snaps)
    BY <2>1, FS_Subset
  <2>3. Cardinality(K) \in Nat /\ Cardinality(DOMAIN snaps) \in Nat
    BY <2>1, <2>2, FS_CardinalityType
  <2>4. Cardinality(K) >= Retained
    BY <1>4
  <2> HIDE DEF K
  <2> QED
    BY <2>2, <2>3, <2>4, SnapTypes DEF Intact
<1>10. JournalInv' /\ SnapsInv' /\ PromiseInv' /\ cur \in DOMAIN files' /\ files'[cur] = files[cur]
  BY <1>1, <1>2, <1>3, <1>6, <1>7, <1>8, <1>9, PruneFile
<1>11. PubInv'
  BY <1>1 DEF RecoveryInv, PubInv, Intact, Retained, Retain
<1>12. RotInv'
  BY <1>1, RotFrame, SnapTypes DEF RecoveryInv, RotInv
<1>13. RestInv' /\ ReplayInv'
  BY <1>1 DEF RestInv, ReplayInv
<1>14. ServingInv'
  BY <1>1, <1>10, ServingFrame DEF RecoveryInv
<1> QED
  BY <1>10, <1>11, <1>12, <1>13, <1>14 DEF RecoveryInv

\* The pre-checkpoint file goes, and the publish is over.
LEMMA PruneLegacyStep ==
  ASSUME TypeOK, RecoveryInv, PruneLegacy
  PROVE  RecoveryInv'
<1>1. /\ phase = "up" /\ phase' = "up" /\ Publisher' = Publisher /\ pub.pc = "prune" /\ pub' = NoPub
      /\ UNCHANGED <<shard, snaps, hist, cur, lossy, phase, staged, acked, promised, faults>>
      /\ files' = IF pub.legacy THEN Without(files, 0) ELSE files
  BY DEF PruneLegacy, Publisher, journal, ghosts
<1>2. PubInv'
  BY <1>1 DEF PubInv, NoPub
<1>3. RotInv'
  BY <1>1, RotFrame, SnapTypes DEF RecoveryInv, RotInv
<1>4. RestInv' /\ ReplayInv'
  BY <1>1 DEF RestInv, ReplayInv
<1>5. JournalInv' /\ SnapsInv' /\ PromiseInv' /\ cur \in DOMAIN files' /\ files'[cur] = files[cur]
  <2>1. CASE pub.legacy /\ 0 \in DOMAIN files
    <3>1. ~Intact
      BY <2>1 DEF RecoveryInv, PubInv
    <3>2. DOMAIN snaps # {}
      BY <3>1, FS_EmptySet, SnapTypes DEF Intact
    <3>3. PICK s \in DOMAIN snaps : s \in DOMAIN files /\ s # 0
      BY <3>2 DEF RecoveryInv, SnapsInv, Image
    <3>4. 0 # cur
      BY <1>1, <3>3, OpenFile, FileTypes DEF Newest
    <3>5. 0 \notin DOMAIN snaps
      BY DEF RecoveryInv, SnapsInv, Image
    <3>6. \A f \in DOMAIN files : f = 0 \/ 0 <= f
      BY FileTypes
    <3> QED
      BY <1>1, <2>1, <3>1, <3>4, <3>5, <3>6, PruneFile
  <2>2. CASE ~(pub.legacy /\ 0 \in DOMAIN files)
    <3>1. files' = files
      <4>1. 0 \notin DOMAIN files => Without(files, 0) = files
        BY FileTypes DEF Without
      <4> QED
        BY <1>1, <2>2, <4>1
    <3>2. DiskKept
      BY <1>1, <3>1 DEF DiskKept
    <3>3. JournalInv' /\ SnapsInv'
      BY <1>1, <3>2, DiskFrame DEF RecoveryInv
    <3>4. PromiseInv'
      BY <1>1, <3>2, PromiseFrame DEF RecoveryInv
    <3>5. cur \in DOMAIN files
      BY <1>1, OpenFile
    <3> QED
      BY <3>1, <3>3, <3>4, <3>5
  <2> QED
    BY <2>1, <2>2
<1>6. ServingInv'
  BY <1>1, <1>5, ServingFrame DEF RecoveryInv
<1> QED
  BY <1>2, <1>3, <1>4, <1>5, <1>6 DEF RecoveryInv

-----------------------------------------------------------------------------
(* Stopping and crashing *)

\* What the loss of memory does by itself.
LEMMA CrashFrame ==
  ASSUME MemoryLost
  PROVE  /\ PubInv' /\ ServingInv' /\ RestInv' /\ ReplayInv' /\ phase' = "down"
         /\ promised' \cup acked' \subseteq promised \cup acked /\ staged' = <<>>
         /\ UNCHANGED <<shard, cur, hist>>
<1>1. /\ phase' = "down" /\ pc' = "idle" /\ failed' = FALSE /\ batch' = FALSE /\ pub' = NoPub
      /\ staged' = <<>> /\ acked' = {} /\ promised' = promised \cup acked
      /\ todo' = <<>> /\ UNCHANGED <<shard, cur, hist>>
  BY DEF MemoryLost
<1>2. PubInv'
  BY <1>1 DEF PubInv, NoPub
<1>3. ServingInv' /\ RestInv' /\ ReplayInv'
  BY <1>1 DEF ServingInv, RestInv, ReplayInv
<1> QED
  BY <1>1, <1>2, <1>3

\* An orderly stop, and a process that dies.
LEMMA StopStep ==
  ASSUME TypeOK, Dependable, RecoveryInv, Stop \/ Kill
  PROVE  RecoveryInv'
<1>1. MemoryLost /\ snaps' = snaps /\ lossy' = lossy
  BY DEF Stop, Kill
<1>2. /\ PubInv' /\ ServingInv' /\ RestInv' /\ ReplayInv' /\ phase' = "down"
      /\ promised' \cup acked' \subseteq promised \cup acked /\ staged' = <<>>
      /\ UNCHANGED <<shard, cur, hist>>
  BY <1>1, CrashFrame
<1>3. faults' = faults /\ (files' = [files EXCEPT ![cur] = Synced(@)] \/ files' = files)
  BY Luck DEF Stop, Kill, Strikes
<1>4. PICK c \in DOMAIN files : files' = [files EXCEPT ![c] = Synced(@)] \/ files' = files
  <2>1. CASE phase = "up"
    BY <2>1, <1>3, OpenFile
  <2>2. CASE phase = "replay"
    <3>1. lastCheckpointTs \in DOMAIN files
      BY <2>2 DEF RecoveryInv, ReplayInv
    <3>2. files' = files
      BY <2>2, Luck DEF Stop, Kill, Strikes
    <3> QED
      BY <3>1, <3>2
  <2> QED
    BY <2>1, <2>2 DEF Stop, Kill
<1>5. JournalInv' /\ SnapsInv' /\ PromiseInv'
  BY <1>1, <1>2, <1>4, SyncKeeps
<1>6. RotInv'
  BY <1>1, <1>2, <1>3, RotFrame, SnapTypes DEF RecoveryInv, RotInv
<1> QED
  BY <1>2, <1>5, <1>6 DEF RecoveryInv

\* The power goes and takes a part of the newest file no fsync had covered.
LEMMA PowerStep ==
  ASSUME TypeOK, Dependable, RecoveryInv, PowerLoss
  PROVE  RecoveryInv'
<1>1. /\ MemoryLost /\ snaps' = snaps /\ lossy' = TRUE /\ "power" \in Faults /\ cur \in DOMAIN files
  BY DEF PowerLoss
<1>2. /\ PubInv' /\ ServingInv' /\ RestInv' /\ ReplayInv' /\ phase' = "down"
      /\ promised' \cup acked' \subseteq promised \cup acked /\ staged' = <<>>
      /\ UNCHANGED <<shard, cur, hist>>
  BY <1>1, CrashFrame
<1>3. PICK k \in files[cur].durable .. Len(files[cur].recs) :
        /\ files' = [files EXCEPT ![cur] = [recs |-> SubSeq(files[cur].recs, 1, k), durable |-> k]]
        /\ faults' = faults
  BY Luck DEF PowerLoss, Strikes
<1>j. JournalInv /\ SnapsInv /\ FileInv(cur) /\ Newest(cur)
  BY <1>1 DEF RecoveryInv, JournalInv
<1>t. /\ files[cur].recs \in Seq(Nat) /\ Len(files[cur].recs) \in Nat /\ files[cur].durable \in Nat
      /\ \A f \in DOMAIN files : f \in Nat
  BY <1>1, FileTypes
<1>4. k \in Nat /\ files[cur].durable <= k /\ k <= Len(files[cur].recs)
  BY <1>3, <1>t
<1>d. /\ DOMAIN files' = DOMAIN files
      /\ files'[cur].recs = SubSeq(files[cur].recs, 1, k) /\ files'[cur].durable = k
      /\ \A f \in DOMAIN files : f # cur => files'[f] = files[f]
  BY <1>1, <1>3
<1>r. /\ Len(files'[cur].recs) = k
      /\ \A j \in 1 .. k : files'[cur].recs[j] = files[cur].recs[j] /\ j \in 1 .. Len(files[cur].recs)
  BY <1>4, <1>d, <1>t, SMTT(40)
<1>i. Intact' = Intact /\ Faults' = Faults
  BY <1>1, <1>2 DEF Intact, Retained, Retain, Faults
<1>n. \A f : Newest(f)' = Newest(f)
  BY <1>d DEF Newest
<1>f. \A f, g : Follows(f, g)' = Follows(f, g)
  BY <1>d DEF Follows
<1>b. /\ Len(hist) \in Nat
      /\ \A f \in DOMAIN files : /\ Begin(hist, f) \in Nat /\ EndOf(f) \in Nat
                                 /\ EndOf(f) <= Len(hist)
                                 /\ EndOf(f) = Begin(hist, f) + Len(files[f].recs)
  BY <1>j, Bounds, MemoryTypes
<1>e. /\ \A f \in DOMAIN files : f # cur => EndOf(f)' = EndOf(f) /\ Covered(f)' = Covered(f)
      /\ EndOf(cur)' = Begin(hist, cur) + k
  BY <1>1, <1>2, <1>d, <1>r DEF EndOf, Covered
<1>5. ASSUME NEW f \in DOMAIN files PROVE FileInv(f)'
  <2>1. CASE f = cur
    <3>1. Begin(hist, cur) \in Nat /\ Begin(hist, cur) + Len(files[cur].recs) <= Len(hist)
      BY <1>1, <1>b
    <3>2. Begin(hist, cur) + k <= Len(hist)
      BY <3>1, <1>4, <1>b, <1>t
    <3>3. \A j \in 1 .. Len(files'[cur].recs) : files'[cur].recs[j] = hist[Begin(hist, cur) + j]
      BY <1>j, <1>r DEF FileInv
    <3>4. files'[cur].durable <= Len(files'[cur].recs)
      BY <1>4, <1>d, <1>r
    <3> QED
      BY <1>2, <1>e, <1>j, <1>n, <2>1, <3>2, <3>3, <3>4 DEF FileInv
  <2>2. CASE f # cur
    BY <1>2, <1>d, <1>e, <1>i, <1>j, <1>n, <2>2 DEF JournalInv, FileInv
  <2> QED
    BY <2>1, <2>2
<1>6. ChainInv'
  <2>1. ASSUME NEW f \in DOMAIN files, NEW g \in DOMAIN files, f < g
        PROVE  EndOf(f)' <= Begin(hist', g)
    <3>1. f # cur
      BY <2>1, <1>j, <1>t DEF Newest
    <3> QED
      BY <3>1, <2>1, <1>2, <1>e, <1>j DEF JournalInv, ChainInv
  <2>2. ASSUME NEW f \in DOMAIN files, NEW g \in DOMAIN files, Follows(f, g), f # 0 \/ Intact
        PROVE  EndOf(f)' = Begin(hist', g)
    <3>1. f # cur
      BY <2>2, <1>j, <1>t DEF Newest, Follows
    <3> QED
      BY <3>1, <2>2, <1>2, <1>e, <1>j DEF JournalInv, ChainInv
  <2> QED
    BY <2>1, <2>2, <1>1, <1>d, <1>f, <1>i DEF ChainInv
<1>7. JournalInv'
  BY <1>1, <1>2, <1>5, <1>6, <1>d, <1>i, <1>j, <1>n DEF JournalInv
<1>8. SnapsInv'
  BY <1>1, <1>2, <1>d, <1>j DEF SnapsInv, Image
<1>9. PromiseInv'
  <2>1. ASSUME NEW f \in DOMAIN files', Newest(f)'
        PROVE  \E g \in DOMAIN files :
                 /\ Newest(g)
                 /\ Begin(hist', f) + files'[f].durable \in Nat
                 /\ Begin(hist, g) + files[g].durable <= Begin(hist', f) + files'[f].durable
    <3>1. f = cur
      BY <2>1, <1>1, <1>d, <1>j, <1>n, <1>t DEF Newest
    <3>2. /\ Begin(hist', cur) + files'[cur].durable \in Nat
          /\ Begin(hist, cur) + files[cur].durable <= Begin(hist', cur) + files'[cur].durable
      BY <1>1, <1>2, <1>4, <1>b, <1>d, <1>t, SMTT(40)
    <3> QED
      BY <1>1, <1>j, <3>1, <3>2
  <2> QED
    BY <2>1, <1>2, <1>b, PromiseCarry
<1>10. RotInv'
  BY <1>1, <1>2, <1>3, RotFrame, SnapTypes DEF RecoveryInv, RotInv
<1> QED
  BY <1>2, <1>7, <1>8, <1>9, <1>10 DEF RecoveryInv

\* A snapshot rots.
LEMMA RotStep ==
  ASSUME TypeOK, RecoveryInv, Rot
  PROVE  RecoveryInv'
<1>1. /\ phase = "down" /\ phase' = "down" /\ Strikes("rot")
      /\ UNCHANGED <<shard, files, hist, cur, lossy, phase, pc, failed, batch, pub, staged, acked, promised, todo>>
  BY DEF Rot, engine, journal, requests, recovery, ghosts
<1>2. PICK s \in DOMAIN snaps : snaps[s].ok /\ snaps' = [snaps EXCEPT ![s].ok = FALSE]
  BY DEF Rot
<1>3. /\ DOMAIN snaps' = DOMAIN snaps
      /\ \A x \in DOMAIN snaps : snaps'[x].st = snaps[x].st /\ snaps'[x].at = snaps[x].at
      /\ Valid' = Valid \ {s}
  <2>0. snaps \in [DOMAIN snaps -> Snapshot]
    BY SnapTypes
  <2>1. DOMAIN snaps' = DOMAIN snaps /\ \A x \in DOMAIN snaps : x # s => snaps'[x] = snaps[x]
    BY <1>2
  <2>2. snaps'[s].st = snaps[s].st /\ snaps'[s].at = snaps[s].at /\ snaps'[s].ok = FALSE
    BY <1>2, <2>0 DEF Snapshot
  <2>3. \A x \in DOMAIN snaps : snaps'[x].st = snaps[x].st /\ snaps'[x].at = snaps[x].at
    BY <2>1, <2>2
  <2>4. Valid' = Valid \ {s}
    BY <2>1, <2>2 DEF Valid
  <2> QED
    BY <2>1, <2>3, <2>4
<1>4. Intact' = Intact
  BY <1>1, <1>3 DEF Intact, Retained, Retain
<1>5. JournalInv' /\ \A x, st, at : Image(x, st, at)' = Image(x, st, at)
  BY <1>1, <1>4, SnapsChange DEF RecoveryInv
<1>6. SnapsInv'
  BY <1>3, <1>5 DEF RecoveryInv, SnapsInv
<1>7. RestInv' /\ ServingInv' /\ ReplayInv'
  BY <1>1 DEF RecoveryInv, RestInv, ServingInv, ReplayInv
<1>8. PubInv'
  BY <1>7, <1>1 DEF RestInv, PubInv, NoPub
<1>9. RotInv'
  <2>1. "rot" \in Faults /\ faults < MaxFaults /\ faults' = faults + 1
    BY <1>1, StrikesCounts
  <2>2. MaxFaults' = MaxFaults /\ Faults' = Faults
    BY <1>1 DEF MaxFaults, Faults
  <2>3. IsFiniteSet(DOMAIN snaps \ Valid) /\ Cardinality(DOMAIN snaps \ Valid) \in Nat
    BY FS_Difference, FS_CardinalityType DEF RecoveryInv, SnapsInv
  <2>4. DOMAIN snaps' \ Valid' = (DOMAIN snaps \ Valid) \cup {s} /\ s \notin DOMAIN snaps \ Valid
    BY <1>2, <1>3 DEF Valid
  <2>5. Cardinality(DOMAIN snaps' \ Valid') = Cardinality(DOMAIN snaps \ Valid) + 1
    BY <2>3, <2>4, FS_AddElement
  <2>6. Cardinality(DOMAIN snaps \ Valid) <= faults
    BY DEF RecoveryInv, RotInv
  <2>7. Cardinality(DOMAIN snaps' \ Valid') <= faults'
    BY <2>1, <2>3, <2>5, <2>6, SnapTypes
  <2>8. faults' <= MaxFaults'
    BY <2>1, <2>2, SnapTypes
  <2> QED
    BY <2>1, <2>2, <2>7, <2>8 DEF RotInv
<1>10. PromiseInv'
  BY <1>1 DEF RecoveryInv, PromiseInv, Within, Newest, Faults
<1> QED
  BY <1>5, <1>6, <1>7, <1>8, <1>9, <1>10 DEF RecoveryInv

-----------------------------------------------------------------------------
(* Recovering *)

\* A snapshot validates, or all of history is still there.
LEMMA Recoverable ==
  ASSUME TypeOK, Dependable, RecoveryInv
  PROVE  Valid # {} \/ Intact
<1> SUFFICES ASSUME Valid = {}, ~Intact PROVE FALSE
  OBVIOUS
<1>1. IsFiniteSet(DOMAIN snaps) /\ Cardinality(DOMAIN snaps) \in Nat
  BY FS_CardinalityType DEF RecoveryInv, SnapsInv
<1>2. Cardinality(DOMAIN snaps) >= Retained /\ Retained > 0
  BY <1>1, SnapTypes DEF Intact
<1>3. DOMAIN snaps \ Valid = DOMAIN snaps
  OBVIOUS
<1>4. Cardinality(DOMAIN snaps) <= faults /\ faults <= MaxFaults
  BY <1>3 DEF RecoveryInv, RotInv
<1>5. CASE "rot" \in Faults
  BY <1>5, <1>1, <1>2, <1>4, Luck, SnapTypes
<1>6. CASE "rot" \notin Faults
  <2>1. DOMAIN snaps = {}
    BY <1>6 DEF RecoveryInv, RotInv
  <2> QED
    BY <2>1, <1>2, FS_EmptySet, SnapTypes
<1> QED
  BY <1>5, <1>6

\* start() on an empty directory creates the first file; on any other it leaves
\* the directory alone.
LEMMA StartDirectory ==
  ASSUME TypeOK, Dependable, RecoveryInv, phase = "down", phase' # "down",
         files' = IF Segments = {} /\ 0 \notin DOMAIN files THEN With(files, 0, Empty) ELSE files,
         UNCHANGED <<shard, snaps, hist, cur, lossy, staged, acked, promised>>
  PROVE  /\ JournalInv' /\ SnapsInv' /\ PromiseInv'
         /\ Intact => 0 \in DOMAIN files'
         /\ DOMAIN snaps # {} => files' = files
<1>j. JournalInv /\ SnapsInv /\ PromiseInv
  BY DEF RecoveryInv
<1>i. Intact' = Intact /\ Faults' = Faults
  BY DEF Intact, Retained, Retain, Faults
<1>1. CASE DOMAIN files = {}
  <2>1. DOMAIN snaps = {}
    BY <1>1, <1>j DEF SnapsInv, Image
  <2>2. Intact
    BY <2>1, FS_EmptySet, SnapTypes DEF Intact
  <2>3. hist = <<>>
    BY <1>1, <1>j, <2>2 DEF JournalInv
  <2>4. DOMAIN files' = {0} /\ files'[0] = Empty
    BY <1>1 DEF Segments, With
  <2>5. StartsAt(hist, 0, 0) /\ Begin(hist, 0) = 0
    <3>1. StartsAt(hist, 0, 0) /\ hist \in Seq(Int)
      BY MemoryTypes DEF StartsAt
    <3> QED
      BY <3>1, <1>j, BeginUnique DEF JournalInv
  <2>6. EndOf(0)' = 0 /\ Newest(0)' /\ Len(hist) = 0
    BY <2>3, <2>4, <2>5 DEF EndOf, Newest, Empty
  <2>7. FileInv(0)'
    BY <2>3, <2>4, <2>5, <2>6 DEF FileInv, Empty
  <2>8. ChainInv'
    BY <2>4, <2>5, <2>6 DEF ChainInv, Follows
  <2>9. JournalInv'
    BY <1>i, <1>j, <2>4, <2>6, <2>7, <2>8 DEF JournalInv
  <2>10. SnapsInv'
    BY <1>j, <2>1 DEF SnapsInv
  <2>11. promised \cup acked = {}
    BY <1>j, <2>3 DEF PromiseInv, Within
  <2>12. \A i \in 1 .. Len(staged') : Within(staged[i], Len(hist))'
    BY <1>j DEF PromiseInv, Within
  <2>13. PromiseInv'
    BY <2>11, <2>12 DEF PromiseInv
  <2> QED
    BY <2>1, <2>4, <2>9, <2>10, <2>13
<1>2. CASE DOMAIN files # {}
  <2>1. files' = files
    BY <1>2 DEF Segments
  <2>2. PICK c \in DOMAIN files : TRUE
    BY <1>2
  <2>3. JournalInv' /\ SnapsInv' /\ PromiseInv'
    BY <2>1, <2>2, SyncKeeps
  <2>4. Intact => 0 \in DOMAIN files'
    BY <1>2, <1>j, <2>1 DEF JournalInv
  <2> QED
    BY <2>1, <2>3, <2>4
<1> QED
  BY <1>1, <1>2

\* start(): the newest snapshot that validates, or the whole history.
LEMMA StartStep ==
  ASSUME TypeOK, Dependable, RecoveryInv, StartRecovery
  PROVE  RecoveryInv' /\ phase' = "replay"
<1>1. /\ phase = "down"
      /\ files' = IF Segments = {} /\ 0 \notin DOMAIN files THEN With(files, 0, Empty) ELSE files
      /\ UNCHANGED <<shard, snaps, hist, cur, lossy, staged, acked, promised, pc, failed, batch,
                     pub, todo, faults>>
  BY DEF StartRecovery, journal, requests, ghosts, bounds
<1>2. PICK c \in Valid \cup {0} :
        /\ c = 0 => Valid = {}
        /\ lastCheckpointTs' = c
        /\ eng' = IF c = 0 THEN <<>> ELSE snaps[c].st
        /\ lastTs' = IF c = 0 THEN 0 ELSE snaps[c].at
        /\ rest' = IF c = 0 THEN DOMAIN files' ELSE TailSegments(c)
        /\ phase' = IF c = 0 /\ 0 \notin DOMAIN files' THEN "refused" ELSE "replay"
  BY DEF StartRecovery
<1>3. phase' # "down"
  BY <1>2
<1>4. /\ JournalInv' /\ SnapsInv' /\ PromiseInv'
      /\ Intact => 0 \in DOMAIN files'
      /\ DOMAIN snaps # {} => files' = files
  BY <1>1, <1>3, StartDirectory
<1>5. Valid = {} => Intact /\ 0 \in DOMAIN files'
  BY <1>4, Recoverable
<1>6. phase' = "replay"
  BY <1>2, <1>5
<1>7. RestInv' /\ ServingInv'
  BY <1>1, <1>6 DEF RecoveryInv, RestInv, ServingInv
<1>8. PubInv'
  BY <1>6, <1>7 DEF RestInv, PubInv, NoPub
<1>9. RotInv'
  BY <1>1, RotFrame, SnapTypes DEF RecoveryInv, RotInv
<1>t. todo' = <<>> /\ Len(todo') = 0
  BY <1>1 DEF RecoveryInv, RestInv
<1>i. Intact' = Intact
  BY <1>1 DEF Intact, Retained, Retain
<1>10. ReplayInv'
  <2>1. CASE c = 0
    <3>1. Intact /\ 0 \in DOMAIN files'
      BY <1>2, <1>5, <2>1
    <3>2. eng' = <<>> /\ lastTs' = 0 /\ lastCheckpointTs' = 0 /\ rest' = DOMAIN files' /\ Len(eng') = 0
      BY <1>2, <2>1
    <3>3. Begin(hist', 0) = 0
      BY <3>1, <1>4 DEF JournalInv, FileInv, StartsAt
    <3>n. \A f \in DOMAIN files' : f \in Nat
      BY <1>1, FileTypes DEF With
    <3>4. ASSUME NEW f \in rest', \A g \in rest' : f <= g
          PROVE  Begin(hist', f) = Len(eng') + Len(todo')
      <4>1. f <= 0 /\ f \in Nat
        BY <3>1, <3>2, <3>4, <3>n
      <4>2. f = 0
        BY <4>1
      <4> QED
        BY <4>2, <3>2, <3>3, <1>t
    <3>5. Len(hist') \in Nat
      BY <1>1, MemoryTypes
    <3>6. rest' # {}
      BY <3>1, <3>2
    <3> QED
      BY <3>1, <3>2, <3>4, <3>5, <3>6, <1>i, <1>t DEF ReplayInv
  <2>2. CASE c # 0
    <3>1. c \in DOMAIN snaps
      BY <1>2, <2>2 DEF Valid
    <3>2. files' = files
      BY <1>4, <3>1
    <3>3. Image(c, snaps[c].st, snaps[c].at)
      BY <3>1 DEF RecoveryInv, SnapsInv
    <3>4. /\ eng' = snaps[c].st /\ lastTs' = snaps[c].at /\ lastCheckpointTs' = c
          /\ rest' = {f \in DOMAIN files : f # 0 /\ f >= c}
      BY <1>2, <2>2 DEF TailSegments, Segments
    <3>5. /\ c \in DOMAIN files /\ lastTs' = c /\ Len(eng') = Begin(hist, c) /\ PrefixOf(eng', hist)
      BY <3>3, <3>4 DEF Image
    <3>6. StartsAt(hist, c, Begin(hist, c))
      BY <3>5 DEF RecoveryInv, JournalInv, FileInv
    <3>7. Begin(hist, c) \in 1 .. Len(hist) /\ hist[Begin(hist, c)] = c
      BY <3>6, <2>2, MemoryTypes DEF StartsAt
    <3>8. \A f \in DOMAIN files : f \in Nat
      BY FileTypes
    <3>9. c \in rest'
      BY <2>2, <3>4, <3>5, <3>8
    <3>10. ASSUME NEW f \in rest', \A g \in rest' : f <= g
           PROVE  Begin(hist', f) = Len(eng') + Len(todo')
      <4>1. f = c
        BY <3>4, <3>5, <3>8, <3>9, <3>10
      <4> QED
        BY <4>1, <1>1, <1>t, <3>5, <3>7, MemoryTypes
    <3>11. \A f \in rest', g \in DOMAIN files' : f <= g => g \in rest'
      BY <3>2, <3>4, <3>5, <3>8
    <3>12. Len(eng') + Len(todo') <= Len(hist') /\ \A i \in 1 .. Len(eng') : eng'[i] = hist'[i]
      BY <1>1, <1>t, <3>5, <3>7, MemoryTypes DEF PrefixOf
    <3>13. eng' # <<>> /\ eng'[Len(eng')] = c
      BY <3>5, <3>7, MemoryTypes DEF PrefixOf
    <3>14. 0 \notin rest'
      BY <3>4
    <3> QED
      BY <1>t, <3>2, <3>4, <3>5, <3>9, <3>10, <3>11, <3>12, <3>13, <3>14 DEF ReplayInv
  <2> QED
    BY <2>1, <2>2
<1> QED
  BY <1>4, <1>6, <1>7, <1>8, <1>9, <1>10 DEF RecoveryInv

\* A replay leaves everything alone but what it has read and applied.
LEMMA ReplayFrame ==
  ASSUME TypeOK, RecoveryInv, DiskKept, phase = "replay", phase' = "replay", ReplayInv',
         UNCHANGED <<pc, failed, batch, pub, staged, acked, promised, faults>>
  PROVE  RecoveryInv'
<1>1. JournalInv' /\ SnapsInv'
  BY DiskFrame DEF RecoveryInv
<1>2. PubInv'
  BY PubFrame DEF RecoveryInv
<1>3. RotInv'
  BY RotFrame, SnapTypes DEF RecoveryInv, RotInv, DiskKept
<1>4. RestInv' /\ ServingInv'
  BY DEF RecoveryInv, RestInv, ServingInv
<1>5. PromiseInv'
  BY PromiseFrame DEF RecoveryInv
<1> QED
  BY <1>1, <1>2, <1>3, <1>4, <1>5 DEF RecoveryInv

\* The next file is read, to its end: nothing in it is torn.
LEMMA ReplayOpenStep ==
  ASSUME TypeOK, RecoveryInv, ReplayOpen
  PROVE  RecoveryInv' /\ phase' = "replay"
<1>1. /\ phase = "replay" /\ todo = <<>> /\ DiskKept
      /\ UNCHANGED <<eng, lastTs, lastCheckpointTs, pc, failed, batch, pub, staged, acked,
                     promised, faults>>
  BY DEF ReplayOpen, DiskKept, disk, engine, journal, requests, ghosts, bounds
<1>2. PICK f \in rest :
        /\ \A g \in rest : f <= g
        /\ rest' = rest \ {f}
        /\ \E n \in 0 .. Len(files[f].recs) :
             /\ n < Len(files[f].recs) => files[f].recs[n + 1] = TORN
             /\ todo' = SubSeq(files[f].recs, 1, n)
             /\ \/ phase' = "replay"
                \/ n = 0 /\ Len(files[f].recs) > 1 /\ phase' = "refused"
  BY DEF ReplayOpen
<1>3. PICK n \in 0 .. Len(files[f].recs) :
        /\ n < Len(files[f].recs) => files[f].recs[n + 1] = TORN
        /\ todo' = SubSeq(files[f].recs, 1, n)
        /\ \/ phase' = "replay"
           \/ n = 0 /\ Len(files[f].recs) > 1 /\ phase' = "refused"
  BY <1>2
<1>4. /\ f \in DOMAIN files /\ rest \subseteq DOMAIN files
      /\ \A g \in DOMAIN files : g \in Nat
  BY <1>1, FileTypes DEF TypeOK, SeqType
<1>5. PICK l : l = Len(files[f].recs)
  OBVIOUS
<1>6. PICK b : b = Begin(hist, f)
  OBVIOUS
<1>7. /\ l \in Nat /\ b \in Nat /\ b + l = EndOf(f) /\ b + l <= Len(hist) /\ Len(hist) \in Nat
      /\ files[f].recs \in Seq(Nat) /\ n \in 0 .. l
  BY <1>3, <1>4, <1>5, <1>6, Bounds, FileTypes, MemoryTypes DEF RecoveryInv
<1>8. \A j \in 1 .. l : files[f].recs[j] = hist[b + j]
  BY <1>4, <1>5, <1>6 DEF RecoveryInv, JournalInv, FileInv
<1>9. n = l
  <2> SUFFICES ASSUME n # l PROVE FALSE
    OBVIOUS
  <2>1. n + 1 \in 1 .. l /\ b + (n + 1) \in 1 .. Len(hist)
    BY <1>7
  <2>2. hist[b + (n + 1)] = 0
    BY <1>3, <1>5, <1>7, <1>8, <2>1 DEF TORN
  <2>3. 0 < hist[b + (n + 1)]
    BY <2>1 DEF RecoveryInv, JournalInv, Increasing
  <2> QED
    BY <2>2, <2>3
<1>10. /\ Len(todo') = l
       /\ \A j \in 1 .. l : todo'[j] = hist[b + j]
  <2>1. Len(todo') = l /\ \A j \in 1 .. l : todo'[j] = files[f].recs[j]
    BY <1>3, <1>5, <1>7, <1>9
  <2> QED
    BY <2>1, <1>8
<1>11. phase' = "replay"
  BY <1>3, <1>5, <1>7, <1>9
<1>r. ReplayInv
  BY DEF RecoveryInv
<1>12. b = Len(eng) /\ Len(eng) \in Nat
  BY <1>1, <1>2, <1>4, <1>6, <1>r, MemoryTypes DEF ReplayInv
<1>13. \A g \in DOMAIN files : f <= g => g \in rest
  BY <1>1, <1>r DEF ReplayInv
<1>h. files' = files /\ hist' = hist /\ Intact' = Intact
  BY <1>1 DEF DiskKept, Intact, Retained, Retain
<1>14. ReplayInv'
  <2>1. \A x \in rest', g \in DOMAIN files' : x <= g => g \in rest'
    <3> SUFFICES ASSUME NEW x \in rest', NEW g \in DOMAIN files, x <= g PROVE g \in rest'
      BY <1>h
    <3>1. x \in rest /\ x # f /\ f <= x
      BY <1>2
    <3>2. g \in rest
      BY <1>1, <1>r, <3>1 DEF ReplayInv
    <3>3. g # f
      BY <1>4, <3>1
    <3> QED
      BY <1>2, <3>2, <3>3
  <2>2. Len(eng') + Len(todo') <= Len(hist')
    BY <1>1, <1>7, <1>10, <1>12, <1>h
  <2>3. \A i \in 1 .. Len(eng') : eng'[i] = hist'[i]
    BY <1>1, <1>h, <1>r DEF ReplayInv
  <2>4. \A j \in 1 .. Len(todo') : todo'[j] = hist'[Len(eng') + j]
    BY <1>1, <1>10, <1>12, <1>h
  <2>5. ASSUME NEW g \in rest', \A x \in rest' : g <= x
        PROVE  Begin(hist', g) = Len(eng') + Len(todo')
    <3>1. g \in DOMAIN files /\ g \in rest /\ g # f /\ f <= g /\ f \in Nat /\ g \in Nat
      BY <1>2, <1>4
    <3>2. ASSUME NEW x \in DOMAIN files, ~(x <= f) PROVE g <= x
      <4>1. f <= x /\ x # f
        BY <1>4, <3>2
      <4>2. x \in rest'
        BY <1>2, <1>13, <4>1
      <4> QED
        BY <2>5, <4>2
    <3>3. Follows(f, g)
      BY <3>1, <3>2 DEF Follows
    <3>4. f # 0 \/ Intact
      BY <1>1, <1>2, <1>r DEF ReplayInv
    <3>5. EndOf(f) = Begin(hist, g)
      BY <1>4, <3>1, <3>3, <3>4 DEF RecoveryInv, JournalInv, ChainInv
    <3> QED
      BY <3>5, <1>1, <1>7, <1>10, <1>12, <1>h
  <2>6. 0 \in rest' => Intact'
    BY <1>1, <1>2, <1>h, <1>r DEF ReplayInv
  <2>7. ASSUME rest' = {}, NEW x \in DOMAIN files, Newest(x)
        PROVE  EndOf(x) = Len(eng) + Len(todo')
    <3>1. x \in rest
      BY <1>4, <1>13, <2>7 DEF Newest
    <3>2. x = f
      BY <1>2, <2>7, <3>1
    <3> QED
      BY <3>2, <1>7, <1>10, <1>12
  <2>8. rest' = {} => \A x \in DOMAIN files' : Newest(x)' => EndOf(x)' = Len(eng') + Len(todo')
    BY <1>1, <1>h, <2>7 DEF Newest, EndOf
  <2>9. lastTs' = (IF eng' = <<>> THEN 0 ELSE eng'[Len(eng')]) /\ lastCheckpointTs' \in DOMAIN files'
    BY <1>1, <1>h, <1>r DEF ReplayInv
  <2> QED
    BY <2>1, <2>2, <2>3, <2>4, <2>5, <2>6, <2>8, <2>9 DEF ReplayInv
<1> QED
  BY <1>1, <1>11, <1>14, ReplayFrame

\* The next record is applied.
LEMMA ReplayRecordStep ==
  ASSUME TypeOK, RecoveryInv, ReplayRecord
  PROVE  RecoveryInv' /\ phase' = "replay"
<1>1. /\ phase = "replay" /\ phase' = "replay" /\ todo # <<>> /\ DiskKept
      /\ eng' = Append(eng, Head(todo)) /\ todo' = Tail(todo)
      /\ lastTs' = (IF Head(todo) > lastTs THEN Head(todo) ELSE lastTs)
      /\ UNCHANGED <<lastCheckpointTs, rest, pc, failed, batch, pub, staged, acked,
                     promised, faults>>
  BY DEF ReplayRecord, DiskKept, disk, engine, journal, requests, ghosts, bounds
<1>h. files' = files /\ hist' = hist /\ Intact' = Intact
  BY <1>1 DEF DiskKept, Intact, Retained, Retain
<1>r. ReplayInv
  BY DEF RecoveryInv
<1>2. PICK e : e = Len(eng)
  OBVIOUS
<1>3. PICK l : l = Len(todo)
  OBVIOUS
<1>4. /\ e \in Nat /\ l \in Nat /\ l > 0 /\ eng \in Seq(Int) /\ todo \in Seq(Nat)
      /\ Len(hist) \in Nat /\ e + l <= Len(hist)
  <2>1. /\ e \in Nat /\ l \in Nat /\ eng \in Seq(Int) /\ todo \in Seq(Nat) /\ Len(hist) \in Nat
    BY <1>2, <1>3, MemoryTypes
  <2>2. l # 0
    BY <1>1, <1>3, <2>1
  <2>3. e + l <= Len(hist)
    BY <1>1, <1>2, <1>3, <1>r DEF ReplayInv
  <2> QED
    BY <2>1, <2>2, <2>3
<1>5. /\ Head(todo) = todo[1] /\ Head(todo) \in Nat /\ Len(todo') = l - 1
      /\ \A j \in 1 .. l - 1 : todo'[j] = todo[j + 1]
  BY <1>1, <1>3, <1>4
<1>6. /\ Len(eng') = e + 1 /\ eng'[e + 1] = Head(todo) /\ eng' # <<>>
      /\ \A i \in 1 .. e : eng'[i] = eng[i]
  BY <1>1, <1>2, <1>4, <1>5, SMTT(40)
<1>7. \A j \in 1 .. l : todo[j] = hist[e + j]
  BY <1>1, <1>2, <1>3, <1>r DEF ReplayInv
<1>8. Head(todo) = hist[e + 1]
  BY <1>4, <1>5, <1>7
<1>9. \A i \in 1 .. e : eng[i] = hist[i]
  BY <1>1, <1>2, <1>r DEF ReplayInv
<1>10. lastTs' = Head(todo)
  <2>0. hist \in Seq(Int) /\ e + 1 \in 1 .. Len(hist) /\ lastTs \in Nat
    BY <1>4, MemoryTypes
  <2>1. CASE e = 0
    <3>0. eng \in Seq(Int) /\ Len(eng) = 0
      BY <1>2, <1>4, <2>1
    <3>1. eng = <<>>
      BY <3>0
    <3>2. lastTs = 0
      BY <1>1, <1>r, <3>1 DEF ReplayInv
    <3>3. 0 < hist[e + 1]
      BY <2>0 DEF RecoveryInv, JournalInv, Increasing
    <3> QED
      BY <1>1, <1>8, <3>2, <3>3
  <2>2. CASE e # 0
    <3>1. eng # <<>> /\ e \in 1 .. e /\ e \in 1 .. Len(hist) /\ e < e + 1
      BY <1>2, <1>4, <2>2
    <3>2. lastTs = hist[e]
      BY <1>1, <1>2, <1>9, <1>r, <3>1 DEF ReplayInv
    <3>3. hist[e] < hist[e + 1]
      BY <2>0, <3>1 DEF RecoveryInv, JournalInv, Increasing
    <3> QED
      BY <1>1, <1>5, <1>8, <2>0, <3>2, <3>3
  <2> QED
    BY <2>1, <2>2
<1>11. ReplayInv'
  <2>1. \A x \in rest', g \in DOMAIN files' : x <= g => g \in rest'
    BY <1>1, <1>h, <1>r DEF ReplayInv
  <2>s. Len(eng') + Len(todo') = Len(eng) + Len(todo)
    BY <1>2, <1>3, <1>4, <1>5, <1>6
  <2>2. Len(eng') + Len(todo') <= Len(hist')
    BY <1>2, <1>3, <1>4, <1>h, <2>s
  <2>3. ASSUME NEW i \in 1 .. Len(eng') PROVE eng'[i] = hist'[i]
    <3>1. i \in 1 .. e \/ i = e + 1
      BY <1>4, <1>6
    <3> QED
      BY <1>6, <1>8, <1>9, <1>h, <3>1
  <2>4. ASSUME NEW j \in 1 .. Len(todo') PROVE todo'[j] = hist'[Len(eng') + j]
    <3>1. j \in 1 .. l - 1 /\ j + 1 \in 1 .. l /\ e + (j + 1) = Len(eng') + j
      BY <1>4, <1>5, <1>6
    <3> QED
      BY <1>5, <1>7, <1>h, <3>1
  <2>5. \A f \in rest' : (\A g \in rest' : f <= g) => Begin(hist', f) = Len(eng') + Len(todo')
    BY <1>1, <1>h, <1>r, <2>s DEF ReplayInv
  <2>6. 0 \in rest' => Intact'
    BY <1>1, <1>h, <1>r DEF ReplayInv
  <2>7. rest' = {} => \A x \in DOMAIN files' : Newest(x)' => EndOf(x)' = Len(eng') + Len(todo')
    <3>1. rest = {} => \A x \in DOMAIN files : Newest(x) => EndOf(x) = Len(eng) + Len(todo)
      BY <1>1, <1>r DEF ReplayInv
    <3>2. \A x : Newest(x)' = Newest(x) /\ EndOf(x)' = EndOf(x)
      BY <1>h DEF Newest, EndOf
    <3> QED
      BY <1>1, <1>h, <2>s, <3>1, <3>2
  <2>8. lastTs' = (IF eng' = <<>> THEN 0 ELSE eng'[Len(eng')])
    BY <1>6, <1>10
  <2>9. lastCheckpointTs' \in DOMAIN files'
    BY <1>1, <1>h, <1>r DEF ReplayInv
  <2> QED
    BY <2>1, <2>2, <2>3, <2>4, <2>5, <2>6, <2>7, <2>8, <2>9 DEF ReplayInv
<1> QED
  BY <1>1, <1>11, ReplayFrame

\* What a recovery has when it has replayed everything: the history up to the end
\* of the newest file, with every promise in it.
LEMMA Recovered ==
  ASSUME TypeOK, RecoveryInv, FinishRecovery
  PROVE  /\ eng' = eng /\ PrefixOf(eng, hist)
         /\ ~lossy => Len(eng) = Len(hist)
         /\ \A t \in promised \cup acked : \E i \in 1 .. Len(eng) : eng[i] = t
         /\ cur' \in DOMAIN files /\ Newest(cur') /\ EndOf(cur') = Len(eng)
         /\ files' = [files EXCEPT ![cur'] = Synced(@)] \/ files' = files
         /\ \A f \in DOMAIN files : EndOf(f) <= Len(eng)
<1>1. phase = "replay" /\ todo = <<>> /\ rest = {} /\ eng' = eng
  BY DEF FinishRecovery, engine
<1>r. ReplayInv
  BY DEF RecoveryInv
<1>2. lastCheckpointTs \in DOMAIN files
  BY <1>1, <1>r DEF ReplayInv
<1>3. PICK n \in DOMAIN files :
        /\ AppendTarget(n) /\ cur' = n
        /\ files' = [files EXCEPT ![n] = Synced(@)] \/ files' = files
  BY <1>2 DEF FinishRecovery
<1>4. Newest(n)
  BY <1>3 DEF AppendTarget, Newest
<1>5. /\ Len(eng) \in Nat /\ Len(hist) \in Nat /\ Len(todo) = 0 /\ eng \in Seq(Int)
  BY <1>1, MemoryTypes
<1>6. EndOf(n) = Len(eng)
  BY <1>1, <1>4, <1>5, <1>r DEF ReplayInv
<1>7. PrefixOf(eng, hist)
  BY <1>1, <1>5, <1>r DEF ReplayInv, PrefixOf
<1>8. ~lossy => Len(eng) = Len(hist)
  BY <1>4, <1>6 DEF RecoveryInv, JournalInv, ChainInv
<1>9. ASSUME NEW f \in DOMAIN files PROVE EndOf(f) <= Len(eng)
  <2>1. CASE f = n
    BY <1>5, <1>6, <2>1
  <2>2. CASE f # n
    <3>1. f < n
      BY <1>4, <2>2, FileTypes DEF Newest
    <3>2. EndOf(f) <= Begin(hist, n)
      BY <3>1 DEF RecoveryInv, JournalInv, ChainInv
    <3>3. EndOf(f) \in Nat /\ Begin(hist, n) \in Nat /\ Begin(hist, n) <= EndOf(n)
      BY Bounds DEF RecoveryInv
    <3> QED
      BY <1>5, <1>6, <3>2, <3>3
  <2> QED
    BY <2>1, <2>2
<1>10. ASSUME NEW t \in promised \cup acked PROVE \E i \in 1 .. Len(eng) : eng[i] = t
  <2>1. PICK m : m \in Nat /\ m <= Len(eng) /\ Within(t, m)
    <3>1. CASE ~lossy
      BY <1>5, <1>8, <3>1 DEF RecoveryInv, PromiseInv
    <3>2. CASE lossy
      <4>1. Within(t, Begin(hist, n) + files[n].durable)
        BY <1>4, <3>2 DEF RecoveryInv, JournalInv, PromiseInv
      <4>2. files[n].durable <= Len(files[n].recs)
        BY DEF RecoveryInv, JournalInv, FileInv
      <4>3. /\ files[n].durable \in Nat /\ Len(files[n].recs) \in Nat /\ Begin(hist, n) \in Nat
            /\ EndOf(n) = Begin(hist, n) + Len(files[n].recs)
        BY Bounds, FileTypes DEF RecoveryInv
      <4>4. /\ Begin(hist, n) + files[n].durable \in Nat
            /\ Begin(hist, n) + files[n].durable <= Len(eng)
        BY <1>5, <1>6, <4>2, <4>3
      <4> QED
        BY <4>1, <4>4
    <3> QED
      BY <3>1, <3>2
  <2>2. PICK i \in 1 .. m : hist[i] = t
    BY <2>1 DEF Within
  <2>3. i \in 1 .. Len(eng)
    BY <1>5, <2>1
  <2> QED
    BY <1>7, <2>2, <2>3 DEF PrefixOf
<1> QED
  BY <1>1, <1>3, <1>4, <1>6, <1>7, <1>8, <1>9, <1>10

\* The shard serves again.
LEMMA FinishStep ==
  ASSUME TypeOK, RecoveryInv, FinishRecovery
  PROVE  RecoveryInv' /\ phase' = "up"
<1>1. /\ phase = "replay" /\ phase' = "up" /\ hist' = eng /\ lossy' = FALSE
      /\ UNCHANGED <<shard, snaps, eng, lastTs, staged, failed, batch, pc, pub, acked, promised,
                     faults>>
  BY DEF FinishRecovery, engine, bounds
<1>2. PICK n : n = cur'
  OBVIOUS
<1>3. /\ PrefixOf(eng, hist) /\ n \in DOMAIN files /\ Newest(n) /\ EndOf(n) = Len(eng)
      /\ \A t \in promised \cup acked : \E i \in 1 .. Len(eng) : eng[i] = t
      /\ files' = [files EXCEPT ![n] = Synced(@)] \/ files' = files
      /\ \A f \in DOMAIN files : EndOf(f) <= Len(eng)
  BY <1>2, Recovered
<1>j. JournalInv /\ SnapsInv
  BY DEF RecoveryInv
<1>4. DOMAIN files' = DOMAIN files
  BY <1>3
<1>5. ASSUME NEW f \in DOMAIN files
      PROVE  /\ files'[f].recs = files[f].recs
             /\ files'[f].durable \in Nat
             /\ files[f].durable <= files'[f].durable
             /\ files'[f].durable <= Len(files[f].recs)
  <2>1. /\ files[f].durable \in Nat /\ Len(files[f].recs) \in Nat
    BY FileTypes
  <2>2. files[f].durable <= Len(files[f].recs)
    BY <1>j DEF JournalInv, FileInv
  <2>3. files'[f] = files[f] \/ files'[f] = Synced(files[f])
    BY <1>3
  <2> QED
    BY <2>1, <2>2, <2>3 DEF Synced
<1>6. \A f \in DOMAIN files : Newest(f) => EndOf(f) = Len(hist')
  <2> SUFFICES ASSUME NEW f \in DOMAIN files, Newest(f) PROVE f = n
    BY <1>1, <1>3
  <2> QED
    BY <1>3, FileTypes DEF Newest
<1>7. eng \in Seq(Int) /\ hist \in Seq(Int) /\ Len(eng) \in Nat /\ Len(hist) \in Nat /\ lastTs \in Nat
  BY MemoryTypes
<1>8. JournalInv' /\ SnapsInv'
  BY <1>1, <1>2, <1>3, <1>4, <1>5, <1>6, <1>7, <1>j, JournalKept
<1>9. pc = "idle" /\ ~failed /\ ~batch /\ pub = NoPub /\ staged = <<>>
  BY <1>1 DEF RecoveryInv, RestInv
<1>10. PubInv'
  BY <1>1, <1>9 DEF PubInv, NoPub
<1>11. RotInv'
  BY <1>1, RotFrame, SnapTypes DEF RecoveryInv, RotInv
<1>12. RestInv' /\ ReplayInv'
  BY <1>1 DEF RestInv, ReplayInv
<1>13. /\ Begin(hist, n) \in Nat /\ files[n].durable \in Nat /\ Len(files[n].recs) \in Nat
       /\ Begin(hist, n) + Len(files[n].recs) = Len(eng) /\ n \in Nat
  BY <1>3, <1>j, Bounds, FileTypes
<1>14. StartsAt(hist, n, Begin(hist, n)) /\ Increasing(hist)
  BY <1>3, <1>j DEF JournalInv, FileInv
<1>15. Begin(hist', n) = Begin(hist, n)
  <2>1. Begin(hist, n) <= Len(eng)
    BY <1>13, <1>7
  <2> QED
    BY <1>1, <1>3, <1>7, <1>13, <1>14, <2>1, BeginPrefix
<1>16. PromiseInv'
  <2>1. \A t \in promised' \cup acked' : Within(t, Len(hist))'
    BY <1>1, <1>3 DEF Within
  <2>2. \A i \in 1 .. Len(staged') : Within(staged[i], Len(hist))'
    BY <1>1, <1>9
  <2>3. ASSUME "power" \in Faults, NEW t \in promised \cup acked, NEW f \in DOMAIN files', Newest(f)'
        PROVE  Within(t, Begin(hist, f) + files[f].durable)'
    <3>1. f = n
      BY <1>3, <1>4, <2>3, FileTypes DEF Newest
    <3>2. Within(t, Begin(hist, n) + files[n].durable)
      BY <1>3, <2>3 DEF RecoveryInv, PromiseInv
    <3>3. PICK i \in 1 .. Begin(hist, n) + files[n].durable : hist[i] = t
      BY <3>2 DEF Within
    <3>4. /\ files'[n].durable \in Nat /\ files[n].durable <= files'[n].durable
          /\ files'[n].durable <= Len(files[n].recs)
      BY <1>3, <1>5
    <3>5. i \in 1 .. Begin(hist, n) + files'[n].durable /\ i \in 1 .. Len(eng)
      <4>1. PICK b, d, e, l, k : /\ b = Begin(hist, n) /\ d = files[n].durable /\ e = files'[n].durable
                                 /\ l = Len(files[n].recs) /\ k = Len(eng)
        OBVIOUS
      <4>2. b \in Nat /\ d \in Nat /\ e \in Nat /\ l \in Nat /\ k \in Nat
        BY <1>7, <1>13, <3>4, <4>1
      <4>3. d <= e /\ e <= l /\ b + l = k /\ i \in 1 .. b + d
        BY <1>13, <3>4, <4>1
      <4>4. i \in 1 .. b + e /\ i \in 1 .. k
        BY <4>2, <4>3
      <4> QED
        BY <4>1, <4>4
    <3>6. hist'[i] = t
      BY <1>1, <1>3, <3>3, <3>5 DEF PrefixOf
    <3> QED
      BY <1>15, <3>1, <3>5, <3>6 DEF Within
  <2>4. Faults' = Faults
    BY <1>1 DEF Faults
  <2>5. "power" \in Faults' =>
          \A t \in promised' \cup acked' : \A f \in DOMAIN files' :
            Newest(f)' => Within(t, Begin(hist, f) + files[f].durable)'
    BY <1>1, <2>3, <2>4
  <2> QED
    BY <2>1, <2>2, <2>5 DEF PromiseInv
<1>17. \A i \in 1 .. Len(eng) : eng[i] <= lastTs
  <2> SUFFICES ASSUME NEW i \in 1 .. Len(eng) PROVE eng[i] <= lastTs
    OBVIOUS
  <2>1. eng # <<>> /\ Len(eng) \in 1 .. Len(eng)
    BY <1>7
  <2>2. lastTs = eng[Len(eng)]
    BY <1>1, <2>1 DEF RecoveryInv, ReplayInv
  <2>3. i \in 1 .. Len(hist) /\ Len(eng) \in 1 .. Len(hist)
    BY <1>3, <1>7 DEF PrefixOf
  <2>4. eng[i] = hist[i] /\ lastTs = hist[Len(eng)] /\ hist[i] \in Int
    BY <1>3, <1>7, <2>1, <2>2, <2>3 DEF PrefixOf
  <2>5. i < Len(eng) => hist[i] < hist[Len(eng)]
    BY <1>14, <2>3 DEF Increasing
  <2> QED
    BY <1>7, <2>4, <2>5
<1>18. n <= lastTs
  <2>1. CASE n = 0
    BY <1>7, <2>1
  <2>2. CASE n # 0
    <3>1. Begin(hist, n) # 0 /\ hist[Begin(hist, n)] = n
      BY <1>14, <2>2 DEF StartsAt
    <3>2. Begin(hist, n) \in 1 .. Len(eng)
      BY <1>7, <1>13, <3>1, SMTT(40)
    <3>3. eng[Begin(hist, n)] = n
      BY <1>3, <3>1, <3>2 DEF PrefixOf
    <3> QED
      BY <1>17, <3>2, <3>3
  <2> QED
    BY <2>1, <2>2
<1>19. ServingInv'
  BY <1>1, <1>2, <1>3, <1>4, <1>9, <1>17, <1>18 DEF ServingInv
<1> QED
  BY <1>1, <1>8, <1>10, <1>11, <1>12, <1>16, <1>19 DEF RecoveryInv

-----------------------------------------------------------------------------
(* The theorems *)

\* An empty directory is sound.
LEMMA InitRecovery == Init => RecoveryInv
<1> SUFFICES ASSUME Init PROVE RecoveryInv
  OBVIOUS
<1>1. shard \in Deployments /\ MaxFaults \in Nat /\ Retain \in Int
  BY ShardAssumption DEF Init, MaxFaults, Retain
<1>2. DOMAIN files = {} /\ DOMAIN snaps = {} /\ Len(hist) = 0 /\ Len(staged) = 0
  BY DEF Init
<1>3. JournalInv
  BY <1>2 DEF Init, JournalInv, Increasing, ChainInv
<1>4. SnapsInv
  BY <1>2, FS_EmptySet DEF SnapsInv
<1>5. PubInv
  BY DEF Init, PubInv, NoPub
<1>6. RotInv
  <2>1. DOMAIN snaps \ Valid = {} /\ Valid = {}
    BY <1>2 DEF Valid
  <2> QED
    BY <1>1, <1>2, <2>1, FS_EmptySet DEF Init, RotInv
<1>7. ServingInv /\ RestInv /\ ReplayInv
  BY DEF Init, ServingInv, RestInv, ReplayInv
<1>8. PromiseInv
  BY <1>2 DEF Init, PromiseInv
<1> QED
  BY <1>3, <1>4, <1>5, <1>6, <1>7, <1>8 DEF RecoveryInv

\* Nothing happens.
LEMMA StutterStep ==
  ASSUME TypeOK, RecoveryInv, UNCHANGED vars
  PROVE  RecoveryInv'
<1>1. /\ DiskKept
      /\ UNCHANGED <<phase, eng, lastTs, lastBatchTs, lastCheckpointTs, pc, failed, batch, pub, staged,
                     acked, promised, todo, rest, faults>>
  BY DEF vars, DiskKept
<1>2. JournalInv' /\ SnapsInv'
  BY <1>1, DiskFrame DEF RecoveryInv
<1>3. PubInv'
  BY <1>1, PubFrame DEF RecoveryInv
<1>4. RotInv'
  BY <1>1, RotFrame, SnapTypes DEF RecoveryInv, RotInv, DiskKept
<1>5. PromiseInv'
  BY <1>1, PromiseFrame DEF RecoveryInv
<1>6. ServingInv' /\ RestInv'
  BY <1>1 DEF RecoveryInv, ServingInv, RestInv, DiskKept, AtBoundary, Covered, Faults, Mode, Group
<1>7. ReplayInv'
  BY <1>1 DEF RecoveryInv, ReplayInv, DiskKept, Intact, Retained, Retain, Newest, EndOf
<1> QED
  BY <1>2, <1>3, <1>4, <1>5, <1>6, <1>7 DEF RecoveryInv

\* Every step keeps the directory recoverable, and none is refused.
LEMMA RecoveryStep ==
  ASSUME TypeOK, Dependable, RecoveryInv, [Next]_vars
  PROVE  RecoveryInv'
<1>1. ~WriteFails
  BY Luck, StrikesCounts DEF WriteFails
<1>2. CASE Submit \/ Sweep \/ RequestNow
  BY <1>2, ProducerStep
<1>3. CASE Consumer
  BY <1>1, <1>3, AppendStep, ProducerStep, ApplyStep, ThrowStep, SyncStep, PublishStep,
     BoundaryStep, RotateStep DEF Consumer
<1>4. CASE Background
  BY <1>4, PubMoves, RenameStep, PruneSnapshotStep, PruneSegmentStep, PruneLegacyStep
     DEF Background
<1>5. CASE Recovery
  BY <1>5, StartStep, ReplayOpenStep, ReplayRecordStep, FinishStep DEF Recovery
<1>6. CASE Stop \/ Kill \/ PowerLoss \/ Rot
  BY <1>6, StopStep, PowerStep, RotStep
<1>7. CASE UNCHANGED vars
  BY <1>7, StutterStep
<1> QED
  BY <1>2, <1>3, <1>4, <1>5, <1>6, <1>7 DEF Next

\* No step is refused.
LEMMA RefusalStep ==
  ASSUME TypeOK, Dependable, RecoveryInv, NeverRefused, [Next]_vars
  PROVE  NeverRefused'
<1> USE DEF disk, engine, journal, requests, recovery, ghosts, bounds, Publisher
<1>1. CASE StartRecovery \/ ReplayOpen
  BY <1>1, StartStep, ReplayOpenStep DEF NeverRefused
<1>2. CASE ~(StartRecovery \/ ReplayOpen)
  <2>1. phase' = phase \/ phase' = "down" \/ phase' = "up"
    BY <1>2 DEF Next, Consumer, Background, Recovery, vars, MemoryLost,
       Submit, Sweep, RequestNow, AppendCommand, WriteFails, DropCommand, ApplyCommand,
       ApplyThrows, BatchSync, PublishStaged, BatchDone, Boundary, RotateFlush, RotateReopen,
       PubWrite, PubFails, PubRename, PubScan, PruneSnapshot, PruneSegment, PruneLegacy,
       ReplayRecord, FinishRecovery, Stop, Kill, PowerLoss, Rot
  <2> QED
    BY <2>1, SMTT(40) DEF NeverRefused
<1> QED
  BY <1>1, <1>2

\* The step with which a shard serves again.
LEMMA ServedStep ==
  ASSUME TypeOK, RecoveryInv, [Next]_vars, Served
  PROVE  /\ Len(eng') <= Len(hist) /\ \A i \in 1 .. Len(eng') : eng'[i] = hist[i]
         /\ ~lossy => Len(eng') >= Len(hist)
         /\ \A t \in promised : \E i \in 1 .. Len(eng') : eng'[i] = t
<1> USE DEF disk, engine, journal, requests, recovery, ghosts, bounds, Publisher
<1>1. FinishRecovery
  BY DEF Served, Next, Consumer, Background, Recovery, vars, MemoryLost,
     Submit, Sweep, RequestNow, AppendCommand, WriteFails, DropCommand, ApplyCommand,
     ApplyThrows, BatchSync, PublishStaged, BatchDone, Boundary, RotateFlush, RotateReopen,
     PubWrite, PubFails, PubRename, PubScan, PruneSnapshot, PruneSegment, PruneLegacy,
     StartRecovery, ReplayOpen, ReplayRecord, Stop, Kill, PowerLoss, Rot, Deliver
<1>2. /\ eng' = eng /\ PrefixOf(eng, hist)
      /\ ~lossy => Len(eng) = Len(hist)
      /\ \A t \in promised \cup acked : \E i \in 1 .. Len(eng) : eng[i] = t
  BY <1>1, Recovered
<1> QED
  BY <1>2, MemoryTypes DEF PrefixOf

\* The invariant says that the directory is sound.
LEMMA SoundFromInv ==
  ASSUME TypeOK, RecoveryInv
  PROVE  DirectoryIsSound
<1>1. ASSUME NEW s \in DOMAIN snaps, NEW i \in 1 .. Len(hist)
      PROVE  hist[i] <= s <=> \E j \in 1 .. Len(snaps[s].st) : snaps[s].st[j] = hist[i]
  <2>1. PICK st : st = snaps[s].st
    OBVIOUS
  <2>2. PICK b : b = Begin(hist, s)
    OBVIOUS
  <2>3. s \in DOMAIN files /\ s # 0 /\ Len(st) = b /\ PrefixOf(st, hist)
    BY <2>1, <2>2 DEF RecoveryInv, SnapsInv, Image
  <2>4. StartsAt(hist, s, b) /\ Increasing(hist)
    BY <2>2, <2>3 DEF RecoveryInv, JournalInv, FileInv
  <2>5. b \in 1 .. Len(hist) /\ hist[b] = s /\ Len(hist) \in Nat /\ hist \in Seq(Int)
    BY <2>3, <2>4, MemoryTypes DEF StartsAt
  <2>6. \A j \in 1 .. b : st[j] = hist[j] /\ j \in 1 .. Len(hist)
    BY <2>3, <2>5 DEF PrefixOf
  <2>7. \A j, k \in 1 .. Len(hist) : hist[j] \in Int /\ (j < k => hist[j] < hist[k])
    BY <2>4, <2>5 DEF Increasing
  <2>8. ASSUME hist[i] <= s PROVE i \in 1 .. b
    BY <2>5, <2>7, <2>8
  <2>9. ASSUME NEW j \in 1 .. b, st[j] = hist[i] PROVE hist[i] <= s
    <3>1. hist[j] = hist[i] /\ j \in 1 .. Len(hist)
      BY <2>6, <2>9
    <3>2. j = b \/ j < b
      BY <2>5
    <3> QED
      BY <2>5, <2>7, <3>1, <3>2
  <2> QED
    BY <2>1, <2>3, <2>6, <2>8, <2>9
<1>2. ASSUME "fsync" \notin Faults, NEW f \in DOMAIN files, Unsynced(files[f]) # {}
      PROVE  Newest(f)
  <2> SUFFICES ASSUME ~Newest(f) PROVE FALSE
    OBVIOUS
  <2>1. files[f].durable = Len(files[f].recs) /\ Len(files[f].recs) \in Nat
    BY <1>2, FileTypes DEF RecoveryInv, JournalInv, FileInv, Covered
  <2> QED
    BY <1>2, <2>1 DEF Unsynced
<1>3. AppendsToNewest
  BY DEF AppendsToNewest, RecoveryInv, ServingInv, JournalInv, Newest, SnapsInv, Image
<1> QED
  BY <1>1, <1>2, <1>3 DEF DirectoryIsSound, SnapshotHoldsItsBoundary, OnlyNewestVolatile, Newest

\* The invariant holds throughout, on a deployment that can be depended on.
LEMMA RecoveryInvariant ==
  ASSUME Dependable
  PROVE  Spec => [](TypeOK /\ RecoveryInv /\ NeverRefused)
<1>1. Init => NeverRefused
  BY DEF Init, NeverRefused
<1>2. TypeOK /\ RecoveryInv /\ [Next]_vars => RecoveryInv'
  BY RecoveryStep
<1>3. TypeOK /\ RecoveryInv /\ NeverRefused /\ [Next]_vars => NeverRefused'
  BY RefusalStep
<1> QED
  BY InitRecovery, TypeCorrect, <1>1, <1>2, <1>3, PTL DEF Spec

\* Whatever crash point inside an append, a rotation, a publication or a pruning the
\* directory is left at: every snapshot is the history up to its boundary, only
\* the newest file is volatile, and that is the one a serving shard appends to.
THEOREM DirectoryStaysSound ==
  ASSUME Dependable
  PROVE  Spec => []DirectoryIsSound
<1>1. TypeOK /\ RecoveryInv => DirectoryIsSound
  BY SoundFromInv
<1> QED
  BY RecoveryInvariant, <1>1, PTL

\* start() always finds a snapshot or the whole history to recover from.
THEOREM RestartIsNeverRefused ==
  ASSUME Dependable
  PROVE  Spec => []NeverRefused
BY RecoveryInvariant, PTL

\* A restarted shard serves a prefix of the history its journal accepted, all of
\* it unless the power went, with every command whose event was ever published.
THEOREM RestartIsFaithful ==
  ASSUME Dependable
  PROVE  Spec => RecoversFaithfully
<1>1. TypeOK /\ RecoveryInv /\ [Next]_vars
        => [Served => /\ Len(eng') <= Len(hist)
                      /\ \A i \in 1 .. Len(eng') : eng'[i] = hist[i]]_vars
  BY ServedStep
<1>2. TypeOK /\ RecoveryInv /\ [Next]_vars
        => [Served /\ ~lossy => Len(eng') >= Len(hist)]_vars
  BY ServedStep
<1>3. TypeOK /\ RecoveryInv /\ [Next]_vars
        => [Served => \A t \in promised : \E i \in 1 .. Len(eng') : eng'[i] = t]_vars
  BY ServedStep
<1> QED
  BY RecoveryInvariant, <1>1, <1>2, <1>3, PTL
     DEF Spec, RecoversFaithfully, RecoversAPrefix, CrashLosesNothing, PromisesSurvive
=============================================================================

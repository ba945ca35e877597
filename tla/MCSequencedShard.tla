-------------------------- MODULE MCSequencedShard --------------------------
(* Model values for SequencedShard: the deployments each run looks at. *)
EXTENDS SequencedShard

\* Group commit under power loss and failing snapshot publishes, with a clock
\* that stalls and jumps.
GroupCommit == [mode |-> "Group", retain |-> 1, segmentRecords |-> 1, clock |-> {0, 3},
                faults |-> {"power", "publish"}, maxCommands |-> 4, maxCrashes |-> 2, maxFaults |-> 1]

\* No fsync per record; the process dies, and one write, fsync, publish or apply
\* fails before it does.
Process == [mode |-> "Off", retain |-> 1, segmentRecords |-> 1, clock |-> {0},
            faults |-> {"publish", "fsync", "torn", "write", "throw"},
            maxCommands |-> 4, maxCrashes |-> 1, maxFaults |-> 1]

\* A snapshot rots and recovery falls back a generation; crashes strike anywhere.
Fallback == [mode |-> "Full", retain |-> 2, segmentRecords |-> 1, clock |-> {0},
             faults |-> {"power", "rot"}, maxCommands |-> 5, maxCrashes |-> 2, maxFaults |-> 1]

\* fsync per record, power losses, and a publish or an apply that fails.
Durable == [Fallback EXCEPT !.retain = 1, !.faults = {"power", "publish", "throw"},
                            !.maxCommands = 4]

ShardDeployments == {GroupCommit, Process, Fallback, Durable}

\* For the deviation of README section 4: a torn tail is kept and appended after.
TornDeployments == { [Fallback EXCEPT !.retain = 1, !.segmentRecords = 3, !.faults = {"power", "torn"},
                                      !.maxCommands = 3] }
=============================================================================

---------------------- MODULE CheckpointProtocolProofs ----------------------
(* What TLAPS proves about CheckpointProtocol, for any number of shards, with *)
(* a lane or without, on threads of their own or on one driver.               *)
EXTENDS CheckpointProtocol, TLAPS

\* A step that touches neither a publish nor the lane, and brings nobody nearer to
\* the cut, keeps the invariant.
LEMMA LaneUntouched ==
  ASSUME LaneInv, pc' \in [Shards -> Places], publish' = publish, lane' = lane,
         \A s \in Shards : pc'[s] \in {"lane", "cut"} => pc'[s] = pc[s]
  PROVE  LaneInv'
BY ProtocolAssumption DEF LaneInv, OneCheckpointPerLane

\* Everybody starts outside the lane.
LEMMA InitLane == Init => LaneInv
BY ProtocolAssumption DEF Init, LaneInv, Places, PublishStates, OneCheckpointPerLane

\* The consumer asks for the lane once its publish is over, and cuts only through it.
LEMMA ConsumerLane == ASSUME LaneInv, NEW s \in Shards, Consumer(s) PROVE LaneInv'
<1>1. CASE Apply(s)
  BY <1>1, LaneUntouched DEF Apply, LaneInv, Places, PublishStates
<1>2. CASE LoadRequest(s)
  BY <1>2, LaneUntouched DEF LoadRequest, LaneInv, Places, PublishStates
<1>3. CASE ClearRequest(s)
  BY <1>3, LaneUntouched DEF ClearRequest, LaneInv, Places, PublishStates
<1>4. CASE TakeMandatory(s)
  BY <1>4, LaneUntouched DEF TakeMandatory, LaneInv, Places, PublishStates
<1>5. CASE PreviousDone(s)
  BY <1>5, ProtocolAssumption DEF PreviousDone, LaneInv, Places, PublishStates,
              OneCheckpointPerLane
<1>6. CASE EnterLane(s)
  <2>1. CASE s \in Laned /\ lane = Nobody /\ lane' = s /\ pc' = [pc EXCEPT ![s] = "cut"]
    \* The lane was free: nobody is at a cut or has a publish in flight.
    <3>1. \A t \in Laned : pc[t] # "cut" /\ publish[t] = "none"
      BY <2>1, ProtocolAssumption DEF LaneInv, OneCheckpointPerLane
    <3> QED
      BY <1>6, <2>1, <3>1, ProtocolAssumption DEF EnterLane, LaneInv, Places, PublishStates,
              OneCheckpointPerLane
  <2>2. CASE s \notin Laned /\ UNCHANGED lane /\ pc' = [pc EXCEPT ![s] = "cut"]
    BY <1>6, <2>2, ProtocolAssumption DEF EnterLane, LaneInv, Places, PublishStates,
              OneCheckpointPerLane
  <2>3. CASE UNCHANGED lane /\ pc' = [pc EXCEPT ![s] = "done"]
    BY <1>6, <2>3, LaneUntouched DEF EnterLane, LaneInv, Places, PublishStates
  <2> QED
    BY <1>6, <2>1, <2>2, <2>3 DEF EnterLane
<1>7. CASE Cut(s)
  BY <1>7, ProtocolAssumption DEF Cut, LaneInv, Places, PublishStates, OneCheckpointPerLane
<1>8. CASE Consumed(s)
  BY <1>8, LaneUntouched DEF Consumed, LaneInv, Places, PublishStates
<1>9. CASE CutThrows(s)
  BY <1>9, LaneUntouched DEF CutThrows, LaneInv, Places, PublishStates
<1> QED
  BY <1>1, <1>2, <1>3, <1>4, <1>5, <1>6, <1>7, <1>8, <1>9 DEF Consumer

\* The background task gives back a lane that is its own.
LEMMA TaskLane == ASSUME LaneInv, NEW s \in Shards, Task(s) PROVE LaneInv'
<1>1. CASE Published(s) \/ PublishFails(s)
  BY <1>1, ProtocolAssumption DEF Published, PublishFails, LaneInv, Places, PublishStates,
              OneCheckpointPerLane
<1>2. CASE Leave(s)
  <2>1. publish[s] # "none" /\ pc[s] # "cut"
    BY <1>2 DEF Leave, LaneInv
  <2>2. s \in Laned => \A t \in Laned \ {s} : pc[t] # "cut" /\ publish[t] = "none"
    BY <2>1 DEF LaneInv, OneCheckpointPerLane
  <2> QED
    BY <1>2, <2>1, <2>2, ProtocolAssumption DEF Leave, LaneInv, Places, PublishStates,
              OneCheckpointPerLane
<1> QED
  BY <1>1, <1>2 DEF Task

\* The producers, the driver, the sweeper and the caller never touch the lane.
LEMMA OthersLane ==
  ASSUME LaneInv, NEW s \in Shards,
         Submit(s) \/ DriverTurn(s) \/ NowBegin(s) \/ Sweeper(s) \/ Caller(s)
  PROVE  LaneInv'
<1>1. UNCHANGED <<pc, publish, lane>>
  BY DEF Submit, DriverTurn, NowBegin, Sweeper, Caller, SweepAsk, SweepSkip, SweepNudge,
         SweepTick, Tick, TurnEnds, NowDrained, NowMandatory, NowRequest, NowNudge, NowWait, NowReturn,
         NowOnly
<1> QED
  BY <1>1, LaneUntouched DEF LaneInv

\* LaneInv is inductive.
LEMMA NextLane == LaneInv /\ [Next]_vars => LaneInv'
<1> SUFFICES ASSUME LaneInv, [Next]_vars PROVE LaneInv'
  OBVIOUS
<1>1. CASE UNCHANGED vars
  BY <1>1, LaneUntouched DEF vars, LaneInv
<1> QED
  BY <1>1, ConsumerLane, TaskLane, OthersLane DEF Next

\* The inductive invariant of the lane.
LEMMA LaneIsSound == Spec => []LaneInv
BY InitLane, NextLane, PTL DEF Spec

\* CheckpointLane: whichever shards share it and whoever drives them, at most one is
\* between its cut and the end of its publish.
THEOREM LaneExcludes == Spec => []OneCheckpointPerLane
<1>1. LaneInv => OneCheckpointPerLane
  BY DEF LaneInv
<1> QED
  BY <1>1, LaneIsSound, PTL

\* doCheckpoint: no shard ever has two background publishes in flight.
THEOREM OnePublishAtATime == Spec => []OnePublishInFlight
<1>1. LaneInv => OnePublishInFlight
  BY DEF LaneInv, OnePublishInFlight
<1> QED
  BY <1>1, LaneIsSound, PTL

-----------------------------------------------------------------------------
(* checkpointNow *)

\* The values the flags, counters and program counters start from.
LEMMA InitType == Init => TypeOK /\ AtACommand
BY ProtocolAssumption, SMTT(40) DEF Init, AtACommand, TypeOK, Calls, CallPlaces, Places, PublishStates, NoCall, Idle

\* What a call may become.
LEMMA CallOps ==
  ASSUME NEW c \in Calls
  PROVE  /\ c.pc \in CallPlaces /\ c.ahead \in 0 .. Capacity
         /\ c.counted \in BOOLEAN /\ c.covered \in BOOLEAN
         /\ \A p \in CallPlaces : [c EXCEPT !.pc = p] \in Calls
         /\ \A p \in CallPlaces, n \in 0 .. Capacity : [c EXCEPT !.pc = p, !.ahead = n] \in Calls
         /\ \A p \in CallPlaces, r \in {"true", "false"} : [c EXCEPT !.pc = p, !.result = r] \in Calls
         /\ \A n \in 0 .. Capacity : [c EXCEPT !.ahead = n] \in Calls
         /\ \A x, y \in BOOLEAN : [c EXCEPT !.counted = x, !.covered = y] \in Calls
BY DEF Calls

\* Every step keeps them; ahead never counts more than the ring holds.
LEMMA NextType == TypeOK /\ AtACommand /\ [Next]_vars => TypeOK'
<1> SUFFICES ASSUME TypeOK, AtACommand, [Next]_vars PROVE TypeOK'
  OBVIOUS
<1> USE ProtocolAssumption DEF TypeOK, Places, PublishStates, At, Idle
<1>0. CASE UNCHANGED vars
  BY <1>0 DEF vars
<1>1. ASSUME NEW s \in Shards, Submit(s) PROVE TypeOK'
  BY <1>1 DEF Submit
<1>2. ASSUME NEW s \in Shards, DriverTurn(s) PROVE TypeOK'
  BY <1>2 DEF DriverTurn
<1>3. ASSUME NEW s \in Shards, NowBegin(s) PROVE TypeOK'
  BY <1>3 DEF NowBegin, Now, NowOnly, NoCall, Calls, CallPlaces
<1>4. ASSUME NEW s \in Shards, Apply(s) PROVE TypeOK'
  BY <1>4 DEF Apply
<1>5. ASSUME NEW s \in Shards, LoadRequest(s) PROVE TypeOK'
  BY <1>5 DEF LoadRequest
<1>6. ASSUME NEW s \in Shards, ClearRequest(s) PROVE TypeOK'
  BY <1>6 DEF ClearRequest
<1>7. ASSUME NEW s \in Shards, TakeMandatory(s) PROVE TypeOK'
  BY <1>7 DEF TakeMandatory
<1>8. ASSUME NEW s \in Shards, PreviousDone(s) PROVE TypeOK'
  BY <1>8 DEF PreviousDone
<1>9. ASSUME NEW s \in Shards, EnterLane(s) PROVE TypeOK'
  BY <1>9 DEF EnterLane
<1>10. ASSUME NEW s \in Shards, Cut(s) PROVE TypeOK'
  BY <1>10 DEF Cut
<1>11. ASSUME NEW s \in Shards, Consumed(s) PROVE TypeOK'
  <2>1. backlog[s] \in 1 .. Capacity /\ now[s] \in Calls
    BY <1>11 DEF Consumed, AtACommand
  <2>2. [now[s] EXCEPT !.ahead = IF now[s].ahead > 0 THEN now[s].ahead - 1 ELSE 0] \in Calls
    <3>0. now[s].ahead \in 0 .. Capacity
      BY <2>1, CallOps
    <3>1. (IF now[s].ahead > 0 THEN now[s].ahead - 1 ELSE 0) \in 0 .. Capacity
      BY <3>0
    <3> QED
      BY <2>1, <3>1, CallOps
  <2>3. now' = [now EXCEPT ![s] = [now[s] EXCEPT !.ahead = IF now[s].ahead > 0 THEN now[s].ahead - 1 ELSE 0]]
    BY <1>11 DEF Consumed
  <2> QED
    BY <1>11, <2>1, <2>2, <2>3 DEF Consumed, TurnEnds
<1>12. ASSUME NEW s \in Shards, SweepAsk(s) PROVE TypeOK'
  BY <1>12 DEF SweepAsk
<1>13. ASSUME NEW s \in Shards, SweepSkip(s) PROVE TypeOK'
  BY <1>13 DEF SweepSkip, TurnEnds
<1>14. ASSUME NEW s \in Shards, SweepNudge(s) PROVE TypeOK'
  BY <1>14 DEF SweepNudge, Tick, TurnEnds
<1>15. ASSUME NEW s \in Shards, SweepTick(s) PROVE TypeOK'
  BY <1>15 DEF SweepTick, Tick, TurnEnds
<1>16. ASSUME NEW s \in Shards, NowDrained(s) PROVE TypeOK'
  <2>1. now' = [now EXCEPT ![s] = [now[s] EXCEPT !.pc = "mandatory"]]
    BY <1>16, SMTT(40) DEF NowDrained, Now
  <2>2. [now[s] EXCEPT !.pc = "mandatory"] \in Calls
    BY <1>16, CallOps, ZenonT(60) DEF NowDrained, CallPlaces
  <2> QED
    BY <1>16, <2>1, <2>2 DEF NowDrained, NowOnly
<1>17. ASSUME NEW s \in Shards, NowMandatory(s) PROVE TypeOK'
  <2>1. now' = [now EXCEPT ![s] = [now[s] EXCEPT !.pc = "request"]]
    BY <1>17 DEF NowMandatory, Now
  <2>2. [now[s] EXCEPT !.pc = "request"] \in Calls
    BY <1>17, CallOps, ZenonT(60) DEF NowMandatory, CallPlaces
  <2> QED
    BY <1>17, <2>1, <2>2 DEF NowMandatory, NowOnly
<1>18. ASSUME NEW s \in Shards, NowRequest(s) PROVE TypeOK'
  <2>1. now' = [now EXCEPT ![s] = [now[s] EXCEPT !.pc = "nudge"]]
    BY <1>18 DEF NowRequest, Now
  <2>2. [now[s] EXCEPT !.pc = "nudge"] \in Calls
    BY <1>18, CallOps DEF NowRequest, CallPlaces
  <2> QED
    BY <1>18, <2>1, <2>2 DEF NowRequest, NowOnly
<1>19. ASSUME NEW s \in Shards, NowNudge(s) PROVE TypeOK'
  <2>1. now' = [now EXCEPT ![s] = [now[s] EXCEPT !.pc = "flush", !.ahead = backlog[s] + 1]]
    BY <1>19 DEF NowNudge, Now
  <2>2. [now[s] EXCEPT !.pc = "flush", !.ahead = backlog[s] + 1] \in Calls
    <3>1. backlog[s] + 1 \in 0 .. Capacity /\ now[s] \in Calls /\ "flush" \in CallPlaces
      BY <1>19 DEF NowNudge, CallPlaces
    <3> QED
      BY <3>1, CallOps, ZenonT(60)
  <2> QED
    BY <1>19, <2>1, <2>2 DEF NowNudge, NowOnly
<1>20. ASSUME NEW s \in Shards, NowWait(s) PROVE TypeOK'
  <2>1. now' = [now EXCEPT ![s] = [now[s] EXCEPT !.pc = IF publish[s] = "none" THEN "answer" ELSE "wait"]]
    BY <1>20 DEF NowWait, Now
  <2>2. [now[s] EXCEPT !.pc = IF publish[s] = "none" THEN "answer" ELSE "wait"] \in Calls
    BY <1>20, CallOps, ZenonT(60) DEF NowWait, CallPlaces
  <2> QED
    BY <1>20, <2>1, <2>2 DEF NowWait, NowOnly
<1>21. ASSUME NEW s \in Shards, NowReturn(s) PROVE TypeOK'
  <2>1. now' = [now EXCEPT ![s] = [now[s] EXCEPT !.pc = "idle", !.result = IF now[s].counted THEN "true" ELSE "false"]]
    BY <1>21 DEF NowReturn, Now
  <2>2. [now[s] EXCEPT !.pc = "idle", !.result = IF now[s].counted THEN "true" ELSE "false"] \in Calls
    BY <1>21, CallOps DEF NowReturn, CallPlaces
  <2> QED
    BY <1>21, <2>1, <2>2 DEF NowReturn, NowOnly
<1>22. ASSUME NEW s \in Shards, Published(s) PROVE TypeOK'
  <2>1. now' = [now EXCEPT ![s] = [now[s] EXCEPT !.counted = @ \/ now[s].pc # "idle", !.covered = @ \/ holds[s]]]
    BY <1>22 DEF Published, Now
  <2>2. [now[s] EXCEPT !.counted = @ \/ now[s].pc # "idle", !.covered = @ \/ holds[s]] \in Calls
    BY <1>22, CallOps DEF Published, CallPlaces
  <2> QED
    BY <1>22, <2>1, <2>2 DEF Published, NowOnly
<1>23. ASSUME NEW s \in Shards, PublishFails(s) PROVE TypeOK'
  BY <1>23 DEF PublishFails
<1>24. ASSUME NEW s \in Shards, Leave(s) PROVE TypeOK'
  <2>1. now' = [now EXCEPT ![s] = [now[s] EXCEPT !.pc = IF @ = "wait" THEN "answer" ELSE @]]
    BY <1>24 DEF Leave, Now
  <2>2. [now[s] EXCEPT !.pc = IF @ = "wait" THEN "answer" ELSE @] \in Calls
    <3>1. now[s] \in Calls /\ (IF now[s].pc = "wait" THEN "answer" ELSE now[s].pc) \in CallPlaces
      BY <1>24, CallOps DEF Leave, CallPlaces
    <3> QED
      BY <3>1, CallOps, ZenonT(60)
  <2> QED
    BY <1>24, <2>1, <2>2 DEF Leave, NowOnly
<1>25. ASSUME NEW s \in Shards, CutThrows(s) PROVE TypeOK'
  BY <1>25 DEF CutThrows, TurnEnds
<1> QED
  BY <1>25, <1>0, <1>1, <1>2, <1>3, <1>4, <1>5, <1>6, <1>7, <1>8, <1>9, <1>10, <1>11, <1>12, <1>13, <1>14, <1>15, <1>16, <1>17, <1>18, <1>19, <1>20, <1>21, <1>22, <1>23, <1>24
     DEF Next, Consumer, Sweeper, Caller, Task

\* The ring gives up a command only at the end of onCommand.
LEMMA NextAtACommand == TypeOK /\ AtACommand /\ [Next]_vars => AtACommand'
<1> SUFFICES ASSUME TypeOK, AtACommand, [Next]_vars PROVE AtACommand'
  OBVIOUS
<1>0. /\ backlog \in [Shards -> Nat] /\ pc \in [Shards -> Places]
  BY ProtocolAssumption DEF TypeOK
<1> USE <1>0 DEF AtACommand, Places
<1>1. CASE UNCHANGED <<backlog, pc>>
  BY <1>1
<1>2. ASSUME NEW s \in Shards, UNCHANGED pc, backlog' = [backlog EXCEPT ![s] = @ + 1]
      PROVE  AtACommand'
  BY <1>2
<1>3. ASSUME NEW s \in Shards, Consumer(s) PROVE AtACommand'
  BY <1>3 DEF Consumer, Apply, LoadRequest, ClearRequest, TakeMandatory, PreviousDone,
              EnterLane, Cut, CutThrows, Consumed
<1>4. ASSUME NEW s \in Shards, ~Consumer(s),
             \/ Submit(s) \/ DriverTurn(s) \/ NowBegin(s)
             \/ Sweeper(s) \/ Caller(s) \/ Task(s)
      PROVE  UNCHANGED pc /\ (UNCHANGED backlog \/ backlog' = [backlog EXCEPT ![s] = @ + 1])
  BY <1>4 DEF Submit, DriverTurn, NowBegin, Sweeper, SweepAsk, SweepSkip, SweepNudge, SweepTick,
              Tick, Caller, NowDrained, NowMandatory, NowRequest, NowNudge, NowWait, NowReturn,
              NowOnly, Task, Published, PublishFails, Leave
<1> QED
  BY <1>1, <1>2, <1>3, <1>4 DEF Next, vars

\* No call has begun.
LEMMA InitNow == Init => NowInv
BY DEF Init, NowInv, CallInv, FlagIsTaken, NoCall

\* A step that leaves a shard alone leaves its call alone.
LEMMA CallUntouched ==
  ASSUME NEW t \in Shards, CallInv(t), failures \in Nat, failures' \in Nat, failures' >= failures,
         pc'[t] = pc[t], requested'[t] = requested[t], mandatory'[t] = mandatory[t],
         named'[t] = named[t], publish'[t] = publish[t], holds'[t] = holds[t], now'[t] = now[t]
  PROVE  CallInv(t)'
BY SMTT(40) DEF CallInv, FlagIsTaken, OnItsWay, Served

\* A step of a shard keeps the invariant of its own call.
LEMMA OwnCall ==
  ASSUME TypeOK, AtACommand, LaneInv, NEW s \in Shards, CallInv(s),
         \/ Submit(s) \/ DriverTurn(s) \/ NowBegin(s)
         \/ Consumer(s) \/ Sweeper(s) \/ Caller(s) \/ Task(s)
  PROVE  CallInv(s)'
<1>0. /\ backlog \in [Shards -> Nat] /\ pc \in [Shards -> Places]
      /\ publish \in [Shards -> PublishStates]
      /\ now \in [Shards -> [pc : CallPlaces, ahead : Nat, counted : BOOLEAN,
                             covered : BOOLEAN, result : {"none", "true", "false"}]]
      /\ requested \in [Shards -> BOOLEAN] /\ mandatory \in [Shards -> BOOLEAN]
      /\ named \in [Shards -> BOOLEAN] /\ holds \in [Shards -> BOOLEAN] /\ failures \in Nat
  BY ProtocolAssumption DEF TypeOK, Calls
<1> USE <1>0 DEF CallInv, FlagIsTaken, OnItsWay, Served, Places, PublishStates, CallPlaces
<1>1. CASE Submit(s)
  BY <1>1 DEF Submit
<1>2. CASE DriverTurn(s)
  BY <1>2 DEF DriverTurn
<1>3. CASE NowBegin(s)
  BY <1>3 DEF NowBegin, Now, NowOnly, NoCall
<1>4. CASE Apply(s)
  BY <1>4 DEF Apply
<1>5. CASE LoadRequest(s)
  BY <1>5 DEF LoadRequest
<1>6. CASE ClearRequest(s)
  BY <1>6 DEF ClearRequest
<1>7. CASE TakeMandatory(s)
  BY <1>7 DEF TakeMandatory
<1>8. CASE PreviousDone(s)
  BY <1>8 DEF PreviousDone
<1>9. CASE EnterLane(s)
  BY <1>9 DEF EnterLane
<1>10. CASE Cut(s)
  BY <1>10 DEF Cut, LaneInv
<1>11. CASE Consumed(s)
  BY <1>11 DEF Consumed, TurnEnds
<1>12. CASE SweepAsk(s)
  BY <1>12 DEF SweepAsk
<1>13. CASE SweepSkip(s)
  BY <1>13 DEF SweepSkip, TurnEnds
<1>14. CASE SweepNudge(s)
  BY <1>14 DEF SweepNudge, Tick, TurnEnds
<1>15. CASE SweepTick(s)
  BY <1>15 DEF SweepTick, Tick, TurnEnds
<1>16. CASE NowDrained(s)
  BY <1>16 DEF NowDrained, Now, NowOnly
<1>17. CASE NowMandatory(s)
  BY <1>17 DEF NowMandatory, Now, NowOnly
<1>18. CASE NowRequest(s)
  BY <1>18 DEF NowRequest, Now, NowOnly
<1>19. CASE NowNudge(s)
  BY <1>19 DEF NowNudge, Now, NowOnly, AtACommand
<1>20. CASE NowWait(s)
  BY <1>20 DEF NowWait, Now, NowOnly
<1>21. CASE NowReturn(s)
  BY <1>21 DEF NowReturn, Now, NowOnly
<1>22. CASE Published(s)
  BY <1>22 DEF Published
<1>23. CASE PublishFails(s)
  BY <1>23 DEF PublishFails
<1>24. CASE Leave(s)
  BY <1>24 DEF Leave
<1>25. CASE CutThrows(s)
  BY <1>25 DEF CutThrows, TurnEnds
<1> QED
  BY <1>25, <1>1, <1>2, <1>3, <1>4, <1>5, <1>6, <1>7, <1>8, <1>9, <1>10, <1>11, <1>12, <1>13, <1>14, <1>15, <1>16, <1>17, <1>18, <1>19, <1>20, <1>21, <1>22, <1>23, <1>24
     DEF Consumer, Sweeper, Caller, Task

\* A step of one shard leaves the others' flags and calls alone.
LEMMA OthersCall ==
  ASSUME TypeOK, TypeOK', NEW s \in Shards, NEW t \in Shards \ {s}, CallInv(t),
         \/ Submit(s) \/ DriverTurn(s) \/ NowBegin(s)
         \/ Consumer(s) \/ Sweeper(s) \/ Caller(s) \/ Task(s)
  PROVE  CallInv(t)'
<1>1. /\ failures \in Nat /\ failures' \in Nat
      /\ failures' = failures \/ failures' = failures + 1
  BY ProtocolAssumption
     DEF TypeOK, Submit, DriverTurn, NowBegin, Consumer, Apply, LoadRequest, ClearRequest,
         TakeMandatory, PreviousDone, EnterLane, Cut, CutThrows, Consumed, Sweeper, SweepAsk, SweepSkip,
         SweepNudge, SweepTick, Tick, Caller, NowDrained, NowMandatory, NowRequest, NowNudge,
         NowWait, NowReturn, NowOnly, Task, Published, PublishFails, Leave
<1>2. /\ pc'[t] = pc[t] /\ requested'[t] = requested[t] /\ mandatory'[t] = mandatory[t]
      /\ named'[t] = named[t] /\ publish'[t] = publish[t] /\ holds'[t] = holds[t]
      /\ now'[t] = now[t]
  BY DEF TypeOK, Submit, DriverTurn, NowBegin, Consumer, Apply, LoadRequest, ClearRequest,
         TakeMandatory, PreviousDone, EnterLane, Cut, CutThrows, Consumed, Sweeper, SweepAsk, SweepSkip,
         SweepNudge, SweepTick, Tick, Caller, NowDrained, NowMandatory, NowRequest, NowNudge,
         NowWait, NowReturn, Now, NowOnly, Task, Published, PublishFails, Leave
<1> QED
  BY <1>1, <1>2, CallUntouched

\* The invariant of every call.
LEMMA NextNow ==
  TypeOK /\ TypeOK' /\ AtACommand /\ LaneInv /\ NowInv /\ [Next]_vars => NowInv'
<1> SUFFICES ASSUME TypeOK, TypeOK', AtACommand, LaneInv, NowInv, [Next]_vars, NEW t \in Shards
             PROVE  CallInv(t)'
  BY DEF NowInv
<1>1. CASE UNCHANGED vars
  BY <1>1, ProtocolAssumption, CallUntouched DEF vars, NowInv, TypeOK
<1>2. ASSUME NEW s \in Shards,
             \/ Submit(s) \/ DriverTurn(s) \/ NowBegin(s)
             \/ Consumer(s) \/ Sweeper(s) \/ Caller(s) \/ Task(s)
      PROVE  CallInv(t)'
  BY <1>2, OwnCall, OthersCall DEF NowInv
<1> QED
  BY <1>1, <1>2 DEF Next

\* The flags, counters and program counters of the protocol keep their types, the ring
\* never holds fewer commands than a consumer is at, and no call counts on more of them
\* than there are.
THEOREM ProtocolTypes == Spec => [](TypeOK /\ AtACommand)
BY InitType, NextType, NextAtACommand, PTL DEF Spec

\* checkpointNow: whichever boundary takes its request, however the sweeper's request, the
\* lane and an earlier publish race it, and whoever drives the shard: as long as no cut and
\* no publish has failed, the call answers true, and then a snapshot on disk covers everything submitted
\* before the call.
THEOREM NowIsTruthful == Spec => [](failures = 0 => NowTellsTheTruth)
<1>1. NowInv => (failures = 0 => NowTellsTheTruth)
  BY DEF NowInv, CallInv, NowTellsTheTruth, TrueMeansCovered, NowSucceeds
<1>2. Spec => []NowInv
  BY InitNow, NextNow, ProtocolTypes, LaneIsSound, PTL DEF Spec
<1> QED
  BY <1>1, <1>2, PTL

\* Where cuts and publishes never fail at all, it does so in every state.
THEOREM NowAlwaysTruthful == ASSUME MaxFailures = 0 PROVE Spec => []NowTellsTheTruth
<1>1. TypeOK => failures = 0
  BY DEF TypeOK
<1> QED
  BY <1>1, ProtocolTypes, NowIsTruthful, PTL
=============================================================================

-------------------------- MODULE BusParkingProofs --------------------------
(* What TLAPS proves about BusParking, for any number of waiters and          *)
(* publishers, with the timed net or without it.                              *)
EXTENDS BusParking, TLAPS

\* Everybody starts outside, with nothing stamped.
LEMMA InitParking == Init => ParkingInv
BY ParkingAssumption
   DEF Init, ParkingInv, TypeOK, MutexHolds, HandsUp, LookStillGood, NoLostWakeup,
       NoSleepPastStop, Nobody

\* The invariant survives a claim.
LEMMA ClaimParking == ASSUME ParkingInv, NEW p \in Publishers, Claim(p) PROVE ParkingInv'
BY ParkingAssumption
   DEF Claim, ParkingInv, TypeOK, MutexHolds, HandsUp, LookStillGood, NoLostWakeup,
       NoSleepPastStop, Coming, At, Go, Nobody, Awake

\* The invariant survives a stamp.
LEMMA StampParking == ASSUME ParkingInv, NEW p \in Publishers, Stamp(p) PROVE ParkingInv'
<1>1. pub[p].pc = "stamp" /\ pub' = [pub EXCEPT ![p] = [pc |-> "look", seq |-> pub[p].seq]]
  BY DEF Stamp, At
<1>2. pub'[p].pc = "look"
  BY <1>1 DEF ParkingInv, TypeOK
<1>3. UNCHANGED <<running, claimed, wait, want, hands, mutex, stopper>>
  BY DEF Stamp
<1>4. TypeOK'
  BY <1>1, <1>3 DEF ParkingInv, TypeOK, Stamp
<1>5. MutexHolds' /\ HandsUp' /\ NoSleepPastStop'
  BY <1>3 DEF ParkingInv, MutexHolds, HandsUp, NoSleepPastStop
\* Whoever the new event concerns has this publisher coming.
<1>6. LookStillGood'
  BY <1>2, <1>3 DEF ParkingInv, LookStillGood
<1>7. NoLostWakeup'
  BY <1>2 DEF NoLostWakeup, Coming
<1> QED
  BY <1>4, <1>5, <1>6, <1>7 DEF ParkingInv

\* The invariant survives the look for hands.
LEMMA LookForHandsParking == ASSUME ParkingInv, NEW p \in Publishers, LookForHands(p) PROVE ParkingInv'
BY ParkingAssumption
   DEF LookForHands, ParkingInv, TypeOK, MutexHolds, HandsUp, LookStillGood, NoLostWakeup,
       NoSleepPastStop, Coming, At, Go, Nobody, Awake

\* The invariant survives passing the mutex.
LEMMA PassMutexParking == ASSUME ParkingInv, NEW p \in Publishers, PassMutex(p) PROVE ParkingInv'
BY ParkingAssumption
   DEF PassMutex, ParkingInv, TypeOK, MutexHolds, HandsUp, LookStillGood, NoLostWakeup,
       NoSleepPastStop, Coming, At, Go, Nobody, Awake

\* The invariant survives a notify.
LEMMA NotifyParking == ASSUME ParkingInv, NEW p \in Publishers, Notify(p) PROVE ParkingInv'
BY ParkingAssumption
   DEF Notify, ParkingInv, TypeOK, MutexHolds, HandsUp, LookStillGood, NoLostWakeup,
       NoSleepPastStop, Coming, At, Go, Nobody, Awake

\* The invariant survives a poll.
LEMMA PollParking == ASSUME ParkingInv, NEW w \in Waiters, Poll(w) PROVE ParkingInv'
BY ParkingAssumption
   DEF Poll, ParkingInv, TypeOK, MutexHolds, HandsUp, LookStillGood, NoLostWakeup,
       NoSleepPastStop, Coming, At, Go, Nobody, Awake

\* The invariant survives the lock.
LEMMA LockParking == ASSUME ParkingInv, NEW w \in Waiters, Lock(w) PROVE ParkingInv'
BY ParkingAssumption
   DEF Lock, ParkingInv, TypeOK, MutexHolds, HandsUp, LookStillGood, NoLostWakeup,
       NoSleepPastStop, Coming, At, Go, Nobody, Awake

\* The invariant survives a raised hand.
LEMMA RaiseHandParking == ASSUME ParkingInv, NEW w \in Waiters, RaiseHand(w) PROVE ParkingInv'
BY ParkingAssumption
   DEF RaiseHand, ParkingInv, TypeOK, MutexHolds, HandsUp, LookStillGood, NoLostWakeup,
       NoSleepPastStop, Coming, At, Go, Nobody, Awake

\* The invariant survives the last look.
LEMMA LastLookParking == ASSUME ParkingInv, NEW w \in Waiters, LastLook(w) PROVE ParkingInv'
BY ParkingAssumption
   DEF LastLook, ParkingInv, TypeOK, MutexHolds, HandsUp, LookStillGood, NoLostWakeup,
       NoSleepPastStop, Coming, At, Go, Nobody, Awake

\* The invariant survives going to sleep.
LEMMA SleepParking == ASSUME ParkingInv, NEW w \in Waiters, Sleep(w) PROVE ParkingInv'
<1>1. wait[w] = "sleep" /\ wait' = [wait EXCEPT ![w] = "asleep"] /\ mutex' = {}
  BY DEF Sleep, Go, Nobody
<1>2. UNCHANGED <<running, claimed, stamped, pub, want, hands, stopper>>
  BY DEF Sleep
<1>3. /\ wait'[w] = "asleep" /\ \A v \in Waiters : v # w => wait'[v] = wait[v]
  BY <1>1 DEF ParkingInv, TypeOK
<1>4. TypeOK'
  BY <1>1, <1>2 DEF ParkingInv, TypeOK
\* Nobody else was under the mutex.
<1>5. mutex = {w}
  BY <1>1 DEF ParkingInv, MutexHolds
<1>6. \A v \in Waiters : v # w => wait[v] \notin {"hand", "look", "sleep", "leave"}
  BY <1>5 DEF ParkingInv, MutexHolds
<1>7. MutexHolds'
  BY <1>1, <1>3, <1>6 DEF MutexHolds
<1>8. HandsUp'
  BY <1>1, <1>2, <1>3 DEF ParkingInv, HandsUp
<1>9. LookStillGood'
  BY <1>3, <1>6 DEF LookStillGood
\* What came after the look is still on its way.
<1>10. NoLostWakeup'
  BY <1>1, <1>2, <1>3 DEF ParkingInv, LookStillGood, NoLostWakeup, Coming
<1>11. NoSleepPastStop'
  BY <1>1, <1>2, <1>3 DEF ParkingInv, LookStillGood, NoSleepPastStop
<1> QED
  BY <1>4, <1>7, <1>8, <1>9, <1>10, <1>11 DEF ParkingInv

\* The invariant survives the net.
LEMMA NetExpiresParking == ASSUME ParkingInv, NEW w \in Waiters, NetExpires(w) PROVE ParkingInv'
BY ParkingAssumption
   DEF NetExpires, ParkingInv, TypeOK, MutexHolds, HandsUp, LookStillGood, NoLostWakeup,
       NoSleepPastStop, Coming, At, Go, Nobody, Awake

\* The invariant survives waking up.
LEMMA RelockParking == ASSUME ParkingInv, NEW w \in Waiters, Relock(w) PROVE ParkingInv'
BY ParkingAssumption
   DEF Relock, ParkingInv, TypeOK, MutexHolds, HandsUp, LookStillGood, NoLostWakeup,
       NoSleepPastStop, Coming, At, Go, Nobody, Awake

\* The invariant survives leaving.
LEMMA LeaveParking == ASSUME ParkingInv, NEW w \in Waiters, Leave(w) PROVE ParkingInv'
BY ParkingAssumption
   DEF Leave, ParkingInv, TypeOK, MutexHolds, HandsUp, LookStillGood, NoLostWakeup,
       NoSleepPastStop, Coming, At, Go, Nobody, Awake

\* The invariant survives the stop flag.
LEMMA StopFlagParking == ASSUME ParkingInv, StopFlag PROVE ParkingInv'
BY ParkingAssumption
   DEF StopFlag, ParkingInv, TypeOK, MutexHolds, HandsUp, LookStillGood, NoLostWakeup,
       NoSleepPastStop, Coming, At, Go, Nobody, Awake

\* The invariant survives the stop passing the mutex.
LEMMA StopPassParking == ASSUME ParkingInv, StopPass PROVE ParkingInv'
BY ParkingAssumption
   DEF StopPass, ParkingInv, TypeOK, MutexHolds, HandsUp, LookStillGood, NoLostWakeup,
       NoSleepPastStop, Coming, At, Go, Nobody, Awake

\* The invariant survives the stop notifying.
LEMMA StopNotifyParking == ASSUME ParkingInv, StopNotify PROVE ParkingInv'
BY ParkingAssumption
   DEF StopNotify, ParkingInv, TypeOK, MutexHolds, HandsUp, LookStillGood, NoLostWakeup,
       NoSleepPastStop, Coming, At, Go, Nobody, Awake

\* ParkingInv is inductive: every step of every thread keeps it.
LEMMA NextParking == ParkingInv /\ [Next]_vars => ParkingInv'
<1> SUFFICES ASSUME ParkingInv, [Next]_vars PROVE ParkingInv'
  OBVIOUS
<1>1. ASSUME NEW p \in Publishers, Claim(p) \/ Publish(p) PROVE ParkingInv'
  BY <1>1, ClaimParking, StampParking, LookForHandsParking, PassMutexParking, NotifyParking
     DEF Publish
<1>2. ASSUME NEW w \in Waiters, Waiter(w) PROVE ParkingInv'
  BY <1>2, PollParking, LockParking, RaiseHandParking, LastLookParking, SleepParking,
     NetExpiresParking, RelockParking, LeaveParking DEF Waiter
<1>3. CASE StopFlag \/ Stop
  BY <1>3, StopFlagParking, StopPassParking, StopNotifyParking DEF Stop
<1>4. CASE UNCHANGED vars
  BY <1>4 DEF vars, ParkingInv, TypeOK, MutexHolds, HandsUp, LookStillGood, NoLostWakeup,
              NoSleepPastStop, Coming
<1> QED
  BY <1>1, <1>2, <1>3, <1>4 DEF Next

\* The inductive invariant of the parking protocol holds in every reachable state,
\* for any number of waiters and publishers.
THEOREM ParkingIsSound == Spec => []ParkingInv
BY InitParking, NextParking, PTL DEF Spec

\* park() against wakeParked(): no waiter is asleep on an event that is in the ring
\* unless a publisher is on its way to wake it.
THEOREM NoWakeupIsLost == Spec => []NoLostWakeup
<1>1. ParkingInv => NoLostWakeup
  BY DEF ParkingInv
<1> QED
  BY <1>1, ParkingIsSound, PTL

\* park() against doStop(): no waiter is asleep in a stopped bus unless stop() is on
\* its way to wake it.
THEOREM NobodySleepsPastStop == Spec => []NoSleepPastStop
<1>1. ParkingInv => NoSleepPastStop
  BY DEF ParkingInv
<1> QED
  BY <1>1, ParkingIsSound, PTL
=============================================================================

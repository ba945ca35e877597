----------------------------- MODULE BusParking -----------------------------
(***************************************************************************)
(* How a consumer sleeps while its ring is empty, and how a publish or a    *)
(* stop() wakes it (park, wakeParked and doStop of event_bus.h; park and    *)
(* wake of wake_set.h, the same protocol for a driver of many rings).       *)
(*                                                                         *)
(* The waiter raises its hand, looks a last time and goes to sleep, all     *)
(* under the mutex.  The publisher stamps, reads the hands, passes through  *)
(* the mutex and notifies.  The sequentially consistent fences on both      *)
(* sides make each of these one step in one order.  What the ring holds is  *)
(* the subject of EventBus: here a sequence is stamped or it is not.        *)
(***************************************************************************)
EXTENDS Naturals

CONSTANTS
  Waiters, Publishers,
  Net,        \* the timed wait may expire
  MaxSeq      \* bound: sequences handed out

ASSUME ParkingAssumption == Net \in BOOLEAN /\ MaxSeq \in Nat

VARIABLES
  running,    \* _running
  claimed,    \* sequences handed out so far
  stamped,    \* those a consumer finds in its slot
  pub,        \* publishers: where they are and the sequence they hold
  wait,       \* waiters: where they are
  want,       \* the sequence each waiter wants next
  hands,      \* who is counted in _parkWaiters
  mutex,      \* who holds _parkMx
  stopper     \* the thread in stop()

vars == <<running, claimed, stamped, pub, wait, want, hands, mutex, stopper>>

Nobody == {}

Init ==
  /\ running = TRUE /\ claimed = 0 /\ stamped = {}
  /\ pub = [p \in Publishers |-> [pc |-> "idle", seq |-> 0]]
  /\ wait = [w \in Waiters |-> "poll"] /\ want = [w \in Waiters |-> 0]
  /\ hands = {} /\ mutex = Nobody /\ stopper = "idle"

At(p, pc) == pub' = [pub EXCEPT ![p] = [pc |-> pc, seq |-> pub[p].seq]]
Go(w, pc) == wait' = [wait EXCEPT ![w] = pc]

-----------------------------------------------------------------------------
(* publish *)

\* A sequence is claimed; slots are stamped in any order.
Claim(p) ==
  /\ pub[p].pc = "idle" /\ running /\ claimed < MaxSeq
  /\ pub' = [pub EXCEPT ![p] = [pc |-> "stamp", seq |-> claimed]]
  /\ claimed' = claimed + 1
  /\ UNCHANGED <<running, stamped, wait, want, hands, mutex, stopper>>

Stamp(p) ==
  /\ pub[p].pc = "stamp"
  /\ stamped' = stamped \cup {pub[p].seq}
  /\ At(p, "look")
  /\ UNCHANGED <<running, claimed, wait, want, hands, mutex, stopper>>

\* wakeParked: nobody's hand is up, or go on to wake.
LookForHands(p) ==
  /\ pub[p].pc = "look"
  /\ At(p, IF hands = {} THEN "idle" ELSE "lock")
  /\ UNCHANGED <<running, claimed, stamped, wait, want, hands, mutex, stopper>>

\* Mutant: the notify does not pass through the mutex.
PassUnlocked(p) ==
  /\ pub[p].pc = "lock"
  /\ At(p, "notify")
  /\ UNCHANGED <<running, claimed, stamped, wait, want, hands, mutex, stopper>>

\* Lock and unlock: a waiter between its look and its sleep holds us up.
PassMutex(p) ==
  /\ pub[p].pc = "lock" /\ mutex = Nobody
  /\ At(p, "notify")
  /\ UNCHANGED <<running, claimed, stamped, wait, want, hands, mutex, stopper>>

Awake == [w \in Waiters |-> IF wait[w] = "asleep" THEN "relock" ELSE wait[w]]

Notify(p) ==
  /\ pub[p].pc = "notify"
  /\ wait' = Awake
  /\ At(p, "idle")
  /\ UNCHANGED <<running, claimed, stamped, want, hands, mutex, stopper>>

-----------------------------------------------------------------------------
(* consumerLoop, park *)

\* Take what is there, or make for the parking; leave when the bus stops.
Poll(w) ==
  /\ wait[w] = "poll"
  /\ \/ ~running /\ Go(w, "gone") /\ UNCHANGED want
     \/ /\ running /\ want[w] \in stamped
        /\ want' = [want EXCEPT ![w] = want[w] + 1] /\ UNCHANGED wait
     \/ running /\ want[w] \notin stamped /\ Go(w, "park") /\ UNCHANGED want
  /\ UNCHANGED <<running, claimed, stamped, pub, hands, mutex, stopper>>

Lock(w) ==
  /\ wait[w] = "park" /\ mutex = Nobody
  /\ mutex' = {w}
  /\ Go(w, "hand")
  /\ UNCHANGED <<running, claimed, stamped, pub, want, hands, stopper>>

\* Mutant: no hand goes up.
NoHand(w) ==
  /\ wait[w] = "hand"
  /\ Go(w, "look")
  /\ UNCHANGED <<running, claimed, stamped, pub, want, hands, mutex, stopper>>

RaiseHand(w) ==
  /\ wait[w] = "hand"
  /\ hands' = hands \cup {w}
  /\ Go(w, "look")
  /\ UNCHANGED <<running, claimed, stamped, pub, want, mutex, stopper>>

\* Mutant: the last look does not ask whether the bus still runs.
LookAtRingOnly(w) ==
  /\ wait[w] = "look"
  /\ Go(w, IF want[w] \in stamped THEN "leave" ELSE "sleep")
  /\ UNCHANGED <<running, claimed, stamped, pub, want, hands, mutex, stopper>>

LastLook(w) ==
  /\ wait[w] = "look"
  /\ Go(w, IF want[w] \in stamped \/ ~running THEN "leave" ELSE "sleep")
  /\ UNCHANGED <<running, claimed, stamped, pub, want, hands, mutex, stopper>>

\* The wait lets the mutex go ...
Sleep(w) ==
  /\ wait[w] = "sleep"
  /\ mutex' = Nobody
  /\ Go(w, "asleep")
  /\ UNCHANGED <<running, claimed, stamped, pub, want, hands, stopper>>

\* ... may expire ...
NetExpires(w) ==
  /\ wait[w] = "asleep" /\ Net
  /\ Go(w, "relock")
  /\ UNCHANGED <<running, claimed, stamped, pub, want, hands, mutex, stopper>>

\* ... and takes the mutex again on the way out.
Relock(w) ==
  /\ wait[w] = "relock" /\ mutex = Nobody
  /\ mutex' = {w}
  /\ Go(w, "leave")
  /\ UNCHANGED <<running, claimed, stamped, pub, want, hands, stopper>>

Leave(w) ==
  /\ wait[w] = "leave"
  /\ hands' = hands \ {w}
  /\ mutex' = Nobody
  /\ Go(w, "poll")
  /\ UNCHANGED <<running, claimed, stamped, pub, want, stopper>>

-----------------------------------------------------------------------------
(* doStop *)

StopFlag ==
  /\ running /\ stopper = "idle"
  /\ running' = FALSE /\ stopper' = "lock"
  /\ UNCHANGED <<claimed, stamped, pub, wait, want, hands, mutex>>

StopPass ==
  /\ stopper = "lock" /\ mutex = Nobody
  /\ stopper' = "notify"
  /\ UNCHANGED <<running, claimed, stamped, pub, wait, want, hands, mutex>>

StopNotify ==
  /\ stopper = "notify"
  /\ wait' = Awake
  /\ stopper' = "done"
  /\ UNCHANGED <<running, claimed, stamped, pub, want, hands, mutex>>

Publish(p) == Stamp(p) \/ LookForHands(p) \/ PassMutex(p) \/ Notify(p)
Waiter(w) ==
  \/ Poll(w) \/ Lock(w) \/ RaiseHand(w) \/ LastLook(w) \/ Sleep(w) \/ NetExpires(w)
  \/ Relock(w) \/ Leave(w)
Stop == StopPass \/ StopNotify

Next ==
  \/ \E p \in Publishers : Claim(p) \/ Publish(p)
  \/ \E w \in Waiters : Waiter(w)
  \/ StopFlag \/ Stop

Spec == Init /\ [][Next]_vars

\* Threads run, and a mutex that is free again and again is got in the end.
Fairness ==
  /\ \A p \in Publishers : WF_vars(Publish(p)) /\ SF_vars(PassMutex(p))
  /\ \A w \in Waiters :
       /\ WF_vars(Poll(w) \/ RaiseHand(w) \/ LastLook(w) \/ Sleep(w) \/ Leave(w))
       /\ SF_vars(Lock(w)) /\ SF_vars(Relock(w))
  /\ WF_vars(Stop) /\ SF_vars(StopPass)

FairSpec == Spec /\ Fairness

-----------------------------------------------------------------------------
(* Properties *)

\* The places of the threads and the sequences they hold.
TypeOK ==
  /\ running \in BOOLEAN /\ claimed \in 0 .. MaxSeq /\ stamped \subseteq Nat
  /\ pub \in [Publishers -> [pc : {"idle", "stamp", "look", "lock", "notify"}, seq : Nat]]
  /\ wait \in [Waiters -> {"poll", "park", "hand", "look", "sleep", "asleep", "relock",
                           "leave", "gone"}]
  /\ want \in [Waiters -> Nat]
  /\ hands \subseteq Waiters /\ mutex \in SUBSET Waiters
  /\ stopper \in {"idle", "lock", "notify", "done"}

Coming(p) == pub[p].pc \in {"look", "lock", "notify"}

\* "A publisher that misses the count cannot also be missed by the look", and one
\* "that sees the count cannot slip its notify in between" (park): a waiter asleep
\* though the event it wants is in the ring has a publisher on its way to wake it.
NoLostWakeup ==
  \A w \in Waiters :
    wait[w] = "asleep" /\ want[w] \in stamped => \E p \in Publishers : Coming(p)

\* The same for a stop(): no waiter sleeps through it.
NoSleepPastStop ==
  \A w \in Waiters : wait[w] = "asleep" /\ ~running => stopper \in {"lock", "notify"}

\* What a waiter holds, by where it is.
MutexHolds ==
  \A w \in Waiters : mutex = {w} <=> wait[w] \in {"hand", "look", "sleep", "leave"}
HandsUp ==
  \A w \in Waiters : w \in hands <=> wait[w] \in {"look", "sleep", "asleep", "relock", "leave"}
\* Between the look and the sleep nobody can get past the mutex.
LookStillGood ==
  \A w \in Waiters :
    /\ wait[w] = "sleep" /\ want[w] \in stamped =>
         \E p \in Publishers : pub[p].pc \in {"look", "lock"}
    /\ wait[w] = "sleep" /\ ~running => stopper = "lock"

\* The inductive invariant behind NoLostWakeup and NoSleepPastStop: who holds the
\* mutex and whose hand is up follow from where each waiter is, and an event or a
\* stop that comes after the last look is still on this side of the mutex.
ParkingInv ==
  TypeOK /\ MutexHolds /\ HandsUp /\ LookStillGood /\ NoLostWakeup /\ NoSleepPastStop

\* The net is "not the mechanism": without it, a stamped event is taken.
EventIsTaken ==
  \A w \in Waiters : want[w] \in stamped ~> want[w] \notin stamped \/ ~running
=============================================================================

------------------------------ MODULE EventBus ------------------------------
(***************************************************************************)
(* The bus between the threads of the venue (event_bus.h): a ring of        *)
(* Capacity slots, publishers that claim sequence numbers and stamp slots,  *)
(* consumers that read the ring each at their own pace, and a stop() that   *)
(* tears the ring down under all of them.                                   *)
(*                                                                         *)
(* One step is one atomic operation of the code, or several that nobody     *)
(* else's step can tell apart.  A scan of all consumers is one step: their  *)
(* positions only grow while anybody scans for a claim, so a scan that is   *)
(* not instantaneous only returns a smaller bound.  A consumer's seq and    *)
(* its gating line are stored together.  How an idle consumer waits is the  *)
(* subject of BusParking.                                                   *)
(***************************************************************************)
EXTENDS Integers, Sequences, FiniteSets

CONSTANTS
  Publishers,
  Deployments,   \* the ways the bus may be built and used, see below
  Slack,         \* HealthConfig::dropBehindSlack
  Closed         \* kSequenceLineClosed

\* What a deployment settles: the capacity of the ring (CapacityPow2), which
\* publishers call tryPublish and which publishBatch (with half a ring), the
\* consumers, HealthConfig::dropBehindOptional, how many events a consumer
\* delivers before it publishes its progress, enableDrainOnStop(), whether a
\* listener or the constructor of an event may throw, and, as bounds, the calls of
\* start() and those of each publisher.
ASSUME BusAssumption ==
  /\ Slack \in Nat /\ IsFiniteSet(Publishers)
  /\ \A d \in Deployments :
       /\ d.capacity \in Nat \ {0} /\ d.maxRun \in Nat \ {0} /\ d.runs \in Nat
       /\ d.calls \in [Publishers -> Nat]
       /\ d.bounded \subseteq Publishers /\ d.batchers \subseteq Publishers \ d.bounded
       /\ d.batchers # {} => d.capacity >= 2
       /\ d.required \cap d.optional = {}
       /\ {d.dropBehind, d.drain, d.listenerThrows, d.eventThrows} \subseteq BOOLEAN

\* "Deep enough in the negatives that no run of refused claims can walk it back into
\* the valid range": each publisher has at most one in flight, of at most a ring.
ASSUME ClosedAssumption ==
  /\ Closed \in Int
  /\ \A d \in Deployments : Closed + Cardinality(Publishers) * d.capacity < -1

VARIABLES
  bus,          \* the deployment, fixed by the constructor
  running,      \* _running
  next,         \* _next: the sequence line
  cachedMin, cachedMinConsumed,
  published,    \* _published: the sequence each slot is stamped with
  constructed,  \* _constructed
  event,        \* what each slot holds
  sealed, lastClaim,    \* _sealed, _runLastClaim
  resolved, claimBase,  \* _publishCount + _abandonedClaims, and its value at start()
  control,      \* the thread that starts and stops the bus
  pub, con,     \* the publishers and the consumers
  run,          \* which run of the bus this is
  claimed,      \* history: every claim, with the event it was for
  accepted,     \* history: the claims whose publish succeeded
  delivered     \* history: what each consumer was given, in order

line == <<next, cachedMin, cachedMinConsumed>>
ring == <<published, constructed, event>>
closing == <<sealed, lastClaim, resolved, claimBase>>
history == <<run, claimed, accepted, delivered>>
vars == <<bus, running, line, ring, closing, control, pub, con, history>>

Capacity == bus.capacity
Bounded == bus.bounded
Batchers == bus.batchers
Required == bus.required
Optional == bus.optional
Consumers == Required \cup Optional
DropBehind == bus.dropBehind
MaxRun == bus.maxRun
DrainOnStop == bus.drain
MaxRuns == bus.runs

Slots == 0 .. Capacity - 1
Slot(seq) == seq % Capacity

SizeOf(p) == IF p \in Batchers THEN Capacity \div 2 ELSE 1
\* The sequences a publisher holds; seq is the last of them.
Held(p) == (pub[p].seq - SizeOf(p) + 1) .. pub[p].seq
\* The event it publishes under one of them, and the claim it is for.
EventAt(p, seq) == <<p, pub[p].calls, pub[p].seq - seq>>
Claim(p, seq) == [run |-> pub[p].run, seq |-> seq, ev |-> EventAt(p, seq)]
\* What a publisher takes when it claims the sequences up to last.
ClaimsOf(p, last) ==
  {[run |-> run, seq |-> s, ev |-> <<p, pub[p].calls, last - s>>] :
      s \in last - SizeOf(p) + 1 .. last}
\* Mutant: one slot too many.
WrapOffByOne(p) == pub[p].seq - Capacity - 1
\* The sequence whose slot the claim reuses.
Wrap(p) == pub[p].seq - Capacity

NoPub == [pc |-> "idle", seq |-> -1, min |-> -1, todo |-> {}, calls |-> 0, run |-> 0]
NoCon == [pc |-> "joined", next |-> -1, last |-> -1, seq |-> -1, count |-> 0,
          failed |-> FALSE, dropped |-> 0]

Init ==
  /\ bus \in Deployments
  /\ running = FALSE /\ next = -1 /\ cachedMin = -1 /\ cachedMinConsumed = -1
  /\ published = [i \in Slots |-> -1] /\ constructed = [i \in Slots |-> FALSE]
  /\ event = [i \in Slots |-> <<>>]
  /\ sealed = FALSE /\ lastClaim = -1 /\ resolved = 0 /\ claimBase = 0
  /\ control = "idle"
  /\ pub = [p \in Publishers |-> NoPub] /\ con = [c \in Consumers |-> NoCon]
  /\ run = 0 /\ claimed = {} /\ accepted = {} /\ delivered = [c \in Consumers |-> <<>>]

MinOf(S) == CHOOSE x \in S : \A y \in S : x <= y

\* minGating: required consumers only; with none, the line itself.
MinGating == IF Required = {} THEN next ELSE MinOf({con[c].seq : c \in Required})
\* minConsumed: everybody; nobody at all (INT64_MAX) holds nothing back.
MinConsumed == IF Consumers = {} THEN -Closed ELSE MinOf({con[c].seq : c \in Consumers})

Pub(p, r) == pub' = [pub EXCEPT ![p] = r]
Con(c, r) == con' = [con EXCEPT ![c] = r]

-----------------------------------------------------------------------------
(* publish, tryPublish, publishBatch *)

\* _running is read once, on the way in.  Nobody calls in while start() is at
\* work; who is inside by then is another matter, see StartFlag.
Enter(p) ==
  /\ pub[p].pc = "idle" /\ pub[p].calls < bus.calls[p] /\ running
  /\ control # "opening"
  /\ Pub(p, [NoPub EXCEPT !.pc = IF p \in Bounded THEN "try" ELSE "claim",
                          !.calls = pub[p].calls + 1])
  /\ UNCHANGED <<running, line, ring, closing, control, con, history>>

Back(p) == Pub(p, [NoPub EXCEPT !.calls = pub[p].calls])

\* claimBlocking: reserve first, one fetch_add.
ClaimLine(p) ==
  /\ pub[p].pc = "claim"
  /\ next' = next + SizeOf(p)
  /\ LET r == [pub[p] EXCEPT !.seq = next + SizeOf(p), !.run = run]
     IN IF next < -1
          THEN Pub(p, [r EXCEPT !.pc = "putBack"]) /\ UNCHANGED claimed
          ELSE /\ Pub(p, [r EXCEPT !.pc = "wrap"])
               /\ claimed' = claimed \cup ClaimsOf(p, next + SizeOf(p))
  /\ UNCHANGED <<running, cachedMin, cachedMinConsumed, ring, closing, control, con,
                 run, accepted, delivered>>

\* The line was closed: put back what the reservation took.
PutBack(p) ==
  /\ pub[p].pc = "putBack"
  /\ next' = next - SizeOf(p)
  /\ Back(p)
  /\ UNCHANGED <<running, cachedMin, cachedMinConsumed, ring, closing, control, con,
                 history>>

\* claimBounded: look at the line, take nothing yet.
TryLine(p) ==
  /\ pub[p].pc = "try"
  /\ IF running /\ next >= -1
       THEN Pub(p, [pub[p] EXCEPT !.pc = "wrap", !.seq = next + 1])
       ELSE Back(p)
  /\ UNCHANGED <<running, line, ring, closing, control, con, history>>

\* A bounded publisher at a closed gate goes round again, or its time is up.
TryAgain(p) == Pub(p, [pub[p] EXCEPT !.pc = "try", !.min = -1, !.todo = {}]) \/ Back(p)

\* abandonClaims: a claim that will never be stamped.
Abandon(p) ==
  /\ resolved' = resolved + SizeOf(p)
  /\ Back(p)
  /\ UNCHANGED <<sealed, lastClaim, claimBase>>

\* The wrap gate: the cache first ...
WrapLook(p) ==
  /\ pub[p].pc = "wrap"
  /\ Pub(p, [pub[p] EXCEPT !.pc = IF Wrap(p) <= cachedMin THEN "reclaim" ELSE "scan"])
  /\ UNCHANGED <<running, line, ring, closing, control, con, history>>

\* Mutant: a publisher at the gate does not notice that the bus stops.
WrapScanStubborn(p) ==
  /\ pub[p].pc = "scan"
  /\ Pub(p, [pub[p] EXCEPT !.pc = "store", !.min = MinGating])
  /\ UNCHANGED <<running, line, ring, closing, control, con, history>>

\* ... then the consumers.  A blocking publisher gives up when the bus stops.
WrapScan(p) ==
  /\ pub[p].pc = "scan"
  /\ IF p \notin Bounded /\ ~running
       THEN Abandon(p)
       ELSE Pub(p, [pub[p] EXCEPT !.pc = "store", !.min = MinGating]) /\ UNCHANGED closing
  /\ UNCHANGED <<running, line, ring, control, con, history>>

WrapStore(p) ==
  /\ pub[p].pc = "store"
  /\ cachedMin' = pub[p].min
  /\ \/ Wrap(p) <= pub[p].min /\ Pub(p, [pub[p] EXCEPT !.pc = "reclaim"])
     \/ /\ Wrap(p) > pub[p].min
        /\ IF p \in Bounded THEN TryAgain(p) ELSE Pub(p, [pub[p] EXCEPT !.pc = "scan", !.min = -1])
  /\ UNCHANGED <<running, next, cachedMinConsumed, ring, closing, control, con, history>>

\* Both gates are open.
Admitted(p) ==
  [pub[p] EXCEPT !.pc = IF p \in Bounded THEN "cas" ELSE "write", !.min = -1,
                 !.todo = Held(p)]

\* Mutant: only required consumers hold a slot back.
NoFence(p) ==
  /\ pub[p].pc = "reclaim"
  /\ Pub(p, Admitted(p))
  /\ UNCHANGED <<running, line, ring, closing, control, con, history>>

\* The reclaim fence: nobody, optional consumers included, still reads the slot.
ReclaimLook(p) ==
  /\ pub[p].pc = "reclaim"
  /\ Pub(p, IF Wrap(p) < 0 \/ cachedMinConsumed >= Wrap(p)
              THEN Admitted(p) ELSE [pub[p] EXCEPT !.pc = "fence"])
  /\ UNCHANGED <<running, line, ring, closing, control, con, history>>

FenceScan(p) ==
  /\ pub[p].pc = "fence"
  /\ \/ /\ MinConsumed >= Wrap(p)
        /\ Pub(p, [pub[p] EXCEPT !.pc = "fenceStore", !.min = MinConsumed])
        /\ UNCHANGED closing
     \/ /\ MinConsumed < Wrap(p) /\ p \notin Bounded /\ ~running /\ Abandon(p)
     \/ /\ MinConsumed < Wrap(p) /\ p \in Bounded /\ TryAgain(p) /\ UNCHANGED closing
  /\ UNCHANGED <<running, line, ring, control, con, history>>

FenceStore(p) ==
  /\ pub[p].pc = "fenceStore"
  /\ cachedMinConsumed' = pub[p].min
  /\ Pub(p, Admitted(p))
  /\ UNCHANGED <<running, next, cachedMin, ring, closing, control, con, history>>

\* claimBounded takes the sequence last; the exchange is weak and may fail.
Exchange(p) ==
  /\ pub[p].pc = "cas"
  /\ \/ /\ next = pub[p].seq - 1
        /\ next' = pub[p].seq
        /\ Pub(p, [pub[p] EXCEPT !.pc = "write", !.run = run])
        /\ claimed' = claimed \cup ClaimsOf(p, pub[p].seq)
     \/ TryAgain(p) /\ UNCHANGED <<next, claimed>>
  /\ UNCHANGED <<running, cachedMin, cachedMinConsumed, ring, closing, control, con,
                 run, accepted, delivered>>

\* Destroy what the slot held, construct the event in it, lowest sequence first.
Write(p) ==
  /\ pub[p].pc = "write"
  /\ LET seq == MinOf(pub[p].todo)
         left == pub[p].todo \ {seq}
     IN /\ event' = [event EXCEPT ![Slot(seq)] = EventAt(p, seq)]
        \* publish() flags each slot, publishBatch all of them after the last.
        /\ constructed' = [i \in Slots |->
             IF left = {} /\ i \in {Slot(s) : s \in Held(p)} THEN TRUE
             ELSE IF i = Slot(seq) THEN FALSE ELSE constructed[i]]
        /\ Pub(p, [pub[p] EXCEPT !.todo = IF left = {} THEN Held(p) ELSE left,
                                 !.pc = IF left = {} THEN "stamp" ELSE "write"])
  /\ UNCHANGED <<running, line, published, closing, control, con, history>>

\* The constructor throws: ~ClaimGuard gives up the sequences.
WriteThrows(p) ==
  /\ pub[p].pc = "write" /\ bus.eventThrows
  /\ constructed' = [constructed EXCEPT ![Slot(MinOf(pub[p].todo))] = FALSE]
  /\ Abandon(p)
  /\ UNCHANGED <<running, line, published, event, control, con, history>>

\* One stamp; those of a batch follow one fence and become visible in any order.
Stamp(p) ==
  /\ pub[p].pc = "stamp"
  /\ \E seq \in pub[p].todo :
       /\ published' = [published EXCEPT ![Slot(seq)] = seq]
       /\ Pub(p, [pub[p] EXCEPT !.todo = @ \ {seq},
                                !.pc = IF pub[p].todo = {seq} THEN "resolve" ELSE @])
  /\ UNCHANGED <<running, line, constructed, event, closing, control, con, history>>

\* resolvePublished, the last thing a publisher does.
Resolve(p) ==
  /\ pub[p].pc = "resolve"
  /\ resolved' = resolved + SizeOf(p)
  /\ accepted' = accepted \cup {Claim(p, s) : s \in Held(p)}
  /\ Back(p)
  /\ UNCHANGED <<running, line, ring, sealed, lastClaim, claimBase, control, con, run,
                 claimed, delivered>>

-----------------------------------------------------------------------------
(* consumerLoop, pollOnce *)

\* A run begins, or the loop ends.  A consumer that may drop behind jumps first.
Poll(c) ==
  /\ con[c].pc = "top"
  /\ LET behind == c \in Optional /\ DropBehind /\ next - con[c].next > Slack
         from == IF behind THEN next - 1 ELSE con[c].next
     IN IF running
          THEN Con(c, [con[c] EXCEPT !.pc = "slot", !.next = from, !.last = from, !.count = 0,
                                     !.seq = IF behind THEN from ELSE @,
                                     !.dropped = @ + (from - con[c].next)])
          ELSE Con(c, [con[c] EXCEPT !.pc = IF DrainOnStop THEN "await" ELSE "joined"])
  /\ UNCHANGED <<running, line, ring, closing, control, pub, history>>

\* Such a consumer looks at its lag only between runs: its runs are short.
RunCap(c) == IF c \in Required \/ ~DropBehind THEN MaxRun
             ELSE IF Slack \div 2 > 1 THEN Slack \div 2 ELSE 1

\* The next slot of the run, if it is stamped.
SlotLook(c) ==
  /\ con[c].pc = "slot"
  /\ LET cur == con[c].last + 1
         here == con[c].count < RunCap(c) /\ published[Slot(cur)] = cur
     IN Con(c, [con[c] EXCEPT
          !.pc = IF here /\ constructed[Slot(cur)] THEN "deliver"
                 ELSE IF here THEN "slot"
                 ELSE IF con[c].last = con[c].next THEN "top" ELSE "commit",
          !.last = IF here /\ ~constructed[Slot(cur)] THEN cur ELSE @,
          !.count = IF here THEN @ + 1 ELSE @])
  /\ UNCHANGED <<running, line, ring, closing, control, pub, history>>

Given(c, seq) == [run |-> run, seq |-> seq, ev |-> event[Slot(seq)]]

Deliver(c) ==
  /\ con[c].pc = "deliver"
  /\ delivered' = [delivered EXCEPT ![c] = Append(@, Given(c, con[c].last + 1))]
  /\ Con(c, [con[c] EXCEPT !.pc = "slot", !.last = @ + 1])
  /\ UNCHANGED <<running, line, ring, closing, control, pub, run, claimed, accepted>>

\* The listener throws: progress up to the event before, and out of service.
DeliverThrows(c) ==
  /\ con[c].pc = "deliver" /\ bus.listenerThrows
  /\ Con(c, [con[c] EXCEPT !.pc = "joined", !.failed = TRUE, !.next = con[c].last,
                           !.seq = con[c].last])
  /\ UNCHANGED <<running, line, ring, closing, control, pub, history>>

\* endOfBatch, then the progress of the whole run.
Commit(c) ==
  /\ con[c].pc = "commit"
  /\ Con(c, [con[c] EXCEPT !.pc = "top", !.next = con[c].last, !.seq = con[c].last])
  /\ UNCHANGED <<running, line, ring, closing, control, pub, history>>

-----------------------------------------------------------------------------
(* awaitPublishersQuiescent, drainSlot *)

Claims == IF lastClaim >= 0 THEN lastClaim + 1 ELSE 0
\* Mutant: the seal is taken for silence.
SealedIsQuiet == sealed
Quiescent == sealed /\ resolved - claimBase >= Claims

DrainBegin(c) ==
  /\ con[c].pc = "await" /\ Quiescent
  /\ Con(c, [con[c] EXCEPT !.pc = "drain", !.last = con[c].seq])
  /\ UNCHANGED <<running, line, ring, closing, control, pub, history>>

Drained(c, want) == Con(c, [con[c] EXCEPT !.last = want, !.seq = want])

\* A stamped slot is delivered; a sequence given up on is stepped over.
DrainSlot(c) ==
  /\ con[c].pc = "drain"
  /\ LET want == con[c].last + 1
         there == published[Slot(want)] = want
     IN /\ there \/ want <= lastClaim
        /\ Drained(c, want)
        /\ delivered' = IF there /\ constructed[Slot(want)]
                          THEN [delivered EXCEPT ![c] = Append(@, Given(c, want))]
                          ELSE delivered
  /\ UNCHANGED <<running, line, ring, closing, control, pub, run, claimed, accepted>>

DrainThrows(c) ==
  /\ con[c].pc = "drain" /\ bus.listenerThrows
  /\ LET want == con[c].last + 1
     IN published[Slot(want)] = want /\ constructed[Slot(want)]
  /\ Con(c, [con[c] EXCEPT !.pc = "joined", !.failed = TRUE, !.next = con[c].last])
  /\ UNCHANGED <<running, line, ring, closing, control, pub, history>>

DrainEnd(c) ==
  /\ con[c].pc = "drain"
  /\ LET want == con[c].last + 1 IN published[Slot(want)] # want /\ want > lastClaim
  /\ Con(c, [con[c] EXCEPT !.pc = "joined", !.next = con[c].last])
  /\ UNCHANGED <<running, line, ring, closing, control, pub, history>>

-----------------------------------------------------------------------------
(* start, stop *)

Outside(p) == pub[p].pc = "idle"

\* Callers keep to what start() takes for granted: "Nobody is publishing -- the bus is
\* stopped and the previous stop() waited its publishers out".
StartFlag ==
  /\ control = "idle" /\ ~running /\ run < MaxRuns
  /\ \A p \in Publishers : Outside(p)
  /\ running' = TRUE /\ control' = "opening"
  /\ UNCHANGED <<line, ring, closing, pub, con, history>>

\* The accounting starts, the line reopens, the consumers are spawned.
StartOpen ==
  /\ control = "opening"
  /\ claimBase' = resolved /\ sealed' = FALSE /\ next' = -1
  /\ con' = [c \in Consumers |-> [NoCon EXCEPT !.pc = "top", !.dropped = con[c].dropped]]
  /\ run' = run + 1
  /\ control' = "idle"
  /\ UNCHANGED <<running, cachedMin, cachedMinConsumed, ring, lastClaim, resolved, pub,
                 claimed, accepted, delivered>>

StopFlag ==
  /\ control = "idle" /\ running
  /\ running' = FALSE /\ control' = "seal"
  /\ UNCHANGED <<line, ring, closing, pub, con, history>>

\* sealSequenceLine: one exchange tells those inside from those who never will be.
Seal ==
  /\ control = "seal"
  /\ lastClaim' = next /\ next' = Closed /\ sealed' = TRUE
  /\ control' = "await"
  /\ UNCHANGED <<running, cachedMin, cachedMinConsumed, ring, resolved, claimBase, pub, con,
                 history>>

StopQuiet ==
  /\ control = "await" /\ Quiescent
  /\ control' = "join"
  /\ UNCHANGED <<running, line, ring, closing, pub, con, history>>

\* The consumers are joined; the ring and the gating lines go back to the start.
Teardown ==
  /\ control = "join" /\ \A c \in Consumers : con[c].pc = "joined"
  /\ published' = [i \in Slots |-> -1] /\ constructed' = [i \in Slots |-> FALSE]
  /\ event' = [i \in Slots |-> <<>>]
  /\ cachedMin' = -1 /\ cachedMinConsumed' = -1
  /\ con' = [c \in Consumers |-> [con[c] EXCEPT !.seq = -1, !.next = -1, !.last = -1]]
  /\ control' = "idle"
  /\ UNCHANGED <<running, next, closing, pub, history>>

-----------------------------------------------------------------------------
Publisher(p) ==
  /\ UNCHANGED bus
  /\ \/ ClaimLine(p) \/ PutBack(p) \/ TryLine(p) \/ WrapLook(p) \/ WrapScan(p)
     \/ WrapStore(p) \/ ReclaimLook(p) \/ FenceScan(p) \/ FenceStore(p) \/ Exchange(p)
     \/ Write(p) \/ WriteThrows(p) \/ Stamp(p) \/ Resolve(p)

Consumer(c) ==
  /\ UNCHANGED bus
  /\ \/ Poll(c) \/ SlotLook(c) \/ Deliver(c) \/ DeliverThrows(c) \/ Commit(c)
     \/ DrainBegin(c) \/ DrainSlot(c) \/ DrainThrows(c) \/ DrainEnd(c)

\* start() and stop(), once begun.
Finish == UNCHANGED bus /\ (StartOpen \/ Seal \/ StopQuiet \/ Teardown)

\* Nothing is left to do: the bus is down for good.
Over ==
  /\ ~running /\ control = "idle" /\ run = MaxRuns /\ \A p \in Publishers : Outside(p)
  /\ UNCHANGED vars

Next ==
  \/ \E p \in Publishers : Publisher(p) \/ (Enter(p) /\ UNCHANGED bus)
  \/ \E c \in Consumers : Consumer(c)
  \/ (StartFlag \/ StopFlag) /\ UNCHANGED bus
  \/ Finish \/ Over

Spec == Init /\ [][Next]_vars

AllConsumers == UNION {d.required \cup d.optional : d \in Deployments}

\* Threads run; start() and stop() end once begun; listeners return.
Fairness ==
  /\ \A p \in Publishers : WF_vars(Publisher(p))
  /\ \A c \in AllConsumers : WF_vars(c \in Consumers /\ Consumer(c))
  /\ WF_vars(Finish)

FairSpec == Spec /\ Fairness

-----------------------------------------------------------------------------
(* Properties *)

Inside == {"wrap", "scan", "store", "reclaim", "fence", "fenceStore", "write", "stamp", "resolve"}

PubPlaces == {"idle", "claim", "putBack", "try", "cas"} \cup Inside
ConPlaces == {"top", "slot", "deliver", "commit", "await", "drain", "joined"}
Events == {<<>>} \cup (Publishers \X Nat \X Int)
ClaimRecords == [run : Nat, seq : Int, ev : Events]
\* A position in the ring: a sequence, or -1 before the first.
Positions == Nat \cup {-1}
PubRecords == [pc : PubPlaces, seq : Int, min : Int, todo : SUBSET Int, calls : Nat, run : Nat]
ConRecords == [pc : ConPlaces, next : Positions, last : Positions, seq : Positions, count : Nat,
               failed : BOOLEAN, dropped : Int]

LineType ==
  /\ bus \in Deployments /\ running \in BOOLEAN /\ sealed \in BOOLEAN
  /\ next \in Int /\ cachedMin \in Int /\ cachedMinConsumed \in Int /\ lastClaim \in Int
  /\ resolved \in Nat /\ claimBase \in Nat /\ run \in Nat
  /\ control \in {"idle", "opening", "seal", "await", "join"}
RingType ==
  published \in [Slots -> Int] /\ constructed \in [Slots -> BOOLEAN] /\ event \in [Slots -> Events]
PubType == pub \in [Publishers -> PubRecords]
ConType == con \in [Consumers -> ConRecords]
HistoryType ==
  /\ claimed \subseteq ClaimRecords /\ accepted \subseteq ClaimRecords
  /\ delivered \in [Consumers -> Seq(ClaimRecords)]

\* The types of the sequence line, the ring, the two kinds of thread and the history.
TypeOK == LineType /\ RingType /\ PubType /\ ConType /\ HistoryType

\* Every sequence of a run belongs to one publish: claims by fetch_add, claims by
\* exchange and refused claims that put themselves back never hand out a number
\* twice.
OneOwnerPerSequence ==
  \A x, y \in claimed : x.run = y.run /\ x.seq = y.seq => x = y

Writing(p) == IF pub[p].pc = "write" THEN {Slot(s) : s \in pub[p].todo} ELSE {}

\* "Events can only be destroyed after ALL consumers processed them"
\* (minConsumed): a slot in which a publisher builds is nobody else's, neither a
\* listener's that is still reading nor another publisher's, one lap apart.
BuiltAlone ==
  \A p \in Publishers :
    /\ \A c \in Consumers : con[c].pc = "deliver" => Slot(con[c].last + 1) \notin Writing(p)
    /\ \A q \in Publishers \ {p} : Writing(p) \cap Writing(q) = {}

\* A required consumer's next event stays in the ring until it has been given
\* it: a slot is stamped over only when everybody who must read it has.
NothingOverwritten ==
  \A i \in Slots, c \in Required :
    ~con[c].failed /\ con[c].pc # "joined" => published[i] <= con[c].seq + Capacity

\* What a consumer is given under a sequence is the event that was published
\* under it, and sequences only grow.
DeliversWhatWasClaimed ==
  \A c \in Consumers :
    /\ \A k \in DOMAIN delivered[c] : delivered[c][k] \in claimed
    /\ \A k \in 1 .. Len(delivered[c]) - 1 :
         LET a == delivered[c][k]  b == delivered[c][k + 1]
         IN a.run < b.run \/ (a.run = b.run /\ a.seq < b.seq)

\* "'publish() accepted it' mean[s] 'the listener got it'" (consumerLoop): when a
\* bus that drains is torn down, every accepted event of the run has reached
\* every consumer that neither failed nor may drop events.
AcceptedIsDelivered ==
  control = "join" /\ DrainOnStop =>
    \A c \in Consumers :
      con[c].pc = "joined" /\ ~con[c].failed /\ ~(c \in Optional /\ DropBehind) =>
        \A x \in accepted : x.run = run => \E k \in DOMAIN delivered[c] : delivered[c][k] = x

\* A slot and the sequence that names it have one owner at a time.
SlotsAreOwned == OneOwnerPerSequence /\ BuiltAlone

\* Consumers get what was published, in order, and all of it.
DeliversExactly == DeliversWhatWasClaimed /\ AcceptedIsDelivered

\* stop() returns whoever is blocked at a gate and whichever listener is dead:
\* "This never waits on a publisher that is waiting on us".
StopReturns == control = "seal" ~> control = "idle"

Healthy == ~bus.listenerThrows /\ ~bus.eventThrows

\* While nobody stops the bus and nothing throws, every accepted event reaches
\* every required consumer.
EventuallyDelivered ==
  \A c \in UNION {d.required : d \in Deployments} :
    (Healthy /\ c \in Required /\ \E x \in accepted : x.run = run /\ x.seq > con[c].seq)
      ~> (\A x \in accepted : x.run = run => x.seq <= con[c].seq) \/ ~running

\* The bus gets on: stop() returns, and what was accepted arrives.
KeepsMoving == StopReturns /\ EventuallyDelivered

-----------------------------------------------------------------------------
(* Why the properties of the ring hold: invariants, each resting on those before it *)

\* A publisher past both gates, and one that holds sequences: a bounded one takes its
\* sequence last.
Entered(p) == pub[p].pc \in {"write", "stamp", "resolve"}
Holding(p) == pub[p].pc \in Inside /\ (p \in Bounded => Entered(p))

\* The last sequence this run has handed out, and those nobody has resolved yet.
Last == IF sealed THEN lastClaim ELSE next
Unresolved == UNION {Held(p) : p \in {q \in Publishers : Holding(q)}}

\* What refused claims have added to the closed line and not put back yet, one by one.
Refused == UNION {{p} \X (1 .. SizeOf(p)) : p \in {q \in Publishers : pub[q].pc = "putBack"}}

\* The bus is not up: not started, torn down, or about to start.
Down == control = "opening" \/ (control = "idle" /\ ~running)

\* Where a publisher may be, and what it still has to write or to stamp there.
StageOf(p) ==
  /\ p \in Bounded => pub[p].pc \notin {"claim", "putBack"}
  /\ p \notin Bounded => pub[p].pc \notin {"try", "cas"}
  /\ p \in Bounded /\ pub[p].pc \in Inside \cup {"cas"} => pub[p].seq >= 0
  /\ pub[p].pc \in {"cas", "write", "stamp"} => pub[p].todo \subseteq Held(p) /\ pub[p].todo # {}
  /\ pub[p].pc = "cas" => pub[p].todo = Held(p)
  /\ pub[p].pc = "write" => \A s \in Held(p) \ pub[p].todo, t \in pub[p].todo : s < t

\* The stages of start() and stop(), and who may be where in them.
StageInv ==
  /\ control = "opening" => running /\ \A p \in Publishers : Outside(p)
  /\ control \in {"seal", "await", "join"} => ~running
  /\ control \in {"await", "join"} => sealed
  /\ control = "seal" \/ (control = "idle" /\ running) => ~sealed
  /\ Down => sealed \/ \A p \in Publishers : Outside(p)
  /\ \A p \in Publishers : StageOf(p)

\* A closed line stays closed under the claims it refuses.
LineInv ==
  /\ lastClaim >= -1
  /\ sealed => next = Closed + Cardinality(Refused)
  /\ ~sealed => next >= -1 /\ Refused = {}

\* A sequence is handed out once: what is held lies below the line, apart from what
\* others hold, and is on record.
ClaimInv ==
  /\ \A p \in Publishers : Holding(p) =>
       /\ pub[p].run = run /\ pub[p].seq <= Last /\ pub[p].seq - SizeOf(p) >= -1
       /\ \A s \in Held(p) : Claim(p, s) \in claimed
  /\ \A p, q \in Publishers : Holding(p) /\ Holding(q) /\ p # q => Held(p) \cap Held(q) = {}
  /\ \A x \in claimed : x.run <= run /\ (x.run = run => x.seq \in 0 .. Last)
  /\ accepted \subseteq claimed
  /\ OneOwnerPerSequence

\* Claims and resolutions add up, so that a quiescent bus has nobody inside.
CountInv ==
  /\ resolved - claimBase + Cardinality(Unresolved) = Last + 1
  /\ control = "join" \/ Down => \A p \in Publishers : ~Holding(p)
  /\ \A c \in Consumers : con[c].pc = "drain" => sealed /\ \A p \in Publishers : ~Holding(p)

\* Consumers publish progress they have made.
ProgressInv ==
  /\ \A c \in Consumers :
       /\ con[c].seq >= -1 /\ con[c].seq <= con[c].last
       /\ con[c].pc \in {"top", "await", "slot", "deliver", "commit"} => con[c].next = con[c].seq
       /\ con[c].pc \in {"top", "await", "drain"} => con[c].last = con[c].seq
       /\ con[c].pc = "drain" => ~running
  /\ Down => \A c \in Consumers : con[c].pc = "joined" /\ con[c].seq = -1 /\ con[c].last = -1
  /\ Down => \A i \in Slots : published[i] = -1

\* The reclaim fence: whoever is past it has every consumer behind the slot it reuses.
FenceInv ==
  \A c \in Consumers :
    /\ cachedMinConsumed <= con[c].seq
    /\ \A p \in Publishers :
         /\ pub[p].pc = "fenceStore" => Wrap(p) <= pub[p].min /\ pub[p].min <= con[c].seq
         /\ pub[p].pc = "cas" => sealed \/ Wrap(p) <= con[c].seq
         /\ Entered(p) => Wrap(p) <= con[c].seq
    /\ \A i \in Slots : published[i] <= con[c].seq + Capacity

\* The sequences a publisher still owes the ring.
Unstamped(p) ==
  IF ~Holding(p) \/ pub[p].pc = "resolve" THEN {}
  ELSE IF pub[p].pc = "stamp" THEN pub[p].todo ELSE Held(p)

\* A consumer that never jumps.
Anchor(c) == c \in Required \/ ~DropBehind

\* Stamps: a slot carries a sequence of its own that has been handed out, a sequence
\* that is owed is not there, and a consumer that never jumps waits for it.
StampInv ==
  /\ \A i \in Slots : published[i] >= -1 /\ (published[i] >= 0 => Slot(published[i]) = i /\ published[i] <= Last)
  /\ \A p \in Publishers : \A s \in Unstamped(p) :
       /\ published[Slot(s)] # s
       /\ \A c \in Consumers : Anchor(c) => con[c].last < s
  /\ \A c \in Consumers :
       /\ con[c].last <= Last
       /\ con[c].pc = "deliver" => published[Slot(con[c].last + 1)] = con[c].last + 1

\* Contents: a slot whose event stands is stamped with that event's claim; a slot whose
\* event is gone has been read by everybody.
ContentInv ==
  /\ \A p \in Publishers :
       /\ pub[p].pc = "write" => \A s \in Held(p) \ pub[p].todo :
            event[Slot(s)] = EventAt(p, s) /\ ~constructed[Slot(s)]
       /\ pub[p].pc = "stamp" => \A s \in pub[p].todo :
            event[Slot(s)] = EventAt(p, s) /\ constructed[Slot(s)]
  /\ \A i \in Slots : published[i] >= 0 =>
       \/ constructed[i] /\ [run |-> run, seq |-> published[i], ev |-> event[i]] \in claimed
       \/ ~constructed[i] /\ \A c \in Consumers : published[i] <= con[c].seq
       \/ \E p \in Publishers : pub[p].pc = "stamp" /\ \E s \in pub[p].todo : Slot(s) = i

\* Deliveries so far lie behind the consumer.
OrderInv ==
  /\ DeliversWhatWasClaimed
  /\ \A c \in Consumers : con[c].pc # "joined" =>
       \A k \in DOMAIN delivered[c] : delivered[c][k].run = run => delivered[c][k].seq <= con[c].last

\* A sequence that was given up on, and will never be stamped.
GivenUp(x) == x \notin accepted /\ \A p \in Publishers : Holding(p) => x.seq \notin Held(p)
\* A sequence its publisher has stamped, or has even resolved.
Stamped(p) == IF pub[p].pc = "resolve" THEN Held(p)
              ELSE IF pub[p].pc = "stamp" THEN Held(p) \ pub[p].todo ELSE {}

\* What is stamped stays until everybody has passed it, and who never jumps passes nothing
\* undelivered but what was given up on.
ArrivalInv ==
  /\ ~Down => \A c \in Consumers :
       /\ \A x \in accepted : x.run = run /\ x.seq > con[c].seq => published[Slot(x.seq)] = x.seq
       /\ \A p \in Publishers : \A s \in Stamped(p) : s > con[c].seq => published[Slot(s)] = s
  /\ \A c \in Consumers : Anchor(c) =>
       \A x \in claimed : x.run = run /\ x.seq <= con[c].last =>
         GivenUp(x) \/ \E k \in DOMAIN delivered[c] : delivered[c][k] = x
  /\ ~Down /\ DrainOnStop => \A c \in Consumers :
       con[c].pc = "joined" /\ ~con[c].failed => sealed /\ con[c].last >= lastClaim
=============================================================================

------------------------------ MODULE Sessions ------------------------------
(***************************************************************************)
(* The perimeter of the venue end to end: a FIX client (FixInitiator over  *)
(* FixTcpClient), the connections it opens, the gateway's connection       *)
(* threads (FixConnection, cancel on disconnect), the session registry the *)
(* matching thread delivers reports through, the two sequence sidecars,    *)
(* and an engine reduced to what sessions see of it: orders rest, fill,    *)
(* are cancelled, and every one of these is reported.                      *)
(*                                                                         *)
(* The client's session speaks for two accounts, its own and a borrowed    *)
(* one (the orders AliasOrders), which share one stream.                   *)
(***************************************************************************)
EXTENDS SessionRegistry, FiniteSets

CONSTANTS
  ClOrdIDs,       \* the ClOrdIDs of the orders the client submits, in this order
  AliasOrders,    \* the ClOrdIDs that go to the borrowed account
  NumConns,       \* connections the client opens at most
  ResetFlags,     \* resetSeqNumOnLogon of the first client process
  Overlap,        \* may a resetting client overtake its old connection?
  Troubles        \* the sets of things that may happen, once each, in one history

Conns  == 1..NumConns
Orders == Range(ClOrdIDs)
None   == [none |-> TRUE]

(* What may disturb a session: a timer runs out, a frame is corrupted, the  *)
(* client hangs up, a sidecar is written, a process dies, a resting order   *)
(* meets a counterparty.                                                    *)
Kinds == {"tick", "corrupt", "hangup", "clientSave", "clientCrash",
          "venueSave", "venueCrash", "fill"}

ASSUME SessionConstants ==
  /\ ClOrdIDs \in Seq(Nat) /\ NumConns \in Nat /\ AliasOrders \subseteq Orders
  /\ ResetFlags \subseteq BOOLEAN /\ Overlap \in BOOLEAN
  /\ Troubles \subseteq SUBSET Kinds

VARIABLES
  client,   \* the FixInitiator
  conn,     \* the connection its transport holds, 0 when there is none
  csave,    \* the client's sidecar
  cn,       \* per connection: the venue's thread, the inbound wire, its FixConnection
  w,        \* per connection: the writer and the outbound wire
  stream,   \* the identity's account stream
  alias,    \* does the borrowed account resolve to that stream?
  host,     \* the inbound expectation
  vsave,    \* the venue's sidecar
  vhalf,    \* a sidecar being written: the inbound half is serialised first
  eng,      \* the engine: commands submitted, orders live, orders seen, events routed
  ahead,    \* the kinds of trouble still to come
  hist      \* history: orders issued, taken and applied, reports numbered, what the client got

vars == <<client, conn, csave, cn, w, stream, alias, host, vsave, vhalf, eng, ahead, hist>>
clientVars == <<client, conn, csave>>
venueVars  == <<stream, alias, host, vsave, vhalf>>

FreshConn ==
  [st |-> "new", f |-> NewConnection, todo |-> <<>>, over |-> FALSE, closed |-> FALSE,
   wire |-> <<>>, app |-> <<>>, cod |-> FALSE, placed |-> {}]

Init ==
  /\ client \in {NewInitiator(b) : b \in ResetFlags}
  /\ conn = 0 /\ csave = None
  /\ cn = [k \in Conns |-> FreshConn]
  /\ w = [k \in Conns |-> NewWriter]
  /\ stream = NewStream /\ alias = FALSE
  /\ host = NewHost /\ vsave = None /\ vhalf = None
  /\ eng = [cmds |-> <<>>, live |-> {}, seen |-> {}, events |-> 0]
  /\ ahead \in Troubles
  /\ hist = [issued |-> 0, taken |-> <<>>, applied |-> <<>>, sent |-> {}, sp |-> 0, base |-> 1,
             got |-> <<>>, filled |-> {}, stale |-> FALSE]

Happens(kind) == kind \in ahead /\ ahead' = ahead \ {kind}

-----------------------------------------------------------------------------
(* The client's process. *)

(* A write reaches the venue's thread until either end has shut the socket. *)
Written(k, ms) ==
  IF k = 0 \/ w[k].dead \/ cn[k].closed \/ cn[k].st \in {"left", "done", "crashed"} THEN cn
  ELSE [cn EXCEPT ![k].wire = @ \o ms]

(* Carry out what a handler of the initiator decided: write, and close the  *)
(* socket when the session is over.                                         *)
Act(r) ==
  /\ client' = r.c
  /\ conn' = IF r.over THEN 0 ELSE conn
  /\ cn' = IF r.over /\ conn # 0
             THEN [Written(conn, r.out) EXCEPT ![conn].closed = TRUE]
             ELSE Written(conn, r.out)
  /\ UNCHANGED <<csave, w, venueVars, eng>>

(* FixTcpSession::connect: a new socket, and the Logon on it. *)
ClientConnect ==
  \E k \in Conns :
    /\ conn = 0
    /\ cn[k].st = "new" /\ \A j \in Conns : j < k => cn[j].st # "new"
    /\ (client.reset /\ ~Overlap) => \A j \in Conns : cn[j].st \in {"new", "done", "crashed"}
    /\ LET r == Connect(client)
       IN  /\ client' = r.c
           /\ cn' = [cn EXCEPT ![k].st = "open", ![k].wire = r.out]
    /\ conn' = k
    /\ UNCHANGED <<csave, w, venueVars, eng, ahead, hist>>

(* submit(): also on a socket the peer has already shut, where the write    *)
(* fails after the order was numbered and logged.                           *)
ClientSubmit ==
  /\ client.on
  /\ hist.issued < Len(ClOrdIDs)
  /\ hist' = [hist EXCEPT !.issued = @ + 1]
  /\ Act(SendApp(client, hist.issued + 1))
  /\ UNCHANGED ahead

(* A ResendRequest repeats when HeartBtInt has passed since the last one. *)
Elapsed(late) == IF late THEN Happens("tick") ELSE UNCHANGED ahead
Late(gap) == IF gap THEN BOOLEAN ELSE {FALSE}

(* One frame off the socket. *)
ClientRead ==
  \E late \in Late(client.gap) :
    /\ conn # 0 /\ w[conn].q # <<>>
    /\ LET m == Head(w[conn].q)
           r == OnFrameC(client, m, late)
       IN  /\ client' = r.c
           /\ conn' = IF r.over THEN 0 ELSE conn
           /\ cn' = IF r.over THEN [Written(conn, r.out) EXCEPT ![conn].closed = TRUE]
                              ELSE Written(conn, r.out)
           /\ hist' = [hist EXCEPT
                         !.got = @ \o r.rep,
                         !.sp = IF ~client.on /\ m.t = "A" /\ ~r.over THEN m.sp ELSE @,
                         !.base = IF ~client.on /\ m.t = "A" /\ m.x = 1 THEN m.n ELSE @,
                         !.filled = IF client.on /\ m.t = "4" /\ r.c.in > client.in
                                      THEN @ \cup m.n..(m.x - 1) ELSE @]
    /\ w' = [w EXCEPT ![conn].q = Tail(@)]
    /\ Elapsed(late)
    /\ UNCHANGED <<csave, venueVars, eng>>

(* A frame that fails its checksum is dropped. *)
ClientReadCorrupt ==
  /\ conn # 0 /\ w[conn].q # <<>>
  /\ Happens("corrupt")
  /\ client' = [client EXCEPT !.test = FALSE]
  /\ w' = [w EXCEPT ![conn].q = Tail(@)]
  /\ UNCHANGED <<conn, csave, cn, venueVars, eng, hist>>

(* The read finds the socket closed by the venue; frames may be lost with it. *)
ClientLost ==
  /\ conn # 0
  /\ w[conn].dead \/ cn[conn].st \in {"left", "done", "crashed"}
  /\ conn' = 0
  /\ cn' = [cn EXCEPT ![conn].closed = TRUE]
  /\ UNCHANGED <<client, csave, w, venueVars, eng, ahead, hist>>

(* The caller closes the socket, with or without a Logout first. *)
ClientHangUp ==
  \E polite \in BOOLEAN :
    /\ conn # 0
    /\ Happens("hangup")
    /\ polite => client.on
    /\ Act(Over(IF polite THEN LogoutLocked(Outcome(client)) ELSE Outcome(client)))
    /\ UNCHANGED hist

ClientTick ==
  /\ conn # 0
  /\ Happens("tick")
  /\ \/ client.on /\ Act(TickHeartbeatC(client))
     \/ client.on /\ ~client.test /\ Act(TickTestRequestC(client))
     \/ (client.on => client.test) /\ Act(TickDeadC(client))
  /\ UNCHANGED hist

(* The caller writes the sidecar at a boundary of its own. *)
ClientSave ==
  /\ Happens("clientSave")
  /\ csave' = FixSeqState(client)
  /\ UNCHANGED <<client, conn, cn, w, venueVars, eng, hist>>

(* A new client process: the counters of the sidecar, or a fresh space. *)
ClientRestart ==
  /\ Happens("clientCrash")
  /\ \/ csave # None /\ client' = Restore(csave)
     \/ client' = NewInitiator(TRUE)
  /\ conn' = 0
  /\ cn' = IF conn = 0 THEN cn ELSE [cn EXCEPT ![conn].closed = TRUE]
  /\ hist' = [hist EXCEPT !.base = client'.in, !.got = <<>>, !.filled = {}]
  /\ UNCHANGED <<csave, w, venueVars, eng>>

-----------------------------------------------------------------------------
(* The venue's connection threads: TcpGateway::connLoop. *)

Registry == [s |-> stream, w |-> w]
SetRegistry(r) == stream' = r.s /\ w' = r.w

(* The aliases are set, then the stream is taken over. *)
Accept ==
  \E k \in Conns :
    /\ cn[k].st = "open"
    /\ cn' = [cn EXCEPT ![k].st = "live"]
    /\ alias' = TRUE
    /\ SetRegistry(Attach(Registry, k))
    /\ UNCHANGED <<clientVars, host, vsave, vhalf, eng, ahead, hist>>

(* One registry call of connection k: the stream and writers after it, and  *)
(* the calls that take its place in the list.                               *)
Call(k, item) ==
  CASE item.op = "admin" -> [r |-> SendSequencedRaw(Registry, item.t, item.x), todo |-> <<>>]
    [] item.op = "reset" -> [r |-> ResetStream(Registry), todo |-> <<>>]
    [] item.op = "raw"   -> [r |-> EnqueueRaw(Registry, item.m), todo |-> <<>>]
    [] item.op = "serve" -> [r |-> Registry,
                             todo |-> IF item.b > stream.last THEN <<>>
                                      ELSE <<[op |-> "slice", b |-> item.b, e |-> stream.last]>>]
    [] item.op = "slice" -> [r |-> Registry,
                             todo |-> SliceFrames(stream.log, item.b, item.e)]

(* The first call happens with the frame, the others while state_->m is     *)
(* still held.  A thread that holds a message it has not handed over yet    *)
(* reads nothing; it no longer holds the mutex, so other connections read.  *)
Reader(k) ==
  /\ cn[k].st = "live" /\ ~cn[k].over /\ cn[k].wire # <<>> /\ cn[k].app = <<>>
  /\ \A j \in Conns : cn[j].todo = <<>>

(* FixConnection::onFrame: an in-sequence application message is consumed   *)
(* (++expectedIn) and stays in the thread's hands, Verdict::App.            *)
VenueRead ==
  \E k \in Conns : \E late \in Late(cn[k].f.gap) :
    /\ Reader(k)
    /\ LET m == Head(cn[k].wire)
           r == OnFrame(host, cn[k].f, m, late)
           c == IF r.todo = <<>> THEN [r |-> Registry, todo |-> <<>>]
                                 ELSE Call(k, Head(r.todo))
           rest == IF r.todo = <<>> THEN <<>> ELSE Tail(r.todo)
       IN  /\ host' = r.h
           /\ cn' = [cn EXCEPT ![k].f = r.f, ![k].wire = Tail(@), ![k].over = r.over,
                               ![k].todo = c.todo \o rest,
                               ![k].cod = @ \/ r.cod,
                               ![k].app = r.app]
           /\ hist' = [hist EXCEPT !.taken = @ \o r.app]
           /\ SetRegistry(c.r)
    /\ Elapsed(late)
    /\ UNCHANGED <<clientVars, alias, vsave, vhalf, eng>>

Track(k) ==
  IF cn[k].cod THEN cn[k].placed \cup {ClOrdIDs[i] : i \in Range(cn[k].app)} ELSE cn[k].placed

(* With state_->m released the message is decoded and admitted, tracked for *)
(* cancel on disconnect and handed to the engine: anything may have come in *)
(* between, the same client's next order on its next connection included.   *)
VenueSubmit ==
  \E k \in Conns :
    /\ cn[k].st = "live" /\ cn[k].app # <<>>
    /\ cn' = [cn EXCEPT ![k].app = <<>>, ![k].placed = Track(k)]
    /\ eng' = [eng EXCEPT !.cmds = @ \o [i \in DOMAIN cn[k].app |->
                                           [op |-> "new", o |-> ClOrdIDs[cn[k].app[i]]]]]
    /\ hist' = [hist EXCEPT !.applied =
                  @ \o [i \in DOMAIN cn[k].app |-> [o |-> cn[k].app[i], k |-> k]]]
    /\ UNCHANGED <<clientVars, w, venueVars, ahead>>

VenueReadCorrupt ==
  \E k \in Conns :
    /\ Reader(k)
    /\ Happens("corrupt")
    /\ cn' = [cn EXCEPT ![k].wire = Tail(@), ![k].f.test = FALSE]
    /\ UNCHANGED <<clientVars, w, venueVars, eng, hist>>

(* The next registry call of the frame being handled. *)
VenueCall ==
  \E k \in Conns :
    /\ cn[k].st = "live" /\ cn[k].todo # <<>>
    /\ LET c == Call(k, Head(cn[k].todo))
       IN  /\ SetRegistry(c.r)
           /\ cn' = [cn EXCEPT ![k].todo = c.todo \o Tail(@)]
    /\ UNCHANGED <<clientVars, alias, host, vsave, vhalf, eng, ahead, hist>>

(* FixConnection::onTick: outside the host's lock. *)
VenueTick ==
  \E k \in Conns :
    /\ cn[k].st = "live" /\ cn[k].todo = <<>> /\ cn[k].app = <<>> /\ ~cn[k].over
    /\ Happens("tick")
    /\ \/ /\ cn[k].f.on
          /\ SetRegistry(SendSequencedRaw(Registry, "0", 0)) /\ UNCHANGED cn
       \/ /\ cn[k].f.on /\ ~cn[k].f.test
          /\ SetRegistry(SendSequencedRaw(Registry, "1", 0))
          /\ cn' = [cn EXCEPT ![k].f.test = TRUE]
       \/ /\ cn[k].f.on => cn[k].f.test
          /\ cn' = [cn EXCEPT ![k].over = TRUE] /\ UNCHANGED <<stream, w>>
    /\ UNCHANGED <<clientVars, alias, host, vsave, vhalf, eng, hist>>

(* The loop ends: the session is over, or the read found the socket closed. *)
(* detach(accounts) erases the aliases first, whoever owns the stream now.  *)
VenueLeave ==
  \E k \in Conns :
    /\ cn[k].st = "live" /\ cn[k].todo = <<>> /\ cn[k].app = <<>>
    /\ cn[k].over \/ w[k].dead \/ cn[k].closed
    /\ cn' = [cn EXCEPT ![k].st = "left"]
    /\ alias' = FALSE
    /\ SetRegistry(Detach(Registry, k))
    /\ UNCHANGED <<clientVars, host, vsave, vhalf, eng, ahead, hist>>

(* DisconnectCanceller::flush, on the way out of the connection thread. *)
VenueFlush ==
  \E k \in Conns :
    /\ cn[k].st = "left"
    /\ cn' = [cn EXCEPT ![k].st = "done", ![k].placed = {}]
    /\ eng' = [eng EXCEPT !.cmds = IF cn[k].cod
                 THEN @ \o [i \in 1..Cardinality(cn[k].placed) |->
                              [op |-> "cancel", o |-> SetToSortSeq(cn[k].placed, <)[i]]]
                 ELSE @]
    /\ UNCHANGED <<clientVars, w, venueVars, ahead, hist>>

-----------------------------------------------------------------------------
(* The engine, and the delivery of what it reports. *)

(* Route one event about order o; the observer of the attached connection   *)
(* prunes its orders before the event is encoded.                           *)
RouteTo(kind, o, terminal) ==
  LET e     == eng.events + 1
      found == o \notin AliasOrders \/ alias
      r     == IF found THEN Deliver(Registry, e) ELSE Registry
      k     == stream.writer
  IN  /\ SetRegistry(r)
      /\ cn' = IF found /\ k # 0 /\ kind \in terminal
                 THEN [cn EXCEPT ![k].placed = @ \ {o}] ELSE cn
      /\ hist' = IF r.s.last = stream.last THEN hist
                 ELSE [hist EXCEPT !.sent =
                         @ \cup {[sp |-> r.s.sp, n |-> r.s.last, e |-> e]}]
      /\ UNCHANGED <<clientVars, alias, host, vsave, vhalf>>

RoutePrunesLive(kind, o) == RouteTo(kind, o, {"accepted", "exec", "canceled", "rejected"})
Route(kind, o) == RouteTo(kind, o, {"exec", "canceled", "rejected"})

Submitted == Head(eng.cmds)

EngineCommand ==
  /\ eng.cmds # <<>>
  /\ UNCHANGED ahead
  /\ LET o == Submitted.o
         done == [eng EXCEPT !.cmds = Tail(@), !.events = @ + 1]
     IN  \/ /\ Submitted.op = "new" /\ o \notin eng.seen
            /\ eng' = [done EXCEPT !.live = @ \cup {o}, !.seen = @ \cup {o}]
            /\ Route("accepted", o)
         \/ /\ Submitted.op = "new" /\ o \in eng.seen
            /\ eng' = done
            /\ Route("rejected", o)
         \/ /\ Submitted.op = "cancel" /\ o \in eng.live
            /\ eng' = [done EXCEPT !.live = @ \ {o}]
            /\ Route("canceled", o)
         \/ /\ Submitted.op = "cancel" /\ o \notin eng.live
            /\ eng' = done
            /\ Route("cancelRejected", o)

EngineFill ==
  \E o \in eng.live :
    /\ Happens("fill")
    /\ eng' = [eng EXCEPT !.live = @ \ {o}, !.events = @ + 1]
    /\ Route("exec", o)

-----------------------------------------------------------------------------
(* The venue's sidecar and its restart. *)

(* FixSessionSidecar::write serialises the host, then the registry. *)
VenueSaveHost ==
  /\ vhalf = None
  /\ Happens("venueSave")
  /\ vhalf' = SerializeHost(host)
  /\ UNCHANGED <<clientVars, cn, w, stream, alias, host, vsave, eng, hist>>

VenueSaveSeqs ==
  /\ vhalf # None
  /\ vsave' = [host |-> vhalf, last |-> stream.last]
  /\ vhalf' = None
  /\ UNCHANGED <<clientVars, cn, w, stream, alias, host, eng, ahead, hist>>

(* A crash: every connection and all session state go; the engine comes     *)
(* back from its journal; the counters from the sidecar, if there is one.   *)
VenueRestart ==
  /\ Happens("venueCrash")
  /\ cn' = [k \in Conns |-> IF cn[k].st = "new" THEN cn[k]
                            ELSE [FreshConn EXCEPT !.st = "crashed", !.closed = cn[k].closed]]
  /\ w' = [k \in Conns |-> [w[k] EXCEPT !.dead = @ \/ cn[k].st # "new"]]
  /\ alias' = FALSE /\ vhalf' = None
  /\ IF vsave = None
       THEN host' = NewHost /\ stream' = RestoreSeqs(stream.sp + 1, 0)
       ELSE host' = RestoreHost(vsave.host) /\ stream' = RestoreSeqs(stream.sp, vsave.last)
  /\ hist' = [hist EXCEPT !.stale = @ \/ (vsave # None /\
                                            (vsave.last # stream.last \/ RestoreHost(vsave.host) # host))]
  /\ UNCHANGED <<clientVars, vsave, eng>>

Next ==
  \/ ClientConnect \/ ClientSubmit \/ ClientRead \/ ClientReadCorrupt
  \/ ClientLost \/ ClientHangUp \/ ClientTick \/ ClientSave \/ ClientRestart
  \/ Accept \/ VenueRead \/ VenueSubmit \/ VenueReadCorrupt \/ VenueCall \/ VenueTick
  \/ VenueLeave \/ VenueFlush \/ EngineCommand \/ EngineFill
  \/ VenueSaveHost \/ VenueSaveSeqs \/ VenueRestart

Spec == Init /\ [][Next]_vars
-----------------------------------------------------------------------------
Sorted(s) == \A i, j \in DOMAIN s : i < j => s[i] < s[j]

(***************************************************************************)
(* The venue runs a client's orders at most once, and in the order they    *)
(* were sent, through corrupted frames, gaps, replays and reconnections    *)
(* (fix_session.h, no reorder buffer: a gapped session must not run orders *)
(* out of admission order).  The sequence check, under state_->m, takes    *)
(* every order once and in that order, whichever connections bring them.   *)
(* The hand-over to the engine happens after the mutex is released: the    *)
(* orders of one connection keep their places there; two orders taken on   *)
(* different connections may change them, when the thread of the one has   *)
(* taken its order and not handed it over yet (README, section 4).         *)
(* A sidecar older than the counters it stood for is excepted: the venue   *)
(* then asks for orders it has already run.                                *)
(***************************************************************************)
OrdersInOrder ==
  ~hist.stale =>
    /\ Sorted(hist.taken)
    /\ \A i, j \in DOMAIN hist.applied : i < j =>
         LET first == hist.applied[i]
             next  == hist.applied[j]
         IN  first.o # next.o /\ (first.k = next.k => first.o < next.o)

(***************************************************************************)
(* The strategy sees the reports of its session once each and in the order *)
(* the engine made them, whatever was lost, replayed or renumbered.        *)
(***************************************************************************)
ReportsInOrder == Sorted(hist.got)

\* Both directions of the session: at most once, and in order (orders with the exception
\* OrdersInOrder states).
InOrder == OrdersInOrder /\ ReportsInOrder

(***************************************************************************)
(* No report disappears behind the client's back: every report numbered    *)
(* below the number the client expects next was handed to the strategy or  *)
(* was covered by a GapFill.  What was numbered before this client process *)
(* began to listen, and numbers a stale sidecar gave out twice, excepted.  *)
(***************************************************************************)
NoSilentHole ==
  ~hist.stale =>
    \A r \in hist.sent :
      (r.sp = hist.sp /\ hist.base <= r.n /\ r.n < client.in) =>
        r.e \in Range(hist.got) \/ r.n \in hist.filled

(***************************************************************************)
(* Cancel on disconnect leaves no orphan: once a connection's thread has   *)
(* ended, every order it placed is closed or its cancel is on its way to   *)
(* the engine behind it.  An order sent again under a ClOrdID it had       *)
(* before is not among the orders of the run: the rejection of the second  *)
(* takes the first, still live, out of the canceller's list (README,       *)
(* section 4).                                                             *)
(***************************************************************************)
NoOrphan ==
  ~hist.stale =>
    \A i \in DOMAIN hist.applied :
      LET o == ClOrdIDs[hist.applied[i].o]
          k == hist.applied[i].k
          at(op) == {j \in DOMAIN eng.cmds : eng.cmds[j] = [op |-> op, o |-> o]}
      IN  (cn[k].st = "done" /\ (o \in eng.live \/ at("new") # {})) =>
            \E j \in at("cancel") : \A n \in at("new") : n < j

(***************************************************************************)
(* A gap closes: the ends of a live session never both wait for a replay   *)
(* while every frame in flight is above the hole of its reader.  The       *)
(* header of the initiator promises the replay ("until the counterparty's  *)
(* PossDup replay closes it").                                             *)
(* Does not hold (README, section 4).                                      *)
(***************************************************************************)
NeverWedged ==
  \A k \in Conns :
    ~ /\ conn = k /\ cn[k].st = "live" /\ cn[k].todo = <<>>
      /\ client.on /\ client.gap /\ cn[k].f.on /\ cn[k].f.gap
      /\ \A i \in DOMAIN w[k].q : w[k].q[i].n > client.in
      /\ \A i \in DOMAIN cn[k].wire : cn[k].wire[i].n > host.in
=============================================================================

------------------------------- MODULE Gateway -------------------------------
(***************************************************************************)
(* The threads of the order-entry perimeter: per gateway a SocketAcceptor  *)
(* (its accept thread, the thread that calls stop), per connection a       *)
(* reader (connLoop of TcpGateway, WsGateway or TlsGateway) and a          *)
(* SessionWriter; the registry they share, the kernel's descriptor table,  *)
(* and an engine reduced to what cancel on disconnect sees of it.          *)
(*                                                                         *)
(* Descriptors are numbers the kernel gives out again; whoever kept one    *)
(* past its close acts on the socket that has it now.                      *)
(***************************************************************************)
EXTENDS GatewaySession

CONSTANTS
  Gateways,    \* gateway -> [kind, accounts]: "tcp", "ws" or "tls", identity first
  Accounts,    \* the accounts of the venue, 0 excluded
  NumConns,    \* connections opened at most, one client each
  WriterCap,   \* DeliveryConfig::queueCapacity
  MaxClock,    \* the time goes no further
  Histories    \* what the surroundings may do, see below

Conns == 1..NumConns
Fds   == Conns
Kind(g) == Gateways[g].kind

(* A history h is the clients that come, in this order (the gateway each    *)
(* goes to, the messages it sends and whether it then falls silent), the    *)
(* gateways one of which may be stopped, the fills resting orders may meet, *)
(* whether there is an idle timeout, and whether the window of a silent     *)
(* peer fills up.                                                           *)
ASSUME GatewayConstants ==
  /\ NumConns \in Nat /\ WriterCap \in Nat \ {0} /\ MaxClock \in Nat
  /\ \A g \in DOMAIN Gateways : /\ Kind(g) \in {"tcp", "ws", "tls"}
                                /\ Gateways[g].accounts \in Seq(Accounts) \ {<<>>}
  /\ \A h \in Histories :
       /\ Len(h.clients) \in 0..NumConns
       /\ \A k \in 1..Len(h.clients) : h.clients[k].gw \in DOMAIN Gateways
       /\ h.stops \subseteq DOMAIN Gateways /\ h.fills \in Nat
       /\ h.idle \in BOOLEAN /\ h.jams \in BOOLEAN

VARIABLES
  acc,     \* per gateway: running_, the listening socket, accept thread, stop(), connFds_
  file,    \* the descriptor table: which connection's socket a number is, 0 for none
  cn,      \* per connection: its thread, its socket, its client
  wr,      \* per connection: the SessionWriter
  reg,     \* the registry: per identity the writer and observer bound, and the aliases
  eng,     \* the engine: commands submitted, resting orders, fills to come
  clock,   \* the steady clock as the readers last saw it
  mode,    \* which history this is
  hist     \* history: orders each connection placed, orders a refused frame named, strays

vars == <<acc, file, cn, wr, reg, eng, clock, mode, hist>>

(* A client's bytes are in its socket as soon as it has connected; when     *)
(* they are read is up to the reader.                                       *)
Absent == [gw |-> "none", sends |-> <<>>, mute |-> FALSE]

NewConn(v) ==
  [st |-> "none", gw |-> v.gw, fd |-> 0, s |-> NewSession(<<0>>, FALSE),
   wire |-> v.sends, part |-> FALSE, quiet |-> 0, victim |-> 0,
   shut |-> FALSE, hung |-> FALSE, mute |-> v.mute]

NewWriter == [q |-> 0, dead |-> FALSE, stopping |-> FALSE, busy |-> FALSE, over |-> FALSE]

Init ==
  /\ mode \in Histories
  /\ cn = [k \in Conns |-> NewConn(IF k <= Len(mode.clients) THEN mode.clients[k] ELSE Absent)]
  /\ acc = [g \in DOMAIN Gateways |-> [run |-> TRUE, listen |-> TRUE, thr |-> "accept",
                                       stop |-> "no", fds |-> {}, got |-> 0]]
  /\ file = [f \in Fds |-> 0]
  /\ wr = [k \in Conns |-> NewWriter]
  /\ reg = [writer |-> [a \in Accounts |-> 0], obs |-> [a \in Accounts |-> 0],
            alias |-> [a \in Accounts |-> a]]
  /\ eng = [cmds |-> <<>>, live |-> {}, fills |-> mode.fills]
  /\ clock = 0
  /\ hist = [placed |-> {}, named |-> {}, strays |-> {}]

-----------------------------------------------------------------------------
(* Sockets.  shutdownBoth acts on the number: the socket that has it now    *)
(* wakes its reader and fails its writes.                                   *)
Shutdown(c, f) == IF file[f] = 0 THEN c ELSE [c EXCEPT ![file[f]].shut = TRUE]

(* A call on connection k's number that hits another connection's socket.  *)
Stray(by, k) == IF file[cn[k].fd] \in {0, k} THEN {} ELSE {[by |-> by, hit |-> file[cn[k].fd]]}

(* SessionWriter::enqueue; an overflow kills the writer and shuts the       *)
(* descriptor its connection was attached with.                             *)
Enqueue(w, k) ==
  CASE k = 0 \/ w[k].dead \/ w[k].stopping -> w
    [] k # 0 /\ ~w[k].dead /\ ~w[k].stopping /\ w[k].q >= WriterCap ->
         [w EXCEPT ![k].dead = TRUE]
    [] OTHER -> [w EXCEPT ![k].q = @ + 1]

Overflows(k) == k # 0 /\ ~wr[k].dead /\ ~wr[k].stopping /\ wr[k].q >= WriterCap

(* A peer that has gone fails the writes; one that fell silent blocks them  *)
(* once its window is full.                                                 *)
Gone(k) == cn[k].shut \/ cn[k].hung
Jammed(k) == mode.jams /\ cn[k].mute /\ ~Gone(k)

-----------------------------------------------------------------------------
(* The clients. *)

(* Connections are numbered in the order they are opened. *)
ClientConnect(k) ==
  /\ cn[k].st = "none" /\ \A j \in Conns : j < k => cn[j].st # "none"
  /\ cn[k].gw # "none" /\ acc[cn[k].gw].listen
  /\ cn' = [cn EXCEPT ![k].st = "backlog"]
  /\ UNCHANGED <<acc, file, wr, reg, eng, clock, mode, hist>>

(* A client that has not fallen silent closes its end. *)
ClientHangsUp(k) ==
  /\ cn[k].st \in {"backlog", "accepted", "opening", "displacing", "live"}
  /\ ~cn[k].hung /\ ~cn[k].mute /\ ~cn[k].shut
  /\ cn' = [cn EXCEPT ![k].hung = TRUE]
  /\ UNCHANGED <<acc, file, wr, reg, eng, clock, mode, hist>>

-----------------------------------------------------------------------------
(* SocketAcceptor: the accept thread. *)

Backlog(g) == {k \in Conns : cn[k].st = "backlog" /\ cn[k].gw = g}
FreeFds    == {f \in Fds : file[f] = 0}

AcceptTake(g) ==
  /\ acc[g].thr = "accept" /\ acc[g].listen /\ Backlog(g) # {}
  /\ LET k == Min(Backlog(g))
         f == Min(FreeFds)
     IN  /\ acc' = [acc EXCEPT ![g].thr = "got", ![g].got = k]
         /\ file' = [file EXCEPT ![f] = k]
         /\ cn' = [cn EXCEPT ![k].st = "accepted", ![k].fd = f]
  /\ UNCHANGED <<wr, reg, eng, clock, mode, hist>>

(* Under connsMutex_: the descriptor is registered and the thread started;  *)
(* then running_ is asked again.                                            *)
AcceptSpawn(g) ==
  /\ acc[g].thr = "got"
  /\ acc' = [acc EXCEPT ![g].fds = @ \cup {cn[acc[g].got].fd}, ![g].got = 0,
                        ![g].thr = IF acc[g].run THEN "accept" ELSE "ended"]
  /\ cn' = [cn EXCEPT ![acc[g].got].st = "opening"]
  /\ UNCHANGED <<file, wr, reg, eng, clock, mode, hist>>

AcceptFails(g) ==
  /\ acc[g].thr = "accept" /\ ~acc[g].listen /\ ~acc[g].run
  /\ acc' = [acc EXCEPT ![g].thr = "ended"]
  /\ UNCHANGED <<file, cn, wr, reg, eng, clock, mode, hist>>

(* SocketAcceptor::stop(), of one gateway in a history. *)
StopFlag(g) ==
  /\ g \in mode.stops /\ \A h \in DOMAIN Gateways : acc[h].stop = "no"
  /\ acc' = [acc EXCEPT ![g].run = FALSE, ![g].stop = "flagged"]
  /\ UNCHANGED <<file, cn, wr, reg, eng, clock, mode, hist>>

(* Closing the listening socket resets the connections nobody accepted. *)
StopClose(g) ==
  /\ acc[g].stop = "flagged"
  /\ acc' = [acc EXCEPT ![g].listen = FALSE, ![g].stop = "unlistened"]
  /\ cn' = [k \in Conns |-> IF k \in Backlog(g) THEN [cn[k] EXCEPT !.st = "closed"] ELSE cn[k]]
  /\ UNCHANGED <<file, wr, reg, eng, clock, mode, hist>>

SweepsBeforeJoin(g) == acc[g].stop = "unlistened"
SweepsWhen(g) == acc[g].stop = "unlistened" /\ acc[g].thr = "ended"

(* The accept thread is joined, then every registered descriptor is shut    *)
(* down under connsMutex_.                                                  *)
StopSweep(g) ==
  /\ SweepsWhen(g)
  /\ acc' = [acc EXCEPT ![g].stop = "swept"]
  /\ cn' = [k \in Conns |-> IF \E f \in acc[g].fds : file[f] = k
                              THEN [cn[k] EXCEPT !.shut = TRUE] ELSE cn[k]]
  /\ hist' = [hist EXCEPT !.strays = @ \cup
                {[by |-> "sweep", hit |-> file[f]] : f \in {f \in acc[g].fds :
                   file[f] = 0 \/ cn[file[f]].gw # g}}]
  /\ UNCHANGED <<file, wr, reg, eng, clock, mode>>

(* Every connection thread is joined. *)
StopReturn(g) ==
  /\ acc[g].stop = "swept"
  /\ \A k \in Conns : cn[k].gw = g => cn[k].st \in {"none", "closed"}
  /\ acc' = [acc EXCEPT ![g].stop = "returned"]
  /\ UNCHANGED <<file, cn, wr, reg, eng, clock, mode, hist>>

-----------------------------------------------------------------------------
(* The connection threads: opening. *)

Own(k) == Gateways[cn[k].gw].accounts

(* SessionRegistry::streamOf: the identity whose stream carries an account. *)
StreamOf(a) == reg.alias[a]

(* SessionRegistry::attach: the aliases, then the stream under its mutex;   *)
(* the writer it displaced is killed afterwards, outside the mutex.         *)
AttachTo(k) ==
  LET id == StreamOf(Head(Own(k)))
  IN  /\ reg' = [reg EXCEPT
                   !.alias = [a \in Accounts |-> IF a \in Range(Tail(Own(k))) /\ a # Head(Own(k))
                                                   THEN Head(Own(k)) ELSE @[a]],
                   !.writer[id] = k, !.obs[id] = k]
      /\ cn' = [cn EXCEPT ![k].st = IF reg.writer[id] = 0 THEN "live" ELSE "displacing",
                          ![k].victim = reg.writer[id],
                          ![k].wire = IF Kind(cn[k].gw) = "tcp" THEN @ ELSE Tail(@),
                          ![k].s = NewSession(Own(k), TRUE)]

(* WebSocket and TLS read their handshake first. *)
Attach(k) ==
  /\ cn[k].st = "opening"
  /\ Kind(cn[k].gw) # "tcp" => cn[k].wire # <<>>
  /\ AttachTo(k)
  /\ UNCHANGED <<acc, file, wr, eng, clock, mode, hist>>

(* A handshake that does not come: EOF, or the receive timeout. *)
HandshakeFails(k) ==
  /\ cn[k].st = "opening" /\ Kind(cn[k].gw) # "tcp" /\ cn[k].wire = <<>>
  /\ Gone(k) \/ mode.idle
  /\ cn' = [cn EXCEPT ![k].st = "returned"]
  /\ UNCHANGED <<acc, file, wr, reg, eng, clock, mode, hist>>

(* SessionWriter::kill of the displaced connection. *)
Displace(k) ==
  /\ cn[k].st = "displacing"
  /\ LET d == cn[k].victim
         c == [cn EXCEPT ![k].st = "live", ![k].victim = 0]
     IN  /\ wr' = [wr EXCEPT ![d].dead = TRUE]
         /\ cn' = IF wr[d].dead THEN c ELSE Shutdown(c, cn[d].fd)
         /\ hist' = [hist EXCEPT !.strays = @ \cup (IF wr[d].dead THEN {} ELSE Stray("kill", d))]
  /\ UNCHANGED <<acc, file, reg, eng, clock, mode>>

-----------------------------------------------------------------------------
(* The connection threads: the read loop. *)

(* A TLS reader and the writer share the SSL's mutex, which the writer      *)
(* holds for the whole of a write.                                          *)
Reads(k) ==
  /\ cn[k].st = "live"
  /\ Kind(cn[k].gw) = "tls" => ~wr[k].busy

(* One session-level answer: SessionRegistry::deliver to the identity's     *)
(* stream, if it has one.  The observer bound there sees it, then its       *)
(* writer gets it.  route() delivers the engine's events the same way.      *)
DeliverTo(c, e) ==
  LET b  == IF e.acct \in Accounts THEN reg.obs[StreamOf(e.acct)] ELSE 0
      k  == IF e.acct \in Accounts THEN reg.writer[StreamOf(e.acct)] ELSE 0
      c1 == IF b = 0 THEN c ELSE [c EXCEPT ![b].s = Observe(@, e)]
  IN  /\ wr' = Enqueue(wr, k)
      /\ cn' = IF Overflows(k) THEN Shutdown(c1, cn[k].fd) ELSE c1
      /\ hist' = [hist EXCEPT !.strays = @ \cup (IF Overflows(k) THEN Stray("overflow", k) ELSE {}),
                              !.named = IF e.op = "rejected" THEN @ \cup {e.o} ELSE @]

(* What the loop does with one whole message: the session-config verb, then *)
(* the decoder and admission.  running_ is asked again before the next.     *)
After(k) == IF acc[cn[k].gw].run THEN "live" ELSE "leaving"

SubmitCmd(k, r) ==
  /\ cn' = [cn EXCEPT ![k].s = Track(r.s, r.cmd[1]), ![k].st = After(k),
                      ![k].wire = Tail(@), ![k].part = FALSE, ![k].quiet = 0]
  /\ eng' = [eng EXCEPT !.cmds = Append(@, r.cmd[1])]
  /\ hist' = IF r.cmd[1].op = "new" /\ cn[k].s.cod
               THEN [hist EXCEPT !.placed = @ \cup {[o |-> r.cmd[1].o, k |-> k]}] ELSE hist
  /\ UNCHANGED wr

AnswerRefusal(k, r) ==
  /\ DeliverTo([cn EXCEPT ![k].s = r.s, ![k].st = After(k), ![k].wire = Tail(@),
                          ![k].part = FALSE, ![k].quiet = 0], r.rej[1])
  /\ UNCHANGED eng

OnMessage(k, r) ==
  \/ r.cmd # <<>> /\ SubmitCmd(k, r)
  \/ r.rej # <<>> /\ AnswerRefusal(k, r)

Control == {"part", "cod", "ping", "pong", "close"}

(* The clock is read with the message; it moves between two readings. *)
ReadCommand(k) ==
  \E now \in clock..MaxClock :
    /\ Reads(k) /\ cn[k].wire # <<>>
    /\ Head(cn[k].wire).op \notin Control
    /\ clock' = now
    /\ OnMessage(k, Handle(cn[k].s, Head(cn[k].wire), now))
    /\ UNCHANGED <<acc, file, reg, mode>>

(* The first part of a message that spans two reads (TCP, TLS) or two       *)
(* fragments (WebSocket) is kept; a second start before the end of a        *)
(* WebSocket message is a violation.                                        *)
BegunTwice(k) == Kind(cn[k].gw) = "ws" /\ cn[k].part

ReadPart(k) ==
  /\ Reads(k) /\ cn[k].wire # <<>> /\ Head(cn[k].wire).op = "part"
  /\ cn' = [cn EXCEPT ![k].wire = Tail(@), ![k].part = TRUE, ![k].quiet = 0,
                      ![k].st = IF BegunTwice(k) THEN "leaving" ELSE After(k)]
  /\ UNCHANGED <<acc, file, wr, reg, eng, clock, mode, hist>>

(* Cancel on disconnect is switched for what is placed from now on: what    *)
(* was tracked before stays, and is not pruned while it is off.             *)
ReadConfig(k) ==
  /\ Reads(k) /\ cn[k].wire # <<>> /\ Head(cn[k].wire).op = "cod"
  /\ cn' = [cn EXCEPT ![k].s.cod = Head(cn[k].wire).o = 1, ![k].st = After(k),
                      ![k].wire = Tail(@), ![k].part = FALSE, ![k].quiet = 0]
  /\ UNCHANGED <<acc, file, wr, reg, eng, clock, mode, hist>>

(* WebSocket control frames, which may stand between two fragments. *)
ReadControl(k) ==
  /\ Reads(k) /\ cn[k].wire # <<>> /\ Head(cn[k].wire).op \in {"ping", "pong", "close"}
  /\ cn' = LET c == [cn EXCEPT ![k].wire = Tail(@), ![k].quiet = 0,
                               ![k].st = IF Head(cn[k].wire).op = "close"
                                           THEN "leaving" ELSE After(k)]
           IN  IF Head(cn[k].wire).op = "ping" /\ Overflows(k) THEN Shutdown(c, cn[k].fd) ELSE c
  /\ wr' = IF Head(cn[k].wire).op = "ping" THEN Enqueue(wr, k) ELSE wr
  /\ UNCHANGED <<acc, file, reg, eng, clock, mode, hist>>

(* The read returns nothing: EOF or a shut socket; a TLS reader also looks  *)
(* at running_ on every poll.                                               *)
ReadEnds(k) ==
  /\ Reads(k)
  /\ \/ cn[k].shut
     \/ cn[k].hung /\ cn[k].wire = <<>>
     \/ Kind(cn[k].gw) = "tls" /\ ~acc[cn[k].gw].run
  /\ cn' = [cn EXCEPT ![k].st = "leaving"]
  /\ UNCHANGED <<acc, file, wr, reg, eng, clock, mode, hist>>

(* The receive timeout, in half windows of silence (TCP and TLS wake at the *)
(* whole window).  TCP lets a peer in the middle of a frame have a second   *)
(* window; WebSocket pings at half the window, and a peer that is there     *)
(* answers in time.                                                         *)
Limit(k) == IF Kind(cn[k].gw) = "tcp" /\ cn[k].part THEN 4 ELSE 2

Silent(k) == Reads(k) /\ mode.idle /\ cn[k].wire = <<>> /\ ~Gone(k)

ReadTimesOut(k) ==
  /\ Silent(k)
  /\ IF cn[k].quiet + 1 >= Limit(k)
       THEN /\ cn' = [cn EXCEPT ![k].st = "leaving"]
            /\ UNCHANGED wr
       ELSE /\ cn' = LET c == [cn EXCEPT ![k].quiet = @ + 1,
                                 ![k].wire = IF Kind(cn[k].gw) = "ws" /\ ~cn[k].mute
                                               THEN <<[op |-> "pong", o |-> 0, acct |-> 0]>>
                                               ELSE <<>>]
                     IN  IF Kind(cn[k].gw) = "ws" /\ Overflows(k)
                           THEN Shutdown(c, cn[k].fd) ELSE c
            /\ wr' = IF Kind(cn[k].gw) = "ws" THEN Enqueue(wr, k) ELSE wr
  /\ UNCHANGED <<acc, file, reg, eng, clock, mode, hist>>

-----------------------------------------------------------------------------
(* The connection threads: teardown. *)

(* SessionRegistry::detach: the borrowed accounts first, then the stream,   *)
(* if this connection is still the one bound to it; the writer is told to   *)
(* stop.                                                                    *)
Unaliased(k) ==
  [a \in Accounts |-> IF a \in Range(Tail(Own(k))) /\ reg.alias[a] = Head(Own(k))
                        THEN a ELSE reg.alias[a]]

DetachStreamAt(id, k) ==
  [reg EXCEPT !.alias = Unaliased(k),
              !.writer[id] = IF @ = k THEN 0 ELSE @,
              !.obs[id] = IF reg.writer[id] = k THEN 0 ELSE @]

Detach(k)       == DetachStreamAt(Unaliased(k)[Head(Own(k))], k)

Leave(k) ==
  /\ cn[k].st = "leaving"
  /\ reg' = Detach(k)
  /\ cn' = [cn EXCEPT ![k].st = "left"]
  /\ wr' = [wr EXCEPT ![k].stopping = TRUE]
  /\ UNCHANGED <<acc, file, eng, clock, mode, hist>>

Joined(k) == cn[k].st = "left" /\ wr[k].over

(* SessionWriter::stop joins the writer; then cancel on disconnect, and the *)
(* socket is shut.                                                          *)
Flush(k) ==
  /\ Joined(k)
  /\ cn' = Shutdown([cn EXCEPT ![k].st = "returned"], cn[k].fd)
  /\ eng' = [eng EXCEPT !.cmds = @ \o FlushCancels(cn[k].s)]
  /\ UNCHANGED <<acc, file, wr, reg, clock, mode, hist>>

(* The acceptor's thread body: the number is taken out of the set under     *)
(* connsMutex_ before the descriptor is closed.  It gets here by the return *)
(* of connLoop; an exception that leaves connLoop ends here as well, past   *)
(* detach, the writer's stop and the flush, and is not modelled.            *)
DeregisterForgets(k) ==
  /\ cn[k].st = "returned"
  /\ cn' = [cn EXCEPT ![k].st = "closing"]
  /\ UNCHANGED <<acc, file, wr, reg, eng, clock, mode, hist>>

Deregister(k) ==
  /\ cn[k].st = "returned"
  /\ acc' = [acc EXCEPT ![cn[k].gw].fds = @ \ {cn[k].fd}]
  /\ cn' = [cn EXCEPT ![k].st = "closing"]
  /\ UNCHANGED <<file, wr, reg, eng, clock, mode, hist>>

Close(k) ==
  /\ cn[k].st = "closing"
  /\ file' = [file EXCEPT ![cn[k].fd] = 0]
  /\ cn' = [cn EXCEPT ![k].st = "closed"]
  /\ UNCHANGED <<acc, wr, reg, eng, clock, mode, hist>>

-----------------------------------------------------------------------------
(* The writer threads: SessionWriter::run. *)

Attached == {"displacing", "live", "leaving", "left"}

WriterTakes(k) ==
  /\ cn[k].st \in Attached /\ ~wr[k].busy /\ ~wr[k].over /\ ~wr[k].dead /\ wr[k].q > 0
  /\ wr' = [wr EXCEPT ![k].q = @ - 1, ![k].busy = TRUE]
  /\ UNCHANGED <<acc, file, cn, reg, eng, clock, mode, hist>>

(* The write goes out, fails on a socket that is shut or closed by the      *)
(* peer, or blocks while the peer's window is full: no send timeout is set. *)
WriterWrites(k) ==
  /\ wr[k].busy /\ ~Jammed(k)
  /\ wr' = IF Gone(k) THEN [wr EXCEPT ![k].busy = FALSE, ![k].dead = TRUE,
                                      ![k].q = 0, ![k].over = TRUE]
                      ELSE [wr EXCEPT ![k].busy = FALSE]
  /\ cn' = IF Gone(k) THEN Shutdown(cn, cn[k].fd) ELSE cn
  /\ hist' = [hist EXCEPT !.strays = @ \cup (IF Gone(k) THEN Stray("write", k) ELSE {})]
  /\ UNCHANGED <<acc, file, reg, eng, clock, mode>>

WriterEnds(k) ==
  /\ cn[k].st \in Attached /\ ~wr[k].busy /\ ~wr[k].over
  /\ wr[k].dead \/ (wr[k].stopping /\ wr[k].q = 0)
  /\ wr' = [wr EXCEPT ![k].q = 0, ![k].over = TRUE]
  /\ UNCHANGED <<acc, file, cn, reg, eng, clock, mode, hist>>

-----------------------------------------------------------------------------
(* The engine: one command, and the event it reports.  An order whose id    *)
(* rests already is not sent (its rejection is in Sessions); quotes and     *)
(* mass cancels are not among the commands.                                 *)

Resting(o) == {x \in eng.live : x.o = o}
Answer(c, op) == [op |-> op, o |-> c.o, acct |-> c.acct, why |-> "engine"]

EngineStep ==
  /\ eng.cmds # <<>>
  /\ LET c == Head(eng.cmds)
         done == [eng EXCEPT !.cmds = Tail(@)]
     IN  \/ /\ c.op = "new" /\ Resting(c.o) = {}
            /\ eng' = [done EXCEPT !.live = @ \cup {[o |-> c.o, acct |-> c.acct]}]
            /\ DeliverTo(cn, Answer(c, "accepted"))
         \/ /\ c.op = "cancel" /\ [o |-> c.o, acct |-> c.acct] \in eng.live
            /\ eng' = [done EXCEPT !.live = @ \ Resting(c.o)]
            /\ DeliverTo(cn, Answer(c, "canceled"))
         \/ /\ c.op = "cancel" /\ [o |-> c.o, acct |-> c.acct] \notin eng.live
            /\ eng' = done
            /\ DeliverTo(cn, Answer(c, "cancelRejected"))
         \/ /\ c.op = "modify"
            /\ eng' = done
            /\ DeliverTo(cn, Answer(c, IF Resting(c.o) = {} THEN "cancelRejected" ELSE "modified"))
         \/ /\ c.op = "lastLook"
            /\ eng' = done
            /\ UNCHANGED <<cn, wr, hist>>
  /\ UNCHANGED <<acc, file, reg, clock, mode>>

EngineFill ==
  /\ eng.fills > 0
  /\ \E x \in eng.live :
       /\ eng' = [eng EXCEPT !.live = @ \ {x}, !.fills = @ - 1]
       /\ DeliverTo(cn, Answer(x, "executed"))
  /\ UNCHANGED <<acc, file, reg, clock, mode>>

Acceptor(g) == AcceptTake(g) \/ AcceptSpawn(g) \/ AcceptFails(g)
Stopper(g)  == StopClose(g) \/ StopSweep(g) \/ StopReturn(g)

Reader(k) ==
  \/ Attach(k) \/ HandshakeFails(k) \/ Displace(k)
  \/ ReadCommand(k) \/ ReadPart(k) \/ ReadConfig(k) \/ ReadControl(k)
  \/ ReadEnds(k) \/ ReadTimesOut(k)
  \/ Leave(k) \/ Flush(k) \/ Deregister(k) \/ Close(k)

Writer(k) == WriterTakes(k) \/ WriterWrites(k) \/ WriterEnds(k)

Next ==
  \/ \E g \in DOMAIN Gateways : StopFlag(g) \/ Acceptor(g) \/ Stopper(g)
  \/ \E k \in Conns : ClientConnect(k) \/ ClientHangsUp(k) \/ Reader(k) \/ Writer(k)
  \/ EngineStep \/ EngineFill

(* No thread of the venue is starved; clients, fills and the call of stop() *)
(* come when they come.                                                     *)
Fairness ==
  /\ \A g \in DOMAIN Gateways : WF_vars(Acceptor(g)) /\ WF_vars(Stopper(g))
  /\ \A k \in Conns : WF_vars(Reader(k)) /\ WF_vars(Writer(k))
  /\ WF_vars(EngineStep)

Spec == Init /\ [][Next]_vars /\ Fairness
-----------------------------------------------------------------------------
(***************************************************************************)
(* stop() returns, whatever the clients do: a connection accepted while it *)
(* runs is swept too, and a reader blocked on a silent peer or a writer    *)
(* blocked on a full window is woken (socket_acceptor.h: one black-holed   *)
(* client used to hang stop() indefinitely).                               *)
(***************************************************************************)
GatewayStops ==
  \A g \in DOMAIN Gateways : acc[g].stop = "flagged" ~> acc[g].stop = "returned"

(***************************************************************************)
(* With an idle timeout a peer that falls silent is disconnected, and its  *)
(* thread gets as far as pulling its orders and closing its socket, as     *)
(* long as its writer is not blocked on it.                                *)
(***************************************************************************)
SilentPeerLeaves ==
  \A k \in Conns :
    (mode.idle /\ ~mode.jams /\ cn[k].mute /\ cn[k].st = "accepted") ~> cn[k].st = "closed"

(* Connections end, when the gateway stops and when the peer is silent.    *)
ConnectionsEnd == GatewayStops /\ SilentPeerLeaves

(***************************************************************************)
(* The same without the proviso: "a half-open peer can no longer hold      *)
(* orders and a thread forever" (docs/venue/perimeter.md).                 *)
(* Does not hold (README, section 4).                                      *)
(***************************************************************************)
HalfOpenPeerLeaves ==
  \A k \in Conns : (mode.idle /\ cn[k].mute /\ cn[k].st = "accepted") ~> cn[k].st = "closed"

(***************************************************************************)
(* Once a connection is closed, each order it placed under cancel on       *)
(* disconnect is closed or has its cancel behind it on the way to the      *)
(* engine; an order some refused frame named is excepted: the refusal      *)
(* prunes it, resting or not.  An exception that leaves connLoop, which    *)
(* skips the flush, is not among the ways a connection ends here (README,  *)
(* section 6).                                                             *)
(***************************************************************************)
DisconnectPulls ==
  \A p \in hist.placed :
    LET at(op) == {j \in DOMAIN eng.cmds : eng.cmds[j].op = op /\ eng.cmds[j].o = p.o}
    IN  (cn[p.k].st \in {"closing", "closed"} /\ p.o \notin hist.named /\ cn[p.k].s.cod
         /\ (Resting(p.o) # {} \/ at("new") # {})) =>
          \E j \in at("cancel") : \A n \in at("new") : n < j

(***************************************************************************)
(* Nobody shuts down a descriptor that has become another connection's:    *)
(* neither stop()'s sweep nor a writer, on overflow or on a failed write,  *)
(* acts on a number that was given out again.  The kill of a displaced     *)
(* writer is excepted.                                                     *)
(***************************************************************************)
NoStrangerShut == \A s \in hist.strays : s.by = "kill"

(***************************************************************************)
(* "After detach returns, no further events or observer calls reach this   *)
(* writer" (session_registry.h): what is bound to a stream is a connection *)
(* whose thread has not detached, so the canceller it observes for exists. *)
(***************************************************************************)
NothingAfterDetach ==
  \A a \in Accounts :
    /\ reg.writer[a] # 0 => cn[reg.writer[a]].st \in {"displacing", "live", "leaving"}
    /\ reg.obs[a] = reg.writer[a]

(* A connection that is over is left alone, by its stream and by whoever    *)
(* still holds its descriptor.  Excepted: an account whose own stream was   *)
(* bound before another session borrowed it; its detach follows the alias   *)
(* and misses that stream (README, section 4).  No session of the run       *)
(* borrows such an account.                                                 *)
ClosedIsLeftAlone == NothingAfterDetach /\ NoStrangerShut

(***************************************************************************)
(* A rate-limit refusal says how long to wait, and means it: the same      *)
(* action sent after exactly that wait, with nothing in between, is        *)
(* admitted, and one moment earlier it is not.                             *)
(***************************************************************************)
RetryIsExact ==
  \A k \in Conns : \A a \in Trading :
    LET p == cn[k].s.pol
        t == RetryAfterNs(p, a, clock)
    IN  /\ TryConsume(p, a, clock + t).ok
        /\ t > 0 => ~TryConsume(p, a, clock + t - 1).ok
=============================================================================

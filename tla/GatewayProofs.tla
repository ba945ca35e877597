---------------------------- MODULE GatewayProofs ----------------------------
(***************************************************************************)
(* For every set of gateways, accounts and histories and every number of   *)
(* connections: a connection that is over is left alone, by the stream it  *)
(* was bound to and by whoever still holds its descriptor; and the wait    *)
(* that a rate-limited client is told is the wait it has.                  *)
(***************************************************************************)
EXTENDS Gateway, FiniteSetTheorems, FunctionTheorems, NaturalsInduction,
        WellFoundedInduction, SequenceTheorems, TLAPS

(* Where a connection's socket is open, is in connFds_, and is bound.       *)
Holding    == {"accepted", "opening", "displacing", "live", "leaving", "left", "returned",
               "closing"}
Registered == {"opening", "displacing", "live", "leaving", "left", "returned"}
Bound      == {"displacing", "live", "leaving"}
States     == {"none", "backlog", "closed"} \cup Holding

ConnFields == {"st", "gw", "fd", "s", "wire", "part", "quiet", "victim", "shut", "hung", "mute"}

Identity0(g) == Head(Gateways[g].accounts)

(* No gateway speaks first for an account another one borrows.              *)
NoIdentityIsBorrowed ==
  \A g, h \in DOMAIN Gateways :
    Identity0(g) # Identity0(h) => Identity0(g) \notin Range(Tail(Gateways[h].accounts))

ShapeOf(c) ==
  /\ DOMAIN c = Conns
  /\ \A k \in Conns :
       /\ DOMAIN c[k] = ConnFields
       /\ c[k].st \in States /\ c[k].fd \in Fds \cup {0}
       /\ c[k].gw \in DOMAIN Gateways \cup {"none"}
       /\ c[k].st # "none" => c[k].gw \in DOMAIN Gateways

AcceptorState ==
  [run : BOOLEAN, listen : BOOLEAN, thr : {"accept", "got", "ended"},
   stop : {"no", "flagged", "unlistened", "swept", "returned"}, fds : SUBSET Fds,
   got : Conns \cup {0}]

WriterState ==
  [q : Nat, dead : BOOLEAN, stopping : BOOLEAN, busy : BOOLEAN, over : BOOLEAN]

Shape ==
  /\ ShapeOf(cn)
  /\ file \in [Fds -> Conns \cup {0}]
  /\ acc \in [DOMAIN Gateways -> AcceptorState]
  /\ wr \in [Conns -> WriterState]
  /\ reg \in [writer : [Accounts -> Conns \cup {0}], obs : [Accounts -> Conns \cup {0}],
              alias : [Accounts -> Accounts]]
  /\ DOMAIN hist = {"placed", "named", "strays"}

(* A descriptor is open as long as its connection's thread has not closed   *)
(* it, and the table has it for nobody else.                                *)
Sockets ==
  /\ \A k \in Conns : cn[k].st \in Holding => cn[k].fd \in Fds /\ file[cn[k].fd] = k
  /\ \A f \in Fds : file[f] # 0 => cn[file[f]].st \in Holding /\ cn[file[f]].fd = f

Taken ==
  \A g \in DOMAIN Gateways :
    acc[g].thr = "got" => /\ acc[g].got \in Conns
                          /\ cn[acc[g].got].st = "accepted" /\ cn[acc[g].got].gw = g

Listed ==
  \A g \in DOMAIN Gateways : \A f \in acc[g].fds :
    f \in Fds /\ file[f] # 0 /\ cn[file[f]].st \in Registered /\ cn[file[f]].gw = g

(* What is bound is bound to its own identity, which no alias diverts.      *)
Streams ==
  /\ \A a \in Accounts :
       /\ reg.obs[a] = reg.writer[a]
       /\ reg.writer[a] # 0 => /\ cn[reg.writer[a]].st \in Bound
                               /\ a = Identity0(cn[reg.writer[a]].gw)
  /\ \A g \in DOMAIN Gateways : reg.alias[Identity0(g)] = Identity0(g)

Victims ==
  \A k \in Conns : cn[k].st = "displacing" =>
                     cn[k].victim \in Conns /\ cn[cn[k].victim].fd \in Fds

Writers == \A k \in Conns : wr[k].busy => cn[k].st \in Attached /\ ~wr[k].over

Inv ==
  /\ Shape /\ Sockets /\ Taken /\ Listed /\ Streams /\ Victims /\ Writers
  /\ NoStrangerShut /\ NoIdentityIsBorrowed

-----------------------------------------------------------------------------
(* Sets of numbers *)

LEMMA MinOfNats ==
  ASSUME NEW S \in SUBSET Nat, S # {}
  PROVE  Min(S) \in S /\ \A y \in S : Min(S) =< y
<1>. DEFINE Below == {ss \in Nat \X Nat : ss[1] < ss[2]}
<1>1. IsWellFoundedOn(Below, Nat)
  BY NatLessThanWellFounded DEF OpToRel
<1>2. PICK x \in S : \A y \in S : <<y, x>> \notin Below
  BY <1>1, WFMin, Zenon
<1>3. ASSUME NEW y \in S PROVE x =< y
  <2>1. <<y, x>> \in Nat \X Nat /\ <<y, x>> \notin Below
    BY <1>2
  <2>2. <<y, x>>[1] = y /\ <<y, x>>[2] = x
    OBVIOUS
  <2>3. ~(y < x)
    BY <2>1, <2>2, Zenon
  <2>. QED
    BY <2>3
<1>. QED
  BY <1>3 DEF Min

(* A connection that waits to be accepted finds a number: each that is      *)
(* taken belongs to another connection.                                     *)
LEMMA ANumberIsFree ==
  ASSUME Shape, Sockets, NEW k \in Conns, cn[k].st \notin Holding
  PROVE  FreeFds # {}
<1>. SUFFICES ASSUME \A f \in Fds : file[f] # 0
             PROVE  FALSE
  BY DEF FreeFds
<1>1. NumConns \in Nat
  BY GatewayConstants
<1>2. IsFiniteSet(Conns) /\ Fds = Conns
  BY <1>1, FS_Interval DEF Conns, Fds
<1>3. file \in [Conns -> Conns]
  BY <1>2 DEF Shape
<1>4. \A f, g \in Conns : file[f] = file[g] => f = g
  BY <1>2 DEF Sockets
<1>5. file \in Injection(Conns, Conns)
  BY <1>3, <1>4, Fun_IsInj
<1>6. file \in Surjection(Conns, Conns)
  BY <1>2, <1>5, FS_Injection
<1>7. PICK f \in Conns : file[f] = k
  BY <1>6, Fun_SurjectionProperties
<1>. QED
  BY <1>2, <1>7 DEF Sockets

-----------------------------------------------------------------------------
(* What a step does to the connections, as far as the invariant looks:      *)
(* sessions, buffers and shut sockets are all the same to it.               *)

Alike(c, d) ==
  \A j \in Conns : /\ d[j].st = c[j].st /\ d[j].gw = c[j].gw /\ d[j].fd = c[j].fd
                   /\ d[j].victim = c[j].victim

LEMMA ShutdownAlike ==
  ASSUME Shape, NEW c, ShapeOf(c), NEW f \in Fds
  PROVE  ShapeOf(Shutdown(c, f)) /\ Alike(c, Shutdown(c, f))
<1>1. file[f] \in Conns \cup {0}
  BY DEF Shape
<1>. QED
  BY <1>1 DEF Shutdown, ShapeOf, Alike, ConnFields

(* A writer is busy only where its connection is attached. *)
WritersAlike ==
  /\ wr' \in [Conns -> WriterState]
  /\ \A j \in Conns :
       wr'[j].busy => \/ wr[j].busy /\ wr'[j].over = wr[j].over
                      \/ cn[j].st \in Attached /\ ~wr'[j].over

(* Whoever is shut by mistake is shut by the kill of a displaced writer. *)
NoNewStray ==
  /\ DOMAIN hist' = {"placed", "named", "strays"}
  /\ \A s \in hist'.strays \ hist.strays : s.by = "kill"

LEMMA EnqueueAlike ==
  ASSUME Shape, NEW k \in Conns \cup {0}, wr' = Enqueue(wr, k)
  PROVE  WritersAlike
<1>1. wr \in [Conns -> WriterState]
  BY DEF Shape
<1>2. CASE k = 0 \/ wr[k].dead \/ wr[k].stopping
  BY <1>1, <1>2 DEF Enqueue, WritersAlike, WriterState
<1>3. CASE k # 0 /\ ~wr[k].dead /\ ~wr[k].stopping /\ wr[k].q >= WriterCap
  BY <1>1, <1>3 DEF Enqueue, WritersAlike, WriterState
<1>4. CASE k # 0 /\ ~wr[k].dead /\ ~wr[k].stopping /\ ~(wr[k].q >= WriterCap)
  BY <1>1, <1>4 DEF Enqueue, WritersAlike, WriterState
<1>. QED
  BY <1>2, <1>3, <1>4

(* What is bound has its descriptor, so no delivery shuts a stranger.       *)
LEMMA BoundHolds ==
  ASSUME Inv, NEW a \in Accounts, reg.writer[a] # 0
  PROVE  /\ reg.writer[a] \in Conns /\ cn[reg.writer[a]].fd \in Fds
         /\ Stray("overflow", reg.writer[a]) = {}
<1>1. reg.writer[a] \in Conns /\ cn[reg.writer[a]].st \in Bound
  BY DEF Inv, Shape, Streams
<1>2. cn[reg.writer[a]].fd \in Fds /\ file[cn[reg.writer[a]].fd] = reg.writer[a]
  BY <1>1 DEF Inv, Sockets, Bound, Holding
<1>. QED
  BY <1>1, <1>2 DEF Stray

LEMMA DeliveryAlike ==
  ASSUME Inv, NEW c, ShapeOf(c), NEW e, DeliverTo(c, e)
  PROVE  ShapeOf(cn') /\ Alike(c, cn') /\ WritersAlike /\ NoNewStray
<1>. DEFINE b  == IF e.acct \in Accounts THEN reg.obs[StreamOf(e.acct)] ELSE 0
            k  == IF e.acct \in Accounts THEN reg.writer[StreamOf(e.acct)] ELSE 0
            c1 == IF b = 0 THEN c ELSE [c EXCEPT ![b].s = Observe(@, e)]
<1>1. /\ wr' = Enqueue(wr, k)
      /\ cn' = IF Overflows(k) THEN Shutdown(c1, cn[k].fd) ELSE c1
      /\ hist' = [hist EXCEPT !.strays = @ \cup (IF Overflows(k) THEN Stray("overflow", k) ELSE {}),
                              !.named = IF e.op = "rejected" THEN @ \cup {e.o} ELSE @]
  BY DEF DeliverTo
<1>2. e.acct \in Accounts => StreamOf(e.acct) \in Accounts
  BY DEF Inv, Shape, StreamOf
<1>3. b \in Conns \cup {0} /\ k \in Conns \cup {0}
  BY <1>2 DEF Inv, Shape
<1>4. k # 0 => cn[k].fd \in Fds /\ Stray("overflow", k) = {}
  BY <1>2, BoundHolds
<1>5. ShapeOf(c1) /\ Alike(c, c1)
  BY <1>3 DEF ShapeOf, Alike, ConnFields
<1>. HIDE DEF b, k, c1
<1>6. WritersAlike
  BY <1>1, <1>3, EnqueueAlike DEF Inv
<1>7. Overflows(k) => k # 0
  BY DEF Overflows
<1>8. NoNewStray
  <2>1. DOMAIN hist = {"placed", "named", "strays"}
    BY DEF Inv, Shape
  <2>2. (IF Overflows(k) THEN Stray("overflow", k) ELSE {}) = {}
    BY <1>4, <1>7
  <2>. QED
    BY <1>1, <2>1, <2>2 DEF NoNewStray
<1>9. ShapeOf(cn') /\ Alike(c1, cn')
  <2>1. CASE Overflows(k)
    BY <1>1, <1>4, <1>5, <1>7, <2>1, ShutdownAlike DEF Inv
  <2>2. CASE ~Overflows(k)
    BY <1>1, <1>5, <2>2 DEF Alike
  <2>. QED
    BY <2>1, <2>2
<1>. QED
  BY <1>5, <1>6, <1>8, <1>9 DEF Alike

-----------------------------------------------------------------------------
(* Steps that leave the descriptors and the registry alone *)

SameGround == file' = file /\ acc' = acc /\ reg' = reg

(* Nothing moved. *)
LEMMA NobodyMoves ==
  ASSUME Inv, ShapeOf(cn'), Alike(cn, cn'), SameGround, WritersAlike, NoNewStray
  PROVE  Inv'
<1>1. Shape'
  BY DEF Inv, Shape, SameGround, WritersAlike, NoNewStray
<1>2. Sockets'
  BY DEF Inv, Shape, Sockets, SameGround, Alike
<1>3. Taken'
  BY DEF Inv, Taken, SameGround, Alike
<1>4. Listed'
  BY DEF Inv, Shape, Listed, SameGround, Alike
<1>5. Streams'
  BY DEF Inv, Shape, Streams, SameGround, Alike
<1>6. Victims'
  BY DEF Inv, Victims, Alike
<1>7. Writers'
  BY DEF Inv, Writers, Attached, Alike, WritersAlike
<1>8. NoStrangerShut' /\ NoIdentityIsBorrowed'
  BY DEF Inv, NoStrangerShut, NoNewStray, NoIdentityIsBorrowed, Identity0
<1>. QED
  BY <1>1, <1>2, <1>3, <1>4, <1>5, <1>6, <1>7, <1>8 DEF Inv

(* Connection k moves on, to state st. *)
Moves(k, st) ==
  /\ ShapeOf(cn')
  /\ \A j \in Conns : cn'[j].gw = cn[j].gw /\ cn'[j].fd = cn[j].fd
  /\ \A j \in Conns \ {k} : cn'[j].st = cn[j].st /\ cn'[j].victim = cn[j].victim
  /\ cn'[k].st = st

(* It stays bound. *)
LEMMA BoundMoves ==
  ASSUME Inv, NEW k \in Conns, NEW st \in {"live", "leaving"}, cn[k].st \in Bound,
         Moves(k, st), SameGround, WritersAlike, NoNewStray
  PROVE  Inv'
<1>1. Shape'
  BY DEF Inv, Shape, SameGround, WritersAlike, NoNewStray, Moves
<1>2. Sockets'
  BY DEF Inv, Shape, Sockets, SameGround, Moves, Bound, Holding
<1>3. Taken'
  BY DEF Inv, Taken, SameGround, Moves, Bound
<1>4. Listed'
  BY DEF Inv, Shape, Listed, SameGround, Moves, Bound, Registered
<1>5. Streams'
  BY DEF Inv, Shape, Streams, SameGround, Moves, Bound
<1>6. Victims'
  BY DEF Inv, Victims, Moves
<1>7. Writers'
  BY DEF Inv, Writers, Attached, Moves, WritersAlike
<1>8. NoStrangerShut' /\ NoIdentityIsBorrowed'
  BY DEF Inv, NoStrangerShut, NoNewStray, NoIdentityIsBorrowed, Identity0
<1>. QED
  BY <1>1, <1>2, <1>3, <1>4, <1>5, <1>6, <1>7, <1>8 DEF Inv

LEMMA Unwritten ==
  ASSUME Inv, UNCHANGED wr
  PROVE  WritersAlike
BY DEF Inv, Shape, WritersAlike

LEMMA Unlogged ==
  ASSUME Inv, UNCHANGED hist
  PROVE  NoNewStray
BY DEF Inv, Shape, NoNewStray

(* Deliveries made by the engine. *)
LEMMA EngineDelivers ==
  ASSUME Inv, NEW e, DeliverTo(cn, e), SameGround
  PROVE  Inv'
<1>1. ShapeOf(cn)
  BY DEF Inv, Shape
<1>. QED
  BY <1>1, DeliveryAlike, NobodyMoves

LEMMA EngineKeeps ==
  ASSUME Inv, EngineStep \/ EngineFill
  PROVE  Inv'
<1>1. SameGround
  BY DEF EngineStep, EngineFill, SameGround
<1>2. \/ \E e : DeliverTo(cn, e)
      \/ UNCHANGED <<cn, wr, hist>>
  <2>1. CASE EngineStep
    BY <2>1, Zenon DEF EngineStep
  <2>2. CASE EngineFill
    BY <2>2, Zenon DEF EngineFill
  <2>. QED
    BY <2>1, <2>2
<1>3. ASSUME UNCHANGED <<cn, wr, hist>>
      PROVE  Inv'
  <2>1. ShapeOf(cn') /\ Alike(cn, cn')
    BY <1>3 DEF Inv, Shape, Alike, ShapeOf
  <2>. QED
    BY <1>1, <1>3, <2>1, NobodyMoves, Unwritten, Unlogged
<1>. QED
  BY <1>1, <1>2, <1>3, EngineDelivers

-----------------------------------------------------------------------------
(* The read loop *)

LEMMA AfterIsBound ==
  ASSUME NEW k \in Conns
  PROVE  After(k) \in {"live", "leaving"}
BY DEF After

(* A connection that reads, as a session, a buffer and a clock, moves on.   *)
LEMMA ReaderMoves ==
  ASSUME Inv, NEW k \in Conns, NEW st \in {"live", "leaving"}, cn[k].st \in Bound,
         NEW c, ShapeOf(c), \A j \in Conns : c[j].gw = cn[j].gw /\ c[j].fd = cn[j].fd,
         \A j \in Conns \ {k} : c[j] = cn[j], c[k].st = st,
         ShapeOf(cn'), Alike(c, cn'), SameGround, WritersAlike, NoNewStray
  PROVE  Inv'
<1>1. Moves(k, st)
  BY DEF Moves, Alike
<1>. QED
  BY <1>1, BoundMoves

LEMMA ReadCommandKeeps ==
  ASSUME Inv, NEW k \in Conns, ReadCommand(k)
  PROVE  Inv'
<1>1. PICK now \in clock..MaxClock :
        /\ Reads(k) /\ OnMessage(k, Handle(cn[k].s, Head(cn[k].wire), now))
        /\ UNCHANGED <<acc, file, reg, mode>>
  BY DEF ReadCommand
<1>. DEFINE r == Handle(cn[k].s, Head(cn[k].wire), now)
<1>. HIDE DEF r
<1>2. cn[k].st \in Bound /\ SameGround
  BY <1>1 DEF Reads, Bound, SameGround
<1>3. ShapeOf(cn) /\ After(k) \in {"live", "leaving"}
  BY AfterIsBound DEF Inv, Shape
<1>4. CASE SubmitCmd(k, r)
  <2>1. Moves(k, After(k))
    BY <1>3, <1>4 DEF SubmitCmd, Moves, ShapeOf, ConnFields, States, Holding
  <2>2. WritersAlike
    BY <1>4, Unwritten DEF SubmitCmd
  <2>3. NoNewStray
    <3>1. DOMAIN hist = {"placed", "named", "strays"}
      BY DEF Inv, Shape
    <3>. QED
      BY <1>4, <3>1 DEF SubmitCmd, NoNewStray
  <2>. QED
    BY <1>2, <1>3, <2>1, <2>2, <2>3, BoundMoves, SMTT(40)
<1>5. CASE AnswerRefusal(k, r)
  <2>. DEFINE c == [cn EXCEPT ![k].s = r.s, ![k].st = After(k), ![k].wire = Tail(@),
                             ![k].part = FALSE, ![k].quiet = 0]
  <2>1. DeliverTo(c, r.rej[1])
    BY <1>5 DEF AnswerRefusal
  <2>2. ShapeOf(c) /\ (\A j \in Conns : c[j].gw = cn[j].gw /\ c[j].fd = cn[j].fd)
    BY <1>2, <1>3 DEF ShapeOf, ConnFields, States, Holding, Bound
  <2>3. (\A j \in Conns \ {k} : c[j] = cn[j]) /\ c[k].st = After(k)
    BY <1>3 DEF ShapeOf, ConnFields
  <2>. HIDE DEF c
  <2>4. ShapeOf(cn') /\ Alike(c, cn') /\ WritersAlike /\ NoNewStray
    BY <2>1, <2>2, DeliveryAlike
  <2>. QED
    BY <1>2, <1>3, <2>2, <2>3, <2>4, ReaderMoves
<1>. QED
  BY <1>1, <1>4, <1>5 DEF OnMessage, r

LEMMA ReadAloneKeeps ==
  ASSUME Inv, NEW k \in Conns, ReadPart(k) \/ ReadConfig(k) \/ ReadEnds(k)
  PROVE  Inv'
<1>1. cn[k].st = "live" /\ SameGround /\ UNCHANGED <<wr, hist>>
  BY DEF ReadPart, ReadConfig, ReadEnds, Reads, SameGround
<1>2. ShapeOf(cn) /\ After(k) \in {"live", "leaving"}
  BY AfterIsBound DEF Inv, Shape
<1>3. \E st \in {"live", "leaving"} : Moves(k, st)
  <2>1. CASE ReadPart(k)
    BY <1>1, <1>2, <2>1, SMTT(40) DEF ReadPart, Moves, ShapeOf, ConnFields, States, Holding
  <2>2. CASE ReadConfig(k)
    <3>1. PICK cod : cn' = [cn EXCEPT ![k].s.cod = cod, ![k].st = After(k),
                                      ![k].wire = Tail(@), ![k].part = FALSE, ![k].quiet = 0]
      BY <2>2, Zenon DEF ReadConfig
    <3>. QED
      BY <1>1, <1>2, <3>1 DEF Moves, ShapeOf, ConnFields, States, Holding
  <2>3. CASE ReadEnds(k)
    BY <1>1, <1>2, <2>3 DEF ReadEnds, Moves, ShapeOf, ConnFields, States, Holding
  <2>. QED
    BY <2>1, <2>2, <2>3, SMTT(40)
<1>. QED
  BY <1>1, <1>3, BoundMoves, Unwritten, Unlogged DEF Bound

LEMMA LiveHolds ==
  ASSUME Inv, NEW k \in Conns, cn[k].st \in Holding
  PROVE  cn[k].fd \in Fds /\ cn[k].gw \in DOMAIN Gateways /\ k # 0
<1>1. 0 \notin Conns
  BY GatewayConstants DEF Conns
<1>. QED
  BY <1>1 DEF Inv, Shape, ShapeOf, Sockets, Holding

(* A ping that is answered, or sent, may overflow the connection's own      *)
(* writer; its descriptor is open.                                          *)
LEMMA ReadControlKeeps ==
  ASSUME Inv, NEW k \in Conns, ReadControl(k)
  PROVE  Inv'
<1>. DEFINE st == IF Head(cn[k].wire).op = "close" THEN "leaving" ELSE After(k)
            c == [cn EXCEPT ![k].wire = Tail(@), ![k].quiet = 0, ![k].st = st]
<1>1. /\ cn[k].st = "live" /\ SameGround /\ UNCHANGED hist
      /\ cn' = IF Head(cn[k].wire).op = "ping" /\ Overflows(k) THEN Shutdown(c, cn[k].fd) ELSE c
      /\ wr' = IF Head(cn[k].wire).op = "ping" THEN Enqueue(wr, k) ELSE wr
  BY DEF ReadControl, Reads, SameGround
<1>2. ShapeOf(cn) /\ st \in {"live", "leaving"} /\ cn[k].fd \in Fds
  BY <1>1, AfterIsBound, LiveHolds DEF Inv, Shape, Holding
<1>3. ShapeOf(c) /\ (\A j \in Conns : c[j].gw = cn[j].gw /\ c[j].fd = cn[j].fd)
  BY <1>1, <1>2 DEF ShapeOf, ConnFields, States, Holding
<1>4. (\A j \in Conns \ {k} : c[j] = cn[j]) /\ c[k].st = st
  BY <1>2 DEF ShapeOf, ConnFields
<1>5. WritersAlike
  BY <1>1, EnqueueAlike, Unwritten DEF Inv
<1>. HIDE DEF c, st
<1>6. ShapeOf(cn') /\ Alike(c, cn')
  BY <1>1, <1>2, <1>3, ShutdownAlike DEF Inv, Alike
<1>. QED
  BY <1>1, <1>2, <1>3, <1>4, <1>5, <1>6, ReaderMoves, Unlogged DEF Bound

LEMMA ReadTimesOutKeeps ==
  ASSUME Inv, NEW k \in Conns, ReadTimesOut(k)
  PROVE  Inv'
<1>1. cn[k].st = "live" /\ SameGround /\ UNCHANGED hist /\ ShapeOf(cn) /\ cn[k].fd \in Fds
  BY LiveHolds DEF ReadTimesOut, Silent, Reads, SameGround, Inv, Shape, Holding
<1>2. CASE cn[k].quiet + 1 >= Limit(k)
  <2>1. Moves(k, "leaving")
    BY <1>1, <1>2 DEF ReadTimesOut, Moves, ShapeOf, ConnFields, States, Holding
  <2>. QED
    BY <1>1, <1>2, <2>1, BoundMoves, Unwritten, Unlogged DEF ReadTimesOut, Bound
<1>3. CASE ~(cn[k].quiet + 1 >= Limit(k))
  <2>. DEFINE c == [cn EXCEPT ![k].quiet = @ + 1,
                             ![k].wire = IF Kind(cn[k].gw) = "ws" /\ ~cn[k].mute
                                           THEN <<[op |-> "pong", o |-> 0, acct |-> 0]>>
                                           ELSE <<>>]
  <2>1. /\ cn' = IF Kind(cn[k].gw) = "ws" /\ Overflows(k) THEN Shutdown(c, cn[k].fd) ELSE c
        /\ wr' = IF Kind(cn[k].gw) = "ws" THEN Enqueue(wr, k) ELSE wr
    BY <1>3 DEF ReadTimesOut
  <2>2. ShapeOf(c) /\ Alike(cn, c)
    BY <1>1 DEF ShapeOf, ConnFields, Alike
  <2>. HIDE DEF c
  <2>3. WritersAlike
    BY <2>1, EnqueueAlike, Unwritten DEF Inv
  <2>4. ShapeOf(cn') /\ Alike(cn, cn')
    BY <1>1, <2>1, <2>2, ShutdownAlike DEF Inv, Alike
  <2>. QED
    BY <1>1, <2>3, <2>4, NobodyMoves, Unlogged
<1>. QED
  BY <1>2, <1>3

-----------------------------------------------------------------------------
(* Clients, the accept thread and stop() *)

LEMMA ClientConnectKeeps ==
  ASSUME Inv, NEW k \in Conns, ClientConnect(k)
  PROVE  Inv'
<1>1. ShapeOf(cn) /\ SameGround /\ UNCHANGED <<wr, hist>> /\ NoNewStray
  BY Unlogged DEF Inv, Shape, ClientConnect, SameGround
<1>2. cn[k].st = "none" /\ cn[k].gw \in DOMAIN Gateways /\ Moves(k, "backlog")
  BY <1>1 DEF ClientConnect, ShapeOf, Moves, ConnFields, States
<1>10. Shape'
  BY <1>1, <1>2 DEF Inv, Shape, SameGround, Moves
<1>11. Sockets'
  BY <1>1, <1>2 DEF Inv, Sockets, Shape, Holding, SameGround, Moves
<1>12. Taken'
  BY <1>1, <1>2 DEF Inv, Taken, Shape, SameGround, Moves
<1>13. Listed'
  BY <1>1, <1>2 DEF Inv, Listed, Shape, Registered, SameGround, Moves
<1>14. Streams'
  BY <1>1, <1>2 DEF Inv, Streams, Shape, Bound, Identity0, SameGround, Moves
<1>15. Victims'
  BY <1>1, <1>2 DEF Inv, Victims, Shape, SameGround, Moves
<1>16. Writers'
  BY <1>1, <1>2 DEF Inv, Writers, Shape, Attached, SameGround, Moves
<1>17. NoStrangerShut' /\ NoIdentityIsBorrowed'
  BY <1>1, <1>2 DEF Inv, NoStrangerShut, NoNewStray, NoIdentityIsBorrowed, Identity0
<1>. QED
  BY <1>10, <1>11, <1>12, <1>13, <1>14, <1>15, <1>16, <1>17 DEF Inv

LEMMA ClientHangsUpKeeps ==
  ASSUME Inv, NEW k \in Conns, ClientHangsUp(k)
  PROVE  Inv'
<1>1. ShapeOf(cn) /\ SameGround /\ UNCHANGED <<wr, hist>>
  BY DEF Inv, Shape, ClientHangsUp, SameGround
<1>2. ShapeOf(cn') /\ Alike(cn, cn')
  BY <1>1 DEF ClientHangsUp, ShapeOf, ConnFields, Alike
<1>. QED
  BY <1>1, <1>2, NobodyMoves, Unwritten, Unlogged

(* The socket gets a free number. *)
LEMMA AcceptTakeKeeps ==
  ASSUME Inv, NEW g \in DOMAIN Gateways, AcceptTake(g)
  PROVE  Inv'
<1>. DEFINE k == Min(Backlog(g))
            f == Min(FreeFds)
<1>1. k \in Conns /\ cn[k].st = "backlog" /\ cn[k].gw = g
  <2>1. Backlog(g) \in SUBSET Nat /\ Backlog(g) # {}
    BY GatewayConstants DEF AcceptTake, Backlog, Conns
  <2>2. k \in Backlog(g)
    BY <2>1, MinOfNats
  <2>. QED
    BY <2>2 DEF Backlog
<1>2. f \in Fds /\ file[f] = 0
  <2>1. FreeFds \in SUBSET Nat /\ FreeFds # {}
    BY <1>1, ANumberIsFree, GatewayConstants DEF FreeFds, Fds, Conns, Inv, Holding
  <2>2. f \in FreeFds
    BY <2>1, MinOfNats
  <2>. QED
    BY <2>2 DEF FreeFds
<1>3. /\ acc[g].thr = "accept" /\ acc' = [acc EXCEPT ![g].thr = "got", ![g].got = k]
      /\ file' = [file EXCEPT ![f] = k]
      /\ cn' = [cn EXCEPT ![k].st = "accepted", ![k].fd = f]
      /\ UNCHANGED <<wr, reg, hist>>
  BY DEF AcceptTake
<1>. HIDE DEF k, f
<1>4. ShapeOf(cn) /\ NoNewStray /\ k # 0 /\ acc \in [DOMAIN Gateways -> AcceptorState]
      /\ file \in [Fds -> Conns \cup {0}]
  BY <1>1, <1>3, Unlogged, GatewayConstants DEF Inv, Shape, Conns
<1>5. ShapeOf(cn') /\ cn'[k].fd = f /\ cn'[k].st = "accepted" /\ cn'[k].gw = g
  BY <1>1, <1>2, <1>3, <1>4 DEF ShapeOf, ConnFields, States, Holding
<1>6. \A j \in Conns : cn'[j].gw = cn[j].gw /\ (j # k => cn'[j] = cn[j])
  BY <1>1, <1>3, <1>4 DEF ShapeOf, ConnFields
<1>7. /\ acc' \in [DOMAIN Gateways -> AcceptorState]
      /\ acc'[g].thr = "got" /\ acc'[g].got = k /\ acc'[g].fds = acc[g].fds
      /\ \A h \in DOMAIN Gateways : h # g => acc'[h] = acc[h]
  <2>1. acc[g] \in AcceptorState /\ DOMAIN acc' = DOMAIN Gateways /\ DOMAIN acc = DOMAIN Gateways
    BY <1>3, <1>4
  <2>2. acc'[g] = [acc[g] EXCEPT !.thr = "got", !.got = k]
    BY <1>3, <2>1
  <2>3. \A h \in DOMAIN Gateways : h # g => acc'[h] = acc[h]
    BY <1>3, <2>1
  <2>4. acc'[g] \in AcceptorState /\ acc'[g].thr = "got" /\ acc'[g].got = k /\ acc'[g].fds = acc[g].fds
    BY <1>1, <2>1, <2>2 DEF AcceptorState
  <2>. QED
    BY <1>3, <1>4, <2>1, <2>3, <2>4
<1>8. /\ file' \in [Fds -> Conns \cup {0}] /\ file'[f] = k
      /\ \A i \in Fds : i # f => file'[i] = file[i]
  BY <1>1, <1>2, <1>3, <1>4
<1>9. UNCHANGED <<wr, reg, hist>>
  BY <1>3
<1>10. Shape'
  BY <1>1, <1>2, <1>4, <1>5, <1>6, <1>7, <1>8, <1>9 DEF Inv, Shape
<1>11. Sockets'
  <2>1. ASSUME NEW j \in Conns, cn'[j].st \in Holding
        PROVE  cn'[j].fd \in Fds /\ file'[cn'[j].fd] = j
    <3>1. CASE j = k
      BY <1>2, <1>5, <1>8, <3>1
    <3>2. CASE j # k
      <4>1. cn'[j] = cn[j] /\ cn[j].fd \in Fds /\ file[cn[j].fd] = j /\ j # 0
        BY <1>6, <2>1, <3>2, LiveHolds DEF Inv, Sockets
      <4>. QED
        BY <1>2, <1>8, <4>1
    <3>. QED
      BY <3>1, <3>2
  <2>2. ASSUME NEW i \in Fds, file'[i] # 0
        PROVE  cn'[file'[i]].st \in Holding /\ cn'[file'[i]].fd = i
    <3>1. CASE i = f
      BY <1>5, <1>8, <3>1 DEF Holding
    <3>2. CASE i # f
      <4>1. file'[i] = file[i] /\ file[i] \in Conns
        BY <1>4, <1>8, <2>2, <3>2
      <4>2. cn[file[i]].st \in Holding /\ cn[file[i]].fd = i
        BY <2>2, <4>1 DEF Inv, Sockets
      <4>. QED
        BY <1>1, <1>6, <4>1, <4>2 DEF Holding
    <3>. QED
      BY <3>1, <3>2
  <2>. QED
    BY <2>1, <2>2 DEF Sockets
<1>12. Taken'
  BY <1>1, <1>2, <1>4, <1>5, <1>6, <1>7, <1>8, <1>9 DEF Inv, Taken, Shape
<1>13. Listed'
  <2>1. ASSUME NEW h \in DOMAIN Gateways, NEW i \in acc'[h].fds
        PROVE  i \in Fds /\ file'[i] # 0 /\ cn'[file'[i]].st \in Registered /\ cn'[file'[i]].gw = h
    <3>1. i \in acc[h].fds
      BY <1>7
    <3>2. i \in Fds /\ file[i] # 0 /\ cn[file[i]].st \in Registered /\ cn[file[i]].gw = h
      BY <3>1 DEF Inv, Listed
    <3>3. file'[i] = file[i] /\ file[i] \in Conns /\ file[i] # k
      BY <1>1, <1>2, <1>4, <1>8, <3>2 DEF Registered
    <3>. QED
      BY <1>6, <3>2, <3>3
  <2>. QED
    BY <2>1 DEF Listed
<1>14. Streams'
  BY <1>1, <1>2, <1>4, <1>5, <1>6, <1>7, <1>8, <1>9, SMTT(40) DEF Inv, Streams, Shape, Bound, Identity0
<1>15. Victims'
  BY <1>1, <1>2, <1>4, <1>5, <1>6, <1>7, <1>8, <1>9 DEF Inv, Victims, Shape
<1>16. Writers'
  BY <1>1, <1>2, <1>4, <1>5, <1>6, <1>7, <1>8, <1>9 DEF Inv, Writers, Shape, Attached
<1>17. NoStrangerShut' /\ NoIdentityIsBorrowed'
  BY <1>1, <1>2, <1>4, <1>5, <1>6, <1>7, <1>8, <1>9 DEF Inv, NoStrangerShut, NoNewStray, NoIdentityIsBorrowed, Identity0
<1>. QED
  BY <1>10, <1>11, <1>12, <1>13, <1>14, <1>15, <1>16, <1>17 DEF Inv

LEMMA AcceptSpawnKeeps ==
  ASSUME Inv, NEW g \in DOMAIN Gateways, AcceptSpawn(g)
  PROVE  Inv'
<1>. DEFINE k == acc[g].got
<1>1. k \in Conns /\ cn[k].st = "accepted" /\ cn[k].gw = g
  BY DEF AcceptSpawn, Inv, Taken
<1>2. /\ acc' = [acc EXCEPT ![g].fds = @ \cup {cn[k].fd}, ![g].got = 0,
                            ![g].thr = IF acc[g].run THEN "accept" ELSE "ended"]
      /\ cn' = [cn EXCEPT ![k].st = "opening"]
      /\ UNCHANGED <<file, wr, reg, hist>>
  BY DEF AcceptSpawn
<1>3. ShapeOf(cn) /\ NoNewStray /\ cn[k].fd \in Fds /\ file[cn[k].fd] = k /\ k # 0
  BY <1>1, <1>2, Unlogged, LiveHolds DEF Inv, Shape, Sockets, Holding
<1>. HIDE DEF k
<1>4. Moves(k, "opening")
  BY <1>1, <1>2, <1>3 DEF Moves, ShapeOf, ConnFields, States, Holding
<1>5. /\ acc' \in [DOMAIN Gateways -> AcceptorState]
      /\ acc'[g].thr # "got" /\ acc'[g].fds = acc[g].fds \cup {cn[k].fd}
      /\ \A h \in DOMAIN Gateways : h # g => acc'[h] = acc[h]
  <2>1. acc \in [DOMAIN Gateways -> AcceptorState]
    BY DEF Inv, Shape
  <2>. QED
    <3>1. acc[g] \in AcceptorState /\ DOMAIN acc' = DOMAIN Gateways
      BY <1>2, <2>1
    <3>2. acc'[g] = [acc[g] EXCEPT !.fds = @ \cup {cn[k].fd}, !.got = 0,
                                   !.thr = IF acc[g].run THEN "accept" ELSE "ended"]
      BY <1>2, <2>1
    <3>3. \A h \in DOMAIN Gateways : h # g => acc'[h] = acc[h]
      BY <1>2, <2>1
    <3>4. /\ acc'[g] \in AcceptorState /\ acc'[g].thr # "got"
          /\ acc'[g].fds = acc[g].fds \cup {cn[k].fd}
      <4>1. acc[g].fds \cup {cn[k].fd} \in SUBSET Fds
        BY <1>3, <3>1 DEF AcceptorState
      <4>2. (IF acc[g].run THEN "accept" ELSE "ended") \in {"accept", "got", "ended"} \ {"got"}
        OBVIOUS
      <4>. QED
        BY <3>1, <3>2, <4>1, <4>2 DEF AcceptorState
    <3>. QED
      BY <1>2, <2>1, <3>1, <3>3, <3>4
<1>6. UNCHANGED <<file, wr, reg, hist>>
  BY <1>2
<1>10. Shape'
  BY <1>1, <1>3, <1>4, <1>5, <1>6 DEF Inv, Shape, Moves
<1>11. Sockets'
  BY <1>1, <1>3, <1>4, <1>5, <1>6 DEF Inv, Sockets, Shape, Holding, Moves
<1>12. Taken'
  BY <1>1, <1>3, <1>4, <1>5, <1>6 DEF Inv, Taken, Shape, Moves
<1>13. Listed'
  BY <1>1, <1>3, <1>4, <1>5, <1>6 DEF Inv, Listed, Shape, Registered, Moves
<1>14. Streams'
  BY <1>1, <1>3, <1>4, <1>5, <1>6 DEF Inv, Streams, Shape, Bound, Identity0, Moves
<1>15. Victims'
  BY <1>1, <1>3, <1>4, <1>5, <1>6 DEF Inv, Victims, Shape, Moves
<1>16. Writers'
  BY <1>1, <1>3, <1>4, <1>5, <1>6 DEF Inv, Writers, Shape, Attached, Moves
<1>17. NoStrangerShut' /\ NoIdentityIsBorrowed'
  BY <1>1, <1>3, <1>4, <1>5, <1>6 DEF Inv, NoStrangerShut, NoNewStray, NoIdentityIsBorrowed, Identity0
<1>. QED
  BY <1>10, <1>11, <1>12, <1>13, <1>14, <1>15, <1>16, <1>17 DEF Inv

(* The flags of stop() and of the accept thread. *)
LEMMA FlagsKeep ==
  ASSUME Inv, NEW g \in DOMAIN Gateways, AcceptFails(g) \/ StopFlag(g) \/ StopReturn(g)
  PROVE  Inv'
<1>1. UNCHANGED <<file, cn, wr, reg, hist>> /\ NoNewStray
  BY Unlogged DEF AcceptFails, StopFlag, StopReturn
<1>2. \A h \in DOMAIN Gateways : /\ acc'[h].fds = acc[h].fds /\ acc'[h].got = acc[h].got
                                 /\ acc'[h].thr = "got" => acc[h].thr = "got"
  BY DEF Inv, Shape, AcceptorState, AcceptFails, StopFlag, StopReturn
<1>3. acc' \in [DOMAIN Gateways -> AcceptorState]
  <2>1. acc \in [DOMAIN Gateways -> AcceptorState]
    BY DEF Inv, Shape
  <2>2. CASE AcceptFails(g)
    BY <2>1, <2>2 DEF AcceptFails, AcceptorState
  <2>3. CASE StopFlag(g)
    BY <2>1, <2>3 DEF StopFlag, AcceptorState
  <2>4. CASE StopReturn(g)
    BY <2>1, <2>4 DEF StopReturn, AcceptorState
  <2>. QED
    BY <2>2, <2>3, <2>4
<1>10. Shape'
  BY <1>1, <1>2, <1>3 DEF Inv, Shape
<1>11. Sockets'
  BY <1>1, <1>2, <1>3 DEF Inv, Sockets, Shape, Holding
<1>12. Taken'
  BY <1>1, <1>2, <1>3 DEF Inv, Taken, Shape
<1>13. Listed'
  BY <1>1, <1>2, <1>3 DEF Inv, Listed, Shape, Registered
<1>14. Streams'
  BY <1>1, <1>2, <1>3 DEF Inv, Streams, Shape, Bound, Identity0
<1>15. Victims'
  BY <1>1, <1>2, <1>3 DEF Inv, Victims, Shape
<1>16. Writers'
  BY <1>1, <1>2, <1>3 DEF Inv, Writers, Shape, Attached
<1>17. NoStrangerShut' /\ NoIdentityIsBorrowed'
  BY <1>1, <1>2, <1>3 DEF Inv, NoStrangerShut, NoNewStray, NoIdentityIsBorrowed, Identity0
<1>. QED
  BY <1>10, <1>11, <1>12, <1>13, <1>14, <1>15, <1>16, <1>17 DEF Inv

(* The connections nobody accepted have no descriptor yet. *)
LEMMA StopCloseKeeps ==
  ASSUME Inv, NEW g \in DOMAIN Gateways, StopClose(g)
  PROVE  Inv'
<1>1. /\ acc' = [acc EXCEPT ![g].listen = FALSE, ![g].stop = "unlistened"]
      /\ cn' = [k \in Conns |-> IF k \in Backlog(g) THEN [cn[k] EXCEPT !.st = "closed"] ELSE cn[k]]
      /\ UNCHANGED <<file, wr, reg, hist>> /\ NoNewStray
  BY Unlogged DEF StopClose
<1>2. ShapeOf(cn)
  BY DEF Inv, Shape
<1>3. \A k \in Conns : /\ cn'[k].gw = cn[k].gw /\ cn'[k].fd = cn[k].fd
                       /\ cn'[k].victim = cn[k].victim
                       /\ \/ cn'[k].st = cn[k].st
                          \/ cn[k].st = "backlog" /\ cn'[k].st = "closed"
  BY <1>1, <1>2 DEF ShapeOf, ConnFields, Backlog
<1>4. ShapeOf(cn')
  BY <1>1, <1>2, <1>3 DEF ShapeOf, ConnFields, States, Backlog
<1>5. /\ acc' \in [DOMAIN Gateways -> AcceptorState]
      /\ \A h \in DOMAIN Gateways : /\ acc'[h].thr = acc[h].thr /\ acc'[h].got = acc[h].got
                                    /\ acc'[h].fds = acc[h].fds
  <2>1. acc \in [DOMAIN Gateways -> AcceptorState]
    BY DEF Inv, Shape
  <2>. QED
    BY <1>1, <2>1, ZenonT(60) DEF AcceptorState
<1>6. UNCHANGED <<file, wr, reg, hist>> /\ NoNewStray
  BY <1>1
<1>10. Shape'
  BY <1>3, <1>4, <1>5, <1>6 DEF Inv, Shape
<1>11. Sockets'
  BY <1>3, <1>4, <1>5, <1>6 DEF Inv, Sockets, Shape, Holding
<1>12. Taken'
  BY <1>3, <1>4, <1>5, <1>6 DEF Inv, Taken, Shape
<1>13. Listed'
  BY <1>3, <1>4, <1>5, <1>6 DEF Inv, Listed, Shape, Registered
<1>14. Streams'
  BY <1>3, <1>4, <1>5, <1>6, SMTT(150) DEF Inv, Streams, Shape, Bound, Identity0
<1>15. Victims'
  BY <1>3, <1>4, <1>5, <1>6 DEF Inv, Victims, Shape
<1>16. Writers'
  BY <1>3, <1>4, <1>5, <1>6 DEF Inv, Writers, Shape, Attached
<1>17. NoStrangerShut' /\ NoIdentityIsBorrowed'
  BY <1>3, <1>4, <1>5, <1>6 DEF Inv, NoStrangerShut, NoNewStray, NoIdentityIsBorrowed, Identity0
<1>. QED
  BY <1>10, <1>11, <1>12, <1>13, <1>14, <1>15, <1>16, <1>17 DEF Inv

(* What the sweep shuts is its own gateway's. *)
LEMMA StopSweepKeeps ==
  ASSUME Inv, NEW g \in DOMAIN Gateways, StopSweep(g)
  PROVE  Inv'
<1>1. /\ acc' = [acc EXCEPT ![g].stop = "swept"]
      /\ cn' = [k \in Conns |-> IF \E f \in acc[g].fds : file[f] = k
                                  THEN [cn[k] EXCEPT !.shut = TRUE] ELSE cn[k]]
      /\ UNCHANGED <<file, wr, reg>>
  BY DEF StopSweep
<1>2. ShapeOf(cn)
  BY DEF Inv, Shape
<1>3. ShapeOf(cn') /\ Alike(cn, cn')
  BY <1>1, <1>2 DEF ShapeOf, ConnFields, Alike
<1>4. NoNewStray
  <2>. DEFINE Strange == {f \in acc[g].fds : file[f] = 0 \/ cn[file[f]].gw # g}
  <2>1. Strange = {}
    BY DEF Inv, Listed
  <2>2. {[by |-> "sweep", hit |-> file[f]] : f \in Strange} = {}
    BY <2>1
  <2>3. hist' = [hist EXCEPT !.strays = @ \cup {[by |-> "sweep", hit |-> file[f]] : f \in Strange}]
    BY DEF StopSweep
  <2>4. hist' = [hist EXCEPT !.strays = @ \cup {}]
    BY <2>2, <2>3, Zenon
  <2>. QED
    BY <2>4 DEF NoNewStray, Inv, Shape
<1>5. /\ acc' \in [DOMAIN Gateways -> AcceptorState]
      /\ \A h \in DOMAIN Gateways : /\ acc'[h].thr = acc[h].thr /\ acc'[h].got = acc[h].got
                                    /\ acc'[h].fds = acc[h].fds
  <2>1. acc \in [DOMAIN Gateways -> AcceptorState]
    BY DEF Inv, Shape
  <2>. QED
    BY <1>1, <2>1 DEF AcceptorState
<1>6. UNCHANGED <<file, wr, reg>>
  BY <1>1
<1>10. Shape'
  BY <1>3, <1>4, <1>5, <1>6 DEF Inv, Shape, Alike, NoNewStray
<1>11. Sockets'
  BY <1>3, <1>4, <1>5, <1>6 DEF Inv, Sockets, Shape, Holding, Alike, NoNewStray
<1>12. Taken'
  BY <1>3, <1>4, <1>5, <1>6 DEF Inv, Taken, Shape, Alike, NoNewStray
<1>13. Listed'
  BY <1>3, <1>4, <1>5, <1>6 DEF Inv, Listed, Shape, Registered, Alike, NoNewStray
<1>14. Streams'
  BY <1>3, <1>4, <1>5, <1>6 DEF Inv, Streams, Shape, Bound, Identity0, Alike, NoNewStray
<1>15. Victims'
  BY <1>3, <1>4, <1>5, <1>6 DEF Inv, Victims, Shape, Alike, NoNewStray
<1>16. Writers'
  BY <1>3, <1>4, <1>5, <1>6 DEF Inv, Writers, Shape, Attached, Alike, NoNewStray
<1>17. NoStrangerShut' /\ NoIdentityIsBorrowed'
  BY <1>3, <1>4, <1>5, <1>6 DEF Inv, NoStrangerShut, NoNewStray, NoIdentityIsBorrowed, Identity0
<1>. QED
  BY <1>10, <1>11, <1>12, <1>13, <1>14, <1>15, <1>16, <1>17 DEF Inv
-----------------------------------------------------------------------------
(* Attaching, displacing, detaching *)

LEMMA IdentityIsAnAccount ==
  ASSUME NEW g \in DOMAIN Gateways
  PROVE  Identity0(g) \in Accounts
BY GatewayConstants DEF Identity0

LEMMA AttachKeeps ==
  ASSUME Inv, NEW k \in Conns, Attach(k)
  PROVE  Inv'
<1>. DEFINE g == cn[k].gw
            id == Identity0(g)
<1>1. ShapeOf(cn) /\ cn[k].st = "opening" /\ g \in DOMAIN Gateways /\ k # 0
  BY LiveHolds DEF Inv, Shape, Attach, Holding
<1>2. id \in Accounts /\ StreamOf(Head(Own(k))) = id /\ Head(Own(k)) = id
  BY <1>1, IdentityIsAnAccount DEF StreamOf, Own, Identity0, Inv, Streams
<1>3. /\ UNCHANGED <<acc, file, wr, hist>> /\ NoNewStray /\ WritersAlike
      /\ reg' = [reg EXCEPT
                   !.alias = [a \in Accounts |-> IF a \in Range(Tail(Own(k))) /\ a # id
                                                   THEN id ELSE @[a]],
                   !.writer[id] = k, !.obs[id] = k]
  BY <1>2, Unlogged, Unwritten DEF Attach, AttachTo
<1>4. reg.writer[id] \in Conns \cup {0}
  BY <1>2 DEF Inv, Shape
<1>5. /\ Moves(k, IF reg.writer[id] = 0 THEN "live" ELSE "displacing")
      /\ cn'[k].victim = reg.writer[id]
  <2>. DEFINE st == IF reg.writer[id] = 0 THEN "live" ELSE "displacing"
              v == reg.writer[id]
  <2>1. PICK wire, s : cn' = [cn EXCEPT ![k].st = st, ![k].victim = v, ![k].wire = wire, ![k].s = s]
    BY <1>2, Zenon DEF Attach, AttachTo
  <2>2. st \in {"live", "displacing"}
    OBVIOUS
  <2>. HIDE DEF st, v
  <2>3. Moves(k, st) /\ cn'[k].victim = v
    BY <1>1, <2>1, <2>2 DEF Moves, ShapeOf, ConnFields, States, Holding
  <2>. QED
    BY <2>3 DEF st, v
<1>. HIDE DEF g, id
<1>6. /\ reg' \in [writer : [Accounts -> Conns \cup {0}], obs : [Accounts -> Conns \cup {0}],
                   alias : [Accounts -> Accounts]]
      /\ reg'.writer[id] = k /\ reg'.obs[id] = k
      /\ \A a \in Accounts : a # id => /\ reg'.writer[a] = reg.writer[a]
                                       /\ reg'.obs[a] = reg.obs[a]
      /\ \A a \in Accounts : reg'.alias[a] = IF a \in Range(Tail(Own(k))) /\ a # id
                                             THEN id ELSE reg.alias[a]
  <2>1. reg \in [writer : [Accounts -> Conns \cup {0}], obs : [Accounts -> Conns \cup {0}],
                 alias : [Accounts -> Accounts]]
    BY DEF Inv, Shape
  <2>. DEFINE al == [a \in Accounts |-> IF a \in Range(Tail(Own(k))) /\ a # id
                                          THEN id ELSE reg.alias[a]]
  <2>2. reg' = [reg EXCEPT !.alias = al, !.writer[id] = k, !.obs[id] = k]
    BY <1>3
  <2>3. al \in [Accounts -> Accounts]
    BY <1>2, <2>1
  <2>4. \A a \in Accounts : al[a] = IF a \in Range(Tail(Own(k))) /\ a # id
                                    THEN id ELSE reg.alias[a]
    OBVIOUS
  <2>. HIDE DEF al
  <2>. QED
    BY <1>2, <2>1, <2>2, <2>3, <2>4
<1>10. Shape'
  BY <1>3, <1>5, <1>6 DEF Inv, Shape, Moves, WritersAlike, NoNewStray
<1>11. Sockets'
  BY <1>1, <1>3, <1>5 DEF Inv, Shape, Sockets, Moves, Holding
<1>12. Taken'
  BY <1>1, <1>3, <1>5 DEF Inv, Taken, Moves
<1>13. Listed'
  BY <1>1, <1>3, <1>5 DEF Inv, Shape, Listed, Moves, Registered
<1>14. Streams'
  <2>1. ASSUME NEW a \in Accounts
        PROVE  /\ reg'.obs[a] = reg'.writer[a]
               /\ reg'.writer[a] # 0 => /\ cn'[reg'.writer[a]].st \in Bound
                                        /\ a = Identity0(cn'[reg'.writer[a]].gw)
    <3>1. CASE a = id
      BY <1>5, <1>6, <3>1 DEF Moves, Bound, id, g
    <3>2. CASE a # id
      <4>1. reg'.writer[a] = reg.writer[a] /\ reg'.obs[a] = reg.obs[a] /\ reg.writer[a] \in Conns \cup {0}
        BY <1>6, <3>2 DEF Inv, Shape
      <4>2. /\ reg.obs[a] = reg.writer[a]
            /\ reg.writer[a] # 0 => /\ cn[reg.writer[a]].st \in Bound
                                    /\ a = Identity0(cn[reg.writer[a]].gw)
        BY DEF Inv, Streams
      <4>. QED
        BY <1>5, <4>1, <4>2 DEF Moves, Bound
    <3>. QED
      BY <3>1, <3>2
  <2>2. ASSUME NEW h \in DOMAIN Gateways
        PROVE  reg'.alias[Identity0(h)] = Identity0(h)
    <3>1. Identity0(h) # id => Identity0(h) \notin Range(Tail(Own(k)))
      BY <1>1 DEF Inv, NoIdentityIsBorrowed, Own, id, g
    <3>2. Identity0(h) \in Accounts /\ reg.alias[Identity0(h)] = Identity0(h)
      BY IdentityIsAnAccount DEF Inv, Streams
    <3>. QED
      BY <1>6, <3>1, <3>2
  <2>. QED
    BY <2>1, <2>2 DEF Streams, Identity0
<1>15. Victims'
  <2>1. reg.writer[id] # 0 => reg.writer[id] \in Conns /\ cn[reg.writer[id]].fd \in Fds
    BY <1>2, BoundHolds
  <2>. QED
    BY <1>5, <2>1 DEF Inv, Victims, Moves
<1>16. Writers'
  BY <1>1, <1>3, <1>5 DEF Inv, Shape, Writers, Moves, Attached
<1>17. NoStrangerShut' /\ NoIdentityIsBorrowed'
  BY <1>3 DEF Inv, NoStrangerShut, NoIdentityIsBorrowed, Identity0
<1>. QED
  BY <1>10, <1>11, <1>12, <1>13, <1>14, <1>15, <1>16, <1>17 DEF Inv

(* The displaced writer's number may be another's by now: the one stray.    *)
LEMMA DisplaceKeeps ==
  ASSUME Inv, NEW k \in Conns, Displace(k)
  PROVE  Inv'
<1>. DEFINE d == cn[k].victim
            c == [cn EXCEPT ![k].st = "live", ![k].victim = 0]
<1>1. ShapeOf(cn) /\ cn[k].st = "displacing" /\ d \in Conns /\ cn[d].fd \in Fds
      /\ cn[k].gw \in DOMAIN Gateways
  BY LiveHolds DEF Inv, Shape, Victims, Displace, Holding
<1>2. /\ wr' = [wr EXCEPT ![d].dead = TRUE]
      /\ cn' = IF wr[d].dead THEN c ELSE Shutdown(c, cn[d].fd)
      /\ hist' = [hist EXCEPT !.strays = @ \cup (IF wr[d].dead THEN {} ELSE Stray("kill", d))]
      /\ SameGround
  BY DEF Displace, SameGround
<1>3. ShapeOf(c) /\ (\A j \in Conns : c[j].gw = cn[j].gw /\ c[j].fd = cn[j].fd)
  BY <1>1 DEF ShapeOf, ConnFields, States, Holding
<1>4. (\A j \in Conns \ {k} : c[j] = cn[j]) /\ c[k].st = "live"
  BY <1>1 DEF ShapeOf, ConnFields
<1>. HIDE DEF c, d
<1>5. ShapeOf(cn') /\ Alike(c, cn')
  BY <1>1, <1>2, <1>3, ShutdownAlike DEF Inv, Alike
<1>6. WritersAlike
  <2>1. wr \in [Conns -> WriterState]
    BY DEF Inv, Shape
  <2>. QED
    BY <1>1, <1>2, <2>1 DEF WritersAlike, WriterState
<1>7. NoNewStray
  <2>1. \A s \in Stray("kill", d) : s.by = "kill"
    BY DEF Stray
  <2>. QED
    BY <1>2, <2>1 DEF NoNewStray, Inv, Shape
<1>. QED
  BY <1>1, <1>2, <1>3, <1>4, <1>5, <1>6, <1>7, ReaderMoves DEF Bound
LEMMA LeaveKeeps ==
  ASSUME Inv, NEW k \in Conns, Leave(k)
  PROVE  Inv'
<1>. DEFINE g == cn[k].gw
            id == Identity0(g)
<1>1. ShapeOf(cn) /\ cn[k].st = "leaving" /\ g \in DOMAIN Gateways /\ k # 0
  BY LiveHolds DEF Inv, Shape, Leave, Holding
<1>2. id \in Accounts /\ Head(Own(k)) = id /\ reg.alias[id] = id
  BY <1>1, IdentityIsAnAccount DEF Own, Identity0, Inv, Streams
<1>3. \A a \in Accounts : Unaliased(k)[a] \in {a, reg.alias[a]}
  BY DEF Unaliased
<1>4. Unaliased(k) \in [Accounts -> Accounts] /\ Unaliased(k)[id] = id
  BY <1>2, <1>3 DEF Unaliased, Inv, Shape
<1>5. /\ UNCHANGED <<acc, file, hist>> /\ NoNewStray
      /\ reg' = DetachStreamAt(id, k) /\ cn' = [cn EXCEPT ![k].st = "left"]
      /\ wr' = [wr EXCEPT ![k].stopping = TRUE]
  BY <1>2, <1>4, Unlogged DEF Leave, Detach
<1>6. Moves(k, "left") /\ cn'[k].victim = cn[k].victim
  BY <1>1, <1>5 DEF Moves, ShapeOf, ConnFields, States, Holding
<1>. HIDE DEF g, id
<1>7. /\ reg' \in [writer : [Accounts -> Conns \cup {0}], obs : [Accounts -> Conns \cup {0}],
                   alias : [Accounts -> Accounts]]
      /\ reg'.alias = Unaliased(k)
      /\ reg'.writer[id] = IF reg.writer[id] = k THEN 0 ELSE reg.writer[id]
      /\ reg'.obs[id] = IF reg.writer[id] = k THEN 0 ELSE reg.obs[id]
      /\ \A a \in Accounts : a # id => /\ reg'.writer[a] = reg.writer[a]
                                       /\ reg'.obs[a] = reg.obs[a]
  <2>1. reg \in [writer : [Accounts -> Conns \cup {0}], obs : [Accounts -> Conns \cup {0}],
                 alias : [Accounts -> Accounts]]
    BY DEF Inv, Shape
  <2>. QED
    BY <1>2, <1>4, <1>5, <2>1 DEF DetachStreamAt
<1>8. wr' \in [Conns -> WriterState] /\ \A j \in Conns : wr'[j].busy = wr[j].busy /\ wr'[j].over = wr[j].over
  <2>1. wr \in [Conns -> WriterState]
    BY DEF Inv, Shape
  <2>. QED
    BY <1>5, <2>1 DEF WriterState
<1>9. UNCHANGED <<acc, file, hist>> /\ NoNewStray
  BY <1>5
<1>10. Shape'
  BY <1>6, <1>7, <1>8, <1>9 DEF Inv, Shape, Moves, NoNewStray
<1>11. Sockets'
  BY <1>1, <1>6, <1>9 DEF Inv, Shape, Sockets, Moves, Holding
<1>12. Taken'
  BY <1>1, <1>6, <1>9 DEF Inv, Taken, Moves
<1>13. Listed'
  BY <1>1, <1>6, <1>9 DEF Inv, Shape, Listed, Moves, Registered
<1>14. Streams'
  <2>1. ASSUME NEW a \in Accounts
        PROVE  /\ reg'.obs[a] = reg'.writer[a]
               /\ reg'.writer[a] # 0 => /\ cn'[reg'.writer[a]].st \in Bound
                                        /\ a = Identity0(cn'[reg'.writer[a]].gw)
    <3>1. /\ reg.obs[a] = reg.writer[a] /\ reg.writer[a] \in Conns \cup {0}
          /\ reg.writer[a] # 0 => /\ cn[reg.writer[a]].st \in Bound
                                  /\ a = Identity0(cn[reg.writer[a]].gw)
      BY DEF Inv, Shape, Streams
    <3>2. reg'.obs[a] = reg'.writer[a]
      BY <1>2, <1>7, <3>1
    <3>3. ASSUME reg'.writer[a] # 0
          PROVE  reg'.writer[a] = reg.writer[a] /\ reg.writer[a] # k /\ reg.writer[a] # 0
      BY <1>2, <1>7, <3>1, <3>3 DEF id, g
    <3>. QED
      BY <1>6, <3>1, <3>2, <3>3 DEF Moves
  <2>2. ASSUME NEW h \in DOMAIN Gateways
        PROVE  reg'.alias[Identity0(h)] = Identity0(h)
    <3>1. Identity0(h) \in Accounts /\ reg.alias[Identity0(h)] = Identity0(h)
      BY IdentityIsAnAccount DEF Inv, Streams
    <3>. QED
      BY <1>3, <1>7, <3>1
  <2>. QED
    BY <2>1, <2>2 DEF Streams, Identity0
<1>15. Victims'
  BY <1>6 DEF Inv, Victims, Moves
<1>16. Writers'
  BY <1>6, <1>8 DEF Inv, Writers, Moves, Attached
<1>17. NoStrangerShut' /\ NoIdentityIsBorrowed'
  BY <1>9 DEF Inv, NoStrangerShut, NoIdentityIsBorrowed, Identity0
<1>. QED
  BY <1>10, <1>11, <1>12, <1>13, <1>14, <1>15, <1>16, <1>17 DEF Inv

-----------------------------------------------------------------------------
(* The end of a connection *)

(* Its writer is joined and nothing is bound to it any more. *)
LEMMA ReturnKeeps ==
  ASSUME Inv, NEW k \in Conns, HandshakeFails(k) \/ Flush(k)
  PROVE  Inv'
<1>1. /\ ShapeOf(cn) /\ cn[k].st \in {"opening", "left"} /\ UNCHANGED <<acc, file, wr, reg, hist>>
      /\ NoNewStray /\ cn[k].fd \in Fds /\ cn[k].gw \in DOMAIN Gateways
  BY LiveHolds, Unlogged DEF Inv, Shape, HandshakeFails, Flush, Joined, Holding
<1>2. Moves(k, "returned")
  <2>. DEFINE c == [cn EXCEPT ![k].st = "returned"]
  <2>1. /\ ShapeOf(c) /\ (\A j \in Conns : c[j].gw = cn[j].gw /\ c[j].fd = cn[j].fd)
        /\ (\A j \in Conns \ {k} : c[j] = cn[j]) /\ c[k].st = "returned"
    BY <1>1 DEF ShapeOf, ConnFields, States, Holding
  <2>. HIDE DEF c
  <2>2. cn' = c \/ cn' = Shutdown(c, cn[k].fd)
    BY DEF HandshakeFails, Flush, c
  <2>3. ShapeOf(cn') /\ Alike(c, cn')
    BY <1>1, <2>1, <2>2, ShutdownAlike DEF Inv, Alike
  <2>. QED
    BY <2>1, <2>3 DEF Moves, Alike
<1>3. ~wr[k].busy
  BY <1>1 DEF Inv, Writers, Attached, HandshakeFails, Flush, Joined
<1>10. Shape'
  BY <1>1, <1>2, <1>3 DEF Inv, Shape, Moves, NoNewStray
<1>11. Sockets'
  BY <1>1, <1>2, <1>3 DEF Inv, Sockets, Shape, Holding, Moves, NoNewStray
<1>12. Taken'
  BY <1>1, <1>2, <1>3 DEF Inv, Taken, Shape, Moves, NoNewStray
<1>13. Listed'
  BY <1>1, <1>2, <1>3 DEF Inv, Listed, Shape, Registered, Moves, NoNewStray
<1>14. Streams'
  BY <1>1, <1>2, <1>3 DEF Inv, Streams, Shape, Bound, Identity0, Moves, NoNewStray
<1>15. Victims'
  BY <1>1, <1>2, <1>3 DEF Inv, Victims, Shape, Moves, NoNewStray
<1>16. Writers'
  BY <1>1, <1>2, <1>3 DEF Inv, Writers, Shape, Attached, Moves, NoNewStray
<1>17. NoStrangerShut' /\ NoIdentityIsBorrowed'
  BY <1>1, <1>2, <1>3 DEF Inv, NoStrangerShut, NoNewStray, NoIdentityIsBorrowed, Identity0
<1>. QED
  BY <1>10, <1>11, <1>12, <1>13, <1>14, <1>15, <1>16, <1>17 DEF Inv

LEMMA DeregisterKeeps ==
  ASSUME Inv, NEW k \in Conns, Deregister(k)
  PROVE  Inv'
<1>. DEFINE g == cn[k].gw
<1>1. /\ ShapeOf(cn) /\ cn[k].st = "returned" /\ UNCHANGED <<file, wr, reg, hist>> /\ NoNewStray
      /\ cn[k].fd \in Fds /\ g \in DOMAIN Gateways
      /\ acc' = [acc EXCEPT ![g].fds = @ \ {cn[k].fd}] /\ cn' = [cn EXCEPT ![k].st = "closing"]
  BY LiveHolds, Unlogged DEF Inv, Shape, Deregister, Holding
<1>2. Moves(k, "closing")
  BY <1>1 DEF Moves, ShapeOf, ConnFields, States, Holding
<1>. HIDE DEF g
<1>3. /\ acc' \in [DOMAIN Gateways -> AcceptorState]
      /\ \A h \in DOMAIN Gateways : acc'[h].thr = acc[h].thr /\ acc'[h].got = acc[h].got
      /\ \A h \in DOMAIN Gateways : acc'[h].fds \subseteq acc[h].fds
      /\ cn[k].fd \notin acc'[g].fds
  <2>1. acc \in [DOMAIN Gateways -> AcceptorState]
    BY DEF Inv, Shape
  <2>. QED
    BY <1>1, <2>1 DEF AcceptorState
<1>4. UNCHANGED <<file, wr, reg, hist>> /\ NoNewStray /\ cn[k].st = "returned" /\ cn[k].fd \in Fds
  BY <1>1
<1>5. ~wr[k].busy
  BY <1>4 DEF Inv, Writers, Attached
<1>10. Shape'
  BY <1>2, <1>3, <1>4, <1>5 DEF Inv, Shape, Moves
<1>11. Sockets'
  BY <1>2, <1>3, <1>4, <1>5 DEF Inv, Sockets, Shape, Holding, Moves
<1>12. Taken'
  BY <1>2, <1>3, <1>4, <1>5 DEF Inv, Taken, Shape, Moves
<1>13. Listed'
  <2>1. ASSUME NEW h \in DOMAIN Gateways, NEW f \in acc'[h].fds
        PROVE  f \in Fds /\ file'[f] # 0 /\ cn'[file'[f]].st \in Registered /\ cn'[file'[f]].gw = h
    <3>1. f \in Fds /\ file[f] # 0 /\ cn[file[f]].st \in Registered /\ cn[file[f]].gw = h
      BY <1>3 DEF Inv, Listed
    <3>2. file[f] \in Conns /\ cn[file[f]].fd = f
      BY <3>1 DEF Inv, Shape, Sockets
    <3>3. file[f] # k
      BY <1>3, <3>1, <3>2 DEF g
    <3>. QED
      BY <1>2, <1>4, <3>1, <3>2, <3>3 DEF Moves
  <2>. QED
    BY <2>1 DEF Listed
<1>14. Streams'
  BY <1>2, <1>3, <1>4, <1>5 DEF Inv, Streams, Shape, Bound, Identity0, Moves
<1>15. Victims'
  BY <1>2, <1>3, <1>4, <1>5 DEF Inv, Victims, Shape, Moves
<1>16. Writers'
  BY <1>2, <1>3, <1>4, <1>5 DEF Inv, Writers, Shape, Attached, Moves
<1>17. NoStrangerShut' /\ NoIdentityIsBorrowed'
  BY <1>2, <1>3, <1>4, <1>5 DEF Inv, NoStrangerShut, NoNewStray, NoIdentityIsBorrowed, Identity0
<1>. QED
  BY <1>10, <1>11, <1>12, <1>13, <1>14, <1>15, <1>16, <1>17 DEF Inv

LEMMA CloseKeeps ==
  ASSUME Inv, NEW k \in Conns, Close(k)
  PROVE  Inv'
<1>. DEFINE f == cn[k].fd
<1>1. /\ ShapeOf(cn) /\ cn[k].st = "closing" /\ UNCHANGED <<acc, wr, reg, hist>> /\ NoNewStray
      /\ f \in Fds /\ cn[k].gw \in DOMAIN Gateways /\ k # 0
      /\ file' = [file EXCEPT ![f] = 0] /\ cn' = [cn EXCEPT ![k].st = "closed"]
  BY LiveHolds, Unlogged DEF Inv, Shape, Close, Holding
<1>2. Moves(k, "closed") /\ file[f] = k
  BY <1>1 DEF Moves, ShapeOf, ConnFields, States, Holding, Inv, Sockets
<1>. HIDE DEF f
<1>3. /\ file' \in [Fds -> Conns \cup {0}] /\ file'[f] = 0
      /\ \A i \in Fds : i # f => file'[i] = file[i]
  BY <1>1 DEF Inv, Shape
<1>4. UNCHANGED <<acc, wr, reg, hist>> /\ NoNewStray /\ cn[k].st = "closing" /\ f \in Fds /\ k # 0
  BY <1>1
<1>5. ~wr[k].busy
  BY <1>4 DEF Inv, Writers, Attached
<1>10. Shape'
  BY <1>2, <1>3, <1>4, <1>5 DEF Inv, Shape, Moves
<1>11. Sockets'
  BY <1>2, <1>3, <1>4, <1>5 DEF Inv, Sockets, Shape, Holding, Moves
<1>12. Taken'
  BY <1>2, <1>3, <1>4, <1>5 DEF Inv, Taken, Shape, Moves
<1>13. Listed'
  BY <1>2, <1>3, <1>4, <1>5 DEF Inv, Listed, Shape, Registered, Moves
<1>14. Streams'
  BY <1>2, <1>3, <1>4, <1>5 DEF Inv, Streams, Shape, Bound, Identity0, Moves
<1>15. Victims'
  BY <1>2, <1>3, <1>4, <1>5 DEF Inv, Victims, Shape, Moves
<1>16. Writers'
  BY <1>2, <1>3, <1>4, <1>5 DEF Inv, Writers, Shape, Attached, Moves
<1>17. NoStrangerShut' /\ NoIdentityIsBorrowed'
  BY <1>2, <1>3, <1>4, <1>5 DEF Inv, NoStrangerShut, NoNewStray, NoIdentityIsBorrowed, Identity0
<1>. QED
  BY <1>10, <1>11, <1>12, <1>13, <1>14, <1>15, <1>16, <1>17 DEF Inv

-----------------------------------------------------------------------------
(* The writer threads *)

LEMMA WriterKeeps ==
  ASSUME Inv, NEW k \in Conns, Writer(k)
  PROVE  Inv'
<1>1. ShapeOf(cn) /\ SameGround /\ wr \in [Conns -> WriterState]
  BY DEF Inv, Shape, Writer, WriterTakes, WriterWrites, WriterEnds, SameGround
<1>2. CASE WriterTakes(k) \/ WriterEnds(k)
  <2>1. cn' = cn /\ UNCHANGED hist /\ WritersAlike
    <3>1. CASE WriterTakes(k)
      BY <1>1, <3>1 DEF WriterTakes, WritersAlike, WriterState
    <3>2. CASE WriterEnds(k)
      BY <1>1, <3>2 DEF WriterEnds, WritersAlike, WriterState
    <3>. QED
      BY <1>2, <3>1, <3>2
  <2>2. ShapeOf(cn') /\ Alike(cn, cn')
    BY <1>1, <2>1 DEF Alike
  <2>. QED
    BY <1>1, <2>1, <2>2, NobodyMoves, Unlogged
<1>3. CASE WriterWrites(k)
  <2>1. cn[k].st \in Attached /\ wr[k].busy
    BY <1>3 DEF WriterWrites, Inv, Writers
  <2>2. cn[k].fd \in Fds /\ file[cn[k].fd] = k
    BY <2>1 DEF Inv, Sockets, Attached, Holding
  <2>3. Stray("write", k) = {}
    BY <2>2 DEF Stray
  <2>4. NoNewStray
    <3>1. hist' = [hist EXCEPT !.strays = @ \cup {}]
      BY <1>3, <2>3 DEF WriterWrites
    <3>. QED
      BY <3>1 DEF NoNewStray, Inv, Shape
  <2>5. WritersAlike
    <3>1. CASE Gone(k)
      <4>1. wr' = [wr EXCEPT ![k].busy = FALSE, ![k].dead = TRUE, ![k].q = 0, ![k].over = TRUE]
        BY <1>3, <3>1 DEF WriterWrites
      <4>2. /\ DOMAIN wr' = Conns
            /\ wr'[k] = [wr[k] EXCEPT !.busy = FALSE, !.dead = TRUE, !.q = 0, !.over = TRUE]
            /\ \A j \in Conns \ {k} : wr'[j] = wr[j]
        BY <1>1, <4>1
      <4>3. wr[k] \in WriterState
        BY <1>1
      <4>. DEFINE u == [wr[k] EXCEPT !.busy = FALSE]
                  v == [u EXCEPT !.dead = TRUE]
                  w == [v EXCEPT !.q = 0]
      <4>6. u \in WriterState /\ ~u.busy
        BY <4>3 DEF WriterState
      <4>. HIDE DEF u
      <4>7. v \in WriterState /\ ~v.busy
        BY <4>6 DEF WriterState
      <4>. HIDE DEF v
      <4>8. w \in WriterState /\ ~w.busy
        BY <4>7 DEF WriterState
      <4>. HIDE DEF w
      <4>9. [w EXCEPT !.over = TRUE] \in WriterState /\ ~[w EXCEPT !.over = TRUE].busy
        BY <4>8 DEF WriterState
      <4>4. wr'[k] \in WriterState /\ ~wr'[k].busy
        BY <4>2, <4>9 DEF u, v, w
      <4>5. wr' = [j \in Conns |-> wr'[j]]
        BY <1>1, <4>1
      <4>. QED
        BY <1>1, <4>2, <4>4, <4>5 DEF WritersAlike
    <3>2. CASE ~Gone(k)
      BY <1>1, <1>3, <3>2 DEF WriterWrites, WritersAlike, WriterState
    <3>. QED
      BY <3>1, <3>2
  <2>6. ShapeOf(cn') /\ Alike(cn, cn')
    BY <1>1, <1>3, <2>2, ShutdownAlike DEF WriterWrites, Inv, Alike
  <2>. QED
    BY <1>1, <2>4, <2>5, <2>6, NobodyMoves
<1>. QED
  BY <1>2, <1>3 DEF Writer

-----------------------------------------------------------------------------
(* The theorem *)

LEMMA InvHoldsFirst ==
  ASSUME Init, NoIdentityIsBorrowed
  PROVE  Inv
<1>. DEFINE v(k) == IF k <= Len(mode.clients) THEN mode.clients[k] ELSE Absent
<1>1. /\ cn = [k \in Conns |-> NewConn(v(k))]
      /\ \A k \in Conns : v(k).gw \in DOMAIN Gateways \cup {"none"}
  BY GatewayConstants DEF Init, Conns, Absent
<1>. HIDE DEF v
<1>2. ShapeOf(cn) /\ \A k \in Conns : cn[k].st = "none"
  BY <1>1 DEF NewConn, ShapeOf, ConnFields, States
<1>3. 0 \notin Conns
  BY GatewayConstants DEF Conns
<1>4. /\ file = [f \in Fds |-> 0] /\ wr = [k \in Conns |-> NewWriter]
      /\ acc = [g \in DOMAIN Gateways |-> [run |-> TRUE, listen |-> TRUE, thr |-> "accept",
                                           stop |-> "no", fds |-> {}, got |-> 0]]
      /\ reg = [writer |-> [a \in Accounts |-> 0], obs |-> [a \in Accounts |-> 0],
                alias |-> [a \in Accounts |-> a]]
      /\ hist = [placed |-> {}, named |-> {}, strays |-> {}]
  BY DEF Init
<1>5. Shape
  BY <1>2, <1>4 DEF Shape, AcceptorState, WriterState, NewWriter
<1>6. Sockets /\ Taken /\ Listed /\ Victims
  BY <1>2, <1>4 DEF Sockets, Taken, Listed, Victims, Holding
<1>7. Streams
  BY <1>4, IdentityIsAnAccount DEF Streams
<1>8. Writers /\ NoStrangerShut
  BY <1>4 DEF Writers, NoStrangerShut, NewWriter
<1>. QED
  BY <1>5, <1>6, <1>7, <1>8 DEF Inv

LEMMA InvIsKept ==
  ASSUME Inv, [Next]_vars
  PROVE  Inv'
<1>1. CASE UNCHANGED vars
  <2>1. ShapeOf(cn') /\ Alike(cn, cn') /\ SameGround /\ UNCHANGED <<wr, hist>>
    BY <1>1 DEF vars, Inv, Shape, Alike, SameGround
  <2>. QED
    BY <2>1, NobodyMoves, Unwritten, Unlogged
<1>2. ASSUME NEW g \in DOMAIN Gateways, StopFlag(g) \/ Acceptor(g) \/ Stopper(g)
      PROVE  Inv'
  BY <1>2, AcceptTakeKeeps, AcceptSpawnKeeps, FlagsKeep, StopCloseKeeps, StopSweepKeeps
     DEF Acceptor, Stopper
<1>3. ASSUME NEW k \in Conns, Reader(k)
      PROVE  Inv'
  BY <1>3, AttachKeeps, ReturnKeeps, DisplaceKeeps, ReadCommandKeeps, ReadAloneKeeps,
     ReadControlKeeps, ReadTimesOutKeeps, LeaveKeeps, DeregisterKeeps, CloseKeeps
     DEF Reader
<1>. QED
  BY <1>1, <1>2, <1>3, ClientConnectKeeps, ClientHangsUpKeeps, WriterKeeps, EngineKeeps
     DEF Next

(***************************************************************************)
(* A connection that is over is left alone: after detach returned, nothing *)
(* is delivered to it or observed for it, and neither stop()'s sweep nor a *)
(* writer shuts a descriptor that has become another connection's, the     *)
(* kill of a displaced writer excepted; as long as no gateway's identity   *)
(* is among the accounts another one borrows (session_registry.h, attach). *)
(***************************************************************************)
THEOREM ClosedStaysAlone ==
  NoIdentityIsBorrowed /\ Spec => []ClosedIsLeftAlone
<1>1. NoIdentityIsBorrowed /\ Init => Inv
  BY InvHoldsFirst
<1>2. Inv /\ [Next]_vars => Inv'
  BY InvIsKept
<1>3. Inv => ClosedIsLeftAlone
  BY DEF Inv, ClosedIsLeftAlone, NothingAfterDetach, Streams, Bound
<1>. QED
  BY <1>1, <1>2, <1>3, PTL DEF Spec

-----------------------------------------------------------------------------
(* The rate limit: sums over the charges of a session *)

Charges == [t : Nat, w : Nat \ {0}]

SumsTo(g, c, I, n) ==
  g = [i \in 0..n |-> IF i = 0 THEN 0 ELSE g[i - 1] + (IF i \in I THEN c[i].w ELSE 0)]

LEMMA SumsExist ==
  ASSUME NEW c, NEW I, NEW n \in Nat
  PROVE  \E g : SumsTo(g, c, I, n)
<1>. DEFINE N == {k \in Nat : ~\E g : SumsTo(g, c, I, k)}
<1>. SUFFICES ASSUME N # {} PROVE FALSE
  OBVIOUS
<1>1. Min(N) \in N /\ \A k \in N : Min(N) =< k
  BY MinOfNats
<1>. DEFINE m == Min(N)
<1>2. m \in Nat /\ ~\E g : SumsTo(g, c, I, m)
  BY <1>1
<1>. HIDE DEF m
<1>3. m # 0
  <2>1. SUFFICES ASSUME m = 0 PROVE FALSE
    OBVIOUS
  <2>2. SumsTo([i \in 0..0 |-> 0], c, I, 0)
    BY DEF SumsTo
  <2>. QED
    BY <1>2, <2>1, <2>2
<1>4. PICK g : SumsTo(g, c, I, m - 1)
  <2>1. \A k \in N : m =< k
    BY <1>1 DEF m
  <2>2. m - 1 \in Nat /\ ~(m =< m - 1)
    BY <1>2, <1>3
  <2>3. m - 1 \notin N
    BY <2>1, <2>2
  <2>. QED
    BY <2>2, <2>3
<1>. DEFINE h == [i \in 0..m |-> IF i = 0 THEN 0 ELSE g[i - 1] + (IF i \in I THEN c[i].w ELSE 0)]
<1>5. \A i \in 0..m - 1 : h[i] = g[i]
  BY <1>2, <1>3, <1>4 DEF SumsTo
<1>6. SumsTo(h, c, I, m)
  <2>1. \A i \in 0..m : i # 0 => i - 1 \in 0..m - 1
    BY <1>2
  <2>2. \A i \in 0..m : h[i] = IF i = 0 THEN 0 ELSE h[i - 1] + (IF i \in I THEN c[i].w ELSE 0)
    BY <1>5, <2>1
  <2>3. h = [i \in 0..m |-> h[i]]
    OBVIOUS
  <2>. HIDE DEF h
  <2>. QED
    BY <2>2, <2>3 DEF SumsTo
<1>. QED
  BY <1>2, <1>6

LEMMA ChargeType ==
  ASSUME NEW c \in Seq(Charges), NEW i \in 1..Len(c)
  PROVE  c[i] \in Charges /\ c[i].t \in Nat /\ c[i].w \in Nat /\ c[i].w > 0
<1>1. c[i] \in Charges
  OBVIOUS
<1>. QED
  BY <1>1 DEF Charges

LEMMA WeightsAre ==
  ASSUME NEW c \in Seq(Charges), NEW I
  PROVE  SumsTo(Weights(c, I), c, I, Len(c))
<1>1. Len(c) \in Nat
  OBVIOUS
<1>2. \E g : SumsTo(g, c, I, Len(c))
  BY <1>1, SumsExist
<1>3. Weights(c, I) = CHOOSE g : SumsTo(g, c, I, Len(c))
  BY DEF Weights, SumsTo
<1>. QED
  BY <1>2, <1>3

(* What is true of no sum and stays true from one to the next is true.      *)
LEMMA Climbs ==
  ASSUME NEW i \in Nat, NEW n \in Nat, NEW T, i \in T,
         \A k \in i..n : k \in T /\ k # n => k + 1 \in T
  PROVE  i..n \subseteq T
<1>. DEFINE N == {k \in i..n : k \notin T}
<1>. SUFFICES ASSUME N # {} PROVE FALSE
  OBVIOUS
<1>1. Min(N) \in N /\ \A k \in N : Min(N) =< k
  BY MinOfNats
<1>. DEFINE m == Min(N)
<1>2. m \in i..n /\ m \notin T /\ \A k \in N : m =< k
  BY <1>1
<1>. HIDE DEF m
<1>3. m # i /\ m - 1 \in i..n /\ m - 1 \notin N
  BY <1>2
<1>. QED
  BY <1>2, <1>3

LEMMA WeightsAdd ==
  ASSUME NEW c \in Seq(Charges), NEW I
  PROVE  /\ Weights(c, I)[0] = 0
         /\ \A i \in 1..Len(c) :
              Weights(c, I)[i] = Weights(c, I)[i - 1] + (IF i \in I THEN c[i].w ELSE 0)
         /\ \A i \in 0..Len(c) : Weights(c, I)[i] \in Nat
<1>. DEFINE f == Weights(c, I)
<1>1. SumsTo(f, c, I, Len(c)) /\ Len(c) \in Nat
  BY WeightsAre
<1>. HIDE DEF f
<1>2. f[0] = 0 /\ \A i \in 1..Len(c) : f[i] = f[i - 1] + (IF i \in I THEN c[i].w ELSE 0)
  BY <1>1 DEF SumsTo
<1>. DEFINE T == {k \in 0..Len(c) : f[k] \in Nat}
<1>3. 0..Len(c) \subseteq T
  <2>1. \A i \in 1..Len(c) : c[i].w \in Nat
    BY ChargeType
  <2>2. \A k \in 0..Len(c) : k \in T /\ k # Len(c) => k + 1 \in T
    <3>. SUFFICES ASSUME NEW k \in 0..Len(c), k \in T, k # Len(c) PROVE k + 1 \in T
      OBVIOUS
    <3>1. k + 1 \in 1..Len(c) /\ k + 1 \in 0..Len(c) /\ (k + 1) - 1 = k
      BY <1>1
    <3>2. f[k + 1] = f[k] + (IF k + 1 \in I THEN c[k + 1].w ELSE 0) /\ f[k] \in Nat
      BY <1>2, <3>1
    <3>3. c[k + 1].w \in Nat
      BY <2>1, <3>1
    <3>. QED
      BY <3>1, <3>2, <3>3
  <2>3. 0 \in T
    BY <1>1, <1>2
  <2>. HIDE DEF T
  <2>. QED
    BY <1>1, <2>2, <2>3, Climbs
<1>. QED
  BY <1>2, <1>3 DEF f

(* Between i and n the charges in I weigh no more than those in J.          *)
LEMMA WeightsGrow ==
  ASSUME NEW c \in Seq(Charges), NEW I, NEW J, NEW i \in 0..Len(c), NEW n \in i..Len(c),
         \A j \in i + 1..Len(c) : j \in I => j \in J
  PROVE  Weights(c, I)[n] - Weights(c, I)[i] =< Weights(c, J)[n] - Weights(c, J)[i]
<1>. DEFINE f == Weights(c, I)
            g == Weights(c, J)
            T == {k \in i..Len(c) : f[k] - f[i] =< g[k] - g[i]}
<1>1. /\ \A k \in 1..Len(c) : f[k] = f[k - 1] + (IF k \in I THEN c[k].w ELSE 0)
      /\ \A k \in 1..Len(c) : g[k] = g[k - 1] + (IF k \in J THEN c[k].w ELSE 0)
      /\ \A k \in 0..Len(c) : f[k] \in Nat /\ g[k] \in Nat
  BY WeightsAdd
<1>2. \A k \in 1..Len(c) : c[k].w \in Nat
  BY ChargeType
<1>. HIDE DEF f, g
<1>3. i \in T
  BY <1>1
<1>4. \A k \in i..Len(c) : k \in T /\ k # Len(c) => k + 1 \in T
  <2>. SUFFICES ASSUME NEW k \in i..Len(c), k \in T, k # Len(c) PROVE k + 1 \in T
    OBVIOUS
  <2>1. k + 1 \in 1..Len(c) /\ k + 1 \in i..Len(c) /\ (k + 1) - 1 = k /\ k \in 0..Len(c)
    OBVIOUS
  <2>2. f[k + 1] = f[k] + (IF k + 1 \in I THEN c[k + 1].w ELSE 0)
    BY <1>1, <2>1
  <2>3. g[k + 1] = g[k] + (IF k + 1 \in J THEN c[k + 1].w ELSE 0)
    BY <1>1, <2>1
  <2>4. {f[k], g[k], f[i], g[i], c[k + 1].w} \subseteq Nat
    BY <1>1, <1>2, <2>1
  <2>5. k + 1 \in I => k + 1 \in J
    BY <2>1
  <2>6. f[k] - f[i] =< g[k] - g[i]
    OBVIOUS
  <2>. DEFINE u == IF k + 1 \in I THEN c[k + 1].w ELSE 0
              v == IF k + 1 \in J THEN c[k + 1].w ELSE 0
              a == f[k]
              b == g[k]
              x == f[i]
              y == g[i]
  <2>7. u \in Nat /\ v \in Nat /\ u =< v
    BY <2>4, <2>5
  <2>8. a \in Nat /\ b \in Nat /\ x \in Nat /\ y \in Nat /\ a - x =< b - y
    BY <2>4, <2>6
  <2>9. f[k + 1] = a + u /\ g[k + 1] = b + v
    BY <2>2, <2>3
  <2>. HIDE DEF u, v, a, b
  <2>10. (a + u) - x =< (b + v) - y
    <3>. HIDE DEF x, y
    <3>. QED
      BY <2>7, <2>8
  <2>11. f[k + 1] - f[i] =< g[k + 1] - g[i]
    BY <2>9, <2>10
  <2>. QED
    BY <2>1, <2>11
<1>5. n \in T
  <2>1. i \in Nat /\ Len(c) \in Nat
    OBVIOUS
  <2>. HIDE DEF T
  <2>2. i..Len(c) \subseteq T
    BY <1>3, <1>4, <2>1, Climbs
  <2>. QED
    BY <2>2
<1>. QED
  BY <1>5 DEF f, g

LEMMA WeightsOfNone ==
  ASSUME NEW c \in Seq(Charges), NEW I, NEW n \in 0..Len(c), \A j \in 1..n : j \notin I
  PROVE  Weights(c, I)[n] = 0
<1>. DEFINE f == Weights(c, I)
            T == {k \in 0..n : f[k] = 0}
<1>1. f[0] = 0 /\ \A k \in 1..Len(c) : f[k] = f[k - 1] + (IF k \in I THEN c[k].w ELSE 0)
  BY WeightsAdd
<1>. HIDE DEF f
<1>2. \A k \in 0..n : k \in T /\ k # n => k + 1 \in T
  BY <1>1
<1>3. n \in T
  <2>1. n \in Nat /\ 0 \in T
    BY <1>1
  <2>. HIDE DEF T
  <2>2. 0..n \subseteq T
    BY <1>2, <2>1, Climbs
  <2>. QED
    BY <2>1, <2>2
<1>. QED
  BY <1>3 DEF f

(* A sum that reaches k reached it with a charge that counts.               *)
LEMMA WeightsReach ==
  ASSUME NEW c \in Seq(Charges), NEW I, NEW n \in 0..Len(c), NEW k \in Nat \ {0},
         Weights(c, I)[n] >= k
  PROVE  \E j \in I \cap (1..n) : Weights(c, I)[j] >= k
<1>. DEFINE f == Weights(c, I)
            N == {j \in 0..n : f[j] >= k}
<1>1. /\ f[0] = 0 /\ f[n] >= k
      /\ \A j \in 1..Len(c) : f[j] = f[j - 1] + (IF j \in I THEN c[j].w ELSE 0)
      /\ \A j \in 0..Len(c) : f[j] \in Nat
  BY WeightsAdd
<1>. HIDE DEF f
<1>2. N # {} /\ N \in SUBSET Nat
  BY <1>1
<1>3. Min(N) \in N /\ \A j \in N : Min(N) =< j
  BY <1>2, MinOfNats
<1>. DEFINE m == Min(N)
<1>4. m \in 0..n /\ f[m] >= k /\ \A j \in N : m =< j
  BY <1>3
<1>. HIDE DEF m
<1>5. m \in 1..n /\ m - 1 \in 0..n /\ m - 1 \notin N
  BY <1>1, <1>4
<1>6. ~(f[m - 1] >= k) /\ f[m - 1] \in Nat /\ f[m] \in Nat
  BY <1>1, <1>5
<1>7. m \in I
  BY <1>1, <1>4, <1>5, <1>6
<1>. QED
  BY <1>4, <1>5, <1>7 DEF f

(* Taking charges off the front takes their weights off the sum.            *)
LEMMA WeightsShift ==
  ASSUME NEW c \in Seq(Charges), NEW m \in 1..Len(c)
  PROVE  LET d == SubSeq(c, m, Len(c))
         IN  /\ d \in Seq(Charges) /\ Len(d) = Len(c) - m + 1
             /\ \A i \in 1..Len(d) : d[i] = c[i + m - 1]
             /\ Weights(d, DOMAIN d)[Len(d)] = Weights(c, m..Len(c))[Len(c)]
<1>. DEFINE d == SubSeq(c, m, Len(c))
            f == Weights(d, DOMAIN d)
            g == Weights(c, m..Len(c))
            T == {k \in 0..Len(d) : f[k] = g[k + m - 1]}
<1>1. d \in Seq(Charges) /\ Len(d) = Len(c) - m + 1 /\ \A i \in 1..Len(d) : d[i] = c[i + m - 1]
  OBVIOUS
<1>2. f[0] = 0 /\ \A k \in 1..Len(d) : f[k] = f[k - 1] + (IF k \in DOMAIN d THEN d[k].w ELSE 0)
  <2>. HIDE DEF d
  <2>. QED
    BY <1>1, WeightsAdd
<1>3. \A k \in 1..Len(c) : g[k] = g[k - 1] + (IF k \in m..Len(c) THEN c[k].w ELSE 0)
  BY WeightsAdd
<1>4. g[m - 1] = 0
  BY WeightsOfNone
<1>5. DOMAIN d = 1..Len(d)
  BY <1>1
<1>. HIDE DEF f, g, d
<1>6. \A k \in 0..Len(d) : k \in T /\ k # Len(d) => k + 1 \in T
  <2>. SUFFICES ASSUME NEW k \in 0..Len(d), k \in T, k # Len(d) PROVE k + 1 \in T
    OBVIOUS
  <2>0. Len(d) \in Nat
    BY <1>1
  <2>1. Len(d) \in Nat /\ k + 1 \in 1..Len(d) /\ (k + 1) - 1 = k
    BY <2>0
  <2>2. k + m \in m..Len(c) /\ k + m \in 1..Len(c) /\ k + 1 + m - 1 = k + m
    BY <1>1, <2>1
  <2>3. f[k + 1] = f[k] + d[k + 1].w
    BY <1>2, <1>5, <2>1
  <2>4. g[k + m] = g[k + m - 1] + c[k + m].w
    BY <1>3, <2>2
  <2>5. d[k + 1] = c[k + m]
    BY <1>1, <2>1, <2>2
  <2>. QED
    BY <2>1, <2>2, <2>3, <2>4, <2>5
<1>7. 0 \in T
  BY <1>1, <1>2, <1>4
<1>8. Len(d) \in T
  <2>1. Len(d) \in Nat
    BY <1>1
  <2>. HIDE DEF T
  <2>2. 0..Len(d) \subseteq T
    BY <1>6, <1>7, <2>1, Climbs
  <2>. QED
    BY <2>1, <2>2
<1>9. f[Len(d)] = g[Len(c)]
  BY <1>1, <1>8
<1>. QED
  BY <1>1, <1>9 DEF f, g, d

-----------------------------------------------------------------------------
(* The rate limit: a policy, and the wait it tells *)

(* Charges are in the order of time, none is ahead of the clock, and a ban  *)
(* that is still on outlasts them all.                                      *)
PolicyOK(p, now) ==
  /\ DOMAIN p = {"consumed", "ban", "rejects"}
  /\ p.consumed \in Seq(Charges) /\ p.ban \in Nat
  /\ \A i \in 1..Len(p.consumed) : p.consumed[i].t =< now
  /\ \A i, j \in 1..Len(p.consumed) : i =< j => p.consumed[i].t =< p.consumed[j].t
  /\ p.ban > now => \A i \in 1..Len(p.consumed) : p.consumed[i].t + WindowNs =< p.ban

(* What is inside the window is a stretch at the end.                       *)
LEMMA LiveIsLast ==
  ASSUME NEW p, NEW now \in Nat, PolicyOK(p, now), NEW n \in Nat
  PROVE  LET c == p.consumed
             live == Live(p, n)
         IN  /\ live \in SUBSET (1..Len(c)) /\ live \in SUBSET Nat
             /\ live # {} => Min(live) \in 1..Len(c) /\ live = Min(live)..Len(c)
<1>. DEFINE c == p.consumed
            live == Live(p, n)
<1>1. c \in Seq(Charges) /\ WindowNs \in Nat /\ DOMAIN c = 1..Len(c)
  BY RateLimit DEF PolicyOK
<1>2. live = {i \in 1..Len(c) : c[i].t > n - WindowNs}
  BY <1>1 DEF Live
<1>3. \A i \in 1..Len(c) : c[i].t \in Nat
  BY <1>1, ChargeType
<1>4. \A i, j \in 1..Len(c) : i =< j => c[i].t =< c[j].t
  BY DEF PolicyOK
<1>5. Len(c) \in Nat
  BY <1>1
<1>. HIDE DEF c, live
<1>6. live \in SUBSET (1..Len(c)) /\ live \in SUBSET Nat
  BY <1>2, <1>5
<1>7. ASSUME live # {}
      PROVE  Min(live) \in 1..Len(c) /\ live = Min(live)..Len(c)
  <2>1. Min(live) \in live /\ \A i \in live : Min(live) =< i
    BY <1>6, <1>7, MinOfNats
  <2>. DEFINE m == Min(live)
  <2>2. m \in live /\ m \in 1..Len(c) /\ \A i \in live : m =< i
    BY <1>6, <2>1
  <2>. HIDE DEF m
  <2>3. ASSUME NEW i \in m..Len(c) PROVE i \in live
    <3>1. i \in 1..Len(c) /\ m =< i
      BY <1>5, <2>2
    <3>2. c[m].t =< c[i].t /\ c[m].t > n - WindowNs /\ c[m].t \in Nat /\ c[i].t \in Nat
      BY <1>2, <1>3, <1>4, <2>2, <3>1
    <3>. QED
      BY <1>1, <1>2, <3>1, <3>2
  <2>4. ASSUME NEW i \in live PROVE i \in m..Len(c)
    BY <1>5, <1>6, <2>2
  <2>. QED
    BY <2>2, <2>3, <2>4 DEF m
<1>. QED
  BY <1>6, <1>7 DEF c, live

(* Eviction takes exactly what is outside the window.                       *)
LEMMA EvictIs ==
  ASSUME NEW p, NEW now \in Nat, PolicyOK(p, now), NEW n \in Nat
  PROVE  LET q == Evict(p, n)
         IN  /\ Used(q) = Weights(p.consumed, Live(p, n))[Len(p.consumed)]
             /\ DOMAIN q = DOMAIN p /\ q.ban = p.ban
             /\ q.consumed \in Seq(Charges)
             /\ \E m \in Nat : \A j \in 1..Len(q.consumed) :
                  j + m \in 1..Len(p.consumed) /\ q.consumed[j] = p.consumed[j + m]
<1>. DEFINE q == Evict(p, n)
            c == p.consumed
            live == Live(p, n)
<1>1. c \in Seq(Charges) /\ Len(c) \in Nat
  BY DEF PolicyOK
<1>2. /\ DOMAIN q = DOMAIN p /\ q.ban = p.ban
      /\ q.consumed = IF live = {} THEN <<>> ELSE SubSeq(c, Min(live), Len(c))
  BY DEF Evict, PolicyOK
<1>3. Used(q) = Weights(q.consumed, DOMAIN q.consumed)[Len(q.consumed)]
  BY DEF Used
<1>4. live # {} => Min(live) \in 1..Len(c) /\ live = Min(live)..Len(c)
  BY LiveIsLast
<1>. HIDE DEF q, c, live
<1>5. CASE live = {}
  <2>1. q.consumed = <<>> /\ <<>> \in Seq(Charges) /\ Len(<<>>) = 0
    BY <1>2, <1>5
  <2>2. Used(q) = 0
    BY <1>3, <2>1, WeightsAdd
  <2>3. Weights(c, live)[Len(c)] = 0
    BY <1>1, <1>5, WeightsOfNone
  <2>4. 0 \in Nat /\ \A j \in 1..Len(q.consumed) :
          j + 0 \in 1..Len(c) /\ q.consumed[j] = c[j + 0]
    BY <2>1
  <2>. QED
    BY <1>2, <2>1, <2>2, <2>3, <2>4 DEF q, c, live
<1>6. CASE live # {}
  <2>. DEFINE m == Min(live)
              d == SubSeq(c, m, Len(c))
  <2>1. m \in 1..Len(c) /\ live = m..Len(c) /\ q.consumed = d
    BY <1>2, <1>4, <1>6
  <2>. HIDE DEF m
  <2>2. /\ d \in Seq(Charges) /\ Len(d) = Len(c) - m + 1
        /\ \A i \in 1..Len(d) : d[i] = c[i + m - 1]
        /\ Weights(d, DOMAIN d)[Len(d)] = Weights(c, m..Len(c))[Len(c)]
    BY <1>1, <2>1, WeightsShift
  <2>. HIDE DEF d
  <2>3. Used(q) = Weights(c, live)[Len(c)]
    BY <1>3, <2>1, <2>2
  <2>4. m - 1 \in Nat /\ \A j \in 1..Len(d) : j + (m - 1) \in 1..Len(c) /\ d[j] = c[j + (m - 1)]
    <3>1. m - 1 \in Nat /\ \A j \in 1..Len(d) : j + (m - 1) = j + m - 1
      BY <2>1
    <3>2. \A j \in 1..Len(d) : j + (m - 1) \in 1..Len(c)
      BY <1>1, <2>1, <2>2
    <3>. QED
      BY <2>2, <3>1, <3>2
  <2>. QED
    BY <1>2, <2>1, <2>2, <2>3, <2>4 DEF q, c, live
<1>. QED
  BY <1>5, <1>6

LEMMA NewPolicyIsOK ==
  ASSUME NEW now \in Nat
  PROVE  PolicyOK(NewPolicy, now)
  BY DEF PolicyOK, NewPolicy

LEMMA PolicyAges ==
  ASSUME NEW p, NEW now \in Nat, PolicyOK(p, now), NEW later \in Nat, now =< later
  PROVE  PolicyOK(p, later)
<1>1. \A i \in 1..Len(p.consumed) : p.consumed[i].t \in Nat
  BY ChargeType DEF PolicyOK
<1>2. p.ban \in Nat
  BY DEF PolicyOK
<1>3. p.ban > later => p.ban > now
  BY <1>2
<1>4. \A i \in 1..Len(p.consumed) : p.consumed[i].t =< later
  BY <1>1 DEF PolicyOK
<1>. QED
  BY <1>3, <1>4 DEF PolicyOK

LEMMA EvictKeepsOrder ==
  ASSUME NEW p, NEW now \in Nat, PolicyOK(p, now), ~(p.ban > now)
  PROVE  PolicyOK(Evict(p, now), now)
<1>. DEFINE q == Evict(p, now)
<1>1. /\ DOMAIN q = {"consumed", "ban", "rejects"} /\ q.ban = p.ban /\ q.ban \in Nat
      /\ q.consumed \in Seq(Charges)
  BY EvictIs DEF PolicyOK
<1>2. PICK m \in Nat : \A j \in 1..Len(q.consumed) :
        j + m \in 1..Len(p.consumed) /\ q.consumed[j] = p.consumed[j + m]
  BY EvictIs
<1>. HIDE DEF q
<1>3. \A i \in 1..Len(q.consumed) : q.consumed[i].t =< now
  BY <1>2 DEF PolicyOK
<1>4. ASSUME NEW i \in 1..Len(q.consumed), NEW j \in 1..Len(q.consumed), i =< j
      PROVE  q.consumed[i].t =< q.consumed[j].t
  <2>1. i + m =< j + m /\ i + m \in 1..Len(p.consumed) /\ j + m \in 1..Len(p.consumed)
    BY <1>1, <1>2, <1>4
  <2>. QED
    BY <1>2, <2>1 DEF PolicyOK
<1>5. ~(q.ban > now)
  BY <1>1
<1>6. PolicyOK(q, now)
  BY <1>1, <1>3, <1>4, <1>5 DEF PolicyOK
<1>. QED
  BY <1>6 DEF q

(* tryConsume keeps a policy in order. *)
LEMMA TryConsumeIsOK ==
  ASSUME NEW p, NEW now \in Nat, PolicyOK(p, now), NEW a
  PROVE  PolicyOK(TryConsume(p, a, now).p, now)
<1>. DEFINE q == Evict(p, now)
            r == Charged(p, q, a, now)
<1>0. /\ {WindowNs, BanNs} \subseteq Nat /\ BanNs >= WindowNs /\ p.ban \in Nat
      /\ DOMAIN p = {"consumed", "ban", "rejects"}
  BY RateLimit DEF PolicyOK
<1>1. ASSUME NEW z, PolicyOK(z, now)
      PROVE  PolicyOK(Refused(z), now) /\ Refused(z).ban = z.ban
             /\ Refused(z).consumed = z.consumed
  <2>1. /\ DOMAIN Refused(z) = DOMAIN z /\ Refused(z).ban = z.ban
        /\ Refused(z).consumed = z.consumed
    BY <1>1 DEF Refused, PolicyOK
  <2>. HIDE DEF Refused
  <2>. QED
    BY <1>1, <2>1 DEF PolicyOK
<1>2. ASSUME NEW z, PolicyOK(z, now)
      PROVE  PolicyOK(MaybeArmBan(z, now), now)
  <2>1. CASE MaybeArmBan(z, now) = z
    BY <1>2, <2>1
  <2>2. CASE MaybeArmBan(z, now) # z
    <3>. DEFINE y == [z EXCEPT !.ban = now + BanNs, !.rejects = 0]
    <3>1. MaybeArmBan(z, now) = y
      BY <2>2 DEF MaybeArmBan
    <3>2. DOMAIN y = DOMAIN z /\ y.consumed = z.consumed /\ y.ban = now + BanNs
      BY <1>2 DEF PolicyOK
    <3>. HIDE DEF y
    <3>3. ASSUME NEW i \in 1..Len(y.consumed) PROVE y.consumed[i].t + WindowNs =< y.ban
      <4>1. y.consumed[i].t \in Nat /\ y.consumed[i].t =< now
        BY <1>2, <3>2, ChargeType DEF PolicyOK
      <4>. QED
        BY <1>0, <3>2, <4>1
    <3>4. y.ban \in Nat
      BY <1>0, <3>2
    <3>5. PolicyOK(y, now)
      BY <1>2, <3>2, <3>3, <3>4 DEF PolicyOK
    <3>. QED
      BY <3>1, <3>5
  <2>. QED
    BY <2>1, <2>2
<1>3. ASSUME NEW z, PolicyOK(z, now), ~(z.ban > now)
      PROVE  PolicyOK(Charge(z, a, now), now)
  <2>. DEFINE y == Charge(z, a, now)
              e == [t |-> now, w |-> Weight(a)]
  <2>1. /\ DOMAIN y = DOMAIN z /\ y.ban = z.ban
        /\ y.consumed = IF a \in Trading THEN Append(z.consumed, e) ELSE z.consumed
    BY <1>3 DEF Charge, PolicyOK
  <2>2. e \in Charges /\ e.t = now
    BY DEF Charges, Weight
  <2>. HIDE DEF y, e
  <2>3. ~(y.ban > now)
    BY <1>3, <2>1
  <2>4. CASE a \notin Trading
    <3>1. y.consumed = z.consumed
      BY <2>1, <2>4
    <3>2. PolicyOK(y, now)
      BY <1>3, <2>1, <2>3, <3>1 DEF PolicyOK
    <3>. QED
      BY <3>2 DEF y
  <2>5. CASE a \in Trading
    <3>1. /\ y.consumed = Append(z.consumed, e) /\ z.consumed \in Seq(Charges)
          /\ y.consumed \in Seq(Charges)
      BY <1>3, <2>1, <2>2, <2>5 DEF PolicyOK
    <3>2. /\ Len(y.consumed) = Len(z.consumed) + 1 /\ Len(z.consumed) \in Nat
          /\ \A i \in 1..Len(z.consumed) : y.consumed[i] = z.consumed[i]
          /\ y.consumed[Len(z.consumed) + 1] = e
      BY <2>2, <3>1
    <3>3. ASSUME NEW i \in 1..Len(y.consumed)
          PROVE  /\ y.consumed[i].t =< now
                 /\ i # Len(y.consumed) => i \in 1..Len(z.consumed) /\ y.consumed[i] = z.consumed[i]
                 /\ i = Len(y.consumed) => y.consumed[i].t = now
      <4>1. CASE i = Len(y.consumed)
        BY <2>2, <3>2, <4>1
      <4>2. CASE i # Len(y.consumed)
        <5>1. i \in 1..Len(z.consumed)
          BY <3>2, <4>2
        <5>. QED
          BY <1>3, <3>2, <4>2, <5>1 DEF PolicyOK
      <4>. QED
        BY <4>1, <4>2
    <3>4. ASSUME NEW i \in 1..Len(y.consumed), NEW j \in 1..Len(y.consumed), i =< j
          PROVE  y.consumed[i].t =< y.consumed[j].t
      <4>1. CASE j = Len(y.consumed)
        BY <3>3, <4>1
      <4>2. CASE j # Len(y.consumed)
        <5>1. i # Len(y.consumed)
          BY <3>2, <3>4, <4>2
        <5>2. i \in 1..Len(z.consumed) /\ j \in 1..Len(z.consumed)
          BY <3>3, <4>2, <5>1
        <5>. QED
          BY <1>3, <3>2, <3>4, <5>2 DEF PolicyOK
      <4>. QED
        BY <4>1, <4>2
    <3>5. PolicyOK(y, now)
      BY <1>3, <2>1, <2>3, <3>1, <3>3, <3>4 DEF PolicyOK
    <3>. QED
      BY <3>5 DEF y
  <2>. QED
    BY <2>4, <2>5
<1>4. CASE p.ban > now
  <2>1. r.p = Refused(p)
    <3>. HIDE DEF q
    <3>. QED
      BY <1>0, <1>4 DEF Charged
  <2>. QED
    BY <1>1, <2>1 DEF TryConsume
<1>5. CASE ~(p.ban > now)
  <2>1. PolicyOK(q, now) /\ ~(q.ban > now)
    BY <1>5, EvictKeepsOrder, EvictIs
  <2>2. \/ r.p = MaybeArmBan(Refused(q), now)
        \/ r.p = Charge(q, a, now)
        \/ r.p = Charge(p, a, now)
    <3>. HIDE DEF q
    <3>. QED
      BY <1>0, <1>5 DEF Charged
  <2>. HIDE DEF q
  <2>3. PolicyOK(r.p, now)
    BY <1>1, <1>2, <1>3, <1>5, <2>1, <2>2
  <2>. QED
    BY <2>3 DEF TryConsume, q
<1>. QED
  BY <1>4, <1>5

(* What tryConsume answers at a later time. *)
LEMMA Answers ==
  ASSUME NEW p, NEW now \in Nat, PolicyOK(p, now), NEW a \in Trading, NEW n \in Nat
  PROVE  TryConsume(p, a, n).ok <=>
           /\ ~(p.ban > n)
           /\ Weights(p.consumed, Live(p, n))[Len(p.consumed)] + Weight(a) =< Capacity
<1>. DEFINE q == Evict(p, n)
            u == Weights(p.consumed, Live(p, n))[Len(p.consumed)]
<1>1. Used(q) = u
  BY EvictIs
<1>2. u \in Nat /\ Weight(a) \in Nat /\ Capacity \in Nat /\ p.ban \in Nat
  <2>1. Len(p.consumed) \in 0..Len(p.consumed) /\ p.consumed \in Seq(Charges) /\ p.ban \in Nat
    BY DEF PolicyOK
  <2>. QED
    BY <2>1, WeightsAdd, RateLimit DEF Weight
<1>. HIDE DEF q, u
<1>3. Charged(p, q, a, n).ok <=> ~(p.ban > n) /\ u + Weight(a) =< Capacity
  <2>1. CASE p.ban > n
    BY <1>2, <2>1 DEF Charged
  <2>2. CASE ~(p.ban > n) /\ u + Weight(a) > Capacity
    <3>1. ~(p.ban > n) /\ p.ban =< n /\ Used(q) + Weight(a) > Capacity
      BY <1>1, <1>2, <2>2
    <3>2. Charged(p, q, a, n) = [ok |-> FALSE, p |-> MaybeArmBan(Refused(q), n)]
      BY <3>1 DEF Charged
    <3>. QED
      BY <1>2, <2>2, <3>2
  <2>3. CASE ~(p.ban > n) /\ u + Weight(a) =< Capacity
    <3>1. ~(p.ban > n) /\ ~(Used(q) + Weight(a) > Capacity)
      BY <1>1, <1>2, <2>3
    <3>2. Charged(p, q, a, n) = [ok |-> TRUE, p |-> Charge(q, a, n)]
      BY <3>1 DEF Charged
    <3>. QED
      BY <2>3, <3>2
  <2>. QED
    BY <1>2, <2>1, <2>2, <2>3
<1>. QED
  BY <1>3 DEF TryConsume, q, u

(* The wait of a ban. *)
LEMMA BannedWait ==
  ASSUME NEW p, NEW now \in Nat, PolicyOK(p, now), NEW a \in Trading, p.ban > now
  PROVE  LET t == RetryAfterNs(p, a, now)
         IN  /\ TryConsume(p, a, now + t).ok
             /\ t > 0 => ~TryConsume(p, a, now + t - 1).ok
<1>. DEFINE t == RetryAfterNs(p, a, now)
            c == p.consumed
<1>1. /\ p.ban \in Nat /\ c \in Seq(Charges) /\ WindowNs \in Nat /\ DOMAIN c = 1..Len(c)
      /\ \A i \in 1..Len(c) : c[i].t + WindowNs =< p.ban
  BY RateLimit DEF PolicyOK
<1>2. t = p.ban - now /\ now + t = p.ban /\ now + t - 1 = p.ban - 1 /\ p.ban - 1 \in Nat
  <2>1. t = p.ban - now
    BY DEF RetryAfterNs
  <2>. HIDE DEF t
  <2>. QED
    BY <1>1, <2>1
<1>3. Live(p, p.ban) = {}
  <2>1. \A i \in 1..Len(c) : c[i].t \in Nat /\ ~(c[i].t > p.ban - WindowNs)
    BY <1>1, ChargeType
  <2>. QED
    BY <1>1, <2>1 DEF Live
<1>4. Weights(c, Live(p, p.ban))[Len(c)] = 0
  BY <1>1, <1>3, WeightsOfNone
<1>5. 0 + Weight(a) =< Capacity
  BY RateLimit DEF Weight
<1>6. TryConsume(p, a, p.ban).ok
  BY <1>1, <1>4, <1>5, Answers
<1>7. ~TryConsume(p, a, p.ban - 1).ok
  BY <1>1, <1>2, Answers
<1>. HIDE DEF t
<1>. QED
  BY <1>2, <1>6, <1>7 DEF t

(* The moment at which a charge of time x leaves the window.                *)
LEMMA EdgeOfTheWindow ==
  ASSUME NEW x \in Nat, NEW now \in Nat, NEW w \in Nat, x > now - w, NEW t, t = x + w - now
  PROVE  /\ t \in Nat /\ t > 0 /\ now + t \in Nat /\ now + t - 1 \in Nat
         /\ \A y \in Nat : (y > now + t - w <=> y > x) /\ (y > now + t - 1 - w <=> y >= x)
<1>1. t \in Int /\ t > 0 /\ now + t = x + w
  OBVIOUS
<1>2. \A y \in Nat : (y > (x + w) - w <=> y > x) /\ (y > (x + w) - 1 - w <=> y >= x)
  OBVIOUS
<1>. QED
  BY <1>1, <1>2

(* The wait of a full bucket. *)
LEMMA BucketWait ==
  ASSUME NEW p, NEW now \in Nat, PolicyOK(p, now), NEW a \in Trading, ~(p.ban > now)
  PROVE  LET t == RetryAfterNs(p, a, now)
         IN  /\ TryConsume(p, a, now + t).ok
             /\ t > 0 => ~TryConsume(p, a, now + t - 1).ok
<1>. DEFINE t == RetryAfterNs(p, a, now)
            c == p.consumed
            n == Len(c)
            live == Live(p, now)
            f == Weights(c, live)
            needed == f[n] + Weight(a) - Capacity
            enough == {i \in live : f[i] >= needed}
<1>1. /\ c \in Seq(Charges) /\ n \in Nat /\ WindowNs \in Nat /\ Capacity \in Nat
      /\ p.ban \in Nat /\ Weight(a) \in Nat /\ Weight(a) =< Capacity
  BY RateLimit DEF PolicyOK, Weight
<1>2. \A i \in 0..n : f[i] \in Nat
  BY <1>1, WeightsAdd
<1>3. needed \in Int /\ f[n] \in Nat
  BY <1>1, <1>2
<1>4. t = IF needed =< 0 THEN 0 ELSE c[Min(enough)].t + WindowNs - now
  BY DEF RetryAfterNs, RetryAfterBucket
<1>5. CASE needed =< 0
  <2>1. t = 0
    BY <1>4, <1>5
  <2>2. f[n] + Weight(a) =< Capacity
    BY <1>1, <1>3, <1>5
  <2>3. TryConsume(p, a, now).ok
    BY <2>2, Answers
  <2>. HIDE DEF t
  <2>. QED
    BY <2>1, <2>3 DEF t
<1>6. CASE needed > 0
  <2>1. needed \in Nat \ {0} /\ f[n] >= needed
    BY <1>1, <1>3, <1>6
  <2>2. live \in SUBSET (1..n) /\ live \in SUBSET Nat
    BY LiveIsLast
  <2>. DEFINE T == {i \in live : f[i] >= needed}
  <2>3. enough # {}
    <3>. HIDE DEF needed, live
    <3>1. n \in 0..n
      BY <1>1
    <3>. QED
      BY <1>1, <2>1, <3>1, WeightsReach
  <2>4. Min(enough) \in enough /\ \A i \in enough : Min(enough) =< i
    <3>1. enough \in SUBSET Nat
      BY <2>2
    <3>. HIDE DEF enough
    <3>. QED
      BY <2>3, <3>1, MinOfNats
  <2>. DEFINE i == Min(enough)
  <2>5. i \in live /\ i \in 1..n /\ f[i] >= needed /\ \A j \in enough : i =< j
    BY <2>2, <2>4
  <2>6. t = c[i].t + WindowNs - now
    BY <1>3, <1>4, <1>6, SMTT(40)
  <2>7. c[i].t \in Nat /\ c[i].t > now - WindowNs
    BY <1>1, <2>5, ChargeType DEF Live
  <2>. HIDE DEF i, t
  <2>8. t \in Nat /\ t > 0 /\ now + t \in Nat /\ now + t - 1 \in Nat
        /\ \A y \in Nat : /\ y > now + t - WindowNs <=> y > c[i].t
                          /\ y > now + t - 1 - WindowNs <=> y >= c[i].t
    <3>1. PICK x \in Nat : x = c[i].t
      BY <2>7
    <3>2. x > now - WindowNs /\ t = x + WindowNs - now
      BY <2>6, <2>7, <3>1
    <3>3. /\ t \in Nat /\ t > 0 /\ now + t \in Nat /\ now + t - 1 \in Nat
          /\ \A y \in Nat : /\ y > now + t - WindowNs <=> y > x
                            /\ y > now + t - 1 - WindowNs <=> y >= x
      BY <1>1, <3>2, EdgeOfTheWindow
    <3>. QED
      BY <3>1, <3>3
  <2>9. \A k, j \in 1..n : k =< j => c[k].t =< c[j].t
    BY DEF PolicyOK
  <2>10. \A j \in 1..n : c[j].t \in Nat
    BY <1>1, ChargeType
  <2>11. DOMAIN c = 1..n
    BY <1>1
  <2>. DEFINE ahead == Live(p, now + t)
              still == Live(p, now + t - 1)
              g == Weights(c, ahead)
              h == Weights(c, still)
  <2>12. ASSUME NEW j \in 1..n, j \in ahead PROVE i < j /\ j \in live
    <3>1. c[j].t > now + t - WindowNs
      BY <1>1, <2>8, <2>10, <2>11, <2>12 DEF Live
    <3>2. c[j].t > c[i].t
      BY <2>7, <2>8, <2>10, <3>1
    <3>3. ~(j =< i)
      BY <2>5, <2>7, <2>9, <2>10, <3>2
    <3>4. c[j].t > now - WindowNs
      BY <1>1, <2>7, <2>10, <3>2
    <3>5. j \in live
      BY <2>11, <3>4 DEF Live
    <3>. QED
      BY <2>5, <3>3, <3>5
  <2>13. ASSUME NEW j \in 1..n, i =< j PROVE j \in still
    <3>1. c[i].t =< c[j].t
      BY <2>5, <2>9, <2>13
    <3>2. c[j].t > now + t - 1 - WindowNs
      BY <2>7, <2>8, <2>10, <3>1
    <3>. QED
      BY <1>1, <2>8, <2>10, <2>11, <3>2 DEF Live
  <2>. HIDE DEF ahead, still, live, c, n, needed
  <2>14. TryConsume(p, a, now + t).ok
    <3>1. i \in 0..n /\ n \in i..n /\ \A j \in i + 1..n : j \in ahead => j \in live
      BY <1>1, <2>5, <2>12
    <3>2. g[n] - g[i] =< f[n] - f[i]
      BY <1>1, <3>1, WeightsGrow DEF n
    <3>3. g[i] = 0
      <4>1. \A j \in 1..i : j \notin ahead
        BY <1>1, <2>5, <2>12
      <4>. QED
        BY <1>1, <3>1, <4>1, WeightsOfNone DEF n
    <3>4. g[n] \in Nat
      BY <1>1, <3>1, WeightsAdd DEF n
    <3>5. g[n] + Weight(a) =< Capacity
      BY <1>1, <1>2, <2>5, <3>1, <3>2, <3>3, <3>4, SMTT(40) DEF needed
    <3>. QED
      BY <1>1, <2>8, <3>5, Answers DEF ahead, c, n
  <2>15. ~TryConsume(p, a, now + t - 1).ok
    <3>1. i - 1 \in 0..n /\ n \in i - 1..n /\ n \in 0..n /\ \A j \in (i - 1) + 1..n : j \in live => j \in still
      BY <1>1, <2>5, <2>13
    <3>2. f[n] - f[i - 1] =< h[n] - h[i - 1]
      BY <1>1, <3>1, WeightsGrow DEF n
    <3>3. h[i - 1] \in Nat /\ h[n] \in Nat /\ f[n] \in Nat /\ f[i - 1] \in Nat
      BY <1>1, <3>1, WeightsAdd DEF n
    <3>4. ~(f[i - 1] >= needed)
      <4>. SUFFICES ASSUME f[i - 1] >= needed PROVE FALSE
        OBVIOUS
      <4>1. PICK j \in live \cap (1..i - 1) : f[j] >= needed
        BY <1>1, <2>1, <3>1, WeightsReach DEF n
      <4>2. j \in enough /\ ~(i =< j)
        BY <1>1, <2>5, <4>1
      <4>. QED
        BY <2>5, <4>2
    <3>5. ~(h[n] + Weight(a) =< Capacity)
      BY <1>1, <3>2, <3>3, <3>4, SMTT(40) DEF needed
    <3>. QED
      BY <1>1, <2>8, <3>5, Answers DEF still, c, n
  <2>. QED
    BY <2>14, <2>15 DEF t
<1>. QED
  BY <1>3, <1>5, <1>6

-----------------------------------------------------------------------------
(* The rate limit: the policies of the connections *)

SessionFields == {"accounts", "pol", "cod", "placed"}

Manned(c) ==
  DOMAIN c = Conns /\ \A k \in Conns : DOMAIN c[k] = ConnFields /\ DOMAIN c[k].s = SessionFields

PolicyInv ==
  clock \in Nat /\ Manned(cn) /\ \A k \in Conns : PolicyOK(cn[k].s.pol, clock)

SamePolicies(c, d) ==
  Manned(c) => Manned(d) /\ \A k \in Conns : d[k].s.pol = c[k].s.pol

LEMMA ShutdownLeavesPolicies ==
  ASSUME NEW c, NEW f
  PROVE  SamePolicies(c, Shutdown(c, f))
<1>. SUFFICES ASSUME Manned(c)
             PROVE  /\ Manned(Shutdown(c, f))
                    /\ \A k \in Conns : Shutdown(c, f)[k].s.pol = c[k].s.pol
  BY DEF SamePolicies
<1>1. CASE Shutdown(c, f) = c
  BY <1>1
<1>2. CASE Shutdown(c, f) = [c EXCEPT ![file[f]].shut = TRUE]
  <2>1. ASSUME NEW k \in Conns
        PROVE  /\ DOMAIN Shutdown(c, f)[k] = ConnFields
               /\ Shutdown(c, f)[k].s = c[k].s
    BY <1>2 DEF Manned, ConnFields
  <2>2. DOMAIN Shutdown(c, f) = Conns
    BY <1>2 DEF Manned
  <2>. QED
    BY <2>1, <2>2 DEF Manned
<1>. QED
  BY <1>1, <1>2 DEF Shutdown

LEMMA ObserveLeavesPolicies ==
  ASSUME NEW s, DOMAIN s = SessionFields, NEW e
  PROVE  DOMAIN Observe(s, e) = SessionFields /\ Observe(s, e).pol = s.pol
  BY DEF Observe, Untrack, SessionFields

LEMMA DeliveryLeavesPolicies ==
  ASSUME NEW c, NEW e, DeliverTo(c, e)
  PROVE  SamePolicies(c, cn')
<1>. DEFINE b  == IF e.acct \in Accounts THEN reg.obs[StreamOf(e.acct)] ELSE 0
            k  == IF e.acct \in Accounts THEN reg.writer[StreamOf(e.acct)] ELSE 0
            c1 == IF b = 0 THEN c ELSE [c EXCEPT ![b].s = Observe(@, e)]
<1>1. cn' = c1 \/ cn' = Shutdown(c1, cn[k].fd)
  BY DEF DeliverTo
<1>. HIDE DEF b, k
<1>2. SamePolicies(c, c1)
  <2>. SUFFICES ASSUME Manned(c)
               PROVE  Manned(c1) /\ \A j \in Conns : c1[j].s.pol = c[j].s.pol
    BY DEF SamePolicies
  <2>1. CASE b = 0
    BY <2>1
  <2>2. CASE b # 0
    <3>1. DOMAIN c1 = Conns
      BY <2>2 DEF Manned
    <3>2. ASSUME NEW j \in Conns
          PROVE  /\ DOMAIN c1[j] = ConnFields
                 /\ c1[j].s = c[j].s \/ c1[j].s = Observe(c[j].s, e)
      BY <2>2 DEF Manned, ConnFields
    <3>3. ASSUME NEW j \in Conns
          PROVE  DOMAIN c1[j].s = SessionFields /\ c1[j].s.pol = c[j].s.pol
      <4>1. DOMAIN c[j].s = SessionFields
        BY DEF Manned
      <4>2. DOMAIN Observe(c[j].s, e) = SessionFields /\ Observe(c[j].s, e).pol = c[j].s.pol
        BY <4>1, ObserveLeavesPolicies
      <4>. HIDE DEF c1
      <4>. QED
        BY <3>2, <4>1, <4>2
    <3>. HIDE DEF c1
    <3>. QED
      BY <3>1, <3>2, <3>3 DEF Manned
  <2>. QED
    BY <2>1, <2>2
<1>. HIDE DEF c1
<1>3. SamePolicies(c1, Shutdown(c1, cn[k].fd))
  BY ShutdownLeavesPolicies
<1>. QED
  BY <1>1, <1>2, <1>3 DEF SamePolicies

LEMMA SamePoliciesKeep ==
  ASSUME PolicyInv, SamePolicies(cn, cn'), UNCHANGED clock
  PROVE  PolicyInv'
<1>1. Manned(cn') /\ \A k \in Conns : cn'[k].s.pol = cn[k].s.pol
  BY DEF PolicyInv, SamePolicies
<1>2. \A k \in Conns : PolicyOK(cn'[k].s.pol, clock')
  BY <1>1 DEF PolicyInv
<1>3. Manned(cn)'
  BY <1>1 DEF Manned
<1>. QED
  BY <1>2, <1>3 DEF PolicyInv

(* A step of one connection that leaves its session alone, whatever else it *)
(* does to the connection.                                                  *)
LEMMA AloneLeavesPolicies ==
  ASSUME NEW c, NEW d, NEW k,
         Manned(c) => /\ DOMAIN d = Conns /\ \A j \in Conns : j # k => d[j] = c[j]
                      /\ k \in Conns => DOMAIN d[k] = ConnFields /\ d[k].s = c[k].s
  PROVE  SamePolicies(c, d)
<1>. SUFFICES ASSUME Manned(c)
             PROVE  Manned(d) /\ \A j \in Conns : d[j].s.pol = c[j].s.pol
  BY DEF SamePolicies
<1>1. ASSUME NEW j \in Conns
      PROVE  DOMAIN d[j] = ConnFields /\ d[j].s = c[j].s
  BY DEF Manned
<1>. QED
  BY <1>1 DEF Manned

LEMMA HandleIs ==
  ASSUME NEW s, NEW f, NEW now \in Nat, NEW was \in Nat, was =< now,
         DOMAIN s = SessionFields, PolicyOK(s.pol, was)
  PROVE  LET r == Handle(s, f, now)
         IN  DOMAIN r.s = SessionFields /\ PolicyOK(r.s.pol, now)
<1>. DEFINE x == TryConsume(s.pol, ActionOf(f), now)
            r == Handle(s, f, now)
<1>1. PolicyOK(s.pol, now)
  BY PolicyAges
<1>2. PolicyOK(x.p, now)
  BY <1>1, TryConsumeIsOK
<1>. HIDE DEF x
<1>3. r.s = s \/ r.s = [s EXCEPT !.pol = x.p]
  <2>1. \A why : Refusal(s, f, why).s = s /\ Refusal([s EXCEPT !.pol = x.p], f, why).s = [s EXCEPT !.pol = x.p]
    BY DEF Refusal
  <2>2. Admitted(s, f, x).s = [s EXCEPT !.pol = x.p]
    BY <2>1 DEF Admitted
  <2>3. \/ r = Refusal(s, f, "MalformedMessage") \/ r = Refusal(s, f, "Unauthenticated")
        \/ r = Admitted(s, f, x)
    BY DEF Handle, x
  <2>. QED
    BY <2>1, <2>2, <2>3
<1>. HIDE DEF r
<1>4. CASE r.s = s
  BY <1>1, <1>4 DEF r
<1>5. CASE r.s = [s EXCEPT !.pol = x.p]
  <2>1. DOMAIN r.s = SessionFields /\ r.s.pol = x.p
    BY <1>5 DEF SessionFields
  <2>. QED
    BY <1>2, <2>1 DEF r
<1>. QED
  BY <1>3, <1>4, <1>5

LEMMA ReadCommandKeepsPolicies ==
  ASSUME PolicyInv, NEW k \in Conns, ReadCommand(k)
  PROVE  PolicyInv'
<1>1. PICK now \in clock..MaxClock :
        clock' = now /\ OnMessage(k, Handle(cn[k].s, Head(cn[k].wire), now))
  BY DEF ReadCommand
<1>2. clock \in Nat /\ now \in Nat /\ clock =< now /\ Manned(cn)
  BY <1>1, GatewayConstants DEF PolicyInv
<1>. DEFINE r == Handle(cn[k].s, Head(cn[k].wire), now)
<1>3. DOMAIN r.s = SessionFields /\ PolicyOK(r.s.pol, now)
  BY <1>2, HandleIs DEF PolicyInv, Manned
<1>. HIDE DEF r
(* The connections after the frame, before the answer is delivered.         *)
<1>4. ASSUME NEW z, NEW d,
             DOMAIN z = SessionFields, PolicyOK(z.pol, now),
             d = [cn EXCEPT ![k].s = z, ![k].st = After(k), ![k].wire = Tail(@),
                            ![k].part = FALSE, ![k].quiet = 0]
      PROVE  Manned(d) /\ \A j \in Conns : PolicyOK(d[j].s.pol, now)
  <2>1. DOMAIN d = Conns /\ \A j \in Conns : j # k => d[j] = cn[j]
    BY <1>2, <1>4 DEF Manned
  <2>2. DOMAIN d[k] = ConnFields /\ d[k].s = z
    BY <1>2, <1>4 DEF Manned, ConnFields
  <2>3. \A j \in Conns : PolicyOK(cn[j].s.pol, now)
    BY <1>2, PolicyAges DEF PolicyInv
  <2>. QED
    BY <1>2, <1>4, <2>1, <2>2, <2>3 DEF Manned
<1>5. CASE SubmitCmd(k, r)
  <2>. DEFINE z == Track(r.s, r.cmd[1])
  <2>1. DOMAIN z = SessionFields /\ z.pol = r.s.pol
    BY <1>3 DEF Track, SessionFields
  <2>2. cn' = [cn EXCEPT ![k].s = z, ![k].st = After(k), ![k].wire = Tail(@),
                         ![k].part = FALSE, ![k].quiet = 0]
    BY <1>5, SMTT(40) DEF SubmitCmd
  <2>. HIDE DEF z
  <2>3. Manned(cn') /\ \A j \in Conns : PolicyOK(cn'[j].s.pol, now)
    BY <1>3, <1>4, <2>1, <2>2, ZenonT(60)
  <2>. QED
    BY <1>1, <1>2, <2>3 DEF PolicyInv, Manned
<1>6. CASE AnswerRefusal(k, r)
  <2>. DEFINE d == [cn EXCEPT ![k].s = r.s, ![k].st = After(k), ![k].wire = Tail(@),
                              ![k].part = FALSE, ![k].quiet = 0]
  <2>1. Manned(d) /\ \A j \in Conns : PolicyOK(d[j].s.pol, now)
    BY <1>3, <1>4
  <2>2. DeliverTo(d, r.rej[1])
    BY <1>6 DEF AnswerRefusal
  <2>. HIDE DEF d
  <2>3. SamePolicies(d, cn')
    BY <2>2, DeliveryLeavesPolicies
  <2>4. Manned(cn') /\ \A j \in Conns : PolicyOK(cn'[j].s.pol, now)
    BY <2>1, <2>3 DEF SamePolicies
  <2>. QED
    BY <1>1, <1>2, <2>4 DEF PolicyInv, Manned
<1>. QED
  BY <1>1, <1>5, <1>6 DEF OnMessage, r

LEMMA AttachKeepsPolicies ==
  ASSUME PolicyInv, NEW k \in Conns, Attach(k)
  PROVE  PolicyInv'
<1>1. clock \in Nat /\ clock' = clock /\ Manned(cn)
  BY DEF PolicyInv, Attach
<1>. DEFINE n == NewSession(Own(k), TRUE)
<1>2. DOMAIN n = SessionFields /\ n.pol = NewPolicy
  BY DEF NewSession, SessionFields
<1>3. /\ DOMAIN cn' = Conns /\ \A j \in Conns : j # k => cn'[j] = cn[j]
      /\ DOMAIN cn'[k] = ConnFields /\ cn'[k].s = n
  <2>. HIDE DEF n
  <2>. QED
    BY <1>1 DEF Attach, AttachTo, Manned, ConnFields, n
<1>. HIDE DEF n
<1>4. PolicyOK(NewPolicy, clock)
  BY <1>1, NewPolicyIsOK
<1>5. \A j \in Conns : /\ DOMAIN cn'[j] = ConnFields /\ DOMAIN cn'[j].s = SessionFields
                      /\ PolicyOK(cn'[j].s.pol, clock')
  BY <1>1, <1>2, <1>3, <1>4 DEF PolicyInv, Manned
<1>. QED
  BY <1>1, <1>3, <1>5 DEF PolicyInv, Manned

(* What the other threads do to the connections. *)
LEMMA AcceptorLeavesPolicies ==
  ASSUME NEW g \in DOMAIN Gateways, StopFlag(g) \/ Acceptor(g) \/ Stopper(g)
  PROVE  SamePolicies(cn, cn') /\ UNCHANGED clock
<1>1. CASE StopFlag(g) \/ AcceptFails(g) \/ StopReturn(g)
  BY <1>1 DEF StopFlag, AcceptFails, StopReturn, SamePolicies
<1>2. CASE AcceptTake(g)
  <2>1. PICK k, f : cn' = [cn EXCEPT ![k].st = "accepted", ![k].fd = f]
    BY <1>2 DEF AcceptTake
  <2>2. Manned(cn) => /\ DOMAIN cn' = Conns /\ \A j \in Conns : j # k => cn'[j] = cn[j]
                      /\ k \in Conns => DOMAIN cn'[k] = ConnFields /\ cn'[k].s = cn[k].s
    BY <2>1 DEF Manned, ConnFields
  <2>3. SamePolicies(cn, cn')
    BY <2>2, AloneLeavesPolicies
  <2>. QED
    BY <1>2, <2>3 DEF AcceptTake
<1>3. CASE AcceptSpawn(g)
  <2>1. PICK k : cn' = [cn EXCEPT ![k].st = "opening"]
    BY <1>3 DEF AcceptSpawn
  <2>2. Manned(cn) => /\ DOMAIN cn' = Conns /\ \A j \in Conns : j # k => cn'[j] = cn[j]
                      /\ k \in Conns => DOMAIN cn'[k] = ConnFields /\ cn'[k].s = cn[k].s
    BY <2>1 DEF Manned, ConnFields
  <2>3. SamePolicies(cn, cn')
    BY <2>2, AloneLeavesPolicies
  <2>. QED
    BY <1>3, <2>3 DEF AcceptSpawn
<1>4. CASE StopClose(g) \/ StopSweep(g)
  <2>1. SamePolicies(cn, cn')
    <3>. SUFFICES ASSUME Manned(cn)
                 PROVE  Manned(cn') /\ \A j \in Conns : cn'[j].s.pol = cn[j].s.pol
      BY DEF SamePolicies
    <3>1. DOMAIN cn' = Conns
      BY <1>4 DEF StopClose, StopSweep
    <3>2. ASSUME NEW j \in Conns PROVE DOMAIN cn'[j] = ConnFields /\ cn'[j].s = cn[j].s
      BY <1>4 DEF StopClose, StopSweep, Manned, ConnFields
    <3>. QED
      BY <3>1, <3>2 DEF Manned
  <2>. QED
    BY <1>4, <2>1 DEF StopClose, StopSweep
<1>. QED
  BY <1>1, <1>2, <1>3, <1>4 DEF Acceptor, Stopper

(* The steps of a connection's own threads and of its client. *)
Quiet(k) ==
  \/ ClientConnect(k) \/ ClientHangsUp(k) \/ HandshakeFails(k)
  \/ ReadPart(k) \/ ReadEnds(k) \/ Leave(k) \/ Deregister(k) \/ Close(k)

LEMMA QuietLeavesPolicies ==
  ASSUME NEW k \in Conns, Quiet(k)
  PROVE  SamePolicies(cn, cn') /\ UNCHANGED clock
<1>1. Manned(cn) => /\ DOMAIN cn' = Conns /\ \A j \in Conns : j # k => cn'[j] = cn[j]
                    /\ k \in Conns => DOMAIN cn'[k] = ConnFields /\ cn'[k].s = cn[k].s
  BY DEF Quiet, ClientConnect, ClientHangsUp, HandshakeFails, ReadPart, ReadEnds, Leave,
         Deregister, Close, Manned, ConnFields
<1>2. UNCHANGED clock
  BY DEF Quiet, ClientConnect, ClientHangsUp, HandshakeFails, ReadPart, ReadEnds, Leave,
         Deregister, Close
<1>. QED
  BY <1>1, <1>2, AloneLeavesPolicies

LEMMA ShuttingLeavesPolicies ==
  ASSUME NEW k \in Conns, Displace(k) \/ ReadControl(k) \/ ReadTimesOut(k) \/ Flush(k) \/ Writer(k)
  PROVE  SamePolicies(cn, cn') /\ UNCHANGED clock
<1>1. \E d, f : /\ cn' = d \/ cn' = Shutdown(d, f)
                /\ Manned(cn) => /\ DOMAIN d = Conns /\ \A j \in Conns : j # k => d[j] = cn[j]
                                 /\ DOMAIN d[k] = ConnFields /\ d[k].s = cn[k].s
  <2>1. CASE Displace(k)
    <3>. DEFINE d == [cn EXCEPT ![k].st = "live", ![k].victim = 0]
    <3>1. cn' = d \/ cn' = Shutdown(d, cn[cn[k].victim].fd)
      BY <2>1 DEF Displace
    <3>2. Manned(cn) => /\ DOMAIN d = Conns /\ \A j \in Conns : j # k => d[j] = cn[j]
                        /\ DOMAIN d[k] = ConnFields /\ d[k].s = cn[k].s
      BY DEF Manned, ConnFields
    <3>. HIDE DEF d
    <3>. QED
      BY <3>1, <3>2
  <2>2. CASE ReadControl(k)
    <3>. DEFINE d == [cn EXCEPT ![k].wire = Tail(@), ![k].quiet = 0,
                                ![k].st = IF Head(cn[k].wire).op = "close"
                                            THEN "leaving" ELSE After(k)]
    <3>1. cn' = d \/ cn' = Shutdown(d, cn[k].fd)
      BY <2>2 DEF ReadControl
    <3>2. Manned(cn) => /\ DOMAIN d = Conns /\ \A j \in Conns : j # k => d[j] = cn[j]
                        /\ DOMAIN d[k] = ConnFields /\ d[k].s = cn[k].s
      BY DEF Manned, ConnFields
    <3>. HIDE DEF d
    <3>. QED
      BY <3>1, <3>2
  <2>3. CASE ReadTimesOut(k) /\ cn' = [cn EXCEPT ![k].st = "leaving"]
    <3>. DEFINE d == [cn EXCEPT ![k].st = "leaving"]
    <3>1. Manned(cn) => /\ DOMAIN d = Conns /\ \A j \in Conns : j # k => d[j] = cn[j]
                        /\ DOMAIN d[k] = ConnFields /\ d[k].s = cn[k].s
      BY DEF Manned, ConnFields
    <3>2. cn' = d
      BY <2>3
    <3>. HIDE DEF d
    <3>. QED
      BY <3>1, <3>2
  <2>4. CASE ReadTimesOut(k) /\ cn' # [cn EXCEPT ![k].st = "leaving"]
    <3>. DEFINE d == [cn EXCEPT ![k].quiet = @ + 1,
                                ![k].wire = IF Kind(cn[k].gw) = "ws" /\ ~cn[k].mute
                                              THEN <<[op |-> "pong", o |-> 0, acct |-> 0]>>
                                              ELSE <<>>]
    <3>1. cn' = d \/ cn' = Shutdown(d, cn[k].fd)
      BY <2>4 DEF ReadTimesOut
    <3>2. Manned(cn) => /\ DOMAIN d = Conns /\ \A j \in Conns : j # k => d[j] = cn[j]
                        /\ DOMAIN d[k] = ConnFields /\ d[k].s = cn[k].s
      BY DEF Manned, ConnFields
    <3>. HIDE DEF d
    <3>. QED
      BY <3>1, <3>2
  <2>5. CASE Flush(k)
    <3>. DEFINE d == [cn EXCEPT ![k].st = "returned"]
    <3>1. cn' = Shutdown(d, cn[k].fd)
      BY <2>5 DEF Flush
    <3>2. Manned(cn) => /\ DOMAIN d = Conns /\ \A j \in Conns : j # k => d[j] = cn[j]
                        /\ DOMAIN d[k] = ConnFields /\ d[k].s = cn[k].s
      BY DEF Manned, ConnFields
    <3>. HIDE DEF d
    <3>. QED
      BY <3>1, <3>2
  <2>6. CASE Writer(k)
    <3>1. cn' = cn \/ cn' = Shutdown(cn, cn[k].fd)
      BY <2>6 DEF Writer, WriterTakes, WriterWrites, WriterEnds
    <3>2. Manned(cn) => DOMAIN cn = Conns /\ DOMAIN cn[k] = ConnFields
      BY DEF Manned
    <3>. QED
      BY <3>1, <3>2
  <2>. QED
    BY <2>1, <2>2, <2>3, <2>4, <2>5, <2>6
<1>2. PICK d, f : /\ cn' = d \/ cn' = Shutdown(d, f)
                  /\ Manned(cn) => /\ DOMAIN d = Conns /\ \A j \in Conns : j # k => d[j] = cn[j]
                                   /\ DOMAIN d[k] = ConnFields /\ d[k].s = cn[k].s
  BY <1>1
<1>3. SamePolicies(cn, d)
  BY <1>2, AloneLeavesPolicies
<1>4. SamePolicies(d, Shutdown(d, f))
  BY ShutdownLeavesPolicies
<1>5. SamePolicies(cn, cn')
  BY <1>2, <1>3, <1>4, SMTT(40) DEF SamePolicies
<1>6. UNCHANGED clock
  BY DEF Displace, ReadControl, ReadTimesOut, Flush, Writer, WriterTakes, WriterWrites, WriterEnds
<1>. QED
  BY <1>5, <1>6

LEMMA ConfigLeavesPolicies ==
  ASSUME NEW k \in Conns, ReadConfig(k)
  PROVE  SamePolicies(cn, cn') /\ UNCHANGED clock
<1>1. SamePolicies(cn, cn')
  <2>. SUFFICES ASSUME Manned(cn)
               PROVE  Manned(cn') /\ \A j \in Conns : cn'[j].s.pol = cn[j].s.pol
    BY DEF SamePolicies
  <2>1. DOMAIN cn' = Conns /\ \A j \in Conns : j # k => cn'[j] = cn[j]
    BY DEF ReadConfig, Manned
  <2>2. DOMAIN cn'[k] = ConnFields /\ cn'[k].s = [cn[k].s EXCEPT !.cod = Head(cn[k].wire).o = 1]
    BY DEF ReadConfig, Manned, ConnFields
  <2>3. DOMAIN cn'[k].s = SessionFields /\ cn'[k].s.pol = cn[k].s.pol
    BY <2>2 DEF Manned, SessionFields
  <2>. QED
    BY <2>1, <2>2, <2>3 DEF Manned
<1>. QED
  BY <1>1 DEF ReadConfig

LEMMA EngineLeavesPolicies ==
  ASSUME EngineStep \/ EngineFill
  PROVE  SamePolicies(cn, cn') /\ UNCHANGED clock
<1>1. (\E e : DeliverTo(cn, e)) \/ UNCHANGED cn
  BY DEF EngineStep, EngineFill
<1>2. SamePolicies(cn, cn')
  BY <1>1, DeliveryLeavesPolicies DEF SamePolicies
<1>. QED
  BY <1>2 DEF EngineStep, EngineFill

LEMMA PolicyInvIsKept ==
  ASSUME PolicyInv, [Next]_vars
  PROVE  PolicyInv'
<1>1. CASE UNCHANGED vars
  BY <1>1 DEF vars, PolicyInv, Manned
<1>2. ASSUME NEW g \in DOMAIN Gateways, StopFlag(g) \/ Acceptor(g) \/ Stopper(g)
      PROVE  PolicyInv'
  BY <1>2, AcceptorLeavesPolicies, SamePoliciesKeep
<1>3. ASSUME NEW k \in Conns, ClientConnect(k) \/ ClientHangsUp(k) \/ Reader(k) \/ Writer(k)
      PROVE  PolicyInv'
  <2>1. CASE Quiet(k)
    BY <2>1, QuietLeavesPolicies, SamePoliciesKeep
  <2>2. CASE Displace(k) \/ ReadControl(k) \/ ReadTimesOut(k) \/ Flush(k) \/ Writer(k)
    BY <2>2, ShuttingLeavesPolicies, SamePoliciesKeep
  <2>3. CASE ReadConfig(k)
    BY <2>3, ConfigLeavesPolicies, SamePoliciesKeep
  <2>4. CASE Attach(k)
    BY <2>4, AttachKeepsPolicies
  <2>5. CASE ReadCommand(k)
    BY <2>5, ReadCommandKeepsPolicies
  <2>. QED
    BY <1>3, <2>1, <2>2, <2>3, <2>4, <2>5 DEF Reader, Quiet
<1>4. CASE EngineStep \/ EngineFill
  BY <1>4, EngineLeavesPolicies, SamePoliciesKeep
<1>. QED
  BY <1>1, <1>2, <1>3, <1>4 DEF Next

LEMMA PolicyInvHoldsFirst ==
  ASSUME Init
  PROVE  PolicyInv
<1>1. clock = 0 /\ DOMAIN cn = Conns
  BY DEF Init
<1>2. ASSUME NEW k \in Conns
      PROVE  DOMAIN cn[k] = ConnFields /\ cn[k].s = NewSession(<<0>>, FALSE)
  BY DEF Init, NewConn, ConnFields
<1>3. LET n == NewSession(<<0>>, FALSE) IN DOMAIN n = SessionFields /\ n.pol = NewPolicy
  BY DEF NewSession, SessionFields
<1>4. PolicyOK(NewPolicy, 0)
  BY NewPolicyIsOK
<1>. QED
  BY <1>1, <1>2, <1>3, <1>4 DEF PolicyInv, Manned

(***************************************************************************)
(* A rate-limit refusal says how long to wait, and means it: whatever the  *)
(* frames, bans and expiries so far, the same action sent after exactly    *)
(* the wait that retryAfterNs tells is admitted by tryConsume, and one     *)
(* moment earlier it is refused.                                           *)
(***************************************************************************)
THEOREM TheWaitToldIsExact == Spec => []RetryIsExact
<1>1. Init => PolicyInv
  BY PolicyInvHoldsFirst
<1>2. PolicyInv /\ [Next]_vars => PolicyInv'
  BY PolicyInvIsKept
<1>3. PolicyInv => RetryIsExact
  BY BannedWait, BucketWait DEF PolicyInv, RetryIsExact
<1>. QED
  BY <1>1, <1>2, <1>3, PTL DEF Spec
=============================================================================

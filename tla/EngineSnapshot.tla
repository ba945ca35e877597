--------------------------- MODULE EngineSnapshot ---------------------------
(***************************************************************************)
(* The snapshot an engine writes of itself and the engine a restart rebuilds *)
(* from it (engine/checkpoint.inl, checkpoint_restore.inl and the            *)
(* writeSnapshot and restore of engine/mmp.h, clordid_window.h, pegs.h,      *)
(* stp.h and session.h).                                                    *)
(*                                                                         *)
(* An engine is the record Trading keeps in `eng`; a snapshot is the         *)
(* sequence of records the code appends to the file, in its order.  The      *)
(* batches of a long list are one record, and the structural configuration,  *)
(* which the loading engine is constructed with, is not part of it.          *)
(***************************************************************************)
EXTENDS RestingBook, Conduct

Sorted(ids) == SetToSortSeq(ids, <)
Each(seq, Make(_)) == [n \in DOMAIN seq |-> Make(seq[n])]

-----------------------------------------------------------------------------
(* Writing *)

\* hashBookAndStops: a resting order with its deadline and group, a parked one with the
\* deadline that will be swept and the group its own record names.
HashBookAndStops(e) ==
  [book |-> e.book, due |-> {<<r.id, e.exp[r.id], e.oco.group[r.id]>> : r \in Orders(e.book)},
   stops |-> {<<s, e.exp[s.o.id]>> : s \in e.stops}]

\* stateHash: what is folded into the digest.  The flags fold, the memo of what the feed was
\* told does not; neither do deadlines and groups of orders that are gone.
StateHash(e) ==
  [sess |-> <<e.sess.halted, e.sess.auction, e.sess.delisted, e.sess.until, e.sess.closed>>,
   ref |-> e.ref, last |-> e.last, mark |-> e.mark, now |-> e.now, orders |-> HashBookAndStops(e),
   stp |-> e.stp, pegs |-> e.pegs, fills |-> e.mmp.fills, seen |-> e.seen]

\* Session::snapshotActions, outermost last.
SnapshotActions(s) ==
  <<IF s.halted THEN "Halt" ELSE "Resume">>
  \o SelectSeq(<<"BeginPreOpen", "CloseSession", "Delist">>,
               LAMBDA a : CASE a = "BeginPreOpen" -> s.auction
                            [] a = "CloseSession" -> s.closed
                            [] a = "Delist" -> s.delisted)

\* The configuration travels as the commands that set it.  Of it this model changes the
\* reference of the triggers and the state of the instrument.  Risk limits, STP groups,
\* admission profiles, account limits (checkpoint.inl) and the settings of the maker
\* protection (mmp.h) are constants of the desk here: their records are not written.
WriteConfigSection(e) ==
  <<[kind |-> "ref", ref |-> e.ref]>>
  \o Each(SnapshotActions(e.sess), LAMBDA a : [kind |-> "admin", action |-> a])

\* MmpState::writeSnapshot: an empty window is not written.
WriteMmp(e) ==
  Each(SetToSeq({a \in DOMAIN e.mmp.fills : e.mmp.fills[a] # <<>>}),
       LAMBDA a : [kind |-> "mmp", acct |-> a, fills |-> e.mmp.fills[a]])

\* ClOrdIdWindow::writeSnapshot: each generation that holds an id, with the moment of the
\* last rotation.
WriteClOrdIds(e) ==
  Each(SetToSeq({<<a, g>> \in (DOMAIN e.seen) \X {"cur", "prev"} : e.seen[a][g] # {}}),
       LAMBDA x : [kind |-> "ids", acct |-> x[1], gen |-> x[2], ids |-> e.seen[x[1]][x[2]],
                   at |-> e.seen[x[1]].at])

\* The book best first and oldest first, bids and then asks; the parked orders by id.
WriteBookAndStops(e) ==
  LET Order(side) ==
        Each(e.book[side], LAMBDA r : [kind |-> "order", side |-> side, r |-> r, exp |-> e.exp[r.id],
                                       group |-> e.oco.group[r.id]])
      Stop(id) == CHOOSE s \in e.stops : s.o.id = id
  IN Order("buy") \o Order("sell")
     \o Each(Sorted({s.o.id : s \in e.stops}), LAMBDA id : [kind |-> "stop", s |-> Stop(id)])

\* PegBook::writeSnapshot and StpState::writeSnapshot: what is set, by id.
WritePegs(e) ==
  Each(Sorted({i \in DOMAIN e.pegs : e.pegs[i].ref # "None"}),
       LAMBDA i : [kind |-> "peg", id |-> i, peg |-> e.pegs[i]])
WriteStp(e) ==
  Each(Sorted({i \in DOMAIN e.stp : e.stp[i] # "None"}),
       LAMBDA i : [kind |-> "stp", id |-> i, mode |-> e.stp[i]])

SnapshotEnd(e) ==
  [kind |-> "end", hash |-> StateHash(e), now |-> e.now, last |-> e.last, mark |-> e.mark,
   until |-> e.sess.until]

\* writeSnapshot
WriteSnapshot(e) ==
  WriteConfigSection(e) \o WriteMmp(e) \o WriteClOrdIds(e) \o WriteBookAndStops(e)
  \o WritePegs(e) \o WriteStp(e) \o <<SnapshotEnd(e)>>

-----------------------------------------------------------------------------
(* Applying: x is [ok, e], the engine so far and whether no record was refused *)

\* A book outside an auction is never locked or crossed, so a record that locks it is
\* refused.  (Last look is off.)
Locks(e, side, px) ==
  /\ ~e.sess.auction
  /\ e.book[Opposite(side)] # <<>>
  /\ Ahead(side, px, Head(e.book[Opposite(side)]).px)

\* applyRestoreOrder: to the tail of its level without matching; the self-trade mode follows
\* in a record of its own.
\* Mutant: the deadline is left to be derived again.
RestoreOrderUndated(e, x) ==
  IF IsResting(e.book, x.r.id) \/ Parked(e.stops, x.r.id) \/ Locks(e, x.side, x.r.px) THEN [ok |-> FALSE, e |-> e]
  ELSE [ok |-> TRUE,
        e |-> [e EXCEPT !.book = AddResting(@, x.side, x.r), !.tracked = @ \cup {x.r.id}, !.stp[x.r.id] = "None",
                        !.oco = IF x.group > 0 THEN Link(@, x.r.id, x.group) ELSE @]]

RestoreOrder(e, x) ==
  IF IsResting(e.book, x.r.id) \/ Parked(e.stops, x.r.id) \/ Locks(e, x.side, x.r.px) THEN [ok |-> FALSE, e |-> e]
  ELSE [ok |-> TRUE,
        e |-> [e EXCEPT !.book = AddResting(@, x.side, x.r), !.tracked = @ \cup {x.r.id}, !.stp[x.r.id] = "None",
                        !.exp[x.r.id] = IF x.exp # 0 THEN x.exp ELSE @,
                        !.oco = IF x.group > 0 THEN Link(@, x.r.id, x.group) ELSE @]]

\* applyRestoreStop: parked as it was, nothing fires.
RestoreStop(e, x) ==
  LET o == x.s.o
  IN IF Parked(e.stops, o.id) \/ IsResting(e.book, o.id) THEN [ok |-> FALSE, e |-> e]
     ELSE [ok |-> TRUE,
           e |-> [e EXCEPT !.stops = @ \cup {x.s},
                           !.oco = IF o.group > 0 THEN Link(@, o.id, o.group) ELSE @,
                           !.exp[o.id] = IF o.tif = "GTD" /\ o.exp # 0 THEN o.exp ELSE @]]

\* applyComponentRestore: a peg needs its order.
ComponentRestore(e, x) ==
  [ok |-> x.kind = "peg" => IsResting(e.book, x.id),
   e |-> CASE x.kind = "peg" -> [e EXCEPT !.pegs[x.id] = IF IsResting(e.book, x.id) THEN x.peg ELSE @]
           [] x.kind = "stp" -> [e EXCEPT !.stp[x.id] = x.mode]
           [] x.kind = "mmp" -> [e EXCEPT !.mmp.fills[x.acct] = @ \o x.fills]
           [] x.kind = "ids" -> [e EXCEPT !.seen[x.acct][x.gen] = @ \cup x.ids, !.seen[x.acct].at = x.at]]

\* applySnapshotEnd: counters and prices, the deadline of the pause, the memo, and then the
\* verdict.
ApplySnapshotEnd(e, x) ==
  LET done == [e EXCEPT !.now = x.now, !.last = x.last, !.mark = x.mark,
                        !.sess = Publish([@ EXCEPT !.until = x.until])]
  IN [ok |-> StateHash(done) = x.hash, e |-> done]
=============================================================================

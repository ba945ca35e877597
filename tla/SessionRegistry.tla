--------------------------- MODULE SessionRegistry ---------------------------
(***************************************************************************)
(* The outbound side of a session: one account stream (its counter, its    *)
(* resend log, the writer it is bound to) and the per-connection writers,  *)
(* as operators on a pair [s, w]: the stream and the function from         *)
(* connections to [q, dead].  Every operator is one critical section of    *)
(* the stream's mutex.                                                     *)
(*                                                                         *)
(* q holds a connection's frames from enqueue to the client's read: the    *)
(* writer thread and the socket hold no frame of their own, so a consumer  *)
(* is slow as soon as QueueCap frames are unread.                          *)
(***************************************************************************)
EXTENDS FixAcceptor

CONSTANTS QueueCap,    \* DeliveryConfig::queueCapacity
          LogCap       \* DeliveryConfig::resendLogCapacity

ASSUME DeliveryConfig == QueueCap \in Nat \ {0} /\ LogCap \in Nat

(* An account stream nobody has attached to; writer 0 is no writer. *)
NewStream == [writer |-> 0, enc |-> FALSE, last |-> 0, log |-> <<>>, sp |-> 0]

NewWriter == [q |-> <<>>, dead |-> FALSE]

(* SessionWriter::enqueue: overflow closes the connection. *)
Enqueue(w, k, m) ==
  CASE w[k].dead -> w
    [] ~w[k].dead /\ Len(w[k].q) >= QueueCap -> [w EXCEPT ![k].dead = TRUE]
    [] ~w[k].dead /\ Len(w[k].q) < QueueCap  -> [w EXCEPT ![k].q = Append(@, m)]

(* SessionWriter::kill *)
Kill(w, k) == IF k = 0 THEN w ELSE [w EXCEPT ![k].dead = TRUE]

EnqueueRaw(r, m) ==
  IF r.s.writer = 0 THEN r ELSE [r EXCEPT !.w = Enqueue(@, r.s.writer, m)]

(* Number, log and send one routed event; a stream that never had an       *)
(* encoder numbers nothing, one without a writer logs for the next attach. *)
Deliver(r, e) ==
  IF ~r.s.enc THEN r
  ELSE LET n   == r.s.last + 1
           log == Append(r.s.log, [n |-> n, x |-> e])
           s   == [r.s EXCEPT !.last = n,
                              !.log = IF Len(log) > LogCap THEN Tail(log) ELSE log]
       IN  EnqueueRaw([r EXCEPT !.s = s], [Msg("8", n, FALSE, e) EXCEPT !.sp = r.s.sp])

SendSequencedRaw(r, t, x) ==
  IF r.s.writer = 0 THEN r
  ELSE EnqueueRaw([r EXCEPT !.s.last = @ + 1],
                  [Msg(t, r.s.last + 1, FALSE, x) EXCEPT !.sp = r.s.sp])

ResetStream(r) == [r EXCEPT !.s.last = 0, !.s.log = <<>>, !.s.sp = @ + 1]

(* The older connection of the account is displaced. *)
Attach(r, k) ==
  [s |-> [r.s EXCEPT !.writer = k, !.enc = TRUE], w |-> Kill(r.w, r.s.writer)]

Detach(r, k) == IF r.s.writer = k THEN [r EXCEPT !.s.writer = 0] ELSE r

(* What restoreSeqs puts back: the counter, and neither log nor encoder. *)
RestoreSeqs(sp, last) == [NewStream EXCEPT !.last = last, !.sp = sp]
=============================================================================

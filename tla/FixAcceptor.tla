----------------------------- MODULE FixAcceptor -----------------------------
(***************************************************************************)
(* The venue half of a FIX session: FixConnection over the inbound         *)
(* expectation FixSessionHost keeps per account, as operators.  What a     *)
(* handler sends goes through the SessionRegistry one call at a time, and  *)
(* the matching thread delivers between two of those calls; so a handler's *)
(* outcome holds the list of registry calls still to make:                 *)
(*   [op |-> "admin", t, x]   sendSequencedRaw of an admin message         *)
(*   [op |-> "reset"]         resetStream                                  *)
(*   [op |-> "serve", b]      serveResend reads lastSeq                    *)
(*   [op |-> "slice", b, e]   serveResend reads the log between the two    *)
(*   [op |-> "raw", m]        enqueueRaw of a replayed frame               *)
(***************************************************************************)
EXTENDS FixInitiator

(* FixSessionHost::AccountState before any Logon. *)
NewHost == [in |-> 1, est |-> FALSE]

(* Its entry in the sidecar: only a sequence space that a Logon established *)
(* is written, and comes back established.                                  *)
SerializeHost(h) == [entry |-> IF h.est THEN <<h.in>> ELSE <<>>]
RestoreHost(s) == IF s.entry = <<>> THEN NewHost ELSE [in |-> s.entry[1], est |-> TRUE]

(* A FixConnection just constructed, for a connection just accepted. *)
NewConnection == [on |-> FALSE, lo |-> FALSE, test |-> FALSE, gap |-> FALSE]

Admin(t, x) == [op |-> "admin", t |-> t, x |-> x]

VOutcome(h, f) == [h |-> h, f |-> f, todo |-> <<>>, app |-> <<>>, cod |-> FALSE, over |-> FALSE]

SendAdmin(r, t, x) == [r EXCEPT !.todo = Append(@, Admin(t, x))]

Logout(r) ==
  Over(IF r.f.lo THEN r ELSE SendAdmin([r EXCEPT !.f.lo = TRUE], "5", 0))

RequestResend(r, late) ==
  IF r.f.gap /\ ~late THEN r
  ELSE SendAdmin([r EXCEPT !.f.gap = TRUE], "2", r.h.in)

LogonReply(r, reset) == SendAdmin(r, "A", reset)

(* Every accepted Logon applies tag 20003 (cancel on disconnect). *)
AcceptLogon(r) == [r EXCEPT !.h.est = TRUE, !.f.on = TRUE, !.cod = TRUE]

OnLogon(r, m, late) ==
  CASE m.x = 1 ->
         LogonReply([AcceptLogon(r) EXCEPT !.h.in = m.n + 1,
                                           !.todo = <<[op |-> "reset"]>>], 1)
    [] m.x = 0 /\ m.n < r.h.in -> Logout(r)
    [] m.x = 0 /\ m.n = r.h.in ->
         [LogonReply(AcceptLogon(r), 0) EXCEPT !.h.in = @ + 1]
    [] m.x = 0 /\ m.n > r.h.in ->
         IF r.h.est THEN RequestResend(LogonReply(AcceptLogon(r), 0), late)
                    ELSE Logout(r)

OnSequenceReset(r, m, late) ==
  CASE m.n > r.h.in                   -> RequestResend(r, late)
    [] m.n <= r.h.in /\ m.x > r.h.in  -> [r EXCEPT !.h.in = m.x, !.f.gap = FALSE]
    [] m.n <= r.h.in /\ m.x <= r.h.in -> r

InSequence(r, m) ==
  CASE m.t \in {"0", "A"} -> r
    [] m.t = "1" -> SendAdmin(r, "0", 0)
    [] m.t = "2" -> [r EXCEPT !.todo = <<[op |-> "serve", b |-> m.x]>>]
    [] m.t = "5" -> Over(SendAdmin([r EXCEPT !.f.lo = TRUE], "5", 0))
    [] m.t = "D" -> [r EXCEPT !.app = <<m.x>>]

OnFrameAboveHole(h, f, m, late) ==
  LET r == VOutcome(h, [f EXCEPT !.test = FALSE])
  IN  CASE ~f.on /\ m.t # "A" -> Logout(r)
        [] ~f.on /\ m.t = "A" -> OnLogon(r, m, late)
        [] f.on /\ m.t = "4" -> OnSequenceReset(r, m, late)
        [] f.on /\ m.t # "4" /\ m.n < h.in -> IF m.dup THEN r ELSE Logout(r)
        [] f.on /\ m.t # "4" /\ m.n > h.in -> InSequence(RequestResend(r, late), m)
        [] f.on /\ m.t # "4" /\ m.n = h.in ->
             InSequence([r EXCEPT !.h.in = @ + 1, !.f.gap = FALSE], m)

OnFrame(h, f, m, late) ==
  LET r == VOutcome(h, [f EXCEPT !.test = FALSE])
  IN  CASE ~f.on /\ m.t # "A" -> Logout(r)
        [] ~f.on /\ m.t = "A" -> OnLogon(r, m, late)
        [] f.on /\ m.t = "4" -> OnSequenceReset(r, m, late)
        [] f.on /\ m.t # "4" /\ m.n < h.in -> IF m.dup THEN r ELSE Logout(r)
        [] f.on /\ m.t # "4" /\ m.n > h.in ->
             LET q == RequestResend(r, late)
             IN  IF m.t = "1" THEN SendAdmin(q, "0", 0) ELSE q
        [] f.on /\ m.t # "4" /\ m.n = h.in ->
             InSequence([r EXCEPT !.h.in = @ + 1, !.f.gap = FALSE], m)

(* The frames of a replay, read out of the log in one critical section. *)
SliceFrames(log, b, e) ==
  LET frames == Replay(log, b, e, "8")
  IN  [i \in DOMAIN frames |-> [op |-> "raw", m |-> frames[i]]]
=============================================================================

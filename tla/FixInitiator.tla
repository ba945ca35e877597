---------------------------- MODULE FixInitiator ----------------------------
(***************************************************************************)
(* The client half of a FIX session: FixInitiator, its sequence counters   *)
(* and its resend log, as operators on the initiator's state.  A handler   *)
(* is an operator that maps an outcome (the state so far, the messages     *)
(* handed to the transport, the reports handed to the strategy and whether *)
(* the session is over) to the next outcome.                               *)
(*                                                                         *)
(* A message is [t, n, dup, x, sp]: MsgType (35), MsgSeqNum (34),          *)
(* PossDupFlag (43), and the one field its type is about -- BeginSeqNo of  *)
(* a ResendRequest, NewSeqNo of a GapFill, 1 on a Logon with               *)
(* ResetSeqNumFlag, the order of a "D", the report of an "8".  sp is no    *)
(* field of the wire: it says which sequence space the venue's side was in *)
(* when it sent the message.  The clock is left out: whether HeartBtInt    *)
(* has passed since the last ResendRequest is the argument `late`.         *)
(***************************************************************************)
EXTENDS Integers, Sequences, SequencesExt

CONSTANT ClientLogCap    \* FixInitiatorConfig::resendLogCapacity

ASSUME ClientLogCapAssumption == ClientLogCap \in Nat

Msg(t, n, dup, x) == [t |-> t, n |-> n, dup |-> dup, x |-> x, sp |-> 0]

(***************************************************************************)
(* The frames that answer a ResendRequest for b .. e out of a log of       *)
(* [n, x] entries: the logged messages with their original numbers, and    *)
(* one GapFill over every run of numbers the log does not hold.            *)
(***************************************************************************)
Replay(log, b, e, type) ==
  LET held   == {log[i].n : i \in DOMAIN log}
      starts == {s \in b..e : s \in held \/ s = b \/ s - 1 \in held}
      after(s) == CHOOSE u \in (s + 1)..(e + 1) :
                    /\ u \in starts \cup {e + 1}
                    /\ \A v \in starts : v > s => u <= v
      frame(s) == IF s \in held
                    THEN Msg(type, s, TRUE,
                             log[CHOOSE i \in DOMAIN log : log[i].n = s].x)
                    ELSE Msg("4", s, TRUE, after(s))
  IN  [i \in 1..Len(SetToSortSeq(starts, <)) |->
         frame(SetToSortSeq(starts, <)[i])]

-----------------------------------------------------------------------------
(* A FixInitiator just constructed, and one that restore() gave counters.  *)
NewInitiator(reset) ==
  [on |-> FALSE, lo |-> FALSE, test |-> FALSE, gap |-> FALSE,
   out |-> 1, in |-> 1, log |-> <<>>, reset |-> reset]

Restore(s) == [NewInitiator(FALSE) EXCEPT !.out = s.out, !.in = s.in]

(* The two counters the sidecar keeps. *)
FixSeqState(c) == [out |-> c.out, in |-> c.in]

Outcome(c) == [c |-> c, out |-> <<>>, rep |-> <<>>, over |-> FALSE]

SendAdminLocked(r, t, x) ==
  [r EXCEPT !.c.out = @ + 1, !.out = Append(@, Msg(t, r.c.out, FALSE, x))]

Over(r) == [r EXCEPT !.over = TRUE]

(* setSessionDown takes the session down in the same breath. *)
LogoutLocked(r) ==
  IF r.c.lo THEN r
  ELSE SendAdminLocked([r EXCEPT !.c.lo = TRUE, !.c.on = FALSE], "5", 0)

RequestResendC(r, late) ==
  IF r.c.gap /\ ~late THEN r
  ELSE SendAdminLocked([r EXCEPT !.c.gap = TRUE], "2", r.c.in)

Connect(c) ==
  LET c1 == [c EXCEPT !.on = FALSE, !.lo = FALSE, !.test = FALSE, !.gap = FALSE]
      c2 == IF c.reset THEN [c1 EXCEPT !.out = 1, !.in = 1, !.log = <<>>] ELSE c1
  IN  SendAdminLocked(Outcome(c2), "A", IF c.reset THEN 1 ELSE 0)

(* submit, cancel and replace: logged before the write, whatever it returns. *)
SendApp(c, o) ==
  LET log == Append(c.log, [n |-> c.out, x |-> o])
  IN  [Outcome([c EXCEPT !.out = @ + 1,
                         !.log = IF Len(log) > ClientLogCap THEN Tail(log) ELSE log])
         EXCEPT !.out = <<Msg("D", c.out, FALSE, o)>>]

OnLogonReply(r, m, late) ==
  LET up == [r EXCEPT !.c.on = TRUE]
  IN  CASE m.x = 1        -> [up EXCEPT !.c.in = m.n + 1]
        [] m.x = 0 /\ m.n < r.c.in -> Over(LogoutLocked(up))
        [] m.x = 0 /\ m.n = r.c.in -> [up EXCEPT !.c.in = @ + 1]
        [] m.x = 0 /\ m.n > r.c.in -> RequestResendC(up, late)

OnSequenceResetCAnywhere(r, m, late) ==
  IF m.x > r.c.in THEN [r EXCEPT !.c.in = m.x, !.c.gap = FALSE] ELSE r

OnSequenceResetC(r, m, late) ==
  CASE m.n > r.c.in                   -> RequestResendC(r, late)
    [] m.n <= r.c.in /\ m.x > r.c.in  -> [r EXCEPT !.c.in = m.x, !.c.gap = FALSE]
    [] m.n <= r.c.in /\ m.x <= r.c.in -> r

ServeResendC(r, m) ==
  [r EXCEPT !.out = @ \o Replay(r.c.log, m.x, r.c.out - 1, "D")]

(* A message that carries the expected number. *)
InSequenceC(r, m) ==
  CASE m.t \in {"0", "A"} -> r
    [] m.t = "1"          -> SendAdminLocked(r, "0", 0)
    [] m.t = "2"          -> ServeResendC(r, m)
    [] m.t = "5"          ->
         Over([(IF r.c.lo THEN r ELSE SendAdminLocked([r EXCEPT !.c.lo = TRUE], "5", 0))
                 EXCEPT !.c.on = FALSE])
    [] m.t = "8"          -> [r EXCEPT !.rep = <<m.x>>]

OnFrameC(c, m, late) ==
  LET r == Outcome([c EXCEPT !.test = FALSE])
  IN  CASE ~c.on /\ m.t = "5" -> Over(r)
        [] ~c.on /\ m.t = "A" -> OnLogonReply(r, m, late)
        [] ~c.on /\ m.t \notin {"5", "A"} -> Over(LogoutLocked(r))
        [] c.on /\ m.t = "4" -> OnSequenceResetC(r, m, late)
        [] c.on /\ m.t # "4" /\ m.n < c.in -> IF m.dup THEN r ELSE Over(LogoutLocked(r))
        [] c.on /\ m.t # "4" /\ m.n > c.in ->
             LET q == RequestResendC(r, late)
             IN  IF m.t = "1" THEN SendAdminLocked(q, "0", 0) ELSE q
        [] c.on /\ m.t # "4" /\ m.n = c.in ->
             InSequenceC([r EXCEPT !.c.in = @ + 1, !.c.gap = FALSE], m)

(* The timer pass: a heartbeat after outbound silence; a TestRequest after  *)
(* inbound silence; the end of a session whose TestRequest or Logon nobody  *)
(* answered.                                                                *)
TickHeartbeatC(c) == SendAdminLocked(Outcome(c), "0", 0)
TickTestRequestC(c) == SendAdminLocked(Outcome([c EXCEPT !.test = TRUE]), "1", 0)
TickDeadC(c) == Over(Outcome([c EXCEPT !.on = FALSE]))
=============================================================================

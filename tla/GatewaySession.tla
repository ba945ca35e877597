--------------------------- MODULE GatewaySession ---------------------------
(***************************************************************************)
(* What stands between a connection and the engine, as operators: the      *)
(* admission of one frame (GatewaySession::handle) and the orders a        *)
(* disconnect will pull (DisconnectCanceller).                             *)
(*                                                                         *)
(* A frame is [op, o, acct]: the command, the order it names and the       *)
(* account it names (0 for none).  A session s is                          *)
(* [accounts, pol, cod, placed], accounts a sequence, identity first.      *)
(***************************************************************************)
EXTENDS RateLimitPolicy

NewSession(accounts, cod) ==
  [accounts |-> accounts, pol |-> NewPolicy, cod |-> cod, placed |-> {}]

Identity(s) == Head(s.accounts)

(* actionOf: what a command costs. *)
ActionOf(f) ==
  CASE f.op \in {"new", "quote"} -> "submit"
    [] f.op \in {"cancel", "massCancel"} -> "cancel"
    [] f.op = "lastLook" -> "query"
    [] OTHER -> "replace"

(* rejectEchoOf: the order a refusal names; 0 for a frame that names none   *)
(* or did not decode.                                                       *)
RejectEcho(f) == IF f.op \in {"new", "cancel", "modify", "quote"} THEN f.o ELSE 0

(* A foreign account is refused, an unnamed one stamped with the session's  *)
(* identity; an identity of 0 is trusted.                                   *)
Authorized(s, f) ==
  Identity(s) = 0 \/ f.acct = 0 \/ f.acct \in Range(s.accounts)

Stamped(s, f) ==
  IF Identity(s) # 0 /\ f.acct = 0 THEN [f EXCEPT !.acct = Identity(s)] ELSE f

Refusal(s, f, why) ==
  [s |-> s, cmd |-> <<>>, rej |-> <<[op |-> "rejected", o |-> RejectEcho(f),
                                     acct |-> Identity(s), why |-> why]>>]

(* handle: the session after the frame, the command to submit, if any, and  *)
(* the refusal to answer with, if any.  A frame for a foreign account is    *)
(* refused before it is charged.                                            *)
Admitted(s, f, r) ==
  IF r.ok THEN [s |-> [s EXCEPT !.pol = r.p], cmd |-> <<Stamped(s, f)>>, rej |-> <<>>]
          ELSE Refusal([s EXCEPT !.pol = r.p], f, "RateLimited")

Handle(s, f, now) ==
  CASE f.op = "garbled" -> Refusal(s, f, "MalformedMessage")
    [] f.op # "garbled" /\ ~Authorized(s, f) -> Refusal(s, f, "Unauthenticated")
    [] OTHER -> Admitted(s, f, TryConsume(s.pol, ActionOf(f), now))

(* DisconnectCanceller: track, observe and what flush submits, by id. *)
Track(s, cmd) ==
  IF s.cod /\ cmd.op = "new" THEN [s EXCEPT !.placed = @ \cup {[o |-> cmd.o, acct |-> cmd.acct]}]
                             ELSE s

Untrack(s, o) ==
  IF s.cod THEN [s EXCEPT !.placed = {c \in @ : c.o # o}] ELSE s

ObserveCancelReject(s, e) ==
  IF e.op \in {"executed", "canceled", "rejected", "cancelRejected"} THEN Untrack(s, e.o) ELSE s

Observe(s, e) ==
  IF e.op \in {"executed", "canceled", "rejected"} THEN Untrack(s, e.o) ELSE s

FlushCancels(s) ==
  IF ~s.cod THEN <<>>
  ELSE [i \in 1..Cardinality(s.placed) |->
          LET c == SetToSortSeq(s.placed, LAMBDA a, b : a.o < b.o)[i]
          IN  [op |-> "cancel", o |-> c.o, acct |-> c.acct]]
=============================================================================

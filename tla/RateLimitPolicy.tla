--------------------------- MODULE RateLimitPolicy ---------------------------
(***************************************************************************)
(* RateLimitPolicy as a session holds it (SessionRateLimit::policy): one   *)
(* sliding-window bucket of the Trading family and a ban after consecutive *)
(* refusals.  A policy p is the charges inside the window, the time a ban  *)
(* ends and the run of refusals, counted no further than BanAfter, where   *)
(* the ban decides.                                                        *)
(***************************************************************************)
EXTENDS Integers, Sequences, SequencesExt, FiniteSetsExt

CONSTANTS
  WindowNs,   \* windowNs of the bucket
  Capacity,   \* actionsPerWindow
  BanAfter,   \* banAfterRejects, 0 disables the ban
  BanNs       \* banNs

(* The replace weight fits the bucket, and a ban outlasts the window.       *)
(* setRateLimit enforces neither: a bucket of one action, as in             *)
(* test_venue_session_perimeter.cpp, never admits a replace and tells its   *)
(* client a wait of 0 (README, section 4).                                  *)
ASSUME RateLimit ==
  /\ {WindowNs, BanAfter, BanNs} \subseteq Nat /\ WindowNs > 0
  /\ Capacity \in Nat /\ Capacity >= 2 /\ BanNs >= WindowNs

NewPolicy == [consumed |-> <<>>, ban |-> 0, rejects |-> 0]

(* The family a session's bucket belongs to, and the weights in it.         *)
Trading   == {"submit", "cancel", "replace"}
Weight(a) == IF a = "replace" THEN 2 ELSE 1

\* Mutant: a moment too long in the window.
LiveLate(p, now) == {i \in DOMAIN p.consumed : p.consumed[i].t >= now - WindowNs}

(* The charges inside the window. *)
Live(p, now) == {i \in DOMAIN p.consumed : p.consumed[i].t > now - WindowNs}

(* Charges are taken off the front as long as they have left the window.    *)
Evict(p, now) ==
  LET live == Live(p, now)
  IN  [p EXCEPT !.consumed = IF live = {} THEN <<>> ELSE SubSeq(@, Min(live), Len(@))]

(* What those of the first i charges weigh that are in live. *)
Weights(c, live) ==
  LET sum[i \in 0..Len(c)] == IF i = 0 THEN 0
                              ELSE sum[i - 1] + (IF i \in live THEN c[i].w ELSE 0)
  IN  sum

Used(p) == Weights(p.consumed, DOMAIN p.consumed)[Len(p.consumed)]

Refused(p) == [p EXCEPT !.rejects = Min({@ + 1, BanAfter})]

MaybeArmBan(p, now) ==
  IF BanAfter > 0 /\ BanNs > 0 /\ p.rejects >= BanAfter
    THEN [p EXCEPT !.ban = now + BanNs, !.rejects = 0] ELSE p

Charge(p, a, now) ==
  [p EXCEPT !.consumed = IF a \in Trading THEN Append(@, [t |-> now, w |-> Weight(a)]) ELSE @,
            !.rejects = 0]

(* tryConsume: a ban refuses every family; a family without a bucket is     *)
(* never full.                                                              *)
Charged(p, q, a, now) ==
  CASE p.ban > now -> [ok |-> FALSE, p |-> Refused(p)]
    [] p.ban <= now /\ a \in Trading /\ Used(q) + Weight(a) > Capacity ->
         [ok |-> FALSE, p |-> MaybeArmBan(Refused(q), now)]
    [] OTHER -> [ok |-> TRUE, p |-> Charge(IF a \in Trading THEN q ELSE p, a, now)]

TryConsume(p, a, now) == Charged(p, Evict(p, now), a, now)

(* retryAfterNs: how long until enough of the oldest charges age out. It    *)
(* changes nothing: charges that have left the window are passed over.      *)
RetryAfterBucket(p, a, now) ==
  LET live   == Live(p, now)
      freed  == Weights(p.consumed, live)
      needed == freed[Len(p.consumed)] + Weight(a) - Capacity
  IN  IF a \notin Trading \/ needed <= 0 THEN 0
      ELSE p.consumed[Min({i \in live : freed[i] >= needed})].t + WindowNs - now

RetryAfterNs(p, a, now) ==
  IF p.ban > now THEN p.ban - now ELSE RetryAfterBucket(p, a, now)
=============================================================================

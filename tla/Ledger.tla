------------------------------- MODULE Ledger -------------------------------
(***************************************************************************)
(* Balances (ledger.h): by account and asset, what is available and what is *)
(* reserved.  The venue's own account is the clearing pool and the insurance *)
(* fund; it is account 0.  Amounts are whole money units; a division        *)
(* truncates toward zero, as the code's does.                               *)
(***************************************************************************)
EXTENDS Integers

Venue == 0

Lesser(a, b) == IF a < b THEN a ELSE b
Greater(a, b) == IF a > b THEN a ELSE b
Abs(x) == IF x < 0 THEN -x ELSE x
Sign(x) == IF x > 0 THEN 1 ELSE IF x < 0 THEN -1 ELSE 0
Quotient(a, b) == Sign(a) * (Abs(a) \div b)

Available(l, a, s) == l[a][s].avail
Credit(l, a, s, raw) == [l EXCEPT ![a][s].avail = @ + raw]

\* A refused debit or reservation changes nothing.
CanPay(l, a, s, raw) == Available(l, a, s) >= raw
Debit(l, a, s, raw) == IF CanPay(l, a, s, raw) THEN Credit(l, a, s, -raw) ELSE l

Shift(b, raw) == [avail |-> b.avail + raw, rsvd |-> b.rsvd - raw]
Reserve(l, a, s, raw) == [l EXCEPT ![a][s] = Shift(@, -raw)]
\* Never more than is reserved.
Release(l, a, s, raw) == [l EXCEPT ![a][s] = Shift(@, Lesser(raw, @.rsvd))]

\* A credit the clearing pool mirrors.
Pay(l, a, s, raw) == Credit(Credit(l, a, s, raw), Venue, s, -raw)
=============================================================================

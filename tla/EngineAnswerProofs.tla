------------------------ MODULE EngineAnswerProofs ------------------------
(***************************************************************************)
(* What the answer to a command says is so when it goes out, on top of the *)
(* invariant of MatchingEngineProofs and for the same engines.             *)
(***************************************************************************)
EXTENDS MatchingEngineProofs

(* What an answer means *)

(* The registers know exactly the orders that are there: every order they   *)
(* track is somewhere, and every order in the book and every maker under    *)
(* last look is tracked.  One that sweeps is only if an amend sent it.      *)
Kept(T, b, H, W) ==
  /\ \A id \in T : Present(b, H, W, id)
  /\ \A id : IsResting(b, id) => id \in T
  /\ \A h \in H : h.maker \in T
  /\ \A w \in W : w.o.id \in T => w.amended

(* A hold is not past its deadline, or a step to come resolves it.          *)
Fires(u, h) == u.op = "expireHolds" \/ (u.op = "resolve" /\ u.hid = h.hid)
Due(k, H, t) == \A h \in H : t < h.deadline \/ \E j \in DOMAIN k : Fires(k[j], h)

(* Last look is in use only where the venue has a window for it.            *)
Looks(b, H) == H # {} \/ \E s \in Sides : \E r \in On(b, s) : r.ll

Timely(H, t) == t \in Nat /\ \A h \in H : h.deadline \in Nat

(* The order is nowhere, and nobody tracks it.                              *)
Gone(b, H, T, id) == ~IsResting(b, id) /\ HoldsOf(H, id) = {} /\ id \notin T

(* All that is left are pulls, and they reach every order of the account.   *)
Swept(k, b, H, T, a) ==
  /\ \A i \in DOMAIN k : i # Len(k) => k[i].op = "pull"
  /\ \A h \in H : a \notin {Owner[h.maker], Owner[h.taker]}
  /\ \A id \in Ids : Owner[id] = a =>
       Gone(b, H, T, id) \/ \E i \in DOMAIN k : i # Len(k) /\ k[i].id = id

(* The answer comes last, and next to it what makes it true, unless it is.  *)
Ends(k) == \A i \in DOMAIN k : k[i].op = "answer" <=> i = Len(k)
Before(k, i) == i \in DOMAIN k /\ i + 1 = Len(k)
Withdrawn(k, b, H, T) ==
  \A n \in DOMAIN k : n = Len(k) /\ k[n].cmd = "cancel" =>
    \/ \E i \in DOMAIN k : Before(k, i) /\ k[i].op = "pull" /\ k[i].id = k[n].id
    \/ n = 1 /\ Gone(b, H, T, k[n].id)
Cleaned(k, b, H, T) ==
  \A n \in DOMAIN k : n = Len(k) /\ k[n].cmd = "massCancel" =>
    \/ \E i \in DOMAIN k : Before(k, i) /\ k[i].op = "pullAll" /\ k[i].acct = k[n].acct
    \/ Swept(k, b, H, T, k[n].acct)
Promise(k, b, H, T) == Ends(k) /\ Withdrawn(k, b, H, T) /\ Cleaned(k, b, H, T)

AnswerInv ==
  /\ Kept(reg.tracked, book, holds, SweepsIn(work))
  /\ Timely(holds, now) /\ (Looks(book, holds) => Config.window > 0) /\ Due(work, holds, now)
  /\ Promise(work, book, holds, reg.tracked)

(* Where the last step of the command is once the first is done. *)
Ended(k, p, z) ==
  /\ Len(k) \in Nat \ {0} /\ Len(p) \in Nat /\ Len(z) \in Nat /\ Len(z) = Len(p) + Len(k) - 1
  /\ DOMAIN k = 1..Len(k) /\ DOMAIN p = 1..Len(p) /\ DOMAIN z = 1..Len(z)
  /\ \A i \in DOMAIN p : i \in DOMAIN z /\ z[i] = p[i] /\ (Len(k) > 1 => i < Len(z))
  /\ \A j \in DOMAIN k : j > 1 => Len(p) + j - 1 \in DOMAIN z /\ z[Len(p) + j - 1] = k[j]
  /\ \A i \in DOMAIN z : \/ i \in DOMAIN p /\ z[i] = p[i]
                         \/ \E j \in DOMAIN k : j > 1 /\ i = Len(p) + j - 1 /\ z[i] = k[j]

LEMMA EndedIs ==
  ASSUME NEW k, IsSeq(k), k # <<>>, NEW p, IsSeq(p), NEW z, z = Next1(k, p)
  PROVE  Ended(k, p, z)
<1>1. Shifted(k, p, z)
  BY PushAt
<1>2. /\ Len(k) \in Nat /\ DOMAIN k = 1..Len(k) /\ Len(p) \in Nat /\ DOMAIN p = 1..Len(p)
      /\ Len(z) \in Nat /\ DOMAIN z = 1..Len(z)
  BY <1>1, SeqShape DEF Shifted
<1>3. Len(k) > 0
  BY <1>1, <1>2 DEF Shifted
<1>. DEFINE t == Tail(k)
<1>4. IsSeq(t) /\ Len(t) = Len(k) - 1
  BY TailShape
<1>. HIDE DEF t
<1>5. Len(p \o t) = Len(p) + Len(t)
  BY <1>4, PushShape
<1>6. Len(z) = Len(p) + Len(k) - 1
  BY <1>2, <1>4, <1>5 DEF Next1, t
<1>7. \A i \in DOMAIN p : Len(k) > 1 => i < Len(z)
  BY <1>2, <1>6
<1>8. /\ \A i \in DOMAIN p : i \in DOMAIN z /\ z[i] = p[i]
      /\ \A j \in DOMAIN k : j > 1 => Len(p) + j - 1 \in DOMAIN z /\ z[Len(p) + j - 1] = k[j]
      /\ \A i \in DOMAIN z : \/ i \in DOMAIN p /\ z[i] = p[i]
                             \/ \E j \in DOMAIN k : j > 1 /\ i = Len(p) + j - 1 /\ z[i] = k[j]
  BY <1>1 DEF Shifted
<1>9. \A i \in DOMAIN p : i \in DOMAIN z /\ z[i] = p[i] /\ (Len(k) > 1 => i < Len(z))
  BY <1>7, <1>8
<1>. QED
  BY <1>2, <1>3, <1>6, <1>8, <1>9 DEF Ended

(* Steps that bring no answer of their own leave the answer at the end. *)
LEMMA EndsStay ==
  ASSUME NEW k, IsSeq(k), k # <<>>, Ends(k), NEW p, IsSeq(p),
         \A i \in DOMAIN p : p[i].op # "answer", k[1].op # "answer",
         NEW z, z = Next1(k, p)
  PROVE  /\ Ended(k, p, z) /\ Ends(z) /\ Len(k) > 1 /\ 1 \in DOMAIN k
         /\ Len(z) \in DOMAIN z /\ Len(k) \in DOMAIN k /\ z[Len(z)] = k[Len(k)]
<1>1. Ended(k, p, z)
  BY EndedIs
<1>2. Len(k) > 1 /\ 1 \in DOMAIN k /\ Len(k) \in DOMAIN k
  <2>1. 1 \in DOMAIN k /\ Len(k) \in DOMAIN k /\ Len(k) \in Nat /\ Len(k) >= 1
    BY <1>1 DEF Ended
  <2>2. Len(k) # 1
    BY <2>1 DEF Ends
  <2>. QED
    BY <2>1, <2>2
<1>3. Len(z) = Len(p) + Len(k) - 1 /\ Len(z) \in DOMAIN z /\ z[Len(z)] = k[Len(k)]
  BY <1>1, <1>2 DEF Ended
<1>4. ASSUME NEW i \in DOMAIN z PROVE z[i].op = "answer" <=> i = Len(z)
  <2>1. CASE i \in DOMAIN p /\ z[i] = p[i]
    BY <1>1, <1>2, <2>1 DEF Ended
  <2>2. CASE \E j \in DOMAIN k : j > 1 /\ i = Len(p) + j - 1 /\ z[i] = k[j]
    <3>1. PICK j \in DOMAIN k : j > 1 /\ i = Len(p) + j - 1 /\ z[i] = k[j]
      BY <2>2
    <3>2. k[j].op = "answer" <=> j = Len(k)
      BY DEF Ends
    <3>3. i = Len(z) <=> j = Len(k)
      <4>1. j \in Nat /\ Len(p) \in Nat /\ Len(k) \in Nat
        BY <1>1 DEF Ended
      <4>. QED
        BY <1>3, <3>1, <4>1, SMTT(40)
    <3>. QED
      BY <3>1, <3>2, <3>3
  <2>. QED
    BY <1>1, <2>1, <2>2 DEF Ended
<1>. QED
  BY <1>1, <1>2, <1>3, <1>4 DEF Ends

(* A step that has another one right before the answer keeps it there. *)
LEMMA BeforeStays ==
  ASSUME NEW k, NEW p, NEW z, Ended(k, p, z), NEW i \in DOMAIN k, Before(k, i), i # 1
  PROVE  \E j \in DOMAIN z : Before(z, j) /\ z[j] = k[i]
<1>. DEFINE j == Len(p) + i - 1
<1>1. i > 1 /\ j \in DOMAIN z /\ z[j] = k[i]
  BY DEF Ended
<1>2. /\ i \in Nat /\ Len(k) \in Nat /\ Len(p) \in Nat /\ i + 1 = Len(k)
      /\ Len(z) = Len(p) + Len(k) - 1
  BY DEF Ended, Before
<1>3. j + 1 = Len(z)
  BY <1>2
<1>. QED
  BY <1>1, <1>3 DEF Before

(* Whatever the step does, an answer it is not next to stays as true as it was. *)
LEMMA PromiseStays ==
  ASSUME NEW k, IsSeq(k), k # <<>>, NEW b, NEW H, NEW T, Promise(k, b, H, T),
         NEW p, IsSeq(p), \A i \in DOMAIN p : p[i].op # "answer",
         k[1].op \notin {"pull", "pullAll", "answer"},
         NEW z, z = Next1(k, p), NEW c, NEW G, NEW U
  PROVE  Promise(z, c, G, U)
<1>1. /\ Ended(k, p, z) /\ Ends(z) /\ Len(k) > 1 /\ 1 \in DOMAIN k
      /\ Len(z) \in DOMAIN z /\ Len(k) \in DOMAIN k /\ z[Len(z)] = k[Len(k)]
  BY EndsStay DEF Promise
<1>2. ASSUME NEW n \in DOMAIN z, n = Len(z), z[n].cmd = "cancel"
      PROVE  \E i \in DOMAIN z : Before(z, i) /\ z[i].op = "pull" /\ z[i].id = z[n].id
  <2>1. PICK i \in DOMAIN k : Before(k, i) /\ k[i].op = "pull" /\ k[i].id = k[Len(k)].id
    BY <1>1, <1>2 DEF Promise, Withdrawn
  <2>2. PICK j \in DOMAIN z : Before(z, j) /\ z[j] = k[i]
    BY <1>1, <2>1, BeforeStays
  <2>. QED
    BY <1>1, <1>2, <2>1, <2>2
<1>3. ASSUME NEW n \in DOMAIN z, n = Len(z), z[n].cmd = "massCancel"
      PROVE  \E i \in DOMAIN z : Before(z, i) /\ z[i].op = "pullAll" /\ z[i].acct = z[n].acct
  <2>1. ~Swept(k, b, H, T, k[Len(k)].acct)
    BY <1>1 DEF Swept
  <2>2. PICK i \in DOMAIN k : Before(k, i) /\ k[i].op = "pullAll" /\ k[i].acct = k[Len(k)].acct
    BY <1>1, <1>3, <2>1 DEF Promise, Cleaned
  <2>3. PICK j \in DOMAIN z : Before(z, j) /\ z[j] = k[i]
    BY <1>1, <2>2, BeforeStays
  <2>. QED
    BY <1>1, <1>3, <2>2, <2>3
<1>. QED
  BY <1>1, <1>2, <1>3 DEF Promise, Withdrawn, Cleaned

(* A step of the command resolves what it leaves past its deadline. *)
LEMMA DueStays ==
  ASSUME NEW k, IsSeq(k), k # <<>>, NEW H, NEW t, Due(k, H, t), NEW p, IsSeq(p),
         NEW z, z = Next1(k, p), NEW G,
         \A h \in G : \/ t < h.deadline
                      \/ h \in H /\ (Fires(k[1], h) => \E i \in DOMAIN p : Fires(p[i], h))
  PROVE  Due(z, G, t)
<1>1. Ended(k, p, z)
  BY EndedIs
<1>2. ASSUME NEW h \in G, ~(t < h.deadline) PROVE \E j \in DOMAIN z : Fires(z[j], h)
  <2>1. h \in H /\ (Fires(k[1], h) => \E i \in DOMAIN p : Fires(p[i], h))
    BY <1>2
  <2>2. PICK j \in DOMAIN k : Fires(k[j], h)
    BY <1>2, <2>1 DEF Due
  <2>3. CASE j = 1
    BY <1>1, <2>1, <2>2, <2>3 DEF Ended
  <2>4. CASE j # 1
    <3>1. j > 1
      BY <1>1, <2>4 DEF Ended
    <3>2. Len(p) + j - 1 \in DOMAIN z /\ z[Len(p) + j - 1] = k[j]
      BY <1>1, <3>1 DEF Ended
    <3>. QED
      BY <2>2, <3>2
  <2>. QED
    BY <2>3, <2>4
<1>. QED
  BY <1>2 DEF Due

LEMMA AnswerKeeps ==
  ASSUME venue' = venue, Kept(reg'.tracked, book', holds', SweepsIn(work')), Timely(holds', now'),
         Looks(book', holds') => Config.window > 0, Due(work', holds', now'),
         Promise(work', book', holds', reg'.tracked)
  PROVE  AnswerInv'
<1>1. Config' = Config
  BY DEF Config
<1>. QED
  BY <1>1 DEF AnswerInv, Kept, Due, Promise

LEMMA AnswerIs ==
  ASSUME Inv, AnswerInv, NEW op, Step(op)
  PROVE  /\ work # <<>> /\ IsSeq(work) /\ 1 \in DOMAIN work /\ work[1].op = op /\ Head(work) = work[1]
         /\ Kept(reg.tracked, book, holds, SweepsIn(work)) /\ Due(work, holds, now)
         /\ Timely(holds, now) /\ (Looks(book, holds) => Config.window > 0)
         /\ Promise(work, book, holds, reg.tracked)
  BY AtWork DEF AnswerInv

(* A step that changes nothing but what is left of the command. *)
LEMMA RestAnswers ==
  ASSUME Inv, AnswerInv, NEW op, Step(op), op \notin {"pull", "pullAll", "answer", "sweep"},
         UNCHANGED <<venue, now, book, holds>>, reg'.tracked = reg.tracked,
         NEW p, IsSeq(p), \A i \in DOMAIN p : p[i].op \notin {"answer", "sweep"},
         \A h \in holds : Fires(work[1], h) => now < h.deadline \/ \E i \in DOMAIN p : Fires(p[i], h),
         work' = Next1(work, p)
  PROVE  AnswerInv'
<1>1. /\ work # <<>> /\ IsSeq(work) /\ work[1].op = op
      /\ Kept(reg.tracked, book, holds, SweepsIn(work)) /\ Due(work, holds, now)
      /\ Timely(holds, now) /\ (Looks(book, holds) => Config.window > 0)
      /\ Promise(work, book, holds, reg.tracked)
  BY AnswerIs
<1>. DEFINE z == Next1(work, p)
<1>2. z = Next1(work, p)
  OBVIOUS
<1>. HIDE DEF z
<1>3. SweepsIn(z) = SweepsIn(work)
  BY <1>1, <1>2, PushSweeps
<1>4. Promise(z, book, holds, reg.tracked)
  BY <1>1, <1>2, PromiseStays
<1>5. Due(z, holds, now)
  BY <1>1, <1>2, DueStays
<1>6. work' = z
  BY <1>2
<1>7. /\ Kept(reg'.tracked, book', holds', SweepsIn(work')) /\ Timely(holds', now')
      /\ (Looks(book', holds') => Config.window > 0)
  BY <1>1, <1>3, <1>6
<1>8. Due(work', holds', now') /\ Promise(work', book', holds', reg'.tracked)
  BY <1>4, <1>5, <1>6
<1>. QED
  BY <1>7, <1>8, AnswerKeeps

LEMMA RestDone ==
  ASSUME Inv, AnswerInv, NEW op, Step(op),
         op \notin {"pull", "pullAll", "answer", "sweep", "expireHolds", "resolve"},
         UNCHANGED <<venue, now, book, holds>>, reg'.tracked = reg.tracked, Done
  PROVE  AnswerInv'
<1>. DEFINE p == <<>>
<1>1. IsSeq(p) /\ DOMAIN p = {} /\ work' = Next1(work, p)
  BY NoStep, DoIs DEF Done
<1>2. \A h \in holds : ~Fires(work[1], h)
  BY AtWork DEF Fires
<1>. HIDE DEF p
<1>. QED
  BY <1>1, <1>2, RestAnswers

LEMMA ResolveAllFires ==
  ASSUME NEW H, HoldsOK(H), NEW m, HoldsNumbered(H, m), NEW G \in SUBSET H, NEW accept,
         NEW p, p = ResolveAll(G, accept)
  PROVE  /\ IsSeq(p) /\ \A i \in DOMAIN p : p[i].op = "resolve"
         /\ \A h \in G : \E i \in DOMAIN p : Fires(p[i], h)
<1>1. m \in Nat /\ \A h \in H : h.hid \in 1..m
  BY DEF HoldsNumbered
<1>2. /\ IsSeq(p) /\ \A i \in DOMAIN p : p[i].op = "resolve"
      /\ \A h \in G : \E i \in DOMAIN p : Clears(p[i], h)
  BY <1>1, ResolveAllIs
<1>. QED
  BY <1>2 DEF Clears, Fires

LEMMA ExpireHoldsAnswers == ASSUME Inv, AnswerInv, ExpireHolds PROVE AnswerInv'
<1>. DEFINE G == {h \in holds : now >= h.deadline}
            accept == Config.acceptOnTimeout
            p == ResolveAll(G, accept)
            op == "expireHolds"
<1>1. /\ Step(op) /\ op = "expireHolds" /\ work' = Next1(work, p)
      /\ UNCHANGED <<venue, now, book, holds>> /\ reg'.tracked = reg.tracked
  BY DoIs DEF ExpireHolds
<1>2. G \in SUBSET holds /\ p = ResolveAll(G, accept)
  OBVIOUS
<1>3. \A h \in holds : h \in G \/ now < h.deadline
  BY DEF AnswerInv, Timely
<1>. HIDE DEF G, accept, p, op
<1>4. /\ IsSeq(p) /\ \A i \in DOMAIN p : p[i].op = "resolve"
      /\ \A h \in G : \E i \in DOMAIN p : Fires(p[i], h)
  BY <1>2, HoldsAre, ResolveAllFires
<1>. QED
  BY <1>1, <1>3, <1>4, RestAnswers

LEMMA RejectHoldsForAnswers == ASSUME Inv, AnswerInv, RejectHoldsFor PROVE AnswerInv'
<1>. DEFINE G == HoldsOf(holds, Head(work).id)
            accept == FALSE
            p == ResolveAll(G, accept)
            op == "rejectFor"
<1>1. /\ Step(op) /\ op = "rejectFor" /\ work' = Next1(work, p)
      /\ UNCHANGED <<venue, now, book, holds>> /\ reg'.tracked = reg.tracked
  BY DoIs DEF RejectHoldsFor, RejectAll
<1>2. G \in SUBSET holds /\ p = ResolveAll(G, accept)
  BY DEF HoldsOf
<1>. HIDE DEF G, accept, p, op
<1>3. \A h \in holds : ~Fires(work[1], h)
  BY <1>1, AtWork DEF Fires
<1>4. IsSeq(p) /\ \A i \in DOMAIN p : p[i].op = "resolve"
  BY <1>2, HoldsAre, ResolveAllFires
<1>. QED
  BY <1>1, <1>3, <1>4, RestAnswers

LEMMA RejectHoldsForAccountAnswers == ASSUME Inv, AnswerInv, RejectHoldsForAccount PROVE AnswerInv'
<1>. DEFINE G == {h \in holds : Head(work).acct \in {Owner[h.maker], Owner[h.taker]}}
            accept == FALSE
            p == ResolveAll(G, accept)
            op == "rejectForAccount"
<1>1. /\ Step(op) /\ op = "rejectForAccount" /\ work' = Next1(work, p)
      /\ UNCHANGED <<venue, now, book, holds>> /\ reg'.tracked = reg.tracked
  BY DoIs DEF RejectHoldsForAccount, RejectAll
<1>2. G \in SUBSET holds /\ p = ResolveAll(G, accept)
  OBVIOUS
<1>. HIDE DEF G, accept, p, op
<1>3. \A h \in holds : ~Fires(work[1], h)
  BY <1>1, AtWork DEF Fires
<1>4. IsSeq(p) /\ \A i \in DOMAIN p : p[i].op = "resolve"
  BY <1>2, HoldsAre, ResolveAllFires
<1>. QED
  BY <1>1, <1>3, <1>4, RestAnswers

LEMMA ResolveGoneAnswers == ASSUME Inv, AnswerInv, ResolveGone PROVE AnswerInv'
<1>. DEFINE p == <<>>
            op == "resolve"
<1>1. /\ Step(op) /\ op = "resolve" /\ \A h \in holds : h.hid # Head(work).hid
      /\ UNCHANGED <<venue, now, book, holds>> /\ reg'.tracked = reg.tracked
  BY DEF ResolveGone
<1>2. IsSeq(p) /\ DOMAIN p = {} /\ work' = Next1(work, p)
  BY NoStep, DoIs DEF ResolveGone, Done
<1>. HIDE DEF p, op
<1>3. \A h \in holds : ~Fires(work[1], h)
  BY <1>1, AtWork DEF Fires
<1>. QED
  BY <1>1, <1>2, <1>3, RestAnswers

LEMMA ExpireOrdersAnswers == ASSUME Inv, AnswerInv, ExpireOrders PROVE AnswerInv'
<1>. DEFINE ids == {id \in Ids : reg.expiry[id] > 0 /\ now >= reg.expiry[id]}
            e == "expire"
            p == ForEach(e, ids)
            op == "expireOrders"
<1>1. /\ Step(op) /\ op = "expireOrders" /\ work' = Next1(work, p) /\ e = "expire"
      /\ UNCHANGED <<venue, now, book, holds>> /\ reg'.tracked = reg.tracked
  BY DoIs DEF ExpireOrders
<1>2. ids \in SUBSET Ids /\ p = ForEach(e, ids)
  OBVIOUS
<1>. HIDE DEF ids, p, op, e
<1>3. \A h \in holds : ~Fires(work[1], h)
  BY <1>1, AtWork DEF Fires
<1>4. IsSeq(p) /\ \A i \in DOMAIN p : p[i].op = e
  BY <1>2, IdsFinite, ForEachIs
<1>. QED
  BY <1>1, <1>3, <1>4, RestAnswers

LEMMA ExpireOrderAnswers == ASSUME Inv, AnswerInv, ExpireOrder PROVE AnswerInv'
<1>. DEFINE u == [op |-> "rejectFor", id |-> Head(work).id]
            v == [op |-> "pull", id |-> Head(work).id]
            p == <<u, v>>
            op == "expire"
<1>1. /\ Step(op) /\ op = "expire" /\ work' = Next1(work, p)
      /\ UNCHANGED <<venue, now, book, holds>>
  BY DoIs DEF ExpireOrder
<1>2. reg'.tracked = reg.tracked
  BY DEF ExpireOrder, Inv, RegOK
<1>3. u.op = "rejectFor" /\ v.op = "pull"
  OBVIOUS
<1>. HIDE DEF u, v
<1>4. IsSeq(p) /\ DOMAIN p = 1..2 /\ p[1] = u /\ p[2] = v
  BY TwoSteps
<1>. HIDE DEF p, op
<1>5. \A i \in DOMAIN p : p[i].op \in {"rejectFor", "pull"}
  BY <1>3, <1>4
<1>6. \A h \in holds : ~Fires(work[1], h)
  BY <1>1, AtWork DEF Fires
<1>. QED
  BY <1>1, <1>2, <1>4, <1>5, <1>6, RestAnswers

LEMMA ModifyAnswers == ASSUME Inv, AnswerInv, Modify PROVE AnswerInv'
<1>. DEFINE m == Head(work).m
            u == [op |-> "rejectFor", id |-> m.id]
            v == [op |-> "amend", m |-> m]
            p == <<u, v>>
            op == "modify"
<1>1. /\ Step(op) /\ op = "modify"
      /\ UNCHANGED <<venue, now, book, holds>> /\ reg'.tracked = reg.tracked
  BY DEF Modify
<1>2. Done \/ work' = Next1(work, p)
  BY DoIs DEF Modify
<1>3. u.op = "rejectFor" /\ v.op = "amend"
  OBVIOUS
<1>. HIDE DEF u, v, m
<1>4. IsSeq(p) /\ DOMAIN p = 1..2 /\ p[1] = u /\ p[2] = v
  BY TwoSteps
<1>. HIDE DEF p, op
<1>5. \A i \in DOMAIN p : p[i].op \in {"rejectFor", "amend"}
  BY <1>3, <1>4
<1>6. \A h \in holds : ~Fires(work[1], h)
  BY <1>1, AtWork DEF Fires
<1>7. CASE Done
  BY <1>1, <1>7, RestDone
<1>8. CASE work' = Next1(work, p)
  BY <1>1, <1>4, <1>5, <1>6, <1>8, RestAnswers
<1>. QED
  BY <1>2, <1>7, <1>8

LEMMA RefuseNewAnswers == ASSUME Inv, AnswerInv, RefuseNew PROVE AnswerInv'
<1>. DEFINE op == "new"
<1>1. /\ Step(op) /\ op = "new" /\ Done
      /\ UNCHANGED <<venue, now, book, holds>> /\ reg'.tracked = reg.tracked
  BY DEF RefuseNew
<1>. HIDE DEF op
<1>. QED
  BY <1>1, RestDone

LEMMA AmendUnknownAnswers == ASSUME Inv, AnswerInv, AmendUnknown PROVE AnswerInv'
<1>. DEFINE op == "amend"
<1>1. /\ Step(op) /\ op = "amend" /\ Done
      /\ UNCHANGED <<venue, now, book, holds>> /\ reg'.tracked = reg.tracked
  BY DEF AmendUnknown
<1>. HIDE DEF op
<1>. QED
  BY <1>1, RestDone

(* Behind an order at work there is no sweep but its own. *)
LEMMA OneSweep ==
  ASSUME NEW k, WorkOK(k), k # <<>>, k[1].op \in {"sweep", "new", "modify", "amend"},
         NEW p, IsSeq(p), NEW z, z = Next1(k, p)
  PROVE  SweepsIn(z) = SweepsIn(p)
<1>1. Ended(k, p, z)
  BY EndedIs DEF WorkOK
<1>2. \A j \in DOMAIN k : j > 1 => k[j].op # "sweep"
  <2>1. \A j \in DOMAIN k : j > 1 => Precedes(k[1], k[j])
    BY FirstStep
  <2>. QED
    BY <2>1 DEF Precedes
<1>3. ASSUME NEW w \in SweepsIn(z) PROVE w \in SweepsIn(p)
  <2>1. PICK i \in DOMAIN z : z[i].op = "sweep" /\ w = z[i]
    BY <1>3 DEF SweepsIn
  <2>2. i \in DOMAIN p /\ z[i] = p[i]
    BY <1>1, <1>2, <2>1 DEF Ended
  <2>. QED
    BY <2>1, <2>2 DEF SweepsIn
<1>4. ASSUME NEW w \in SweepsIn(p) PROVE w \in SweepsIn(z)
  <2>1. PICK i \in DOMAIN p : p[i].op = "sweep" /\ w = p[i]
    BY <1>4 DEF SweepsIn
  <2>2. i \in DOMAIN z /\ z[i] = p[i]
    BY <1>1 DEF Ended
  <2>. QED
    BY <2>1, <2>2 DEF SweepsIn
<1>. QED
  BY <1>3, <1>4

(* A step that changes more, but is not next to the answer. *)
LEMMA HandleAnswers ==
  ASSUME Inv, AnswerInv, NEW op, Step(op), op \notin {"pull", "pullAll", "answer"},
         UNCHANGED <<venue, now>>, NEW p, IsSeq(p), \A i \in DOMAIN p : p[i].op # "answer",
         work' = Next1(work, p), Kept(reg'.tracked, book', holds', SweepsIn(work')),
         Looks(book', holds') => Looks(book, holds) \/ Config.window > 0,
         \A h \in holds' :
           \/ h.deadline \in Nat /\ now < h.deadline
           \/ h \in holds /\ (Fires(work[1], h) => \E i \in DOMAIN p : Fires(p[i], h))
  PROVE  AnswerInv'
<1>1. /\ work # <<>> /\ IsSeq(work) /\ work[1].op = op /\ Due(work, holds, now)
      /\ Timely(holds, now) /\ (Looks(book, holds) => Config.window > 0)
      /\ Promise(work, book, holds, reg.tracked)
  BY AnswerIs
<1>. DEFINE z == Next1(work, p)
            c == book'
            G == holds'
            U == reg'.tracked
<1>2. z = Next1(work, p) /\ work' = z
  OBVIOUS
<1>. HIDE DEF z, c, G, U
<1>3. Promise(z, c, G, U)
  BY <1>1, <1>2, PromiseStays
<1>4. Due(z, G, now)
  <2>1. \A h \in G : \/ now < h.deadline
                     \/ h \in holds /\ (Fires(work[1], h) => \E i \in DOMAIN p : Fires(p[i], h))
    BY DEF G
  <2>. QED
    BY <1>1, <1>2, <2>1, DueStays
<1>5. Due(work', holds', now') /\ Promise(work', book', holds', reg'.tracked)
  BY <1>2, <1>3, <1>4 DEF c, G, U
<1>6. Timely(holds', now') /\ (Looks(book', holds') => Config.window > 0)
  BY <1>1 DEF Timely
<1>. QED
  BY <1>5, <1>6, AnswerKeeps

(* Who rests, and who looks, once one order has changed. *)
LEMMA BecomesRests ==
  ASSUME NEW b, BookOK(b), NEW c, BookOK(c), NEW s \in Sides, NEW id, NEW N, Becomes(b, c, s, id, N),
         NEW H, \A n \in N : n.ll => Looks(b, H)
  PROVE  /\ \A j : j # id => (IsResting(c, j) <=> IsResting(b, j))
         /\ IsResting(c, id) <=> N # {}
         /\ Looks(c, H) => Looks(b, H)
<1>1. \A z \in Sides : \A x \in On(c, z) : x \in On(b, z) \/ x \in N
  BY DEF Becomes
<1>2. Looks(c, H) => Looks(b, H)
  BY <1>1 DEF Looks
<1>. QED
  BY <1>2, RestAfter

LEMMA CancelRests ==
  ASSUME NEW b, BookOK(b), NEW id, IsResting(b, id), NEW c, c = Cancel(b, id), NEW H
  PROVE  /\ \A j : j # id => (IsResting(c, j) <=> IsResting(b, j))
         /\ ~IsResting(c, id) /\ (Looks(c, H) => Looks(b, H))
<1>1. PICK s \in Sides : \E r \in On(b, s) : r.id = id
  BY RestingIs
<1>2. PICK r \in On(b, s) : r.id = id
  BY <1>1
<1>3. BookOK(c) /\ Becomes(b, c, s, id, {})
  BY <1>2, CancelKeeps
<1>. DEFINE N == {}
<1>4. Becomes(b, c, s, id, N) /\ N = {} /\ \A n \in N : n.ll => Looks(b, H)
  BY <1>3
<1>. HIDE DEF N
<1>. QED
  BY <1>3, <1>4, BecomesRests

LEMMA SizedRests ==
  ASSUME NEW b, BookOK(b), NEW s \in Sides, NEW r \in On(b, s), NEW c, NEW t, Sized(b, c, s, r, t), NEW H
  PROVE  /\ \A j : j # r.id => (IsResting(c, j) <=> IsResting(b, j))
         /\ IsResting(c, r.id) <=> t > 0
         /\ Looks(c, H) => Looks(b, H)
<1>1. BookOK(c)
  BY DEF Sized
<1>2. CASE t = 0 /\ Becomes(b, c, s, r.id, {})
  <2>. DEFINE N == {}
  <2>1. Becomes(b, c, s, r.id, N) /\ N = {} /\ \A n \in N : n.ll => Looks(b, H)
    BY <1>2
  <2>. HIDE DEF N
  <2>. QED
    BY <1>1, <1>2, <2>1, BecomesRests
<1>3. CASE t > 0 /\ \E n : n.ll = r.ll /\ Becomes(b, c, s, r.id, {n})
  <2>1. PICK n : n.ll = r.ll /\ Becomes(b, c, s, r.id, {n})
    BY <1>3
  <2>. DEFINE N == {n}
  <2>2. Becomes(b, c, s, r.id, N) /\ N # {}
    BY <2>1
  <2>3. \A x \in N : x.ll => Looks(b, H)
    BY <2>1 DEF Looks
  <2>. HIDE DEF N
  <2>. QED
    BY <1>1, <1>3, <2>2, <2>3, BecomesRests
<1>. QED
  BY <1>2, <1>3 DEF Sized

LEMMA ForgetTracked ==
  ASSUME NEW g, RegOK(g), NEW id
  PROVE  Forget(g, id).tracked = g.tracked \ {id}
  BY DEF Forget, RegOK

LEMMA TrackTracked ==
  ASSUME NEW g, RegOK(g), NEW id, NEW mode
  PROVE  Track(g, id, mode).tracked = g.tracked \cup {id}
  BY DEF Track, RegOK

LEMMA AmendInPlaceAnswers == ASSUME Inv, AnswerInv, AmendInPlace PROVE AnswerInv'
<1>. DEFINE m == work[1].m
            r == Find(book, m.id)
            s == SideOf(book, m.id)
            c == Reduce(book, r.id, m.qty)
            op == "amend"
            p == <<>>
<1>1. /\ Step(op) /\ op = "amend" /\ IsResting(book, Head(work).m.id) /\ work' = Next1(work, p)
      /\ UNCHANGED <<venue, now, holds, reg>>
  BY DoIs DEF AmendInPlace, Done
<1>2. /\ work # <<>> /\ work[1].op = "amend" /\ Head(work) = work[1] /\ WorkOK(work)
      /\ m.id \in Ids /\ m.qty \in Nat \ {0}
      /\ Sound(funds, book, holds, {}, tape.netted, {}, 0, {})
      /\ r \in On(book, s) /\ r.id = m.id /\ s \in Sides /\ OrderOK(r)
  BY <1>1, AmendIs
<1>3. KeepsItsPlace(m, r) /\ book' = c
  BY <1>2 DEF AmendInPlace
<1>4. m.qty \in 1..r.leaves /\ r.hidden = 0
  BY <1>2, <1>3 DEF KeepsItsPlace, OrderOK
<1>5. IsSeq(p) /\ DOMAIN p = {}
  BY NoStep
<1>. HIDE DEF m, r, s, c, op, p
<1>6. BookOK(book)
  BY <1>2, SoundBook
<1>7. Sized(book, c, s, r, m.qty)
  BY <1>2, <1>4, <1>6, ReduceKeeps DEF c
<1>8. (\A j : IsResting(c, j) <=> IsResting(book, j)) /\ (Looks(c, holds) => Looks(book, holds))
  <2>1. IsResting(book, r.id) /\ m.qty > 0
    BY <1>2, <1>6, OrderIs
  <2>. QED
    BY <1>2, <1>6, <1>7, <2>1, SizedRests
<1>9. SweepsIn(work') = {} /\ SweepsIn(work) = {}
  <2>1. SweepsIn(p) = {}
    BY <1>5 DEF SweepsIn
  <2>. QED
    BY <1>1, <1>2, <1>5, <2>1, OneSweep, Handled
<1>10. Kept(reg'.tracked, book', holds', SweepsIn(work'))
  BY <1>1, <1>3, <1>8, <1>9 DEF AnswerInv, Kept, Present
<1>11. \A h \in holds : ~Fires(work[1], h)
  BY <1>2 DEF Fires
<1>12. Looks(book', holds') => Looks(book, holds)
  BY <1>1, <1>3, <1>8
<1>. QED
  BY <1>1, <1>5, <1>10, <1>11, <1>12, HandleAnswers

LEMMA AmendReenterAnswers == ASSUME Inv, AnswerInv, AmendReenter PROVE AnswerInv'
<1>. DEFINE m == work[1].m
            r == Find(book, m.id)
            o == Amended(m, r)
            c == Cancel(book, m.id)
            yes == TRUE
            u == Sweep(o, r.cum, yes)
            op == "amend"
<1>1. /\ Step(op) /\ op = "amend" /\ IsResting(book, Head(work).m.id)
      /\ UNCHANGED <<venue, now, holds>>
  BY DEF AmendReenter
<1>2. /\ work # <<>> /\ work[1].op = "amend" /\ Head(work) = work[1] /\ WorkOK(work)
      /\ m.id \in Ids /\ m.qty \in Nat \ {0} /\ HoldsOf(holds, m.id) = {} /\ RegOK(reg)
      /\ Sound(funds, book, holds, {}, tape.netted, {}, 0, {}) /\ IsResting(book, m.id)
  BY <1>1, AmendIs
<1>3. /\ book' = c
      /\ \/ reg' = Forget(reg, m.id) /\ work' = Next1(work, <<>>)
         \/ reg' = reg /\ work' = Next1(work, <<u>>)
  BY <1>2, DoIs DEF AmendReenter, Done
<1>4. u.op = "sweep" /\ u.o.id = m.id /\ u.left = m.qty /\ u.amended
  BY DEF Sweep, Amended
<1>. HIDE DEF m, r, o, c, yes, u, op
<1>5. BookOK(book)
  BY <1>2, SoundBook
<1>6. /\ \A j : j # m.id => (IsResting(c, j) <=> IsResting(book, j))
      /\ ~IsResting(c, m.id) /\ (Looks(c, holds) => Looks(book, holds))
  BY <1>2, <1>5, CancelRests DEF c
<1>7. SweepsIn(work) = {} /\ Kept(reg.tracked, book, holds, {})
  BY <1>1, Handled DEF AnswerInv
<1>8. \A h \in holds : ~Fires(work[1], h) /\ h.maker # m.id
  BY <1>2 DEF Fires, HoldsOf
<1>9. Looks(book', holds') => Looks(book, holds)
  BY <1>1, <1>3, <1>6
<1>10. CASE reg' = Forget(reg, m.id) /\ work' = Next1(work, <<>>)
  <2>. DEFINE p == <<>>
  <2>1. IsSeq(p) /\ DOMAIN p = {} /\ SweepsIn(p) = {} /\ work' = Next1(work, p)
    BY <1>10, NoStep DEF SweepsIn
  <2>. HIDE DEF p
  <2>2. SweepsIn(work') = {}
    BY <1>2, <2>1, OneSweep
  <2>3. reg'.tracked = reg.tracked \ {m.id}
    BY <1>2, <1>10, ForgetTracked
  <2>4. Kept(reg'.tracked, book', holds', SweepsIn(work'))
    BY <1>1, <1>3, <1>6, <1>7, <1>8, <2>2, <2>3 DEF Kept, Present
  <2>. QED
    BY <1>1, <1>8, <1>9, <2>1, <2>4, HandleAnswers
<1>11. CASE reg' = reg /\ work' = Next1(work, <<u>>)
  <2>. DEFINE p == <<u>>
  <2>1. IsSeq(p) /\ DOMAIN p = {1} /\ p[1] = u /\ work' = Next1(work, p)
    BY <1>11, OneStep
  <2>. HIDE DEF p
  <2>2. SweepsIn(p) = {u} /\ \A i \in DOMAIN p : p[i].op # "answer"
    BY <1>4, <2>1 DEF SweepsIn
  <2>3. SweepsIn(work') = {u}
    BY <1>2, <2>1, <2>2, OneSweep
  <2>4. Kept(reg'.tracked, book', holds', {u})
    <3>1. Present(c, holds, {u}, m.id)
      BY <1>2, <1>4 DEF Present
    <3>2. \A id \in reg.tracked : Present(c, holds, {u}, id)
      BY <1>6, <1>7, <3>1 DEF Kept, Present
    <3>. QED
      BY <1>1, <1>3, <1>4, <1>6, <1>7, <1>11, <3>2 DEF Kept
  <2>. QED
    BY <1>1, <1>8, <1>9, <2>1, <2>2, <2>3, <2>4, HandleAnswers
<1>. QED
  BY <1>3, <1>10, <1>11

LEMMA AcceptNewAnswers == ASSUME Inv, AnswerInv, AcceptNew PROVE AnswerInv'
<1>. DEFINE o == work[1].o
            no == FALSE
            u == Sweep(o, 0, no)
            op == "new"
            p == <<u>>
<1>1. /\ Step(op) /\ op = "new" /\ UNCHANGED <<venue, now, book, holds, reg>>
  BY DEF AcceptNew
<1>2. work # <<>> /\ work[1].op = "new" /\ Head(work) = work[1] /\ WorkOK(work)
  BY <1>1, AtWork
<1>3. ~IsResting(book, o.id) /\ HoldsOf(holds, o.id) = {} /\ work' = Next1(work, p)
  BY <1>2, DoIs DEF AcceptNew
<1>4. u.op = "sweep" /\ u.o.id = o.id
  BY DEF Sweep
<1>. HIDE DEF o, no, u, op
<1>5. IsSeq(p) /\ DOMAIN p = {1} /\ p[1] = u
  BY OneStep
<1>. HIDE DEF p
<1>6. SweepsIn(p) = {u} /\ \A i \in DOMAIN p : p[i].op # "answer"
  BY <1>4, <1>5 DEF SweepsIn
<1>7. SweepsIn(work') = {u}
  BY <1>2, <1>3, <1>5, <1>6, OneSweep
<1>8. SweepsIn(work) = {} /\ Kept(reg.tracked, book, holds, {})
  BY <1>1, Handled DEF AnswerInv
<1>9. o.id \notin reg.tracked
  BY <1>3, <1>8 DEF Kept, Present
<1>10. Kept(reg'.tracked, book', holds', {u})
  BY <1>1, <1>4, <1>8, <1>9 DEF Kept, Present
<1>11. \A h \in holds : ~Fires(work[1], h)
  BY <1>2 DEF Fires
<1>. QED
  BY <1>1, <1>3, <1>5, <1>6, <1>7, <1>10, <1>11, HandleAnswers

(* The answer is out: nothing is left of the command. *)
LEMMA AnsweredAnswers == ASSUME Inv, AnswerInv, Answered PROVE AnswerInv'
<1>. DEFINE op == "answer"
            p == <<>>
<1>1. /\ Step(op) /\ op = "answer" /\ UNCHANGED <<venue, now, book, holds, reg>>
      /\ work' = Next1(work, p)
  BY DoIs DEF Answered, Done
<1>2. IsSeq(p) /\ DOMAIN p = {} /\ Len(p) = 0
  BY NoStep
<1>. HIDE DEF op, p
<1>3. /\ work # <<>> /\ IsSeq(work) /\ 1 \in DOMAIN work /\ work[1].op = op
      /\ Kept(reg.tracked, book, holds, SweepsIn(work)) /\ Due(work, holds, now)
      /\ Timely(holds, now) /\ (Looks(book, holds) => Config.window > 0)
      /\ Promise(work, book, holds, reg.tracked)
  BY <1>1, AnswerIs
<1>. DEFINE z == Next1(work, p)
<1>4. z = Next1(work, p) /\ work' = z
  BY <1>1
<1>. HIDE DEF z
<1>5. Len(work) = 1
  BY <1>1, <1>3 DEF Promise, Ends
<1>6. DOMAIN z = {} /\ Len(z) = 0
  <2>1. Ended(work, p, z)
    BY <1>2, <1>3, <1>4, EndedIs
  <2>. QED
    BY <1>2, <1>5, <2>1 DEF Ended
<1>7. SweepsIn(z) = SweepsIn(work)
  BY <1>1, <1>2, <1>3, <1>4, PushSweeps
<1>8. Promise(z, book, holds, reg.tracked)
  BY <1>6 DEF Promise, Ends, Withdrawn, Cleaned
<1>9. \A h \in holds : ~Fires(work[1], h)
  BY <1>1, <1>3 DEF Fires
<1>10. Due(z, holds, now)
  BY <1>2, <1>3, <1>4, <1>9, DueStays
<1>. QED
  BY <1>1, <1>3, <1>4, <1>7, <1>8, <1>10, AnswerKeeps

LEMMA ForEachAll ==
  ASSUME NEW op, NEW ids, IsFiniteSet(ids), ids \in SUBSET Nat, NEW p, p = ForEach(op, ids)
  PROVE  \A x \in ids : \E i \in DOMAIN p : p[i].id = x
<1>. DEFINE s == Ascending(ids)
<1>1. \A x \in ids : \E i \in DOMAIN s : s[i] = x
  BY AscendingIs, ZenonT(60)
<1>2. p = [i \in DOMAIN s |-> [op |-> op, id |-> s[i]]]
  BY DEF ForEach
<1>. HIDE DEF s
<1>. QED
  BY <1>1, <1>2

(* A mass cancel pulls every order its account has. *)
LEMMA PullAllAnswers == ASSUME Inv, AnswerInv, PullAll PROVE AnswerInv'
<1>. DEFINE a == work[1].acct
            ids == {id \in reg.tracked : Owner[id] = a}
            e == "pull"
            p == ForEach(e, ids)
            op == "pullAll"
            T == reg.tracked
<1>1. /\ Step(op) /\ op = "pullAll" /\ UNCHANGED <<venue, now, book, holds, reg>>
  BY DEF PullAll
<1>2. /\ work # <<>> /\ IsSeq(work) /\ 1 \in DOMAIN work /\ work[1].op = op /\ Head(work) = work[1]
      /\ Kept(reg.tracked, book, holds, SweepsIn(work)) /\ Due(work, holds, now)
      /\ Timely(holds, now) /\ (Looks(book, holds) => Config.window > 0)
      /\ Promise(work, book, holds, reg.tracked)
  BY <1>1, AnswerIs
<1>3. work' = Next1(work, p) /\ e = "pull" /\ p = ForEach(e, ids)
  BY <1>2, DoIs DEF PullAll
<1>4. ids \in SUBSET Ids /\ \A id \in T : Owner[id] = a => id \in ids
  BY DEF Inv, RegOK
<1>. HIDE DEF ids, p, op, e
<1>5. /\ IsSeq(p) /\ \A i \in DOMAIN p : p[i].op = e /\ p[i].id \in ids
      /\ \A x \in ids : \E i \in DOMAIN p : p[i].id = x
  BY <1>3, <1>4, IdsFinite, ForEachIs, ForEachAll
<1>. DEFINE z == Next1(work, p)
<1>6. z = Next1(work, p) /\ work' = z
  BY <1>3
<1>. HIDE DEF z
<1>7. /\ Ended(work, p, z) /\ Ends(z) /\ Len(work) > 1 /\ 1 \in DOMAIN work
      /\ Len(z) \in DOMAIN z /\ Len(work) \in DOMAIN work /\ z[Len(z)] = work[Len(work)]
  BY <1>1, <1>2, <1>3, <1>5, <1>6, EndsStay DEF Promise
<1>8. SweepsIn(z) = SweepsIn(work)
  BY <1>1, <1>2, <1>3, <1>5, <1>6, PushSweeps
<1>9. Due(z, holds, now)
  <2>1. \A h \in holds : ~Fires(work[1], h)
    BY <1>1, <1>2 DEF Fires
  <2>. QED
    BY <1>2, <1>5, <1>6, <2>1, DueStays
<1>10. \A h \in holds : a \notin {Owner[h.maker], Owner[h.taker]}
  BY <1>1, <1>2, FirstNeedsNone DEF Needs
<1>11. \A id \in Ids : Owner[id] = a => Gone(book, holds, T, id) \/ id \in ids
  <2>1. SUFFICES ASSUME NEW id \in Ids, Owner[id] = a, id \notin ids PROVE Gone(book, holds, T, id)
    OBVIOUS
  <2>2. id \notin T
    BY <1>4, <2>1
  <2>3. ~IsResting(book, id)
    BY <1>2, <2>2 DEF Kept
  <2>4. HoldsOf(holds, id) = {}
    BY <1>10, <2>1 DEF HoldsOf
  <2>. QED
    BY <2>2, <2>3, <2>4 DEF Gone
<1>12. Withdrawn(z, book, holds, T)
  <2>1. SUFFICES ASSUME NEW n \in DOMAIN z, n = Len(z), z[n].cmd = "cancel"
                 PROVE  \E i \in DOMAIN z : Before(z, i) /\ z[i].op = "pull" /\ z[i].id = z[n].id
    BY DEF Withdrawn
  <2>2. PICK i \in DOMAIN work : Before(work, i) /\ work[i].op = "pull" /\ work[i].id = work[Len(work)].id
    BY <1>2, <1>7, <2>1 DEF Promise, Withdrawn
  <2>3. PICK j \in DOMAIN z : Before(z, j) /\ z[j] = work[i]
    BY <1>1, <1>2, <1>7, <2>2, BeforeStays
  <2>. QED
    BY <1>7, <2>1, <2>2, <2>3
<1>13. Cleaned(z, book, holds, T)
  <2>1. SUFFICES ASSUME NEW n \in DOMAIN z, n = Len(z), z[n].cmd = "massCancel"
                 PROVE  \/ \E i \in DOMAIN z : Before(z, i) /\ z[i].op = "pullAll" /\ z[i].acct = z[n].acct
                        \/ Swept(z, book, holds, T, z[n].acct)
    BY DEF Cleaned
  <2>2. ~Swept(work, book, holds, T, work[Len(work)].acct)
    BY <1>1, <1>2, <1>7 DEF Swept
  <2>3. PICK i \in DOMAIN work : Before(work, i) /\ work[i].op = "pullAll" /\ work[i].acct = work[Len(work)].acct
    BY <1>2, <1>7, <2>1, <2>2 DEF Promise, Cleaned
  <2>4. CASE i # 1
    <3>1. PICK j \in DOMAIN z : Before(z, j) /\ z[j] = work[i]
      BY <1>7, <2>3, <2>4, BeforeStays
    <3>. QED
      BY <1>7, <2>1, <2>3, <3>1
  <2>5. CASE i = 1
    <3>1. z[n].acct = a /\ Len(work) = 2
      BY <1>7, <2>1, <2>3, <2>5 DEF Before
    <3>2. \A j \in DOMAIN z : j # Len(z) => j \in DOMAIN p /\ z[j] = p[j]
      BY <1>7, <3>1 DEF Ended
    <3>3. \A j \in DOMAIN p : j \in DOMAIN z /\ j # Len(z) /\ z[j] = p[j]
      BY <1>7, <3>1 DEF Ended
    <3>4. \A j \in DOMAIN z : j # Len(z) => z[j].op = "pull"
      BY <1>3, <1>5, <3>2
    <3>5. \A id \in ids : \E j \in DOMAIN z : j # Len(z) /\ z[j].id = id
      BY <1>5, <3>3
    <3>. QED
      BY <1>10, <1>11, <3>1, <3>4, <3>5 DEF Swept
  <2>. QED
    BY <2>4, <2>5
<1>14. Promise(z, book, holds, T)
  BY <1>7, <1>12, <1>13 DEF Promise
<1>. QED
  BY <1>1, <1>2, <1>6, <1>8, <1>9, <1>14, AnswerKeeps

(* A pull leaves nothing of its order, and brings none back. *)
LEMMA PullLeaves ==
  ASSUME Inv, AnswerInv, Pull
  PROVE  /\ Gone(book', holds, reg'.tracked, work[1].id)
         /\ \A j : j # work[1].id => /\ IsResting(book', j) <=> IsResting(book, j)
                                     /\ j \in reg'.tracked <=> j \in reg.tracked
         /\ Looks(book', holds) => Looks(book, holds)
<1>. DEFINE id == work[1].id
            op == "pull"
<1>1. Step(op) /\ op = "pull"
  BY DEF Pull
<1>. HIDE DEF op
<1>2. work # <<>> /\ work[1].op = op /\ Head(work) = work[1]
  BY <1>1, AtWork
<1>3. /\ Sound(funds, book, holds, SweepsIn(work), tape.netted, {}, 0, {}) /\ RegOK(reg)
      /\ SweepsIn(work) = {}
  BY <1>1, Handled
<1>4. HoldsOf(holds, id) = {}
  <2>1. \A h \in holds : id \notin {h.maker, h.taker}
    BY <1>1, <1>2, FirstNeedsNone DEF Needs
  <2>. QED
    BY <2>1 DEF HoldsOf
<1>5. CASE ~IsResting(book, id)
  <2>1. UNCHANGED <<book, reg>>
    BY <1>2, <1>5 DEF Pull
  <2>2. id \notin reg.tracked
    BY <1>3, <1>4, <1>5 DEF AnswerInv, Kept, Present
  <2>. QED
    BY <1>4, <1>5, <2>1, <2>2 DEF Gone
<1>6. CASE IsResting(book, id)
  <2>1. book' = Cancel(book, id) /\ reg' = Forget(reg, id)
    BY <1>2, <1>6 DEF Pull
  <2>2. BookOK(book)
    BY <1>3, SoundBook
  <2>. HIDE DEF id
  <2>3. reg'.tracked = reg.tracked \ {id}
    BY <1>3, <2>1, ForgetTracked
  <2>4. /\ \A j : j # id => (IsResting(book', j) <=> IsResting(book, j))
        /\ ~IsResting(book', id) /\ (Looks(book', holds) => Looks(book, holds))
    BY <1>6, <2>1, <2>2, CancelRests
  <2>. QED
    BY <1>4, <2>3, <2>4 DEF Gone, id
<1>. QED
  BY <1>5, <1>6

LEMMA PullAnswers == ASSUME Inv, AnswerInv, Pull PROVE AnswerInv'
<1>. DEFINE op == "pull"
            p == <<>>
            id == work[1].id
            T == reg.tracked
            c == book'
            U == reg'.tracked
<1>1. /\ Step(op) /\ op = "pull" /\ UNCHANGED <<venue, now, holds>> /\ work' = Next1(work, p)
  BY DoIs DEF Pull, Done
<1>2. IsSeq(p) /\ DOMAIN p = {} /\ Len(p) = 0
  BY NoStep
<1>3. /\ Gone(c, holds, U, id) /\ (Looks(c, holds) => Looks(book, holds))
      /\ \A j : j # id => (IsResting(c, j) <=> IsResting(book, j)) /\ (j \in U <=> j \in T)
  BY PullLeaves
<1>4. book' = c /\ reg'.tracked = U
  OBVIOUS
<1>. HIDE DEF op, p, id, T, c, U
<1>5. /\ work # <<>> /\ IsSeq(work) /\ 1 \in DOMAIN work /\ work[1].op = op
      /\ Kept(T, book, holds, SweepsIn(work)) /\ Due(work, holds, now)
      /\ Timely(holds, now) /\ (Looks(book, holds) => Config.window > 0)
      /\ Promise(work, book, holds, T)
  BY <1>1, AnswerIs DEF T
<1>. DEFINE z == Next1(work, p)
<1>6. z = Next1(work, p) /\ work' = z
  BY <1>1
<1>. HIDE DEF z
<1>7. /\ Ended(work, p, z) /\ Ends(z) /\ Len(work) > 1 /\ 1 \in DOMAIN work
      /\ Len(z) \in DOMAIN z /\ Len(work) \in DOMAIN work /\ z[Len(z)] = work[Len(work)]
  BY <1>1, <1>2, <1>5, <1>6, EndsStay DEF Promise
<1>8. SweepsIn(z) = SweepsIn(work) /\ SweepsIn(work) = {}
  BY <1>1, <1>2, <1>5, <1>6, PushSweeps, Handled
<1>9. Due(z, holds, now)
  <2>1. \A h \in holds : ~Fires(work[1], h)
    BY <1>1, <1>5 DEF Fires
  <2>. QED
    BY <1>2, <1>5, <1>6, <2>1, DueStays
<1>10. Kept(U, c, holds, SweepsIn(z))
  <2>1. HoldsOf(holds, id) = {} /\ ~IsResting(c, id) /\ id \notin U
    BY <1>3 DEF Gone
  <2>2. \A h \in holds : h.maker # id
    BY <2>1 DEF HoldsOf
  <2>. QED
    BY <1>3, <1>5, <1>8, <2>1, <2>2 DEF Kept, Present
<1>11. \A j : Gone(book, holds, T, j) => Gone(c, holds, U, j)
  BY <1>3 DEF Gone
<1>12. Withdrawn(z, c, holds, U)
  <2>1. SUFFICES ASSUME NEW n \in DOMAIN z, n = Len(z), z[n].cmd = "cancel"
                 PROVE  \/ \E i \in DOMAIN z : Before(z, i) /\ z[i].op = "pull" /\ z[i].id = z[n].id
                        \/ n = 1 /\ Gone(c, holds, U, z[n].id)
    BY DEF Withdrawn
  <2>2. PICK i \in DOMAIN work : Before(work, i) /\ work[i].op = "pull" /\ work[i].id = work[Len(work)].id
    BY <1>5, <1>7, <2>1 DEF Promise, Withdrawn
  <2>3. CASE i # 1
    <3>1. PICK j \in DOMAIN z : Before(z, j) /\ z[j] = work[i]
      BY <1>7, <2>2, <2>3, BeforeStays
    <3>. QED
      BY <1>7, <2>1, <2>2, <3>1
  <2>4. CASE i = 1
    <3>1. Len(work) = 2 /\ z[n].id = id
      BY <1>7, <2>1, <2>2, <2>4 DEF Before, id
    <3>2. n = 1
      BY <1>2, <1>7, <2>1, <3>1 DEF Ended
    <3>. QED
      BY <1>3, <3>1, <3>2
  <2>. QED
    BY <2>3, <2>4
<1>13. Cleaned(z, c, holds, U)
  <2>. DEFINE a == work[Len(work)].acct
  <2>1. SUFFICES ASSUME NEW n \in DOMAIN z, n = Len(z), z[n].cmd = "massCancel"
                 PROVE  \/ \E i \in DOMAIN z : Before(z, i) /\ z[i].op = "pullAll" /\ z[i].acct = z[n].acct
                        \/ Swept(z, c, holds, U, z[n].acct)
    BY DEF Cleaned
  <2>2. z[n].acct = a
    BY <1>7, <2>1
  <2>3. \/ \E i \in DOMAIN work : Before(work, i) /\ work[i].op = "pullAll" /\ work[i].acct = a
        \/ Swept(work, book, holds, T, a)
    BY <1>5, <1>7, <2>1 DEF Promise, Cleaned
  <2>. HIDE DEF a
  <2>4. CASE \E i \in DOMAIN work : Before(work, i) /\ work[i].op = "pullAll" /\ work[i].acct = a
    <3>1. PICK i \in DOMAIN work : Before(work, i) /\ work[i].op = "pullAll" /\ work[i].acct = a
      BY <2>4
    <3>2. PICK j \in DOMAIN z : Before(z, j) /\ z[j] = work[i]
      BY <1>1, <1>5, <1>7, <3>1, BeforeStays
    <3>. QED
      BY <2>2, <3>1, <3>2
  <2>5. CASE Swept(work, book, holds, T, a)
    <3>1. /\ Len(work) \in Nat /\ Len(z) = Len(work) - 1 /\ DOMAIN work = 1..Len(work)
          /\ \A j \in DOMAIN work : j > 1 => j - 1 \in DOMAIN z /\ z[j - 1] = work[j]
          /\ \A i \in DOMAIN z : \E j \in DOMAIN work : j > 1 /\ i = j - 1 /\ z[i] = work[j]
      BY <1>2, <1>7 DEF Ended
    <3>2. \A i \in DOMAIN z : i # Len(z) => z[i].op = "pull"
      <4>1. SUFFICES ASSUME NEW i \in DOMAIN z, i # Len(z) PROVE z[i].op = "pull"
        OBVIOUS
      <4>2. PICK j \in DOMAIN work : j > 1 /\ i = j - 1 /\ z[i] = work[j]
        BY <3>1
      <4>3. j # Len(work)
        BY <3>1, <4>1, <4>2
      <4>. QED
        BY <2>5, <4>2, <4>3 DEF Swept
    <3>3. ASSUME NEW j \in Ids, Owner[j] = a, ~Gone(c, holds, U, j)
          PROVE  \E i \in DOMAIN z : i # Len(z) /\ z[i].id = j
      <4>1. PICK i \in DOMAIN work : i # Len(work) /\ work[i].id = j
        BY <1>11, <2>5, <3>3 DEF Swept
      <4>2. i # 1
        BY <1>3, <3>3, <4>1 DEF id
      <4>3. i - 1 \in DOMAIN z /\ z[i - 1] = work[i] /\ i - 1 # Len(z)
        BY <3>1, <4>1, <4>2
      <4>. QED
        BY <4>1, <4>3
    <3>4. \A h \in holds : a \notin {Owner[h.maker], Owner[h.taker]}
      BY <2>5 DEF Swept
    <3>. QED
      BY <2>2, <3>2, <3>3, <3>4 DEF Swept
  <2>. QED
    BY <2>3, <2>4, <2>5
<1>14. Promise(z, c, holds, U)
  BY <1>7, <1>12, <1>13 DEF Promise
<1>. QED
  BY <1>1, <1>3, <1>4, <1>5, <1>6, <1>9, <1>10, <1>14, AnswerKeeps

LEMMA InitAnswers == ASSUME Init PROVE AnswerInv
<1>1. /\ holds = {} /\ reg.tracked = {} /\ now = 0 /\ work = <<>>
      /\ \A s \in Sides : book[s] = <<>>
  BY DEF Init, EmptyBook
<1>2. DOMAIN work = {} /\ Len(work) = 0
  BY <1>1, NoStep
<1>3. \A s \in Sides : On(book, s) = {}
  BY <1>1, NoStep DEF On
<1>4. \A id : ~IsResting(book, id)
  BY <1>3, RestingIs
<1>5. SweepsIn(work) = {}
  BY <1>2 DEF SweepsIn
<1>6. Kept(reg.tracked, book, holds, SweepsIn(work))
  BY <1>1, <1>4, <1>5 DEF Kept
<1>7. Timely(holds, now) /\ ~Looks(book, holds) /\ Due(work, holds, now)
  BY <1>1, <1>3 DEF Timely, Looks, Due
<1>8. Promise(work, book, holds, reg.tracked)
  BY <1>2 DEF Promise, Ends, Withdrawn, Cleaned
<1>. QED
  BY <1>6, <1>7, <1>8 DEF AnswerInv

(* A command ends with what makes its answer true. *)
Leads(p, done) ==
  /\ done.op = "answer" /\ \A i \in DOMAIN p : p[i].op # "answer"
  /\ done.cmd = "cancel" =>
       Len(p) \in DOMAIN p /\ p[Len(p)].op = "pull" /\ p[Len(p)].id = done.id
  /\ done.cmd = "massCancel" =>
       Len(p) \in DOMAIN p /\ p[Len(p)].op = "pullAll" /\ p[Len(p)].acct = done.acct

LEMMA SubmitAnswers ==
  ASSUME Inv, AnswerInv, NEW steps, Listed(steps, holds), NEW done, Leads(steps, done),
         Submit(steps, done)
  PROVE  AnswerInv'
<1>. DEFINE x == [op |-> "expireHolds"]
            y == [op |-> "expireOrders"]
            p == <<x, y>>
            q == p \o steps
            l == <<done>>
            z == q \o l
<1>1. x.op = "expireHolds" /\ y.op = "expireOrders"
  OBVIOUS
<1>. HIDE DEF x, y
<1>2. IsSeq(p) /\ DOMAIN p = 1..2 /\ p[1] = x /\ p[2] = y /\ Len(p) = 2
  BY TwoSteps
<1>3. IsSeq(l) /\ DOMAIN l = {1} /\ l[1] = done /\ Len(l) = 1
  BY OneStep
<1>4. work' = z
  BY DEF Submit, x, y
<1>5. /\ work = <<>> /\ UNCHANGED <<venue, book, holds, reg>> /\ now' \in {now, now + 1}
  BY DEF Submit, Idle
<1>6. z = q \o l /\ q = p \o steps
  OBVIOUS
<1>. HIDE DEF p, q, l, z
<1>7. IsSeq(steps) /\ \A i \in DOMAIN steps : steps[i].op # "sweep"
  BY DEF Listed, WorkOK
<1>8. Len(steps) \in Nat /\ DOMAIN steps = 1..Len(steps)
  BY <1>7, SeqShape
<1>9. Joined(p, steps, q) /\ IsSeq(q) /\ Len(q) = Len(steps) + 2
  <2>1. IsSeq(p \o steps) /\ Len(p \o steps) = Len(p) + Len(steps)
    BY <1>2, <1>7, PushShape
  <2>2. Len(q) = Len(steps) + 2 /\ IsSeq(q)
    BY <1>2, <1>6, <1>8, <2>1
  <2>. QED
    BY <1>2, <1>6, <1>7, <2>2, JoinAt
<1>10. Joined(q, l, z) /\ Len(z) = Len(steps) + 3 /\ DOMAIN z = 1..Len(z)
  <2>1. IsSeq(q \o l) /\ Len(q \o l) = Len(q) + Len(l)
    BY <1>3, <1>9, PushShape
  <2>2. Len(z) = Len(steps) + 3 /\ IsSeq(z)
    BY <1>3, <1>6, <1>8, <1>9, <2>1
  <2>3. DOMAIN z = 1..Len(z)
    BY <2>2, SeqShape
  <2>. QED
    BY <1>3, <1>6, <1>9, <2>2, <2>3, JoinAt
<1>11. DOMAIN q = 1..(Len(steps) + 2)
  BY <1>9, SeqShape
<1>12. z[Len(z)] = done /\ Len(z) \in DOMAIN z
  <2>1. Len(q) + 1 \in DOMAIN z /\ z[Len(q) + 1] = done
    BY <1>3, <1>10 DEF Joined
  <2>2. Len(q) + 1 = Len(z)
    BY <1>8, <1>9, <1>10
  <2>. QED
    BY <2>1, <2>2
<1>13. \A i \in DOMAIN z : i # Len(z) => i \in DOMAIN q /\ z[i] = q[i]
  <2>1. SUFFICES ASSUME NEW i \in DOMAIN z, i # Len(z) PROVE i \in DOMAIN q /\ z[i] = q[i]
    OBVIOUS
  <2>2. i \in DOMAIN q
    BY <1>8, <1>10, <1>11, <2>1
  <2>. QED
    BY <1>10, <2>2 DEF Joined
<1>14. \A i \in DOMAIN q : q[i].op \notin {"answer", "sweep"}
  <2>1. \A i \in DOMAIN p : p[i].op \in {"expireHolds", "expireOrders"}
    BY <1>1, <1>2
  <2>2. \A i \in DOMAIN steps : steps[i].op \notin {"answer", "sweep"}
    BY <1>7 DEF Leads
  <2>. QED
    BY <1>9, <2>1, <2>2 DEF Joined
<1>15. Ends(z)
  BY <1>12, <1>13, <1>14 DEF Ends, Leads
<1>16. SweepsIn(z) = {} /\ SweepsIn(work) = {}
  <2>1. \A i \in DOMAIN z : z[i].op # "sweep"
    BY <1>12, <1>13, <1>14 DEF Leads
  <2>2. DOMAIN work = {}
    BY <1>5, NoStep
  <2>. QED
    BY <2>1, <2>2 DEF SweepsIn
<1>17. Due(z, holds, now')
  <2>1. 1 \in DOMAIN z /\ z[1] = x
    <3>1. 1 \in DOMAIN p /\ p[1] = x
      BY <1>2
    <3>2. 1 \in DOMAIN q /\ q[1] = x
      BY <1>9, <3>1 DEF Joined
    <3>. QED
      BY <1>10, <3>2 DEF Joined
  <2>2. \A h \in holds : Fires(z[1], h)
    BY <1>1, <2>1 DEF Fires
  <2>. QED
    BY <2>1, <2>2 DEF Due
<1>18. ASSUME Len(steps) \in DOMAIN steps
       PROVE  \E i \in DOMAIN z : Before(z, i) /\ z[i] = steps[Len(steps)]
  <2>. DEFINE i == Len(p) + Len(steps)
  <2>1. i \in DOMAIN q /\ q[i] = steps[Len(steps)]
    BY <1>9, <1>18 DEF Joined
  <2>2. i \in DOMAIN z /\ z[i] = q[i]
    BY <1>10, <2>1 DEF Joined
  <2>3. i + 1 = Len(z)
    BY <1>2, <1>8, <1>10
  <2>. QED
    BY <2>1, <2>2, <2>3 DEF Before
<1>. DEFINE T == reg.tracked
<1>19. Withdrawn(z, book, holds, T) /\ Cleaned(z, book, holds, T)
  BY <1>12, <1>18 DEF Withdrawn, Cleaned, Leads
<1>20. Promise(z, book, holds, T)
  BY <1>15, <1>19 DEF Promise
<1>21. Kept(T, book, holds, SweepsIn(work)) /\ Timely(holds, now) /\ (Looks(book, holds) => Config.window > 0)
  BY DEF AnswerInv
<1>22. Timely(holds, now')
  BY <1>5, <1>21 DEF Timely
<1>. QED
  BY <1>4, <1>5, <1>16, <1>17, <1>20, <1>21, <1>22, AnswerKeeps

LEMMA AnswerFields ==
  ASSUME NEW cmd, NEW id, NEW acct, NEW u, u = Answer(cmd, id, acct)
  PROVE  u.op = "answer" /\ u.cmd = cmd /\ u.id = id /\ u.acct = acct
  BY DEF Answer

LEMMA PlainLeads ==
  ASSUME NEW p, \A i \in DOMAIN p : p[i].op # "answer", NEW cmd, cmd \notin {"cancel", "massCancel"},
         NEW id, NEW acct, NEW u, u = Answer(cmd, id, acct)
  PROVE  Leads(p, u)
  BY AnswerFields DEF Leads

LEMMA SubmitNewAnswers == ASSUME Inv, AnswerInv, SubmitNew PROVE AnswerInv'
<1>1. PICK o \in Config.orders :
        Submit(<<[op |-> "new", o |-> o]>>, Answer("new", o.id, Owner[o.id]))
  BY DEF SubmitNew
<1>. DEFINE u == [op |-> "new", o |-> o]
            p == <<u>>
            cmd == "new"
            done == Answer(cmd, o.id, Owner[o.id])
<1>2. u.op = "new" /\ u.o = o /\ NewOrderOK(o) /\ cmd = "new"
  BY VenueIs DEF Inv
<1>3. Submit(p, done) /\ done = Answer(cmd, o.id, Owner[o.id])
  BY <1>1
<1>. HIDE DEF u, cmd, done
<1>4. StepOK(u) /\ u.op # "sweep" /\ \A h \in holds : ~Needs(u, h)
  BY <1>2, NewListed
<1>5. Listed(p, holds) /\ DOMAIN p = {1} /\ p[1] = u
  BY <1>4, ListOfOne, OneStep
<1>. HIDE DEF p
<1>6. Leads(p, done)
  BY <1>2, <1>3, <1>5, PlainLeads
<1>. QED
  BY <1>3, <1>5, <1>6, SubmitAnswers

LEMMA SubmitModifyAnswers == ASSUME Inv, AnswerInv, SubmitModify PROVE AnswerInv'
<1>1. PICK m \in Config.amends :
        Submit(<<[op |-> "modify", m |-> m]>>, Answer("modify", m.id, Owner[m.id]))
  BY DEF SubmitModify
<1>. DEFINE u == [op |-> "modify", m |-> m]
            p == <<u>>
            cmd == "modify"
            done == Answer(cmd, m.id, Owner[m.id])
<1>2. /\ u.op = "modify" /\ u.m = m /\ m.id \in Ids /\ m.px \in 0..MaxPx /\ m.qty \in Nat \ {0}
      /\ cmd = "modify"
  BY VenueIs DEF Inv
<1>3. Submit(p, done) /\ done = Answer(cmd, m.id, Owner[m.id])
  BY <1>1
<1>. HIDE DEF u, cmd, done
<1>4. StepOK(u) /\ u.op # "sweep" /\ \A h \in holds : ~Needs(u, h)
  BY <1>2 DEF StepOK, Needs
<1>5. Listed(p, holds) /\ DOMAIN p = {1} /\ p[1] = u
  BY <1>4, ListOfOne, OneStep
<1>. HIDE DEF p
<1>6. Leads(p, done)
  BY <1>2, <1>3, <1>5, PlainLeads
<1>. QED
  BY <1>3, <1>5, <1>6, SubmitAnswers

LEMMA SubmitCancelAnswers == ASSUME Inv, AnswerInv, SubmitCancel PROVE AnswerInv'
<1>1. PICK id \in Ids : Submit(<<[op |-> "rejectFor", id |-> id], [op |-> "pull", id |-> id]>>,
                               Answer("cancel", id, Owner[id]))
  BY DEF SubmitCancel
<1>. DEFINE u == [op |-> "rejectFor", id |-> id]
            v == [op |-> "pull", id |-> id]
            p == <<u, v>>
            cmd == "cancel"
            done == Answer(cmd, id, Owner[id])
<1>2. u.op = "rejectFor" /\ u.id = id /\ v.op = "pull" /\ v.id = id /\ cmd = "cancel"
  OBVIOUS
<1>3. Submit(p, done) /\ done = Answer(cmd, id, Owner[id])
  BY <1>1
<1>. HIDE DEF u, v, cmd, done
<1>4. Listed(p, holds)
  BY <1>2, PairListed, Zenon
<1>5. DOMAIN p = 1..2 /\ p[1] = u /\ p[2] = v /\ Len(p) = 2
  BY TwoSteps
<1>. HIDE DEF p
<1>6. done.op = "answer" /\ done.cmd = cmd /\ done.id = id
  BY <1>3, AnswerFields
<1>7. \A i \in DOMAIN p : p[i].op # "answer"
  BY <1>2, <1>5
<1>8. Leads(p, done)
  BY <1>2, <1>5, <1>6, <1>7 DEF Leads
<1>. QED
  BY <1>3, <1>4, <1>8, SubmitAnswers

LEMMA SubmitMassCancelAnswers == ASSUME Inv, AnswerInv, SubmitMassCancel PROVE AnswerInv'
<1>1. PICK a \in Accounts :
        Submit(<<[op |-> "rejectForAccount", acct |-> a], [op |-> "pullAll", acct |-> a]>>,
               Answer("massCancel", 0, a))
  BY DEF SubmitMassCancel
<1>. DEFINE u == [op |-> "rejectForAccount", acct |-> a]
            v == [op |-> "pullAll", acct |-> a]
            p == <<u, v>>
            cmd == "massCancel"
            done == Answer(cmd, 0, a)
<1>2. u.op = "rejectForAccount" /\ u.acct = a /\ v.op = "pullAll" /\ v.acct = a /\ cmd = "massCancel"
  OBVIOUS
<1>3. Submit(p, done) /\ done = Answer(cmd, 0, a)
  BY <1>1
<1>. HIDE DEF u, v, cmd, done
<1>4. Listed(p, holds)
  BY <1>2, AccountListed, Zenon
<1>5. DOMAIN p = 1..2 /\ p[1] = u /\ p[2] = v /\ Len(p) = 2
  BY TwoSteps
<1>. HIDE DEF p
<1>6. done.op = "answer" /\ done.cmd = cmd /\ done.acct = a
  BY <1>3, AnswerFields
<1>7. \A i \in DOMAIN p : p[i].op # "answer"
  BY <1>2, <1>5
<1>8. Leads(p, done)
  BY <1>2, <1>5, <1>6, <1>7 DEF Leads
<1>. QED
  BY <1>3, <1>4, <1>8, SubmitAnswers

LEMMA SubmitQuoteAnswers == ASSUME Inv, AnswerInv, SubmitQuote PROVE AnswerInv'
<1>. DEFINE x(q) == [op |-> "rejectFor", id |-> q.bid]
            y(q) == [op |-> "rejectFor", id |-> q.ask]
            v(q) == [op |-> "pull", id |-> q.bid]
            w(q) == [op |-> "pull", id |-> q.ask]
            p(q) == <<x(q), y(q), v(q), w(q)>>
            l(q) == [i \in DOMAIN q.legs |-> [op |-> "new", o |-> q.legs[i]]]
<1>1. PICK q \in Config.quotes : Submit(p(q) \o l(q), Answer("quote", q.bid, Owner[q.bid]))
  BY DEF SubmitQuote
<1>2. Listed(p(q), holds) /\ \A i \in DOMAIN p(q) : p(q)[i].op \in {"rejectFor", "pull"}
  <2>1. /\ x(q).op = "rejectFor" /\ y(q).op = "rejectFor" /\ v(q).op = "pull" /\ w(q).op = "pull"
        /\ v(q).id = x(q).id /\ w(q).id = y(q).id
    OBVIOUS
  <2>. HIDE DEF x, y, v, w
  <2>. QED
    BY <2>1, QuoteListed, Zenon
<1>3. Listed(l(q), holds) /\ \A i \in DOMAIN l(q) : l(q)[i].op = "new"
  <2>. DEFINE legs == q.legs
              z == [i \in DOMAIN legs |-> [op |-> "new", o |-> legs[i]]]
  <2>1. DOMAIN legs = 1..Len(legs) /\ Len(legs) \in Nat /\ \A i \in DOMAIN legs : NewOrderOK(legs[i])
    BY VenueIs DEF Inv
  <2>2. z = [i \in DOMAIN legs |-> [op |-> "new", o |-> legs[i]]] /\ l(q) = z
    OBVIOUS
  <2>. HIDE DEF legs, z, l
  <2>3. Listed(z, holds) /\ \A i \in DOMAIN z : z[i].op = "new"
    BY <2>1, <2>2, LegsListed, ZenonT(60)
  <2>. QED
    BY <2>2, <2>3
<1>. DEFINE z == p(q) \o l(q)
            cmd == "quote"
            done == Answer(cmd, q.bid, Owner[q.bid])
<1>4. z = p(q) \o l(q) /\ cmd = "quote" /\ done = Answer(cmd, q.bid, Owner[q.bid])
  OBVIOUS
<1>. HIDE DEF z, p, l
<1>5. Listed(z, holds) /\ Joined(p(q), l(q), z)
  <2>1. \A i \in DOMAIN p(q), j \in DOMAIN l(q) : Precedes(p(q)[i], l(q)[j])
    BY <1>2, <1>3 DEF Precedes
  <2>. QED
    BY <1>2, <1>3, <1>4, <2>1, ListsJoin, Zenon
<1>6. Submit(z, done)
  BY <1>1, <1>4, Zenon
<1>. HIDE DEF cmd, done
<1>7. \A i \in DOMAIN z : z[i].op # "answer"
  <2>1. \A i \in DOMAIN z : \/ i \in DOMAIN p(q) /\ z[i] = p(q)[i]
                            \/ \E j \in DOMAIN l(q) : z[i] = l(q)[j]
    BY <1>5 DEF Joined
  <2>. QED
    BY <1>2, <1>3, <2>1
<1>8. Leads(z, done)
  BY <1>4, <1>7, PlainLeads
<1>. QED
  BY <1>5, <1>6, <1>8, SubmitAnswers

LEMMA SubmitDecisionAnswers == ASSUME Inv, AnswerInv, SubmitDecision PROVE AnswerInv'
<1>1. PICK h \in holds, accept \in BOOLEAN :
        Submit(<<[op |-> "resolve", hid |-> h.hid, accept |-> accept]>>,
               Answer("decision", h.hid, Owner[h.maker]))
  BY DEF SubmitDecision
<1>. DEFINE u == [op |-> "resolve", hid |-> h.hid, accept |-> accept]
            p == <<u>>
            cmd == "decision"
            done == Answer(cmd, h.hid, Owner[h.maker])
<1>2. u.op = "resolve" /\ cmd = "decision"
  OBVIOUS
<1>3. Submit(p, done) /\ done = Answer(cmd, h.hid, Owner[h.maker])
  BY <1>1
<1>. HIDE DEF u, cmd, done
<1>4. StepOK(u) /\ u.op # "sweep" /\ \A g \in holds : ~Needs(u, g)
  BY <1>2 DEF StepOK, Needs
<1>5. Listed(p, holds) /\ DOMAIN p = {1} /\ p[1] = u
  BY <1>4, ListOfOne, OneStep
<1>. HIDE DEF p
<1>6. Leads(p, done)
  BY <1>2, <1>3, <1>5, PlainLeads
<1>. QED
  BY <1>3, <1>5, <1>6, SubmitAnswers

LEMMA SubmitTickAnswers == ASSUME Inv, AnswerInv, SubmitTick PROVE AnswerInv'
<1>. DEFINE p == <<>>
            cmd == "tick"
            done == Answer(cmd, 0, 0)
<1>1. Submit(p, done) /\ done = Answer(cmd, 0, 0) /\ cmd = "tick"
  BY DEF SubmitTick
<1>2. Listed(p, holds) /\ DOMAIN p = {}
  BY ListOfNone, NoStep
<1>. HIDE DEF p, cmd, done
<1>3. Leads(p, done)
  BY <1>1, <1>2, PlainLeads
<1>. QED
  BY <1>1, <1>2, <1>3, SubmitAnswers

(* The engine sweeps with w, and the registers are in order. *)
LEMMA SweepAnswers ==
  ASSUME Inv, AnswerInv, Step("sweep")
  PROVE  LET w == work[1]
         IN  /\ Sweeping(w) /\ Head(work) = w /\ IsSeq(work) /\ work[1].op = "sweep"
             /\ Kept(reg.tracked, book, holds, {w}) /\ w.o.id \in Ids
             /\ \A h \in holds : ~Fires(work[1], h) /\ h.maker # w.o.id
             /\ \A id \in reg.tracked : id # w.o.id => IsResting(book, id) \/ HoldsOf(holds, id) # {}
<1>. DEFINE w == work[1]
<1>1. Sweeping(w)
  BY SweepAt
<1>2. Head(work) = w /\ w.op = "sweep" /\ SweepsIn(work) = {w} /\ WorkOK(work) /\ w.o.id \in Ids
      /\ Strangers(holds, w)
  BY <1>1 DEF Sweeping, SweepOK
<1>. HIDE DEF w
<1>3. Kept(reg.tracked, book, holds, {w})
  BY <1>2 DEF AnswerInv
<1>4. \A h \in holds : h.maker # w.o.id
  <2>1. SUFFICES ASSUME NEW h \in holds, h.maker = w.o.id PROVE FALSE
    OBVIOUS
  <2>2. h \in HoldsOf(holds, w.o.id)
    BY <2>1 DEF HoldsOf
  <2>3. h.maker # h.taker
    BY HoldsAre DEF HoldsOK, HoldOK
  <2>. QED
    BY <1>2, <2>1, <2>2, <2>3 DEF Strangers
<1>5. \A id \in reg.tracked : id # w.o.id => IsResting(book, id) \/ HoldsOf(holds, id) # {}
  BY <1>3 DEF Kept, Present
<1>6. \A h \in holds : ~Fires(w, h)
  BY <1>2 DEF Fires
<1>. QED
  BY <1>1, <1>2, <1>3, <1>4, <1>5, <1>6 DEF w, WorkOK

(* The order is swept, and nothing of it is in the book. *)
LEMMA SweepLeaves ==
  ASSUME Inv, AnswerInv, Step("sweep"), UNCHANGED <<venue, now, book, holds>>, Done,
         \/ work[1].left = 0 /\ ~work[1].dead /\ reg'.tracked = reg.tracked
         \/ reg' = IF work[1].amended THEN Forget(reg, work[1].o.id) ELSE reg
  PROVE  AnswerInv'
<1>. DEFINE w == work[1]
            p == <<>>
            op == "sweep"
            T == reg.tracked
            U == reg'.tracked
<1>1. /\ Sweeping(w) /\ Kept(T, book, holds, {w}) /\ w.op = "sweep" /\ work[1] = w /\ work # <<>>
      /\ \A h \in holds : ~Fires(work[1], h) /\ h.maker # w.o.id
      /\ \A id \in T : id # w.o.id => IsResting(book, id) \/ HoldsOf(holds, id) # {}
      /\ ~IsResting(book, w.o.id) /\ WorkOK(work) /\ RegOK(reg)
  BY SweepAnswers DEF Sweeping
<1>2. Step(op) /\ op = "sweep" /\ work' = Next1(work, p)
  BY DoIs DEF Done
<1>3. IsSeq(p) /\ DOMAIN p = {}
  BY NoStep
<1>4. \/ w.left = 0 /\ ~w.dead /\ U = T
      \/ w.amended /\ U = T \ {w.o.id}
      \/ ~w.amended /\ U = T
  BY <1>1, ForgetTracked
<1>. HIDE DEF w, p, op, T
<1>5. SweepsIn(work') = {}
  <2>1. SweepsIn(p) = {}
    BY <1>3 DEF SweepsIn
  <2>. QED
    BY <1>1, <1>2, <1>3, <2>1, OneSweep
<1>6. w.o.id \in U => HoldsOf(holds, w.o.id) # {}
  BY <1>1, <1>4 DEF Kept, Present
<1>7. \A id \in U : IsResting(book, id) \/ HoldsOf(holds, id) # {}
  BY <1>1, <1>4, <1>6
<1>8. (\A id : IsResting(book, id) => id \in U) /\ (\A h \in holds : h.maker \in U)
  BY <1>1, <1>4 DEF Kept
<1>9. Kept(U, book, holds, {})
  BY <1>7, <1>8 DEF Kept, Present
<1>10. Kept(reg'.tracked, book', holds', SweepsIn(work'))
  BY <1>5, <1>9
<1>. QED
  BY <1>1, <1>2, <1>3, <1>10, HandleAnswers

LEMMA SweepFilledAnswers == ASSUME Inv, AnswerInv, SweepFilled PROVE AnswerInv'
<1>1. /\ Step("sweep") /\ Done /\ UNCHANGED <<venue, now, book, holds, reg>>
      /\ Head(work).left = 0 /\ ~Head(work).dead
  BY DEF SweepFilled, SweepOver
<1>2. Head(work) = work[1]
  BY <1>1, SweepAnswers
<1>. QED
  BY <1>1, <1>2, SweepLeaves

LEMMA KillResidualAnswers == ASSUME Inv, AnswerInv, KillResidual PROVE AnswerInv'
<1>1. /\ Step("sweep") /\ Done /\ UNCHANGED <<venue, now, book, holds>>
      /\ reg' = IF Head(work).amended THEN Forget(reg, Head(work).o.id) ELSE reg
  BY DEF KillResidual, SweepOver
<1>2. Head(work) = work[1]
  BY <1>1, SweepAnswers
<1>. QED
  BY <1>1, <1>2, SweepLeaves

LEMMA RefuseResidualAnswers == ASSUME Inv, AnswerInv, RefuseResidual PROVE AnswerInv'
<1>1. /\ Step("sweep") /\ Done /\ UNCHANGED <<venue, now, book, holds>>
      /\ reg' = IF Head(work).amended THEN Forget(reg, Head(work).o.id) ELSE reg
  BY DEF RefuseResidual, SweepOver
<1>2. Head(work) = work[1]
  BY <1>1, SweepAnswers
<1>. QED
  BY <1>1, <1>2, SweepLeaves

LEMMA RestResidualAnswers == ASSUME Inv, AnswerInv, RestResidual PROVE AnswerInv'
<1>. DEFINE w == work[1]
            r == RestingForm(w)
            c == AddResting(book, w.o.side, r)
            p == <<>>
            op == "sweep"
            T == reg.tracked
            U == reg'.tracked
<1>1. Step(op) /\ op = "sweep" /\ Done /\ UNCHANGED <<venue, now, holds>>
  BY DEF RestResidual, SweepOver
<1>2. /\ Sweeping(w) /\ Kept(T, book, holds, {w}) /\ w.op = "sweep" /\ work[1] = w /\ work # <<>>
      /\ Head(work) = w /\ w.o.id \in Ids
      /\ \A h \in holds : ~Fires(work[1], h) /\ h.maker # w.o.id
      /\ \A id \in T : id # w.o.id => IsResting(book, id) \/ HoldsOf(holds, id) # {}
      /\ ~IsResting(book, w.o.id) /\ WorkOK(work) /\ RegOK(reg) /\ SweepOK(w) /\ w.o.side \in Sides
  BY <1>1, SweepAnswers DEF Sweeping, SweepOK
<1>3. w.left > 0 /\ book' = c /\ work' = Next1(work, p)
  BY <1>1, <1>2, DoIs DEF RestResidual, Done
<1>4. U = T \cup {w.o.id}
  <2>. DEFINE g == Track(reg, w.o.id, w.o.stp)
  <2>1. RegOK(g) /\ g.tracked = T \cup {w.o.id}
    BY <1>2, TrackIs, TrackTracked
  <2>2. reg' = g \/ reg' = [g EXCEPT !.expiry[w.o.id] = w.o.exp]
    BY <1>2 DEF RestResidual
  <2>. HIDE DEF g
  <2>. QED
    BY <2>1, <2>2 DEF RegOK
<1>5. IsSeq(p) /\ DOMAIN p = {} /\ r.id = w.o.id /\ (r.ll => Config.window > 0)
  BY NoStep DEF RestingForm
<1>6. OrderOK(r)
  BY <1>2, <1>3, RestingFormIs
<1>. HIDE DEF w, r, p, op, T, U
<1>7. BookOK(book)
  BY <1>2, SoundBook DEF Sweeping
<1>8. BookOK(c) /\ Becomes(book, c, w.o.side, w.o.id, {r})
  BY <1>2, <1>5, <1>6, <1>7, AddKeeps
<1>. HIDE DEF c
<1>9. (\A j : j # w.o.id => (IsResting(c, j) <=> IsResting(book, j))) /\ IsResting(c, w.o.id)
  <2>. DEFINE N == {r}
  <2>1. Becomes(book, c, w.o.side, w.o.id, N) /\ N # {}
    BY <1>8
  <2>. HIDE DEF N
  <2>. QED
    BY <1>2, <1>7, <1>8, <2>1, RestAfter
<1>10. Looks(c, holds) => Looks(book, holds) \/ Config.window > 0
  <2>1. \A z \in Sides : \A x \in On(c, z) : x \in On(book, z) \/ x = r
    BY <1>8 DEF Becomes
  <2>. QED
    BY <1>5, <2>1 DEF Looks
<1>11. SweepsIn(work') = {}
  <2>1. SweepsIn(p) = {}
    BY <1>5 DEF SweepsIn
  <2>. QED
    BY <1>2, <1>3, <1>5, <2>1, OneSweep
<1>12. Kept(U, c, holds, {})
  <2>1. \A id \in U : IsResting(c, id) \/ HoldsOf(holds, id) # {}
    BY <1>2, <1>4, <1>9
  <2>2. (\A id : IsResting(c, id) => id \in U) /\ (\A h \in holds : h.maker \in U)
    BY <1>2, <1>4, <1>9 DEF Kept
  <2>. QED
    BY <2>1, <2>2 DEF Kept, Present
<1>13. Kept(reg'.tracked, book', holds', SweepsIn(work'))
  BY <1>1, <1>3, <1>11, <1>12 DEF U
<1>14. Looks(book', holds') => Looks(book, holds) \/ Config.window > 0
  BY <1>1, <1>3, <1>10
<1>. QED
  BY <1>1, <1>2, <1>3, <1>5, <1>13, <1>14, HandleAnswers

(* To put a step before the others is to do the first after it. *)
LEMMA PrependIs ==
  ASSUME NEW k, IsSeq(k), k # <<>>, NEW x
  PROVE  Prepend(x, k) = Next1(k, <<x, k[1]>>)
<1>. DEFINE l == <<x>>
            p == <<x, k[1]>>
            a == l \o k
            b == Next1(k, p)
<1>1. IsSeq(l) /\ DOMAIN l = {1} /\ l[1] = x /\ Len(l) = 1 /\ a = l \o k
  BY OneStep
<1>2. IsSeq(p) /\ DOMAIN p = 1..2 /\ p[1] = x /\ p[2] = k[1] /\ Len(p) = 2
  <2>. DEFINE y == k[1]
  <2>. HIDE DEF y
  <2>1. IsSeq(<<x, y>>) /\ DOMAIN <<x, y>> = 1..2 /\ <<x, y>>[1] = x /\ <<x, y>>[2] = y /\ Len(<<x, y>>) = 2
    BY TwoSteps, Zenon
  <2>. QED
    BY <2>1 DEF y
<1>3. a = Prepend(x, k) /\ b = Next1(k, <<x, k[1]>>) /\ b = Next1(k, p)
  BY DEF Prepend
<1>. HIDE DEF l, p, a, b
<1>4. Joined(l, k, a) /\ Len(a) = Len(k) + 1 /\ IsSeq(a)
  <2>1. IsSeq(l \o k) /\ Len(l \o k) = Len(l) + Len(k)
    BY <1>1, PushShape
  <2>2. Len(k) \in Nat
    BY SeqShape
  <2>3. Len(a) = Len(k) + 1 /\ IsSeq(a)
    BY <1>1, <2>1, <2>2
  <2>. QED
    BY <1>1, <2>3, JoinAt
<1>5. Ended(k, p, b) /\ IsSeq(b)
  <2>1. Shifted(k, p, b)
    BY <1>2, <1>3, PushAt
  <2>. QED
    BY <1>2, <1>3, <2>1, EndedIs DEF Shifted
<1>6. Len(b) = Len(k) + 1 /\ Len(k) \in Nat \ {0} /\ DOMAIN k = 1..Len(k)
  BY <1>2, <1>5 DEF Ended
<1>7. ASSUME NEW i \in 1..Len(a) PROVE a[i] = b[i]
  <2>1. CASE i = 1
    <3>1. a[1] = x
      BY <1>1, <1>4 DEF Joined
    <3>2. b[1] = x
      BY <1>2, <1>5 DEF Ended
    <3>. QED
      BY <2>1, <3>1, <3>2
  <2>2. CASE i = 2
    <3>1. 1 \in DOMAIN k
      BY <1>6
    <3>2. a[1 + 1] = k[1]
      BY <1>1, <1>4, <3>1 DEF Joined
    <3>3. b[2] = k[1]
      BY <1>2, <1>5 DEF Ended
    <3>. QED
      BY <2>2, <3>2, <3>3
  <2>3. CASE i > 2
    <3>. DEFINE j == i - 1
    <3>1. j \in DOMAIN k /\ j > 1 /\ 1 + j = i /\ 2 + j - 1 = i
      BY <1>4, <1>6, <2>3
    <3>. HIDE DEF j
    <3>2. a[1 + j] = k[j]
      BY <1>1, <1>4, <3>1 DEF Joined
    <3>3. b[2 + j - 1] = k[j]
      BY <1>2, <1>5, <3>1 DEF Ended
    <3>. QED
      BY <3>1, <3>2, <3>3
  <2>. QED
    BY <2>1, <2>2, <2>3
<1>8. a = [i \in 1..Len(a) |-> a[i]] /\ b = [i \in 1..Len(b) |-> b[i]]
  BY <1>4, <1>5 DEF IsSeq
<1>9. [i \in 1..Len(a) |-> a[i]] = [i \in 1..Len(b) |-> b[i]]
  BY <1>4, <1>6, <1>7
<1>. QED
  BY <1>3, <1>8, <1>9

LEMMA StpRelieveAnswers == ASSUME Inv, AnswerInv, StpRelieve PROVE AnswerInv'
<1>. DEFINE w == work[1]
            x == [op |-> "rejectFor", id |-> Maker.id]
            p == <<x, w>>
            op == "sweep"
            T == reg.tracked
<1>1. Step(op) /\ op = "sweep" /\ UNCHANGED <<venue, now, book, holds, reg>>
  BY DEF StpRelieve
<1>2. /\ Sweeping(w) /\ Kept(T, book, holds, {w}) /\ w.op = "sweep" /\ work[1] = w /\ work # <<>>
      /\ IsSeq(work) /\ (\A h \in holds : ~Fires(work[1], h)) /\ WorkOK(work)
  BY <1>1, SweepAnswers DEF Sweeping
<1>3. work' = Prepend(x, work) /\ x.op = "rejectFor"
  BY DEF StpRelieve, Prepend
<1>. HIDE DEF x, op, T
<1>4. work' = Next1(work, p)
  BY <1>2, <1>3, PrependIs
<1>. HIDE DEF w
<1>5. IsSeq(p) /\ DOMAIN p = 1..2 /\ p[1] = x /\ p[2] = w
  BY TwoSteps
<1>. HIDE DEF p
<1>6. SweepsIn(p) = {w} /\ \A i \in DOMAIN p : p[i].op # "answer"
  <2>1. \A i \in DOMAIN p : i = 1 \/ i = 2
    BY <1>5
  <2>2. 2 \in DOMAIN p
    BY <1>5
  <2>. QED
    BY <1>2, <1>3, <1>5, <2>1, <2>2 DEF SweepsIn
<1>7. SweepsIn(work') = {w}
  BY <1>2, <1>4, <1>5, <1>6, OneSweep
<1>8. Kept(reg'.tracked, book', holds', SweepsIn(work'))
  BY <1>1, <1>2, <1>7 DEF T
<1>. QED
  BY <1>1, <1>2, <1>4, <1>5, <1>6, <1>8, HandleAnswers

(* The sweep goes on with u. *)
LEMMA GoesOnAnswers ==
  ASSUME Inv, AnswerInv, Step("sweep"), UNCHANGED <<venue, now>>, NEW u, u.op = "sweep",
         work' = Next1(work, <<u>>), Kept(reg'.tracked, book', holds', {u}),
         Looks(book', holds') => Looks(book, holds),
         \A h \in holds' : h \in holds \/ (h.deadline \in Nat /\ now < h.deadline)
  PROVE  AnswerInv'
<1>. DEFINE p == <<u>>
            op == "sweep"
<1>1. /\ Step(op) /\ op = "sweep" /\ work # <<>> /\ WorkOK(work) /\ work[1].op = "sweep"
      /\ (\A h \in holds : ~Fires(work[1], h))
  BY SweepAnswers DEF Sweeping
<1>2. IsSeq(p) /\ DOMAIN p = {1} /\ p[1] = u /\ work' = Next1(work, p)
  BY OneStep
<1>. HIDE DEF p, op
<1>3. SweepsIn(p) = {u} /\ \A i \in DOMAIN p : p[i].op # "answer"
  BY <1>2 DEF SweepsIn
<1>4. SweepsIn(work') = {u}
  BY <1>1, <1>2, <1>3, OneSweep
<1>. QED
  BY <1>1, <1>2, <1>3, <1>4, HandleAnswers

LEMMA StpApplyAnswers == ASSUME Inv, AnswerInv, StpApply PROVE AnswerInv'
<1>. DEFINE w == work[1]
            r == Maker
            s == Opposite(w.o.side)
            dec == IF w.o.stp = "Decrement" THEN Least(w.left, Total(r)) ELSE 0
            dead == w.o.stp \in {"CancelNewest", "CancelBoth"} \/ w.left = dec
            u == [w EXCEPT !.left = @ - dec, !.dead = dead]
            T == reg.tracked
            c == book'
            U == reg'.tracked
<1>0. Step("sweep")
  BY DEF StpApply
<1>1. /\ Sweeping(w) /\ Head(work) = w /\ Kept(T, book, holds, {w})
      /\ \A id \in T : id # w.o.id => IsResting(book, id) \/ HoldsOf(holds, id) # {}
  BY <1>0, SweepAnswers
<1>2. Marketable(w) /\ HoldsOf(holds, r.id) = {} /\ UNCHANGED <<venue, now, holds>>
  BY <1>1, SMTT(40) DEF StpApply
<1>3. work' = Next1(work, <<u>>)
  BY <1>1 DEF StpApply, Next1
<1>4. \/ book' = Cancel(book, r.id) /\ reg' = Forget(reg, r.id)
      \/ ~StpCancelsMaker(w) /\ w.o.stp = "Decrement" /\ book' = ReduceTotal(book, r.id, Total(r) - dec) /\ reg' = reg
      \/ UNCHANGED <<book, reg>>
  BY <1>1 DEF StpApply
<1>5. /\ w.left > 0 /\ s \in Sides /\ r \in On(book, s) /\ OrderOK(r) /\ r.id # w.o.id
      /\ IsResting(book, r.id) /\ BookOK(book)
  BY <1>1, <1>2, MarketIs
<1>6. SweepOK(w) /\ w.op = "sweep" /\ w.left \in Nat /\ RegOK(reg) /\ ~IsResting(book, w.o.id)
  BY <1>1 DEF Sweeping, SweepOK
<1>7. u.op = w.op /\ u.o = w.o /\ u.left = w.left - dec /\ u.dead = dead /\ u.amended = w.amended
  BY <1>6 DEF SweepOK
<1>8. Total(r) \in Nat \ {0}
  BY <1>5, RestIs
<1>9. dec \in Nat /\ dec <= w.left
  BY <1>6, <1>8 DEF Least
<1>10. w.left = dec => dead
  OBVIOUS
<1>11. ~StpCancelsMaker(w) /\ w.o.stp = "Decrement" => Total(r) > w.left /\ dec = w.left
  BY <1>6, <1>8 DEF StpCancelsMaker, Least
<1>. HIDE DEF w, r, s, dec, dead, u, T, c, U
<1>12. u.left > 0 \/ u.dead
  <2>1. CASE w.left = dec
    BY <1>7, <1>10, <2>1, ZenonT(60)
  <2>2. CASE w.left # dec
    BY <1>6, <1>7, <1>9, <2>2, SMTT(40)
  <2>. QED
    BY <2>1, <2>2
<1>13. /\ \A j : j # r.id => (IsResting(c, j) <=> IsResting(book, j)) /\ (j \in U <=> j \in T)
       /\ r.id \in U <=> IsResting(c, r.id)
       /\ Looks(c, holds) => Looks(book, holds)
  <2>0. r.id \in T
    BY <1>1, <1>5 DEF Kept
  <2>1. CASE book' = Cancel(book, r.id) /\ reg' = Forget(reg, r.id)
    <3>1. U = T \ {r.id}
      BY <1>6, <2>1, ForgetTracked DEF U, T
    <3>2. /\ \A j : j # r.id => (IsResting(c, j) <=> IsResting(book, j))
          /\ ~IsResting(c, r.id) /\ (Looks(c, holds) => Looks(book, holds))
      BY <1>5, <2>1, CancelRests DEF c
    <3>. QED
      BY <3>1, <3>2
  <2>2. CASE /\ ~StpCancelsMaker(w) /\ w.o.stp = "Decrement"
             /\ book' = ReduceTotal(book, r.id, Total(r) - dec) /\ reg' = reg
    <3>. DEFINE t == Total(r) - dec
    <3>1. t \in 1..Total(r) /\ t > 0 /\ c = ReduceTotal(book, r.id, t) /\ U = T
      BY <1>8, <1>9, <1>11, <2>2 DEF c, U, T
    <3>. HIDE DEF t
    <3>2. Sized(book, c, s, r, t)
      BY <1>5, <3>1, ReduceTotalKeeps
    <3>3. /\ \A j : j # r.id => (IsResting(c, j) <=> IsResting(book, j))
          /\ IsResting(c, r.id) <=> t > 0
          /\ Looks(c, holds) => Looks(book, holds)
      BY <1>5, <3>2, SizedRests
    <3>. QED
      BY <2>0, <3>1, <3>3
  <2>3. CASE UNCHANGED <<book, reg>>
    BY <1>5, <2>0, <2>3 DEF c, U, T
  <2>. QED
    BY <1>4, <2>1, <2>2, <2>3
<1>14. Kept(U, c, holds, {u})
  <2>1. \A id \in U : Present(c, holds, {u}, id)
    <3>1. SUFFICES ASSUME NEW id \in U PROVE Present(c, holds, {u}, id)
      OBVIOUS
    <3>2. CASE id = r.id
      BY <1>13, <3>1, <3>2 DEF Present
    <3>3. CASE id = w.o.id
      BY <1>7, <1>12, <3>3 DEF Present
    <3>4. CASE id # r.id /\ id # w.o.id
      BY <1>1, <1>13, <3>1, <3>4 DEF Present
    <3>. QED
      BY <3>2, <3>3, <3>4
  <2>2. \A id : IsResting(c, id) => id \in U
    BY <1>1, <1>13 DEF Kept
  <2>3. \A h \in holds : h.maker \in U
    <3>1. \A h \in holds : h.maker # r.id
      BY <1>2 DEF HoldsOf
    <3>. QED
      BY <1>1, <1>13, <3>1 DEF Kept
  <2>4. w.o.id \in U => u.amended
    BY <1>1, <1>5, <1>7, <1>13 DEF Kept
  <2>. QED
    BY <1>7, <2>1, <2>2, <2>3, <2>4 DEF Kept
<1>15. Kept(reg'.tracked, book', holds', {u}) /\ (Looks(book', holds') => Looks(book, holds)) /\ holds' = holds
  BY <1>2, <1>13, <1>14 DEF c, U
<1>. QED
  <2>1. u.op = "sweep" /\ UNCHANGED <<venue, now>> /\ \A h \in holds' : h \in holds
    BY <1>2, <1>6, <1>7, <1>15
  <2>. QED
    BY <1>0, <1>3, <1>15, <2>1, GoesOnAnswers

LEMMA SweepHoldAnswers == ASSUME Inv, AnswerInv, SweepHold PROVE AnswerInv'
<1>. DEFINE w == work[1]
            r == Maker
            s == Opposite(w.o.side)
            q == Least(w.left, r.leaves)
            c == FillBest(book, s, q)
            u == [w EXCEPT !.left = @ - q]
            d == now + Config.window
            T == reg.tracked
<1>0. Step("sweep")
  BY DEF SweepHold
<1>1. /\ Sweeping(w) /\ Head(work) = w /\ Kept(T, book, holds, {w})
      /\ \A id \in T : id # w.o.id => IsResting(book, id) \/ HoldsOf(holds, id) # {}
  BY <1>0, SweepAnswers
<1>2. Marketable(w) /\ r.ll /\ UNCHANGED <<venue, now>> /\ book' = c
  BY <1>1 DEF SweepHold
<1>3. work' = Next1(work, <<u>>)
  BY <1>1 DEF SweepHold, Next1
<1>. DEFINE h == [hid |-> holdSeq', maker |-> Maker.id, taker |-> w.o.id, side |-> w.o.side,
                  px |-> Maker.px, qty |-> q, deadline |-> now + Config.window, tif |-> w.o.tif,
                  mkt |-> w.o.mkt, takerPx |-> w.o.px, exp |-> w.o.exp, makerCum |-> Maker.cum,
                  takerCum |-> w.prior + w.filled]
<1>4. h.maker = r.id /\ h.taker = w.o.id /\ h.deadline = d
  OBVIOUS
<1>4a. holds' = holds \cup {h}
  BY <1>1 DEF SweepHold
<1>. HIDE DEF h
<1>5. reg'.tracked = T
  <2>1. RegOK(reg)
    BY <1>1 DEF Sweeping
  <2>2. reg' = reg \/ \E m : reg' = [reg EXCEPT !.stp[w.o.id] = m]
    BY <1>1 DEF SweepHold
  <2>. QED
    BY <2>1, <2>2 DEF RegOK
<1>6. /\ w.left > 0 /\ s \in Sides /\ r \in On(book, s) /\ OrderOK(r) /\ r.id # w.o.id
      /\ IsResting(book, r.id) /\ BookOK(book) /\ book[s] # <<>> /\ r = Head(book[s])
  BY <1>1, <1>2, MarketIs
<1>7. SweepOK(w) /\ w.op = "sweep" /\ w.left \in Nat
  BY <1>1 DEF Sweeping, SweepOK
<1>8. u.op = w.op /\ u.o = w.o /\ u.amended = w.amended
  BY <1>7, SMTT(40) DEF SweepOK
<1>9. q \in 1..r.leaves
  BY <1>6, <1>7, SMTT(40) DEF Least, OrderOK
<1>10. Looks(book, holds)
  BY <1>2, <1>6 DEF Looks
<1>11. d \in Nat /\ now < d
  <2>1. Config.window > 0 /\ now \in Nat
    BY <1>10 DEF AnswerInv, Timely
  <2>2. Config.window \in Nat
    BY EngineAssumption DEF Config, Inv
  <2>. QED
    BY <2>1, <2>2
<1>. HIDE DEF w, r, s, q, u, d, T
<1>12. \A j : j # r.id => (IsResting(c, j) <=> IsResting(book, j))
  <2>. DEFINE t == Total(r) - q
  <2>1. Sized(book, c, s, r, t)
    BY <1>6, <1>9, FillKeeps
  <2>. HIDE DEF t, c
  <2>. QED
    BY <1>6, <2>1, SizedRests
<1>. HIDE DEF c
<1>. DEFINE G == holds \cup {h}
<1>13. Kept(T, c, G, {u})
  <2>1. \A id \in T : Present(c, G, {u}, id)
    <3>1. SUFFICES ASSUME NEW id \in T PROVE IsResting(c, id) \/ HoldsOf(G, id) # {}
      BY DEF Present
    <3>2. CASE id = r.id \/ id = w.o.id
      BY <1>4, <3>2 DEF HoldsOf
    <3>3. CASE id # r.id /\ id # w.o.id
      BY <1>1, <1>12, <3>1, <3>3 DEF HoldsOf
    <3>. QED
      BY <3>2, <3>3
  <2>2. r.id \in T
    BY <1>1, <1>6 DEF Kept
  <2>3. \A id : IsResting(c, id) => id \in T
    BY <1>1, <1>12, <2>2 DEF Kept
  <2>4. \A g \in G : g.maker \in T
    BY <1>1, <1>4, <2>2 DEF Kept
  <2>. QED
    BY <1>1, <1>8, <2>1, <2>3, <2>4 DEF Kept
<1>14. holds' = G /\ \A g \in G : g \in holds \/ (g.deadline \in Nat /\ now < g.deadline)
  <2>1. holds' = G
    BY <1>4a
  <2>2. h.deadline \in Nat /\ now < h.deadline
    BY <1>4, <1>11
  <2>3. \A g \in G : g \in holds \/ g = h
    OBVIOUS
  <2>. QED
    BY <2>1, <2>2, <2>3
<1>. HIDE DEF G
<1>15. Kept(reg'.tracked, book', holds', {u}) /\ (Looks(book', holds') => Looks(book, holds))
  BY <1>2, <1>5, <1>10, <1>13, <1>14
<1>. QED
  <2>1. u.op = "sweep" /\ \A g \in holds' : g \in holds \/ (g.deadline \in Nat /\ now < g.deadline)
    BY <1>7, <1>8, <1>14
  <2>. QED
    BY <1>0, <1>2, <1>3, <1>15, <2>1, GoesOnAnswers

(* A cleanup forgets an order that is neither in the book nor on hold. *)
LEMMA CleanupTracked ==
  ASSUME NEW g, RegOK(g), NEW f, NEW b, NEW H, NEW id, NEW x, x = Cleanup(f, g, b, H, id)
  PROVE  /\ RegOK(x.reg) /\ \A j : j # id => (j \in x.reg.tracked <=> j \in g.tracked)
         /\ id \in x.reg.tracked <=> id \in g.tracked /\ (IsResting(b, id) \/ HoldsOf(H, id) # {})
<1>1. RegOK(x.reg)
  BY CleanupReg
<1>2. CASE IsResting(b, id) \/ HoldsOf(H, id) # {}
  <2>1. x.reg = g
    BY <1>2 DEF Cleanup
  <2>. QED
    BY <1>1, <1>2, <2>1
<1>3. CASE ~(IsResting(b, id) \/ HoldsOf(H, id) # {})
  <2>1. x.reg = Forget(g, id)
    BY <1>3 DEF Cleanup
  <2>2. x.reg.tracked = g.tracked \ {id}
    BY <2>1, ForgetTracked
  <2>. QED
    BY <1>1, <1>3, <2>2
<1>. QED
  BY <1>2, <1>3

LEMMA SweepFillAnswers == ASSUME Inv, AnswerInv, SweepFill PROVE AnswerInv'
<1>. DEFINE w == work[1]
            r == Maker
            s == Opposite(w.o.side)
            q == Least(w.left, r.leaves)
            t == [maker |-> r.id, taker |-> w.o.id, side |-> w.o.side, px |-> r.px, qty |-> q]
            b == FillBest(book, s, q)
            c == Cleanup(SettleTrade(funds, t), reg, b, holds, r.id)
            d == Cleanup(c.funds, c.reg, b, holds, w.o.id)
            u == [w EXCEPT !.left = @ - q, !.filled = @ + q]
            T == reg.tracked
            U == reg'.tracked
<1>0. Step("sweep")
  BY DEF SweepFill
<1>1. /\ Sweeping(w) /\ Head(work) = w /\ Kept(T, book, holds, {w})
      /\ \A h \in holds : h.maker # w.o.id
      /\ \A id \in T : id # w.o.id => IsResting(book, id) \/ HoldsOf(holds, id) # {}
  BY <1>0, SweepAnswers, SMTT(40)
<1>2. Marketable(w) /\ UNCHANGED <<venue, now, holds>> /\ book' = b
  BY <1>1, SMTT(40) DEF SweepFill
<1>3. work' = Next1(work, <<u>>) /\ reg' = IF w.left = q THEN d.reg ELSE c.reg
  BY <1>1 DEF SweepFill, Next1
<1>4. /\ c = Cleanup(SettleTrade(funds, t), reg, b, holds, r.id)
      /\ d = Cleanup(c.funds, c.reg, b, holds, w.o.id)
  OBVIOUS
<1>6. /\ w.left > 0 /\ s \in Sides /\ r \in On(book, s) /\ OrderOK(r) /\ r.id # w.o.id
      /\ IsResting(book, r.id) /\ BookOK(book) /\ book[s] # <<>> /\ r = Head(book[s])
  BY <1>1, <1>2, MarketIs
<1>7. SweepOK(w) /\ w.op = "sweep" /\ w.left \in Nat /\ RegOK(reg) /\ ~IsResting(book, w.o.id)
  BY <1>1 DEF Sweeping, SweepOK
<1>8. u.op = w.op /\ u.o = w.o /\ u.amended = w.amended /\ u.left = w.left - q
  BY <1>7, SMTT(40) DEF SweepOK
<1>9. q \in 1..r.leaves /\ (w.left # q => w.left - q > 0)
  <2>1. w.left \in Nat /\ w.left > 0 /\ r.leaves \in Nat /\ r.leaves > 0
    BY <1>6, <1>7 DEF OrderOK
  <2>2. q = IF w.left < r.leaves THEN w.left ELSE r.leaves
    BY Zenon DEF Least
  <2>. HIDE DEF q, w, r
  <2>3. CASE w.left < r.leaves
    <3>1. q = w.left
      BY <2>2, <2>3, Zenon
    <3>. QED
      BY <2>1, <2>3, <3>1
  <2>4. CASE ~(w.left < r.leaves)
    <3>1. q = r.leaves
      BY <2>2, <2>4, Zenon
    <3>. QED
      BY <2>1, <2>4, <3>1
  <2>. QED
    BY <2>3, <2>4, Zenon
<1>. HIDE DEF w, r, s, q, t, c, d, u, T, U
<1>10. (\A j : j # r.id => (IsResting(b, j) <=> IsResting(book, j))) /\ (Looks(b, holds) => Looks(book, holds))
  <2>. DEFINE y == Total(r) - q
  <2>1. Sized(book, b, s, r, y)
    BY <1>6, <1>9, FillKeeps
  <2>. HIDE DEF y, b
  <2>. QED
    BY <1>6, <2>1, SizedRests
<1>. HIDE DEF b
<1>11. /\ RegOK(c.reg) /\ \A j : j # r.id => (j \in c.reg.tracked <=> j \in T)
       /\ r.id \in c.reg.tracked <=> r.id \in T /\ (IsResting(b, r.id) \/ HoldsOf(holds, r.id) # {})
  BY <1>4, <1>7, CleanupTracked DEF T
<1>12. /\ \A j : j # w.o.id => (j \in d.reg.tracked <=> j \in c.reg.tracked)
       /\ w.o.id \in d.reg.tracked <=>
            w.o.id \in c.reg.tracked /\ (IsResting(b, w.o.id) \/ HoldsOf(holds, w.o.id) # {})
  BY <1>4, <1>11, CleanupTracked
<1>13. /\ \A j : j # r.id /\ j # w.o.id => (j \in U <=> j \in T)
       /\ r.id \in U <=> IsResting(b, r.id) \/ HoldsOf(holds, r.id) # {}
       /\ w.o.id \in U => w.o.id \in T /\ (w.left # q \/ HoldsOf(holds, w.o.id) # {})
  <2>1. r.id \in T
    BY <1>1, <1>6 DEF Kept
  <2>2. ~IsResting(b, w.o.id)
    BY <1>6, <1>7, <1>10
  <2>3. CASE w.left = q
    BY <1>3, <1>6, <1>11, <1>12, <2>1, <2>2, <2>3 DEF U
  <2>4. CASE w.left # q
    BY <1>3, <1>6, <1>11, <2>1, <2>4 DEF U
  <2>. QED
    BY <2>3, <2>4
<1>14. Kept(U, b, holds, {u})
  <2>1. \A id \in U : Present(b, holds, {u}, id)
    <3>1. SUFFICES ASSUME NEW id \in U PROVE Present(b, holds, {u}, id)
      OBVIOUS
    <3>2. CASE id = r.id
      BY <1>13, <3>1, <3>2 DEF Present
    <3>3. CASE id = w.o.id
      BY <1>8, <1>9, <1>13, <3>1, <3>3 DEF Present
    <3>4. CASE id # r.id /\ id # w.o.id
      BY <1>1, <1>10, <1>13, <3>1, <3>4 DEF Present
    <3>. QED
      BY <3>2, <3>3, <3>4
  <2>2. \A id : IsResting(b, id) => id \in U
    BY <1>1, <1>6, <1>7, <1>10, <1>13 DEF Kept
  <2>3. \A h \in holds : h.maker \in U
    <3>1. SUFFICES ASSUME NEW h \in holds PROVE h.maker \in U
      OBVIOUS
    <3>2. CASE h.maker = r.id
      <4>1. HoldsOf(holds, r.id) # {}
        BY <3>2 DEF HoldsOf
      <4>. QED
        BY <1>13, <3>2, <4>1
    <3>3. CASE h.maker # r.id
      BY <1>1, <1>13, <3>3 DEF Kept
    <3>. QED
      BY <3>2, <3>3
  <2>. QED
    BY <1>1, <1>8, <1>13, <2>1, <2>2, <2>3 DEF Kept
<1>15. /\ Kept(reg'.tracked, book', holds', {u}) /\ (Looks(book', holds') => Looks(book, holds))
       /\ holds' = holds
  BY <1>2, <1>10, <1>14 DEF U
<1>. QED
  <2>1. u.op = "sweep" /\ UNCHANGED <<venue, now>> /\ \A h \in holds' : h \in holds
    BY <1>2, <1>7, <1>8, <1>15, SMTT(40)
  <2>. QED
    BY <1>0, <1>3, <1>15, <2>1, GoesOnAnswers

(* A hold is resolved: b is the book, g and f the registers and the funds   *)
(* before the two cleanups of its legs.                                     *)
Tidied(h, b, g, f) ==
  LET c == Cleanup(f, g, b, holds \ {h}, h.taker)
  IN  Cleanup(c.funds, c.reg, b, holds \ {h}, h.maker)
Resolves(h, b, g, f) ==
  /\ h \in holds /\ Head(work).hid = h.hid /\ holds' = holds \ {h}
  /\ book' = b /\ reg' = Tidied(h, b, g, f).reg /\ RegOK(g)
  /\ \A j : j \notin {h.maker, h.taker} =>
       (IsResting(b, j) <=> IsResting(book, j)) /\ (j \in g.tracked <=> j \in reg.tracked)
  /\ \A j \in {h.maker, h.taker} : IsResting(b, j) => j \in g.tracked
  /\ \A x \in holds \ {h} : x.maker \in {h.maker, h.taker} => x.maker \in g.tracked

LEMMA ResolvedAnswers ==
  ASSUME Inv, AnswerInv, Step("resolve"), Done, UNCHANGED <<venue, now>>,
         NEW h, NEW b, NEW g, NEW f, Resolves(h, b, g, f)
  PROVE  AnswerInv'
<1>. DEFINE G == holds \ {h}
            c == Cleanup(f, g, b, G, h.taker)
            d == Cleanup(c.funds, c.reg, b, G, h.maker)
<1>0. /\ h \in holds /\ Head(work).hid = h.hid /\ G = holds \ {h} /\ holds' = G
      /\ book' = b /\ reg' = d.reg /\ RegOK(g)
      /\ c = Cleanup(f, g, b, G, h.taker) /\ d = Cleanup(c.funds, c.reg, b, G, h.maker)
  BY DEF Resolves, Tidied
<1>0a. /\ \A j : j \notin {h.maker, h.taker} =>
            (IsResting(b, j) <=> IsResting(book, j)) /\ (j \in g.tracked <=> j \in reg.tracked)
       /\ \A j \in {h.maker, h.taker} : IsResting(b, j) => j \in g.tracked
       /\ \A x \in G : x.maker \in {h.maker, h.taker} => x.maker \in g.tracked
  BY DEF Resolves
<1>. HIDE DEF G, c, d
<1>. DEFINE T == reg.tracked
            U == d.reg.tracked
            L == {h.maker, h.taker}
            W == SweepsIn(work)
            p == <<>>
            op == "resolve"
<1>1. /\ Step(op) /\ op = "resolve" /\ work # <<>> /\ IsSeq(work) /\ work[1].op = op
      /\ work[1].hid = h.hid /\ Kept(T, book, holds, W)
  BY <1>0, AnswerIs
<1>2. IsSeq(p) /\ DOMAIN p = {} /\ work' = Next1(work, p)
  BY NoStep, DoIs DEF Done
<1>3. h.maker # h.taker /\ \A x \in G : x \in holds /\ x.hid # h.hid
  BY <1>0, HoldsAre DEF HoldsOK, HoldOK
<1>4. \A w \in W : w.o.id \notin L
  <2>1. Fit(work, book, holds)
    BY DEF Inv
  <2>. QED
    BY <1>0, <1>1, <2>1, NotItsHold
<1>5. /\ RegOK(c.reg) /\ \A j : j # h.taker => (j \in c.reg.tracked <=> j \in g.tracked)
      /\ h.taker \in c.reg.tracked <=> h.taker \in g.tracked /\ (IsResting(b, h.taker) \/ HoldsOf(G, h.taker) # {})
  <2>1. c = Cleanup(f, g, b, G, h.taker) /\ RegOK(g)
    BY <1>0
  <2>. QED
    BY <2>1, CleanupTracked
<1>6. /\ \A j : j # h.maker => (j \in U <=> j \in c.reg.tracked)
      /\ h.maker \in U <=> h.maker \in c.reg.tracked /\ (IsResting(b, h.maker) \/ HoldsOf(G, h.maker) # {})
  <2>1. d = Cleanup(c.funds, c.reg, b, G, h.maker) /\ RegOK(c.reg)
    BY <1>0, <1>5
  <2>. QED
    BY <2>1, CleanupTracked DEF U
<1>7. /\ \A j \in L : j \in U <=> j \in g.tracked /\ (IsResting(b, j) \/ HoldsOf(G, j) # {})
      /\ \A j : j \notin L => (j \in U <=> j \in T) /\ (IsResting(b, j) <=> IsResting(book, j))
  BY <1>0a, <1>3, <1>5, <1>6
<1>8. /\ \A j \in L : IsResting(b, j) => j \in g.tracked
      /\ \A x \in G : x.maker \in L => x.maker \in g.tracked
  BY <1>0a
<1>9. \A j : j \notin L /\ HoldsOf(holds, j) # {} => HoldsOf(G, j) # {}
  BY <1>0 DEF HoldsOf
<1>. HIDE DEF T, U, L, W, p, op
<1>10. Kept(U, b, G, W)
  <2>1. ASSUME NEW j \in U PROVE Present(b, G, W, j)
    <3>1. CASE j \in L
      BY <1>7, <2>1, <3>1 DEF Present
    <3>2. CASE j \notin L
      <4>1. Present(book, holds, W, j)
        BY <1>1, <1>7, <2>1, <3>2 DEF Kept
      <4>. QED
        BY <1>7, <1>9, <3>2, <4>1 DEF Present
    <3>. QED
      BY <3>1, <3>2
  <2>2. ASSUME NEW j, IsResting(b, j) PROVE j \in U
    BY <1>1, <1>7, <1>8, <2>2 DEF Kept
  <2>3. ASSUME NEW x \in G PROVE x.maker \in U
    <3>1. HoldsOf(G, x.maker) # {}
      BY DEF HoldsOf
    <3>. QED
      BY <1>1, <1>3, <1>7, <1>8, <3>1 DEF Kept
  <2>4. ASSUME NEW w \in W, w.o.id \in U PROVE w.amended
    BY <1>1, <1>4, <1>7, <2>4 DEF Kept
  <2>. QED
    BY <2>1, <2>2, <2>3, <2>4 DEF Kept
<1>11. SweepsIn(work') = W
  <2>. DEFINE z == Next1(work, p)
  <2>1. z = Next1(work, p)
    OBVIOUS
  <2>. HIDE DEF z
  <2>2. SweepsIn(z) = SweepsIn(work)
    BY <1>1, <1>2, <2>1, PushSweeps
  <2>. QED
    BY <1>2, <2>1, <2>2 DEF W
<1>12. Kept(reg'.tracked, book', holds', SweepsIn(work'))
  BY <1>0, <1>10, <1>11 DEF U
<1>13. \A x \in holds' : x \in holds /\ ~Fires(work[1], x)
  BY <1>0, <1>1, <1>3 DEF Fires
<1>14. Looks(book, holds)
  BY <1>0 DEF Looks
<1>. QED
  BY <1>1, <1>2, <1>12, <1>13, <1>14, HandleAnswers

LEMMA AcceptHoldAnswers == ASSUME Inv, AnswerInv, AcceptHold PROVE AnswerInv'
<1>. DEFINE F(h) == SettleTrade(funds, TradeOf(h))
<1>1. PICK h \in holds :
        /\ Step("resolve") /\ Head(work).hid = h.hid /\ Done /\ reg' = Tidied(h, book, reg, F(h)).reg
        /\ holds' = holds \ {h} /\ UNCHANGED <<venue, now, book>>
  BY DEF AcceptHold, TradeOf, Tidied
<1>. DEFINE f == F(h)
<1>2. reg' = Tidied(h, book, reg, f).reg
  BY <1>1
<1>. HIDE DEF F, f
<1>3. RegOK(reg) /\ Kept(reg.tracked, book, holds, SweepsIn(work))
  BY DEF Inv, AnswerInv
<1>4. /\ \A j \in {h.maker, h.taker} : IsResting(book, j) => j \in reg.tracked
      /\ \A x \in holds \ {h} : x.maker \in {h.maker, h.taker} => x.maker \in reg.tracked
  BY <1>3 DEF Kept
<1>5. Resolves(h, book, reg, f)
  BY <1>1, <1>2, <1>3, <1>4 DEF Resolves
<1>. QED
  BY <1>1, <1>5, ResolvedAnswers

(* What a restore does to the registers: the leg stays known as long as its *)
(* reservation does.                                                        *)
Follows(s, z, id) ==
  /\ \A j : j # id => /\ IsResting(z.book, j) <=> IsResting(s.book, j)
                      /\ j \in z.reg.tracked <=> j \in s.reg.tracked
  /\ id \in s.reg.tracked /\ id \in DOMAIN z.funds.rsv => id \in z.reg.tracked

LEMMA RefusedFollows ==
  ASSUME NEW s, RegOK(s.reg), NEW id, NEW q, NEW z, z = Refused(s, id, q)
  PROVE  Follows(s, z, id) /\ z.book = s.book
<1>. DEFINE f == ReleaseHeldLeg(s.funds, id, q, IsResting(s.book, id))
            erased == Reserved(s.funds, id) /\ ~Reserved(f, id)
<1>1. z.book = s.book /\ z.funds = f /\ z.reg = IF erased THEN Forget(s.reg, id) ELSE s.reg
  BY DEF Refused, Desk
<1>2. erased => id \notin DOMAIN f.rsv
  BY DEF Reserved
<1>. HIDE DEF f, erased
<1>3. z.reg.tracked = s.reg.tracked \/ (erased /\ z.reg.tracked = s.reg.tracked \ {id})
  BY <1>1, ForgetTracked
<1>. QED
  BY <1>1, <1>2, <1>3 DEF Follows

(* The book of a leg that gets its slice back. *)
LEMMA CombineRests ==
  ASSUME NEW b, BookOK(b), NEW s \in Sides, NEW r \in On(b, s), NEW m, OrderOK(m), m.id = r.id, m.px = r.px,
         NEW c, c = AddResting(Cancel(b, r.id), s, m)
  PROVE  \A j : j # r.id => (IsResting(c, j) <=> IsResting(b, j))
<1>. DEFINE N == {m}
<1>1. BookOK(c) /\ Becomes(b, c, s, r.id, N)
  BY CombineBook
<1>. HIDE DEF N
<1>. QED
  BY <1>1, RestAfter

LEMMA RebuildRests ==
  ASSUME NEW b, BookOK(b), NEW s \in Sides, NEW m, OrderOK(m), ~IsResting(b, m.id),
         NEW c, c = AddResting(b, s, m)
  PROVE  \A j : j # m.id => (IsResting(c, j) <=> IsResting(b, j))
<1>. DEFINE N == {m}
<1>1. BookOK(c) /\ Becomes(b, c, s, m.id, N)
  BY AddKeeps
<1>. HIDE DEF N
<1>. QED
  BY <1>1, RestAfter

LEMMA MakerFollows ==
  ASSUME NEW s, NEW H, NEW W, NEW n, NEW S, NEW q, NEW X, Sound(s.funds, s.book, H, W, n, S, q, X),
         NEW h, HoldOK(h), GoodFor(s.funds.rsv, h.maker, Opposite(h.side), h.px), RegOK(s.reg),
         NEW z, z = RestoreMaker(s, h)
  PROVE  Follows(s, z, h.maker)
<1>. DEFINE b == s.book
            id == h.maker
            k == h.qty
            side == Opposite(h.side)
            r == Find(b, id)
<1>1. side \in Sides /\ k \in Nat \ {0} /\ id \in Ids /\ h.px \in 1..MaxPx /\ BookOK(b)
  BY SoundBook DEF HoldOK, Opposite, Sides
<1>2. CASE IsResting(b, id)
  <2>. DEFINE m == [r EXCEPT !.leaves = @ + k, !.cum = @ - k]
  <2>1. OrderOK(r) /\ r.id = id /\ r \in On(b, side)
    BY <1>1, <1>2, OnItsSide
  <2>2. z.book = AddResting(Cancel(b, m.id), side, m) /\ z.reg = s.reg
    BY <1>2 DEF RestoreMaker, Combine, Desk
  <2>. HIDE DEF r
  <2>3. OrderOK(m) /\ m.id = r.id /\ m.px = r.px
    BY <1>1, <2>1, MoreLeaves
  <2>. HIDE DEF m, side, k, id, b
  <2>. DEFINE c == z.book
  <2>4. c = AddResting(Cancel(b, r.id), side, m)
    BY <2>2, <2>3
  <2>. HIDE DEF c
  <2>5. \A j : j # id => (IsResting(c, j) <=> IsResting(b, j))
    BY <1>1, <2>1, <2>3, <2>4, CombineRests
  <2>. QED
    BY <2>2, <2>5 DEF Follows, c, b, id
<1>3. CASE ~IsResting(b, id) /\ Full(b)
  <2>1. z = Refused(s, id, k)
    BY <1>3 DEF RestoreMaker
  <2>. QED
    BY <2>1, RefusedFollows
<1>4. CASE ~IsResting(b, id) /\ ~Full(b)
  <2>. DEFINE m == Plain(id, h.px, k, h.makerCum, TRUE)
  <2>1. z.book = AddResting(b, side, m) /\ z.reg = s.reg
    BY <1>4 DEF RestoreMaker, Rebuild, Desk
  <2>2. OrderOK(m) /\ m.id = id
    <3>. DEFINE ll == TRUE
                d == Plain(id, h.px, k, h.makerCum, ll)
    <3>. HIDE DEF ll
    <3>1. OrderOK(d) /\ d.id = id
      BY <1>1, PlainIs
    <3>. QED
      BY <3>1 DEF ll
  <2>. HIDE DEF m, side, k, id, b
  <2>. DEFINE c == z.book
  <2>3. c = AddResting(b, side, m)
    BY <2>1
  <2>. HIDE DEF c
  <2>4. \A j : j # m.id => (IsResting(c, j) <=> IsResting(b, j))
    BY <1>1, <1>4, <2>2, <2>3, RebuildRests
  <2>. QED
    BY <2>1, <2>2, <2>4 DEF Follows, c, b, id
<1>. QED
  BY <1>2, <1>3, <1>4

LEMMA AdoptTracked ==
  ASSUME NEW g, RegOK(g), NEW h, h.taker \in Ids
  PROVE  Adopt(g, h).tracked = g.tracked \cup {h.taker}
<1>. DEFINE k == Track(g, h.taker, g.stp[h.taker])
<1>1. RegOK(k) /\ k.tracked = g.tracked \cup {h.taker}
  BY TrackIs, TrackTracked
<1>2. Adopt(g, h) = k \/ Adopt(g, h) = [k EXCEPT !.expiry[h.taker] = h.exp]
  BY DEF Adopt
<1>. HIDE DEF k
<1>3. [k EXCEPT !.expiry[h.taker] = h.exp].tracked = k.tracked
  BY <1>1 DEF RegOK
<1>. QED
  BY <1>1, <1>2, <1>3

LEMMA TakerFollows ==
  ASSUME NEW s, NEW H, NEW W, NEW n, NEW S, NEW q, NEW X, Sound(s.funds, s.book, H, W, n, S, q, X),
         NEW h, HoldOK(h), GoodFor(s.funds.rsv, h.taker, h.side, h.px), RegOK(s.reg),
         IsResting(s.book, h.taker) => h.taker \in s.reg.tracked,
         NEW z, z = RestoreTaker(s, h)
  PROVE  /\ Follows(s, z, h.taker)
         /\ IsResting(z.book, h.taker) /\ h.taker \in DOMAIN z.funds.rsv => h.taker \in z.reg.tracked
<1>. DEFINE b == s.book
            id == h.taker
            k == h.qty
            side == h.side
            r == Find(b, id)
            rests == ~h.mkt /\ h.tif \in {"GTC", "GTD"}
<1>1. side \in Sides /\ k \in Nat \ {0} /\ id \in Ids /\ h.takerPx \in 1..MaxPx /\ BookOK(b)
  BY SoundBook DEF HoldOK
<1>2. CASE rests /\ IsResting(b, id)
  <2>. DEFINE m == [r EXCEPT !.leaves = @ + k]
  <2>1. OrderOK(r) /\ r.id = id /\ r \in On(b, side)
    BY <1>1, <1>2, OnItsSide
  <2>2. z.book = AddResting(Cancel(b, m.id), side, m) /\ z.reg = s.reg
    BY <1>2 DEF RestoreTaker, Combine, Desk
  <2>0. id \in s.reg.tracked
    BY <1>2
  <2>. HIDE DEF r
  <2>3. OrderOK(m) /\ m.id = r.id /\ m.px = r.px
    BY <1>1, <2>1, MoreLeaves
  <2>. HIDE DEF m, side, k, id, b
  <2>. DEFINE c == z.book
  <2>4. c = AddResting(Cancel(b, r.id), side, m)
    BY <2>2, <2>3
  <2>. HIDE DEF c
  <2>5. \A j : j # id => (IsResting(c, j) <=> IsResting(b, j))
    BY <1>1, <2>1, <2>3, <2>4, CombineRests
  <2>. QED
    BY <2>0, <2>2, <2>5 DEF Follows, c, b, id
<1>3. CASE rests /\ ~IsResting(b, id) /\ ~Full(b)
  <2>. DEFINE m == Plain(id, h.takerPx, k, h.takerCum, FALSE)
              g == Adopt(s.reg, h)
  <2>1. z.book = AddResting(b, side, m) /\ z.reg = g
    BY <1>3 DEF RestoreTaker, Rebuild, Desk
  <2>2. OrderOK(m) /\ m.id = id
    <3>. DEFINE ll == FALSE
                d == Plain(id, h.takerPx, k, h.takerCum, ll)
    <3>. HIDE DEF ll
    <3>1. OrderOK(d) /\ d.id = id
      BY <1>1, PlainIs
    <3>. QED
      BY <3>1 DEF ll
  <2>3. g.tracked = s.reg.tracked \cup {id}
    BY <1>1, AdoptTracked
  <2>. HIDE DEF m, side, k, id, b, g
  <2>. DEFINE c == z.book
  <2>4. c = AddResting(b, side, m)
    BY <2>1
  <2>. HIDE DEF c
  <2>5. \A j : j # m.id => (IsResting(c, j) <=> IsResting(b, j))
    BY <1>1, <1>3, <2>2, <2>4, RebuildRests
  <2>. QED
    BY <2>1, <2>2, <2>3, <2>5 DEF Follows, c, b, id
<1>4. CASE ~(rests /\ IsResting(b, id)) /\ ~(rests /\ ~IsResting(b, id) /\ ~Full(b))
  <2>1. z = Refused(s, id, k)
    BY <1>4 DEF RestoreTaker
  <2>2. Follows(s, z, id) /\ z.book = s.book
    BY <2>1, RefusedFollows
  <2>. QED
    BY <2>2 DEF Follows
<1>. QED
  BY <1>2, <1>3, <1>4

(* Both legs of a hold that is rejected: whatever is left of them is known. *)
Settled(s, z, H, h) ==
  /\ RegOK(z.reg)
  /\ \A j : j \notin {h.maker, h.taker} =>
       (IsResting(z.book, j) <=> IsResting(s.book, j)) /\ (j \in z.reg.tracked <=> j \in s.reg.tracked)
  /\ \A j \in {h.maker, h.taker} : IsResting(z.book, j) => j \in z.reg.tracked
  /\ \A x \in H \ {h} : x.maker \in {h.maker, h.taker} => x.maker \in z.reg.tracked

LEMMA RejectFollows ==
  ASSUME NEW s, NEW H, NEW W, NEW n, Sound(s.funds, s.book, H, W, n, {}, 0, {}), DeskOK(s, n),
         NEW h \in H, Config.capacity \in Nat, Kept(s.reg.tracked, s.book, H, W),
         NEW z, z = RestoreTaker(RestoreMaker(s, h), h)
  PROVE  Settled(s, z, H, h)
<1>. DEFINE G == H \ {h}
            Z == {h.maker, h.taker}
            q == h.qty
            y == RestoreMaker(s, h)
            v == s.funds.rsv
            X == {} \cup Z
<1>1. HoldOK(h) /\ HoldFunded(h, v) /\ q \in Nat
  BY HoldIs
<1>2. /\ GoodFor(v, h.maker, Opposite(h.side), h.px) /\ GoodFor(v, h.taker, h.side, h.px)
      /\ ~h.mkt => GoodFor(v, h.taker, h.side, h.takerPx)
      /\ h.maker # h.taker /\ h.taker \in Ids
  BY <1>1 DEF HoldFunded, HoldOK
<1>3. Sound(s.funds, s.book, H, W, n, {}, q, {})
  BY <1>1, SoundHands
<1>4. h.maker \in Z /\ h.taker \in Z \ {h.maker} /\ (Z \ {h.maker}) \ {h.taker} = {}
  BY <1>2
<1>5. Sound(s.funds, s.book, G, W, n, Z, q, X)
  <2>1. G = Without(H, h)
    BY DEF Without
  <2>. HIDE DEF G
  <2>. QED
    BY <1>3, <2>1, TakeHold DEF Sound
<1>. HIDE DEF G, X, q
<1>6. Restored(s, y, G, W, n, Z, q, X, h.maker)
  BY <1>1, <1>2, <1>4, <1>5, MakerRestored DEF q
<1>7. y = RestoreMaker(s, h) /\ DeskOK(y, n)
  BY MakerDesk
<1>. HIDE DEF Z, y
<1>8. Follows(s, y, h.maker)
  BY <1>1, <1>2, <1>5, <1>7, MakerFollows DEF DeskOK
<1>. DEFINE Y == Z \ {h.maker}
<1>9. Sound(y.funds, y.book, G, W, n, Y, q, X) /\ AgreeOff(v, y.funds.rsv, h.maker)
  BY <1>6 DEF Restored
<1>10. /\ GoodFor(y.funds.rsv, h.taker, h.side, h.px)
       /\ ~h.mkt => GoodFor(y.funds.rsv, h.taker, h.side, h.takerPx)
  BY <1>2, <1>9, GoodStays
<1>11. h.taker \in Y
  BY <1>4
<1>. HIDE DEF Y
<1>12. Restored(y, z, G, W, n, Y, q, X, h.taker)
  BY <1>1, <1>7, <1>9, <1>10, <1>11, TakerRestored DEF q
<1>13. DeskOK(z, n)
  BY <1>2, <1>7, TakerDesk
<1>14. h.maker \in s.reg.tracked /\ (IsResting(s.book, h.taker) => h.taker \in s.reg.tracked)
  BY DEF Kept
<1>15. IsResting(y.book, h.taker) => h.taker \in y.reg.tracked
  BY <1>2, <1>8, <1>14 DEF Follows
<1>16. /\ Follows(y, z, h.taker)
       /\ IsResting(z.book, h.taker) /\ h.taker \in DOMAIN z.funds.rsv => h.taker \in z.reg.tracked
  BY <1>1, <1>7, <1>9, <1>10, <1>15, TakerFollows DEF DeskOK
<1>. DEFINE u == y.funds.rsv
            w == z.funds.rsv
            Q == Y \ {h.taker}
<1>17. Sound(z.funds, z.book, G, W, n, Q, q, X) /\ AgreeOff(u, w, h.taker)
  BY <1>12 DEF Restored
<1>. HIDE DEF Q
<1>18. h.maker \in DOMAIN w => h.maker \in z.reg.tracked
  <2>1. h.maker \in DOMAIN w => h.maker \in DOMAIN u
    BY <1>2, <1>17 DEF AgreeOff
  <2>. QED
    BY <1>2, <1>8, <1>14, <1>16, <2>1 DEF Follows
<1>19. \A j : IsResting(z.book, j) => j \in DOMAIN w
  BY <1>17, RestingOrder DEF GoodFor
<1>20. \A x \in G : x.maker \in DOMAIN w
  BY <1>17, HoldIs DEF HoldFunded, GoodFor
<1>21. h.taker \in s.reg.tracked /\ h.taker \in DOMAIN w => h.taker \in z.reg.tracked
  BY <1>2, <1>8, <1>16 DEF Follows
<1>22. \A j \in {h.maker, h.taker} : IsResting(z.book, j) => j \in z.reg.tracked
  BY <1>16, <1>18, <1>19
<1>23. \A x \in G : x.maker \in {h.maker, h.taker} => x.maker \in z.reg.tracked
  <2>1. \A x \in G : x.maker \in s.reg.tracked
    BY DEF Kept, G
  <2>. QED
    BY <1>18, <1>20, <1>21, <2>1
<1>24. \A j : j \notin {h.maker, h.taker} =>
         (IsResting(z.book, j) <=> IsResting(s.book, j)) /\ (j \in z.reg.tracked <=> j \in s.reg.tracked)
  BY <1>8, <1>16 DEF Follows
<1>. QED
  BY <1>13, <1>22, <1>23, <1>24 DEF G, Settled, DeskOK

LEMMA RejectHoldAnswers == ASSUME Inv, AnswerInv, RejectHold PROVE AnswerInv'
<1>. DEFINE s == Desk(book, funds, reg, tape, md)
            Z(h) == RestoreTaker(RestoreMaker(s, h), h)
<1>1. PICK h \in holds :
        /\ Step("resolve") /\ Head(work).hid = h.hid /\ Done
        /\ book' = Z(h).book /\ reg' = Tidied(h, Z(h).book, Z(h).reg, Z(h).funds).reg
        /\ holds' = holds \ {h} /\ UNCHANGED <<venue, now>>
  BY DEF RejectHold, Tidied
<1>. DEFINE z == Z(h)
            n == tape.netted
            W == SweepsIn(work)
            b == z.book
            g == z.reg
            f == z.funds
<1>2. s.book = book /\ s.funds = funds /\ s.reg = reg /\ s.tape = tape
  BY DEF Desk
<1>3. z = RestoreTaker(RestoreMaker(s, h), h) /\ book' = b /\ reg' = Tidied(h, b, g, f).reg
  BY <1>1
<1>. HIDE DEF s, Z, z
<1>4. /\ Sound(s.funds, s.book, holds, W, n, {}, 0, {}) /\ DeskOK(s, n) /\ Config.capacity \in Nat
      /\ Kept(s.reg.tracked, s.book, holds, W)
  BY <1>2, CapacityIs DEF Inv, AnswerInv, DeskOK
<1>. HIDE DEF W, n
<1>5. Settled(s, z, holds, h)
  BY <1>3, <1>4, RejectFollows, Zenon
<1>6. Resolves(h, b, g, f)
  BY <1>1, <1>2, <1>3, <1>5 DEF Resolves, Settled
<1>. HIDE DEF b, g, f
<1>. QED
  BY <1>1, <1>6, ResolvedAnswers

-----------------------------------------------------------------------------
(* Every step keeps the answers true *)

LEMMA StutterAnswers == ASSUME AnswerInv, UNCHANGED vars PROVE AnswerInv'
<1>1. /\ venue' = venue /\ Kept(reg'.tracked, book', holds', SweepsIn(work')) /\ Timely(holds', now')
      /\ (Looks(book', holds') => Config.window > 0) /\ Due(work', holds', now')
      /\ Promise(work', book', holds', reg'.tracked)
  BY DEF AnswerInv, vars
<1>. QED
  BY <1>1, AnswerKeeps

LEMMA NextAnswers == ASSUME Inv, AnswerInv, [Next]_vars PROVE AnswerInv'
<1>1. CASE Submissions
  BY <1>1, SubmitNewAnswers, SubmitCancelAnswers, SubmitModifyAnswers, SubmitMassCancelAnswers,
     SubmitQuoteAnswers, SubmitDecisionAnswers, SubmitTickAnswers DEF Submissions
<1>2. CASE Handling
  BY <1>2, ExpireHoldsAnswers, RejectHoldsForAnswers, RejectHoldsForAccountAnswers,
     ResolveGoneAnswers, AcceptHoldAnswers, RejectHoldAnswers, ExpireOrdersAnswers,
     ExpireOrderAnswers, PullAllAnswers, PullAnswers, RefuseNewAnswers, AcceptNewAnswers,
     ModifyAnswers, AmendUnknownAnswers, AmendInPlaceAnswers, AmendReenterAnswers,
     AnsweredAnswers DEF Handling
<1>3. CASE Matching
  BY <1>3, StpRelieveAnswers, StpApplyAnswers, SweepHoldAnswers, SweepFillAnswers,
     SweepFilledAnswers, KillResidualAnswers, RestResidualAnswers, RefuseResidualAnswers DEF Matching
<1>4. CASE UNCHANGED vars
  BY <1>4, StutterAnswers
<1>. QED
  BY <1>1, <1>2, <1>3, <1>4 DEF Next, OutOfCommands

(* An order that is gone has nothing alive and nothing reserved. *)
LEMMA GoneIs ==
  ASSUME Inv, SweepsIn(work) = {}, NEW id \in Ids, Gone(book, holds, reg.tracked, id)
  PROVE  Live(id) = 0 /\ ~Reserved(funds, id) /\ id \notin reg.tracked
<1>1. Live(id) = RestIn(book, id) + HeldQtyFor(holds, id) + FlyIn(SweepsIn(work), id)
  BY LiveIs
<1>2. HeldQtyFor(holds, id) = 0
  BY HeldNone DEF Gone
<1>3. RestIn(book, id) = 0
  BY DEF Gone, RestIn
<1>4. FlyIn(SweepsIn(work), id) = 0
  BY DEF FlyIn, Flies
<1>5. id \notin DOMAIN funds.rsv
  <2>1. ~Present(book, holds, SweepsIn(work), id)
    BY DEF Gone, Present
  <2>2. Needed(book, holds, SweepsIn(work), funds.rsv, {})
    BY DEF Inv, Sound, Backed
  <2>. QED
    BY <2>1, <2>2 DEF Needed
<1>. QED
  BY <1>1, <1>2, <1>3, <1>4, <1>5 DEF Gone, Reserved

LEMMA InvAnswer == ASSUME Inv, AnswerInv PROVE AnswerIsTrue
<1>. DEFINE w == work[1]
            gone == {id \in Ids : \/ w.cmd = "cancel" /\ id = w.id
                                  \/ w.cmd = "massCancel" /\ Owner[id] = w.acct}
<1>1. SUFFICES ASSUME Step("answer")
               PROVE  /\ \A id \in gone : Live(id) = 0 /\ ~Reserved(funds, id) /\ id \notin reg.tracked
                      /\ \A h \in holds : now < h.deadline
  <2>1. Step("answer") => Head(work) = w
    BY AtWork
  <2>. QED
    BY <2>1 DEF AnswerIsTrue
<1>2. /\ work # <<>> /\ IsSeq(work) /\ 1 \in DOMAIN work /\ w.op = "answer" /\ Due(work, holds, now)
      /\ Promise(work, book, holds, reg.tracked)
  BY <1>1, AnswerIs
<1>3. Len(work) = 1 /\ DOMAIN work = {1}
  <2>1. Len(work) = 1
    BY <1>2 DEF Promise, Ends
  <2>2. DOMAIN work = 1..Len(work)
    BY <1>2, SeqShape
  <2>. QED
    BY <2>1, <2>2
<1>4. SweepsIn(work) = {}
  BY <1>2, <1>3 DEF SweepsIn
<1>5. \A h \in holds : now < h.deadline
  BY <1>2, <1>3 DEF Due, Fires
<1>6. ASSUME NEW id \in gone PROVE Gone(book, holds, reg.tracked, id)
  <2>1. CASE w.cmd = "cancel" /\ id = w.id
    <3>1. Withdrawn(work, book, holds, reg.tracked)
      BY <1>2 DEF Promise
    <3>. QED
      BY <1>3, <2>1, <3>1 DEF Withdrawn, Before
  <2>2. CASE w.cmd = "massCancel" /\ Owner[id] = w.acct
    <3>1. Cleaned(work, book, holds, reg.tracked)
      BY <1>2 DEF Promise
    <3>2. Swept(work, book, holds, reg.tracked, w.acct)
      BY <1>3, <2>2, <3>1 DEF Cleaned, Before
    <3>. QED
      BY <1>3, <2>2, <3>2 DEF Swept
  <2>. QED
    BY <2>1, <2>2
<1>. QED
  BY <1>4, <1>5, <1>6, GoneIs

(***************************************************************************)
(* An answer is true when it goes out: after a cancel or a mass cancel     *)
(* nothing of the orders it names is alive, reserved or tracked, whatever  *)
(* the command met on its way (holds it rejected and whose slices came     *)
(* back to the book, pulls that found the order resting or not), and no    *)
(* hold the engine keeps past a command is past its deadline (onCancel,    *)
(* rejectHoldsFor, rejectHoldsForAccount, expireHolds, forgetOrder,        *)
(* cleanupOrderIfDone).                                                    *)
(***************************************************************************)
THEOREM AnswersAreTrue == Spec => []AnswerIsTrue
<1>1. Init => AnswerInv
  BY InitAnswers
<1>2. Inv /\ AnswerInv /\ [Next]_vars => AnswerInv'
  BY NextAnswers
<1>3. Inv /\ AnswerInv => AnswerIsTrue
  BY InvAnswer
<1>. QED
  BY <1>1, <1>2, <1>3, EngineInvariant, PTL DEF Spec
=============================================================================

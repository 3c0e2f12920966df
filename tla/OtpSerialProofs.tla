--------------------------- MODULE OtpSerialProofs ---------------------------
(***************************************************************************)
(* What verifyOtp guarantees about a code: its guess budget, its one use   *)
(* and its lifetime, from however many devices it is verified and however  *)
(* long the requests take.  Requests that work on one code at the same     *)
(* time are noted in beside; the argument is what a request may rely on    *)
(* that works beside nobody.                                               *)
(***************************************************************************)
EXTENDS OtpCodeProofs

-----------------------------------------------------------------------------
(* No late exchange *)

\* A request past the expiry check took its lock before the code expired.
InTimeInv ==
    \A r \in Requests : pc[r] \in {"compare", "increment", "exchange"} =>
        since[r] <= snap[r].expiresAt

LEMMA InTimeNext == TypeOK /\ Timely /\ InTimeInv /\ [Next]_vars => InTimeInv'
<1> SUFFICES ASSUME TypeOK, Timely, InTimeInv, [Next]_vars
             PROVE  InTimeInv'
  OBVIOUS
<1> USE DEF TypeOK, Inside
<1>1. ASSUME UNCHANGED calls
      PROVE  InTimeInv'
  BY <1>1 DEF InTimeInv, calls
<1>2. ASSUME NEW s \in Requests,
             Acquire(s) \/ AcquireNoOtp(s) \/ Busy(s) \/ CheckFails(s) \/ Delete(s)
               \/ Release(s) \/ CommandFails(s) \/ Crash(s)
      PROVE  InTimeInv'
  BY <1>2 DEF Acquire, AcquireNoOtp, Busy, CheckFails, Delete, Release, CommandFails,
              Crash, Goto, End, InTimeInv
<1>3. ASSUME NEW s \in Requests,
             CompareInvalid(s) \/ CompareValid(s) \/ Increment(s) \/ Exchange(s)
      PROVE  InTimeInv'
  BY <1>3 DEF CompareInvalid, CompareValid, Increment, Exchange, Goto, InTimeInv
<1>4. ASSUME NEW s \in Requests, CheckPasses(s)
      PROVE  InTimeInv'
  <2>1. now <= snap[s].expiresAt
    BY <1>4 DEF CheckPasses, Expired, Otp
  <2>2. since[s] <= now
    BY <1>4 DEF CheckPasses, Goto, Timely, Active
  <2>3. since[s] <= snap[s].expiresAt
    BY <2>1, <2>2 DEF Otp
  <2>4. QED
    BY <1>4, <2>3 DEF CheckPasses, Goto, InTimeInv
<1>5. QED
  BY <1>1, <1>2, <1>3, <1>4 DEF Next, Verify, Send, Consume, Tick, vars

\* A request past its checks took its lock before its code expired
\* (strengthening of the theorem below).
THEOREM ChecksAreInTime == Spec => []InTimeInv
<1>1. Init => InTimeInv
  BY DEF Init, InTimeInv
<1>2. TypeOK /\ Timely /\ InTimeInv /\ [Next]_vars => InTimeInv'
  BY InTimeNext
<1>3. QED
  BY <1>1, <1>2, TypeCorrect, RequestsAreTimely, PTL DEF Spec

\* A code is exchanged no later than its lifetime plus the length of one
\* request after it was sent.
THEOREM ExchangesAreInTime == Spec => NoLateExchange
<1> DEFINE Late == \A c \in Codes : exchanged'[c] # exchanged[c] =>
                       \E i \in issued[c] : now <= i.at + OtpTtl + MaxDuration
<1>1. TypeOK /\ Timely /\ Provenance /\ InTimeInv /\ [Next]_vars => Late \/ UNCHANGED vars
  <2> SUFFICES ASSUME TypeOK, Timely, Provenance, InTimeInv, Next,
                      NEW c \in Codes, exchanged'[c] # exchanged[c]
               PROVE  \E i \in issued[c] : now <= i.at + OtpTtl + MaxDuration
    OBVIOUS
  <2>1. PICK s \in Requests : Exchange(s)
    BY DEF Next, Send, Acquire, AcquireNoOtp, Busy, Verify, CheckFails, CheckPasses,
           Delete, CompareInvalid, CompareValid, Increment, Release, CommandFails,
           Crash, Consume, Tick, history
  <2>2. c = snap[s].code /\ pc[s] = "exchange"
    BY <2>1 DEF Exchange, Spend, Goto, TypeOK
  <2>3. PICK i \in issued[c] : snap[s].expiresAt = i.at + OtpTtl
    BY <2>2 DEF Provenance, From, Active, Inside
  <2>4. now <= since[s] + MaxDuration /\ since[s] <= snap[s].expiresAt
    BY <2>2 DEF Timely, InTimeInv, Active, Inside
  <2>5. now \in Nat /\ since[s] \in Nat /\ i.at \in Nat
    BY DEF TypeOK, Issue
  <2>6. QED
    BY <2>3, <2>4, <2>5, NumbersAssumption
<1>2. QED
  BY <1>1, TypeCorrect, RequestsAreTimely, CodesAreSent, ChecksAreInTime, PTL
     DEF Spec, NoLateExchange

-----------------------------------------------------------------------------
(* Requests beside each other *)

\* Two values of one code belong to the same e-mail.
LEMMA CodeNamesEmail ==
    ASSUME Provenance, NEW v, NEW w, NEW e, NEW f, v.code = w.code,
           From(issued, v, e), From(issued, w, f)
    PROVE  e = f
  BY DEF Provenance, From

\* Requests that carry a value of the same e-mail know of each other's code.
BesideInv ==
    \A r, q \in Requests :
        r # q /\ Carries(r) /\ Carries(q) /\ r.email = q.email
            => snap[q].code \in beside[r]

\* Nobody starts to carry a value, or is met, in this step.
NobodyJoins ==
    \A r \in Requests : Carries(r)' =>
        Carries(r) /\ snap'[r] = snap[r] /\ beside'[r] = beside[r]

LEMMA RequestsJoin ==
    ASSUME TypeOK, [Next]_vars, \A s \in Requests : ~Acquire(s)
    PROVE  NobodyJoins
<1> USE DEF TypeOK, Inside, Carrying, Carries, NobodyJoins
<1>1. ASSUME UNCHANGED calls
      PROVE  NobodyJoins
  BY <1>1 DEF calls
<1>2. ASSUME NEW s \in Requests, AcquireNoOtp(s) \/ Busy(s) \/ Release(s) \/ Crash(s)
      PROVE  NobodyJoins
  BY <1>2 DEF AcquireNoOtp, Busy, Release, Crash, End
<1>3. ASSUME NEW s \in Requests, NEW from \in Carrying, NEW to \in Inside, Goto(s, from, to)
      PROVE  NobodyJoins
  BY <1>3 DEF Goto
<1>4. ASSUME NEW s \in Requests, Verify(s) \/ CommandFails(s), ~Release(s)
      PROVE  NobodyJoins
  <2>1. \E from \in Carrying, to \in Inside : Goto(s, from, to)
    BY <1>4 DEF Verify, CheckFails, CheckPasses, Delete, CompareInvalid,
                CompareValid, Increment, Exchange, CommandFails
  <2> QED
    BY <1>3, <2>1
<1> QED
  BY <1>1, <1>2, <1>4 DEF Next, Send, Consume, Tick, vars

\* What a request that takes the lock changes.
LEMMA AcquireChanges ==
    ASSUME TypeOK, NEW s \in Requests, Acquire(s)
    PROVE  /\ ~Carries(s) /\ Carries(s)' /\ pc'[s] = "check"
           /\ snap'[s] = otp[s.email] /\ otp[s.email] # NoOtp /\ otp' = otp
           /\ \A r \in Requests : r # s =>
                  /\ pc'[r] = pc[r] /\ snap'[r] = snap[r] /\ since'[r] = since[r]
                  /\ Carries(r)' = Carries(r) /\ beside[r] \subseteq beside'[r]
<1> USE RequestParts DEF TypeOK
<1>1. /\ pc[s] = "idle" /\ pc' = [pc EXCEPT ![s] = "check"]
      /\ snap' = [snap EXCEPT ![s] = otp[s.email]] /\ otp[s.email] # NoOtp /\ otp' = otp
      /\ \A r \in Requests : r # s => since'[r] = since[r]
  BY DEF Acquire
<1>2. \A r \in Requests : r # s => beside[r] \subseteq beside'[r]
  BY DEF Acquire, Meet
<1> QED
  BY <1>1, <1>2 DEF Carries, Carrying, Inside

LEMMA BesideAcquire ==
    ASSUME TypeOK, LockKept, BesideInv, NEW s \in Requests, Acquire(s)
    PROVE  BesideInv'
<1> USE RequestParts
<1>1. ASSUME NEW q \in Requests, q # s, Carries(q), q.email = s.email
      PROVE  /\ q \in Beside(s)
             /\ snap[q].code \in beside'[s] /\ otp[s.email].code \in beside'[q]
  <2>1. q.device = s.device => Lapsed(q)
    <3> SUFFICES ASSUME q.device = s.device, ~Lapsed(q)
                 PROVE  FALSE
      OBVIOUS
    <3>1. lock[q.device][q.email] = [owner |-> q, until |-> since[q] + LockTtl]
      BY <1>1 DEF LockKept, Active, Carries, Carrying
    <3>2. lock[q.device][q.email] # NoLock
      BY <3>1, RequestsAssumption DEF NoLock
    <3> QED
      BY <1>1, <3>2 DEF Acquire, LockFree
  <2>2. q \in Beside(s)
    BY <1>1, <2>1 DEF Beside
  <2>3. Meet(s)
    BY DEF Acquire
  <2> QED
    BY <1>1, <2>2, <2>3 DEF Meet
<1>2. ASSUME NEW r \in Requests, NEW q \in Requests, r # q,
             Carries(r)', Carries(q)', r.email = q.email
      PROVE  snap'[q].code \in beside'[r]
  <2>1. CASE r = s
    BY <1>1, <1>2, <2>1, AcquireChanges
  <2>2. CASE q = s
    BY <1>1, <1>2, <2>2, AcquireChanges
  <2>3. CASE r # s /\ q # s
    <3>1. Carries(r) /\ Carries(q) /\ snap'[q] = snap[q] /\ beside[r] \subseteq beside'[r]
      BY <1>2, <2>3, AcquireChanges
    <3> QED
      BY <1>2, <3>1 DEF BesideInv
  <2> QED
    BY <2>1, <2>2, <2>3
<1> QED
  BY <1>2 DEF BesideInv

LEMMA BesideNext == TypeOK /\ LockKept /\ BesideInv /\ [Next]_vars => BesideInv'
<1> SUFFICES ASSUME TypeOK, LockKept, BesideInv, [Next]_vars
             PROVE  BesideInv'
  OBVIOUS
<1>1. CASE \E s \in Requests : Acquire(s)
  BY <1>1, BesideAcquire
<1>2. CASE \A s \in Requests : ~Acquire(s)
  <2>1. NobodyJoins
    BY <1>2, RequestsJoin
  <2> QED
    BY <2>1 DEF NobodyJoins, BesideInv
<1> QED
  BY <1>1, <1>2

\* Requests that carry a value of the same e-mail know of each other's code,
\* whether they are of two devices or one has outlived its lock.
THEOREM NeighboursAreKnown == Spec => []BesideInv
<1>1. Init => BesideInv
  BY DEF Init, BesideInv, Carries, Carrying, Inside
<1>2. QED
  BY <1>1, BesideNext, TypeCorrect, LockIsKept, PTL DEF Spec

Context == TypeOK /\ Timely /\ Provenance /\ CountInv /\ BesideInv

\* A request that carries a value is active, and its value was sent.
LEMMA CarriersAreActive ==
    ASSUME Context, NEW r \in Requests, Carries(r)
    PROVE  /\ Active(r) /\ From(issued, snap[r], r.email)
           /\ snap[r] \in Otp /\ snap[r].code \in Codes
  BY DEF Context, TypeOK, Provenance, From, Active, Carries, Carrying

\* A request that works beside nobody is the only one with its code.
LEMMA OnlyCarrier ==
    ASSUME Context, NEW r \in Requests, NEW q \in Requests, Carries(r), Carries(q),
           snap[q].code = snap[r].code, ~Together(r)
    PROVE  q = r
<1>1. q.email = r.email
  BY CarriersAreActive, CodeNamesEmail DEF Context
<1> QED
  BY <1>1 DEF Context, BesideInv, Together

LEMMA ContextHolds == Spec => []Context
  BY TypeCorrect, RequestsAreTimely, CodesAreSent, AttemptsAreCounted,
     NeighboursAreKnown, PTL DEF Context

-----------------------------------------------------------------------------
(* Rounds of requests and the attempts they cost *)

\* A stored value counts the rounds of its code; a carried one counts them but
\* for the present round.
RoundsInv ==
    /\ \A e \in Emails : otp[e] # NoOtp => rounds[otp[e].code] <= otp[e].attempts
    /\ \A r \in Requests : Carries(r) =>
           /\ rounds[snap[r].code] <= snap[r].attempts + 1
           /\ snap[r].code \notin counted => rounds[snap[r].code] <= snap[r].attempts
    /\ RoundsBudget

\* Steps that count nothing and write no value.
LEMMA RoundsQuiet ==
    ASSUME RoundsInv, NobodyJoins, rounds' = rounds, counted' = counted,
           \A e \in Emails : otp'[e] \in {otp[e], NoOtp}
    PROVE  RoundsInv'
  BY DEF RoundsInv, NobodyJoins, RoundsBudget

LEMMA RoundsSend ==
    ASSUME Context, RoundsInv,
           NEW d \in Devices, NEW e \in Emails, NEW c \in Codes, Send(d, e, c)
    PROVE  RoundsInv'
<1>1. rounds' = rounds /\ counted' = counted /\ UNCHANGED calls
  BY DEF Send
<1>2. /\ otp'[e].code = c /\ otp'[e].attempts = 0 /\ rounds[c] = 0
      /\ \A f \in Emails : f # e => otp'[f] = otp[f]
  BY DEF Send, Context, TypeOK, Provenance
<1>3. \A f \in Emails : otp'[f] # NoOtp => rounds'[otp'[f].code] <= otp'[f].attempts
  BY <1>1, <1>2 DEF RoundsInv
<1> QED
  BY <1>1, <1>3 DEF RoundsInv, RoundsBudget, Carries, calls

LEMMA RoundsAcquire ==
    ASSUME Context, RoundsInv, NEW s \in Requests, Acquire(s)
    PROVE  RoundsInv'
<1> USE RequestParts
<1> DEFINE c == otp[s.email].code
<1>1. rounds' = rounds /\ otp' = otp
  BY DEF Acquire
<1>2. counted' = counted \/ (counted' = counted \ {c} /\ \A q \in Requests : Carries(q) => snap[q].code # c)
  BY DEF Acquire, BeginRound
<1>3. rounds[c] <= otp[s.email].attempts /\ rounds[c] \in Nat /\ otp[s.email].attempts \in Nat
  <2>1. c \in Codes /\ otp[s.email] \in Otp
    BY AcquireChanges DEF Context, Provenance, From, TypeOK
  <2> QED
    BY <2>1, AcquireChanges DEF Context, RoundsInv, TypeOK, Otp
<1> HIDE DEF c
<1>4. ASSUME NEW r \in Requests, Carries(r)'
      PROVE  /\ rounds'[snap'[r].code] <= snap'[r].attempts + 1
             /\ snap'[r].code \notin counted' => rounds'[snap'[r].code] <= snap'[r].attempts
  <2>1. CASE r = s
    <3>1. snap'[r].code = c /\ snap'[r].attempts = otp[s.email].attempts
      BY <2>1, AcquireChanges DEF Context, c
    <3> QED
      BY <1>1, <1>3, <3>1
  <2>2. CASE r # s
    <3>1. Carries(r) /\ snap'[r] = snap[r]
      BY <1>4, <2>2, AcquireChanges DEF Context
    <3>2. snap[r].code \notin counted' => snap[r].code \notin counted
      BY <1>2, <3>1
    <3> QED
      BY <1>1, <3>1, <3>2 DEF RoundsInv
  <2> QED
    BY <2>1, <2>2
<1> QED
  BY <1>1, <1>4 DEF RoundsInv, RoundsBudget

LEMMA RoundsIncrement ==
    ASSUME Context, RoundsInv, NEW s \in Requests, Increment(s)
    PROVE  RoundsInv'
<1> USE RequestParts
<1> DEFINE c == snap[s].code
           n == snap[s].attempts
<1>1. Carries(s) /\ pc[s] = "increment"
  BY DEF Increment, Goto, Carries, Carrying, Inside
<1>2. c \in Codes /\ n \in Nat /\ rounds[c] \in Nat
  BY <1>1, CarriersAreActive DEF Context, TypeOK, Otp
<1>3. /\ snap' = snap /\ counted' = counted \cup {c}
      /\ rounds' = IF c \in counted THEN rounds ELSE [rounds EXCEPT ![c] = @ + 1]
  BY DEF Increment, Goto, CountRound
<1>4. otp'[s.email].code = c /\ otp'[s.email].attempts = n + 1
      /\ \A e \in Emails : e # s.email => otp'[e] = otp[e]
  BY DEF Increment, Counted, Context, TypeOK
<1>5. rounds[c] <= n + 1 /\ (c \notin counted => rounds[c] <= n) /\ n < MaxAttempts
  BY <1>1 DEF RoundsInv, Context, CountInv
<1>6. \A r \in Requests : Carries(r)' => Carries(r)
  BY DEF Increment, Goto, Carries, Carrying, Context, TypeOK
<1>7. \A e \in Emails : e # s.email /\ otp[e] # NoOtp => otp[e].code # c /\ otp[e].code \in Codes
  BY <1>1, CarriersAreActive, CodeNamesEmail DEF Context, Provenance, From
<1> HIDE DEF c, n
<1>8. rounds'[c] <= n + 1 /\ \A k \in Codes : k # c => rounds'[k] = rounds[k]
  BY <1>2, <1>3, <1>5 DEF Context, TypeOK
<1>9. \A e \in Emails : otp'[e] # NoOtp => rounds'[otp'[e].code] <= otp'[e].attempts
  BY <1>4, <1>7, <1>8 DEF RoundsInv
<1>10. ASSUME NEW r \in Requests, Carries(r)'
       PROVE  /\ rounds'[snap'[r].code] <= snap'[r].attempts + 1
              /\ snap'[r].code \notin counted' => rounds'[snap'[r].code] <= snap'[r].attempts
  <2>1. Carries(r) /\ snap[r] \in Otp /\ snap[r].code \in Codes
    BY <1>6, <1>10, CarriersAreActive
  <2>2. snap[r].attempts \in Nat
    BY <2>1 DEF Otp
  <2>3. CASE snap[r].code = c
    <3>1. c \in counted'
      BY <1>3
    <3>2. rounds[c] <= snap[r].attempts + 1 /\ (c \notin counted => rounds[c] <= snap[r].attempts)
      BY <2>1, <2>3 DEF RoundsInv
    <3>3. rounds'[c] = rounds[c] \/ (c \notin counted /\ rounds'[c] = rounds[c] + 1)
      BY <1>2, <1>3 DEF Context, TypeOK
    <3> QED
      BY <1>2, <1>3, <2>2, <2>3, <3>1, <3>2, <3>3
  <2>4. CASE snap[r].code # c
    BY <1>3, <1>8, <2>1, <2>4 DEF RoundsInv
  <2> QED
    BY <2>3, <2>4
<1>11. RoundsBudget'
  <2>1. rounds'[c] <= MaxAttempts
    <3>1. rounds'[c] = rounds[c] \/ (c \notin counted /\ rounds'[c] = rounds[c] + 1)
      BY <1>2, <1>3 DEF Context, TypeOK
    <3> QED
      BY <1>2, <1>5, <3>1, NumbersAssumption DEF RoundsInv, RoundsBudget
  <2> QED
    BY <1>8, <2>1 DEF RoundsInv, RoundsBudget
<1> QED
  BY <1>9, <1>10, <1>11 DEF RoundsInv

\* What no step but a send, a lock taken or a count changes.
LEMMA WritesNothing ==
    ASSUME TypeOK, [Next]_vars,
           \A d \in Devices, e \in Emails, c \in Codes : ~Send(d, e, c),
           \A s \in Requests : ~Acquire(s) /\ ~Increment(s)
    PROVE  /\ NobodyJoins /\ rounds' = rounds /\ counted' = counted /\ issued' = issued
           /\ \A e \in Emails : otp'[e] \in {otp[e], NoOtp}
<1>1. NobodyJoins
  BY RequestsJoin
<1> USE RequestParts DEF TypeOK
<1>2. ASSUME UNCHANGED <<rounds, counted, issued>>, otp' = otp
      PROVE  /\ rounds' = rounds /\ counted' = counted /\ issued' = issued
             /\ \A e \in Emails : otp'[e] \in {otp[e], NoOtp}
  BY <1>2
<1>3. ASSUME NEW s \in Requests,
             AcquireNoOtp(s) \/ Busy(s) \/ Release(s) \/ CommandFails(s) \/ Crash(s)
      PROVE  UNCHANGED <<rounds, counted, issued>> /\ otp' = otp
  BY <1>3 DEF AcquireNoOtp, Busy, Release, CommandFails, Crash, store, history
<1>4. ASSUME NEW s \in Requests,
             CheckFails(s) \/ CheckPasses(s) \/ CompareInvalid(s) \/ CompareValid(s)
      PROVE  UNCHANGED <<rounds, counted, issued>> /\ otp' = otp
  BY <1>4 DEF CheckFails, CheckPasses, CompareInvalid, CompareValid, store, history
<1>5. ASSUME NEW s \in Requests, Delete(s) \/ Exchange(s)
      PROVE  /\ UNCHANGED <<rounds, counted, issued>>
             /\ \A e \in Emails : otp'[e] \in {otp[e], NoOtp}
  BY <1>5 DEF Delete, Exchange, history
<1>6. CASE Tick
  BY <1>1, <1>6 DEF Tick, history
<1>7. CASE UNCHANGED vars \/ \E e \in Emails, t \in Requests : Consume(e, t)
  BY <1>1, <1>7 DEF vars, store, Consume, history
<1> QED
  BY <1>1, <1>2, <1>3, <1>4, <1>5, <1>6, <1>7 DEF Next, Verify

LEMMA RoundsNext == Context /\ RoundsInv /\ [Next]_vars => RoundsInv'
<1> SUFFICES ASSUME Context, RoundsInv, [Next]_vars
             PROVE  RoundsInv'
  OBVIOUS
<1>1. ASSUME \A d \in Devices, e \in Emails, c \in Codes : ~Send(d, e, c),
             \A s \in Requests : ~Acquire(s) /\ ~Increment(s)
      PROVE  RoundsInv'
  BY <1>1, WritesNothing, RoundsQuiet DEF Context
<1> QED
  BY <1>1, RoundsSend, RoundsAcquire, RoundsIncrement

\* The attempts that are stored or carried account for the rounds of their code
\* (strengthening of the next theorem).
THEOREM RoundsAreCounted == Spec => []RoundsInv
<1>1. Init => RoundsInv
  BY NumbersAssumption DEF Init, RoundsInv, RoundsBudget, Carries, Carrying, Inside
<1>2. QED
  BY <1>1, RoundsNext, ContextHolds, PTL DEF Spec

\* However many devices guess at once, a round of overlapping requests in which
\* a guess is counted costs the code one of its attempts.
THEOREM RoundsAreBounded == Spec => []RoundsBudget
<1>1. RoundsInv => RoundsBudget
  BY DEF RoundsInv
<1>2. QED
  BY <1>1, RoundsAreCounted, PTL

-----------------------------------------------------------------------------
(* The guess budget *)

\* A request that works beside nobody is in a round of its own.
SoloInv ==
    \A r \in Requests : Carries(r) /\ ~Together(r) => snap[r].code \notin counted

LEMMA SoloAcquire ==
    ASSUME Context, SoloInv, BesideInv', NEW s \in Requests, Acquire(s)
    PROVE  SoloInv'
<1> DEFINE c == otp[s.email].code
<1>1. TypeOK
  BY DEF Context
<1>2. counted' \subseteq counted
  BY DEF Acquire, BeginRound
<1>3. ASSUME ~Together(s)'
      PROVE  snap'[s].code \notin counted'
  <2>1. ASSUME NEW q \in Requests, Carries(q), snap[q].code = c
        PROVE  FALSE
    <3>1. q # s /\ Carries(q)' /\ snap'[q].code = snap'[s].code /\ Carries(s)'
      BY <1>1, <2>1, AcquireChanges
    <3>2. From(issued, snap[q], q.email) /\ From(issued, otp[s.email], s.email)
      BY <1>1, <2>1, RequestParts, CarriersAreActive, AcquireChanges DEF Context, Provenance
    <3>3. q.email = s.email
      BY <2>1, <3>2, CodeNamesEmail DEF Context
    <3>4. snap'[q].code \in beside'[s]
      BY <3>1, <3>3 DEF BesideInv
    <3> QED
      BY <1>3, <3>1, <3>4 DEF Together
  <2>2. counted' = counted \ {c}
    BY <2>1 DEF Acquire, BeginRound
  <2> QED
    BY <1>1, <2>2, AcquireChanges
<1>4. ASSUME NEW r \in Requests, r # s, Carries(r)', ~Together(r)'
      PROVE  snap'[r].code \notin counted'
  <2>1. Carries(r) /\ snap'[r] = snap[r] /\ beside[r] \subseteq beside'[r]
    BY <1>1, <1>4, AcquireChanges
  <2> QED
    BY <1>2, <1>4, <2>1 DEF SoloInv, Together
<1> QED
  BY <1>3, <1>4 DEF SoloInv

LEMMA SoloIncrement ==
    ASSUME Context, SoloInv, NobodyJoins, NEW s \in Requests, Increment(s)
    PROVE  SoloInv'
<1>1. counted' = counted \cup {snap[s].code} /\ ~Carries(s)' /\ Carries(s)
  BY DEF Increment, CountRound, Goto, Carries, Carrying, Inside, Context, TypeOK
<1>2. ASSUME NEW r \in Requests, Carries(r)', ~Together(r)'
      PROVE  snap'[r].code \notin counted'
  <2>1. r # s /\ Carries(r) /\ snap'[r] = snap[r] /\ beside'[r] = beside[r]
    BY <1>1, <1>2 DEF NobodyJoins
  <2>2. ~Together(r)
    BY <1>2, <2>1 DEF Together
  <2>3. snap[s].code # snap[r].code
    BY <1>1, <2>1, <2>2, OnlyCarrier
  <2> QED
    BY <1>1, <2>1, <2>2, <2>3 DEF SoloInv
<1> QED
  BY <1>2 DEF SoloInv

LEMMA SoloNext == Context /\ BesideInv' /\ SoloInv /\ [Next]_vars => SoloInv'
<1> SUFFICES ASSUME Context, BesideInv', SoloInv, [Next]_vars
             PROVE  SoloInv'
  OBVIOUS
<1>1. TypeOK
  BY DEF Context
<1>2. ASSUME NobodyJoins, counted' = counted
      PROVE  SoloInv'
  BY <1>2 DEF NobodyJoins, SoloInv, Together
<1>3. ASSUME NEW d \in Devices, NEW e \in Emails, NEW c \in Codes, Send(d, e, c)
      PROVE  SoloInv'
  BY <1>3 DEF Send, calls, SoloInv, Carries, Together
<1>4. ASSUME NEW s \in Requests, Increment(s)
      PROVE  SoloInv'
  <2>1. \A r \in Requests : ~Acquire(r)
    BY <1>1, <1>4 DEF Increment, Goto, Acquire, TypeOK
  <2> QED
    BY <1>1, <1>4, <2>1, RequestsJoin, SoloIncrement
<1> QED
  BY <1>1, <1>2, <1>3, <1>4, SoloAcquire, WritesNothing

\* The requests that are about to count a wrong guess of c.
Guessing(c) == {r \in Requests : pc[r] = "increment" /\ snap[r].code = c}

\* The wrong guesses of c but for one in each counted round, those that were
\* lost, those made beside other requests, and a number of others.
Within(c, others) == wrong[c] <= rounds[c] + lost[c] + joint[c] + others

\* That is all of them, but for one in a round that has counted none yet.
BudgetInv ==
    \A c \in Codes :
        /\ Within(c, 0) \/ (Within(c, 1) /\ c \notin counted /\ Guessing(c) # {})
        /\ wrong[c] <= MaxAttempts + lost[c] + joint[c]

LEMMA BudgetTyped ==
    ASSUME Context, NEW c \in Codes
    PROVE  /\ wrong[c] \in Nat /\ rounds[c] \in Nat /\ lost[c] \in Nat /\ joint[c] \in Nat
           /\ MaxAttempts \in Nat
  BY NumbersAssumption DEF Context, TypeOK

\* Steps that guess, lose and count nothing.
LEMMA BudgetQuiet ==
    ASSUME BudgetInv, UNCHANGED <<wrong, joint, lost, rounds>>,
           counted' \subseteq counted,
           \A r \in Requests : pc[r] = "increment" => pc'[r] = "increment" /\ snap'[r] = snap[r]
    PROVE  BudgetInv'
<1>1. \A c \in Codes : Guessing(c) # {} => Guessing(c)' # {}
  BY DEF Guessing
<1> QED
  BY <1>1 DEF BudgetInv, Within

LEMMA BudgetCompare ==
    ASSUME Context, RoundsInv, SoloInv, BudgetInv, NEW s \in Requests, CompareInvalid(s)
    PROVE  BudgetInv'
<1>1. Carries(s) /\ pc[s] = "compare"
  BY DEF CompareInvalid, Goto, Carries, Carrying, Inside
<1>2. PICK c \in Codes : c = snap[s].code
  BY <1>1, CarriersAreActive
<1>3. /\ wrong' = [wrong EXCEPT ![c] = wrong[c] + 1]
      /\ joint' = IF Together(s) THEN [joint EXCEPT ![c] = joint[c] + 1] ELSE joint
      /\ UNCHANGED <<snap, lost, rounds, counted>> /\ pc' = [pc EXCEPT ![s] = "increment"]
  BY <1>2 DEF CompareInvalid, Goto
<1>4. \A k \in Codes : Guessing(k) \subseteq Guessing(k)' /\ s \in Guessing(c)'
  BY <1>2, <1>3 DEF Guessing, Context, TypeOK
<1>5. /\ wrong'[c] = wrong[c] + 1
      /\ joint'[c] = IF Together(s) THEN joint[c] + 1 ELSE joint[c]
      /\ \A k \in Codes : k # c => wrong'[k] = wrong[k] /\ joint'[k] = joint[k]
  BY <1>2, <1>3 DEF Context, TypeOK
<1>6. ASSUME NEW k \in Codes, k # c
      PROVE  /\ Within(k, 0)' \/ (Within(k, 1)' /\ k \notin counted' /\ Guessing(k)' # {})
             /\ wrong'[k] <= MaxAttempts + lost'[k] + joint'[k]
  BY <1>3, <1>4, <1>5, <1>6 DEF BudgetInv, Within
<1>7. CASE Together(s)
  <2>1. Within(c, 0) => Within(c, 0)'
    BY <1>2, <1>3, <1>5, <1>7, BudgetTyped DEF Within
  <2>2. Within(c, 1) => Within(c, 1)'
    BY <1>2, <1>3, <1>5, <1>7, BudgetTyped DEF Within
  <2>3. wrong'[c] <= MaxAttempts + lost'[c] + joint'[c]
    BY <1>2, <1>3, <1>5, <1>7, BudgetTyped DEF BudgetInv
  <2>4. Within(c, 0)' \/ (Within(c, 1)' /\ c \notin counted' /\ Guessing(c)' # {})
    BY <1>2, <1>3, <1>4, <2>1, <2>2 DEF BudgetInv
  <2> QED
    BY <1>6, <2>3, <2>4 DEF BudgetInv
<1>8. CASE ~Together(s)
  <2>1. Guessing(c) = {}
    <3>1. ASSUME NEW r \in Guessing(c)
          PROVE  FALSE
      <4>1. r \in Requests /\ pc[r] = "increment" /\ snap[r].code = snap[s].code
        BY <1>2 DEF Guessing
      <4>2. Carries(r)
        BY <4>1 DEF Carries, Carrying, Inside
      <4>3. r = s
        BY <1>1, <1>8, <4>1, <4>2, OnlyCarrier
      <4> QED
        BY <1>1, <4>1, <4>3
    <3> QED
      BY <3>1
  <2>2. Within(c, 0)
    BY <1>2, <2>1 DEF BudgetInv
  <2>3. c \notin counted
    BY <1>1, <1>2, <1>8 DEF SoloInv
  <2>4. rounds[c] < MaxAttempts
    <3>1. rounds[c] <= snap[s].attempts
      BY <1>1, <1>2, <2>3 DEF RoundsInv
    <3>2. snap[s].attempts < MaxAttempts
      BY <1>1 DEF Context, CountInv
    <3>3. snap[s].attempts \in Nat
      BY <1>1, CarriersAreActive DEF Otp
    <3> QED
      BY <1>2, <3>1, <3>2, <3>3, BudgetTyped
  <2>5. Within(c, 1)'
    BY <1>2, <1>3, <1>5, <1>8, <2>2, BudgetTyped DEF Within
  <2>6. wrong'[c] <= MaxAttempts + lost'[c] + joint'[c]
    BY <1>2, <1>3, <1>5, <1>8, <2>2, <2>4, BudgetTyped DEF Within
  <2>7. c \notin counted' /\ Guessing(c)' # {}
    BY <1>2, <1>3, <1>4, <2>3
  <2> QED
    BY <1>6, <2>5, <2>6, <2>7 DEF BudgetInv
<1> QED
  BY <1>7, <1>8

LEMMA BudgetIncrement ==
    ASSUME Context, BudgetInv, NEW s \in Requests, Increment(s)
    PROVE  BudgetInv'
<1>1. Carries(s) /\ pc[s] = "increment"
  BY DEF Increment, Goto, Carries, Carrying, Inside
<1>2. PICK c \in Codes : c = snap[s].code
  BY <1>1, CarriersAreActive
<1>3. /\ counted' = counted \cup {c} /\ UNCHANGED <<snap, wrong, lost, joint>>
      /\ rounds' = IF c \in counted THEN rounds ELSE [rounds EXCEPT ![c] = @ + 1]
      /\ pc' = [pc EXCEPT ![s] = "release"]
  BY <1>2 DEF Increment, CountRound, Goto
<1>4. \A k \in Codes : k # c => Guessing(k) \subseteq Guessing(k)'
  BY <1>2, <1>3 DEF Guessing, Context, TypeOK
<1>5. /\ rounds'[c] = IF c \in counted THEN rounds[c] ELSE rounds[c] + 1
      /\ \A k \in Codes : k # c => rounds'[k] = rounds[k]
  BY <1>2, <1>3 DEF Context, TypeOK
<1>6. ASSUME NEW k \in Codes, k # c
      PROVE  Within(k, 0)' \/ (Within(k, 1)' /\ k \notin counted' /\ Guessing(k)' # {})
  BY <1>3, <1>4, <1>5, <1>6 DEF BudgetInv, Within
<1>7. Within(c, 0)'
  BY <1>2, <1>3, <1>5, BudgetTyped DEF BudgetInv, Within
<1> QED
  BY <1>3, <1>6, <1>7 DEF BudgetInv

\* A request that dies or loses its command leaves its guess uncounted.
LEMMA BudgetLost ==
    ASSUME Context, BudgetInv, NEW s \in Requests, CommandFails(s) \/ Crash(s),
           pc[s] = "increment"
    PROVE  BudgetInv'
<1>1. PICK c \in Codes : c = snap[s].code
  BY CarriersAreActive DEF Carries, Carrying, Inside
<1>2. /\ lost' = [lost EXCEPT ![c] = lost[c] + 1]
      /\ UNCHANGED <<wrong, joint, rounds, counted>>
  BY <1>1 DEF CommandFails, Crash, CountLost
<1>3. \A r \in Requests : r # s => pc'[r] = pc[r] /\ snap'[r] = snap[r]
  BY DEF CommandFails, Crash, Goto, End, Context, TypeOK
<1>4. \A k \in Codes : k # c => Guessing(k) \subseteq Guessing(k)'
  BY <1>1, <1>3 DEF Guessing
<1>5. lost'[c] = lost[c] + 1 /\ \A k \in Codes : k # c => lost'[k] = lost[k]
  BY <1>1, <1>2 DEF Context, TypeOK
<1>6. ASSUME NEW k \in Codes, k # c
      PROVE  /\ Within(k, 0)' \/ (Within(k, 1)' /\ k \notin counted' /\ Guessing(k)' # {})
             /\ wrong'[k] <= MaxAttempts + lost'[k] + joint'[k]
  BY <1>2, <1>4, <1>5, <1>6 DEF BudgetInv, Within
<1>7. Within(c, 0)'
  BY <1>1, <1>2, <1>5, BudgetTyped DEF BudgetInv, Within
<1>8. wrong'[c] <= MaxAttempts + lost'[c] + joint'[c]
  BY <1>1, <1>2, <1>5, BudgetTyped DEF BudgetInv
<1> QED
  BY <1>6, <1>7, <1>8 DEF BudgetInv

LEMMA BudgetNext ==
    Context /\ RoundsInv /\ SoloInv /\ BudgetInv /\ [Next]_vars => BudgetInv'
<1> SUFFICES ASSUME Context, RoundsInv, SoloInv, BudgetInv, [Next]_vars
             PROVE  BudgetInv'
  OBVIOUS
<1> USE DEF Context, TypeOK
<1>1. CASE Tick \/ UNCHANGED vars \/ \E e \in Emails, t \in Requests : Consume(e, t)
  BY <1>1, BudgetQuiet DEF Tick, Consume, vars, calls, history
<1>2. ASSUME NEW d \in Devices, NEW e \in Emails, NEW c \in Codes, Send(d, e, c)
      PROVE  BudgetInv'
  BY <1>2, BudgetQuiet DEF Send, calls
<1>3. ASSUME NEW s \in Requests, Acquire(s)
      PROVE  BudgetInv'
  BY <1>3, BudgetQuiet DEF Acquire, BeginRound
<1>4. ASSUME NEW s \in Requests, AcquireNoOtp(s) \/ Busy(s) \/ Release(s)
      PROVE  BudgetInv'
  BY <1>4, BudgetQuiet DEF AcquireNoOtp, Busy, Release, End, history
<1>5. ASSUME NEW s \in Requests,
             CheckFails(s) \/ CheckPasses(s) \/ CompareValid(s) \/ Delete(s)
      PROVE  BudgetInv'
  BY <1>5, BudgetQuiet DEF CheckFails, CheckPasses, CompareValid, Delete, Goto, history
<1>6. ASSUME NEW s \in Requests, Exchange(s)
      PROVE  BudgetInv'
  BY <1>6, BudgetQuiet DEF Exchange, Goto
<1>7. ASSUME NEW s \in Requests, CommandFails(s) \/ Crash(s), pc[s] # "increment"
      PROVE  BudgetInv'
  BY <1>7, BudgetQuiet DEF CommandFails, Crash, CountLost, Goto, End
<1> QED
  BY <1>1, <1>2, <1>3, <1>4, <1>5, <1>6, <1>7, BudgetCompare, BudgetIncrement, BudgetLost
     DEF Next, Verify

\* The wrong guesses that were made alone and are not lost are bounded by the
\* rounds that have counted one (strengthening of the next theorem).
THEOREM GuessesAreCounted == Spec => [](SoloInv /\ BudgetInv)
<1>1. Init => SoloInv /\ BudgetInv
  BY NumbersAssumption DEF Init, SoloInv, BudgetInv, Within, Carries, Carrying, Inside
<1>2. /\ Context /\ BesideInv' /\ RoundsInv /\ SoloInv /\ BudgetInv /\ [Next]_vars
      => SoloInv' /\ BudgetInv'
  BY SoloNext, BudgetNext
<1>3. QED
  BY <1>1, <1>2, ContextHolds, NeighboursAreKnown, RoundsAreCounted, PTL DEF Spec

\* At most maxAttempts wrong guesses of a code are answered, and one more for
\* each request that died uncounted and for each guess made beside a request of
\* another device or one whose lock had run out.
THEOREM BudgetHolds == Spec => []GuessBudget
<1>1. BudgetInv => GuessBudget
  BY DEF BudgetInv, GuessBudget
<1>2. QED
  BY <1>1, GuessesAreCounted, PTL

-----------------------------------------------------------------------------
(* A code is exchanged once *)

SpentInv == SingleExchange /\ spent \subseteq Codes

\* Steps that spend nothing and write no value.
LEMMA SpentQuiet ==
    ASSUME SpentInv, spent' = spent, NobodyJoins,
           \A e \in Emails : otp'[e] \in {otp[e], NoOtp}
    PROVE  SpentInv'
<1>1. \A c \in spent : NoOtp.code # c
  BY RequestsAssumption DEF SpentInv, NoOtp
<1> QED
  BY <1>1 DEF SpentInv, SingleExchange, NobodyJoins

LEMMA SpentSend ==
    ASSUME Context, SpentInv,
           NEW d \in Devices, NEW e \in Emails, NEW c \in Codes, Send(d, e, c)
    PROVE  SpentInv'
<1>1. spent' = spent /\ UNCHANGED calls /\ c \notin spent
  BY DEF Send, Context, Provenance
<1>2. otp'[e].code = c /\ \A f \in Emails : f # e => otp'[f] = otp[f]
  BY DEF Send, Context, TypeOK
<1> QED
  BY <1>1, <1>2 DEF SpentInv, SingleExchange, Carries, calls

LEMMA SpentAcquire ==
    ASSUME Context, SpentInv, NEW s \in Requests, Acquire(s)
    PROVE  SpentInv'
<1>1. spent' = spent /\ TypeOK
  BY DEF Acquire, Context
<1>2. snap'[s].code \notin spent
  BY <1>1, RequestParts, AcquireChanges DEF SpentInv, SingleExchange
<1> QED
  BY <1>1, <1>2, AcquireChanges DEF SpentInv, SingleExchange

LEMMA SpentIncrement ==
    ASSUME Context, SpentInv, NobodyJoins, NEW s \in Requests, Increment(s)
    PROVE  SpentInv'
<1>1. spent' = spent
  BY DEF Increment
<1>2. snap[s].code \notin spent
  BY DEF Increment, Goto, SpentInv, SingleExchange, Carries, Carrying, Inside
<1>3. /\ otp'[s.email].code = snap[s].code
      /\ \A e \in Emails : e # s.email => otp'[e] = otp[e]
  BY RequestParts DEF Increment, Counted, Context, TypeOK
<1> QED
  BY <1>1, <1>2, <1>3 DEF SpentInv, SingleExchange, NobodyJoins

\* Nobody else has the code of a request that worked alone.
LEMMA SpentExchange ==
    ASSUME Context, SpentInv, NobodyJoins, NEW s \in Requests, Exchange(s), ~Together(s)
    PROVE  SpentInv'
<1>1. PICK c \in Codes : c = snap[s].code /\ From(issued, snap[s], s.email) /\ Carries(s)
  BY CarriersAreActive DEF Exchange, Goto, Carries, Carrying, Inside
<1>2. spent' = spent \cup {c} /\ ~Carries(s)'
  BY <1>1 DEF Exchange, Spend, Goto, Carries, Carrying, Inside, Context, TypeOK
<1>3. /\ otp'[s.email] = NoOtp
      /\ \A e \in Emails : e # s.email => otp'[e] = otp[e]
  BY RequestParts DEF Exchange, Context, TypeOK
<1>4. \A k \in Codes : NoOtp.code # k
  BY RequestsAssumption DEF NoOtp
<1>5. ASSUME NEW e \in Emails
      PROVE  otp'[e].code # c
  <2>1. CASE e = s.email \/ otp[e] = NoOtp
    BY <1>3, <1>4, <2>1
  <2>2. CASE e # s.email /\ otp[e] # NoOtp
    BY <1>1, <1>3, <2>2, CodeNamesEmail DEF Context, Provenance
  <2> QED
    BY <2>1, <2>2
<1>6. ASSUME NEW r \in Requests, Carries(r)'
      PROVE  snap'[r].code # c
  BY <1>1, <1>2, <1>6, OnlyCarrier DEF NobodyJoins
<1>7. ASSUME NEW k \in spent
      PROVE  /\ \A e \in Emails : otp'[e].code # k
             /\ \A r \in Requests : Carries(r)' => snap'[r].code # k
  BY <1>3, <1>4 DEF SpentInv, SingleExchange, NobodyJoins
<1> QED
  BY <1>2, <1>5, <1>6, <1>7 DEF SpentInv, SingleExchange

LEMMA SpentNext == Context /\ SpentInv /\ [Next]_vars => SpentInv'
<1> SUFFICES ASSUME Context, SpentInv, [Next]_vars
             PROVE  SpentInv'
  OBVIOUS
<1>1. TypeOK
  BY DEF Context
<1>2. ASSUME NEW s \in Requests, Exchange(s)
      PROVE  SpentInv'
  <2>1. /\ \A d \in Devices, e \in Emails, c \in Codes : ~Send(d, e, c)
        /\ \A r \in Requests : ~Acquire(r) /\ ~Increment(r)
    BY <1>1, <1>2 DEF Exchange, Goto, Send, Acquire, Increment, calls, TypeOK
  <2>2. NobodyJoins /\ \A e \in Emails : otp'[e] \in {otp[e], NoOtp}
    BY <1>1, <2>1, WritesNothing
  <2>3. CASE Together(s)
    BY <1>2, <2>2, <2>3, SpentQuiet DEF Exchange, Spend
  <2> QED
    BY <1>2, <2>2, <2>3, SpentExchange
<1>3. ASSUME NEW s \in Requests, Increment(s)
      PROVE  SpentInv'
  <2>1. \A r \in Requests : ~Acquire(r)
    BY <1>1, <1>3 DEF Increment, Goto, Acquire, TypeOK
  <2> QED
    BY <1>1, <1>3, <2>1, RequestsJoin, SpentIncrement
<1>4. ASSUME \A d \in Devices, e \in Emails, c \in Codes : ~Send(d, e, c),
             \A s \in Requests : ~Acquire(s) /\ ~Increment(s) /\ ~Exchange(s)
      PROVE  SpentInv'
  <2>1. spent' = spent
    BY <1>4 DEF Next, Verify, AcquireNoOtp, Busy, CheckFails, CheckPasses, Delete,
           CompareInvalid, CompareValid, Release, CommandFails, Crash, Consume, Tick,
           vars, history
  <2> QED
    BY <1>1, <1>4, <2>1, WritesNothing, SpentQuiet
<1> QED
  BY <1>2, <1>3, <1>4, SpentSend, SpentAcquire

\* A spent code is neither stored nor carried, and is one that was sent
\* (strengthening of the next theorem).
THEOREM SpentIsGone == Spec => []SpentInv
<1>1. Init => SpentInv
  BY DEF Init, SpentInv, SingleExchange
<1>2. QED
  BY <1>1, SpentNext, ContextHolds, PTL DEF Spec

\* A code that a request exchanged alone is held by no request any more, and no
\* late write brings it back.
THEOREM ExchangedOnce == Spec => []SingleExchange
<1>1. SpentInv => SingleExchange
  BY DEF SpentInv
<1>2. QED
  BY <1>1, SpentIsGone, PTL

-----------------------------------------------------------------------------
(* A request disturbs only its own code *)

\* What is stored for the e-mail of a request is the code it read, or nothing,
\* or a code sent since it began, or one that a request beside it carries.
OwnInv ==
    \A r \in Requests : Carries(r) =>
        \/ otp[r.email].code \in {snap[r].code, NoCode} \cup beside[r]
        \/ \E i \in issued[otp[r.email].code] : i.at >= since[r]

\* The requests of NobodyJoins began when they did.
LEMMA BeginningsStay ==
    ASSUME TypeOK, [Next]_vars, \A s \in Requests : ~Acquire(s)
    PROVE  \A r \in Requests : Carries(r)' => since'[r] = since[r]
<1> USE DEF TypeOK, Inside, Carrying, Carries
<1>1. ASSUME NEW s \in Requests, AcquireNoOtp(s) \/ Busy(s) \/ Release(s) \/ Crash(s)
      PROVE  \A r \in Requests : Carries(r)' => since'[r] = since[r]
  BY <1>1 DEF AcquireNoOtp, Busy, Release, Crash, End
<1>2. ASSUME NEW s \in Requests, Verify(s) \/ CommandFails(s), ~Release(s)
      PROVE  since' = since
  BY <1>2 DEF Verify, CheckFails, CheckPasses, Delete, CompareInvalid, CompareValid,
              Increment, Exchange, CommandFails, Goto
<1>3. ASSUME UNCHANGED calls
      PROVE  since' = since
  BY <1>3 DEF calls
<1> QED
  BY <1>1, <1>2, <1>3 DEF Next, Send, Consume, Tick, vars

LEMMA OwnSend ==
    ASSUME Context, OwnInv,
           NEW d \in Devices, NEW e \in Emails, NEW c \in Codes, Send(d, e, c)
    PROVE  OwnInv'
<1> USE RequestParts DEF Context
<1>1. UNCHANGED calls /\ issued[c] = {}
  BY DEF Send
<1>2. otp'[e].code = c /\ \A f \in Emails : f # e => otp'[f] = otp[f]
  BY DEF Send, TypeOK
<1>3. issued' = [issued EXCEPT ![c] = {[device |-> d, email |-> e, at |-> now]}]
  BY DEF Send
<1>4. \E i \in issued'[c] : i.at = now
  BY <1>3 DEF TypeOK
<1>5. \A k : k # c => issued'[k] = issued[k]
  BY <1>3 DEF TypeOK
<1> SUFFICES ASSUME NEW r \in Requests, Carries(r)
             PROVE  \/ otp'[r.email].code \in {snap[r].code, NoCode} \cup beside[r]
                    \/ \E i \in issued'[otp'[r.email].code] : i.at >= since[r]
  BY <1>1 DEF OwnInv, Carries, calls
<1>6. now >= since[r]
  BY CarriersAreActive DEF Timely, TypeOK
<1>7. CASE r.email = e
  BY <1>2, <1>4, <1>6, <1>7
<1>8. CASE r.email # e
  BY <1>1, <1>2, <1>5, <1>8 DEF OwnInv
<1> QED
  BY <1>7, <1>8

LEMMA OwnAcquire ==
    ASSUME TypeOK, OwnInv, NEW s \in Requests, Acquire(s)
    PROVE  OwnInv'
<1>1. issued' = issued
  BY DEF Acquire
<1>2. ASSUME NEW r \in Requests, r # s, Carries(r)'
      PROVE  \/ otp'[r.email].code \in {snap'[r].code, NoCode} \cup beside'[r]
             \/ \E i \in issued'[otp'[r.email].code] : i.at >= since'[r]
  <2>1. /\ Carries(r) /\ snap'[r] = snap[r] /\ since'[r] = since[r] /\ otp' = otp
        /\ beside[r] \subseteq beside'[r]
    BY <1>2, AcquireChanges
  <2> QED
    BY <1>1, <2>1 DEF OwnInv
<1>3. otp'[s.email].code = snap'[s].code
  BY AcquireChanges
<1> QED
  BY <1>2, <1>3 DEF OwnInv

\* A request beside which another one writes its value back has met it.
LEMMA OwnIncrement ==
    ASSUME Context, OwnInv, NobodyJoins, NEW s \in Requests, Increment(s)
    PROVE  OwnInv'
<1> USE RequestParts DEF Context
<1>1. issued' = issued /\ since' = since /\ Carries(s) /\ ~Carries(s)'
  BY DEF Increment, Goto, TypeOK, Carries, Carrying, Inside
<1>2. otp'[s.email].code = snap[s].code
      /\ \A e \in Emails : e # s.email => otp'[e] = otp[e]
  BY DEF Increment, Counted, TypeOK
<1>3. ASSUME NEW r \in Requests, Carries(r)'
      PROVE  \/ otp'[r.email].code \in {snap'[r].code, NoCode} \cup beside'[r]
             \/ \E i \in issued'[otp'[r.email].code] : i.at >= since'[r]
  <2>1. Carries(r) /\ snap'[r] = snap[r] /\ beside'[r] = beside[r] /\ r # s
    BY <1>1, <1>3 DEF NobodyJoins
  <2>2. CASE r.email = s.email
    <3>1. snap[s].code \in beside[r]
      BY <1>1, <2>1, <2>2 DEF BesideInv
    <3> QED
      BY <1>2, <2>1, <2>2, <3>1
  <2>3. CASE r.email # s.email
    BY <1>1, <1>2, <2>1, <2>3 DEF OwnInv
  <2> QED
    BY <2>2, <2>3
<1> QED
  BY <1>3 DEF OwnInv

LEMMA OwnNext == Context /\ OwnInv /\ [Next]_vars => OwnInv'
<1> SUFFICES ASSUME Context, OwnInv, [Next]_vars
             PROVE  OwnInv'
  OBVIOUS
<1>1. TypeOK
  BY DEF Context
<1>2. ASSUME NEW s \in Requests, Increment(s)
      PROVE  OwnInv'
  <2>1. \A r \in Requests : ~Acquire(r)
    BY <1>1, <1>2 DEF Increment, Goto, Acquire, TypeOK
  <2> QED
    BY <1>1, <1>2, <2>1, RequestsJoin, OwnIncrement
<1>3. ASSUME \A d \in Devices, e \in Emails, c \in Codes : ~Send(d, e, c),
             \A s \in Requests : ~Acquire(s) /\ ~Increment(s)
      PROVE  OwnInv'
  <2>1. /\ NobodyJoins /\ issued' = issued
        /\ \A e \in Emails : otp'[e] \in {otp[e], NoOtp}
        /\ \A r \in Requests : Carries(r)' => since'[r] = since[r]
    BY <1>1, <1>3, WritesNothing, BeginningsStay
  <2> QED
    BY <2>1, RequestParts DEF NobodyJoins, OwnInv, NoOtp
<1> QED
  BY <1>1, <1>2, <1>3, OwnSend, OwnAcquire

\* A request replaces or removes only the code it read, one sent after it
\* began, or one that a request beside it carries back.
THEOREM OnlyItsOwnIsDisturbed == Spec => DisturbsOnlyItsOwn
<1> DEFINE Disturbs(r) ==
               /\ pc[r] \in {"delete", "increment", "exchange"} /\ pc'[r] = "release"
               /\ otp'[r.email] # otp[r.email]
           Own(r) == \/ otp[r.email].code \in {snap[r].code, NoCode} \cup beside[r]
                     \/ \E i \in issued[otp[r.email].code] : i.at >= since[r]
<1>1. Init => OwnInv
  BY DEF Init, OwnInv, Carries, Carrying, Inside
<1>2. Context /\ OwnInv /\ [Next]_vars => OwnInv'
  BY OwnNext
<1>3. OwnInv => \A r \in Requests : Disturbs(r) => Own(r)
  BY DEF OwnInv, Carries, Carrying, Inside
<1>4. QED
  BY <1>1, <1>2, <1>3, ContextHolds, PTL DEF Spec, DisturbsOnlyItsOwn

-----------------------------------------------------------------------------
(* Codes with a budget, one use and a lifetime *)

\* Only a guess that was answered, and is not counted yet, dies uncounted.
LostInv ==
    \A c \in Codes : /\ IsFiniteSet(Guessing(c))
                     /\ Cardinality(Guessing(c)) + lost[c] <= wrong[c]

\* Steps that answer no guess and count or lose none.
LEMMA LostQuiet ==
    ASSUME LostInv, wrong' = wrong, lost' = lost,
           \A r \in Requests : /\ pc'[r] = "increment" <=> pc[r] = "increment"
                               /\ pc[r] = "increment" => snap'[r] = snap[r]
    PROVE  LostInv'
<1>1. \A c \in Codes : Guessing(c)' = Guessing(c)
  BY DEF Guessing
<1> QED
  BY <1>1 DEF LostInv

LEMMA LostByCompare ==
    ASSUME Context, LostInv, NEW s \in Requests, CompareInvalid(s)
    PROVE  LostInv'
<1>1. PICK c \in Codes : c = snap[s].code
  BY CarriersAreActive DEF CompareInvalid, Goto, Carries, Carrying, Inside
<1>2. /\ wrong' = [wrong EXCEPT ![c] = wrong[c] + 1] /\ lost' = lost /\ snap' = snap
      /\ pc[s] = "compare" /\ pc' = [pc EXCEPT ![s] = "increment"]
  BY <1>1 DEF CompareInvalid, Goto
<1>3. wrong'[c] = wrong[c] + 1 /\ \A k \in Codes : k # c => wrong'[k] = wrong[k]
  BY <1>2 DEF Context, TypeOK
<1>4. \A k \in Codes : k # c => Guessing(k)' = Guessing(k)
  BY <1>1, <1>2 DEF Guessing, Context, TypeOK
<1>5. Guessing(c)' = Guessing(c) \cup {s} /\ s \notin Guessing(c)
  BY <1>1, <1>2 DEF Guessing, Context, TypeOK
<1>6. IsFiniteSet(Guessing(c)') /\ Cardinality(Guessing(c)') = Cardinality(Guessing(c)) + 1
  BY <1>5, FS_AddElement DEF LostInv
<1>7. Cardinality(Guessing(c)) \in Nat /\ Cardinality(Guessing(c)) + lost[c] <= wrong[c]
  BY FS_CardinalityType DEF LostInv
<1>8. Cardinality(Guessing(c)') + lost'[c] <= wrong'[c]
  BY <1>2, <1>3, <1>6, <1>7, BudgetTyped
<1> QED
  BY <1>2, <1>3, <1>4, <1>6, <1>8 DEF LostInv

\* A request that leaves the step at which guesses are counted.
LEMMA GuessingEnds ==
    ASSUME Context, LostInv, NEW s \in Requests, pc[s] = "increment",
           NEW c \in Codes, snap[s].code = c, pc'[s] # "increment",
           \A r \in Requests : r # s => pc'[r] = pc[r] /\ snap'[r] = snap[r]
    PROVE  /\ \A k \in Codes : k # c => Guessing(k)' = Guessing(k)
           /\ IsFiniteSet(Guessing(c)')
           /\ Cardinality(Guessing(c)') + lost[c] + 1 <= wrong[c]
           /\ lost[c] < wrong[c]
<1>1. \A k \in Codes : k # c => Guessing(k)' = Guessing(k)
  BY DEF Guessing
<1>2. Guessing(c)' = Guessing(c) \ {s} /\ s \in Guessing(c)
  BY DEF Guessing
<1>3. /\ IsFiniteSet(Guessing(c)')
      /\ Cardinality(Guessing(c)') = Cardinality(Guessing(c)) - 1
  BY <1>2, FS_RemoveElement DEF LostInv
<1>4. /\ Cardinality(Guessing(c)) \in Nat /\ Cardinality(Guessing(c)') \in Nat
      /\ Cardinality(Guessing(c)) + lost[c] <= wrong[c]
  BY <1>3, FS_CardinalityType DEF LostInv
<1>5. Cardinality(Guessing(c)') + lost[c] + 1 <= wrong[c] /\ lost[c] < wrong[c]
  BY <1>3, <1>4, BudgetTyped
<1> QED
  BY <1>1, <1>3, <1>5

LEMMA LostByIncrement ==
    ASSUME Context, LostInv, NEW s \in Requests, Increment(s)
    PROVE  LostInv'
<1>1. PICK c \in Codes : c = snap[s].code
  BY CarriersAreActive DEF Increment, Goto, Carries, Carrying, Inside
<1>2. /\ wrong' = wrong /\ lost' = lost /\ snap' = snap
      /\ pc[s] = "increment" /\ pc' = [pc EXCEPT ![s] = "release"]
  BY DEF Increment, Goto
<1>3. pc'[s] # "increment" /\ \A r \in Requests : r # s => pc'[r] = pc[r]
  BY <1>2 DEF Context, TypeOK
<1>4. /\ \A k \in Codes : k # c => Guessing(k)' = Guessing(k)
      /\ IsFiniteSet(Guessing(c)')
      /\ Cardinality(Guessing(c)') + lost[c] + 1 <= wrong[c]
  BY <1>1, <1>2, <1>3, GuessingEnds
<1>5. Cardinality(Guessing(c)') + lost[c] <= wrong[c]
  BY <1>4, BudgetTyped, FS_CardinalityType
<1> QED
  BY <1>2, <1>4, <1>5 DEF LostInv

LEMMA LostByDeath ==
    ASSUME Context, LostInv, NEW s \in Requests, CommandFails(s) \/ Crash(s),
           pc[s] = "increment"
    PROVE  LostInv' /\ snap[s].code \in Codes /\ lost[snap[s].code] < wrong[snap[s].code]
<1>1. PICK c \in Codes : c = snap[s].code
  BY CarriersAreActive DEF Carries, Carrying, Inside
<1>2. lost' = [lost EXCEPT ![c] = lost[c] + 1] /\ wrong' = wrong
  BY <1>1 DEF CommandFails, Crash, CountLost
<1>3. pc'[s] # "increment" /\ \A r \in Requests : r # s => pc'[r] = pc[r] /\ snap'[r] = snap[r]
  BY DEF CommandFails, Crash, Goto, End, Context, TypeOK
<1>4. /\ \A k \in Codes : k # c => Guessing(k)' = Guessing(k)
      /\ IsFiniteSet(Guessing(c)')
      /\ Cardinality(Guessing(c)') + lost[c] + 1 <= wrong[c]
      /\ lost[c] < wrong[c]
  BY <1>1, <1>3, GuessingEnds
<1>5. lost'[c] = lost[c] + 1 /\ \A k \in Codes : k # c => lost'[k] = lost[k]
  BY <1>2 DEF Context, TypeOK
<1>6. Cardinality(Guessing(c)') + lost'[c] <= wrong'[c]
  BY <1>2, <1>4, <1>5, BudgetTyped, FS_CardinalityType
<1> QED
  BY <1>1, <1>2, <1>4, <1>5, <1>6 DEF LostInv

LEMMA LostNext == Context /\ LostInv /\ [Next]_vars => LostInv'
<1> SUFFICES ASSUME Context, LostInv, [Next]_vars
             PROVE  LostInv'
  OBVIOUS
<1> USE DEF Context, TypeOK
<1>1. CASE Tick \/ UNCHANGED vars \/ \E e \in Emails, t \in Requests : Consume(e, t)
  BY <1>1, LostQuiet DEF Tick, Consume, vars, calls, history
<1>2. ASSUME NEW d \in Devices, NEW e \in Emails, NEW c \in Codes, Send(d, e, c)
      PROVE  LostInv'
  BY <1>2, LostQuiet DEF Send, calls
<1>3. ASSUME NEW s \in Requests, Acquire(s)
      PROVE  LostInv'
  BY <1>3, LostQuiet DEF Acquire
<1>4. ASSUME NEW s \in Requests, AcquireNoOtp(s) \/ Busy(s) \/ Release(s)
      PROVE  LostInv'
  BY <1>4, LostQuiet DEF AcquireNoOtp, Busy, Release, End, history
<1>5. ASSUME NEW s \in Requests,
             CheckFails(s) \/ CheckPasses(s) \/ CompareValid(s) \/ Delete(s)
      PROVE  LostInv'
  BY <1>5, LostQuiet DEF CheckFails, CheckPasses, CompareValid, Delete, Goto, history
<1>6. ASSUME NEW s \in Requests, Exchange(s)
      PROVE  LostInv'
  BY <1>6, LostQuiet DEF Exchange, Goto
<1>7. ASSUME NEW s \in Requests, CommandFails(s) \/ Crash(s), pc[s] # "increment"
      PROVE  LostInv'
  BY <1>7, LostQuiet DEF CommandFails, Crash, CountLost, Goto, End
<1> QED
  BY <1>1, <1>2, <1>3, <1>4, <1>5, <1>6, <1>7, LostByCompare, LostByIncrement, LostByDeath
     DEF Next, Verify

\* The guesses that were lost or are about to be counted were all answered
\* (strengthening of the last theorem).
THEOREM LostWereAnswered == Spec => []LostInv
<1>1. Init => LostInv
  <2>1. Init => \A c \in Codes : Guessing(c) = {} /\ lost[c] = 0 /\ wrong[c] = 0
    BY DEF Init, Guessing
  <2> QED
    BY <2>1, FS_EmptySet DEF LostInv
<1>2. QED
  BY <1>1, LostNext, ContextHolds, PTL DEF Spec

\* All that the refinement rests on.
OneTimeInv ==
    Context /\ InTimeInv /\ RoundsInv /\ SoloInv /\ BudgetInv /\ SpentInv /\ LostInv

\* The code of a request past the expiry check is in its time and unused.
LEMMA CarriedAnswerable ==
    ASSUME OneTimeInv, NEW r \in Requests, pc[r] \in {"compare", "exchange"}
    PROVE  snap[r].code \in Codes /\ OneTime!Answerable(snap[r].code)
<1> USE DEF OneTimeInv, Context
<1> DEFINE c == snap[r].code
<1>1. Carries(r) /\ Active(r) /\ From(issued, snap[r], r.email) /\ c \in Codes
  BY CarriersAreActive DEF Carries, Carrying, Inside
<1>2. PICK i \in issued[c] : snap[r].expiresAt = i.at + OtpTtl
  BY <1>1 DEF From
<1>3. now <= i.at + (OtpTtl + MaxDuration)
  <2>1. now <= since[r] + MaxDuration /\ since[r] <= snap[r].expiresAt
    BY <1>1 DEF Timely, InTimeInv
  <2>2. now \in Nat /\ since[r] \in Nat /\ i.at \in Nat
    BY <1>1 DEF TypeOK, Issue
  <2> QED
    BY <1>2, <2>1, <2>2, NumbersAssumption
<1>4. c \notin spent
  BY <1>1 DEF SpentInv, SingleExchange
<1> QED
  BY <1>1, <1>3, <1>4 DEF OneTime!Answerable

\* What is noted of codes and time.
Notes == <<now, issued, wrong, joint, lost, rounds, exchanged, spent>>

LEMMA OneTimeStutter ==
    ASSUME UNCHANGED Notes
    PROVE  UNCHANGED OneTime!vars
  BY DEF OneTime!vars, Notes

LEMMA OneTimeTick == Tick => OneTime!Tick
  BY DEF Tick, OneTime!Tick, history

LEMMA OneTimeSend ==
    ASSUME OneTimeInv, NEW d \in Devices, NEW e \in Emails, NEW c \in Codes, Send(d, e, c)
    PROVE  OneTime!Send(c)
<1> DEFINE at(sent) == [k \in Codes |-> {i.at : i \in sent[k]}]
           new == [device |-> d, email |-> e, at |-> now]
<1>1. /\ issued[c] = {} /\ issued' = [issued EXCEPT ![c] = {new}]
      /\ UNCHANGED <<now, wrong, joint, lost, rounds, exchanged, spent>>
  BY DEF Send
<1>2. issued'[c] = {new} /\ \A k \in Codes : k # c => issued'[k] = issued[k]
  BY <1>1 DEF OneTimeInv, Context, TypeOK
<1>3. at(issued)[c] = {}
  BY <1>1
<1>4. at(issued') = [at(issued) EXCEPT ![c] = {now}]
  <2>1. {i.at : i \in issued'[c]} = {now}
    BY <1>2
  <2> QED
    BY <1>2, <2>1
<1> QED
  BY <1>1, <1>3, <1>4 DEF OneTime!Send

LEMMA OneTimeGuess ==
    ASSUME OneTimeInv, NEW s \in Requests, CompareInvalid(s)
    PROVE  OneTime!Next
<1>1. PICK c \in Codes : c = snap[s].code /\ OneTime!Answerable(c)
  BY CarriedAnswerable DEF CompareInvalid, Goto
<1>2. /\ wrong' = [wrong EXCEPT ![c] = wrong[c] + 1]
      /\ joint' = IF Together(s) THEN [joint EXCEPT ![c] = joint[c] + 1] ELSE joint
      /\ UNCHANGED <<now, issued, lost, rounds, exchanged, spent>>
  BY <1>1 DEF CompareInvalid, Goto
<1>3. ~Together(s) => wrong[c] < MaxAttempts + lost[c] + joint[c]
  <2> SUFFICES ASSUME ~Together(s)
               PROVE  wrong[c] < MaxAttempts + lost[c] + joint[c]
    OBVIOUS
  <2>1. wrong'[c] <= MaxAttempts + lost'[c] + joint'[c]
    BY BudgetCompare DEF OneTimeInv, BudgetInv
  <2>2. wrong'[c] = wrong[c] + 1 /\ lost'[c] = lost[c] /\ joint'[c] = joint[c]
    BY <1>2 DEF OneTimeInv, Context, TypeOK
  <2> QED
    BY <2>1, <2>2, BudgetTyped DEF OneTimeInv
<1>4. OneTime!GuessWrong(c)
  BY <1>1, <1>2, <1>3 DEF OneTime!GuessWrong
<1> QED
  BY <1>4 DEF OneTime!Next

LEMMA OneTimeUse ==
    ASSUME OneTimeInv, NEW s \in Requests, Exchange(s)
    PROVE  OneTime!Next
<1>1. PICK c \in Codes : c = snap[s].code /\ OneTime!Answerable(c)
  BY CarriedAnswerable DEF Exchange, Goto
<1>2. /\ exchanged' = [exchanged EXCEPT ![c] = exchanged[c] + 1]
      /\ spent' \in {spent, spent \cup {c}}
      /\ UNCHANGED <<now, issued, wrong, joint, lost, rounds>>
  BY <1>1 DEF Exchange, Spend, Goto
<1>3. OneTime!Use(c)
  BY <1>1, <1>2 DEF OneTime!Use
<1> QED
  BY <1>3 DEF OneTime!Next

\* A count is one of a round that has had one, or costs an attempt.
LEMMA OneTimeCount ==
    ASSUME OneTimeInv, NEW s \in Requests, Increment(s)
    PROVE  OneTime!Next \/ UNCHANGED OneTime!vars
<1>1. PICK c \in Codes : c = snap[s].code
  BY CarriersAreActive DEF Increment, Goto, Carries, Carrying, Inside, OneTimeInv
<1>2. /\ rounds' = IF c \in counted THEN rounds ELSE [rounds EXCEPT ![c] = rounds[c] + 1]
      /\ UNCHANGED <<now, issued, wrong, joint, lost, exchanged, spent>>
  BY <1>1 DEF Increment, CountRound, Goto
<1>3. CASE c \in counted
  BY <1>2, <1>3, OneTimeStutter DEF Notes
<1>4. CASE c \notin counted
  <2>1. rounds[c] < MaxAttempts
    <3>1. rounds'[c] = rounds[c] + 1
      BY <1>2, <1>4 DEF OneTimeInv, Context, TypeOK
    <3>2. rounds'[c] <= MaxAttempts
      BY RoundsIncrement DEF OneTimeInv, RoundsInv, RoundsBudget
    <3> QED
      BY <3>1, <3>2, BudgetTyped DEF OneTimeInv
  <2>2. OneTime!Cost(c)
    BY <1>2, <1>4, <2>1 DEF OneTime!Cost
  <2> QED
    BY <2>2 DEF OneTime!Next
<1> QED
  BY <1>3, <1>4

LEMMA OneTimeDeath ==
    ASSUME OneTimeInv, NEW s \in Requests, CommandFails(s) \/ Crash(s), pc[s] = "increment"
    PROVE  OneTime!Next
<1>1. PICK c \in Codes : c = snap[s].code /\ lost[c] < wrong[c]
  BY LostByDeath DEF OneTimeInv
<1>2. /\ lost' = [lost EXCEPT ![c] = lost[c] + 1]
      /\ UNCHANGED <<now, issued, wrong, joint, rounds, exchanged, spent>>
  BY <1>1 DEF CommandFails, Crash, CountLost, Goto
<1>3. OneTime!Die(c)
  BY <1>1, <1>2 DEF OneTime!Die
<1> QED
  BY <1>3 DEF OneTime!Next

LEMMA OneTimeStep == OneTimeInv /\ [Next]_vars => [OneTime!Next]_(OneTime!vars)
<1> SUFFICES ASSUME OneTimeInv, [Next]_vars
             PROVE  OneTime!Next \/ UNCHANGED OneTime!vars
  OBVIOUS
<1>1. CASE UNCHANGED vars \/ \E e \in Emails, t \in Requests : Consume(e, t)
  BY <1>1, OneTimeStutter DEF Consume, vars, history, Notes
<1>2. ASSUME NEW s \in Requests, Acquire(s) \/ AcquireNoOtp(s) \/ Busy(s) \/ Release(s)
      PROVE  UNCHANGED OneTime!vars
  BY <1>2, OneTimeStutter DEF Acquire, AcquireNoOtp, Busy, Release, history, Notes
<1>3. ASSUME NEW s \in Requests,
             CheckFails(s) \/ CheckPasses(s) \/ Delete(s) \/ CompareValid(s)
      PROVE  UNCHANGED OneTime!vars
  BY <1>3, OneTimeStutter DEF CheckFails, CheckPasses, Delete, CompareValid, Goto,
                              history, Notes
<1>4. ASSUME NEW s \in Requests, CommandFails(s) \/ Crash(s), pc[s] # "increment"
      PROVE  UNCHANGED OneTime!vars
  BY <1>4, OneTimeStutter DEF CommandFails, Crash, CountLost, Goto, Notes
<1>5. ASSUME NEW d \in Devices, NEW e \in Emails, NEW c \in Codes, Send(d, e, c)
      PROVE  OneTime!Next
  BY <1>5, OneTimeSend DEF OneTime!Next
<1>6. CASE Tick
  BY <1>6, OneTimeTick DEF OneTime!Next
<1> QED
  BY <1>1, <1>2, <1>3, <1>4, <1>5, <1>6, OneTimeGuess, OneTimeUse, OneTimeCount,
     OneTimeDeath DEF Next, Verify

\* verifyOtp makes of the stored value a code that has a guess budget, one use
\* and a lifetime; only guesses and uses made beside other requests are free of
\* the first two.
THEOREM CodesAreOneTime == Spec => OneTimeCodeSpec
<1>1. Init => OneTime!Init
  BY DEF Init, OneTime!Init
<1>2. OneTimeInv /\ [Next]_vars => [OneTime!Next]_(OneTime!vars)
  BY OneTimeStep
<1>3. Spec => []OneTimeInv
  BY ContextHolds, ChecksAreInTime, RoundsAreCounted, GuessesAreCounted, SpentIsGone,
     LostWereAnswered, PTL DEF OneTimeInv
<1> QED
  BY <1>1, <1>2, <1>3, PTL DEF Spec, OneTimeCodeSpec, OneTime!Spec

-----------------------------------------------------------------------------
(* Who works beside others *)

\* Every e-mail is verified from one device, by requests the lock outlives.
OneDevice ==
    /\ MaxDuration <= LockTtl
    /\ \A r, s \in Requests : r.email = s.email => r.device = s.device

NobodyBeside == (\A r \in Requests : beside[r] = {}) /\ (\A c \in Codes : joint[c] = 0)

LEMMA NobodyBesideNext ==
    ASSUME OneDevice
    PROVE  TypeOK /\ Timely /\ NobodyBeside /\ [Next]_vars => NobodyBeside'
<1> SUFFICES ASSUME TypeOK, Timely, NobodyBeside, [Next]_vars
             PROVE  NobodyBeside'
  OBVIOUS
<1> USE DEF TypeOK
<1>1. ASSUME NEW s \in Requests, Acquire(s)
      PROVE  NobodyBeside'
  <2>1. \A q \in Requests : Active(q) => ~Lapsed(q)
    BY NumbersAssumption DEF OneDevice, Timely, Lapsed
  <2>2. Beside(s) = {}
    BY <2>1 DEF Beside, OneDevice, Carries, Carrying, Active
  <2> QED
    BY <1>1, <2>2 DEF Acquire, Meet, NobodyBeside
<1>2. ASSUME UNCHANGED <<beside, joint>>
      PROVE  NobodyBeside'
  BY <1>2 DEF NobodyBeside
<1>3. ASSUME NEW s \in Requests, CompareInvalid(s)
      PROVE  NobodyBeside'
  BY <1>3 DEF CompareInvalid, Goto, Together, NobodyBeside
<1>4. ASSUME NEW s \in Requests, Release(s) \/ Crash(s)
      PROVE  NobodyBeside'
  BY <1>4 DEF Release, Crash, End, NobodyBeside, history
<1>5. ASSUME NEW s \in Requests, AcquireNoOtp(s) \/ Busy(s) \/ CommandFails(s)
      PROVE  UNCHANGED <<beside, joint>>
  BY <1>5 DEF AcquireNoOtp, Busy, CommandFails, Goto, history
<1>6. ASSUME NEW s \in Requests, Verify(s), ~CompareInvalid(s), ~Release(s)
      PROVE  UNCHANGED <<beside, joint>>
  BY <1>6 DEF Verify, CheckFails, CheckPasses, Delete, CompareValid, Increment, Exchange,
              Goto, history
<1>7. CASE Tick \/ UNCHANGED vars \/ \E e \in Emails, t \in Requests : Consume(e, t)
  BY <1>2, <1>7 DEF Tick, Consume, vars, calls, history
<1> QED
  BY <1>1, <1>2, <1>3, <1>4, <1>5, <1>6, <1>7 DEF Next, Send, calls

\* Requests work beside others only when an e-mail is verified from two devices
\* or one outlives its lock: without that, what the theorems above except never
\* happens.
THEOREM AloneWithOneDevice ==
    ASSUME OneDevice
    PROVE  Spec => []NobodyBeside
<1>1. Init => NobodyBeside
  BY DEF Init, NobodyBeside
<1>2. TypeOK /\ Timely /\ NobodyBeside /\ [Next]_vars => NobodyBeside'
  BY NobodyBesideNext
<1> QED
  BY <1>1, <1>2, TypeCorrect, RequestsAreTimely, PTL DEF Spec
=============================================================================

---------------------------- MODULE OtpCodeProofs ----------------------------
(***************************************************************************)
(* Theorems about the codes of Otp: where the values that requests carry   *)
(* and write back come from, and what that bounds.                         *)
(***************************************************************************)
EXTENDS OtpProofs, FiniteSetTheorems

-----------------------------------------------------------------------------
(* Requests end in time *)

\* An active request took its lock in the past, at most MaxDuration ago.
Timely ==
    \A r \in Requests : Active(r) => since[r] <= now /\ now <= since[r] + MaxDuration

LEMMA TimelyNext == TypeOK /\ Timely /\ [Next]_vars => Timely'
<1> SUFFICES ASSUME TypeOK, Timely, [Next]_vars
             PROVE  Timely'
  OBVIOUS
<1> USE NumbersAssumption DEF TypeOK, Inside
<1>1. ASSUME now' = now, UNCHANGED calls
      PROVE  Timely'
  BY <1>1 DEF Timely, Active, calls
<1>2. ASSUME NEW s \in Requests, Acquire(s)
      PROVE  Timely'
  BY <1>2 DEF Acquire, Timely, Active
<1>3. ASSUME NEW s \in Requests, AcquireNoOtp(s) \/ Busy(s)
      PROVE  Timely'
  BY <1>3 DEF AcquireNoOtp, Busy, Timely, Active
<1>4. ASSUME NEW s \in Requests, NEW from \in Inside, NEW to \in Inside,
             Goto(s, from, to)
      PROVE  Timely'
  BY <1>4 DEF Goto, Timely, Active
<1>5. ASSUME NEW s \in Requests, Release(s) \/ Crash(s)
      PROVE  Timely'
  BY <1>5 DEF Release, Crash, End, Timely, Active
<1>6. ASSUME NEW s \in Requests, Verify(s) \/ CommandFails(s), ~Release(s)
      PROVE  Timely'
  <2>1. \E from \in Inside, to \in Inside : Goto(s, from, to)
    BY <1>6 DEF Verify, CheckFails, CheckPasses, Delete, CompareInvalid,
                CompareValid, Increment, Exchange, CommandFails
  <2>2. QED
    BY <1>4, <2>1
<1>7. CASE Tick
  BY <1>7 DEF Tick, Timely, Active, calls
<1>8. QED
  BY <1>1, <1>2, <1>3, <1>5, <1>6, <1>7 DEF Next, Send, Consume, vars

\* An active request took its lock at most MaxDuration ago.
THEOREM RequestsAreTimely == Spec => []Timely
<1>1. Init => Timely
  BY DEF Init, Timely, Active, Inside
<1>2. TypeOK /\ Timely /\ [Next]_vars => Timely'
  BY TimelyNext
<1>3. QED
  BY <1>1, <1>2, TypeCorrect, PTL DEF Spec

-----------------------------------------------------------------------------
(* Every value of an otp key comes from a send to that e-mail *)

\* By the sends in sent, v holds a code that was sent to e and its expiry.
From(sent, v, e) ==
    /\ v.code \in Codes
    /\ \E i \in sent[v.code] : i.email = e /\ v.expiresAt = i.at + OtpTtl

Provenance ==
    /\ \A c \in Codes : \A i, j \in issued[c] : i = j
    /\ \A c \in Codes : issued[c] = {} =>
           wrong[c] = 0 /\ exchanged[c] = 0 /\ rounds[c] = 0 /\ c \notin spent
    /\ \A e \in Emails : otp[e] = NoOtp \/ From(issued, otp[e], e)
    /\ \A r \in Requests : Active(r) => From(issued, snap[r], r.email)

\* What a request holds stays what it was sent as, whoever writes it back.
LEMMA FromStable ==
    ASSUME NEW sent, NEW more, NEW v, NEW w, NEW e, From(sent, v, e),
           w.code = v.code, w.expiresAt = v.expiresAt,
           \A c \in Codes : sent[c] # {} => more[c] = sent[c]
    PROVE  From(more, w, e)
  BY DEF From

LEMMA SendProvenance ==
    ASSUME TypeOK, Provenance, NEW d \in Devices, NEW e \in Emails, NEW c \in Codes,
           Send(d, e, c)
    PROVE  Provenance'
<1>1. issued' = [issued EXCEPT ![c] = {[device |-> d, email |-> e, at |-> now]}]
      /\ issued[c] = {} /\ UNCHANGED <<wrong, exchanged, rounds, spent, calls>>
  BY DEF Send
<1>2. \A k \in Codes : issued[k] # {} => issued'[k] = issued[k]
  BY <1>1 DEF TypeOK
<1>3. \A k \in Codes : \A i, j \in issued'[k] : i = j
  BY <1>1 DEF Provenance, TypeOK
<1>4. \A k \in Codes : issued'[k] = {} =>
          wrong'[k] = 0 /\ exchanged'[k] = 0 /\ rounds'[k] = 0 /\ k \notin spent'
  BY <1>1 DEF Provenance, TypeOK
<1>5. \A f \in Emails : otp'[f] = NoOtp \/ From(issued', otp'[f], f)
  <2>1. otp'[e].code = c /\ otp'[e].expiresAt = now + OtpTtl
    BY DEF Send, TypeOK
  <2>2. issued'[c] = {[device |-> d, email |-> e, at |-> now]}
    BY <1>1 DEF TypeOK
  <2>3. From(issued', otp'[e], e)
    BY <2>1, <2>2 DEF From
  <2>4. ASSUME NEW f \in Emails, f # e
        PROVE  otp'[f] = NoOtp \/ From(issued', otp'[f], f)
    <3>1. otp'[f] = otp[f]
      BY <2>4 DEF Send, TypeOK
    <3>2. QED
      BY <1>2, <3>1, FromStable DEF Provenance
  <2>5. QED
    BY <2>3, <2>4
<1>6. \A r \in Requests : Active(r)' => From(issued', snap'[r], r.email)
  <2>1. ASSUME NEW r \in Requests, Active(r)'
        PROVE  From(issued', snap'[r], r.email)
    <3>1. From(issued, snap[r], r.email) /\ snap'[r] = snap[r]
      BY <1>1, <2>1 DEF Provenance, Active, calls
    <3>2. QED
      BY <1>2, <3>1, FromStable
  <2>2. QED
    BY <2>1
<1>7. QED
  BY <1>3, <1>4, <1>5, <1>6 DEF Provenance

\* A step notes nothing of c.
Untouched(c) ==
    /\ wrong'[c] = wrong[c] /\ exchanged'[c] = exchanged[c] /\ rounds'[c] = rounds[c]
    /\ c \in spent' <=> c \in spent

\* The steps of a request that neither send nor take a snapshot.
LEMMA RequestProvenance ==
    ASSUME TypeOK, Provenance, NEW s \in Requests, issued' = issued,
           \A c \in Codes : ~Untouched(c) => c = snap[s].code /\ Active(s),
           \A e \in Emails :
               \/ otp'[e] \in {otp[e], NoOtp}
               \/ e = s.email /\ Active(s) /\ otp'[e] = Counted(snap[s]),
           \A r \in Requests : Active(r)' => Active(r) /\ snap'[r] = snap[r]
    PROVE  Provenance'
<1>1. \A c \in Codes : issued'[c] = {} =>
          wrong'[c] = 0 /\ exchanged'[c] = 0 /\ rounds'[c] = 0 /\ c \notin spent'
  <2>1. ASSUME NEW c \in Codes, issued[c] = {}
        PROVE  wrong'[c] = 0 /\ exchanged'[c] = 0 /\ rounds'[c] = 0 /\ c \notin spent'
    <3>1. Active(s) => c # snap[s].code
      BY <2>1 DEF Provenance, From
    <3>2. QED
      BY <2>1, <3>1 DEF Provenance, Untouched
  <2>2. QED
    BY <2>1
<1>2. \A e \in Emails : otp'[e] = NoOtp \/ From(issued', otp'[e], e)
  <2>1. ASSUME NEW e \in Emails, Active(s), e = s.email, otp'[e] = Counted(snap[s])
        PROVE  From(issued', otp'[e], e)
    BY <2>1 DEF Provenance, From, Counted
  <2>2. QED
    BY <2>1 DEF Provenance
<1>3. \A r \in Requests : Active(r)' => From(issued', snap'[r], r.email)
  BY DEF Provenance
<1>4. QED
  BY <1>1, <1>2, <1>3 DEF Provenance

LEMMA ProvenanceNext == TypeOK /\ Provenance /\ [Next]_vars => Provenance'
<1> SUFFICES ASSUME TypeOK, Provenance, [Next]_vars
             PROVE  Provenance'
  OBVIOUS
<1> USE RequestParts DEF TypeOK, Inside
<1>1. ASSUME otp' = otp, UNCHANGED calls, UNCHANGED history
      PROVE  Provenance'
  BY <1>1 DEF Provenance, Active, calls, history
<1>2. ASSUME NEW s \in Requests, Acquire(s)
      PROVE  Provenance'
  <2>1. otp' = otp /\ UNCHANGED <<issued, wrong, exchanged, rounds, spent>>
    BY <1>2 DEF Acquire
  <2>2. \A r \in Requests : Active(r)' => From(issued', snap'[r], r.email)
    <3>1. From(issued, otp[s.email], s.email) /\ snap'[s] = otp[s.email]
      BY <1>2 DEF Acquire, Provenance
    <3>2. \A r \in Requests : r # s => snap'[r] = snap[r] /\ Active(r)' = Active(r)
      BY <1>2 DEF Acquire, Active
    <3>3. QED
      BY <2>1, <3>1, <3>2 DEF Provenance
  <2>3. QED
    BY <2>1, <2>2 DEF Provenance
<1>3. ASSUME NEW s \in Requests, AcquireNoOtp(s) \/ Busy(s)
      PROVE  Provenance'
  <2>1. \A r \in Requests : Active(r)' => Active(r) /\ snap'[r] = snap[r]
    BY <1>3 DEF AcquireNoOtp, Busy, Active
  <2>2. otp' = otp /\ UNCHANGED history
    BY <1>3 DEF AcquireNoOtp, Busy, store
  <2>3. QED
    BY <2>1, <2>2, RequestProvenance DEF history, Untouched
<1>4. ASSUME NEW s \in Requests, Verify(s) \/ CommandFails(s) \/ Crash(s)
      PROVE  Provenance'
  <2>1. Active(s)
    BY <1>4 DEF Verify, CheckFails, CheckPasses, Delete, CompareInvalid, CompareValid,
                Increment, Exchange, Release, CommandFails, Crash, Goto, Active
  <2>2. \A r \in Requests : Active(r)' => Active(r) /\ snap'[r] = snap[r]
    BY <1>4 DEF Verify, CheckFails, CheckPasses, Delete, CompareInvalid, CompareValid,
                Increment, Exchange, Release, CommandFails, Crash, Goto, End, Active
  <2>3. issued' = issued
    BY <1>4 DEF Verify, CheckFails, CheckPasses, Delete, CompareInvalid, CompareValid,
                Increment, Exchange, Release, CommandFails, Crash, history
  <2>4. \A c \in Codes : ~Untouched(c) => c = snap[s].code
    BY <1>4 DEF Untouched, CountRound, Spend, Verify, CheckFails, CheckPasses, Delete, CompareInvalid, CompareValid,
                Increment, Exchange, Release, CommandFails, Crash, history
  <2>5. \A e \in Emails :
          \/ otp'[e] \in {otp[e], NoOtp}
          \/ e = s.email /\ otp'[e] = Counted(snap[s])
    BY <1>4 DEF Verify, CheckFails, CheckPasses, Delete, CompareInvalid, CompareValid,
                Increment, Exchange, Release, CommandFails, Crash, store
  <2>6. QED
    BY <2>1, <2>2, <2>3, <2>4, <2>5, RequestProvenance
<1>5. CASE Tick
  <2>1. \A e \in Emails : otp'[e] \in {otp[e], NoOtp}
    BY <1>5 DEF Tick
  <2>2. UNCHANGED calls /\ UNCHANGED history
    BY <1>5 DEF Tick
  <2>3. QED
    BY <2>1, <2>2 DEF Provenance, Active, calls, history
<1>6. QED
  BY <1>1, <1>2, <1>3, <1>4, <1>5, SendProvenance DEF Next, Consume, vars, store

\* Every stored or carried code was sent to that e-mail, with that expiry.
THEOREM CodesAreSent == Spec => []Provenance
<1>1. Init => Provenance
  BY DEF Init, Provenance, Active, Inside
<1>2. TypeOK /\ Provenance /\ [Next]_vars => Provenance'
  BY ProvenanceNext
<1>3. QED
  BY <1>1, <1>2, TypeCorrect, PTL DEF Spec

-----------------------------------------------------------------------------
(* The stored attempts, whatever updates are lost *)

\* What is stored or about to be stored is bounded by the real failures.
CountInv ==
    /\ \A e \in Emails : otp[e] # NoOtp =>
           otp[e].attempts <= wrong[otp[e].code] /\ otp[e].attempts <= MaxAttempts
    /\ \A r \in Requests : Active(r) =>
           snap[r].attempts <= wrong[snap[r].code] /\ snap[r].attempts <= MaxAttempts
    /\ \A r \in Requests : pc[r] = "increment" => snap[r].attempts < wrong[snap[r].code]
    /\ \A r \in Requests : pc[r] \in {"compare", "increment", "exchange"} =>
           snap[r].attempts < MaxAttempts

LEMMA CountBySend ==
    ASSUME TypeOK, Provenance, CountInv,
           NEW d \in Devices, NEW e \in Emails, NEW c \in Codes, Send(d, e, c)
    PROVE  CountInv'
<1>1. wrong' = wrong /\ UNCHANGED calls
  BY DEF Send
<1>2. otp'[e].attempts = 0 /\ otp'[e].code = c
  BY DEF Send, TypeOK
<1>3. wrong[c] \in Nat /\ 0 <= MaxAttempts
  BY NumbersAssumption DEF TypeOK
<1>4. \A f \in Emails : f # e => otp'[f] = otp[f]
  BY DEF Send, TypeOK
<1>5. \A f \in Emails : otp'[f] # NoOtp =>
          otp'[f].attempts <= wrong'[otp'[f].code] /\ otp'[f].attempts <= MaxAttempts
  BY <1>1, <1>2, <1>3, <1>4 DEF CountInv
<1>6. QED
  BY <1>1, <1>5 DEF CountInv, Active, calls

LEMMA CountByRequest ==
    ASSUME TypeOK, Provenance, CountInv, NEW s \in Requests,
           Acquire(s) \/ AcquireNoOtp(s) \/ Busy(s) \/ Verify(s)
             \/ CommandFails(s) \/ Crash(s)
    PROVE  CountInv'
<1> USE RequestParts, NumbersAssumption DEF TypeOK, Inside
<1>1. ASSUME otp' = otp, wrong' = wrong,
             \A r \in Requests : pc'[r] # pc[r] =>
                 pc'[r] \in {"delete", "release", "done"} /\ (Active(r)' => Active(r)),
             \A r \in Requests : Active(r)' => snap'[r] = snap[r]
      PROVE  CountInv'
  BY <1>1 DEF CountInv, Active
<1>2. CASE Acquire(s)
  <2>1. \A r \in Requests : r # s => snap'[r] = snap[r] /\ pc'[r] = pc[r]
    BY <1>2 DEF Acquire
  <2>2. snap'[s] = otp[s.email] /\ pc'[s] = "check" /\ otp[s.email] # NoOtp
    BY <1>2 DEF Acquire
  <2>3. otp' = otp /\ wrong' = wrong
    BY <1>2 DEF Acquire, history
  <2>4. QED
    BY <2>1, <2>2, <2>3 DEF CountInv, Active
<1>3. CASE AcquireNoOtp(s) \/ Busy(s)
  BY <1>1, <1>3 DEF AcquireNoOtp, Busy, store, history, Active
<1>4. CASE CheckFails(s)
  BY <1>1, <1>4 DEF CheckFails, Goto, store, history, Active
<1>5. CASE CheckPasses(s)
  <2>1. otp' = otp /\ wrong' = wrong /\ snap' = snap
    BY <1>5 DEF CheckPasses, Goto, store, history
  <2>2. pc[s] = "check" /\ pc' = [pc EXCEPT ![s] = "compare"]
    BY <1>5 DEF CheckPasses, Goto
  <2>3. snap[s].attempts < MaxAttempts
    BY <1>5 DEF CheckPasses, Exhausted, Otp
  <2>4. QED
    BY <2>1, <2>2, <2>3 DEF CountInv, Active
<1>6. CASE CompareInvalid(s)
  <2> DEFINE c == snap[s].code
  <2>1. c \in Codes
    BY <1>6 DEF CompareInvalid, Goto, Active, Provenance, From
  <2>2. wrong' = [wrong EXCEPT ![c] = wrong[c] + 1]
    BY <1>6 DEF CompareInvalid
  <2>3. \A k \in Codes : wrong[k] <= wrong'[k]
    BY <2>2
  <2>4. \A e \in Emails : otp[e] # NoOtp => otp[e].attempts <= wrong'[otp[e].code]
    <3>1. ASSUME NEW e \in Emails, otp[e] # NoOtp
          PROVE  otp[e].attempts <= wrong'[otp[e].code]
      <4>1. otp[e].code \in Codes
        BY <3>1 DEF Provenance, From
      <4>2. otp[e].attempts \in Nat /\ wrong[otp[e].code] \in Nat
            /\ wrong'[otp[e].code] \in Nat
        BY <2>1, <2>2, <4>1 DEF Otp
      <4>3. QED
        BY <2>3, <3>1, <4>1, <4>2 DEF CountInv
    <3>2. QED
      BY <3>1
  <2>5. \A r \in Requests : Active(r) => snap[r].attempts <= wrong'[snap[r].code]
    <3>1. ASSUME NEW r \in Requests, Active(r)
          PROVE  snap[r].attempts <= wrong'[snap[r].code]
      <4>1. snap[r].code \in Codes
        BY <3>1 DEF Provenance, From
      <4>2. snap[r].attempts \in Nat /\ wrong[snap[r].code] \in Nat
            /\ wrong'[snap[r].code] \in Nat
        BY <2>1, <2>2, <4>1 DEF Otp
      <4>3. QED
        BY <2>3, <3>1, <4>1, <4>2 DEF CountInv
    <3>2. QED
      BY <3>1
  <2>6. \A r \in Requests : pc'[r] = "increment" => snap[r].attempts < wrong'[snap[r].code]
    <3>1. ASSUME NEW r \in Requests, pc'[r] = "increment"
          PROVE  snap[r].attempts < wrong'[snap[r].code]
      <4>1. Active(r)
        BY <1>6, <3>1 DEF CompareInvalid, Goto, Active
      <4>2. snap[r].code \in Codes
        BY <4>1 DEF Provenance, From
      <4>3. snap[r].attempts \in Nat /\ wrong[snap[r].code] \in Nat
            /\ wrong'[snap[r].code] \in Nat
        BY <2>1, <2>2, <4>2 DEF Otp
      <4>4. CASE r = s
        BY <2>2, <4>1, <4>2, <4>3, <4>4 DEF CountInv
      <4>5. CASE r # s
        <5>1. pc[r] = "increment"
          BY <1>6, <3>1, <4>5 DEF CompareInvalid, Goto
        <5>2. QED
          BY <2>3, <4>2, <4>3, <5>1 DEF CountInv
      <4>6. QED
        BY <4>4, <4>5
    <3>2. QED
      BY <3>1
  <2>7. otp' = otp /\ snap' = snap /\ pc[s] = "compare"
        /\ pc' = [pc EXCEPT ![s] = "increment"]
    BY <1>6 DEF CompareInvalid, Goto, store
  <2> HIDE DEF c
  <2>8. QED
    BY <2>4, <2>5, <2>6, <2>7 DEF CountInv, Active
<1>7. CASE CompareValid(s)
  BY <1>7 DEF CompareValid, Goto, store, history, CountInv, Active
<1>8. CASE Increment(s)
  <2>1. \A e \in Emails : e # s.email => otp'[e] = otp[e]
    BY <1>8 DEF Increment
  <2>2. otp'[s.email].attempts = snap[s].attempts + 1 /\ otp'[s.email].code = snap[s].code
    BY <1>8 DEF Increment, Counted
  <2>3. snap[s].code \in Codes /\ snap[s].attempts \in Nat
    BY <1>8 DEF Increment, Goto, Active, Provenance, From, Otp
  <2>4. snap[s].attempts < wrong[snap[s].code] /\ snap[s].attempts < MaxAttempts
    BY <1>8 DEF Increment, Goto, CountInv
  <2>5. wrong' = wrong /\ snap' = snap /\ pc[s] = "increment"
        /\ pc' = [pc EXCEPT ![s] = "release"]
    BY <1>8 DEF Increment, Goto, history
  <2>6. \A e \in Emails : otp'[e] # NoOtp =>
            otp'[e].attempts <= wrong'[otp'[e].code] /\ otp'[e].attempts <= MaxAttempts
    BY <2>1, <2>2, <2>3, <2>4, <2>5 DEF CountInv
  <2>7. QED
    BY <2>5, <2>6 DEF CountInv, Active
<1>9. CASE Delete(s) \/ Exchange(s)
  <2>1. \A e \in Emails : otp'[e] \in {otp[e], NoOtp}
    BY <1>9 DEF Delete, Exchange
  <2>2. wrong' = wrong /\ snap' = snap
    BY <1>9 DEF Delete, Exchange, Goto, history
  <2>3. pc' = [pc EXCEPT ![s] = "release"] /\ Active(s)
    BY <1>9 DEF Delete, Exchange, Goto, Active
  <2>4. QED
    BY <2>1, <2>2, <2>3 DEF CountInv, Active
<1>10. CASE Release(s) \/ Crash(s)
  BY <1>1, <1>10 DEF Release, Crash, End, store, history, Active
<1>11. CASE CommandFails(s)
  BY <1>1, <1>11 DEF CommandFails, Goto, store, Active
<1>12. QED
  BY <1>2, <1>3, <1>4, <1>5, <1>6, <1>7, <1>8, <1>9, <1>10, <1>11 DEF Verify

LEMMA CountNext == TypeOK /\ Provenance /\ CountInv /\ [Next]_vars => CountInv'
<1> SUFFICES ASSUME TypeOK, Provenance, CountInv, [Next]_vars
             PROVE  CountInv'
  OBVIOUS
<1>1. ASSUME \A e \in Emails : otp'[e] \in {otp[e], NoOtp}, UNCHANGED calls, wrong' = wrong
      PROVE  CountInv'
  BY <1>1 DEF CountInv, Active, calls
<1>2. CASE Tick
  BY <1>1, <1>2 DEF Tick, history
<1>3. ASSUME NEW e \in Emails, NEW t \in Requests, Consume(e, t)
      PROVE  CountInv'
  BY <1>1, <1>3 DEF Consume, history
<1>4. CASE UNCHANGED vars
  BY <1>1, <1>4 DEF vars, store, history
<1>5. QED
  BY <1>2, <1>3, <1>4, CountBySend, CountByRequest DEF Next

\* Stored and carried attempts never exceed the failed comparisons of their
\* code, nor maxAttempts (strengthening of the two theorems below).
THEOREM AttemptsAreCounted == Spec => []CountInv
<1>1. Init => CountInv
  BY DEF Init, CountInv, Active, Inside
<1>2. TypeOK /\ Provenance /\ CountInv /\ [Next]_vars => CountInv'
  BY CountNext
<1>3. QED
  BY <1>1, <1>2, TypeCorrect, CodesAreSent, PTL DEF Spec

\* The stored attempts never exceed the comparisons that failed.
THEOREM NobodyLockedOutEarly == Spec => []NeverOvercounts
<1>1. CountInv => NeverOvercounts
  BY DEF CountInv, NeverOvercounts
<1>2. QED
  BY <1>1, AttemptsAreCounted, PTL

\* The stored attempts never pass maxAttempts.
THEOREM AttemptsStayBounded == Spec => []StoredAttemptsBounded
<1>1. CountInv => StoredAttemptsBounded
  BY NumbersAssumption DEF CountInv, StoredAttemptsBounded, NoOtp
<1>2. QED
  BY <1>1, AttemptsAreCounted, PTL

-----------------------------------------------------------------------------
(* How often codes are sent *)

\* The tiers follow each other (2 and 5 sends in the code), and the long cooldown
\* lasts as long as the send count (86400 s both).
LongEnough == ShortUpTo <= MiddleUpTo /\ CountTtl <= LongCooldown

\* The codes that d had sent to e in the CountTtl ticks from t on.
SentIn(d, e, t) ==
    {c \in Codes : \E i \in issued[c] :
        i.device = d /\ i.email = e /\ i.at \in t..(t + CountTtl - 1)}

\* The send count outlives the sends it counts.
SendsAreCounted(d, e) ==
    \A c \in Codes : \A i \in issued[c] :
        i.device = d /\ i.email = e =>
            /\ i.at <= now
            /\ \/ i.at + CountTtl <= sendCount[d][e].until
               \/ i.at + CountTtl < now

\* Up to the long cooldown, the count covers the sends of every window that a
\* send now would fall into.
CountCovers(d, e) ==
    sendCount[d][e].count <= MiddleUpTo =>
        \A t \in Nat : t > now - CountTtl =>
            Cardinality(SentIn(d, e, t)) <= sendCount[d][e].count

\* From then on the cooldown is over when the sends are out of the window.
LongCooldownHolds(d, e) ==
    sendCount[d][e].count > MiddleUpTo =>
        /\ cooldown[d][e].sendableAt = cooldown[d][e].until
        /\ sendCount[d][e].until <= cooldown[d][e].sendableAt

WindowBounded(d, e) ==
    \A t \in Nat : /\ IsFiniteSet(SentIn(d, e, t))
                   /\ Cardinality(SentIn(d, e, t)) <= MiddleUpTo + 1

SendsInv ==
    \A d \in Devices, e \in Emails :
        SendsAreCounted(d, e) /\ CountCovers(d, e) /\ LongCooldownHolds(d, e) /\ WindowBounded(d, e)

LEMMA SendsQuiet ==
    ASSUME SendsInv, UNCHANGED <<now, cooldown, sendCount, issued>>
    PROVE  SendsInv'
  BY DEF SendsInv, SendsAreCounted, CountCovers, LongCooldownHolds, WindowBounded, SentIn

LEMMA SendsByTick ==
    ASSUME TypeOK, SendsInv, Tick
    PROVE  SendsInv'
<1> USE NumbersAssumption
<1> SUFFICES ASSUME NEW d \in Devices, NEW e \in Emails
             PROVE  (/\ SendsAreCounted(d, e)
                     /\ CountCovers(d, e)
                     /\ LongCooldownHolds(d, e)
                     /\ WindowBounded(d, e))'
  BY DEF SendsInv
<1>1. /\ now \in Nat /\ now' = now + 1 /\ issued' = issued
      /\ \A c \in Codes : issued[c] \subseteq Issue
      /\ sendCount[d][e] \in SendCount /\ cooldown[d][e] \in Cooldown
  BY DEF Tick, TypeOK, history
<1>2. sendCount'[d][e] = IF now' <= sendCount[d][e].until THEN sendCount[d][e] ELSE NoCount
  BY DEF Tick, Served
<1>3. cooldown'[d][e] = IF now' <= cooldown[d][e].until THEN cooldown[d][e] ELSE NoCooldown
  BY DEF Tick, Served
<1>4. \A t \in Nat : SentIn(d, e, t)' = SentIn(d, e, t)
  BY <1>1 DEF SentIn
<1>5. SendsAreCounted(d, e) /\ CountCovers(d, e) /\ LongCooldownHolds(d, e) /\ WindowBounded(d, e)
  BY DEF SendsInv
<1>6. SendsAreCounted(d, e)'
  BY <1>1, <1>2, <1>5 DEF SendsAreCounted, SendCount, Issue
<1>7. CountCovers(d, e)'
  <2> SUFFICES ASSUME sendCount'[d][e].count <= MiddleUpTo,
                      NEW t \in Nat, t > now' - CountTtl
               PROVE  Cardinality(SentIn(d, e, t)) <= sendCount'[d][e].count
    BY <1>4 DEF CountCovers
  <2>1. CASE now' <= sendCount[d][e].until
    BY <1>1, <1>2, <1>5, <2>1 DEF CountCovers
  <2>2. CASE ~(now' <= sendCount[d][e].until)
    <3>1. SentIn(d, e, t) = {}
      BY <1>1, <1>5, <2>2 DEF SentIn, SendsAreCounted, SendCount, Issue
    <3>2. sendCount'[d][e].count = 0
      BY <1>2, <2>2 DEF NoCount
    <3> QED
      BY <3>1, <3>2, FS_EmptySet
  <2> QED
    BY <2>1, <2>2
<1>8. LongCooldownHolds(d, e)'
  BY <1>1, <1>2, <1>3, <1>5 DEF LongCooldownHolds, NoCount, SendCount, Cooldown
<1>9. WindowBounded(d, e)'
  BY <1>4, <1>5 DEF WindowBounded
<1> QED
  BY <1>6, <1>7, <1>8, <1>9

\* A send adds its code to the windows of its device and e-mail that hold now.
LEMMA SendAdds ==
    ASSUME TypeOK, NEW d \in Devices, NEW e \in Emails, NEW c \in Codes, Send(d, e, c),
           NEW b \in Devices, NEW f \in Emails, NEW t \in Nat
    PROVE  SentIn(b, f, t)' =
             IF b = d /\ f = e /\ now \in t..(t + CountTtl - 1)
               THEN SentIn(b, f, t) \union {c} ELSE SentIn(b, f, t)
<1>1. /\ issued[c] = {}
      /\ issued' = [issued EXCEPT ![c] = {[device |-> d, email |-> e, at |-> now]}]
      /\ issued \in [Codes -> SUBSET Issue]
  BY DEF Send, TypeOK
<1>2. \A k \in Codes : issued'[k] = IF k = c THEN {[device |-> d, email |-> e, at |-> now]}
                                             ELSE issued[k]
  BY <1>1
<1>3. c \notin SentIn(b, f, t)
  BY <1>1 DEF SentIn
<1>4. ASSUME NEW i \in issued'[c]
      PROVE  i.device = d /\ i.email = e /\ i.at = now
  BY <1>2, <1>4
<1>5. issued'[c] # {}
  BY <1>2
<1>6. c \in SentIn(b, f, t)' <=> (b = d /\ f = e /\ now \in t..(t + CountTtl - 1))
  BY <1>4, <1>5 DEF SentIn
<1>7. \A k \in Codes \ {c} : k \in SentIn(b, f, t)' <=> k \in SentIn(b, f, t)
  BY <1>2 DEF SentIn
<1>8. SentIn(b, f, t) \subseteq Codes /\ SentIn(b, f, t)' \subseteq Codes
  BY DEF SentIn
<1>9. CASE b = d /\ f = e /\ now \in t..(t + CountTtl - 1)
  BY <1>6, <1>7, <1>8, <1>9
<1>10. CASE ~(b = d /\ f = e /\ now \in t..(t + CountTtl - 1))
  BY <1>3, <1>6, <1>7, <1>8, <1>10
<1> QED
  BY <1>9, <1>10

LEMMA SendsBySend ==
    ASSUME LongEnough, TypeOK, SendsInv,
           NEW d \in Devices, NEW e \in Emails, NEW c \in Codes, Send(d, e, c)
    PROVE  SendsInv'
<1> USE NumbersAssumption
<1> DEFINE count == sendCount[d][e].count + 1
           wait == ComputeCooldown(count)
<1>1. /\ now \in Nat /\ now' = now
      /\ \A k \in Codes : issued[k] \subseteq Issue
      /\ sendCount[d][e] \in SendCount /\ cooldown[d][e] \in Cooldown
  BY DEF Send, TypeOK
<1>2. count \in Nat
  BY <1>1 DEF SendCount
<1>3. /\ sendCount'[d][e].count = count
      /\ sendCount'[d][e].until = now + CountTtl
  BY DEF Send, TypeOK
<1>4. /\ cooldown'[d][e].sendableAt = now + wait
      /\ cooldown'[d][e].until = now + wait
  BY DEF Send, TypeOK
<1>5. count > MiddleUpTo => wait = LongCooldown
  BY <1>2 DEF ComputeCooldown, LongEnough
<1>6. Sendable(d, e) /\ cooldown[d][e].sendableAt <= now
  BY DEF Send, Sendable
<1>7. wait \in Nat
  BY <1>2, CooldownTyped
<1> HIDE DEF count, wait
<1>8. \A i \in issued'[c] : i = [device |-> d, email |-> e, at |-> now]
  BY DEF Send, TypeOK
<1>9. \A k \in Codes \ {c} : issued'[k] = issued[k]
  BY DEF Send, TypeOK
<1>10. ASSUME NEW b \in Devices, NEW f \in Emails, ~(b = d /\ f = e)
       PROVE  (/\ SendsAreCounted(b, f)
               /\ CountCovers(b, f)
               /\ LongCooldownHolds(b, f)
               /\ WindowBounded(b, f))'
  <2>1. \A t \in Nat : SentIn(b, f, t)' = SentIn(b, f, t)
    BY <1>10, SendAdds
  <2>2. sendCount'[b][f] = sendCount[b][f] /\ cooldown'[b][f] = cooldown[b][f]
    BY <1>10 DEF Send, TypeOK
  <2>3. SendsAreCounted(b, f) /\ CountCovers(b, f) /\ LongCooldownHolds(b, f) /\ WindowBounded(b, f)
    BY DEF SendsInv
  <2>4. SendsAreCounted(b, f)'
    BY <1>1, <1>8, <1>9, <1>10, <2>2, <2>3 DEF SendsAreCounted
  <2>5. CountCovers(b, f)'
    BY <1>1, <2>1, <2>2, <2>3 DEF CountCovers
  <2>6. LongCooldownHolds(b, f)'
    BY <2>2, <2>3 DEF LongCooldownHolds
  <2>7. WindowBounded(b, f)'
    BY <2>1, <2>3 DEF WindowBounded
  <2> QED
    BY <2>4, <2>5, <2>6, <2>7
<1>11. SendsAreCounted(d, e) /\ CountCovers(d, e) /\ LongCooldownHolds(d, e) /\ WindowBounded(d, e)
  BY DEF SendsInv
<1>12. SendsAreCounted(d, e)'
  BY <1>1, <1>3, <1>8, <1>9, <1>11 DEF SendsAreCounted, Issue
\* Before the send, a window that it falls into has no more sends than were counted,
\* and none at all when the count was past the long cooldown.
<1>13. ASSUME NEW t \in Nat, now \in t..(t + CountTtl - 1)
       PROVE  /\ IsFiniteSet(SentIn(d, e, t))
              /\ Cardinality(SentIn(d, e, t)) < count
              /\ Cardinality(SentIn(d, e, t)) <= MiddleUpTo
  <2>1. t > now - CountTtl /\ IsFiniteSet(SentIn(d, e, t))
    BY <1>1, <1>11, <1>13 DEF WindowBounded
  <2>2. CASE sendCount[d][e].count <= MiddleUpTo
    <3>1. Cardinality(SentIn(d, e, t)) \in Nat
      BY <2>1, FS_CardinalityType
    <3>2. Cardinality(SentIn(d, e, t)) <= sendCount[d][e].count
      BY <1>11, <2>1, <2>2 DEF CountCovers
    <3> QED
      BY <1>1, <2>1, <2>2, <3>1, <3>2 DEF count, SendCount
  <2>3. CASE ~(sendCount[d][e].count <= MiddleUpTo)
    <3>1. sendCount[d][e].until <= now
      BY <1>1, <1>6, <1>11, <2>3 DEF LongCooldownHolds, SendCount, Cooldown
    <3>2. SentIn(d, e, t) = {}
      BY <1>1, <1>11, <2>1, <3>1 DEF SentIn, SendsAreCounted, SendCount, Issue
    <3>3. Cardinality(SentIn(d, e, t)) = 0
      BY <3>2, FS_EmptySet
    <3> QED
      BY <1>1, <2>1, <2>3, <3>3 DEF count, SendCount
  <2> QED
    BY <2>2, <2>3
<1>14. ASSUME NEW t \in Nat, now \in t..(t + CountTtl - 1)
       PROVE  /\ IsFiniteSet(SentIn(d, e, t)')
              /\ Cardinality(SentIn(d, e, t)') <= count
              /\ Cardinality(SentIn(d, e, t)') <= MiddleUpTo + 1
  <2>1. SentIn(d, e, t)' = SentIn(d, e, t) \union {c}
    BY <1>14, SendAdds
  <2>2. /\ IsFiniteSet(SentIn(d, e, t))
        /\ Cardinality(SentIn(d, e, t)) < count
        /\ Cardinality(SentIn(d, e, t)) <= MiddleUpTo
    BY <1>13, <1>14
  <2>3. Cardinality(SentIn(d, e, t)) \in Nat
    BY <2>2, FS_CardinalityType
  <2>4. /\ IsFiniteSet(SentIn(d, e, t) \union {c})
        /\ \/ Cardinality(SentIn(d, e, t) \union {c}) = Cardinality(SentIn(d, e, t))
           \/ Cardinality(SentIn(d, e, t) \union {c}) = Cardinality(SentIn(d, e, t)) + 1
    BY <2>2, FS_AddElement
  <2> QED
    BY <1>2, <2>1, <2>2, <2>3, <2>4
<1>15. CountCovers(d, e)'
  <2> SUFFICES ASSUME NEW t \in Nat, t > now - CountTtl
               PROVE  Cardinality(SentIn(d, e, t)') <= count
    BY <1>1, <1>3 DEF CountCovers
  <2>1. CASE now \in t..(t + CountTtl - 1)
    BY <1>14, <2>1
  <2>2. CASE ~(now \in t..(t + CountTtl - 1))
    <3>1. t > now
      BY <1>1, <2>2
    <3>2. SentIn(d, e, t)' = SentIn(d, e, t)
      BY <2>2, SendAdds
    <3>3. SentIn(d, e, t) = {}
      BY <1>1, <1>11, <3>1 DEF SentIn, SendsAreCounted, Issue
    <3> QED
      BY <1>2, <3>2, <3>3, FS_EmptySet
  <2> QED
    BY <2>1, <2>2
<1>16. LongCooldownHolds(d, e)'
  BY <1>1, <1>2, <1>3, <1>4, <1>5, <1>7 DEF LongCooldownHolds, LongEnough
<1>17. WindowBounded(d, e)'
  <2> SUFFICES ASSUME NEW t \in Nat
               PROVE  /\ IsFiniteSet(SentIn(d, e, t)')
                      /\ Cardinality(SentIn(d, e, t)') <= MiddleUpTo + 1
    BY DEF WindowBounded
  <2>1. CASE now \in t..(t + CountTtl - 1)
    BY <1>14, <2>1
  <2>2. CASE ~(now \in t..(t + CountTtl - 1))
    BY <1>11, <2>2, SendAdds DEF WindowBounded
  <2> QED
    BY <2>1, <2>2
<1> QED
  BY <1>10, <1>12, <1>15, <1>16, <1>17 DEF SendsInv

LEMMA SendsNext == LongEnough /\ TypeOK /\ SendsInv /\ [Next]_vars => SendsInv'
<1> SUFFICES ASSUME LongEnough, TypeOK, SendsInv, [Next]_vars
             PROVE  SendsInv'
  OBVIOUS
<1>1. CASE \E d \in Devices, e \in Emails, c \in Codes : Send(d, e, c)
  BY <1>1, SendsBySend
<1>2. CASE Tick
  BY <1>2, SendsByTick
<1>3. CASE \E r \in Requests : Acquire(r) \/ AcquireNoOtp(r) \/ Busy(r)
  BY <1>3, SendsQuiet DEF Acquire, AcquireNoOtp, Busy, store, history
<1>4. CASE \E r \in Requests : Verify(r) \/ CommandFails(r) \/ Crash(r)
  BY <1>4, SendsQuiet DEF Verify, CheckFails, CheckPasses, Delete, CompareInvalid, CompareValid,
     Increment, Exchange, Release, CommandFails, Crash, Goto, End, store, history
<1>5. CASE \E e \in Emails, t \in Requests : Consume(e, t)
  BY <1>5, SendsQuiet DEF Consume, history
<1>6. CASE UNCHANGED vars
  BY <1>6, SendsQuiet DEF vars, store, history
<1> QED
  BY <1>1, <1>2, <1>3, <1>4, <1>5, <1>6 DEF Next

LEMMA SendsInit == Init => SendsInv
<1> USE NumbersAssumption
<1> SUFFICES ASSUME Init, NEW d \in Devices, NEW e \in Emails
             PROVE  /\ SendsAreCounted(d, e)
                    /\ CountCovers(d, e)
                    /\ LongCooldownHolds(d, e)
                    /\ WindowBounded(d, e)
  BY DEF SendsInv
<1>1. \A c \in Codes : issued[c] = {}
  BY DEF Init
<1>2. \A t \in Nat : SentIn(d, e, t) = {}
  BY <1>1 DEF SentIn
<1>3. sendCount[d][e].count = 0
  BY DEF Init, NoCount
<1>4. IsFiniteSet({}) /\ Cardinality({}) = 0
  BY FS_EmptySet
<1>5. \A t \in Nat : IsFiniteSet(SentIn(d, e, t)) /\ Cardinality(SentIn(d, e, t)) = 0
  BY <1>2, <1>4
<1>6. WindowBounded(d, e)
  BY <1>5 DEF WindowBounded
<1> QED
  BY <1>1, <1>3, <1>5, <1>6 DEF SendsAreCounted, CountCovers, LongCooldownHolds

\* When the tiers follow each other and the long cooldown lasts as long as the send
\* count, no device and e-mail get more than MiddleUpTo + 1 codes in the lifetime of
\* the count (the sendotp script).
THEOREM SendsAreBounded ==
    ASSUME LongEnough
    PROVE  Spec => []RateBound
<1>1. LongEnough /\ TypeOK /\ SendsInv /\ [Next]_vars => SendsInv'
  BY SendsNext
<1>2. TypeOK /\ SendsInv => RateBound
  <2> SUFFICES ASSUME TypeOK, SendsInv, NEW d \in Devices, NEW e \in Emails, NEW t \in 0..now
               PROVE  Cardinality(SentIn(d, e, t)) <= MiddleUpTo + 1
    BY DEF RateBound, SentIn
  <2>1. t \in Nat
    BY DEF TypeOK
  <2> QED
    BY <2>1 DEF SendsInv, WindowBounded
<1>3. QED
  BY <1>1, <1>2, SendsInit, TypeCorrect, PTL DEF Spec
=============================================================================

------------------------------ MODULE OtpProofs ------------------------------
(***************************************************************************)
(* Theorems about Otp, for every set of devices, e-mails, requests and     *)
(* codes and every lifetime.                                               *)
(***************************************************************************)
EXTENDS Otp, TLAPS

\* The parameters of a request are what its signature says.
LEMMA RequestParts ==
    ASSUME NEW r \in Requests
    PROVE  r.device \in Devices /\ r.email \in Emails
  BY RequestsAssumption

\* Absent keys are values of their kind.
LEMMA AbsentTyped ==
    /\ NoOtp \in Otp
    /\ NoLock \in Lock
    /\ NoCooldown \in Cooldown
    /\ NoCount \in SendCount
    /\ \A e \in Emails : NoToken(e) \in VerifyToken
  BY DEF NoOtp, Otp, NoLock, Lock, NoCooldown, Cooldown, NoCount, SendCount,
         NoToken, VerifyToken

LEMMA CooldownTyped ==
    ASSUME NEW n \in Nat
    PROVE  ComputeCooldown(n) \in Nat
  BY NumbersAssumption DEF ComputeCooldown

\* A history counter stays one, whichever code is counted.
LEMMA CountTyped ==
    ASSUME NEW f \in [Codes -> Nat], NEW c
    PROVE  [f EXCEPT ![c] = @ + 1] \in [Codes -> Nat]
<1>1. CASE c \in Codes
  BY <1>1
<1>2. CASE c \notin Codes
  <2>1. [f EXCEPT ![c] = @ + 1] = f
    BY <1>2, Zenon
  <2>2. QED
    BY <2>1
<1>3. QED
  BY <1>1, <1>2

\* Absent or not, the value of an otp key names a code or none.
LEMMA OtpNamesCode ==
    ASSUME NEW v \in Otp
    PROVE  v.code \in Codes \cup {NoCode}
  BY DEF Otp

\* Whoever meets whom, what is noted of it are codes.
LEMMA MeetTyped ==
    ASSUME TypeOK, NEW r \in Requests, Meet(r)
    PROVE  beside' \in [Requests -> SUBSET (Codes \cup {NoCode})]
<1>1. \A q \in Requests : snap[q].code \in Codes \cup {NoCode}
  BY OtpNamesCode DEF TypeOK
<1>2. otp[r.email].code \in Codes \cup {NoCode}
  BY RequestParts, OtpNamesCode DEF TypeOK
<1>3. Beside(r) \subseteq Requests
  BY DEF Beside
<1> QED
  BY <1>1, <1>2, <1>3 DEF Meet, TypeOK

LEMMA RoundTyped ==
    ASSUME TypeOK, NEW c \in Codes \cup {NoCode}
    PROVE  /\ BeginRound(c) => counted' \subseteq Codes \cup {NoCode}
           /\ CountRound(c) => /\ counted' \subseteq Codes \cup {NoCode}
                               /\ rounds' \in [Codes -> Nat]
<1>1. [rounds EXCEPT ![c] = @ + 1] \in [Codes -> Nat]
  BY CountTyped DEF TypeOK
<1> QED
  BY <1>1 DEF BeginRound, CountRound, TypeOK

LEMMA SpendTyped ==
    ASSUME TypeOK, NEW r \in Requests, Spend(r)
    PROVE  exchanged' \in [Codes -> Nat] /\ spent' \subseteq Codes \cup {NoCode}
<1>1. [exchanged EXCEPT ![snap[r].code] = @ + 1] \in [Codes -> Nat]
  BY CountTyped DEF TypeOK
<1>2. snap[r].code \in Codes \cup {NoCode}
  BY OtpNamesCode DEF TypeOK
<1> QED
  BY <1>1, <1>2 DEF Spend, TypeOK

LEMMA InitTyped == Init => TypeOK
  BY AbsentTyped DEF Init, TypeOK, Inside

LEMMA SendTyped ==
    ASSUME TypeOK, NEW d \in Devices, NEW e \in Emails, NEW c \in Codes, Send(d, e, c)
    PROVE  TypeOK'
<1> DEFINE count == sendCount[d][e].count + 1
           wait  == ComputeCooldown(count)
<1>1. count \in Nat
  BY DEF TypeOK, SendCount
<1>2. wait \in Nat
  BY <1>1, CooldownTyped
<1> HIDE DEF count, wait
<1>3. otp' \in [Emails -> Otp]
  BY NumbersAssumption DEF Send, TypeOK, Otp
<1>4. cooldown' \in [Devices -> [Emails -> Cooldown]]
  <2>1. cooldown' = [cooldown EXCEPT ![d][e] =
                       [sendableAt |-> now + wait, until |-> now + wait]]
    BY DEF Send, count, wait
  <2>2. [sendableAt |-> now + wait, until |-> now + wait] \in Cooldown
    BY <1>2 DEF TypeOK, Cooldown
  <2>3. QED
    BY <2>1, <2>2 DEF TypeOK
<1>5. sendCount' \in [Devices -> [Emails -> SendCount]]
  <2>1. sendCount' = [sendCount EXCEPT ![d][e] =
                       [count |-> count, until |-> now + CountTtl]]
    BY DEF Send, count
  <2>2. [count |-> count, until |-> now + CountTtl] \in SendCount
    BY <1>1, NumbersAssumption DEF TypeOK, SendCount
  <2>3. QED
    BY <2>1, <2>2 DEF TypeOK
<1>6. issued' \in [Codes -> SUBSET Issue]
  BY DEF Send, TypeOK, Issue
<1>7. QED
  BY <1>3, <1>4, <1>5, <1>6 DEF Send, TypeOK, calls

\* The steps of a request leave every variable typed.
LEMMA VerifyTyped ==
    ASSUME TypeOK, NEW r \in Requests,
           Acquire(r) \/ AcquireNoOtp(r) \/ Busy(r) \/ Verify(r)
             \/ CommandFails(r) \/ Crash(r)
    PROVE  TypeOK'
<1> USE RequestParts, NumbersAssumption, AbsentTyped DEF TypeOK, Inside
<1>1. ASSUME TakeLock(r) PROVE lock' \in [Devices -> [Emails -> Lock]]
  <2>1. [owner |-> r, until |-> now + LockTtl] \in Lock
    BY DEF Lock
  <2>2. QED
    BY <1>1, <2>1 DEF TakeLock
<1>2. CASE Acquire(r)
  <2>1. otp[r.email] \in Otp
    OBVIOUS
  <2>2. beside' \in [Requests -> SUBSET (Codes \cup {NoCode})]
    BY <1>2, MeetTyped DEF Acquire
  <2>3. counted' \subseteq Codes \cup {NoCode}
    BY <1>2, <2>1, RoundTyped, OtpNamesCode DEF Acquire
  <2> QED
    BY <1>1, <1>2, <2>1, <2>2, <2>3 DEF Acquire
<1>3. CASE AcquireNoOtp(r)
  BY <1>1, <1>3 DEF AcquireNoOtp, history
<1>4. CASE Busy(r)
  BY <1>4 DEF Busy, store, history
<1>5. CASE CheckFails(r) \/ CheckPasses(r)
  BY <1>5 DEF CheckFails, CheckPasses, Goto, store, history
<1>6. CASE Delete(r)
  BY <1>6 DEF Delete, Goto, history
<1>7. CASE CompareInvalid(r)
  <2>1. wrong' \in [Codes -> Nat] /\ joint' \in [Codes -> Nat]
    BY <1>7, CountTyped DEF CompareInvalid
  <2> QED
    BY <1>7, <2>1 DEF CompareInvalid, Goto, store
<1>8. CASE CompareValid(r)
  BY <1>8 DEF CompareValid, Goto, store, history
<1>9. CASE Increment(r)
  <2>1. snap[r] \in Otp
    OBVIOUS
  <2>2. Counted(snap[r]) \in Otp
    BY <2>1 DEF Counted, RemainingTtl, Otp
  <2>3. counted' \subseteq Codes \cup {NoCode} /\ rounds' \in [Codes -> Nat]
    BY <1>9, <2>1, RoundTyped, OtpNamesCode DEF Increment
  <2>4. QED
    BY <1>9, <2>2, <2>3 DEF Increment, Goto
<1>10. CASE Exchange(r)
  <2>1. [token |-> r, email |-> r.email, until |-> now + VerifyTokenTtl] \in VerifyToken
    BY DEF VerifyToken
  <2>2. exchanged' \in [Codes -> Nat] /\ spent' \subseteq Codes \cup {NoCode}
    BY <1>10, SpendTyped DEF Exchange
  <2>3. QED
    BY <1>10, <2>1, <2>2 DEF Exchange, Goto
<1>11. CASE Release(r)
  BY <1>11 DEF Release, End, history
<1>12. ASSUME CountLost(r) PROVE lost' \in [Codes -> Nat]
  BY <1>12, CountTyped DEF CountLost
<1>13. CASE CommandFails(r)
  BY <1>12, <1>13 DEF CommandFails, Goto, store
<1>14. CASE Crash(r)
  BY <1>12, <1>14 DEF Crash, End, store
<1>15. QED
  BY <1>2, <1>3, <1>4, <1>5, <1>6, <1>7, <1>8, <1>9, <1>10, <1>11, <1>13, <1>14
     DEF Verify

LEMMA ConsumeTyped ==
    ASSUME TypeOK, NEW e \in Emails, NEW t \in Requests, Consume(e, t)
    PROVE  TypeOK'
  BY AbsentTyped DEF Consume, TypeOK, calls, history

LEMMA TickTyped == TypeOK /\ Tick => TypeOK'
  BY AbsentTyped DEF Tick, TypeOK, calls, history

LEMMA StutterTyped == TypeOK /\ UNCHANGED vars => TypeOK'
  BY DEF TypeOK, vars, store, calls, history

LEMMA NextTyped == TypeOK /\ [Next]_vars => TypeOK'
  BY SendTyped, VerifyTyped, ConsumeTyped, TickTyped, StutterTyped DEF Next

\* Every variable always holds a value of its kind.
THEOREM TypeCorrect == Spec => []TypeOK
<1>1. Init => TypeOK
  BY InitTyped
<1>2. TypeOK /\ [Next]_vars => TypeOK'
  BY NextTyped
<1>3. QED
  BY <1>1, <1>2, PTL DEF Spec

-----------------------------------------------------------------------------
(* The lock *)

\* A request that takes a free lock finds every active request of its key
\* lapsed, and keeps the lock itself.
LEMMA TakeKeepsLocks ==
    ASSUME TypeOK, LockKept, NEW s \in Requests, LockFree(s), TakeLock(s),
           now' = now, NEW r \in Requests, r # s, Active(r), since'[r] = since[r]
    PROVE  \/ Lapsed(r)'
           \/ lock'[r.device][r.email] = [owner |-> r, until |-> since'[r] + LockTtl]
<1> USE RequestParts, RequestsAssumption
<1>1. CASE Lapsed(r)
  BY <1>1 DEF Lapsed
<1>2. CASE ~Lapsed(r)
  <2>1. lock[r.device][r.email] = [owner |-> r, until |-> since[r] + LockTtl]
    BY <1>2 DEF LockKept
  <2>2. lock[r.device][r.email] # NoLock
    BY <2>1 DEF NoLock
  <2>3. ~SameKey(r, s)
    BY <2>2 DEF LockFree, SameKey
  <2>4. lock'[r.device][r.email] = lock[r.device][r.email]
    BY <2>3 DEF TakeLock, TypeOK, SameKey
  <2>5. QED
    BY <2>1, <2>4
<1>3. QED
  BY <1>1, <1>2

LEMMA LockKeptByRequest ==
    ASSUME TypeOK, LockKept, NEW s \in Requests,
           Acquire(s) \/ AcquireNoOtp(s) \/ Busy(s) \/ Verify(s)
             \/ CommandFails(s) \/ Crash(s)
    PROVE  LockKept'
<1> USE RequestParts, RequestsAssumption DEF Inside
<1> SUFFICES ASSUME NEW r \in Requests, Active(r)'
             PROVE  \/ Lapsed(r)'
                    \/ lock'[r.device][r.email] =
                         [owner |-> r, until |-> since'[r] + LockTtl]
  BY DEF LockKept
<1>1. CASE Acquire(s)
  <2>1. CASE r = s
    BY <1>1, <2>1 DEF Acquire, TakeLock, TypeOK
  <2>2. CASE r # s
    <3>1. Active(r) /\ since'[r] = since[r] /\ now' = now
      BY <1>1, <2>2 DEF Acquire, Active, TypeOK
    <3>2. QED
      BY <1>1, <2>2, <3>1, TakeKeepsLocks DEF Acquire
  <2>3. QED
    BY <2>1, <2>2
<1>2. CASE AcquireNoOtp(s)
  <2>1. r # s /\ Active(r) /\ since'[r] = since[r] /\ now' = now
    BY <1>2 DEF AcquireNoOtp, Active, TypeOK
  <2>2. QED
    BY <1>2, <2>1, TakeKeepsLocks DEF AcquireNoOtp
<1>3. CASE Busy(s)
  BY <1>3 DEF Busy, LockKept, Lapsed, Active, TypeOK, store
<1>4. CASE Release(s)
  <2>1. r # s /\ Active(r) /\ since'[r] = since[r] /\ now' = now
    BY <1>4 DEF Release, End, Active, TypeOK
  <2>2. CASE Lapsed(r)
    BY <2>1, <2>2 DEF Lapsed
  <2>3. CASE ~Lapsed(r)
    <3>1. lock[r.device][r.email] = [owner |-> r, until |-> since[r] + LockTtl]
      BY <2>1, <2>3 DEF LockKept
    <3>2. CASE lock[s.device][s.email].owner = s
      <4>1. ~SameKey(r, s)
        BY <2>1, <3>1, <3>2 DEF SameKey
      <4>2. lock'[r.device][r.email] = lock[r.device][r.email]
        BY <1>4, <3>2, <4>1 DEF Release, TypeOK, SameKey
      <4>3. QED
        BY <2>1, <3>1, <4>2
    <3>3. CASE lock[s.device][s.email].owner # s
      BY <1>4, <2>1, <3>1, <3>3 DEF Release
    <3>4. QED
      BY <3>2, <3>3
  <2>4. QED
    BY <2>2, <2>3
<1>5. CASE Crash(s)
  <2>1. Active(r) /\ since'[r] = since[r] /\ now' = now /\ lock' = lock
    BY <1>5 DEF Crash, End, Active, TypeOK, store
  <2>2. QED
    BY <2>1 DEF LockKept, Lapsed
<1>6. ASSUME NEW from \in Inside, NEW to \in Inside, Goto(s, from, to), lock' = lock
      PROVE  LockKept'
  BY <1>6 DEF Goto, LockKept, Lapsed, Active, TypeOK
<1>7. CASE Verify(s) /\ ~Release(s)
  <2>1. \E from \in Inside, to \in Inside : Goto(s, from, to)
    BY <1>7 DEF Verify, CheckFails, CheckPasses, Delete, CompareInvalid,
                CompareValid, Increment, Exchange
  <2>2. lock' = lock
    BY <1>7 DEF Verify, CheckFails, CheckPasses, Delete, CompareInvalid,
                CompareValid, Increment, Exchange, store
  <2>3. QED
    BY <1>6, <2>1, <2>2 DEF LockKept
<1>8. CASE CommandFails(s)
  <2>1. \E from \in Inside, to \in Inside : Goto(s, from, to)
    BY <1>8 DEF CommandFails
  <2>2. QED
    BY <1>6, <1>8, <2>1 DEF CommandFails, store, LockKept
<1>9. QED
  BY <1>1, <1>2, <1>3, <1>4, <1>5, <1>7, <1>8

LEMMA LockKeptByTick == TypeOK /\ LockKept /\ Tick => LockKept'
<1> SUFFICES ASSUME TypeOK, LockKept, Tick, NEW r \in Requests, Active(r)'
             PROVE  \/ Lapsed(r)'
                    \/ lock'[r.device][r.email] =
                         [owner |-> r, until |-> since'[r] + LockTtl]
  BY DEF LockKept
<1> USE RequestParts
<1>1. Active(r) /\ since' = since /\ now' = now + 1
  BY DEF Tick, Active, calls
<1>2. CASE Lapsed(r)
  BY <1>1, <1>2, NumbersAssumption DEF Lapsed, TypeOK
<1>3. CASE ~Lapsed(r)
  <2>1. lock[r.device][r.email] = [owner |-> r, until |-> since[r] + LockTtl]
    BY <1>1, <1>3 DEF LockKept
  <2>2. CASE now' <= since[r] + LockTtl
    BY <1>1, <2>1, <2>2 DEF Tick, Served
  <2>3. CASE ~(now' <= since[r] + LockTtl)
    BY <1>1, <2>3, NumbersAssumption DEF Lapsed, TypeOK
  <2>4. QED
    BY <2>2, <2>3
<1>4. QED
  BY <1>2, <1>3

LEMMA LockKeptNext == TypeOK /\ LockKept /\ [Next]_vars => LockKept'
<1> SUFFICES ASSUME TypeOK, LockKept, [Next]_vars
             PROVE  LockKept'
  OBVIOUS
<1>1. ASSUME lock' = lock, now' = now, UNCHANGED calls
      PROVE  LockKept'
  BY <1>1 DEF LockKept, Lapsed, Active, calls
<1>2. ASSUME NEW d \in Devices, NEW e \in Emails, NEW c \in Codes, Send(d, e, c)
      PROVE  LockKept'
  BY <1>1, <1>2 DEF Send
<1>3. ASSUME NEW e \in Emails, NEW t \in Requests, Consume(e, t)
      PROVE  LockKept'
  BY <1>1, <1>3 DEF Consume
<1>4. CASE UNCHANGED vars
  BY <1>1, <1>4 DEF vars, store
<1>5. QED
  BY <1>2, <1>3, <1>4, LockKeptByRequest, LockKeptByTick DEF Next

\* While its lock has not run out nobody takes it away from a request.
THEOREM LockIsKept == Spec => []LockKept
<1>1. Init => LockKept
  BY DEF Init, LockKept, Active, Inside
<1>2. TypeOK /\ LockKept /\ [Next]_vars => LockKept'
  BY LockKeptNext
<1>3. QED
  BY <1>1, <1>2, TypeCorrect, PTL DEF Spec

LEMMA KeptIsExclusive == TypeOK /\ LockKept => LeaseMutex
<1> SUFFICES ASSUME LockKept, NEW r \in Requests, NEW s \in Requests, r # s,
                    SameKey(r, s), Active(r), Active(s), ~Lapsed(r), ~Lapsed(s)
             PROVE  FALSE
  BY DEF LeaseMutex
<1>1. lock[r.device][r.email] = [owner |-> r, until |-> since[r] + LockTtl]
  BY DEF LockKept
<1>2. lock[s.device][s.email] = [owner |-> s, until |-> since[s] + LockTtl]
  BY DEF LockKept
<1>3. QED
  BY <1>1, <1>2 DEF SameKey

\* Two requests of a device and e-mail are inside together only when the lock
\* of one of them ran out.
THEOREM LockIsExclusive == Spec => []LeaseMutex
  BY TypeCorrect, LockIsKept, KeptIsExclusive, PTL

-----------------------------------------------------------------------------
(* The lock implements a lock with a lease *)

InsideNow == {r \in Requests : Active(r)}
LapsedNow == {r \in Requests : Active(r) /\ Lapsed(r)}

\* A step that keeps the clock and who is inside is a stutter of the lease.
LEMMA LeaseStutter ==
    ASSUME now' = now, \A r \in Requests : Active(r)' = Active(r),
           \A r \in Requests : Active(r) => since'[r] = since[r]
    PROVE  UNCHANGED Lease!vars
<1>1. InsideNow' = InsideNow
  BY DEF InsideNow
<1>2. LapsedNow' = LapsedNow
  BY DEF LapsedNow, Lapsed
<1>3. QED
  BY <1>1, <1>2 DEF Lease!vars, InsideNow, LapsedNow

LEMMA LeaseEnter ==
    ASSUME TypeOK, LockKept, NEW s \in Requests, Acquire(s)
    PROVE  Lease!Enter(s)
<1> USE RequestParts DEF Inside
<1>1. ~Active(s) /\ Active(s)' /\ ~Lapsed(s)'
  BY NumbersAssumption DEF Acquire, Active, Lapsed, TypeOK
<1>2. \A r \in Requests : r # s => /\ Active(r)' = Active(r)
                                   /\ Lapsed(r)' = Lapsed(r)
  BY DEF Acquire, Active, Lapsed, TypeOK
<1>3. InsideNow' = InsideNow \cup {s}
  BY <1>1, <1>2 DEF InsideNow
<1>4. LapsedNow' = LapsedNow
  BY <1>1, <1>2 DEF LapsedNow
<1>5. s \notin InsideNow
  BY <1>1 DEF InsideNow
<1>6. ASSUME NEW o \in InsideNow \ LapsedNow
      PROVE  <<o.device, o.email>> # <<s.device, s.email>>
  <2>1. o \in Requests /\ Active(o) /\ ~Lapsed(o)
    BY DEF InsideNow, LapsedNow
  <2>2. lock[o.device][o.email] = [owner |-> o, until |-> since[o] + LockTtl]
    BY <2>1 DEF LockKept
  <2>3. lock[o.device][o.email] # NoLock
    BY <2>1, <2>2, RequestsAssumption DEF NoLock
  <2>4. QED
    BY <2>3 DEF Acquire, LockFree
<1>7. QED
  BY <1>3, <1>4, <1>5, <1>6 DEF Lease!Enter, InsideNow, LapsedNow

LEMMA LeaseLeave ==
    ASSUME TypeOK, NEW s \in Requests, Release(s) \/ Crash(s)
    PROVE  Lease!Leave(s)
<1>1. Active(s) /\ ~Active(s)'
  BY DEF Release, Crash, End, Active, Inside, TypeOK
<1>2. \A r \in Requests : r # s => /\ Active(r)' = Active(r)
                                   /\ Lapsed(r)' = Lapsed(r)
  BY DEF Release, Crash, End, Active, Lapsed, TypeOK
<1>3. InsideNow' = InsideNow \ {s}
  BY <1>1, <1>2 DEF InsideNow
<1>4. LapsedNow' = LapsedNow \ {s}
  BY <1>1, <1>2 DEF LapsedNow
<1>5. QED
  BY <1>1, <1>3, <1>4 DEF Lease!Leave, InsideNow, LapsedNow

LEMMA LeaseLapse == TypeOK /\ Tick => Lease!Lapse
<1> SUFFICES ASSUME TypeOK, Tick
             PROVE  Lease!Lapse
  OBVIOUS
<1>1. \A r \in Requests : /\ Active(r)' = Active(r)
                          /\ Lapsed(r) => Lapsed(r)'
  BY NumbersAssumption DEF Tick, Active, Lapsed, TypeOK, calls
<1>2. InsideNow' = InsideNow
  BY <1>1 DEF InsideNow
<1>3. LapsedNow' \in SUBSET InsideNow /\ LapsedNow \subseteq LapsedNow'
  BY <1>1 DEF InsideNow, LapsedNow
<1>4. QED
  BY <1>2, <1>3 DEF Lease!Lapse, InsideNow, LapsedNow

LEMMA LeaseStep == TypeOK /\ LockKept /\ [Next]_vars => [Lease!Next]_(Lease!vars)
<1> SUFFICES ASSUME TypeOK, LockKept, [Next]_vars
             PROVE  Lease!Next \/ UNCHANGED Lease!vars
  OBVIOUS
<1>1. ASSUME now' = now, UNCHANGED calls
      PROVE  UNCHANGED Lease!vars
  BY <1>1, LeaseStutter DEF Active, calls
<1>2. ASSUME NEW d \in Devices, NEW e \in Emails, NEW c \in Codes, Send(d, e, c)
      PROVE  UNCHANGED Lease!vars
  BY <1>1, <1>2 DEF Send
<1>3. ASSUME NEW e \in Emails, NEW t \in Requests, Consume(e, t)
      PROVE  UNCHANGED Lease!vars
  BY <1>1, <1>3 DEF Consume
<1>4. CASE UNCHANGED vars
  BY <1>1, <1>4 DEF vars
<1>5. ASSUME NEW s \in Requests, AcquireNoOtp(s) \/ Busy(s)
      PROVE  UNCHANGED Lease!vars
  BY <1>5, LeaseStutter DEF AcquireNoOtp, Busy, Active, Inside, TypeOK
<1>6. ASSUME NEW s \in Requests, NEW from \in Inside, NEW to \in Inside,
             Goto(s, from, to)
      PROVE  UNCHANGED Lease!vars
  BY <1>6, LeaseStutter DEF Goto, Active, TypeOK
<1>7. ASSUME NEW s \in Requests, Verify(s) \/ CommandFails(s), ~Release(s)
      PROVE  UNCHANGED Lease!vars
  <2>1. \E from \in Inside, to \in Inside : Goto(s, from, to)
    BY <1>7 DEF Verify, CheckFails, CheckPasses, Delete, CompareInvalid,
                CompareValid, Increment, Exchange, CommandFails, Inside
  <2>2. QED
    BY <1>6, <2>1
<1>8. QED
  BY <1>2, <1>3, <1>4, <1>5, <1>7, LeaseEnter, LeaseLeave, LeaseLapse
     DEF Next, Lease!Next

\* The lock of verifyOtp implements a lock with a lease.
THEOREM LockImplementsLease == Spec => LeaseSpec
<1>1. Init => Lease!Init
  BY DEF Init, Lease!Init, Active, Inside
<1>2. TypeOK /\ LockKept /\ [Next]_vars => [Lease!Next]_(Lease!vars)
  BY LeaseStep
<1>3. QED
  BY <1>1, <1>2, TypeCorrect, LockIsKept, PTL DEF Spec, LeaseSpec, Lease!Spec
=============================================================================

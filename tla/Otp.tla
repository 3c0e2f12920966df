--------------------------------- MODULE Otp ---------------------------------
(***************************************************************************)
(* The one-time-password service (packages/otp): sendOtp, verifyOtp and    *)
(* consumeVerifyToken, over the keys they share in Redis.                  *)
(*                                                                         *)
(* A request is one call of verifyOtp.  Its steps are the commands it      *)
(* sends to Redis and the awaits between them, so that requests of several *)
(* devices, sends and the clock interleave at every await.  A send is one  *)
(* Lua script, hence one action.  Keys that Redis removes when their TTL   *)
(* runs out are removed by Tick.                                           *)
(*                                                                         *)
(* The OTP is stored per e-mail; the lock, the cooldown and the send count *)
(* are stored per device and e-mail.                                       *)
(***************************************************************************)
EXTENDS Integers, FiniteSets

CONSTANTS
    Emails,         \* the addresses that register
    Devices,        \* the deviceId values
    Requests,       \* the calls of verifyOtp, each with its own lockToken
    Codes,          \* the generated codes, standing for their bcrypt hashes
    NoCode,         \* in place of a code: the otp key is absent
    NoRequest,      \* in place of a request: the key is absent
    MaxAttempts,    \* otpConfig.maxAttempts
    OtpTtl,         \* otpConfig.otpTtlMs, in ticks
    LockTtl,        \* otpConfig.lockTtlSeconds
    VerifyTokenTtl, \* otpConfig.verifyTokenTtl
    CountTtl,       \* EX of the send count, 86400 s
    ShortUpTo,      \* sends that get the short cooldown (2 in the code)
    MiddleUpTo,     \* sends that get the middle one (5 in the code)
    ShortCooldown, MiddleCooldown, LongCooldown,
    MaxDuration,    \* bound: no request lives longer than this
    LastStart,      \* bound: no request or send starts after this time
    EndOfTime       \* bound: the clock stops here

ASSUME RequestsAssumption ==
    /\ Requests \subseteq [token: {r.token : r \in Requests}, device: Devices, email: Emails]
    /\ NoRequest \notin Requests
    /\ NoCode \notin Codes

ASSUME NumbersAssumption ==
    /\ MaxAttempts \in Nat \ {0}
    /\ OtpTtl \in Nat \ {0}
    /\ LockTtl \in Nat \ {0}
    /\ VerifyTokenTtl \in Nat \ {0}
    /\ CountTtl \in Nat
    /\ ShortUpTo \in Nat
    /\ MiddleUpTo \in Nat
    /\ ShortCooldown \in Nat
    /\ MiddleCooldown \in Nat
    /\ LongCooldown \in Nat
    /\ MaxDuration \in Nat
    /\ LastStart \in Nat
    /\ EndOfTime \in Nat

VARIABLES
    now,        \* Date.now() and Redis' TIME, in ticks
    otp,        \* otp[e]: the value and the TTL of the otp key of e-mail e
    lock,       \* lock[d][e]: the verification lock of device d and e-mail e
    cooldown,   \* cooldown[d][e]: sendableAt and the TTL of its key
    sendCount,  \* sendCount[d][e]: the counter and the TTL of its key
    verifyToken,\* verifyToken[e]: the token issued for e-mail e
    pc,         \* pc[r]: the next step of request r
    since,      \* since[r]: when r took its lock
    snap,       \* snap[r]: the otp value r read, otpData
    \* history, read by no action's guard
    beside,     \* beside[r]: the codes of the requests that r works beside
    issued,     \* issued[c]: who sent code c and when
    wrong,      \* wrong[c]: comparisons with c that failed
    joint,      \* joint[c]: those of them made beside another request for c
    lost,       \* lost[c]: failed comparisons whose request died uncounted
    rounds,     \* rounds[c]: rounds of overlapping requests for c with a count
    counted,    \* the codes whose present round has written a count
    exchanged,  \* exchanged[c]: how often c was turned into a token
    spent       \* the codes exchanged by a request that worked alone

store == <<otp, lock, cooldown, sendCount, verifyToken>>
calls == <<pc, since, snap, beside>>
history == <<issued, wrong, joint, lost, rounds, counted, exchanged, spent>>
vars == <<now, store, calls, history>>

-----------------------------------------------------------------------------
(* Values of the keys, and their absence *)

Otp == [code: Codes \cup {NoCode}, expiresAt: Nat, attempts: Nat, until: Nat]
NoOtp == [code |-> NoCode, expiresAt |-> 0, attempts |-> 0, until |-> 0]

Lock == [owner: Requests \cup {NoRequest}, until: Nat]
NoLock == [owner |-> NoRequest, until |-> 0]

Cooldown == [sendableAt: Nat, until: Nat]
NoCooldown == [sendableAt |-> 0, until |-> 0]

SendCount == [count: Nat, until: Nat]
NoCount == [count |-> 0, until |-> 0]

\* The JSON that #setToken writes has the fields token and email.
VerifyToken == [token: Requests \cup {NoRequest}, email: Emails, until: Nat]
NoToken(e) == [token |-> NoRequest, email |-> e, until |-> 0]

Issue == [device: Devices, email: Emails, at: Nat]

\* The steps of a request that took its lock, in the order of verifyOtp.
Inside == {"check", "compare", "increment", "delete", "exchange", "release"}
Active(r) == pc[r] \in Inside

\* They carry the value they read until they have acted on it.
Carrying == Inside \ {"release"}
Carries(r) == pc[r] \in Carrying

\* The lock of r has run out: another request may have taken it since.
Lapsed(r) == now > since[r] + LockTtl

Init ==
    /\ now = 0
    /\ otp = [e \in Emails |-> NoOtp]
    /\ lock = [d \in Devices |-> [e \in Emails |-> NoLock]]
    /\ cooldown = [d \in Devices |-> [e \in Emails |-> NoCooldown]]
    /\ sendCount = [d \in Devices |-> [e \in Emails |-> NoCount]]
    /\ verifyToken = [e \in Emails |-> NoToken(e)]
    /\ pc = [r \in Requests |-> "idle"]
    /\ since = [r \in Requests |-> 0]
    /\ snap = [r \in Requests |-> NoOtp]
    /\ beside = [r \in Requests |-> {}]
    /\ issued = [c \in Codes |-> {}]
    /\ wrong = [c \in Codes |-> 0]
    /\ joint = [c \in Codes |-> 0]
    /\ lost = [c \in Codes |-> 0]
    /\ rounds = [c \in Codes |-> 0]
    /\ counted = {}
    /\ exchanged = [c \in Codes |-> 0]
    /\ spent = {}

-----------------------------------------------------------------------------
(* sendOtp: the script sendotp *)

\* Mutant: the middle tier is one send too wide.
ComputeCooldownWide(count) ==
    IF count <= ShortUpTo THEN ShortCooldown
    ELSE IF count <= MiddleUpTo + 1 THEN MiddleCooldown
    ELSE LongCooldown

ComputeCooldown(count) ==
    IF count <= ShortUpTo THEN ShortCooldown
    ELSE IF count <= MiddleUpTo THEN MiddleCooldown
    ELSE LongCooldown

Sendable(d, e) == cooldown[d][e].sendableAt <= now

\* Mutant: a new code inherits the attempts of the one it replaces.
SendKeepsAttempts(d, e, c) ==
    /\ now <= LastStart
    /\ issued[c] = {}
    /\ Sendable(d, e)
    /\ otp' = [otp EXCEPT ![e] = [code |-> c, expiresAt |-> now + OtpTtl,
                  attempts |-> otp[e].attempts, until |-> now + OtpTtl]]
    /\ issued' = [issued EXCEPT ![c] = {[device |-> d, email |-> e, at |-> now]}]
    /\ UNCHANGED <<now, lock, cooldown, sendCount, verifyToken, calls,
                   wrong, joint, lost, rounds, counted, exchanged, spent>>

\* A send in cooldown gets the error reply COOLDOWN and changes nothing.
Send(d, e, c) ==
    /\ now <= LastStart
    /\ issued[c] = {}
    /\ Sendable(d, e)
    /\ LET count == sendCount[d][e].count + 1
           wait  == ComputeCooldown(count)
       IN  /\ otp' = [otp EXCEPT ![e] =
                        [code |-> c, expiresAt |-> now + OtpTtl,
                         attempts |-> 0, until |-> now + OtpTtl]]
           /\ cooldown' = [cooldown EXCEPT ![d][e] =
                        [sendableAt |-> now + wait, until |-> now + wait]]
           /\ sendCount' = [sendCount EXCEPT ![d][e] =
                        [count |-> count, until |-> now + CountTtl]]
    /\ issued' = [issued EXCEPT ![c] = {[device |-> d, email |-> e, at |-> now]}]
    /\ UNCHANGED <<now, lock, verifyToken, calls,
                   wrong, joint, lost, rounds, counted, exchanged, spent>>

-----------------------------------------------------------------------------
(* verifyOtp *)

\* Mutant: SET without NX.
LockAnyway(r) == r \in Requests

\* The lock key is taken with SET NX: it must be absent.
LockFree(r) == lock[r.device][r.email] = NoLock

\* Mutants: the lock lives as long as its key is not deleted, or no time.
TakeLockForever(r) ==
    lock' = [lock EXCEPT ![r.device][r.email] =
                [owner |-> r, until |-> EndOfTime + LockTtl]]

TakeLockBriefly(r) ==
    lock' = [lock EXCEPT ![r.device][r.email] = [owner |-> r, until |-> now]]

TakeLock(r) ==
    lock' = [lock EXCEPT ![r.device][r.email] =
                [owner |-> r, until |-> now + LockTtl]]

\* Another request may use a value of the same e-mail at the same time when it
\* is of another device, whose lock is another, or its lock has run out.
Beside(r) ==
    {q \in Requests : /\ Carries(q)
                      /\ q.email = r.email
                      /\ q.device # r.device \/ Lapsed(q)}

Meet(r) ==
    beside' = [q \in Requests |->
        IF q = r THEN {snap[p].code : p \in Beside(r)}
        ELSE IF q \in Beside(r) THEN beside[q] \cup {otp[r.email].code}
        ELSE beside[q]]

\* A round of a code lasts as long as requests carry it.
BeginRound(c) ==
    counted' = IF \E q \in Requests : Carries(q) /\ snap[q].code = c
               THEN counted ELSE counted \ {c}

CountRound(c) ==
    /\ counted' = counted \cup {c}
    /\ rounds' = IF c \in counted THEN rounds ELSE [rounds EXCEPT ![c] = @ + 1]

\* r carries its code beside another request for it.
Together(r) == snap[r].code \in beside[r]

\* MULTI: SET lock NX and GET otp, both successful.
Acquire(r) ==
    /\ pc[r] = "idle"
    /\ now <= LastStart
    /\ LockFree(r)
    /\ otp[r.email] # NoOtp
    /\ TakeLock(r)
    /\ snap' = [snap EXCEPT ![r] = otp[r.email]]
    /\ since' = [since EXCEPT ![r] = now]
    /\ pc' = [pc EXCEPT ![r] = "check"]
    /\ Meet(r)
    /\ BeginRound(otp[r.email].code)
    /\ UNCHANGED <<now, otp, cooldown, sendCount, verifyToken,
                   issued, wrong, joint, lost, rounds, exchanged, spent>>

\* The same MULTI when no otp is stored: lockAquireAndGetOtp throws although
\* the lock was taken, lockAcquired is still false and nobody releases it.
AcquireNoOtp(r) ==
    /\ pc[r] = "idle"
    /\ now <= LastStart
    /\ LockFree(r)
    /\ otp[r.email] = NoOtp
    /\ TakeLock(r)
    /\ pc' = [pc EXCEPT ![r] = "done"]
    /\ UNCHANGED <<now, otp, cooldown, sendCount, verifyToken, since, snap, beside, history>>

\* The lock is held: SET NX replies null and the request fails.
Busy(r) ==
    /\ pc[r] = "idle"
    /\ now <= LastStart
    /\ ~LockFree(r)
    /\ pc' = [pc EXCEPT ![r] = "done"]
    /\ UNCHANGED <<now, store, since, snap, beside, history>>

Goto(r, from, to) ==
    /\ pc[r] = from
    /\ pc' = [pc EXCEPT ![r] = to]
    /\ UNCHANGED <<now, since, snap, beside>>

\* Mutant: maxAttempts is compared with >.
ExhaustedLate(value) == value.attempts > MaxAttempts

Expired(value) == now > value.expiresAt
Exhausted(value) == value.attempts >= MaxAttempts

\* Date.now() > expiresAt, then attempts >= maxAttempts: delete and throw.
CheckFails(r) ==
    /\ Goto(r, "check", "delete")
    /\ Expired(snap[r]) \/ Exhausted(snap[r])
    /\ UNCHANGED <<store, history>>

CheckPasses(r) ==
    /\ Goto(r, "check", "compare")
    /\ ~Expired(snap[r]) /\ ~Exhausted(snap[r])
    /\ UNCHANGED <<store, history>>

\* deleteKey(otpKey), whatever the key holds by now.
Delete(r) ==
    /\ Goto(r, "delete", "release")
    /\ otp' = [otp EXCEPT ![r.email] = NoOtp]
    /\ UNCHANGED <<lock, cooldown, sendCount, verifyToken, history>>

\* bcrypt.compare of the input with the hash in the snapshot.
CompareInvalid(r) ==
    /\ Goto(r, "compare", "increment")
    /\ wrong' = [wrong EXCEPT ![snap[r].code] = @ + 1]
    /\ joint' = IF Together(r) THEN [joint EXCEPT ![snap[r].code] = @ + 1] ELSE joint
    /\ UNCHANGED <<store, issued, lost, rounds, counted, exchanged, spent>>

\* With tokenSetAble the code is exchanged for a token; without it, as the
\* controller calls verifyOtp, the request just succeeds.
CompareValid(r) ==
    /\ \E next \in {"exchange", "release"} : Goto(r, "compare", next)
    /\ UNCHANGED <<store, history>>

RemainingTtl(value) ==
    IF value.expiresAt - now > 1 THEN value.expiresAt - now ELSE 1

\* Mutant: a counted guess renews the lifetime of the code.
CountedRenews(value) ==
    [code |-> value.code, expiresAt |-> now + OtpTtl,
     attempts |-> value.attempts + 1, until |-> now + OtpTtl]

\* { ...otpData, attempts: otpData.attempts + 1 } and its EX.
Counted(value) ==
    [code |-> value.code, expiresAt |-> value.expiresAt,
     attempts |-> value.attempts + 1, until |-> now + RemainingTtl(value)]

\* Mutant: attempts count down.
IncrementDown(r) ==
    /\ Goto(r, "increment", "release")
    /\ otp' = [otp EXCEPT ![r.email] = [snap[r] EXCEPT !.attempts = @ - 1]]
    /\ CountRound(snap[r].code)
    /\ UNCHANGED <<lock, cooldown, sendCount, verifyToken,
                   issued, wrong, joint, lost, exchanged, spent>>

\* attemptIncress: the snapshot, with one attempt more, overwrites the key.
Increment(r) ==
    /\ Goto(r, "increment", "release")
    /\ otp' = [otp EXCEPT ![r.email] = Counted(snap[r])]
    /\ CountRound(snap[r].code)
    /\ UNCHANGED <<lock, cooldown, sendCount, verifyToken,
                   issued, wrong, joint, lost, exchanged, spent>>

Spend(r) ==
    /\ exchanged' = [exchanged EXCEPT ![snap[r].code] = @ + 1]
    /\ spent' = IF Together(r) THEN spent ELSE spent \cup {snap[r].code}

\* Mutant: the token is set and the otp is not deleted.
ExchangeKeepsOtp(r) ==
    /\ Goto(r, "exchange", "release")
    /\ Spend(r)
    /\ UNCHANGED <<store, issued, wrong, joint, lost, rounds, counted>>

\* #setToken, MULTI: DEL otp and SET verifyToken.
Exchange(r) ==
    /\ Goto(r, "exchange", "release")
    /\ otp' = [otp EXCEPT ![r.email] = NoOtp]
    /\ verifyToken' = [verifyToken EXCEPT ![r.email] =
                 [token |-> r, email |-> r.email, until |-> now + VerifyTokenTtl]]
    /\ Spend(r)
    /\ UNCHANGED <<lock, cooldown, sendCount, issued, wrong, joint, lost, rounds, counted>>

\* The call returns or throws and its local variables are gone.
End(r) ==
    /\ pc' = [pc EXCEPT ![r] = "done"]
    /\ snap' = [snap EXCEPT ![r] = NoOtp]
    /\ since' = [since EXCEPT ![r] = 0]
    /\ beside' = [beside EXCEPT ![r] = {}]

\* Mutant: DEL without comparing the token.
ReleaseBlindly(r) ==
    /\ pc[r] = "release"
    /\ End(r)
    /\ lock' = [lock EXCEPT ![r.device][r.email] = NoLock]
    /\ UNCHANGED <<now, otp, cooldown, sendCount, verifyToken, history>>

\* releaseLock: compare the stored token with lockToken, then DEL.
Release(r) ==
    /\ pc[r] = "release"
    /\ End(r)
    /\ lock' = IF lock[r.device][r.email].owner = r
               THEN [lock EXCEPT ![r.device][r.email] = NoLock]
               ELSE lock
    /\ UNCHANGED <<now, otp, cooldown, sendCount, verifyToken, history>>

CountLost(r) ==
    lost' = IF pc[r] = "increment"
            THEN [lost EXCEPT ![snap[r].code] = @ + 1] ELSE lost

\* A command does not reach Redis; the finally block still releases the lock.
CommandFails(r) ==
    /\ \E step \in {"delete", "increment", "exchange"} : Goto(r, step, "release")
    /\ CountLost(r)
    /\ UNCHANGED <<store, issued, wrong, joint, rounds, counted, exchanged, spent>>

\* The backend process dies with the request: its lock stays until its TTL.
Crash(r) ==
    /\ Active(r)
    /\ End(r)
    /\ CountLost(r)
    /\ UNCHANGED <<now, store, issued, wrong, joint, rounds, counted, exchanged, spent>>

-----------------------------------------------------------------------------
(* consumeVerifyToken: the script in deviceVerified *)

\* The script reads data.storedToken and data.storedEmail.
TokenAccepted(stored, token, email) ==
    /\ "storedToken" \in DOMAIN stored /\ stored.storedToken = token
    /\ "storedEmail" \in DOMAIN stored /\ stored.storedEmail = email

\* A refused token stays stored; the caller is told it is invalid or expired.
Consume(e, token) ==
    /\ verifyToken' = IF TokenAccepted(verifyToken[e], token, e)
                      THEN [verifyToken EXCEPT ![e] = NoToken(e)]
                      ELSE verifyToken
    /\ UNCHANGED <<now, otp, lock, cooldown, sendCount, calls, history>>

-----------------------------------------------------------------------------
(* Time *)

\* Redis serves a key up to and including the instant of its expiry.
Served(until, t) == t <= until

\* Every request ends within MaxDuration of taking its lock.
Tick ==
    /\ now < EndOfTime
    /\ \A r \in Requests : Active(r) => now < since[r] + MaxDuration
    /\ now' = now + 1
    /\ otp' = [e \in Emails |->
                 IF Served(otp[e].until, now') THEN otp[e] ELSE NoOtp]
    /\ lock' = [d \in Devices |-> [e \in Emails |->
                 IF Served(lock[d][e].until, now') THEN lock[d][e] ELSE NoLock]]
    /\ cooldown' = [d \in Devices |-> [e \in Emails |->
                 IF Served(cooldown[d][e].until, now') THEN cooldown[d][e] ELSE NoCooldown]]
    /\ sendCount' = [d \in Devices |-> [e \in Emails |->
                 IF Served(sendCount[d][e].until, now') THEN sendCount[d][e] ELSE NoCount]]
    /\ verifyToken' = [e \in Emails |->
                 IF Served(verifyToken[e].until, now') THEN verifyToken[e] ELSE NoToken(e)]
    /\ UNCHANGED <<calls, history>>

Verify(r) ==
    \/ CheckFails(r)
    \/ CheckPasses(r)
    \/ Delete(r)
    \/ CompareInvalid(r)
    \/ CompareValid(r)
    \/ Increment(r)
    \/ Exchange(r)
    \/ Release(r)

Next ==
    \/ \E d \in Devices, e \in Emails, c \in Codes : Send(d, e, c)
    \/ \E r \in Requests : \/ Acquire(r) \/ AcquireNoOtp(r) \/ Busy(r)
                           \/ Verify(r) \/ CommandFails(r) \/ Crash(r)
    \/ \E e \in Emails, t \in Requests : Consume(e, t)
    \/ Tick

\* Users and crashes are not fair; a request that runs, and time, go on.
Fairness ==
    /\ \A r \in Requests : WF_vars(Verify(r))
    /\ WF_vars(Tick)

Spec == Init /\ [][Next]_vars
FairSpec == Spec /\ Fairness

-----------------------------------------------------------------------------
(* Properties *)

\* Every variable holds a value of its kind.
TypeOK ==
    /\ now \in Nat
    /\ otp \in [Emails -> Otp]
    /\ lock \in [Devices -> [Emails -> Lock]]
    /\ cooldown \in [Devices -> [Emails -> Cooldown]]
    /\ sendCount \in [Devices -> [Emails -> SendCount]]
    /\ verifyToken \in [Emails -> VerifyToken]
    /\ pc \in [Requests -> Inside \cup {"idle", "done"}]
    /\ since \in [Requests -> Nat]
    /\ snap \in [Requests -> Otp]
    /\ beside \in [Requests -> SUBSET (Codes \cup {NoCode})]
    /\ issued \in [Codes -> SUBSET Issue]
    /\ wrong \in [Codes -> Nat]
    /\ joint \in [Codes -> Nat]
    /\ lost \in [Codes -> Nat]
    /\ rounds \in [Codes -> Nat]
    /\ counted \subseteq Codes \cup {NoCode}
    /\ exchanged \in [Codes -> Nat]
    /\ spent \subseteq Codes \cup {NoCode}

SameKey(r, s) == r.device = s.device /\ r.email = s.email

\* Two requests of one device and e-mail are inside verifyOtp together only
\* when the lock of one of them ran out (lockAquireAndGetOtp, releaseLock).
LeaseMutex ==
    \A r, s \in Requests :
        r # s /\ SameKey(r, s) /\ Active(r) /\ Active(s) => Lapsed(r) \/ Lapsed(s)

\* While its lock has not run out, nobody takes it away from a request: the
\* finally block of an older request whose lock ran out leaves it alone.
LockKept ==
    \A r \in Requests : Active(r) =>
        \/ Lapsed(r)
        \/ lock[r.device][r.email] = [owner |-> r, until |-> since[r] + LockTtl]

\* The stored attempts never exceed the comparisons that failed: however the
\* requests of several devices interleave, nobody is locked out early.
NeverOvercounts ==
    \A e \in Emails : otp[e] # NoOtp => otp[e].attempts <= wrong[otp[e].code]

\* The stored attempts never pass maxAttempts, although the comparison with
\* it is made on a snapshot and the increment is written later.
StoredAttemptsBounded == \A e \in Emails : otp[e].attempts <= MaxAttempts

\* However many devices guess at once, a round of overlapping requests in which
\* a guess is counted costs the code at least one of its attempts: there are no
\* more such rounds than maxAttempts.
RoundsBudget == \A c \in Codes : rounds[c] <= MaxAttempts

\* At most maxAttempts wrong guesses of a code are answered, and one more for
\* each request that died before it could count its guess and for each guess
\* made beside a request of another device or one whose lock had run out.
GuessBudget == \A c \in Codes : wrong[c] <= MaxAttempts + lost[c] + joint[c]

\* A code that was exchanged by a request that worked alone is gone: no request
\* holds it any more, and no late write brings it back.
SingleExchange ==
    \A c \in spent :
        /\ \A e \in Emails : otp[e].code # c
        /\ \A r \in Requests : Carries(r) => snap[r].code # c

\* A code is exchanged no later than its lifetime plus the length of one
\* request after it was sent, although a stale increment renews its key's TTL.
NoLateExchange ==
    [][\A c \in Codes : exchanged'[c] # exchanged[c] =>
           \E i \in issued[c] : now <= i.at + OtpTtl + MaxDuration]_vars

\* A request replaces or removes only the code it read, one sent after it began,
\* or one that a request beside it, of another device or with a lock that had run
\* out, carries back.
DisturbsOnlyItsOwn ==
    [][\A r \in Requests :
           /\ pc[r] \in {"delete", "increment", "exchange"} /\ pc'[r] = "release"
           /\ otp'[r.email] # otp[r.email]
           =>
               \/ otp[r.email].code \in {snap[r].code, NoCode} \cup beside[r]
               \/ \E i \in issued[otp[r.email].code] : i.at >= since[r]]_vars

\* No (device, e-mail) pair gets more than MiddleUpTo + 1 codes within the
\* lifetime of its send count: the long cooldown and the TTL of the counter,
\* renewed by every send, close the gap between them (send_otp.lua).
RateBound ==
    \A d \in Devices, e \in Emails, t \in 0..now :
        Cardinality({c \in Codes : \E i \in issued[c] :
            i.device = d /\ i.email = e /\ i.at \in t..(t + CountTtl - 1)})
        <= MiddleUpTo + 1

\* The lock of verifyOtp implements a lock with a lease, however long the
\* requests are: the leases of both can only differ when one has run out.
Lease == INSTANCE TimedLock WITH
    Clients <- Requests,
    KeyOf <- [r \in Requests |-> <<r.device, r.email>>],
    inside <- {r \in Requests : Active(r)},
    lapsed <- {r \in Requests : Active(r) /\ Lapsed(r)}

LeaseSpec == Lease!Spec

\* verifyOtp makes of the stored value a code with a guess budget, one use and a
\* lifetime, however its commands interleave with sends, the clock and requests
\* that die; of the budget and the one use only requests that work on the code
\* beside others are free, never of its lifetime nor of its end.
OneTime == INSTANCE OneTimeCode WITH
    Lifetime <- OtpTtl + MaxDuration,
    sent <- [c \in Codes |-> {i.at : i \in issued[c]}],
    guesses <- wrong,
    uncounted <- lost,
    uses <- exchanged

OneTimeCodeSpec == OneTime!Spec

\* The token verifyOtp returned opens the registration while it is stored:
\* "collect the data from redis using token, if exist => next process".
StoredTokenAccepted ==
    \A e \in Emails : verifyToken[e] # NoToken(e) =>
        TokenAccepted(verifyToken[e], verifyToken[e].token, e)

\* Crashed requests and requests that found no otp leave their lock behind;
\* the lock of every device and e-mail is free again and again all the same.
LockAlwaysFreed ==
    \A d \in Devices, e \in Emails : []<>(lock[d][e] = NoLock)
=============================================================================

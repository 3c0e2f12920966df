---------------------------- MODULE OneTimeCode ----------------------------
(***************************************************************************)
(* What the OTP service promises about a code: it is guessed wrong only so *)
(* often, it is used once, and after its time, or its use, it is neither   *)
(* guessed nor used any more.  A wrong guess whose request dies before it  *)
(* is counted is one guess more.  Guesses and uses made together, by       *)
(* requests that work on the code at the same time, are not limited in     *)
(* number, but each round of them in which a guess is counted costs one of *)
(* the attempts, and they too end with the lifetime of the code and with   *)
(* its use by a request alone.                                             *)
(***************************************************************************)
EXTENDS Integers

CONSTANTS
    Codes,        \* the codes, each sent at most once
    MaxAttempts,  \* the wrong guesses of a code
    Lifetime      \* how long after it was sent a code may be answered for

VARIABLES
    now,        \* the clock
    sent,       \* sent[c]: the time at which c was sent, as a set: none before
    guesses,    \* guesses[c]: the wrong guesses answered
    joint,      \* joint[c]: those of them that were made together
    uncounted,  \* uncounted[c]: those of them whose requests died
    rounds,     \* rounds[c]: the attempts that rounds of guesses have cost
    uses,       \* uses[c]: how often c was used
    spent       \* the codes that were used alone

vars == <<now, sent, guesses, joint, uncounted, rounds, uses, spent>>

Init ==
    /\ now = 0
    /\ sent = [c \in Codes |-> {}]
    /\ guesses = [c \in Codes |-> 0]
    /\ joint = [c \in Codes |-> 0]
    /\ uncounted = [c \in Codes |-> 0]
    /\ rounds = [c \in Codes |-> 0]
    /\ uses = [c \in Codes |-> 0]
    /\ spent = {}

Tick ==
    /\ now' = now + 1
    /\ UNCHANGED <<sent, guesses, joint, uncounted, rounds, uses, spent>>

Send(c) ==
    /\ sent[c] = {}
    /\ sent' = [sent EXCEPT ![c] = {now}]
    /\ UNCHANGED <<now, guesses, joint, uncounted, rounds, uses, spent>>

Answerable(c) ==
    /\ \E t \in sent[c] : now <= t + Lifetime
    /\ c \notin spent

GuessWrong(c) ==
    /\ Answerable(c)
    /\ guesses' = [guesses EXCEPT ![c] = @ + 1]
    /\ \/ /\ guesses[c] < MaxAttempts + uncounted[c] + joint[c]
          /\ UNCHANGED joint
       \/ joint' = [joint EXCEPT ![c] = @ + 1]
    /\ UNCHANGED <<now, sent, uncounted, rounds, uses, spent>>

Die(c) ==
    /\ uncounted[c] < guesses[c]
    /\ uncounted' = [uncounted EXCEPT ![c] = @ + 1]
    /\ UNCHANGED <<now, sent, guesses, joint, rounds, uses, spent>>

Cost(c) ==
    /\ rounds[c] < MaxAttempts
    /\ rounds' = [rounds EXCEPT ![c] = @ + 1]
    /\ UNCHANGED <<now, sent, guesses, joint, uncounted, uses, spent>>

Use(c) ==
    /\ Answerable(c)
    /\ uses' = [uses EXCEPT ![c] = @ + 1]
    /\ spent' \in {spent, spent \cup {c}}
    /\ UNCHANGED <<now, sent, guesses, joint, uncounted, rounds>>

Next ==
    \/ Tick
    \/ \E c \in Codes : Send(c) \/ GuessWrong(c) \/ Die(c) \/ Cost(c) \/ Use(c)

Spec == Init /\ [][Next]_vars
=============================================================================

------------------------------ MODULE TimedLock ------------------------------
(***************************************************************************)
(* What a lock with a time to live promises: a client enters only when     *)
(* every client inside with its key has outlived its lease.  A lease may   *)
(* lapse at any time; a client inside cannot tell.                         *)
(***************************************************************************)
CONSTANTS
    Clients,    \* who asks for the lock
    KeyOf       \* KeyOf[c]: the key that client c locks

VARIABLES inside, lapsed

vars == <<inside, lapsed>>

Init == inside = {} /\ lapsed = {}

Enter(c) ==
    /\ c \notin inside
    /\ \A o \in inside \ lapsed : KeyOf[o] # KeyOf[c]
    /\ inside' = inside \cup {c}
    /\ UNCHANGED lapsed

Leave(c) ==
    /\ c \in inside
    /\ inside' = inside \ {c}
    /\ lapsed' = lapsed \ {c}

Lapse ==
    /\ lapsed' \in SUBSET inside
    /\ lapsed \subseteq lapsed'
    /\ UNCHANGED inside

Next == (\E c \in Clients : Enter(c) \/ Leave(c)) \/ Lapse

Spec == Init /\ [][Next]_vars

\* At most one client of a key is inside with a lease that has not lapsed.
Exclusive ==
    \A c, o \in inside \ lapsed : KeyOf[c] = KeyOf[o] => c = o
=============================================================================

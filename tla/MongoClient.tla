----------------------------- MODULE MongoClient -----------------------------
(***************************************************************************)
(* The client of MongoDB (packages/mongo: mongoose.client.ts and           *)
(* retry.util.ts): connect, with its attempts one after the other,         *)
(* getConnection and disconnect, called in any order and at any time.      *)
(*                                                                         *)
(* A connection is a number.  The driver may lose the server and find it   *)
(* again by itself.  When an attempt succeeds, the caller that began it is *)
(* resumed before anything else happens.                                   *)
(***************************************************************************)
EXTENDS Naturals

CONSTANTS
    MaxConnections,  \* bound: the connections that are ever created
    RetryAttempts    \* retryAttempts

VARIABLES
    connection,  \* this.connection, 0 for null
    connecting,  \* this.connecting: "none", "opening", or "waiting" to try again
    attempt,     \* attempt of withRetry
    link,        \* link[k]: the connection k, with its readyState
    closing,     \* the connections that disconnect awaits the end of
    \* history
    lostOnce,    \* the connections the driver has lost at some time
    overlap      \* a connect and a disconnect were under way at the same time

vars == <<connection, connecting, attempt, link, closing, lostOnce, overlap>>

Connections == 1..MaxConnections
Links == {"none", "opening", "connected", "disconnected", "disconnecting", "closed"}

Init ==
    /\ connection = 0
    /\ connecting = "none"
    /\ attempt = 0
    /\ link = [k \in Connections |-> "none"]
    /\ closing = {}
    /\ lostOnce = {}
    /\ overlap = FALSE

\* createConnection
Create == \E k \in Connections :
    /\ link[k] = "none" /\ \A j \in 1..(k - 1) : link[j] # "none"
    /\ link' = [link EXCEPT ![k] = "opening"]

Usable == connection # 0 /\ link[connection] = "connected"

\* Mutant: a second caller begins attempts of its own.
Unguarded == ~Usable

\* A connection in use is returned, attempts under way are shared.
MayConnect == ~Usable /\ connecting = "none"

Connect ==
    /\ MayConnect
    /\ Create
    /\ connecting' = "opening"
    /\ attempt' = 1
    /\ overlap' = (overlap \/ closing # {})
    /\ UNCHANGED <<connection, closing, lostOnce>>

\* The attempt succeeds: connect stores the connection over whatever is there.
Succeed(k) ==
    /\ link[k] = "opening"
    /\ link' = [link EXCEPT ![k] = "connected"]
    /\ connection' = k
    /\ connecting' = "none"
    /\ UNCHANGED <<attempt, closing, lostOnce, overlap>>

\* Mutant: one attempt too many.
MoreAttemptsLate == attempt <= RetryAttempts

MoreAttempts == attempt < RetryAttempts

\* It fails: withRetry waits, or gives up after the last attempt.
Fail(k) ==
    /\ link[k] = "opening"
    /\ link' = [link EXCEPT ![k] = "closed"]
    /\ connecting' = IF MoreAttempts THEN "waiting" ELSE "none"
    /\ UNCHANGED <<connection, attempt, closing, lostOnce, overlap>>

TryAgain ==
    /\ connecting = "waiting"
    /\ Create
    /\ connecting' = "opening"
    /\ attempt' = attempt + 1
    /\ UNCHANGED <<connection, closing, lostOnce, overlap>>

\* The driver loses the server, and finds it again.
LoseServer(k) ==
    /\ link[k] = "connected"
    /\ link' = [link EXCEPT ![k] = "disconnected"]
    /\ lostOnce' = lostOnce \union {k}
    /\ UNCHANGED <<connection, connecting, attempt, closing, overlap>>

FindServer(k) ==
    /\ link[k] = "disconnected"
    /\ link' = [link EXCEPT ![k] = "connected"]
    /\ UNCHANGED <<connection, connecting, attempt, closing, lostOnce, overlap>>

\* disconnect does nothing when nothing is stored, also while attempts run.
Disconnect ==
    /\ connection # 0
    /\ link' = [link EXCEPT ![connection] = "disconnecting"]
    /\ closing' = closing \union {connection}
    /\ overlap' = (overlap \/ connecting # "none")
    /\ UNCHANGED <<connection, connecting, attempt, lostOnce>>

\* What is stored is forgotten, be it what was closed or not.
Closed(k) ==
    /\ k \in closing
    /\ closing' = closing \ {k}
    /\ link' = [link EXCEPT ![k] = "closed"]
    /\ connection' = 0
    /\ UNCHANGED <<connecting, attempt, lostOnce, overlap>>

Next ==
    \/ Connect \/ TryAgain \/ Disconnect
    \/ \E k \in Connections :
          Succeed(k) \/ Fail(k) \/ LoseServer(k) \/ FindServer(k) \/ Closed(k)

MongoTypeOK ==
    /\ connection \in {0} \union Connections
    /\ connecting \in {"none", "opening", "waiting"}
    /\ attempt \in 0..RetryAttempts
    /\ link \in [Connections -> Links]
    /\ closing \subseteq Connections
    /\ lostOnce \subseteq Connections
    /\ overlap \in BOOLEAN

Open(k) == link[k] \in {"connected", "disconnected"}

\* One attempt at a time, and no connection is left open behind the client's back,
\* but for two causes: it was lost by the driver and replaced before it came back,
\* or a disconnect and a connect overlapped.  What getConnection hands out is never
\* a closed connection (mongoose.client.ts: connect stores and disconnect forgets,
\* each after an await).
ConnectionsAccounted ==
    /\ \A j, k \in Connections : link[j] = "opening" /\ link[k] = "opening" => j = k
    /\ connecting = "opening" <=> (\E k \in Connections : link[k] = "opening")
    /\ \A k \in Connections : Open(k) /\ k # connection => k \in lostOnce \/ overlap
    /\ connection # 0 => link[connection] # "closed"
=============================================================================

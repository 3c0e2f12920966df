---------------------------- MODULE AccountStore ----------------------------
(***************************************************************************)
(* What the identities of the backend promise: every call of the           *)
(* repository of accounts that succeeds takes effect at once, as if the    *)
(* calls came one after the other.  A call may also fail, and then nothing *)
(* has changed or its whole effect is there and only the answer was lost.  *)
(***************************************************************************)
CONSTANTS
    Calls,     \* the calls; a user is named after the call that created it
    Requests,  \* the requests: records with kind, provider, providerId, email
    None

VARIABLES
    users,       \* users[u]: the e-mail of user u, None when there is no such user
    identities,  \* the identities: records with user, provider, providerId
    request,     \* request[c]: what call c asks for
    status,      \* status[c]: idle, asked, ok, taken or failed
    account      \* account[c]: the user that call c answered, or None

vars == <<users, identities, request, status, account>>

Init ==
    /\ users = [u \in Calls |-> None]
    /\ identities = {}
    /\ request \in [Calls -> Requests]
    /\ status = [c \in Calls |-> "idle"]
    /\ account = [c \in Calls |-> None]

HasEmail(u, c) == users[u] = request[c].email

\* i is the identity that the provider of c knows the caller by.
SameLogin(i, c) ==
    i.provider = request[c].provider /\ i.providerId = request[c].providerId

Ask(c) ==
    /\ status[c] = "idle"
    /\ status' = [status EXCEPT ![c] = "asked"]
    /\ UNCHANGED <<users, identities, request, account>>

Answer(c, u) ==
    \/ /\ status' = [status EXCEPT ![c] = "ok"]
       /\ account' = [account EXCEPT ![c] = u]
    \/ /\ status' = [status EXCEPT ![c] = "failed"]
       /\ UNCHANGED account

Link(c, u) ==
    identities' = identities \union
        {[user |-> u, provider |-> request[c].provider, providerId |-> request[c].providerId]}

\* A caller known by its provider is given its account.
Recognise(c) ==
    /\ request[c].kind # "credentials"
    /\ \E i \in identities : SameLogin(i, c) /\ Answer(c, i.user)
    /\ UNCHANGED <<users, identities>>

\* A caller new to its provider is linked to the account with its e-mail.
LinkToUser(c) ==
    /\ request[c].kind # "credentials"
    /\ \A i \in identities : ~SameLogin(i, c)
    /\ \E u \in Calls :
         /\ HasEmail(u, c)
         /\ \A i \in identities : ~(i.user = u /\ i.provider = request[c].provider)
         /\ Link(c, u)
         /\ Answer(c, u)
    /\ UNCHANGED users

\* A registration with an e-mail nobody has creates an account.
Create(c) ==
    /\ request[c].kind # "login"
    /\ \A i \in identities : ~SameLogin(i, c)
    /\ \A u \in Calls : ~HasEmail(u, c)
    /\ users' = [users EXCEPT ![c] = request[c].email]
    /\ Link(c, c)
    /\ Answer(c, c)

\* A registration with a password is told that its e-mail is taken.
Taken(c) ==
    /\ request[c].kind = "credentials"
    /\ \E u \in Calls : HasEmail(u, c)
    /\ status' = [status EXCEPT ![c] = "taken"]
    /\ UNCHANGED <<users, identities, account>>

Fail(c) ==
    /\ status' = [status EXCEPT ![c] = "failed"]
    /\ UNCHANGED <<users, identities, account>>

Settle(c) ==
    /\ status[c] = "asked"
    /\ Recognise(c) \/ LinkToUser(c) \/ Create(c) \/ Taken(c) \/ Fail(c)
    /\ UNCHANGED request

Next == \E c \in Calls : Ask(c) \/ Settle(c)

Spec == Init /\ [][Next]_vars
=============================================================================

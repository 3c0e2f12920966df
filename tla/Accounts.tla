------------------------------ MODULE Accounts ------------------------------
(***************************************************************************)
(* The accounts of the backend: the repository that registers and logs in  *)
(* (use-case.repository.ts), each call in a transaction of MongoDB         *)
(* (mongo.service.ts), and the collections with their unique indexes.      *)
(*                                                                         *)
(* A transaction reads from the snapshot of its first operation, so all    *)
(* its reads are one step.  Its writes are its own until it commits; one   *)
(* that meets an index key in the snapshot is a duplicate (11000), one     *)
(* that meets a key written since, or by a transaction under way, is a     *)
(* write conflict, and the driver runs the whole callback again.           *)
(*                                                                         *)
(* A user is named after the call that created it, an e-mail is one the    *)
(* schema has normalised, and the indexes are there.                       *)
(***************************************************************************)
CONSTANTS
    Calls,        \* bound: the calls of the repository, one request each
    Emails,       \* the e-mails
    Providers,    \* the providers, which are Google and GitHub
    ProviderIds,  \* what a provider calls its users; two may use one id
    None

Credentials == "credentials"

\* CredentialsRegisterInput; the identity is called as the user is
CredentialRequests ==
    [kind: {Credentials}, provider: {Credentials}, providerId: Calls, email: Emails]

\* ProviderAuthInput
ProviderRequests ==
    [kind: {"register", "login"}, provider: Providers, providerId: ProviderIds, email: Emails]

Requests == CredentialRequests \union ProviderRequests

ASSUME NamesAssumption ==
    /\ None \notin Calls \union Emails
    /\ Calls \intersect ProviderIds = {}
    /\ Credentials \notin Providers

VARIABLES
    users,       \* committed: users[u] is the e-mail of user u, or None
    identities,  \* committed: the AuthIdentity documents
    request,     \* request[c]: what call c asks for
    stage,       \* stage[c]: where its transaction is, or how the call ended
    account,     \* account[c]: the user its transaction is about, or None
    snapshot     \* snapshot[c]: what its transaction reads

db == <<users, identities>>
vars == <<db, request, stage, account, snapshot>>

Identity == [user: Calls, provider: {Credentials} \union Providers, providerId: Calls \union ProviderIds]

\* Before the first operation, between the awaits, before the commit
Begun == {"begin", "createUser", "createIdentity", "commit"}
Ends == {"ok", "taken", "failed"}

Nothing == [users |-> [u \in Calls |-> None], identities |-> {}]

Init ==
    /\ users = Nothing.users
    /\ identities = {}
    /\ request \in {r \in [Calls -> Requests] :
                      \A c \in Calls : r[c].kind = Credentials => r[c].providerId = c}
    /\ stage = [c \in Calls |-> "idle"]
    /\ account = [c \in Calls |-> None]
    /\ snapshot = [c \in Calls |-> Nothing]

-----------------------------------------------------------------------------
(* Transactions *)

\* What call c sees when it has not read before
Seen(c) == IF stage[c] = "begin" THEN [users |-> users, identities |-> identities]
                                 ELSE snapshot[c]

Move(c, to, u) ==
    /\ stage' = [stage EXCEPT ![c] = to]
    /\ account' = [account EXCEPT ![c] = u]

\* The call ends: its transaction is aborted, or had nothing to write.
End(c, how) ==
    /\ Move(c, how, None)
    /\ snapshot' = [snapshot EXCEPT ![c] = Nothing]
    /\ UNCHANGED <<db, request>>

\* TransientTransactionError: the callback runs again, or its time is over.
Retry(c) == End(c, "begin") \/ End(c, "failed")

\* The documents that a transaction under way has written: the user is new when
\* it is named after the call.  A call that found its identity has not written
\* it, but then it is committed, and counts for the keys all the same.
WroteUser(c) == stage[c] \in {"createIdentity", "commit"} /\ account[c] = c
HasIdentity(c) == stage[c] = "commit"

IdentityFor(c, u) ==
    [user |-> u, provider |-> request[c].provider, providerId |-> request[c].providerId]

\* Mutant: without the index on the provider's id.
SharesKeyByUser(i, j) == i.user = j.user /\ i.provider = j.provider

\* Two identities may not agree on either index.
SharesKey(i, j) ==
    /\ i.provider = j.provider
    /\ i.providerId = j.providerId \/ i.user = j.user

\* The e-mail of call c is used: in what it sees, or by a write it cannot see
EmailSeen(c) == \E u \in Calls : Seen(c).users[u] = request[c].email
EmailConflict(c) ==
    \/ \E u \in Calls : users[u] = request[c].email
    \/ \E d \in Calls \ {c} : WroteUser(d) /\ request[d].email = request[c].email

IdentitySeen(c, i) == \E j \in Seen(c).identities : SharesKey(i, j)
IdentityConflict(c, i) ==
    \/ \E j \in identities : SharesKey(i, j)
    \/ \E d \in Calls \ {c} : HasIdentity(d) /\ SharesKey(i, IdentityFor(d, account[d]))

-----------------------------------------------------------------------------
(* The repository *)

\* withTransaction, and the callback up to its first operation
Call(c) ==
    /\ stage[c] = "idle"
    /\ stage' = [stage EXCEPT ![c] = "begin"]
    /\ UNCHANGED <<db, request, account, snapshot>>

\* registerWithProvider and loginWithProvider look for the identity, then for
\* its user, or for a user with the e-mail; only a registration goes on when
\* there is none.  A login without an account fails (AccountNotFoundError).
Find(c) ==
    /\ stage[c] = "begin"
    /\ request[c].kind # Credentials
    /\ LET known == {i \in identities : i.provider = request[c].provider
                                          /\ i.providerId = request[c].providerId}
           named == {u \in Calls : users[u] = request[c].email}
       IN  \/ /\ known # {}
              /\ \E i \in known :
                   IF users[i.user] # None THEN Move(c, "commit", i.user)
                                           ELSE Move(c, "failed", None)
           \/ /\ known = {}
              /\ \E u \in named : Move(c, "createIdentity", u)
           \/ /\ known = {} /\ named = {}
              /\ Move(c, IF request[c].kind = "register" THEN "createUser" ELSE "failed", None)
    /\ snapshot' = [snapshot EXCEPT ![c] = IF stage'[c] = "failed" THEN Nothing ELSE Seen(c)]
    /\ UNCHANGED <<db, request>>

\* Mutant: the user is created outside the transaction.
WriteUserAtOnce(c) == users' = [users EXCEPT ![c] = request[c].email]

WriteUser(c) == UNCHANGED users

\* userRepo.create: the first operation of a registration with a password, which
\* tells a duplicate from other errors ("taken"; withTransaction wraps that error,
\* so the caller finds it as the cause of another).
CreateUser(c) ==
    /\ stage[c] = IF request[c].kind = Credentials THEN "begin" ELSE "createUser"
    /\ \/ /\ EmailSeen(c)
          /\ End(c, IF request[c].kind = Credentials THEN "taken" ELSE "failed")
       \/ /\ ~EmailSeen(c) /\ EmailConflict(c)
          /\ Retry(c)
       \/ /\ ~EmailSeen(c) /\ ~EmailConflict(c)
          /\ Move(c, "createIdentity", c)
          /\ snapshot' = [snapshot EXCEPT ![c] = Seen(c)]
          /\ WriteUser(c)
          /\ UNCHANGED <<identities, request>>

\* authRepo.create
CreateIdentity(c) ==
    /\ stage[c] = "createIdentity"
    /\ LET i == IdentityFor(c, account[c]) IN
       \/ IdentitySeen(c, i) /\ End(c, "failed")
       \/ ~IdentitySeen(c, i) /\ IdentityConflict(c, i) /\ Retry(c)
       \/ /\ ~IdentitySeen(c, i) /\ ~IdentityConflict(c, i)
          /\ Move(c, "commit", account[c])
          /\ UNCHANGED <<db, request, snapshot>>

\* The commit; the service may go down, or the connection break, before it has
\* the answer.
Commit(c) ==
    /\ stage[c] = "commit"
    /\ users' = [users EXCEPT ![c] = IF account[c] = c THEN request[c].email ELSE @]
    /\ identities' = identities \union {IdentityFor(c, account[c])}
    /\ Move(c, "ok", account[c]) \/ Move(c, "failed", None)
    /\ snapshot' = [snapshot EXCEPT ![c] = Nothing]
    /\ UNCHANGED request

\* The transaction is lost before its commit: a failover (the driver runs it
\* again), the end of the service or of the connection.
Lose(c) ==
    /\ stage[c] \in Begun
    /\ Retry(c)

Next == \E c \in Calls : Call(c) \/ Find(c) \/ CreateUser(c) \/ CreateIdentity(c)
                           \/ Commit(c) \/ Lose(c)

Spec == Init /\ [][Next]_vars

-----------------------------------------------------------------------------
(* Properties *)

Snapshot == [users: [Calls -> Emails \union {None}], identities: SUBSET Identity]

AccountsTypeOK ==
    /\ users \in [Calls -> Emails \union {None}]
    /\ identities \subseteq Identity
    /\ request \in [Calls -> Requests]
    /\ stage \in [Calls -> {"idle"} \union Begun \union Ends]
    /\ account \in [Calls -> Calls \union {None}]
    /\ snapshot \in [Calls -> Snapshot]

\* Whatever calls run side by side, are run again or die half way: a user always
\* has an identity to log in with and an identity always has its user, no two
\* users have the same e-mail, and no two identities agree on an index
\* (use-case.repository.ts: the two documents are created one after the other).
NoOrphanUsers ==
    /\ \A u \in Calls : users[u] # None => \E i \in identities : i.user = u
    /\ \A i \in identities : users[i.user] # None
    /\ \A u, v \in Calls : users[u] = users[v] /\ users[u] # None => u = v
    /\ \A i, j \in identities : SharesKey(i, j) => i = j

StatusOf(c) == IF stage[c] \in Begun THEN "asked" ELSE stage[c]
AccountOf(c) == IF stage[c] = "ok" THEN account[c] ELSE None

AtomicStore == INSTANCE AccountStore WITH
    status <- [c \in Calls |-> StatusOf(c)],
    account <- [c \in Calls |-> AccountOf(c)]

\* Snapshot reads, duplicate keys, conflicts and retries together make every call
\* of the repository atomic: one that succeeds answers the account that a serial
\* run would have given, and "taken" is only said of a taken e-mail.
AccountStoreSpec == AtomicStore!Spec
=============================================================================

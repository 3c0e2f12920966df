---------------------------- MODULE StoresProofs ----------------------------
(***************************************************************************)
(* Proofs about the stores of the backend: first the accounts, for any     *)
(* number of calls, e-mails and ids (their types, the integrity of the two *)
(* collections, and that the transactions implement the atomic store),     *)
(* then the clients of MongoDB and of Redis, for any number of connections *)
(* and attempts, and last the three side by side, as they are checked.     *)
(*                                                                         *)
(* The invariant of the accounts says what the writes of a transaction     *)
(* under way are worth: a user it has created has an e-mail nobody else    *)
(* has or is about to commit, an identity it has created shares no key     *)
(* with one that is committed or about to be.  The snapshots do not appear *)
(* in it: whatever a call decides on what it has read is checked again by  *)
(* the indexes, or is about documents that are never removed.              *)
(***************************************************************************)
EXTENDS MCStores, TLAPS

Running == {"createIdentity", "commit"}

\* A password identity is named after its user.
OwnName == \A c \in Calls :
    request[c].kind = Credentials => request[c].providerId = c

\* A user is only there once the call that created it is over.
OwnUser == \A c \in Calls : users[c] # None => stage[c] \in Ends

\* Only a registration creates a user.
Registers == \A c \in Calls :
    /\ stage[c] = "createUser" => request[c].kind = "register"
    /\ WroteUser(c) => request[c].kind # "login"

\* A user created in a transaction has an e-mail of its own.
NewEmails == \A c \in Calls : WroteUser(c) =>
    /\ \A u \in Calls : users[u] # request[c].email
    /\ \A d \in Calls \ {c} : WroteUser(d) => request[d].email # request[c].email

\* The account of a transaction: its new user, or one with the e-mail, or the
\* one that its identity belongs to.
Accountable == \A c \in Calls : stage[c] \in Running =>
    /\ account[c] \in Calls
    /\ request[c].kind = Credentials => account[c] = c
    /\ \/ account[c] = c
       \/ users[account[c]] = request[c].email
       \/ /\ stage[c] = "commit" /\ request[c].kind # Credentials
          /\ IdentityFor(c, account[c]) \in identities

Found(c) == IdentityFor(c, account[c]) \in identities

\* An identity about to be committed is there already or shares no key.
NewIdentities == \A c \in Calls : stage[c] = "commit" =>
    /\ Found(c) \/ \A j \in identities : ~SharesKey(IdentityFor(c, account[c]), j)
    /\ Found(c) => request[c].kind # Credentials
    /\ \A d \in Calls \ {c} :
         stage[d] = "commit" /\ SharesKey(IdentityFor(c, account[c]), IdentityFor(d, account[d]))
           => Found(c)

Inv ==
    /\ AccountsTypeOK
    /\ OwnName
    /\ OwnUser
    /\ Registers
    /\ NewEmails
    /\ Accountable
    /\ NewIdentities
    /\ NoOrphanUsers

-----------------------------------------------------------------------------
(* Requests and steps *)

LEMMA RequestFields ==
  ASSUME NEW r \in Requests
  PROVE  /\ r.kind \in {Credentials, "register", "login"}
         /\ r.provider \in {Credentials} \union Providers
         /\ r.providerId \in Calls \union ProviderIds
         /\ r.email \in Emails
         /\ r.email # None
         /\ (r.kind = Credentials) = (r.provider = Credentials)
BY NamesAssumption DEF Requests, CredentialRequests, ProviderRequests, Credentials

LEMMA InitInv == Init => Inv
<1> SUFFICES ASSUME Init PROVE Inv
    OBVIOUS
<1> USE NamesAssumption
<1>1. request \in [Calls -> Requests] /\ OwnName
      BY DEF Init, OwnName
<1>2. AccountsTypeOK
      BY <1>1 DEF Init, Nothing, AccountsTypeOK, Snapshot
<1> QED
    BY <1>1, <1>2
    DEF Inv, Init, Nothing, OwnUser, Registers, WroteUser, NewEmails, Accountable, Running,
        NewIdentities, NoOrphanUsers

\* The calls that do not move keep what they have written.
LEMMA OthersKeep ==
  ASSUME NEW c \in Calls, NEW to, NEW u, AccountsTypeOK, Move(c, to, u), request' = request
  PROVE  /\ stage'[c] = to /\ account'[c] = u
         /\ \A d \in Calls \ {c} : /\ stage'[d] = stage[d]
                                  /\ account'[d] = account[d]
                                  /\ WroteUser(d)' = WroteUser(d)
                                  /\ IdentityFor(d, account[d])' = IdentityFor(d, account[d])
BY DEF AccountsTypeOK, Move, WroteUser, IdentityFor

\* A step that leaves call c without writes keeps the invariant.
LEMMA QuietStep ==
  ASSUME Inv, NEW c \in Calls, NEW to \in {"begin", "createUser"} \union Ends,
         NEW u \in Calls \union {None},
         stage[c] \notin Ends, Move(c, to, u), UNCHANGED <<db, request>>,
         to = "createUser" => request[c].kind = "register",
         snapshot' \in [Calls -> Snapshot]
  PROVE  Inv'
<1> USE DEF db
<1>1. /\ stage'[c] = to
      /\ \A d \in Calls \ {c} : /\ stage'[d] = stage[d]
                               /\ account'[d] = account[d]
                               /\ WroteUser(d)' = WroteUser(d)
                               /\ IdentityFor(d, account[d])' = IdentityFor(d, account[d])
  BY OthersKeep DEF Inv
<1>2. /\ ~WroteUser(c)' /\ stage'[c] \notin Running
  BY <1>1 DEF WroteUser, Ends, Running
<1>3. AccountsTypeOK'
  BY DEF Inv, AccountsTypeOK, Move, Begun, Ends
<1>4. OwnName' /\ NoOrphanUsers'
  BY DEF Inv, OwnName, NoOrphanUsers, SharesKey
<1>5. OwnUser'
  BY <1>1 DEF Inv, OwnUser
<1>6. Registers'
  BY <1>1, <1>2 DEF Inv, Registers
<1>7. NewEmails'
  BY <1>1, <1>2 DEF Inv, NewEmails
<1>8. Accountable'
  BY <1>1, <1>2 DEF Inv, Accountable, Running
<1>9. NewIdentities'
  BY <1>1, <1>2 DEF Inv, NewIdentities, Running, Found
<1> QED
  BY <1>3, <1>4, <1>5, <1>6, <1>7, <1>8, <1>9 DEF Inv

LEMMA EndKeeps ==
  ASSUME Inv, NEW c \in Calls, NEW how \in {"begin"} \union Ends, stage[c] \in Begun, End(c, how)
  PROVE  Inv'
<1>1. snapshot' \in [Calls -> Snapshot]
  BY DEF Inv, AccountsTypeOK, End, Nothing, Snapshot
<1> QED
  BY <1>1, QuietStep, NamesAssumption DEF End, Begun, Ends, db

LEMMA CallKeeps == ASSUME Inv, NEW c \in Calls, Call(c) PROVE Inv'
<1>1. account' = [account EXCEPT ![c] = account[c]] /\ account[c] \in Calls \union {None}
  BY DEF Inv, AccountsTypeOK, Call
<1>2. Move(c, "begin", account[c])
  BY <1>1 DEF Move, Call
<1> QED
  BY <1>1, <1>2, QuietStep DEF Call, Ends, Inv, AccountsTypeOK, db

-----------------------------------------------------------------------------
(* Steps that write, or take over an identity *)

LEMMA FindKeeps == ASSUME Inv, NEW c \in Calls, Find(c) PROVE Inv'
<1> USE DEF db
<1>1. request[c] \in Requests /\ stage[c] = "begin" /\ request[c].kind # Credentials
  BY DEF Inv, AccountsTypeOK, Find
<1>2. snapshot' \in [Calls -> Snapshot]
  BY DEF Inv, AccountsTypeOK, Find, Seen, Nothing, Snapshot
<1>3. UNCHANGED <<db, request>>
  BY DEF Find
<1>4. CASE /\ stage'[c] # "commit" /\ stage'[c] # "createIdentity"
  <2>1. PICK to \in {"createUser", "failed"} :
          Move(c, to, None) /\ (to = "createUser" => request[c].kind = "register")
    BY <1>4 DEF Find, Move, Inv, AccountsTypeOK
  <2>2. /\ to \in {"begin", "createUser"} \union Ends
        /\ stage[c] \notin Ends
    BY <1>1, <2>1 DEF Ends
  <2>4. None \in Calls \union {None}
    OBVIOUS
  <2> QED
    BY <2>1, <2>2, <2>4, <1>2, <1>3, QuietStep
<1>5. CASE stage'[c] = "commit" \/ stage'[c] = "createIdentity"
  <2>1. PICK to \in Running, u \in Calls :
          /\ Move(c, to, u)
          /\ users[u] # None
          /\ \/ to = "createIdentity" /\ users[u] = request[c].email
             \/ to = "commit" /\ IdentityFor(c, u) \in identities
    <3>1. CASE stage'[c] = "commit"
      <4>1. PICK i \in identities : /\ i.provider = request[c].provider
                                    /\ i.providerId = request[c].providerId
                                    /\ users[i.user] # None
                                    /\ Move(c, "commit", i.user)
        BY <3>1 DEF Find, Move, Inv, AccountsTypeOK
      <4>2. i \in Identity
        BY DEF Inv, AccountsTypeOK
      <4>3. i = IdentityFor(c, i.user) /\ i.user \in Calls
        BY <4>1, <4>2 DEF Identity, IdentityFor
      <4> QED
        BY <4>1, <4>3 DEF Running
    <3>2. CASE stage'[c] = "createIdentity"
      BY <3>2, <1>1, RequestFields DEF Find, Move, Inv, AccountsTypeOK, Running
    <3> QED
      BY <1>5, <3>1, <3>2
  <2>2. u # c
    BY <2>1, <1>1 DEF Inv, OwnUser, Ends
  <2>3. /\ stage'[c] = to /\ account'[c] = u
        /\ \A d \in Calls \ {c} : /\ stage'[d] = stage[d]
                                 /\ account'[d] = account[d]
                                 /\ WroteUser(d)' = WroteUser(d)
                                 /\ IdentityFor(d, account[d])' = IdentityFor(d, account[d])
    BY <2>1, <1>3, OthersKeep DEF Inv
  <2>4. ~WroteUser(c)' /\ IdentityFor(c, account[c])' = IdentityFor(c, u)
    BY <2>2, <2>3, <1>3 DEF WroteUser, IdentityFor
  <2>5. AccountsTypeOK'
    BY <1>2, <1>3, <2>1 DEF Inv, AccountsTypeOK, Move, Begun, Running
  <2>6. OwnName' /\ NoOrphanUsers'
    BY <1>3 DEF Inv, OwnName, NoOrphanUsers, SharesKey
  <2>7. OwnUser'
    BY <1>3, <1>1, <2>3 DEF Inv, OwnUser, Ends
  <2>8. Registers'
    BY <1>3, <2>3, <2>4, <2>1 DEF Inv, Registers, Running
  <2>9. NewEmails'
    BY <1>3, <2>3, <2>4 DEF Inv, NewEmails
  <2>10. Accountable'
    BY <1>1, <1>3, <2>1, <2>3, <2>4 DEF Inv, Accountable, Running
  <2>11. NewIdentities'
    <3>1. ASSUME NEW d \in Calls \ {c}, stage[d] = "commit"
          PROVE  Found(d)' = Found(d)
      BY <1>3, <2>3 DEF Found
    <3>2. stage'[c] = "commit" => Found(c)'
      BY <1>3, <2>1, <2>3, <2>4 DEF Found, Running
    <3>3. ASSUME NEW d \in Calls \ {c}, stage'[d] = "commit", stage'[c] = "commit",
                 SharesKey(IdentityFor(d, account[d]), IdentityFor(c, u))
          PROVE  Found(d)
      BY <3>3, <2>1, <2>3 DEF Inv, NewIdentities, Running
    <3> QED
      BY <1>1, <1>3, <2>3, <2>4, <3>1, <3>2, <3>3 DEF Inv, NewIdentities
  <2> QED
    BY <2>5, <2>6, <2>7, <2>8, <2>9, <2>10, <2>11 DEF Inv
<1> QED
  BY <1>4, <1>5

LEMMA CreateUserKeeps == ASSUME Inv, NEW c \in Calls, CreateUser(c) PROVE Inv'
<1> USE DEF db
<1>1. request[c] \in Requests /\ stage[c] \in {"begin", "createUser"}
  BY DEF Inv, AccountsTypeOK, CreateUser
<1>2. CASE \E how \in {"begin"} \union Ends : End(c, how)
  BY <1>1, <1>2, EndKeeps DEF Begun
<1>3. CASE /\ ~EmailConflict(c)
           /\ Move(c, "createIdentity", c)
           /\ snapshot' = [snapshot EXCEPT ![c] = Seen(c)]
           /\ UNCHANGED <<db, request>>
  <2>1. snapshot' \in [Calls -> Snapshot]
    BY <1>3 DEF Inv, AccountsTypeOK, Seen, Snapshot
  <2>2. /\ stage'[c] = "createIdentity" /\ account'[c] = c
        /\ \A d \in Calls \ {c} : /\ stage'[d] = stage[d]
                                 /\ account'[d] = account[d]
                                 /\ WroteUser(d)' = WroteUser(d)
                                 /\ IdentityFor(d, account[d])' = IdentityFor(d, account[d])
    BY <1>3, OthersKeep DEF Inv
  <2>3. request[c].kind # "login"
    BY <1>1, RequestFields DEF CreateUser, Inv, Registers, Credentials
  <2>4. AccountsTypeOK'
    BY <1>3, <2>1 DEF Inv, AccountsTypeOK, Move, Begun
  <2>5. OwnName' /\ NoOrphanUsers'
    BY <1>3 DEF Inv, OwnName, NoOrphanUsers, SharesKey
  <2>6. OwnUser'
    BY <1>1, <1>3, <2>2 DEF Inv, OwnUser, Ends
  <2>7. Registers'
    BY <1>3, <2>2, <2>3 DEF Inv, Registers
  <2>8. NewEmails'
    BY <1>3, <2>2 DEF Inv, NewEmails, EmailConflict
  <2>9. Accountable'
    BY <1>3, <2>2 DEF Inv, Accountable, Running
  <2>10. NewIdentities'
    <3>1. \A d \in Calls \ {c} : Found(d)' = Found(d)
      BY <1>3, <2>2 DEF Found
    <3> QED
      BY <1>3, <2>2, <3>1 DEF Inv, NewIdentities
  <2> QED
    BY <2>4, <2>5, <2>6, <2>7, <2>8, <2>9, <2>10 DEF Inv
<1> QED
  BY <1>2, <1>3 DEF CreateUser, Retry, WriteUser, Ends

LEMMA CreateIdentityKeeps == ASSUME Inv, NEW c \in Calls, CreateIdentity(c) PROVE Inv'
<1> USE DEF db
<1>1. stage[c] = "createIdentity" /\ account[c] \in Calls
  BY DEF CreateIdentity, Inv, Accountable, Running
<1>2. CASE \E how \in {"begin"} \union Ends : End(c, how)
  BY <1>1, <1>2, EndKeeps DEF Begun
<1>3. CASE /\ ~IdentityConflict(c, IdentityFor(c, account[c]))
           /\ Move(c, "commit", account[c])
           /\ UNCHANGED <<db, request, snapshot>>
  <2>1. /\ stage'[c] = "commit" /\ account'[c] = account[c]
        /\ \A d \in Calls \ {c} : /\ stage'[d] = stage[d]
                                 /\ account'[d] = account[d]
                                 /\ WroteUser(d)' = WroteUser(d)
                                 /\ IdentityFor(d, account[d])' = IdentityFor(d, account[d])
    BY <1>3, OthersKeep DEF Inv
  <2>2. WroteUser(c)' = WroteUser(c)
        /\ IdentityFor(c, account[c])' = IdentityFor(c, account[c])
    BY <1>1, <1>3, <2>1 DEF WroteUser, IdentityFor
  <2>3. AccountsTypeOK'
    BY <1>1, <1>3 DEF Inv, AccountsTypeOK, Move, Begun
  <2>4. OwnName' /\ NoOrphanUsers'
    BY <1>3 DEF Inv, OwnName, NoOrphanUsers, SharesKey
  <2>5. OwnUser'
    BY <1>1, <1>3, <2>1 DEF Inv, OwnUser, Ends
  <2>6. Registers'
    BY <1>3, <2>1, <2>2 DEF Inv, Registers
  <2>7. NewEmails'
    BY <1>3, <2>1, <2>2 DEF Inv, NewEmails
  <2>8. Accountable'
    BY <1>1, <1>3, <2>1, <2>2 DEF Inv, Accountable, Running
  <2>9. NewIdentities'
    <3>1. \A d \in Calls : Found(d)' = Found(d)
      BY <1>3, <2>1, <2>2 DEF Found
    <3>2. /\ \A j \in identities : ~SharesKey(IdentityFor(c, account[c]), j)
          /\ \A d \in Calls \ {c} : stage[d] = "commit" =>
                ~SharesKey(IdentityFor(c, account[c]), IdentityFor(d, account[d]))
      BY <1>3 DEF IdentityConflict, HasIdentity
    <3>3. \A i, j : SharesKey(i, j) => SharesKey(j, i)
      BY DEF SharesKey
    <3>4. ~Found(c)
      BY <3>2 DEF Found, SharesKey
    <3> QED
      BY <1>3, <2>1, <2>2, <3>1, <3>2, <3>3, <3>4 DEF Inv, NewIdentities
  <2> QED
    BY <2>3, <2>4, <2>5, <2>6, <2>7, <2>8, <2>9 DEF Inv
<1> QED
  BY <1>2, <1>3 DEF CreateIdentity, Retry, Ends

LEMMA CommitKeeps == ASSUME Inv, NEW c \in Calls, Commit(c) PROVE Inv'
<1> DEFINE u == account[c]
           i == IdentityFor(c, u)
<1>1. /\ stage[c] = "commit" /\ u \in Calls /\ request[c] \in Requests
      /\ request' = request
  BY DEF Commit, Inv, Accountable, Running, AccountsTypeOK
<1>2. PICK to \in {"ok", "failed"}, v \in {u, None} : Move(c, to, v)
  BY DEF Commit
<1>3. /\ stage'[c] = to /\ account'[c] = v
      /\ \A d \in Calls \ {c} : /\ stage'[d] = stage[d]
                               /\ account'[d] = account[d]
                               /\ WroteUser(d)' = WroteUser(d)
                               /\ IdentityFor(d, account[d])' = IdentityFor(d, account[d])
  BY <1>1, <1>2, OthersKeep DEF Inv
<1>4. ~WroteUser(c)' /\ stage'[c] \notin Running /\ stage'[c] # "createUser"
  BY <1>3 DEF WroteUser, Running
<1>5. i \in Identity /\ i.user = u
  BY <1>1, RequestFields DEF IdentityFor, Identity
<1>6. users[c] = None /\ request[c].email \in Emails
  BY <1>1, RequestFields DEF Inv, OwnUser, Ends
<1>7. /\ users' \in [Calls -> Emails \union {None}]
      /\ \A d \in Calls : users'[d] = IF d = c /\ u = c THEN request[c].email ELSE users[d]
  BY <1>6 DEF Commit, Inv, AccountsTypeOK
<1>8. identities' = identities \union {i}
  BY DEF Commit
<1>9. u = c => WroteUser(c)
  BY <1>1 DEF WroteUser
<1>10. snapshot' \in [Calls -> Snapshot]
  BY DEF Commit, Inv, AccountsTypeOK, Nothing, Snapshot
<1>11. AccountsTypeOK'
  BY <1>1, <1>2, <1>5, <1>7, <1>8, <1>10 DEF Inv, AccountsTypeOK, Move, Ends
<1>12. OwnName'
  BY <1>1 DEF Inv, OwnName
<1>13. OwnUser'
  BY <1>3, <1>7 DEF Inv, OwnUser, Ends
<1>14. Registers'
  BY <1>1, <1>3, <1>4 DEF Inv, Registers
<1>15. NewEmails'
  BY <1>1, <1>3, <1>4, <1>7, <1>9 DEF Inv, NewEmails
<1>16. Accountable'
  <2> SUFFICES ASSUME NEW d \in Calls, stage'[d] \in Running
               PROVE  /\ account'[d] \in Calls
                      /\ request[d].kind = Credentials => account'[d] = d
                      /\ \/ account'[d] = d
                         \/ users'[account'[d]] = request[d].email
                         \/ /\ stage'[d] = "commit" /\ request[d].kind # Credentials
                            /\ IdentityFor(d, account[d])' \in identities'
    BY <1>1 DEF Accountable
  <2>1. d # c
    BY <1>4
  <2>2. stage[d] \in Running /\ account'[d] = account[d] /\ stage'[d] = stage[d]
        /\ IdentityFor(d, account[d])' = IdentityFor(d, account[d])
    BY <1>3, <2>1
  <2>3. request[d].email # None
    BY RequestFields DEF Inv, AccountsTypeOK
  <2> QED
    BY <1>6, <1>7, <1>8, <2>2, <2>3 DEF Inv, Accountable
<1>17. NewIdentities'
  <2>1. ASSUME NEW d \in Calls \ {c}, stage[d] = "commit"
        PROVE  /\ Found(d) => Found(d)'
               /\ Found(d)' => Found(d) \/ IdentityFor(d, account[d]) = i
    BY <1>3, <1>8 DEF Found
  <2>2. ASSUME NEW d \in Calls \ {c}, stage[d] = "commit",
               SharesKey(IdentityFor(d, account[d]), i)
        PROVE  Found(d)
    BY <1>1, <2>2 DEF Inv, NewIdentities
  <2>3. SharesKey(i, i)
    BY DEF SharesKey
  <2> QED
    BY <1>1, <1>3, <1>4, <1>8, <2>1, <2>2, <2>3 DEF Inv, NewIdentities, Running
<1>18. NoOrphanUsers'
  <2>1. \A j \in identities : j.user \in Calls
    BY DEF Inv, AccountsTypeOK, Identity
  <2>2. users[u] # None \/ u = c
    <3>1. CASE i \in identities
      BY <1>5, <3>1 DEF Inv, NoOrphanUsers
    <3>2. CASE i \notin identities
      BY <1>1, <1>6, <3>2, NamesAssumption DEF Inv, Accountable, Running
    <3> QED
      BY <3>1, <3>2
  <2>3. users'[u] # None
    BY <1>1, <1>6, <1>7, <2>2, NamesAssumption
  <2>4. \A d \in Calls : users'[d] # None => \E j \in identities' : j.user = d
    BY <1>1, <1>5, <1>7, <1>8 DEF Inv, NoOrphanUsers
  <2>5. \A j \in identities' : users'[j.user] # None
    BY <1>5, <1>6, <1>7, <1>8, <2>1, <2>3, NamesAssumption DEF Inv, NoOrphanUsers
  <2>6. \A d, e \in Calls : users'[d] = users'[e] /\ users'[d] # None => d = e
    BY <1>7, <1>9 DEF Inv, NoOrphanUsers, NewEmails
  <2>7. \A j, k \in identities' : SharesKey(j, k) => j = k
    <3>1. i \in identities \/ \A j \in identities : ~SharesKey(i, j)
      BY <1>1 DEF Inv, NewIdentities, Found
    <3>2. \A j, k : SharesKey(j, k) => SharesKey(k, j)
      BY DEF SharesKey
    <3> HIDE DEF i
    <3> QED
      BY <1>8, <3>1, <3>2 DEF Inv, NoOrphanUsers
  <2> QED
    BY <2>4, <2>5, <2>6, <2>7 DEF NoOrphanUsers, SharesKey
<1> QED
  BY <1>11, <1>12, <1>13, <1>14, <1>15, <1>16, <1>17, <1>18 DEF Inv

LEMMA NextInv == ASSUME Inv, [Next]_vars PROVE Inv'
<1>1. CASE UNCHANGED vars
  BY <1>1
  DEF vars, db, Inv, AccountsTypeOK, OwnName, OwnUser, Registers, WroteUser, NewEmails,
      Accountable, IdentityFor, NewIdentities, Found, NoOrphanUsers, SharesKey
<1>2. ASSUME NEW c \in Calls, Lose(c) PROVE Inv'
  BY <1>2, EndKeeps DEF Lose, Retry, Ends
<1> QED
  BY <1>1, <1>2, CallKeeps, FindKeeps, CreateUserKeeps, CreateIdentityKeeps, CommitKeeps DEF Next

-----------------------------------------------------------------------------
(* The theorems *)

\* Every variable always holds a value of its kind.
THEOREM TypeCorrect == Spec => []AccountsTypeOK
<1>1. Inv => AccountsTypeOK
  BY DEF Inv
<1> QED
  BY <1>1, InitInv, NextInv, PTL DEF Spec

\* No interleaving, retry or crash of any number of calls leaves a user without an
\* identity or an identity without its user, or breaks an index.
THEOREM CollectionsAreWhole == Spec => []NoOrphanUsers
<1>1. Inv => NoOrphanUsers
  BY DEF Inv
<1> QED
  BY <1>1, InitInv, NextInv, PTL DEF Spec

-----------------------------------------------------------------------------
(* The transactions implement the atomic store *)

barStatus == [c \in Calls |-> StatusOf(c)]
barAccount == [c \in Calls |-> AccountOf(c)]

\* What a step of one transaction looks like from outside.
LEMMA MoveSeen ==
  ASSUME NEW c \in Calls, NEW to, NEW u, AccountsTypeOK, Move(c, to, u), stage[c] \in Begun
  PROVE  /\ barStatus[c] = "asked"
         /\ barStatus' = [barStatus EXCEPT ![c] = IF to \in Begun THEN "asked" ELSE to]
         /\ to = "ok" => barAccount' = [barAccount EXCEPT ![c] = u]
         /\ to # "ok" => barAccount' = barAccount
<1>1. /\ stage'[c] = to /\ account'[c] = u
      /\ \A d \in Calls \ {c} : stage'[d] = stage[d] /\ account'[d] = account[d]
  BY DEF AccountsTypeOK, Move
<1>2. stage[c] # "ok"
  BY DEF Begun
<1> QED
  BY <1>1, <1>2 DEF barStatus, barAccount, StatusOf, AccountOf

\* A transaction that goes on, or begins again, is not seen.
LEMMA GoesOn ==
  ASSUME NEW c \in Calls, NEW to \in Begun, NEW u, AccountsTypeOK, Move(c, to, u),
         stage[c] \in Begun, UNCHANGED <<db, request>>
  PROVE  UNCHANGED AtomicStore!vars
<1>1. barStatus' = barStatus /\ barAccount' = barAccount
  <2>1. to # "ok"
    BY DEF Begun
  <2> QED
    BY <2>1, MoveSeen DEF barStatus
<1> QED
  BY <1>1 DEF AtomicStore!vars, barStatus, barAccount, db

\* One that fails is a call that fails.
LEMMA GivesUp ==
  ASSUME NEW c \in Calls, NEW u, AccountsTypeOK, Move(c, "failed", u),
         stage[c] \in Begun, UNCHANGED <<db, request>>
  PROVE  AtomicStore!Next
<1>1. /\ barStatus[c] = "asked"
      /\ barStatus' = [barStatus EXCEPT ![c] = "failed"]
      /\ barAccount' = barAccount
  BY MoveSeen DEF Begun
<1>2. AtomicStore!Fail(c)
  BY <1>1 DEF AtomicStore!Fail, barStatus, barAccount, db
<1> QED
  BY <1>1, <1>2 DEF AtomicStore!Next, AtomicStore!Settle, barStatus, db

LEMMA RetrySeen ==
  ASSUME NEW c \in Calls, AccountsTypeOK, Retry(c), stage[c] \in Begun
  PROVE  AtomicStore!Next \/ UNCHANGED AtomicStore!vars
<1>1. "begin" \in Begun
  BY DEF Begun
<1> QED
  BY <1>1, GoesOn, GivesUp DEF Retry, End

LEMMA CallSeen ==
  ASSUME NEW c \in Calls, AccountsTypeOK, Call(c)
  PROVE  AtomicStore!Next
<1>1. AtomicStore!Ask(c)
  BY DEF Call, AccountsTypeOK, AtomicStore!Ask, StatusOf, AccountOf, Begun, db
<1> QED
  BY <1>1 DEF AtomicStore!Next

LEMMA FindSeen ==
  ASSUME NEW c \in Calls, Inv, Find(c)
  PROVE  AtomicStore!Next \/ UNCHANGED AtomicStore!vars
<1>1. /\ AccountsTypeOK /\ stage[c] \in Begun /\ UNCHANGED <<db, request>>
  BY DEF Inv, Find, Begun
<1>2. PICK to \in {"commit", "failed", "createIdentity", "createUser"},
            u \in Calls \union {None} : Move(c, to, u)
  BY <1>1 DEF Find, AccountsTypeOK, Identity
<1>3. CASE to = "failed"
  BY <1>1, <1>2, <1>3, GivesUp
<1>4. CASE to \in Begun
  BY <1>1, <1>2, <1>4, GoesOn
<1> QED
  BY <1>3, <1>4 DEF Begun

LEMMA CreateUserSeen ==
  ASSUME NEW c \in Calls, Inv, CreateUser(c)
  PROVE  AtomicStore!Next \/ UNCHANGED AtomicStore!vars
<1>1. AccountsTypeOK /\ stage[c] \in Begun
  BY DEF Inv, CreateUser, Begun
<1>2. CASE EmailSeen(c) /\ End(c, "taken") /\ request[c].kind = Credentials
  <2>1. \E u \in Calls : users[u] = request[c].email
    BY <1>2 DEF CreateUser, EmailSeen, Seen
  <2>2. /\ barStatus[c] = "asked"
        /\ barStatus' = [barStatus EXCEPT ![c] = "taken"]
        /\ barAccount' = barAccount
    BY <1>1, <1>2, MoveSeen DEF End, Begun
  <2>3. UNCHANGED <<users, identities, request>>
    BY <1>2 DEF End, db
  <2>4. AtomicStore!Taken(c)
    BY <1>2, <2>1, <2>2, <2>3
    DEF AtomicStore!Taken, AtomicStore!HasEmail, Credentials, barStatus, barAccount
  <2> QED
    BY <2>2, <2>3, <2>4 DEF AtomicStore!Next, AtomicStore!Settle, barStatus
<1>3. CASE End(c, "failed")
  BY <1>1, <1>3, GivesUp DEF End
<1>4. CASE Retry(c)
  BY <1>1, <1>4, RetrySeen
<1>5. CASE Move(c, "createIdentity", c) /\ UNCHANGED <<db, request>>
  <2>1. "createIdentity" \in Begun
    BY DEF Begun
  <2> QED
    BY <1>1, <1>5, <2>1, GoesOn
<1> QED
  BY <1>2, <1>3, <1>4, <1>5 DEF CreateUser, WriteUser, db

LEMMA CreateIdentitySeen ==
  ASSUME NEW c \in Calls, Inv, CreateIdentity(c)
  PROVE  AtomicStore!Next \/ UNCHANGED AtomicStore!vars
<1>1. AccountsTypeOK /\ stage[c] \in Begun
  BY DEF Inv, CreateIdentity, Begun
<1>2. CASE End(c, "failed")
  BY <1>1, <1>2, GivesUp DEF End
<1>3. CASE Retry(c)
  BY <1>1, <1>3, RetrySeen
<1>4. CASE Move(c, "commit", account[c]) /\ UNCHANGED <<db, request, snapshot>>
  <2>1. "commit" \in Begun
    BY DEF Begun
  <2> QED
    BY <1>1, <1>4, <2>1, GoesOn
<1> QED
  BY <1>2, <1>3, <1>4 DEF CreateIdentity

\* The commit is where a call takes effect.
LEMMA CommitSeen ==
  ASSUME NEW c \in Calls, Inv, Commit(c)
  PROVE  AtomicStore!Next
<1> DEFINE u == account[c]
           i == IdentityFor(c, u)
<1>1. /\ AccountsTypeOK /\ stage[c] = "commit" /\ stage[c] \in Begun
      /\ u \in Calls /\ request' = request
  BY DEF Inv, Commit, Begun, Accountable, Running
<1>2. /\ barStatus[c] = "asked"
      /\ \/ /\ barStatus' = [barStatus EXCEPT ![c] = "ok"]
            /\ barAccount' = [barAccount EXCEPT ![c] = u]
         \/ /\ barStatus' = [barStatus EXCEPT ![c] = "failed"]
            /\ barAccount' = barAccount
  BY <1>1, MoveSeen DEF Commit, Begun
<1>3. AtomicStore!Answer(c, u)
  BY <1>2 DEF AtomicStore!Answer, barStatus, barAccount
<1>4. /\ users' = [users EXCEPT ![c] = IF u = c THEN request[c].email ELSE @]
      /\ identities' = identities \union {i}
  BY DEF Commit
<1>5. u # c => users' = users
  BY <1>1, <1>4 DEF AccountsTypeOK
<1>6. users[c] = None
  BY <1>1 DEF Inv, OwnUser, Ends
<1>7. /\ i.user = u /\ i.provider = request[c].provider /\ i.providerId = request[c].providerId
  BY DEF IdentityFor
<1>8. CASE i \in identities
  <2>1. u # c
    BY <1>6, <1>7, <1>8 DEF Inv, NoOrphanUsers
  <2>2. request[c].kind # "credentials"
    BY <1>1, <1>8 DEF Inv, NewIdentities, Found, Credentials
  <2>3. identities' = identities
    BY <1>4, <1>8
  <2> HIDE DEF i
  <2>4. AtomicStore!Recognise(c)
    BY <1>3, <1>5, <1>7, <1>8, <2>1, <2>2, <2>3
    DEF AtomicStore!Recognise, AtomicStore!SameLogin
  <2> QED
    BY <1>1, <1>2, <2>4 DEF AtomicStore!Next, AtomicStore!Settle, barStatus
<1>9. CASE i \notin identities
  <2>1. \A j \in identities : ~SharesKey(i, j)
    BY <1>1, <1>9 DEF Inv, NewIdentities, Found
  <2>2. \A j \in identities : /\ ~AtomicStore!SameLogin(j, c)
                              /\ ~(j.user = u /\ j.provider = request[c].provider)
    BY <1>7, <2>1 DEF SharesKey, AtomicStore!SameLogin
  <2>3. AtomicStore!Link(c, u)
    BY <1>4 DEF AtomicStore!Link, IdentityFor
  <2>4. CASE u = c
    <3>1. WroteUser(c)
      BY <1>1, <2>4 DEF WroteUser
    <3>2. request[c].kind # "login" /\ \A v \in Calls : users[v] # request[c].email
      BY <3>1 DEF Inv, Registers, NewEmails
    <3>3. AtomicStore!Create(c)
      BY <1>3, <1>4, <2>2, <2>3, <2>4, <3>2
      DEF AtomicStore!Create, AtomicStore!HasEmail
    <3> QED
      BY <1>1, <1>2, <3>3 DEF AtomicStore!Next, AtomicStore!Settle, barStatus
  <2>5. CASE u # c
    <3>1. users[u] = request[c].email /\ request[c].kind # "credentials"
      BY <1>1, <1>9, <2>5 DEF Inv, Accountable, Running, Credentials
    <3>2. AtomicStore!LinkToUser(c)
      BY <1>1, <1>3, <1>5, <2>2, <2>3, <2>5, <3>1
      DEF AtomicStore!LinkToUser, AtomicStore!HasEmail
    <3> QED
      BY <1>1, <1>2, <3>2 DEF AtomicStore!Next, AtomicStore!Settle, barStatus
  <2> QED
    BY <2>4, <2>5
<1> QED
  BY <1>8, <1>9

LEMMA NextSeen ==
  ASSUME Inv, [Next]_vars
  PROVE  AtomicStore!Next \/ UNCHANGED AtomicStore!vars
<1>1. CASE UNCHANGED vars
  BY <1>1 DEF vars, db, AtomicStore!vars, StatusOf, AccountOf
<1>2. ASSUME NEW c \in Calls, Lose(c)
      PROVE  AtomicStore!Next \/ UNCHANGED AtomicStore!vars
  BY <1>2, RetrySeen DEF Lose, Inv
<1>3. AccountsTypeOK
  BY DEF Inv
<1> QED
  BY <1>1, <1>2, <1>3, CallSeen, FindSeen, CreateUserSeen, CreateIdentitySeen, CommitSeen DEF Next

LEMMA InitSeen == Init => AtomicStore!Init
<1> SUFFICES ASSUME Init PROVE AtomicStore!Init
  OBVIOUS
<1> QED
  BY DEF Init, Nothing, AtomicStore!Init, StatusOf, AccountOf, Begun

\* The transactions implement the atomic store: every call that succeeds takes
\* effect at its commit, as in a serial run, whatever the other calls do.
THEOREM CallsAreAtomic == Spec => AccountStoreSpec
<1>1. Inv /\ [Next]_vars => [AtomicStore!Next]_AtomicStore!vars
  BY NextSeen
<1> QED
  BY <1>1, InitInv, NextInv, InitSeen, PTL DEF Spec, AccountStoreSpec, AtomicStore!Spec

-----------------------------------------------------------------------------
(* The client of MongoDB *)

\* The connection that is stored while another is attempted has been lost, what
\* is being closed is what is stored, unless a connect and a disconnect overlapped.
MongoInv ==
    /\ Mongo!MongoTypeOK
    /\ Mongo!ConnectionsAccounted
    /\ connecting = "waiting" => attempt < RetryAttempts
    /\ \A k \in Mongo!Connections : link[k] = "disconnected" => k \in lostOnce
    /\ \A k \in Mongo!Connections : k \in closing => link[k] = "disconnecting"
    /\ connection # 0 => link[connection] \notin {"none", "opening"}
    /\ connecting # "none" /\ connection # 0 /\ Mongo!Open(connection) =>
         connection \in lostOnce \/ overlap
    /\ connecting # "none" /\ closing # {} => overlap
    /\ \A k \in closing : k = connection \/ overlap

LEMMA MongoInit == Mongo!Init => MongoInv
<1> SUFFICES ASSUME Mongo!Init PROVE MongoInv
  OBVIOUS
<1> USE DEF Mongo!Init
<1>1. Mongo!MongoTypeOK
  <2>1. attempt \in 0..RetryAttempts
    BY ClientsAssumption
  <2> QED
    BY <2>1 DEF Mongo!MongoTypeOK, Mongo!Links
<1>2. \A k \in Mongo!Connections : link[k] = "none"
  OBVIOUS
<1>3. Mongo!ConnectionsAccounted
  BY <1>2 DEF Mongo!ConnectionsAccounted, Mongo!Open
<1> QED
  BY <1>1, <1>2, <1>3 DEF MongoInv

LEMMA CreatedLink ==
  ASSUME MongoInv, Mongo!Create
  PROVE  \E k \in Mongo!Connections :
           /\ link[k] = "none" /\ link'[k] = "opening"
           /\ \A j \in Mongo!Connections \ {k} : link'[j] = link[j]
           /\ link' \in [Mongo!Connections -> Mongo!Links]
BY DEF MongoInv, Mongo!MongoTypeOK, Mongo!Create, Mongo!Links

LEMMA MongoConnect == ASSUME MongoInv, Mongo!Connect PROVE MongoInv'
<1>1. PICK k \in Mongo!Connections :
           /\ link[k] = "none" /\ link'[k] = "opening"
           /\ \A j \in Mongo!Connections \ {k} : link'[j] = link[j]
           /\ link' \in [Mongo!Connections -> Mongo!Links]
  BY CreatedLink DEF Mongo!Connect
<1>2. /\ connecting = "none" /\ connecting' = "opening" /\ attempt' = 1
      /\ connection # 0 => link[connection] # "connected"
      /\ overlap' = (overlap \/ closing # {})
      /\ UNCHANGED <<connection, closing, lostOnce>>
  BY DEF Mongo!Connect, Mongo!MayConnect, Mongo!Usable
<1>3. connection \in {0} \union Mongo!Connections /\ closing \subseteq Mongo!Connections
  BY DEF MongoInv, Mongo!MongoTypeOK
<1>4. Mongo!MongoTypeOK'
  BY <1>1, <1>2, ClientsAssumption DEF MongoInv, Mongo!MongoTypeOK
<1>5. Mongo!ConnectionsAccounted'
  BY <1>1, <1>2, <1>3 DEF MongoInv, Mongo!ConnectionsAccounted, Mongo!Open
<1> QED
  BY <1>1, <1>2, <1>3, <1>4, <1>5 DEF MongoInv, Mongo!Open

LEMMA MongoTryAgain == ASSUME MongoInv, Mongo!TryAgain PROVE MongoInv'
<1>1. PICK k \in Mongo!Connections :
           /\ link[k] = "none" /\ link'[k] = "opening"
           /\ \A j \in Mongo!Connections \ {k} : link'[j] = link[j]
           /\ link' \in [Mongo!Connections -> Mongo!Links]
  BY CreatedLink DEF Mongo!TryAgain
<1>2. /\ connecting = "waiting" /\ connecting' = "opening" /\ attempt' = attempt + 1
      /\ UNCHANGED <<connection, closing, lostOnce, overlap>>
  BY DEF Mongo!TryAgain
<1>3. connection \in {0} \union Mongo!Connections /\ closing \subseteq Mongo!Connections
  BY DEF MongoInv, Mongo!MongoTypeOK
<1>4. Mongo!MongoTypeOK'
  BY <1>1, <1>2, ClientsAssumption DEF MongoInv, Mongo!MongoTypeOK
<1>5. Mongo!ConnectionsAccounted'
  BY <1>1, <1>2, <1>3 DEF MongoInv, Mongo!ConnectionsAccounted, Mongo!Open
<1> QED
  BY <1>1, <1>2, <1>3, <1>4, <1>5 DEF MongoInv, Mongo!Open

LEMMA MongoSucceed ==
  ASSUME MongoInv, NEW k \in Mongo!Connections, Mongo!Succeed(k) PROVE MongoInv'
<1>1. /\ link[k] = "opening" /\ link'[k] = "connected" /\ connection' = k
      /\ connecting = "opening" /\ connecting' = "none" /\ k # 0
      /\ \A j \in Mongo!Connections \ {k} : link'[j] = link[j] /\ link[j] # "opening"
      /\ link' \in [Mongo!Connections -> Mongo!Links]
      /\ UNCHANGED <<attempt, closing, lostOnce, overlap>>
  BY DEF Mongo!Succeed, MongoInv, Mongo!MongoTypeOK, Mongo!ConnectionsAccounted, Mongo!Links,
         Mongo!Connections
<1>2. connection \in {0} \union Mongo!Connections /\ closing \subseteq Mongo!Connections
  BY DEF MongoInv, Mongo!MongoTypeOK
<1>3. Mongo!MongoTypeOK'
  BY <1>1 DEF MongoInv, Mongo!MongoTypeOK
<1>4. Mongo!ConnectionsAccounted'
  <2>1. \A j \in Mongo!Connections : link'[j] # "opening"
    BY <1>1
  <2>2. ASSUME NEW j \in Mongo!Connections, j # k, Mongo!Open(j)
        PROVE  j \in lostOnce \/ overlap
    BY <1>1, <1>2, <2>2 DEF MongoInv, Mongo!ConnectionsAccounted, Mongo!Connections
  <2>3. \A j \in Mongo!Connections : j # k => (Mongo!Open(j)' => Mongo!Open(j))
    BY <1>1 DEF Mongo!Open
  <2> QED
    BY <1>1, <2>1, <2>2, <2>3 DEF Mongo!ConnectionsAccounted
<1> QED
  BY <1>1, <1>2, <1>3, <1>4 DEF MongoInv, Mongo!Open

LEMMA MongoFail ==
  ASSUME MongoInv, NEW k \in Mongo!Connections, Mongo!Fail(k) PROVE MongoInv'
<1>1. /\ link[k] = "opening" /\ link'[k] = "closed" /\ connecting = "opening"
      /\ \/ connecting' = "waiting" /\ attempt < RetryAttempts
         \/ connecting' = "none"
      /\ \A j \in Mongo!Connections \ {k} : link'[j] = link[j] /\ link[j] # "opening"
      /\ link' \in [Mongo!Connections -> Mongo!Links]
      /\ UNCHANGED <<connection, attempt, closing, lostOnce, overlap>>
  BY DEF Mongo!Fail, Mongo!MoreAttempts, MongoInv, Mongo!MongoTypeOK,
         Mongo!ConnectionsAccounted, Mongo!Links
<1>2. connection \in {0} \union Mongo!Connections /\ closing \subseteq Mongo!Connections
  BY DEF MongoInv, Mongo!MongoTypeOK
<1>3. Mongo!MongoTypeOK'
  BY <1>1 DEF MongoInv, Mongo!MongoTypeOK
<1>4. Mongo!ConnectionsAccounted'
  <2>1. \A j \in Mongo!Connections : link'[j] # "opening" /\ (Mongo!Open(j)' => Mongo!Open(j))
    BY <1>1 DEF Mongo!Open
  <2>2. connection # 0 => link'[connection] # "closed"
    BY <1>1, <1>2 DEF MongoInv, Mongo!ConnectionsAccounted
  <2>3. \A j \in Mongo!Connections : Mongo!Open(j)' /\ j # connection => j \in lostOnce \/ overlap
    BY <2>1 DEF MongoInv, Mongo!ConnectionsAccounted
  <2>4. connecting' # "opening" /\ UNCHANGED <<connection, lostOnce, overlap>>
    BY <1>1
  <2> QED
    BY <2>1, <2>2, <2>3, <2>4 DEF Mongo!ConnectionsAccounted
<1> QED
  BY <1>1, <1>2, <1>3, <1>4 DEF MongoInv, Mongo!Open

LEMMA MongoServer ==
  ASSUME MongoInv, NEW k \in Mongo!Connections, Mongo!LoseServer(k) \/ Mongo!FindServer(k)
  PROVE  MongoInv'
<1>1. /\ Mongo!Open(k) /\ k \in lostOnce'
      /\ link'[k] \in {"connected", "disconnected"}
      /\ \A j \in Mongo!Connections \ {k} : link'[j] = link[j]
      /\ link' \in [Mongo!Connections -> Mongo!Links]
      /\ lostOnce \subseteq lostOnce' /\ lostOnce' \subseteq lostOnce \union {k}
      /\ UNCHANGED <<connection, connecting, attempt, closing, overlap>>
  BY DEF Mongo!LoseServer, Mongo!FindServer, MongoInv, Mongo!MongoTypeOK, Mongo!Links, Mongo!Open
<1>2. connection \in {0} \union Mongo!Connections /\ closing \subseteq Mongo!Connections
  BY DEF MongoInv, Mongo!MongoTypeOK
<1>3. Mongo!MongoTypeOK'
  BY <1>1 DEF MongoInv, Mongo!MongoTypeOK
<1>4. Mongo!ConnectionsAccounted'
  BY <1>1, <1>2 DEF MongoInv, Mongo!ConnectionsAccounted, Mongo!Open
<1> QED
  BY <1>1, <1>2, <1>3, <1>4 DEF MongoInv, Mongo!Open

LEMMA MongoDisconnect == ASSUME MongoInv, Mongo!Disconnect PROVE MongoInv'
<1>1. connection \in Mongo!Connections /\ closing \subseteq Mongo!Connections
  BY DEF MongoInv, Mongo!MongoTypeOK, Mongo!Disconnect
<1>2. /\ link'[connection] = "disconnecting" /\ closing' = closing \union {connection}
      /\ link[connection] # "opening"
      /\ \A j \in Mongo!Connections \ {connection} : link'[j] = link[j]
      /\ link' \in [Mongo!Connections -> Mongo!Links]
      /\ overlap' = (overlap \/ connecting # "none")
      /\ UNCHANGED <<connection, connecting, attempt, lostOnce>>
  BY <1>1 DEF Mongo!Disconnect, MongoInv, Mongo!MongoTypeOK, Mongo!Links
<1>3. Mongo!MongoTypeOK'
  BY <1>1, <1>2 DEF MongoInv, Mongo!MongoTypeOK
<1>4. Mongo!ConnectionsAccounted'
  BY <1>1, <1>2 DEF MongoInv, Mongo!ConnectionsAccounted, Mongo!Open
<1> QED
  BY <1>1, <1>2, <1>3, <1>4 DEF MongoInv, Mongo!Open

LEMMA MongoClosed ==
  ASSUME MongoInv, NEW k \in Mongo!Connections, Mongo!Closed(k) PROVE MongoInv'
<1>1. /\ k \in closing /\ link[k] = "disconnecting" /\ link'[k] = "closed"
      /\ closing' = closing \ {k} /\ connection' = 0
      /\ \A j \in Mongo!Connections \ {k} : link'[j] = link[j]
      /\ link' \in [Mongo!Connections -> Mongo!Links]
      /\ UNCHANGED <<connecting, attempt, lostOnce, overlap>>
  BY DEF Mongo!Closed, MongoInv, Mongo!MongoTypeOK, Mongo!Links
<1>2. connection \in {0} \union Mongo!Connections /\ closing \subseteq Mongo!Connections
  BY DEF MongoInv, Mongo!MongoTypeOK
<1>3. Mongo!MongoTypeOK'
  BY <1>1 DEF MongoInv, Mongo!MongoTypeOK
<1>4. Mongo!ConnectionsAccounted'
  BY <1>1, <1>2 DEF MongoInv, Mongo!ConnectionsAccounted, Mongo!Open
<1>5. \A j \in closing' : overlap
  BY <1>1 DEF MongoInv
<1> QED
  BY <1>1, <1>2, <1>3, <1>4, <1>5 DEF MongoInv, Mongo!Open

LEMMA MongoStays == ASSUME MongoInv, UNCHANGED mongo PROVE MongoInv'
BY DEF mongo, MongoInv, Mongo!MongoTypeOK, Mongo!ConnectionsAccounted, Mongo!Open

LEMMA MongoNext == ASSUME MongoInv, Mongo!Next PROVE MongoInv'
BY MongoConnect, MongoTryAgain, MongoDisconnect, MongoSucceed, MongoFail, MongoServer, MongoClosed
DEF Mongo!Next

-----------------------------------------------------------------------------
(* The client of Redis *)

RedisInv ==
    /\ Redis!RedisTypeOK
    /\ Redis!FlagAccounted
    /\ redisStatus \in {"connecting", "reconnecting", "ready"} /\ ~isRedisConnected =>
         waiter \/ firstFailed
    /\ redisStatus = "end" => stopped \/ retries > MaxRetries

LEMMA RedisInit == Redis!Init => RedisInv
<1> SUFFICES ASSUME Redis!Init PROVE RedisInv
  OBVIOUS
<1> USE DEF Redis!Init
<1>1. retries \in 0..(MaxRetries + 1)
  BY ClientsAssumption
<1>2. Redis!RedisTypeOK
  BY <1>1 DEF Redis!RedisTypeOK, Redis!Statuses
<1> QED
  BY <1>2 DEF RedisInv, Redis!FlagAccounted, Redis!Wedged, Redis!Dead

LEMMA RedisStays == ASSUME RedisInv, UNCHANGED redis PROVE RedisInv'
BY DEF redis, RedisInv, Redis!RedisTypeOK, Redis!FlagAccounted, Redis!Wedged, Redis!Dead

LEMMA RedisNext == ASSUME RedisInv, Redis!Next PROVE RedisInv'
<1> USE DEF RedisInv, Redis!RedisTypeOK, Redis!FlagAccounted, Redis!Statuses, Redis!Wedged,
            Redis!Dead
<1>1. CASE Redis!GetClient
  BY <1>1 DEF Redis!GetClient
<1>2. CASE Redis!Ready
  <2>1. /\ redisStatus = "connecting" /\ redisStatus' = "ready"
        /\ waiter' = FALSE
        /\ UNCHANGED <<firstFailed, stopped>>
    BY <1>2 DEF Redis!Ready
  <2>2. retries' \in 0..(MaxRetries + 1)
    BY <1>2, ClientsAssumption DEF Redis!Ready
  <2>3. /\ isRedisConnected' \in BOOLEAN
        /\ isRedisConnected \/ waiter => isRedisConnected'
    BY <1>2 DEF Redis!Ready
  <2>4. isRedisConnected' \/ firstFailed'
    BY <2>1, <2>3
  <2>5. Redis!RedisTypeOK'
    BY <2>1, <2>2, <2>3
  <2>6. Redis!FlagAccounted'
    BY <2>1, <2>4
  <2> QED
    BY <2>1, <2>4, <2>5, <2>6
<1>3. CASE Redis!ConnectionCloses
  <2>1. /\ redisStatus \in {"connecting", "ready"} /\ waiter' = FALSE
        /\ UNCHANGED <<isRedisConnected, stopped>>
    BY <1>3 DEF Redis!ConnectionCloses, Redis!CloseEvent
  <2>2. /\ retries' \in 0..(MaxRetries + 1)
        /\ \/ redisStatus' = "end" /\ retries' > MaxRetries
           \/ redisStatus' = "reconnecting"
    BY <1>3, ClientsAssumption DEF Redis!ConnectionCloses
  <2>3. /\ firstFailed' \in BOOLEAN
        /\ firstFailed \/ waiter => firstFailed'
    BY <1>3 DEF Redis!ConnectionCloses, Redis!CloseEvent
  <2>4. isRedisConnected' \/ firstFailed'
    BY <2>1, <2>3
  <2>5. Redis!RedisTypeOK'
    BY <2>1, <2>2, <2>3
  <2>6. Redis!FlagAccounted'
    BY <2>1, <2>2, <2>4
  <2> QED
    BY <2>2, <2>4, <2>5, <2>6
<1>4. CASE Redis!Reconnect
  BY <1>4 DEF Redis!Reconnect
<1>5. CASE Redis!Disconnect
  BY <1>5 DEF Redis!Disconnect, Redis!CloseEvent
<1> QED
  BY <1>1, <1>2, <1>3, <1>4, <1>5 DEF Redis!Next

-----------------------------------------------------------------------------
(* The stores side by side *)

StoresInv == Inv /\ MongoInv /\ RedisInv

LEMMA StoresInitInv == StoresInit => StoresInv
BY InitInv, MongoInit, RedisInit DEF StoresInit, StoresInv

LEMMA StoresNextInv ==
  ASSUME StoresInv, [StoresNext]_<<part, vars, mongo, redis>> PROVE StoresInv'
<1>1. UNCHANGED vars \/ Next
  BY DEF StoresNext, AccountsStep, MongoStep, RedisStep
<1>2. UNCHANGED mongo \/ Mongo!Next
  BY DEF StoresNext, AccountsStep, MongoStep, RedisStep
<1>3. UNCHANGED redis \/ Redis!Next
  BY DEF StoresNext, AccountsStep, MongoStep, RedisStep
<1> QED
  BY <1>1, <1>2, <1>3, NextInv, MongoNext, MongoStays, RedisNext, RedisStays DEF StoresInv

\* Every variable of the three modules always holds a value of its kind.
THEOREM StoresTypeCorrect == StoresSpec => []StoresTypeOK
<1>1. StoresInv => StoresTypeOK
  BY DEF StoresInv, Inv, MongoInv, RedisInv, StoresTypeOK
<1> QED
  BY <1>1, StoresInitInv, StoresNextInv, PTL DEF StoresSpec

\* For any number of connections and attempts: at most one attempt at a time, no
\* closed connection is handed out, and a connection is only left open behind the
\* client's back for the causes that are named; the flag of the Redis client is
\* only wrong for good in the two ways that are named.
THEOREM ClientsAreAccounted == StoresSpec => []ClientsAccounted
<1>1. StoresInv => ClientsAccounted
  BY DEF StoresInv, MongoInv, RedisInv, ClientsAccounted
<1> QED
  BY <1>1, StoresInitInv, StoresNextInv, PTL DEF StoresSpec

=============================================================================

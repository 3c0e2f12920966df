------------------------------ MODULE MCStores ------------------------------
(***************************************************************************)
(* Instances for model checking of the three modules about the stores of   *)
(* the backend.  They share no state, so a behavior is one of one of them. *)
(***************************************************************************)
EXTENDS Accounts, Naturals, TLC

CONSTANTS
    MaxConnections,  \* bound: the connections to MongoDB that are ever created
    RetryAttempts,   \* retryAttempts, at least one
    MaxRetries       \* the retries of the strategy of Redis

ASSUME ClientsAssumption ==
    /\ MaxConnections \in Nat
    /\ RetryAttempts \in Nat \ {0}
    /\ MaxRetries \in Nat

VARIABLES
    part,  \* the module this behavior is about
    connection, connecting, attempt, link, closing, lostOnce, overlap,
    redisStatus, isRedisConnected, waiter, retries, firstFailed, stopped

mongo == <<connection, connecting, attempt, link, closing, lostOnce, overlap>>
redis == <<redisStatus, isRedisConnected, waiter, retries, firstFailed, stopped>>

Mongo == INSTANCE MongoClient
Redis == INSTANCE RedisClient

StoresInit ==
    /\ part \in {"accounts", "mongo", "redis"}
    /\ Init /\ Mongo!Init /\ Redis!Init
    \* The requests only matter to the accounts.
    /\ part # "accounts" => \A c, d \in Calls : /\ request[c].kind = Credentials
                                               /\ request[c].email = request[d].email

AccountsStep == part = "accounts" /\ Next /\ UNCHANGED <<part, mongo, redis>>
MongoStep == part = "mongo" /\ Mongo!Next /\ UNCHANGED <<part, vars, redis>>
RedisStep == part = "redis" /\ Redis!Next /\ UNCHANGED <<part, vars, mongo>>

StoresNext == AccountsStep \/ MongoStep \/ RedisStep

StoresSpec == StoresInit /\ [][StoresNext]_<<part, vars, mongo, redis>>

StoresSymmetry ==
    Permutations(Calls) \union Permutations(Emails)
        \union Permutations(Providers) \union Permutations(ProviderIds)

\* Every variable of the three modules holds a value of its kind.
StoresTypeOK == AccountsTypeOK /\ Mongo!MongoTypeOK /\ Redis!RedisTypeOK

\* What each client keeps about its connection agrees with the connection, but for
\* the causes that are named (mongoose.client.ts, redis.client.ts).
ClientsAccounted == Mongo!ConnectionsAccounted /\ Redis!FlagAccounted
=============================================================================

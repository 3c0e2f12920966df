----------------------------- MODULE RedisClient -----------------------------
(***************************************************************************)
(* The client of Redis (packages/cache: redis.client.ts and the commands   *)
(* of redis.service.ts that all begin with getClient): one ioredis client  *)
(* made with lazyConnect, and the flag that says it was connected.         *)
(*                                                                         *)
(* ioredis reconnects by itself after a close, as its retry strategy says, *)
(* and refuses connect while it is connecting or ready.                    *)
(***************************************************************************)
EXTENDS Naturals

CONSTANT MaxRetries  \* the strategy gives up after this many in a row

VARIABLES
    redisStatus,       \* redis.status
    isRedisConnected,  \* the flag
    waiter,            \* a getClient awaits connect
    retries,           \* closes since the client was last ready, as far as they count
    \* history
    firstFailed,       \* a connect that a getClient awaited has failed
    stopped            \* disconnect was called

vars == <<redisStatus, isRedisConnected, waiter, retries, firstFailed, stopped>>

Statuses == {"wait", "connecting", "ready", "reconnecting", "end"}

Init ==
    /\ redisStatus = "wait"
    /\ isRedisConnected = FALSE
    /\ waiter = FALSE
    /\ retries = 0
    /\ firstFailed = FALSE
    /\ stopped = FALSE

\* getClient returns the client when the flag is set, throws when connect is
\* refused, and otherwise awaits it.
GetClient ==
    /\ ~isRedisConnected
    /\ redisStatus \in {"wait", "reconnecting", "end"}
    /\ redisStatus' = "connecting"
    /\ waiter' = TRUE
    /\ UNCHANGED <<isRedisConnected, retries, firstFailed, stopped>>

\* Only the getClient that awaited connect sets the flag.
Ready ==
    /\ redisStatus = "connecting"
    /\ redisStatus' = "ready"
    /\ retries' = 0
    /\ isRedisConnected' = (isRedisConnected \/ waiter)
    /\ waiter' = FALSE
    /\ UNCHANGED <<firstFailed, stopped>>

\* connect is rejected when the connection closes; nothing resets the flag.
CloseEvent ==
    /\ waiter' = FALSE
    /\ firstFailed' = (firstFailed \/ waiter)

\* The connection closes, or never opens: defaultRetryStrategy decides.
ConnectionCloses ==
    /\ redisStatus \in {"connecting", "ready"}
    /\ retries' = IF retries > MaxRetries THEN retries ELSE retries + 1
    /\ redisStatus' = IF retries' > MaxRetries THEN "end" ELSE "reconnecting"
    /\ CloseEvent
    /\ UNCHANGED <<isRedisConnected, stopped>>

Reconnect ==
    /\ redisStatus = "reconnecting"
    /\ redisStatus' = "connecting"
    /\ UNCHANGED <<isRedisConnected, waiter, retries, firstFailed, stopped>>

\* quit, or disconnect when quit fails; also on SIGTERM and SIGINT
Disconnect ==
    /\ redisStatus' = "end"
    /\ stopped' = TRUE
    /\ CloseEvent
    /\ UNCHANGED <<isRedisConnected, retries>>

Next == GetClient \/ Ready \/ ConnectionCloses \/ Reconnect \/ Disconnect

RedisTypeOK ==
    /\ redisStatus \in Statuses
    /\ isRedisConnected \in BOOLEAN
    /\ waiter \in BOOLEAN
    /\ retries \in 0..(MaxRetries + 1)
    /\ firstFailed \in BOOLEAN
    /\ stopped \in BOOLEAN

\* Every getClient throws although the client is ready
Wedged == redisStatus = "ready" /\ ~isRedisConnected

\* Every getClient hands out a client that has ended and that nothing reopens
Dead == redisStatus = "end" /\ isRedisConnected

\* The flag and the client only disagree for good in two ways: a caller's first
\* connect failed and ioredis then connected by itself (every later command
\* throws), or the client ended, by the strategy or by disconnect, after it had
\* been connected (redis.client.ts: the flag is set by one caller, reset by none).
FlagAccounted ==
    /\ Wedged => firstFailed
    /\ Dead => stopped \/ retries > MaxRetries
    /\ waiter => redisStatus = "connecting" /\ ~isRedisConnected
    /\ isRedisConnected => redisStatus # "wait"
=============================================================================

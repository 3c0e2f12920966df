------------------------------ MODULE LuaHandler ------------------------------
(***************************************************************************)
(* The Lua script handler of the Redis package (packages/cache,            *)
(* luaHandler.ts): initialize loads the configured scripts, execute runs   *)
(* one by its SHA and recovers when Redis has lost its script cache.       *)
(*                                                                         *)
(* Calls of initialize and execute run concurrently in one Node process:   *)
(* an action is what runs between two awaits.  A load is the promise that  *)
(* #performLoad or #reloadScript creates; it belongs to the call that      *)
(* created it, and other calls may await it through the map _loading.      *)
(***************************************************************************)
EXTENDS Naturals, Sequences

CONSTANTS
    Scripts,    \* the script names
    Inits,      \* the calls of initialize
    Calls,      \* the calls of execute
    Configs,    \* Configs[i]: the names initialize call i is to load, in order
    ScriptOf,   \* ScriptOf[c]: the script execute call c names
    Nobody,     \* in place of a call: no entry in _loading
    MaxFlushes, \* bound: how often Redis loses its script cache
    MaxResends  \* bound: how often the commands of a call are sent again

Names(i) == {Configs[i][k] : k \in DOMAIN Configs[i]}

ASSUME CallsAssumption ==
    /\ Configs \in [Inits -> Seq(Scripts)]
    /\ \A i \in Inits : \A j, k \in DOMAIN Configs[i] :
           Configs[i][j] = Configs[i][k] => j = k
    /\ ScriptOf \in [Calls -> Scripts]
    /\ Inits \cap Calls = {}
    /\ Nobody \notin Inits \cup Calls
    /\ MaxFlushes \in Nat /\ MaxResends \in Nat

VARIABLES
    initialized, \* _initialized
    scripts,     \* the names in _scripts; a name's source and SHA never change
    loading,     \* loading[s]: the call whose load is in _loading under s
    cached,      \* the scripts in Redis' cache
    load,        \* load[p][s]: the load of s that call p created
    next,        \* next[i]: the position of initialize call i in its configs
    pc,          \* pc[p]: what call p does
    awaited,     \* awaited[p]: the owner of the load that p awaits
    flushes,     \* how often the cache was lost
    ran,         \* history: ran[c], how often Redis ran the script for call c
    resent,      \* resent[c]: how often ioredis sent a command of c again
    late         \* late[c]: the command of c under way after its timeout

vars == <<initialized, scripts, loading, cached, load, next, pc, awaited, flushes,
          ran, resent, late>>

Procs == Inits \cup Calls
LoadStates == {"none", "sent", "replied", "resolved", "rejected", "late"}
InitSteps == {"idle", "load", "join", "next", "done", "failed"}
CallSteps == {"idle", "evalsha", "eval", "evaled", "load", "join", "ok", "error"}

Init ==
    /\ initialized = FALSE
    /\ scripts = {}
    /\ loading = [s \in Scripts |-> Nobody]
    /\ cached = {}
    /\ load = [p \in Procs |-> [s \in Scripts |-> "none"]]
    /\ next = [i \in Inits |-> 1]
    /\ pc = [p \in Procs |-> "idle"]
    /\ awaited = [p \in Procs |-> Nobody]
    /\ flushes = 0
    /\ ran = [c \in Calls |-> 0]
    /\ resent = [c \in Calls |-> 0]
    /\ late = [c \in Calls |-> "none"]

-----------------------------------------------------------------------------
(* Loads *)

InFlight(p, s) == load[p][s] \in {"sent", "replied"}

\* #loadScript and #reloadScript: await the load in _loading, or create one.
LoadOrJoin(p, s) ==
    \/ /\ loading[s] = Nobody
       /\ loading' = [loading EXCEPT ![s] = p]
       /\ load' = [load EXCEPT ![p][s] = "sent"]
       /\ pc' = [pc EXCEPT ![p] = "load"]
       /\ UNCHANGED awaited
    \/ /\ loading[s] # Nobody
       /\ awaited' = [awaited EXCEPT ![p] = loading[s]]
       /\ pc' = [pc EXCEPT ![p] = "join"]
       /\ UNCHANGED <<loading, load>>

\* Mutant: the finally block is missing.
KeepEntry(p, s) == loading' = loading

\* The finally block of #reloadScript is inside the promise; that of
\* #loadScript runs when its caller resumes.
DropOwnEntry(p, s) ==
    loading' = IF p \in Calls THEN [loading EXCEPT ![s] = Nobody] ELSE loading

\* SCRIPT LOAD reaches Redis, for the first time or sent again after the
\* connection broke.
ScriptLoad(p, s) ==
    /\ InFlight(p, s)
    /\ load' = [load EXCEPT ![p][s] = "replied"]
    /\ cached' = cached \cup {s}
    /\ UNCHANGED <<initialized, scripts, loading, next, pc, awaited, flushes, ran, resent, late>>

\* The reply arrives: #performLoad stores the script, #reloadScript stores
\* the SHA of a script that is registered already.
LoadResolves(p, s) ==
    /\ load[p][s] = "replied"
    /\ load' = [load EXCEPT ![p][s] = "resolved"]
    /\ scripts' = IF p \in Inits THEN scripts \cup {s} ELSE scripts
    /\ DropOwnEntry(p, s)
    /\ UNCHANGED <<initialized, cached, next, pc, awaited, flushes, ran, resent, late>>

\* The file cannot be read, there is no connection, or SCRIPT LOAD times out:
\* then it may still be under way.
LoadRejects(p, s) ==
    /\ InFlight(p, s)
    /\ \E to \in {"rejected", "late"} : load' = [load EXCEPT ![p][s] = to]
    /\ DropOwnEntry(p, s)
    /\ UNCHANGED <<initialized, scripts, cached, next, pc, awaited, flushes, ran, resent, late>>

\* SCRIPT LOAD reaches Redis after its timeout.
LateLoad(p, s) ==
    /\ load[p][s] = "late"
    /\ load' = [load EXCEPT ![p][s] = "rejected"]
    /\ cached' = cached \cup {s}
    /\ UNCHANGED <<initialized, scripts, loading, next, pc, awaited, flushes, ran, resent, late>>

\* Mutant: whoever awaits a load that fails hears nothing.
OnlyResolved(p, s) == load[p][s] = "resolved"

Settled(p, s) == load[p][s] \in {"resolved", "rejected", "late"}

\* Those who joined a load resume after the call that created it.
Resumable(p, s) ==
    \/ pc[p] = "load" /\ Settled(p, s)
    \/ /\ pc[p] = "join"
       /\ Settled(awaited[p], s)
       /\ awaited[p] \in Inits =>
              ~(pc[awaited[p]] = "load" /\ Configs[awaited[p]][next[awaited[p]]] = s)

Owner(p) == IF pc[p] = "load" THEN p ELSE awaited[p]

-----------------------------------------------------------------------------
(* initialize *)

\* Mutant: the loop counts from zero.
LoopFromZero(i, k) ==
    /\ next' = [next EXCEPT ![i] = k - 1]
    /\ k <= Len(Configs[i])
    /\ LoadOrJoin(i, Configs[i][k])
    /\ UNCHANGED initialized

\* The loop from script k on, up to its next await; no scripts are left at
\* the end and the handler is initialized.
LoopFrom(i, k) ==
    /\ next' = [next EXCEPT ![i] = k]
    /\ \/ /\ k <= Len(Configs[i])
          /\ LoadOrJoin(i, Configs[i][k])
          /\ UNCHANGED initialized
       \/ /\ k > Len(Configs[i])
          /\ initialized' = TRUE
          /\ pc' = [pc EXCEPT ![i] = "done"]
          /\ UNCHANGED <<loading, load, awaited>>

\* Mutant: _initialized is set before the loop.
InitializeFlagFirst(i) ==
    /\ pc[i] = "idle"
    /\ initialized' = TRUE
    /\ IF initialized \/ Configs[i] = << >>
       THEN pc' = [pc EXCEPT ![i] = "done"] /\ UNCHANGED <<loading, load, awaited>>
       ELSE LoadOrJoin(i, Configs[i][1])
    /\ UNCHANGED <<scripts, cached, next, flushes, ran, resent, late>>

\* initialize is called; once initialized, it returns whatever configs it gets.
Initialize(i) ==
    /\ pc[i] = "idle"
    /\ \/ /\ initialized
          /\ pc' = [pc EXCEPT ![i] = "done"]
          /\ UNCHANGED <<initialized, loading, load, next, awaited>>
       \/ /\ ~initialized
          /\ LoopFrom(i, 1)
    /\ UNCHANGED <<scripts, cached, flushes, ran, resent, late>>

\* The awaited load settles: the call that created it deletes the entry, and
\* initialize goes on or throws.
Loaded(i) ==
    LET s == Configs[i][next[i]] IN
    /\ pc[i] \in {"load", "join"}
    /\ Resumable(i, s)
    /\ loading' = IF pc[i] = "load" THEN [loading EXCEPT ![s] = Nobody] ELSE loading
    /\ pc' = [pc EXCEPT ![i] =
                 IF load[Owner(i)][s] = "resolved" THEN "next" ELSE "failed"]
    /\ UNCHANGED <<initialized, scripts, cached, load, next, awaited, flushes, ran, resent, late>>

NextScript(i) ==
    /\ pc[i] = "next"
    /\ LoopFrom(i, next[i] + 1)
    /\ UNCHANGED <<scripts, cached, flushes, ran, resent, late>>

-----------------------------------------------------------------------------
(* execute *)

Step(c, from, to) ==
    /\ pc[c] = from
    /\ pc' = [pc EXCEPT ![c] = to]
    /\ UNCHANGED <<initialized, scripts, loading, load, next, awaited, flushes>>

\* execute is called; a name that is not registered is refused.
Execute(c) ==
    /\ Step(c, "idle", IF ScriptOf[c] \in scripts THEN "evalsha" ELSE "error")
    /\ UNCHANGED <<cached, ran, resent, late>>

\* Redis runs the script: EVALSHA from its cache, and the source EVAL brings,
\* which it may keep.
RedisRuns(c, command) ==
    /\ command = "evalsha" => ScriptOf[c] \in cached
    /\ \/ UNCHANGED cached
       \/ command = "eval" /\ cached' = cached \cup {ScriptOf[c]}
    /\ ran' = [ran EXCEPT ![c] = @ + 1]

\* The reply of EVALSHA arrives, or an error in its place: the script fails
\* half-way, or the connection is lost after it ran and does not come back.
EvalSha(c) ==
    /\ RedisRuns(c, "evalsha")
    /\ \E to \in {"ok", "error"} : Step(c, "evalsha", to)
    /\ UNCHANGED <<resent, late>>

\* Redis replies NOSCRIPT: #handleNoScript takes over.
NoScript(c) ==
    /\ ScriptOf[c] \notin cached
    /\ Step(c, "evalsha", "eval")
    /\ UNCHANGED <<cached, ran, resent, late>>

\* The reply of EVAL arrives, or an error in its place.
Eval(c) ==
    /\ RedisRuns(c, "eval")
    /\ \E to \in {"evaled", "error"} : Step(c, "eval", to)
    /\ UNCHANGED <<resent, late>>

\* There is no connection, or the command does not reach Redis.
CommandFails(c) ==
    /\ \E from \in {"evalsha", "eval"} : Step(c, from, "error")
    /\ UNCHANGED <<cached, ran, resent, late>>

\* After commandTimeout the caller hears of an error; ioredis does not take the
\* command back.
TimesOut(c) ==
    \E command \in {"evalsha", "eval"} :
        /\ Step(c, command, "error")
        /\ late' = [late EXCEPT ![c] = command]
        /\ UNCHANGED <<cached, ran, resent>>

SendAgain(c) ==
    /\ resent[c] < MaxResends
    /\ resent' = [resent EXCEPT ![c] = @ + 1]

\* Redis runs the script and the connection breaks before the reply: ioredis
\* sends the command again as soon as it is back.
Resend(c) ==
    /\ pc[c] \in {"evalsha", "eval"}
    /\ RedisRuns(c, pc[c])
    /\ SendAgain(c)
    /\ UNCHANGED <<initialized, scripts, loading, load, next, pc, awaited, flushes, late>>

\* Redis runs the script after the timeout, and perhaps another time.
LateRun(c) ==
    /\ late[c] # "none"
    /\ RedisRuns(c, late[c])
    /\ \/ late' = [late EXCEPT ![c] = "none"] /\ UNCHANGED resent
       \/ SendAgain(c) /\ UNCHANGED late
    /\ UNCHANGED <<initialized, scripts, loading, load, next, pc, awaited, flushes>>

\* The reply of EVAL arrives and #reloadScript begins.
Reload(c) ==
    /\ pc[c] = "evaled"
    /\ LoadOrJoin(c, ScriptOf[c])
    /\ UNCHANGED <<initialized, scripts, cached, next, flushes, ran, resent, late>>

\* The reload settles; when it failed, execute throws although EVAL ran.
Reloaded(c) ==
    /\ pc[c] \in {"load", "join"}
    /\ Resumable(c, ScriptOf[c])
    /\ pc' = [pc EXCEPT ![c] =
                 IF load[Owner(c)][ScriptOf[c]] = "resolved" THEN "ok" ELSE "error"]
    /\ UNCHANGED <<initialized, scripts, loading, cached, load, next, awaited, flushes, ran, resent, late>>

-----------------------------------------------------------------------------

\* Redis restarts or runs SCRIPT FLUSH.
Flush ==
    /\ flushes < MaxFlushes
    /\ flushes' = flushes + 1
    /\ cached' = {}
    /\ UNCHANGED <<initialized, scripts, loading, load, next, pc, awaited, ran, resent, late>>

Proceed(p) ==
    \/ \E s \in Scripts : ScriptLoad(p, s) \/ LoadResolves(p, s) \/ LoadRejects(p, s)
    \/ p \in Inits /\ (Loaded(p) \/ NextScript(p))
    \/ p \in Calls /\ (EvalSha(p) \/ NoScript(p) \/ Eval(p) \/ CommandFails(p)
                          \/ TimesOut(p) \/ Reload(p) \/ Reloaded(p))

Next ==
    \/ \E i \in Inits : Initialize(i)
    \/ \E c \in Calls : Execute(c)
    \/ \E p \in Procs : Proceed(p)
    \/ \E c \in Calls : Resend(c) \/ LateRun(c)
    \/ \E p \in Procs, s \in Scripts : LateLoad(p, s)
    \/ Flush

Spec == Init /\ [][Next]_vars

\* Every command gets a reply or an error, and the event loop runs on.
FairSpec == Spec /\ \A p \in Procs : WF_vars(Proceed(p))

-----------------------------------------------------------------------------
(* Properties *)

\* Every variable holds a value of its kind.
TypeOK ==
    /\ initialized \in BOOLEAN
    /\ scripts \subseteq Scripts
    /\ loading \in [Scripts -> Procs \cup {Nobody}]
    /\ cached \subseteq Scripts
    /\ load \in [Procs -> [Scripts -> LoadStates]]
    /\ next \in [Inits -> Nat \ {0}]
    /\ pc \in [Procs -> InitSteps \cup CallSteps]
    /\ \A i \in Inits : pc[i] \in InitSteps
    /\ \A c \in Calls : pc[c] \in CallSteps
    /\ awaited \in [Procs -> Procs \cup {Nobody}]
    /\ flushes \in 0..MaxFlushes
    /\ ran \in [Calls -> Nat]
    /\ resent \in [Calls -> 0..MaxResends]
    /\ late \in [Calls -> {"none", "evalsha", "eval"}]

\* _loading "prevents multiple concurrent SCRIPT LOAD operations for the same
\* script", whoever asks for it and however earlier loads ended.
SingleFlight ==
    \A s \in Scripts, p, q \in Procs : InFlight(p, s) /\ InFlight(q, s) => p = q

\* An entry of _loading is the load of a call that still runs it: no finally
\* block deletes another call's entry, and no settled load is joined later.
EntriesAreLive ==
    \A s \in Scripts, p \in Procs :
        /\ InFlight(p, s) => loading[s] = p
        /\ loading[s] = p => pc[p] = "load" /\ load[p][s] # "none"

\* Neither the recovery from NOSCRIPT nor a timeout adds a run: the script runs
\* once for the call, and once more each time ioredis had to send its command
\* again.
OneRunPerSend == \A c \in Calls : ran[c] <= 1 + resent[c]

\* A result comes from a run of the script, in recovery too.
ResultsAreReal == \A c \in Calls : pc[c] = "ok" => ran[c] >= 1

\* "Loads all configured Lua scripts into Redis": once initialize returns,
\* every script of its configs can be executed (luaHandler.ts, initialize).
InitializedLoadsAll ==
    \A i \in Inits : pc[i] = "done" => Names(i) \subseteq scripts

AnswerAt(step) ==
    IF step \in {"done", "ok"} THEN "returned"
    ELSE IF step \in {"failed", "error"} THEN "threw" ELSE "none"

\* However the calls of initialize and execute share loads, and whatever fails,
\* the handler behaves as the service of ScriptService, when all callers of
\* initialize name the same scripts.
Service == INSTANCE ScriptService WITH
    Wanted <- [i \in Inits |-> Names(i)],
    registered <- scripts,
    loads <- {l \in Procs \X Scripts : InFlight(l[1], l[2])},
    answer <- [p \in Procs |-> AnswerAt(pc[p])],
    runs <- ran,
    resends <- resent

ScriptServiceSpec == Service!Spec

\* Whatever fails, nobody awaits a load for ever: every call returns or throws.
CallsSettle ==
    /\ \A i \in Inits : pc[i] # "idle" ~> pc[i] \in {"done", "failed"}
    /\ \A c \in Calls : pc[c] # "idle" ~> pc[c] \in {"ok", "error"}
=============================================================================

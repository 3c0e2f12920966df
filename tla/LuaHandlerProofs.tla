--------------------------- MODULE LuaHandlerProofs ---------------------------
(* Proofs about LuaHandler, for any number of calls and scripts. *)
EXTENDS LuaHandler, TLAPS

LEMMA ConfigNames ==
    ASSUME NEW i \in Inits, NEW k \in 1..Len(Configs[i])
    PROVE  Configs[i][k] \in Scripts
  BY CallsAssumption

-----------------------------------------------------------------------------
(* Types *)

PcTyped ==
    /\ pc \in [Procs -> InitSteps \cup CallSteps]
    /\ \A i \in Inits : pc[i] \in InitSteps
    /\ \A c \in Calls : pc[c] \in CallSteps

LEMMA MoveTyped ==
    ASSUME PcTyped, NEW p \in Procs, NEW to, pc' = [pc EXCEPT ![p] = to],
           p \in Inits => to \in InitSteps, p \in Calls => to \in CallSteps
    PROVE  PcTyped'
<1>1. to \in InitSteps \cup CallSteps
  BY DEF Procs
<1>2. pc' \in [Procs -> InitSteps \cup CallSteps]
  BY <1>1 DEF PcTyped
<1>3. \A q \in Procs : pc'[q] = IF q = p THEN to ELSE pc[q]
  BY DEF PcTyped
<1>4. QED
  BY <1>2, <1>3 DEF PcTyped, Procs

LEMMA JoinTyped ==
    ASSUME TypeOK, NEW p \in Procs, NEW s \in Scripts, LoadOrJoin(p, s)
    PROVE  /\ loading' \in [Scripts -> Procs \cup {Nobody}]
           /\ load' \in [Procs -> [Scripts -> LoadStates]]
           /\ awaited' \in [Procs -> Procs \cup {Nobody}]
           /\ PcTyped'
<1>1. PcTyped /\ {"load", "join"} \subseteq InitSteps \cap CallSteps
  BY DEF TypeOK, PcTyped, InitSteps, CallSteps
<1>2. \A to \in {"load", "join"} : pc' = [pc EXCEPT ![p] = to] => PcTyped'
  BY <1>1, MoveTyped
<1>3. PcTyped'
  BY <1>2 DEF LoadOrJoin
<1>4. loading' \in [Scripts -> Procs \cup {Nobody}] /\ awaited' \in [Procs -> Procs \cup {Nobody}]
  <2>1. /\ loading \in [Scripts -> Procs \cup {Nobody}] /\ loading[s] \in Procs \cup {Nobody}
        /\ awaited \in [Procs -> Procs \cup {Nobody}]
    BY DEF TypeOK
  <2>2. /\ loading' = loading \/ loading' = [loading EXCEPT ![s] = p]
        /\ awaited' = awaited \/ awaited' = [awaited EXCEPT ![p] = loading[s]]
    BY DEF LoadOrJoin
  <2>3. QED
    BY <2>1, <2>2
<1>5. load' \in [Procs -> [Scripts -> LoadStates]]
  <2>1. load \in [Procs -> [Scripts -> LoadStates]] /\ "sent" \in LoadStates
    BY DEF TypeOK, LoadStates
  <2>2. load' = load \/ load' = [load EXCEPT ![p][s] = "sent"]
    BY DEF LoadOrJoin
  <2>3. QED
    BY <2>1, <2>2
<1>6. QED
  BY <1>3, <1>4, <1>5

LEMMA LoopTyped ==
    ASSUME TypeOK, NEW i \in Inits, NEW k \in Nat \ {0}, LoopFrom(i, k),
           UNCHANGED <<scripts, cached, flushes, ran, resent, late>>
    PROVE  TypeOK'
<1>1. next' \in [Inits -> Nat \ {0}] /\ i \in Procs /\ i \notin Calls
  BY CallsAssumption DEF LoopFrom, TypeOK, Procs
<1>2. CASE k <= Len(Configs[i]) /\ LoadOrJoin(i, Configs[i][k]) /\ UNCHANGED initialized
  <2>1. Configs[i][k] \in Scripts
    BY <1>2, CallsAssumption
  <2>2. QED
    BY <1>1, <1>2, <2>1, JoinTyped DEF TypeOK, PcTyped
<1>3. CASE /\ initialized' = TRUE
           /\ pc' = [pc EXCEPT ![i] = "done"]
           /\ UNCHANGED <<loading, load, awaited>>
  <2>1. PcTyped'
    BY <1>1, <1>3, MoveTyped DEF TypeOK, PcTyped, InitSteps
  <2>2. QED
    BY <1>1, <1>3, <2>1 DEF TypeOK, PcTyped
<1>4. QED
  BY <1>2, <1>3 DEF LoopFrom

LEMMA StepTyped ==
    ASSUME TypeOK, NEW c \in Calls, NEW from, NEW to \in CallSteps, Step(c, from, to),
           cached' \subseteq Scripts, ran' \in [Calls -> Nat],
           resent' \in [Calls -> 0..MaxResends],
           late' \in [Calls -> {"none", "evalsha", "eval"}]
    PROVE  TypeOK'
<1>1. PcTyped'
  BY CallsAssumption, MoveTyped DEF Step, TypeOK, PcTyped, Procs
<1>2. QED
  BY <1>1 DEF Step, TypeOK, PcTyped

LEMMA RunTyped ==
    ASSUME TypeOK, NEW c \in Calls, NEW command, RedisRuns(c, command)
    PROVE  cached' \subseteq Scripts /\ ran' \in [Calls -> Nat]
<1>1. ScriptOf[c] \in Scripts
  BY CallsAssumption
<1>2. cached' \subseteq Scripts
  BY <1>1 DEF RedisRuns, TypeOK
<1> QED
  BY <1>2 DEF RedisRuns, TypeOK

LEMMA AgainTyped ==
    ASSUME TypeOK, NEW c \in Calls, SendAgain(c)
    PROVE  resent' \in [Calls -> 0..MaxResends]
<1>1. MaxResends \in Nat /\ resent[c] \in 0..MaxResends
  BY CallsAssumption DEF TypeOK
<1>2. resent[c] + 1 \in 0..MaxResends
  BY <1>1 DEF SendAgain
<1> QED
  BY <1>2 DEF SendAgain, TypeOK

LEMMA ProceedTyped ==
    ASSUME TypeOK, NEW p \in Procs, Proceed(p)
    PROVE  TypeOK'
<1>1. ASSUME NEW s \in Scripts, ScriptLoad(p, s) \/ LoadResolves(p, s) \/ LoadRejects(p, s)
      PROVE  TypeOK'
  <2>1. load' \in [Procs -> [Scripts -> LoadStates]]
    <3>1. PICK to \in LoadStates : load' = [load EXCEPT ![p][s] = to]
      BY <1>1 DEF ScriptLoad, LoadResolves, LoadRejects, LoadStates
    <3>2. QED
      BY <3>1 DEF TypeOK
  <2>2. loading' \in [Scripts -> Procs \cup {Nobody}]
    BY <1>1 DEF ScriptLoad, LoadResolves, LoadRejects, DropOwnEntry, TypeOK
  <2>3. QED
    BY <1>1, <2>1, <2>2 DEF ScriptLoad, LoadResolves, LoadRejects, TypeOK
<1>2. ASSUME p \in Inits, Loaded(p)
      PROVE  TypeOK'
  <2>1. PcTyped'
    <3>1. PICK to \in {"next", "failed"} : pc' = [pc EXCEPT ![p] = to]
      BY <1>2 DEF Loaded
    <3>2. QED
      BY <1>2, <3>1, CallsAssumption, MoveTyped DEF TypeOK, PcTyped, InitSteps
  <2>2. loading' \in [Scripts -> Procs \cup {Nobody}]
    BY <1>2 DEF Loaded, TypeOK
  <2>3. QED
    BY <1>2, <2>1, <2>2 DEF Loaded, TypeOK, PcTyped
<1>3. ASSUME p \in Inits, NextScript(p)
      PROVE  TypeOK'
  <2>1. next[p] + 1 \in Nat \ {0}
    BY <1>3 DEF TypeOK
  <2>2. QED
    BY <1>3, <2>1, LoopTyped DEF NextScript
<1>4. ASSUME p \in Calls, EvalSha(p) \/ NoScript(p) \/ Eval(p) \/ CommandFails(p) \/ TimesOut(p)
      PROVE  TypeOK'
  <2>1. PICK from, to \in CallSteps : Step(p, from, to)
    BY <1>4 DEF EvalSha, NoScript, Eval, CommandFails, TimesOut, CallSteps
  <2>2. cached' \subseteq Scripts /\ ran' \in [Calls -> Nat]
    <3>1. CASE EvalSha(p) \/ Eval(p)
      BY <1>4, <3>1, RunTyped DEF EvalSha, Eval
    <3>2. CASE NoScript(p) \/ CommandFails(p) \/ TimesOut(p)
      BY <3>2 DEF NoScript, CommandFails, TimesOut, TypeOK
    <3> QED
      BY <1>4, <3>1, <3>2
  <2>3. resent' \in [Calls -> 0..MaxResends]
    BY <1>4 DEF EvalSha, NoScript, Eval, CommandFails, TimesOut, TypeOK
  <2>4. late' \in [Calls -> {"none", "evalsha", "eval"}]
    <3>1. CASE TimesOut(p)
      <4>1. PICK command \in {"evalsha", "eval"} : late' = [late EXCEPT ![p] = command]
        BY <3>1 DEF TimesOut
      <4> QED
        BY <4>1 DEF TypeOK
    <3>2. CASE ~TimesOut(p)
      BY <1>4, <3>2 DEF EvalSha, NoScript, Eval, CommandFails, TypeOK
    <3> QED
      BY <3>1, <3>2
  <2> QED
    BY <1>4, <2>1, <2>2, <2>3, <2>4, StepTyped
<1>5. ASSUME p \in Calls, Reload(p)
      PROVE  TypeOK'
  <2>1. ScriptOf[p] \in Scripts
    BY <1>5, CallsAssumption
  <2>2. QED
    BY <1>5, <2>1, JoinTyped DEF Reload, TypeOK, PcTyped
<1>6. ASSUME p \in Calls, Reloaded(p)
      PROVE  TypeOK'
  <2>1. PICK to \in {"ok", "error"} : pc' = [pc EXCEPT ![p] = to]
    BY <1>6 DEF Reloaded
  <2>2. PcTyped'
    BY <1>6, <2>1, CallsAssumption, MoveTyped DEF TypeOK, PcTyped, CallSteps
  <2>3. QED
    BY <1>6, <2>2 DEF Reloaded, TypeOK, PcTyped
<1>7. QED
  BY <1>1, <1>2, <1>3, <1>4, <1>5, <1>6 DEF Proceed

LEMMA LateTyped ==
    ASSUME TypeOK, NEW c \in Calls, Resend(c) \/ LateRun(c)
    PROVE  TypeOK'
<1>1. cached' \subseteq Scripts /\ ran' \in [Calls -> Nat]
  BY RunTyped DEF Resend, LateRun
<1>2. resent' \in [Calls -> 0..MaxResends]
  BY AgainTyped DEF Resend, LateRun, TypeOK
<1>3. late' \in [Calls -> {"none", "evalsha", "eval"}]
  BY DEF Resend, LateRun, TypeOK
<1> QED
  BY <1>1, <1>2, <1>3 DEF Resend, LateRun, TypeOK

\* Every step of every call keeps the handler's maps well formed.
THEOREM TypeCorrect == Spec => []TypeOK
<1>1. Init => TypeOK
  <2> SUFFICES ASSUME Init
               PROVE  TypeOK
    OBVIOUS
  <2>1. PcTyped
    <3>1. "idle" \in InitSteps \cap CallSteps
      BY DEF InitSteps, CallSteps
    <3>2. QED
      BY <3>1 DEF Init, PcTyped, Procs
  <2>2. load \in [Procs -> [Scripts -> LoadStates]]
    BY DEF Init, LoadStates
  <2>3. /\ loading \in [Scripts -> Procs \cup {Nobody}]
        /\ awaited \in [Procs -> Procs \cup {Nobody}]
        /\ next \in [Inits -> Nat \ {0}]
        /\ ran \in [Calls -> Nat]
        /\ late \in [Calls -> {"none", "evalsha", "eval"}]
    BY DEF Init
  <2>4. flushes \in 0..MaxFlushes /\ resent \in [Calls -> 0..MaxResends]
    BY CallsAssumption DEF Init
  <2>5. QED
    BY <2>1, <2>2, <2>3, <2>4 DEF Init, TypeOK, PcTyped
<1>2. TypeOK /\ [Next]_vars => TypeOK'
  <2> SUFFICES ASSUME TypeOK, [Next]_vars
               PROVE  TypeOK'
    OBVIOUS
  <2> USE CallsAssumption
  <2>1. ASSUME NEW i \in Inits, Initialize(i)
        PROVE  TypeOK'
    <3>1. CASE pc' = [pc EXCEPT ![i] = "done"]
               /\ UNCHANGED <<initialized, loading, load, next, awaited>>
      <4>1. PcTyped'
        BY <3>1, MoveTyped DEF TypeOK, PcTyped, InitSteps, Procs
      <4>2. QED
        BY <2>1, <3>1, <4>1 DEF Initialize, TypeOK, PcTyped
    <3>2. CASE LoopFrom(i, 1)
      BY <2>1, <3>2, LoopTyped DEF Initialize
    <3>3. QED
      BY <2>1, <3>1, <3>2 DEF Initialize
  <2>2. ASSUME NEW c \in Calls, Execute(c)
        PROVE  TypeOK'
    <3>1. PICK to \in CallSteps : Step(c, "idle", to)
      BY <2>2 DEF Execute, CallSteps
    <3>2. QED
      BY <2>2, <3>1, StepTyped DEF Execute, TypeOK
  <2>3. ASSUME NEW p \in Procs, Proceed(p)
        PROVE  TypeOK'
    BY <2>3, ProceedTyped
  <2>4. CASE Flush
    BY <2>4 DEF Flush, TypeOK
  <2>5. CASE UNCHANGED vars
    BY <2>5 DEF vars, TypeOK
  <2>6. ASSUME NEW p \in Procs, NEW s \in Scripts, LateLoad(p, s)
        PROVE  TypeOK'
    <3>1. load' \in [Procs -> [Scripts -> LoadStates]]
      BY <2>6 DEF LateLoad, LoadStates, TypeOK
    <3> QED
      BY <2>6, <3>1 DEF LateLoad, TypeOK
  <2> QED
    BY <2>1, <2>2, <2>3, <2>4, <2>5, <2>6, LateTyped DEF Next
<1>3. QED
  BY <1>1, <1>2, PTL DEF Spec

-----------------------------------------------------------------------------
(* One load at a time *)

\* An entry is the load its owner runs now, and only such loads are in flight.
\* initialize keeps its entry until it resumes, a call until its load settles.
Entries ==
    /\ \A s \in Scripts, p \in Procs :
           /\ InFlight(p, s) => loading[s] = p
           /\ loading[s] = p =>
                 /\ pc[p] = "load" /\ load[p][s] # "none"
                 /\ p \in Inits => Configs[p][next[p]] = s
                 /\ p \in Calls => InFlight(p, s) /\ s = ScriptOf[p]
    /\ \A i \in Inits : pc[i] = "load" => loading[Configs[i][next[i]]] = i

\* A step of p that touches no load and no entry, and does not enter or leave
\* the step "load" of a call of initialize.
LEMMA EntriesQuiet ==
    ASSUME TypeOK, Entries, NEW p \in Procs, NEW to, to # "load",
           pc' = [pc EXCEPT ![p] = to], UNCHANGED <<load, loading>>,
           pc[p] = "load" => \A s \in Scripts : loading[s] # p,
           \A i \in Inits : i # p => next'[i] = next[i]
    PROVE  Entries'
<1>1. \A q \in Procs : pc'[q] = IF q = p THEN to ELSE pc[q]
  BY DEF TypeOK
<1>2. \A s \in Scripts : loading[s] # p
  BY DEF Entries
<1>3. QED
  BY <1>1, <1>2 DEF Entries, InFlight, Procs

LEMMA EntriesJoin ==
    ASSUME TypeOK, Entries, NEW p \in Procs, NEW s \in Scripts, LoadOrJoin(p, s),
           pc[p] # "load", p \in Inits => Configs[p][next'[p]] = s,
           p \in Calls => s = ScriptOf[p],
           \A i \in Inits : i # p => next'[i] = next[i]
    PROVE  Entries'
<1>1. CASE /\ loading[s] = Nobody
           /\ loading' = [loading EXCEPT ![s] = p]
           /\ load' = [load EXCEPT ![p][s] = "sent"]
           /\ pc' = [pc EXCEPT ![p] = "load"]
  <2> USE <1>1, CallsAssumption DEF TypeOK
  <2>1. \A t \in Scripts : loading'[t] = IF t = s THEN p ELSE loading[t]
    OBVIOUS
  <2>2. \A q \in Procs : pc'[q] = IF q = p THEN "load" ELSE pc[q]
    OBVIOUS
  <2>3. \A t \in Scripts, q \in Procs :
            load'[q][t] = IF q = p /\ t = s THEN "sent" ELSE load[q][t]
    OBVIOUS
  <2>4. \A q \in Procs : loading[s] # q /\ ~InFlight(q, s)
    BY DEF Procs, Entries
  <2>5. \A t \in Scripts : loading[t] # p /\ ~InFlight(p, t)
    BY DEF Entries
  <2> HIDE <1>1 DEF TypeOK
  <2>6. \A i \in Inits : i # p => (pc[i] = "load" => Configs[i][next[i]] # s)
    BY <2>4 DEF Entries, Procs
  <2>7. ASSUME NEW t \in Scripts, NEW q \in Procs
        PROVE  /\ InFlight(q, t)' => loading'[t] = q
               /\ loading'[t] = q =>
                     /\ pc'[q] = "load" /\ load'[q][t] # "none"
                     /\ q \in Inits => Configs[q][next'[q]] = t
                     /\ q \in Calls => InFlight(q, t)' /\ t = ScriptOf[q]
    BY <2>1, <2>2, <2>3, <2>4, <2>5 DEF Entries, InFlight
  <2>8. ASSUME NEW i \in Inits, pc'[i] = "load"
        PROVE  loading'[Configs[i][next'[i]]] = i
    <3>1. CASE i = p
      BY <2>1, <3>1
    <3>2. CASE i # p
      <4>1. loading[Configs[i][next[i]]] = i /\ Configs[i][next[i]] # s
        BY <2>2, <2>6, <2>8, <3>2 DEF Entries, Procs
      <4>2. QED
        BY <1>1, <3>2, <4>1 DEF TypeOK
    <3>3. QED
      BY <3>1, <3>2
  <2>9. QED
    BY <2>7, <2>8 DEF Entries
<1>2. CASE UNCHANGED <<loading, load>> /\ pc' = [pc EXCEPT ![p] = "join"]
  BY <1>2, EntriesQuiet
<1>3. QED
  BY <1>1, <1>2 DEF LoadOrJoin

LEMMA EntriesLoop ==
    ASSUME TypeOK, Entries, NEW i \in Inits, NEW k \in Nat \ {0}, LoopFrom(i, k),
           pc[i] # "load"
    PROVE  Entries'
<1>1. i \in Procs /\ next'[i] = k /\ \A j \in Inits : j # i => next'[j] = next[j]
  BY DEF Procs, LoopFrom, TypeOK
<1>2. CASE k <= Len(Configs[i]) /\ LoadOrJoin(i, Configs[i][k])
  <2>1. Configs[i][k] \in Scripts
    BY <1>2, CallsAssumption
  <2>2. QED
    BY <1>1, <1>2, <2>1, EntriesJoin, CallsAssumption
<1>3. CASE pc' = [pc EXCEPT ![i] = "done"] /\ UNCHANGED <<loading, load>>
  BY <1>1, <1>3, EntriesQuiet
<1>4. QED
  BY <1>2, <1>3 DEF LoopFrom

LEMMA EntriesStep ==
    ASSUME TypeOK, Entries, NEW c \in Calls, NEW from, NEW to, Step(c, from, to),
           from # "load", to # "load"
    PROVE  Entries'
  BY EntriesQuiet DEF Step, Procs

\* A load settles.
LEMMA EntriesSettle ==
    ASSUME TypeOK, Entries, NEW p \in Procs, NEW s \in Scripts,
           NEW to \in {"resolved", "rejected", "late"}, InFlight(p, s), load' = [load EXCEPT ![p][s] = to], DropOwnEntry(p, s),
           UNCHANGED <<pc, next>>
    PROVE  Entries'
<1>1. \A t \in Scripts, q \in Procs :
          load'[q][t] = IF q = p /\ t = s THEN to ELSE load[q][t]
  BY DEF TypeOK
<1>2. loading[s] = p /\ pc[p] = "load"
  BY DEF Entries
<1>3. CASE p \in Calls
  <2>1. loading' = [loading EXCEPT ![s] = Nobody] /\ p \notin Inits
    BY <1>3, CallsAssumption DEF DropOwnEntry
  <2>2. \A t \in Scripts : loading'[t] = IF t = s THEN Nobody ELSE loading[t]
    BY <2>1 DEF TypeOK
  <2>3. \A i \in Inits : pc[i] = "load" => Configs[i][next[i]] # s
    BY <1>2, <2>1 DEF Entries
  <2>4. \A i \in Inits : pc[i] = "load" => loading'[Configs[i][next[i]]] = i
    BY <2>1, <2>3 DEF Entries, TypeOK
  <2>5. \A q \in Procs : q # Nobody
    BY CallsAssumption DEF Procs
  <2>6. ASSUME NEW t \in Scripts, NEW q \in Procs
        PROVE  /\ InFlight(q, t)' => loading'[t] = q
               /\ loading'[t] = q =>
                     /\ pc'[q] = "load" /\ load'[q][t] # "none"
                     /\ q \in Inits => Configs[q][next'[q]] = t
                     /\ q \in Calls => InFlight(q, t)' /\ t = ScriptOf[q]
    <3>1. InFlight(q, t)' => InFlight(q, t) /\ ~(q = p /\ t = s)
      BY <1>1 DEF InFlight
    <3>2. InFlight(q, t)' => loading'[t] = q
      BY <1>2, <2>2, <3>1 DEF Entries
    <3>3. loading'[t] = q => loading[t] = q /\ t # s
      BY <2>2, <2>5
    <3>4. loading'[t] = q => load'[q][t] = load[q][t]
      BY <1>1, <3>3
    <3>5. ASSUME loading'[t] = q
          PROVE  /\ pc[q] = "load" /\ load'[q][t] # "none"
                 /\ q \in Inits => Configs[q][next[q]] = t
                 /\ q \in Calls => InFlight(q, t)' /\ t = ScriptOf[q]
      <4>1. loading[t] = q /\ load'[q][t] = load[q][t]
        BY <3>3, <3>4, <3>5
      <4>2. InFlight(q, t) => InFlight(q, t)'
        BY <4>1 DEF InFlight
      <4>3. QED
        BY <4>1, <4>2 DEF Entries
    <3>6. QED
      BY <3>2, <3>5
  <2>7. QED
    BY <2>4, <2>6 DEF Entries
<1>4. CASE p \notin Calls
  <2>1. loading' = loading
    BY <1>4 DEF DropOwnEntry
  <2>2. QED
    BY <1>1, <1>2, <1>4, <2>1 DEF Entries, InFlight
<1>5. QED
  BY <1>3, <1>4

\* initialize resumes after its own load and deletes the entry.
LEMMA EntriesLoaded ==
    ASSUME TypeOK, Entries, NEW i \in Inits, Loaded(i)
    PROVE  Entries'
<1> DEFINE s == Configs[i][next[i]]
<1>1. PICK to \in {"next", "failed"} : pc' = [pc EXCEPT ![i] = to]
  BY DEF Loaded
<1>2. i \in Procs /\ UNCHANGED <<load, next>>
  BY DEF Loaded, Procs
<1>3. CASE pc[i] = "join"
  BY <1>1, <1>2, <1>3, EntriesQuiet DEF Loaded
<1>4. CASE pc[i] = "load"
  <2>1. loading[s] = i
    BY <1>4 DEF Entries
  <2>2. Settled(i, s) /\ loading' = [loading EXCEPT ![s] = Nobody]
    BY <1>4 DEF Loaded, Resumable
  <2>3. \A t \in Scripts : loading'[t] = IF t = s THEN Nobody ELSE loading[t]
    BY <2>2 DEF TypeOK
  <2>4. \A q \in Procs : q # Nobody /\ pc'[q] = IF q = i THEN to ELSE pc[q]
    BY <1>1, CallsAssumption DEF TypeOK, Procs
  <2>5. \A t \in Scripts : loading'[t] # i /\ ~InFlight(i, t)
    BY <1>2, <2>2, <2>3, <2>4 DEF Entries, Settled, InFlight
  <2>6. \A j \in Inits : j # i => (pc[j] = "load" => Configs[j][next[j]] # s)
    BY <2>1 DEF Entries
  <2>7. \A j \in Inits : pc'[j] = "load" => loading'[Configs[j][next[j]]] = j
    <3> SUFFICES ASSUME NEW j \in Inits, pc'[j] = "load"
                 PROVE  loading'[Configs[j][next[j]]] = j
      OBVIOUS
    <3>1. j # i /\ pc[j] = "load"
      BY <2>4 DEF Procs
    <3>2. loading[Configs[j][next[j]]] = j /\ Configs[j][next[j]] # s
      BY <2>6, <3>1 DEF Entries
    <3>3. QED
      BY <2>2, <3>2 DEF TypeOK
  <2>8. ASSUME NEW t \in Scripts, NEW q \in Procs
        PROVE  /\ InFlight(q, t)' => loading'[t] = q
               /\ loading'[t] = q =>
                     /\ pc'[q] = "load" /\ load'[q][t] # "none"
                     /\ q \in Inits => Configs[q][next'[q]] = t
                     /\ q \in Calls => InFlight(q, t)' /\ t = ScriptOf[q]
    <3>1. CASE q = i
      BY <1>2, <2>5, <3>1 DEF InFlight
    <3>2. CASE q # i
      <4>1. InFlight(q, t) => loading'[t] = q
        BY <2>1, <2>3, <3>2 DEF Entries
      <4>2. loading'[t] = q => loading[t] = q
        BY <2>3, <2>4
      <4>3. QED
        BY <1>2, <2>4, <3>2, <4>1, <4>2 DEF Entries, InFlight
    <3>3. QED
      BY <3>1, <3>2
  <2>9. QED
    BY <1>2, <2>7, <2>8 DEF Entries
<1>5. QED
  BY <1>3, <1>4 DEF Loaded

LEMMA EntriesProceed ==
    ASSUME TypeOK, Entries, NEW p \in Procs, Proceed(p)
    PROVE  Entries'
<1> USE CallsAssumption
<1>1. ASSUME NEW s \in Scripts, ScriptLoad(p, s)
      PROVE  Entries'
  BY <1>1 DEF ScriptLoad, TypeOK, Entries, InFlight
<1>2. ASSUME NEW s \in Scripts, LoadResolves(p, s) \/ LoadRejects(p, s)
      PROVE  Entries'
  BY <1>2, EntriesSettle DEF LoadResolves, LoadRejects, InFlight
<1>3. ASSUME p \in Inits, Loaded(p)
      PROVE  Entries'
  BY <1>3, EntriesLoaded
<1>4. ASSUME p \in Inits, NextScript(p)
      PROVE  Entries'
  <2>1. next[p] + 1 \in Nat \ {0}
    BY <1>4 DEF TypeOK
  <2>2. QED
    BY <1>4, <2>1, EntriesLoop DEF NextScript
<1>5. ASSUME p \in Calls, EvalSha(p) \/ NoScript(p) \/ Eval(p) \/ CommandFails(p) \/ TimesOut(p)
      PROVE  Entries'
  <2>1. PICK from \in CallSteps \ {"load"}, to \in CallSteps \ {"load"} : Step(p, from, to)
    BY <1>5 DEF EvalSha, NoScript, Eval, CommandFails, TimesOut, CallSteps
  <2>2. QED
    BY <1>5, <2>1, EntriesStep
<1>6. ASSUME p \in Calls, Reload(p)
      PROVE  Entries'
  <2>1. ScriptOf[p] \in Scripts /\ p \notin Inits
    BY <1>6
  <2>2. QED
    BY <1>6, <2>1, EntriesJoin DEF Reload
<1>7. ASSUME p \in Calls, Reloaded(p)
      PROVE  Entries'
  <2>1. PICK to \in {"ok", "error"} : pc' = [pc EXCEPT ![p] = to]
    BY <1>7 DEF Reloaded
  <2>2. pc[p] = "load" => \A s \in Scripts : loading[s] # p
    <3> SUFFICES ASSUME pc[p] = "load", NEW s \in Scripts, loading[s] = p
                 PROVE  FALSE
      OBVIOUS
    <3>1. InFlight(p, s) /\ s = ScriptOf[p]
      BY <1>7 DEF Entries
    <3>2. QED
      BY <1>7, <3>1 DEF Reloaded, Resumable, Settled, InFlight
  <2>3. QED
    BY <1>7, <2>1, <2>2, EntriesQuiet DEF Reloaded
<1>8. QED
  BY <1>1, <1>2, <1>3, <1>4, <1>5, <1>6, <1>7 DEF Proceed

LEMMA EntriesNext ==
    ASSUME TypeOK, Entries, [Next]_vars
    PROVE  Entries'
<1>1. ASSUME NEW i \in Inits, Initialize(i)
      PROVE  Entries'
  <2>1. CASE LoopFrom(i, 1)
    BY <1>1, <2>1, EntriesLoop DEF Initialize
  <2>2. CASE pc' = [pc EXCEPT ![i] = "done"]
             /\ UNCHANGED <<initialized, loading, load, next, awaited>>
    BY <1>1, <2>2, EntriesQuiet DEF Initialize, Procs
  <2>3. QED
    BY <1>1, <2>1, <2>2 DEF Initialize
<1>2. ASSUME NEW c \in Calls, Execute(c)
      PROVE  Entries'
  <2>1. PICK to \in {"evalsha", "error"} : Step(c, "idle", to)
    BY <1>2 DEF Execute
  <2>2. QED
    BY <2>1, EntriesStep
<1>3. ASSUME NEW p \in Procs, Proceed(p)
      PROVE  Entries'
  BY <1>3, EntriesProceed
<1>4. CASE Flush \/ UNCHANGED vars
  BY <1>4 DEF Flush, vars, Entries, InFlight
<1>5. ASSUME NEW p \in Procs, NEW s \in Scripts, LateLoad(p, s)
      PROVE  Entries'
  <2>1. \A q \in Procs, t \in Scripts :
            load'[q][t] = IF q = p /\ t = s THEN "rejected" ELSE load[q][t]
    BY <1>5 DEF LateLoad, TypeOK
  <2>2. load[p][s] = "late" /\ UNCHANGED <<loading, pc, next>>
    BY <1>5 DEF LateLoad
  <2> QED
    BY <2>1, <2>2 DEF Entries, InFlight
<1>6. ASSUME NEW c \in Calls, Resend(c) \/ LateRun(c)
      PROVE  Entries'
  BY <1>6 DEF Resend, LateRun, Entries, InFlight
<1> QED
  BY <1>1, <1>2, <1>3, <1>4, <1>5, <1>6 DEF Next

\* The entries of _loading belong to the calls that run their loads
\* (strengthening of the theorems below).
THEOREM EntriesHold == Spec => []Entries
<1>1. Init => Entries
  BY CallsAssumption DEF Init, Entries, InFlight, Procs
<1>2. TypeOK /\ Entries /\ [Next]_vars => Entries'
  BY EntriesNext
<1>3. QED
  BY <1>1, <1>2, TypeCorrect, PTL DEF Spec

\* No finally block deletes the entry of another call's load, and a load that
\* has settled is not joined any more.
THEOREM EntriesStayLive == Spec => []EntriesAreLive
<1>1. Entries => EntriesAreLive
  BY DEF Entries, EntriesAreLive
<1>2. QED
  BY <1>1, EntriesHold, PTL

\* At any time at most one SCRIPT LOAD of a script is under way.
THEOREM LoadsAreSingle == Spec => []SingleFlight
<1>1. Entries => SingleFlight
  BY DEF Entries, SingleFlight
<1>2. QED
  BY <1>1, EntriesHold, PTL

-----------------------------------------------------------------------------
(* One run of the script per call *)

\* Which steps come before the last run of the script, and which after.
RunsByStep ==
    \A c \in Calls :
        /\ ran[c] <= 1 + resent[c]
        /\ pc[c] \in {"ok", "evaled", "load", "join"} => ran[c] >= 1
        /\ pc[c] \in {"idle", "evalsha", "eval"} => ran[c] <= resent[c]
        /\ late[c] # "none" => ran[c] <= resent[c]
        /\ late[c] # "none" => pc[c] = "error"

Runs == TypeOK /\ RunsByStep

LEMMA Counts ==
    ASSUME TypeOK, NEW c \in Calls
    PROVE  ran[c] \in Nat /\ resent[c] \in Nat
  BY CallsAssumption DEF TypeOK

LEMMA RunsStep ==
    ASSUME Runs, NEW c \in Calls, NEW from, NEW to, Step(c, from, to),
           \A d \in Calls : d # c => ran'[d] = ran[d] /\ late'[d] = late[d],
           resent' = resent, ran'[c] <= 1 + resent[c],
           to \in {"ok", "evaled"} => ran'[c] >= 1,
           to \in {"evalsha", "eval"} => ran'[c] <= resent[c],
           late'[c] # "none" => ran'[c] <= resent[c] /\ to = "error",
           to \notin {"idle", "load", "join"}
    PROVE  RunsByStep'
<1>1. \A d \in Calls : pc'[d] = IF d = c THEN to ELSE pc[d]
  BY DEF Step, Runs, TypeOK, Procs
<1>2. QED
  BY <1>1 DEF Runs, RunsByStep

\* Redis runs the script of a call whose command is under way.
LEMMA RunCounted ==
    ASSUME Runs, NEW c \in Calls, NEW command, RedisRuns(c, command)
    PROVE  /\ ran'[c] = ran[c] + 1
           /\ \A d \in Calls : d # c => ran'[d] = ran[d]
  BY DEF RedisRuns, Runs, TypeOK

LEMMA RunsNext ==
    ASSUME Runs, [Next]_vars
    PROVE  RunsByStep'
<1> USE CallsAssumption
<1>1. ASSUME NEW i \in Inits, Initialize(i) \/ Loaded(i) \/ NextScript(i)
      PROVE  RunsByStep'
  <2>1. UNCHANGED <<ran, resent, late>> /\ \A c \in Calls : pc'[c] = pc[c]
    BY <1>1 DEF Initialize, Loaded, NextScript, LoopFrom, LoadOrJoin, Runs, TypeOK, Procs
  <2>2. QED
    BY <2>1 DEF Runs, RunsByStep
<1>2. ASSUME NEW p \in Procs, NEW s \in Scripts,
             ScriptLoad(p, s) \/ LoadResolves(p, s) \/ LoadRejects(p, s) \/ LateLoad(p, s)
      PROVE  RunsByStep'
  BY <1>2 DEF ScriptLoad, LoadResolves, LoadRejects, LateLoad, Runs, RunsByStep
<1>3. ASSUME NEW c \in Calls, EvalSha(c) \/ Eval(c)
      PROVE  RunsByStep'
  <2>1. PICK from \in {"evalsha", "eval"}, to \in {"ok", "error", "evaled"} :
            Step(c, from, to) /\ RedisRuns(c, from) /\ UNCHANGED <<resent, late>>
    BY <1>3 DEF EvalSha, Eval
  <2>2. pc[c] = from /\ ran[c] <= resent[c] /\ late[c] = "none"
    BY <2>1 DEF Step, Runs, RunsByStep
  <2>3. ran'[c] = ran[c] + 1 /\ \A d \in Calls : d # c => ran'[d] = ran[d]
    BY <2>1, RunCounted
  <2>4. ran[c] \in Nat /\ resent[c] \in Nat
    BY Counts DEF Runs
  <2>5. ran'[c] >= 1 /\ ran'[c] <= 1 + resent[c]
    BY <2>2, <2>3, <2>4
  <2> HIDE CallsAssumption
  <2> QED
    BY <2>1, <2>2, <2>3, <2>5, RunsStep
<1>4. ASSUME NEW c \in Calls, Execute(c) \/ NoScript(c) \/ CommandFails(c) \/ TimesOut(c)
      PROVE  RunsByStep'
  <2>1. PICK from \in {"idle", "evalsha", "eval"}, to \in {"evalsha", "eval", "error"} :
            Step(c, from, to)
    BY <1>4 DEF Execute, NoScript, CommandFails, TimesOut
  <2>2. UNCHANGED <<ran, resent>> /\ ran[c] <= resent[c] /\ late[c] = "none"
    BY <1>4, <2>1 DEF Execute, NoScript, CommandFails, TimesOut, Step, Runs, RunsByStep
  <2>3. /\ late' = late \/ to = "error"
        /\ \A d \in Calls : d # c => late'[d] = late[d]
    <3>1. CASE TimesOut(c)
      <4>1. PICK command : Step(c, command, "error") /\ late' = [late EXCEPT ![c] = command]
        BY <3>1 DEF TimesOut
      <4>2. to = "error"
        BY <2>1, <4>1 DEF Step, Runs, TypeOK, Procs
      <4> QED
        BY <4>1, <4>2 DEF Runs, TypeOK
    <3>2. CASE ~TimesOut(c)
      BY <1>4, <3>2 DEF Execute, NoScript, CommandFails
    <3> QED
      BY <3>1, <3>2
  <2>4. ran[c] \in Nat /\ resent[c] \in Nat
    BY Counts DEF Runs
  <2>5. ran'[c] <= 1 + resent[c]
    BY <2>2, <2>4
  <2> HIDE CallsAssumption
  <2>6. QED
    BY <2>1, <2>2, <2>3, <2>5, RunsStep
<1>5. ASSUME NEW c \in Calls, Reload(c) \/ Reloaded(c)
      PROVE  RunsByStep'
  <2>1. UNCHANGED <<ran, resent, late>> /\ ran[c] >= 1 /\ late[c] = "none"
    BY <1>5 DEF Reload, Reloaded, Runs, RunsByStep
  <2>2. \A d \in Calls : d # c => pc'[d] = pc[d]
    BY <1>5 DEF Reload, Reloaded, LoadOrJoin, Runs, TypeOK, Procs
  <2>3. pc'[c] \in {"load", "join", "ok", "error"}
    BY <1>5 DEF Reload, Reloaded, LoadOrJoin, Runs, TypeOK, Procs
  <2>4. QED
    BY <2>1, <2>2, <2>3 DEF Runs, RunsByStep
<1>6. CASE Flush \/ UNCHANGED vars
  BY <1>6 DEF Flush, vars, Runs, RunsByStep
<1>7. ASSUME NEW c \in Calls, Resend(c) \/ LateRun(c)
      PROVE  RunsByStep'
  <2>1. PICK command : RedisRuns(c, command)
    BY <1>7 DEF Resend, LateRun
  <2>2. ran'[c] = ran[c] + 1 /\ \A d \in Calls : d # c => ran'[d] = ran[d]
    BY <2>1, RunCounted
  <2>3. /\ pc[c] \in {"evalsha", "eval", "error"} /\ ran[c] <= resent[c] /\ pc' = pc
        /\ late[c] # "none" => pc[c] = "error"
    BY <1>7 DEF Resend, LateRun, Runs, RunsByStep
  <2>4. /\ \A d \in Calls : d # c => resent'[d] = resent[d] /\ late'[d] = late[d]
        /\ \/ resent'[c] = resent[c] + 1 /\ late'[c] = late[c]
           \/ resent'[c] = resent[c] /\ late'[c] = "none" /\ pc[c] = "error"
    BY <1>7, <2>3 DEF Resend, LateRun, SendAgain, Runs, RunsByStep, TypeOK
  <2>5. ran[c] \in Nat /\ resent[c] \in Nat
    BY Counts DEF Runs
  <2> HIDE CallsAssumption
  <2>6. ASSUME NEW d \in Calls, d # c
        PROVE  /\ ran'[d] = ran[d] /\ resent'[d] = resent[d]
               /\ late'[d] = late[d] /\ pc'[d] = pc[d]
    BY <2>2, <2>3, <2>4, <2>6
  <2>7. /\ ran'[c] <= 1 + resent'[c]
        /\ pc'[c] \notin {"ok", "evaled", "load", "join", "idle"}
        /\ pc'[c] \in {"evalsha", "eval"} => ran'[c] <= resent'[c]
        /\ late'[c] # "none" => ran'[c] <= resent'[c]
        /\ late'[c] # "none" => pc'[c] = "error"
    BY <2>2, <2>3, <2>4, <2>5
  <2> QED
    BY <2>6, <2>7 DEF Runs, RunsByStep
<1> QED
  BY <1>1, <1>2, <1>3, <1>4, <1>5, <1>6, <1>7 DEF Next, Proceed

\* The steps of a call tell how often its script was run.
THEOREM RunsHold == Spec => []RunsByStep
<1>1. Init => RunsByStep
  BY DEF Init, RunsByStep, Procs
<1>2. TypeOK /\ RunsByStep /\ [Next]_vars => RunsByStep'
  BY RunsNext DEF Runs
<1>3. QED
  BY <1>1, <1>2, TypeCorrect, PTL DEF Spec

\* A call has its script run once, and once more for each time ioredis sends its
\* command again after it lost a reply: neither the recovery from a lost script
\* cache nor a timeout, after which the command may still run, adds a run.
THEOREM RunsAreCounted == Spec => []OneRunPerSend
<1>1. RunsByStep => OneRunPerSend
  BY DEF RunsByStep, OneRunPerSend
<1>2. QED
  BY <1>1, RunsHold, PTL

\* A call that returns a result has run its script, in recovery too.
THEOREM ResultsComeFromRuns == Spec => []ResultsAreReal
<1>1. RunsByStep => ResultsAreReal
  BY DEF RunsByStep, ResultsAreReal
<1>2. QED
  BY <1>1, RunsHold, PTL

-----------------------------------------------------------------------------
(* What initialize promises when all its callers pass the same names *)

SameNames == \A i, j \in Inits : Names(i) = Names(j)

Past(i, k) == \A j \in DOMAIN Configs[i] : j < k => Configs[i][j] \in scripts

\* The registered scripts cover what each call has loaded so far; a call of
\* execute that got past its first check names a registered script.
LoadedInv ==
    /\ \A p \in Procs, s \in Scripts : load[p][s] = "resolved" => s \in scripts
    /\ \A c \in Calls, s \in Scripts : load[c][s] # "none" => s \in scripts
    /\ \A c \in Calls : pc[c] \notin {"idle", "error"} => ScriptOf[c] \in scripts
    /\ \A c \in Calls : late[c] # "none" => ScriptOf[c] \in scripts
    /\ \A i \in Inits :
           /\ pc[i] \in {"load", "join"} => next[i] \in DOMAIN Configs[i] /\ Past(i, next[i])
           /\ pc[i] = "next" => Past(i, next[i] + 1)
           /\ pc[i] = "join" => awaited[i] \in Procs
           /\ pc[i] = "done" => Names(i) \subseteq scripts
           /\ initialized => Names(i) \subseteq scripts

LEMMA LoadedLoop ==
    ASSUME SameNames, TypeOK, LoadedInv, NEW i \in Inits, NEW k \in Nat \ {0},
           LoopFrom(i, k), Past(i, k), scripts' = scripts, late' = late
    PROVE  LoadedInv'
<1> USE CallsAssumption
<1>1. i \in Procs /\ i \notin Calls /\ next'[i] = k
      /\ \A j \in Inits : j # i => next'[j] = next[j]
  BY DEF LoopFrom, TypeOK, Procs
<1>2. CASE k <= Len(Configs[i]) /\ LoadOrJoin(i, Configs[i][k]) /\ UNCHANGED initialized
  <2>1. k \in DOMAIN Configs[i] /\ Configs[i][k] \in Scripts
    BY <1>2
  <2>2. \A p \in Procs, s \in Scripts :
            load'[p][s] = load[p][s] \/ (p = i /\ load'[p][s] = "sent")
    <3>1. load \in [Procs -> [Scripts -> LoadStates]]
      BY DEF TypeOK
    <3>2. load' = load \/ load' = [load EXCEPT ![i][Configs[i][k]] = "sent"]
      BY <1>2 DEF LoadOrJoin
    <3> HIDE CallsAssumption
    <3> QED
      BY <3>1, <3>2, <1>1, <2>1
  <2>3. pc'[i] \in {"load", "join"} /\ \A q \in Procs : q # i => pc'[q] = pc[q]
    BY <1>1, <1>2 DEF LoadOrJoin, TypeOK
  <2>4. \A j \in Inits : j # i => awaited'[j] = awaited[j]
    BY <1>2 DEF LoadOrJoin, TypeOK, Procs
  <2>5. pc'[i] = "join" => awaited'[i] \in Procs
    BY <1>1, <1>2, <2>1 DEF LoadOrJoin, TypeOK
  <2>6. \A j \in Inits : Past(j, next[j])' <=> IF j = i THEN Past(i, k) ELSE Past(j, next[j])
    BY <1>1 DEF Past
  <2>7. /\ \A p \in Procs, s \in Scripts : load'[p][s] = "resolved" => s \in scripts
        /\ \A c \in Calls, s \in Scripts : load'[c][s] # "none" => s \in scripts
        /\ \A c \in Calls : pc'[c] \notin {"idle", "error"} => ScriptOf[c] \in scripts
    BY <1>1, <2>2, <2>3 DEF LoadedInv, Procs
  <2>8. ASSUME NEW j \in Inits
        PROVE  /\ pc'[j] \in {"load", "join"} =>
                      next'[j] \in DOMAIN Configs[j] /\ Past(j, next[j])'
               /\ pc'[j] = "next" => Past(j, next[j] + 1)'
               /\ pc'[j] = "join" => awaited'[j] \in Procs
               /\ pc'[j] = "done" => Names(j) \subseteq scripts
               /\ initialized' => Names(j) \subseteq scripts
    <3>1. CASE j = i
      BY <1>1, <1>2, <2>1, <2>3, <2>5, <2>6, <3>1 DEF LoadedInv
    <3>2. CASE j # i
      BY <1>1, <1>2, <2>3, <2>4, <2>6, <3>2 DEF LoadedInv, Past, Procs
    <3> QED
      BY <3>1, <3>2
  <2> QED
    BY <2>7, <2>8 DEF LoadedInv
<1>3. CASE /\ k > Len(Configs[i]) /\ initialized' = TRUE
           /\ pc' = [pc EXCEPT ![i] = "done"]
           /\ UNCHANGED <<loading, load, awaited>>
  <2>1. \A j \in DOMAIN Configs[i] : Configs[i][j] \in scripts
    <3>1. Len(Configs[i]) \in Nat /\ DOMAIN Configs[i] = 1..Len(Configs[i])
      OBVIOUS
    <3>2. QED
      BY <1>3, <3>1 DEF Past
  <2>2. \A j \in Inits : Names(j) \subseteq scripts
    <3>1. Names(i) \subseteq scripts
      BY <2>1 DEF Names
    <3>2. ASSUME NEW j \in Inits
          PROVE  Names(j) = Names(i)
      BY DEF SameNames
    <3>3. QED
      BY <3>1, <3>2
  <2>3. \A q \in Procs : pc'[q] = IF q = i THEN "done" ELSE pc[q]
    BY <1>1, <1>3 DEF TypeOK
  <2>4. QED
    BY <1>1, <1>3, <2>2, <2>3 DEF LoadedInv, Past, Procs
<1>4. QED
  BY <1>2, <1>3 DEF LoopFrom

\* A step that only moves the program counter of one call.
LEMMA LoadedQuiet ==
    ASSUME TypeOK, LoadedInv, NEW p \in Procs, NEW to,
           pc' = [pc EXCEPT ![p] = to], UNCHANGED <<scripts, load, next, awaited, initialized>>,
           \A c \in Calls : late'[c] \in {late[c], "none"} \/ ScriptOf[c] \in scripts,
           p \in Calls => to = "error" \/ ScriptOf[p] \in scripts,
           p \in Inits => to \in {"next", "done", "failed"},
           p \in Inits => (to = "next" => Past(p, next[p] + 1)),
           p \in Inits => (to = "done" => Names(p) \subseteq scripts)
    PROVE  LoadedInv'
<1>1. \A q \in Procs : pc'[q] = IF q = p THEN to ELSE pc[q]
  BY DEF TypeOK
<1>2. QED
  BY <1>1 DEF LoadedInv, Past, Procs

LEMMA LoadedNext ==
    ASSUME SameNames, TypeOK, LoadedInv, [Next]_vars
    PROVE  LoadedInv'
<1> USE CallsAssumption
<1>1. ASSUME NEW i \in Inits, Initialize(i)
      PROVE  LoadedInv'
  <2>1. CASE LoopFrom(i, 1)
    <3>1. Past(i, 1)
      BY DEF Past
    <3>2. QED
      BY <1>1, <2>1, <3>1, LoadedLoop DEF Initialize
  <2>2. CASE initialized /\ pc' = [pc EXCEPT ![i] = "done"]
             /\ UNCHANGED <<initialized, loading, load, next, awaited>>
    BY <1>1, <2>2, LoadedQuiet DEF Initialize, LoadedInv, Procs
  <2>3. QED
    BY <1>1, <2>1, <2>2 DEF Initialize
<1>2. ASSUME NEW p \in Procs, NEW s \in Scripts,
             ScriptLoad(p, s) \/ LoadResolves(p, s) \/ LoadRejects(p, s) \/ LateLoad(p, s)
      PROVE  LoadedInv'
  <2>1. /\ UNCHANGED <<initialized, next, pc, awaited, late>>
        /\ scripts \subseteq scripts'
        /\ load[p][s] # "none"
    BY <1>2 DEF ScriptLoad, LoadResolves, LoadRejects, LateLoad, InFlight
  <2>2. \A q \in Procs, t \in Scripts : q # p \/ t # s => load'[q][t] = load[q][t]
    BY <1>2 DEF ScriptLoad, LoadResolves, LoadRejects, LateLoad, TypeOK
  <2>3. load'[p][s] = "resolved" => s \in scripts'
    <3>1. CASE LoadResolves(p, s)
      BY <3>1 DEF LoadResolves, LoadedInv, Procs
    <3>2. CASE ScriptLoad(p, s) \/ LoadRejects(p, s) \/ LateLoad(p, s)
      BY <3>2 DEF ScriptLoad, LoadRejects, LateLoad, TypeOK
    <3>3. QED
      BY <1>2, <3>1, <3>2
  <2>4. QED
    BY <2>1, <2>2, <2>3 DEF LoadedInv, Past, Procs
<1>3. ASSUME NEW i \in Inits, Loaded(i)
      PROVE  LoadedInv'
  <2> DEFINE s == Configs[i][next[i]]
  <2>1. PICK to \in {"next", "failed"} : pc' = [pc EXCEPT ![i] = to]
            /\ (to = "next" => load[Owner(i)][s] = "resolved")
    BY <1>3 DEF Loaded
  <2>2. i \in Procs /\ Owner(i) \in Procs /\ s \in Scripts
    BY <1>3 DEF Loaded, Owner, LoadedInv, Procs
  <2>3. to = "next" => s \in scripts
    BY <2>1, <2>2 DEF LoadedInv
  <2>4. to = "next" => Past(i, next[i] + 1)
    <3>1. DOMAIN Configs[i] \subseteq Nat /\ next[i] \in Nat /\ Past(i, next[i])
      BY <1>3 DEF Loaded, LoadedInv, TypeOK
    <3>2. QED
      BY <2>3, <3>1 DEF Past
  <2>5. QED
    BY <1>3, <2>1, <2>2, <2>4, LoadedQuiet DEF Loaded
<1>4. ASSUME NEW i \in Inits, NextScript(i)
      PROVE  LoadedInv'
  <2>1. next[i] + 1 \in Nat \ {0} /\ Past(i, next[i] + 1)
    BY <1>4 DEF NextScript, LoadedInv, TypeOK
  <2>2. QED
    BY <1>4, <2>1, LoadedLoop DEF NextScript
<1>5. ASSUME NEW c \in Calls,
             \/ Execute(c) \/ EvalSha(c) \/ NoScript(c) \/ Eval(c)
             \/ CommandFails(c) \/ TimesOut(c)
      PROVE  LoadedInv'
  <2>1. PICK from \in CallSteps, to \in CallSteps : Step(c, from, to)
            /\ \/ to = "error"
               \/ from \notin {"idle", "error"}
               \/ ScriptOf[c] \in scripts
            /\ scripts' = scripts
    BY <1>5 DEF Execute, EvalSha, NoScript, CommandFails, TimesOut, Eval, Step, CallSteps
  <2>2. to = "error" \/ ScriptOf[c] \in scripts
    BY <2>1 DEF Step, LoadedInv
  <2>3. \A d \in Calls : late'[d] \in {late[d], "none"} \/ ScriptOf[d] \in scripts
    <3>1. CASE TimesOut(c)
      <4>1. pc[c] \in {"evalsha", "eval"} /\ \A d \in Calls : d # c => late'[d] = late[d]
        BY <3>1 DEF TimesOut, Step, TypeOK
      <4>2. ScriptOf[c] \in scripts
        BY <4>1 DEF LoadedInv
      <4> QED
        BY <4>1, <4>2
    <3>2. CASE ~TimesOut(c)
      BY <1>5, <3>2 DEF Execute, EvalSha, NoScript, CommandFails, Eval
    <3> QED
      BY <3>1, <3>2
  <2> QED
    BY <2>1, <2>2, <2>3, LoadedQuiet DEF Step, Procs
<1>6. ASSUME NEW c \in Calls, Reload(c)
      PROVE  LoadedInv'
  <2>1. ScriptOf[c] \in scripts /\ ScriptOf[c] \in Scripts
    BY <1>6 DEF Reload, LoadedInv
  <2>2. \A p \in Procs, t \in Scripts :
            load'[p][t] = load[p][t] \/ (p = c /\ t = ScriptOf[c])
    BY <1>6, <2>1 DEF Reload, LoadOrJoin, TypeOK, Procs
  <2>3. \A i \in Inits : pc'[i] = pc[i] /\ awaited'[i] = awaited[i]
    BY <1>6 DEF Reload, LoadOrJoin, TypeOK, Procs
  <2>4. \A d \in Calls : d # c => pc'[d] = pc[d]
    BY <1>6 DEF Reload, LoadOrJoin, TypeOK, Procs
  <2>5. UNCHANGED <<initialized, scripts, next, late>>
    BY <1>6 DEF Reload
  <2>6. QED
    BY <2>1, <2>2, <2>3, <2>4, <2>5 DEF LoadedInv, Past, Procs
<1>7. ASSUME NEW c \in Calls, Reloaded(c)
      PROVE  LoadedInv'
  <2>1. PICK to \in {"ok", "error"} : pc' = [pc EXCEPT ![c] = to]
    BY <1>7 DEF Reloaded
  <2>2. ScriptOf[c] \in scripts
    BY <1>7 DEF Reloaded, LoadedInv
  <2>3. QED
    BY <1>7, <2>1, <2>2, LoadedQuiet DEF Reloaded, Procs
<1>8. CASE Flush \/ UNCHANGED vars
  BY <1>8 DEF Flush, vars, LoadedInv, Past
<1>9. ASSUME NEW c \in Calls, Resend(c) \/ LateRun(c)
      PROVE  LoadedInv'
  <2>1. /\ UNCHANGED <<initialized, scripts, load, next, pc, awaited>>
        /\ \A d \in Calls : late'[d] \in {late[d], "none"}
    BY <1>9 DEF Resend, LateRun, TypeOK
  <2> QED
    BY <2>1 DEF LoadedInv, Past
<1> QED
  BY <1>1, <1>2, <1>3, <1>4, <1>5, <1>6, <1>7, <1>8, <1>9 DEF Next, Proceed

\* When every caller configures the same scripts, initialize keeps its promise
\* however its calls overlap and whichever loads fail and are tried again.
THEOREM SameConfigsAreLoaded ==
    ASSUME SameNames
    PROVE  Spec => []InitializedLoadsAll
<1>1. Init => LoadedInv
  BY DEF Init, LoadedInv, Procs
<1>2. TypeOK /\ LoadedInv /\ [Next]_vars => LoadedInv'
  BY LoadedNext
<1>3. LoadedInv => InitializedLoadsAll
  BY DEF LoadedInv, InitializedLoadsAll
<1>4. QED
  BY <1>1, <1>2, <1>3, TypeCorrect, PTL DEF Spec

-----------------------------------------------------------------------------
(* The handler as a service *)

Loads == {l \in Procs \X Scripts : InFlight(l[1], l[2])}
Answers == [p \in Procs |-> AnswerAt(pc[p])]

\* All that the refinement rests on.
ServiceInv == TypeOK /\ Entries /\ RunsByStep /\ LoadedInv

\* A step of p that leaves its answer alone leaves all answers alone.
LEMMA AnswersMove ==
    ASSUME TypeOK, NEW p \in Procs, NEW to, pc' = [pc EXCEPT ![p] = to]
    PROVE  /\ Answers' = [Answers EXCEPT ![p] = AnswerAt(to)]
           /\ AnswerAt(to) = AnswerAt(pc[p]) => Answers' = Answers
<1>1. Answers' = [q \in Procs |-> AnswerAt(pc'[q])]
  BY DEF Answers
<1>2. \A q \in Procs : pc'[q] = IF q = p THEN to ELSE pc[q]
  BY DEF TypeOK
<1>3. \A q \in Procs :
          AnswerAt(pc'[q]) = IF q = p THEN AnswerAt(to) ELSE AnswerAt(pc[q])
  BY <1>2 DEF AnswerAt
<1>4. Answers' = [Answers EXCEPT ![p] = AnswerAt(to)]
  BY <1>1, <1>3 DEF Answers
<1>5. ASSUME AnswerAt(to) = AnswerAt(pc[p])
      PROVE  Answers' = Answers
  BY <1>1, <1>3, <1>5 DEF Answers
<1> QED
  BY <1>4, <1>5

LEMMA LoadsKept == load' = load => Loads' = Loads
  BY DEF Loads, InFlight

\* A load begins, or a call joins one that is under way.
LEMMA ServiceJoin ==
    ASSUME ServiceInv, NEW p \in Procs, NEW s \in Scripts, LoadOrJoin(p, s),
           AnswerAt(pc[p]) = "none", UNCHANGED <<scripts, ran, resent>>
    PROVE  Service!BeginLoad(p, s) \/ UNCHANGED Service!vars
<1> USE DEF ServiceInv
<1>1. Answers' = Answers
  <2>1. AnswerAt("load") = "none" /\ AnswerAt("join") = "none"
    BY DEF AnswerAt
  <2>2. PICK to \in {"load", "join"} : pc' = [pc EXCEPT ![p] = to]
    BY DEF LoadOrJoin
  <2> QED
    BY <2>1, <2>2, AnswersMove
<1>3. CASE loading[s] = Nobody /\ load' = [load EXCEPT ![p][s] = "sent"]
  <2>1. \A l \in Loads : l[2] # s
    <3> SUFFICES ASSUME NEW l \in Loads, l[2] = s
                 PROVE  FALSE
      OBVIOUS
    <3>1. l[1] \in Procs /\ InFlight(l[1], s)
      BY DEF Loads
    <3>2. loading[s] = l[1]
      BY <3>1 DEF Entries
    <3> QED
      BY <1>3, <3>1, <3>2, CallsAssumption DEF Procs
  <2>2. \A q \in Procs, t \in Scripts :
            load'[q][t] = IF q = p /\ t = s THEN "sent" ELSE load[q][t]
    BY <1>3 DEF TypeOK
  <2>3. Loads' = Loads \cup {<<p, s>>}
    <3>1. \A q \in Procs, t \in Scripts :
              InFlight(q, t)' <=> InFlight(q, t) \/ <<q, t>> = <<p, s>>
      BY <2>2 DEF InFlight
    <3> QED
      BY <3>1 DEF Loads
  <2> QED
    BY <1>1, <2>1, <2>3 DEF Service!BeginLoad, Loads, Answers
<1>4. CASE load' = load
  BY <1>1, <1>4, LoadsKept DEF Service!vars, Loads, Answers
<1> QED
  BY <1>3, <1>4 DEF LoadOrJoin

LEMMA ServiceLoop ==
    ASSUME ServiceInv, NEW i \in Inits, NEW k \in Nat \ {0}, LoopFrom(i, k), Past(i, k),
           AnswerAt(pc[i]) = "none", UNCHANGED <<scripts, ran, resent>>
    PROVE  Service!Next \/ UNCHANGED Service!vars
<1> USE DEF ServiceInv
<1>1. i \in Procs
  BY DEF Procs
<1>2. CASE k <= Len(Configs[i]) /\ LoadOrJoin(i, Configs[i][k])
  <2>1. Configs[i][k] \in Scripts
    BY <1>2, CallsAssumption
  <2>2. Service!BeginLoad(i, Configs[i][k]) \/ UNCHANGED Service!vars
    BY <1>1, <1>2, <2>1, ServiceJoin
  <2> QED
    BY <1>1, <2>1, <2>2 DEF Service!Next, Procs
<1>3. CASE /\ k > Len(Configs[i])
           /\ pc' = [pc EXCEPT ![i] = "done"]
           /\ UNCHANGED <<loading, load, awaited>>
  <2>1. Names(i) \subseteq scripts
    <3>1. Configs[i] \in Seq(Scripts)
      BY CallsAssumption
    <3>2. \A j \in DOMAIN Configs[i] : Configs[i][j] \in scripts
      BY <1>3, <3>1 DEF Past
    <3> QED
      BY <3>2 DEF Names
  <2>2. Answers' = [Answers EXCEPT ![i] = "returned"] /\ Answers[i] = "none"
    BY <1>1, <1>3, AnswersMove DEF AnswerAt, Answers
  <2>3. Service!Initialized(i)
    BY <1>3, <2>1, <2>2, LoadsKept
       DEF Service!Initialized, Service!Answer, Loads, Answers
  <2> QED
    BY <2>3 DEF Service!Next
<1> QED
  BY <1>2, <1>3 DEF LoopFrom

\* Steps of a call that run no script.
LEMMA ServiceMove ==
    ASSUME ServiceInv, NEW p \in Procs, NEW to, pc' = [pc EXCEPT ![p] = to],
           AnswerAt(pc[p]) = "none", UNCHANGED <<scripts, load, ran, resent>>,
           AnswerAt(to) = "returned" => p \in Calls /\ ran[p] > 0
    PROVE  Service!Next \/ UNCHANGED Service!vars
<1> USE DEF ServiceInv
<1>1. Loads' = Loads
  BY LoadsKept
<1>2. Answers' = [Answers EXCEPT ![p] = AnswerAt(to)] /\ Answers[p] = "none"
  BY AnswersMove DEF Answers
<1>3. AnswerAt(to) \in {"returned", "threw", "none"}
  BY DEF AnswerAt
<1>4. CASE AnswerAt(to) = "none"
  <2>1. Answers' = Answers
    BY <1>4, AnswersMove
  <2> QED
    BY <1>1, <2>1 DEF Service!vars, Loads, Answers
<1>5. CASE AnswerAt(to) = "threw"
  <2>1. Service!Throw(p)
    BY <1>1, <1>2, <1>5 DEF Service!Throw, Service!Answer, Loads, Answers
  <2> QED
    BY <2>1 DEF Service!Next, Procs
<1>6. CASE AnswerAt(to) = "returned"
  <2>2. Service!Return(p)
    BY <1>1, <1>2, <1>6 DEF Service!Return, Service!Answer, Loads, Answers
  <2> QED
    BY <1>6, <2>2 DEF Service!Next
<1> QED
  BY <1>3, <1>4, <1>5, <1>6

\* Redis runs the script of a call whose command is under way.
LEMMA ServiceRunScript ==
    ASSUME ServiceInv, NEW c \in Calls, NEW command, RedisRuns(c, command),
           pc[c] \in {"evalsha", "eval"} \/ late[c] # "none",
           UNCHANGED <<scripts, load>>
    PROVE  Service!RunScript(c)
<1> USE DEF ServiceInv
<1>1. ScriptOf[c] \in scripts /\ ran[c] <= resent[c]
  BY DEF LoadedInv, RunsByStep
<1>2. c \in Procs /\ AnswerAt(pc[c]) # "returned"
  BY DEF RunsByStep, AnswerAt, Procs
<1>3. ran' = [ran EXCEPT ![c] = ran[c] + 1] /\ scripts' = scripts /\ Loads' = Loads
  BY LoadsKept DEF RedisRuns
<1> QED
  BY <1>1, <1>2, <1>3 DEF Service!RunScript, Loads

\* Its caller hears of the run.
LEMMA ServiceRun ==
    ASSUME ServiceInv, NEW c \in Calls, EvalSha(c) \/ Eval(c)
    PROVE  Service!Run(c)
<1> USE DEF ServiceInv
<1>1. PICK from \in {"evalsha", "eval"}, to \in {"ok", "error", "evaled"} :
          Step(c, from, to) /\ RedisRuns(c, from) /\ resent' = resent
  BY DEF EvalSha, Eval
<1>2. AnswerAt(pc[c]) = "none" /\ c \in Procs /\ Service!RunScript(c)
  BY <1>1, ServiceRunScript DEF Step, AnswerAt, Procs
<1>3. Answers' = [Answers EXCEPT ![c] = AnswerAt(to)] /\ Answers[c] = "none"
  BY <1>1, <1>2, AnswersMove DEF Step, Answers
<1>4. Answers' = Answers \/ \E what \in {"returned", "threw"} :
                                Answers' = [Answers EXCEPT ![c] = what]
  <2>1. CASE AnswerAt(to) \in {"returned", "threw"}
    BY <1>3, <2>1
  <2>2. CASE AnswerAt(to) = "none"
    BY <1>1, <1>2, <2>2, AnswersMove DEF Step
  <2> QED
    BY <2>1, <2>2 DEF AnswerAt
<1> QED
  BY <1>1, <1>2, <1>3, <1>4 DEF Service!Run, Service!Answer, Answers

\* Nobody hears of the run, or its caller was told of a timeout.
LEMMA ServiceRunLate ==
    ASSUME ServiceInv, NEW c \in Calls, Resend(c) \/ LateRun(c)
    PROVE  Service!Run(c) \/ Service!RunUnheard(c)
<1>1. UNCHANGED <<scripts, load, pc>>
  BY DEF Resend, LateRun
<1>2. Service!RunScript(c)
  BY <1>1, ServiceRunScript DEF Resend, LateRun
<1>3. Answers' = Answers
  BY <1>1 DEF Answers
<1>4. resent' = resent \/ resent' = [resent EXCEPT ![c] = resent[c] + 1]
  BY DEF Resend, LateRun, SendAgain
<1> QED
  BY <1>2, <1>3, <1>4 DEF Service!Run, Service!RunUnheard, Answers

\* A load settles: a script is registered, or it is not.
LEMMA ServiceSettle ==
    ASSUME ServiceInv, NEW p \in Procs, NEW s \in Scripts,
           LoadResolves(p, s) \/ LoadRejects(p, s)
    PROVE  Service!EndLoad(p, s)
<1> USE DEF ServiceInv
<1>1. PICK to \in {"resolved", "rejected", "late"} : load' = [load EXCEPT ![p][s] = to]
  BY DEF LoadResolves, LoadRejects
<1>2. /\ scripts' \in {scripts, scripts \cup {s}}
      /\ InFlight(p, s) /\ UNCHANGED <<pc, ran, resent>>
  BY DEF LoadResolves, LoadRejects, InFlight
<1>3. \A q \in Procs, t \in Scripts :
          load'[q][t] = IF q = p /\ t = s THEN to ELSE load[q][t]
  BY <1>1 DEF TypeOK
<1>4. \A q \in Procs, t \in Scripts :
          InFlight(q, t)' <=> InFlight(q, t) /\ <<q, t>> # <<p, s>>
  BY <1>3 DEF InFlight
<1>5. Loads' = Loads \ {<<p, s>>} /\ <<p, s>> \in Loads
  BY <1>2, <1>4 DEF Loads
<1>6. Answers' = Answers
  BY <1>2 DEF Answers
<1> QED
  BY <1>2, <1>5, <1>6 DEF Service!EndLoad, Loads, Answers

LEMMA ServiceStep == ServiceInv /\ [Next]_vars => [Service!Next]_(Service!vars)
<1> SUFFICES ASSUME ServiceInv, [Next]_vars
             PROVE  Service!Next \/ UNCHANGED Service!vars
  OBVIOUS
<1> USE CallsAssumption DEF ServiceInv
<1>1. ASSUME NEW i \in Inits, Initialize(i)
      PROVE  Service!Next \/ UNCHANGED Service!vars
  <2>1. AnswerAt(pc[i]) = "none" /\ UNCHANGED <<scripts, ran, resent>> /\ Past(i, 1)
    BY <1>1 DEF Initialize, AnswerAt, Past
  <2>2. CASE LoopFrom(i, 1)
    BY <2>1, <2>2, ServiceLoop
  <2>3. CASE /\ initialized /\ pc' = [pc EXCEPT ![i] = "done"]
             /\ UNCHANGED <<loading, load, next, awaited>>
    <3>1. Names(i) \subseteq scripts
      BY <2>3 DEF LoadedInv
    <3>2. Answers' = [Answers EXCEPT ![i] = "returned"] /\ Answers[i] = "none"
      BY <2>1, <2>3, AnswersMove DEF AnswerAt, Answers, Procs
    <3>3. Service!Initialized(i)
      BY <2>1, <2>3, <3>1, <3>2, LoadsKept
         DEF Service!Initialized, Service!Answer, Loads, Answers
    <3> QED
      BY <3>3 DEF Service!Next
  <2> QED
    BY <1>1, <2>2, <2>3 DEF Initialize
<1>2. ASSUME NEW i \in Inits, NextScript(i)
      PROVE  Service!Next \/ UNCHANGED Service!vars
  <2>1. next[i] + 1 \in Nat \ {0} /\ Past(i, next[i] + 1)
    BY <1>2 DEF NextScript, LoadedInv, TypeOK
  <2> QED
    BY <1>2, <2>1, ServiceLoop DEF NextScript, AnswerAt
<1>3. ASSUME NEW i \in Inits, Loaded(i)
      PROVE  Service!Next \/ UNCHANGED Service!vars
  <2>1. PICK to \in {"next", "failed"} : pc' = [pc EXCEPT ![i] = to]
    BY <1>3 DEF Loaded
  <2> QED
    BY <1>3, <2>1, ServiceMove DEF Loaded, AnswerAt, Procs
<1>4. ASSUME NEW c \in Calls, Execute(c) \/ NoScript(c) \/ CommandFails(c) \/ TimesOut(c)
      PROVE  Service!Next \/ UNCHANGED Service!vars
  <2>1. PICK from \in {"idle", "evalsha", "eval"}, to \in {"evalsha", "eval", "error"} :
            Step(c, from, to) /\ UNCHANGED <<ran, resent, scripts>>
    BY <1>4 DEF Execute, NoScript, CommandFails, TimesOut, Step
  <2> QED
    BY <2>1, ServiceMove DEF Step, AnswerAt, Procs
<1>5. ASSUME NEW c \in Calls, EvalSha(c) \/ Eval(c) \/ Resend(c) \/ LateRun(c)
      PROVE  Service!Next
  <2>1. Service!Run(c) \/ Service!RunUnheard(c)
    BY <1>5, ServiceRun, ServiceRunLate
  <2> QED
    BY <2>1 DEF Service!Next
<1>6. ASSUME NEW c \in Calls, Reload(c)
      PROVE  Service!Next \/ UNCHANGED Service!vars
  <2>1. ScriptOf[c] \in Scripts /\ c \in Procs
    BY DEF Procs
  <2>2. Service!BeginLoad(c, ScriptOf[c]) \/ UNCHANGED Service!vars
    BY <1>6, <2>1, ServiceJoin DEF Reload, AnswerAt
  <2> QED
    BY <2>1, <2>2 DEF Service!Next, Procs
<1>7. ASSUME NEW c \in Calls, Reloaded(c)
      PROVE  Service!Next \/ UNCHANGED Service!vars
  <2>1. PICK to \in {"ok", "error"} : pc' = [pc EXCEPT ![c] = to]
    BY <1>7 DEF Reloaded
  <2>2. ran[c] >= 1 /\ AnswerAt(pc[c]) = "none"
    BY <1>7 DEF Reloaded, RunsByStep, AnswerAt
  <2>3. ran[c] > 0
    BY <2>2, Counts
  <2> QED
    BY <1>7, <2>1, <2>2, <2>3, ServiceMove DEF Reloaded, Procs
<1>8. ASSUME NEW p \in Procs, NEW s \in Scripts, ScriptLoad(p, s) \/ LateLoad(p, s)
      PROVE  UNCHANGED Service!vars
  <2>1. PICK to \in LoadStates : load' = [load EXCEPT ![p][s] = to]
                              /\ (to \in {"sent", "replied"} <=> InFlight(p, s))
    BY <1>8 DEF ScriptLoad, LateLoad, InFlight, LoadStates
  <2>2. \A q \in Procs, t \in Scripts : InFlight(q, t)' <=> InFlight(q, t)
    BY <2>1 DEF InFlight, TypeOK
  <2>3. Loads' = Loads
    BY <2>2 DEF Loads
  <2> QED
    BY <1>8, <2>3 DEF ScriptLoad, LateLoad, Service!vars, Loads
<1>9. ASSUME NEW p \in Procs, NEW s \in Scripts, LoadResolves(p, s) \/ LoadRejects(p, s)
      PROVE  Service!Next
  BY <1>9, ServiceSettle DEF Service!Next, Procs
<1>10. CASE Flush \/ UNCHANGED vars
  BY <1>10, LoadsKept DEF Flush, vars, Service!vars, Loads
<1> QED
  BY <1>1, <1>2, <1>3, <1>4, <1>5, <1>6, <1>7, <1>8, <1>9, <1>10 DEF Next, Proceed

\* When every caller configures the same scripts, the handler is the service
\* of ScriptService, however its calls share loads and whatever fails.
THEOREM HandlerIsService ==
    ASSUME SameNames
    PROVE  Spec => ScriptServiceSpec
<1>1. Init => Service!Init /\ LoadedInv
  BY DEF Init, Service!Init, LoadedInv, InFlight, AnswerAt, Procs
<1>2. TypeOK /\ LoadedInv /\ [Next]_vars => LoadedInv'
  BY LoadedNext
<1>3. Spec => []LoadedInv
  BY <1>1, <1>2, TypeCorrect, PTL DEF Spec
<1>4. Spec => []ServiceInv
  BY <1>3, TypeCorrect, EntriesHold, RunsHold, PTL DEF ServiceInv
<1> QED
  BY <1>1, <1>4, ServiceStep, PTL DEF Spec, ScriptServiceSpec, Service!Spec
=============================================================================

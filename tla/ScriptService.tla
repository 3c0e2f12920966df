--------------------------- MODULE ScriptService ---------------------------
(***************************************************************************)
(* What the Lua handler promises its callers: a script is loaded once at a *)
(* time; a caller of initialize is told it is done when all its scripts    *)
(* are registered; a caller of execute has its script, if it is            *)
(* registered, run once, and once more for each time the connection lost   *)
(* the reply and the command was sent again, and gets a result only of     *)
(* such a run.  A caller that was told of an error may still have its      *)
(* script run later.                                                       *)
(***************************************************************************)
EXTENDS Naturals

CONSTANTS
    Scripts,
    Inits, Calls,  \* the calls of initialize and of execute
    Wanted,        \* Wanted[i]: the scripts initialize call i is to load
    ScriptOf       \* ScriptOf[c]: the script execute call c names

VARIABLES
    registered,    \* the scripts that can be executed
    loads,         \* the loads under way: whose, and of which script
    answer,        \* answer[p]: "none" until call p returns or throws
    runs,          \* runs[c]: how often the script of call c was run
    resends        \* resends[c]: how often the command of call c was sent again

vars == <<registered, loads, answer, runs, resends>>

Init ==
    /\ registered = {}
    /\ loads = {}
    /\ answer = [p \in Inits \cup Calls |-> "none"]
    /\ runs = [c \in Calls |-> 0]
    /\ resends = [c \in Calls |-> 0]

BeginLoad(p, s) ==
    /\ \A l \in loads : l[2] # s
    /\ loads' = loads \cup {<<p, s>>}
    /\ UNCHANGED <<registered, answer, runs, resends>>

EndLoad(p, s) ==
    /\ <<p, s>> \in loads
    /\ loads' = loads \ {<<p, s>>}
    /\ registered' \in {registered, registered \cup {s}}
    /\ UNCHANGED <<answer, runs, resends>>

Answer(p, what) ==
    /\ answer[p] = "none"
    /\ answer' = [answer EXCEPT ![p] = what]

Initialized(i) ==
    /\ Wanted[i] \subseteq registered
    /\ Answer(i, "returned")
    /\ UNCHANGED <<registered, loads, runs, resends>>

\* The script is run; there is one more run than the command was sent again.
RunScript(c) ==
    /\ ScriptOf[c] \in registered
    /\ answer[c] # "returned"
    /\ runs[c] <= resends[c]
    /\ runs' = [runs EXCEPT ![c] = @ + 1]
    /\ UNCHANGED <<registered, loads>>

\* The caller hears of the run now, later or never.
Run(c) ==
    /\ RunScript(c)
    /\ answer' = answer \/ \E what \in {"returned", "threw"} : Answer(c, what)
    /\ UNCHANGED resends

\* The reply is lost, and the command is sent again.
RunUnheard(c) ==
    /\ RunScript(c)
    /\ resends' = [resends EXCEPT ![c] = @ + 1]
    /\ UNCHANGED answer

Return(c) ==
    /\ runs[c] > 0
    /\ Answer(c, "returned")
    /\ UNCHANGED <<registered, loads, runs, resends>>

Throw(p) ==
    /\ Answer(p, "threw")
    /\ UNCHANGED <<registered, loads, runs, resends>>

Next ==
    \/ \E p \in Inits \cup Calls, s \in Scripts : BeginLoad(p, s) \/ EndLoad(p, s)
    \/ \E i \in Inits : Initialized(i)
    \/ \E c \in Calls : Run(c) \/ RunUnheard(c) \/ Return(c)
    \/ \E p \in Inits \cup Calls : Throw(p)

Spec == Init /\ [][Next]_vars
=============================================================================

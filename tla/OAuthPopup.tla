------------------------------ MODULE OAuthPopup ------------------------------
(***************************************************************************)
(* Sign-in with a provider in a popup (apps/web/soundfear,                 *)
(* use-oauth-popup.ts and oauth-buttons.tsx): one mounted hook, the popups *)
(* it opens one after the other, and their messages.                       *)
(*                                                                         *)
(* A flow is one call of start that opened a popup; it stands for its      *)
(* popupId.  Every flow creates an interval that watches the popup and a   *)
(* timeout that ends the flow; the hook only remembers the last of each in *)
(* its refs.  The browser may fire a timer late, and it may cut the popup  *)
(* off from its opener (COOP): then popup.closed is true while it lives.   *)
(***************************************************************************)
EXTENDS Integers

CONSTANTS
    Flows,        \* the popupIds
    None,         \* null
    CloseGrace,   \* CLOSE_GRACE_MS, in ticks
    AcceptWindow, \* ACCEPT_WINDOW_MS, in ticks
    LastStart,    \* bound: no flow begins after this time
    EndOfTime     \* bound: the clock stops here

ASSUME NumbersAssumption ==
    /\ None \notin Flows
    /\ CloseGrace \in Nat
    /\ AcceptWindow \in Nat \ {0}
    /\ LastStart \in Nat
    /\ EndOfTime \in Nat

VARIABLES
    now,         \* Date.now(), in ticks
    mounted,     \* the hook's effect is installed
    popupRef,    \* popupRef.current: the flow whose window it is, or None
    activeId,    \* activeIdRef.current
    pollRef,     \* pollRef.current: the flow that created the interval, or None
    expiryRef,   \* expiryRef.current, likewise
    pending,     \* pendingProvider: the flow that set it, or None
    exchanging,  \* exchange.isPending: the session is fetched after a success
    window,      \* window[f]: the popup of f
    interval,    \* interval[f]: the interval of f is running
    timeout,     \* timeout[f]: the timeout of f is set
    closedAt,    \* closedAt[f]: the variable of f's interval, -1 for null
    messages,    \* results on their way to the main window
    \* history
    started,     \* started[f]: when f began, -1 before
    succeeded,   \* succeeded[f]: how often onSuccess was called for f
    dismissed    \* the flows that ended by their result, Cancel or unmounting

refs == <<popupRef, activeId, pollRef, expiryRef, pending>>
timers == <<interval, timeout, closedAt>>
vars == <<now, mounted, refs, exchanging, window, timers, messages,
          started, succeeded, dismissed>>

Vias == {"channel", "opener"}
Statuses == {"success", "error"}
Message == [flow: Flows, via: Vias, status: Statuses]

Init ==
    /\ now = 0
    /\ mounted = TRUE
    /\ popupRef = None
    /\ activeId = None
    /\ pollRef = None
    /\ expiryRef = None
    /\ pending = None
    /\ exchanging = FALSE
    /\ window = [f \in Flows |-> "none"]
    /\ interval = [f \in Flows |-> FALSE]
    /\ timeout = [f \in Flows |-> FALSE]
    /\ closedAt = [f \in Flows |-> -1]
    /\ messages = {}
    /\ started = [f \in Flows |-> -1]
    /\ succeeded = [f \in Flows |-> 0]
    /\ dismissed = {}

\* popup.closed, as the main window sees it
Closed(f) == window[f] # "open"

-----------------------------------------------------------------------------
(* The hook *)

\* clearInterval on pollRef; the interval's own variable goes with it.
ClearInterval ==
    /\ interval' = [f \in Flows |-> interval[f] /\ f # pollRef]
    /\ closedAt' = [f \in Flows |-> IF f = pollRef THEN -1 ELSE closedAt[f]]
    /\ pollRef' = None

\* stopPolling clears the timers in the refs, and no others.
StopPolling ==
    /\ ClearInterval
    /\ timeout' = [f \in Flows |-> timeout[f] /\ f # expiryRef]
    /\ expiryRef' = None

\* Mutant: the active id survives the end of its flow.
FinishKeepsId ==
    /\ StopPolling
    /\ popupRef' = None
    /\ pending' = None
    /\ UNCHANGED activeId

\* Mutant: the spinner survives the end of its flow.
FinishKeepsPending ==
    /\ StopPolling
    /\ activeId' = None
    /\ popupRef' = None
    /\ UNCHANGED pending

Finish ==
    /\ StopPolling
    /\ activeId' = None
    /\ popupRef' = None
    /\ pending' = None

\* Mutant: the buttons stay enabled while a popup is open.
AlwaysStartable == mounted

\* The buttons are disabled while a provider is pending or a session fetched.
Startable == mounted /\ pending = None /\ ~exchanging

\* start opens a popup: the window of an older flow that is still open under
\* the same name is reused.  The timers of older flows are not cleared.
Start(f) ==
    /\ Startable
    /\ now <= LastStart
    /\ started[f] = -1
    /\ popupRef # None => Closed(popupRef)
    /\ window' = [g \in Flows |-> IF g = f THEN "open"
                                  ELSE IF window[g] = "open" THEN "closed"
                                  ELSE window[g]]
    /\ popupRef' = f
    /\ activeId' = f
    /\ pending' = f
    /\ pollRef' = f
    /\ expiryRef' = f
    /\ interval' = [interval EXCEPT ![f] = TRUE]
    /\ timeout' = [timeout EXCEPT ![f] = TRUE]
    /\ started' = [started EXCEPT ![f] = now]
    /\ UNCHANGED <<now, mounted, exchanging, closedAt, messages, succeeded, dismissed>>

\* The interval of f fires and finds the popup of the hook open, or none.
PollOpen(f) ==
    /\ interval[f]
    /\ popupRef = None \/ ~Closed(popupRef)
    /\ closedAt[f] # -1
    /\ closedAt' = [closedAt EXCEPT ![f] = -1]
    /\ UNCHANGED <<now, mounted, refs, exchanging, window, interval, timeout, messages,
                   started, succeeded, dismissed>>

\* Mutant: the end of the grace period is stored instead of its beginning.
PollStoresDeadline(f) ==
    /\ interval[f]
    /\ popupRef # None /\ Closed(popupRef)
    /\ closedAt[f] = -1
    /\ closedAt' = [closedAt EXCEPT ![f] = now + CloseGrace + 1]
    /\ UNCHANGED <<now, mounted, refs, exchanging, window, interval, timeout, messages,
                   started, succeeded, dismissed>>

\* It finds the popup closed, for the first time or within the grace period.
PollClosed(f) ==
    /\ interval[f]
    /\ popupRef # None /\ Closed(popupRef)
    /\ closedAt[f] = -1
    /\ closedAt' = [closedAt EXCEPT ![f] = now]
    /\ UNCHANGED <<now, mounted, refs, exchanging, window, interval, timeout, messages,
                   started, succeeded, dismissed>>

\* Mutant: the flow ends with its popup, and a late result is refused.
PollFinishes(f) ==
    /\ interval[f]
    /\ popupRef # None /\ Closed(popupRef)
    /\ closedAt[f] # -1 /\ now - closedAt[f] > CloseGrace
    /\ Finish
    /\ UNCHANGED <<now, mounted, exchanging, window, messages, started, succeeded, dismissed>>

\* The popup has been closed for longer than the grace period: the buttons
\* are enabled again, but a late result is still accepted.
PollGivesUp(f) ==
    /\ interval[f]
    /\ popupRef # None /\ Closed(popupRef)
    /\ closedAt[f] # -1 /\ now - closedAt[f] > CloseGrace
    /\ ClearInterval
    /\ pending' = None
    /\ UNCHANGED <<now, mounted, popupRef, activeId, expiryRef, exchanging, window, timeout,
                   messages, started, succeeded, dismissed>>

\* The timeout of f fires and runs finish, whichever flow is active by then.
Expire(f) ==
    /\ timeout[f]
    /\ now >= started[f] + AcceptWindow
    /\ activeId' = None
    /\ popupRef' = None
    /\ pending' = None
    /\ ClearInterval
    /\ timeout' = [g \in Flows |-> timeout[g] /\ g # expiryRef /\ g # f]
    /\ expiryRef' = None
    /\ UNCHANGED <<now, mounted, exchanging, window, messages, started, succeeded, dismissed>>

\* The Cancel link is shown while a provider is pending.
Cancel ==
    /\ mounted
    /\ pending # None
    /\ window' = [f \in Flows |->
                    IF f = popupRef /\ window[f] = "open" THEN "closed" ELSE window[f]]
    /\ Finish
    /\ dismissed' = dismissed \cup ({activeId} \ {None})
    /\ UNCHANGED <<now, mounted, exchanging, messages, started, succeeded>>

\* Mutant: the popupId of a message is not compared with activeIdRef.
AnyResult(m) == m.flow \in Flows

\* The result is that of the active flow.
Awaited(m) == m.flow = activeId

\* A result for another flow than the active one is ignored.
Ignore(m) ==
    /\ m \in messages
    /\ ~mounted \/ ~Awaited(m)
    /\ messages' = messages \ {m}
    /\ UNCHANGED <<now, mounted, refs, exchanging, window, timers, started, succeeded, dismissed>>

\* handle: close the popup, finish, then report.
Handle(m) ==
    /\ m \in messages
    /\ mounted /\ Awaited(m)
    /\ messages' = messages \ {m}
    /\ window' = [f \in Flows |->
                    IF f = popupRef /\ window[f] = "open" THEN "closed" ELSE window[f]]
    /\ Finish
    /\ dismissed' = dismissed \cup {m.flow}
    /\ \/ /\ m.status = "success"
          /\ succeeded' = [succeeded EXCEPT ![m.flow] = @ + 1]
          /\ exchanging' = TRUE
       \/ /\ m.status = "error"
          /\ UNCHANGED <<succeeded, exchanging>>
    /\ UNCHANGED <<now, mounted, started>>

\* The session was fetched, or the request failed.
ExchangeEnds ==
    /\ exchanging
    /\ exchanging' = FALSE
    /\ UNCHANGED <<now, mounted, refs, window, timers, messages, started, succeeded, dismissed>>

Unmount ==
    /\ mounted
    /\ mounted' = FALSE
    /\ StopPolling
    /\ dismissed' = dismissed \cup ({activeId} \ {None})
    /\ UNCHANGED <<now, popupRef, activeId, pending, exchanging, window, messages,
                   started, succeeded>>

-----------------------------------------------------------------------------
(* The popup and the browser *)

\* The callback page publishes its result over both ways; the opener's is gone
\* when the popup was cut off.  The page may be reloaded before it closes.
Publish(f, status) ==
    /\ window[f] \in {"open", "severed"}
    /\ \A m \in messages : m.flow # f
    /\ messages' = messages \cup
           {[flow |-> f, via |-> v, status |-> status] :
                v \in IF window[f] = "open" THEN Vias ELSE {"channel"}}
    /\ UNCHANGED <<now, mounted, refs, exchanging, window, timers, started, succeeded, dismissed>>

\* The user or the callback page closes the popup, or a provider's COOP header
\* cuts it off.
PopupLost(f) ==
    /\ window[f] \in {"open", "severed"}
    /\ \E to \in {"severed", "closed"} : window' = [window EXCEPT ![f] = to] /\ window' # window
    /\ UNCHANGED <<now, mounted, refs, exchanging, timers, messages, started, succeeded, dismissed>>

\* The popup goes back behind the page that cut it off, and popup.closed is
\* false again: the interval reckons with it.
PopupRestored(f) ==
    /\ window[f] = "severed"
    /\ f = popupRef
    /\ window' = [window EXCEPT ![f] = "open"]
    /\ UNCHANGED <<now, mounted, refs, exchanging, timers, messages, started, succeeded, dismissed>>

Tick ==
    /\ now < EndOfTime
    /\ now' = now + 1
    /\ UNCHANGED <<mounted, refs, exchanging, window, timers, messages,
                   started, succeeded, dismissed>>

Timers(f) == PollOpen(f) \/ PollClosed(f) \/ PollGivesUp(f) \/ Expire(f)

Next ==
    \/ \E f \in Flows : \/ Start(f) \/ Timers(f) \/ PopupLost(f) \/ PopupRestored(f)
                        \/ \E status \in Statuses : Publish(f, status)
    \/ \E m \in messages : Ignore(m) \/ Handle(m)
    \/ Cancel \/ ExchangeEnds \/ Unmount \/ Tick

Spec == Init /\ [][Next]_vars

\* Timers fire and time passes; users, popups and servers owe nothing.
FairSpec ==
    /\ Spec
    /\ \A f \in Flows : WF_vars(PollClosed(f)) /\ WF_vars(PollGivesUp(f)) /\ WF_vars(Expire(f))
    /\ WF_vars(Tick)

-----------------------------------------------------------------------------
(* Properties *)

\* Every variable holds a value of its kind.
TypeOK ==
    /\ now \in 0..EndOfTime
    /\ mounted \in BOOLEAN
    /\ popupRef \in Flows \cup {None}
    /\ activeId \in Flows \cup {None}
    /\ pollRef \in Flows \cup {None}
    /\ expiryRef \in Flows \cup {None}
    /\ pending \in Flows \cup {None}
    /\ exchanging \in BOOLEAN
    /\ window \in [Flows -> {"none", "open", "severed", "closed"}]
    /\ interval \in [Flows -> BOOLEAN]
    /\ timeout \in [Flows -> BOOLEAN]
    /\ closedAt \in [Flows -> -1..EndOfTime]
    /\ messages \subseteq Message
    /\ started \in [Flows -> -1..LastStart]
    /\ succeeded \in [Flows -> Nat]
    /\ dismissed \subseteq Flows

\* onSuccess is called for a flow at most once, although its result arrives
\* over two ways, and never after its Cancel or after the unmounting.
NoSuccessAfterDismissal ==
    [][\A f \in Flows : f \in dismissed => succeeded'[f] = succeeded[f]]_vars

\* start never clears an interval, yet no interval outlives its place in
\* pollRef: when the buttons are enabled the last one has been cleared.
OneInterval == \A f \in Flows : interval[f] => mounted /\ pollRef = f

\* Behind a spinner there are always the interval and the timeout of the
\* pending flow, and it is the flow whose result is awaited.
SpinnerIsWatched ==
    mounted /\ pending # None =>
        /\ activeId = pending /\ popupRef = pending
        /\ interval[pending] /\ timeout[pending]

\* What became of a flow, as the page sees it.
StatusOf(f) ==
    IF started[f] = -1 THEN "new"
    ELSE IF succeeded[f] > 0 THEN "succeeded"
    ELSE IF mounted /\ activeId = f THEN "awaited" ELSE "over"

\* Whatever its timers, late ones included, and the two ways of every result do,
\* the hook is the sign-in of SignIn: of the flow that is awaited, one success.
Page == INSTANCE SignIn WITH
    status <- [f \in Flows |-> StatusOf(f)],
    spinner <- IF mounted THEN pending ELSE None,
    fetching <- exchanging

SignInSpec == Page!Spec

\* The newest flow, unless dismissed, loses its accept window only to the
\* timeout of an earlier flow that ended without a result and without Cancel.
AcceptedUnlessOrphaned ==
    \A f \in Flows :
        /\ started[f] # -1 /\ f \notin dismissed /\ now < started[f] + AcceptWindow
        /\ \A g \in Flows : started[g] <= started[f]
        =>
        \/ activeId = f
        \/ \E g \in Flows \ (dismissed \cup {f}) : started[g] # -1

\* "A late success is still accepted for this long": the newest flow stays
\* acceptable for AcceptWindow (use-oauth-popup.ts, ACCEPT_WINDOW_MS).
LateSuccessAccepted ==
    \A f \in Flows :
        /\ started[f] # -1 /\ f \notin dismissed /\ now < started[f] + AcceptWindow
        /\ \A g \in Flows \ {f} : started[g] < started[f]
        => activeId = f

\* No spinner turns for ever, whatever becomes of the popup and its messages.
SpinnerEnds ==
    \A f \in Flows : mounted /\ pending = f ~> ~mounted \/ pending # f
=============================================================================

-------------------------------- MODULE SignIn --------------------------------
(***************************************************************************)
(* What the hook promises the page about its sign-in flows: one flow at a  *)
(* time is awaited, and only that one can succeed, once; a flow that is    *)
(* over stays over; and a new one begins only when no spinner turns and no *)
(* session is fetched.                                                     *)
(***************************************************************************)
CONSTANTS Flows, None

VARIABLES
    status,   \* status[f]: "new", "awaited", "succeeded" or "over"
    spinner,  \* the flow behind the spinner, or None
    fetching  \* a session is fetched

vars == <<status, spinner, fetching>>

Init ==
    /\ status = [f \in Flows |-> "new"]
    /\ spinner = None
    /\ fetching = FALSE

\* A new flow puts an end to one that is awaited without a spinner.
Begin(f) ==
    /\ status[f] = "new"
    /\ spinner = None
    /\ ~fetching
    /\ status' = [g \in Flows |-> IF g = f THEN "awaited"
                                  ELSE IF status[g] = "awaited" THEN "over"
                                  ELSE status[g]]
    /\ spinner' = f
    /\ UNCHANGED fetching

\* The page stops waiting; a late result is still accepted.
StopSpinner ==
    /\ spinner # None
    /\ spinner' = None
    /\ UNCHANGED <<status, fetching>>

Succeed(f) ==
    /\ status[f] = "awaited"
    /\ ~fetching
    /\ status' = [status EXCEPT ![f] = "succeeded"]
    /\ spinner' = None
    /\ fetching' = TRUE

End(f) ==
    /\ status[f] = "awaited"
    /\ status' = [status EXCEPT ![f] = "over"]
    /\ spinner' = None
    /\ UNCHANGED fetching

Fetched ==
    /\ fetching
    /\ fetching' = FALSE
    /\ UNCHANGED <<status, spinner>>

Next ==
    \/ \E f \in Flows : Begin(f) \/ Succeed(f) \/ End(f)
    \/ StopSpinner
    \/ Fetched

Spec == Init /\ [][Next]_vars
=============================================================================

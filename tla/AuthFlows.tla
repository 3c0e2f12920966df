------------------------------ MODULE AuthFlows ------------------------------
(***************************************************************************)
(* The registration and login flows of the web application                 *)
(* (apps/web/soundfear): one browser tab with its pages, the auth store,   *)
(* the guard of the dashboard, and the mock of the auth service.           *)
(*                                                                         *)
(* Every call of the service is a record in calls from the moment it is    *)
(* made until its answer: the mock waits first and does its work at once   *)
(* when the wait is over, so the body of a call and the callbacks that     *)
(* follow it are one step.  The callbacks given to mutate only run while   *)
(* the component that made the call is mounted and the mutation has not    *)
(* been reset: such a call is live.  The steps of a flow have their own    *)
(* key, so a change of step unmounts the screen.                           *)
(*                                                                         *)
(* Other tabs share the users and the session (localStorage), nothing      *)
(* else.  Passwords are not modelled: a login of a user may fail.          *)
(***************************************************************************)
EXTENDS Sequences, Integers

CONSTANTS
    Emails,     \* the e-mail addresses people type
    None,       \* no address: null, undefined, ''
    Demo,       \* MOCK_DEMO_EMAIL, which readUsers always adds
    Provider,   \* the address of the provider's demo user
    Taken,      \* the addresses registration always refuses
    MaxCalls,   \* bound: calls under way at once
    MaxActs,    \* bound: what the user does in this tab and its popup
    MaxOthers   \* bound: what other tabs do

ASSUME EmailsAssumption ==
    /\ None \notin Emails
    /\ {Demo, Provider} \subseteq Emails
    /\ Taken \subseteq Emails
    /\ MaxCalls \in Nat

VARIABLES
    page,       \* the page on the screen
    nav,        \* where the router is going, "none" when it is not
    step,       \* state.step of the flow on the page
    email,      \* state.email
    ticket,     \* state.ticket, as an index of tickets; 0 for none
    code,       \* the code typed on the OTP screen, by its kind
    canResend,  \* remaining = 0: the Resend button is there
    resent,     \* resent of the OTP screen
    calls,      \* calls[i]: a call of the service under way, or Quiet
    tickets,    \* the tickets Map of the mock, in the order they were issued
    popup,      \* the popup of the provider
    status,     \* the auth store: status
    user,       \* the auth store: user
    users,      \* localStorage: the addresses that have an account
    session,    \* localStorage: the address of the session, or None
    wanted,     \* history: the last address a code was asked for
    acts,       \* history: what the user did (bounded)
    others      \* history: what other tabs did (bounded)

screen == <<code, canResend, resent>>
form == <<step, email, ticket, screen>>
store == <<status, user>>
storage == <<users, session>>
vars == <<page, nav, form, calls, tickets, popup, store, storage, wanted, acts, others>>

Ids == 1..MaxCalls
FlowPages == {"login", "register"}
Pages == FlowPages \union {"dashboard", "elsewhere"}
FullCodes == {"right", "wrong"}
Purposes == {"register", "reset-password"}

\* The purpose each flow gives to its OTP screen.
PurposeOf(p) == IF p = "register" THEN "register" ELSE "reset-password"

\* Calls made by the first screen of a flow, by the OTP screen, by the flow.
FirstOps == {"request", "login", "exchange"}
OtpOps == {"verify", "resend"}
FlowOps == {"complete", "reset", "skip"}
Ops == FirstOps \union OtpOps \union FlowOps \union {"refresh", "logout"}

Quiet == [op |-> "none", email |-> None, code |-> "partial", ticket |-> 0,
          purpose |-> "register", live |-> FALSE]

CallSet ==
    [op: Ops \union {"none"}, email: Emails \union {None},
     code: FullCodes \union {"partial"}, ticket: Nat, purpose: Purposes, live: BOOLEAN]
TicketSet == [email: Emails, purpose: Purposes, open: BOOLEAN]

Init ==
    /\ page \in FlowPages \union {"elsewhere"}
    /\ nav = "none"
    /\ step = "first"
    /\ email = None
    /\ ticket = 0
    /\ code = "partial"
    /\ canResend = FALSE
    /\ resent = FALSE
    /\ calls = [i \in Ids |-> Quiet]
    /\ tickets = <<>>
    /\ popup = "none"
    /\ status = "idle"
    /\ user = None
    /\ users = {Demo}
    /\ session \in {None, Demo}
    /\ wanted = None
    /\ acts = 0
    /\ others = 0

-----------------------------------------------------------------------------
(* Calls *)

\* isPending of the mutations of the screen; no mutation is begun while it is
\* pending, so none is superseded.
Pending(ops) == \E i \in Ids : calls[i].live /\ calls[i].op \in ops

\* The call slot that is free, in every table of calls
Free(table, i) == table[i] = Quiet /\ \A j \in 1..(i - 1) : table[j] # Quiet

Call(op, purpose) == [Quiet EXCEPT !.op = op, !.purpose = purpose, !.live = TRUE]

\* mutate, or a call of the service, with c
Begin(c) == \E i \in Ids : Free(calls, i) /\ calls' = [calls EXCEPT ![i] = c]

\* A component that unmounts, or a reset, silences the callbacks of its calls.
Silence(table, ops) ==
    [i \in Ids |-> IF table[i].op \in ops THEN [table[i] EXCEPT !.live = FALSE] ELSE table[i]]

Answered(i) == [calls EXCEPT ![i] = Quiet]

\* What a popup becomes when nobody on the page waits for it any more: the
\* window stays, a result on its way is lost.
Unwatched == IF popup \in {"watched", "abandoned"} THEN "abandoned" ELSE "none"

Act == acts < MaxActs /\ acts' = acts + 1

\* setSession of the store, then the router
CompleteAuth(e) ==
    /\ status' = "authenticated"
    /\ user' = e
    /\ nav' = "dashboard"

\* clear and setUnauthenticated are the same; the guard of the dashboard and
\* signOut both go to the login page.
ClearStore ==
    /\ status' = "unauthenticated"
    /\ user' = None
    /\ nav' = "login"

FreshScreen ==
    /\ code' = "partial"
    /\ canResend' = FALSE
    /\ resent' = FALSE

-----------------------------------------------------------------------------
(* The first screen: e-mail (register) or credentials (login) *)

First == page \in FlowPages /\ step = "first"

\* Continue, Log in and Forgot password? are disabled while one is under way.
FirstIsIdle == First /\ ~Pending({"request", "login"})

\* Continue (register) and Forgot password? (login): the schema only lets an
\* address pass, and the answer's callback closes over it.
RequestOtp(e) ==
    /\ FirstIsIdle
    /\ Act
    /\ Begin([Call("request", PurposeOf(page)) EXCEPT !.email = e])
    /\ wanted' = e
    /\ UNCHANGED <<page, nav, form, tickets, popup, store, storage, others>>

\* requestRegistrationOtp refuses an address with an account,
\* requestPasswordResetOtp never says whether there is one.
Sendable(c) == c.purpose = "register" => c.email \notin users \union Taken

\* onSent, onForgot: the OTP screen of the flow replaces the first one.
ShowOtp(i) ==
    /\ step' = "otp"
    /\ email' = calls[i].email
    /\ FreshScreen
    /\ popup' = Unwatched
    /\ calls' = Silence(Answered(i), FirstOps)

RequestDone(i) ==
    /\ calls[i].op = "request"
    /\ IF calls[i].live /\ Sendable(calls[i])
         THEN ShowOtp(i) /\ UNCHANGED ticket
         ELSE calls' = Answered(i) /\ UNCHANGED <<form, popup>>
    /\ UNCHANGED <<page, nav, tickets, store, storage, wanted, acts, others>>

Login(e) ==
    /\ FirstIsIdle
    /\ page = "login"
    /\ Act
    /\ Begin([Call("login", PurposeOf(page)) EXCEPT !.email = e])
    /\ UNCHANGED <<page, nav, form, tickets, popup, store, storage, wanted, others>>

\* startSession, and the callbacks when somebody still listens
SignedIn(c, e) ==
    /\ session' = e
    /\ IF c.live THEN CompleteAuth(e) ELSE UNCHANGED <<store, nav>>

Refused == UNCHANGED <<session, store, nav>>

LoginDone(i) ==
    /\ calls[i].op = "login"
    /\ calls' = Answered(i)
    /\ \/ calls[i].email \in users /\ SignedIn(calls[i], calls[i].email)
       \/ Refused
    /\ UNCHANGED <<page, form, tickets, popup, users, wanted, acts, others>>

-----------------------------------------------------------------------------
(* The provider's popup (its windows, timers and messages: OAuthPopup) *)

\* A new popup takes over the window of an abandoned one.
StartPopup ==
    /\ FirstIsIdle
    /\ ~Pending({"exchange"})
    /\ popup \in {"none", "abandoned"}
    /\ Act
    /\ popup' = "watched"
    /\ UNCHANGED <<page, nav, form, calls, tickets, store, storage, wanted, others>>

\* Mutant: the provider's user is not written to the storage.
ProviderUnsaved == session' = Provider /\ UNCHANGED users

ProviderSignsIn == session' = Provider /\ users' = users \union {Provider}

\* mockSignInWithProvider, then the callback page reports
PopupSignIn ==
    /\ popup \in {"watched", "abandoned"}
    /\ Act
    /\ ProviderSignsIn
    /\ popup' = IF popup = "watched" THEN "reported" ELSE "none"
    /\ UNCHANGED <<page, nav, form, calls, tickets, store, wanted, others>>

\* Cancel on the page or in the popup, or the popup is closed
CancelPopup ==
    /\ popup # "none"
    /\ popup' = "none"
    /\ UNCHANGED <<page, nav, form, calls, tickets, store, storage, wanted, acts, others>>

\* onSuccess of the popup exchanges the session for a token.
ResultArrives ==
    /\ popup = "reported"
    /\ popup' = "none"
    /\ Begin(Call("exchange", PurposeOf(page)))
    /\ UNCHANGED <<page, nav, form, tickets, store, storage, wanted, acts, others>>

\* refreshSession: the session of the storage, when it has a user
ExchangeDone(i) ==
    /\ calls[i].op = "exchange"
    /\ calls' = Answered(i)
    /\ IF session \in users THEN SignedIn(calls[i], session) ELSE Refused
    /\ UNCHANGED <<page, form, tickets, popup, users, wanted, acts, others>>

-----------------------------------------------------------------------------
(* The OTP screen *)

\* onComplete submits a code the moment its last digit is there.
Completes(k) ==
    IF k \in FullCodes
      THEN Begin([Call("verify", PurposeOf(page)) EXCEPT !.email = email, !.code = k])
      ELSE UNCHANGED calls

\* Typing and pasting: the input is disabled while a code is verified.
EnterCode(k) ==
    /\ step = "otp"
    /\ ~Pending({"verify"})
    /\ Act
    /\ code' = k
    /\ resent' = FALSE
    /\ Completes(k)
    /\ UNCHANGED <<page, nav, step, email, ticket, canResend, tickets, popup, store, storage,
                   wanted, others>>

\* Mutant: a reset is also for an address without an account.
AcceptedForAnyone(c) == c.code = "right"

\* verifyOtp: a reset is only for an address with an account.
Accepted(c) == c.code = "right" /\ (c.purpose = "reset-password" => c.email \in users)

\* onVerified: the password screen replaces the OTP screen.
ShowPassword(i) ==
    /\ step' = "password"
    /\ email' = calls[i].email
    /\ ticket' = Len(tickets')
    /\ FreshScreen
    /\ calls' = Silence(Answered(i), OtpOps)

\* Mutant: a refused code stays on the screen.
ClearCodeNever == UNCHANGED code

ClearCode == code' = "partial"

VerifyDone(i) ==
    /\ calls[i].op = "verify"
    /\ tickets' = IF Accepted(calls[i])
                    THEN Append(tickets, [email |-> calls[i].email,
                                          purpose |-> calls[i].purpose, open |-> TRUE])
                    ELSE tickets
    /\ IF calls[i].live /\ Accepted(calls[i])
         THEN ShowPassword(i)
         ELSE /\ calls' = Answered(i)
              /\ IF calls[i].live THEN ClearCode ELSE UNCHANGED code
              /\ UNCHANGED <<step, email, ticket, canResend, resent>>
    /\ UNCHANGED <<page, nav, popup, store, storage, wanted, acts, others>>

CountdownEnds ==
    /\ step = "otp"
    /\ ~canResend
    /\ canResend' = TRUE
    /\ UNCHANGED <<page, nav, step, email, ticket, code, resent, calls, tickets, popup, store,
                   storage, wanted, acts, others>>

ResendOtp ==
    /\ step = "otp"
    /\ canResend
    /\ ~Pending({"resend"})
    /\ Act
    /\ Begin([Call("resend", PurposeOf(page)) EXCEPT !.email = email])
    /\ UNCHANGED <<page, nav, form, tickets, popup, store, storage, wanted, others>>

\* A code sent again clears the screen, and resets a verification under way:
\* its answer is not heard any more.
ResendDone(i) ==
    /\ calls[i].op = "resend"
    /\ IF calls[i].live /\ Sendable(calls[i])
         THEN /\ ClearCode
              /\ canResend' = FALSE
              /\ resent' = TRUE
              /\ calls' = Silence(Answered(i), {"verify"})
         ELSE calls' = Answered(i) /\ UNCHANGED screen
    /\ UNCHANGED <<page, nav, step, email, ticket, tickets, popup, store, storage, wanted,
                   acts, others>>

\* Mutant: the verification under way survives the way back.
BackKeepsCalls ==
    /\ step = "otp"
    /\ Act
    /\ step' = "first"
    /\ FreshScreen
    /\ UNCHANGED calls
    /\ UNCHANGED <<page, nav, email, ticket, tickets, popup, store, storage, wanted, others>>

\* onBack keeps the address as the default of the form.
Back ==
    /\ step = "otp"
    /\ Act
    /\ step' = "first"
    /\ FreshScreen
    /\ calls' = Silence(calls, OtpOps)
    /\ UNCHANGED <<page, nav, email, ticket, tickets, popup, store, storage, wanted, others>>

-----------------------------------------------------------------------------
(* The password screen *)

\* Create account; Update password and Skip, each disabled while the other runs
SubmitPassword(op) ==
    /\ step = "password"
    /\ op \in (IF page = "register" THEN {"complete"} ELSE {"reset", "skip"})
    /\ ~Pending(FlowOps)
    /\ Act
    /\ Begin([Call(op, PurposeOf(page)) EXCEPT !.ticket = ticket])
    /\ UNCHANGED <<page, nav, form, tickets, popup, store, storage, wanted, others>>

\* takeTicket: a ticket is good once, for its purpose.
Good(c) ==
    /\ c.ticket \in DOMAIN tickets
    /\ tickets[c.ticket].open
    /\ tickets[c.ticket].purpose = c.purpose

Take(c) == tickets' = [tickets EXCEPT ![c.ticket].open = FALSE]

\* completeRegistration writes the account whether or not it is there by now.
CompleteDone(i) ==
    /\ calls[i].op = "complete"
    /\ calls' = Answered(i)
    /\ IF Good(calls[i])
         THEN LET e == tickets[calls[i].ticket].email IN
              Take(calls[i]) /\ users' = users \union {e} /\ SignedIn(calls[i], e)
         ELSE UNCHANGED <<tickets, users>> /\ Refused
    /\ UNCHANGED <<page, form, popup, wanted, acts, others>>

\* resetPassword and loginWithTicket: the ticket is gone even when there is no
\* account.
TicketDone(i) ==
    /\ calls[i].op \in {"reset", "skip"}
    /\ calls' = Answered(i)
    /\ IF Good(calls[i])
         THEN LET e == tickets[calls[i].ticket].email IN
              Take(calls[i]) /\ IF e \in users THEN SignedIn(calls[i], e) ELSE Refused
         ELSE UNCHANGED tickets /\ Refused
    /\ UNCHANGED <<page, form, popup, users, wanted, acts, others>>

-----------------------------------------------------------------------------
(* Pages, the guard of the dashboard, the other tabs *)

FreshForm ==
    /\ step' = "first"
    /\ email' = None
    /\ ticket' = 0
    /\ FreshScreen

\* Mutant: the guard of the dashboard does not restore the session.
MountForgets(p, table) ==
    /\ page' = p
    /\ calls' = table
    /\ nav' = IF p = "dashboard" /\ status' = "unauthenticated" THEN "login" ELSE "none"

\* A page is mounted over a table of calls.  The effects of useRequireSession:
\* ask for the session when the status is idle, leave when there is none.
Mount(p, table) ==
    /\ page' = p
    /\ IF p = "dashboard" /\ status' = "idle"
         THEN \E i \in Ids : Free(table, i)
                /\ calls' = [table EXCEPT ![i] = Call("refresh", "register")]
         ELSE calls' = table
    /\ nav' = IF p = "dashboard" /\ status' = "unauthenticated" THEN "login" ELSE "none"

\* A link, or the browser's history
Go(p) ==
    /\ p # page
    /\ Act
    /\ nav' = p
    /\ UNCHANGED <<page, form, calls, tickets, popup, store, storage, wanted, others>>

\* Mutant: what a page left under way still calls back.
LeaveKeepsCalls == calls

\* signOut is a function of its own: nothing silences it.
LeaveSilences == Silence(calls, Ops \ {"logout"})

\* The router is there: the page is unmounted and the next one mounted, unless
\* it is the same page.
Arrive ==
    /\ nav # "none"
    /\ UNCHANGED <<tickets, store, storage, wanted, acts, others>>
    /\ IF nav = page
         THEN nav' = "none" /\ UNCHANGED <<page, form, calls, popup>>
         ELSE FreshForm /\ popup' = Unwatched /\ Mount(nav, LeaveSilences)

\* A reload of the tab: what was only in memory is gone.
Reload ==
    /\ Act
    /\ status' = "idle"
    /\ user' = None
    /\ tickets' = <<>>
    /\ FreshForm
    /\ popup' = Unwatched
    /\ Mount(page, [i \in Ids |-> Quiet])
    /\ UNCHANGED <<storage, wanted, others>>

RefreshDone(i) ==
    /\ calls[i].op = "refresh"
    /\ calls' = Answered(i)
    /\ IF ~calls[i].live THEN UNCHANGED <<nav, store>>
       ELSE IF session \in users THEN /\ status' = "authenticated"
                                      /\ user' = session
                                      /\ UNCHANGED nav
       ELSE ClearStore
    /\ UNCHANGED <<page, form, tickets, popup, storage, wanted, acts, others>>

\* Log out is not disabled while a logout is under way.
SignOut ==
    /\ page = "dashboard"
    /\ status = "authenticated"
    /\ Act
    /\ Begin(Call("logout", "register"))
    /\ UNCHANGED <<page, nav, form, tickets, popup, store, storage, wanted, others>>

\* The end of signOut, wherever the user is by then
LogoutDone(i) ==
    /\ calls[i].op = "logout"
    /\ calls' = Answered(i)
    /\ session' = None
    /\ ClearStore
    /\ UNCHANGED <<page, form, tickets, popup, users, wanted, acts, others>>

\* Another tab registers, logs in or logs out.
OtherTab ==
    /\ others < MaxOthers
    /\ others' = others + 1
    /\ \/ \E e \in users \union (Emails \ Taken) :
            users' = users \union {e} /\ session' = e
       \/ session' = None /\ UNCHANGED users
    /\ UNCHANGED <<page, nav, form, calls, tickets, popup, store, wanted, acts>>

-----------------------------------------------------------------------------
(* The specification *)

\* The answer of call i
Answer(i) ==
    \/ RequestDone(i) \/ LoginDone(i) \/ ExchangeDone(i) \/ VerifyDone(i) \/ ResendDone(i)
    \/ CompleteDone(i) \/ TicketDone(i) \/ RefreshDone(i) \/ LogoutDone(i)

Next ==
    \/ \E e \in Emails : RequestOtp(e) \/ Login(e)
    \/ \E k \in FullCodes \union {"partial"} : EnterCode(k)
    \/ \E op \in FlowOps : SubmitPassword(op)
    \/ StartPopup \/ PopupSignIn \/ CancelPopup \/ ResultArrives
    \/ CountdownEnds \/ ResendOtp \/ Back
    \/ \E p \in Pages : Go(p)
    \/ Arrive \/ Reload \/ SignOut \/ OtherTab
    \/ \E i \in Ids : Answer(i)

Spec == Init /\ [][Next]_vars

\* Timers fire and the router arrives; nobody has to do anything.
FairSpec ==
    /\ Spec
    /\ \A i \in Ids : WF_vars(Answer(i))
    /\ WF_vars(Arrive)

-----------------------------------------------------------------------------
(* Properties *)

TypeOK ==
    /\ page \in Pages
    /\ nav \in Pages \union {"none"}
    /\ step \in {"first", "otp", "password"}
    /\ email \in Emails \union {None}
    /\ ticket \in 0..Len(tickets)
    /\ code \in FullCodes \union {"partial"}
    /\ canResend \in BOOLEAN
    /\ resent \in BOOLEAN
    /\ calls \in [Ids -> CallSet]
    /\ tickets \in Seq(TicketSet)
    /\ popup \in {"none", "watched", "reported", "abandoned"}
    /\ status \in {"idle", "authenticated", "unauthenticated"}
    /\ user \in Emails \union {None}
    /\ users \subseteq Emails
    /\ session \in users \union {None}
    /\ wanted \in Emails \union {None}
    /\ acts \in Nat
    /\ others \in Nat

\* However answers overtake each other, and whatever the user clicked meanwhile:
\* the screens after the first are about the last address a code was asked for,
\* and the password screen holds a ticket issued for it and for this flow's
\* purpose (register-flow.tsx, login-flow.tsx: the state their callbacks set).
StepsFollowUser ==
    /\ step # "first" => page \in FlowPages /\ email = wanted
    /\ step = "password" =>
         /\ ticket \in DOMAIN tickets
         /\ tickets[ticket].email = wanted
         /\ tickets[ticket].purpose = PurposeOf(page)

\* A complete code on the OTP screen is always one under verification: it never
\* stays there with nothing under way (otp-step.tsx: the input cannot be changed
\* while it verifies, a refusal clears it, a resend clears it and drops the
\* verification).
CodeIsVerified == step = "otp" /\ code \in FullCodes => Pending({"verify"})

\* The dashboard never waits for nothing: while the status is not known an answer
\* is on its way that the guard listens to, and without a session the router is
\* going somewhere (use-require-session.ts: the effect runs once per mount and
\* drops the answer of an earlier one).
GuardDecides ==
    page = "dashboard" =>
        /\ status = "idle" => Pending({"refresh"})
        /\ status = "unauthenticated" => nav # "none"

\* The ticket of the password screen is only spent on a session for the address
\* of the screen, although the service takes it before it looks for the account
\* (auth.mock.ts, takeTicket): no forgotten call spends it and it never buys a
\* refusal.
TicketsBuySessions ==
    [][step = "password" /\ step' = "password" /\ tickets[ticket].open /\ ~tickets'[ticket].open =>
         status' = "authenticated" /\ user' = wanted]_vars

LoggingOut == \E i \in Ids : calls[i].op = "logout"

\* Once the user is on a page without flow or guard, no answer that is still on
\* its way signs the tab in or out or takes the user elsewhere; only signOut,
\* which nothing cancels, does (login-flow.tsx, use-complete-auth.ts,
\* use-require-session.ts: callbacks of components that are gone).
LeftAlone ==
    [][page = "elsewhere" /\ ~LoggingOut =>
         /\ store' = store \/ status' = "idle"
         /\ nav' = nav \/ page' # page \/ acts' = acts + 1]_vars

\* Nobody waits for ever: the dashboard finds out who is there or leaves
\* (use-require-session.ts), a complete code is answered, and a right one of a
\* known or new user leads on unless a resend dropped it (otp-step.tsx).
WaitsEnd ==
    /\ page = "dashboard" ~> (page # "dashboard" \/ status = "authenticated")
    /\ (step = "otp" /\ code \in FullCodes) ~> ~(step = "otp" /\ code \in FullCodes)
    /\ (\E i \in Ids : calls[i].live /\ calls[i].op = "verify" /\ Accepted(calls[i]))
         ~> (step # "otp" \/ resent)
=============================================================================

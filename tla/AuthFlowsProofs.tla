-------------------------- MODULE AuthFlowsProofs --------------------------
(***************************************************************************)
(* Proofs about AuthFlows, for any addresses, any number of calls under    *)
(* way and any number of things done by the user and by other tabs.        *)
(*                                                                         *)
(* The invariant says what a call that is still heard is about: a request  *)
(* and a verification are about the address wanted last and the purpose of *)
(* the flow on the page, and a screen's calls are only heard while the     *)
(* screen is there.  The safety of the steps follows, and so does that a   *)
(* page which made no call is left alone.                                  *)
(***************************************************************************)
EXTENDS AuthFlows, SequenceTheorems, TLAPS

\* What call i is about
CallFits(i) ==
    /\ calls[i].op \in {"request", "verify"} => calls[i].email \in Emails
    /\ calls[i].live /\ calls[i].op = "request" =>
         /\ step = "first"
         /\ calls[i].email = wanted
         /\ calls[i].purpose = PurposeOf(page)
    /\ calls[i].live /\ calls[i].op = "verify" =>
         /\ step = "otp"
         /\ calls[i].email = wanted
         /\ calls[i].purpose = PurposeOf(page)
    /\ calls[i].live /\ calls[i].op \in FirstOps \union OtpOps \union FlowOps =>
         page \in FlowPages
    /\ calls[i].live /\ calls[i].op = "refresh" => page = "dashboard"

CallsFit == \A i \in Ids : CallFits(i)

\* A popup that is still heard has its page; the router never goes from a page
\* without flow or guard to itself.
PagesFit ==
    /\ popup \in {"watched", "reported"} => page \in FlowPages
    /\ nav = "elsewhere" => page # "elsewhere"
    /\ step # "first" => wanted \in Emails

Inv ==
    /\ TypeOK
    /\ CallsFit
    /\ PagesFit
    /\ StepsFollowUser
    /\ CodeIsVerified

-----------------------------------------------------------------------------
(* The table of calls *)

LEMMA QuietIsCall == Quiet \in CallSet /\ Quiet.op = "none" /\ ~Quiet.live
BY EmailsAssumption DEF Quiet, CallSet, Purposes

LEMMA CallFields ==
  ASSUME NEW op \in Ops, NEW purpose \in Purposes
  PROVE  /\ Call(op, purpose) \in CallSet
         /\ Call(op, purpose).op = op
         /\ Call(op, purpose).purpose = purpose
BY DEF Call, Quiet, CallSet

LEMMA PurposeType == ASSUME NEW p PROVE PurposeOf(p) \in Purposes
BY DEF PurposeOf, Purposes

LEMMA BeginTable ==
  ASSUME calls \in [Ids -> CallSet], NEW c \in CallSet, Begin(c)
  PROVE  /\ calls' \in [Ids -> CallSet]
         /\ \E k \in Ids : /\ calls[k] = Quiet
                           /\ calls'[k] = c
                           /\ \A i \in Ids \ {k} : calls'[i] = calls[i]
BY DEF Begin, Free

LEMMA SilenceTable ==
  ASSUME NEW table \in [Ids -> CallSet], NEW ops
  PROVE  /\ Silence(table, ops) \in [Ids -> CallSet]
         /\ \A i \in Ids :
              /\ Silence(table, ops)[i].op = table[i].op
              /\ Silence(table, ops)[i].email = table[i].email
              /\ Silence(table, ops)[i].purpose = table[i].purpose
              /\ Silence(table, ops)[i].live => table[i].live /\ table[i].op \notin ops
              /\ table[i].op \notin ops => Silence(table, ops)[i] = table[i]
BY DEF Silence, CallSet

LEMMA AnsweredTable ==
  ASSUME calls \in [Ids -> CallSet], NEW i \in Ids
  PROVE  /\ Answered(i) \in [Ids -> CallSet]
         /\ Answered(i)[i] = Quiet
         /\ \A j \in Ids \ {i} : Answered(i)[j] = calls[j]
BY QuietIsCall DEF Answered

\* Calls are answered or silenced, and the page and the step stay.
LEMMA FewerCalls ==
  ASSUME Inv, UNCHANGED <<page, step, wanted>>,
         \A i \in Ids : \/ calls'[i] = Quiet
                        \/ /\ calls'[i].op = calls[i].op
                           /\ calls'[i].email = calls[i].email
                           /\ calls'[i].purpose = calls[i].purpose
                           /\ calls'[i].live => calls[i].live
  PROVE  CallsFit'
<1> SUFFICES ASSUME NEW i \in Ids PROVE CallFits(i)'
  BY DEF CallsFit
<1>1. CallFits(i)
  BY DEF Inv, CallsFit
<1>2. CASE calls'[i] = Quiet
  BY <1>2, QuietIsCall DEF CallFits, FirstOps, OtpOps, FlowOps
<1>3. CASE calls'[i] # Quiet
  BY <1>1, <1>3 DEF CallFits
<1> QED
  BY <1>2, <1>3

\* One more call is made, and the page and the step stay.
LEMMA OneMoreCall ==
  ASSUME Inv, UNCHANGED <<page, step>>, NEW c \in CallSet, Begin(c),
         wanted' = wanted
           \/ \A i \in Ids : ~(calls[i].live /\ calls[i].op \in {"request", "verify"}),
         c.op \in {"request", "verify"} =>
           c.email \in Emails /\ c.email = wanted' /\ c.purpose = PurposeOf(page),
         c.op = "request" => step = "first",
         c.op = "verify" => step = "otp",
         c.op \in FirstOps \union OtpOps \union FlowOps => page \in FlowPages,
         c.op = "refresh" => page = "dashboard"
  PROVE  CallsFit'
<1> SUFFICES ASSUME NEW i \in Ids PROVE CallFits(i)'
  BY DEF CallsFit
<1>1. PICK k \in Ids : /\ calls'[k] = c
                       /\ \A j \in Ids \ {k} : calls'[j] = calls[j]
  BY BeginTable DEF Inv, TypeOK
<1>2. CallFits(i)
  BY DEF Inv, CallsFit
<1>3. CASE i = k
  BY <1>1, <1>3 DEF CallFits
<1>4. CASE i # k
  BY <1>1, <1>2, <1>4 DEF CallFits
<1> QED
  BY <1>3, <1>4

\* A verification under way goes on when another call is made or answered.
LEMMA BeginPending ==
  ASSUME calls \in [Ids -> CallSet], NEW c \in CallSet, Begin(c), Pending({"verify"})
  PROVE  Pending({"verify"})'
<1>1. PICK k \in Ids : /\ calls[k] = Quiet
                       /\ \A j \in Ids \ {k} : calls'[j] = calls[j]
  BY BeginTable
<1>2. PICK i \in Ids : calls[i].live /\ calls[i].op \in {"verify"}
  BY DEF Pending
<1>3. i # k
  BY <1>1, <1>2, QuietIsCall
<1> QED
  BY <1>1, <1>2, <1>3 DEF Pending

LEMMA AnsweredPending ==
  ASSUME calls \in [Ids -> CallSet], NEW i \in Ids, calls' = Answered(i),
         calls[i].op # "verify" \/ ~calls[i].live, Pending({"verify"})
  PROVE  Pending({"verify"})'
<1>1. PICK j \in Ids : calls[j].live /\ calls[j].op \in {"verify"}
  BY DEF Pending
<1>2. calls'[j] = calls[j]
  BY <1>1, AnsweredTable
<1> QED
  BY <1>1, <1>2 DEF Pending

-----------------------------------------------------------------------------
LEMMA InitInv == Init => Inv
<1> SUFFICES ASSUME Init PROVE Inv
  OBVIOUS
<1>1. TypeOK
  <2>1. tickets \in Seq(TicketSet) /\ Len(tickets) = 0
    BY EmptySeq DEF Init
  <2>2. calls \in [Ids -> CallSet]
    BY QuietIsCall DEF Init
  <2>3. ticket \in 0..Len(tickets)
    BY <2>1 DEF Init
  <2>4. /\ page \in Pages /\ nav \in Pages \union {"none"}
        /\ users \subseteq Emails /\ session \in users \union {None}
    BY EmailsAssumption DEF Init, Pages, FlowPages
  <2> QED
    BY <2>1, <2>2, <2>3, <2>4 DEF Init, TypeOK
<1>2. CallsFit
  BY QuietIsCall DEF Init, CallsFit, CallFits, FirstOps, OtpOps, FlowOps
<1> QED
  BY <1>1, <1>2 DEF Init, Inv, PagesFit, StepsFollowUser, CodeIsVerified

-----------------------------------------------------------------------------
(* Answers *)

\* An answer that leaves the screen as it is keeps the invariant.
LEMMA SameScreen ==
  ASSUME Inv, TypeOK', NEW i \in Ids, calls' = Answered(i),
         calls[i].op # "verify" \/ ~calls[i].live,
         UNCHANGED <<page, form, popup, wanted>>,
         nav' \in {nav, "dashboard", "login"},
         \A k \in DOMAIN tickets : /\ k \in DOMAIN tickets'
                                   /\ tickets'[k].email = tickets[k].email
                                   /\ tickets'[k].purpose = tickets[k].purpose
  PROVE  Inv'
<1> USE DEF form, screen
<1>1. CallsFit'
  BY FewerCalls, AnsweredTable DEF Inv, TypeOK
<1>2. PagesFit'
  BY DEF Inv, PagesFit
<1>3. StepsFollowUser'
  BY DEF Inv, StepsFollowUser
<1>4. CodeIsVerified'
  BY AnsweredPending DEF Inv, TypeOK, CodeIsVerified
<1> QED
  BY <1>1, <1>2, <1>3, <1>4 DEF Inv

LEMMA AnsweredType ==
  ASSUME TypeOK, NEW i \in Ids
  PROVE  Answered(i) \in [Ids -> CallSet]
BY AnsweredTable DEF TypeOK

LEMMA LoginKeeps == ASSUME Inv, NEW i \in Ids, LoginDone(i) PROVE Inv'
<1>1. TypeOK'
  BY AnsweredType
  DEF Inv, LoginDone, SignedIn, CompleteAuth, Refused, TypeOK, form, screen, store, storage, Pages
<1> QED
  BY <1>1, SameScreen DEF LoginDone, SignedIn, CompleteAuth, Refused, store

LEMMA ExchangeKeeps == ASSUME Inv, NEW i \in Ids, ExchangeDone(i) PROVE Inv'
<1>1. TypeOK'
  BY AnsweredType
  DEF Inv, ExchangeDone, SignedIn, CompleteAuth, Refused, TypeOK, form, screen, store, Pages
<1> QED
  BY <1>1, SameScreen DEF ExchangeDone, SignedIn, CompleteAuth, Refused, store

LEMMA RefreshKeeps == ASSUME Inv, NEW i \in Ids, RefreshDone(i) PROVE Inv'
<1>1. TypeOK'
  BY AnsweredType
  DEF Inv, RefreshDone, ClearStore, TypeOK, form, screen, store, storage, Pages, FlowPages
<1> QED
  BY <1>1, SameScreen DEF RefreshDone, ClearStore, store

LEMMA LogoutKeeps == ASSUME Inv, NEW i \in Ids, LogoutDone(i) PROVE Inv'
<1>1. TypeOK'
  BY AnsweredType
  DEF Inv, LogoutDone, ClearStore, TypeOK, form, screen, Pages, FlowPages
<1> QED
  BY <1>1, SameScreen DEF LogoutDone, ClearStore

\* Taking a ticket only closes it.
LEMMA TakeTable ==
  ASSUME TypeOK, NEW c, Good(c), Take(c)
  PROVE  /\ tickets' \in Seq(TicketSet)
         /\ Len(tickets') = Len(tickets)
         /\ tickets[c.ticket].email \in Emails
         /\ \A k \in DOMAIN tickets : /\ k \in DOMAIN tickets'
                                      /\ tickets'[k].email = tickets[k].email
                                      /\ tickets'[k].purpose = tickets[k].purpose
<1>1. tickets \in Seq(TicketSet) /\ DOMAIN tickets = 1..Len(tickets) /\ Len(tickets) \in Nat
  BY DEF TypeOK
<1> DEFINE old == tickets[c.ticket]
           closed == [old EXCEPT !.open = FALSE]
<1>2. c.ticket \in DOMAIN tickets /\ old \in TicketSet
  BY <1>1 DEF Good
<1>3. closed \in TicketSet /\ closed.email = old.email /\ closed.purpose = old.purpose
  BY <1>2 DEF TicketSet
<1>4. tickets' = [tickets EXCEPT ![c.ticket] = closed]
  BY DEF Take
<1>5. old.email \in Emails
  BY <1>2 DEF TicketSet
<1> HIDE DEF closed
<1> QED
  BY <1>1, <1>2, <1>3, <1>4, <1>5

LEMMA CompleteKeeps == ASSUME Inv, NEW i \in Ids, CompleteDone(i) PROVE Inv'
<1>1. CASE Good(calls[i])
  <2> DEFINE e == tickets[calls[i].ticket].email
  <2>1. /\ Take(calls[i]) /\ users' = users \union {e} /\ SignedIn(calls[i], e)
        /\ calls' = Answered(i) /\ calls[i].op = "complete"
        /\ UNCHANGED <<page, form, popup, wanted, acts, others>>
    BY <1>1 DEF CompleteDone
  <2>2. TypeOK /\ e \in Emails
    BY <1>1, <2>1, TakeTable DEF Inv
  <2> HIDE DEF e
  <2>3. TypeOK'
    <3>1. tickets' \in Seq(TicketSet) /\ Len(tickets') = Len(tickets)
      BY <1>1, <2>1, <2>2, TakeTable
    <3> QED
      BY <2>1, <2>2, <3>1, AnsweredType
      DEF SignedIn, CompleteAuth, TypeOK, form, screen, store, Pages
  <2> QED
    BY <1>1, <2>1, <2>2, <2>3, TakeTable, SameScreen DEF SignedIn, CompleteAuth
<1>2. CASE ~Good(calls[i])
  <2>1. TypeOK'
    BY <1>2, AnsweredType DEF Inv, CompleteDone, Refused, TypeOK, form, screen, store
  <2> QED
    BY <1>2, <2>1, SameScreen DEF CompleteDone, Refused
<1> QED
  BY <1>1, <1>2

LEMMA TicketKeeps == ASSUME Inv, NEW i \in Ids, TicketDone(i) PROVE Inv'
<1>1. CASE Good(calls[i])
  <2> DEFINE e == tickets[calls[i].ticket].email
  <2>1. /\ Take(calls[i]) /\ IF e \in users THEN SignedIn(calls[i], e) ELSE Refused
        /\ calls' = Answered(i) /\ calls[i].op \in {"reset", "skip"}
        /\ UNCHANGED <<page, form, popup, users, wanted, acts, others>>
    BY <1>1 DEF TicketDone
  <2>2. TypeOK /\ e \in Emails
    BY <1>1, <2>1, TakeTable DEF Inv
  <2> HIDE DEF e
  <2>3. TypeOK'
    <3>1. tickets' \in Seq(TicketSet) /\ Len(tickets') = Len(tickets)
      BY <1>1, <2>1, <2>2, TakeTable
    <3> QED
      BY <2>1, <2>2, <3>1, AnsweredType
      DEF SignedIn, Refused, CompleteAuth, TypeOK, form, screen, store, Pages
  <2> QED
    BY <1>1, <2>1, <2>2, <2>3, TakeTable, SameScreen DEF SignedIn, CompleteAuth, Refused
<1>2. CASE ~Good(calls[i])
  <2>1. TypeOK'
    BY <1>2, AnsweredType DEF Inv, TicketDone, Refused, TypeOK, form, screen, store
  <2> QED
    BY <1>2, <2>1, SameScreen DEF TicketDone, Refused
<1> QED
  BY <1>1, <1>2

\* The OTP screen appears with the address that the request was about.
LEMMA RequestDoneKeeps == ASSUME Inv, NEW i \in Ids, RequestDone(i) PROVE Inv'
<1> USE DEF form, screen
<1>1. CASE calls[i].live /\ Sendable(calls[i])
  <2>1. /\ calls[i].op = "request" /\ ShowOtp(i)
        /\ UNCHANGED <<page, nav, ticket, tickets, store, storage, wanted, acts, others>>
    BY <1>1 DEF RequestDone
  <2>2. /\ step = "first" /\ calls[i].email = wanted /\ wanted \in Emails
        /\ page \in FlowPages
    BY <1>1, <2>1 DEF Inv, CallsFit, CallFits, FirstOps
  <2>3. Answered(i) \in [Ids -> CallSet]
    BY AnsweredType DEF Inv
  <2>4. /\ calls' \in [Ids -> CallSet]
        /\ \A j \in Ids : /\ calls'[j].op = Answered(i)[j].op
                          /\ calls'[j].email = Answered(i)[j].email
                          /\ calls'[j].purpose = Answered(i)[j].purpose
                          /\ calls'[j].live => Answered(i)[j].live /\ calls'[j].op \notin FirstOps
    BY <2>1, <2>3, SilenceTable DEF ShowOtp
  <2>5. TypeOK'
    BY <2>1, <2>2, <2>4
    DEF Inv, ShowOtp, FreshScreen, Unwatched, TypeOK, store, storage
  <2>6. CallsFit'
    <3> SUFFICES ASSUME NEW j \in Ids PROVE CallFits(j)'
      BY DEF CallsFit
    <3>1. CASE j = i
      BY <2>4, <2>3, <3>1, AnsweredTable, QuietIsCall
      DEF Inv, TypeOK, CallFits, FirstOps, OtpOps, FlowOps
    <3>2. CASE j # i
      <4>1. Answered(i)[j] = calls[j] /\ CallFits(j)
        BY <3>2, AnsweredTable DEF Inv, TypeOK, CallsFit
      <4> QED
        BY <2>1, <2>2, <2>4, <4>1 DEF CallFits, FirstOps
    <3> QED
      BY <3>1, <3>2
  <2> QED
    BY <2>1, <2>2, <2>5, <2>6
    DEF Inv, ShowOtp, FreshScreen, Unwatched, PagesFit, StepsFollowUser, CodeIsVerified, FullCodes
<1>2. CASE ~(calls[i].live /\ Sendable(calls[i]))
  <2>1. TypeOK'
    BY <1>2, AnsweredType DEF Inv, RequestDone, TypeOK, store, storage
  <2> QED
    BY <1>2, <2>1, SameScreen DEF RequestDone
<1> QED
  BY <1>1, <1>2

\* The password screen appears with a ticket for the same address and purpose.
LEMMA VerifyDoneKeeps == ASSUME Inv, NEW i \in Ids, VerifyDone(i) PROVE Inv'
<1> USE DEF form, screen
<1> DEFINE c == calls[i]
           new == [email |-> c.email, purpose |-> c.purpose, open |-> TRUE]
<1>1. /\ c.op = "verify" /\ c.email \in Emails /\ c \in CallSet
      /\ UNCHANGED <<page, nav, popup, store, storage, wanted, acts, others>>
  BY DEF VerifyDone, Inv, CallsFit, CallFits, TypeOK
<1>2. Answered(i) \in [Ids -> CallSet]
  BY AnsweredType DEF Inv
<1>3. /\ tickets \in Seq(TicketSet) /\ Len(tickets) \in Nat
      /\ DOMAIN tickets = 1..Len(tickets)
  BY DEF Inv, TypeOK
<1>4. new \in TicketSet /\ new.email = c.email /\ new.purpose = c.purpose
  BY <1>1 DEF TicketSet, CallSet
<1>5. tickets' = IF Accepted(c) THEN Append(tickets, new) ELSE tickets
  BY DEF VerifyDone
<1> HIDE DEF new
<1>6. /\ tickets' \in Seq(TicketSet) /\ Len(tickets) <= Len(tickets')
      /\ \A k \in DOMAIN tickets : k \in DOMAIN tickets' /\ tickets'[k] = tickets[k]
      /\ Accepted(c) => /\ Len(tickets') \in DOMAIN tickets'
                        /\ tickets'[Len(tickets')] = new
  BY <1>3, <1>4, <1>5
<1>7. CASE c.live /\ Accepted(c)
  <2>1. ShowPassword(i)
    BY <1>7 DEF VerifyDone
  <2>2. /\ step = "otp" /\ c.email = wanted /\ c.purpose = PurposeOf(page)
        /\ page \in FlowPages
    BY <1>1, <1>7 DEF Inv, CallsFit, CallFits, OtpOps
  <2>3. /\ calls' \in [Ids -> CallSet]
        /\ \A j \in Ids : /\ calls'[j].op = Answered(i)[j].op
                          /\ calls'[j].email = Answered(i)[j].email
                          /\ calls'[j].purpose = Answered(i)[j].purpose
                          /\ calls'[j].live => Answered(i)[j].live /\ calls'[j].op \notin OtpOps
    BY <2>1, <1>2, SilenceTable DEF ShowPassword
  <2>4. TypeOK'
    <3>1. ticket' \in 0..Len(tickets')
      BY <1>3, <1>6, <2>1 DEF ShowPassword
    <3> QED
      BY <1>1, <1>6, <2>1, <2>3, <3>1
      DEF Inv, ShowPassword, FreshScreen, TypeOK, store, storage
  <2>5. CallsFit'
    <3> SUFFICES ASSUME NEW j \in Ids PROVE CallFits(j)'
      BY DEF CallsFit
    <3>1. CASE j = i
      BY <1>2, <2>3, <3>1, AnsweredTable, QuietIsCall
      DEF Inv, TypeOK, CallFits, FirstOps, OtpOps, FlowOps
    <3>2. CASE j # i
      <4>1. Answered(i)[j] = calls[j] /\ CallFits(j)
        BY <3>2, AnsweredTable DEF Inv, TypeOK, CallsFit
      <4> QED
        BY <1>1, <2>2, <2>3, <4>1 DEF CallFits, OtpOps
    <3> QED
      BY <3>1, <3>2
  <2>6. StepsFollowUser'
    BY <1>1, <1>4, <1>6, <1>7, <2>1, <2>2 DEF ShowPassword, StepsFollowUser
  <2>7. PagesFit' /\ CodeIsVerified'
    BY <1>1, <2>1, <2>2 DEF Inv, ShowPassword, PagesFit, CodeIsVerified
  <2> QED
    BY <2>4, <2>5, <2>6, <2>7 DEF Inv
<1>8. CASE ~(c.live /\ Accepted(c))
  <2>1. /\ calls' = Answered(i)
        /\ IF c.live THEN code' = "partial" ELSE UNCHANGED code
        /\ UNCHANGED <<step, email, ticket, canResend, resent>>
    BY <1>8 DEF VerifyDone, ClearCode
  <2>2. TypeOK'
    <3>1. ticket' \in 0..Len(tickets')
      BY <1>3, <1>6, <2>1 DEF Inv, TypeOK
    <3> QED
      BY <1>1, <1>2, <1>6, <2>1, <3>1 DEF Inv, TypeOK, store, storage
  <2>3. CallsFit'
    BY <1>1, <2>1, FewerCalls, AnsweredTable DEF Inv, TypeOK
  <2>4. PagesFit' /\ StepsFollowUser'
    BY <1>1, <1>6, <2>1 DEF Inv, PagesFit, StepsFollowUser
  <2>5. CodeIsVerified'
    BY <2>1, AnsweredPending DEF Inv, TypeOK, CodeIsVerified, FullCodes
  <2> QED
    BY <2>2, <2>3, <2>4, <2>5 DEF Inv
<1> QED
  BY <1>7, <1>8

LEMMA ResendDoneKeeps == ASSUME Inv, NEW i \in Ids, ResendDone(i) PROVE Inv'
<1> USE DEF form, screen
<1>1. CASE calls[i].live /\ Sendable(calls[i])
  <2>1. /\ code' = "partial" /\ canResend' = FALSE /\ resent' = TRUE
        /\ calls' = Silence(Answered(i), {"verify"})
        /\ UNCHANGED <<page, nav, step, email, ticket, tickets, popup, store, storage, wanted,
                       acts, others>>
    BY <1>1 DEF ResendDone, ClearCode
  <2>2. Answered(i) \in [Ids -> CallSet]
    BY AnsweredType DEF Inv
  <2>3. calls' \in [Ids -> CallSet]
    BY <2>1, <2>2, SilenceTable
  <2>4. TypeOK'
    BY <2>1, <2>3 DEF Inv, TypeOK, store, storage
  <2>5. CallsFit'
    <3>1. \A j \in Ids : \/ j = i /\ ~calls'[j].live /\ calls'[j].op = "none"
                         \/ /\ calls'[j].op = calls[j].op
                            /\ calls'[j].email = calls[j].email
                            /\ calls'[j].purpose = calls[j].purpose
                            /\ calls'[j].live => calls[j].live
      BY <2>1, <2>2, SilenceTable, AnsweredTable, QuietIsCall DEF Inv, TypeOK
    <3> SUFFICES ASSUME NEW j \in Ids PROVE CallFits(j)'
      BY DEF CallsFit
    <3>2. CallFits(j)
      BY DEF Inv, CallsFit
    <3> QED
      BY <2>1, <3>1, <3>2 DEF CallFits
  <2>6. PagesFit' /\ StepsFollowUser' /\ CodeIsVerified'
    BY <2>1 DEF Inv, PagesFit, StepsFollowUser, CodeIsVerified, FullCodes
  <2> QED
    BY <2>4, <2>5, <2>6 DEF Inv
<1>2. CASE ~(calls[i].live /\ Sendable(calls[i]))
  <2>1. TypeOK'
    BY <1>2, AnsweredType DEF Inv, ResendDone, TypeOK, store, storage
  <2> QED
    BY <1>2, <2>1, SameScreen DEF ResendDone
<1> QED
  BY <1>1, <1>2

-----------------------------------------------------------------------------
(* What the user does on a screen *)

\* A call of another kind than request and verify leaves the steps alone.
LEMMA OtherCall ==
  ASSUME Inv, NEW op \in Ops \ {"request", "verify"}, NEW purpose \in Purposes,
         NEW c \in CallSet, c.op = op, Begin(c),
         UNCHANGED <<page, nav, form, tickets, store, storage, wanted, others>>,
         popup' \in {popup, "none"}, acts' \in Nat,
         op \in FirstOps \union OtpOps \union FlowOps => page \in FlowPages,
         op = "refresh" => page = "dashboard"
  PROVE  Inv'
<1> USE DEF form, screen
<1>1. calls' \in [Ids -> CallSet]
  BY BeginTable DEF Inv, TypeOK
<1>2. TypeOK'
  BY <1>1 DEF Inv, TypeOK, store, storage
<1>3. CallsFit'
  BY OneMoreCall
<1>4. PagesFit' /\ StepsFollowUser'
  BY DEF Inv, PagesFit, StepsFollowUser
<1>5. CodeIsVerified'
  BY BeginPending DEF Inv, TypeOK, CodeIsVerified
<1> QED
  BY <1>2, <1>3, <1>4, <1>5 DEF Inv

LEMMA ActType == ASSUME TypeOK, Act PROVE acts' \in Nat
BY DEF TypeOK, Act

LEMMA RequestOtpKeeps == ASSUME Inv, NEW e \in Emails, RequestOtp(e) PROVE Inv'
<1> USE DEF form, screen
<1> DEFINE call == Call("request", PurposeOf(page))
           c == [call EXCEPT !.email = e]
<1>1. /\ page \in FlowPages /\ step = "first" /\ ~Pending({"request", "login"})
      /\ wanted' = e /\ Begin(c)
      /\ UNCHANGED <<page, nav, form, tickets, popup, store, storage, others>>
  BY DEF RequestOtp, FirstIsIdle, First
<1>2. call \in CallSet /\ call.op = "request" /\ call.purpose = PurposeOf(page)
  BY CallFields, PurposeType DEF Ops, FirstOps
<1> HIDE DEF call
<1>3. c \in CallSet /\ c.op = "request" /\ c.email = e /\ c.purpose = PurposeOf(page)
  BY <1>2 DEF CallSet
<1> HIDE DEF c
<1>4. calls' \in [Ids -> CallSet]
  BY <1>1, <1>3, BeginTable DEF Inv, TypeOK
<1>5. acts' \in Nat
  BY ActType DEF Inv, RequestOtp
<1>6. TypeOK'
  BY <1>1, <1>4, <1>5 DEF Inv, TypeOK, store, storage
<1>7. \A i \in Ids : ~(calls[i].live /\ calls[i].op \in {"request", "verify"})
  BY <1>1 DEF Inv, CallsFit, CallFits, Pending
<1>8. CallsFit'
  BY <1>1, <1>3, <1>7, OneMoreCall
<1>9. PagesFit' /\ StepsFollowUser' /\ CodeIsVerified'
  BY <1>1 DEF Inv, PagesFit, StepsFollowUser, CodeIsVerified
<1> QED
  BY <1>6, <1>8, <1>9 DEF Inv

LEMMA EnterCodeKeeps ==
  ASSUME Inv, NEW k \in FullCodes \union {"partial"}, EnterCode(k) PROVE Inv'
<1> USE DEF form, screen
<1> DEFINE call == Call("verify", PurposeOf(page))
           c == [call EXCEPT !.email = email, !.code = k]
<1>1. /\ step = "otp" /\ email = wanted /\ wanted \in Emails /\ page \in FlowPages
      /\ code' = k /\ resent' = FALSE
      /\ (k \notin FullCodes => UNCHANGED calls)
      /\ (k \in FullCodes => Begin(c))
      /\ UNCHANGED <<page, nav, step, email, ticket, canResend, tickets, popup, store, storage,
                     wanted, others>>
  BY DEF Inv, EnterCode, Completes, StepsFollowUser, PagesFit
<1>2. call \in CallSet /\ call.op = "verify" /\ call.purpose = PurposeOf(page) /\ call.live
  BY CallFields, PurposeType DEF Ops, OtpOps, Call, Quiet
<1> HIDE DEF call
<1>3. c.op = "verify" /\ c.email = wanted /\ c.purpose = PurposeOf(page) /\ c.live
      /\ c \in CallSet
  BY <1>1, <1>2 DEF CallSet
<1> HIDE DEF c
<1>4. calls' \in [Ids -> CallSet]
  BY <1>1, <1>3, BeginTable DEF Inv, TypeOK
<1>5. acts' \in Nat
  BY ActType DEF Inv, EnterCode
<1>6. TypeOK'
  BY <1>1, <1>4, <1>5 DEF Inv, TypeOK, store, storage
<1>7. CallsFit'
  <2>1. CASE k \in FullCodes
    BY <1>1, <1>3, <2>1, OneMoreCall
  <2>2. CASE k \notin FullCodes
    BY <1>1, <2>2 DEF Inv, CallsFit, CallFits
  <2> QED
    BY <2>1, <2>2
<1>8. CodeIsVerified'
  <2>1. CASE k \in FullCodes
    BY <1>1, <1>3, <2>1, BeginTable DEF Inv, TypeOK, CodeIsVerified, Pending
  <2>2. CASE k \notin FullCodes
    BY <1>1, <2>2 DEF CodeIsVerified
  <2> QED
    BY <2>1, <2>2
<1>9. PagesFit' /\ StepsFollowUser'
  BY <1>1 DEF Inv, PagesFit, StepsFollowUser
<1> QED
  BY <1>6, <1>7, <1>8, <1>9 DEF Inv

LEMMA LoginBeginKeeps == ASSUME Inv, NEW e \in Emails, Login(e) PROVE Inv'
<1> DEFINE call == Call("login", PurposeOf(page))
           c == [call EXCEPT !.email = e]
<1>1. call \in CallSet /\ call.op = "login"
  BY CallFields, PurposeType DEF Ops, FirstOps
<1> HIDE DEF call
<1>2. c \in CallSet /\ c.op = "login"
  BY <1>1 DEF CallSet
<1>3. Begin(c)
  BY DEF Login, call
<1> HIDE DEF c
<1>4. page \in FlowPages /\ acts' \in Nat
  BY ActType DEF Inv, Login, FirstIsIdle, First
<1> QED
  BY <1>2, <1>3, <1>4, OtherCall, PurposeType DEF Login, Ops, FirstOps

LEMMA ResendKeeps == ASSUME Inv, ResendOtp PROVE Inv'
<1> DEFINE call == Call("resend", PurposeOf(page))
           c == [call EXCEPT !.email = email]
<1>1. call \in CallSet /\ call.op = "resend" /\ email \in Emails \union {None}
  BY CallFields, PurposeType DEF Ops, OtpOps, Inv, TypeOK
<1> HIDE DEF call
<1>2. c \in CallSet /\ c.op = "resend"
  BY <1>1 DEF CallSet
<1>3. Begin(c)
  BY DEF ResendOtp, call
<1> HIDE DEF c
<1>4. page \in FlowPages /\ acts' \in Nat
  BY ActType DEF Inv, ResendOtp, StepsFollowUser
<1> QED
  BY <1>2, <1>3, <1>4, OtherCall, PurposeType DEF ResendOtp, Ops, OtpOps

LEMMA SubmitKeeps == ASSUME Inv, NEW op \in FlowOps, SubmitPassword(op) PROVE Inv'
<1> DEFINE call == Call(op, PurposeOf(page))
           c == [call EXCEPT !.ticket = ticket]
<1>1. call \in CallSet /\ call.op = op
  BY CallFields, PurposeType DEF Ops
<1> HIDE DEF call
<1>2. ticket \in Nat
  BY DEF Inv, TypeOK
<1>3. c \in CallSet /\ c.op = op
  BY <1>1, <1>2 DEF CallSet
<1>4. Begin(c)
  BY DEF SubmitPassword, call
<1> HIDE DEF c
<1>5. page \in FlowPages /\ acts' \in Nat
  BY ActType DEF Inv, SubmitPassword, StepsFollowUser
<1> QED
  BY <1>3, <1>4, <1>5, OtherCall, PurposeType DEF SubmitPassword, Ops, FlowOps

LEMMA ResultKeeps == ASSUME Inv, ResultArrives PROVE Inv'
<1> DEFINE c == Call("exchange", PurposeOf(page))
<1>1. c \in CallSet /\ c.op = "exchange"
  BY CallFields, PurposeType DEF Ops, FirstOps
<1>2. Begin(c)
  BY DEF ResultArrives
<1> HIDE DEF c
<1>3. page \in FlowPages /\ acts' \in Nat
  BY DEF Inv, ResultArrives, PagesFit, TypeOK
<1> QED
  BY <1>1, <1>2, <1>3, OtherCall, PurposeType DEF ResultArrives, Ops, FirstOps

LEMMA SignOutKeeps == ASSUME Inv, SignOut PROVE Inv'
<1> DEFINE c == Call("logout", "register")
<1>1. c \in CallSet /\ c.op = "logout" /\ "register" \in Purposes
  BY CallFields DEF Ops, Purposes
<1>2. Begin(c)
  BY DEF SignOut
<1> HIDE DEF c
<1>3. acts' \in Nat
  BY ActType DEF Inv, SignOut
<1> QED
  BY <1>1, <1>2, <1>3, OtherCall DEF SignOut, Ops, FirstOps, OtpOps, FlowOps

LEMMA BackKeeps == ASSUME Inv, Back PROVE Inv'
<1> USE DEF form, screen
<1>1. /\ calls' = Silence(calls, OtpOps) /\ step' = "first" /\ acts' \in Nat
      /\ page \in FlowPages
      /\ UNCHANGED <<page, nav, email, ticket, tickets, popup, store, storage, wanted, others>>
  BY ActType DEF Inv, Back, StepsFollowUser
<1>2. /\ calls' \in [Ids -> CallSet]
      /\ \A j \in Ids : /\ calls'[j].op = calls[j].op
                        /\ calls'[j].email = calls[j].email
                        /\ calls'[j].purpose = calls[j].purpose
                        /\ calls'[j].live => calls[j].live /\ calls[j].op \notin OtpOps
  BY <1>1, SilenceTable DEF Inv, TypeOK
<1>3. TypeOK'
  BY <1>1, <1>2 DEF Inv, TypeOK, Back, FreshScreen, store, storage
<1>4. CallsFit'
  BY <1>1, <1>2 DEF Inv, CallsFit, CallFits, OtpOps
<1>5. PagesFit' /\ StepsFollowUser' /\ CodeIsVerified'
  BY <1>1 DEF Inv, PagesFit, StepsFollowUser, CodeIsVerified
<1> QED
  BY <1>3, <1>4, <1>5 DEF Inv

-----------------------------------------------------------------------------
(* The popup, the pages, the other tabs *)

\* A step that leaves the calls, the page and the form alone
LEMMA SameCalls ==
  ASSUME Inv, TypeOK', UNCHANGED <<page, form, calls, tickets, wanted>>,
         popup' \in {"watched", "reported"} => page \in FlowPages,
         nav' = "elsewhere" => page # "elsewhere"
  PROVE  Inv'
BY DEF form, screen, Inv, CallsFit, CallFits, PagesFit, StepsFollowUser, CodeIsVerified, Pending

LEMMA StartPopupKeeps == ASSUME Inv, StartPopup PROVE Inv'
<1>1. TypeOK'
  BY ActType DEF Inv, StartPopup, TypeOK, form, screen, store, storage
<1> QED
  BY <1>1, SameCalls DEF StartPopup, FirstIsIdle, First, Inv, PagesFit

LEMMA PopupSignInKeeps == ASSUME Inv, PopupSignIn PROVE Inv'
<1>1. TypeOK'
  BY ActType, EmailsAssumption
  DEF Inv, PopupSignIn, ProviderSignsIn, TypeOK, form, screen, store
<1> QED
  BY <1>1, SameCalls DEF PopupSignIn, Inv, PagesFit

LEMMA CancelPopupKeeps == ASSUME Inv, CancelPopup PROVE Inv'
<1>1. TypeOK'
  BY DEF Inv, CancelPopup, TypeOK, form, screen, store, storage
<1> QED
  BY <1>1, SameCalls DEF CancelPopup, Inv, PagesFit

LEMMA CountdownKeeps == ASSUME Inv, CountdownEnds PROVE Inv'
<1>1. TypeOK'
  BY DEF Inv, CountdownEnds, TypeOK, store, storage
<1> QED
  BY <1>1
  DEF CountdownEnds, Inv, CallsFit, CallFits, PagesFit, StepsFollowUser, CodeIsVerified, Pending

LEMMA GoKeeps == ASSUME Inv, NEW p \in Pages, Go(p) PROVE Inv'
<1>1. TypeOK'
  BY ActType DEF Inv, Go, TypeOK, form, screen, store, storage
<1> QED
  BY <1>1, SameCalls DEF Go, Inv, PagesFit

LEMMA OtherTabKeeps == ASSUME Inv, OtherTab PROVE Inv'
<1>1. TypeOK'
  BY DEF Inv, OtherTab, TypeOK, form, screen, store
<1> QED
  BY <1>1, SameCalls DEF OtherTab, Inv, PagesFit

\* A page that is mounted over a table without calls that are heard
LEMMA MountKeeps ==
  ASSUME Inv, NEW p \in Pages, NEW table \in [Ids -> CallSet], Mount(p, table),
         \A i \in Ids : table[i].live => table[i].op \notin Ops \ {"logout"},
         \A i \in Ids : table[i].op \in {"request", "verify"} => table[i].email \in Emails,
         FreshForm, popup' = Unwatched, wanted' = wanted, others' = others, acts' \in Nat,
         tickets' \in Seq(TicketSet), UNCHANGED storage,
         status' \in {"idle", "authenticated", "unauthenticated"},
         user' \in Emails \union {None}
  PROVE  Inv'
<1>1. /\ page' = p /\ step' = "first" /\ email' = None /\ ticket' = 0
      /\ code' = "partial" /\ canResend' = FALSE /\ resent' = FALSE
      /\ nav' \in {"none", "login"}
  BY DEF Mount, FreshForm, FreshScreen
<1>2. \/ calls' = table
      \/ /\ p = "dashboard"
         /\ \E i \in Ids : calls' = [table EXCEPT ![i] = Call("refresh", "register")]
  BY DEF Mount
<1>3. /\ Call("refresh", "register") \in CallSet
      /\ Call("refresh", "register").op = "refresh"
  BY CallFields DEF Ops, Purposes
<1>4. calls' \in [Ids -> CallSet]
  BY <1>2, <1>3
<1>5. TypeOK'
  <2>1. ticket' \in 0..Len(tickets')
    BY <1>1
  <2> QED
    BY <1>1, <1>4, <2>1 DEF Inv, TypeOK, Unwatched, storage, Pages, FlowPages
<1>6. \A i \in Ids : \/ calls'[i] = table[i]
                     \/ p = "dashboard" /\ calls'[i].op = "refresh"
  BY <1>2, <1>3
<1>7. CallsFit'
  BY <1>1, <1>6 DEF CallsFit, CallFits, Ops, FirstOps, OtpOps, FlowOps
<1>8. PagesFit' /\ StepsFollowUser' /\ CodeIsVerified'
  BY <1>1 DEF PagesFit, Unwatched, StepsFollowUser, CodeIsVerified
<1> QED
  BY <1>5, <1>7, <1>8 DEF Inv

LEMMA ArriveKeeps == ASSUME Inv, Arrive PROVE Inv'
<1>1. CASE nav = page
  <2>1. TypeOK'
    BY <1>1 DEF Inv, Arrive, TypeOK, form, screen, store, storage
  <2> QED
    BY <1>1, <2>1, SameCalls DEF Arrive, Inv, PagesFit
<1>2. CASE nav # page
  <2>1. LeaveSilences \in [Ids -> CallSet]
        /\ \A i \in Ids :
             /\ LeaveSilences[i].op = calls[i].op
             /\ LeaveSilences[i].email = calls[i].email
             /\ LeaveSilences[i].live => LeaveSilences[i].op \notin Ops \ {"logout"}
    BY SilenceTable DEF Inv, TypeOK, LeaveSilences
  <2>2. \A i \in Ids : calls[i].op \in {"request", "verify"} => calls[i].email \in Emails
    BY DEF Inv, CallsFit, CallFits
  <2>3. nav \in Pages
    BY DEF Inv, Arrive, TypeOK
  <2> QED
    BY <1>2, <2>1, <2>2, <2>3, MountKeeps DEF Arrive, Inv, TypeOK, store
<1> QED
  BY <1>1, <1>2

LEMMA ReloadKeeps == ASSUME Inv, Reload PROVE Inv'
<1> DEFINE table == [i \in Ids |-> Quiet]
<1>1. /\ table \in [Ids -> CallSet]
      /\ \A i \in Ids : ~table[i].live /\ table[i].op = "none"
  BY QuietIsCall
<1>2. Mount(page, table) /\ page \in Pages /\ acts' \in Nat
  BY ActType DEF Inv, Reload, TypeOK
<1>3. tickets' \in Seq(TicketSet)
  BY EmptySeq DEF Reload
<1> HIDE DEF table
<1> QED
  BY <1>1, <1>2, <1>3, MountKeeps DEF Reload

LEMMA NextInv == ASSUME Inv, [Next]_vars PROVE Inv'
<1>1. CASE UNCHANGED vars
  BY <1>1
  DEF vars, form, screen, store, storage, Inv, TypeOK, CallsFit, CallFits, PagesFit,
      StepsFollowUser, CodeIsVerified, Pending
<1>2. ASSUME NEW i \in Ids, Answer(i) PROVE Inv'
  BY <1>2, RequestDoneKeeps, LoginKeeps, ExchangeKeeps, VerifyDoneKeeps, ResendDoneKeeps,
     CompleteKeeps, TicketKeeps, RefreshKeeps, LogoutKeeps DEF Answer
<1> QED
  BY <1>1, <1>2, RequestOtpKeeps, LoginBeginKeeps, EnterCodeKeeps, SubmitKeeps, StartPopupKeeps,
     PopupSignInKeeps, CancelPopupKeeps, ResultKeeps, CountdownKeeps, ResendKeeps, BackKeeps,
     GoKeeps, ArriveKeeps, ReloadKeeps, SignOutKeeps, OtherTabKeeps DEF Next

-----------------------------------------------------------------------------
(* The theorems *)

\* Every variable always holds a value of its kind, the tickets and the session
\* among them.
THEOREM TypeCorrect == Spec => []TypeOK
<1>1. Inv => TypeOK
  BY DEF Inv
<1> QED
  BY <1>1, InitInv, NextInv, PTL DEF Spec

\* However many answers overtake each other, the screens after the first are
\* about the address wanted last, and the password screen has its ticket.
THEOREM ScreensFollowTheUser == Spec => []StepsFollowUser
<1>1. Inv => StepsFollowUser
  BY DEF Inv
<1> QED
  BY <1>1, InitInv, NextInv, PTL DEF Spec

\* A complete code on the screen is always under verification.
THEOREM CompleteCodesAreVerified == Spec => []CodeIsVerified
<1>1. Inv => CodeIsVerified
  BY DEF Inv
<1> QED
  BY <1>1, InitInv, NextInv, PTL DEF Spec

-----------------------------------------------------------------------------
(* A page that made no call is left alone *)

Alone ==
    /\ store' = store \/ status' = "idle"
    /\ nav' = nav \/ page' # page \/ acts' = acts + 1

\* On a page without flow or guard the only answers that are heard come from
\* signOut.
LEMMA NobodyHears ==
  ASSUME Inv, page = "elsewhere", NEW i \in Ids, calls[i].live
  PROVE  calls[i].op \notin FirstOps \union OtpOps \union FlowOps \union {"refresh"}
BY DEF Inv, CallsFit, CallFits, FlowPages

LEMMA AnswerAlone ==
  ASSUME Inv, page = "elsewhere", ~LoggingOut, NEW i \in Ids, Answer(i)
  PROVE  store' = store /\ nav' = nav
<1> USE NobodyHears DEF store
<1>1. CASE RequestDone(i) \/ VerifyDone(i) \/ ResendDone(i)
  BY <1>1 DEF RequestDone, VerifyDone, ResendDone
<1>2. CASE LoginDone(i)
  BY <1>2 DEF LoginDone, SignedIn, Refused, FirstOps
<1>3. CASE ExchangeDone(i)
  BY <1>3 DEF ExchangeDone, SignedIn, Refused, FirstOps
<1>4. CASE CompleteDone(i)
  BY <1>4 DEF CompleteDone, SignedIn, Refused, FlowOps
<1>5. CASE TicketDone(i)
  BY <1>5 DEF TicketDone, SignedIn, Refused, FlowOps
<1>6. CASE RefreshDone(i)
  BY <1>6 DEF RefreshDone
<1>7. CASE LogoutDone(i)
  BY <1>7 DEF LogoutDone, LoggingOut
<1> QED
  BY <1>1, <1>2, <1>3, <1>4, <1>5, <1>6, <1>7 DEF Answer

LEMMA NextAlone ==
  ASSUME Inv, [Next]_vars, page = "elsewhere", ~LoggingOut
  PROVE  Alone
<1> USE DEF Alone, store
<1>1. CASE UNCHANGED vars
  BY <1>1 DEF vars
<1>2. CASE \E i \in Ids : Answer(i)
  BY <1>2, AnswerAlone
<1>3. CASE Arrive
  BY <1>3 DEF Arrive, Mount, Inv, PagesFit
<1>4. CASE Reload
  BY <1>4 DEF Reload, Act
<1>5. CASE \E p \in Pages : Go(p)
  BY <1>5 DEF Go, Act
<1>6. CASE \/ \E e \in Emails : RequestOtp(e) \/ Login(e)
           \/ \E k \in FullCodes \union {"partial"} : EnterCode(k)
           \/ \E op \in FlowOps : SubmitPassword(op)
           \/ StartPopup \/ PopupSignIn \/ CancelPopup \/ ResultArrives
           \/ CountdownEnds \/ ResendOtp \/ Back \/ SignOut \/ OtherTab
  BY <1>6
  DEF RequestOtp, Login, EnterCode, SubmitPassword, StartPopup, PopupSignIn, CancelPopup,
      ResultArrives, CountdownEnds, ResendOtp, Back, SignOut, OtherTab
<1> QED
  BY <1>1, <1>2, <1>3, <1>4, <1>5, <1>6 DEF Next

\* Away from the flows and the dashboard only signOut, which nothing cancels,
\* changes the store or takes the user elsewhere.
THEOREM PagesAreLeftAlone == Spec => LeftAlone
<1>1. Inv /\ [Next]_vars =>
        [page = "elsewhere" /\ ~LoggingOut =>
           /\ store' = store \/ status' = "idle"
           /\ nav' = nav \/ page' # page \/ acts' = acts + 1]_vars
  BY NextAlone DEF Alone
<1> QED
  BY <1>1, InitInv, NextInv, PTL DEF Spec, LeftAlone

-----------------------------------------------------------------------------
(* What becomes of the calls of the guard and of the password screen *)

\* The guard's calls stay as they are, and no call of the password screen is
\* made or silenced.
GuardCallsStay == \A j \in Ids : calls[j].op = "refresh" => calls'[j] = calls[j]
FlowCallsStay == \A j \in Ids : calls'[j].op \in FlowOps => calls'[j] = calls[j]

LEMMA StayByBegin ==
  ASSUME Inv, NEW c \in CallSet, Begin(c)
  PROVE  GuardCallsStay /\ (c.op \notin FlowOps => FlowCallsStay)
<1>1. PICK k \in Ids : /\ calls[k] = Quiet /\ calls'[k] = c
                       /\ \A j \in Ids \ {k} : calls'[j] = calls[j]
  BY BeginTable DEF Inv, TypeOK
<1> QED
  BY <1>1, QuietIsCall DEF GuardCallsStay, FlowCallsStay

LEMMA StayByAnswer ==
  ASSUME Inv, NEW i \in Ids, NEW ops, calls' = Answered(i) \/ calls' = Silence(Answered(i), ops),
         ops \cap (FlowOps \union {"refresh"}) = {}
  PROVE  FlowCallsStay /\ (calls[i].op # "refresh" => GuardCallsStay)
<1>1. /\ Answered(i) \in [Ids -> CallSet] /\ Answered(i)[i] = Quiet
      /\ \A j \in Ids \ {i} : Answered(i)[j] = calls[j]
  BY AnsweredTable DEF Inv, TypeOK
<1>2. \A j \in Ids : /\ calls'[j].op = Answered(i)[j].op
                     /\ calls'[j].op \notin ops => calls'[j] = Answered(i)[j]
  BY <1>1, SilenceTable
<1>3. "none" \notin FlowOps /\ "none" # "refresh"
  BY DEF FlowOps
<1> QED
  BY <1>1, <1>2, <1>3, QuietIsCall DEF GuardCallsStay, FlowCallsStay

LEMMA AnswersStay ==
  ASSUME Inv, NEW i \in Ids, Answer(i)
  PROVE  FlowCallsStay /\ (calls[i].op # "refresh" => GuardCallsStay)
<1>1. calls' = Answered(i) \/ \E ops \in {FirstOps, OtpOps, {"verify"}} :
                                calls' = Silence(Answered(i), ops)
  BY DEF Answer, RequestDone, ShowOtp, LoginDone, ExchangeDone, VerifyDone, ShowPassword,
         ResendDone, CompleteDone, TicketDone, RefreshDone, LogoutDone
<1>2. \A ops \in {FirstOps, OtpOps, {"verify"}} : ops \cap (FlowOps \union {"refresh"}) = {}
  BY DEF FirstOps, OtpOps, FlowOps
<1> QED
  BY <1>1, <1>2, StayByAnswer

\* What the user does on a screen, but for the password, and the other tabs
Elsewhere ==
    \/ \E e \in Emails : RequestOtp(e) \/ Login(e)
    \/ \E k \in FullCodes \union {"partial"} : EnterCode(k)
    \/ StartPopup \/ PopupSignIn \/ CancelPopup \/ ResultArrives
    \/ CountdownEnds \/ ResendOtp \/ Back
    \/ \E p \in Pages : Go(p)
    \/ SignOut \/ OtherTab

LEMMA ElsewhereStays == ASSUME Inv, Elsewhere PROVE FlowCallsStay /\ GuardCallsStay
<1>0. /\ \A op \in Ops, purpose \in Purposes :
             Call(op, purpose) \in CallSet /\ Call(op, purpose).op = op
      /\ PurposeOf(page) \in Purposes
  BY CallFields, PurposeType
<1>1. ASSUME NEW op \in Ops \ FlowOps, NEW e \in Emails \union {None},
             NEW k \in FullCodes \union {"partial"},
             LET c == Call(op, PurposeOf(page)) IN
               \/ Begin(c) \/ Begin([c EXCEPT !.email = e])
               \/ Begin([c EXCEPT !.email = e, !.code = k])
      PROVE  FlowCallsStay /\ GuardCallsStay
  <2> DEFINE c == Call(op, PurposeOf(page))
  <2>1. c \in CallSet /\ c.op = op
    BY <1>0
  <2> HIDE DEF c
  <2>2. PICK d \in CallSet : d.op = op /\ Begin(d)
    <3>1. /\ [c EXCEPT !.email = e] \in CallSet /\ [c EXCEPT !.email = e].op = op
          /\ [c EXCEPT !.email = e, !.code = k] \in CallSet
          /\ [c EXCEPT !.email = e, !.code = k].op = op
      BY <2>1 DEF CallSet
    <3>2. Begin(c) \/ Begin([c EXCEPT !.email = e]) \/ Begin([c EXCEPT !.email = e, !.code = k])
      BY <1>1 DEF c
    <3> QED
      BY <2>1, <3>1, <3>2
  <2> QED
    BY <2>2, StayByBegin
<1>2. email \in Emails \union {None} /\ "partial" \in FullCodes \union {"partial"}
  BY DEF Inv, TypeOK
<1>3. {"request", "login", "exchange", "verify", "resend", "logout"} \subseteq Ops \ FlowOps
  BY DEF Ops, FirstOps, OtpOps, FlowOps
<1>4. ASSUME NEW e \in Emails, RequestOtp(e) \/ Login(e)
      PROVE  FlowCallsStay /\ GuardCallsStay
  BY <1>1, <1>2, <1>3, <1>4 DEF RequestOtp, Login
<1>5. ASSUME NEW k \in FullCodes \union {"partial"}, EnterCode(k)
      PROVE  FlowCallsStay /\ GuardCallsStay
  <2>1. CASE k \in FullCodes
    BY <1>1, <1>2, <1>3, <1>5, <2>1 DEF EnterCode, Completes
  <2>2. CASE k \notin FullCodes
    BY <1>5, <2>2 DEF EnterCode, Completes, FlowCallsStay, GuardCallsStay
  <2> QED
    BY <2>1, <2>2
<1>6. CASE ResendOtp
  BY <1>1, <1>2, <1>3, <1>6 DEF ResendOtp
<1>7. CASE ResultArrives
  BY <1>1, <1>2, <1>3, <1>7 DEF ResultArrives
<1>8. CASE SignOut
  <2>1. Call("logout", "register") \in CallSet /\ Call("logout", "register").op \notin FlowOps
    BY <1>0, <1>3 DEF Purposes
  <2> QED
    BY <1>8, <2>1, StayByBegin DEF SignOut
<1>9. CASE Back
  <2>1. \A ops : calls' = Silence(calls, ops) =>
            \A j \in Ids : /\ calls'[j].op = calls[j].op
                           /\ calls[j].op \notin ops => calls'[j] = calls[j]
    BY SilenceTable DEF Inv, TypeOK
  <2>2. OtpOps \cap (FlowOps \union {"refresh"}) = {}
    BY DEF OtpOps, FlowOps
  <2> QED
    BY <1>9, <2>1, <2>2 DEF Back, FlowCallsStay, GuardCallsStay
<1>10. CASE UNCHANGED calls
  BY <1>10 DEF FlowCallsStay, GuardCallsStay
<1> QED
  BY <1>4, <1>5, <1>6, <1>7, <1>8, <1>9, <1>10
  DEF Elsewhere, StartPopup, PopupSignIn, CancelPopup, CountdownEnds, Go, OtherTab

LEMMA SubmitStays ==
  ASSUME Inv, NEW op \in FlowOps, SubmitPassword(op)
  PROVE  /\ GuardCallsStay
         /\ \E k \in Ids :
              /\ \A j \in Ids \ {k} : calls'[j] = calls[j]
              /\ calls'[k].op = op /\ calls'[k].live /\ calls'[k].ticket = ticket
              /\ calls'[k].purpose = PurposeOf(page)
<1> DEFINE call == Call(op, PurposeOf(page))
           c == [call EXCEPT !.ticket = ticket]
<1>1. call \in CallSet /\ call.op = op /\ call.purpose = PurposeOf(page) /\ call.live
  BY CallFields, PurposeType DEF Ops, Call, Quiet
<1>2. Begin(c)
  BY DEF SubmitPassword
<1> HIDE DEF call
<1>3. ticket \in Nat
  BY DEF Inv, TypeOK
<1>4. c \in CallSet /\ c.op = op /\ c.ticket = ticket /\ c.live /\ c.purpose = PurposeOf(page)
  BY <1>1, <1>3 DEF CallSet
<1> HIDE DEF c
<1> QED
  BY <1>2, <1>4, StayByBegin, BeginTable DEF Inv, TypeOK

-----------------------------------------------------------------------------
(* The guard of the dashboard *)

\* The router never goes from the dashboard to itself, which would leave the
\* guard as it is.
GuardInv ==
    /\ GuardDecides
    /\ nav = "dashboard" => page # "dashboard"

LEMMA GuardStays ==
  ASSUME GuardInv, GuardCallsStay, UNCHANGED <<page, status>>,
         nav' = nav \/ nav' \notin {"none", page}
  PROVE  GuardInv'
<1>1. Pending({"refresh"}) => Pending({"refresh"})'
  BY DEF Pending, GuardCallsStay
<1> QED
  BY <1>1 DEF GuardInv, GuardDecides

LEMMA GuardByAnswer ==
  ASSUME Inv, GuardInv, NEW i \in Ids, Answer(i)
  PROVE  GuardInv'
<1>0. calls[i].op # "refresh" => GuardCallsStay
  BY AnswersStay
<1>1. CASE RequestDone(i) \/ VerifyDone(i) \/ ResendDone(i)
  <2>1. UNCHANGED <<page, status, nav>> /\ calls[i].op # "refresh"
    BY <1>1 DEF RequestDone, VerifyDone, ResendDone, store
  <2> QED
    BY <1>0, <2>1, GuardStays
<1>2. CASE LoginDone(i) \/ ExchangeDone(i) \/ CompleteDone(i) \/ TicketDone(i)
  <2>1. /\ calls[i].op \in FirstOps \union FlowOps /\ calls[i].op # "refresh"
        /\ page' = page
        /\ \/ UNCHANGED <<status, nav>>
           \/ calls[i].live /\ status' = "authenticated" /\ nav' = "dashboard"
    BY <1>2 DEF LoginDone, ExchangeDone, CompleteDone, TicketDone, SignedIn, CompleteAuth,
                Refused, store, FirstOps, FlowOps
  <2>2. calls[i].live => page # "dashboard"
    BY <2>1 DEF Inv, CallsFit, CallFits, FlowPages
  <2> QED
    BY <1>0, <2>1, <2>2, GuardStays DEF GuardInv, GuardDecides
<1>3. CASE RefreshDone(i)
  <2>1. CASE ~calls[i].live
    <3>1. UNCHANGED <<page, status, nav>> /\ calls' = Answered(i)
      BY <1>3, <2>1 DEF RefreshDone, store
    <3>2. Pending({"refresh"}) => Pending({"refresh"})'
      BY <2>1, <3>1, AnsweredTable DEF Pending, Inv, TypeOK
    <3> QED
      BY <3>1, <3>2 DEF GuardInv, GuardDecides
  <2>2. CASE calls[i].live
    BY <1>3, <2>2 DEF RefreshDone, ClearStore, GuardInv, GuardDecides
  <2> QED
    BY <2>1, <2>2
<1>4. CASE LogoutDone(i)
  BY <1>4 DEF LogoutDone, ClearStore, GuardInv, GuardDecides
<1> QED
  BY <1>1, <1>2, <1>3, <1>4 DEF Answer

LEMMA GuardByMount ==
  ASSUME NEW p \in Pages, NEW table \in [Ids -> CallSet], Mount(p, table)
  PROVE  GuardInv'
<1>1. page' = p /\ nav' = IF p = "dashboard" /\ status' = "unauthenticated" THEN "login" ELSE "none"
  BY DEF Mount
<1>2. p = "dashboard" /\ status' = "idle" => Pending({"refresh"})'
  <2>1. Call("refresh", "register").op = "refresh" /\ Call("refresh", "register").live
    BY DEF Call, Quiet
  <2> QED
    BY <2>1 DEF Mount, Pending
<1> QED
  BY <1>1, <1>2 DEF GuardInv, GuardDecides

LEMMA NextGuard == ASSUME Inv, GuardInv, [Next]_vars PROVE GuardInv'
<1>1. CASE UNCHANGED vars
  BY <1>1, GuardStays DEF vars, store, GuardCallsStay
<1>2. ASSUME NEW i \in Ids, Answer(i) PROVE GuardInv'
  BY <1>2, GuardByAnswer
<1>3. CASE Elsewhere
  <2>1. UNCHANGED <<page, status>> /\ (nav' = nav \/ nav' \in Pages \ {page})
    BY <1>3
    DEF Elsewhere, RequestOtp, Login, EnterCode, StartPopup, PopupSignIn, CancelPopup,
        ResultArrives, CountdownEnds, ResendOtp, Back, Go, SignOut, OtherTab, store
  <2>2. "none" \notin Pages
    BY DEF Pages, FlowPages
  <2> QED
    BY <1>3, <2>1, <2>2, ElsewhereStays, GuardStays
<1>4. ASSUME NEW op \in FlowOps, SubmitPassword(op) PROVE GuardInv'
  BY <1>4, SubmitStays, GuardStays DEF SubmitPassword, store
<1>5. CASE Arrive
  <2>1. CASE nav = page
    BY <1>5, <2>1 DEF Arrive, GuardInv, GuardDecides
  <2>2. CASE nav # page
    BY <1>5, <2>2, GuardByMount, SilenceTable DEF Arrive, LeaveSilences, Inv, TypeOK
  <2> QED
    BY <2>1, <2>2
<1>6. CASE Reload
  <2>1. [i \in Ids |-> Quiet] \in [Ids -> CallSet] /\ page \in Pages
    BY QuietIsCall DEF Inv, TypeOK
  <2> QED
    BY <1>6, <2>1, GuardByMount DEF Reload
<1> QED
  BY <1>1, <1>2, <1>3, <1>4, <1>5, <1>6 DEF Next, Elsewhere

\* However pages, reloads, answers and other tabs interleave, the dashboard
\* always has an answer on its way that it listens to, or somewhere to go.
THEOREM TheGuardDecides == Spec => []GuardDecides
<1>1. Init => GuardInv
  BY DEF Init, GuardInv, GuardDecides, FlowPages
<1>2. GuardInv => GuardDecides
  BY DEF GuardInv
<1> QED
  BY <1>1, <1>2, InitInv, NextInv, NextGuard, PTL DEF Spec

-----------------------------------------------------------------------------
(* What a ticket buys *)

\* A call of the password screen has a ticket issued before it and the purpose
\* of its operation, and one with the ticket on the screen is heard there.
CallHasTicket(i) ==
    calls[i].op \in FlowOps =>
        /\ calls[i].ticket <= Len(tickets)
        /\ calls[i].op \in {"reset", "skip"} => calls[i].purpose = "reset-password"
        /\ step = "password" /\ calls[i].ticket = ticket => calls[i].live

\* A ticket for a reset is about an address with an account.
TicketHasUser ==
    \A k \in DOMAIN tickets : tickets[k].purpose = "reset-password" => tickets[k].email \in users

TicketInv == (\A i \in Ids : CallHasTicket(i)) /\ TicketHasUser

LEMMA UsersGrow == ASSUME [Next]_vars PROVE users \subseteq users'
BY DEF Next, RequestOtp, Login, EnterCode, SubmitPassword, StartPopup, PopupSignIn, ProviderSignsIn,
       CancelPopup, ResultArrives, CountdownEnds, ResendOtp, Back, Go, Arrive, Reload, SignOut,
       OtherTab, Answer, RequestDone, LoginDone, ExchangeDone, VerifyDone, ResendDone,
       CompleteDone, TicketDone, RefreshDone, LogoutDone, storage, vars

\* Tickets are kept in their order; a new one for a reset has its user.
TicketsStay ==
    /\ Len(tickets) <= Len(tickets')
    /\ \A k \in DOMAIN tickets' :
         \/ /\ k \in DOMAIN tickets
            /\ tickets'[k].email = tickets[k].email
            /\ tickets'[k].purpose = tickets[k].purpose
         \/ tickets'[k].purpose = "reset-password" => tickets'[k].email \in users

LEMMA TicketsSame == ASSUME Inv, tickets' = tickets PROVE TicketsStay
<1>1. Len(tickets) \in Nat
  BY DEF Inv, TypeOK
<1> QED
  BY <1>1 DEF TicketsStay

LEMMA TicketsTaken ==
  ASSUME Inv, NEW c, Good(c), Take(c)
  PROVE  /\ TicketsStay
         /\ \A k \in DOMAIN tickets : k # c.ticket => tickets'[k] = tickets[k]
<1>1. TypeOK /\ Len(tickets) \in Nat /\ DOMAIN tickets = 1..Len(tickets)
  BY DEF Inv, TypeOK
<1>2. Len(tickets') = Len(tickets) /\ DOMAIN tickets' = DOMAIN tickets
  BY <1>1, TakeTable
<1> QED
  BY <1>1, <1>2, TakeTable DEF TicketsStay, Take

LEMMA TicketsGrow ==
  ASSUME Inv, NEW i \in Ids, VerifyDone(i)
  PROVE  /\ TicketsStay
         /\ \A k \in DOMAIN tickets : tickets'[k] = tickets[k]
         /\ Accepted(calls[i]) => Len(tickets') = Len(tickets) + 1
<1> DEFINE c == calls[i]
           new == [email |-> c.email, purpose |-> c.purpose, open |-> TRUE]
<1>1. tickets \in Seq(TicketSet) /\ Len(tickets) \in Nat /\ DOMAIN tickets = 1..Len(tickets)
  BY DEF Inv, TypeOK
<1>2. tickets' = IF Accepted(c) THEN Append(tickets, new) ELSE tickets
  BY DEF VerifyDone
<1>3. CASE Accepted(c)
  <2>1. new.purpose = "reset-password" => new.email \in users
    BY <1>3 DEF Accepted
  <2> HIDE DEF new
  <2>2. /\ Len(tickets') = Len(tickets) + 1 /\ DOMAIN tickets' = 1..(Len(tickets) + 1)
        /\ \A k \in DOMAIN tickets : tickets'[k] = tickets[k]
        /\ tickets'[Len(tickets) + 1] = new
    BY <1>1, <1>2, <1>3
  <2>3. \A k \in DOMAIN tickets' : k \in DOMAIN tickets \/ k = Len(tickets) + 1
    BY <1>1, <2>2
  <2>4. Len(tickets) <= Len(tickets')
    BY <1>1, <2>2
  <2> QED
    BY <2>1, <2>2, <2>3, <2>4 DEF TicketsStay
<1>4. CASE ~Accepted(c)
  BY <1>2, <1>4, TicketsSame
<1> QED
  BY <1>3, <1>4

LEMMA UsersOfTickets ==
  ASSUME TicketHasUser, TicketsStay, users \subseteq users'
  PROVE  TicketHasUser'
BY DEF TicketHasUser, TicketsStay

\* The screen stays, or is not the password screen, or has a new ticket.
LEMMA TicketsOfCalls ==
  ASSUME Inv, TicketInv, FlowCallsStay, TicketsStay, Len(tickets') \in Nat,
         \/ UNCHANGED <<step, ticket>>
         \/ step' # "password"
         \/ ticket' = Len(tickets) + 1
  PROVE  \A i \in Ids : CallHasTicket(i)'
<1> SUFFICES ASSUME NEW i \in Ids, calls'[i].op \in FlowOps
             PROVE  CallHasTicket(i)'
  BY DEF CallHasTicket
<1>1. calls'[i] = calls[i]
  BY DEF FlowCallsStay
<1>2. CallHasTicket(i)
  BY DEF TicketInv
<1>3. PICK l \in Nat : l = Len(tickets)
  BY DEF Inv, TypeOK
<1>4. PICK l1 \in Nat : l1 = Len(tickets')
  OBVIOUS
<1>5. PICK t \in Nat : t = calls[i].ticket
  BY DEF Inv, TypeOK, CallSet
<1>6. t <= l
  BY <1>1, <1>2, <1>3, <1>5 DEF CallHasTicket
<1>7. l <= l1
  BY <1>3, <1>4 DEF TicketsStay
<1>8. t <= l1 /\ t # l + 1
  BY <1>6, <1>7
<1>9. calls'[i].ticket <= Len(tickets')
  BY <1>1, <1>4, <1>5, <1>8
<1>10. step' = "password" /\ calls'[i].ticket = ticket' => calls'[i].live
  BY <1>1, <1>2, <1>3, <1>5, <1>8 DEF CallHasTicket
<1> QED
  BY <1>1, <1>2, <1>9, <1>10 DEF CallHasTicket

LEMMA TicketsByAnswer ==
  ASSUME Inv, TicketInv, Inv', NEW i \in Ids, Answer(i), users \subseteq users'
  PROVE  TicketInv'
<1>1. FlowCallsStay
  BY AnswersStay
<1>2. Len(tickets') \in Nat
  BY DEF Inv, TypeOK
<1>3. TicketsStay
  <2>1. CASE VerifyDone(i)
    BY <2>1, TicketsGrow
  <2>2. CASE CompleteDone(i)
    BY <2>2, TicketsTaken, TicketsSame DEF CompleteDone
  <2>3. CASE TicketDone(i)
    BY <2>3, TicketsTaken, TicketsSame DEF TicketDone
  <2>4. CASE tickets' = tickets
    BY <2>4, TicketsSame
  <2> QED
    BY <2>1, <2>2, <2>3, <2>4
    DEF Answer, RequestDone, LoginDone, ExchangeDone, ResendDone, RefreshDone, LogoutDone
<1>4. UNCHANGED <<step, ticket>> \/ step' # "password" \/ ticket' = Len(tickets) + 1
  <2>1. CASE VerifyDone(i)
    <3>1. CASE calls[i].live /\ Accepted(calls[i])
      BY <2>1, <3>1, TicketsGrow DEF VerifyDone, ShowPassword
    <3>2. CASE ~(calls[i].live /\ Accepted(calls[i]))
      BY <2>1, <3>2 DEF VerifyDone
    <3> QED
      BY <3>1, <3>2
  <2>2. CASE RequestDone(i)
    BY <2>2 DEF RequestDone, ShowOtp, form
  <2>3. CASE UNCHANGED <<step, ticket>>
    BY <2>3
  <2> QED
    BY <2>1, <2>2, <2>3
    DEF Answer, LoginDone, ExchangeDone, ResendDone, CompleteDone, TicketDone, RefreshDone,
        LogoutDone, form
<1> QED
  BY <1>1, <1>2, <1>3, <1>4, TicketsOfCalls, UsersOfTickets DEF TicketInv

LEMMA TicketsBySubmit ==
  ASSUME Inv, TicketInv, NEW op \in FlowOps, SubmitPassword(op)
  PROVE  TicketInv'
<1>1. /\ step = "password" /\ UNCHANGED <<step, ticket, tickets, users>>
      /\ op \in {"reset", "skip"} => page # "register"
  BY DEF SubmitPassword, form, storage
<1>2. PICK k \in Ids :
        /\ \A j \in Ids \ {k} : calls'[j] = calls[j]
        /\ calls'[k].op = op /\ calls'[k].live /\ calls'[k].ticket = ticket
        /\ calls'[k].purpose = PurposeOf(page)
  BY SubmitStays
<1>3. ticket <= Len(tickets)
  BY <1>1 DEF Inv, TypeOK
<1>4. \A j \in Ids \ {k} : CallHasTicket(j)'
  BY <1>1, <1>2 DEF TicketInv, CallHasTicket
<1>5. CallHasTicket(k)'
  BY <1>1, <1>2, <1>3 DEF CallHasTicket, PurposeOf
<1> QED
  BY <1>1, <1>4, <1>5 DEF TicketInv, TicketHasUser

\* A page is mounted over calls of a password screen that had their tickets.
LEMMA TicketsByMount ==
  ASSUME NEW p \in Pages, NEW table \in [Ids -> CallSet], Mount(p, table), step' = "first",
         \A i \in Ids : table[i].op \in FlowOps =>
             /\ table[i].ticket <= Len(tickets')
             /\ table[i].op \in {"reset", "skip"} => table[i].purpose = "reset-password"
  PROVE  \A i \in Ids : CallHasTicket(i)'
<1>1. \A i \in Ids : calls'[i] = table[i] \/ calls'[i] = Call("refresh", "register")
  BY DEF Mount
<1>2. Call("refresh", "register").op \notin FlowOps
  BY DEF Call, Quiet, FlowOps
<1> QED
  BY <1>1, <1>2 DEF CallHasTicket

LEMMA TicketsByArrival == ASSUME Inv, TicketInv, Arrive PROVE TicketInv'
<1>1. UNCHANGED <<tickets, users>>
  BY DEF Arrive, storage
<1>2. TicketHasUser'
  BY <1>1 DEF TicketInv, TicketHasUser
<1>3. CASE nav = page
  BY <1>1, <1>2, <1>3 DEF Arrive, form, TicketInv, CallHasTicket
<1>4. CASE nav # page
  <2>1. /\ LeaveSilences \in [Ids -> CallSet]
        /\ \A i \in Ids : /\ LeaveSilences[i].op = calls[i].op
                          /\ LeaveSilences[i].purpose = calls[i].purpose
                          /\ LeaveSilences[i].ticket = calls[i].ticket
    BY DEF Inv, TypeOK, LeaveSilences, Silence, CallSet
  <2>2. nav \in Pages /\ Mount(nav, LeaveSilences) /\ step' = "first"
    BY <1>4 DEF Inv, TypeOK, Arrive, FreshForm
  <2> QED
    BY <1>1, <1>2, <2>1, <2>2, TicketsByMount DEF TicketInv, CallHasTicket
<1> QED
  BY <1>3, <1>4

LEMMA TicketsByReload == ASSUME Inv, Reload PROVE TicketInv'
<1>1. tickets' = <<>> /\ step' = "first" /\ Mount(page, [i \in Ids |-> Quiet]) /\ page \in Pages
  BY DEF Reload, FreshForm, Inv, TypeOK
<1>2. TicketHasUser'
  BY <1>1 DEF TicketHasUser
<1>3. [i \in Ids |-> Quiet] \in [Ids -> CallSet] /\ \A i \in Ids : [j \in Ids |-> Quiet][i].op \notin FlowOps
  BY QuietIsCall DEF FlowOps
<1> QED
  BY <1>1, <1>2, <1>3, TicketsByMount DEF TicketInv

LEMMA NextTickets == ASSUME Inv, TicketInv, [Next]_vars PROVE TicketInv'
<1>1. Inv' /\ users \subseteq users' /\ Len(tickets') \in Nat
  BY NextInv, UsersGrow DEF Inv, TypeOK
<1>2. CASE UNCHANGED vars
  BY <1>2 DEF vars, form, storage, TicketInv, CallHasTicket, TicketHasUser
<1>3. ASSUME NEW i \in Ids, Answer(i) PROVE TicketInv'
  BY <1>1, <1>3, TicketsByAnswer
<1>4. CASE Elsewhere
  <2>1. tickets' = tickets /\ (UNCHANGED <<step, ticket>> \/ step' # "password")
    BY <1>4
    DEF Elsewhere, RequestOtp, Login, EnterCode, StartPopup, PopupSignIn, CancelPopup,
        ResultArrives, CountdownEnds, ResendOtp, Back, Go, SignOut, OtherTab, form
  <2> QED
    BY <1>1, <1>4, <2>1, ElsewhereStays, TicketsSame, TicketsOfCalls, UsersOfTickets DEF TicketInv
<1>5. ASSUME NEW op \in FlowOps, SubmitPassword(op) PROVE TicketInv'
  BY <1>5, TicketsBySubmit
<1> QED
  BY <1>2, <1>3, <1>4, <1>5, TicketsByArrival, TicketsByReload DEF Next, Elsewhere

\* The ticket on the screen is closed by a call that is heard, and the user is
\* signed in with the address of the screen.
LEMMA TicketSignsIn ==
  ASSUME Inv, TicketInv, [Next]_vars, step = "password", step' = "password",
         tickets[ticket].open, ~tickets'[ticket].open
  PROVE  status' = "authenticated" /\ user' = wanted
<1>1. /\ ticket \in DOMAIN tickets /\ tickets[ticket].email = wanted
  BY DEF Inv, StepsFollowUser
<1>2. PICK i \in Ids : CompleteDone(i) \/ TicketDone(i)
  <2>1. tickets' # tickets
    OBVIOUS
  <2>2. ~Reload
    BY DEF Reload, FreshForm
  <2>3. \A i \in Ids : ~VerifyDone(i)
    BY <1>1, TicketsGrow
  <2> QED
    BY <2>1, <2>2, <2>3
    DEF Next, RequestOtp, Login, EnterCode, SubmitPassword, StartPopup, PopupSignIn, CancelPopup,
        ResultArrives, CountdownEnds, ResendOtp, Back, Go, Arrive, SignOut, OtherTab, Answer,
        RequestDone, LoginDone, ExchangeDone, ResendDone, RefreshDone, LogoutDone, vars
<1>3. Good(calls[i]) /\ Take(calls[i]) /\ calls[i].op \in FlowOps
  BY <1>2 DEF CompleteDone, TicketDone, FlowOps
<1>4. calls[i].ticket = ticket
  BY <1>1, <1>3, TicketsTaken
<1>5. calls[i].live /\ tickets[calls[i].ticket].email = wanted
  BY <1>1, <1>3, <1>4 DEF TicketInv, CallHasTicket
<1>6. CASE CompleteDone(i)
  BY <1>3, <1>5, <1>6 DEF CompleteDone, SignedIn, CompleteAuth
<1>7. CASE TicketDone(i)
  <2>1. tickets[ticket].purpose = "reset-password"
    BY <1>3, <1>4, <1>7 DEF TicketInv, CallHasTicket, TicketDone, Good
  <2>2. wanted \in users
    BY <1>1, <2>1 DEF TicketInv, TicketHasUser
  <2> QED
    BY <1>3, <1>5, <1>7, <2>2 DEF TicketDone, SignedIn, CompleteAuth
<1> QED
  BY <1>2, <1>6, <1>7

\* The ticket of the password screen is spent by nothing but a call that is
\* heard there and signs in the address of the screen, whatever calls of
\* earlier screens are still under way and whatever other tabs do.
THEOREM TicketsAreNotWasted == Spec => TicketsBuySessions
<1>1. Init => TicketInv
  <2> SUFFICES ASSUME Init PROVE TicketInv
    OBVIOUS
  <2>1. \A i \in Ids : calls[i].op \notin FlowOps
    BY QuietIsCall DEF Init, FlowOps
  <2>2. DOMAIN tickets = {}
    BY DEF Init
  <2> QED
    BY <2>1, <2>2 DEF TicketInv, CallHasTicket, TicketHasUser
<1>2. Inv /\ TicketInv /\ [Next]_vars => TicketInv'
  BY NextTickets
<1>3. Inv /\ TicketInv /\ [Next]_vars =>
        [step = "password" /\ step' = "password" /\ tickets[ticket].open
           /\ ~tickets'[ticket].open => status' = "authenticated" /\ user' = wanted]_vars
  BY TicketSignsIn
<1> QED
  BY <1>1, <1>2, <1>3, InitInv, NextInv, PTL DEF Spec, TicketsBuySessions
=============================================================================

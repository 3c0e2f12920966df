-------------------------- MODULE OAuthPopupProofs --------------------------
(***************************************************************************)
(* Proofs about OAuthPopup: which timers run, which flow is awaited and    *)
(* whose result is accepted, for any number of flows.                      *)
(***************************************************************************)
EXTENDS OAuthPopup, TLAPS

\* The steps that only move a popup, its messages, the session or the clock.
Elsewhere ==
    \/ ExchangeEnds \/ Tick
    \/ \E f \in Flows : \/ PopupLost(f) \/ PopupRestored(f)
                        \/ \E status \in Statuses : Publish(f, status)
    \/ \E m \in messages : Ignore(m)

LEMMA ElsewhereQuiet ==
    Elsewhere => UNCHANGED <<mounted, refs, timers, started, succeeded, dismissed>>
                 /\ (now' = now \/ Tick)
BY DEF Elsewhere, ExchangeEnds, Tick, PopupLost, PopupRestored, Publish, Ignore

\* What Finish leaves.
LEMMA FinishEnds ==
    Finish =>
        /\ activeId' = None /\ popupRef' = None /\ pending' = None
        /\ pollRef' = None /\ expiryRef' = None
        /\ \A f \in Flows : interval'[f] = (interval[f] /\ f # pollRef)
        /\ \A f \in Flows : timeout'[f] = (timeout[f] /\ f # expiryRef)
BY DEF Finish, StopPolling, ClearInterval

LEMMA FinishTyped ==
    ASSUME TypeOK, Finish
    PROVE  /\ {popupRef', activeId', pollRef', expiryRef', pending'} = {None}
           /\ interval' \in [Flows -> BOOLEAN] /\ timeout' \in [Flows -> BOOLEAN]
           /\ closedAt' \in [Flows -> -1..EndOfTime]
BY NumbersAssumption DEF Finish, StopPolling, ClearInterval, TypeOK

LEMMA TypedNext == TypeOK /\ [Next]_vars => TypeOK'
<1> SUFFICES ASSUME TypeOK, [Next]_vars
             PROVE  TypeOK'
  OBVIOUS
<1> USE NumbersAssumption
<1>1. ASSUME NEW f \in Flows, Start(f)
      PROVE  TypeOK'
  BY <1>1 DEF Start, TypeOK
<1>2. ASSUME NEW f \in Flows, PollOpen(f) \/ PollClosed(f)
      PROVE  TypeOK'
  <2>1. closedAt' \in [Flows -> -1..EndOfTime]
    BY <1>2 DEF PollOpen, PollClosed, TypeOK
  <2>2. QED
    BY <1>2, <2>1 DEF PollOpen, PollClosed, TypeOK, refs
<1>3. ASSUME NEW f \in Flows, PollGivesUp(f)
      PROVE  TypeOK'
  <2>1. /\ interval' \in [Flows -> BOOLEAN] /\ pollRef' = None
        /\ closedAt' \in [Flows -> -1..EndOfTime]
    BY <1>3 DEF PollGivesUp, ClearInterval, TypeOK
  <2>2. QED
    BY <1>3, <2>1 DEF PollGivesUp, TypeOK
<1>4. ASSUME NEW f \in Flows, Expire(f)
      PROVE  TypeOK'
  <2>1. /\ interval' \in [Flows -> BOOLEAN] /\ pollRef' = None
        /\ closedAt' \in [Flows -> -1..EndOfTime]
        /\ timeout' \in [Flows -> BOOLEAN]
    BY <1>4 DEF Expire, ClearInterval, TypeOK
  <2>2. QED
    BY <1>4, <2>1 DEF Expire, TypeOK
<1>5. CASE Cancel
  <2>1. window' \in [Flows -> {"none", "open", "severed", "closed"}]
    BY <1>5 DEF Cancel, TypeOK
  <2>2. dismissed' \subseteq Flows
    BY <1>5 DEF Cancel, TypeOK
  <2>3. QED
    BY <1>5, <2>1, <2>2, FinishTyped DEF Cancel, TypeOK
<1>6. ASSUME NEW m \in messages, Handle(m)
      PROVE  TypeOK'
  <2>1. m.flow \in Flows
    BY DEF TypeOK, Message
  <2>2. window' \in [Flows -> {"none", "open", "severed", "closed"}]
    BY <1>6 DEF Handle, TypeOK
  <2>3. succeeded' \in [Flows -> Nat] /\ exchanging' \in BOOLEAN
    <3>1. \/ succeeded' = [succeeded EXCEPT ![m.flow] = @ + 1] /\ exchanging' = TRUE
          \/ UNCHANGED <<succeeded, exchanging>>
      BY <1>6 DEF Handle
    <3>2. succeeded[m.flow] + 1 \in Nat
      BY <2>1 DEF TypeOK
    <3>3. succeeded' \in [Flows -> Nat]
      <4>1. CASE succeeded' = [succeeded EXCEPT ![m.flow] = @ + 1]
        BY <2>1, <3>2, <4>1 DEF TypeOK
      <4>2. CASE UNCHANGED succeeded
        BY <4>2 DEF TypeOK
      <4>3. QED
        BY <3>1, <4>1, <4>2
    <3>4. exchanging' \in BOOLEAN
      BY <3>1 DEF TypeOK
    <3>5. QED
      BY <3>3, <3>4
  <2>4. messages' \subseteq Message /\ dismissed' \subseteq Flows
    BY <1>6, <2>1 DEF Handle, TypeOK
  <2>5. QED
    BY <1>6, <2>2, <2>3, <2>4, FinishTyped DEF Handle, TypeOK
<1>7. CASE Unmount
  <2>1. /\ interval' \in [Flows -> BOOLEAN] /\ pollRef' = None /\ expiryRef' = None
        /\ closedAt' \in [Flows -> -1..EndOfTime]
        /\ timeout' \in [Flows -> BOOLEAN]
    BY <1>7 DEF Unmount, StopPolling, ClearInterval, TypeOK
  <2>2. dismissed' \subseteq Flows
    BY <1>7 DEF Unmount, TypeOK
  <2>3. QED
    BY <1>7, <2>1, <2>2 DEF Unmount, TypeOK
<1>8. ASSUME NEW f \in Flows, NEW status \in Statuses, Publish(f, status)
      PROVE  TypeOK'
  <2>1. messages' \subseteq Message
    BY <1>8 DEF Publish, TypeOK, Message, Vias
  <2>2. QED
    BY <1>8, <2>1 DEF Publish, TypeOK, refs, timers
<1>9. CASE Tick
  BY <1>9 DEF Tick, TypeOK, refs, timers
<1>10. CASE ExchangeEnds \/ UNCHANGED vars
  BY <1>10 DEF ExchangeEnds, vars, TypeOK, refs, timers
<1>11. ASSUME NEW f \in Flows, PopupLost(f) \/ PopupRestored(f)
       PROVE  TypeOK'
  <2>1. window' \in [Flows -> {"none", "open", "severed", "closed"}]
    BY <1>11 DEF PopupLost, PopupRestored, TypeOK
  <2>2. QED
    BY <1>11, <2>1 DEF PopupLost, PopupRestored, TypeOK, refs, timers
<1>12. ASSUME NEW m \in messages, Ignore(m)
       PROVE  TypeOK'
  BY <1>12 DEF Ignore, TypeOK, refs, timers
<1>13. QED
  BY <1>1, <1>2, <1>3, <1>4, <1>5, <1>6, <1>7, <1>8, <1>9, <1>10, <1>11, <1>12
     DEF Next, Timers

\* Every variable always holds a value of its kind.
THEOREM TypeCorrect == Spec => []TypeOK
<1>1. Init => TypeOK
  <2> SUFFICES ASSUME Init
               PROVE  TypeOK
    OBVIOUS
  <2>1. 0 \in 0..EndOfTime /\ -1 \in -1..EndOfTime /\ -1 \in -1..LastStart
    BY NumbersAssumption
  <2>2. closedAt \in [Flows -> -1..EndOfTime] /\ started \in [Flows -> -1..LastStart]
    BY <2>1 DEF Init
  <2>3. QED
    BY <2>1, <2>2 DEF Init, TypeOK
<1>2. QED
  BY <1>1, TypedNext, PTL DEF Spec

-----------------------------------------------------------------------------
(* One interval, and what watches a spinner *)

\* A running interval is the one in pollRef, and a provider is pending: when
\* the buttons are enabled no interval runs.
WatchInv ==
    /\ \A f \in Flows : interval[f] => mounted /\ pollRef = f /\ pending # None
    /\ mounted /\ pending # None =>
          /\ activeId = pending /\ popupRef = pending
          /\ pollRef = pending /\ expiryRef = pending
          /\ interval[pending] /\ timeout[pending]

LEMMA WatchNext == TypeOK /\ WatchInv /\ [Next]_vars => WatchInv'
<1> SUFFICES ASSUME TypeOK, WatchInv, [Next]_vars
             PROVE  WatchInv'
  OBVIOUS
<1>1. ASSUME UNCHANGED <<mounted, refs, interval, timeout>>
      PROVE  WatchInv'
  BY <1>1 DEF WatchInv, refs
<1>2. ASSUME NEW f \in Flows, Start(f)
      PROVE  WatchInv'
  <2>1. \A g \in Flows : ~interval[g]
    BY <1>2 DEF WatchInv, Start, Startable
  <2>2. interval'[f] /\ timeout'[f] /\ \A g \in Flows : g # f => ~interval'[g]
    BY <1>2, <2>1 DEF Start, TypeOK
  <2>3. /\ mounted' /\ pending' = f /\ activeId' = f /\ popupRef' = f
        /\ pollRef' = f /\ expiryRef' = f
    BY <1>2 DEF Start, Startable
  <2>4. f # None
    BY NumbersAssumption
  <2>5. QED
    BY <2>2, <2>3, <2>4 DEF WatchInv
<1>3. ASSUME pending' = None, \A f \in Flows : interval'[f] => interval[f] /\ f # pollRef
      PROVE  WatchInv'
  BY <1>3 DEF WatchInv
<1>4. CASE Unmount
  BY <1>4 DEF Unmount, StopPolling, ClearInterval, WatchInv
<1>5. ASSUME NEW f \in Flows, PollGivesUp(f) \/ Expire(f)
      PROVE  WatchInv'
  BY <1>3, <1>5 DEF PollGivesUp, Expire, ClearInterval
<1>6. CASE Cancel \/ \E m \in messages : Handle(m)
  BY <1>3, <1>6, FinishEnds DEF Cancel, Handle
<1>7. ASSUME NEW f \in Flows, PollOpen(f) \/ PollClosed(f)
      PROVE  WatchInv'
  BY <1>1, <1>7 DEF PollOpen, PollClosed
<1>8. CASE Elsewhere \/ UNCHANGED vars
  BY <1>1, <1>8, ElsewhereQuiet DEF vars, timers
<1>9. QED
  BY <1>2, <1>4, <1>5, <1>6, <1>7, <1>8 DEF Next, Timers, Elsewhere

\* The timers in the refs are those of the pending flow (strengthening of the
\* two theorems below).
THEOREM WatchHolds == Spec => []WatchInv
<1>1. Init => WatchInv
  BY DEF Init, WatchInv
<1>2. QED
  BY <1>1, WatchNext, TypeCorrect, PTL DEF Spec

\* At most one interval runs, and it is the one that pollRef can clear.
THEOREM IntervalsAreSingle == Spec => []OneInterval
<1>1. WatchInv => OneInterval
  BY DEF WatchInv, OneInterval
<1>2. QED
  BY <1>1, WatchHolds, PTL

\* Behind a spinner there are always the interval and the timeout of its flow.
THEOREM SpinnersAreWatched == Spec => []SpinnerIsWatched
<1>1. WatchInv => SpinnerIsWatched
  BY DEF WatchInv, SpinnerIsWatched
<1>2. QED
  BY <1>1, WatchHolds, PTL

-----------------------------------------------------------------------------
(* Dismissed flows stay dismissed *)

Begun(f) == started[f] # -1

\* The timeout in expiryRef is that of the active flow, and whatever is active
\* or has a timer is begun and not dismissed.
FlowInv ==
    /\ mounted => expiryRef = activeId
    /\ activeId # None => Begun(activeId) /\ (mounted => activeId \notin dismissed)
    /\ \A f \in Flows :
          /\ timeout[f] => Begun(f) /\ f \notin dismissed
          /\ interval[f] => Begun(f)
          /\ f \in dismissed => Begun(f)

\* A flow ends with all that it had.
LEMMA FlowEnds ==
    ASSUME TypeOK, FlowInv, mounted, Finish, UNCHANGED <<mounted, started>>,
           dismissed' \subseteq dismissed \cup {activeId}
    PROVE  FlowInv'
<1>1. /\ activeId' = None /\ expiryRef' = None
      /\ \A f \in Flows : /\ interval'[f] => interval[f]
                          /\ timeout'[f] => timeout[f] /\ f # activeId
  BY FinishEnds DEF FlowInv
<1>2. \A f \in Flows : /\ timeout'[f] => Begun(f)' /\ f \notin dismissed'
                      /\ interval'[f] => Begun(f)'
  BY <1>1 DEF FlowInv, Begun
<1>3. \A f \in Flows : f \in dismissed' => Begun(f)'
  BY NumbersAssumption DEF FlowInv, Begun
<1>4. QED
  BY <1>1, <1>2, <1>3 DEF FlowInv, Begun

LEMMA FlowNext == TypeOK /\ FlowInv /\ [Next]_vars => FlowInv'
<1> SUFFICES ASSUME TypeOK, FlowInv, [Next]_vars
             PROVE  FlowInv'
  OBVIOUS
<1>1. CASE Elsewhere \/ UNCHANGED vars
  BY <1>1, ElsewhereQuiet DEF FlowInv, Begun, refs, timers, vars
<1>2. ASSUME NEW f \in Flows, Start(f)
      PROVE  FlowInv'
  <2>1. f \notin dismissed /\ mounted' /\ now # -1
    BY <1>2 DEF Start, Startable, FlowInv, Begun, TypeOK
  <2>2. /\ expiryRef' = f /\ activeId' = f /\ dismissed' = dismissed
        /\ started'[f] = now
        /\ \A g \in Flows : g # f =>
              /\ started'[g] = started[g]
              /\ timeout'[g] = timeout[g] /\ interval'[g] = interval[g]
    BY <1>2 DEF Start, TypeOK
  <2>3. QED
    BY <2>1, <2>2 DEF FlowInv, Begun
<1>3. ASSUME NEW f \in Flows, PollOpen(f) \/ PollClosed(f)
      PROVE  FlowInv'
  BY <1>3 DEF PollOpen, PollClosed, FlowInv, Begun, refs
<1>4. ASSUME NEW f \in Flows, PollGivesUp(f)
      PROVE  FlowInv'
  BY <1>4 DEF PollGivesUp, ClearInterval, FlowInv, Begun
<1>5. ASSUME NEW f \in Flows, Expire(f)
      PROVE  FlowInv'
  BY <1>5 DEF Expire, ClearInterval, FlowInv, Begun
<1>6. CASE Cancel
  BY <1>6, FlowEnds DEF Cancel
<1>7. ASSUME NEW m \in messages, Handle(m)
      PROVE  FlowInv'
  BY <1>7, FlowEnds DEF Handle, Awaited
<1>8. CASE Unmount
  <2>1. /\ ~mounted' /\ activeId' = activeId /\ started' = started
        /\ dismissed' = dismissed \cup ({activeId} \ {None})
        /\ \A f \in Flows : /\ interval'[f] => interval[f]
                            /\ timeout'[f] => timeout[f] /\ f # activeId
    BY <1>8 DEF Unmount, StopPolling, ClearInterval, FlowInv
  <2>2. QED
    BY <2>1 DEF FlowInv, Begun
<1>9. QED
  BY <1>1, <1>2, <1>3, <1>4, <1>5, <1>6, <1>7, <1>8 DEF Next, Timers, Elsewhere

\* Whatever is active or has a timer is begun and not dismissed (strengthening
\* of the theorems below).
THEOREM FlowsHold == Spec => []FlowInv
<1>1. Init => FlowInv
  BY DEF Init, FlowInv
<1>2. QED
  BY <1>1, FlowNext, TypeCorrect, PTL DEF Spec

\* onSuccess is called at most once for a flow, and never after its Cancel or
\* after the unmounting, however often and late its result arrives.
THEOREM DismissedStaysDismissed == Spec => NoSuccessAfterDismissal
<1> DEFINE Stays == \A f \in Flows : f \in dismissed => succeeded'[f] = succeeded[f]
<1>1. ASSUME TypeOK, FlowInv, [Next]_vars
      PROVE  [Stays]_vars
  <2>1. CASE UNCHANGED succeeded
    BY <2>1
  <2>2. ASSUME NEW m \in messages, Handle(m)
        PROVE  Stays
    <3>1. m.flow \in Flows /\ m.flow \notin dismissed
      BY <1>1, <2>2, NumbersAssumption DEF Handle, Awaited, TypeOK, Message, FlowInv
    <3>2. QED
      BY <1>1, <2>2, <3>1 DEF Handle, TypeOK
  <2>3. QED
    BY <1>1, <2>1, <2>2, ElsewhereQuiet
       DEF Next, Timers, Start, PollOpen, PollClosed, PollGivesUp, Expire, Cancel, Unmount,
           Elsewhere, vars
<1>2. QED
  BY <1>1, TypeCorrect, FlowsHold, PTL DEF Spec, NoSuccessAfterDismissal

-----------------------------------------------------------------------------
(* Whose result is accepted *)

\* A flow that is given up has seen the clock move since it began.
ClockInv ==
    /\ \A f \in Flows : /\ started[f] <= now
                        /\ closedAt[f] # -1 => Begun(f) /\ started[f] <= closedAt[f]
    /\ mounted /\ pending = None /\ activeId # None => started[activeId] < now

LEMMA ClockNext == TypeOK /\ WatchInv /\ FlowInv /\ ClockInv /\ [Next]_vars => ClockInv'
<1> SUFFICES ASSUME TypeOK, WatchInv, FlowInv, ClockInv, [Next]_vars
             PROVE  ClockInv'
  OBVIOUS
<1> USE DEF Begun
<1>1. /\ now \in Int /\ activeId \in Flows \cup {None}
      /\ \A f \in Flows : started[f] \in Int /\ closedAt[f] \in Int
  BY DEF TypeOK
<1>2. CASE Elsewhere \/ UNCHANGED vars
  <2>1. UNCHANGED <<mounted, pending, activeId, started, closedAt>>
        /\ (now' = now \/ now' = now + 1)
    BY <1>2, ElsewhereQuiet DEF refs, timers, vars, Tick
  <2>2. QED
    BY <1>1, <2>1 DEF ClockInv
<1>3. ASSUME NEW f \in Flows, Start(f)
      PROVE  ClockInv'
  <2>1. /\ now' = now /\ pending' = f /\ closedAt' = closedAt
        /\ started[f] = -1 /\ started'[f] = now
        /\ \A g \in Flows : g # f => started'[g] = started[g]
    BY <1>3 DEF Start, TypeOK
  <2>2. f # None
    BY NumbersAssumption
  <2>3. QED
    BY <1>1, <2>1, <2>2 DEF ClockInv
<1>4. ASSUME NEW f \in Flows, PollOpen(f) \/ PollClosed(f)
      PROVE  ClockInv'
  <2>1. /\ UNCHANGED <<now, mounted, pending, activeId, started>> /\ Begun(f)
        /\ closedAt'[f] \in {-1, now}
        /\ \A g \in Flows : g # f => closedAt'[g] = closedAt[g]
    BY <1>4 DEF PollOpen, PollClosed, refs, FlowInv, TypeOK
  <2>2. QED
    BY <1>1, <2>1 DEF ClockInv
<1>5. ASSUME UNCHANGED <<now, started>>, \A f \in Flows : closedAt'[f] \in {closedAt[f], -1},
             mounted' /\ pending' = None /\ activeId' # None => started[activeId'] < now
      PROVE  ClockInv'
  BY <1>5 DEF ClockInv
<1>6. ASSUME NEW f \in Flows, PollGivesUp(f)
      PROVE  ClockInv'
  <2>1. mounted /\ pending # None /\ pollRef = f
    BY <1>6 DEF PollGivesUp, WatchInv
  <2>2. activeId = f
    BY <2>1 DEF WatchInv
  <2>3. closedAt[f] # -1 /\ now - closedAt[f] > CloseGrace
    BY <1>6 DEF PollGivesUp
  <2>4. started[f] < now
    BY <1>1, <2>3, NumbersAssumption DEF ClockInv
  <2>5. /\ UNCHANGED <<now, started, activeId>>
        /\ \A g \in Flows : closedAt'[g] \in {closedAt[g], -1}
    BY <1>6 DEF PollGivesUp, ClearInterval
  <2>6. QED
    BY <1>5, <2>2, <2>4, <2>5
<1>7. ASSUME NEW f \in Flows, Expire(f)
      PROVE  ClockInv'
  BY <1>5, <1>7 DEF Expire, ClearInterval
<1>8. CASE Cancel \/ \E m \in messages : Handle(m)
  <2>1. Finish /\ UNCHANGED <<now, started>>
    BY <1>8 DEF Cancel, Handle
  <2>2. activeId' = None /\ \A f \in Flows : closedAt'[f] \in {closedAt[f], -1}
    BY <2>1 DEF Finish, StopPolling, ClearInterval
  <2>3. QED
    BY <1>5, <2>1, <2>2
<1>9. CASE Unmount
  <2>1. /\ UNCHANGED <<now, started>> /\ ~mounted'
        /\ \A f \in Flows : closedAt'[f] \in {closedAt[f], -1}
    BY <1>9 DEF Unmount, StopPolling, ClearInterval
  <2>2. QED
    BY <1>5, <2>1
<1>10. QED
  BY <1>2, <1>3, <1>4, <1>6, <1>7, <1>8, <1>9 DEF Next, Timers, Elsewhere

\* Begun, neither dismissed nor active any more.
Orphan(f) == Begun(f) /\ f \notin dismissed /\ activeId # f

\* A flow loses its window to the clock, to a newer flow or to another orphan.
OrphanInv ==
    \A f \in Flows : Orphan(f) =>
        \/ now >= started[f] + AcceptWindow
        \/ \E g \in Flows : started[g] > started[f]
        \/ \E g \in Flows \ {f} : Orphan(g)

LEMMA OrphanNext ==
    TypeOK /\ FlowInv /\ ClockInv /\ OrphanInv /\ [Next]_vars => OrphanInv'
<1> SUFFICES ASSUME TypeOK, FlowInv, ClockInv, OrphanInv, [Next]_vars
             PROVE  OrphanInv'
  OBVIOUS
<1> USE DEF Begun
<1>1. /\ now \in Int /\ activeId \in Flows \cup {None} /\ AcceptWindow \in Int
      /\ \A f \in Flows : started[f] \in Int
  BY NumbersAssumption DEF TypeOK
<1>2. ASSUME UNCHANGED started, now' \in Int, now' >= now,
             activeId' \in {activeId, None},
             dismissed' \subseteq dismissed \cup {activeId}, dismissed \subseteq dismissed',
             activeId' = None /\ activeId # None =>
                 \/ activeId \in dismissed'
                 \/ now >= started[activeId] + AcceptWindow
                 \/ \E g \in Flows \ {activeId} : Orphan(g)
      PROVE  OrphanInv'
  <2>1. \A g \in Flows : Orphan(g) => Orphan(g)'
    BY <1>2, NumbersAssumption DEF Orphan
  <2>2. QED
    BY <1>1, <1>2, <2>1 DEF OrphanInv, Orphan
<1>3. CASE Elsewhere \/ UNCHANGED vars
  <2>1. UNCHANGED <<started, activeId, dismissed>> /\ (now' = now \/ now' = now + 1)
    BY <1>3, ElsewhereQuiet DEF refs, vars, Tick
  <2>2. QED
    BY <1>1, <1>2, <2>1
<1>4. ASSUME NEW f \in Flows, Start(f)
      PROVE  OrphanInv'
  <2>1. /\ now' = now /\ activeId' = f /\ dismissed' = dismissed
        /\ started[f] = -1 /\ started'[f] = now
        /\ \A g \in Flows : g # f => started'[g] = started[g]
    BY <1>4 DEF Start, TypeOK
  <2>2. \A g \in Flows : Orphan(g) => Orphan(g)'
    BY <2>1 DEF Orphan
  <2>3. activeId # None => started[activeId] < now
    BY <1>4 DEF Start, Startable, ClockInv
  <2>4. ASSUME NEW g \in Flows, Orphan(g)'
        PROVE  \/ now' >= started'[g] + AcceptWindow
               \/ \E h \in Flows : started'[h] > started'[g]
               \/ \E h \in Flows \ {g} : Orphan(h)'
    <3>1. g # f /\ started'[g] = started[g]
      BY <2>1, <2>4 DEF Orphan
    <3>2. CASE g = activeId
      BY <2>1, <2>3, <3>1, <3>2, NumbersAssumption
    <3>3. CASE g # activeId
      <4>1. Orphan(g)
        BY <2>1, <2>4, <3>1, <3>3 DEF Orphan
      <4>2. CASE \E h \in Flows : started[h] > started[g]
        <5>1. PICK h \in Flows : started[h] > started[g]
          BY <4>2
        <5>2. h # f
          BY <1>1, <2>1, <3>1, <4>1, <5>1 DEF TypeOK, Orphan
        <5>3. QED
          BY <2>1, <3>1, <5>1, <5>2
      <4>3. QED
        BY <2>1, <2>2, <3>1, <4>1, <4>2 DEF OrphanInv
    <3>4. QED
      BY <3>2, <3>3
  <2>5. QED
    BY <2>4 DEF OrphanInv
<1>5. ASSUME NEW f \in Flows, Expire(f)
      PROVE  OrphanInv'
  <2>1. /\ UNCHANGED <<now, started, dismissed>> /\ activeId' = None
        /\ timeout[f] /\ now >= started[f] + AcceptWindow
    BY <1>5 DEF Expire
  <2>2. f # activeId => Orphan(f)
    BY <2>1 DEF FlowInv, Orphan
  <2>3. QED
    BY <1>1, <1>2, <2>1, <2>2
<1>6. ASSUME NEW f \in Flows, PollOpen(f) \/ PollClosed(f) \/ PollGivesUp(f)
      PROVE  OrphanInv'
  <2>1. UNCHANGED <<now, started, dismissed, activeId>>
    BY <1>6 DEF PollOpen, PollClosed, PollGivesUp, refs
  <2>2. QED
    BY <1>1, <1>2, <2>1
<1>7. CASE Cancel \/ Unmount \/ \E m \in messages : Handle(m)
  <2>1. /\ UNCHANGED <<now, started>> /\ activeId' \in {activeId, None}
        /\ dismissed' = dismissed \cup ({activeId} \ {None})
    BY <1>7, FinishEnds, NumbersAssumption DEF Cancel, Unmount, Handle, Awaited, TypeOK, Message
  <2>2. QED
    BY <1>1, <1>2, <2>1
<1>8. QED
  BY <1>3, <1>4, <1>5, <1>6, <1>7 DEF Next, Timers, Elsewhere

\* The newest flow that is not dismissed loses its accept window only when
\* another flow ended without a result and without Cancel.
THEOREM OnlyOrphansCutTheWindow == Spec => []AcceptedUnlessOrphaned
<1>1. Init => ClockInv /\ OrphanInv
  BY DEF Init, ClockInv, OrphanInv, Orphan, Begun
<1>2. TypeOK /\ OrphanInv => AcceptedUnlessOrphaned
  BY NumbersAssumption DEF TypeOK, OrphanInv, Orphan, Begun, AcceptedUnlessOrphaned
<1>3. QED
  BY <1>1, <1>2, ClockNext, OrphanNext, TypeCorrect, WatchHolds, FlowsHold, PTL DEF Spec

-----------------------------------------------------------------------------
(* The hook as the page sees it *)

\* A success dismisses its flow; while a session is fetched no flow is awaited.
SuccessInv ==
    /\ \A f \in Flows : succeeded[f] > 0 => f \in dismissed
    /\ mounted /\ exchanging => activeId = None

LEMMA SuccessNext == TypeOK /\ SuccessInv /\ [Next]_vars => SuccessInv'
<1> SUFFICES ASSUME TypeOK, SuccessInv, [Next]_vars
             PROVE  SuccessInv'
  OBVIOUS
<1>1. ASSUME NEW m \in messages, Handle(m)
      PROVE  SuccessInv'
  <2>1. activeId' = None /\ m.flow \in dismissed' /\ dismissed \subseteq dismissed'
    BY <1>1, FinishEnds DEF Handle
  <2>2. \A f \in Flows : f # m.flow => succeeded'[f] = succeeded[f]
    BY <1>1 DEF Handle, TypeOK
  <2> QED
    BY <2>1, <2>2 DEF SuccessInv
<1>2. ASSUME NEW f \in Flows, Start(f)
      PROVE  SuccessInv'
  BY <1>2 DEF Start, Startable, SuccessInv
<1>3. ASSUME NEW f \in Flows, Timers(f)
      PROVE  SuccessInv'
  BY <1>3 DEF Timers, PollOpen, PollClosed, PollGivesUp, Expire, SuccessInv, refs
<1>4. CASE Cancel \/ Unmount
  BY <1>4, FinishEnds DEF Cancel, Unmount, SuccessInv
<1>5. CASE ExchangeEnds
  BY <1>5 DEF ExchangeEnds, SuccessInv
<1>6. CASE Tick \/ UNCHANGED vars
  BY <1>6 DEF Tick, vars, refs, SuccessInv
<1>7. ASSUME NEW f \in Flows, PopupLost(f) \/ PopupRestored(f)
      PROVE  SuccessInv'
  BY <1>7 DEF PopupLost, PopupRestored, refs, SuccessInv
<1>8. ASSUME NEW f \in Flows, NEW status \in Statuses, Publish(f, status)
      PROVE  SuccessInv'
  BY <1>8 DEF Publish, refs, SuccessInv
<1>9. ASSUME NEW m \in messages, Ignore(m)
      PROVE  SuccessInv'
  BY <1>9 DEF Ignore, refs, SuccessInv
<1> QED
  BY <1>1, <1>2, <1>3, <1>4, <1>5, <1>6, <1>7, <1>8, <1>9 DEF Next

\* All that the refinement rests on.
PageInv == TypeOK /\ WatchInv /\ FlowInv /\ SuccessInv

StatusNow == [f \in Flows |-> StatusOf(f)]
Spinner == IF mounted THEN pending ELSE None

\* The active flow of a mounted hook is awaited, and no other flow is.
LEMMA ActiveIsAwaited ==
    ASSUME PageInv, NEW f \in Flows
    PROVE  StatusOf(f) = "awaited" <=> mounted /\ activeId = f
<1>1. succeeded[f] \in Nat
  BY DEF PageInv, TypeOK
<1>2. mounted /\ activeId = f => Begun(f) /\ ~(succeeded[f] > 0)
  BY NumbersAssumption DEF PageInv, FlowInv, SuccessInv
<1> QED
  BY <1>1, <1>2 DEF StatusOf, Begun

LEMMA PageStutter ==
    ASSUME UNCHANGED <<mounted, activeId, pending, exchanging, started, succeeded>>
    PROVE  UNCHANGED Page!vars
  BY DEF Page!vars, StatusOf

LEMMA PageBegin ==
    ASSUME PageInv, NEW f \in Flows, Start(f)
    PROVE  Page!Begin(f)
<1> USE DEF PageInv
<1>1. /\ mounted /\ mounted' /\ pending = None /\ ~exchanging /\ exchanging' = exchanging
      /\ pending' = f /\ activeId' = f /\ started[f] = -1 /\ succeeded' = succeeded
  BY DEF Start, Startable
<1>2. started'[f] # -1 /\ \A g \in Flows : g # f => started'[g] = started[g]
  BY DEF Start, TypeOK
<1>3. StatusOf(f) = "new"
  BY <1>1 DEF StatusOf
<1>4. ~(succeeded[f] > 0)
  BY <1>1 DEF SuccessInv, FlowInv, Begun
<1>5. StatusOf(f)' = "awaited"
  BY <1>1, <1>2, <1>4 DEF StatusOf
<1>6. ASSUME NEW g \in Flows, g # f
      PROVE  StatusOf(g)' = IF StatusOf(g) = "awaited" THEN "over" ELSE StatusOf(g)
  BY <1>1, <1>2, <1>6 DEF StatusOf
<1>7. StatusNow' = [g \in Flows |-> IF g = f THEN "awaited"
                                    ELSE IF StatusNow[g] = "awaited" THEN "over"
                                    ELSE StatusNow[g]]
  BY <1>5, <1>6 DEF StatusNow
<1>8. Spinner = None /\ Spinner' = f
  BY <1>1 DEF Spinner
<1> QED
  BY <1>1, <1>3, <1>7, <1>8 DEF Page!Begin, StatusNow, Spinner

\* The active flow, if there is one, ends without a result.
LEMMA PageEnd ==
    ASSUME PageInv, mounted, UNCHANGED <<exchanging, started, succeeded>>,
           \/ mounted' /\ activeId' = None /\ pending' = None
           \/ ~mounted'
    PROVE  Page!Next \/ UNCHANGED Page!vars
<1> USE DEF PageInv
<1>1. Spinner' = None /\ ~(\E f \in Flows : mounted' /\ activeId' = f)
  BY NumbersAssumption DEF Spinner
<1>2. CASE activeId = None
  <2>1. Spinner = None
    BY <1>2, NumbersAssumption DEF Spinner, WatchInv, TypeOK
  <2>2. \A f \in Flows : StatusOf(f)' = StatusOf(f)
    BY <1>1, <1>2, NumbersAssumption DEF StatusOf
  <2> QED
    BY <1>1, <2>1, <2>2 DEF Page!vars, Spinner
<1>3. CASE activeId \in Flows
  <2>1. PICK f \in Flows : activeId = f
    BY <1>3
  <2>2. StatusOf(f) = "awaited" /\ StatusOf(f)' = "over"
    BY <1>1, <2>1, ActiveIsAwaited DEF StatusOf
  <2>3. \A g \in Flows : g # f => StatusOf(g)' = StatusOf(g)
    BY <1>1, <2>1 DEF StatusOf
  <2>4. StatusNow' = [StatusNow EXCEPT ![f] = "over"]
    BY <2>2, <2>3 DEF StatusNow
  <2>5. Page!End(f)
    BY <1>1, <2>2, <2>4 DEF Page!End, StatusNow, Spinner
  <2> QED
    BY <2>5 DEF Page!Next
<1> QED
  BY <1>2, <1>3 DEF TypeOK

LEMMA PageSucceed ==
    ASSUME PageInv, NEW m \in messages, Handle(m), m.status = "success",
           succeeded' = [succeeded EXCEPT ![m.flow] = @ + 1], exchanging' = TRUE
    PROVE  \E f \in Flows : Page!Succeed(f)
<1> USE DEF PageInv
<1>1. PICK f \in Flows : f = m.flow
  BY DEF TypeOK, Message
<1>2. /\ mounted /\ mounted' /\ activeId = f /\ started' = started
      /\ activeId' = None /\ pending' = None
  BY <1>1, FinishEnds DEF Handle, Awaited
<1>3. succeeded'[f] > 0 /\ \A g \in Flows : g # f => succeeded'[g] = succeeded[g]
  BY <1>1 DEF TypeOK
<1>4. ~exchanging
  BY <1>2, NumbersAssumption DEF SuccessInv
<1>5. StatusOf(f) = "awaited" /\ StatusOf(f)' = "succeeded"
  BY <1>2, <1>3, ActiveIsAwaited DEF StatusOf
<1>6. \A g \in Flows : g # f => StatusOf(g)' = StatusOf(g)
  BY <1>2, <1>3, NumbersAssumption DEF StatusOf
<1>7. StatusNow' = [StatusNow EXCEPT ![f] = "succeeded"]
  BY <1>5, <1>6 DEF StatusNow
<1>8. Page!Succeed(f)
  BY <1>2, <1>4, <1>5, <1>7 DEF Page!Succeed, StatusNow
<1> QED
  BY <1>8

LEMMA PageStep == PageInv /\ [Next]_vars => [Page!Next]_(Page!vars)
<1> SUFFICES ASSUME PageInv, [Next]_vars
             PROVE  Page!Next \/ UNCHANGED Page!vars
  OBVIOUS
<1> USE DEF PageInv
<1>1. ASSUME NEW f \in Flows, Start(f)
      PROVE  Page!Next
  BY <1>1, PageBegin DEF Page!Next
<1>2. ASSUME NEW f \in Flows, PollOpen(f) \/ PollClosed(f)
      PROVE  UNCHANGED Page!vars
  BY <1>2, PageStutter DEF PollOpen, PollClosed, refs
<1>3. ASSUME NEW f \in Flows, PollGivesUp(f)
      PROVE  Page!Next
  <2>1. /\ mounted /\ pending # None /\ pending' = None
        /\ UNCHANGED <<mounted, activeId, exchanging, started, succeeded>>
    BY <1>3 DEF PollGivesUp, WatchInv
  <2>2. Page!StopSpinner
    BY <2>1 DEF Page!StopSpinner, StatusOf
  <2> QED
    BY <2>2 DEF Page!Next
<1>4. ASSUME NEW f \in Flows, Expire(f)
      PROVE  Page!Next \/ UNCHANGED Page!vars
  <2>1. /\ UNCHANGED <<mounted, exchanging, started, succeeded>>
        /\ activeId' = None /\ pending' = None
    BY <1>4 DEF Expire
  <2>2. CASE mounted
    BY <2>1, <2>2, PageEnd
  <2>3. CASE ~mounted
    BY <2>1, <2>3 DEF Page!vars, StatusOf
  <2> QED
    BY <2>2, <2>3
<1>5. CASE Cancel \/ Unmount
  BY <1>5, PageEnd, FinishEnds DEF Cancel, Unmount
<1>6. ASSUME NEW m \in messages, Handle(m)
      PROVE  Page!Next \/ UNCHANGED Page!vars
  <2>1. CASE m.status = "success" /\ exchanging' = TRUE
             /\ succeeded' = [succeeded EXCEPT ![m.flow] = @ + 1]
    BY <1>6, <2>1, PageSucceed DEF Page!Next
  <2>2. CASE UNCHANGED <<succeeded, exchanging>>
    BY <1>6, <2>2, PageEnd, FinishEnds DEF Handle
  <2> QED
    BY <1>6, <2>1, <2>2 DEF Handle
<1>7. CASE ExchangeEnds
  <2>1. Page!Fetched
    BY <1>7 DEF ExchangeEnds, Page!Fetched, StatusOf, refs
  <2> QED
    BY <2>1 DEF Page!Next
<1>8. CASE Tick \/ UNCHANGED vars
  BY <1>8, PageStutter DEF Tick, vars, refs
<1>9. ASSUME NEW f \in Flows, PopupLost(f) \/ PopupRestored(f)
      PROVE  UNCHANGED Page!vars
  BY <1>9, PageStutter DEF PopupLost, PopupRestored, refs
<1>10. ASSUME NEW f \in Flows, NEW status \in Statuses, Publish(f, status)
       PROVE  UNCHANGED Page!vars
  BY <1>10, PageStutter DEF Publish, refs
<1>11. ASSUME NEW m \in messages, Ignore(m)
       PROVE  UNCHANGED Page!vars
  BY <1>11, PageStutter DEF Ignore, refs
<1> QED
  BY <1>1, <1>2, <1>3, <1>4, <1>5, <1>6, <1>7, <1>8, <1>9, <1>10, <1>11
     DEF Next, Timers

\* The hook is the sign-in of SignIn for any number of flows, however late its
\* timers fire and however often a result arrives.
THEOREM HookIsSignIn == Spec => SignInSpec
<1>1. Init => Page!Init /\ SuccessInv
  BY DEF Init, Page!Init, StatusOf, SuccessInv
<1>2. Spec => []SuccessInv
  BY <1>1, SuccessNext, TypeCorrect, PTL DEF Spec
<1>3. Spec => []PageInv
  BY <1>2, TypeCorrect, WatchHolds, FlowsHold, PTL DEF PageInv
<1> QED
  BY <1>1, <1>3, PageStep, PTL DEF Spec, SignInSpec, Page!Spec
=============================================================================

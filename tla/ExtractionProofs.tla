-------------------------- MODULE ExtractionProofs --------------------------
(***************************************************************************)
(* Proofs about Extraction: what the page shows of any number of runs of   *)
(* any files is typed, in order, final and whole.                          *)
(***************************************************************************)
EXTENDS Extraction, SequenceTheorems, FiniteSetTheorems, TLAPS

Works == {"none", "boot", "open", "copy", "add", "finalize", "done", "failed", "terminated"}

LEMMA PercentBounded ==
    ASSUME NEW r \in Runs, NEW end \in Int, duration[r] \in Nat
    PROVE  Percent(r, end) \in 0..99
<1>1. CASE duration[r] = 0
  BY <1>1 DEF Percent
<1>2. CASE duration[r] # 0
  <2>1. (end * 100) \div duration[r] \in Int
    BY <1>2
  <2>2. QED
    BY <1>2, <2>1 DEF Percent
<1>3. QED
  BY <1>1, <1>2

\* The sink hands out no more packets than the file has; what is being added is
\* the last of them and not empty.
SinkInv ==
    \A r \in Runs :
        /\ read[r] <= Len(Packets[r])
        /\ work[r] = "add" => read[r] > 0 /\ ~ LastPacket(r).empty

\* The length of a file, its packet k.
LEMMA FileTyped ==
    ASSUME NEW r \in Runs
    PROVE  /\ Len(Packets[r]) \in Nat
           /\ \A k \in 1..Len(Packets[r]) :
                 Packets[r][k].end \in Int /\ Packets[r][k].empty \in BOOLEAN
<1>1. Packets[r] \in Seq([end : Int, empty : BOOLEAN])
  BY RunsAssumption
<1>2. Len(Packets[r]) \in Nat
      /\ \A k \in 1..Len(Packets[r]) : Packets[r][k] \in [end : Int, empty : BOOLEAN]
  BY <1>1, ElementOfSeq, LenProperties
<1>3. QED
  BY <1>2

\* The messages that workers post.
LEMMA MessagesTyped ==
    ASSUME NEW r \in Runs
    PROVE  /\ \A p \in 0..100 : Extracting(r, p) \in Message
           /\ FinalMessages(r) \in Seq(Message)
BY DEF Extracting, Extracted, FinalMessages, Message

LEMMA PageTyped ==
    ASSUME TypeOK, (\E r \in Runs : Start(r)) \/ Reset \/ Abort
    PROVE  TypeOK'
<1>1. CASE \E r \in Runs : Start(r)
  BY <1>1 DEF Start, TypeOK
<1>2. CASE Reset
  <2>1. outbox' \in [Runs -> Seq(Message)]
    BY <1>2 DEF Reset, TypeOK
  <2>2. work' \in [Runs -> Works]
    BY <1>2 DEF Reset, TypeOK, Works
  <2>3. QED
    BY <1>2, <2>1, <2>2 DEF Reset, TypeOK, Works, Idle
<1>3. CASE Abort
  BY <1>3 DEF Abort, TypeOK
<1>4. QED
  BY <1>1, <1>2, <1>3

LEMMA AddedTyped == ASSUME TypeOK, SinkInv, NEW r \in Runs, Added(r) PROVE TypeOK'
<1>1. PICK n \in Nat, percent \in 0..99 :
          /\ copied' = [copied EXCEPT ![r] = n]
          /\ shown' = shown \/ shown' = [shown EXCEPT ![r] = percent]
          /\ \/ outbox' = outbox
             \/ outbox' = [outbox EXCEPT ![r] = Append(@, Extracting(r, percent))]
  <2>1. copied[r] + 1 \in Nat /\ duration[r] \in Nat
    BY DEF TypeOK
  <2>2. read[r] \in 1..Len(Packets[r])
    BY FileTyped DEF Added, SinkInv, TypeOK
  <2>3. Percent(r, LastPacket(r).end) \in 0..99
    BY <2>1, <2>2, FileTyped, PercentBounded DEF LastPacket
  <2>4. QED
    BY <2>1, <2>3 DEF Added
<1>2. Extracting(r, percent) \in Message
  BY DEF Extracting, Message
<1>3. copied' \in [Runs -> Nat] /\ shown' \in [Runs -> -1..99]
  <2>1. percent \in -1..99
    OBVIOUS
  <2>2. copied' \in [Runs -> Nat]
    BY <1>1 DEF TypeOK
  <2>3. shown' \in [Runs -> -1..99]
    BY <1>1, <2>1 DEF TypeOK
  <2>4. QED
    BY <2>2, <2>3
<1>4. Append(outbox[r], Extracting(r, percent)) \in Seq(Message)
  BY <1>2 DEF TypeOK
<1>5. outbox' \in [Runs -> Seq(Message)]
  BY <1>1, <1>4 DEF TypeOK
<1>6. work' \in [Runs -> Works]
  BY DEF Added, TypeOK, Works
<1>7. UNCHANGED <<stage, worker, duration, read, aborted, promise, overtaken>>
  BY DEF Added
<1>8. QED
  BY <1>3, <1>5, <1>6, <1>7 DEF TypeOK, Works

LEMMA WorkerTyped == ASSUME TypeOK, SinkInv, NEW r \in Runs, Progress(r) PROVE TypeOK'
<1>1. CASE Boot(r) \/ Open(r) \/ Skip(r) \/ Add(r) \/ Finalize(r)
  <2>1. duration' \in [Runs -> Nat] /\ UNCHANGED <<copied, shown, outbox>>
    <3>1. CASE Open(r)
      <4>1. PICK d \in Durations[r] : duration' = [duration EXCEPT ![r] = d]
        BY <3>1 DEF Open
      <4>2. d \in Nat
        BY RunsAssumption
      <4>3. QED
        BY <3>1, <4>1, <4>2 DEF Open, TypeOK
    <3>2. CASE Boot(r) \/ Skip(r) \/ Add(r) \/ Finalize(r)
      BY <3>2 DEF Boot, Skip, Add, Finalize, TypeOK
    <3>3. QED
      BY <1>1, <3>1, <3>2
  <2>2. read' \in [Runs -> Nat]
    <3>1. read' = read \/ read' = [read EXCEPT ![r] = @ + 1]
      <4>1. CASE Boot(r) \/ Open(r) \/ Finalize(r)
        BY <4>1 DEF Boot, Open, Finalize
      <4>2. CASE Skip(r) \/ Add(r)
        BY <4>2 DEF Skip, Add
      <4>3. QED
        BY <1>1, <4>1, <4>2
    <3>2. read \in [Runs -> Nat] /\ read[r] + 1 \in Nat
      BY DEF TypeOK
    <3>3. QED
      BY <3>1, <3>2
  <2>3. work' \in [Runs -> Works]
    BY <1>1 DEF Boot, Open, Skip, Add, Finalize, Continue, TypeOK, Works
  <2>4. UNCHANGED <<stage, worker, aborted, promise, overtaken>>
    BY <1>1 DEF Boot, Open, Skip, Add, Finalize, Continue
  <2>5. QED
    BY <2>1, <2>2, <2>3, <2>4 DEF TypeOK, Works
<1>2. CASE Finish(r)
  <2>1. outbox' \in [Runs -> Seq(Message)]
    BY <1>2, MessagesTyped DEF Finish, TypeOK
  <2>2. QED
    BY <1>2, <2>1 DEF Finish, Continue, TypeOK
<1>3. CASE Fail(r) \/ Crash(r)
  BY <1>3 DEF Fail, Crash, TypeOK
<1>4. QED
  BY <1>1, <1>2, <1>3, AddedTyped DEF Progress

LEMMA DeliverTyped == ASSUME TypeOK, NEW r \in Runs, Deliver(r) PROVE TypeOK'
<1>1. Head(outbox[r]) \in Message /\ Tail(outbox[r]) \in Seq(Message)
  BY DEF Deliver, TypeOK
<1>2. Settle(r, Head(outbox[r])) \in {"none", "pending", "resolved", "rejected"}
  BY DEF Settle, TypeOK
<1>3. QED
  BY <1>1, <1>2 DEF Deliver, TypeOK

LEMMA TypedNext == TypeOK /\ SinkInv /\ [Next]_vars => TypeOK'
<1> SUFFICES ASSUME TypeOK, SinkInv, [Next]_vars
             PROVE  TypeOK'
  OBVIOUS
<1>1. CASE UNCHANGED vars
  BY <1>1 DEF vars, TypeOK
<1>2. QED
  BY <1>1, PageTyped, WorkerTyped, DeliverTyped DEF Next

LEMMA SinkNext == TypeOK /\ SinkInv /\ [Next]_vars => SinkInv'
<1> SUFFICES ASSUME TypeOK, SinkInv, [Next]_vars
             PROVE  SinkInv'
  OBVIOUS
<1>1. ASSUME NEW r \in Runs, Start(r)
      PROVE  SinkInv'
  BY <1>1 DEF Start, SinkInv, LastPacket, TypeOK
<1>2. CASE Reset
  BY <1>2 DEF Reset, SinkInv, LastPacket, TypeOK
<1>3. CASE Abort \/ UNCHANGED vars \/ \E r \in Runs : Deliver(r)
  BY <1>3 DEF Abort, Deliver, vars, SinkInv, LastPacket
<1>4. ASSUME NEW r \in Runs, Skip(r) \/ Add(r)
      PROVE  SinkInv'
  <2>1. read' = [read EXCEPT ![r] = @ + 1] /\ read[r] < Len(Packets[r]) /\ read[r] \in Nat
    BY <1>4 DEF Skip, Add, TypeOK
  <2>2. \/ work' = [work EXCEPT ![r] = "copy"]
        \/ work' = [work EXCEPT ![r] = "add"] /\ ~ Packets[r][read[r] + 1].empty
    BY <1>4 DEF Skip, Add, NextPacket, Continue
  <2>3. QED
    BY <2>1, <2>2, FileTyped DEF SinkInv, LastPacket, TypeOK
<1>5. ASSUME NEW r \in Runs, Boot(r) \/ Open(r) \/ Added(r) \/ Finalize(r) \/ Finish(r)
                             \/ Fail(r) \/ Crash(r)
      PROVE  SinkInv'
  <2>1. UNCHANGED read
        /\ \E w \in Works \ {"add"} : work' = [work EXCEPT ![r] = w]
    BY <1>5 DEF Boot, Open, Added, Finalize, Finish, Fail, Crash, Continue, Works
  <2>2. QED
    BY <2>1 DEF SinkInv, LastPacket, TypeOK
<1>6. QED
  BY <1>1, <1>2, <1>3, <1>4, <1>5 DEF Next, Progress

LEMMA TypedHolds == Spec => [](TypeOK /\ SinkInv)
<1>1. Init => TypeOK /\ SinkInv
  BY RunsAssumption, FileTyped DEF Init, TypeOK, SinkInv, Idle
<1>2. QED
  BY <1>1, TypedNext, SinkNext, PTL DEF Spec

\* Every variable always holds a value of its kind: no percentage leaves 0..100
\* whatever duration the metadata states and wherever packets end.
THEOREM TypeCorrect == Spec => []TypeOK
BY TypedHolds, PTL

-----------------------------------------------------------------------------
(* What is shown is final, whole and in order *)

Whole(r) == copied[r] = Cardinality(Full(r, Len(Packets[r]))) /\ copied[r] > 0

\* While it copies, a worker has copied what it has read but for the packet it
\* is adding.
Counted(r) ==
    /\ work[r] \in {"none", "boot", "open", "copy"} => copied[r] = Cardinality(Full(r, read[r]))
    /\ work[r] = "add" => copied[r] + 1 = Cardinality(Full(r, read[r]))

\* One more packet is one more that holds something, or none.
LEMMA FullNext ==
    ASSUME NEW r \in Runs, NEW n \in Nat
    PROVE  /\ Packets[r][n + 1].empty => Full(r, n + 1) = Full(r, n)
           /\ ~ Packets[r][n + 1].empty => Cardinality(Full(r, n + 1)) = Cardinality(Full(r, n)) + 1
<1>1. IsFiniteSet(Full(r, n))
  <2>1. IsFiniteSet(1..n)
    BY FS_Interval
  <2>2. Full(r, n) \subseteq 1..n
    BY DEF Full
  <2>3. QED
    BY <2>1, <2>2, FS_Subset
<1>2. 1..(n + 1) = (1..n) \cup {n + 1}
  OBVIOUS
<1>3. Packets[r][n + 1].empty => Full(r, n + 1) = Full(r, n)
  BY <1>2 DEF Full
<1>4. ASSUME ~ Packets[r][n + 1].empty
      PROVE  Cardinality(Full(r, n + 1)) = Cardinality(Full(r, n)) + 1
  <2>1. Full(r, n + 1) = Full(r, n) \cup {n + 1}
    BY <1>2, <1>4 DEF Full
  <2>2. n + 1 \notin Full(r, n)
    BY DEF Full
  <2>3. QED
    BY <1>1, <2>1, <2>2, FS_AddElement
<1>5. QED
  BY <1>3, <1>4

\* Message k of the worker of r: full only when the output is final, and the
\* result comes last.
Fits(r, k) ==
    /\ outbox[r][k].run = r
    /\ outbox[r][k].percent = 100 => work[r] = "done"
    /\ outbox[r][k].stage = "extracted" => outbox[r][k].percent = 100 /\ k = Len(outbox[r])

RunInv(r) ==
    /\ promise[r] = "none" <=> work[r] = "none"
    /\ Counted(r)
    /\ work[r] \in {"none", "terminated"} => outbox[r] = <<>>
    /\ work[r] \in {"finalize", "done"} => Whole(r)
    /\ promise[r] = "resolved" =>
          work[r] \in {"done", "terminated"} /\ Whole(r) /\ outbox[r] = <<>>
    /\ \A k \in 1..Len(outbox[r]) : Fits(r, k)

StageInv ==
    stage # Idle =>
        /\ stage.percent = 100 => work[stage.run] \in {"done", "terminated"}
        /\ stage.stage = "extracted" => promise[stage.run] = "resolved"

WorkerInv == worker # None => work[worker] # "none"

ShownInv == (\A r \in Runs : RunInv(r)) /\ StageInv /\ WorkerInv

\* A run that is left alone stays right.
LEMMA RunUntouched ==
    ASSUME NEW r \in Runs, RunInv(r),
           promise'[r] = promise[r], work'[r] = work[r],
           read'[r] = read[r], copied'[r] = copied[r], outbox'[r] = outbox[r]
    PROVE  RunInv(r)'
<1>1. Full(r, read[r])' = Full(r, read[r])
      /\ Full(r, Len(Packets[r]))' = Full(r, Len(Packets[r]))
  BY DEF Full
<1>2. Counted(r)' = Counted(r) /\ Whole(r)' = Whole(r)
  BY <1>1 DEF Counted, Whole
<1>3. QED
  BY <1>2 DEF RunInv, Fits

\* While the stage stays, the run it shows must stay in what is final.
LEMMA StageUntouched ==
    ASSUME TypeOK, StageInv, UNCHANGED stage,
           \A r \in Runs :
               /\ work[r] \in {"done", "terminated"} => work'[r] \in {"done", "terminated"}
               /\ promise[r] = "resolved" => promise'[r] = "resolved"
    PROVE  StageInv'
<1>1. stage # Idle => stage.run \in Runs
  BY DEF TypeOK, Message
<1>2. QED
  BY <1>1 DEF StageInv

LEMMA ShownByPage ==
    ASSUME TypeOK, ShownInv, (\E r \in Runs : Start(r)) \/ Reset \/ Abort
    PROVE  ShownInv'
<1>1. ASSUME NEW r \in Runs, Start(r)
      PROVE  ShownInv'
  <2>1. \A q \in Runs : q # r => RunInv(q)'
    BY <1>1, RunUntouched DEF Start, TypeOK, ShownInv
  <2>2. RunInv(r)'
    <3>1. /\ work[r] = "none" /\ work'[r] = "boot" /\ promise'[r] = "pending"
          /\ UNCHANGED <<read, copied, outbox>> /\ RunInv(r)
      BY <1>1 DEF Start, TypeOK, ShownInv
    <3>2. Counted(r)'
      BY <3>1 DEF RunInv, Counted, Full
    <3>3. QED
      BY <3>1, <3>2 DEF RunInv, Fits
  <2>3. StageInv'
    BY <1>1, StageUntouched DEF Start, TypeOK, ShownInv, RunInv
  <2>4. WorkerInv'
    BY <1>1 DEF Start, TypeOK, WorkerInv
  <2>5. QED
    BY <2>1, <2>2, <2>3, <2>4 DEF ShownInv
<1>2. CASE Reset
  <2>1. \A q \in Runs : q # worker => RunInv(q)'
    BY <1>2, RunUntouched DEF Reset, TypeOK, ShownInv
  <2>2. ASSUME NEW q \in Runs, q = worker
        PROVE  RunInv(q)'
    <3>1. RunInv(q) /\ work[q] # "none"
      BY <2>2, RunsAssumption DEF ShownInv, WorkerInv
    <3>2. /\ work'[q] = "terminated" /\ outbox'[q] = <<>>
          /\ promise' = promise /\ read' = read /\ copied' = copied
      BY <1>2, <2>2 DEF Reset
    <3>3. QED
      BY <3>1, <3>2 DEF RunInv, Counted, Full, Fits, Whole
  <2>3. StageInv' /\ WorkerInv'
    BY <1>2 DEF Reset, StageInv, WorkerInv
  <2>4. QED
    BY <2>1, <2>2, <2>3 DEF ShownInv
<1>3. CASE Abort
  <2>1. UNCHANGED <<stage, worker, work, promise, read, copied, outbox>>
    BY <1>3 DEF Abort
  <2>2. QED
    BY <2>1, RunUntouched DEF ShownInv, StageInv, WorkerInv
<1>4. QED
  BY <1>1, <1>2, <1>3

LEMMA ShownByWorker ==
    ASSUME TypeOK, SinkInv, ShownInv, NEW r \in Runs, Progress(r)
    PROVE  ShownInv'
<1>1. UNCHANGED <<stage, worker>> /\ \A q \in Runs : q # r =>
          /\ promise'[q] = promise[q] /\ work'[q] = work[q]
          /\ read'[q] = read[q] /\ copied'[q] = copied[q] /\ outbox'[q] = outbox[q]
  BY DEF Progress, Boot, Open, Skip, Add, Added, Finalize, Finish, Fail, Crash, Continue, TypeOK
<1>2. \A q \in Runs : q # r => RunInv(q)'
  BY <1>1, RunUntouched DEF ShownInv
<1>3. work[r] \in {"boot", "open", "copy", "add", "finalize"} /\ work'[r] # "none"
  BY DEF Progress, Boot, Open, Skip, Add, Added, Finalize, Finish, Fail, Crash, Continue, TypeOK
<1>4. RunInv(r)
  BY DEF ShownInv
<1>5. promise[r] # "resolved" /\ promise'[r] # "resolved" /\ promise'[r] # "none"
  BY <1>3, <1>4 DEF RunInv, Progress, Boot, Open, Skip, Add, Added, Finalize, Finish, Fail, Crash,
                    Continue, TypeOK
<1>6. StageInv'
  BY <1>1, <1>3, <1>5, StageUntouched DEF ShownInv
<1>7. WorkerInv'
  BY <1>1, <1>3 DEF ShownInv, WorkerInv, TypeOK
<1>8. \A k \in 1..Len(outbox[r]) :
          /\ outbox[r][k].run = r /\ outbox[r][k].percent # 100
          /\ outbox[r][k].stage # "extracted"
  BY <1>3, <1>4 DEF RunInv, Fits
<1>9. CASE Boot(r) \/ Open(r) \/ Finalize(r) \/ Fail(r) \/ Crash(r)
  <2>1. UNCHANGED <<read, copied, outbox>>
    BY <1>9 DEF Boot, Open, Finalize, Fail, Crash
  <2>2. work'[r] \in {"open", "copy", "finalize", "failed"}
        /\ (work'[r] = "finalize" => Whole(r))
        /\ (work'[r] \in {"open", "copy"} => work[r] \in {"boot", "open"})
    BY <1>4, <1>9 DEF Boot, Open, Finalize, Fail, Crash, RunInv, Counted,
                      Continue, AllCopied, Whole, TypeOK
  <2>3. Counted(r)'
    BY <1>4, <2>1, <2>2 DEF RunInv, Counted, Full
  <2>4. (work'[r] = "finalize" => Whole(r)')
    BY <2>1, <2>2 DEF Whole, Full
  <2>5. RunInv(r)'
    BY <1>5, <1>8, <2>1, <2>2, <2>3, <2>4 DEF RunInv, Fits
  <2>6. QED
    BY <1>2, <1>6, <1>7, <2>5 DEF ShownInv
<1>13. CASE Skip(r) \/ Add(r)
  <2>1. /\ UNCHANGED <<copied, outbox>> /\ work[r] = "copy"
        /\ read[r] \in Nat /\ read'[r] = read[r] + 1
    BY <1>13 DEF Skip, Add, Continue, TypeOK
  <2>2. copied[r] = Cardinality(Full(r, read[r])) /\ copied[r] \in Nat
    BY <1>4, <2>1 DEF RunInv, Counted, TypeOK
  <2>3. Full(r, read[r])' = Full(r, read[r] + 1)
    BY <2>1 DEF Full
  <2>4. Counted(r)' /\ work'[r] \in {"copy", "add"}
    <3>1. CASE Skip(r)
      <4>1. work'[r] = "copy" /\ Full(r, read[r] + 1) = Full(r, read[r])
        BY <2>1, <3>1, FullNext DEF Skip, NextPacket, Continue, TypeOK
      <4>2. QED
        BY <2>1, <2>2, <2>3, <4>1 DEF Counted
    <3>2. CASE Add(r)
      <4>1. work'[r] = "add"
            /\ Cardinality(Full(r, read[r] + 1)) = Cardinality(Full(r, read[r])) + 1
        BY <2>1, <3>2, FullNext DEF Add, NextPacket, Continue, TypeOK
      <4>2. QED
        BY <2>1, <2>2, <2>3, <4>1 DEF Counted
    <3>3. QED
      BY <1>13, <3>1, <3>2
  <2>5. RunInv(r)'
    BY <1>5, <1>8, <2>1, <2>4 DEF RunInv, Fits
  <2>6. QED
    BY <1>2, <1>6, <1>7, <2>5 DEF ShownInv
<1>10. CASE Added(r)
  <2>1. /\ work[r] = "add" /\ work'[r] = "copy" /\ read' = read
        /\ copied[r] \in Nat /\ copied'[r] = copied[r] + 1
    BY <1>10 DEF Added, TypeOK
  <2>0. Counted(r)'
    BY <1>4, <2>1 DEF RunInv, Counted, Full
  <2>2. PICK percent \in 0..99 :
            \/ outbox'[r] = outbox[r]
            \/ outbox'[r] = Append(outbox[r], Extracting(r, percent))
    <3>1. read[r] \in 1..Len(Packets[r]) /\ duration[r] \in Nat
      BY <2>1, FileTyped DEF SinkInv, TypeOK
    <3>2. Percent(r, LastPacket(r).end) \in 0..99
      BY <3>1, FileTyped, PercentBounded DEF LastPacket
    <3>3. QED
      BY <1>10, <3>2 DEF Added, TypeOK
  <2>3. outbox[r] \in Seq(Message)
    BY DEF TypeOK
  <2>4. \A k \in 1..Len(outbox'[r]) :
            /\ outbox'[r][k].run = r /\ outbox'[r][k].percent # 100
            /\ outbox'[r][k].stage # "extracted"
    <3>1. CASE outbox'[r] = outbox[r]
      BY <1>8, <3>1
    <3>2. CASE outbox'[r] = Append(outbox[r], Extracting(r, percent))
      <4> DEFINE m == Extracting(r, percent)
      <4>1. m.run = r /\ m.percent # 100 /\ m.stage # "extracted"
        BY DEF Extracting
      <4> HIDE DEF m
      <4>2. outbox'[r] = Append(outbox[r], m)
        BY <3>2 DEF m
      <4>3. Len(outbox[r]) \in Nat /\ Len(outbox'[r]) = Len(outbox[r]) + 1
        BY <2>3, <4>2
      <4>4. \A k \in 1..Len(outbox[r]) : outbox'[r][k] = outbox[r][k]
        BY <2>3, <4>2
      <4>5. outbox'[r][Len(outbox[r]) + 1] = m
        BY <2>3, <4>2
      <4>6. QED
        BY <1>8, <4>1, <4>3, <4>4, <4>5
    <3>3. QED
      BY <2>2, <3>1, <3>2
  <2>5. RunInv(r)'
    BY <1>5, <2>0, <2>1, <2>4 DEF RunInv, Fits
  <2>6. QED
    BY <1>2, <1>6, <1>7, <2>5 DEF ShownInv
<1>11. CASE Finish(r)
  <2>1. work'[r] = "done" /\ UNCHANGED <<read, copied>> /\ Whole(r)
    BY <1>4, <1>11 DEF Finish, Continue, TypeOK, RunInv
  <2>0. Counted(r)' /\ Whole(r)'
    BY <2>1 DEF Counted, Whole, Full
  <2>2. outbox'[r] = outbox[r] \o <<Extracting(r, 100), Extracted(r)>>
    BY <1>11 DEF Finish, FinalMessages, TypeOK
  <2>3. outbox[r] \in Seq(Message)
    BY DEF TypeOK
  <2>4. PICK n \in Nat : n = Len(outbox[r])
    BY <2>3
  <2>5. Len(outbox'[r]) = n + 2 /\ \A k \in 1..n : outbox'[r][k] = outbox[r][k]
    BY <2>2, <2>3, <2>4
  <2>6. /\ outbox'[r][n + 1] = [stage |-> "extracting", run |-> r, percent |-> 100]
        /\ outbox'[r][n + 2] = [stage |-> "extracted", run |-> r, percent |-> 100]
    BY <2>2, <2>3, <2>4 DEF Extracting, Extracted
  <2>7. \A k \in 1..Len(outbox'[r]) : Fits(r, k)'
    <3>1. \A k \in 1..n : Fits(r, k)'
      BY <1>8, <2>4, <2>5 DEF Fits
    <3>2. Fits(r, n + 1)' /\ Fits(r, n + 2)'
      BY <2>1, <2>5, <2>6 DEF Fits
    <3>3. QED
      BY <2>5, <3>1, <3>2
  <2>8. RunInv(r)'
    BY <1>5, <2>0, <2>1, <2>7 DEF RunInv
  <2>9. QED
    BY <1>2, <1>6, <1>7, <2>8 DEF ShownInv
<1>12. QED
  BY <1>9, <1>10, <1>11, <1>13 DEF Progress

LEMMA ShownByDeliver ==
    ASSUME TypeOK, ShownInv, NEW r \in Runs, Deliver(r)
    PROVE  ShownInv' /\ stage'.run = r
<1> DEFINE m == Head(outbox[r])
<1>1. outbox[r] \in Seq(Message) /\ outbox[r] # <<>>
  BY DEF Deliver, TypeOK
<1>2. Len(outbox[r]) \in Nat /\ 1 \in 1..Len(outbox[r]) /\ m = outbox[r][1]
  BY <1>1
<1>3. RunInv(r) /\ Fits(r, 1)
  BY <1>2 DEF ShownInv, RunInv
<1>4. /\ UNCHANGED <<worker, work, read, copied>> /\ stage' = m
      /\ outbox' = [outbox EXCEPT ![r] = Tail(@)]
      /\ promise' = [promise EXCEPT ![r] = Settle(r, m)]
  BY DEF Deliver
<1>5. work[r] \notin {"none", "terminated"} /\ promise[r] \notin {"none", "resolved"}
  BY <1>1, <1>3 DEF RunInv
<1>6. m.run = r /\ (m.percent = 100 => work[r] = "done")
      /\ (m.stage = "extracted" => work[r] = "done" /\ Len(outbox[r]) = 1)
  BY <1>2, <1>3 DEF Fits
<1> HIDE DEF m
<1>7. \A q \in Runs : q # r => RunInv(q)'
  BY <1>4, RunUntouched DEF ShownInv, TypeOK
<1>8. promise'[r] = IF m.stage = "extracted" THEN "resolved" ELSE promise[r]
  BY <1>4 DEF Settle, TypeOK
<1>9. outbox'[r] = Tail(outbox[r])
  BY <1>4 DEF TypeOK
<1>10. Len(outbox'[r]) = Len(outbox[r]) - 1
       /\ \A k \in 1..Len(outbox'[r]) : outbox'[r][k] = outbox[r][k + 1]
  BY <1>1, <1>9
<1>11. m.stage = "extracted" => outbox'[r] = <<>>
  <2>1. outbox'[r] \in Seq(Message)
    BY <1>1, <1>9
  <2>2. QED
    BY <1>6, <1>10, <2>1, EmptySeq
<1>12. \A k \in 1..Len(outbox'[r]) : Fits(r, k)'
  <2> SUFFICES ASSUME NEW k \in 1..Len(outbox'[r])
               PROVE  Fits(r, k)'
    OBVIOUS
  <2>1. Fits(r, k + 1)
    BY <1>2, <1>3, <1>10 DEF RunInv
  <2>2. QED
    BY <1>2, <1>4, <1>10, <2>1 DEF Fits
<1>13. RunInv(r)'
  <2>1. Counted(r)' /\ (Whole(r) => Whole(r)')
    BY <1>3, <1>4 DEF RunInv, Counted, Whole, Full
  <2>2. QED
    BY <1>3, <1>4, <1>5, <1>6, <1>8, <1>11, <1>12, <2>1 DEF RunInv
<1>14. StageInv'
  BY <1>4, <1>6, <1>8 DEF StageInv
<1>15. WorkerInv'
  BY <1>4 DEF ShownInv, WorkerInv
<1>16. QED
  BY <1>4, <1>6, <1>7, <1>13, <1>14, <1>15 DEF ShownInv

LEMMA ShownNext == TypeOK /\ SinkInv /\ ShownInv /\ [Next]_vars => ShownInv'
<1> SUFFICES ASSUME TypeOK, SinkInv, ShownInv, [Next]_vars
             PROVE  ShownInv'
  OBVIOUS
<1>1. CASE UNCHANGED vars
  BY <1>1, RunUntouched DEF vars, ShownInv, StageInv, WorkerInv
<1>2. QED
  BY <1>1, ShownByPage, ShownByWorker, ShownByDeliver DEF Next

\* What is stored, posted and shown of each run fits what its worker has done
\* (strengthening of the theorems below).
THEOREM ShownHolds == Spec => []ShownInv
<1>1. Init => ShownInv
  <2> SUFFICES ASSUME Init
               PROVE  ShownInv
    OBVIOUS
  <2>1. ASSUME NEW r \in Runs
        PROVE  Counted(r)
    <3>1. Full(r, 0) = {}
      BY DEF Full
    <3>2. QED
      BY <3>1, FS_EmptySet DEF Init, Counted
  <2>2. QED
    BY <2>1 DEF Init, ShownInv, RunInv, StageInv, WorkerInv
<1>2. QED
  BY <1>1, ShownNext, TypedHolds, PTL DEF Spec

\* The page never shows 100 % before the output is final.
THEOREM HundredComesLast == Spec => []HundredIsFinal
<1>1. ShownInv => HundredIsFinal
  BY RunsAssumption DEF ShownInv, StageInv, HundredIsFinal, Idle
<1>2. QED
  BY <1>1, ShownHolds, PTL

\* A result holds every packet of its file, and there was one.
THEOREM ResultsHoldEveryPacket == Spec => []ResultsAreWhole
<1>1. ShownInv => ResultsAreWhole
  BY DEF ShownInv, RunInv, Whole, ResultsAreWhole
<1>2. QED
  BY <1>1, ShownHolds, PTL

\* Once a run has been shown as extracted, only a reset or another run
\* replaces it: its worker has nothing left to say.
THEOREM NothingFollowsTheResult == Spec => NothingAfterResult
<1> DEFINE Replaces ==
        stage.stage = "extracted" /\ stage' # stage =>
            stage' = Idle \/ stage'.run # stage.run
<1>1. ASSUME TypeOK, ShownInv, [Next]_vars
      PROVE  [Replaces]_vars
  <2>1. CASE UNCHANGED stage
    BY <2>1
  <2>2. CASE Reset
    BY <2>2 DEF Reset
  <2>3. ASSUME NEW r \in Runs, Deliver(r), stage.stage = "extracted"
        PROVE  stage'.run # stage.run
    <3>1. stage.run \in Runs /\ promise[stage.run] = "resolved"
      BY <1>1, <2>3 DEF ShownInv, StageInv, TypeOK, Idle, Message
    <3>2. outbox[stage.run] = <<>>
      BY <1>1, <3>1 DEF ShownInv, RunInv
    <3>3. r # stage.run
      BY <2>3, <3>2 DEF Deliver
    <3>4. QED
      BY <1>1, <2>3, <3>3, ShownByDeliver
  <2>4. QED
    BY <1>1, <2>1, <2>2, <2>3
       DEF Next, Start, Abort, Progress, Boot, Open, Skip, Add, Added, Finalize, Finish, Fail, Crash,
           Continue, vars
<1>2. QED
  BY <1>1, TypeCorrect, ShownHolds, PTL DEF Spec, NothingAfterResult

-----------------------------------------------------------------------------
(* What survives a reset *)

LEMMA OvertakenNext ==
    TypeOK /\ ShownInv /\ OnlyOvertakenSurviveReset /\ [Next]_vars
        => OnlyOvertakenSurviveReset'
<1> SUFFICES ASSUME TypeOK, ShownInv, OnlyOvertakenSurviveReset, [Next]_vars
             PROVE  OnlyOvertakenSurviveReset'
  OBVIOUS
<1> USE DEF OnlyOvertakenSurviveReset, Alive
<1>1. ASSUME NEW r \in Runs, Start(r)
      PROVE  OnlyOvertakenSurviveReset'
  BY <1>1 DEF Start, TypeOK
<1>2. CASE Reset
  BY <1>2 DEF Reset, TypeOK
<1>3. CASE Abort \/ UNCHANGED vars
  BY <1>3 DEF Abort, vars
<1>4. ASSUME NEW r \in Runs, Progress(r)
      PROVE  OnlyOvertakenSurviveReset'
  <2>1. /\ UNCHANGED <<worker, overtaken>>
        /\ \A q \in Runs : q # r =>
              promise'[q] = promise[q] /\ work'[q] = work[q] /\ outbox'[q] = outbox[q]
    BY <1>4 DEF Progress, Boot, Open, Skip, Add, Added, Finalize, Finish, Fail, Crash, Continue, TypeOK
  <2>2. work[r] \in {"boot", "open", "copy", "add", "finalize"}
    BY <1>4 DEF Progress, Boot, Open, Skip, Add, Added, Finalize, Finish, Fail, Crash, Continue
  <2>3. promise[r] # "none"
    BY <2>2 DEF ShownInv, RunInv
  <2>4. worker # r => r \in overtaken
    BY <2>2, <2>3
  <2>5. QED
    BY <2>1, <2>4
<1>5. ASSUME NEW r \in Runs, Deliver(r)
      PROVE  OnlyOvertakenSurviveReset'
  <2>1. /\ UNCHANGED <<worker, work, overtaken>> /\ outbox[r] # <<>>
        /\ \A q \in Runs : q # r => promise'[q] = promise[q] /\ outbox'[q] = outbox[q]
    BY <1>5 DEF Deliver, TypeOK
  <2>2. promise[r] # "none"
    BY <2>1 DEF ShownInv, RunInv
  <2>3. QED
    BY <2>1, <2>2
<1>6. QED
  BY <1>1, <1>2, <1>3, <1>4, <1>5 DEF Next

\* After a reset only a run whose worker a later start had replaced can come
\* back to the page.
THEOREM ResetEndsTheRest == Spec => []OnlyOvertakenSurviveReset
<1>1. Init => OnlyOvertakenSurviveReset
  BY DEF Init, OnlyOvertakenSurviveReset
<1>2. QED
  BY <1>1, OvertakenNext, TypeCorrect, ShownHolds, PTL DEF Spec

-----------------------------------------------------------------------------
(* The result is on its way *)

\* Only the end of a run posts its result, and only its arrival settles the
\* promise.
LEMMA OnItsWayNext ==
    TypeOK /\ ShownInv /\ ResultOnItsWay /\ [Next]_vars => ResultOnItsWay'
<1> SUFFICES ASSUME TypeOK, ShownInv, ResultOnItsWay, [Next]_vars
             PROVE  ResultOnItsWay'
  OBVIOUS
<1> DEFINE Coming(r) == work[r] = "done" /\ promise[r] = "pending" =>
               outbox[r] # <<>> /\ outbox[r][Len(outbox[r])] = Extracted(r)
<1>1. ASSUME NEW r \in Runs, work'[r] # "done" \/ promise'[r] # "pending"
      PROVE  Coming(r)'
  BY <1>1
<1>2. ASSUME NEW r \in Runs,
             work'[r] = work[r], promise'[r] = promise[r], outbox'[r] = outbox[r]
      PROVE  Coming(r)'
  BY <1>2 DEF ResultOnItsWay
<1>3. CASE UNCHANGED vars
  BY <1>2, <1>3 DEF vars, ResultOnItsWay
<1>4. ASSUME NEW r \in Runs, Start(r)
      PROVE  ResultOnItsWay'
  <2>1. Coming(r)'
    BY <1>1, <1>4 DEF Start, TypeOK
  <2>2. \A q \in Runs : q # r => Coming(q)'
    BY <1>2, <1>4 DEF Start, TypeOK
  <2>3. QED
    BY <2>1, <2>2 DEF ResultOnItsWay
<1>5. CASE Reset
  <2>1. \A q \in Runs : q # worker => Coming(q)'
    BY <1>2, <1>5 DEF Reset, TypeOK
  <2>2. \A q \in Runs : q = worker => Coming(q)'
    BY <1>1, <1>5 DEF Reset, TypeOK
  <2>3. QED
    BY <2>1, <2>2 DEF ResultOnItsWay
<1>6. CASE Abort
  BY <1>2, <1>6 DEF Abort, ResultOnItsWay
<1>7. ASSUME NEW r \in Runs, Progress(r)
      PROVE  ResultOnItsWay'
  <2>1. \A q \in Runs : q # r => Coming(q)'
    <3>1. \A q \in Runs : q # r =>
              work'[q] = work[q] /\ promise'[q] = promise[q] /\ outbox'[q] = outbox[q]
      BY <1>7 DEF Progress, Boot, Open, Skip, Add, Added, Finalize, Finish, Fail, Crash, Continue, TypeOK
    <3>2. QED
      BY <1>2, <3>1
  <2>2. CASE Finish(r)
    <3>1. outbox[r] \in Seq(Message)
      BY DEF TypeOK
    <3>2. outbox'[r] = outbox[r] \o <<Extracting(r, 100), Extracted(r)>>
      BY <2>2 DEF Finish, FinalMessages, TypeOK
    <3> DEFINE full == Extracting(r, 100)
               result == Extracted(r)
    <3> HIDE DEF full, result
    <3>3. outbox'[r] = outbox[r] \o <<full, result>>
      BY <3>2 DEF full, result
    <3>4. Len(outbox'[r]) = Len(outbox[r]) + 2 /\ outbox'[r][Len(outbox[r]) + 2] = result
      BY <3>1, <3>3
    <3>5. outbox'[r] # <<>>
      BY <3>1, <3>3, <3>4
    <3>6. Coming(r)'
      BY <3>4, <3>5 DEF result, Extracted
    <3>7. QED
      BY <2>1, <3>6 DEF ResultOnItsWay
  <2>3. CASE ~ Finish(r)
    <3>1. work'[r] # "done"
      BY <1>7, <2>3 DEF Progress, Boot, Open, Skip, Add, Added, Finalize, Fail, Crash, Continue, TypeOK
    <3>2. QED
      BY <1>1, <2>1, <3>1 DEF ResultOnItsWay
  <2>4. QED
    BY <2>2, <2>3
<1>8. ASSUME NEW r \in Runs, Deliver(r)
      PROVE  ResultOnItsWay'
  <2>1. \A q \in Runs : q # r => Coming(q)'
    BY <1>2, <1>8 DEF Deliver, TypeOK
  <2>2. outbox[r] \in Seq(Message) /\ outbox[r] # <<>>
    BY <1>8 DEF Deliver, TypeOK
  <2>3. outbox'[r] = Tail(outbox[r])
    BY <1>8 DEF Deliver, TypeOK
  <2>4. /\ work'[r] = work[r]
        /\ promise'[r] = promise[r] \/ promise'[r] = "resolved"
    BY <1>8 DEF Deliver, Settle, TypeOK
  <2>5. Coming(r)'
    <3> SUFFICES ASSUME work'[r] = "done", promise'[r] = "pending"
                 PROVE  /\ outbox'[r] # <<>>
                        /\ outbox'[r][Len(outbox'[r])] = Extracted(r)
      BY DEF Extracted
    <3>1. work[r] = "done" /\ promise[r] = "pending"
      BY <2>4
    <3>2. outbox[r][Len(outbox[r])] = Extracted(r)
      BY <3>1 DEF ResultOnItsWay
    <3>3. Head(outbox[r]).stage # "extracted"
      BY <1>8 DEF Deliver, Settle, TypeOK
    <3>4. Len(outbox[r]) # 1
      BY <2>2, <3>2, <3>3 DEF Extracted
    <3>5. Len(outbox[r]) \in Nat /\ Len(outbox[r]) > 1
      <4>1. PICK l \in Nat : l = Len(outbox[r])
        BY <2>2
      <4>2. l # 0
        BY <2>2, <4>1, EmptySeq
      <4>3. l # 1
        BY <3>4, <4>1
      <4>4. l > 1
        BY <4>2, <4>3
      <4>5. QED
        BY <4>1, <4>4
    <3>6. Len(outbox'[r]) = Len(outbox[r]) - 1
          /\ outbox'[r][Len(outbox'[r])] = outbox[r][Len(outbox[r])]
      BY <2>2, <2>3, <3>5
    <3>7. QED
      BY <3>2, <3>5, <3>6
  <2>6. QED
    BY <2>1, <2>5 DEF ResultOnItsWay
<1>9. QED
  BY <1>3, <1>4, <1>5, <1>6, <1>7, <1>8 DEF Next

\* A run whose output is final and whose promise is pending has its result
\* behind all that it has posted: nobody else is needed for its promise.
THEOREM ResultsAreComing == Spec => []ResultOnItsWay
<1>1. Init => ResultOnItsWay
  BY DEF Init, ResultOnItsWay
<1>2. QED
  BY <1>1, OnItsWayNext, TypeCorrect, ShownHolds, PTL DEF Spec

-----------------------------------------------------------------------------
(* The percentage of a run falls only with its file *)

\* A later end is at least as large a share of a duration.
LEMMA DivMonotone ==
    ASSUME NEW a \in Int, NEW b \in Int, NEW d \in Nat \ {0}, a <= b
    PROVE  a \div d <= b \div d
OBVIOUS

LEMMA PercentMonotone ==
    ASSUME NEW r \in Runs, NEW e \in Int, NEW f \in Int, e <= f, duration[r] \in Nat
    PROVE  Percent(r, e) <= Percent(r, f)
<1>1. CASE duration[r] = 0
  BY <1>1 DEF Percent
<1>2. CASE duration[r] # 0
  <2> DEFINE a == (e * 100) \div duration[r]
             b == (f * 100) \div duration[r]
  <2>1. a \in Int /\ b \in Int
    BY <1>2
  <2>2. a <= b
    BY <1>2, DivMonotone
  <2> HIDE DEF a, b
  <2>3. Percent(r, e) = IF a > 99 THEN 99 ELSE IF a < 0 THEN 0 ELSE a
    BY <1>2 DEF Percent, a
  <2>4. Percent(r, f) = IF b > 99 THEN 99 ELSE IF b < 0 THEN 0 ELSE b
    BY <1>2 DEF Percent, b
  <2>5. QED
    BY <2>1, <2>2, <2>3, <2>4
<1>3. QED
  BY <1>1, <1>2

\* A worker that has copied nothing has posted and shown nothing; what it
\* posted last is where a packet ends that was copied before.
Sourced(r) ==
    /\ work[r] \in {"none", "boot", "open"} =>
          outbox[r] = <<>> /\ shown[r] = -1 /\ stage.run # r
    /\ shown[r] # -1 =>
          \E j \in Full(r, read[r]) :
              /\ shown[r] = Percent(r, Packets[r][j].end)
              /\ work[r] = "add" => j < read[r]

\* What a worker has posted grows, up to what it posted last, and what the page
\* shows of a run is at most what the run has still to say.
RunOrder(r) ==
    /\ \A j, k \in 1..Len(outbox[r]) : j <= k => outbox[r][j].percent <= outbox[r][k].percent
    /\ work[r] # "done" => \A k \in 1..Len(outbox[r]) : outbox[r][k].percent <= shown[r]

PageOrder(r) ==
    stage.run = r =>
        /\ \A k \in 1..Len(outbox[r]) : stage.percent <= outbox[r][k].percent
        /\ work[r] \notin {"done", "terminated"} => stage.percent <= shown[r]

\* It is so as long as the file has not gone back (strengthening).
RunInOrder(r) == Sourced(r) /\ (GoesBack(r) \/ (RunOrder(r) /\ PageOrder(r)))

OrderInv == \A r \in Runs : RunInOrder(r)

\* What was read before is read.
LEMMA ReadMore ==
    ASSUME NEW r \in Runs, read[r] \in Nat, read'[r] \in Nat, read[r] <= read'[r]
    PROVE  /\ Full(r, read[r]) \subseteq Full(r, read[r])'
           /\ GoesBack(r) => GoesBack(r)'
<1>1. Full(r, read[r]) \subseteq Full(r, read[r])'
  BY DEF Full
<1>2. QED
  BY <1>1 DEF GoesBack

LEMMA SourcedKept ==
    ASSUME NEW r \in Runs, Sourced(r),
           stage' = stage \/ stage'.run # r,
           duration'[r] = duration[r], read'[r] = read[r], shown'[r] = shown[r],
           outbox'[r] = outbox[r] \/ outbox'[r] = <<>> \/ work[r] \notin {"none", "boot", "open"},
           work'[r] = "add" => work[r] = "add",
           work'[r] \in {"none", "boot", "open"} => work[r] \in {"none", "boot", "open"}
    PROVE  Sourced(r)'
<1>1. Full(r, read[r])' = Full(r, read[r])
  BY DEF Full
<1>2. \A j : Percent(r, Packets[r][j].end)' = Percent(r, Packets[r][j].end)
  BY DEF Percent
<1>3. QED
  BY <1>1, <1>2 DEF Sourced

LEMMA OrderUntouched ==
    ASSUME NEW r \in Runs, RunInOrder(r),
           stage' = stage \/ stage'.run # r,
           work'[r] = work[r], duration'[r] = duration[r], read'[r] = read[r],
           shown'[r] = shown[r], outbox'[r] = outbox[r]
    PROVE  RunInOrder(r)'
<1>1. Sourced(r)'
  BY SourcedKept DEF RunInOrder
<1>2. GoesBack(r)' = GoesBack(r)
  BY DEF GoesBack, Full
<1>3. QED
  BY <1>1, <1>2 DEF RunInOrder, RunOrder, PageOrder

\* A run whose outbox is empty and whose worker will post nothing, or nothing
\* yet, has nothing to say.
LEMMA OrderSilent ==
    ASSUME NEW r \in Runs, Sourced(r)', outbox'[r] = <<>>,
           work'[r] = "terminated" \/ stage'.run # r
    PROVE  RunInOrder(r)'
BY DEF RunInOrder, RunOrder, PageOrder

LEMMA OrderByPage ==
    ASSUME TypeOK, ShownInv, OrderInv, (\E r \in Runs : Start(r)) \/ Reset \/ Abort
    PROVE  OrderInv'
<1>1. ASSUME NEW r \in Runs, Start(r)
      PROVE  OrderInv'
  <2>1. \A q \in Runs : q # r => RunInOrder(q)'
    BY <1>1, OrderUntouched DEF Start, TypeOK, OrderInv
  <2>2. Sourced(r) /\ work[r] = "none"
    BY <1>1 DEF Start, OrderInv, RunInOrder
  <2>3. /\ UNCHANGED <<stage, duration, read, shown, outbox>>
        /\ work'[r] = "boot"
    BY <1>1 DEF Start, TypeOK
  <2>4. Sourced(r)'
    BY <2>2, <2>3, SourcedKept
  <2>5. RunInOrder(r)'
    BY <2>2, <2>3, <2>4, OrderSilent DEF Sourced
  <2>6. QED
    BY <2>1, <2>5 DEF OrderInv
<1>2. CASE Reset
  <2>1. stage'.run \notin Runs
    BY <1>2, RunsAssumption DEF Reset, Idle
  <2>2. UNCHANGED <<duration, read, shown>>
    BY <1>2 DEF Reset
  <2>3. \A q \in Runs : q # worker => RunInOrder(q)'
    BY <1>2, <2>1, <2>2, OrderUntouched DEF Reset, TypeOK, OrderInv
  <2>4. ASSUME NEW q \in Runs, q = worker
        PROVE  RunInOrder(q)'
    <3>1. work'[q] = "terminated" /\ outbox'[q] = <<>>
      BY <1>2, <2>4 DEF Reset
    <3>2. Sourced(q)'
      BY <2>1, <2>2, <3>1, SourcedKept DEF OrderInv, RunInOrder
    <3>3. QED
      BY <3>1, <3>2, OrderSilent
  <2>5. QED
    BY <2>3, <2>4 DEF OrderInv
<1>3. CASE Abort
  <2>1. UNCHANGED <<stage, work, duration, read, shown, outbox>>
    BY <1>3 DEF Abort
  <2>2. QED
    BY <2>1, OrderUntouched DEF OrderInv
<1>4. QED
  BY <1>1, <1>2, <1>3

\* A packet that is read leaves the messages as they are.
LEMMA OrderByRead ==
    ASSUME TypeOK, OrderInv, NEW r \in Runs, Skip(r) \/ Add(r)
    PROVE  RunInOrder(r)'
<1>1. /\ work[r] = "copy" /\ work'[r] \in {"copy", "add"}
      /\ read[r] \in Nat /\ read'[r] = read[r] + 1
      /\ UNCHANGED <<stage, duration, shown, outbox>>
  BY DEF Skip, Add, Continue, TypeOK
<1>2. Full(r, read[r]) \subseteq Full(r, read[r])' /\ (GoesBack(r) => GoesBack(r)')
  BY <1>1, ReadMore
<1>3. Sourced(r)'
  <2>1. \A j \in Full(r, read[r]) : j \in 1..read[r]
    BY DEF Full
  <2>2. \A j : Percent(r, Packets[r][j].end)' = Percent(r, Packets[r][j].end)
    BY <1>1 DEF Percent
  <2>3. shown[r] # -1 =>
            \E j \in Full(r, read[r]) : shown[r] = Percent(r, Packets[r][j].end)
    BY DEF OrderInv, RunInOrder, Sourced
  <2>4. ASSUME NEW j \in Full(r, read[r]), shown[r] = Percent(r, Packets[r][j].end)
        PROVE  /\ j \in Full(r, read[r])' /\ j < read'[r]
               /\ shown'[r] = Percent(r, Packets[r][j].end)'
    BY <1>1, <1>2, <2>1, <2>2, <2>4
  <2>5. shown'[r] # -1 =>
            \E j \in Full(r, read[r])' : j < read'[r] /\ shown'[r] = Percent(r, Packets[r][j].end)'
    BY <1>1, <2>3, <2>4
  <2>6. QED
    BY <1>1, <2>5 DEF Sourced
<1>4. QED
  BY <1>1, <1>2, <1>3 DEF OrderInv, RunInOrder, RunOrder, PageOrder

\* What a worker posts is at least what it posted before, and at least what
\* the page shows of its run, unless the file has gone back.
LEMMA OrderByAdded ==
    ASSUME TypeOK, SinkInv, ShownInv, OrderInv, NEW r \in Runs, Added(r)
    PROVE  RunInOrder(r)'
<1> DEFINE end == LastPacket(r).end
           percent == Percent(r, end)
<1>1. RunInOrder(r)
  BY DEF OrderInv
<1>2. /\ work[r] = "add" /\ work'[r] = "copy"
      /\ UNCHANGED <<stage, duration, read>>
  BY DEF Added, TypeOK
<1>3. /\ duration[r] \in Nat /\ shown[r] \in -1..99
      /\ read[r] \in 1..Len(Packets[r]) /\ end \in Int
  BY <1>2, FileTyped DEF SinkInv, TypeOK, LastPacket
<1>4. percent \in 0..99
  BY <1>3, PercentBounded
<1>13. shown[r] \in Int /\ percent \in Int
  <2>1. shown[r] \in -1..99
    BY DEF TypeOK
  <2>2. QED
    BY <1>4, <2>1
<1>5. read[r] \in Full(r, read[r])
  BY <1>2, <1>3 DEF SinkInv, LastPacket, Full
<1>6. \/ shown'[r] = shown[r] /\ outbox'[r] = outbox[r]
      \/ /\ shown'[r] = percent
         /\ outbox'[r] = Append(outbox[r], Extracting(r, percent))
  BY DEF Added, TypeOK
<1>7. Sourced(r)'
  <2>1. Full(r, read[r])' = Full(r, read[r])
    BY <1>2 DEF Full
  <2>2. \A j : Percent(r, Packets[r][j].end)' = Percent(r, Packets[r][j].end)
    BY <1>2 DEF Percent
  <2>3. CASE shown'[r] = shown[r]
    BY <1>1, <1>2, <2>1, <2>2, <2>3 DEF RunInOrder, Sourced
  <2>4. CASE shown'[r] = percent
    <3>1. shown'[r] = Percent(r, Packets[r][read[r]].end)'
      BY <1>2, <2>4 DEF LastPacket, Percent
    <3>2. QED
      BY <1>2, <1>5, <2>1, <3>1 DEF Sourced
  <2>5. QED
    BY <1>6, <2>3, <2>4
<1>8. GoesBack(r)' = GoesBack(r)
  BY <1>2 DEF GoesBack, Full
<1>9. ASSUME ~ GoesBack(r)
      PROVE  shown[r] <= percent
  <2>1. CASE shown[r] = -1
    BY <1>4, <2>1
  <2>2. CASE shown[r] # -1
    <3>1. PICK j \in Full(r, read[r]) :
              shown[r] = Percent(r, Packets[r][j].end) /\ j < read[r]
      BY <1>1, <1>2, <2>2 DEF RunInOrder, Sourced
    <3>2. j \in 1..Len(Packets[r])
      BY <1>3, FileTyped DEF Full
    <3>3. Packets[r][j].end \in Int
      BY <3>2, FileTyped
    <3>4. Packets[r][j].end <= end
      <4>1. ~ (end < Packets[r][j].end)
        BY <1>5, <1>9, <3>1 DEF GoesBack, LastPacket
      <4>2. QED
        BY <1>3, <3>3, <4>1
    <3>5. QED
      BY <1>3, <3>1, <3>3, <3>4, PercentMonotone
  <2>3. QED
    BY <2>1, <2>2
<1> HIDE DEF percent, end
<1>10. ASSUME ~ GoesBack(r), shown'[r] = shown[r], outbox'[r] = outbox[r]
       PROVE  (RunOrder(r) /\ PageOrder(r))'
  BY <1>1, <1>2, <1>10 DEF RunInOrder, RunOrder, PageOrder
<1>11. ASSUME ~ GoesBack(r), shown'[r] = percent,
              outbox'[r] = Append(outbox[r], Extracting(r, percent))
       PROVE  (RunOrder(r) /\ PageOrder(r))'
  <2> DEFINE m == Extracting(r, percent)
  <2>1. m.percent = percent
    BY DEF Extracting
  <2> HIDE DEF m
  <2>2. outbox'[r] = Append(outbox[r], m)
    BY <1>11 DEF m
  <2>0. outbox[r] \in Seq(Message)
    BY DEF TypeOK
  <2>3. PICK l \in Nat : l = Len(outbox[r])
    BY <2>0
  <2>4. Len(outbox'[r]) = l + 1 /\ outbox'[r][l + 1] = m
        /\ \A k \in 1..l : outbox'[r][k] = outbox[r][k]
    BY <2>0, <2>2, <2>3
  <2>5. \A k \in 1..l : outbox[r][k].percent \in 0..100 /\ outbox[r][k].percent <= shown[r]
    <3>1. \A k \in 1..l : outbox[r][k] \in Message
      BY <2>0, <2>3, ElementOfSeq
    <3>2. \A k \in 1..l : outbox[r][k].percent <= shown[r]
      BY <1>1, <1>2, <1>11, <2>3 DEF RunInOrder, RunOrder
    <3>3. QED
      BY <3>1, <3>2 DEF Message
  <2>6. \A k \in 1..l : outbox[r][k].percent <= percent
    <3> SUFFICES ASSUME NEW k \in 1..l
                 PROVE  outbox[r][k].percent <= percent
      OBVIOUS
    <3>1. outbox[r][k].percent \in 0..100 /\ outbox[r][k].percent <= shown[r]
      BY <2>5
    <3>2. shown[r] <= percent
      BY <1>9, <1>11
    <3>3. QED
      <4>1. outbox[r][k].percent \in Int
        BY <3>1
      <4>2. QED
        BY <1>13, <3>1, <3>2, <4>1
  <2>7. \A j, k \in 1..(l + 1) : j <= k => outbox'[r][j].percent <= outbox'[r][k].percent
    <3> SUFFICES ASSUME NEW j \in 1..(l + 1), NEW k \in 1..(l + 1), j <= k
                 PROVE  outbox'[r][j].percent <= outbox'[r][k].percent
      OBVIOUS
    <3>1. CASE k = l + 1
      <4>1. outbox'[r][k].percent = percent
        BY <2>1, <2>4, <3>1
      <4>2. CASE j \in 1..l
        BY <2>4, <2>6, <4>1, <4>2
      <4>3. CASE j = l + 1
        BY <1>4, <2>1, <2>4, <4>1, <4>3
      <4>4. QED
        BY <4>2, <4>3
    <3>2. CASE k # l + 1
      <4>1. j \in 1..l /\ k \in 1..l
        BY <3>2
      <4>2. QED
        BY <1>1, <1>11, <2>3, <2>4, <4>1 DEF RunInOrder, RunOrder
    <3>3. QED
      BY <3>1, <3>2
  <2>8. \A k \in 1..(l + 1) : outbox'[r][k].percent <= percent
    <3>1. \A k \in 1..l : outbox'[r][k].percent <= percent
      BY <2>4, <2>6
    <3>2. outbox'[r][l + 1].percent <= percent
      BY <1>4, <2>1, <2>4
    <3>3. QED
      BY <3>1, <3>2
  <2>9. RunOrder(r)'
    BY <1>11, <2>4, <2>7, <2>8 DEF RunOrder
  <2>10. PageOrder(r)'
    <3> SUFFICES ASSUME stage.run = r
                 PROVE  /\ \A k \in 1..(l + 1) : stage.percent <= outbox'[r][k].percent
                        /\ stage.percent <= percent
      BY <1>2, <1>11, <2>4 DEF PageOrder
    <3>1. stage.percent <= shown[r] /\ \A k \in 1..l : stage.percent <= outbox[r][k].percent
      BY <1>1, <1>2, <1>11, <2>3 DEF RunInOrder, PageOrder
    <3>2. stage.percent \in 0..100
      BY RunsAssumption DEF TypeOK, Idle, Message
    <3>3. stage.percent <= percent
      <4>1. shown[r] <= percent
        BY <1>9, <1>11
      <4>2. stage.percent \in Int
        BY <3>2
      <4>3. QED
        BY <1>13, <3>1, <4>1, <4>2
    <3>4. \A k \in 1..l : stage.percent <= outbox'[r][k].percent
      BY <2>4, <3>1
    <3>5. stage.percent <= outbox'[r][l + 1].percent
      BY <2>1, <2>4, <3>3
    <3>6. QED
      BY <3>3, <3>4, <3>5
  <2>11. QED
    BY <2>9, <2>10
<1>12. QED
  BY <1>6, <1>7, <1>8, <1>10, <1>11 DEF RunInOrder

LEMMA OrderByFinish ==
    ASSUME TypeOK, ShownInv, OrderInv, NEW r \in Runs, Finish(r)
    PROVE  RunInOrder(r)'
<1> DEFINE full == Extracting(r, 100)
           result == Extracted(r)
<1>1. RunInOrder(r)
  BY DEF OrderInv
<1>2. /\ work[r] = "finalize" /\ work'[r] = "done"
      /\ UNCHANGED <<stage, duration, read, shown>>
  BY DEF Finish, Continue, TypeOK
<1>11. Sourced(r)'
  BY <1>1, <1>2, SourcedKept DEF RunInOrder
<1>16. GoesBack(r)' = GoesBack(r)
  BY <1>2 DEF GoesBack, Full
<1> SUFFICES ASSUME ~ GoesBack(r)
             PROVE  (RunOrder(r) /\ PageOrder(r))'
  BY <1>11, <1>16 DEF RunInOrder
<1>17. RunOrder(r) /\ PageOrder(r)
  BY <1>1 DEF RunInOrder
<1>3. outbox[r] \in Seq(Message)
  BY DEF TypeOK
<1>4. outbox'[r] = outbox[r] \o <<full, result>>
  BY DEF Finish, FinalMessages, TypeOK
<1>5. full.percent = 100 /\ result.percent = 100
  BY DEF Extracting, Extracted
<1> HIDE DEF full, result
<1>6. PICK l \in Nat : l = Len(outbox[r])
  BY <1>3
<1>7. /\ Len(outbox'[r]) = l + 2 /\ \A k \in 1..l : outbox'[r][k] = outbox[r][k]
      /\ outbox'[r][l + 1] = full /\ outbox'[r][l + 2] = result
  BY <1>3, <1>4, <1>6
<1>8. \A k \in 1..l : outbox[r][k].percent \in 0..100
  <2>1. \A k \in 1..l : outbox[r][k] \in Message
    BY <1>3, <1>6, ElementOfSeq
  <2>2. QED
    BY <2>1 DEF Message
<1>9. stage.run = r => stage.percent \in 0..100
  BY RunsAssumption DEF TypeOK, Idle, Message
<1>10. \A j, k \in 1..(l + 2) : j <= k => outbox'[r][j].percent <= outbox'[r][k].percent
  <2> SUFFICES ASSUME NEW j \in 1..(l + 2), NEW k \in 1..(l + 2), j <= k
               PROVE  outbox'[r][j].percent <= outbox'[r][k].percent
    OBVIOUS
  <2>1. CASE k \in {l + 1, l + 2}
    <3>1. outbox'[r][k].percent = 100
      BY <1>5, <1>7, <2>1
    <3>2. outbox'[r][j].percent \in 0..100
      <4>1. CASE j \in 1..l
        BY <1>7, <1>8, <4>1
      <4>2. CASE j \in {l + 1, l + 2}
        BY <1>5, <1>7, <4>2
      <4>3. QED
        BY <4>1, <4>2
    <3>3. QED
      BY <3>1, <3>2
  <2>2. CASE k \notin {l + 1, l + 2}
    <3>1. j \in 1..l /\ k \in 1..l
      BY <2>2
    <3>2. QED
      BY <1>6, <1>7, <1>17, <3>1 DEF RunOrder
  <2>3. QED
    BY <2>1, <2>2
<1>12. RunOrder(r)'
  BY <1>2, <1>7, <1>10 DEF RunOrder
<1>13. ASSUME stage.run = r
       PROVE  \A k \in 1..(l + 2) : stage.percent <= outbox'[r][k].percent
  <2>1. \A k \in 1..l : stage.percent <= outbox'[r][k].percent
    BY <1>6, <1>7, <1>13, <1>17 DEF PageOrder
  <2>2. stage.percent <= 100
    BY <1>9, <1>13
  <2>3. stage.percent <= outbox'[r][l + 1].percent /\ stage.percent <= outbox'[r][l + 2].percent
    <3>1. outbox'[r][l + 1].percent = 100 /\ outbox'[r][l + 2].percent = 100
      BY <1>5, <1>7
    <3>2. QED
      BY <2>2, <3>1
  <2>4. QED
    BY <2>1, <2>3
<1>14. PageOrder(r)'
  BY <1>2, <1>7, <1>13 DEF PageOrder
<1>15. QED
  BY <1>12, <1>14

LEMMA OrderByWorker ==
    ASSUME TypeOK, SinkInv, ShownInv, OrderInv, NEW r \in Runs, Progress(r)
    PROVE  OrderInv'
<1>1. UNCHANGED stage /\ \A q \in Runs : q # r =>
          /\ work'[q] = work[q] /\ duration'[q] = duration[q] /\ read'[q] = read[q]
          /\ shown'[q] = shown[q] /\ outbox'[q] = outbox[q]
  BY DEF Progress, Boot, Open, Skip, Add, Added, Finalize, Finish, Fail, Crash, Continue, TypeOK
<1>2. \A q \in Runs : q # r => RunInOrder(q)'
  BY <1>1, OrderUntouched DEF OrderInv
<1>3. RunInOrder(r)
  BY DEF OrderInv
<1>4. CASE Boot(r) \/ Open(r)
  <2>1. work[r] \in {"boot", "open"} /\ work'[r] \in {"open", "copy"}
        /\ UNCHANGED <<shown, outbox>>
    BY <1>4 DEF Boot, Open, Continue, TypeOK
  <2>2. outbox[r] = <<>> /\ shown[r] = -1 /\ stage.run # r
    BY <1>3, <2>1 DEF RunInOrder, Sourced
  <2>3. Sourced(r)'
    BY <1>1, <2>1, <2>2 DEF Sourced
  <2>4. RunInOrder(r)'
    BY <1>1, <2>1, <2>2, <2>3, OrderSilent
  <2>5. QED
    BY <1>2, <2>4 DEF OrderInv
<1>5. CASE Finalize(r) \/ Fail(r) \/ Crash(r)
  <2>1. UNCHANGED <<stage, duration, read, shown, outbox>>
        /\ work[r] \notin {"done", "terminated"} /\ work'[r] \in {"finalize", "failed"}
    BY <1>5 DEF Finalize, Fail, Crash, Continue, TypeOK
  <2>2. Sourced(r)'
    BY <1>3, <2>1, SourcedKept DEF RunInOrder
  <2>3. GoesBack(r)' = GoesBack(r)
    BY <2>1 DEF GoesBack, Full
  <2>4. RunInOrder(r)'
    BY <1>3, <2>1, <2>2, <2>3 DEF RunInOrder, RunOrder, PageOrder
  <2>5. QED
    BY <1>2, <2>4 DEF OrderInv
<1>6. QED
  BY <1>2, <1>4, <1>5, OrderByRead, OrderByAdded, OrderByFinish DEF Progress, OrderInv

LEMMA OrderByDeliver ==
    ASSUME TypeOK, ShownInv, OrderInv, NEW r \in Runs, Deliver(r)
    PROVE  /\ OrderInv'
           /\ stage.run = r /\ ~ GoesBack(r) => stage'.percent >= stage.percent
<1> DEFINE m == Head(outbox[r])
<1>1. outbox[r] \in Seq(Message) /\ outbox[r] # <<>>
  BY DEF Deliver, TypeOK
<1>2. PICK l \in Nat : l = Len(outbox[r])
  BY <1>1
<1>3. l >= 1 /\ m = outbox[r][1] /\ 1 \in 1..l
  BY <1>1, <1>2, EmptySeq
<1>4. m \in Message
  BY <1>1
<1>5. stage' = m /\ UNCHANGED <<work, duration, read, shown>>
      /\ outbox' = [outbox EXCEPT ![r] = Tail(@)]
  BY DEF Deliver
<1> HIDE DEF m
<1>6. m.percent \in 0..100
  BY <1>4 DEF Message
<1>7. stage'.run = r
  BY ShownByDeliver
<1>8. \A q \in Runs : q # r => RunInOrder(q)'
  <2> SUFFICES ASSUME NEW q \in Runs, q # r
               PROVE  RunInOrder(q)'
    OBVIOUS
  <2>1. stage'.run # q /\ RunInOrder(q) /\ outbox'[q] = outbox[q]
    BY <1>5, <1>7 DEF OrderInv, TypeOK
  <2>2. QED
    BY <1>5, <2>1, OrderUntouched
<1>9. RunInOrder(r)
  BY DEF OrderInv
<1>10. outbox'[r] = Tail(outbox[r])
  BY <1>5 DEF TypeOK
<1>11. Len(outbox'[r]) = l - 1 /\ \A k \in 1..(l - 1) : outbox'[r][k] = outbox[r][k + 1]
  BY <1>1, <1>2, <1>3, <1>10
<1>12. work[r] \notin {"none", "boot", "open"}
  BY <1>1, <1>9 DEF RunInOrder, Sourced
<1>13. Sourced(r)' /\ GoesBack(r)' = GoesBack(r)
  <2>1. Full(r, read[r])' = Full(r, read[r])
    BY <1>5 DEF Full
  <2>2. \A j : Percent(r, Packets[r][j].end)' = Percent(r, Packets[r][j].end)
    BY <1>5 DEF Percent
  <2>3. QED
    BY <1>5, <1>9, <1>12, <2>1, <2>2 DEF RunInOrder, Sourced, GoesBack
<1> SUFFICES ASSUME ~ GoesBack(r)
             PROVE  /\ (RunOrder(r) /\ PageOrder(r))'
                    /\ stage.run = r => stage'.percent >= stage.percent
  BY <1>8, <1>13 DEF OrderInv, RunInOrder
<1>19. RunOrder(r) /\ PageOrder(r)
  BY <1>9 DEF RunInOrder
<1>14. \A k \in 1..(l - 1) : k + 1 \in 1..l
  BY <1>2
<1>15. RunOrder(r)'
  <2>1. \A j, k \in 1..(l - 1) : j <= k => outbox'[r][j].percent <= outbox'[r][k].percent
    <3> SUFFICES ASSUME NEW j \in 1..(l - 1), NEW k \in 1..(l - 1), j <= k
                 PROVE  outbox'[r][j].percent <= outbox'[r][k].percent
      OBVIOUS
    <3>1. j + 1 \in 1..l /\ k + 1 \in 1..l /\ j + 1 <= k + 1
      BY <1>2
    <3>2. outbox[r][j + 1].percent <= outbox[r][k + 1].percent
      BY <1>2, <1>19, <3>1 DEF RunOrder
    <3>3. QED
      BY <1>11, <3>2
  <2>2. work[r] # "done" => \A k \in 1..(l - 1) : outbox'[r][k].percent <= shown[r]
    <3> SUFFICES ASSUME work[r] # "done", NEW k \in 1..(l - 1)
                 PROVE  outbox'[r][k].percent <= shown[r]
      OBVIOUS
    <3>1. outbox[r][k + 1].percent <= shown[r]
      BY <1>2, <1>19, <1>14 DEF RunOrder
    <3>2. QED
      BY <1>11, <3>1
  <2>3. QED
    BY <1>5, <1>11, <2>1, <2>2 DEF RunOrder
<1>16. PageOrder(r)'
  <2>1. \A k \in 1..(l - 1) : m.percent <= outbox'[r][k].percent
    <3> SUFFICES ASSUME NEW k \in 1..(l - 1)
                 PROVE  m.percent <= outbox'[r][k].percent
      OBVIOUS
    <3>1. k + 1 \in 1..l /\ 1 \in 1..l /\ 1 <= k + 1
      BY <1>2
    <3>2. outbox[r][1].percent <= outbox[r][k + 1].percent
      BY <1>2, <1>19, <3>1 DEF RunOrder
    <3>3. QED
      BY <1>3, <1>11, <3>2
  <2>2. work[r] # "done" => m.percent <= shown[r]
    BY <1>2, <1>3, <1>19 DEF RunOrder
  <2>3. QED
    BY <1>5, <1>11, <2>1, <2>2 DEF PageOrder
<1>17. stage.run = r => stage'.percent >= stage.percent
  <2> SUFFICES ASSUME stage.run = r
               PROVE  stage'.percent >= stage.percent
    OBVIOUS
  <2>1. stage.percent \in 0..100
    BY RunsAssumption DEF TypeOK, Idle, Message
  <2>2. stage.percent <= m.percent
    BY <1>2, <1>3, <1>19 DEF PageOrder
  <2>3. QED
    BY <1>5, <1>6, <2>1, <2>2
<1>18. QED
  BY <1>15, <1>16, <1>17

LEMMA OrderNext == TypeOK /\ SinkInv /\ ShownInv /\ OrderInv /\ [Next]_vars => OrderInv'
<1> SUFFICES ASSUME TypeOK, SinkInv, ShownInv, OrderInv, [Next]_vars
             PROVE  OrderInv'
  OBVIOUS
<1>1. CASE UNCHANGED vars
  BY <1>1, OrderUntouched DEF vars, OrderInv
<1>2. QED
  BY <1>1, OrderByPage, OrderByWorker, OrderByDeliver DEF Next

LEMMA OrderHolds == Spec => []OrderInv
<1>1. Init => OrderInv
  <2> SUFFICES ASSUME Init, NEW r \in Runs
               PROVE  RunInOrder(r)
    BY DEF OrderInv
  <2>1. shown[r] = -1 /\ outbox[r] = <<>> /\ work[r] = "none"
    BY DEF Init
  <2>2. stage.run # r
    BY RunsAssumption DEF Init, Idle
  <2>3. QED
    BY <2>1, <2>2 DEF RunInOrder, Sourced, RunOrder, PageOrder
<1>2. QED
  BY <1>1, OrderNext, TypedHolds, ShownHolds, PTL DEF Spec

\* The percentage shown of a run falls only if its file goes back, whatever
\* duration its file states and however its messages interleave with those of
\* other runs.
THEOREM ProgressFollowsTheFile == Spec => OnlyTheFileGoesBack
<1> DEFINE Follows ==
        \A r \in Runs :
            stage.run = r /\ stage'.run = r /\ stage'.percent < stage.percent => GoesBack(r)
<1>1. ASSUME TypeOK, ShownInv, OrderInv, [Next]_vars
      PROVE  [Follows]_vars
  <2>1. stage.percent \in 0..100
    BY <1>1 DEF TypeOK, Message, Idle
  <2>2. CASE UNCHANGED stage
    BY <2>1, <2>2
  <2>3. CASE Reset
    BY <2>3, RunsAssumption DEF Reset, Idle
  <2>4. ASSUME NEW r \in Runs, Deliver(r)
        PROVE  Follows
    <3>1. stage'.run = r
      BY <1>1, <2>4, ShownByDeliver
    <3>2. stage.run = r /\ ~ GoesBack(r) => stage'.percent >= stage.percent
      BY <1>1, <2>4, OrderByDeliver
    <3>3. stage'.percent \in 0..100
      <4>1. TypeOK'
        BY <1>1, <2>4, DeliverTyped
      <4>2. QED
        BY <4>1 DEF TypeOK, Message, Idle
    <3>4. QED
      BY <2>1, <3>1, <3>2, <3>3
  <2>5. QED
    BY <1>1, <2>2, <2>3, <2>4
       DEF Next, Start, Abort, Progress, Boot, Open, Skip, Add, Added, Finalize, Finish, Fail,
           Crash, Continue, vars
<1>2. QED
  BY <1>1, TypeCorrect, ShownHolds, OrderHolds, PTL DEF Spec, OnlyTheFileGoesBack
=============================================================================

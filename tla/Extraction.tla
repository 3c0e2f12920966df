------------------------------ MODULE Extraction ------------------------------
(***************************************************************************)
(* Audio extraction in the browser (apps/web/soundfear, video-extractor):  *)
(* the page's hook, its pipeline, and one worker per run that copies the   *)
(* audio packets of a file.                                                *)
(*                                                                         *)
(* A run is one call of start.  A worker posts its messages in order; the  *)
(* main thread handles those of different workers in any order.  What      *)
(* Mediabunny does with the file is external: it hands out the packets one *)
(* by one and may fail at every await.                                     *)
(***************************************************************************)
EXTENDS Integers, Sequences, FiniteSets

CONSTANTS
    Runs,      \* the calls of start
    None,      \* null
    Packets,   \* Packets[r]: the audio packets of the file of r, in their order: when each
               \* ends (timestamp + duration) and whether it holds no byte
    Durations, \* Durations[r]: the durations its metadata may state; 0: unknown
    Interval   \* PROGRESS_PACKET_INTERVAL

ASSUME RunsAssumption ==
    /\ None \notin Runs
    /\ Packets \in [Runs -> Seq([end : Int, empty : BOOLEAN])]
    /\ Durations \in [Runs -> SUBSET Nat]
    /\ Interval \in Nat \ {0}

VARIABLES
    stage,    \* the hook's state: what is shown, and of which run
    worker,   \* the run whose worker is in this.worker of the hook's pipeline
    work,     \* work[r]: what the worker of r does
    duration, \* duration[r]: the duration in the metadata of r's file
    read,     \* read[r]: how many packets the sink has handed out
    copied,   \* copied[r]: packetCount
    shown,    \* shown[r]: lastProgressPercent
    aborted,  \* the runs whose controller was aborted
    outbox,   \* outbox[r]: the messages of r's worker not handled yet
    promise,  \* promise[r]: the promise of run
    \* history
    overtaken \* the runs alive when a later start replaced this.worker

vars == <<stage, worker, work, duration, read, copied, shown, aborted, outbox, promise,
          overtaken>>

Idle == [stage |-> "idle", run |-> None, percent |-> 0]
Extracting(r, percent) == [stage |-> "extracting", run |-> r, percent |-> percent]
Extracted(r) == [stage |-> "extracted", run |-> r, percent |-> 100]

Alive(r) == work[r] \in {"boot", "open", "copy", "add", "finalize"}

Init ==
    /\ stage = Idle
    /\ worker = None
    /\ work = [r \in Runs |-> "none"]
    /\ duration = [r \in Runs |-> 0]
    /\ read = [r \in Runs |-> 0]
    /\ copied = [r \in Runs |-> 0]
    /\ shown = [r \in Runs |-> -1]
    /\ aborted = {}
    /\ outbox = [r \in Runs |-> <<>>]
    /\ promise = [r \in Runs |-> "none"]
    /\ overtaken = {}

-----------------------------------------------------------------------------
(* The page *)

\* The drop zone is disabled unless the stage is idle, uploaded or error; the
\* last two are never reached.
Enabled == stage.stage = "idle"

\* start: the pipeline creates a worker and forgets the one it had.
Start(r) ==
    /\ Enabled
    /\ work[r] = "none"
    /\ work' = [work EXCEPT ![r] = "boot"]
    /\ worker' = r
    /\ promise' = [promise EXCEPT ![r] = "pending"]
    /\ overtaken' = overtaken \cup {q \in Runs : Alive(q) \/ outbox[q] # <<>>}
    /\ UNCHANGED <<stage, duration, read, copied, shown, aborted, outbox>>

\* Mutant: the pipeline is dropped and its worker runs on.
ResetForgets ==
    /\ stage.stage = "extracted"
    /\ worker' = None
    /\ stage' = Idle
    /\ UNCHANGED <<work, outbox, duration, read, copied, shown, aborted, promise, overtaken>>

\* reset, from the result panel: destroy terminates the worker of the
\* pipeline, with the messages it has posted.
Reset ==
    /\ stage.stage = "extracted"
    /\ work' = [r \in Runs |-> IF r = worker THEN "terminated" ELSE work[r]]
    /\ outbox' = [r \in Runs |-> IF r = worker THEN <<>> ELSE outbox[r]]
    /\ worker' = None
    /\ stage' = Idle
    /\ UNCHANGED <<duration, read, copied, shown, aborted, promise, overtaken>>

\* abort: the message reaches a worker that has a controller.
Abort ==
    /\ worker # None
    /\ work[worker] \in {"open", "copy", "add", "finalize"}
    /\ aborted' = aborted \cup {worker}
    /\ UNCHANGED <<stage, worker, work, duration, read, copied, shown, outbox, promise, overtaken>>

-----------------------------------------------------------------------------
(* The worker *)

Continue(r, from, to) ==
    /\ work[r] = from
    /\ r \notin aborted
    /\ work' = [work EXCEPT ![r] = to]
    /\ UNCHANGED <<stage, worker, aborted, promise, overtaken>>

\* handleStart: the worker has its script and the start message.
Boot(r) ==
    /\ Continue(r, "boot", "open")
    /\ UNCHANGED <<duration, read, copied, shown, outbox>>

\* The input is read and the output started; the duration is known, or not.
Open(r) ==
    /\ Continue(r, "open", "copy")
    /\ \E d \in Durations[r] : duration' = [duration EXCEPT ![r] = d]
    /\ UNCHANGED <<read, copied, shown, outbox>>

\* The packet the sink hands out next, and the one it handed out last.
NextPacket(r) == Packets[r][read[r] + 1]
LastPacket(r) == Packets[r][read[r]]

\* The loop skips a packet that holds no byte.
Skip(r) ==
    /\ read[r] < Len(Packets[r])
    /\ NextPacket(r).empty
    /\ Continue(r, "copy", "copy")
    /\ read' = [read EXCEPT ![r] = @ + 1]
    /\ UNCHANGED <<duration, copied, shown, outbox>>

\* The loop gives any other packet to the output and awaits its copy.
Add(r) ==
    /\ read[r] < Len(Packets[r])
    /\ ~ NextPacket(r).empty
    /\ Continue(r, "copy", "add")
    /\ read' = [read EXCEPT ![r] = @ + 1]
    /\ UNCHANGED <<duration, copied, shown, outbox>>

\* Mutant: the percentage is capped at 100.
PercentToHundred(r, end) ==
    LET share == IF duration[r] = 0 THEN 0 ELSE (end * 100) \div duration[r]
    IN  IF share > 100 THEN 100 ELSE IF share < 0 THEN 0 ELSE share

\* Mutant: beyond the stated duration the percentage begins again.
PercentWrapped(r, end) ==
    IF duration[r] = 0 \/ end < 0 THEN 0 ELSE ((end * 100) \div duration[r]) % 100

\* Where a packet ends, as a share of the duration: floored, within 0..99.
Percent(r, end) ==
    LET share == IF duration[r] = 0 THEN 0 ELSE (end * 100) \div duration[r]
    IN  IF share > 99 THEN 99 ELSE IF share < 0 THEN 0 ELSE share

\* The packet is copied; now and then the percentage is posted if it differs
\* from the one before.  An abort is noticed at the next packet only.
Added(r) ==
    LET n == copied[r] + 1
        percent == Percent(r, LastPacket(r).end)
        due == (n = 1 \/ n % Interval = 0) /\ percent # shown[r]
    IN  /\ work[r] = "add"
        /\ work' = [work EXCEPT ![r] = "copy"]
        /\ copied' = [copied EXCEPT ![r] = n]
        /\ shown' = IF due THEN [shown EXCEPT ![r] = percent] ELSE shown
        /\ outbox' = IF due
                     THEN [outbox EXCEPT ![r] = Append(@, Extracting(r, percent))]
                     ELSE outbox
        /\ UNCHANGED <<stage, worker, duration, read, aborted, promise, overtaken>>

\* Mutant: the loop ends before the last packet.
EarlyEnd(r) == copied[r] > 0

AllCopied(r) == read[r] = Len(Packets[r]) /\ copied[r] > 0

\* No packet is left: the source is closed and the output finalized.
Finalize(r) ==
    /\ AllCopied(r)
    /\ Continue(r, "copy", "finalize")
    /\ UNCHANGED <<duration, read, copied, shown, outbox>>

\* Mutant: the result is posted first, the full progress after it.
ResultFirst(r) == <<Extracted(r), Extracting(r, 100)>>

\* Mutant: the result is not posted.
ResultMissing(r) == <<Extracting(r, 100)>>

\* What is posted when the output is final.
FinalMessages(r) == <<Extracting(r, 100), Extracted(r)>>

Finish(r) ==
    /\ Continue(r, "finalize", "done")
    /\ outbox' = [outbox EXCEPT ![r] = @ \o FinalMessages(r)]
    /\ UNCHANGED <<duration, read, copied, shown>>

\* Mediabunny fails, the file has no audio, or the abort is noticed: the error
\* is caught in the worker and nothing is posted.
Fail(r) ==
    /\ work[r] \in {"open", "copy", "add", "finalize"}
    /\ work' = [work EXCEPT ![r] = "failed"]
    /\ UNCHANGED <<stage, worker, duration, read, copied, shown, aborted, outbox, promise, overtaken>>

\* The script of the worker cannot be loaded: onerror rejects the promise.
Crash(r) ==
    /\ work[r] = "boot"
    /\ work' = [work EXCEPT ![r] = "failed"]
    /\ promise' = [promise EXCEPT ![r] = "rejected"]
    /\ UNCHANGED <<stage, worker, duration, read, copied, shown, aborted, outbox, overtaken>>

-----------------------------------------------------------------------------
(* The main thread *)

Settle(r, m) == IF m.stage = "extracted" THEN "resolved" ELSE promise[r]

\* onmessage: every worker that still posts sets the state, current or not.
Deliver(r) ==
    /\ outbox[r] # <<>>
    /\ stage' = Head(outbox[r])
    /\ outbox' = [outbox EXCEPT ![r] = Tail(@)]
    /\ promise' = [promise EXCEPT ![r] = Settle(r, Head(outbox[r]))]
    /\ UNCHANGED <<worker, work, duration, read, copied, shown, aborted, overtaken>>

Progress(r) ==
    \/ Boot(r) \/ Open(r) \/ Skip(r) \/ Add(r) \/ Added(r)
    \/ Finalize(r) \/ Finish(r) \/ Fail(r) \/ Crash(r)

Next ==
    \/ \E r \in Runs : Start(r) \/ Progress(r) \/ Deliver(r)
    \/ Reset \/ Abort

Spec == Init /\ [][Next]_vars

\* Workers run and messages arrive; the user owes nothing.
FairSpec == Spec /\ \A r \in Runs : WF_vars(Progress(r)) /\ WF_vars(Deliver(r))

-----------------------------------------------------------------------------
(* Properties *)

Message == [stage : {"extracting", "extracted"}, run : Runs, percent : 0..100]

\* Every variable holds a value of its kind.
TypeOK ==
    /\ stage = Idle \/ stage \in Message
    /\ worker \in Runs \cup {None}
    /\ work \in [Runs -> {"none", "boot", "open", "copy", "add", "finalize",
                          "done", "failed", "terminated"}]
    /\ duration \in [Runs -> Nat]
    /\ read \in [Runs -> Nat]
    /\ copied \in [Runs -> Nat]
    /\ shown \in [Runs -> -1..99]
    /\ aborted \subseteq Runs
    /\ outbox \in [Runs -> Seq(Message)]
    /\ promise \in [Runs -> {"none", "pending", "resolved", "rejected"}]
    /\ overtaken \subseteq Runs

\* "100% only after finalization succeeds" (AudioTrackDemuxer.ts): whatever
\* duration the metadata states, the page never shows it before.
HundredIsFinal ==
    \A r \in Runs : stage.run = r /\ stage.percent = 100 => work[r] \in {"done", "terminated"}

\* The first n packets of r's file that hold something.
Full(r, n) == {k \in 1..n : ~ Packets[r][k].empty}

\* A result holds every packet of its file that is not empty, and there was one.
ResultsAreWhole ==
    \A r \in Runs : promise[r] = "resolved" =>
        copied[r] = Cardinality(Full(r, Len(Packets[r]))) /\ copied[r] > 0

\* A run whose output is final and whose promise is pending has its result on
\* the way, behind all its progress: nothing else is needed for it to end.
ResultOnItsWay ==
    \A r \in Runs : work[r] = "done" /\ promise[r] = "pending" =>
        outbox[r] # <<>> /\ outbox[r][Len(outbox[r])] = Extracted(r)

\* Among the packets read from the file of r, one ends before an earlier one.
GoesBack(r) == \E j, k \in Full(r, read[r]) : j < k /\ Packets[r][k].end < Packets[r][j].end

\* The percentage shown of a run falls only if the file itself goes back:
\* neither a wrong duration nor the order in which messages arrive nor the full
\* progress after the loop makes it fall.
OnlyTheFileGoesBack ==
    [][\A r \in Runs :
          stage.run = r /\ stage'.run = r /\ stage'.percent < stage.percent => GoesBack(r)]_vars

\* Once a run has been shown as extracted, only another run or a reset
\* replaces it: no progress of its own arrives late.
NothingAfterResult ==
    [][stage.stage = "extracted" /\ stage' # stage =>
          stage' = Idle \/ stage'.run # stage.run]_vars

\* After a reset only a run whose worker a later start had replaced can come
\* back to the page.
OnlyOvertakenSurviveReset ==
    \A r \in Runs :
        promise[r] # "none" /\ worker # r /\ (Alive(r) \/ outbox[r] # <<>>) => r \in overtaken

\* A run that is neither failed nor terminated ends with its result shown.
RunsEnd ==
    \A r \in Runs : promise[r] = "pending"
        ~> promise[r] = "resolved" \/ work[r] \in {"failed", "terminated"}
=============================================================================

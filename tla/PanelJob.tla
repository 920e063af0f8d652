------------------------------ MODULE PanelJob ------------------------------
(***************************************************************************)
(* runPanelJob and spawnPanel (src/lib/aeo/job.ts): the job and result     *)
(* files of one run, the child process, its timeout and the abort signal.  *)
(* VisibilityPanel is the child.  One await is one action.                 *)
(*                                                                         *)
(* Workers share the files, which are named by the run; a container has    *)
(* one worker.  Files outlive a crash of the container, processes do not.  *)
(***************************************************************************)
EXTENDS VisibilityPanel

CONSTANTS
  MaxCalls,     \* bound on calls of runPanelJob by one worker
  MaxCrashes    \* bound on crashes

ASSUME BoundsAssumption == MaxCalls \in Nat /\ MaxCrashes \in Nat

VARIABLES
  job,      \* each worker's call of runPanelJob
  bound     \* how many calls and crashes happened

vars == <<php, inFile, outFile, job, bound>>

Ended == {"idle", "returned", "aborted", "failed"}

JobRow ==
  [pc: Ended \cup {"remove", "save", "spawn", "wait", "parse", "clean"},
   asked: SUBSET Questions, stop: {"none", "timeout", "aborted"}, aborted: BOOLEAN,
   rows: SUBSET Row]

NoCall == [pc |-> "idle", asked |-> {}, stop |-> "none", aborted |-> FALSE, rows |-> {}]

Init ==
  /\ PanelInit
  /\ job = [w \in Workers |-> NoCall]
  /\ bound = [calls |-> [w \in Workers |-> 0], crashes |-> 0]

At(w, pc) == job[w].pc = pc
GoTo(w, pc) == job' = [job EXCEPT ![w].pc = pc]
-----------------------------------------------------------------------------
(* runPanelJob *)

\* processRun asks for the questions that have no answer yet.
Call(w) ==
  /\ job[w].pc \in Ended /\ bound.calls[w] < MaxCalls
  /\ \E qs \in (SUBSET Questions) \ {{}} :
       job' = [job EXCEPT ![w] = [NoCall EXCEPT !.pc = "remove", !.asked = qs]]
  /\ bound' = [bound EXCEPT !.calls[w] = @ + 1]
  /\ UNCHANGED panelVars

RemoveStale(w) ==
  /\ At(w, "remove") /\ GoTo(w, "save")
  /\ outFile' = {}
  /\ UNCHANGED <<php, inFile, bound>>

WriteJob(w) ==
  /\ At(w, "save") /\ GoTo(w, "spawn")
  /\ inFile' = job[w].asked
  /\ UNCHANGED <<php, outFile, bound>>

\* Mutant: an abort before the listener was added is not noticed.
StopUnchecked(w) == "none"
StopAtSpawn(w) == IF job[w].aborted THEN "aborted" ELSE "none"

\* spawn, the timer and the listener, and the look at a signal that was
\* aborted before.
Spawn(w) ==
  /\ At(w, "spawn")
  /\ job' = [job EXCEPT ![w].pc = "wait", ![w].stop = StopAtSpawn(w)]
  /\ php' = [php EXCEPT ![w] = [Off EXCEPT !.pc = "load", !.signalled = StopAtSpawn(w) # "none"]]
  /\ UNCHANGED <<inFile, outFile, bound>>

\* The error event: php is not there.
SpawnFails(w) ==
  /\ "spawn" \in Faults /\ At(w, "spawn") /\ GoTo(w, "failed")
  /\ UNCHANGED <<php, inFile, outFile, bound>>

Stops(w, reason) == [job EXCEPT ![w].stop = reason]

\* stop(reason): the first reason counts.
Stop(w, reason) ==
  /\ job[w].stop = "none" /\ At(w, "wait")
  /\ php' = [php EXCEPT ![w].signalled = TRUE]
  /\ job' = Stops(w, reason)

Timeout(w) ==
  /\ Stop(w, "timeout")
  /\ UNCHANGED <<inFile, outFile, bound>>

\* A shutdown, or a heartbeat that finds the lease gone.
Abort(w) ==
  /\ job[w].pc \notin Ended /\ ~job[w].aborted
  /\ IF At(w, "wait") /\ job[w].stop = "none"
       THEN /\ php' = [php EXCEPT ![w].signalled = TRUE]
            /\ job' = [job EXCEPT ![w].aborted = TRUE, ![w].stop = "aborted"]
       ELSE job' = [job EXCEPT ![w].aborted = TRUE] /\ UNCHANGED php
  /\ UNCHANGED <<inFile, outFile, bound>>

\* The close event.
Close(w) ==
  /\ At(w, "wait") /\ PhpAt(w, "exit")
  /\ GoTo(w, CASE job[w].stop = "timeout" -> "failed"
               [] job[w].stop = "aborted" -> "aborted"
               [] job[w].stop = "none" -> IF php[w].code = 0 THEN "parse" ELSE "failed")
  /\ php' = [php EXCEPT ![w] = Off]
  /\ UNCHANGED <<inFile, outFile, bound>>

ParseResult(w) ==
  /\ At(w, "parse")
  /\ job' = IF outFile = {} THEN [job EXCEPT ![w].pc = "failed"]
                            ELSE [job EXCEPT ![w].pc = "clean", ![w].rows = outFile]
  /\ UNCHANGED <<php, inFile, outFile, bound>>

RemoveFiles(w) ==
  /\ At(w, "clean") /\ GoTo(w, "returned")
  /\ inFile' = {} /\ outFile' = {}
  /\ UNCHANGED <<php, bound>>

\* The container is killed, its processes with it; docker starts it again.
Crash(w) ==
  /\ bound.crashes < MaxCrashes /\ job[w] # NoCall
  /\ job' = [job EXCEPT ![w] = NoCall]
  /\ php' = [php EXCEPT ![w] = Off]
  /\ bound' = [bound EXCEPT !.crashes = @ + 1]
  /\ UNCHANGED <<inFile, outFile>>
-----------------------------------------------------------------------------
PanelMoves(w) == PanelStep(w) /\ UNCHANGED <<job, bound>>

JobStep(w) ==
  \/ RemoveStale(w) \/ WriteJob(w) \/ Spawn(w) \/ SpawnFails(w)
  \/ Close(w) \/ ParseResult(w) \/ RemoveFiles(w)

Next ==
  \E w \in Workers : Call(w) \/ JobStep(w) \/ Timeout(w) \/ Abort(w) \/ Crash(w) \/ PanelMoves(w)

Spec == Init /\ [][Next]_vars

\* A process runs on, and so do the engines (CURLOPT_TIMEOUT) and the clock; a
\* signalled process ends.  Nobody need abort, and no timeout need come.
FairSpec ==
  /\ Spec
  /\ \A w \in Workers :
       /\ WF_vars(JobStep(w))
       /\ WF_vars((Load(w) \/ LoadFails(w) \/ Asking(w) \/ Writing(w)) /\ UNCHANGED <<job, bound>>)
       /\ WF_vars(Respond(w) /\ UNCHANGED <<job, bound>>)
       /\ WF_vars(BackoffEnds(w) /\ UNCHANGED <<job, bound>>)
       /\ WF_vars(Killed(w) /\ UNCHANGED <<job, bound>>)
-----------------------------------------------------------------------------
(* Properties *)

TypeOK ==
  /\ php \in [Workers -> Process]
  /\ inFile \in SUBSET Questions /\ outFile \in SUBSET Row
  /\ job \in [Workers -> JobRow]

\* While runPanel asks an engine, each question is in one place: queued, in
\* flight, backed off or in a row; and no request is tried twice at once
\* (panel.php:513-583).
OnePlace ==
  \A w \in Workers : php[w].pc \in {"launch", "read"} =>
    \A q \in php[w].asked :
      Cardinality({r \in php[w].flight : r.q = q}) + Cardinality({i \in php[w].pending : i.q = q})
        + Cardinality({r \in php[w].rows : r.q = q /\ r.e = php[w].engine})
        + (IF q \in php[w].queue THEN 1 ELSE 0) = 1

\* No process outlives its call: when the call has ended, or is about to spawn,
\* nobody writes the run's files (job.ts:200-207).
NoOrphan == \A w \in Workers : php[w].pc # "off" => At(w, "wait")

\* An abort reaches the process whenever it comes, before the spawn too
\* (job.ts:187-189).
AbortIsSeen ==
  \A w \in Workers : At(w, "wait") /\ job[w].aborted /\ php[w].pc # "exit" => php[w].signalled

\* The process does what its call was told, for as long as the call lasts and
\* no longer (job.ts:186-207).
ProcessObeysItsCall == NoOrphan /\ AbortIsSeen

\* Every call ends by itself, without a timeout or an abort: runPanel gives
\* each question an answer or a recorded failure (panel.php:494-504).
EveryCallEnds == \A w \in Workers : At(w, "wait") ~> ~At(w, "wait")

\* runPanelJob returns one row for every question and engine, or fails.
Promise == INSTANCE PanelCall WITH
  phase <- [w \in Workers |-> IF job[w].pc \in Ended THEN job[w].pc ELSE "asking"],
  asked <- [w \in Workers |-> job[w].asked],
  aborted <- [w \in Workers |-> job[w].aborted],
  reply <- [w \in Workers |-> IF At(w, "returned") THEN job[w].rows ELSE {}]

ImplementsPanelCall == Promise!Spec
=============================================================================

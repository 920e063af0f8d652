------------------------------ MODULE RunQueue ------------------------------
(***************************************************************************)
(* The AEO run queue: rows of aeo_run and aeo_result in Postgres           *)
(* (src/lib/aeo/queue.ts) and the worker processes that claim runs, plan   *)
(* them, run the PHP panel and store its answers (src/worker/index.ts,     *)
(* src/lib/aeo/plan.ts, src/lib/aeo/outcome.ts).                           *)
(*                                                                         *)
(* One SQL statement or one transaction is one action; everything a worker *)
(* does between two awaits belongs to the action that precedes it.  Time   *)
(* is abstracted to what the queries ask of it: locked_at is null, "fresh" *)
(* (within the lease, or within the retry delay of a queued run) or "old". *)
(* A claim's random lease_token is the claim's number, so 0 stands for     *)
(* null and no two claims share a token.                                   *)
(***************************************************************************)
EXTENDS Naturals, FiniteSets, Functions

CONSTANTS
  Runs,         \* the runs, numbered in created_at order
  Workers,      \* worker processes
  Questions,    \* panel questions
  Plans,        \* question lists a panel can hold
  Generated,    \* runs whose panel_source is 'generated'
  Bypass,       \* runs with bypass_spend_cap (admin re-runs)
  MaxAttempts,  \* AEO_MAX_ATTEMPTS
  AskCost,      \* what one answered question costs
  GenCost,      \* what writing a generated panel costs
  Cap,          \* AEO_DAILY_SPEND_CAP_USD
  MaxStops,     \* bound on shutdown signals over a behaviour
  MaxEdits,     \* bound on panel edits over a behaviour
  Faults        \* which faults the environment may inject

AllFaults == {"crash", "kill", "dberror", "lostack"}

ASSUME RunsAssumption == Runs \subseteq (Nat \ {0}) /\ IsFiniteSet(Runs)
ASSUME PlansAssumption == Plans \subseteq ((SUBSET Questions) \ {{}}) /\ Plans # {}
ASSUME QuestionsAssumption == IsFiniteSet(Questions)
ASSUME KindAssumption == Generated \subseteq Runs /\ Bypass \subseteq Runs
ASSUME NumberAssumption ==
  /\ MaxAttempts \in Nat \ {0}
  /\ AskCost \in Nat /\ GenCost \in Nat /\ Cap \in Nat \ {0}
  /\ MaxStops \in Nat /\ MaxEdits \in Nat
ASSUME FaultAssumption == Faults \subseteq AllFaults

VARIABLES
  row,       \* aeo_run: one record per run
  result,    \* aeo_result: the stored rows of each run
  panel,     \* the questions of the canned panel, as last saved by an admin
  job,       \* each worker's position and local variables
  stopping,  \* each worker's shutdown.signal.aborted
  claims,    \* claims made so far: the source of fresh lease tokens
  hist,      \* observations no code reads: spend billed, alerts sent, ...
  bound      \* how many stops and edits happened

vars == <<row, result, panel, job, stopping, claims, hist, bound>>
-----------------------------------------------------------------------------
(* Types *)

RunStatus == {"queued", "running", "done", "failed"}
NoPlan == {}
ErrorKinds == {"none", "unanswered", "attempt", "permanent", "abandoned"}

RunRow ==
  [status: RunStatus, attempts: 0..MaxAttempts, lease: Nat,
   locked: {"null", "fresh", "old"}, started: {"never", "today", "earlier"},
   cost: Nat, panel: Plans \cup {NoPlan}, plan: Plans \cup {NoPlan},
   count: Nat, error: ErrorKinds]

ResultRow == [q: Questions, ok: BOOLEAN, lease: Nat]

WorkerPc == {"stopped", "sweep", "spend", "claim", "plan", "generate",
             "answered", "panel", "store", "fail", "release"}

JobRecord ==
  [pc: WorkerPc, run: Runs \cup {0}, token: Nat, attempt: 0..MaxAttempts,
   over: BOOLEAN, plan: Plans \cup {NoPlan}, known: SUBSET Questions,
   rows: SUBSET ResultRow, cost: Nat, permanent: BOOLEAN, caught: BOOLEAN,
   aborted: BOOLEAN, alerts: SUBSET Runs]

HistRecord == [billed: Nat, ended: Nat, alerts: Nat]

\* The inside of processRun, where the heartbeat timer is set.
Working == {"plan", "generate", "answered", "panel", "store", "fail", "release"}

\* The local variables of a worker at the top of its loop.
AtTop ==
  [pc |-> "sweep", run |-> 0, token |-> 0, attempt |-> 0, over |-> FALSE,
   plan |-> NoPlan, known |-> {}, rows |-> {}, cost |-> 0, permanent |-> FALSE,
   caught |-> FALSE, aborted |-> FALSE, alerts |-> {}]

Down == [AtTop EXCEPT !.pc = "stopped"]

NewRow ==
  [status |-> "queued", attempts |-> 0, lease |-> 0, locked |-> "null",
   started |-> "never", cost |-> 0, panel |-> NoPlan, plan |-> NoPlan,
   count |-> 0, error |-> "none"]

Init ==
  /\ row = [r \in Runs |-> NewRow]
  /\ result = [r \in Runs |-> {}]
  /\ panel \in Plans
  /\ job = [w \in Workers |-> AtTop]
  /\ stopping = [w \in Workers |-> FALSE]
  /\ claims = 0
  /\ hist = [r \in Runs |-> [billed |-> 0, ended |-> 0, alerts |-> 0]]
  /\ bound = [stops |-> 0, edits |-> 0]
-----------------------------------------------------------------------------
(* Helpers *)

At(w, pc) == job[w].pc = pc /\ job[w].alerts = {}

\* Worker w holds the lease of run r: lockRun finds its row.
Holds(w, r) ==
  /\ job[w].pc \in Working
  /\ job[w].run = r
  /\ row[r].lease = job[w].token
  /\ row[r].status = "running"

\* lockRun: token and status, under FOR UPDATE.
LockRunStatusOnly(w) == row[job[w].run].status = "running"   \* mutant
LockRun(w) == Holds(w, job[w].run)

\* The guard of failAttempt, releaseRun and addRunCost: the token alone.
TokenUnchecked(w) == TRUE                                    \* mutant
TokenMatches(w) == row[job[w].run].lease = job[w].token

Answered(rows) == {x.q : x \in {y \in rows : y.ok}}

Spent == SumFunctionOnSet([r \in Runs |-> row[r].cost],
                          {r \in Runs : row[r].started = "today"})

OverCapOffByOne == Spent > Cap                               \* mutant
OverCap == Spent >= Cap

ToAsk(w) == job[w].plan \ job[w].known

\* decideOutcome
DecideOutcome(total, answered, attempt) ==
  IF total > 0 /\ answered >= total THEN "complete"
  ELSE IF attempt < MaxAttempts THEN "retry"
  ELSE IF answered > 0 /\ answered * 2 >= total THEN "complete" ELSE "fail"

Outcome(w) ==
  DecideOutcome(Cardinality(job[w].plan),
                Cardinality(job[w].plan \cap (job[w].known \cup Answered(job[w].rows))),
                job[w].attempt)

\* replaceRows: errored rows and rows outside the plan go, the new rows come.
ReplaceEveryRow(old, rows, plan) == rows                     \* mutant
ReplaceErrorsOnly(old, rows, plan) == {x \in old : x.ok} \cup rows  \* mutant
ReplaceRows(old, rows, plan) == {x \in old : x.ok /\ x.q \in plan} \cup rows

Goto(w, pc) == job' = [job EXCEPT ![w].pc = pc]
BackToTop(w, failed) == job' = [job EXCEPT ![w] = [AtTop EXCEPT !.alerts = failed]]
Bill(r, n) == hist' = [hist EXCEPT ![r].billed = @ + n]
-----------------------------------------------------------------------------
(* tick: sweep abandoned runs, read today's spend, claim *)

\* sweepAbandoned
NeverAbandoned(r) == FALSE                                   \* mutant
Abandoned(r) ==
  /\ row[r].status = "running"
  /\ row[r].attempts >= MaxAttempts
  /\ row[r].locked = "old"

SweepAbandoned(w) ==
  /\ At(w, "sweep") /\ ~stopping[w]
  /\ row' = [r \in Runs |->
               IF Abandoned(r)
               THEN [row[r] EXCEPT !.status = "failed", !.error = "abandoned",
                                   !.lease = 0, !.locked = "null"]
               ELSE row[r]]
  /\ job' = [job EXCEPT ![w].pc = "spend",
                        ![w].alerts = {r \in Runs : Abandoned(r)}]
  /\ UNCHANGED <<result, panel, stopping, claims, hist, bound>>

\* alertRunFailed: best effort, an error is only logged.
AlertRunFailed(w, r) ==
  /\ r \in job[w].alerts
  /\ job' = [job EXCEPT ![w].alerts = @ \ {r}]
  /\ hist' = [hist EXCEPT ![r].alerts = @ + 1]
  /\ UNCHANGED <<row, result, panel, stopping, claims, bound>>

\* spentTodayUsd
ReadSpend(w) ==
  /\ At(w, "spend")
  /\ \E over \in BOOLEAN :
       /\ over <=> OverCap
       /\ job' = [job EXCEPT ![w].pc = "claim", ![w].over = over]
  /\ UNCHANGED <<row, result, panel, stopping, claims, hist, bound>>

RunnableWithoutLimit(r, over) ==                             \* mutant
  /\ over => r \in Bypass
  /\ \/ row[r].status = "queued" /\ row[r].locked # "fresh"
     \/ row[r].status = "running" /\ row[r].locked = "old"
Runnable(r, over) ==
  /\ row[r].attempts < MaxAttempts
  /\ over => r \in Bypass
  /\ \/ row[r].status = "queued" /\ row[r].locked # "fresh"
     \/ row[r].status = "running" /\ row[r].locked = "old"

\* SKIP LOCKED passes over a row another live worker's statement has locked.
Skippable(w, r) == \E v \in Workers \ {w} : Holds(v, r)

NextRun(w, r) ==
  /\ Runnable(r, job[w].over)
  /\ \A s \in Runs : s < r /\ Runnable(s, job[w].over) => Skippable(w, s)

ClaimRowOldToken(r) ==                                       \* mutant
  /\ UNCHANGED claims
  /\ row' = [row EXCEPT ![r].status = "running", ![r].attempts = @ + 1,
                        ![r].locked = "fresh", ![r].lease = claims + 1]
ClaimRow(r) ==
  /\ claims' = claims + 1
  /\ row' = [row EXCEPT ![r].status = "running", ![r].attempts = @ + 1,
                        ![r].locked = "fresh", ![r].lease = claims + 1,
                        ![r].started = IF @ = "never" THEN "today" ELSE @]

ClaimNextRun(w) ==
  /\ At(w, "claim")
  /\ \E r \in Runs :
       /\ NextRun(w, r)
       /\ ClaimRow(r)
       /\ job' = [job EXCEPT ![w] =
                    [AtTop EXCEPT !.pc = "plan", !.run = r, !.token = claims + 1,
                                  !.attempt = row[r].attempts + 1]]
  /\ UNCHANGED <<result, panel, stopping, hist, bound>>

\* Nothing to claim: idle, or over the cap; the loop sleeps and starts over.
NothingToClaim(w) ==
  /\ At(w, "claim")
  /\ \A r \in Runs : Runnable(r, job[w].over) => Skippable(w, r)
  /\ BackToTop(w, {})
  /\ UNCHANGED <<row, result, panel, stopping, claims, hist, bound>>
-----------------------------------------------------------------------------
(* processRun: heartbeat, plan, read what is answered, run the panel *)

\* heartbeat, from the interval timer: refresh, or abort the job if it was lost.
Heartbeat(w) ==
  /\ job[w].pc \in Working
  /\ IF Holds(w, job[w].run)
     THEN /\ row' = [row EXCEPT ![job[w].run].locked = "fresh"]
          /\ UNCHANGED job
     ELSE /\ job' = [job EXCEPT ![w].aborted = TRUE]
          /\ UNCHANGED row
  /\ UNCHANGED <<result, panel, stopping, claims, hist, bound>>

\* generatedPanel ?? generateForRun
AlwaysGenerates(r) == r \in Generated                        \* mutant
NeedsPanel(r) == r \in Generated /\ row[r].panel = NoPlan

\* planRun: a canned panel as it reads now, or the run's stored generated one.
PlanRun(w) ==
  /\ At(w, "plan")
  /\ LET r == job[w].run IN
     \/ /\ NeedsPanel(r)
        /\ Goto(w, "generate")
     \/ /\ r \in Generated /\ ~NeedsPanel(r)
        /\ job' = [job EXCEPT ![w].pc = "answered", ![w].plan = row[r].panel]
     \/ /\ r \notin Generated
        /\ job' = [job EXCEPT ![w].pc = "answered", ![w].plan = panel]
  /\ UNCHANGED <<row, result, panel, stopping, claims, hist, bound>>

\* planRun throws: a PermanentRunError, or any other error.
PlanFails(w) ==
  /\ At(w, "plan")
  /\ \E permanent \in BOOLEAN :
       job' = [job EXCEPT ![w].pc = "fail", ![w].permanent = permanent,
                          ![w].caught = TRUE]
  /\ UNCHANGED <<row, result, panel, stopping, claims, hist, bound>>

\* generateForRun: the panel is stored only while the lease is held.
GenerateForRun(w) ==
  /\ At(w, "generate")
  /\ LET r == job[w].run IN
     /\ IF Holds(w, r)
        THEN \E plan \in Plans :
               /\ row' = [row EXCEPT ![r].panel = plan, ![r].cost = @ + GenCost]
               /\ job' = [job EXCEPT ![w].pc = "answered", ![w].plan = plan]
        ELSE BackToTop(w, {}) /\ UNCHANGED row
     /\ Bill(r, GenCost)
  /\ UNCHANGED <<result, panel, stopping, claims, bound>>

\* generatePanel throws; what it spent is added under the token (addRunCost).
GenerateFails(w) ==
  /\ At(w, "generate")
  /\ \E spend \in {0, GenCost} :
       /\ IF TokenMatches(w)
          THEN row' = [row EXCEPT ![job[w].run].cost = @ + spend]
          ELSE UNCHANGED row
       /\ Bill(job[w].run, spend)
  /\ job' = [job EXCEPT ![w].pc = "fail", ![w].caught = TRUE]
  /\ UNCHANGED <<result, panel, stopping, claims, bound>>

\* answeredQueries, and the filter of the plan by it
ReadAnswered(w) ==
  /\ At(w, "answered")
  /\ LET known == Answered(result[job[w].run]) IN
       job' = [job EXCEPT ![w].known = known, ![w].rows = {},
                          ![w].pc = IF job[w].plan \subseteq known
                                    THEN "store" ELSE "panel"]
  /\ UNCHANGED <<row, result, panel, stopping, claims, hist, bound>>

\* runPanelJob returns: some questions answered, the others errored.
PanelReturns(w) ==
  /\ At(w, "panel") /\ ~job[w].aborted
  /\ \E good \in SUBSET ToAsk(w) :
       LET rows == {[q |-> q, ok |-> q \in good, lease |-> job[w].token] : q \in ToAsk(w)}
           cost == AskCost * Cardinality(good)
       IN /\ job' = [job EXCEPT ![w].pc = "store", ![w].rows = rows, ![w].cost = cost]
          /\ Bill(job[w].run, cost)
  /\ UNCHANGED <<row, result, panel, stopping, claims, bound>>

\* Timeout, crash or unreadable output of the panel; exit code 2 is permanent
\* and comes before any question is asked.
PanelFails(w) ==
  /\ At(w, "panel")
  /\ \E permanent \in BOOLEAN, n \in 0..Cardinality(ToAsk(w)) :
       /\ permanent => n = 0
       /\ job' = [job EXCEPT ![w].pc = "fail", ![w].permanent = permanent,
                             ![w].caught = TRUE]
       /\ Bill(job[w].run, AskCost * n)
  /\ UNCHANGED <<row, result, panel, stopping, claims, bound>>

\* The abort signal stopped the panel: give the run back on shutdown, else the
\* lease was lost and nothing is written.
PanelAborted(w) ==
  /\ At(w, "panel") /\ job[w].aborted
  /\ IF stopping[w] THEN Goto(w, "release") ELSE BackToTop(w, {})
  /\ \E n \in 0..Cardinality(ToAsk(w)) : Bill(job[w].run, AskCost * n)
  /\ UNCHANGED <<row, result, panel, stopping, claims, bound>>
-----------------------------------------------------------------------------
(* processRun: store the outcome *)

\* What completeRun's transaction writes.
WriteCompleteKeepsLease(w) ==                                \* mutant
  LET r == job[w].run
      rows == ReplaceRows(result[r], job[w].rows, job[w].plan)
  IN /\ result' = [result EXCEPT ![r] = rows]
     /\ row' = [row EXCEPT ![r].status = "done", ![r].error = "none",
                           ![r].count = Cardinality(Answered(rows)),
                           ![r].cost = @ + job[w].cost, ![r].plan = job[w].plan]
WriteComplete(w) ==
  LET r == job[w].run
      rows == ReplaceRows(result[r], job[w].rows, job[w].plan)
  IN /\ result' = [result EXCEPT ![r] = rows]
     /\ row' = [row EXCEPT ![r].status = "done", ![r].error = "none",
                           ![r].count = Cardinality(Answered(rows)),
                           ![r].cost = @ + job[w].cost, ![r].plan = job[w].plan,
                           ![r].lease = 0, ![r].locked = "null"]

\* What saveProgress's transaction writes.
WriteProgress(w) ==
  LET r == job[w].run IN
  /\ result' = [result EXCEPT ![r] =
                  ReplaceRows(@, {x \in job[w].rows : x.ok}, job[w].plan)]
  /\ row' = [row EXCEPT ![r].cost = @ + job[w].cost]

\* lockRun threw LeaseLostError.
StoreLost(w) ==
  /\ ~LockRun(w)
  /\ BackToTop(w, {})
  /\ UNCHANGED <<row, result>>

CompleteRun(w) ==
  /\ At(w, "store") /\ Outcome(w) = "complete"
  /\ \/ StoreLost(w)
     \/ /\ LockRun(w)
        /\ WriteComplete(w)
        /\ BackToTop(w, {})
  /\ UNCHANGED <<panel, stopping, claims, hist, bound>>

ProgressSavedKeepsCost(w) ==                                 \* mutant
  job' = [job EXCEPT ![w].pc = "fail", ![w].permanent = (Outcome(w) = "fail")]
ProgressSaved(w) ==
  job' = [job EXCEPT ![w].pc = "fail", ![w].cost = 0,
                     ![w].permanent = (Outcome(w) = "fail")]

SaveProgress(w) ==
  /\ At(w, "store") /\ Outcome(w) # "complete"
  /\ \/ StoreLost(w)
     \/ /\ LockRun(w)
        /\ WriteProgress(w)
        /\ ProgressSaved(w)
  /\ UNCHANGED <<panel, stopping, claims, hist, bound>>

\* The class of message failAttempt stores.
FailureKind(w) ==
  IF ~job[w].caught THEN "unanswered"
  ELSE IF job[w].permanent THEN "permanent" ELSE "attempt"

FinalOffByOne(w) ==                                          \* mutant
  job[w].permanent \/ row[job[w].run].attempts > MaxAttempts
Final(w) == job[w].permanent \/ row[job[w].run].attempts >= MaxAttempts

\* What failAttempt's update writes.
WriteFailure(w) ==
  LET r == job[w].run IN
  /\ row' = [row EXCEPT ![r].status = IF Final(w) THEN "failed" ELSE "queued",
                        ![r].error = FailureKind(w), ![r].cost = @ + job[w].cost,
                        ![r].lease = 0, ![r].locked = "fresh"]
  /\ hist' = [hist EXCEPT ![r].ended = @ + 1]

FailAttempt(w) ==
  /\ At(w, "fail")
  /\ IF TokenMatches(w)
     THEN /\ WriteFailure(w)
          /\ BackToTop(w, IF Final(w) THEN {job[w].run} ELSE {})
     ELSE BackToTop(w, {}) /\ UNCHANGED <<row, hist>>
  /\ UNCHANGED <<result, panel, stopping, claims, bound>>

\* What releaseRun's update writes: the attempt is refunded.
WriteReleaseKeepsLease(r) ==                                 \* mutant
  row' = [row EXCEPT ![r].status = "queued", ![r].locked = "null",
                     ![r].attempts = IF @ > 0 THEN @ - 1 ELSE 0]
WriteRelease(r) ==
  row' = [row EXCEPT ![r].status = "queued", ![r].locked = "null", ![r].lease = 0,
                     ![r].attempts = IF @ > 0 THEN @ - 1 ELSE 0]

ReleaseRun(w) ==
  /\ At(w, "release")
  /\ IF TokenMatches(w) THEN WriteRelease(job[w].run) ELSE UNCHANGED row
  /\ BackToTop(w, {})
  /\ UNCHANGED <<result, panel, stopping, claims, hist, bound>>
-----------------------------------------------------------------------------
(* Database errors *)

\* An error in tick itself reaches main, which backs off and starts over.  It
\* leaves the same state wherever in tick it strikes.
TickError(w) ==
  /\ "dberror" \in Faults
  /\ At(w, "claim")
  /\ BackToTop(w, {})
  /\ UNCHANGED <<row, result, panel, stopping, claims, hist, bound>>

\* The claim committed but its answer never arrived: a run nobody works on.
ClaimUnseen(w) ==
  /\ "lostack" \in Faults
  /\ At(w, "claim")
  /\ \E r \in Runs : NextRun(w, r) /\ ClaimRow(r)
  /\ BackToTop(w, {})
  /\ UNCHANGED <<result, panel, stopping, hist, bound>>

\* Inside the try block any error becomes a failed attempt; one thrown by the
\* catch block leaves processRun, and the lease to expire.
ErrorCaught(w) ==
  IF job[w].caught \/ job[w].pc = "release"
  THEN BackToTop(w, {})
  ELSE job' = [job EXCEPT ![w].pc = "fail", ![w].permanent = FALSE, ![w].caught = TRUE]

RunError(w) ==
  /\ "dberror" \in Faults
  /\ job[w].pc \in {"generate", "answered", "store", "fail", "release"}
  /\ job[w].alerts = {}
  /\ ErrorCaught(w)
  /\ UNCHANGED <<row, result, panel, stopping, claims, hist, bound>>

\* A write that committed, reported as an error.
StoreUnseen(w) ==
  /\ "lostack" \in Faults
  /\ At(w, "store") /\ LockRun(w)
  /\ IF Outcome(w) = "complete" THEN WriteComplete(w) ELSE WriteProgress(w)
  /\ ErrorCaught(w)
  /\ UNCHANGED <<panel, stopping, claims, hist, bound>>

FailureUnseen(w) ==
  /\ "lostack" \in Faults
  /\ At(w, "fail") /\ TokenMatches(w)
  /\ WriteFailure(w)
  /\ ErrorCaught(w)
  /\ UNCHANGED <<result, panel, stopping, claims, bound>>
-----------------------------------------------------------------------------
(* Processes, the clock and the admin *)

\* SIGTERM.  processRun's listener only fires if it was registered before the
\* signal, that is while a run is being worked on.
ShutdownRequested(w) ==
  /\ job[w].pc # "stopped" /\ ~stopping[w]
  /\ bound.stops < MaxStops
  /\ bound' = [bound EXCEPT !.stops = @ + 1]
  /\ stopping' = [stopping EXCEPT ![w] = TRUE]
  /\ job' = [job EXCEPT ![w].aborted = (job[w].pc \in Working)]
  /\ UNCHANGED <<row, result, panel, claims, hist>>

\* The loop ends once the signal is seen at its top.
WorkerStops(w) ==
  /\ At(w, "sweep") /\ stopping[w]
  /\ job' = [job EXCEPT ![w] = Down]
  /\ stopping' = [stopping EXCEPT ![w] = FALSE]
  /\ UNCHANGED <<row, result, panel, claims, hist, bound>>

Dies(w) ==
  /\ job' = [job EXCEPT ![w] = Down]
  /\ stopping' = [stopping EXCEPT ![w] = FALSE]
  /\ UNCHANGED <<row, result, panel, claims, hist, bound>>

\* Power, out-of-memory, an unhandled error.  A worker between runs with nothing
\* to alert keeps nothing a restart would lose.
Crash(w) ==
  /\ "crash" \in Faults
  /\ job[w].pc \in Working \/ job[w].alerts # {}
  /\ Dies(w)

\* Docker kills a stopping container after stop_grace_period.  A worker whose job
\* was aborted is done long before; one that never heard of the signal is not.
KilledAfterGrace(w) ==
  /\ "kill" \in Faults
  /\ stopping[w] /\ job[w].pc = "panel" /\ ~job[w].aborted
  /\ Dies(w)

\* restart: unless-stopped
Restart(w) ==
  /\ job[w].pc = "stopped"
  /\ job' = [job EXCEPT ![w] = AtTop]
  /\ UNCHANGED <<row, result, panel, stopping, claims, hist, bound>>

\* Time passes the lease of a running run, or the retry delay of a queued one.
TimePasses(r) ==
  /\ row[r].status \in {"queued", "running"} /\ row[r].locked = "fresh"
  /\ row' = [row EXCEPT ![r].locked = "old"]
  /\ UNCHANGED <<result, panel, job, stopping, claims, hist, bound>>

\* date_trunc('day', now()) moves on.
Midnight ==
  /\ \E r \in Runs : row[r].started = "today"
  /\ row' = [r \in Runs |-> IF row[r].started = "today"
                            THEN [row[r] EXCEPT !.started = "earlier"] ELSE row[r]]
  /\ UNCHANGED <<result, panel, job, stopping, claims, hist, bound>>

\* savePanelEdit: an admin replaces the canned panel's questions.
EditPanel ==
  /\ bound.edits < MaxEdits
  /\ bound' = [bound EXCEPT !.edits = @ + 1]
  /\ panel' \in Plans \ {panel}
  /\ UNCHANGED <<row, result, job, stopping, claims, hist>>
-----------------------------------------------------------------------------
Tick(w) ==
  \/ SweepAbandoned(w) \/ \E r \in Runs : AlertRunFailed(w, r)
  \/ ReadSpend(w) \/ ClaimNextRun(w) \/ NothingToClaim(w)

ProcessRun(w) ==
  \/ PlanRun(w) \/ PlanFails(w) \/ GenerateForRun(w) \/ GenerateFails(w)
  \/ ReadAnswered(w) \/ PanelReturns(w) \/ PanelFails(w) \/ PanelAborted(w)
  \/ CompleteRun(w) \/ SaveProgress(w) \/ FailAttempt(w) \/ ReleaseRun(w)

DatabaseError(w) ==
  TickError(w) \/ ClaimUnseen(w) \/ RunError(w) \/ StoreUnseen(w) \/ FailureUnseen(w)

Process(w) ==
  \/ ShutdownRequested(w) \/ WorkerStops(w) \/ Crash(w) \/ KilledAfterGrace(w)
  \/ Restart(w)

Next ==
  \/ \E w \in Workers : \/ Tick(w) \/ ProcessRun(w) \/ Heartbeat(w)
                         \/ DatabaseError(w) \/ Process(w)
  \/ \E r \in Runs : TimePasses(r)
  \/ Midnight
  \/ EditPanel

Spec == Init /\ [][Next]_vars

\* Workers keep taking steps (every call they make has a timeout) and containers
\* are restarted; time passes a lease nobody refreshes; days end; a poll that
\* finds work again and again is answered by the database at last.
Fairness ==
  /\ \A w \in Workers :
       /\ WF_vars(Tick(w) \/ ProcessRun(w) \/ WorkerStops(w) \/ Restart(w))
       /\ SF_vars(ClaimNextRun(w))
  /\ \A r \in Runs : WF_vars(TimePasses(r) /\ \A w \in Workers : ~Holds(w, r))
  /\ WF_vars(Midnight)

FairSpec == Spec /\ Fairness
-----------------------------------------------------------------------------
(* Properties *)

TypeOK ==
  /\ row \in [Runs -> RunRow]
  /\ result \in [Runs -> SUBSET ResultRow]
  /\ panel \in Plans
  /\ job \in [Workers -> JobRecord]
  /\ stopping \in [Workers -> BOOLEAN]
  /\ claims \in Nat
  /\ hist \in [Runs -> HistRecord]
  /\ bound \in [stops: Nat, edits: Nat]

\* failAttempt, releaseRun and addRunCost check the token and not the status, so
\* a run must carry a token exactly while it is running.
LeaseIffRunning == \A r \in Runs : row[r].lease # 0 <=> row[r].status = "running"

\* However leases expire and runs are reclaimed, two workers never both hold one.
OneHolder ==
  \A r \in Runs : \A v, w \in Workers : Holds(v, r) /\ Holds(w, r) => v = w

\* A retried, reclaimed or contested run never stores two rows for a question.
OneRowPerQuestion ==
  \A r \in Runs : \A x, y \in result[r] : x.q = y.q => x = y

\* A finished report counts exactly the answers stored for it, all to questions
\* of the plan it was finished with, and they are at least half of that plan.
DoneReportIsSound ==
  \A r \in Runs : row[r].status = "done" =>
    /\ row[r].count = Cardinality(Answered(result[r]))
    /\ {x.q : x \in result[r]} \subseteq row[r].plan
    /\ row[r].count > 0 /\ row[r].count * 2 >= Cardinality(row[r].plan)

\* Refunds never forgive an attempt that failed by itself: each failure recorded
\* has used up one attempt, and a running run has one in hand.
FailuresArePaidFor ==
  \A r \in Runs :
    /\ hist[r].ended <= row[r].attempts
    /\ row[r].status = "running" => hist[r].ended < row[r].attempts

\* The admin hears of a run at most once, and only of one that failed for good.
AlertsAreTrueAndSingle ==
  \A r \in Runs : hist[r].alerts <= 1 /\ (hist[r].alerts = 1 => row[r].status = "failed")

\* The cost stored on a run, over all its attempts, is never more than was billed.
CostNeverOverstated == \A r \in Runs : row[r].cost <= hist[r].billed

\* A finished or failed run never changes again, nor do its stored answers.
TerminalIsFinal ==
  [][\A r \in Runs : row[r].status \in {"done", "failed"} =>
       /\ row'[r].status = row[r].status /\ row'[r].attempts = row[r].attempts
       /\ row'[r].count = row[r].count /\ row'[r].cost = row[r].cost
       /\ result'[r] = result[r]]_vars

\* An answer that is stored stays through retries, reclaims and lost leases,
\* unless the worker that holds the run plans without its question.
AnswersKept ==
  [][\A r \in Runs : \A x \in result[r] :
       x.ok /\ x \notin result'[r] =>
         \E w \in Workers : Holds(w, r) /\ x.q \notin job[w].plan]_vars

\* A generated panel is written once: every retry asks the same questions.
KeepsGeneratedPanels == \A r \in Runs : row[r].panel # NoPlan => row'[r].panel = row[r].panel
GeneratedPanelIsKept == [][KeepsGeneratedPanels]_vars

\* Over the daily cap only re-runs that bypass it are started.
StartsWithinCap ==
  \A r \in Runs : row'[r].attempts > row[r].attempts => r \in Bypass \/ ~(Spent >= Cap)
CapHoldsAtClaim == [][StartsWithinCap]_vars

\* The queue implements the lifecycle its header promises: only the holder of a
\* running run stores answers or ends it, each claim has a holder of its own, the
\* last attempt is never retried, and done and failed are final.
Lifecycle ==
  INSTANCE RunLifecycle
    WITH status <- [r \in Runs |-> row[r].status],
         attempts <- [r \in Runs |-> row[r].attempts],
         holder <- [r \in Runs |-> row[r].lease],
         answered <- [r \in Runs |-> Answered(result[r])],
         issued <- claims

ImplementsLifecycle == Lifecycle!Spec

\* An interrupted attempt is refunded: apart from the one under way, attempts used
\* are attempts that ended by themselves.
InterruptionsAreRefunded ==
  \A r \in Runs :
    row[r].attempts <= hist[r].ended + (IF row[r].status \in {"running", "done"} THEN 1 ELSE 0)

\* Every run ends as a report or as a failure.
EveryRunSettles == \A r \in Runs : <>(row[r].status \in {"done", "failed"})
-----------------------------------------------------------------------------
(* What makes the safety properties inductive *)

\* A worker inside processRun works on a run under a token that was issued.
WorkersHoldClaims ==
  \A w \in Workers : job[w].pc \in Working =>
    job[w].run \in Runs /\ job[w].token \in 1..claims /\ job[w].attempt \in 1..MaxAttempts

\* No two workers were ever given the same token.
TokensDiffer ==
  \A v, w \in Workers :
    job[v].pc \in Working /\ job[w].pc \in Working /\ job[v].token = job[w].token => v = w

LeasesIssued == \A r \in Runs : row[r].lease <= claims

\* From answeredQueries to the storing transaction, what a holder knows stays true.
HolderKnowsAnswers ==
  \A w \in Workers :
    job[w].pc \in {"panel", "store"} /\ Holds(w, job[w].run) =>
      job[w].known = Answered(result[job[w].run])

\* A panel result has one row for each question that was asked, and no other.
RowsWereAsked ==
  \A w \in Workers : job[w].pc = "store" =>
    /\ \A x \in job[w].rows : x.q \in job[w].plan /\ x.q \notin job[w].known
    /\ \A x, y \in job[w].rows : x.q = y.q => x = y

\* Only a finished report keeps the rows of unanswered questions.
UnfinishedRowsAreAnswers ==
  \A r \in Runs : row[r].status # "done" => \A x \in result[r] : x.ok

\* An alert still to be sent is about a failed run, and is the only one about it.
PendingAlertsAreFirst ==
  \A w \in Workers : \A r \in job[w].alerts :
    /\ row[r].status = "failed" /\ hist[r].alerts = 0
    /\ \A v \in Workers : r \in job[v].alerts => v = w

\* What a holder has still to add to the cost of its run was billed beside what the
\* run already shows.
CostIsCovered ==
  \A w \in Workers : job[w].pc \in Working /\ TokenMatches(w) =>
    row[job[w].run].cost + job[w].cost <= hist[job[w].run].billed

\* A holder that is about to write a panel holds a run that has none.
PanelIsMissing ==
  \A w \in Workers : job[w].pc = "generate" /\ Holds(w, job[w].run) =>
    row[job[w].run].panel = NoPlan

\* With a single worker nothing is spent between its reading of the spend and its
\* claim: what it was told still holds.
SpendIsFresh ==
  \A w \in Workers : job[w].pc = "claim" /\ ~job[w].over => ~(Spent >= Cap)

\* The inductive invariant: it holds at first, and every step preserves it.
IInv ==
  /\ TypeOK /\ WorkersHoldClaims /\ TokensDiffer /\ LeasesIssued /\ LeaseIffRunning
  /\ FailuresArePaidFor /\ HolderKnowsAnswers /\ RowsWereAsked
  /\ UnfinishedRowsAreAnswers /\ OneRowPerQuestion
  /\ PendingAlertsAreFirst /\ AlertsAreTrueAndSingle
=============================================================================

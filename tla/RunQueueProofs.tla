--------------------------- MODULE RunQueueProofs ---------------------------
(***************************************************************************)
(* Proofs about the run queue, for any number of workers, runs, questions  *)
(* and attempts, and, but for two theorems, for every fault there is.      *)
(*                                                                         *)
(* The argument: a step is one move of at most one worker (WorkerMoves)    *)
(* and one move of each run (RunMoves), of which all but the sweep and     *)
(* midnight leave the other runs alone (OthersStay).  Invariants and the   *)
(* refinement are then proved of the moves, not of thirty actions again.   *)
(*                                                                         *)
(* What is said of the money needs two things the code relies on: that the *)
(* database acknowledges the writes it makes (CostsWereBilled), and, for   *)
(* the daily cap, that one worker runs, as in docker-compose (CapIsKept).  *)
(***************************************************************************)
EXTENDS RunQueue, FiniteSetTheorems, TLAPS

-----------------------------------------------------------------------------
(* Storing a value of its type in one column keeps a table well typed. *)

LEMMA RowFields ==
  ASSUME NEW f \in [Runs -> RunRow], NEW r \in Runs
  PROVE  /\ \A v \in RunStatus : [f EXCEPT ![r].status = v] \in [Runs -> RunRow]
         /\ \A v \in 0..MaxAttempts : [f EXCEPT ![r].attempts = v] \in [Runs -> RunRow]
         /\ \A v \in Nat : [f EXCEPT ![r].lease = v] \in [Runs -> RunRow]
         /\ \A v \in {"null", "fresh", "old"} : [f EXCEPT ![r].locked = v] \in [Runs -> RunRow]
         /\ \A v \in {"never", "today", "earlier"} : [f EXCEPT ![r].started = v] \in [Runs -> RunRow]
         /\ \A v \in Nat : [f EXCEPT ![r].cost = v] \in [Runs -> RunRow]
         /\ \A v \in Plans \cup {NoPlan} : [f EXCEPT ![r].panel = v] \in [Runs -> RunRow]
         /\ \A v \in Plans \cup {NoPlan} : [f EXCEPT ![r].plan = v] \in [Runs -> RunRow]
         /\ \A v \in Nat : [f EXCEPT ![r].count = v] \in [Runs -> RunRow]
         /\ \A v \in ErrorKinds : [f EXCEPT ![r].error = v] \in [Runs -> RunRow]
BY DEF RunRow

LEMMA RowRecordFields ==
  ASSUME NEW x \in RunRow
  PROVE  /\ \A v \in RunStatus : [x EXCEPT !.status = v] \in RunRow
         /\ \A v \in Nat : [x EXCEPT !.lease = v] \in RunRow
         /\ \A v \in {"null", "fresh", "old"} : [x EXCEPT !.locked = v] \in RunRow
         /\ \A v \in {"never", "today", "earlier"} : [x EXCEPT !.started = v] \in RunRow
         /\ \A v \in ErrorKinds : [x EXCEPT !.error = v] \in RunRow
BY DEF RunRow

LEMMA JobFields ==
  ASSUME NEW f \in [Workers -> JobRecord], NEW w \in Workers
  PROVE  /\ \A v \in WorkerPc : [f EXCEPT ![w].pc = v] \in [Workers -> JobRecord]
         /\ \A v \in BOOLEAN : [f EXCEPT ![w].over = v] \in [Workers -> JobRecord]
         /\ \A v \in Plans \cup {NoPlan} : [f EXCEPT ![w].plan = v] \in [Workers -> JobRecord]
         /\ \A v \in SUBSET Questions : [f EXCEPT ![w].known = v] \in [Workers -> JobRecord]
         /\ \A v \in SUBSET ResultRow : [f EXCEPT ![w].rows = v] \in [Workers -> JobRecord]
         /\ \A v \in Nat : [f EXCEPT ![w].cost = v] \in [Workers -> JobRecord]
         /\ \A v \in BOOLEAN : [f EXCEPT ![w].permanent = v] \in [Workers -> JobRecord]
         /\ \A v \in BOOLEAN : [f EXCEPT ![w].caught = v] \in [Workers -> JobRecord]
         /\ \A v \in BOOLEAN : [f EXCEPT ![w].aborted = v] \in [Workers -> JobRecord]
         /\ \A v \in SUBSET Runs : [f EXCEPT ![w].alerts = v] \in [Workers -> JobRecord]
         /\ \A v \in JobRecord : [f EXCEPT ![w] = v] \in [Workers -> JobRecord]
<1>1. \A v \in WorkerPc : [f EXCEPT ![w].pc = v] \in [Workers -> JobRecord]
  BY DEF JobRecord
<1> QED BY DEF JobRecord

LEMMA JobRecordFields ==
  ASSUME NEW x \in JobRecord
  PROVE  /\ \A v \in WorkerPc : [x EXCEPT !.pc = v] \in JobRecord
         /\ \A v \in Runs : [x EXCEPT !.run = v] \in JobRecord
         /\ \A v \in Nat : [x EXCEPT !.token = v] \in JobRecord
         /\ \A v \in 0..MaxAttempts : [x EXCEPT !.attempt = v] \in JobRecord
BY DEF JobRecord

LEMMA TopJobs ==
  /\ AtTop \in JobRecord
  /\ Down \in JobRecord
  /\ \A a \in SUBSET Runs : [AtTop EXCEPT !.alerts = a] \in JobRecord
<1>1. AtTop \in JobRecord
  BY NumberAssumption DEF AtTop, JobRecord, NoPlan, WorkerPc
<1>2. Down \in JobRecord
  BY <1>1 DEF Down, JobRecord, WorkerPc
<1>3. ASSUME NEW a \in SUBSET Runs PROVE [AtTop EXCEPT !.alerts = a] \in JobRecord
  BY <1>1 DEF JobRecord
<1> QED BY <1>1, <1>2, <1>3

LEMMA TypeInit == Init => TypeOK
BY NumberAssumption, TopJobs, PlansAssumption
   DEF Init, TypeOK, NewRow, RunRow, RunStatus, ErrorKinds, HistRecord, NoPlan

LEMMA ClaimRowType ==
  ASSUME TypeOK, NEW r \in Runs, ClaimRow(r), row[r].attempts + 1 \in 0..MaxAttempts
  PROVE  row' \in [Runs -> RunRow]
<1> DEFINE s == IF row[r].started = "never" THEN "today" ELSE row[r].started
           n == row[r].attempts + 1
           t == claims + 1
           f == [row EXCEPT ![r].status = "running", ![r].attempts = n]
<1>1. s \in {"never", "today", "earlier"} /\ n \in 0..MaxAttempts /\ t \in Nat
  BY DEF TypeOK, RunRow
<1>2. row' = [f EXCEPT ![r].locked = "fresh", ![r].lease = t, ![r].started = s]
  BY DEF ClaimRow, TypeOK
<1> HIDE DEF s, n, t
<1>3. f \in [Runs -> RunRow]
  BY <1>1, RowFields DEF TypeOK, RunStatus
<1> HIDE DEF f
<1> QED BY <1>1, <1>2, <1>3, RowFields

LEMMA TypeTick == ASSUME TypeOK, NEW w \in Workers, Tick(w) PROVE TypeOK'
<1> USE DEF TypeOK
<1>1. CASE SweepAbandoned(w)
  <2>1. row' \in [Runs -> RunRow]
    <3> SUFFICES ASSUME NEW r \in Runs PROVE row'[r] \in RunRow
      BY <1>1 DEF SweepAbandoned
    <3>1. [row[r] EXCEPT !.status = "failed", !.error = "abandoned",
                         !.lease = 0, !.locked = "null"] \in RunRow
      BY RowRecordFields DEF RunStatus, ErrorKinds
    <3> QED BY <1>1, <3>1 DEF SweepAbandoned
  <2>2. job' \in [Workers -> JobRecord]
    <3> DEFINE gone == {r \in Runs : Abandoned(r)}
    <3>1. gone \in SUBSET Runs
      OBVIOUS
    <3>2. job' = [job EXCEPT ![w].pc = "spend", ![w].alerts = gone]
      BY <1>1 DEF SweepAbandoned
    <3> HIDE DEF gone
    <3> QED BY <3>1, <3>2, JobFields DEF WorkerPc
  <2> QED BY <1>1, <2>1, <2>2 DEF SweepAbandoned
<1>2. ASSUME NEW r \in Runs, AlertRunFailed(w, r) PROVE TypeOK'
  <2>1. PICK a \in SUBSET Runs : job' = [job EXCEPT ![w].alerts = a]
    BY <1>2 DEF AlertRunFailed, JobRecord
  <2>2. job' \in [Workers -> JobRecord]
    BY <2>1, JobFields
  <2>3. hist' \in [Runs -> HistRecord]
    BY <1>2 DEF AlertRunFailed, HistRecord
  <2> QED BY <1>2, <2>2, <2>3 DEF AlertRunFailed
<1>3. CASE ReadSpend(w)
  <2>1. PICK o \in BOOLEAN : job' = [job EXCEPT ![w].pc = "claim", ![w].over = o]
    BY <1>3 DEF ReadSpend
  <2>2. job' \in [Workers -> JobRecord]
    BY <2>1, JobFields DEF WorkerPc
  <2> QED BY <1>3, <2>2 DEF ReadSpend
<1>4. CASE ClaimNextRun(w)
  <2>1. PICK r \in Runs : NextRun(w, r) /\ ClaimRow(r)
         /\ job' = [job EXCEPT ![w] =
                    [AtTop EXCEPT !.pc = "plan", !.run = r, !.token = claims + 1,
                                  !.attempt = row[r].attempts + 1]]
    BY <1>4 DEF ClaimNextRun
  <2>2. /\ row[r].attempts + 1 \in 0..MaxAttempts
        /\ claims + 1 \in Nat
    BY <2>1, NumberAssumption DEF NextRun, Runnable, RunRow
  <2>3. row' \in [Runs -> RunRow]
    BY <2>1, <2>2, ClaimRowType
  <2>4. job' \in [Workers -> JobRecord]
    <3>1. PICK n \in 0..MaxAttempts, t \in Nat :
            job' = [job EXCEPT ![w] = [AtTop EXCEPT !.pc = "plan", !.run = r, !.token = t,
                                                    !.attempt = n]]
      BY <2>1, <2>2
    <3>2. [AtTop EXCEPT !.pc = "plan", !.run = r, !.token = t, !.attempt = n] \in JobRecord
      BY TopJobs, JobRecordFields DEF WorkerPc
    <3> QED BY <3>1, <3>2, JobFields
  <2> QED BY <1>4, <2>1, <2>2, <2>3, <2>4 DEF ClaimNextRun, ClaimRow
<1>5. CASE NothingToClaim(w)
  BY <1>5, TopJobs DEF NothingToClaim, BackToTop
<1> QED BY <1>1, <1>2, <1>3, <1>4, <1>5 DEF Tick
LEMMA AskedIsFinite ==
  ASSUME TypeOK, NEW w \in Workers, NEW S \in SUBSET ToAsk(w)
  PROVE  Cardinality(S) \in Nat /\ AskCost * Cardinality(S) \in Nat
<1>1. ToAsk(w) \subseteq Questions
  BY PlansAssumption DEF ToAsk, TypeOK, JobRecord, NoPlan
<1>2. Cardinality(S) \in Nat
  BY <1>1, QuestionsAssumption, FS_Subset, FS_CardinalityType
<1> QED BY <1>2, NumberAssumption

LEMMA AnsweredIsFinite ==
  ASSUME NEW S \in SUBSET ResultRow
  PROVE  /\ Answered(S) \subseteq Questions
         /\ Cardinality(Answered(S)) \in Nat
<1>1. Answered(S) \subseteq Questions
  BY DEF Answered, ResultRow
<1> QED BY <1>1, QuestionsAssumption, FS_Subset, FS_CardinalityType

LEMMA BillType ==
  ASSUME TypeOK, NEW r \in Runs, NEW n \in Nat, Bill(r, n)
  PROVE  hist' \in [Runs -> HistRecord]
BY DEF TypeOK, Bill, HistRecord

LEMMA BackToTopType ==
  ASSUME TypeOK, NEW w \in Workers, NEW a \in SUBSET Runs, BackToTop(w, a)
  PROVE  job' \in [Workers -> JobRecord]
BY TopJobs DEF BackToTop, TypeOK

LEMMA ReplaceRowsType ==
  ASSUME NEW old \in SUBSET ResultRow, NEW rows \in SUBSET ResultRow, NEW plan
  PROVE  ReplaceRows(old, rows, plan) \in SUBSET ResultRow
BY DEF ReplaceRows

LEMMA WriteCompleteType ==
  ASSUME TypeOK, NEW w \in Workers, job[w].run \in Runs, WriteComplete(w)
  PROVE  row' \in [Runs -> RunRow] /\ result' \in [Runs -> SUBSET ResultRow]
<1> DEFINE r == job[w].run
           rows == ReplaceRows(result[r], job[w].rows, job[w].plan)
           n == Cardinality(Answered(rows))
           c == row[r].cost + job[w].cost
           p == job[w].plan
           f == [row EXCEPT ![r].status = "done", ![r].error = "none", ![r].count = n]
<1>1. rows \in SUBSET ResultRow
  BY ReplaceRowsType DEF TypeOK, JobRecord
<1>2. n \in Nat /\ c \in Nat /\ p \in Plans \cup {NoPlan}
  BY <1>1, AnsweredIsFinite DEF TypeOK, JobRecord, RunRow
<1>3. row' = [f EXCEPT ![r].cost = c, ![r].plan = p, ![r].lease = 0, ![r].locked = "null"]
  BY DEF WriteComplete, TypeOK
<1>4. result' = [result EXCEPT ![r] = rows]
  BY DEF WriteComplete
<1>a. r \in Runs
  OBVIOUS
<1> HIDE DEF r, rows, n, c, p
<1>5. f \in [Runs -> RunRow]
  BY <1>a, <1>2, RowFields DEF TypeOK, RunStatus, ErrorKinds
<1> HIDE DEF f
<1>6. row' \in [Runs -> RunRow]
  BY <1>a, <1>2, <1>3, <1>5, RowFields
<1> QED BY <1>a, <1>1, <1>4, <1>6 DEF TypeOK

LEMMA WriteProgressType ==
  ASSUME TypeOK, NEW w \in Workers, job[w].run \in Runs, WriteProgress(w)
  PROVE  row' \in [Runs -> RunRow] /\ result' \in [Runs -> SUBSET ResultRow]
<1> DEFINE r == job[w].run
           c == row[r].cost + job[w].cost
           rows == ReplaceRows(result[r], {x \in job[w].rows : x.ok}, job[w].plan)
<1>1. rows \in SUBSET ResultRow
  BY ReplaceRowsType DEF TypeOK, JobRecord
<1>2. c \in Nat
  BY DEF TypeOK, JobRecord, RunRow
<1>3. row' = [row EXCEPT ![r].cost = c] /\ result' = [result EXCEPT ![r] = rows]
  BY DEF WriteProgress
<1> HIDE DEF rows, c
<1> QED BY <1>1, <1>2, <1>3, RowFields DEF TypeOK

LEMMA WriteFailureType ==
  ASSUME TypeOK, NEW w \in Workers, job[w].run \in Runs, WriteFailure(w)
  PROVE  row' \in [Runs -> RunRow] /\ hist' \in [Runs -> HistRecord]
<1> DEFINE r == job[w].run
           s == IF Final(w) THEN "failed" ELSE "queued"
           e == FailureKind(w)
           c == row[r].cost + job[w].cost
           f == [row EXCEPT ![r].status = s, ![r].error = e, ![r].cost = c]
<1>1. s \in RunStatus /\ e \in ErrorKinds /\ c \in Nat
  BY DEF TypeOK, JobRecord, RunRow, RunStatus, ErrorKinds, FailureKind
<1>2. row' = [f EXCEPT ![r].lease = 0, ![r].locked = "fresh"]
  BY DEF WriteFailure, TypeOK
<1>3. hist' \in [Runs -> HistRecord]
  BY DEF WriteFailure, TypeOK, HistRecord
<1> HIDE DEF s, e, c
<1>4. f \in [Runs -> RunRow]
  BY <1>1, RowFields DEF TypeOK
<1> HIDE DEF f
<1> QED BY <1>2, <1>3, <1>4, RowFields

LEMMA WriteReleaseType ==
  ASSUME TypeOK, NEW r \in Runs, WriteRelease(r)
  PROVE  row' \in [Runs -> RunRow]
<1> DEFINE n == IF row[r].attempts > 0 THEN row[r].attempts - 1 ELSE 0
<1>1. n \in 0..MaxAttempts
  BY NumberAssumption DEF TypeOK, RunRow
<1>2. row' = [row EXCEPT ![r].status = "queued", ![r].locked = "null",
                         ![r].lease = 0, ![r].attempts = n]
  BY DEF WriteRelease, TypeOK
<1> HIDE DEF n
<1> QED BY <1>1, <1>2, RowFields DEF TypeOK, RunStatus

LEMMA ErrorCaughtType ==
  ASSUME TypeOK, NEW w \in Workers, ErrorCaught(w)
  PROVE  job' \in [Workers -> JobRecord]
<1>1. CASE job[w].caught \/ job[w].pc = "release"
  BY <1>1, BackToTopType DEF ErrorCaught
<1>2. CASE ~(job[w].caught \/ job[w].pc = "release")
  <2>1. job' = [job EXCEPT ![w].pc = "fail", ![w].permanent = FALSE, ![w].caught = TRUE]
    BY <1>2 DEF ErrorCaught
  <2> QED BY <2>1, JobFields DEF TypeOK, WorkerPc
<1> QED BY <1>1, <1>2
LEMMA TypeProcessRun ==
  ASSUME TypeOK, WorkersHoldClaims, NEW w \in Workers, ProcessRun(w)
  PROVE  TypeOK'
<1> USE DEF TypeOK
<1> DEFINE r == job[w].run
<1>r. ASSUME job[w].pc \in Working PROVE r \in Runs
  BY <1>r DEF WorkersHoldClaims
<1>1. CASE PlanRun(w)
  <2>1. job' \in [Workers -> JobRecord]
    <3>1. CASE Goto(w, "generate")
      BY <3>1, JobFields DEF Goto, WorkerPc
    <3>2. ASSUME NEW p \in Plans \cup {NoPlan},
                 job' = [job EXCEPT ![w].pc = "answered", ![w].plan = p]
          PROVE  job' \in [Workers -> JobRecord]
      BY <3>2, JobFields DEF WorkerPc
    <3>3. row[r].panel \in Plans \cup {NoPlan}
      BY <1>1, <1>r DEF PlanRun, At, Working, RunRow
    <3> QED BY <1>1, <3>1, <3>2, <3>3 DEF PlanRun
  <2> QED BY <1>1, <2>1 DEF PlanRun
<1>2. CASE PlanFails(w)
  <2>1. PICK permanent \in BOOLEAN :
          job' = [job EXCEPT ![w].pc = "fail", ![w].permanent = permanent, ![w].caught = TRUE]
    BY <1>2 DEF PlanFails
  <2>2. job' \in [Workers -> JobRecord]
    BY <2>1, JobFields DEF WorkerPc
  <2> QED BY <1>2, <2>2 DEF PlanFails
<1>3. CASE GenerateForRun(w)
  <2>1. r \in Runs
    BY <1>3, <1>r DEF GenerateForRun, At, Working
  <2>2. hist' \in [Runs -> HistRecord]
    BY <1>3, <2>1, NumberAssumption, BillType DEF GenerateForRun
  <2>3. CASE Holds(w, r)
    <3>1. PICK plan \in Plans :
            /\ row' = [row EXCEPT ![r].panel = plan, ![r].cost = row[r].cost + GenCost]
            /\ job' = [job EXCEPT ![w].pc = "answered", ![w].plan = plan]
      BY <1>3, <2>1, <2>3 DEF GenerateForRun
    <3>2. row[r].cost + GenCost \in Nat
      BY <2>1, NumberAssumption DEF RunRow
    <3>3. PICK n \in Nat : row' = [row EXCEPT ![r].panel = plan, ![r].cost = n]
      BY <3>1, <3>2
    <3>4. row' \in [Runs -> RunRow]
      BY <2>1, <3>3, RowFields
    <3>5. job' \in [Workers -> JobRecord]
      BY <3>1, JobFields DEF WorkerPc
    <3> QED BY <1>3, <2>2, <3>4, <3>5 DEF GenerateForRun
  <2>4. CASE ~Holds(w, r)
    <3>1. BackToTop(w, {}) /\ UNCHANGED row
      BY <1>3, <2>4 DEF GenerateForRun
    <3> QED BY <1>3, <2>2, <3>1, BackToTopType DEF GenerateForRun
  <2> QED BY <2>3, <2>4
<1>4. CASE GenerateFails(w)
  <2>1. r \in Runs
    BY <1>4, <1>r DEF GenerateFails, At, Working
  <2>2. PICK spend \in {0, GenCost} :
          /\ IF TokenMatches(w)
             THEN row' = [row EXCEPT ![r].cost = row[r].cost + spend] ELSE UNCHANGED row
          /\ Bill(r, spend)
    BY <1>4, <2>1 DEF GenerateFails
  <2>3. row[r].cost + spend \in Nat /\ spend \in Nat
    BY <2>1, NumberAssumption DEF RunRow
  <2>4. row' \in [Runs -> RunRow]
    <3> DEFINE n == row[r].cost + spend
    <3>1. n \in Nat /\ (row' = [row EXCEPT ![r].cost = n] \/ row' = row)
      BY <2>2, <2>3
    <3> HIDE DEF n
    <3>2. [row EXCEPT ![r].cost = n] \in [Runs -> RunRow]
      BY <2>1, <3>1, RowFields
    <3> QED BY <3>1, <3>2
  <2>5. job' \in [Workers -> JobRecord]
    BY <1>4, JobFields DEF GenerateFails, WorkerPc
  <2>6. hist' \in [Runs -> HistRecord]
    BY <2>1, <2>2, <2>3, BillType
  <2> QED BY <1>4, <2>4, <2>5, <2>6 DEF GenerateFails
<1>5. CASE ReadAnswered(w)
  <2>1. r \in Runs
    BY <1>5, <1>r DEF ReadAnswered, At, Working
  <2>2. Answered(result[r]) \in SUBSET Questions
    BY <2>1, AnsweredIsFinite
  <2>3. PICK known \in SUBSET Questions, pc \in WorkerPc :
          job' = [job EXCEPT ![w].known = known, ![w].rows = {}, ![w].pc = pc]
    <3> DEFINE pc == IF job[w].plan \subseteq Answered(result[r]) THEN "store" ELSE "panel"
    <3>1. pc \in WorkerPc
      BY DEF WorkerPc
    <3>2. job' = [job EXCEPT ![w].known = Answered(result[r]), ![w].rows = {},
                              ![w].pc = pc]
      BY <1>5 DEF ReadAnswered
    <3> HIDE DEF pc
    <3> QED BY <2>2, <3>1, <3>2
  <2>4. job' \in [Workers -> JobRecord]
    BY <2>3, JobFields
  <2> QED BY <1>5, <2>4 DEF ReadAnswered
<1>6. CASE PanelReturns(w)
  <2>1. r \in Runs
    BY <1>6, <1>r DEF PanelReturns, At, Working
  <2>2. PICK good \in SUBSET ToAsk(w) :
          /\ job' = [job EXCEPT ![w].pc = "store",
               ![w].rows = {[q |-> q, ok |-> q \in good, lease |-> job[w].token] : q \in ToAsk(w)},
               ![w].cost = AskCost * Cardinality(good)]
          /\ Bill(r, AskCost * Cardinality(good))
    BY <1>6 DEF PanelReturns
  <2>3. {[q |-> q, ok |-> q \in good, lease |-> job[w].token] : q \in ToAsk(w)}
           \in SUBSET ResultRow
    <3>1. ToAsk(w) \subseteq Questions /\ job[w].token \in Nat
      BY PlansAssumption DEF ToAsk, JobRecord, NoPlan
    <3>2. ASSUME NEW q \in ToAsk(w)
          PROVE  [q |-> q, ok |-> q \in good, lease |-> job[w].token] \in ResultRow
      <4>1. (q \in good) \in BOOLEAN
        OBVIOUS
      <4> DEFINE ok == q \in good
      <4> HIDE DEF ok
      <4>2. ok \in BOOLEAN
        BY <4>1 DEF ok
      <4>3. [q |-> q, ok |-> ok, lease |-> job[w].token] \in ResultRow
        BY <3>1, <4>2 DEF ResultRow
      <4> QED BY <4>3 DEF ok
    <3> QED BY <3>2
  <2>4. AskCost * Cardinality(good) \in Nat
    BY AskedIsFinite
  <2>5. PICK rows \in SUBSET ResultRow, n \in Nat :
          job' = [job EXCEPT ![w].pc = "store", ![w].rows = rows, ![w].cost = n]
    BY <2>2, <2>3, <2>4
  <2>6. job' \in [Workers -> JobRecord]
    BY <2>5, JobFields DEF WorkerPc
  <2>7. hist' \in [Runs -> HistRecord]
    BY <2>1, <2>2, <2>4, BillType
  <2> QED BY <1>6, <2>6, <2>7 DEF PanelReturns
<1>7. CASE PanelFails(w)
  <2>1. r \in Runs
    BY <1>7, <1>r DEF PanelFails, At, Working
  <2>2. PICK permanent \in BOOLEAN, n \in 0..Cardinality(ToAsk(w)) :
          /\ job' = [job EXCEPT ![w].pc = "fail", ![w].permanent = permanent,
                                ![w].caught = TRUE]
          /\ Bill(r, AskCost * n)
    BY <1>7 DEF PanelFails
  <2>3. AskCost * n \in Nat
    BY <2>2, NumberAssumption
  <2>4. job' \in [Workers -> JobRecord]
    BY <2>2, JobFields DEF WorkerPc
  <2>5. hist' \in [Runs -> HistRecord]
    BY <2>1, <2>2, <2>3, BillType
  <2> QED BY <1>7, <2>4, <2>5 DEF PanelFails
<1>8. CASE PanelAborted(w)
  <2>1. r \in Runs
    BY <1>8, <1>r DEF PanelAborted, At, Working
  <2>2. PICK n \in 0..Cardinality(ToAsk(w)) : Bill(r, AskCost * n)
    BY <1>8 DEF PanelAborted
  <2>3. AskCost * n \in Nat
    BY <2>2, NumberAssumption
  <2>4. hist' \in [Runs -> HistRecord]
    BY <2>1, <2>2, <2>3, BillType
  <2>5. job' \in [Workers -> JobRecord]
    <3>1. CASE Goto(w, "release")
      BY <3>1, JobFields DEF Goto, WorkerPc
    <3> QED BY <1>8, <3>1, BackToTopType DEF PanelAborted
  <2> QED BY <1>8, <2>4, <2>5 DEF PanelAborted
<1>9. CASE CompleteRun(w)
  <2>1. r \in Runs
    BY <1>9, <1>r DEF CompleteRun, At, Working
  <2> QED BY <1>9, <2>1, WriteCompleteType, BackToTopType DEF CompleteRun, StoreLost
<1>10. CASE SaveProgress(w)
  <2>1. r \in Runs
    BY <1>10, <1>r DEF SaveProgress, At, Working
  <2>2. CASE StoreLost(w)
    BY <1>10, <2>2, BackToTopType DEF SaveProgress, StoreLost
  <2>3. CASE WriteProgress(w) /\ ProgressSaved(w)
    <3>1. PICK permanent \in BOOLEAN :
            job' = [job EXCEPT ![w].pc = "fail", ![w].cost = 0, ![w].permanent = permanent]
      BY <2>3 DEF ProgressSaved
    <3>2. job' \in [Workers -> JobRecord]
      BY <3>1, JobFields DEF WorkerPc
    <3> QED BY <1>10, <2>1, <2>3, <3>2, WriteProgressType DEF SaveProgress
  <2> QED BY <1>10, <2>2, <2>3 DEF SaveProgress
<1>11. CASE FailAttempt(w)
  <2>1. r \in Runs
    BY <1>11, <1>r DEF FailAttempt, At, Working
  <2>2. job' \in [Workers -> JobRecord]
    BY <1>11, <2>1, BackToTopType DEF FailAttempt
  <2> QED BY <1>11, <2>1, <2>2, WriteFailureType DEF FailAttempt
<1>12. CASE ReleaseRun(w)
  <2>1. r \in Runs
    BY <1>12, <1>r DEF ReleaseRun, At, Working
  <2> QED BY <1>12, <2>1, WriteReleaseType, BackToTopType DEF ReleaseRun
<1> QED BY <1>1, <1>2, <1>3, <1>4, <1>5, <1>6, <1>7, <1>8, <1>9, <1>10, <1>11, <1>12
        DEF ProcessRun

LEMMA TypeOther ==
  ASSUME TypeOK, WorkersHoldClaims, Next,
         \A w \in Workers : ~Tick(w) /\ ~ProcessRun(w)
  PROVE  TypeOK'
<1> USE DEF TypeOK
<1>1. ASSUME NEW w \in Workers, Heartbeat(w) PROVE TypeOK'
  <2>1. job[w].run \in Runs
    BY <1>1 DEF Heartbeat, WorkersHoldClaims
  <2>2. row' \in [Runs -> RunRow] /\ job' \in [Workers -> JobRecord]
    <3>1. CASE row' = [row EXCEPT ![job[w].run].locked = "fresh"] /\ job' = job
      BY <2>1, <3>1, RowFields
    <3>2. CASE job' = [job EXCEPT ![w].aborted = TRUE] /\ row' = row
      BY <3>2, JobFields
    <3> QED BY <1>1, <3>1, <3>2 DEF Heartbeat
  <2> QED BY <1>1, <2>2 DEF Heartbeat
<1>2. ASSUME NEW w \in Workers, DatabaseError(w) PROVE TypeOK'
  <2>1. CASE TickError(w)
    BY <2>1, BackToTopType DEF TickError
  <2>2. CASE ClaimUnseen(w)
    <3>1. PICK r \in Runs : NextRun(w, r) /\ ClaimRow(r)
      BY <2>2 DEF ClaimUnseen
    <3>2. row[r].attempts + 1 \in 0..MaxAttempts
      BY <3>1, NumberAssumption DEF NextRun, Runnable, RunRow
    <3>3. row' \in [Runs -> RunRow]
      BY <3>1, <3>2, ClaimRowType
    <3>4. claims' \in Nat
      BY <3>1 DEF ClaimRow
    <3> QED BY <2>2, <3>3, <3>4, BackToTopType DEF ClaimUnseen
  <2>3. CASE RunError(w)
    BY <2>3, ErrorCaughtType DEF RunError
  <2>4. CASE StoreUnseen(w)
    <3>1. job[w].run \in Runs
      BY <2>4 DEF StoreUnseen, At, WorkersHoldClaims, Working
    <3> QED BY <2>4, <3>1, ErrorCaughtType, WriteCompleteType, WriteProgressType DEF StoreUnseen
  <2>5. CASE FailureUnseen(w)
    <3>1. job[w].run \in Runs
      BY <2>5 DEF FailureUnseen, At, WorkersHoldClaims, Working
    <3> QED BY <2>5, <3>1, ErrorCaughtType, WriteFailureType DEF FailureUnseen
  <2> QED BY <1>2, <2>1, <2>2, <2>3, <2>4, <2>5 DEF DatabaseError
<1>3. ASSUME NEW w \in Workers, Process(w) PROVE TypeOK'
  <2>1. CASE ShutdownRequested(w)
    <3> DEFINE a == job[w].pc \in Working
    <3>1. a \in BOOLEAN
      OBVIOUS
    <3>2. job' = [job EXCEPT ![w].aborted = a]
      BY <2>1 DEF ShutdownRequested
    <3> HIDE DEF a
    <3>3. job' \in [Workers -> JobRecord]
      BY <3>1, <3>2, JobFields
    <3> QED BY <2>1, <3>3 DEF ShutdownRequested
  <2>2. CASE WorkerStops(w)
    BY <2>2, TopJobs, JobFields DEF WorkerStops
  <2>3. CASE Dies(w)
    BY <2>3, TopJobs, JobFields DEF Dies
  <2>4. CASE Restart(w)
    BY <2>4, TopJobs, JobFields DEF Restart
  <2> QED BY <1>3, <2>1, <2>2, <2>3, <2>4 DEF Process, Crash, KilledAfterGrace
<1>4. ASSUME NEW r \in Runs, TimePasses(r) PROVE TypeOK'
  BY <1>4, RowFields DEF TimePasses
<1>5. CASE Midnight
  <2>1. row' \in [Runs -> RunRow]
    BY <1>5, RowRecordFields DEF Midnight
  <2> QED BY <1>5, <2>1 DEF Midnight
<1>6. CASE EditPanel
  BY <1>6 DEF EditPanel
<1> QED BY <1>1, <1>2, <1>3, <1>4, <1>5, <1>6 DEF Next

\* Every step keeps the tables, the workers' variables and the counters well typed.
LEMMA TypeNext ==
  ASSUME TypeOK, WorkersHoldClaims, [Next]_vars
  PROVE  TypeOK'
<1>1. ASSUME NEW w \in Workers, Tick(w) PROVE TypeOK'
  BY <1>1, TypeTick
<1>2. ASSUME NEW w \in Workers, ProcessRun(w) PROVE TypeOK'
  BY <1>2, TypeProcessRun
<1>3. CASE UNCHANGED vars
  BY <1>3 DEF vars, TypeOK
<1> QED BY <1>1, <1>2, <1>3, TypeOther
-----------------------------------------------------------------------------
(* What one step can do to a worker, and to a run *)

\* A worker after a step: outside processRun, still on the run and token it had,
\* or just on a run under the token issued by this step.
WorkerMove(v) ==
  \/ job'[v].pc \notin Working /\ claims' \in {claims, claims + 1}
  \/ /\ job[v].pc \in Working /\ claims' \in {claims, claims + 1}
     /\ job'[v].run = job[v].run /\ job'[v].token = job[v].token
     /\ job'[v].attempt = job[v].attempt
  \/ /\ job'[v].run \in Runs /\ job'[v].token = claims + 1 /\ claims' = claims + 1
     /\ job'[v].attempt \in 1..MaxAttempts
     /\ \A u \in Workers \ {v} : job'[u] = job[u]

LEMMA WorkerMoves ==
  ASSUME TypeOK, [Next]_vars, NEW v \in Workers
  PROVE  WorkerMove(v)
<1> USE DEF TypeOK
<1>t. AtTop.pc \notin Working /\ Down.pc \notin Working
  BY DEF AtTop, Down, Working
<1>b. ASSUME NEW w \in Workers, NEW a, BackToTop(w, a), claims' \in {claims, claims + 1}
      PROVE  WorkerMove(v)
  <2>1. [AtTop EXCEPT !.alerts = a].pc \notin Working
    BY <1>t DEF AtTop
  <2> QED BY <1>b, <2>1 DEF BackToTop, WorkerMove
<1>e. ASSUME NEW w \in Workers, ErrorCaught(w), job[w].pc \in Working, UNCHANGED claims
      PROVE  WorkerMove(v)
  <2>1. CASE BackToTop(w, {})
    BY <1>b, <1>e, <2>1
  <2>2. CASE job' = [job EXCEPT ![w].pc = "fail", ![w].permanent = FALSE, ![w].caught = TRUE]
    BY <1>e, <2>2 DEF WorkerMove
  <2> QED BY <1>e, <2>1, <2>2 DEF ErrorCaught
<1>1. ASSUME NEW w \in Workers, Tick(w) PROVE WorkerMove(v)
  <2>1. CASE SweepAbandoned(w)
    <3> DEFINE a == {r \in Runs : Abandoned(r)}
    <3>1. job' = [job EXCEPT ![w].pc = "spend", ![w].alerts = a] /\ UNCHANGED claims
      BY <2>1 DEF SweepAbandoned
    <3> HIDE DEF a
    <3> QED BY <3>1 DEF WorkerMove, Working
  <2>2. ASSUME NEW r \in Runs, AlertRunFailed(w, r) PROVE WorkerMove(v)
    BY <2>2 DEF AlertRunFailed, WorkerMove
  <2>3. CASE ReadSpend(w)
    BY <2>3 DEF ReadSpend, WorkerMove, Working
  <2>4. CASE ClaimNextRun(w)
    <3>1. PICK r \in Runs : NextRun(w, r) /\ ClaimRow(r)
           /\ job' = [job EXCEPT ![w] =
                      [AtTop EXCEPT !.pc = "plan", !.run = r, !.token = claims + 1,
                                    !.attempt = row[r].attempts + 1]]
      BY <2>4 DEF ClaimNextRun
    <3>2. row[r].attempts + 1 \in 1..MaxAttempts
      BY <3>1, NumberAssumption DEF NextRun, Runnable, RunRow
    <3>3. claims' = claims + 1
      BY <3>1 DEF ClaimRow
    <3>4. CASE v = w
      <4>1. /\ job'[v].run = r /\ job'[v].token = claims + 1
            /\ job'[v].attempt = row[r].attempts + 1
        BY <3>1, <3>4 DEF AtTop
      <4> QED BY <3>1, <3>2, <3>3, <3>4, <4>1 DEF WorkerMove
    <3>5. CASE v # w
      BY <3>1, <3>3, <3>5 DEF WorkerMove
    <3> QED BY <3>4, <3>5
  <2>5. CASE NothingToClaim(w)
    BY <1>b, <2>5 DEF NothingToClaim
  <2> QED BY <1>1, <2>1, <2>2, <2>3, <2>4, <2>5 DEF Tick
<1>2. ASSUME NEW w \in Workers, ProcessRun(w) PROVE WorkerMove(v)
  <2>1. CASE PlanRun(w)
    <3>1. CASE job' = [job EXCEPT ![w].pc = "generate"]
      BY <2>1, <3>1 DEF PlanRun, At, WorkerMove, Working
    <3>2. ASSUME NEW p, job' = [job EXCEPT ![w].pc = "answered", ![w].plan = p]
          PROVE  WorkerMove(v)
      BY <2>1, <3>2 DEF PlanRun, At, WorkerMove, Working
    <3> QED BY <2>1, <3>1, <3>2 DEF PlanRun, Goto
  <2>2. CASE PlanFails(w)
    BY <2>2 DEF PlanFails, At, WorkerMove, Working
  <2>3. CASE GenerateForRun(w)
    <3>1. job[w].pc \in Working /\ UNCHANGED claims
      BY <2>3 DEF GenerateForRun, At, Working
    <3>2. ASSUME NEW p, job' = [job EXCEPT ![w].pc = "answered", ![w].plan = p]
          PROVE  WorkerMove(v)
      BY <3>1, <3>2 DEF WorkerMove
    <3> QED BY <1>b, <2>3, <3>1, <3>2 DEF GenerateForRun
  <2>4. CASE GenerateFails(w)
    BY <2>4 DEF GenerateFails, At, WorkerMove, Working
  <2>5. CASE ReadAnswered(w)
    <3> DEFINE k == Answered(result[job[w].run])
               pc == IF job[w].plan \subseteq k THEN "store" ELSE "panel"
    <3>1. /\ job' = [job EXCEPT ![w].known = k, ![w].rows = {}, ![w].pc = pc]
          /\ UNCHANGED claims /\ job[w].pc \in Working
      BY <2>5 DEF ReadAnswered, At, Working
    <3> HIDE DEF k, pc
    <3> QED BY <3>1 DEF WorkerMove
  <2>6. CASE PanelReturns(w)
    <3>1. PICK good \in SUBSET ToAsk(w) :
            job' = [job EXCEPT ![w].pc = "store",
              ![w].rows = {[q |-> q, ok |-> q \in good, lease |-> job[w].token] : q \in ToAsk(w)},
              ![w].cost = AskCost * Cardinality(good)]
      BY <2>6 DEF PanelReturns
    <3> DEFINE rows == {[q |-> q, ok |-> q \in good, lease |-> job[w].token] : q \in ToAsk(w)}
               n == AskCost * Cardinality(good)
    <3>2. /\ job' = [job EXCEPT ![w].pc = "store", ![w].rows = rows, ![w].cost = n]
          /\ UNCHANGED claims /\ job[w].pc \in Working
      BY <2>6, <3>1 DEF PanelReturns, At, Working
    <3> HIDE DEF rows, n
    <3> QED BY <3>2 DEF WorkerMove
  <2>7. CASE PanelFails(w)
    BY <2>7 DEF PanelFails, At, WorkerMove, Working
  <2>8. CASE PanelAborted(w)
    <3>1. CASE job' = [job EXCEPT ![w].pc = "release"]
      BY <2>8, <3>1 DEF PanelAborted, At, WorkerMove, Working
    <3> QED BY <1>b, <2>8, <3>1 DEF PanelAborted, Goto
  <2>9. CASE CompleteRun(w)
    BY <1>b, <2>9 DEF CompleteRun, StoreLost
  <2>10. CASE SaveProgress(w)
    <3>1. ASSUME NEW p,
                 job' = [job EXCEPT ![w].pc = "fail", ![w].cost = 0, ![w].permanent = p]
          PROVE  WorkerMove(v)
      BY <2>10, <3>1 DEF SaveProgress, At, WorkerMove, Working
    <3> QED BY <1>b, <2>10, <3>1 DEF SaveProgress, StoreLost, ProgressSaved
  <2>11. CASE FailAttempt(w)
    BY <1>b, <2>11 DEF FailAttempt
  <2>12. CASE ReleaseRun(w)
    BY <1>b, <2>12 DEF ReleaseRun
  <2> QED BY <1>2, <2>1, <2>2, <2>3, <2>4, <2>5, <2>6, <2>7, <2>8, <2>9, <2>10, <2>11, <2>12
          DEF ProcessRun
<1>3. ASSUME NEW w \in Workers, Heartbeat(w) PROVE WorkerMove(v)
  <2>1. CASE job' = job
    BY <1>3, <2>1 DEF Heartbeat, WorkerMove
  <2>2. CASE job' = [job EXCEPT ![w].aborted = TRUE]
    BY <1>3, <2>2 DEF Heartbeat, WorkerMove
  <2> QED BY <1>3, <2>1, <2>2 DEF Heartbeat
<1>4. ASSUME NEW w \in Workers, DatabaseError(w) PROVE WorkerMove(v)
  <2>1. CASE TickError(w)
    BY <1>b, <2>1 DEF TickError
  <2>2. CASE ClaimUnseen(w)
    BY <1>b, <2>2 DEF ClaimUnseen, ClaimRow
  <2>3. CASE RunError(w)
    BY <1>e, <2>3 DEF RunError, Working
  <2>4. CASE StoreUnseen(w)
    BY <1>e, <2>4 DEF StoreUnseen, At, Working
  <2>5. CASE FailureUnseen(w)
    BY <1>e, <2>5 DEF FailureUnseen, At, Working
  <2> QED BY <1>4, <2>1, <2>2, <2>3, <2>4, <2>5 DEF DatabaseError
<1>5. ASSUME NEW w \in Workers, Process(w) PROVE WorkerMove(v)
  <2>1. CASE ShutdownRequested(w)
    BY <2>1 DEF ShutdownRequested, WorkerMove
  <2>2. CASE WorkerStops(w)
    BY <1>t, <2>2 DEF WorkerStops, WorkerMove
  <2>3. CASE Dies(w)
    BY <1>t, <2>3 DEF Dies, WorkerMove
  <2>4. CASE Restart(w)
    BY <1>t, <2>4 DEF Restart, WorkerMove
  <2> QED BY <1>5, <2>1, <2>2, <2>3, <2>4 DEF Process, Crash, KilledAfterGrace
<1>6. ASSUME UNCHANGED <<job, claims>> PROVE WorkerMove(v)
  BY <1>6 DEF WorkerMove
<1> QED BY <1>1, <1>2, <1>3, <1>4, <1>5, <1>6
        DEF Next, vars, TimePasses, Midnight, EditPanel

\* Tokens are handed out once, and a worker keeps its run until it leaves it.
LEMMA TokensNext ==
  ASSUME TypeOK, WorkersHoldClaims, TokensDiffer, [Next]_vars
  PROVE  WorkersHoldClaims' /\ TokensDiffer'
<1>1. ASSUME NEW v \in Workers, job'[v].pc \in Working
      PROVE  /\ job'[v].run \in Runs /\ job'[v].token \in 1..claims'
             /\ job'[v].attempt \in 1..MaxAttempts
  BY <1>1, WorkerMoves DEF WorkerMove, TypeOK, WorkersHoldClaims
<1>2. ASSUME NEW v \in Workers, NEW w \in Workers, v # w,
             job'[v].pc \in Working, job'[w].pc \in Working
      PROVE  job'[v].token # job'[w].token
  <2>1. WorkerMove(v) /\ WorkerMove(w)
    BY WorkerMoves
  <2>2. ASSUME NEW u \in Workers, job[u].pc \in Working PROVE job[u].token < claims + 1
    BY <2>2 DEF WorkersHoldClaims, TypeOK
  <2> QED BY <1>2, <2>1, <2>2 DEF WorkerMove, TokensDiffer, TypeOK
<1> QED BY <1>1, <1>2 DEF WorkersHoldClaims, TokensDiffer

SameAttempt(r) ==
  row'[r].attempts = row[r].attempts /\ hist'[r].ended = hist[r].ended

RunKept(r) ==
  /\ row'[r].status = row[r].status /\ row'[r].lease = row[r].lease
  /\ row'[r].count = row[r].count /\ row'[r].plan = row[r].plan
  /\ row[r].status # "running" => row'[r].cost = row[r].cost
  /\ SameAttempt(r)

RunProgresses(w, r) ==
  /\ Holds(w, r) /\ job[w].pc = "store" /\ job'[w].pc \notin {"panel", "store"}
  /\ RunKept(r)
  /\ result'[r] = ReplaceRows(result[r], {x \in job[w].rows : x.ok}, job[w].plan)

RunClaimed(r) ==
  /\ row[r].status \in {"queued", "running"} /\ row[r].attempts < MaxAttempts
  /\ row'[r].status = "running" /\ row'[r].lease = claims + 1 /\ claims' = claims + 1
  /\ row'[r].attempts = row[r].attempts + 1 /\ hist'[r].ended = hist[r].ended
  /\ result'[r] = result[r]

RunCompletes(w, r) ==
  /\ Holds(w, r) /\ job[w].pc = "store" /\ Outcome(w) = "complete"
  /\ row'[r].status = "done" /\ row'[r].lease = 0 /\ SameAttempt(r)
  /\ result'[r] = ReplaceRows(result[r], job[w].rows, job[w].plan)
  /\ row'[r].count = Cardinality(Answered(result'[r])) /\ row'[r].plan = job[w].plan

RunFails(w, r) ==
  /\ Holds(w, r)
  /\ row'[r].status = IF Final(w) THEN "failed" ELSE "queued"
  /\ row'[r].lease = 0 /\ row'[r].attempts = row[r].attempts
  /\ hist'[r].ended = hist[r].ended + 1 /\ result'[r] = result[r]

RunReleased(w, r) ==
  /\ Holds(w, r)
  /\ row'[r].status = "queued" /\ row'[r].lease = 0
  /\ row'[r].attempts = row[r].attempts - 1 /\ row[r].attempts > 0
  /\ hist'[r].ended = hist[r].ended /\ result'[r] = result[r]

RunAbandoned(r) ==
  /\ row[r].status = "running" /\ row[r].attempts = MaxAttempts
  /\ row'[r].status = "failed" /\ row'[r].lease = 0 /\ SameAttempt(r)
  /\ result'[r] = result[r]

\* A run after a step.
RunMove(r) ==
  \/ RunKept(r) /\ result'[r] = result[r]
  \/ RunClaimed(r) \/ RunAbandoned(r)
  \/ \E w \in Workers : \/ RunProgresses(w, r) \/ RunCompletes(w, r)
                         \/ RunFails(w, r) \/ RunReleased(w, r)

LEMMA HoldsByToken ==
  ASSUME TypeOK, WorkersHoldClaims, LeaseIffRunning, NEW w \in Workers,
         job[w].pc \in Working, TokenMatches(w)
  PROVE  Holds(w, job[w].run)
BY DEF Holds, TokenMatches, LeaseIffRunning, WorkersHoldClaims, TypeOK, RunRow, JobRecord

LEMMA ClaimMoves ==
  ASSUME TypeOK, NEW s \in Runs, NEW w \in Workers, NextRun(w, s), ClaimRow(s),
         UNCHANGED <<result, hist>>, NEW r \in Runs
  PROVE  RunMove(r)
<1>1. CASE r = s
  <2>1. /\ row'[r].status = "running" /\ row'[r].lease = claims + 1
        /\ row'[r].attempts = row[r].attempts + 1 /\ claims' = claims + 1
    BY <1>1 DEF ClaimRow, TypeOK, RunRow
  <2> QED BY <1>1, <2>1 DEF NextRun, Runnable, RunClaimed, RunMove
<1>2. CASE r # s
  BY <1>2 DEF ClaimRow, TypeOK, RunMove, RunKept, SameAttempt
<1> QED BY <1>1, <1>2

LEMMA CompleteMoves ==
  ASSUME TypeOK, NEW w \in Workers, job[w].run \in Runs, LockRun(w), job[w].pc = "store",
         Outcome(w) = "complete", WriteComplete(w), UNCHANGED hist, NEW r \in Runs
  PROVE  RunMove(r)
<1>1. CASE r = job[w].run
  <2>1. result'[r] = ReplaceRows(result[r], job[w].rows, job[w].plan)
    BY <1>1 DEF WriteComplete, TypeOK
  <2> DEFINE n == Cardinality(Answered(ReplaceRows(result[r], job[w].rows, job[w].plan)))
             c == row[r].cost + job[w].cost
             p == job[w].plan
  <2>2. row' = [row EXCEPT ![r].status = "done", ![r].error = "none", ![r].count = n,
                           ![r].cost = c, ![r].plan = p, ![r].lease = 0, ![r].locked = "null"]
    BY <1>1 DEF WriteComplete, TypeOK
  <2> HIDE DEF n, c, p
  <2>3. /\ row'[r].status = "done" /\ row'[r].lease = 0 /\ row'[r].count = n
        /\ row'[r].plan = p /\ row'[r].attempts = row[r].attempts
    BY <2>2 DEF TypeOK, RunRow
  <2> QED BY <1>1, <2>1, <2>3 DEF RunMove, RunCompletes, LockRun, SameAttempt, n, p
<1>2. CASE r # job[w].run
  BY <1>2 DEF WriteComplete, TypeOK, RunMove, RunKept, SameAttempt
<1> QED BY <1>1, <1>2

LEMMA ProgressMoves ==
  ASSUME TypeOK, NEW w \in Workers, job[w].run \in Runs, LockRun(w), job[w].pc = "store",
         WriteProgress(w), job'[w].pc \notin {"panel", "store"}, UNCHANGED hist, NEW r \in Runs
  PROVE  RunMove(r)
<1>1. CASE r = job[w].run
  <2>1. result'[r] = ReplaceRows(result[r], {x \in job[w].rows : x.ok}, job[w].plan)
    BY <1>1 DEF WriteProgress, TypeOK
  <2>2. RunKept(r)
    BY <1>1 DEF WriteProgress, TypeOK, RunRow, RunKept, SameAttempt, LockRun, Holds
  <2> QED BY <1>1, <2>1, <2>2 DEF RunMove, RunProgresses, LockRun
<1>2. CASE r # job[w].run
  BY <1>2 DEF WriteProgress, TypeOK, RunMove, RunKept, SameAttempt
<1> QED BY <1>1, <1>2

LEMMA FailureMoves ==
  ASSUME TypeOK, NEW w \in Workers, job[w].run \in Runs, Holds(w, job[w].run),
         WriteFailure(w), UNCHANGED result, NEW r \in Runs
  PROVE  RunMove(r)
<1>1. CASE r = job[w].run
  <2> DEFINE s == IF Final(w) THEN "failed" ELSE "queued"
             e == FailureKind(w)
             c == row[r].cost + job[w].cost
  <2>1. row' = [row EXCEPT ![r].status = s, ![r].error = e, ![r].cost = c,
                           ![r].lease = 0, ![r].locked = "fresh"]
    BY <1>1 DEF WriteFailure, TypeOK
  <2>2. hist'[r].ended = hist[r].ended + 1
    BY <1>1 DEF WriteFailure, TypeOK, HistRecord
  <2> HIDE DEF s, e, c
  <2>3. /\ row'[r].status = s /\ row'[r].lease = 0
        /\ row'[r].attempts = row[r].attempts
    BY <2>1 DEF TypeOK, RunRow
  <2> QED BY <1>1, <2>2, <2>3 DEF RunMove, RunFails, s
<1>2. CASE r # job[w].run
  BY <1>2 DEF WriteFailure, TypeOK, RunMove, RunKept, SameAttempt
<1> QED BY <1>1, <1>2

LEMMA ReleaseMoves ==
  ASSUME TypeOK, WorkersHoldClaims, LeaseIffRunning, FailuresArePaidFor,
         NEW w \in Workers, job[w].run \in Runs, Holds(w, job[w].run),
         WriteRelease(job[w].run), UNCHANGED <<result, hist>>, NEW r \in Runs
  PROVE  RunMove(r)
<1>1. CASE r = job[w].run
  <2>1. row[r].attempts > 0
    BY <1>1 DEF FailuresArePaidFor, Holds, TypeOK, RunRow, HistRecord
  <2>2. /\ row'[r].status = "queued" /\ row'[r].lease = 0
        /\ row'[r].attempts = row[r].attempts - 1
    BY <1>1, <2>1 DEF WriteRelease, TypeOK, RunRow
  <2> QED BY <1>1, <2>1, <2>2 DEF RunMove, RunReleased
<1>2. CASE r # job[w].run
  BY <1>2 DEF WriteRelease, TypeOK, RunMove, RunKept, SameAttempt
<1> QED BY <1>1, <1>2

\* Each step is one of these moves for each run.
LEMMA RunMoves ==
  ASSUME TypeOK, WorkersHoldClaims, LeaseIffRunning, FailuresArePaidFor,
         [Next]_vars, NEW r \in Runs
  PROVE  RunMove(r)
<1> USE DEF TypeOK
<1>r. ASSUME NEW w \in Workers, job[w].pc \in Working PROVE job[w].run \in Runs
  BY <1>r DEF WorkersHoldClaims
<1>k. ASSUME UNCHANGED <<row, result, hist>> PROVE RunMove(r)
  BY <1>k DEF RunMove, RunKept, SameAttempt
<1>1. ASSUME NEW w \in Workers, Tick(w) PROVE RunMove(r)
  <2>1. CASE SweepAbandoned(w)
    <3>1. CASE Abandoned(r)
      <4>1. /\ row'[r] = [row[r] EXCEPT !.status = "failed", !.error = "abandoned",
                                       !.lease = 0, !.locked = "null"]
            /\ UNCHANGED <<result, hist>>
        BY <2>1, <3>1 DEF SweepAbandoned
      <4>2. /\ row'[r].status = "failed" /\ row'[r].lease = 0
            /\ row'[r].attempts = row[r].attempts
        BY <4>1 DEF RunRow
      <4>3. row[r].status = "running" /\ row[r].attempts = MaxAttempts
        <5>1. row[r].attempts \in 0..MaxAttempts
          BY DEF RunRow
        <5> QED BY <3>1, <5>1, NumberAssumption DEF Abandoned
      <4> QED BY <4>1, <4>2, <4>3 DEF RunMove, RunAbandoned, SameAttempt
    <3>2. CASE ~Abandoned(r)
      BY <2>1, <3>2 DEF SweepAbandoned, RunMove, RunKept, SameAttempt
    <3> QED BY <3>1, <3>2
  <2>2. ASSUME NEW s \in Runs, AlertRunFailed(w, s) PROVE RunMove(r)
    BY <2>2 DEF AlertRunFailed, RunMove, RunKept, SameAttempt, HistRecord
  <2>3. CASE ClaimNextRun(w)
    BY <2>3, ClaimMoves DEF ClaimNextRun
  <2> QED BY <1>k, <1>1, <2>1, <2>2, <2>3 DEF Tick, ReadSpend, NothingToClaim
<1>2. ASSUME NEW w \in Workers, ProcessRun(w) PROVE RunMove(r)
  <2>b. ASSUME NEW s \in Runs, NEW n, Bill(s, n), UNCHANGED <<row, result>> PROVE RunMove(r)
    BY <2>b DEF Bill, RunMove, RunKept, SameAttempt, HistRecord
  <2>1. CASE GenerateForRun(w)
    <3>1. job[w].run \in Runs
      BY <1>r, <2>1 DEF GenerateForRun, At, Working
    <3>2. hist'[r].ended = hist[r].ended /\ UNCHANGED result
      BY <2>1, <3>1 DEF GenerateForRun, Bill, HistRecord
    <3>3. CASE Holds(w, job[w].run)
      <4>1. \E p, n : row' = [row EXCEPT ![job[w].run].panel = p, ![job[w].run].cost = n]
        BY <2>1, <3>3 DEF GenerateForRun
      <4> QED BY <3>1, <3>2, <3>3, <4>1 DEF RunMove, RunKept, SameAttempt, Holds, RunRow
    <3>4. CASE ~Holds(w, job[w].run)
      BY <2>1, <3>2, <3>4 DEF GenerateForRun, RunMove, RunKept, SameAttempt
    <3> QED BY <3>3, <3>4
  <2>2. CASE GenerateFails(w)
    <3>1. job[w].run \in Runs /\ job[w].pc \in Working
      BY <1>r, <2>2 DEF GenerateFails, At, Working
    <3>2. hist'[r].ended = hist[r].ended /\ UNCHANGED result
      BY <2>2, <3>1 DEF GenerateFails, Bill, HistRecord
    <3>3. CASE TokenMatches(w)
      <4>1. PICK n : row' = [row EXCEPT ![job[w].run].cost = n]
        BY <2>2, <3>3 DEF GenerateFails
      <4>2. row[job[w].run].status = "running"
        BY <3>1, <3>3, HoldsByToken DEF Holds
      <4> QED BY <3>1, <3>2, <4>1, <4>2 DEF RunMove, RunKept, SameAttempt, RunRow
    <3>4. CASE ~TokenMatches(w)
      BY <2>2, <3>2, <3>4 DEF GenerateFails, RunMove, RunKept, SameAttempt
    <3> QED BY <3>3, <3>4
  <2>3. CASE PanelReturns(w) \/ PanelFails(w) \/ PanelAborted(w)
    <3>1. job[w].run \in Runs
      BY <1>r, <2>3 DEF PanelReturns, PanelFails, PanelAborted, At, Working
    <3> QED BY <2>b, <2>3, <3>1 DEF PanelReturns, PanelFails, PanelAborted
  <2>4. CASE CompleteRun(w)
    <3>1. job[w].run \in Runs
      BY <1>r, <2>4 DEF CompleteRun, At, Working
    <3> QED BY <1>k, <2>4, <3>1, CompleteMoves DEF CompleteRun, StoreLost, At
  <2>5. CASE SaveProgress(w)
    <3>1. job[w].run \in Runs
      BY <1>r, <2>5 DEF SaveProgress, At, Working
    <3>2. CASE StoreLost(w)
      BY <1>k, <2>5, <3>2 DEF SaveProgress, StoreLost
    <3>3. CASE LockRun(w) /\ WriteProgress(w) /\ ProgressSaved(w)
      <4>1. PICK p : job' = [job EXCEPT ![w].pc = "fail", ![w].cost = 0, ![w].permanent = p]
        BY <3>3 DEF ProgressSaved
      <4>2. job'[w].pc \notin {"panel", "store"}
        BY <4>1 DEF JobRecord
      <4> QED BY <2>5, <3>1, <3>3, <4>2, ProgressMoves DEF SaveProgress, At
    <3> QED BY <2>5, <3>2, <3>3 DEF SaveProgress
  <2>6. CASE FailAttempt(w)
    <3>1. job[w].run \in Runs /\ job[w].pc \in Working
      BY <1>r, <2>6 DEF FailAttempt, At, Working
    <3> QED BY <1>k, <2>6, <3>1, HoldsByToken, FailureMoves DEF FailAttempt
  <2>7. CASE ReleaseRun(w)
    <3>1. job[w].run \in Runs /\ job[w].pc \in Working
      BY <1>r, <2>7 DEF ReleaseRun, At, Working
    <3> QED BY <1>k, <2>7, <3>1, HoldsByToken, ReleaseMoves DEF ReleaseRun
  <2> QED BY <1>k, <1>2, <2>1, <2>2, <2>3, <2>4, <2>5, <2>6, <2>7
          DEF ProcessRun, PlanRun, PlanFails, ReadAnswered
<1>3. ASSUME NEW w \in Workers, Heartbeat(w) PROVE RunMove(r)
  <2>1. CASE Holds(w, job[w].run)
    BY <1>3, <2>1 DEF Heartbeat, RunMove, RunKept, SameAttempt, RunRow
  <2>2. CASE ~Holds(w, job[w].run)
    BY <1>3, <1>k, <2>2 DEF Heartbeat
  <2> QED BY <2>1, <2>2
<1>4. ASSUME NEW w \in Workers, DatabaseError(w) PROVE RunMove(r)
  <2>1. CASE ClaimUnseen(w)
    BY <2>1, ClaimMoves DEF ClaimUnseen
  <2>2. CASE StoreUnseen(w)
    <3>1. job[w].run \in Runs
      BY <1>r, <2>2 DEF StoreUnseen, At, Working
    <3>2. job'[w].pc \notin {"panel", "store"}
      <4>1. CASE job' = [job EXCEPT ![w].pc = "fail", ![w].permanent = FALSE, ![w].caught = TRUE]
        BY <4>1 DEF JobRecord
      <4>2. CASE job' = [job EXCEPT ![w] = [AtTop EXCEPT !.alerts = {}]]
        BY <4>2 DEF AtTop
      <4> QED BY <2>2, <4>1, <4>2 DEF StoreUnseen, ErrorCaught, BackToTop
    <3> QED BY <2>2, <3>1, <3>2, CompleteMoves, ProgressMoves DEF StoreUnseen, At
  <2>3. CASE FailureUnseen(w)
    <3>1. job[w].run \in Runs /\ job[w].pc \in Working
      BY <1>r, <2>3 DEF FailureUnseen, At, Working
    <3> QED BY <2>3, <3>1, HoldsByToken, FailureMoves DEF FailureUnseen
  <2> QED BY <1>k, <1>4, <2>1, <2>2, <2>3 DEF DatabaseError, TickError, RunError
<1>5. ASSUME NEW s \in Runs, TimePasses(s) PROVE RunMove(r)
  BY <1>5 DEF TimePasses, RunMove, RunKept, SameAttempt, RunRow
<1>6. CASE Midnight
  <2>1. row'[r] \in {row[r], [row[r] EXCEPT !.started = "earlier"]} /\ UNCHANGED <<result, hist>>
    BY <1>6 DEF Midnight
  <2> QED BY <2>1 DEF RunMove, RunKept, SameAttempt, RunRow
<1> QED BY <1>k, <1>1, <1>2, <1>3, <1>4, <1>5, <1>6
        DEF Next, vars, Process, ShutdownRequested, WorkerStops, Crash, KilledAfterGrace,
            Dies, Restart, EditPanel
-----------------------------------------------------------------------------
(* Leases and attempts *)

\* The part of the invariant that is inductive without the workers' data.
LeaseInv ==
  /\ TypeOK /\ WorkersHoldClaims /\ TokensDiffer /\ LeasesIssued /\ LeaseIffRunning
  /\ FailuresArePaidFor

LEMMA LeaseInit == Init => LeaseInv
<1> SUFFICES ASSUME Init PROVE LeaseInv
  OBVIOUS
<1>1. TypeOK
  BY TypeInit
<1>2. WorkersHoldClaims /\ TokensDiffer
  BY DEF Init, AtTop, Working, WorkersHoldClaims, TokensDiffer
<1>3. LeasesIssued /\ LeaseIffRunning /\ FailuresArePaidFor
  BY DEF Init, NewRow, LeasesIssued, LeaseIffRunning, FailuresArePaidFor
<1> QED BY <1>1, <1>2, <1>3 DEF LeaseInv

LEMMA LeaseNext ==
  ASSUME LeaseInv, [Next]_vars
  PROVE  LeaseInv'
<1> USE DEF LeaseInv
<1>1. TypeOK' /\ WorkersHoldClaims' /\ TokensDiffer'
  BY TypeNext, TokensNext
<1>c. claims \in Nat /\ claims' \in Nat /\ claims' >= claims
  <2>1. CASE Workers = {}
    BY <1>1, <2>1 DEF TypeOK, Next, vars, TimePasses, Midnight, EditPanel
  <2>2. ASSUME NEW w \in Workers PROVE claims' >= claims
    BY <2>2, <1>1, WorkerMoves DEF WorkerMove, TypeOK
  <2> QED BY <1>1, <2>1, <2>2 DEF TypeOK
<1>2. ASSUME NEW r \in Runs
      PROVE  /\ row'[r].lease <= claims'
             /\ row'[r].lease # 0 <=> row'[r].status = "running"
             /\ hist'[r].ended <= row'[r].attempts
             /\ row'[r].status = "running" => hist'[r].ended < row'[r].attempts
  <2>1. /\ row[r].lease \in Nat /\ row[r].attempts \in Nat /\ hist[r].ended \in Nat
        /\ row[r].lease <= claims
        /\ row[r].lease # 0 <=> row[r].status = "running"
        /\ hist[r].ended <= row[r].attempts
        /\ row[r].status = "running" => hist[r].ended < row[r].attempts
    BY NumberAssumption DEF TypeOK, RunRow, HistRecord, LeasesIssued, LeaseIffRunning, FailuresArePaidFor
  <2>2. RunMove(r)
    BY RunMoves
  <2>3. CASE RunKept(r)
    BY <1>c, <2>1, <2>3 DEF RunKept, SameAttempt
  <2>4. CASE RunClaimed(r)
    BY <1>c, <2>1, <2>4 DEF RunClaimed
  <2>5. CASE RunAbandoned(r)
    BY <1>c, <2>1, <2>5 DEF RunAbandoned, SameAttempt
  <2>6. ASSUME NEW w \in Workers, RunCompletes(w, r) \/ RunFails(w, r) \/ RunReleased(w, r)
        PROVE  /\ row'[r].lease = 0 /\ row'[r].status # "running"
               /\ hist'[r].ended <= row'[r].attempts
    BY <2>1, <2>6 DEF RunCompletes, RunFails, RunReleased, Holds, SameAttempt
  <2>7. CASE \E w \in Workers : RunCompletes(w, r) \/ RunFails(w, r) \/ RunReleased(w, r)
    BY <1>c, <2>6, <2>7
  <2>8. CASE \E w \in Workers : RunProgresses(w, r)
    BY <2>3, <2>8 DEF RunProgresses
  <2> QED BY <2>2, <2>3, <2>4, <2>5, <2>7, <2>8 DEF RunMove
<1> QED BY <1>1, <1>2 DEF LeasesIssued, LeaseIffRunning, FailuresArePaidFor

THEOREM LeaseInvariant == Spec => []LeaseInv
BY LeaseInit, LeaseNext, PTL DEF Spec

\* Types: the variables of every reachable state are well typed.
THEOREM TypeCorrect == Spec => []TypeOK
<1>1. LeaseInv => TypeOK
  BY DEF LeaseInv
<1> QED BY <1>1, LeaseInvariant, PTL

\* A run carries a lease token exactly while it is running.
THEOREM LeasesAreExact == Spec => []LeaseIffRunning
<1>1. LeaseInv => LeaseIffRunning
  BY DEF LeaseInv
<1> QED BY <1>1, LeaseInvariant, PTL

\* Two workers never hold the same run, whatever leases expired before.
LEMMA OneHolderNow == LeaseInv => OneHolder
BY DEF LeaseInv, OneHolder, Holds, TokensDiffer

THEOREM HoldersAreUnique == Spec => []OneHolder
BY OneHolderNow, LeaseInvariant, PTL

\* Every failure recorded on a run has used up one of its attempts.
THEOREM RefundsAreEarned == Spec => []FailuresArePaidFor
<1>1. LeaseInv => FailuresArePaidFor
  BY DEF LeaseInv
<1> QED BY <1>1, LeaseInvariant, PTL

\* A finished or failed run, and its answers, never change again.
THEOREM TerminalRunsAreFinal == Spec => TerminalIsFinal
<1>1. ASSUME LeaseInv, [Next]_vars, NEW r \in Runs, row[r].status \in {"done", "failed"}
      PROVE  /\ row'[r].status = row[r].status /\ row'[r].attempts = row[r].attempts
             /\ row'[r].count = row[r].count /\ row'[r].cost = row[r].cost
             /\ result'[r] = result[r]
  <2>1. RunMove(r)
    BY <1>1, RunMoves DEF LeaseInv
  <2> QED BY <1>1, <2>1 DEF RunMove, RunKept, SameAttempt, RunClaimed, RunAbandoned,
             RunProgresses, RunCompletes, RunFails, RunReleased, Holds
<1>2. LeaseInv /\ [Next]_vars =>
        [\A r \in Runs : row[r].status \in {"done", "failed"} =>
           /\ row'[r].status = row[r].status /\ row'[r].attempts = row[r].attempts
           /\ row'[r].count = row[r].count /\ row'[r].cost = row[r].cost
           /\ result'[r] = result[r]]_vars
  BY <1>1
<1> QED BY <1>2, LeaseInvariant, PTL DEF Spec, TerminalIsFinal
-----------------------------------------------------------------------------
(* Answers: what a worker knows when it stores *)

\* A worker that is to run the panel or to store has just read what is answered,
\* has just got the panel's rows for it, or is where it was with the data it had.
PanelMove(v) ==
  job'[v].pc \in {"panel", "store"} =>
    \/ ReadAnswered(v) \/ PanelReturns(v)
    \/ /\ job[v].pc = job'[v].pc
       /\ job'[v].run = job[v].run /\ job'[v].token = job[v].token
       /\ job'[v].plan = job[v].plan /\ job'[v].known = job[v].known
       /\ job'[v].rows = job[v].rows

LEMMA PanelMoves ==
  ASSUME TypeOK, [Next]_vars, NEW v \in Workers
  PROVE  PanelMove(v)
<1> USE DEF TypeOK
<1>t. AtTop.pc \notin {"panel", "store"} /\ Down.pc \notin {"panel", "store"}
  BY DEF AtTop, Down
<1>b. ASSUME NEW w \in Workers, NEW a, BackToTop(w, a) PROVE PanelMove(v)
  <2>1. [AtTop EXCEPT !.alerts = a].pc \notin {"panel", "store"}
    BY <1>t DEF AtTop
  <2> QED BY <1>b, <2>1 DEF BackToTop, PanelMove
<1>d. ASSUME NEW w \in Workers, NEW j, j.pc \notin {"panel", "store"}, job' = [job EXCEPT ![w] = j]
      PROVE  PanelMove(v)
  BY <1>d DEF PanelMove
<1>k. ASSUME UNCHANGED job PROVE PanelMove(v)
  BY <1>k DEF PanelMove
<1>e. ASSUME NEW w \in Workers, ErrorCaught(w) PROVE PanelMove(v)
  <2>1. CASE job' = [job EXCEPT ![w].pc = "fail", ![w].permanent = FALSE, ![w].caught = TRUE]
    BY <2>1 DEF PanelMove, JobRecord
  <2> QED BY <1>b, <1>e, <2>1 DEF ErrorCaught
<1>1. ASSUME NEW w \in Workers, Tick(w) PROVE PanelMove(v)
  <2>1. CASE SweepAbandoned(w)
    <3> DEFINE a == {r \in Runs : Abandoned(r)}
    <3>1. job' = [job EXCEPT ![w].pc = "spend", ![w].alerts = a]
      BY <2>1 DEF SweepAbandoned
    <3> HIDE DEF a
    <3> QED BY <3>1 DEF PanelMove, JobRecord
  <2>2. ASSUME NEW r \in Runs, AlertRunFailed(w, r) PROVE PanelMove(v)
    BY <2>2 DEF AlertRunFailed, PanelMove
  <2>3. CASE ReadSpend(w)
    BY <2>3 DEF ReadSpend, PanelMove
  <2>4. CASE ClaimNextRun(w)
    <3>1. PICK r, n : job' = [job EXCEPT ![w] =
              [AtTop EXCEPT !.pc = "plan", !.run = r, !.token = claims + 1, !.attempt = n]]
      BY <2>4 DEF ClaimNextRun
    <3>2. [AtTop EXCEPT !.pc = "plan", !.run = r, !.token = claims + 1, !.attempt = n].pc = "plan"
      BY DEF AtTop
    <3> QED BY <1>d, <3>1, <3>2
  <2> QED BY <1>1, <1>b, <2>1, <2>2, <2>3, <2>4 DEF Tick, NothingToClaim
<1>2. ASSUME NEW w \in Workers, ProcessRun(w) PROVE PanelMove(v)
  <2>g. ASSUME NEW pc, pc \notin {"panel", "store"}, job' = [job EXCEPT ![w].pc = pc]
        PROVE  PanelMove(v)
    BY <2>g DEF PanelMove
  <2>1. CASE PlanRun(w)
    <3>1. ASSUME NEW p, job' = [job EXCEPT ![w].pc = "answered", ![w].plan = p]
          PROVE  PanelMove(v)
      BY <3>1 DEF PanelMove
    <3> QED BY <2>1, <2>g, <3>1 DEF PlanRun, Goto
  <2>2. CASE PlanFails(w)
    BY <2>2 DEF PlanFails, PanelMove
  <2>3. CASE GenerateForRun(w)
    <3>1. ASSUME NEW p, job' = [job EXCEPT ![w].pc = "answered", ![w].plan = p]
          PROVE  PanelMove(v)
      BY <3>1 DEF PanelMove
    <3> QED BY <1>b, <2>3, <3>1 DEF GenerateForRun
  <2>4. CASE GenerateFails(w)
    BY <2>4 DEF GenerateFails, PanelMove
  <2>5. CASE ReadAnswered(w)
    <3>1. v # w => job'[v] = job[v]
      BY <2>5 DEF ReadAnswered
    <3> QED BY <2>5, <3>1 DEF PanelMove
  <2>6. CASE PanelReturns(w)
    <3>1. v # w => job'[v] = job[v]
      BY <2>6 DEF PanelReturns
    <3> QED BY <2>6, <3>1 DEF PanelMove
  <2>7. CASE PanelFails(w)
    BY <2>7 DEF PanelFails, PanelMove
  <2>8. CASE PanelAborted(w)
    BY <1>b, <2>8, <2>g DEF PanelAborted, Goto
  <2>9. CASE CompleteRun(w)
    BY <1>b, <2>9 DEF CompleteRun, StoreLost
  <2>10. CASE SaveProgress(w)
    <3>1. ASSUME NEW p,
                 job' = [job EXCEPT ![w].pc = "fail", ![w].cost = 0, ![w].permanent = p]
          PROVE  PanelMove(v)
      BY <3>1 DEF PanelMove
    <3> QED BY <1>b, <2>10, <3>1 DEF SaveProgress, StoreLost, ProgressSaved
  <2>11. CASE FailAttempt(w)
    BY <1>b, <2>11 DEF FailAttempt
  <2>12. CASE ReleaseRun(w)
    BY <1>b, <2>12 DEF ReleaseRun
  <2> QED BY <1>2, <2>1, <2>2, <2>3, <2>4, <2>5, <2>6, <2>7, <2>8, <2>9, <2>10, <2>11, <2>12
          DEF ProcessRun
<1>3. ASSUME NEW w \in Workers, Heartbeat(w) PROVE PanelMove(v)
  <2>1. CASE job' = [job EXCEPT ![w].aborted = TRUE]
    BY <2>1 DEF PanelMove
  <2> QED BY <1>3, <1>k, <2>1 DEF Heartbeat
<1>4. ASSUME NEW w \in Workers, DatabaseError(w) PROVE PanelMove(v)
  BY <1>4, <1>b, <1>e DEF DatabaseError, TickError, ClaimUnseen, RunError, StoreUnseen, FailureUnseen
<1>5. ASSUME NEW w \in Workers, Process(w) PROVE PanelMove(v)
  <2>1. CASE ShutdownRequested(w)
    BY <2>1 DEF ShutdownRequested, PanelMove
  <2> QED BY <1>5, <1>t, <1>d, <2>1
          DEF Process, Crash, KilledAfterGrace, Dies, WorkerStops, Restart
<1> QED BY <1>1, <1>2, <1>3, <1>4, <1>5, <1>k DEF Next, vars, TimePasses, Midnight, EditPanel
-----------------------------------------------------------------------------
(* Answers: what the tables hold *)

AnswerInv ==
  HolderKnowsAnswers /\ RowsWereAsked /\ UnfinishedRowsAreAnswers /\ OneRowPerQuestion

\* The rows that replace others are to questions that had no answer, one for each.
LEMMA ReplacedRowsAreOne ==
  ASSUME NEW old \in SUBSET ResultRow, NEW rows \in SUBSET ResultRow, NEW plan,
         NEW known, Answered(old) = known,
         \A x, y \in old : x.q = y.q => x = y,
         \A x \in rows : x.q \notin known,
         \A x, y \in rows : x.q = y.q => x = y
  PROVE  \A x, y \in ReplaceRows(old, rows, plan) : x.q = y.q => x = y
<1>1. ASSUME NEW x \in old, x.ok PROVE x.q \in known
  BY <1>1 DEF Answered
<1> QED BY <1>1 DEF ReplaceRows

LEMMA KnownNext ==
  ASSUME LeaseInv, AnswerInv, [Next]_vars
  PROVE  HolderKnowsAnswers'
<1> SUFFICES ASSUME NEW w \in Workers, job'[w].pc \in {"panel", "store"},
                    Holds(w, job[w].run)'
             PROVE  job'[w].known = Answered(result'[job'[w].run])
  BY DEF HolderKnowsAnswers, Holds
<1> DEFINE r == job'[w].run
<1>1. TypeOK /\ TypeOK' /\ LeaseInv'
  BY LeaseNext DEF LeaseInv
<1>2. r \in Runs /\ row'[r].lease = job'[w].token /\ row'[r].status = "running"
  BY <1>1 DEF LeaseInv, WorkersHoldClaims, Holds, Working
<1>3. CASE ReadAnswered(w)
  <2> DEFINE k == Answered(result[job[w].run])
             pc == IF job[w].plan \subseteq k THEN "store" ELSE "panel"
  <2>1. job' = [job EXCEPT ![w].known = k, ![w].rows = {}, ![w].pc = pc] /\ UNCHANGED result
    BY <1>3 DEF ReadAnswered
  <2> HIDE DEF k, pc
  <2>2. job'[w].known = k /\ job'[w].run = job[w].run /\ UNCHANGED result
    BY <1>1, <2>1 DEF TypeOK, JobRecord
  <2> QED BY <2>2 DEF k
<1>4. ASSUME job[w].pc \in {"panel", "store"}, job'[w].run = job[w].run,
             job'[w].token = job[w].token, job'[w].known = job[w].known
      PROVE  job'[w].known = Answered(result'[job'[w].run])
  <2>1. RunMove(r) /\ job[w].pc \in Working /\ job[w].token <= claims
    BY <1>1, <1>2, <1>4, RunMoves DEF LeaseInv, Working, WorkersHoldClaims, TypeOK, JobRecord
  <2>2. CASE RunKept(r)
    <3>1. Holds(w, r)
      BY <1>2, <1>4, <2>1, <2>2 DEF RunKept, Holds
    <3>2. job[w].known = Answered(result[r])
      BY <1>4, <3>1 DEF AnswerInv, HolderKnowsAnswers
    <3>3. CASE result'[r] = result[r]
      BY <1>4, <3>2, <3>3
    <3>4. ASSUME NEW u \in Workers, RunProgresses(u, r) PROVE FALSE
      <4>1. u = w
        BY <1>2, <3>1, <3>4, OneHolderNow DEF RunProgresses, OneHolder
      <4> QED BY <3>4, <4>1 DEF RunProgresses
    <3> QED BY <1>2, <1>4, <2>1, <2>2, <3>3, <3>4
            DEF RunMove, RunClaimed, RunAbandoned, RunCompletes, RunFails, RunReleased, RunKept
  <2>3. CASE ~RunKept(r)
    <3>1. row'[r].lease # claims + 1
      BY <1>1, <1>2, <1>4, <2>1 DEF TypeOK, JobRecord
    <3>2. row'[r].lease # 0
      BY <1>1, <1>2 DEF LeaseInv, LeaseIffRunning
    <3> QED BY <2>1, <2>3, <3>1, <3>2
            DEF RunMove, RunClaimed, RunAbandoned, RunProgresses, RunCompletes, RunFails,
                RunReleased
  <2> QED BY <2>2, <2>3
<1>5. CASE PanelReturns(w)
  <2>1. PICK rows, n : job' = [job EXCEPT ![w].pc = "store", ![w].rows = rows, ![w].cost = n]
    BY <1>5 DEF PanelReturns
  <2>2. /\ job[w].pc = "panel" /\ job'[w].run = job[w].run
        /\ job'[w].token = job[w].token /\ job'[w].known = job[w].known
    BY <1>1, <1>5, <2>1 DEF PanelReturns, At, TypeOK, JobRecord
  <2> QED BY <1>4, <2>2
<1> QED BY <1>1, <1>3, <1>4, <1>5, PanelMoves DEF PanelMove

LEMMA AskedNext ==
  ASSUME TypeOK, RowsWereAsked, [Next]_vars
  PROVE  RowsWereAsked'
<1> SUFFICES ASSUME NEW w \in Workers, job'[w].pc = "store"
             PROVE  /\ \A x \in job'[w].rows : x.q \in job'[w].plan /\ x.q \notin job'[w].known
                    /\ \A x, y \in job'[w].rows : x.q = y.q => x = y
  BY DEF RowsWereAsked
<1>1. CASE PanelReturns(w)
  <2>1. PICK good \in SUBSET ToAsk(w) :
          job' = [job EXCEPT ![w].pc = "store",
            ![w].rows = {[q |-> q, ok |-> q \in good, lease |-> job[w].token] : q \in ToAsk(w)},
            ![w].cost = AskCost * Cardinality(good)]
    BY <1>1 DEF PanelReturns
  <2> DEFINE rows == {[q |-> q, ok |-> q \in good, lease |-> job[w].token] : q \in ToAsk(w)}
             n == AskCost * Cardinality(good)
  <2>2. \A x \in rows : x.q \in job[w].plan /\ x.q \notin job[w].known
    BY DEF ToAsk
  <2>3. \A x, y \in rows : x.q = y.q => x = y
    OBVIOUS
  <2>4. job' = [job EXCEPT ![w].pc = "store", ![w].rows = rows, ![w].cost = n]
    BY <2>1
  <2> HIDE DEF rows, n
  <2>5. job'[w].rows = rows /\ job'[w].plan = job[w].plan /\ job'[w].known = job[w].known
    BY <2>4 DEF TypeOK, JobRecord
  <2> QED BY <2>2, <2>3, <2>5
<1>2. CASE ReadAnswered(w)
  <2>1. PICK k, pc : job' = [job EXCEPT ![w].known = k, ![w].rows = {}, ![w].pc = pc]
    BY <1>2 DEF ReadAnswered
  <2>2. job'[w].rows = {}
    BY <2>1 DEF TypeOK, JobRecord
  <2> QED BY <2>2
<1>3. CASE job[w].pc = "store" /\ job'[w].plan = job[w].plan /\ job'[w].known = job[w].known
           /\ job'[w].rows = job[w].rows
  BY <1>3 DEF RowsWereAsked
<1> QED BY <1>1, <1>2, <1>3, PanelMoves DEF PanelMove

LEMMA RowsNext ==
  ASSUME LeaseInv, AnswerInv, [Next]_vars
  PROVE  UnfinishedRowsAreAnswers' /\ OneRowPerQuestion'
<1>1. TypeOK /\ WorkersHoldClaims
  BY DEF LeaseInv
<1>2. ASSUME NEW r \in Runs
      PROVE  /\ row'[r].status # "done" => \A x \in result'[r] : x.ok
             /\ \A x, y \in result'[r] : x.q = y.q => x = y
  <2>1. RunMove(r)
    BY RunMoves DEF LeaseInv
  <2>2. /\ row[r].status # "done" => \A x \in result[r] : x.ok
        /\ \A x, y \in result[r] : x.q = y.q => x = y
    BY DEF AnswerInv, UnfinishedRowsAreAnswers, OneRowPerQuestion
  <2>s. ASSUME NEW w \in Workers, Holds(w, r), job[w].pc = "store",
               NEW rows \in SUBSET job[w].rows,
               result'[r] = ReplaceRows(result[r], rows, job[w].plan)
        PROVE  \A x, y \in result'[r] : x.q = y.q => x = y
    <3>1. job[w].run = r
      BY <2>s DEF Holds
    <3>2. job[w].known = Answered(result[r])
      BY <2>s, <3>1 DEF AnswerInv, HolderKnowsAnswers
    <3>3. /\ \A x \in rows : x.q \notin job[w].known
          /\ \A x, y \in rows : x.q = y.q => x = y
      BY <2>s DEF AnswerInv, RowsWereAsked
    <3>4. result[r] \in SUBSET ResultRow /\ rows \in SUBSET ResultRow
      BY <1>1 DEF TypeOK, JobRecord
    <3> QED BY <2>2, <2>s, <3>2, <3>3, <3>4, ReplacedRowsAreOne
  <2>3. CASE result'[r] = result[r] /\ (row[r].status # "done" \/ RunKept(r))
    BY <2>2, <2>3 DEF RunKept
  <2>4. ASSUME NEW w \in Workers, RunProgresses(w, r)
        PROVE  /\ row'[r].status # "done" => \A x \in result'[r] : x.ok
               /\ \A x, y \in result'[r] : x.q = y.q => x = y
    <3> DEFINE rows == {x \in job[w].rows : x.ok}
    <3>1. rows \in SUBSET job[w].rows /\ \A x \in rows : x.ok
      OBVIOUS
    <3>2. result'[r] = ReplaceRows(result[r], rows, job[w].plan)
      BY <2>4 DEF RunProgresses
    <3> HIDE DEF rows
    <3>3. \A x \in result'[r] : x.ok
      BY <3>1, <3>2 DEF ReplaceRows
    <3> QED BY <2>4, <2>s, <3>1, <3>2, <3>3 DEF RunProgresses
  <2>5. ASSUME NEW w \in Workers, RunCompletes(w, r)
        PROVE  /\ row'[r].status # "done" => \A x \in result'[r] : x.ok
               /\ \A x, y \in result'[r] : x.q = y.q => x = y
    <3>1. \A x, y \in result'[r] : x.q = y.q => x = y
      BY <2>5, <2>s DEF RunCompletes
    <3> QED BY <2>5, <3>1 DEF RunCompletes
  <2> QED BY <2>1, <2>3, <2>4, <2>5
          DEF RunMove, RunClaimed, RunAbandoned, RunFails, RunReleased, Holds
<1> QED BY <1>2 DEF UnfinishedRowsAreAnswers, OneRowPerQuestion

LEMMA AnswerInit == Init => AnswerInv /\ DoneReportIsSound
BY DEF Init, NewRow, AtTop, AnswerInv, HolderKnowsAnswers, RowsWereAsked,
       UnfinishedRowsAreAnswers, OneRowPerQuestion, DoneReportIsSound

LEMMA AnswerNext ==
  ASSUME LeaseInv, AnswerInv, [Next]_vars
  PROVE  AnswerInv'
<1>1. RowsWereAsked'
  BY AskedNext DEF LeaseInv, AnswerInv
<1> QED BY <1>1, KnownNext, RowsNext DEF AnswerInv

\* decideOutcome completes a run only with at least half of its plan answered.
LEMMA CompleteIsHalf ==
  ASSUME NEW total \in Nat, NEW answered \in Nat, NEW attempt,
         DecideOutcome(total, answered, attempt) = "complete"
  PROVE  answered > 0 /\ answered * 2 >= total
BY DEF DecideOutcome

\* The answers completeRun counts are those decideOutcome counted.
LEMMA CountedAnswers ==
  ASSUME NEW old, NEW rows, NEW plan, \A x \in rows : x.q \in plan
  PROVE  Answered(ReplaceRows(old, rows, plan)) = plan \cap (Answered(old) \cup Answered(rows))
BY DEF Answered, ReplaceRows

LEMMA DoneNext ==
  ASSUME LeaseInv, AnswerInv, DoneReportIsSound, [Next]_vars
  PROVE  DoneReportIsSound'
<1>1. TypeOK
  BY DEF LeaseInv
<1> SUFFICES ASSUME NEW r \in Runs, row'[r].status = "done"
             PROVE  /\ row'[r].count = Cardinality(Answered(result'[r]))
                    /\ {x.q : x \in result'[r]} \subseteq row'[r].plan
                    /\ row'[r].count > 0 /\ row'[r].count * 2 >= Cardinality(row'[r].plan)
  BY DEF DoneReportIsSound
<1>2. RunMove(r)
  BY RunMoves DEF LeaseInv
<1>3. CASE RunKept(r) /\ result'[r] = result[r]
  BY <1>3 DEF RunKept, DoneReportIsSound
<1>4. ASSUME NEW w \in Workers, RunCompletes(w, r)
      PROVE  /\ row'[r].count = Cardinality(Answered(result'[r]))
             /\ {x.q : x \in result'[r]} \subseteq row'[r].plan
             /\ row'[r].count > 0 /\ row'[r].count * 2 >= Cardinality(row'[r].plan)
  <2> DEFINE rows == job[w].rows
             plan == job[w].plan
             n == Cardinality(plan \cap (job[w].known \cup Answered(rows)))
  <2>1. /\ Holds(w, r) /\ job[w].pc = "store" /\ job[w].run = r /\ Outcome(w) = "complete"
        /\ result'[r] = ReplaceRows(result[r], rows, plan)
        /\ row'[r].count = Cardinality(Answered(result'[r])) /\ row'[r].plan = plan
    BY <1>4 DEF RunCompletes, Holds
  <2>2. job[w].known = Answered(result[r]) /\ \A x \in rows : x.q \in plan
    BY <2>1 DEF AnswerInv, HolderKnowsAnswers, RowsWereAsked
  <2>3. row'[r].count = n
    BY <2>1, <2>2, CountedAnswers
  <2>4. {x.q : x \in result'[r]} \subseteq plan
    BY <2>1, <2>2 DEF ReplaceRows
  <2>5. Cardinality(plan) \in Nat /\ n \in Nat
    <3>1. plan \subseteq Questions
      BY <1>1, PlansAssumption DEF TypeOK, JobRecord, NoPlan
    <3> QED BY <3>1, QuestionsAssumption, FS_Subset, FS_CardinalityType
  <2>6. n > 0 /\ n * 2 >= Cardinality(plan)
    <3>1. DecideOutcome(Cardinality(plan), n, job[w].attempt) = "complete"
      BY <2>1 DEF Outcome
    <3> HIDE DEF n, plan
    <3> QED BY <2>5, <3>1, CompleteIsHalf
  <2> QED BY <2>1, <2>3, <2>4, <2>6
<1>5. ASSUME NEW w \in Workers, RunProgresses(w, r) PROVE FALSE
  BY <1>5 DEF RunProgresses, RunKept, Holds
<1> QED BY <1>2, <1>3, <1>4, <1>5
        DEF RunMove, RunClaimed, RunAbandoned, RunFails, RunReleased

THEOREM AnswerInvariant == Spec => [](AnswerInv /\ DoneReportIsSound)
<1>1. LeaseInv /\ AnswerInv /\ DoneReportIsSound /\ [Next]_vars
        => (AnswerInv /\ DoneReportIsSound)'
  BY AnswerNext, DoneNext
<1> QED BY <1>1, AnswerInit, LeaseInvariant, PTL DEF Spec

\* No run ever has two rows for one question.
THEOREM RowsAreUnique == Spec => []OneRowPerQuestion
<1>1. AnswerInv => OneRowPerQuestion
  BY DEF AnswerInv
<1> QED BY <1>1, AnswerInvariant, PTL

\* A finished report counts the answers stored for it, which cover half its plan.
THEOREM ReportsAreSound == Spec => []DoneReportIsSound
BY AnswerInvariant, PTL

\* A stored answer is only dropped by the holder of its run, planning without it.
THEOREM StoredAnswersAreKept == Spec => AnswersKept
<1>1. ASSUME LeaseInv, [Next]_vars, NEW r \in Runs, NEW x \in result[r], x.ok,
             x \notin result'[r]
      PROVE  \E w \in Workers : Holds(w, r) /\ x.q \notin job[w].plan
  <2>1. RunMove(r)
    BY <1>1, RunMoves DEF LeaseInv
  <2>2. PICK w \in Workers : RunProgresses(w, r) \/ RunCompletes(w, r)
    BY <1>1, <2>1 DEF RunMove, RunClaimed, RunAbandoned, RunFails, RunReleased
  <2> QED BY <1>1, <2>2 DEF RunProgresses, RunCompletes, ReplaceRows
<1>2. LeaseInv /\ [Next]_vars =>
        [\A r \in Runs : \A x \in result[r] :
           x.ok /\ x \notin result'[r] =>
             \E w \in Workers : Holds(w, r) /\ x.q \notin job[w].plan]_vars
  BY <1>1
<1> QED BY <1>2, LeaseInvariant, PTL DEF Spec, AnswersKept
-----------------------------------------------------------------------------
(* Alerts *)

AlertInv == PendingAlertsAreFirst /\ AlertsAreTrueAndSingle

NoNewAlert ==
  /\ \A v \in Workers : job'[v].alerts \subseteq job[v].alerts
  /\ \A r \in Runs : hist'[r].alerts = hist[r].alerts

FailureAlerted(w) ==
  /\ job[w].pc \in Working /\ TokenMatches(w) /\ WriteFailure(w) /\ Final(w)
  /\ BackToTop(w, {job[w].run})

AlertMove ==
  \/ NoNewAlert
  \/ \E w \in Workers : \/ SweepAbandoned(w) \/ \E r \in Runs : AlertRunFailed(w, r)
                         \/ FailureAlerted(w)

LEMMA AlertMoves ==
  ASSUME TypeOK, WorkersHoldClaims, [Next]_vars
  PROVE  AlertMove
<1> USE DEF TypeOK
<1>r. ASSUME NEW w \in Workers, job[w].pc \in Working PROVE job[w].run \in Runs
  BY <1>r DEF WorkersHoldClaims
<1>t. AtTop.alerts = {} /\ Down.alerts = {}
  BY DEF AtTop, Down
<1>d. ASSUME NEW w \in Workers, NEW j, j.alerts = {}, job' = [job EXCEPT ![w] = j],
             \A r \in Runs : hist'[r].alerts = hist[r].alerts
      PROVE  AlertMove
  BY <1>d DEF AlertMove, NoNewAlert
<1>b. ASSUME NEW w \in Workers, BackToTop(w, {}),
             \A r \in Runs : hist'[r].alerts = hist[r].alerts
      PROVE  AlertMove
  <2>1. [AtTop EXCEPT !.alerts = {}].alerts = {}
    BY DEF AtTop
  <2> QED BY <1>b, <1>d, <2>1 DEF BackToTop
<1>s. ASSUME \A v \in Workers : job'[v].alerts = job[v].alerts,
             \A r \in Runs : hist'[r].alerts = hist[r].alerts
      PROVE  AlertMove
  BY <1>s DEF AlertMove, NoNewAlert
<1>e. ASSUME NEW w \in Workers, ErrorCaught(w),
             \A r \in Runs : hist'[r].alerts = hist[r].alerts
      PROVE  AlertMove
  <2>1. CASE job' = [job EXCEPT ![w].pc = "fail", ![w].permanent = FALSE, ![w].caught = TRUE]
    BY <1>e, <1>s, <2>1 DEF JobRecord
  <2> QED BY <1>b, <1>e, <2>1 DEF ErrorCaught
<1>h. ASSUME NEW r \in Runs, NEW n, Bill(r, n)
      PROVE  \A s \in Runs : hist'[s].alerts = hist[s].alerts
  BY <1>h DEF Bill, HistRecord
<1>1. ASSUME NEW w \in Workers, Tick(w) PROVE AlertMove
  <2>1. CASE ReadSpend(w)
    BY <1>s, <2>1 DEF ReadSpend, JobRecord
  <2>2. CASE ClaimNextRun(w)
    <3>1. PICK r, n : job' = [job EXCEPT ![w] =
              [AtTop EXCEPT !.pc = "plan", !.run = r, !.token = claims + 1, !.attempt = n]]
      BY <2>2 DEF ClaimNextRun
    <3>2. [AtTop EXCEPT !.pc = "plan", !.run = r, !.token = claims + 1, !.attempt = n].alerts = {}
      BY DEF AtTop
    <3>3. UNCHANGED hist
      BY <2>2 DEF ClaimNextRun
    <3> QED BY <1>d, <3>1, <3>2, <3>3
  <2> QED BY <1>1, <1>b, <2>1, <2>2 DEF Tick, NothingToClaim, AlertMove
<1>2. ASSUME NEW w \in Workers, ProcessRun(w) PROVE AlertMove
  <2>1. CASE PlanRun(w)
    <3>1. ASSUME NEW p, job' = [job EXCEPT ![w].pc = "answered", ![w].plan = p]
          PROVE  AlertMove
      BY <1>s, <2>1, <3>1 DEF PlanRun, JobRecord
    <3>2. CASE job' = [job EXCEPT ![w].pc = "generate"]
      BY <1>s, <2>1, <3>2 DEF PlanRun, JobRecord
    <3> QED BY <2>1, <3>1, <3>2 DEF PlanRun, Goto
  <2>2. CASE PlanFails(w)
    BY <1>s, <2>2 DEF PlanFails, JobRecord
  <2>3. CASE GenerateForRun(w)
    <3>1. \A s \in Runs : hist'[s].alerts = hist[s].alerts
      BY <1>h, <1>r, <2>3 DEF GenerateForRun, At, Working
    <3>2. ASSUME NEW p, job' = [job EXCEPT ![w].pc = "answered", ![w].plan = p]
          PROVE  AlertMove
      BY <1>s, <3>1, <3>2 DEF JobRecord
    <3> QED BY <1>b, <2>3, <3>1, <3>2 DEF GenerateForRun
  <2>4. CASE GenerateFails(w)
    <3>1. \A s \in Runs : hist'[s].alerts = hist[s].alerts
      BY <1>h, <1>r, <2>4 DEF GenerateFails, At, Working
    <3> QED BY <1>s, <2>4, <3>1 DEF GenerateFails, JobRecord
  <2>5. CASE ReadAnswered(w)
    <3>1. PICK k, pc : job' = [job EXCEPT ![w].known = k, ![w].rows = {}, ![w].pc = pc]
      BY <2>5 DEF ReadAnswered
    <3> QED BY <1>s, <2>5, <3>1 DEF ReadAnswered, JobRecord
  <2>6. CASE PanelReturns(w)
    <3>1. \A s \in Runs : hist'[s].alerts = hist[s].alerts
      BY <1>h, <1>r, <2>6 DEF PanelReturns, At, Working
    <3>2. PICK rows, n : job' = [job EXCEPT ![w].pc = "store", ![w].rows = rows, ![w].cost = n]
      BY <2>6 DEF PanelReturns
    <3> QED BY <1>s, <3>1, <3>2 DEF JobRecord
  <2>7. CASE PanelFails(w)
    <3>1. \A s \in Runs : hist'[s].alerts = hist[s].alerts
      BY <1>h, <1>r, <2>7 DEF PanelFails, At, Working
    <3> QED BY <1>s, <2>7, <3>1 DEF PanelFails, JobRecord
  <2>8. CASE PanelAborted(w)
    <3>1. \A s \in Runs : hist'[s].alerts = hist[s].alerts
      BY <1>h, <1>r, <2>8 DEF PanelAborted, At, Working
    <3>2. CASE job' = [job EXCEPT ![w].pc = "release"]
      BY <1>s, <3>1, <3>2 DEF JobRecord
    <3> QED BY <1>b, <2>8, <3>1, <3>2 DEF PanelAborted, Goto
  <2>9. CASE CompleteRun(w)
    BY <1>b, <2>9 DEF CompleteRun, StoreLost
  <2>10. CASE SaveProgress(w)
    <3>1. ASSUME NEW p,
                 job' = [job EXCEPT ![w].pc = "fail", ![w].cost = 0, ![w].permanent = p]
          PROVE  AlertMove
      BY <1>s, <2>10, <3>1 DEF SaveProgress, JobRecord
    <3> QED BY <1>b, <2>10, <3>1 DEF SaveProgress, StoreLost, ProgressSaved
  <2>11. CASE FailAttempt(w)
    <3>1. job[w].run \in Runs /\ job[w].pc \in Working
      BY <1>r, <2>11 DEF FailAttempt, At, Working
    <3>2. CASE TokenMatches(w) /\ Final(w)
      BY <2>11, <3>1, <3>2 DEF FailAttempt, AlertMove, FailureAlerted
    <3>3. CASE TokenMatches(w) /\ ~Final(w)
      <4>1. BackToTop(w, {}) /\ WriteFailure(w)
        BY <2>11, <3>3 DEF FailAttempt
      <4>2. \A r \in Runs : hist'[r].alerts = hist[r].alerts
        BY <3>1, <4>1 DEF WriteFailure, HistRecord
      <4> QED BY <1>b, <4>1, <4>2
    <3>4. CASE ~TokenMatches(w)
      BY <1>b, <2>11, <3>4 DEF FailAttempt
    <3> QED BY <3>2, <3>3, <3>4
  <2>12. CASE ReleaseRun(w)
    BY <1>b, <2>12 DEF ReleaseRun
  <2> QED BY <1>2, <2>1, <2>2, <2>3, <2>4, <2>5, <2>6, <2>7, <2>8, <2>9, <2>10, <2>11, <2>12
          DEF ProcessRun
<1>3. ASSUME NEW w \in Workers, Heartbeat(w) PROVE AlertMove
  <2>1. CASE job' = [job EXCEPT ![w].aborted = TRUE]
    BY <1>3, <1>s, <2>1 DEF Heartbeat, JobRecord
  <2> QED BY <1>3, <1>s, <2>1 DEF Heartbeat
<1>4. ASSUME NEW w \in Workers, DatabaseError(w) PROVE AlertMove
  <2>1. CASE FailureUnseen(w)
    <3>1. job[w].run \in Runs
      BY <1>r, <2>1 DEF FailureUnseen, At, Working
    <3>2. \A r \in Runs : hist'[r].alerts = hist[r].alerts
      BY <2>1, <3>1 DEF FailureUnseen, WriteFailure, HistRecord
    <3> QED BY <1>e, <2>1, <3>2 DEF FailureUnseen
  <2> QED BY <1>4, <1>b, <1>e, <2>1 DEF DatabaseError, TickError, ClaimUnseen, RunError, StoreUnseen
<1>5. ASSUME NEW w \in Workers, Process(w) PROVE AlertMove
  <2>1. CASE ShutdownRequested(w)
    <3> DEFINE a == job[w].pc \in Working
    <3>1. job' = [job EXCEPT ![w].aborted = a] /\ UNCHANGED hist
      BY <2>1 DEF ShutdownRequested
    <3> HIDE DEF a
    <3> QED BY <1>s, <3>1 DEF JobRecord
  <2> QED BY <1>5, <1>t, <1>d, <2>1
          DEF Process, Crash, KilledAfterGrace, Dies, WorkerStops, Restart
<1> QED BY <1>1, <1>2, <1>3, <1>4, <1>5, <1>s DEF Next, vars, TimePasses, Midnight, EditPanel

LEMMA AlertNext ==
  ASSUME LeaseInv, AlertInv, [Next]_vars
  PROVE  AlertInv'
<1>1. TypeOK /\ WorkersHoldClaims /\ LeaseIffRunning
  BY DEF LeaseInv
<1>f. ASSUME NEW r \in Runs, row[r].status = "failed" PROVE row'[r].status = "failed"
  BY <1>f, RunMoves DEF LeaseInv, RunMove, RunKept, RunClaimed, RunAbandoned, RunProgresses,
     RunCompletes, RunFails, RunReleased, Holds
<1>n. ASSUME NEW r \in Runs, row[r].status # "failed"
      PROVE  hist[r].alerts = 0 /\ \A v \in Workers : r \notin job[v].alerts
  <2>1. hist[r].alerts \in Nat
    BY <1>1 DEF TypeOK, HistRecord
  <2>2. hist[r].alerts <= 1 /\ hist[r].alerts # 1
    BY <1>n DEF AlertInv, AlertsAreTrueAndSingle
  <2> QED BY <1>n, <2>1, <2>2 DEF AlertInv, PendingAlertsAreFirst
<1>k. \A v \in Workers : \A r \in job[v].alerts : r \in Runs
  BY <1>1 DEF TypeOK, JobRecord
<1>2. CASE NoNewAlert
  BY <1>f, <1>k, <1>2 DEF NoNewAlert, AlertInv, AlertsAreTrueAndSingle, PendingAlertsAreFirst
<1>a. ASSUME NEW w \in Workers, NEW A \in SUBSET Runs,
             \A r \in A : row[r].status # "failed" /\ row'[r].status = "failed",
             job'[w].alerts = A, \A v \in Workers \ {w} : job'[v].alerts = job[v].alerts,
             \A r \in Runs : hist'[r].alerts = hist[r].alerts
      PROVE  AlertInv'
  BY <1>a, <1>f, <1>n, <1>k DEF AlertInv, AlertsAreTrueAndSingle, PendingAlertsAreFirst
<1>3. ASSUME NEW w \in Workers, SweepAbandoned(w) PROVE AlertInv'
  <2> DEFINE A == {r \in Runs : Abandoned(r)}
  <2>1. job' = [job EXCEPT ![w].pc = "spend", ![w].alerts = A] /\ UNCHANGED hist
    BY <1>3 DEF SweepAbandoned
  <2>2. \A r \in A : row[r].status # "failed" /\ row'[r].status = "failed"
    <3> SUFFICES ASSUME NEW r \in A PROVE row[r].status # "failed" /\ row'[r].status = "failed"
      OBVIOUS
    <3>1. row'[r] = [row[r] EXCEPT !.status = "failed", !.error = "abandoned",
                                   !.lease = 0, !.locked = "null"]
      BY <1>3 DEF SweepAbandoned
    <3> QED BY <1>1, <3>1 DEF Abandoned, TypeOK, RunRow
  <2>3. A \in SUBSET Runs
    OBVIOUS
  <2> HIDE DEF A
  <2>4. job'[w].alerts = A /\ \A v \in Workers \ {w} : job'[v].alerts = job[v].alerts
    BY <1>1, <2>1 DEF TypeOK, JobRecord
  <2> QED BY <1>a, <2>1, <2>2, <2>3, <2>4
<1>4. ASSUME NEW w \in Workers, NEW s \in Runs, AlertRunFailed(w, s) PROVE AlertInv'
  <2>1. /\ s \in job[w].alerts
        /\ job'[w].alerts = job[w].alerts \ {s}
        /\ \A v \in Workers \ {w} : job'[v].alerts = job[v].alerts
        /\ hist'[s].alerts = hist[s].alerts + 1
        /\ \A r \in Runs \ {s} : hist'[r].alerts = hist[r].alerts
        /\ UNCHANGED row
    BY <1>1, <1>4 DEF AlertRunFailed, TypeOK, JobRecord, HistRecord
  <2>2. row[s].status = "failed" /\ hist[s].alerts = 0 /\ \A v \in Workers : s \notin job'[v].alerts
    BY <2>1 DEF AlertInv, PendingAlertsAreFirst
  <2>3. AlertsAreTrueAndSingle'
    BY <2>1, <2>2 DEF AlertInv, AlertsAreTrueAndSingle
  <2>4. PendingAlertsAreFirst'
    BY <1>k, <2>1, <2>2 DEF AlertInv, PendingAlertsAreFirst
  <2> QED BY <2>3, <2>4 DEF AlertInv
<1>5. ASSUME NEW w \in Workers, FailureAlerted(w) PROVE AlertInv'
  <2>1. job[w].run \in Runs /\ Holds(w, job[w].run)
    BY <1>1, <1>5, HoldsByToken DEF FailureAlerted, WorkersHoldClaims
  <2>2. row[job[w].run].status # "failed" /\ row'[job[w].run].status = "failed"
    BY <1>1, <1>5, <2>1 DEF FailureAlerted, WriteFailure, Holds, TypeOK, RunRow
  <2>3. /\ job'[w].alerts = {job[w].run}
        /\ \A v \in Workers \ {w} : job'[v].alerts = job[v].alerts
    <3>1. [AtTop EXCEPT !.alerts = {job[w].run}].alerts = {job[w].run}
      BY DEF AtTop
    <3> QED BY <1>1, <1>5, <3>1 DEF FailureAlerted, BackToTop, TypeOK
  <2>4. \A r \in Runs : hist'[r].alerts = hist[r].alerts
    BY <1>1, <1>5, <2>1 DEF FailureAlerted, WriteFailure, TypeOK, HistRecord
  <2> QED BY <1>a, <2>1, <2>2, <2>3, <2>4
<1> QED BY <1>1, <1>2, <1>3, <1>4, <1>5, AlertMoves DEF AlertMove

LEMMA AlertInit == Init => AlertInv
BY DEF Init, NewRow, AtTop, AlertInv, PendingAlertsAreFirst, AlertsAreTrueAndSingle

\* The admin hears of a run at most once, and only of one that failed for good.
THEOREM AlertsAreSent == Spec => []AlertsAreTrueAndSingle
<1>1. LeaseInv /\ AlertInv /\ [Next]_vars => AlertInv'
  BY AlertNext
<1>2. AlertInv => AlertsAreTrueAndSingle
  BY DEF AlertInv
<1> QED BY <1>1, <1>2, AlertInit, LeaseInvariant, PTL DEF Spec

\* The whole invariant, which the runs check as one, holds in every reachable state.
THEOREM Invariance == Spec => []IInv
<1>1. LeaseInv /\ AlertInv /\ [Next]_vars => AlertInv'
  BY AlertNext
<1>2. LeaseInv /\ AnswerInv /\ AlertInv => IInv
  BY DEF LeaseInv, AnswerInv, AlertInv, IInv
<1> QED BY <1>1, <1>2, AlertInit, LeaseInvariant, AnswerInvariant, PTL DEF Spec
-----------------------------------------------------------------------------
(* The queue implements the lifecycle *)

\* Apart from the sweep and midnight, a step touches the tables of one run at most;
\* only a claim issues a token.
LEMMA OthersStay ==
  ASSUME TypeOK, [Next]_vars
  PROVE  /\ \/ \E w \in Workers : SweepAbandoned(w)
            \/ Midnight
            \/ \E x : \A s \in Runs : s # x => row'[s] = row[s] /\ result'[s] = result[s]
         /\ claims' = claims \/ \E r \in Runs : RunClaimed(r)
<1> USE DEF TypeOK
<1> DEFINE Stay(x) == \A s \in Runs : s # x => row'[s] = row[s] /\ result'[s] = result[s]
           Claims == claims' = claims \/ \E r \in Runs : RunClaimed(r)
<1>k. ASSUME UNCHANGED <<row, result>> PROVE \E x : Stay(x)
  BY <1>k
<1>c. ASSUME NEW w \in Workers, NEW r \in Runs, NextRun(w, r), ClaimRow(r),
             UNCHANGED <<result, hist>>
      PROVE  (\E x : Stay(x)) /\ Claims
  <2>1. /\ row'[r].status = "running" /\ row'[r].lease = claims + 1
        /\ row'[r].attempts = row[r].attempts + 1 /\ claims' = claims + 1
    BY <1>c DEF ClaimRow, RunRow
  <2>2. RunClaimed(r)
    BY <1>c, <2>1 DEF NextRun, Runnable, RunClaimed
  <2>3. Stay(r)
    BY <1>c DEF ClaimRow
  <2> QED BY <2>2, <2>3
<1>1. ASSUME NEW w \in Workers, Tick(w), ~SweepAbandoned(w) PROVE (\E x : Stay(x)) /\ Claims
  <2>1. CASE ClaimNextRun(w)
    BY <1>c, <2>1 DEF ClaimNextRun
  <2>2. CASE UNCHANGED <<row, result, claims>>
    BY <1>k, <2>2
  <2> QED BY <1>1, <2>1, <2>2 DEF Tick, AlertRunFailed, ReadSpend, NothingToClaim
<1>2. ASSUME NEW w \in Workers, ProcessRun(w) PROVE (\E x : Stay(x)) /\ Claims
  <2> DEFINE r == job[w].run
  <2>1. Claims
    BY <1>2 DEF ProcessRun, PlanRun, PlanFails, GenerateForRun, GenerateFails, ReadAnswered,
       PanelReturns, PanelFails, PanelAborted, CompleteRun, SaveProgress, FailAttempt, ReleaseRun
  <2>2. CASE GenerateForRun(w)
    <3>1. Stay(r)
      BY <2>2 DEF GenerateForRun
    <3> QED BY <2>1, <3>1
  <2>3. CASE GenerateFails(w)
    <3>1. Stay(r)
      BY <2>3 DEF GenerateFails
    <3> QED BY <2>1, <3>1
  <2>4. CASE CompleteRun(w)
    <3>1. CASE WriteComplete(w)
      BY <2>1, <3>1 DEF WriteComplete
    <3> QED BY <1>k, <2>1, <2>4, <3>1 DEF CompleteRun, StoreLost
  <2>5. CASE SaveProgress(w)
    <3>1. CASE WriteProgress(w)
      BY <2>1, <3>1 DEF WriteProgress
    <3> QED BY <1>k, <2>1, <2>5, <3>1 DEF SaveProgress, StoreLost
  <2>6. CASE FailAttempt(w)
    <3>1. Stay(r)
      BY <2>6 DEF FailAttempt, WriteFailure
    <3> QED BY <2>1, <3>1
  <2>7. CASE ReleaseRun(w)
    <3>1. Stay(r)
      BY <2>7 DEF ReleaseRun, WriteRelease
    <3> QED BY <2>1, <3>1
  <2> QED BY <1>k, <1>2, <2>1, <2>2, <2>3, <2>4, <2>5, <2>6, <2>7
          DEF ProcessRun, PlanRun, PlanFails, ReadAnswered, PanelReturns, PanelFails, PanelAborted
<1>3. ASSUME NEW w \in Workers, Heartbeat(w) PROVE (\E x : Stay(x)) /\ Claims
  <2>1. Stay(job[w].run)
    BY <1>3 DEF Heartbeat
  <2> QED BY <1>3, <2>1 DEF Heartbeat
<1>4. ASSUME NEW w \in Workers, DatabaseError(w) PROVE (\E x : Stay(x)) /\ Claims
  <2>1. CASE ClaimUnseen(w)
    BY <1>c, <2>1 DEF ClaimUnseen
  <2>2. CASE StoreUnseen(w)
    <3>1. Stay(job[w].run)
      BY <2>2 DEF StoreUnseen, WriteComplete, WriteProgress
    <3> QED BY <2>2, <3>1 DEF StoreUnseen
  <2>3. CASE FailureUnseen(w)
    <3>1. Stay(job[w].run)
      BY <2>3 DEF FailureUnseen, WriteFailure
    <3> QED BY <2>3, <3>1 DEF FailureUnseen
  <2> QED BY <1>k, <1>4, <2>1, <2>2, <2>3 DEF DatabaseError, TickError, RunError
<1>5. ASSUME NEW r \in Runs, TimePasses(r) PROVE (\E x : Stay(x)) /\ Claims
  <2>1. Stay(r)
    BY <1>5 DEF TimePasses
  <2> QED BY <1>5, <2>1 DEF TimePasses
<1>6. CASE (\E w \in Workers : SweepAbandoned(w)) \/ Midnight
  BY <1>6 DEF SweepAbandoned, Midnight
<1>7. CASE UNCHANGED <<row, result, claims>>
  BY <1>k, <1>7
<1>8. (\E w \in Workers : SweepAbandoned(w)) \/ Midnight \/ ((\E x : Stay(x)) /\ Claims)
  BY <1>1, <1>2, <1>3, <1>4, <1>5, <1>6, <1>7
     DEF Next, vars, Process, ShutdownRequested, WorkerStops, Crash, KilledAfterGrace,
         Dies, Restart, EditPanel
<1> QED BY <1>6, <1>8

LEMMA LifecycleInit == Init => Lifecycle!Init
BY DEF Init, NewRow, Answered, Lifecycle!Init

Moved == [Lifecycle!Next]_(Lifecycle!lifecycle)

\* A run as the lifecycle sees it.
Seen(r) == <<row[r].status, row[r].attempts, row[r].lease, Answered(result[r])>>
Unmoved(r) == UNCHANGED Seen(r)

LEMMA NothingMoves ==
  ASSUME \A r \in Runs : Unmoved(r), claims' = claims
  PROVE  Moved
BY DEF Unmoved, Seen, Moved, Lifecycle!lifecycle

LEMMA KeptIsUnmoved ==
  ASSUME NEW r \in Runs, RunKept(r), result'[r] = result[r]
  PROVE  Unmoved(r)
BY DEF RunKept, SameAttempt, Unmoved, Seen

\* When one run makes a move and the others none, the lifecycle makes the same move.
LEMMA OneRunMoves ==
  ASSUME LeaseInv, TypeOK', DoneReportIsSound', NEW r \in Runs, RunMove(r),
         \A s \in Runs \ {r} : Unmoved(s),
         claims' = claims \/ RunClaimed(r)
  PROVE  Moved
<1>1. TypeOK
  BY DEF LeaseInv
<1>2. Answered(result'[r]) \in SUBSET Questions
  BY AnsweredIsFinite DEF TypeOK
<1>o. \A s \in Runs \ {r} :
        /\ row'[s].status = row[s].status /\ row'[s].attempts = row[s].attempts
        /\ row'[s].lease = row[s].lease /\ Answered(result'[s]) = Answered(result[s])
  BY DEF Unmoved, Seen
<1>3. CASE RunClaimed(r)
  <2>1. Lifecycle!Claim(r)
    BY <1>o, <1>3 DEF RunClaimed, Lifecycle!Claim
  <2> QED BY <2>1 DEF Moved, Lifecycle!Next
<1>u. ASSUME ~RunClaimed(r) PROVE claims' = claims
  BY <1>u
<1>4. CASE RunKept(r) /\ result'[r] = result[r] /\ ~RunClaimed(r)
  BY <1>4, <1>u, KeptIsUnmoved, NothingMoves
<1>5. ASSUME NEW w \in Workers, RunProgresses(w, r), ~RunClaimed(r) PROVE Moved
  <2>1. Lifecycle!Progress(r)
    BY <1>2, <1>o, <1>5, <1>u DEF RunProgresses, RunKept, SameAttempt, Holds, Lifecycle!Progress
  <2> QED BY <2>1 DEF Moved, Lifecycle!Next
<1>6. ASSUME NEW w \in Workers, RunCompletes(w, r), ~RunClaimed(r) PROVE Moved
  <2>1. Answered(result'[r]) # {}
    <3>1. row'[r].count > 0 /\ row'[r].count = Cardinality(Answered(result'[r]))
      BY <1>6 DEF RunCompletes, DoneReportIsSound
    <3>2. Cardinality({}) = 0
      BY FS_EmptySet
    <3> QED BY <3>1, <3>2
  <2> DEFINE qs == Answered(result'[r])
  <2>2. /\ row[r].status = "running" /\ row'[r].status = "done" /\ row'[r].lease = 0
        /\ row'[r].attempts = row[r].attempts
    BY <1>6 DEF RunCompletes, SameAttempt, Holds
  <2>3. qs \in (SUBSET Questions) \ {{}}
    BY <1>2, <2>1
  <2>4. [s \in Runs |-> Answered(result'[s])]
          = [[s \in Runs |-> Answered(result[s])] EXCEPT ![r] = qs]
    BY <1>o
  <2> HIDE DEF qs
  <2>5. Lifecycle!LetGo(r, "done")
    BY <1>o, <1>6, <1>u, <2>2 DEF Lifecycle!LetGo
  <2>6. [s \in Runs |-> row'[s].attempts] = [s \in Runs |-> row[s].attempts]
    BY <1>o, <2>2
  <2>7. Lifecycle!Finish(r)
    BY <2>3, <2>4, <2>5, <2>6 DEF Lifecycle!Finish
  <2> QED BY <2>7 DEF Moved, Lifecycle!Next
<1>7. ASSUME NEW w \in Workers, RunFails(w, r), ~RunClaimed(r) PROVE Moved
  <2>1. CASE Final(w)
    <3>1. Lifecycle!Fail(r)
      BY <1>o, <1>7, <1>u, <2>1 DEF RunFails, Holds, Lifecycle!Fail, Lifecycle!LetGo
    <3> QED BY <3>1 DEF Moved, Lifecycle!Next
  <2>2. CASE ~Final(w)
    <3>1. row[r].attempts < MaxAttempts
      BY <1>1, <1>7, <2>2, NumberAssumption DEF RunFails, Holds, Final, TypeOK, RunRow
    <3>2. Lifecycle!Retry(r)
      BY <1>o, <1>7, <1>u, <2>2, <3>1 DEF RunFails, Holds, Lifecycle!Retry, Lifecycle!LetGo
    <3> QED BY <3>2 DEF Moved, Lifecycle!Next
  <2> QED BY <2>1, <2>2
<1>8. ASSUME NEW w \in Workers, RunReleased(w, r), ~RunClaimed(r) PROVE Moved
  <2>1. Lifecycle!Refund(r)
    BY <1>o, <1>8, <1>u DEF RunReleased, Holds, Lifecycle!Refund, Lifecycle!LetGo
  <2> QED BY <2>1 DEF Moved, Lifecycle!Next
<1>9. CASE RunAbandoned(r) /\ ~RunClaimed(r)
  <2>1. Lifecycle!Abandon({r})
    BY <1>o, <1>9, <1>u DEF RunAbandoned, SameAttempt, Lifecycle!Abandon
  <2> QED BY <2>1 DEF Moved, Lifecycle!Next
<1> QED BY <1>3, <1>4, <1>5, <1>6, <1>7, <1>8, <1>9 DEF RunMove

LEMMA LifecycleNext ==
  ASSUME LeaseInv, TypeOK', DoneReportIsSound', [Next]_vars
  PROVE  Moved
<1>1. TypeOK
  BY DEF LeaseInv
<1>2. CASE \E w \in Workers : SweepAbandoned(w)
  <2>1. PICK w \in Workers : SweepAbandoned(w)
    BY <1>2
  <2> DEFINE A == {r \in Runs : Abandoned(r)}
  <2>2. \A r \in A : row[r].status = "running" /\ row[r].attempts = MaxAttempts
    <3> SUFFICES ASSUME NEW r \in Runs, Abandoned(r)
                 PROVE  row[r].status = "running" /\ row[r].attempts = MaxAttempts
      OBVIOUS
    <3>1. row[r].attempts \in 0..MaxAttempts
      BY <1>1 DEF TypeOK, RunRow
    <3> QED BY <3>1, NumberAssumption DEF Abandoned
  <2>3. \A r \in Runs : /\ row'[r].status = IF r \in A THEN "failed" ELSE row[r].status
                        /\ row'[r].lease = IF r \in A THEN 0 ELSE row[r].lease
                        /\ row'[r].attempts = row[r].attempts
    <3> SUFFICES ASSUME NEW r \in Runs
                 PROVE  /\ row'[r].status = IF r \in A THEN "failed" ELSE row[r].status
                        /\ row'[r].lease = IF r \in A THEN 0 ELSE row[r].lease
                        /\ row'[r].attempts = row[r].attempts
      OBVIOUS
    <3>1. row[r] \in RunRow
      BY <1>1 DEF TypeOK
    <3>2. row'[r] = IF Abandoned(r)
                    THEN [row[r] EXCEPT !.status = "failed", !.error = "abandoned",
                                        !.lease = 0, !.locked = "null"]
                    ELSE row[r]
      BY <2>1 DEF SweepAbandoned
    <3> QED BY <3>1, <3>2 DEF RunRow
  <2>4. PICK B \in SUBSET Runs : B = A
    OBVIOUS
  <2>5. UNCHANGED <<result, claims>>
    BY <2>1 DEF SweepAbandoned
  <2> HIDE DEF A
  <2>6. Lifecycle!Abandon(B)
    BY <2>2, <2>3, <2>4, <2>5 DEF Lifecycle!Abandon
  <2> QED BY <2>6 DEF Moved, Lifecycle!Next
<1>3. CASE Midnight
  <2>1. ASSUME NEW r \in Runs PROVE Unmoved(r)
    <3>1. row'[r] \in {row[r], [row[r] EXCEPT !.started = "earlier"]} /\ UNCHANGED result
      BY <1>3 DEF Midnight
    <3> QED BY <1>1, <3>1 DEF Unmoved, Seen, TypeOK, RunRow
  <2> QED BY <1>3, <2>1, NothingMoves DEF Midnight
<1>4. CASE \E x : \A s \in Runs : s # x => row'[s] = row[s] /\ result'[s] = result[s]
  <2>1. PICK x : \A s \in Runs : s # x => row'[s] = row[s] /\ result'[s] = result[s]
    BY <1>4
  <2>2. \A s \in Runs : s # x => Unmoved(s)
    BY <2>1 DEF Unmoved, Seen
  <2>3. claims' = claims \/ \E r \in Runs : RunClaimed(r)
    BY <1>1, OthersStay
  <2>4. ASSUME NEW r \in Runs, RunClaimed(r) PROVE r = x
    <3>1. row[r].attempts \in Nat
      BY <1>1, NumberAssumption DEF TypeOK, RunRow
    <3> QED BY <2>1, <2>4, <3>1 DEF RunClaimed
  <2>5. CASE x \in Runs
    BY <2>2, <2>3, <2>4, <2>5, RunMoves, OneRunMoves DEF LeaseInv
  <2>6. CASE x \notin Runs
    BY <2>2, <2>3, <2>4, <2>6, NothingMoves
  <2> QED BY <2>5, <2>6
<1> QED BY <1>1, <1>2, <1>3, <1>4, OthersStay

\* Every behaviour of the queue is a behaviour of the lifecycle.
THEOREM QueueImplementsLifecycle == Spec => ImplementsLifecycle
<1>1. LeaseInv /\ TypeOK' /\ DoneReportIsSound' /\ [Next]_vars
        => [Lifecycle!Next]_(Lifecycle!lifecycle)
  BY LifecycleNext DEF Moved
<1> QED BY <1>1, LifecycleInit, LeaseInvariant, TypeCorrect, ReportsAreSound, PTL
        DEF Spec, ImplementsLifecycle, Lifecycle!Spec

-----------------------------------------------------------------------------
(* Costs: what is stored was billed *)

\* No write is taken back by a lost acknowledgement, which would make the next
\* one add its cost again.
WritesAreAcknowledged == "lostack" \notin Faults

\* A worker after a step has no cost to store, or the one it had for the same run.
JobCostKept(v) ==
  job'[v].pc \in Working =>
    \/ job'[v].cost = 0
    \/ /\ job[v].pc \in Working
       /\ job'[v].run = job[v].run /\ job'[v].token = job[v].token
       /\ job'[v].cost = job[v].cost

LEMMA JobCostMoves ==
  ASSUME TypeOK, [Next]_vars, NEW v \in Workers, ~PanelReturns(v)
  PROVE  JobCostKept(v)
<1> USE DEF TypeOK
<1>t. AtTop.pc \notin Working /\ Down.pc \notin Working
  BY DEF AtTop, Down, Working
<1>b. ASSUME NEW w \in Workers, NEW a, BackToTop(w, a) PROVE JobCostKept(v)
  <2>1. [AtTop EXCEPT !.alerts = a].pc \notin Working
    BY <1>t DEF AtTop
  <2> QED BY <1>b, <2>1 DEF BackToTop, JobCostKept
<1>d. ASSUME NEW w \in Workers, NEW j, j.pc \notin Working \/ j.cost = 0, job' = [job EXCEPT ![w] = j]
      PROVE  JobCostKept(v)
  BY <1>d DEF JobCostKept
<1>k. ASSUME UNCHANGED job PROVE JobCostKept(v)
  BY <1>k DEF JobCostKept
<1>e. ASSUME NEW w \in Workers, ErrorCaught(w), job[w].pc \in Working PROVE JobCostKept(v)
  <2>1. CASE job' = [job EXCEPT ![w].pc = "fail", ![w].permanent = FALSE, ![w].caught = TRUE]
    BY <1>e, <2>1 DEF JobCostKept
  <2> QED BY <1>b, <1>e, <2>1 DEF ErrorCaught
<1>1. ASSUME NEW w \in Workers, Tick(w) PROVE JobCostKept(v)
  <2>1. CASE SweepAbandoned(w)
    <3> DEFINE a == {r \in Runs : Abandoned(r)}
    <3>1. job' = [job EXCEPT ![w].pc = "spend", ![w].alerts = a]
      BY <2>1 DEF SweepAbandoned
    <3> HIDE DEF a
    <3> QED BY <3>1 DEF JobCostKept, Working
  <2>2. ASSUME NEW r \in Runs, AlertRunFailed(w, r) PROVE JobCostKept(v)
    BY <2>2 DEF AlertRunFailed, JobCostKept
  <2>3. CASE ReadSpend(w)
    BY <2>3 DEF ReadSpend, JobCostKept, Working
  <2>4. CASE ClaimNextRun(w)
    <3>1. PICK r, n : job' = [job EXCEPT ![w] =
              [AtTop EXCEPT !.pc = "plan", !.run = r, !.token = claims + 1, !.attempt = n]]
      BY <2>4 DEF ClaimNextRun
    <3>2. [AtTop EXCEPT !.pc = "plan", !.run = r, !.token = claims + 1, !.attempt = n].cost = 0
      BY DEF AtTop
    <3> QED BY <1>d, <3>1, <3>2
  <2> QED BY <1>1, <1>b, <2>1, <2>2, <2>3, <2>4 DEF Tick, NothingToClaim
<1>2. ASSUME NEW w \in Workers, ProcessRun(w) PROVE JobCostKept(v)
  <2>g. ASSUME NEW pc, job[w].pc \in Working, job' = [job EXCEPT ![w].pc = pc]
        PROVE  JobCostKept(v)
    BY <2>g DEF JobCostKept
  <2>p. ASSUME NEW p, job[w].pc \in Working, job' = [job EXCEPT ![w].pc = "answered", ![w].plan = p]
        PROVE  JobCostKept(v)
    BY <2>p DEF JobCostKept
  <2>1. CASE PlanRun(w)
    BY <2>1, <2>g, <2>p DEF PlanRun, Goto, At, Working
  <2>2. CASE PlanFails(w)
    BY <2>2 DEF PlanFails, JobCostKept, At, Working
  <2>3. CASE GenerateForRun(w)
    <3>1. job[w].pc \in Working
      BY <2>3 DEF GenerateForRun, At, Working
    <3> QED BY <1>b, <2>3, <2>p, <3>1 DEF GenerateForRun
  <2>4. CASE GenerateFails(w)
    BY <2>4 DEF GenerateFails, JobCostKept, At, Working
  <2>5. CASE ReadAnswered(w)
    <3> DEFINE k == Answered(result[job[w].run])
               pc == IF job[w].plan \subseteq k THEN "store" ELSE "panel"
    <3>1. /\ job' = [job EXCEPT ![w].known = k, ![w].rows = {}, ![w].pc = pc]
          /\ job[w].pc \in Working
      BY <2>5 DEF ReadAnswered, At, Working
    <3> HIDE DEF k, pc
    <3> QED BY <3>1 DEF JobCostKept
  <2>6. CASE PanelReturns(w)
    <3>1. v # w
      BY <2>6
    <3>2. job'[v] = job[v]
      BY <2>6, <3>1 DEF PanelReturns
    <3> QED BY <3>2 DEF JobCostKept
  <2>7. CASE PanelFails(w)
    BY <2>7 DEF PanelFails, JobCostKept, At, Working
  <2>8. CASE PanelAborted(w)
    BY <1>b, <2>8, <2>g DEF PanelAborted, Goto, At, Working
  <2>9. CASE CompleteRun(w)
    BY <1>b, <2>9 DEF CompleteRun, StoreLost
  <2>10. CASE SaveProgress(w)
    <3>1. ASSUME NEW p,
                 job' = [job EXCEPT ![w].pc = "fail", ![w].cost = 0, ![w].permanent = p]
          PROVE  JobCostKept(v)
      BY <2>10, <3>1 DEF JobCostKept, SaveProgress, At, Working
    <3> QED BY <1>b, <2>10, <3>1 DEF SaveProgress, StoreLost, ProgressSaved
  <2>11. CASE FailAttempt(w)
    BY <1>b, <2>11 DEF FailAttempt
  <2>12. CASE ReleaseRun(w)
    BY <1>b, <2>12 DEF ReleaseRun
  <2> QED BY <1>2, <2>1, <2>2, <2>3, <2>4, <2>5, <2>6, <2>7, <2>8, <2>9, <2>10, <2>11, <2>12
          DEF ProcessRun
<1>3. ASSUME NEW w \in Workers, Heartbeat(w) PROVE JobCostKept(v)
  <2>1. CASE job' = [job EXCEPT ![w].aborted = TRUE]
    BY <2>1 DEF JobCostKept
  <2> QED BY <1>3, <1>k, <2>1 DEF Heartbeat
<1>4. ASSUME NEW w \in Workers, DatabaseError(w) PROVE JobCostKept(v)
  BY <1>4, <1>b, <1>e
     DEF DatabaseError, TickError, ClaimUnseen, RunError, StoreUnseen, FailureUnseen, At, Working
<1>5. ASSUME NEW w \in Workers, Process(w) PROVE JobCostKept(v)
  <2>1. CASE ShutdownRequested(w)
    BY <2>1 DEF ShutdownRequested, JobCostKept
  <2> QED BY <1>5, <1>t, <1>d, <2>1
          DEF Process, Crash, KilledAfterGrace, Dies, WorkerStops, Restart, AtTop
<1> QED BY <1>1, <1>2, <1>3, <1>4, <1>5, <1>k DEF Next, vars, TimePasses, Midnight, EditPanel

\* A step adds to a run's cost no more than it bills to the run.
CostBilled(r) == row'[r].cost + hist[r].billed <= row[r].cost + hist'[r].billed

\* The holder of a run adds what it has to store, and has nothing left to store.
CostStored(w, r) ==
  /\ Holds(w, r) /\ row'[r].cost = row[r].cost + job[w].cost
  /\ hist'[r].billed = hist[r].billed
  /\ row'[r].lease = 0 \/ job'[w].cost = 0

CostMove(r) == CostBilled(r) \/ \E w \in Workers : CostStored(w, r)

LEMMA CostKept ==
  ASSUME TypeOK, NEW r \in Runs, row'[r].cost = row[r].cost, hist'[r].billed = hist[r].billed
  PROVE  CostMove(r)
BY DEF TypeOK, RunRow, HistRecord, CostMove, CostBilled

\* A bill for a run whose cost is added to it too, or is not.
LEMMA BillMoves ==
  ASSUME TypeOK, NEW s \in Runs, NEW n \in Nat, Bill(s, n),
         \/ UNCHANGED row
         \/ row' = [row EXCEPT ![s].cost = @ + n]
         \/ \E p \in Plans : row' = [row EXCEPT ![s].panel = p, ![s].cost = @ + n],
         NEW r \in Runs
  PROVE  CostMove(r)
<1>1. row[r].cost \in Nat /\ hist[r].billed \in Nat
  BY DEF TypeOK, RunRow, HistRecord
<1>2. CASE r = s
  <2>1. hist'[r].billed = hist[r].billed + n
    BY <1>2 DEF Bill, TypeOK, HistRecord
  <2>2. row'[r].cost \in {row[r].cost, row[r].cost + n}
    <3>1. CASE row' = [row EXCEPT ![s].cost = @ + n]
      BY <1>2, <3>1 DEF TypeOK, RunRow
    <3>2. ASSUME NEW p \in Plans, row' = [row EXCEPT ![s].panel = p, ![s].cost = @ + n]
          PROVE  row'[r].cost = row[r].cost + n
      <4> DEFINE f == [row EXCEPT ![s].panel = p]
      <4>1. f \in [Runs -> RunRow]
        BY RowFields DEF TypeOK
      <4>c. f[s].cost = row[s].cost
        BY DEF TypeOK, RunRow
      <4>2. row' = [f EXCEPT ![s].cost = f[s].cost + n]
        BY <3>2, <4>c DEF TypeOK
      <4> HIDE DEF f
      <4> QED BY <1>2, <4>1, <4>2, <4>c DEF RunRow
    <3> QED BY <1>2, <3>1, <3>2
  <2> QED BY <1>1, <2>1, <2>2 DEF CostMove, CostBilled
<1>3. CASE r # s
  <2>1. hist'[r] = hist[r] /\ row'[r] = row[r]
    BY <1>3 DEF Bill, TypeOK
  <2> QED BY <2>1, CostKept
<1> QED BY <1>2, <1>3

\* The three transactions that store a cost.
LEMMA StoreMoves ==
  ASSUME TypeOK, NEW w \in Workers, job[w].run \in Runs, Holds(w, job[w].run),
         \/ WriteComplete(w) /\ UNCHANGED hist
         \/ WriteProgress(w) /\ job'[w].cost = 0 /\ UNCHANGED hist
         \/ WriteFailure(w),
         NEW r \in Runs
  PROVE  CostMove(r)
<1> DEFINE s == job[w].run
           c == row[s].cost + job[w].cost
<1>1. CASE r = s
  <2>1. CASE WriteComplete(w) /\ UNCHANGED hist
    <3>1. PICK n : row' = [row EXCEPT ![s].status = "done", ![s].error = "none", ![s].count = n,
                                      ![s].cost = c, ![s].plan = job[w].plan,
                                      ![s].lease = 0, ![s].locked = "null"]
      BY <2>1 DEF WriteComplete
    <3> HIDE DEF c
    <3>2. row'[r].cost = c /\ row'[r].lease = 0
      BY <1>1, <3>1 DEF TypeOK, RunRow
    <3> QED BY <1>1, <2>1, <3>2 DEF CostMove, CostStored, c
  <2>2. CASE WriteProgress(w) /\ job'[w].cost = 0 /\ UNCHANGED hist
    <3>1. row'[r].cost = c
      BY <1>1, <2>2 DEF WriteProgress, TypeOK, RunRow
    <3> QED BY <1>1, <2>2, <3>1 DEF CostMove, CostStored
  <2>3. CASE WriteFailure(w)
    <3>1. PICK st, e : row' = [row EXCEPT ![s].status = st, ![s].error = e, ![s].cost = c,
                                          ![s].lease = 0, ![s].locked = "fresh"]
      BY <2>3 DEF WriteFailure
    <3> HIDE DEF c
    <3>2. row'[r].cost = c /\ row'[r].lease = 0
      BY <1>1, <3>1 DEF TypeOK, RunRow
    <3>3. hist'[r].billed = hist[r].billed
      BY <1>1, <2>3 DEF WriteFailure, TypeOK, HistRecord
    <3> QED BY <1>1, <3>2, <3>3 DEF CostMove, CostStored, c
  <2> QED BY <2>1, <2>2, <2>3
<1>2. CASE r # s
  <2>1. row'[r] = row[r] /\ hist'[r] = hist[r]
    BY <1>2 DEF WriteComplete, WriteProgress, WriteFailure, TypeOK
  <2> QED BY <2>1, CostKept
<1> QED BY <1>1, <1>2

LEMMA CostMoves ==
  ASSUME TypeOK, WorkersHoldClaims, LeaseIffRunning, WritesAreAcknowledged,
         [Next]_vars, NEW r \in Runs
  PROVE  CostMove(r)
<1> USE DEF TypeOK
<1>r. ASSUME NEW w \in Workers, job[w].pc \in Working PROVE job[w].run \in Runs
  BY <1>r DEF WorkersHoldClaims
<1>k. ASSUME UNCHANGED <<row, hist>> PROVE CostMove(r)
  BY <1>k, CostKept
<1>n. GenCost \in Nat /\ AskCost \in Nat
  BY NumberAssumption
<1>c. ASSUME NEW w \in Workers, NEW S \in SUBSET ToAsk(w) PROVE AskCost * Cardinality(S) \in Nat
  BY AskedIsFinite
<1>m. ASSUME NEW w \in Workers, NEW n \in 0..Cardinality(ToAsk(w)) PROVE AskCost * n \in Nat
  <2>1. Cardinality(ToAsk(w)) \in Nat
    BY AskedIsFinite
  <2> QED BY <1>n, <2>1
<1>1. ASSUME NEW w \in Workers, Tick(w) PROVE CostMove(r)
  <2>1. CASE SweepAbandoned(w)
    <3>1. /\ row'[r] \in {row[r], [row[r] EXCEPT !.status = "failed", !.error = "abandoned",
                                                 !.lease = 0, !.locked = "null"]}
          /\ UNCHANGED hist
      BY <2>1 DEF SweepAbandoned
    <3>2. row'[r].cost = row[r].cost
      BY <3>1 DEF RunRow
    <3> QED BY <3>1, <3>2, CostKept
  <2>2. ASSUME NEW s \in Runs, AlertRunFailed(w, s) PROVE CostMove(r)
    <3>1. hist'[r].billed = hist[r].billed /\ UNCHANGED row
      BY <2>2 DEF AlertRunFailed, HistRecord
    <3> QED BY <3>1, CostKept
  <2>3. CASE ClaimNextRun(w)
    <3>1. PICK s \in Runs : ClaimRow(s)
      BY <2>3 DEF ClaimNextRun
    <3>2. row'[r].cost = row[r].cost
      BY <3>1 DEF ClaimRow, RunRow
    <3> QED BY <2>3, <3>2, CostKept DEF ClaimNextRun
  <2> QED BY <1>k, <1>1, <2>1, <2>2, <2>3 DEF Tick, ReadSpend, NothingToClaim
<1>2. ASSUME NEW w \in Workers, ProcessRun(w) PROVE CostMove(r)
  <2>1. CASE GenerateForRun(w)
    <3>1. job[w].run \in Runs
      BY <1>r, <2>1 DEF GenerateForRun, At, Working
    <3>2. Bill(job[w].run, GenCost)
      BY <2>1 DEF GenerateForRun
    <3>3. \/ UNCHANGED row
          \/ \E p \in Plans :
               row' = [row EXCEPT ![job[w].run].panel = p, ![job[w].run].cost = @ + GenCost]
      BY <2>1 DEF GenerateForRun
    <3> QED BY <1>n, <3>1, <3>2, <3>3, BillMoves
  <2>2. CASE GenerateFails(w)
    <3>1. job[w].run \in Runs
      BY <1>r, <2>2 DEF GenerateFails, At, Working
    <3>2. PICK n \in {0, GenCost} :
            /\ UNCHANGED row \/ row' = [row EXCEPT ![job[w].run].cost = @ + n]
            /\ Bill(job[w].run, n)
      BY <2>2 DEF GenerateFails
    <3> QED BY <1>n, <3>1, <3>2, BillMoves
  <2>3. CASE PanelReturns(w)
    <3>1. job[w].run \in Runs
      BY <1>r, <2>3 DEF PanelReturns, At, Working
    <3>2. PICK good \in SUBSET ToAsk(w) : Bill(job[w].run, AskCost * Cardinality(good))
      BY <2>3 DEF PanelReturns
    <3> QED BY <1>c, <2>3, <3>1, <3>2, BillMoves DEF PanelReturns
  <2>4. CASE PanelFails(w) \/ PanelAborted(w)
    <3>1. job[w].run \in Runs
      BY <1>r, <2>4 DEF PanelFails, PanelAborted, At, Working
    <3>2. PICK n \in 0..Cardinality(ToAsk(w)) : Bill(job[w].run, AskCost * n)
      BY <2>4 DEF PanelFails, PanelAborted
    <3> QED BY <1>m, <2>4, <3>1, <3>2, BillMoves DEF PanelFails, PanelAborted
  <2>5. CASE CompleteRun(w)
    <3>1. job[w].run \in Runs
      BY <1>r, <2>5 DEF CompleteRun, At, Working
    <3> QED BY <1>k, <2>5, <3>1, StoreMoves DEF CompleteRun, StoreLost, LockRun
  <2>6. CASE SaveProgress(w)
    <3>1. job[w].run \in Runs
      BY <1>r, <2>6 DEF SaveProgress, At, Working
    <3>2. CASE LockRun(w) /\ WriteProgress(w) /\ ProgressSaved(w)
      <4>1. job'[w].cost = 0
        <5>1. PICK p : job' = [job EXCEPT ![w].pc = "fail", ![w].cost = 0, ![w].permanent = p]
          BY <3>2 DEF ProgressSaved
        <5> QED BY <5>1 DEF JobRecord
      <4> QED BY <2>6, <3>1, <3>2, <4>1, StoreMoves DEF SaveProgress, LockRun
    <3> QED BY <1>k, <2>6, <3>2 DEF SaveProgress, StoreLost
  <2>7. CASE FailAttempt(w)
    <3>1. job[w].run \in Runs /\ job[w].pc \in Working
      BY <1>r, <2>7 DEF FailAttempt, At, Working
    <3> QED BY <1>k, <2>7, <3>1, HoldsByToken, StoreMoves DEF FailAttempt
  <2>8. CASE ReleaseRun(w)
    <3>1. row'[r].cost = row[r].cost
      BY <2>8 DEF ReleaseRun, WriteRelease, RunRow
    <3> QED BY <2>8, <3>1, CostKept DEF ReleaseRun
  <2> QED BY <1>k, <1>2, <2>1, <2>2, <2>3, <2>4, <2>5, <2>6, <2>7, <2>8
          DEF ProcessRun, PlanRun, PlanFails, ReadAnswered
<1>3. ASSUME NEW w \in Workers, Heartbeat(w) PROVE CostMove(r)
  <2>1. row'[r].cost = row[r].cost /\ UNCHANGED hist
    BY <1>3 DEF Heartbeat, RunRow
  <2> QED BY <2>1, CostKept
<1>4. ASSUME NEW w \in Workers, DatabaseError(w) PROVE CostMove(r)
  BY <1>4, <1>k DEF DatabaseError, TickError, ClaimUnseen, RunError, StoreUnseen, FailureUnseen,
                    WritesAreAcknowledged
<1>5. ASSUME NEW s \in Runs, TimePasses(s) PROVE CostMove(r)
  <2>1. row'[r].cost = row[r].cost /\ UNCHANGED hist
    BY <1>5 DEF TimePasses, RunRow
  <2> QED BY <2>1, CostKept
<1>6. CASE Midnight
  <2>1. row'[r] \in {row[r], [row[r] EXCEPT !.started = "earlier"]} /\ UNCHANGED hist
    BY <1>6 DEF Midnight
  <2>2. row'[r].cost = row[r].cost
    BY <2>1 DEF RunRow
  <2> QED BY <2>1, <2>2, CostKept
<1> QED BY <1>k, <1>1, <1>2, <1>3, <1>4, <1>5, <1>6
        DEF Next, vars, Process, ShutdownRequested, WorkerStops, Crash, KilledAfterGrace,
            Dies, Restart, EditPanel

CostInv == CostNeverOverstated /\ CostIsCovered

LEMMA CostInit == Init => CostInv
BY DEF Init, CostInv, CostNeverOverstated, CostIsCovered, NewRow, AtTop, Working

\* A worker whose token matches after a step had it before, unless it just claimed.
LEMMA TokenMatchedBefore ==
  ASSUME LeaseInv, [Next]_vars, NEW v \in Workers,
         job[v].pc \in Working, job'[v].token = job[v].token, job'[v].run = job[v].run,
         TokenMatches(v)'
  PROVE  TokenMatches(v) /\ row'[job[v].run].lease # 0
<1>1. RunMove(job[v].run) /\ job[v].run \in Runs
  BY RunMoves DEF LeaseInv, WorkersHoldClaims
<1>2. job[v].token \in 1..claims /\ claims \in Nat
  BY DEF LeaseInv, WorkersHoldClaims, TypeOK
<1>3. row'[job[v].run].lease \in {row[job[v].run].lease, claims + 1, 0}
  BY <1>1 DEF RunMove, RunKept, RunClaimed, RunAbandoned, RunProgresses, RunCompletes,
              RunFails, RunReleased
<1> QED BY <1>2, <1>3 DEF TokenMatches

LEMMA CostNext ==
  ASSUME LeaseInv, CostInv, WritesAreAcknowledged, [Next]_vars
  PROVE  CostInv'
<1>t. TypeOK /\ TypeOK' /\ WorkersHoldClaims'
  BY LeaseNext DEF LeaseInv
<1>n. ASSUME NEW r \in Runs
      PROVE  /\ row[r].cost \in Nat /\ row'[r].cost \in Nat
             /\ hist[r].billed \in Nat /\ hist'[r].billed \in Nat
  BY <1>t DEF TypeOK, RunRow, HistRecord
<1>j. ASSUME NEW w \in Workers PROVE job[w].cost \in Nat /\ job'[w].cost \in Nat
  BY <1>t DEF TypeOK, JobRecord
<1>1. ASSUME NEW r \in Runs PROVE row'[r].cost <= hist'[r].billed
  <2>1. row[r].cost <= hist[r].billed
    BY DEF CostInv, CostNeverOverstated
  <2>2. CASE CostBilled(r)
    BY <1>n, <2>1, <2>2 DEF CostBilled
  <2>3. ASSUME NEW w \in Workers, CostStored(w, r) PROVE row'[r].cost <= hist'[r].billed
    BY <2>3 DEF CostStored, Holds, CostInv, CostIsCovered, TokenMatches
  <2> QED BY <2>2, <2>3, CostMoves DEF LeaseInv, CostMove
<1>2. ASSUME NEW v \in Workers, job'[v].pc \in Working, TokenMatches(v)'
      PROVE  row'[job'[v].run].cost + job'[v].cost <= hist'[job'[v].run].billed
  <2>r. job'[v].run \in Runs
    BY <1>t, <1>2 DEF WorkersHoldClaims
  <2>1. CASE job'[v].cost = 0
    BY <1>1, <1>n, <2>1, <2>r
  <2>2. CASE PanelReturns(v)
    <3>1. PICK good \in SUBSET ToAsk(v) :
            /\ job' = [job EXCEPT ![v].pc = "store",
                 ![v].rows = {[q |-> q, ok |-> q \in good, lease |-> job[v].token] : q \in ToAsk(v)},
                 ![v].cost = AskCost * Cardinality(good)]
            /\ Bill(job[v].run, AskCost * Cardinality(good))
      BY <2>2 DEF PanelReturns
    <3> DEFINE rows == {[q |-> q, ok |-> q \in good, lease |-> job[v].token] : q \in ToAsk(v)}
               n == AskCost * Cardinality(good)
    <3>2. job' = [job EXCEPT ![v].pc = "store", ![v].rows = rows, ![v].cost = n]
      BY <3>1
    <3>3. n \in Nat
      BY <1>t, AskedIsFinite
    <3>4. Bill(job[v].run, n) /\ UNCHANGED row
      BY <2>2, <3>1 DEF PanelReturns
    <3> HIDE DEF rows, n
    <3>5. job'[v].cost = n /\ job'[v].run = job[v].run
      BY <1>t, <3>2 DEF TypeOK, JobRecord
    <3>6. hist'[job[v].run].billed = hist[job[v].run].billed + n
      BY <1>t, <2>r, <3>4, <3>5 DEF Bill, TypeOK, HistRecord
    <3>7. row[job[v].run].cost <= hist[job[v].run].billed
      BY <2>r, <3>5 DEF CostInv, CostNeverOverstated
    <3> QED BY <1>n, <2>r, <3>3, <3>4, <3>5, <3>6, <3>7
  <2>3. CASE ~PanelReturns(v) /\ job'[v].cost # 0
    <3> DEFINE r == job[v].run
    <3>1. /\ job[v].pc \in Working /\ job'[v].run = r /\ job'[v].token = job[v].token
          /\ job'[v].cost = job[v].cost
      BY <1>2, <1>t, <2>3, JobCostMoves DEF JobCostKept
    <3>2. TokenMatches(v) /\ row'[r].lease # 0
      BY <1>2, <3>1, TokenMatchedBefore
    <3>3. row[r].cost + job[v].cost <= hist[r].billed
      BY <3>1, <3>2 DEF CostInv, CostIsCovered
    <3>4. CASE CostBilled(r)
      BY <1>n, <1>j, <2>r, <3>1, <3>3, <3>4 DEF CostBilled
    <3>5. ASSUME NEW w \in Workers, CostStored(w, r) PROVE FALSE
      <4>1. v = w
        BY <3>1, <3>2, <3>5 DEF CostStored, Holds, TokenMatches, LeaseInv, TokensDiffer
      <4> QED BY <2>3, <3>2, <3>5, <4>1 DEF CostStored
    <3> QED BY <2>r, <3>1, <3>4, <3>5, CostMoves DEF LeaseInv, CostMove
  <2> QED BY <2>1, <2>2, <2>3
<1> QED BY <1>1, <1>2 DEF CostInv, CostNeverOverstated, CostIsCovered

\* Over all its attempts a run never shows a cost that was not billed, as long as
\* no write that committed is reported as an error.
THEOREM CostsWereBilled == ASSUME WritesAreAcknowledged PROVE Spec => []CostNeverOverstated
<1>1. Init => LeaseInv /\ CostInv
  BY LeaseInit, CostInit
<1>2. (LeaseInv /\ CostInv) /\ [Next]_vars => (LeaseInv /\ CostInv)'
  BY WritesAreAcknowledged, LeaseNext, CostNext
<1>3. LeaseInv /\ CostInv => CostNeverOverstated
  BY DEF CostInv
<1> QED BY <1>1, <1>2, <1>3, PTL DEF Spec

-----------------------------------------------------------------------------
(* Generated panels: written once *)

\* A worker about to write a panel has just seen that its run has none, or was
\* there before.
GenerateMove(v) ==
  job'[v].pc = "generate" =>
    \/ PlanRun(v) /\ NeedsPanel(job[v].run) /\ job'[v].run = job[v].run
    \/ /\ job[v].pc = "generate"
       /\ job'[v].run = job[v].run /\ job'[v].token = job[v].token

LEMMA GenerateMoves ==
  ASSUME TypeOK, [Next]_vars, NEW v \in Workers
  PROVE  GenerateMove(v)
<1> USE DEF TypeOK
<1>t. AtTop.pc # "generate" /\ Down.pc # "generate"
  BY DEF AtTop, Down
<1>b. ASSUME NEW w \in Workers, NEW a, BackToTop(w, a) PROVE GenerateMove(v)
  <2>1. [AtTop EXCEPT !.alerts = a].pc # "generate"
    BY <1>t DEF AtTop
  <2> QED BY <1>b, <2>1 DEF BackToTop, GenerateMove
<1>d. ASSUME NEW w \in Workers, NEW j, j.pc # "generate", job' = [job EXCEPT ![w] = j]
      PROVE  GenerateMove(v)
  BY <1>d DEF GenerateMove
<1>k. ASSUME UNCHANGED job PROVE GenerateMove(v)
  BY <1>k DEF GenerateMove
<1>e. ASSUME NEW w \in Workers, ErrorCaught(w) PROVE GenerateMove(v)
  <2>1. CASE job' = [job EXCEPT ![w].pc = "fail", ![w].permanent = FALSE, ![w].caught = TRUE]
    BY <2>1 DEF GenerateMove, JobRecord
  <2> QED BY <1>b, <1>e, <2>1 DEF ErrorCaught
<1>1. ASSUME NEW w \in Workers, Tick(w) PROVE GenerateMove(v)
  <2>1. CASE SweepAbandoned(w)
    <3> DEFINE a == {r \in Runs : Abandoned(r)}
    <3>1. job' = [job EXCEPT ![w].pc = "spend", ![w].alerts = a]
      BY <2>1 DEF SweepAbandoned
    <3> HIDE DEF a
    <3> QED BY <3>1 DEF GenerateMove, JobRecord
  <2>2. ASSUME NEW r \in Runs, AlertRunFailed(w, r) PROVE GenerateMove(v)
    BY <2>2 DEF AlertRunFailed, GenerateMove
  <2>3. CASE ReadSpend(w)
    BY <2>3 DEF ReadSpend, GenerateMove
  <2>4. CASE ClaimNextRun(w)
    <3>1. PICK r, n : job' = [job EXCEPT ![w] =
              [AtTop EXCEPT !.pc = "plan", !.run = r, !.token = claims + 1, !.attempt = n]]
      BY <2>4 DEF ClaimNextRun
    <3>2. [AtTop EXCEPT !.pc = "plan", !.run = r, !.token = claims + 1, !.attempt = n].pc = "plan"
      BY DEF AtTop
    <3> QED BY <1>d, <3>1, <3>2
  <2> QED BY <1>1, <1>b, <2>1, <2>2, <2>3, <2>4 DEF Tick, NothingToClaim
<1>2. ASSUME NEW w \in Workers, ProcessRun(w) PROVE GenerateMove(v)
  <2>g. ASSUME NEW pc, pc # "generate", job' = [job EXCEPT ![w].pc = pc]
        PROVE  GenerateMove(v)
    BY <2>g DEF GenerateMove
  <2>p. ASSUME NEW p, job' = [job EXCEPT ![w].pc = "answered", ![w].plan = p]
        PROVE  GenerateMove(v)
    BY <2>p DEF GenerateMove
  <2>1. CASE PlanRun(w)
    <3>1. CASE NeedsPanel(job[w].run) /\ Goto(w, "generate")
      <4>1. job'[v].run = job[v].run /\ (v # w => job'[v] = job[v])
        BY <3>1 DEF Goto
      <4>2. CASE v = w
        BY <2>1, <3>1, <4>1, <4>2 DEF GenerateMove
      <4>3. CASE v # w
        BY <4>1, <4>3 DEF GenerateMove
      <4> QED BY <4>2, <4>3
    <3> QED BY <2>1, <2>p, <3>1 DEF PlanRun
  <2>2. CASE PlanFails(w)
    BY <2>2 DEF PlanFails, GenerateMove
  <2>3. CASE GenerateForRun(w)
    BY <1>b, <2>3, <2>p DEF GenerateForRun
  <2>4. CASE GenerateFails(w)
    BY <2>4 DEF GenerateFails, GenerateMove
  <2>5. CASE ReadAnswered(w)
    <3> DEFINE k == Answered(result[job[w].run])
               pc == IF job[w].plan \subseteq k THEN "store" ELSE "panel"
    <3>1. job' = [job EXCEPT ![w].known = k, ![w].rows = {}, ![w].pc = pc]
      BY <2>5 DEF ReadAnswered
    <3>2. pc # "generate"
      OBVIOUS
    <3> HIDE DEF k, pc
    <3> QED BY <3>1, <3>2 DEF GenerateMove
  <2>6. CASE PanelReturns(w)
    <3>1. PICK rows, n : job' = [job EXCEPT ![w].pc = "store", ![w].rows = rows, ![w].cost = n]
      BY <2>6 DEF PanelReturns
    <3> QED BY <3>1 DEF GenerateMove
  <2>7. CASE PanelFails(w)
    BY <2>7 DEF PanelFails, GenerateMove
  <2>8. CASE PanelAborted(w)
    BY <1>b, <2>8, <2>g DEF PanelAborted, Goto
  <2>9. CASE CompleteRun(w)
    BY <1>b, <2>9 DEF CompleteRun, StoreLost
  <2>10. CASE SaveProgress(w)
    <3>1. ASSUME NEW p,
                 job' = [job EXCEPT ![w].pc = "fail", ![w].cost = 0, ![w].permanent = p]
          PROVE  GenerateMove(v)
      BY <3>1 DEF GenerateMove
    <3> QED BY <1>b, <2>10, <3>1 DEF SaveProgress, StoreLost, ProgressSaved
  <2>11. CASE FailAttempt(w)
    BY <1>b, <2>11 DEF FailAttempt
  <2>12. CASE ReleaseRun(w)
    BY <1>b, <2>12 DEF ReleaseRun
  <2> QED BY <1>2, <2>1, <2>2, <2>3, <2>4, <2>5, <2>6, <2>7, <2>8, <2>9, <2>10, <2>11, <2>12
          DEF ProcessRun
<1>3. ASSUME NEW w \in Workers, Heartbeat(w) PROVE GenerateMove(v)
  <2>1. CASE job' = [job EXCEPT ![w].aborted = TRUE]
    BY <2>1 DEF GenerateMove
  <2> QED BY <1>3, <1>k, <2>1 DEF Heartbeat
<1>4. ASSUME NEW w \in Workers, DatabaseError(w) PROVE GenerateMove(v)
  BY <1>4, <1>b, <1>e
     DEF DatabaseError, TickError, ClaimUnseen, RunError, StoreUnseen, FailureUnseen
<1>5. ASSUME NEW w \in Workers, Process(w) PROVE GenerateMove(v)
  <2>1. CASE ShutdownRequested(w)
    BY <2>1 DEF ShutdownRequested, GenerateMove
  <2> QED BY <1>5, <1>t, <1>d, <2>1
          DEF Process, Crash, KilledAfterGrace, Dies, WorkerStops, Restart
<1> QED BY <1>1, <1>2, <1>3, <1>4, <1>5, <1>k DEF Next, vars, TimePasses, Midnight, EditPanel

\* Only the holder that generated a panel writes one to its run.
PanelColumnMove(r) ==
  row'[r].panel = row[r].panel \/ \E w \in Workers : GenerateForRun(w) /\ Holds(w, r)

LEMMA PanelColumnMoves ==
  ASSUME TypeOK, WorkersHoldClaims, [Next]_vars, NEW r \in Runs
  PROVE  PanelColumnMove(r)
<1> USE DEF TypeOK
<1>k. ASSUME UNCHANGED row PROVE PanelColumnMove(r)
  BY <1>k DEF PanelColumnMove
<1>c. ASSUME NEW w \in Workers, WriteComplete(w) PROVE PanelColumnMove(r)
  <2>1. PICK s, n, c, p :
          row' = [row EXCEPT ![s].status = "done", ![s].error = "none", ![s].count = n,
                             ![s].cost = c, ![s].plan = p, ![s].lease = 0, ![s].locked = "null"]
    BY <1>c DEF WriteComplete
  <2> QED BY <2>1 DEF PanelColumnMove, RunRow
<1>f. ASSUME NEW w \in Workers, WriteFailure(w) PROVE PanelColumnMove(r)
  <2>1. PICK s, st, e, c :
          row' = [row EXCEPT ![s].status = st, ![s].error = e, ![s].cost = c,
                             ![s].lease = 0, ![s].locked = "fresh"]
    BY <1>f DEF WriteFailure
  <2> QED BY <2>1 DEF PanelColumnMove, RunRow
<1>p. ASSUME NEW s, NEW c, row' = [row EXCEPT ![s].cost = c] PROVE PanelColumnMove(r)
  BY <1>p DEF PanelColumnMove, RunRow
<1>r. ASSUME NEW s \in Runs, ClaimRow(s) PROVE PanelColumnMove(r)
  BY <1>r DEF ClaimRow, PanelColumnMove, RunRow
<1>1. ASSUME NEW w \in Workers, Tick(w) PROVE PanelColumnMove(r)
  <2>1. CASE SweepAbandoned(w)
    <3>1. row'[r] \in {row[r], [row[r] EXCEPT !.status = "failed", !.error = "abandoned",
                                              !.lease = 0, !.locked = "null"]}
      BY <2>1 DEF SweepAbandoned
    <3> QED BY <3>1 DEF PanelColumnMove, RunRow
  <2> QED BY <1>1, <1>k, <1>r, <2>1 DEF Tick, ReadSpend, NothingToClaim, AlertRunFailed, ClaimNextRun
<1>2. ASSUME NEW w \in Workers, ProcessRun(w) PROVE PanelColumnMove(r)
  <2>1. CASE GenerateForRun(w)
    <3>1. CASE Holds(w, job[w].run)
      <4>1. CASE r = job[w].run
        BY <2>1, <3>1, <4>1 DEF PanelColumnMove
      <4>2. CASE r # job[w].run
        <5>1. row'[r] = row[r]
          BY <2>1, <3>1, <4>2 DEF GenerateForRun
        <5> QED BY <5>1 DEF PanelColumnMove
      <4> QED BY <4>1, <4>2
    <3> QED BY <1>k, <2>1, <3>1 DEF GenerateForRun
  <2>2. CASE GenerateFails(w)
    BY <1>k, <1>p, <2>2 DEF GenerateFails
  <2>3. CASE SaveProgress(w)
    BY <1>k, <1>p, <2>3 DEF SaveProgress, StoreLost, WriteProgress
  <2>4. CASE ReleaseRun(w)
    BY <1>k, <2>4 DEF ReleaseRun, WriteRelease, PanelColumnMove, RunRow
  <2> QED BY <1>2, <1>k, <1>c, <1>f, <2>1, <2>2, <2>3, <2>4
          DEF ProcessRun, PlanRun, PlanFails, ReadAnswered, PanelReturns, PanelFails, PanelAborted,
              CompleteRun, StoreLost, FailAttempt
<1>3. ASSUME NEW w \in Workers, Heartbeat(w) PROVE PanelColumnMove(r)
  BY <1>3 DEF Heartbeat, PanelColumnMove, RunRow
<1>4. ASSUME NEW w \in Workers, DatabaseError(w) PROVE PanelColumnMove(r)
  BY <1>4, <1>k, <1>c, <1>f, <1>p, <1>r
     DEF DatabaseError, TickError, ClaimUnseen, RunError, StoreUnseen, FailureUnseen, WriteProgress
<1>5. ASSUME NEW s \in Runs, TimePasses(s) PROVE PanelColumnMove(r)
  BY <1>5 DEF TimePasses, PanelColumnMove, RunRow
<1>6. CASE Midnight
  <2>1. row'[r] \in {row[r], [row[r] EXCEPT !.started = "earlier"]}
    BY <1>6 DEF Midnight
  <2> QED BY <2>1 DEF PanelColumnMove, RunRow
<1> QED BY <1>k, <1>1, <1>2, <1>3, <1>4, <1>5, <1>6
        DEF Next, vars, Process, ShutdownRequested, WorkerStops, Crash, KilledAfterGrace,
            Dies, Restart, EditPanel

LEMMA MissingInit == Init => PanelIsMissing
BY DEF Init, PanelIsMissing, AtTop

LEMMA MissingNext ==
  ASSUME LeaseInv, PanelIsMissing, [Next]_vars
  PROVE  PanelIsMissing'
<1> SUFFICES ASSUME NEW v \in Workers, job'[v].pc = "generate", Holds(v, job[v].run)'
             PROVE  row'[job'[v].run].panel = NoPlan
  BY DEF PanelIsMissing, Holds
<1>w. job'[v].pc \in Working
  BY DEF Working
<1>1. GenerateMove(v)
  BY GenerateMoves DEF LeaseInv
<1>2. CASE PlanRun(v) /\ NeedsPanel(job[v].run) /\ job'[v].run = job[v].run
  BY <1>2 DEF PlanRun, NeedsPanel
<1>3. CASE /\ job[v].pc = "generate"
           /\ job'[v].run = job[v].run /\ job'[v].token = job[v].token
  <2> DEFINE r == job[v].run
  <2>1. job[v].pc \in Working /\ r \in Runs
    BY <1>3 DEF Working, LeaseInv, WorkersHoldClaims
  <2>2. TokenMatches(v)
    BY <1>3, <2>1, TokenMatchedBefore DEF Holds, TokenMatches
  <2>3. Holds(v, r)
    BY <2>1, <2>2, HoldsByToken DEF LeaseInv
  <2>4. row[r].panel = NoPlan
    BY <1>3, <2>3 DEF PanelIsMissing
  <2>5. ASSUME NEW w \in Workers, GenerateForRun(w), Holds(w, r) PROVE FALSE
    <3>1. w = v
      BY <2>3, <2>5, OneHolderNow DEF OneHolder, LeaseInv, Holds, TokensDiffer
    <3>2. Holds(w, job[w].run)
      BY <2>3, <3>1
    <3>3. PICK p : job' = [job EXCEPT ![w].pc = "answered", ![w].plan = p]
      BY <2>5, <3>2 DEF GenerateForRun
    <3> QED BY <3>1, <3>3 DEF LeaseInv, TypeOK, JobRecord
  <2> QED BY <1>3, <2>1, <2>4, <2>5, PanelColumnMoves DEF PanelColumnMove, LeaseInv
<1> QED BY <1>1, <1>2, <1>3 DEF GenerateMove

\* A generated panel is written once, however often its run is retried or reclaimed.
THEOREM GeneratedPanelsAreKept == Spec => GeneratedPanelIsKept
<1>1. Init => LeaseInv /\ PanelIsMissing
  BY LeaseInit, MissingInit
<1>2. (LeaseInv /\ PanelIsMissing) /\ [Next]_vars => (LeaseInv /\ PanelIsMissing)'
  BY LeaseNext, MissingNext
<1>3. ASSUME LeaseInv, PanelIsMissing, [Next]_vars, NEW r \in Runs, row[r].panel # NoPlan
      PROVE  row'[r].panel = row[r].panel
  <2>1. ASSUME NEW w \in Workers, GenerateForRun(w), Holds(w, r) PROVE FALSE
    BY <1>3, <2>1 DEF GenerateForRun, At, Holds, PanelIsMissing
  <2> QED BY <1>3, <2>1, PanelColumnMoves DEF PanelColumnMove, LeaseInv
<1>4. (LeaseInv /\ PanelIsMissing) /\ [Next]_vars => [KeepsGeneratedPanels]_vars
  BY <1>3 DEF KeepsGeneratedPanels
<1> QED BY <1>1, <1>2, <1>4, PTL DEF Spec, GeneratedPanelIsKept

-----------------------------------------------------------------------------
(* The daily cap: with one worker, nothing is spent between reading and claiming *)

OneWorker == \A v, w \in Workers : v = w

LEMMA NothingSums == \A f : SumFunctionOnSet(f, {}) = 0
<1> SUFFICES ASSUME NEW f PROVE SumFunctionOnSet(f, {}) = 0
  OBVIOUS
<1> DEFINE ch(s) == CHOOSE x \in s : TRUE
           Sum(g, s) == IF s = {} THEN 0 ELSE f[ch(s)] + g[s \ {ch(s)}]
           iter == CHOOSE g : g = [s \in SUBSET {} |-> Sum(g, s)]
<1>1. \E g : g = [s \in SUBSET {} |-> Sum(g, s)]
  <2> DEFINE zero == [s \in SUBSET {} |-> 0]
  <2>1. zero = [s \in SUBSET {} |-> Sum(zero, s)]
    OBVIOUS
  <2> QED BY <2>1
<1>2. iter[{}] = 0
  BY <1>1
<1>3. SumFunctionOnSet(f, {}) = iter[{}]
  BY DEF SumFunctionOnSet, FoldFunctionOnSet, MapThenFoldSet
<1> QED BY <1>2, <1>3

\* A worker that is about to claim after a step has just read the spend, or was
\* about to claim before; then nothing was stored, and at most time passed.
ClaimStep(v) ==
  job'[v].pc = "claim" =>
    \/ UNCHANGED row /\ (job'[v].over <=> OverCap)
    \/ /\ job[v].pc = "claim" /\ job'[v].over = job[v].over
       /\ UNCHANGED row \/ Midnight \/ \E r \in Runs : TimePasses(r)

LEMMA ClaimSteps ==
  ASSUME TypeOK, OneWorker, [Next]_vars, NEW v \in Workers
  PROVE  ClaimStep(v)
<1> USE DEF TypeOK
<1>t. AtTop.pc # "claim" /\ Down.pc # "claim"
  BY DEF AtTop, Down
<1>b. ASSUME NEW w \in Workers, NEW a, BackToTop(w, a) PROVE ClaimStep(v)
  <2>1. [AtTop EXCEPT !.alerts = a].pc # "claim"
    BY <1>t DEF AtTop
  <2> QED BY <1>b, <2>1 DEF BackToTop, ClaimStep, OneWorker
<1>d. ASSUME NEW w \in Workers, NEW j, j.pc # "claim", job' = [job EXCEPT ![w] = j]
      PROVE  ClaimStep(v)
  BY <1>d DEF ClaimStep, OneWorker
<1>g. ASSUME NEW w \in Workers, job'[w].pc # "claim" PROVE ClaimStep(v)
  BY <1>g DEF ClaimStep, OneWorker
<1>k. ASSUME UNCHANGED <<job, row>> PROVE ClaimStep(v)
  BY <1>k DEF ClaimStep
<1>e. ASSUME NEW w \in Workers, ErrorCaught(w) PROVE ClaimStep(v)
  <2>1. CASE job' = [job EXCEPT ![w].pc = "fail", ![w].permanent = FALSE, ![w].caught = TRUE]
    BY <1>g, <2>1 DEF JobRecord
  <2> QED BY <1>b, <1>e, <2>1 DEF ErrorCaught
<1>1. ASSUME NEW w \in Workers, Tick(w) PROVE ClaimStep(v)
  <2>1. CASE SweepAbandoned(w)
    <3>1. PICK a : job' = [job EXCEPT ![w].pc = "spend", ![w].alerts = a]
      BY <2>1 DEF SweepAbandoned
    <3> QED BY <1>g, <3>1 DEF JobRecord
  <2>2. ASSUME NEW r \in Runs, AlertRunFailed(w, r) PROVE ClaimStep(v)
    BY <2>2 DEF AlertRunFailed, ClaimStep
  <2>3. CASE ReadSpend(w)
    <3>1. PICK o \in BOOLEAN : (o <=> OverCap) /\ job' = [job EXCEPT ![w].pc = "claim", ![w].over = o]
      BY <2>3 DEF ReadSpend
    <3>2. job'[w].over = o
      BY <3>1 DEF JobRecord
    <3>3. v = w /\ UNCHANGED row
      BY <2>3 DEF ReadSpend, OneWorker
    <3> QED BY <3>1, <3>2, <3>3, Zenon DEF ClaimStep
  <2>4. CASE ClaimNextRun(w)
    <3>1. PICK r, n : job' = [job EXCEPT ![w] =
              [AtTop EXCEPT !.pc = "plan", !.run = r, !.token = claims + 1, !.attempt = n]]
      BY <2>4 DEF ClaimNextRun
    <3>2. [AtTop EXCEPT !.pc = "plan", !.run = r, !.token = claims + 1, !.attempt = n].pc = "plan"
      BY DEF AtTop
    <3> QED BY <1>d, <3>1, <3>2
  <2> QED BY <1>1, <1>b, <2>1, <2>2, <2>3, <2>4 DEF Tick, NothingToClaim
<1>2. ASSUME NEW w \in Workers, ProcessRun(w) PROVE ClaimStep(v)
  <2>g. ASSUME NEW pc, pc # "claim", job' = [job EXCEPT ![w].pc = pc]
        PROVE  ClaimStep(v)
    BY <1>g, <2>g DEF JobRecord
  <2>p. ASSUME NEW p, job' = [job EXCEPT ![w].pc = "answered", ![w].plan = p]
        PROVE  ClaimStep(v)
    BY <1>g, <2>p DEF JobRecord
  <2>f. ASSUME NEW p, job' = [job EXCEPT ![w].pc = "fail", ![w].permanent = p, ![w].caught = TRUE]
        PROVE  ClaimStep(v)
    BY <1>g, <2>f DEF JobRecord
  <2>1. CASE GenerateFails(w)
    BY <1>g, <2>1 DEF GenerateFails, JobRecord
  <2>2. CASE ReadAnswered(w)
    <3> DEFINE k == Answered(result[job[w].run])
               pc == IF job[w].plan \subseteq k THEN "store" ELSE "panel"
    <3>1. job' = [job EXCEPT ![w].known = k, ![w].rows = {}, ![w].pc = pc]
      BY <2>2 DEF ReadAnswered
    <3>2. pc # "claim"
      OBVIOUS
    <3> HIDE DEF k, pc
    <3> QED BY <1>g, <3>1, <3>2 DEF JobRecord
  <2>3. CASE PanelReturns(w)
    <3>1. PICK rows, n : job' = [job EXCEPT ![w].pc = "store", ![w].rows = rows, ![w].cost = n]
      BY <2>3 DEF PanelReturns
    <3> QED BY <1>g, <3>1 DEF JobRecord
  <2>4. CASE SaveProgress(w)
    <3>1. ASSUME NEW p,
                 job' = [job EXCEPT ![w].pc = "fail", ![w].cost = 0, ![w].permanent = p]
          PROVE  ClaimStep(v)
      BY <1>g, <3>1 DEF JobRecord
    <3> QED BY <1>b, <2>4, <3>1 DEF SaveProgress, StoreLost, ProgressSaved
  <2> QED BY <1>2, <1>b, <2>g, <2>p, <2>f, <2>1, <2>2, <2>3, <2>4
          DEF ProcessRun, PlanRun, Goto, PlanFails, GenerateForRun, PanelFails, PanelAborted,
              CompleteRun, StoreLost, FailAttempt, ReleaseRun
<1>3. ASSUME NEW w \in Workers, Heartbeat(w) PROVE ClaimStep(v)
  <2>1. job[w].pc # "claim"
    BY <1>3 DEF Heartbeat, Working
  <2>2. CASE UNCHANGED job
    BY <1>g, <2>1, <2>2
  <2>3. CASE job' = [job EXCEPT ![w].aborted = TRUE]
    BY <1>g, <2>1, <2>3 DEF JobRecord
  <2> QED BY <1>3, <2>2, <2>3 DEF Heartbeat
<1>4. ASSUME NEW w \in Workers, DatabaseError(w) PROVE ClaimStep(v)
  BY <1>4, <1>b, <1>e
     DEF DatabaseError, TickError, ClaimUnseen, RunError, StoreUnseen, FailureUnseen
<1>5. ASSUME NEW w \in Workers, Process(w) PROVE ClaimStep(v)
  <2>1. CASE ShutdownRequested(w)
    BY <2>1 DEF ShutdownRequested, ClaimStep
  <2> QED BY <1>5, <1>t, <1>d, <2>1
          DEF Process, Crash, KilledAfterGrace, Dies, WorkerStops, Restart
<1>6. ASSUME UNCHANGED job, UNCHANGED row \/ Midnight \/ \E r \in Runs : TimePasses(r)
      PROVE  ClaimStep(v)
  BY <1>6 DEF ClaimStep
<1> QED BY <1>1, <1>2, <1>3, <1>4, <1>5, <1>6 DEF Next, vars, TimePasses, Midnight, EditPanel

\* Time passing does not raise what was spent today to the cap.
LEMMA SpendFalls ==
  ASSUME TypeOK, ~(Spent >= Cap),
         UNCHANGED row \/ Midnight \/ \E r \in Runs : TimePasses(r)
  PROVE  ~(Spent >= Cap)'
<1> DEFINE cost == [r \in Runs |-> row[r].cost]
           today == {r \in Runs : row[r].started = "today"}
<1>1. CASE UNCHANGED row
  BY <1>1 DEF Spent
<1>2. ASSUME NEW r \in Runs, TimePasses(r) PROVE ~(Spent >= Cap)'
  <2>1. \A s \in Runs : row'[s].cost = row[s].cost /\ row'[s].started = row[s].started
    BY <1>2 DEF TimePasses, TypeOK, RunRow
  <2>2. cost' = cost /\ today' = today
    BY <2>1
  <2> HIDE DEF cost, today
  <2>3. Spent' = SumFunctionOnSet(cost', today') /\ Spent = SumFunctionOnSet(cost, today)
    BY DEF Spent, cost, today
  <2> QED BY <2>2, <2>3
<1>3. CASE Midnight
  <2>1. ASSUME NEW s \in Runs PROVE row'[s].started # "today"
    <3>1. row'[s] = IF row[s].started = "today" THEN [row[s] EXCEPT !.started = "earlier"] ELSE row[s]
      BY <1>3 DEF Midnight
    <3> QED BY <3>1 DEF TypeOK, RunRow
  <2>2. today' = {}
    BY <2>1
  <2> HIDE DEF cost, today
  <2>3. Spent' = SumFunctionOnSet(cost', today')
    BY DEF Spent, cost, today
  <2>4. Spent' = 0
    BY <2>2, <2>3, NothingSums
  <2> QED BY <2>4, NumberAssumption
<1> QED BY <1>1, <1>2, <1>3

LEMMA FreshInit == Init => SpendIsFresh
BY DEF Init, SpendIsFresh, AtTop

LEMMA FreshNext ==
  ASSUME TypeOK, OneWorker, SpendIsFresh, [Next]_vars
  PROVE  SpendIsFresh'
<1> SUFFICES ASSUME NEW v \in Workers, job'[v].pc = "claim", ~job'[v].over
             PROVE  ~(Spent >= Cap)'
  BY DEF SpendIsFresh
<1>1. ClaimStep(v)
  BY ClaimSteps
<1>2. CASE UNCHANGED row /\ (job'[v].over <=> OverCap)
  <2>1. ~(Spent >= Cap)
    BY <1>2 DEF OverCap
  <2> QED BY <1>2, <2>1, SpendFalls
<1>3. CASE /\ job[v].pc = "claim" /\ job'[v].over = job[v].over
           /\ UNCHANGED row \/ Midnight \/ \E r \in Runs : TimePasses(r)
  <2>1. ~(Spent >= Cap)
    BY <1>3 DEF SpendIsFresh
  <2> QED BY <1>3, <2>1, SpendFalls
<1> QED BY <1>1, <1>2, <1>3 DEF ClaimStep

\* Attempts grow by a claim only, and a claim asks what the worker read.
LEMMA ClaimsRaiseAttempts ==
  ASSUME LeaseInv, [Next]_vars, NEW r \in Runs, row'[r].attempts > row[r].attempts
  PROVE  \E w \in Workers : job[w].pc = "claim" /\ (job[w].over => r \in Bypass)
<1> USE DEF LeaseInv
<1>1. RunClaimed(r)
  <2>1. RunMove(r)
    BY RunMoves
  <2>2. row[r].attempts \in Nat
    BY NumberAssumption DEF TypeOK, RunRow
  <2>3. row'[r].attempts # row[r].attempts /\ row'[r].attempts # row[r].attempts - 1
    BY <2>2
  <2> HIDE DEF LeaseInv
  <2> QED BY <2>1, <2>3, Zenon DEF RunMove, RunKept, SameAttempt, RunAbandoned, RunProgresses,
             RunCompletes, RunFails, RunReleased
<1>2. claims' # claims
  BY <1>1 DEF RunClaimed, TypeOK
<1>3. PICK w \in Workers : ClaimNextRun(w) \/ ClaimUnseen(w)
  BY <1>2 DEF Next, vars, Tick, SweepAbandoned, AlertRunFailed, ReadSpend, NothingToClaim,
       ProcessRun, PlanRun, PlanFails, GenerateForRun, GenerateFails, ReadAnswered, PanelReturns,
       PanelFails, PanelAborted, CompleteRun, SaveProgress, FailAttempt, ReleaseRun, Heartbeat,
       DatabaseError, TickError, RunError, StoreUnseen, FailureUnseen, Process,
       ShutdownRequested, WorkerStops, Crash, KilledAfterGrace, Dies, Restart, TimePasses,
       Midnight, EditPanel
<1>4. PICK s \in Runs : NextRun(w, s) /\ ClaimRow(s)
  BY <1>3 DEF ClaimNextRun, ClaimUnseen
<1>5. r = s
  <2>1. r # s => row'[r] = row[r]
    BY <1>4 DEF ClaimRow, TypeOK
  <2>2. row[r].attempts \in Nat
    BY NumberAssumption DEF TypeOK, RunRow
  <2> QED BY <2>1, <2>2
<1> QED BY <1>3, <1>4, <1>5 DEF ClaimNextRun, ClaimUnseen, At, NextRun, Runnable

\* Over the daily cap, the one worker there is claims only re-runs that bypass it.
THEOREM CapIsKept == ASSUME OneWorker PROVE Spec => CapHoldsAtClaim
<1>1. Init => LeaseInv /\ SpendIsFresh
  BY LeaseInit, FreshInit
<1>2. (LeaseInv /\ SpendIsFresh) /\ [Next]_vars => (LeaseInv /\ SpendIsFresh)'
  BY OneWorker, LeaseNext, FreshNext DEF LeaseInv
<1>3. ASSUME LeaseInv, SpendIsFresh, [Next]_vars, NEW r \in Runs,
             row'[r].attempts > row[r].attempts
      PROVE  r \in Bypass \/ ~(Spent >= Cap)
  BY <1>3, ClaimsRaiseAttempts DEF SpendIsFresh
<1>4. (LeaseInv /\ SpendIsFresh) /\ [Next]_vars => [StartsWithinCap]_vars
  BY <1>3 DEF StartsWithinCap
<1> QED BY <1>1, <1>2, <1>4, PTL DEF Spec, CapHoldsAtClaim

=============================================================================

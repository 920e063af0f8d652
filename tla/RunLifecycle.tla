---------------------------- MODULE RunLifecycle ----------------------------
(***************************************************************************)
(* What the queue promises about a run, whoever works on it and whatever   *)
(* fails: the lifecycle written at the top of src/lib/aeo/queue.ts.  A run *)
(* has a status, a number of attempts, at most one holder (the number of   *)
(* the claim that holds it, 0 for nobody) and the set of questions it has  *)
(* stored answers for.  There are no workers here, no clock and no faults. *)
(***************************************************************************)
EXTENDS Naturals

CONSTANTS Runs, Questions, MaxAttempts

VARIABLES status, attempts, holder, answered, issued

lifecycle == <<status, attempts, holder, answered, issued>>

Statuses == {"queued", "running", "done", "failed"}

Init ==
  /\ status = [r \in Runs |-> "queued"]
  /\ attempts = [r \in Runs |-> 0]
  /\ holder = [r \in Runs |-> 0]
  /\ answered = [r \in Runs |-> {}]
  /\ issued = 0

\* queued -> claimed, and running -> reclaimed: an attempt is used, and a holder
\* takes the run that never held any run before.
Claim(r) ==
  /\ status[r] \in {"queued", "running"}
  /\ attempts[r] < MaxAttempts
  /\ status' = [status EXCEPT ![r] = "running"]
  /\ attempts' = [attempts EXCEPT ![r] = @ + 1]
  /\ issued' = issued + 1
  /\ holder' = [holder EXCEPT ![r] = issued + 1]
  /\ UNCHANGED answered

\* The holder stores progress and keeps the run.
Progress(r) ==
  /\ status[r] = "running"
  /\ \E qs \in SUBSET Questions : answered' = [answered EXCEPT ![r] = qs]
  /\ UNCHANGED <<status, attempts, holder, issued>>

LetGo(r, s) ==
  /\ status[r] = "running"
  /\ status' = [status EXCEPT ![r] = s]
  /\ holder' = [holder EXCEPT ![r] = 0]
  /\ UNCHANGED issued

\* running -> done, with something to report
Finish(r) ==
  /\ LetGo(r, "done")
  /\ \E qs \in (SUBSET Questions) \ {{}} : answered' = [answered EXCEPT ![r] = qs]
  /\ UNCHANGED attempts

\* running -> queued while attempts remain
Retry(r) ==
  /\ attempts[r] < MaxAttempts
  /\ LetGo(r, "queued")
  /\ UNCHANGED <<attempts, answered>>

\* running -> queued, with the attempt refunded
Refund(r) ==
  /\ attempts[r] > 0
  /\ LetGo(r, "queued")
  /\ attempts' = [attempts EXCEPT ![r] = @ - 1]
  /\ UNCHANGED answered

\* running -> failed
Fail(r) ==
  /\ LetGo(r, "failed")
  /\ UNCHANGED <<attempts, answered>>

\* running -> failed, for every run abandoned on its last attempt at once
Abandon(rs) ==
  /\ \A r \in rs : status[r] = "running" /\ attempts[r] = MaxAttempts
  /\ status' = [r \in Runs |-> IF r \in rs THEN "failed" ELSE status[r]]
  /\ holder' = [r \in Runs |-> IF r \in rs THEN 0 ELSE holder[r]]
  /\ UNCHANGED <<attempts, answered, issued>>

Next ==
  \/ \E r \in Runs : \/ Claim(r) \/ Progress(r) \/ Finish(r)
                     \/ Retry(r) \/ Refund(r) \/ Fail(r)
  \/ \E rs \in SUBSET Runs : Abandon(rs)

Spec == Init /\ [][Next]_lifecycle
=============================================================================

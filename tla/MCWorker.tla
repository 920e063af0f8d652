------------------------------ MODULE MCWorker ------------------------------
(* TLC instances of the worker and of what its panel program makes.  A       *)
(* behaviour is one of a single part, and the variables of the others stay   *)
(* as they began:                                                            *)
(*   panel    one worker calls the panel program (PanelJob);                 *)
(*   cap      one worker and two runs, the second of which bypasses the      *)
(*            daily cap (RunQueue);                                          *)
(*   generated, sampling, store   a panel, a snapshot and its report         *)
(*            (MCAudits).                                                    *)
EXTENDS PanelJob, MCAudits

CONSTANTS w1, e1, e2

VARIABLES row, result, canned, loop, stopping, claims, hist, stops

Capped == INSTANCE RunQueueProofs WITH
  panel <- canned, job <- loop, bound <- stops,
  Runs <- {1, 2}, Bypass <- {2}, Questions <- {q1}, Plans <- {{q1}}, Generated <- {},
  MaxAttempts <- 2, AskCost <- 1, GenCost <- 0, Cap <- 1, MaxStops <- 0, MaxEdits <- 0,
  Faults <- {"crash", "dberror"}

queueVars == <<row, result, canned, loop, stopping, claims, hist, stops>>
workerVars == <<vars, queueVars>>

WorkerInit ==
  /\ part \in {"panel", "cap", "generated", "sampling", "store"}
  /\ AuditsInit /\ Init /\ Capped!Init

Panel == part = "panel" /\ Next /\ UNCHANGED <<AuditsVars, queueVars>>
Capping == part = "cap" /\ Capped!Next /\ UNCHANGED <<AuditsVars, vars>>
Auditing == part \in {"generated", "sampling", "store"} /\ AuditsNext /\ UNCHANGED workerVars
WorkerNext == Panel \/ Capping \/ Auditing

\* The fairness of FairSpec, in the part it is about.
PanelFairness ==
  \A w \in Workers :
    /\ WF_vars(part = "panel" /\ JobStep(w))
    /\ WF_vars(part = "panel" /\ (Load(w) \/ LoadFails(w) \/ Asking(w) \/ Writing(w)) /\ UNCHANGED <<job, bound>>)
    /\ WF_vars(part = "panel" /\ Respond(w) /\ UNCHANGED <<job, bound>>)
    /\ WF_vars(part = "panel" /\ BackoffEnds(w) /\ UNCHANGED <<job, bound>>)
    /\ WF_vars(part = "panel" /\ Killed(w) /\ UNCHANGED <<job, bound>>)

WorkerSpec == WorkerInit /\ [][WorkerNext]_<<AuditsVars, workerVars>> /\ PanelFairness

CapHoldsAtClaim == [][part = "cap" => Capped!StartsWithinCap]_queueVars
=============================================================================

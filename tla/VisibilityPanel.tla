-------------------------- MODULE VisibilityPanel --------------------------
(***************************************************************************)
(* The PHP program behind a snapshot: `panel.php job --in --out`           *)
(* (panel/panel.php) with Job.php and Retry.php.  One process per worker,  *)
(* and one run, whose job and result file every process uses.              *)
(*                                                                         *)
(* A process is one thread; the requests it has in flight are answered     *)
(* while it runs.  One pass of a loop of runPanel is one action, and so is *)
(* each statement that touches a file.  The order of the questions is left *)
(* open, and the engines are asked in any order.                           *)
(***************************************************************************)
EXTENDS Naturals, FiniteSets

CONSTANTS
  Workers,
  Questions,
  Engines,
  Concurrency,  \* of the job file
  MaxTries,     \* MAX_ATTEMPTS of panel.php
  Faults        \* what may go wrong

\* "invalid": Job::load throws.  "key": an engine has no key.  "disk": the
\* result cannot be written.  "spawn": php cannot be started.  "fatal": php
\* dies of an error of its own.
AllFaults == {"invalid", "key", "disk", "spawn", "fatal"}

ASSUME DataAssumption == Workers # {} /\ IsFiniteSet(Questions) /\ IsFiniteSet(Engines) /\ Engines # {}
ASSUME LimitsAssumption == Concurrency \in Nat \ {0} /\ MaxTries \in Nat \ {0}
ASSUME FaultsAssumption == Faults \subseteq AllFaults

VARIABLES
  php,      \* each worker's process
  inFile,   \* the questions of the job file, {} when there is none
  outFile   \* the rows of the result file, {} when there is none

panelVars == <<php, inFile, outFile>>

Row == [q: Questions, e: Engines, ok: BOOLEAN]
Request == [q: Questions, try: 1..MaxTries, reply: {"none", "answer", "error", "transient"}]
Backoff == [q: Questions, try: 1..MaxTries, due: BOOLEAN]

\* "exit" is a process that ended and was not reaped yet.  "engine" is the one
\* being asked, "engines" those to come.
Process ==
  [pc: {"off", "load", "launch", "read", "write", "move", "done", "exit"},
   code: {0, 1, 2, 143, 255}, signalled: BOOLEAN,
   asked: SUBSET Questions, engine: Engines \cup {"none"}, engines: SUBSET Engines,
   queue: SUBSET Questions, flight: SUBSET Request, pending: SUBSET Backoff,
   rows: SUBSET Row]

Off == [pc |-> "off", code |-> 0, signalled |-> FALSE,
        asked |-> {}, engine |-> "none", engines |-> {},
        queue |-> {}, flight |-> {}, pending |-> {}, rows |-> {}]

PanelInit ==
  /\ php = [w \in Workers |-> Off]
  /\ inFile = {}
  /\ outFile = {}

PhpAt(w, pc) == php[w].pc = pc
Alive(w) == php[w].pc \notin {"off", "exit"}
Exit(w, code) == php' = [php EXCEPT ![w] = [Off EXCEPT !.pc = "exit", !.code = code]]
-----------------------------------------------------------------------------
(* The job file *)

\* Another engine's questions are queued.
TakesEngine(w, e, left, qs) ==
  php' = [php EXCEPT ![w].pc = "launch", ![w].asked = qs, ![w].queue = qs,
                     ![w].engine = e, ![w].engines = left \ {e}]

Load(w) ==
  /\ PhpAt(w, "load") /\ inFile # {}
  /\ \E e \in Engines : TakesEngine(w, e, Engines, inFile)
  /\ UNCHANGED <<inFile, outFile>>

LoadFails(w) ==
  /\ PhpAt(w, "load")
  /\ \/ (inFile = {} \/ "invalid" \in Faults) /\ Exit(w, 2)
     \/ "key" \in Faults /\ Exit(w, 1)
  /\ UNCHANGED <<inFile, outFile>>
-----------------------------------------------------------------------------
(* runPanel: the questions of one engine *)

DueNow(w) == {i \in php[w].pending : i.due}
Replied(w) == {r \in php[w].flight : r.reply # "none"}

\* How many questions fit beside what is in flight; requests that come back
\* from their backoff do not ask.
Room(w) ==
  LET busy == Cardinality(php[w].flight) + Cardinality(DueNow(w))
  IN  IF busy < Concurrency THEN Concurrency - busy ELSE 0

\* Mutant: a question that is sent again stays in the list.
StillWaitingAll(w) == php[w].pending
StillWaiting(w) == php[w].pending \ DueNow(w)

\* The top of the loop: backed-off questions whose wait is over, then new ones.
Launch(w) ==
  /\ PhpAt(w, "launch")
  /\ php[w].queue # {} \/ php[w].flight # {} \/ DueNow(w) # {}
  /\ \E new \in SUBSET php[w].queue :
       /\ Cardinality(new) = Room(w) \/ (new = php[w].queue /\ Cardinality(new) < Room(w))
       /\ php' = [php EXCEPT ![w].pc = "read",
                   ![w].queue = @ \ new,
                   ![w].pending = StillWaiting(w),
                   ![w].flight = @ \cup {[q |-> q, try |-> 1, reply |-> "none"] : q \in new}
                                   \cup {[q |-> i.q, try |-> i.try, reply |-> "none"] : i \in DueNow(w)}]
  /\ UNCHANGED <<inFile, outFile>>

\* Mutant: only the queue and the requests in flight keep the loop going.
NothingInFlight(w) == php[w].queue = {} /\ php[w].flight = {}
AllAnswered(w) == php[w].queue = {} /\ php[w].flight = {} /\ php[w].pending = {}

EngineEnds(w) ==
  /\ PhpAt(w, "launch") /\ AllAnswered(w)
  /\ IF php[w].engines = {}
       THEN php' = [php EXCEPT ![w].pc = "write"]
       ELSE \E e \in php[w].engines : TakesEngine(w, e, php[w].engines, php[w].asked)
  /\ UNCHANGED <<inFile, outFile>>

\* Mutants: one try too many; the number of tries is not passed on.
BacksOffOnceMore(r) == r.reply = "transient" /\ r.try <= MaxTries
BacksOff(r) == r.reply = "transient" /\ r.try < MaxTries
SameTry(r) == [q |-> r.q, try |-> r.try, due |-> FALSE]
NextTry(r) == [q |-> r.q, try |-> r.try + 1, due |-> FALSE]

\* A finished request is backed off or becomes a row.
Finish(w) ==
  /\ PhpAt(w, "read")
  /\ \E r \in Replied(w) :
       IF BacksOff(r)
         THEN php' = [php EXCEPT ![w].flight = @ \ {r}, ![w].pending = @ \cup {NextTry(r)}]
         ELSE php' = [php EXCEPT ![w].flight = @ \ {r},
                        ![w].rows = @ \cup {[q |-> r.q, e |-> php[w].engine, ok |-> r.reply = "answer"]}]
  /\ UNCHANGED <<inFile, outFile>>

ReadEnds(w) ==
  /\ PhpAt(w, "read") /\ Replied(w) = {}
  /\ php' = [php EXCEPT ![w].pc = "launch"]
  /\ UNCHANGED <<inFile, outFile>>

\* An engine answers, refuses for good, or fails in a way that may pass.
Respond(w) ==
  /\ \E r \in php[w].flight, reply \in {"answer", "error", "transient"} :
       /\ r.reply = "none"
       /\ php' = [php EXCEPT ![w].flight = (@ \ {r}) \cup {[r EXCEPT !.reply = reply]}]
  /\ UNCHANGED <<inFile, outFile>>

BackoffEnds(w) ==
  /\ \E i \in php[w].pending :
       /\ ~i.due
       /\ php' = [php EXCEPT ![w].pending = (@ \ {i}) \cup {[i EXCEPT !.due = TRUE]}]
  /\ UNCHANGED <<inFile, outFile>>
-----------------------------------------------------------------------------
(* The result file *)

\* The rows go to a file of their own and are moved into place.
WriteTemporary(w) ==
  /\ PhpAt(w, "write")
  /\ php' = [php EXCEPT ![w].pc = "move"]
  /\ UNCHANGED <<inFile, outFile>>

Move(w) ==
  /\ PhpAt(w, "move")
  /\ outFile' = php[w].rows
  /\ php' = [php EXCEPT ![w].pc = "done"]
  /\ UNCHANGED inFile

WriteFails(w) ==
  /\ "disk" \in Faults
  /\ PhpAt(w, "write") \/ PhpAt(w, "move")
  /\ Exit(w, 1)
  /\ UNCHANGED <<inFile, outFile>>

Ends(w) ==
  /\ PhpAt(w, "done") /\ Exit(w, 0)
  /\ UNCHANGED <<inFile, outFile>>
-----------------------------------------------------------------------------
(* Any time *)

\* SIGTERM, and SIGKILL five seconds later, end the process between any two
\* statements.
Killed(w) ==
  /\ php[w].signalled /\ Alive(w) /\ Exit(w, 143)
  /\ UNCHANGED <<inFile, outFile>>

Dies(w) ==
  /\ "fatal" \in Faults /\ Alive(w) /\ Exit(w, 255)
  /\ UNCHANGED <<inFile, outFile>>

Asking(w) == Launch(w) \/ EngineEnds(w) \/ Finish(w) \/ ReadEnds(w)
Writing(w) == WriteTemporary(w) \/ Move(w) \/ WriteFails(w) \/ Ends(w)
Outside(w) == Respond(w) \/ BackoffEnds(w)

PanelStep(w) ==
  \/ Load(w) \/ LoadFails(w) \/ Asking(w) \/ Outside(w) \/ Writing(w)
  \/ Killed(w) \/ Dies(w)
=============================================================================

--------------------------- MODULE PanelJobProofs ---------------------------
(***************************************************************************)
(* What holds of PanelJob for any number of questions, engines, tries and  *)
(* workers, and what one worker to a directory adds.                       *)
(*                                                                         *)
(* Sound is about one process: where its questions are.  Linked ties a     *)
(* process to the call that started it.  Traced, for a worker that has the *)
(* files to itself, follows the questions through the files.               *)
(*                                                                         *)
(* Then the daily cap as the instance MCWorker runs it, which takes from   *)
(* RunQueueProofs what holds of the queue.                                 *)
(*                                                                         *)
(* Then the specification AuditsSpec of MCAudits, which MCWorker and       *)
(* MCOffice both run: the store of the audits.  IdsInv: an id names one    *)
(* row for good, and a retry holds failed rows of its own audit.           *)
(* CurrentInv: an audit that is current or has met no edit is worked with  *)
(* the profile as it is.  WholeInv: an audit no edit and no second command *)
(* disturbed has one row or one open question each.                        *)
(*                                                                         *)
(* Last, the other parts of AuditsSpec.  The sampling of a snapshot: Met   *)
(* counts what the minimums took, Even what the rounds took since.  And a  *)
(* generated panel: FitQuestions is kept of what was cleaned so far.       *)
(***************************************************************************)
EXTENDS MCWorker, FiniteSetTheorems, TLAPS

Answered(p, q, e) == \E answer \in p.rows : answer.q = q /\ answer.e = e

OneRowEach(p) ==
  /\ \A answer \in p.rows : answer.q \in p.asked
  /\ \A a, b \in p.rows : a.q = b.q /\ a.e = b.e => a = b

\* The questions of the engine being asked: each somewhere, and nowhere twice.
Placed(p) ==
  /\ p.queue \subseteq p.asked
  /\ \A q \in p.asked :
       \/ q \in p.queue
       \/ \E r \in p.flight : r.q = q
       \/ \E i \in p.pending : i.q = q
       \/ Answered(p, q, p.engine)
  /\ \A r \in p.flight : r.q \in p.asked /\ r.q \notin p.queue /\ ~Answered(p, r.q, p.engine)
  /\ \A i \in p.pending : i.q \in p.asked /\ i.q \notin p.queue /\ ~Answered(p, i.q, p.engine)
  /\ \A q \in p.queue : ~Answered(p, q, p.engine)
  /\ \A r \in p.flight, i \in p.pending : r.q # i.q
  /\ \A r, s \in p.flight : r.q = s.q => r = s
  /\ \A i, j \in p.pending : i.q = j.q => i = j

\* The engines asked before are done, those to come have no row.
InTurn(p) ==
  /\ p.engine \in Engines \ p.engines
  /\ \A answer \in p.rows : answer.e \notin p.engines
  /\ \A q \in p.asked, e \in Engines \ (p.engines \cup {p.engine}) : Answered(p, q, e)

Fresh(p) == p.rows = {} /\ p.flight = {} /\ p.pending = {}

Sound(p) ==
  /\ p \in Process
  /\ p.pc \in {"off", "load", "exit"} => Fresh(p)
  /\ p.pc \in {"launch", "read"} => OneRowEach(p) /\ Placed(p) /\ InTurn(p)
  /\ p.pc \in {"write", "move", "done"} =>
       OneRowEach(p) /\ \A q \in p.asked, e \in Engines : Answered(p, q, e)

\* p becomes n; what n was asked and of whom is as before.
Becomes(p, n, place, queue, flight, pending, answers) ==
  /\ n \in Process /\ n.pc = place
  /\ n.asked = p.asked /\ n.engine = p.engine /\ n.engines = p.engines
  /\ n.queue = queue /\ n.flight = flight /\ n.pending = pending /\ n.rows = answers

Linked(w) ==
  /\ php[w].pc # "off" => At(w, "wait")
  /\ At(w, "wait") /\ job[w].aborted => job[w].stop # "none"
  /\ At(w, "wait") /\ job[w].stop # "none" /\ php[w].pc # "exit" => php[w].signalled
  /\ job[w].stop = "aborted" => job[w].aborted

IInv ==
  /\ php \in [Workers -> Process] /\ \A w \in Workers : Sound(php[w])
  /\ inFile \in SUBSET Questions /\ outFile \in SUBSET Row
  /\ job \in [Workers -> JobRow] /\ \A w \in Workers : Linked(w)
-----------------------------------------------------------------------------
(* One process: what each step does to its questions *)

\* What Sound says of the questions depends on nothing else.
LEMMA SameQuestions ==
  ASSUME NEW p, NEW n,
         n.asked = p.asked, n.engine = p.engine, n.engines = p.engines,
         n.queue = p.queue, n.flight = p.flight, n.pending = p.pending, n.rows = p.rows
  PROVE  /\ Fresh(n) <=> Fresh(p)
         /\ OneRowEach(n) <=> OneRowEach(p)
         /\ Placed(n) <=> Placed(p)
         /\ InTurn(n) <=> InTurn(p)
         /\ \A q, e : Answered(n, q, e) <=> Answered(p, q, e)
<1>1. \A q, e : Answered(n, q, e) <=> Answered(p, q, e)
  BY DEF Answered
<1>2. Fresh(n) <=> Fresh(p)
  BY DEF Fresh
<1>3. OneRowEach(n) <=> OneRowEach(p)
  BY Zenon DEF OneRowEach
<1>4. InTurn(n) <=> InTurn(p)
  BY <1>1, Zenon DEF InTurn
<1>5. Placed(n) <=> Placed(p)
  <2>1. \A q : Answered(n, q, n.engine) <=> Answered(p, q, p.engine)
    BY <1>1
  <2> QED
    BY <2>1, ZenonT(60) DEF Placed
<1> QED
  BY <1>1, <1>2, <1>3, <1>4, <1>5

\* The three ways questions move.
LEMMA PutAside ==
  ASSUME NEW p \in Process, NEW flight \in SUBSET Request, NEW pending \in SUBSET Backoff,
         NEW n, n = [p EXCEPT !.flight = flight, !.pending = pending]
  PROVE  Becomes(p, n, p.pc, p.queue, flight, pending, p.rows)
  BY DEF Process, Becomes

LEMMA WrittenDown ==
  ASSUME NEW p \in Process, NEW flight \in SUBSET Request, NEW answers \in SUBSET Row,
         NEW n, n = [p EXCEPT !.flight = flight, !.rows = answers]
  PROVE  Becomes(p, n, p.pc, p.queue, flight, p.pending, answers)
  BY DEF Process, Becomes

LEMMA SentOut ==
  ASSUME NEW p \in Process, NEW queue \in SUBSET Questions, NEW flight \in SUBSET Request,
         NEW pending \in SUBSET Backoff,
         NEW n, n = [p EXCEPT !.pc = "read", !.queue = queue, !.pending = pending, !.flight = flight]
  PROVE  Becomes(p, n, "read", queue, flight, pending, p.rows)
  BY DEF Process, Becomes

LEMMA OffIsSound == Sound(Off)
  BY DEF Off, Process, Sound, Fresh

LEMMA SpawnIsSound ==
  ASSUME NEW s \in BOOLEAN, NEW n, n = [Off EXCEPT !.pc = "load", !.signalled = s]
  PROVE  Sound(n)
  BY DEF Off, Process, Sound, Fresh

LEMMA SignalIsSound ==
  ASSUME NEW p, Sound(p), NEW n, n = [p EXCEPT !.signalled = TRUE]
  PROVE  Sound(n)
<1>1. n \in Process
  BY DEF Sound, Process
<1>2. /\ n.pc = p.pc /\ n.asked = p.asked /\ n.engine = p.engine /\ n.engines = p.engines
      /\ n.queue = p.queue /\ n.flight = p.flight /\ n.pending = p.pending /\ n.rows = p.rows
  BY DEF Sound, Process
<1> QED
  BY <1>1, <1>2, SameQuestions DEF Sound

\* The steps that leave the questions where they are.
LEMMA PcIsSound ==
  ASSUME NEW p, Sound(p), NEW to, NEW n, n = [p EXCEPT !.pc = to],
         \/ p.pc \in {"launch", "read"} /\ to \in {"launch", "read"}
         \/ p.pc \in {"write", "move", "done"} /\ to \in {"write", "move", "done"}
  PROVE  Sound(n)
<1>1. n \in Process
  BY DEF Sound, Process
<1>2. /\ n.pc = to /\ n.asked = p.asked /\ n.engine = p.engine /\ n.engines = p.engines
      /\ n.queue = p.queue /\ n.flight = p.flight /\ n.pending = p.pending /\ n.rows = p.rows
  BY DEF Sound, Process
<1> QED
  BY <1>1, <1>2, SameQuestions DEF Sound

\* The last engine is done.
LEMMA WriteIsSound ==
  ASSUME NEW p, Sound(p), p.pc = "launch", p.engines = {},
         p.queue = {}, p.flight = {}, p.pending = {},
         NEW n, n = [p EXCEPT !.pc = "write"]
  PROVE  Sound(n)
<1>1. n \in Process
  BY DEF Sound, Process
<1>2. /\ n.pc = "write" /\ n.asked = p.asked /\ n.engine = p.engine /\ n.engines = p.engines
      /\ n.queue = p.queue /\ n.flight = p.flight /\ n.pending = p.pending /\ n.rows = p.rows
  BY DEF Sound, Process
<1>3. OneRowEach(p) /\ Placed(p) /\ InTurn(p)
  BY DEF Sound
<1>4. \A q \in p.asked, e \in Engines : Answered(p, q, e)
  BY <1>3 DEF Placed, InTurn
<1> QED
  BY <1>1, <1>2, <1>3, <1>4, SameQuestions DEF Sound

\* The next engine is asked everything again.
LEMMA NextEngineIsSound ==
  ASSUME NEW p, Sound(p), p.pc = "launch",
         p.queue = {}, p.flight = {}, p.pending = {}, NEW e \in p.engines,
         NEW n, n = [p EXCEPT !.pc = "launch", !.asked = p.asked, !.queue = p.asked,
                              !.engine = e, !.engines = p.engines \ {e}]
  PROVE  Sound(n)
<1>1. n \in Process
  BY DEF Sound, Process
<1>2. /\ n.pc = "launch" /\ n.asked = p.asked /\ n.engine = e /\ n.engines = p.engines \ {e}
      /\ n.queue = p.asked /\ n.flight = {} /\ n.pending = {} /\ n.rows = p.rows
  BY DEF Sound, Process
<1>3. OneRowEach(p) /\ Placed(p) /\ InTurn(p) /\ p.engines \subseteq Engines
  BY DEF Sound, Process
<1>4. OneRowEach(n)
  BY <1>2, <1>3 DEF OneRowEach
<1>5. \A q, f : Answered(n, q, f) <=> Answered(p, q, f)
  BY <1>2 DEF Answered
<1>6. \A q : ~Answered(n, q, e)
  BY <1>2, <1>3 DEF Answered, InTurn
<1>7. Placed(n)
  BY <1>2, <1>6 DEF Placed
<1>8. \A q \in p.asked : Answered(p, q, p.engine)
  BY <1>3 DEF Placed
<1>9. InTurn(n)
  BY <1>2, <1>3, <1>5, <1>8 DEF InTurn
<1> QED
  BY <1>1, <1>2, <1>4, <1>7, <1>9 DEF Sound

\* The first engine.
LEMMA LoadIsSound ==
  ASSUME NEW p, Sound(p), p.pc = "load", NEW e \in Engines, NEW qs \in SUBSET Questions,
         NEW n, n = [p EXCEPT !.pc = "launch", !.asked = qs, !.queue = qs,
                              !.engine = e, !.engines = Engines \ {e}]
  PROVE  Sound(n)
<1>1. n \in Process
  BY DEF Sound, Process
<1>2. /\ n.pc = "launch" /\ n.asked = qs /\ n.engine = e /\ n.engines = Engines \ {e}
      /\ n.queue = qs /\ n.flight = {} /\ n.pending = {} /\ n.rows = {}
  BY DEF Sound, Process, Fresh
<1>3. \A q, f : ~Answered(n, q, f)
  BY <1>2 DEF Answered
<1>4. OneRowEach(n) /\ Placed(n) /\ InTurn(n)
  BY <1>2, <1>3 DEF OneRowEach, Placed, InTurn
<1> QED
  BY <1>1, <1>2, <1>4 DEF Sound

\* An answer arrives, or a failure.
LEMMA RespondIsSound ==
  ASSUME NEW p, Sound(p), NEW r \in p.flight, NEW a \in {"answer", "error", "transient"},
         NEW n, n = [p EXCEPT !.flight = (@ \ {r}) \cup {[r EXCEPT !.reply = a]}]
  PROVE  Sound(n)
<1>1. r \in Request
  BY DEF Sound, Process
<1>2. PICK s \in Request : s = [r EXCEPT !.reply = a] /\ s.q = r.q
  <2>1. [r EXCEPT !.reply = a] \in Request /\ [r EXCEPT !.reply = a].q = r.q
    BY <1>1 DEF Request
  <2> QED
    BY <2>1
<1>3. s.q = r.q
  BY <1>2
<1>4. n = [p EXCEPT !.flight = (p.flight \ {r}) \cup {s}]
  BY <1>2
<1>5. n \in Process
  BY <1>4 DEF Sound, Process
<1>6. /\ n.pc = p.pc /\ n.asked = p.asked /\ n.engine = p.engine /\ n.engines = p.engines
      /\ n.queue = p.queue /\ n.flight = (p.flight \ {r}) \cup {s}
      /\ n.pending = p.pending /\ n.rows = p.rows
  BY <1>4 DEF Sound, Process
<1>7. \A q, e : Answered(n, q, e) <=> Answered(p, q, e)
  BY <1>6 DEF Answered
<1>8. p.pc \notin {"off", "load", "exit"}
  BY DEF Sound, Fresh
<1>9. OneRowEach(p) => OneRowEach(n)
  BY <1>6 DEF OneRowEach
<1>10. InTurn(p) => InTurn(n)
  BY <1>6, <1>7 DEF InTurn
<1>11. ASSUME Placed(p)
       PROVE  Placed(n)
  <2>1. \A q : (\E f \in n.flight : f.q = q) <=> \E f \in p.flight : f.q = q
    BY <1>2, <1>6
  <2>2. \A f \in n.flight : \E g \in p.flight : f.q = g.q
    BY <1>2, <1>6
  <2>3. \A f, g \in n.flight : f.q = g.q => f = g
    <3>1. \A f, g \in p.flight : f.q = g.q => f = g
      BY <1>11 DEF Placed
    <3> QED
      BY <1>6, <1>3, <3>1
  <2>4. \A q \in n.asked : \/ q \in n.queue
                           \/ \E f \in n.flight : f.q = q
                           \/ \E f \in n.pending : f.q = q
                           \/ Answered(n, q, n.engine)
    BY <1>6, <1>7, <1>11, <2>1 DEF Placed
  <2>5. \A f \in n.flight : f.q \in n.asked /\ f.q \notin n.queue /\ ~Answered(n, f.q, n.engine)
    <3>1. \A f \in p.flight : f.q \in p.asked /\ f.q \notin p.queue /\ ~Answered(p, f.q, p.engine)
      BY <1>11 DEF Placed
    <3>2. TAKE f \in n.flight
    <3>3. PICK g \in p.flight : f.q = g.q
      BY <2>2
    <3>4. ~Answered(n, g.q, n.engine)
      BY <1>6, <1>7, <3>1
    <3> QED
      BY <1>6, <3>1, <3>3, <3>4
  <2>6. \A f \in n.flight, i \in n.pending : f.q # i.q
    BY <1>6, <1>11, <2>2 DEF Placed
  <2> QED
    BY <1>6, <1>7, <1>11, <2>3, <2>4, <2>5, <2>6 DEF Placed
<1> QED
  BY <1>5, <1>6, <1>7, <1>8, <1>9, <1>10, <1>11 DEF Sound

\* A wait is over.
LEMMA BackoffEndsIsSound ==
  ASSUME NEW p, Sound(p), NEW i \in p.pending,
         NEW n, n = [p EXCEPT !.pending = (@ \ {i}) \cup {[i EXCEPT !.due = TRUE]}]
  PROVE  Sound(n)
<1>1. i \in Backoff
  BY DEF Sound, Process
<1>2. PICK j \in Backoff : j = [i EXCEPT !.due = TRUE] /\ j.q = i.q
  <2>1. [i EXCEPT !.due = TRUE] \in Backoff /\ [i EXCEPT !.due = TRUE].q = i.q
    BY <1>1 DEF Backoff
  <2> QED
    BY <2>1
<1>3. j.q = i.q
  BY <1>2
<1>4. n = [p EXCEPT !.pending = (p.pending \ {i}) \cup {j}]
  BY <1>2
<1>5. n \in Process
  BY <1>4 DEF Sound, Process
<1>6. /\ n.pc = p.pc /\ n.asked = p.asked /\ n.engine = p.engine /\ n.engines = p.engines
      /\ n.queue = p.queue /\ n.flight = p.flight
      /\ n.pending = (p.pending \ {i}) \cup {j} /\ n.rows = p.rows
  BY <1>4 DEF Sound, Process
<1>7. \A q, e : Answered(n, q, e) <=> Answered(p, q, e)
  BY <1>6 DEF Answered
<1>8. p.pc \notin {"off", "load", "exit"}
  BY DEF Sound, Fresh
<1>9. OneRowEach(p) => OneRowEach(n)
  BY <1>6 DEF OneRowEach
<1>10. InTurn(p) => InTurn(n)
  BY <1>6, <1>7 DEF InTurn
<1>11. ASSUME Placed(p)
       PROVE  Placed(n)
  <2>1. \A q : (\E f \in n.pending : f.q = q) <=> \E f \in p.pending : f.q = q
    BY <1>2, <1>6
  <2>2. \A f \in n.pending : \E g \in p.pending : f.q = g.q
    BY <1>2, <1>6
  <2>3. \A f, g \in n.pending : f.q = g.q => f = g
    <3>1. \A f, g \in p.pending : f.q = g.q => f = g
      BY <1>11 DEF Placed
    <3> QED
      BY <1>6, <1>3, <3>1
  <2>4. \A q \in n.asked : \/ q \in n.queue
                           \/ \E f \in n.flight : f.q = q
                           \/ \E f \in n.pending : f.q = q
                           \/ Answered(n, q, n.engine)
    BY <1>6, <1>7, <1>11, <2>1 DEF Placed
  <2>5. \A f \in n.pending : f.q \in n.asked /\ f.q \notin n.queue /\ ~Answered(n, f.q, n.engine)
    <3>1. \A f \in p.pending : f.q \in p.asked /\ f.q \notin p.queue /\ ~Answered(p, f.q, p.engine)
      BY <1>11 DEF Placed
    <3>2. TAKE f \in n.pending
    <3>3. PICK g \in p.pending : f.q = g.q
      BY <2>2
    <3>4. ~Answered(n, g.q, n.engine)
      BY <1>6, <1>7, <3>1
    <3> QED
      BY <1>6, <3>1, <3>3, <3>4
  <2>6. \A f \in n.flight, g \in n.pending : f.q # g.q
    BY <1>6, <1>11, <2>2 DEF Placed
  <2> QED
    BY <1>6, <1>7, <1>11, <2>3, <2>4, <2>5, <2>6 DEF Placed
<1> QED
  BY <1>5, <1>6, <1>7, <1>8, <1>9, <1>10, <1>11 DEF Sound

\* A failed try is put aside.
LEMMA RetryIsSound ==
  ASSUME NEW p, Sound(p), p.pc = "read", NEW r \in p.flight, NEW i, i.q = r.q,
         NEW n, Becomes(p, n, "read", p.queue, p.flight \ {r}, p.pending \cup {i}, p.rows)
  PROVE  Sound(n)
<1>1. n \in Process /\ n.pc = "read"
      /\ n.asked = p.asked /\ n.engine = p.engine /\ n.engines = p.engines
      /\ n.queue = p.queue /\ n.flight = p.flight \ {r}
      /\ n.pending = p.pending \cup {i} /\ n.rows = p.rows
  BY DEF Becomes
<1>2. \A q, e : Answered(n, q, e) <=> Answered(p, q, e)
  BY <1>1 DEF Answered
<1>3. OneRowEach(p) /\ Placed(p) /\ InTurn(p)
  BY DEF Sound
<1>4. OneRowEach(n)
  BY <1>1, <1>3 DEF OneRowEach
<1>5. InTurn(n)
  BY <1>1, <1>2, <1>3 DEF InTurn
<1>6. Placed(n)
  <2>1. \A q \in n.asked : \/ q \in n.queue
                           \/ \E f \in n.flight : f.q = q
                           \/ \E f \in n.pending : f.q = q
                           \/ Answered(n, q, n.engine)
    BY <1>1, <1>2, <1>3 DEF Placed
  <2>2. \A f \in n.flight, j \in n.pending : f.q # j.q
    BY <1>1, <1>3 DEF Placed
  <2>3. \A j, k \in n.pending : j.q = k.q => j = k
    BY <1>1, <1>3 DEF Placed
  <2> QED
    BY <1>1, <1>2, <1>3, <2>1, <2>2, <2>3 DEF Placed
<1> QED
  BY <1>1, <1>4, <1>5, <1>6 DEF Sound

\* An answer, or a failure for good, becomes a row.
LEMMA RowIsSound ==
  ASSUME NEW p, Sound(p), p.pc = "read", NEW r \in p.flight,
         NEW answer, answer.q = r.q, answer.e = p.engine,
         NEW n, Becomes(p, n, "read", p.queue, p.flight \ {r}, p.pending, p.rows \cup {answer})
  PROVE  Sound(n)
<1>1. OneRowEach(p) /\ Placed(p) /\ InTurn(p)
  BY DEF Sound
<1>2. n \in Process /\ n.pc = "read"
      /\ n.asked = p.asked /\ n.engine = p.engine /\ n.engines = p.engines
      /\ n.queue = p.queue /\ n.flight = p.flight \ {r}
      /\ n.pending = p.pending /\ n.rows = p.rows \cup {answer}
  BY DEF Becomes
<1>3. \A q, e : Answered(n, q, e) <=> Answered(p, q, e) \/ (q = r.q /\ e = p.engine)
  BY <1>2 DEF Answered
<1>4. OneRowEach(n)
  <2>1. ~Answered(p, r.q, p.engine) /\ r.q \in p.asked
    BY <1>1 DEF Placed
  <2> QED
    BY <1>1, <1>2, <2>1 DEF OneRowEach, Answered
<1>5. InTurn(n)
  BY <1>1, <1>2, <1>3 DEF InTurn
<1>6. Placed(n)
  <2>1. \A q \in n.asked : \/ q \in n.queue
                           \/ \E f \in n.flight : f.q = q
                           \/ \E f \in n.pending : f.q = q
                           \/ Answered(n, q, n.engine)
    BY <1>1, <1>2, <1>3 DEF Placed
  <2>2. \A f \in n.flight : f.q # r.q /\ ~Answered(n, f.q, n.engine)
    BY <1>1, <1>2, <1>3 DEF Placed
  <2>3. \A f \in n.pending : f.q # r.q /\ ~Answered(n, f.q, n.engine)
    BY <1>1, <1>2, <1>3 DEF Placed
  <2>4. \A q \in n.queue : q # r.q /\ ~Answered(n, q, n.engine)
    BY <1>1, <1>2, <1>3 DEF Placed
  <2> QED
    BY <1>1, <1>2, <2>1, <2>2, <2>3, <2>4 DEF Placed
<1> QED
  BY <1>2, <1>4, <1>5, <1>6 DEF Sound

\* One request for each of the questions qs.
OneRequestEach(f, qs) ==
  /\ \A r \in f : r.q \in qs
  /\ \A q \in qs : \E r \in f : r.q = q
  /\ \A r, t \in f : r.q = t.q => r = t

LEMMA NewRequests ==
  ASSUME NEW new, NEW f, f = {[q |-> q, try |-> 1, reply |-> "none"] : q \in new}
  PROVE  OneRequestEach(f, new)
<1>1. \A r \in f : \E q \in new : r = [q |-> q, try |-> 1, reply |-> "none"] /\ r.q = q
  OBVIOUS
<1>2. \A q \in new : \E r \in f : r.q = q
  <2>1. TAKE q \in new
  <2>2. [q |-> q, try |-> 1, reply |-> "none"] \in f
    OBVIOUS
  <2> QED
    BY <2>2
<1>3. \A r, t \in f : r.q = t.q => r = t
  BY <1>1
<1> QED
  BY <1>1, <1>2, <1>3 DEF OneRequestEach

LEMMA RepeatedRequests ==
  ASSUME NEW due, \A i, j \in due : i.q = j.q => i = j,
         NEW f, f = {[q |-> i.q, try |-> i.try, reply |-> "none"] : i \in due}
  PROVE  OneRequestEach(f, {i.q : i \in due})
<1>1. \A r \in f : \E i \in due : r = [q |-> i.q, try |-> i.try, reply |-> "none"] /\ r.q = i.q
  OBVIOUS
<1>2. \A i \in due : \E r \in f : r.q = i.q
  <2>1. TAKE i \in due
  <2>2. [q |-> i.q, try |-> i.try, reply |-> "none"] \in f
    OBVIOUS
  <2> QED
    BY <2>2
<1>3. \A r, t \in f : r.q = t.q => r = t
  BY <1>1
<1>4. \A q \in {i.q : i \in due} : \E r \in f : r.q = q
  BY <1>2
<1>5. \A r \in f : r.q \in {i.q : i \in due}
  BY <1>1
<1> QED
  BY <1>3, <1>4, <1>5 DEF OneRequestEach

\* New questions and those whose wait is over are asked.
LEMMA LaunchIsSound ==
  ASSUME NEW p, Sound(p), p.pc = "launch", NEW new \in SUBSET p.queue,
         NEW due \in SUBSET p.pending,
         NEW f1, OneRequestEach(f1, new), NEW f2, OneRequestEach(f2, {i.q : i \in due}),
         NEW n, Becomes(p, n, "read", p.queue \ new, p.flight \cup f1 \cup f2,
                        p.pending \ due, p.rows)
  PROVE  Sound(n)
<1>1. OneRowEach(p) /\ Placed(p) /\ InTurn(p)
  BY DEF Sound
<1>2. n \in Process /\ n.pc = "read"
      /\ n.asked = p.asked /\ n.engine = p.engine /\ n.engines = p.engines
      /\ n.queue = p.queue \ new /\ n.flight = p.flight \cup f1 \cup f2
      /\ n.pending = p.pending \ due /\ n.rows = p.rows
  BY DEF Becomes
<1>3. \A q, e : Answered(n, q, e) <=> Answered(p, q, e)
  BY <1>2 DEF Answered
<1>4. OneRowEach(n)
  BY <1>1, <1>2 DEF OneRowEach
<1>5. InTurn(n)
  BY <1>1, <1>2, <1>3 DEF InTurn
<1>6. /\ \A f \in f1 : f.q \in new
      /\ \A q \in new : \E f \in f1 : f.q = q
      /\ \A f, g \in f1 : f.q = g.q => f = g
  BY DEF OneRequestEach
<1>7. /\ \A f \in f2 : \E i \in due : f.q = i.q
      /\ \A i \in due : \E f \in f2 : f.q = i.q
      /\ \A f, g \in f2 : f.q = g.q => f = g
  BY DEF OneRequestEach
<1>8. Placed(n)
  <2>1. /\ \A r \in p.flight : r.q \in p.asked /\ r.q \notin p.queue /\ ~Answered(p, r.q, p.engine)
        /\ \A i \in p.pending : i.q \in p.asked /\ i.q \notin p.queue /\ ~Answered(p, i.q, p.engine)
        /\ \A q \in p.queue : q \in p.asked /\ ~Answered(p, q, p.engine)
        /\ \A r \in p.flight, i \in p.pending : r.q # i.q
        /\ \A r, s \in p.flight : r.q = s.q => r = s
        /\ \A i, j \in p.pending : i.q = j.q => i = j
    BY <1>1 DEF Placed
  <2>2. \A q \in p.asked : \/ q \in p.queue
                           \/ \E r \in p.flight : r.q = q
                           \/ \E i \in p.pending : i.q = q
                           \/ Answered(p, q, p.engine)
    BY <1>1 DEF Placed
  <2>3. \A q \in n.asked : \/ q \in n.queue
                           \/ \E f \in n.flight : f.q = q
                           \/ \E f \in n.pending : f.q = q
                           \/ Answered(n, q, n.engine)
    <3>1. TAKE q \in n.asked
    <3>2. CASE q \in p.queue
      BY <1>2, <1>6, <3>2
    <3>3. CASE \E r \in p.flight : r.q = q
      BY <1>2, <3>3
    <3>4. CASE \E i \in p.pending : i.q = q
      BY <1>2, <1>7, <3>4
    <3>5. CASE Answered(p, q, p.engine)
      BY <1>2, <1>3, <3>5
    <3> QED
      BY <1>2, <2>2, <3>2, <3>3, <3>4, <3>5
  <2>4. \A f \in n.flight : f.q \in n.asked /\ f.q \notin n.queue /\ ~Answered(n, f.q, n.engine)
    <3>1. TAKE f \in n.flight
    <3>2. CASE f \in p.flight
      BY <1>2, <1>3, <2>1, <3>2
    <3>3. CASE f \in f1
      BY <1>2, <1>3, <1>6, <2>1, <3>3
    <3>4. CASE f \in f2
      <4>1. PICK i \in due : f.q = i.q
        BY <1>7, <3>4
      <4>2. i \in p.pending
        BY <4>1
      <4> QED
        BY <1>2, <1>3, <2>1, <4>1, <4>2
    <3> QED
      BY <1>2, <3>2, <3>3, <3>4
  <2>5. \A f \in n.flight, i \in n.pending : f.q # i.q
    BY <1>2, <1>6, <1>7, <2>1
  <2>6. \A f, g \in n.flight : f.q = g.q => f = g
    BY <1>2, <1>6, <1>7, <2>1
  <2> QED
    BY <1>2, <1>3, <2>1, <2>3, <2>4, <2>5, <2>6 DEF Placed
<1> QED
  BY <1>2, <1>4, <1>5, <1>8 DEF Sound
-----------------------------------------------------------------------------
(* Every step of a process keeps it sound *)

\* What the rest of the system may see of a step of w's process.
Quiet(w) ==
  /\ php' \in [Workers -> Process] /\ Sound(php'[w])
  /\ \A v \in Workers \ {w} : php'[v] = php[v]
  /\ php[w].pc \notin {"off", "exit"} /\ php'[w].pc \notin {"off", "load"}
  /\ php'[w].pc # "exit" =>
       /\ php'[w].signalled = php[w].signalled
       /\ php'[w].asked = IF PhpAt(w, "load") THEN inFile ELSE php[w].asked

Processes == php \in [Workers -> Process] /\ \A w \in Workers : Sound(php[w])

LEMMA LoadIsQuiet ==
  ASSUME Processes, inFile \in SUBSET Questions, NEW w \in Workers, Load(w)
  PROVE  Quiet(w)
<1>1. php \in [Workers -> Process] /\ Sound(php[w]) /\ php[w].pc = "load"
  BY DEF Processes, Load, PhpAt
<1>2. PICK e \in Engines : TakesEngine(w, e, Engines, inFile)
  BY DEF Load
<1>3. PICK n : n = [php[w] EXCEPT !.pc = "launch", !.asked = inFile, !.queue = inFile,
                                  !.engine = e, !.engines = Engines \ {e}]
  OBVIOUS
<1>4. php' = [php EXCEPT ![w] = n]
  BY <1>1, <1>2, <1>3 DEF TakesEngine
<1>5. Sound(n)
  BY <1>1, <1>3, LoadIsSound, Zenon
<1>6. n.pc = "launch" /\ n.signalled = php[w].signalled /\ n.asked = inFile
  BY <1>1, <1>3 DEF Process
<1> QED
  BY <1>1, <1>4, <1>5, <1>6 DEF Quiet, PhpAt, Sound

LEMMA ExitIsQuiet ==
  ASSUME Processes, NEW w \in Workers, NEW c \in {0, 1, 2, 143, 255}, Exit(w, c),
         php[w].pc \notin {"off", "exit"}
  PROVE  Quiet(w)
<1>1. php \in [Workers -> Process]
  BY DEF Processes
<1>2. PICK n : n = [Off EXCEPT !.pc = "exit", !.code = c]
  OBVIOUS
<1>3. php' = [php EXCEPT ![w] = n]
  BY <1>2 DEF Exit
<1>4. Sound(n)
  BY <1>2 DEF Off, Process, Sound, Fresh
<1>5. n.pc = "exit"
  BY <1>2 DEF Off
<1> QED
  BY <1>1, <1>3, <1>4, <1>5 DEF Quiet, PhpAt, Sound

\* A step to another statement.
LEMMA PcIsQuiet ==
  ASSUME Processes, NEW w \in Workers, NEW to,
         \/ php[w].pc \in {"launch", "read"} /\ to \in {"launch", "read"}
         \/ php[w].pc \in {"write", "move", "done"} /\ to \in {"write", "move", "done"},
         php' = [php EXCEPT ![w].pc = to]
  PROVE  Quiet(w)
<1>1. php \in [Workers -> Process] /\ Sound(php[w])
  BY DEF Processes
<1>2. PICK n : n = [php[w] EXCEPT !.pc = to]
  OBVIOUS
<1>3. php' = [php EXCEPT ![w] = n]
  BY <1>1, <1>2
<1>4. Sound(n)
  BY <1>1, <1>2, PcIsSound, Zenon
<1>5. n.pc = to /\ n.signalled = php[w].signalled /\ n.asked = php[w].asked
  BY <1>1, <1>2 DEF Process
<1>6. n \in Process
  BY <1>4 DEF Sound
<1>7. n.pc \notin {"off", "exit"} /\ php[w].pc \notin {"off", "exit"}
  BY <1>5
<1> QED
  BY <1>1, <1>3, <1>4, <1>5, <1>6, <1>7 DEF Quiet, PhpAt

LEMMA LaunchIsQuiet ==
  ASSUME Processes, NEW w \in Workers, Launch(w)
  PROVE  Quiet(w)
<1>1. php \in [Workers -> Process] /\ Sound(php[w]) /\ php[w].pc = "launch"
  BY DEF Processes, Launch, PhpAt
<1> DEFINE p == php[w]
           f1(new) == {[q |-> q, try |-> 1, reply |-> "none"] : q \in new}
<1>2. PICK due \in SUBSET p.pending :
         due = DueNow(w) /\ StillWaiting(w) = p.pending \ due
  BY DEF DueNow, StillWaiting
<1>3. PICK f2 : f2 = {[q |-> i.q, try |-> i.try, reply |-> "none"] : i \in due}
  OBVIOUS
<1>4. PICK new \in SUBSET p.queue :
         php' = [php EXCEPT ![w].pc = "read", ![w].queue = @ \ new, ![w].pending = p.pending \ due,
                            ![w].flight = @ \cup f1(new) \cup f2]
  BY <1>2, <1>3 DEF Launch
<1>5. PICK g1 : g1 = f1(new)
  OBVIOUS
<1>6. /\ p.queue \subseteq Questions /\ p.pending \subseteq Backoff /\ p.flight \subseteq Request
      /\ 1 \in 1..MaxTries
  BY <1>1, LimitsAssumption DEF Process
<1>7. g1 \subseteq Request
  <2>1. \A q \in Questions : [q |-> q, try |-> 1, reply |-> "none"] \in Request
    BY <1>6 DEF Request
  <2> QED
    BY <1>5, <1>6, <2>1
<1>8. f2 \subseteq Request
  <2>1. \A i \in Backoff : [q |-> i.q, try |-> i.try, reply |-> "none"] \in Request
    BY DEF Request, Backoff
  <2> QED
    BY <1>3, <1>6, <2>1
<1>9. PICK queue \in SUBSET Questions, pending \in SUBSET Backoff, flight \in SUBSET Request :
         queue = p.queue \ new /\ pending = p.pending \ due /\ flight = p.flight \cup g1 \cup f2
  BY <1>6, <1>7, <1>8
<1>10. PICK n : n = [p EXCEPT !.pc = "read", !.queue = queue, !.pending = pending, !.flight = flight]
  OBVIOUS
<1>11. php' = [php EXCEPT ![w] = n]
  BY <1>1, <1>4, <1>5, <1>9, <1>10
<1>12. Becomes(p, n, "read", queue, flight, pending, p.rows)
  BY <1>1, <1>9, <1>10, SentOut, Zenon
<1>13. n.signalled = p.signalled /\ n.asked = p.asked
  BY <1>1, <1>10 DEF Process
<1>14. OneRequestEach(g1, new)
  BY <1>5, NewRequests, Zenon
<1>15. OneRequestEach(f2, {i.q : i \in due})
  <2>1. \A i, j \in due : i.q = j.q => i = j
    BY <1>1 DEF Sound, Placed
  <2> QED
    BY <1>3, <2>1, RepeatedRequests, Zenon
<1>16. Sound(n)
  BY <1>1, <1>9, <1>12, <1>14, <1>15, LaunchIsSound, Zenon
<1> QED
  BY <1>1, <1>11, <1>12, <1>13, <1>16 DEF Quiet, PhpAt, Becomes

LEMMA EngineEndsIsQuiet ==
  ASSUME Processes, NEW w \in Workers, EngineEnds(w)
  PROVE  Quiet(w)
<1>1. /\ php \in [Workers -> Process] /\ Sound(php[w]) /\ php[w].pc = "launch"
      /\ php[w].queue = {} /\ php[w].flight = {} /\ php[w].pending = {}
  BY DEF Processes, EngineEnds, PhpAt, AllAnswered
<1>2. CASE php[w].engines = {}
  <2>1. PICK n : n = [php[w] EXCEPT !.pc = "write"]
    OBVIOUS
  <2>2. php' = [php EXCEPT ![w] = n]
    BY <1>1, <1>2, <2>1 DEF EngineEnds
  <2>3. Sound(n)
    BY <1>1, <1>2, <2>1, WriteIsSound, Zenon
  <2>4. n.pc = "write" /\ n.signalled = php[w].signalled /\ n.asked = php[w].asked
    BY <1>1, <2>1 DEF Process
  <2> QED
    BY <1>1, <2>2, <2>3, <2>4 DEF Quiet, PhpAt, Sound
<1>3. CASE php[w].engines # {}
  <2>1. PICK e \in php[w].engines : TakesEngine(w, e, php[w].engines, php[w].asked)
    BY <1>3 DEF EngineEnds
  <2>2. PICK n : n = [php[w] EXCEPT !.pc = "launch", !.asked = php[w].asked, !.queue = php[w].asked,
                                    !.engine = e, !.engines = php[w].engines \ {e}]
    OBVIOUS
  <2>3. php' = [php EXCEPT ![w] = n]
    BY <1>1, <2>1, <2>2 DEF TakesEngine
  <2>4. Sound(n)
    BY <1>1, <2>2, NextEngineIsSound, Zenon
  <2>5. n.pc = "launch" /\ n.signalled = php[w].signalled /\ n.asked = php[w].asked
    BY <1>1, <2>2 DEF Process
  <2> QED
    BY <1>1, <2>3, <2>4, <2>5 DEF Quiet, PhpAt, Sound
<1> QED
  BY <1>2, <1>3

LEMMA FinishIsQuiet ==
  ASSUME Processes, NEW w \in Workers, Finish(w)
  PROVE  Quiet(w)
<1> DEFINE p == php[w]
<1>1. php \in [Workers -> Process] /\ Sound(p) /\ p.pc = "read" /\ p \in Process
  BY DEF Processes, Finish, PhpAt
<1>2. PICK r \in p.flight :
         IF BacksOff(r)
           THEN php' = [php EXCEPT ![w].flight = @ \ {r}, ![w].pending = @ \cup {NextTry(r)}]
           ELSE php' = [php EXCEPT ![w].flight = @ \ {r},
                          ![w].rows = @ \cup {[q |-> r.q, e |-> php[w].engine,
                                                ok |-> r.reply = "answer"]}]
  BY DEF Finish, Replied
<1>3. r \in Request /\ p.pending \subseteq Backoff /\ p.rows \subseteq Row
  BY <1>1 DEF Process
<1>4. PICK flight \in SUBSET Request : flight = p.flight \ {r}
  BY <1>1 DEF Process
<1>5. CASE BacksOff(r)
  <2>1. PICK i \in Backoff : i = NextTry(r) /\ i.q = r.q
    <3>1. r.q \in Questions /\ r.try + 1 \in 1..MaxTries
      BY <1>3, <1>5, LimitsAssumption DEF Request, BacksOff
    <3>2. NextTry(r) \in Backoff /\ NextTry(r).q = r.q
      BY <3>1 DEF Backoff, NextTry
    <3> QED
      BY <3>2
  <2>2. PICK pending \in SUBSET Backoff : pending = p.pending \cup {i}
    BY <1>3, <2>1
  <2>3. PICK n : n = [p EXCEPT !.flight = flight, !.pending = pending]
    OBVIOUS
  <2>4. php' = [php EXCEPT ![w] = n]
    BY <1>1, <1>2, <1>4, <1>5, <2>1, <2>2, <2>3
  <2>5. Becomes(p, n, p.pc, p.queue, flight, pending, p.rows)
    BY <1>1, <1>4, <2>2, <2>3, PutAside, Zenon
  <2>6. Sound(n)
    BY <1>1, <1>4, <2>1, <2>2, <2>5, RetryIsSound, Zenon
  <2>7. n.pc = "read" /\ n.signalled = p.signalled /\ n.asked = p.asked
    BY <1>1, <2>3 DEF Process
  <2> QED
    BY <1>1, <2>4, <2>6, <2>7 DEF Quiet, PhpAt, Sound
<1>6. CASE ~BacksOff(r)
  <2>1. PICK answer \in Row : /\ answer = [q |-> r.q, e |-> p.engine, ok |-> r.reply = "answer"]
                              /\ answer.q = r.q /\ answer.e = p.engine
    <3>1. r.q \in Questions /\ p.engine \in Engines
      BY <1>1, <1>3 DEF Request, Sound, InTurn
    <3>2. PICK ok \in BOOLEAN : ok = (r.reply = "answer")
      OBVIOUS
    <3>3. [q |-> r.q, e |-> p.engine, ok |-> ok] \in Row
      BY <3>1 DEF Row
    <3> QED
      BY <3>2, <3>3
  <2>2. PICK answers \in SUBSET Row : answers = p.rows \cup {answer}
    BY <1>3, <2>1
  <2>3. PICK n : n = [p EXCEPT !.flight = flight, !.rows = answers]
    OBVIOUS
  <2>4. php' = [php EXCEPT ![w] = n]
    BY <1>1, <1>2, <1>4, <1>6, <2>1, <2>2, <2>3
  <2>5. Becomes(p, n, p.pc, p.queue, flight, p.pending, answers)
    BY <1>1, <1>4, <2>2, <2>3, WrittenDown, Zenon
  <2>6. answer.q = r.q /\ answer.e = p.engine
    BY <2>1
  <2>7. Sound(n)
    BY <1>1, <1>4, <2>2, <2>5, <2>6, RowIsSound, Zenon
  <2>8. n.pc = "read" /\ n.signalled = p.signalled /\ n.asked = p.asked
    BY <1>1, <2>3 DEF Process
  <2> QED
    BY <1>1, <2>4, <2>7, <2>8 DEF Quiet, PhpAt, Sound
<1> QED
  BY <1>5, <1>6

LEMMA RespondIsQuiet ==
  ASSUME Processes, NEW w \in Workers, Respond(w)
  PROVE  Quiet(w)
<1>1. php \in [Workers -> Process] /\ Sound(php[w])
  BY DEF Processes
<1>2. PICK r \in php[w].flight, a \in {"answer", "error", "transient"} :
         php' = [php EXCEPT ![w].flight = (@ \ {r}) \cup {[r EXCEPT !.reply = a]}]
  BY DEF Respond
<1>3. PICK n : n = [php[w] EXCEPT !.flight = (@ \ {r}) \cup {[r EXCEPT !.reply = a]}]
  OBVIOUS
<1>4. php' = [php EXCEPT ![w] = n]
  BY <1>1, <1>2, <1>3
<1>5. Sound(n)
  BY <1>1, <1>3, RespondIsSound, Zenon
<1>6. n.pc = php[w].pc /\ n.signalled = php[w].signalled /\ n.asked = php[w].asked
  BY <1>1, <1>3 DEF Process
<1>7. php[w].pc \notin {"off", "load", "exit"}
  BY <1>1, <1>2 DEF Sound, Fresh
<1> QED
  BY <1>1, <1>4, <1>5, <1>6, <1>7 DEF Quiet, PhpAt, Sound

LEMMA BackoffEndsIsQuiet ==
  ASSUME Processes, NEW w \in Workers, BackoffEnds(w)
  PROVE  Quiet(w)
<1>1. php \in [Workers -> Process] /\ Sound(php[w])
  BY DEF Processes
<1>2. PICK i \in php[w].pending :
         php' = [php EXCEPT ![w].pending = (@ \ {i}) \cup {[i EXCEPT !.due = TRUE]}]
  BY DEF BackoffEnds
<1>3. PICK n : n = [php[w] EXCEPT !.pending = (@ \ {i}) \cup {[i EXCEPT !.due = TRUE]}]
  OBVIOUS
<1>4. php' = [php EXCEPT ![w] = n]
  BY <1>1, <1>2, <1>3
<1>5. Sound(n)
  BY <1>1, <1>3, BackoffEndsIsSound, Zenon
<1>6. n.pc = php[w].pc /\ n.signalled = php[w].signalled /\ n.asked = php[w].asked
  BY <1>1, <1>3 DEF Process
<1>7. php[w].pc \notin {"off", "load", "exit"}
  BY <1>1, <1>2 DEF Sound, Fresh
<1> QED
  BY <1>1, <1>4, <1>5, <1>6, <1>7 DEF Quiet, PhpAt, Sound

LEMMA PanelStepIsQuiet ==
  ASSUME Processes, inFile \in SUBSET Questions, NEW w \in Workers, PanelStep(w)
  PROVE  Quiet(w)
<1>1. CASE Load(w)
  BY <1>1, LoadIsQuiet
<1>2. CASE LoadFails(w)
  <2>1. php[w].pc \notin {"off", "exit"} /\ (Exit(w, 2) \/ Exit(w, 1))
    BY <1>2 DEF LoadFails, PhpAt
  <2> QED
    BY <2>1, ExitIsQuiet
<1>3. CASE Launch(w)
  BY <1>3, LaunchIsQuiet
<1>4. CASE EngineEnds(w)
  BY <1>4, EngineEndsIsQuiet
<1>5. CASE Finish(w)
  BY <1>5, FinishIsQuiet
<1>6. CASE ReadEnds(w)
  BY <1>6, PcIsQuiet, Zenon DEF ReadEnds, PhpAt
<1>7. CASE Respond(w)
  BY <1>7, RespondIsQuiet
<1>8. CASE BackoffEnds(w)
  BY <1>8, BackoffEndsIsQuiet
<1>9. CASE WriteTemporary(w)
  BY <1>9, PcIsQuiet, Zenon DEF WriteTemporary, PhpAt
<1>10. CASE Move(w)
  BY <1>10, PcIsQuiet, Zenon DEF Move, PhpAt
<1>11. CASE WriteFails(w)
  <2>1. php[w].pc \notin {"off", "exit"} /\ Exit(w, 1)
    BY <1>11 DEF WriteFails, PhpAt
  <2> QED
    BY <2>1, ExitIsQuiet
<1>12. CASE Ends(w)
  <2>1. php[w].pc \notin {"off", "exit"} /\ Exit(w, 0)
    BY <1>12 DEF Ends, PhpAt
  <2> QED
    BY <2>1, ExitIsQuiet
<1>13. CASE Killed(w)
  <2>1. php[w].pc \notin {"off", "exit"} /\ Exit(w, 143)
    BY <1>13 DEF Killed, Alive
  <2> QED
    BY <2>1, ExitIsQuiet
<1>14. CASE Dies(w)
  <2>1. php[w].pc \notin {"off", "exit"} /\ Exit(w, 255)
    BY <1>14 DEF Dies, Alive
  <2> QED
    BY <2>1, ExitIsQuiet
<1> QED
  BY <1>1, <1>2, <1>3, <1>4, <1>5, <1>6, <1>7, <1>8, <1>9, <1>10, <1>11, <1>12, <1>13, <1>14
     DEF PanelStep, Asking, Outside, Writing
-----------------------------------------------------------------------------
(* The invariant *)

LEMMA InitInv == Init => IInv
  BY OffIsSound DEF Init, PanelInit, IInv, JobRow, NoCall, Ended, Linked, At, Off, Sound

\* A step of a process leaves its link to the call alone.
LEMMA PanelMovesInv ==
  ASSUME IInv, NEW w \in Workers, PanelMoves(w)
  PROVE  IInv'
<1>1. Quiet(w) /\ UNCHANGED job
  BY PanelStepIsQuiet DEF IInv, Processes, PanelMoves
<1>2. inFile' = inFile
  BY DEF PanelMoves, PanelStep, Load, LoadFails, Asking, Outside, Writing, Launch, EngineEnds,
         Finish, ReadEnds, Respond, BackoffEnds, WriteTemporary, Move, WriteFails, Ends, Killed, Dies
<1>3. outFile' = outFile \/ outFile' = php[w].rows
  BY DEF PanelMoves, PanelStep, Load, LoadFails, Asking, Outside, Writing, Launch, EngineEnds,
         Finish, ReadEnds, Respond, BackoffEnds, WriteTemporary, Move, WriteFails, Ends, Killed, Dies
<1>4. outFile' \in SUBSET Row
  BY <1>3 DEF IInv, Process
<1>5. \A v \in Workers : Sound(php'[v])
  BY <1>1 DEF IInv, Quiet
<1>6. \A v \in Workers : Linked(v)'
  BY <1>1 DEF IInv, Quiet, Linked, At
<1> QED
  BY <1>1, <1>2, <1>4, <1>5, <1>6 DEF IInv, Quiet

\* A step of a call that leaves its process alone, or puts n in its place.
LEMMA JobInv ==
  ASSUME IInv, NEW w \in Workers, NEW j \in JobRow, NEW n, Sound(n),
         job' = [job EXCEPT ![w] = j], php' = [php EXCEPT ![w] = n],
         inFile' \in SUBSET Questions, outFile' \in SUBSET Row, Linked(w)'
  PROVE  IInv'
<1>1. n \in Process
  BY DEF Sound
<1>2. \A v \in Workers : Sound(php'[v])
  BY DEF IInv
<1>3. \A v \in Workers : Linked(v)'
  BY DEF IInv, Linked, At
<1> QED
  BY <1>1, <1>2, <1>3 DEF IInv
LEMMA CallInv ==
  ASSUME IInv, NEW w \in Workers, Call(w)
  PROVE  IInv'
<1>1. PICK qs \in SUBSET Questions :
         job' = [job EXCEPT ![w] = [NoCall EXCEPT !.pc = "remove", !.asked = qs]]
  BY DEF Call
<1>2. PICK j : j = [NoCall EXCEPT !.pc = "remove", !.asked = qs]
  OBVIOUS
<1>3. j \in JobRow /\ j.pc = "remove" /\ ~j.aborted /\ j.stop = "none"
  BY <1>2 DEF JobRow, NoCall
<1>4. php[w].pc = "off" /\ Sound(php[w])
  BY DEF IInv, Linked, Call, At, Ended
<1>5. UNCHANGED panelVars /\ php' = [php EXCEPT ![w] = php[w]]
  BY DEF Call, panelVars, IInv
<1>6. job' = [job EXCEPT ![w] = j]
  BY <1>1, <1>2
<1>7. Linked(w)'
  BY <1>3, <1>4, <1>5, <1>6 DEF Linked, At, panelVars, IInv
<1> QED
  BY <1>3, <1>4, <1>5, <1>6, <1>7, JobInv DEF panelVars, IInv

\* A call goes to another statement: no process is there, or none stays.
LEMMA GoToInv ==
  ASSUME IInv, NEW w \in Workers, NEW place \in Ended \cup {"save", "spawn", "parse", "clean"},
         NEW answers \in SUBSET Row, job' = [job EXCEPT ![w].pc = place, ![w].rows = answers],
         \/ ~At(w, "wait") /\ php' = php
         \/ php' = [php EXCEPT ![w] = Off],
         inFile' \in SUBSET Questions, outFile' \in SUBSET Row
  PROVE  IInv'
<1>1. PICK to : to = [job[w] EXCEPT !.pc = place, !.rows = answers]
  OBVIOUS
<1>2. to \in JobRow /\ to.aborted = job[w].aborted /\ to.stop = job[w].stop /\ to.pc = place
  <2>1. job[w] \in JobRow
    BY DEF IInv
  <2> QED
    BY <1>1, <2>1 DEF JobRow
<1>3. job' = [job EXCEPT ![w] = to]
  BY <1>1 DEF IInv
<1>4. to.pc # "wait"
  BY <1>2 DEF Ended
<1>5. PICK n : Sound(n) /\ n.pc = "off" /\ php' = [php EXCEPT ![w] = n]
  <2>1. CASE ~At(w, "wait") /\ php' = php
    <3>1. php[w].pc = "off" /\ Sound(php[w]) /\ php' = [php EXCEPT ![w] = php[w]]
      BY <2>1 DEF IInv, Linked
    <3> QED
      BY <3>1
  <2>2. CASE php' = [php EXCEPT ![w] = Off]
    <3>1. Off.pc = "off"
      BY DEF Off
    <3> QED
      BY <2>2, <3>1, OffIsSound
  <2> QED
    BY <2>1, <2>2
<1>6. Linked(w)'
  BY <1>2, <1>3, <1>4, <1>5 DEF IInv, Linked, At
<1> QED
  BY <1>2, <1>3, <1>5, <1>6, JobInv

\* The same, with the rows as they were.
LEMMA GoToOnlyInv ==
  ASSUME IInv, NEW w \in Workers, NEW place \in Ended \cup {"save", "spawn", "parse", "clean"},
         GoTo(w, place),
         \/ ~At(w, "wait") /\ php' = php
         \/ php' = [php EXCEPT ![w] = Off],
         inFile' \in SUBSET Questions, outFile' \in SUBSET Row
  PROVE  IInv'
<1>1. job[w] \in JobRow
  BY DEF IInv
<1>2. PICK answers \in SUBSET Row : answers = job[w].rows
  BY <1>1 DEF JobRow
<1>3. [job[w] EXCEPT !.pc = place] = [job[w] EXCEPT !.pc = place, !.rows = answers]
  BY <1>1, <1>2 DEF JobRow
<1>4. job' = [job EXCEPT ![w].pc = place, ![w].rows = answers]
  BY <1>3 DEF GoTo, IInv
<1> QED
  BY <1>2, <1>4, GoToInv

LEMMA SpawnInv ==
  ASSUME IInv, NEW w \in Workers, Spawn(w)
  PROVE  IInv'
<1>1. job[w] \in JobRow /\ job \in [Workers -> JobRow] /\ php \in [Workers -> Process]
  BY DEF IInv
<1>2. PICK stop \in {"none", "aborted"} : stop = StopAtSpawn(w)
  BY DEF StopAtSpawn
<1>3. PICK s \in BOOLEAN : s = (stop # "none")
  OBVIOUS
<1>4. PICK j : j = [job[w] EXCEPT !.pc = "wait", !.stop = stop]
  OBVIOUS
<1>5. j \in JobRow /\ j.pc = "wait" /\ j.stop = stop /\ j.aborted = job[w].aborted
  BY <1>1, <1>4 DEF JobRow
<1>6. PICK n : n = [Off EXCEPT !.pc = "load", !.signalled = s]
  OBVIOUS
<1>7. n.signalled = s
  BY <1>6 DEF Off
<1>8. Sound(n)
  BY <1>6, SpawnIsSound, Zenon
<1>9. job' = [job EXCEPT ![w] = j] /\ php' = [php EXCEPT ![w] = n] /\ UNCHANGED <<inFile, outFile>>
  BY <1>1, <1>2, <1>3, <1>4, <1>6 DEF Spawn
<1>10. Linked(w)'
  BY <1>1, <1>2, <1>3, <1>5, <1>7, <1>9 DEF Linked, At, StopAtSpawn
<1> QED
  BY <1>5, <1>8, <1>9, <1>10, JobInv DEF IInv

LEMMA JobStepInv ==
  ASSUME IInv, NEW w \in Workers, JobStep(w)
  PROVE  IInv'
<1>1. inFile \in SUBSET Questions /\ outFile \in SUBSET Row /\ job[w] \in JobRow
      /\ job \in [Workers -> JobRow]
  BY DEF IInv
<1>2. CASE RemoveStale(w)
  BY <1>1, <1>2, GoToOnlyInv DEF RemoveStale, At
<1>3. CASE WriteJob(w)
  <2>1. job[w].asked \in SUBSET Questions
    BY <1>1 DEF JobRow
  <2> QED
    BY <1>1, <1>3, <2>1, GoToOnlyInv DEF WriteJob, At
<1>4. CASE Spawn(w)
  BY <1>4, SpawnInv
<1>5. CASE SpawnFails(w)
  BY <1>1, <1>5, GoToOnlyInv DEF SpawnFails, At, Ended
<1>6. CASE Close(w)
  <2>1. PICK place \in {"failed", "aborted", "parse"} : GoTo(w, place)
    <3>1. job[w].stop \in {"none", "timeout", "aborted"}
      BY <1>1 DEF JobRow
    <3> QED
      BY <1>6, <3>1 DEF Close
  <2> QED
    BY <1>1, <1>6, <2>1, GoToOnlyInv DEF Close, Ended
<1>7. CASE ParseResult(w)
  <2>1. CASE outFile = {}
    <3>1. GoTo(w, "failed")
      BY <1>7, <2>1 DEF ParseResult, GoTo
    <3> QED
      BY <1>1, <1>7, <3>1, GoToOnlyInv DEF ParseResult, At, Ended
  <2>2. CASE outFile # {}
    <3>1. job' = [job EXCEPT ![w].pc = "clean", ![w].rows = outFile]
      BY <1>7, <2>2 DEF ParseResult
    <3> QED
      BY <1>1, <1>7, <3>1, GoToInv DEF ParseResult, At
  <2> QED
    BY <2>1, <2>2
<1>8. CASE RemoveFiles(w)
  BY <1>1, <1>8, GoToOnlyInv DEF RemoveFiles, At, Ended
<1> QED
  BY <1>2, <1>3, <1>4, <1>5, <1>6, <1>7, <1>8 DEF JobStep

\* A signal, with or without a reason that is kept.
LEMMA SignalInv ==
  ASSUME IInv, NEW w \in Workers, At(w, "wait"),
         NEW j \in JobRow, job' = [job EXCEPT ![w] = j], j.pc = "wait", j.stop # "none",
         j.stop = "aborted" => j.aborted,
         php' = [php EXCEPT ![w].signalled = TRUE], UNCHANGED <<inFile, outFile>>
  PROVE  IInv'
<1>1. php[w] \in Process /\ Sound(php[w]) /\ php \in [Workers -> Process] /\ job \in [Workers -> JobRow]
  BY DEF IInv
<1>2. PICK n : n = [php[w] EXCEPT !.signalled = TRUE]
  OBVIOUS
<1>3. n.signalled /\ php' = [php EXCEPT ![w] = n]
  BY <1>1, <1>2 DEF Process
<1>4. Sound(n)
  BY <1>1, <1>2, SignalIsSound, Zenon
<1>5. Linked(w)'
  BY <1>1, <1>3 DEF Linked, At
<1> QED
  BY <1>3, <1>4, <1>5, JobInv DEF IInv

LEMMA TimeoutInv ==
  ASSUME IInv, NEW w \in Workers, Timeout(w)
  PROVE  IInv'
<1>1. job[w] \in JobRow /\ job \in [Workers -> JobRow] /\ At(w, "wait") /\ job[w].stop = "none"
  BY DEF IInv, Timeout, Stop
<1>2. PICK j : j = [job[w] EXCEPT !.stop = "timeout"]
  OBVIOUS
<1>3. j \in JobRow /\ j.pc = "wait" /\ j.stop = "timeout"
  BY <1>1, <1>2 DEF JobRow, At
<1>4. job' = [job EXCEPT ![w] = j]
  BY <1>1, <1>2 DEF Timeout, Stop, Stops
<1> QED
  BY <1>1, <1>3, <1>4, SignalInv DEF Timeout, Stop

LEMMA AbortInv ==
  ASSUME IInv, NEW w \in Workers, Abort(w)
  PROVE  IInv'
<1>1. /\ job[w] \in JobRow /\ job \in [Workers -> JobRow] /\ Linked(w) /\ Sound(php[w])
      /\ php \in [Workers -> Process]
  BY DEF IInv
<1>2. CASE At(w, "wait") /\ job[w].stop = "none"
  <2>1. PICK j : j = [job[w] EXCEPT !.aborted = TRUE, !.stop = "aborted"]
    OBVIOUS
  <2>2. j \in JobRow /\ j.pc = "wait" /\ j.stop = "aborted" /\ j.aborted
    BY <1>1, <1>2, <2>1 DEF JobRow, At
  <2>3. job' = [job EXCEPT ![w] = j]
    BY <1>1, <1>2, <2>1 DEF Abort
  <2> QED
    BY <1>2, <2>2, <2>3, SignalInv DEF Abort
<1>3. CASE ~(At(w, "wait") /\ job[w].stop = "none")
  <2>1. PICK j : j = [job[w] EXCEPT !.aborted = TRUE]
    OBVIOUS
  <2>2. j \in JobRow /\ j.pc = job[w].pc /\ j.stop = job[w].stop /\ j.aborted
    BY <1>1, <2>1 DEF JobRow
  <2>3. job' = [job EXCEPT ![w] = j] /\ php' = [php EXCEPT ![w] = php[w]] /\ UNCHANGED panelVars
    BY <1>1, <1>3, <2>1 DEF Abort, panelVars
  <2>4. Linked(w)'
    BY <1>1, <1>3, <2>2, <2>3 DEF Linked, At, panelVars
  <2> QED
    BY <1>1, <2>2, <2>3, <2>4, JobInv DEF panelVars, IInv
<1> QED
  BY <1>2, <1>3

LEMMA CrashInv ==
  ASSUME IInv, NEW w \in Workers, Crash(w)
  PROVE  IInv'
<1>1. job' = [job EXCEPT ![w] = NoCall] /\ php' = [php EXCEPT ![w] = Off] /\ UNCHANGED <<inFile, outFile>>
  BY DEF Crash
<1>2. NoCall \in JobRow /\ NoCall.pc = "idle" /\ ~NoCall.aborted /\ NoCall.stop = "none"
  BY DEF NoCall, JobRow, Ended
<1>3. Off.pc = "off"
  BY DEF Off
<1>4. Linked(w)'
  BY <1>1, <1>2, <1>3 DEF Linked, At, IInv
<1> QED
  BY <1>1, <1>2, <1>4, OffIsSound, JobInv DEF IInv

LEMMA NextInv == IInv /\ [Next]_vars => IInv'
<1>1. SUFFICES ASSUME IInv, [Next]_vars
               PROVE  IInv'
  OBVIOUS
<1>2. CASE UNCHANGED vars
  BY <1>1, <1>2 DEF vars, IInv, Linked, At
<1>3. ASSUME NEW w \in Workers, Call(w) \/ JobStep(w) \/ Timeout(w) \/ Abort(w) \/ Crash(w) \/ PanelMoves(w)
      PROVE  IInv'
  BY <1>1, <1>3, CallInv, JobStepInv, TimeoutInv, AbortInv, CrashInv, PanelMovesInv
<1> QED
  BY <1>1, <1>2, <1>3 DEF Next

THEOREM Invariance == Spec => []IInv
  BY InitInv, NextInv, PTL DEF Spec
\* The state is of its type: no request has a try more than MAX_ATTEMPTS allows
\* (panel.php:539), and every row is of a question and an engine of the job.
THEOREM TypeCorrect == Spec => []TypeOK
<1>1. IInv => TypeOK
  BY DEF IInv, TypeOK
<1> QED
  BY <1>1, Invariance, PTL

\* A process never outlives the call that spawned it, and an abort reaches it,
\* whether it comes before the spawn or after (job.ts:186-207).
THEOREM TheProcessObeys == Spec => []ProcessObeysItsCall
<1>1. IInv => NoOrphan
  BY DEF IInv, NoOrphan, Linked
<1>2. IInv => AbortIsSeen
  BY DEF IInv, AbortIsSeen, Linked
<1>3. IInv => ProcessObeysItsCall
  BY <1>1, <1>2 DEF ProcessObeysItsCall
<1> QED
  BY <1>3, Invariance, PTL

LEMMA AtMostOne ==
  ASSUME NEW T, \A a, b \in T : a = b
  PROVE  Cardinality(T) = IF T = {} THEN 0 ELSE 1
<1>1. CASE T = {}
  BY <1>1, FS_EmptySet
<1>2. CASE T # {}
  <2>1. PICK a \in T : T = {a}
    BY <1>2
  <2>2. Cardinality({a}) = 1
    BY FS_Singleton
  <2> QED
    BY <1>2, <2>1, <2>2
<1> QED
  BY <1>1, <1>2

\* While an engine is asked, every question is in one place and counted once:
\* no answer is lost and none is asked for twice at a time.
THEOREM QuestionsInOnePlace == Spec => []OnePlace
<1>1. ASSUME IInv, NEW w \in Workers, php[w].pc \in {"launch", "read"}, NEW q \in php[w].asked
      PROVE  Cardinality({r \in php[w].flight : r.q = q}) + Cardinality({i \in php[w].pending : i.q = q})
               + Cardinality({r \in php[w].rows : r.q = q /\ r.e = php[w].engine})
               + (IF q \in php[w].queue THEN 1 ELSE 0) = 1
  <2> DEFINE p == php[w]
             F == {r \in p.flight : r.q = q}
             B == {i \in p.pending : i.q = q}
             R == {r \in p.rows : r.q = q /\ r.e = p.engine}
  <2>1. Placed(p) /\ OneRowEach(p)
    BY <1>1 DEF IInv, Sound
  <2>2. Cardinality(F) = IF F = {} THEN 0 ELSE 1
    <3>1. \A a, b \in F : a = b
      BY <2>1 DEF Placed
    <3> QED
      BY <3>1, AtMostOne
  <2>3. Cardinality(B) = IF B = {} THEN 0 ELSE 1
    <3>1. \A a, b \in B : a = b
      BY <2>1 DEF Placed
    <3> QED
      BY <3>1, AtMostOne
  <2>4. Cardinality(R) = IF R = {} THEN 0 ELSE 1
    <3>1. \A a, b \in R : a = b
      BY <2>1 DEF OneRowEach
    <3> QED
      BY <3>1, AtMostOne
  <2>5. R # {} <=> Answered(p, q, p.engine)
    BY DEF Answered
  <2>6. F # {} <=> \E r \in p.flight : r.q = q
    OBVIOUS
  <2>7. B # {} <=> \E i \in p.pending : i.q = q
    OBVIOUS
  <2>8. F # {} \/ B # {} \/ R # {} \/ q \in p.queue
    BY <1>1, <2>1, <2>5, <2>6, <2>7 DEF Placed
  <2>9. /\ F # {} => B = {} /\ R = {} /\ q \notin p.queue
        /\ B # {} => R = {} /\ q \notin p.queue
        /\ R # {} => q \notin p.queue
    BY <2>1, <2>5 DEF Placed
  <2> HIDE DEF F, B, R
  <2>10. Cardinality(F) + Cardinality(B) + Cardinality(R) + (IF q \in p.queue THEN 1 ELSE 0) = 1
    BY <2>2, <2>3, <2>4, <2>8, <2>9
  <2> QED
    BY <2>10 DEF F, B, R
<1>2. IInv => OnePlace
  BY <1>1 DEF OnePlace
<1> QED
  BY <1>2, Invariance, PTL
-----------------------------------------------------------------------------
(* One worker to a directory *)

OneWorker == \E w : Workers = {w}

\* Where the questions of the call are, from the job file to the result file.
Traced(w) ==
  /\ At(w, "spawn") => inFile = job[w].asked
  /\ At(w, "wait") /\ PhpAt(w, "load") => inFile = job[w].asked
  /\ At(w, "wait") /\ php[w].pc \notin {"off", "load", "exit"} => php[w].asked = job[w].asked
  /\ At(w, "wait") /\ PhpAt(w, "done") => Promise!Whole(outFile, job[w].asked)
  /\ At(w, "wait") /\ PhpAt(w, "exit") /\ php[w].code = 0 => Promise!Whole(outFile, job[w].asked)
  /\ At(w, "parse") => Promise!Whole(outFile, job[w].asked)
  /\ At(w, "clean") => Promise!Whole(job[w].rows, job[w].asked)

LEMMA SoundIsWhole ==
  ASSUME NEW p, Sound(p), p.pc = "move"
  PROVE  Promise!Whole(p.rows, p.asked)
<1>1. p.rows \subseteq Row /\ OneRowEach(p) /\ \A q \in p.asked, e \in Engines : Answered(p, q, e)
  BY DEF Sound, Process
<1>2. p.rows \subseteq [q : p.asked, e : Engines, ok : BOOLEAN]
  BY <1>1 DEF OneRowEach, Row
<1> QED
  BY <1>1, <1>2 DEF OneRowEach, Answered, Promise!Whole

\* What a step of the process does to the files and to its end.
LEMMA PanelMovesFiles ==
  ASSUME IInv, NEW w \in Workers, PanelMoves(w)
  PROVE  /\ UNCHANGED <<inFile, job>>
         /\ \/ outFile' = outFile
            \/ php[w].pc = "move" /\ outFile' = php[w].rows
         /\ PhpAt(w, "done")' =>
              \/ PhpAt(w, "done") /\ outFile' = outFile
              \/ php[w].pc = "move" /\ outFile' = php[w].rows
         /\ PhpAt(w, "exit")' /\ php'[w].code = 0 => PhpAt(w, "done") /\ outFile' = outFile
<1>1. /\ UNCHANGED <<inFile, job>> /\ PanelStep(w)
      /\ php \in [Workers -> Process] /\ php[w] \in Process
      /\ Quiet(w)
  BY PanelStepIsQuiet
     DEF PanelMoves, PanelStep, Load, LoadFails, Asking, Outside, Writing, Launch, EngineEnds,
         Finish, ReadEnds, Respond, BackoffEnds, WriteTemporary, Move, WriteFails, Ends, Killed, Dies,
         IInv, Processes
<1>2. ASSUME NEW c, Exit(w, c)
      PROVE  PhpAt(w, "exit")' /\ php'[w].code = c
  BY <1>1, <1>2 DEF Exit, Off, PhpAt
<1>3. CASE Load(w) \/ Launch(w) \/ EngineEnds(w) \/ Finish(w) \/ ReadEnds(w) \/ WriteTemporary(w)
  <2>1. php'[w].pc \in {"launch", "write", "read", "move"}
    <3>1. CASE Load(w)
      BY <1>1, <3>1 DEF Load, TakesEngine, Process
    <3>2. CASE Launch(w)
      BY <1>1, <3>2 DEF Launch, Process
    <3>3. CASE EngineEnds(w)
      <4>1. \/ php' = [php EXCEPT ![w].pc = "write"]
            \/ \E e \in php[w].engines : TakesEngine(w, e, php[w].engines, php[w].asked)
        BY <3>3 DEF EngineEnds
      <4>2. CASE php' = [php EXCEPT ![w].pc = "write"]
        BY <1>1, <4>2 DEF Process
      <4>3. ASSUME NEW e, TakesEngine(w, e, php[w].engines, php[w].asked)
            PROVE  php'[w].pc = "launch"
        BY <1>1, <4>3 DEF TakesEngine, Process
      <4> QED
        BY <4>1, <4>2, <4>3
    <3>4. CASE Finish(w)
      BY <1>1, <3>4 DEF Finish, PhpAt, Process
    <3>5. CASE ReadEnds(w) \/ WriteTemporary(w)
      BY <1>1, <3>5 DEF ReadEnds, WriteTemporary, Process
    <3> QED
      BY <1>3, <3>1, <3>2, <3>3, <3>4, <3>5
  <2>2. outFile' = outFile
    BY <1>3 DEF Load, Launch, EngineEnds, Finish, ReadEnds, WriteTemporary
  <2> QED
    BY <1>1, <2>1, <2>2 DEF PhpAt
<1>4. CASE Respond(w) \/ BackoffEnds(w)
  <2>1. php'[w].pc = php[w].pc /\ outFile' = outFile
    BY <1>1, <1>4 DEF Respond, BackoffEnds, Process
  <2>2. php[w].pc # "exit"
    BY <1>1 DEF Quiet
  <2> QED
    BY <1>1, <2>1, <2>2 DEF PhpAt
<1>5. CASE Move(w)
  <2>1. php[w].pc = "move" /\ outFile' = php[w].rows /\ php'[w].pc = "done"
    BY <1>1, <1>5 DEF Move, PhpAt, Process
  <2> QED
    BY <1>1, <2>1 DEF PhpAt
<1>6. CASE Ends(w)
  <2>1. PhpAt(w, "done") /\ outFile' = outFile /\ PhpAt(w, "exit")'
    BY <1>2, <1>6 DEF Ends
  <2> QED
    BY <1>1, <2>1 DEF PhpAt
<1>7. CASE LoadFails(w) \/ WriteFails(w) \/ Killed(w) \/ Dies(w)
  <2>1. \E c \in {1, 2, 143, 255} : Exit(w, c)
    BY <1>7 DEF LoadFails, WriteFails, Killed, Dies
  <2>2. outFile' = outFile
    BY <1>7 DEF LoadFails, WriteFails, Killed, Dies
  <2> QED
    BY <1>1, <1>2, <2>1, <2>2 DEF PhpAt
<1> QED
  BY <1>1, <1>3, <1>4, <1>5, <1>6, <1>7 DEF PanelStep, Asking, Outside, Writing

\* Only one worker has a process or a call.
LEMMA TraceInit == Init => \A w \in Workers : Traced(w)
  BY DEF Init, Traced, At, PhpAt, PanelInit, NoCall, Off

LEMMA TraceMoves ==
  ASSUME IInv, NEW w \in Workers, Workers = {w}, Traced(w), PanelMoves(w)
  PROVE  Traced(w)'
<1>1. Quiet(w) /\ Sound(php[w])
  BY PanelStepIsQuiet DEF IInv, Processes, PanelMoves
<1>2. /\ inFile' = inFile /\ job' = job
      /\ \/ outFile' = outFile
         \/ php[w].pc = "move" /\ outFile' = php[w].rows
      /\ PhpAt(w, "done")' =>
           \/ PhpAt(w, "done") /\ outFile' = outFile
           \/ php[w].pc = "move" /\ outFile' = php[w].rows
      /\ PhpAt(w, "exit")' /\ php'[w].code = 0 => PhpAt(w, "done") /\ outFile' = outFile
  BY PanelMovesFiles
<1>3. At(w, "wait") /\ At(w, "wait")'
  BY <1>1, <1>2 DEF IInv, Linked, Quiet, At
<1>4. php'[w].pc \notin {"off", "load", "exit"} => php'[w].asked = job[w].asked
  BY <1>1, <1>3 DEF Quiet, Traced, PhpAt
<1>5. php[w].pc = "move" => Promise!Whole(php[w].rows, job[w].asked)
  BY <1>1, <1>3, SoundIsWhole DEF Traced
<1>6. PhpAt(w, "done") => Promise!Whole(outFile, job[w].asked)
  BY <1>3 DEF Traced
<1>7. php'[w].pc \notin {"off", "load"}
  BY <1>1 DEF Quiet
<1>8. PhpAt(w, "done")' => Promise!Whole(outFile', job[w].asked)
  BY <1>2, <1>5, <1>6
<1>9. PhpAt(w, "exit")' /\ php'[w].code = 0 => Promise!Whole(outFile', job[w].asked)
  BY <1>2, <1>6
<1> QED
  BY <1>2, <1>3, <1>4, <1>7, <1>8, <1>9 DEF Traced, At, PhpAt, Promise!Whole
LEMMA TraceCall ==
  ASSUME IInv, NEW w \in Workers, Traced(w), Call(w) \/ Crash(w)
  PROVE  Traced(w)'
<1>1. job'[w].pc \in {"remove", "idle"}
  <2>1. job \in [Workers -> JobRow]
    BY DEF IInv
  <2>2. CASE Call(w)
    BY <2>1, <2>2 DEF Call, NoCall
  <2>3. CASE Crash(w)
    BY <2>1, <2>3 DEF Crash, NoCall
  <2> QED
    BY <2>2, <2>3
<1> QED
  BY <1>1 DEF Traced, At

LEMMA TraceJobStep ==
  ASSUME IInv, NEW w \in Workers, Workers = {w}, Traced(w), JobStep(w)
  PROVE  Traced(w)'
<1>1. /\ job \in [Workers -> JobRow] /\ job[w] \in JobRow
      /\ php \in [Workers -> Process] /\ php[w] \in Process
  BY DEF IInv
<1>2. CASE RemoveStale(w)
  <2>1. job'[w].pc = "save"
    BY <1>1, <1>2 DEF RemoveStale, GoTo, JobRow
  <2> QED
    BY <2>1 DEF Traced, At
<1>3. CASE WriteJob(w)
  <2>1. job'[w].pc = "spawn" /\ job'[w].asked = job[w].asked /\ inFile' = job[w].asked
    BY <1>1, <1>3 DEF WriteJob, GoTo, JobRow
  <2> QED
    BY <2>1 DEF Traced, At
<1>4. CASE Spawn(w)
  <2>1. job'[w].pc = "wait" /\ job'[w].asked = job[w].asked /\ inFile' = inFile
    BY <1>1, <1>4 DEF Spawn, JobRow
  <2>2. php'[w].pc = "load"
    BY <1>1, <1>4 DEF Spawn, Off
  <2> QED
    BY <1>4, <2>1, <2>2 DEF Traced, At, PhpAt, Spawn
<1>5. CASE SpawnFails(w)
  <2>1. job'[w].pc = "failed"
    BY <1>1, <1>5 DEF SpawnFails, GoTo, JobRow
  <2> QED
    BY <2>1 DEF Traced, At
<1>6. CASE Close(w)
  <2>1. /\ job'[w].pc \in {"failed", "aborted", "parse"} /\ job'[w].asked = job[w].asked
        /\ job'[w].pc = "parse" => php[w].code = 0
    <3>1. job[w].stop \in {"none", "timeout", "aborted"}
      BY <1>1 DEF JobRow
    <3> QED
      BY <1>1, <1>6, <3>1 DEF Close, GoTo, JobRow
  <2>2. outFile' = outFile /\ At(w, "wait") /\ PhpAt(w, "exit")
    BY <1>6 DEF Close
  <2>3. job'[w].pc = "parse" => Promise!Whole(outFile, job[w].asked)
    BY <2>1, <2>2 DEF Traced
  <2> QED
    BY <2>1, <2>2, <2>3 DEF Traced, At
<1>7. CASE ParseResult(w)
  <2>1. CASE outFile = {}
    <3>1. job'[w].pc = "failed"
      BY <1>1, <1>7, <2>1 DEF ParseResult, JobRow
    <3> QED
      BY <3>1 DEF Traced, At
  <2>2. CASE outFile # {}
    <3>1. job'[w].pc = "clean" /\ job'[w].rows = outFile /\ job'[w].asked = job[w].asked
      BY <1>1, <1>7, <2>2 DEF ParseResult, JobRow
    <3>2. Promise!Whole(outFile, job[w].asked)
      BY <1>7 DEF ParseResult, Traced
    <3> QED
      BY <3>1, <3>2 DEF Traced, At
  <2> QED
    BY <2>1, <2>2
<1>8. CASE RemoveFiles(w)
  <2>1. job'[w].pc = "returned"
    BY <1>1, <1>8 DEF RemoveFiles, GoTo, JobRow
  <2> QED
    BY <2>1 DEF Traced, At
<1> QED
  BY <1>2, <1>3, <1>4, <1>5, <1>6, <1>7, <1>8 DEF JobStep

LEMMA TraceSignal ==
  ASSUME IInv, NEW w \in Workers, Traced(w), Timeout(w) \/ Abort(w)
  PROVE  Traced(w)'
<1>1. /\ job \in [Workers -> JobRow] /\ job[w] \in JobRow
      /\ php \in [Workers -> Process] /\ php[w] \in Process
  BY DEF IInv
<1>2. UNCHANGED <<inFile, outFile>>
  BY DEF Timeout, Abort
<1>3. /\ job'[w].pc = job[w].pc /\ job'[w].asked = job[w].asked /\ job'[w].rows = job[w].rows
  BY <1>1 DEF Timeout, Stop, Stops, Abort, JobRow
<1>4. /\ php'[w].pc = php[w].pc /\ php'[w].asked = php[w].asked /\ php'[w].code = php[w].code
  BY <1>1 DEF Timeout, Stop, Abort, Process
<1> QED
  BY <1>2, <1>3, <1>4 DEF Traced, At, PhpAt

LEMMA TraceNext ==
  ASSUME IInv, NEW w, Workers = {w}, Traced(w), [Next]_vars
  PROVE  Traced(w)'
<1>1. w \in Workers
  OBVIOUS
<1>2. CASE UNCHANGED vars
  BY <1>2 DEF vars, Traced, At, PhpAt
<1>3. CASE Call(w) \/ Crash(w)
  BY <1>1, <1>3, TraceCall
<1>4. CASE JobStep(w)
  BY <1>1, <1>4, TraceJobStep
<1>5. CASE Timeout(w) \/ Abort(w)
  BY <1>1, <1>5, TraceSignal
<1>6. CASE PanelMoves(w)
  BY <1>1, <1>6, TraceMoves
<1> QED
  BY <1>2, <1>3, <1>4, <1>5, <1>6 DEF Next
-----------------------------------------------------------------------------
(* PanelJob implements PanelCall *)

LEMMA RefineInit == Init => Promise!Init
  BY DEF Init, Promise!Init, NoCall, Ended, At

\* The calls as their caller sees them.
LEMMA RefineCall ==
  ASSUME IInv, NEW w, Workers = {w}, Call(w)
  PROVE  Promise!Call(w)
<1>1. job \in [Workers -> JobRow] /\ job[w].pc \in Ended
  BY DEF IInv, Call
<1>2. PICK qs \in (SUBSET Questions) \ {{}} :
         job' = [job EXCEPT ![w] = [NoCall EXCEPT !.pc = "remove", !.asked = qs]]
  BY DEF Call
<1>3. job'[w].pc = "remove" /\ job'[w].asked = qs /\ job'[w].aborted = FALSE
  BY <1>1, <1>2 DEF NoCall
<1> QED
  BY <1>1, <1>3 DEF Promise!Call, At, Ended

LEMMA RefineCrash ==
  ASSUME IInv, NEW w, Workers = {w}, Crash(w)
  PROVE  Promise!Die(w)
<1>1. job'[w].pc = "idle" /\ job'[w].asked = {} /\ job'[w].aborted = FALSE
  BY DEF IInv, Crash, NoCall
<1> QED
  BY <1>1 DEF Promise!Die, At, Ended

\* Inside a call nothing shows.
LEMMA RefineInside ==
  ASSUME NEW w, Workers = {w}, job[w].pc \notin Ended, job'[w].pc \notin Ended,
         job'[w].asked = job[w].asked, job'[w].aborted = job[w].aborted
  PROVE  UNCHANGED Promise!call
  BY DEF Promise!call, At, Ended

LEMMA RefineFail ==
  ASSUME NEW w, Workers = {w}, job[w].pc \notin Ended, job'[w].pc \in {"failed", "aborted"},
         job'[w].asked = job[w].asked, job'[w].aborted = job[w].aborted,
         job'[w].pc = "aborted" => job[w].aborted
  PROVE  Promise!Fail(w)
  BY DEF Promise!Fail, At, Ended

LEMMA RefineReturn ==
  ASSUME NEW w, Workers = {w}, job[w].pc \notin Ended, job'[w].pc = "returned",
         job'[w].asked = job[w].asked, job'[w].aborted = job[w].aborted,
         job'[w].rows \subseteq Row, Promise!Whole(job'[w].rows, job[w].asked)
  PROVE  Promise!Return(w)
<1>1. PICK answers : answers = job'[w].rows
  OBVIOUS
<1>2. answers \in SUBSET Promise!Row /\ Promise!Whole(answers, job[w].asked)
  BY <1>1 DEF Promise!Row, Row
<1>3. job[w].pc # "returned" /\ "returned" \in Ended
  BY DEF Ended
<1>4. [v \in Workers |-> IF At(v, "returned") THEN job[v].rows ELSE {}]'
        = [[v \in Workers |-> IF At(v, "returned") THEN job[v].rows ELSE {}] EXCEPT ![w] = answers]
  BY <1>1 DEF At
<1>5. [v \in Workers |-> IF job[v].pc \in Ended THEN job[v].pc ELSE "asking"]'
        = [[v \in Workers |-> IF job[v].pc \in Ended THEN job[v].pc ELSE "asking"]
             EXCEPT ![w] = "returned"]
  BY <1>3
<1>6. UNCHANGED <<[v \in Workers |-> job[v].asked], [v \in Workers |-> job[v].aborted]>>
  OBVIOUS
<1>7. [v \in Workers |-> IF job[v].pc \in Ended THEN job[v].pc ELSE "asking"][w] = "asking"
      /\ [v \in Workers |-> job[v].asked][w] = job[w].asked
  OBVIOUS
<1> QED
  BY <1>2, <1>4, <1>5, <1>6, <1>7, Zenon DEF Promise!Return

LEMMA RefineAbort ==
  ASSUME IInv, NEW w, Workers = {w}, Abort(w)
  PROVE  Promise!Abort(w)
<1>1. job \in [Workers -> JobRow] /\ job[w] \in JobRow /\ job[w].pc \notin Ended
  BY DEF IInv, Abort
<1>2. /\ job'[w].pc = job[w].pc /\ job'[w].asked = job[w].asked /\ job'[w].aborted = TRUE
  BY <1>1 DEF Abort, JobRow
<1> QED
  BY <1>1, <1>2 DEF Promise!Abort, At, Ended

LEMMA RefineJobStep ==
  ASSUME IInv, NEW w, Workers = {w}, Traced(w), JobStep(w)
  PROVE  [Promise!Next]_(Promise!call)
<1>1. w \in Workers /\ job \in [Workers -> JobRow] /\ job[w] \in JobRow /\ Linked(w)
  BY DEF IInv
<1>2. CASE RemoveStale(w) \/ WriteJob(w) \/ Spawn(w)
  <2>1. /\ job[w].pc \notin Ended /\ job'[w].pc \notin Ended
        /\ job'[w].asked = job[w].asked /\ job'[w].aborted = job[w].aborted
    BY <1>1, <1>2 DEF RemoveStale, WriteJob, Spawn, GoTo, At, JobRow, Ended
  <2> QED
    BY <2>1, RefineInside
<1>3. CASE SpawnFails(w)
  <2>1. /\ job[w].pc \notin Ended /\ job'[w].pc = "failed"
        /\ job'[w].asked = job[w].asked /\ job'[w].aborted = job[w].aborted
    BY <1>1, <1>3 DEF SpawnFails, GoTo, At, JobRow, Ended
  <2> QED
    BY <1>1, <2>1, RefineFail DEF Promise!Next
<1>4. CASE Close(w)
  <2>1. /\ job[w].pc \notin Ended /\ job[w].stop \in {"none", "timeout", "aborted"}
        /\ job'[w].asked = job[w].asked /\ job'[w].aborted = job[w].aborted
    BY <1>1, <1>4 DEF Close, GoTo, At, JobRow, Ended
  <2>2. \/ job'[w].pc = "failed"
        \/ job'[w].pc = "aborted" /\ job[w].stop = "aborted"
        \/ job'[w].pc = "parse"
    BY <1>1, <1>4, <2>1 DEF Close, GoTo, JobRow
  <2>3. CASE job'[w].pc = "parse"
    BY <2>1, <2>3, RefineInside DEF Ended
  <2>4. CASE job'[w].pc # "parse"
    <3>1. Promise!Fail(w)
      BY <1>1, <2>1, <2>2, <2>4, RefineFail DEF Linked
    <3> QED
      BY <1>1, <3>1 DEF Promise!Next
  <2> QED
    BY <2>3, <2>4
<1>5. CASE ParseResult(w)
  <2>1. /\ job[w].pc \notin Ended /\ job'[w].pc \in {"failed", "clean"}
        /\ job'[w].asked = job[w].asked /\ job'[w].aborted = job[w].aborted
    BY <1>1, <1>5 DEF ParseResult, At, JobRow, Ended
  <2>2. CASE job'[w].pc = "failed"
    BY <1>1, <2>1, <2>2, RefineFail DEF Promise!Next
  <2>3. CASE job'[w].pc = "clean"
    BY <2>1, <2>3, RefineInside DEF Ended
  <2> QED
    BY <2>1, <2>2, <2>3
<1>6. CASE RemoveFiles(w)
  <2>1. /\ job[w].pc \notin Ended /\ job'[w].pc = "returned" /\ job'[w].rows = job[w].rows
        /\ job'[w].asked = job[w].asked /\ job'[w].aborted = job[w].aborted
        /\ job[w].rows \subseteq Row
    BY <1>1, <1>6 DEF RemoveFiles, GoTo, At, JobRow, Ended
  <2>2. Promise!Whole(job[w].rows, job[w].asked)
    BY <1>6 DEF RemoveFiles, Traced
  <2> QED
    BY <1>1, <2>1, <2>2, RefineReturn DEF Promise!Next
<1> QED
  BY <1>2, <1>3, <1>4, <1>5, <1>6 DEF JobStep

LEMMA RefineNext ==
  ASSUME IInv, NEW w, Workers = {w}, Traced(w), [Next]_vars
  PROVE  [Promise!Next]_(Promise!call)
<1>1. w \in Workers /\ job \in [Workers -> JobRow] /\ job[w] \in JobRow
  BY DEF IInv
<1>2. CASE UNCHANGED vars \/ PanelMoves(w)
  <2>1. job' = job
    BY <1>2 DEF vars, PanelMoves
  <2> QED
    BY <2>1 DEF Promise!call, At
<1>3. CASE Call(w)
  BY <1>1, <1>3, RefineCall DEF Promise!Next
<1>4. CASE JobStep(w)
  BY <1>4, RefineJobStep
<1>5. CASE Timeout(w)
  <2>1. /\ job[w].pc \notin Ended /\ job'[w].pc \notin Ended
        /\ job'[w].asked = job[w].asked /\ job'[w].aborted = job[w].aborted
    BY <1>1, <1>5 DEF Timeout, Stop, Stops, At, JobRow, Ended
  <2> QED
    BY <2>1, RefineInside
<1>6. CASE Abort(w)
  BY <1>1, <1>6, RefineAbort DEF Promise!Next
<1>7. CASE Crash(w)
  BY <1>1, <1>7, RefineCrash DEF Promise!Next
<1> QED
  BY <1>2, <1>3, <1>4, <1>5, <1>6, <1>7 DEF Next

\* With one worker to a directory, runPanelJob returns one row for every
\* question and engine it was asked, or fails and returns nothing; and it says
\* "aborted" only to a caller that aborted.
THEOREM PanelJobImplementsPanelCall ==
  ASSUME OneWorker
  PROVE  Spec => ImplementsPanelCall
<1>1. PICK w : Workers = {w}
  BY DEF OneWorker
<1>2. Init => Promise!Init /\ Traced(w)
  BY <1>1, RefineInit, TraceInit
<1>3. IInv /\ Traced(w) /\ [Next]_vars => Traced(w)'
  BY <1>1, TraceNext
<1>4. IInv /\ Traced(w) /\ [Next]_vars => [Promise!Next]_(Promise!call)
  BY <1>1, RefineNext
<1> QED
  BY <1>2, <1>3, <1>4, Invariance, PTL DEF Spec, ImplementsPanelCall, Promise!Spec

-----------------------------------------------------------------------------
(* The parts of MCWorker.  The run "worker" explores the queue with one      *)
(* worker and two runs, where what was proved of RunQueue for all its        *)
(* constants gives the daily cap.                                            *)

OneQueueWorker == \A v, w \in Workers : v = w

LEMMA CappedConstants ==
  /\ {1, 2} \subseteq Nat \ {0} /\ Capped!IsFiniteSet({1, 2})
  /\ {{q1}} \subseteq (SUBSET {q1}) \ {{}} /\ {{q1}} # {}
  /\ Capped!IsFiniteSet({q1})
  /\ {"crash", "dberror"} \subseteq Capped!AllFaults
<1>1. Capped!IsFiniteSet({1, 2})
  <2>1. <<1, 2>> \in Seq({1, 2}) /\ Len(<<1, 2>>) = 2
    OBVIOUS
  <2>2. \A s \in {1, 2} : \E n \in 1..Len(<<1, 2>>) : <<1, 2>>[n] = s
    <3>1. 1 \in 1..Len(<<1, 2>>) /\ 2 \in 1..Len(<<1, 2>>)
      OBVIOUS
    <3> QED BY <3>1
  <2>3. \E seq \in Seq({1, 2}) : \A s \in {1, 2} : \E n \in 1..Len(seq) : seq[n] = s
    BY <2>1, <2>2, Zenon
  <2> QED BY <2>3, Zenon DEF Capped!IsFiniteSet
<1>2. Capped!IsFiniteSet({q1})
  <2>1. <<q1>> \in Seq({q1}) /\ \A s \in {q1} : \E n \in 1..Len(<<q1>>) : <<q1>>[n] = s
    OBVIOUS
  <2> QED BY <2>1 DEF Capped!IsFiniteSet
<1>3. {"crash", "dberror"} \subseteq Capped!AllFaults
  BY DEF Capped!AllFaults
<1> QED BY <1>1, <1>2, <1>3

\* Where one worker serves the queue, over the daily cap only re-runs that
\* bypass it start (worker.ts, docker-compose.yml).
THEOREM CapIsKeptByOneWorker == ASSUME OneQueueWorker PROVE WorkerSpec => CapHoldsAtClaim
<1>1. Capped!OneWorker
  BY OneQueueWorker DEF OneQueueWorker, Capped!OneWorker
<1>2. Capped!Spec => Capped!CapHoldsAtClaim
  BY <1>1, CappedConstants, Capped!CapIsKept
<1>3. WorkerInit => Capped!Init
  BY DEF WorkerInit
<1>4. [WorkerNext]_<<AuditsVars, workerVars>> => [Capped!Next]_Capped!vars
  BY DEF WorkerNext, Panel, Capping, Auditing, workerVars, queueVars, Capped!vars
<1>5. WorkerSpec => Capped!Spec
  BY <1>3, <1>4, PTL DEF WorkerSpec, Capped!Spec
<1>6. [Capped!StartsWithinCap]_Capped!vars => [part = "cap" => Capped!StartsWithinCap]_queueVars
  BY DEF queueVars, Capped!vars
<1> QED BY <1>2, <1>5, <1>6, PTL DEF CapHoldsAtClaim, Capped!CapHoldsAtClaim

-----------------------------------------------------------------------------
(* The store of the audits (MCAudits): what every command keeps, for any     *)
(* number of terminals, questions, engines, replies and commands.            *)

AuditPlaces == {"idle", "start", "ask", "delete", "again", "reclassify"}
TermRow == [pc : AuditPlaces, engines : Seq(Store!Adapters), run : Nat, ids : SUBSET Nat,
            todo : SUBSET (Nat \X Queries), answered : Nat, failed : Nat,
            listing : Store!Listings, clean : BOOLEAN]
AuditRow == [engine : Store!Adapters, finished : BOOLEAN, query_count : Nat, error_count : Nat]
ResultRow == [id : Nat, run : Nat, query : Queries, answer : Answers,
              verdict : [own_cited : BOOLEAN, name_mentioned : BOOLEAN, directory_only : BOOLEAN, rival : BOOLEAN]]

\* A command has what its next statement needs.
InPlace(n) ==
  /\ n.pc = "start" => n.engines # <<>>
  /\ n.pc \in {"ask", "delete", "again"} => n.run \in DOMAIN audit
  /\ \A i \in n.ids : i < nextId

StoreTyped ==
  /\ listing \in Store!Listings
  /\ audit \in Seq(AuditRow)
  /\ rows \in SUBSET ResultRow /\ IsFiniteSet(rows)
  /\ nextId \in Nat \ {0}
  /\ term \in [Terminals -> TermRow]
  /\ disturbed \in SUBSET DOMAIN audit
  /\ current \in BOOLEAN
  /\ \A x \in rows : x.id < nextId /\ x.run \in DOMAIN audit
  /\ \A x \in rows : \E l \in Store!Listings : x.verdict = Store!Analyze(x.answer, l)
  /\ \A t \in Terminals : InPlace(term[t])

LEMMA StoreCounts == ASSUME NEW S PROVE /\ Store!Cardinality(S) = Cardinality(S)
                                        /\ Store!IsFiniteSet(S) <=> IsFiniteSet(S)
BY DEF Store!Cardinality, Store!IsFiniteSet, Cardinality, IsFiniteSet

LEMMA IdleTyped == /\ Store!Idle \in TermRow /\ Store!Idle.pc = "idle" /\ Store!Idle.ids = {}
                   /\ Store!Idle.clean = FALSE /\ Store!Idle.todo = {}
  BY DEF Store!Idle, TermRow, AuditPlaces, Store!Listings

LEMMA AnswersTyped == \A a \in Answers : /\ a.failed \in BOOLEAN /\ a.searched \in BOOLEAN /\ a.text \in BOOLEAN
                                         /\ a.named \in BOOLEAN /\ a.own \in BOOLEAN /\ a.site \in BOOLEAN
                                         /\ a.named => a.text
  BY StoreConstants DEF Store!AuditConstants, Store!AnswerType

LEMMA AnalyzeTyped == \A a \in Answers, l \in Store!Listings :
  Store!Analyze(a, l) \in [own_cited : BOOLEAN, name_mentioned : BOOLEAN, directory_only : BOOLEAN, rival : BOOLEAN]
  BY AnswersTyped DEF Store!Analyze

LEMMA RepliesTyped == \A e \in Store!Adapters : Store!Possible(e) \subseteq Answers
  BY DEF Store!Adapters, Store!Possible, Store!ClaudeParse, Store!OpenAIParse, Store!GeminiParse, Store!PerplexityParse

-----------------------------------------------------------------------------
(* What the commands do to their terminal and to the store. *)

LEMMA RunCommandDoes ==
  ASSUME StoreTyped, NEW t \in Terminals, Store!RunCommand(t)
  PROVE  \E n \in TermRow :
           /\ term' = [term EXCEPT ![t] = n] /\ term[t].pc = "idle" /\ InPlace(n)
           /\ n.pc = "start" /\ n.listing = listing /\ n.clean = FALSE /\ n.ids = {}
           /\ UNCHANGED <<listing, audit, rows, nextId, disturbed, current>>
<1>1. PICK es \in EngineLists :
        term' = [term EXCEPT ![t] = [Store!Idle EXCEPT !.pc = "start", !.engines = es, !.listing = listing]]
  BY DEF Store!RunCommand
<1> DEFINE n == [Store!Idle EXCEPT !.pc = "start", !.engines = es, !.listing = listing]
<1>2. es \in Seq(Store!Adapters) /\ es # <<>>
  BY StoreConstants DEF Store!AuditConstants
<1>3. n \in TermRow /\ n.pc = "start" /\ n.listing = listing /\ n.clean = FALSE /\ n.ids = {} /\ n.engines = es
  BY <1>2 DEF Store!Idle, TermRow, AuditPlaces, StoreTyped
<1>4. InPlace(n)
  BY <1>2, <1>3 DEF InPlace
<1> HIDE DEF n
<1> QED BY <1>1, <1>3, <1>4 DEF Store!RunCommand, Store!Command, n

LEMMA StartRunDoes ==
  ASSUME StoreTyped, NEW t \in Terminals, Store!StartRun(t)
  PROVE  \E n \in TermRow, a \in AuditRow :
           /\ term' = [term EXCEPT ![t] = n] /\ term[t].pc = "start"
           /\ audit' = Append(audit, a)
           /\ n.pc = "ask" /\ n.run = Len(audit) + 1 /\ n.todo = {<<0, q>> : q \in Queries}
           /\ n.answered = 0 /\ n.failed = 0
           /\ n.listing = term[t].listing /\ n.clean = term[t].clean /\ n.ids = term[t].ids
           /\ UNCHANGED <<listing, rows, nextId, disturbed, current>>
<1> DEFINE es == term[t].engines
           rest == Tail(es)
           new == Len(audit')
           todo == {<<0, q>> : q \in Queries}
           a == [engine |-> Head(es), finished |-> FALSE, query_count |-> 0, error_count |-> 0]
           n == [term[t] EXCEPT !.pc = "ask", !.engines = rest, !.run = new,
                   !.todo = todo, !.answered = 0, !.failed = 0]
<1>1. term[t] \in TermRow /\ audit \in Seq(AuditRow) /\ todo \in SUBSET (Nat \X Queries)
  BY DEF StoreTyped
<1>2. es \in Seq(Store!Adapters) /\ es # <<>>
  BY <1>1 DEF Store!StartRun, StoreTyped, InPlace, TermRow
<1>3. Head(es) \in Store!Adapters /\ rest \in Seq(Store!Adapters)
  BY <1>2
<1>4. a \in AuditRow
  BY <1>3 DEF AuditRow
<1>5. audit' = Append(audit, a) /\ new = Len(audit) + 1 /\ new \in Nat
  BY <1>1, <1>4 DEF Store!StartRun
<1>6. term' = [term EXCEPT ![t] = n]
  BY DEF Store!StartRun
<1>7. n \in TermRow
  <2> HIDE DEF todo, rest, new
  <2> QED BY <1>1, <1>3, <1>5 DEF TermRow, AuditPlaces
<1>8. /\ n.pc = "ask" /\ n.run = new /\ n.todo = todo
      /\ n.answered = 0 /\ n.failed = 0
      /\ n.listing = term[t].listing /\ n.clean = term[t].clean /\ n.ids = term[t].ids
  BY <1>1 DEF TermRow
<1>9. term[t].pc = "start" /\ UNCHANGED <<listing, rows, nextId, disturbed, current>>
  BY DEF Store!StartRun
<1> HIDE DEF n, a, new
<1> QED BY <1>4, <1>5, <1>6, <1>7, <1>8, <1>9

LEMMA SaveResultDoes ==
  ASSUME StoreTyped, NEW t \in Terminals, Store!SaveResult(t)
  PROVE  \E n \in TermRow, w \in term[t].todo, x \in ResultRow :
           /\ term' = [term EXCEPT ![t] = n] /\ term[t].pc \in {"ask", "again"}
           /\ rows' = rows \cup {x} /\ nextId' = nextId + 1
           /\ x.id = nextId /\ x.run = term[t].run /\ x.query = w[2]
           /\ x.verdict = Store!Analyze(x.answer, term[t].listing)
           /\ n.pc = term[t].pc /\ n.run = term[t].run /\ n.ids = term[t].ids /\ n.todo = term[t].todo \ {w}
           /\ n.listing = term[t].listing /\ n.clean = term[t].clean
           /\ n.answered = (IF x.answer.failed THEN term[t].answered ELSE term[t].answered + 1)
           /\ n.failed = (IF x.answer.failed THEN term[t].failed + 1 ELSE term[t].failed)
           /\ UNCHANGED <<listing, audit, disturbed, current>>
<1> DEFINE o == term[t]
<1>1. o \in TermRow /\ audit \in Seq(AuditRow) /\ o.pc \in {"ask", "again"} /\ o.run \in DOMAIN audit /\ o.run \in Nat
  BY DEF StoreTyped, InPlace, Store!SaveResult, TermRow
<1>2. PICK w \in o.todo, a \in Store!Possible(audit[o.run].engine) :
       /\ rows' = rows \cup {[id |-> nextId, run |-> o.run, query |-> w[2], answer |-> a,
                              verdict |-> Store!Analyze(a, o.listing)]}
       /\ nextId' = nextId + 1
       /\ term' = [term EXCEPT ![t].todo = @ \ {w},
                               ![t].answered = IF a.failed THEN @ ELSE @ + 1,
                               ![t].failed = IF a.failed THEN @ + 1 ELSE @]
  BY DEF Store!SaveResult, Store!FreshId
<1> DEFINE x == [id |-> nextId, run |-> o.run, query |-> w[2], answer |-> a, verdict |-> Store!Analyze(a, o.listing)]
           n == [o EXCEPT !.todo = @ \ {w}, !.answered = IF a.failed THEN @ ELSE @ + 1,
                          !.failed = IF a.failed THEN @ + 1 ELSE @]
<1>3. audit[o.run].engine \in Store!Adapters
  <2>1. audit[o.run] \in AuditRow
    BY <1>1
  <2> QED BY <2>1 DEF AuditRow
<1>4. a \in Answers
  BY <1>2, <1>3, RepliesTyped
<1>5. w \in Nat \X Queries
  BY <1>1, <1>2 DEF TermRow
<1>6. x \in ResultRow
  BY <1>1, <1>4, <1>5, AnalyzeTyped DEF ResultRow, StoreTyped, TermRow
<1>7. term' = [term EXCEPT ![t] = n]
  BY <1>2 DEF StoreTyped
<1>8. n \in TermRow
  <2>1. o.todo \ {w} \in SUBSET (Nat \X Queries) /\ o.answered \in Nat /\ o.failed \in Nat
    BY <1>1 DEF TermRow
  <2> DEFINE todo == o.todo \ {w}
             answered == IF a.failed THEN o.answered ELSE o.answered + 1
             failed == IF a.failed THEN o.failed + 1 ELSE o.failed
  <2>2. todo \in SUBSET (Nat \X Queries) /\ answered \in Nat /\ failed \in Nat
    BY <2>1
  <2>3. n = [o EXCEPT !.todo = todo, !.answered = answered, !.failed = failed]
    OBVIOUS
  <2> HIDE DEF todo, answered, failed, n, o
  <2> QED BY <1>1, <2>2, <2>3 DEF TermRow
<1>9. /\ n.pc = o.pc /\ n.run = o.run /\ n.ids = o.ids /\ n.todo = o.todo \ {w}
      /\ n.listing = o.listing /\ n.clean = o.clean
      /\ n.answered = (IF a.failed THEN o.answered ELSE o.answered + 1)
      /\ n.failed = (IF a.failed THEN o.failed + 1 ELSE o.failed)
  BY <1>1 DEF TermRow
<1>10. /\ x.id = nextId /\ x.run = o.run /\ x.query = w[2] /\ x.answer = a
       /\ x.verdict = Store!Analyze(a, o.listing)
  OBVIOUS
<1>11. rows' = rows \cup {x} /\ nextId' = nextId + 1
  BY <1>2
<1>12. UNCHANGED <<listing, audit, disturbed, current>>
  BY DEF Store!SaveResult
<1> HIDE DEF n, x
<1> QED BY <1>1, <1>2, <1>6, <1>7, <1>8, <1>9, <1>10, <1>11, <1>12

LEMMA FinishRunDoes ==
  ASSUME StoreTyped, NEW t \in Terminals, Store!FinishRun(t)
  PROVE  \E n \in TermRow, a \in AuditRow :
           /\ term' = [term EXCEPT ![t] = n] /\ term[t].pc = "ask" /\ term[t].todo = {}
           /\ audit' = [audit EXCEPT ![term[t].run] = a]
           /\ a.finished = TRUE /\ a.query_count = term[t].answered /\ a.error_count = term[t].failed
           /\ n.pc \in {"idle", "start"} /\ InPlace(n)
           /\ n.pc = "start" => n.listing = term[t].listing /\ n.ids = term[t].ids /\ n.clean = term[t].clean
           /\ n.pc = "idle" => n.ids = {} /\ n.clean = FALSE
           /\ UNCHANGED <<listing, rows, nextId, disturbed, current>>
<1> DEFINE o == term[t]
           a == [audit[o.run] EXCEPT !.finished = TRUE, !.query_count = o.answered, !.error_count = o.failed]
           n == IF o.engines = <<>> THEN Store!Idle ELSE [o EXCEPT !.pc = "start", !.run = 0]
<1>1. o \in TermRow /\ audit \in Seq(AuditRow) /\ o.pc = "ask" /\ o.todo = {} /\ o.run \in DOMAIN audit /\ InPlace(o)
  BY DEF StoreTyped, InPlace, Store!FinishRun, TermRow
<1>2. audit' = [audit EXCEPT ![o.run] = a]
  BY <1>1 DEF Store!FinishRun
<1>3. audit[o.run] \in AuditRow
  BY <1>1
<1>4. a \in AuditRow /\ a.finished = TRUE /\ a.query_count = o.answered /\ a.error_count = o.failed
  BY <1>1, <1>3 DEF AuditRow, TermRow
<1>5. term' = [term EXCEPT ![t] = n]
  BY DEF Store!FinishRun, StoreTyped
<1>6. n \in TermRow /\ n.pc \in {"idle", "start"}
  BY <1>1, IdleTyped DEF TermRow, AuditPlaces
<1>7. n.pc = "start" => n.listing = o.listing /\ n.ids = o.ids /\ n.clean = o.clean /\ n.engines # <<>>
  BY <1>1, IdleTyped DEF TermRow
<1>8. n.pc = "idle" => n.ids = {} /\ n.clean = FALSE
  BY <1>1, IdleTyped DEF TermRow
<1>9. InPlace(n)
  BY <1>1, <1>6, <1>7, <1>8 DEF InPlace
<1>10. UNCHANGED <<listing, rows, nextId, disturbed, current>>
  BY DEF Store!FinishRun
<1> HIDE DEF n, a
<1> QED BY <1>1, <1>2, <1>4, <1>5, <1>6, <1>7, <1>8, <1>9, <1>10

LEMMA RetryCommandDoes ==
  ASSUME StoreTyped, NEW t \in Terminals, Store!RetryCommand(t)
  PROVE  \E n \in TermRow, r \in DOMAIN audit :
           /\ term' = [term EXCEPT ![t] = n] /\ term[t].pc = "idle"
           /\ n.pc = "delete" /\ n.run = r /\ n.listing = listing /\ n.clean = FALSE
           /\ n.ids = {x.id : x \in Store!Errored(r)}
           /\ n.todo = {<<x.id, x.query>> : x \in Store!Errored(r)}
           /\ disturbed' = disturbed \cup {s \in {r} : \E u \in Terminals : Store!WorksOn(u, s)}
           /\ UNCHANGED <<listing, audit, rows, nextId, current>>
<1>1. PICK r \in DOMAIN audit :
       /\ term' = [term EXCEPT ![t] = [Store!Idle EXCEPT !.pc = "delete", !.run = r, !.listing = listing,
                                         !.ids = {x.id : x \in Store!Errored(r)},
                                         !.todo = {<<x.id, x.query>> : x \in Store!Errored(r)}]]
       /\ disturbed' = disturbed \cup {s \in {r} : \E u \in Terminals : Store!WorksOn(u, s)}
  BY DEF Store!RetryCommand
<1> DEFINE ids == {x.id : x \in Store!Errored(r)}
           todo == {<<x.id, x.query>> : x \in Store!Errored(r)}
           n == [Store!Idle EXCEPT !.pc = "delete", !.run = r, !.listing = listing, !.ids = ids, !.todo = todo]
<1>2. ids \in SUBSET Nat /\ todo \in SUBSET (Nat \X Queries)
  <2>1. \A x \in Store!Errored(r) : x.id \in Nat /\ x.query \in Queries
    BY DEF Store!Errored, Store!Of, StoreTyped, ResultRow
  <2> QED BY <2>1
<1>3. term' = [term EXCEPT ![t] = n]
  BY <1>1
<1>4. r \in Nat
  BY DEF StoreTyped
<1>5. /\ n.pc = "delete" /\ n.run = r /\ n.listing = listing /\ n.clean = FALSE
      /\ n.ids = ids /\ n.todo = todo
  BY DEF Store!Idle
<1>6. n \in TermRow
  <2> HIDE DEF ids, todo
  <2> QED BY <1>2, <1>4, IdleTyped DEF TermRow, AuditPlaces, StoreTyped
<1>7. term[t].pc = "idle" /\ UNCHANGED <<listing, audit, rows, nextId, current>>
  BY DEF Store!RetryCommand, Store!Command
<1> HIDE DEF n
<1> QED BY <1>1, <1>3, <1>5, <1>6, <1>7

LEMMA DeleteResultsDoes ==
  ASSUME StoreTyped, NEW t \in Terminals, Store!DeleteResults(t)
  PROVE  \E n \in TermRow :
           /\ term' = [term EXCEPT ![t] = n] /\ term[t].pc = "delete"
           /\ rows' = {x \in rows : x.id \notin term[t].ids}
           /\ n.pc = "again" /\ n.run = term[t].run /\ n.ids = term[t].ids /\ n.todo = term[t].todo
           /\ n.listing = term[t].listing /\ n.clean = term[t].clean
           /\ UNCHANGED <<listing, audit, nextId, disturbed, current>>
<1> DEFINE n == [term[t] EXCEPT !.pc = "again"]
<1>1. term[t] \in TermRow
  BY DEF StoreTyped
<1>2. /\ n \in TermRow /\ n.pc = "again" /\ n.run = term[t].run /\ n.ids = term[t].ids /\ n.todo = term[t].todo
      /\ n.listing = term[t].listing /\ n.clean = term[t].clean
  BY <1>1 DEF TermRow, AuditPlaces
<1>3. term' = [term EXCEPT ![t] = n]
  BY DEF Store!DeleteResults, StoreTyped
<1> HIDE DEF n
<1> QED BY <1>2, <1>3 DEF Store!DeleteResults, Store!Remaining

LEMMA ErrorsCounted ==
  ASSUME StoreTyped, NEW r
  PROVE  /\ Store!Answered(r) \in SUBSET rows /\ Store!Errored(r) \in SUBSET rows
         /\ IsFiniteSet(Store!Answered(r)) /\ IsFiniteSet(Store!Errored(r))
         /\ Store!Cardinality(Store!Answered(r)) = Cardinality(Store!Answered(r))
         /\ Store!Cardinality(Store!Errored(r)) = Cardinality(Store!Errored(r))
         /\ Cardinality(Store!Answered(r)) \in Nat /\ Cardinality(Store!Errored(r)) \in Nat
<1>1. Store!Answered(r) \in SUBSET rows /\ Store!Errored(r) \in SUBSET rows
  BY DEF Store!Answered, Store!Errored, Store!Of
<1>2. IsFiniteSet(Store!Answered(r)) /\ IsFiniteSet(Store!Errored(r))
  BY <1>1, FS_Subset DEF StoreTyped
<1> QED BY <1>1, <1>2, StoreCounts, FS_CardinalityType

LEMMA RecountRunDoes ==
  ASSUME StoreTyped, NEW t \in Terminals, Store!RecountRun(t)
  PROVE  \E a \in AuditRow :
           /\ term' = [term EXCEPT ![t] = Store!Idle] /\ term[t].pc = "again" /\ term[t].todo = {}
           /\ audit' = [audit EXCEPT ![term[t].run] = a]
           /\ a.finished = TRUE
           /\ a.query_count = Cardinality(Store!Answered(term[t].run))
           /\ a.error_count = Cardinality(Store!Errored(term[t].run))
           /\ UNCHANGED <<listing, rows, nextId, disturbed, current>>
<1> DEFINE r == term[t].run
           good == Cardinality(Store!Answered(r))
           bad == Cardinality(Store!Errored(r))
           a == [audit[r] EXCEPT !.finished = TRUE, !.query_count = good, !.error_count = bad]
<1>1. r \in DOMAIN audit /\ audit \in Seq(AuditRow)
  BY DEF StoreTyped, InPlace, Store!RecountRun
<1>2. audit[r] \in AuditRow
  BY <1>1
<1>3. good \in Nat /\ bad \in Nat
  BY ErrorsCounted
<1>4. audit' = [audit EXCEPT ![r] = a]
  BY ErrorsCounted DEF Store!RecountRun
<1>5. a \in AuditRow /\ a.finished = TRUE /\ a.query_count = good /\ a.error_count = bad
  <2> HIDE DEF good, bad, r
  <2> QED BY <1>2, <1>3 DEF AuditRow
<1>6. /\ term' = [term EXCEPT ![t] = Store!Idle] /\ term[t].pc = "again" /\ term[t].todo = {}
      /\ UNCHANGED <<listing, rows, nextId, disturbed, current>>
  BY DEF Store!RecountRun
<1> HIDE DEF a
<1> QED BY <1>4, <1>5, <1>6

LEMMA ReclassifyCommandDoes ==
  ASSUME StoreTyped, NEW t \in Terminals, Store!ReclassifyCommand(t)
  PROVE  \E n \in TermRow :
           /\ term' = [term EXCEPT ![t] = n] /\ term[t].pc = "idle"
           /\ n.pc = "reclassify" /\ n.listing = listing
           /\ n.ids = {x.id : x \in {y \in rows : ~y.answer.failed}}
           /\ n.clean = (\A u \in Terminals : term[u].pc = "idle" \/ term[u].listing = listing)
           /\ UNCHANGED <<listing, audit, rows, nextId, disturbed, current>>
<1> DEFINE ids == {x.id : x \in {y \in rows : ~y.answer.failed}}
           clean == \A u \in Terminals : term[u].pc = "idle" \/ term[u].listing = listing
           n == [Store!Idle EXCEPT !.pc = "reclassify", !.listing = listing, !.ids = ids, !.clean = clean]
<1>1. ids \in SUBSET Nat
  BY DEF StoreTyped, ResultRow
<1>2. clean \in BOOLEAN
  OBVIOUS
<1>3. term' = [term EXCEPT ![t] = n]
  BY DEF Store!ReclassifyCommand
<1>4. n.pc = "reclassify" /\ n.listing = listing /\ n.ids = ids /\ n.clean = clean /\ n \in TermRow
  <2> HIDE DEF ids, clean
  <2> QED BY <1>1, <1>2, IdleTyped DEF TermRow, AuditPlaces, StoreTyped, Store!Idle
<1>5. term[t].pc = "idle" /\ UNCHANGED <<listing, audit, rows, nextId, disturbed, current>>
  BY DEF Store!ReclassifyCommand, Store!Command
<1> HIDE DEF n
<1> QED BY <1>3, <1>4, <1>5

\* An update writes one verdict and leaves the rest of the rows alone.
Rewritten(f, i, l) ==
  /\ f \in [rows -> ResultRow]
  /\ \A x \in rows : /\ f[x].id = x.id /\ f[x].run = x.run /\ f[x].query = x.query /\ f[x].answer = x.answer
                     /\ f[x].verdict = (IF x.id = i THEN Store!Analyze(x.answer, l) ELSE x.verdict)

LEMMA UpdateVerdictDoes ==
  ASSUME StoreTyped, NEW t \in Terminals, Store!UpdateVerdict(t)
  PROVE  \E n, i, f :
           /\ n \in TermRow
           /\ term' = [term EXCEPT ![t] = n] /\ term[t].pc = "reclassify"
           /\ Rewritten(f, i, term[t].listing) /\ rows' = {f[x] : x \in rows}
           /\ \/ /\ term[t].ids = {i} /\ n = Store!Idle /\ current' = (current \/ term[t].clean)
              \/ /\ n.pc = "reclassify" /\ n.listing = term[t].listing /\ n.clean = term[t].clean
                 /\ n.ids = term[t].ids \ {i} /\ current' = current
           /\ UNCHANGED <<listing, audit, nextId, disturbed>>
<1> DEFINE o == term[t]
           i == CHOOSE k \in o.ids : \A m \in o.ids : k <= m
           f == [x \in rows |-> IF x.id = i THEN [x EXCEPT !.verdict = Store!Analyze(x.answer, o.listing)] ELSE x]
           n == IF o.ids = {i} THEN Store!Idle ELSE [o EXCEPT !.ids = o.ids \ {i}]
<1>1. o \in TermRow /\ o.pc = "reclassify"
  BY DEF StoreTyped, Store!UpdateVerdict
<1>2. /\ rows' = {IF x.id = i THEN [x EXCEPT !.verdict = Store!Analyze(x.answer, o.listing)] ELSE x : x \in rows}
      /\ term' = [term EXCEPT ![t] = n]
      /\ current' = (current \/ (o.ids = {i} /\ o.clean))
      /\ UNCHANGED <<listing, audit, nextId, disturbed>>
  BY DEF Store!UpdateVerdict
<1> HIDE DEF i
<1>3. Rewritten(f, i, o.listing)
  <2>1. ASSUME NEW x \in rows
        PROVE  /\ f[x] \in ResultRow
               /\ f[x].id = x.id /\ f[x].run = x.run /\ f[x].query = x.query /\ f[x].answer = x.answer
               /\ f[x].verdict = (IF x.id = i THEN Store!Analyze(x.answer, o.listing) ELSE x.verdict)
    <3>1. x \in ResultRow
      BY DEF StoreTyped
    <3>2. Store!Analyze(x.answer, o.listing) \in
            [own_cited : BOOLEAN, name_mentioned : BOOLEAN, directory_only : BOOLEAN, rival : BOOLEAN]
      BY <1>1, <3>1, AnalyzeTyped DEF ResultRow, TermRow
    <3> DEFINE v == Store!Analyze(x.answer, o.listing)
    <3>3. f[x] = IF x.id = i THEN [x EXCEPT !.verdict = v] ELSE x
      OBVIOUS
    <3> HIDE DEF v, f
    <3>4. v \in [own_cited : BOOLEAN, name_mentioned : BOOLEAN, directory_only : BOOLEAN, rival : BOOLEAN]
      BY <3>2 DEF v
    <3> QED BY <3>1, <3>3, <3>4 DEF ResultRow, v
  <2>2. f \in [rows -> ResultRow]
    BY <2>1
  <2> HIDE DEF f
  <2> QED BY <2>1, <2>2 DEF Rewritten
<1>4. rows' = {f[x] : x \in rows}
  BY <1>2
<1>5. n \in TermRow /\ \/ o.ids = {i} /\ n = Store!Idle
                       \/ n.pc = o.pc /\ n.listing = o.listing /\ n.clean = o.clean /\ n.ids = o.ids \ {i} /\ o.ids # {i}
  BY <1>1, IdleTyped DEF TermRow
<1> HIDE DEF n, f
<1>6. o.clean \in BOOLEAN
  BY <1>1 DEF TermRow
<1>7. \/ o.ids = {i} /\ n = Store!Idle /\ current' = (current \/ o.clean)
      \/ n.pc = o.pc /\ n.listing = o.listing /\ n.clean = o.clean /\ n.ids = o.ids \ {i} /\ current' = current
  BY <1>2, <1>5, <1>6 DEF StoreTyped
<1> QED BY <1>1, <1>2, <1>3, <1>4, <1>5, <1>7

LEMMA EditProfileDoes ==
  ASSUME StoreTyped, Store!EditProfile
  PROVE  /\ listing' \in Store!Listings /\ term' \in [Terminals -> TermRow] /\ current' = FALSE
         /\ \A t \in Terminals : /\ term'[t].pc = term[t].pc /\ term'[t].engines = term[t].engines
                                 /\ term'[t].run = term[t].run /\ term'[t].ids = term[t].ids
                                 /\ term'[t].todo = term[t].todo /\ term'[t].answered = term[t].answered
                                 /\ term'[t].failed = term[t].failed /\ term'[t].listing = term[t].listing
                                 /\ term'[t].clean = FALSE
         /\ UNCHANGED <<audit, rows, nextId, disturbed>>
<1>1. \A t \in Terminals : term[t] \in TermRow
  BY DEF StoreTyped
<1>2. term' = [t \in Terminals |-> [term[t] EXCEPT !.clean = FALSE]]
  BY DEF Store!EditProfile
<1>3. \A t \in Terminals : /\ term'[t] \in TermRow
                           /\ term'[t].pc = term[t].pc /\ term'[t].engines = term[t].engines
                           /\ term'[t].run = term[t].run /\ term'[t].ids = term[t].ids
                           /\ term'[t].todo = term[t].todo /\ term'[t].answered = term[t].answered
                           /\ term'[t].failed = term[t].failed /\ term'[t].listing = term[t].listing
                           /\ term'[t].clean = FALSE
  BY <1>1, <1>2 DEF TermRow
<1>4. term' \in [Terminals -> TermRow]
  BY <1>2, <1>3
<1> QED BY <1>3, <1>4 DEF Store!EditProfile

-----------------------------------------------------------------------------
(* The steps of the store, command by command. *)

LEMMA StoreSteps ==
  ASSUME Store!Next
  PROVE  \/ \E t \in Terminals :
              \/ Store!RunCommand(t) \/ Store!StartRun(t) \/ Store!SaveResult(t) \/ Store!FinishRun(t)
              \/ Store!RetryCommand(t) \/ Store!DeleteResults(t) \/ Store!RecountRun(t)
              \/ Store!ReclassifyCommand(t) \/ Store!UpdateVerdict(t) \/ Store!Kill(t)
         \/ Store!EditProfile
BY DEF Store!Next

LEMMA StoreTypedInit == Store!Init => StoreTyped
<1> SUFFICES ASSUME Store!Init PROVE StoreTyped
  OBVIOUS
<1>1. audit \in Seq(AuditRow) /\ rows = {} /\ IsFiniteSet(rows) /\ DOMAIN audit = {}
  BY FS_EmptySet DEF Store!Init
<1>2. term = [t \in Terminals |-> Store!Idle]
  BY DEF Store!Init
<1>3. \A t \in Terminals : term[t] \in TermRow /\ InPlace(term[t])
  BY <1>2, IdleTyped DEF InPlace
<1>4. term \in [Terminals -> TermRow]
  BY <1>2, <1>3
<1> QED BY <1>1, <1>3, <1>4 DEF Store!Init, StoreTyped, Store!Listings

\* A command that goes on, with the audits and rows there were or more.
LEMMA PlaceKept ==
  ASSUME StoreTyped, NEW t \in Terminals, NEW n \in TermRow, term' = [term EXCEPT ![t] = n],
         DOMAIN audit \subseteq DOMAIN audit', nextId' \in Nat, nextId <= nextId', InPlace(n)'
  PROVE  term' \in [Terminals -> TermRow] /\ \A u \in Terminals : InPlace(term[u])'
<1>1. term' \in [Terminals -> TermRow]
  BY DEF StoreTyped
<1>2. ASSUME NEW u \in Terminals PROVE InPlace(term[u])'
  <2>1. InPlace(term[u]) /\ (u # t => term'[u] = term[u]) /\ (u = t => term'[u] = n) /\ term[u] \in TermRow
    BY DEF StoreTyped
  <2>2. CASE u = t
    BY <2>1, <2>2 DEF InPlace
  <2>3. CASE u # t
    BY <2>1, <2>3 DEF InPlace, TermRow, StoreTyped
  <2> QED BY <2>2, <2>3
<1> QED BY <1>1, <1>2

LEMMA AuditReplaced ==
  ASSUME NEW s \in Seq(AuditRow), NEW r, NEW a \in AuditRow
  PROVE  [s EXCEPT ![r] = a] \in Seq(AuditRow) /\ DOMAIN [s EXCEPT ![r] = a] = DOMAIN s
<1> DEFINE c == [s EXCEPT ![r] = a]
<1>1. s \in [1..Len(s) -> AuditRow] /\ Len(s) \in Nat
  OBVIOUS
<1>2. c \in [1..Len(s) -> AuditRow] /\ DOMAIN c = DOMAIN s
  BY <1>1
<1> HIDE DEF c
<1>3. c \in Seq(AuditRow)
  BY <1>1, <1>2
<1> QED BY <1>2, <1>3 DEF c

LEMMA StoreTypedStep == StoreTyped /\ Store!Next => StoreTyped'
<1> SUFFICES ASSUME StoreTyped, Store!Next PROVE StoreTyped'
  OBVIOUS
<1>1. ASSUME NEW t \in Terminals, Store!RunCommand(t) PROVE StoreTyped'
  <2>1. PICK n \in TermRow :
           /\ term' = [term EXCEPT ![t] = n] /\ InPlace(n)
           /\ UNCHANGED <<listing, audit, rows, nextId, disturbed, current>>
    BY <1>1, RunCommandDoes
  <2>2. InPlace(n)'
    BY <2>1 DEF InPlace
  <2>3. nextId' \in Nat \ {0} /\ nextId <= nextId' /\ DOMAIN audit \subseteq DOMAIN audit'
    BY <2>1, <2>2 DEF StoreTyped
  <2>4. term' \in [Terminals -> TermRow] /\ \A u \in Terminals : InPlace(term[u])'
    BY <2>1, <2>2, <2>3, PlaceKept
  <2> QED BY <2>1, <2>2, <2>3, <2>4 DEF StoreTyped
<1>2. ASSUME NEW t \in Terminals, Store!StartRun(t) PROVE StoreTyped'
  <2>1. PICK n \in TermRow, a \in AuditRow :
           /\ term' = [term EXCEPT ![t] = n] /\ audit' = Append(audit, a)
           /\ n.pc = "ask" /\ n.run = Len(audit) + 1 /\ n.ids = term[t].ids
           /\ UNCHANGED <<listing, rows, nextId, disturbed, current>>
    BY <1>2, StartRunDoes
  <2>2. audit' \in Seq(AuditRow) /\ DOMAIN audit' = DOMAIN audit \cup {Len(audit) + 1}
    BY <2>1 DEF StoreTyped
  <2>3. InPlace(n)'
    BY <2>1, <2>2 DEF InPlace, StoreTyped
  <2>4. nextId' \in Nat \ {0} /\ nextId <= nextId' /\ DOMAIN audit \subseteq DOMAIN audit'
    BY <2>1, <2>2 DEF StoreTyped
  <2>5. term' \in [Terminals -> TermRow] /\ \A u \in Terminals : InPlace(term[u])'
    BY <2>1, <2>2, <2>3, <2>4, PlaceKept
  <2> QED BY <2>1, <2>2, <2>3, <2>4, <2>5 DEF StoreTyped
<1>3. ASSUME NEW t \in Terminals, Store!SaveResult(t) PROVE StoreTyped'
  <2>1. PICK n \in TermRow, w \in term[t].todo, x \in ResultRow :
           /\ term' = [term EXCEPT ![t] = n] /\ term[t].pc \in {"ask", "again"}
           /\ rows' = rows \cup {x} /\ nextId' = nextId + 1
           /\ x.id = nextId /\ x.run = term[t].run /\ x.verdict = Store!Analyze(x.answer, term[t].listing)
           /\ n.pc = term[t].pc /\ n.run = term[t].run /\ n.ids = term[t].ids
           /\ UNCHANGED <<listing, audit, disturbed, current>>
    BY <1>3, SaveResultDoes
  <2>2. term[t] \in TermRow /\ term[t].listing \in Store!Listings /\ InPlace(term[t])
    BY DEF StoreTyped, TermRow
  <2>3. InPlace(n)'
    BY <2>1, <2>2 DEF InPlace, StoreTyped, TermRow
  <2>4. IsFiniteSet(rows') /\ rows' \in SUBSET ResultRow
    BY <2>1, FS_AddElement DEF StoreTyped
  <2>5. \A y \in rows' : y.id < nextId' /\ y.run \in DOMAIN audit'
    BY <2>1, <2>2 DEF StoreTyped, ResultRow, InPlace
  <2>6. \A y \in rows' : \E l \in Store!Listings : y.verdict = Store!Analyze(y.answer, l)
    BY <2>1, <2>2 DEF StoreTyped
  <2>7. nextId' \in Nat \ {0} /\ nextId <= nextId'
    BY <2>1 DEF StoreTyped
  <2>8. term' \in [Terminals -> TermRow] /\ \A u \in Terminals : InPlace(term[u])'
    BY <2>1, <2>3, <2>7, PlaceKept
  <2> QED BY <2>1, <2>4, <2>5, <2>6, <2>7, <2>8 DEF StoreTyped, Store!Analyze
<1>4. ASSUME NEW t \in Terminals, Store!FinishRun(t) PROVE StoreTyped'
  <2>1. PICK n \in TermRow, a \in AuditRow :
           /\ term' = [term EXCEPT ![t] = n] /\ audit' = [audit EXCEPT ![term[t].run] = a] /\ InPlace(n)
           /\ UNCHANGED <<listing, rows, nextId, disturbed, current>>
    BY <1>4, FinishRunDoes
  <2>2. audit' \in Seq(AuditRow) /\ DOMAIN audit' = DOMAIN audit
    <3>1. audit \in Seq(AuditRow)
      BY DEF StoreTyped
    <3> QED BY <2>1, <3>1, AuditReplaced
  <2>3. InPlace(n)'
    BY <2>1, <2>2 DEF InPlace
  <2>4. nextId' \in Nat \ {0} /\ nextId <= nextId' /\ DOMAIN audit \subseteq DOMAIN audit'
    BY <2>1, <2>2 DEF StoreTyped
  <2>5. term' \in [Terminals -> TermRow] /\ \A u \in Terminals : InPlace(term[u])'
    BY <2>1, <2>2, <2>3, <2>4, PlaceKept
  <2> QED BY <2>1, <2>2, <2>3, <2>4, <2>5 DEF StoreTyped
<1>5. ASSUME NEW t \in Terminals, Store!RetryCommand(t) PROVE StoreTyped'
  <2>1. PICK n \in TermRow, r \in DOMAIN audit :
           /\ term' = [term EXCEPT ![t] = n] /\ n.pc = "delete" /\ n.run = r
           /\ n.ids = {x.id : x \in Store!Errored(r)}
           /\ disturbed' = disturbed \cup {s \in {r} : \E u \in Terminals : Store!WorksOn(u, s)}
           /\ UNCHANGED <<listing, audit, rows, nextId, current>>
    BY <1>5, RetryCommandDoes
  <2>2. \A i \in n.ids : i < nextId
    BY <2>1 DEF Store!Errored, Store!Of, StoreTyped
  <2>3. InPlace(n)'
    BY <2>1, <2>2 DEF InPlace
  <2>4. disturbed' \in SUBSET DOMAIN audit
    BY <2>1 DEF StoreTyped
  <2>5. nextId' \in Nat \ {0} /\ nextId <= nextId' /\ DOMAIN audit \subseteq DOMAIN audit'
    BY <2>1, <2>3 DEF StoreTyped
  <2>6. term' \in [Terminals -> TermRow] /\ \A u \in Terminals : InPlace(term[u])'
    BY <2>1, <2>3, <2>4, <2>5, PlaceKept
  <2> QED BY <2>1, <2>3, <2>4, <2>5, <2>6 DEF StoreTyped
<1>6. ASSUME NEW t \in Terminals, Store!DeleteResults(t) PROVE StoreTyped'
  <2>1. PICK n \in TermRow :
           /\ term' = [term EXCEPT ![t] = n] /\ term[t].pc = "delete"
           /\ rows' = {x \in rows : x.id \notin term[t].ids}
           /\ n.pc = "again" /\ n.run = term[t].run /\ n.ids = term[t].ids
           /\ UNCHANGED <<listing, audit, nextId, disturbed, current>>
    BY <1>6, DeleteResultsDoes
  <2>2. InPlace(n)'
    BY <2>1 DEF InPlace, StoreTyped
  <2>3. rows' \in SUBSET rows
    BY <2>1
  <2>4. IsFiniteSet(rows')
    BY <2>3, FS_Subset DEF StoreTyped
  <2>5. nextId' \in Nat \ {0} /\ nextId <= nextId' /\ DOMAIN audit \subseteq DOMAIN audit'
    BY <2>1, <2>2 DEF StoreTyped
  <2>6. term' \in [Terminals -> TermRow] /\ \A u \in Terminals : InPlace(term[u])'
    BY <2>1, <2>2, <2>3, <2>4, <2>5, PlaceKept
  <2> QED BY <2>1, <2>2, <2>3, <2>4, <2>5, <2>6 DEF StoreTyped
<1>7. ASSUME NEW t \in Terminals, Store!RecountRun(t) PROVE StoreTyped'
  <2>1. PICK a \in AuditRow :
           /\ term' = [term EXCEPT ![t] = Store!Idle] /\ audit' = [audit EXCEPT ![term[t].run] = a]
           /\ UNCHANGED <<listing, rows, nextId, disturbed, current>>
    BY <1>7, RecountRunDoes
  <2>2. audit' \in Seq(AuditRow) /\ DOMAIN audit' = DOMAIN audit
    <3>1. audit \in Seq(AuditRow)
      BY DEF StoreTyped
    <3> QED BY <2>1, <3>1, AuditReplaced
  <2>3. InPlace(Store!Idle)'
    BY IdleTyped DEF InPlace, Store!Idle
  <2>4. nextId' \in Nat \ {0} /\ nextId <= nextId' /\ DOMAIN audit \subseteq DOMAIN audit'
    BY <2>1, <2>2 DEF StoreTyped
  <2>5. term' \in [Terminals -> TermRow] /\ \A u \in Terminals : InPlace(term[u])'
    BY <2>1, <2>2, <2>3, <2>4, IdleTyped, PlaceKept
  <2> QED BY <2>1, <2>2, <2>3, <2>4, <2>5 DEF StoreTyped
<1>8. ASSUME NEW t \in Terminals, Store!ReclassifyCommand(t) PROVE StoreTyped'
  <2>1. PICK n \in TermRow :
           /\ term' = [term EXCEPT ![t] = n] /\ n.pc = "reclassify"
           /\ n.ids = {x.id : x \in {y \in rows : ~y.answer.failed}}
           /\ UNCHANGED <<listing, audit, rows, nextId, disturbed, current>>
    BY <1>8, ReclassifyCommandDoes
  <2>2. \A i \in n.ids : i < nextId
    BY <2>1 DEF StoreTyped
  <2>3. InPlace(n)'
    BY <2>1, <2>2 DEF InPlace
  <2>4. nextId' \in Nat \ {0} /\ nextId <= nextId' /\ DOMAIN audit \subseteq DOMAIN audit'
    BY <2>1, <2>3 DEF StoreTyped
  <2>5. term' \in [Terminals -> TermRow] /\ \A u \in Terminals : InPlace(term[u])'
    BY <2>1, <2>3, <2>4, PlaceKept
  <2> QED BY <2>1, <2>3, <2>4, <2>5 DEF StoreTyped
<1>9. ASSUME NEW t \in Terminals, Store!UpdateVerdict(t) PROVE StoreTyped'
  <2>1. PICK n, i, f :
           /\ n \in TermRow
           /\ term' = [term EXCEPT ![t] = n]
           /\ Rewritten(f, i, term[t].listing) /\ rows' = {f[x] : x \in rows}
           /\ \/ n = Store!Idle /\ current' = (current \/ term[t].clean)
              \/ n.pc = "reclassify" /\ n.ids = term[t].ids \ {i} /\ current' = current
           /\ UNCHANGED <<listing, audit, nextId, disturbed>>
    BY <1>9, UpdateVerdictDoes
  <2>2. term[t].listing \in Store!Listings /\ term[t].clean \in BOOLEAN /\ InPlace(term[t])
    BY DEF StoreTyped, TermRow
  <2>3. InPlace(n)'
    BY <2>1, <2>2, IdleTyped DEF InPlace, StoreTyped
  <2>4. rows' \in SUBSET ResultRow
    BY <2>1 DEF Rewritten
  <2>5. IsFiniteSet(rows')
    <3>1. f \in Surjection(rows, rows')
      BY <2>1 DEF Rewritten, Surjection
    <3> QED BY <3>1, FS_Surjection DEF StoreTyped
  <2>6. \A y \in rows' : y.id < nextId' /\ y.run \in DOMAIN audit'
    BY <2>1 DEF StoreTyped, Rewritten
  <2>7. \A y \in rows' : \E l \in Store!Listings : y.verdict = Store!Analyze(y.answer, l)
    <3> SUFFICES ASSUME NEW y \in rows' PROVE \E l \in Store!Listings : y.verdict = Store!Analyze(y.answer, l)
      OBVIOUS
    <3>1. PICK x \in rows : y = f[x]
      BY <2>1
    <3>2. PICK l \in Store!Listings : x.verdict = Store!Analyze(x.answer, l)
      BY DEF StoreTyped
    <3> QED BY <2>1, <2>2, <3>1, <3>2 DEF Rewritten
  <2>8. current' \in BOOLEAN
    BY <2>1, <2>2 DEF StoreTyped
  <2>9. nextId' \in Nat /\ nextId <= nextId' /\ DOMAIN audit \subseteq DOMAIN audit'
    BY <2>1 DEF StoreTyped
  <2>10. term' \in [Terminals -> TermRow] /\ \A u \in Terminals : InPlace(term[u])'
    BY <2>1, <2>3, <2>9, PlaceKept
  <2> QED BY <2>1, <2>4, <2>5, <2>6, <2>7, <2>8, <2>10 DEF StoreTyped, Store!Analyze
<1>10. ASSUME NEW t \in Terminals, Store!Kill(t) PROVE StoreTyped'
  <2>1. /\ term' = [term EXCEPT ![t] = Store!Idle]
        /\ disturbed' = disturbed \cup {r \in DOMAIN audit : Store!WorksOn(t, r)}
        /\ UNCHANGED <<listing, audit, rows, nextId, commands, edits, current>>
    BY <1>10 DEF Store!Kill
  <2>2. InPlace(Store!Idle)'
    BY IdleTyped DEF InPlace, Store!Idle
  <2>3. disturbed' \in SUBSET DOMAIN audit
    BY <2>1 DEF StoreTyped
  <2>4. nextId' \in Nat \ {0} /\ nextId <= nextId' /\ DOMAIN audit \subseteq DOMAIN audit'
    BY <2>1, <2>2 DEF StoreTyped
  <2>5. term' \in [Terminals -> TermRow] /\ \A u \in Terminals : InPlace(term[u])'
    BY <2>1, <2>2, <2>3, <2>4, IdleTyped, PlaceKept
  <2> QED BY <2>1, <2>2, <2>3, <2>4, <2>5 DEF StoreTyped
<1>11. ASSUME Store!EditProfile PROVE StoreTyped'
  <2>1. \A t \in Terminals : InPlace(term[t])'
    BY <1>11, EditProfileDoes DEF StoreTyped, InPlace
  <2> QED BY <1>11, <2>1, EditProfileDoes DEF StoreTyped
<1> QED BY <1>1, <1>2, <1>3, <1>4, <1>5, <1>6, <1>7, <1>8, <1>9, <1>10, <1>11, StoreSteps

-----------------------------------------------------------------------------
(* Identifiers are never used twice, and a retry drops what failed in its    *)
(* own audit and nothing else.                                               *)

IdsFine(n) ==
  /\ n.pc \in {"start", "ask"} => n.ids = {}
  /\ n.pc = "delete" => \A x \in rows : x.id \in n.ids => x.answer.failed /\ x.run = n.run
  /\ n.pc = "again" => \A x \in rows : x.id \notin n.ids

IdsInv ==
  /\ \A x, y \in rows : x.id = y.id => x = y
  /\ \A t \in Terminals : IdsFine(term[t])

\* The rows after a step are those before it, some of them anew, and what got
\* the next id.
RowsStem ==
  \A y \in rows' : \/ y.id = nextId
                   \/ \E x \in rows : x.id = y.id /\ x.run = y.run /\ x.query = y.query /\ x.answer = y.answer

LEMMA RowsStemStep == StoreTyped /\ Store!Next => RowsStem
<1> SUFFICES ASSUME StoreTyped, Store!Next PROVE RowsStem
  OBVIOUS
<1>1. CASE UNCHANGED rows
  BY <1>1 DEF RowsStem
<1>2. ASSUME NEW t \in Terminals, Store!SaveResult(t) PROVE RowsStem
  BY <1>2, SaveResultDoes DEF RowsStem
<1>3. ASSUME NEW t \in Terminals, Store!DeleteResults(t) PROVE RowsStem
  BY <1>3, DeleteResultsDoes DEF RowsStem
<1>4. ASSUME NEW t \in Terminals, Store!UpdateVerdict(t) PROVE RowsStem
  <2>1. PICK i, f : Rewritten(f, i, term[t].listing) /\ rows' = {f[x] : x \in rows}
    BY <1>4, UpdateVerdictDoes
  <2> QED BY <2>1 DEF RowsStem, Rewritten
<1> QED BY <1>1, <1>2, <1>3, <1>4, StoreSteps DEF Store!RunCommand, Store!StartRun, Store!FinishRun,
     Store!RetryCommand, Store!RecountRun, Store!ReclassifyCommand, Store!Kill, Store!EditProfile

LEMMA IdsFineStep ==
  ASSUME StoreTyped, NEW n, InPlace(n), IdsFine(n), RowsStem
  PROVE  IdsFine(n)'
<1>1. nextId \notin n.ids
  BY DEF InPlace, StoreTyped
<1> QED BY <1>1 DEF IdsFine, RowsStem

LEMMA IdsInvInit == Store!Init => IdsInv
  BY IdleTyped DEF Store!Init, IdsInv, IdsFine

LEMMA IdsInvStep == StoreTyped /\ IdsInv /\ Store!Next => IdsInv'
<1> SUFFICES ASSUME StoreTyped, IdsInv, Store!Next PROVE IdsInv'
  OBVIOUS
<1>1. RowsStem
  BY RowsStemStep
<1>2. ASSUME NEW t \in Terminals PROVE IdsFine(term[t])' \/ term'[t] # term[t]
  <2>1. CASE term'[t] = term[t]
    <3> DEFINE n == term[t]
    <3>1. IdsFine(n) /\ InPlace(n)
      BY DEF IdsInv, StoreTyped
    <3>2. PICK m : m = term[t]
      OBVIOUS
    <3>3. IdsFine(m)'
      BY <1>1, <3>1, <3>2, IdsFineStep
    <3> QED BY <2>1, <3>2, <3>3 DEF IdsFine
  <2> QED BY <2>1
<1>3. ASSUME \A x, y \in rows' : x.id = y.id => x = y,
             NEW t \in Terminals, NEW n, term' = [term EXCEPT ![t] = n], IdsFine(n)'
      PROVE  IdsInv'
  <2>1. \A u \in Terminals : u # t => term'[u] = term[u]
    BY <1>3 DEF StoreTyped
  <2>2. term'[t] = n
    BY <1>3 DEF StoreTyped
  <2>3. \A u \in Terminals : IdsFine(term[u])'
    BY <1>2, <1>3, <2>1, <2>2 DEF IdsFine
  <2> QED BY <1>3, <2>3 DEF IdsInv
<1>4. CASE \E t \in Terminals : Store!RunCommand(t)
  <2>1. PICK t \in Terminals : Store!RunCommand(t)
    BY <1>4
  <2>2. PICK n \in TermRow : term' = [term EXCEPT ![t] = n] /\ n.pc = "start" /\ n.ids = {} /\ UNCHANGED rows
    BY <2>1, RunCommandDoes
  <2>3. IdsFine(n)'
    BY <2>2 DEF IdsFine
  <2> QED BY <1>3, <2>2, <2>3 DEF IdsInv
<1>5. CASE \E t \in Terminals : Store!StartRun(t)
  <2>1. PICK t \in Terminals : Store!StartRun(t)
    BY <1>5
  <2>2. PICK n \in TermRow : /\ term' = [term EXCEPT ![t] = n] /\ term[t].pc = "start"
                             /\ n.pc = "ask" /\ n.ids = term[t].ids /\ UNCHANGED rows
    BY <2>1, StartRunDoes
  <2>3. IdsFine(n)'
    BY <2>2 DEF IdsFine, IdsInv
  <2> QED BY <1>3, <2>2, <2>3 DEF IdsInv
<1>6. CASE \E t \in Terminals : Store!SaveResult(t)
  <2>1. PICK t \in Terminals : Store!SaveResult(t)
    BY <1>6
  <2>2. PICK n \in TermRow, x \in ResultRow :
           /\ term' = [term EXCEPT ![t] = n] /\ term[t].pc \in {"ask", "again"}
           /\ rows' = rows \cup {x} /\ x.id = nextId
           /\ n.pc = term[t].pc /\ n.run = term[t].run /\ n.ids = term[t].ids
    BY <2>1, SaveResultDoes
  <2>3. \A y \in rows : y.id # nextId
    BY DEF StoreTyped, ResultRow
  <2>4. \A y, z \in rows' : y.id = z.id => y = z
    BY <2>2, <2>3 DEF IdsInv
  <2>5. nextId \notin n.ids
    BY <2>2 DEF StoreTyped, InPlace
  <2>6. IdsFine(n)'
    BY <2>2, <2>5 DEF IdsFine, IdsInv
  <2> QED BY <1>3, <2>2, <2>4, <2>6
<1>7. CASE \E t \in Terminals : Store!FinishRun(t)
  <2>1. PICK t \in Terminals : Store!FinishRun(t)
    BY <1>7
  <2>2. PICK n \in TermRow :
           /\ term' = [term EXCEPT ![t] = n] /\ term[t].pc = "ask"
           /\ n.pc \in {"idle", "start"}
           /\ n.pc = "start" => n.ids = term[t].ids
           /\ UNCHANGED rows
    BY <2>1, FinishRunDoes
  <2>3. IdsFine(n)'
    BY <2>2 DEF IdsFine, IdsInv
  <2> QED BY <1>3, <2>2, <2>3 DEF IdsInv
<1>8. CASE \E t \in Terminals : Store!RetryCommand(t)
  <2>1. PICK t \in Terminals : Store!RetryCommand(t)
    BY <1>8
  <2>2. PICK n \in TermRow, r \in DOMAIN audit :
           /\ term' = [term EXCEPT ![t] = n] /\ n.pc = "delete" /\ n.run = r
           /\ n.ids = {x.id : x \in Store!Errored(r)} /\ UNCHANGED rows
    BY <2>1, RetryCommandDoes
  <2>3. \A x \in rows : x.id \in n.ids => x.answer.failed /\ x.run = n.run
    BY <2>2 DEF Store!Errored, Store!Of, IdsInv
  <2>4. IdsFine(n)'
    BY <2>2, <2>3 DEF IdsFine
  <2> QED BY <1>3, <2>2, <2>4 DEF IdsInv
<1>9. CASE \E t \in Terminals : Store!DeleteResults(t)
  <2>1. PICK t \in Terminals : Store!DeleteResults(t)
    BY <1>9
  <2>2. PICK n \in TermRow :
           /\ term' = [term EXCEPT ![t] = n]
           /\ rows' = {x \in rows : x.id \notin term[t].ids}
           /\ n.pc = "again" /\ n.ids = term[t].ids
    BY <2>1, DeleteResultsDoes
  <2>3. \A y, z \in rows' : y.id = z.id => y = z
    BY <2>2 DEF IdsInv
  <2>4. IdsFine(n)'
    BY <2>2 DEF IdsFine
  <2> QED BY <1>3, <2>2, <2>3, <2>4
<1>10. CASE \E t \in Terminals : Store!RecountRun(t)
  <2>1. PICK t \in Terminals : Store!RecountRun(t)
    BY <1>10
  <2>2. term' = [term EXCEPT ![t] = Store!Idle] /\ UNCHANGED rows
    BY <2>1, RecountRunDoes
  <2>3. IdsFine(Store!Idle)'
    BY IdleTyped DEF IdsFine, Store!Idle
  <2> QED BY <1>3, <2>2, <2>3 DEF IdsInv
<1>11. CASE \E t \in Terminals : Store!ReclassifyCommand(t)
  <2>1. PICK t \in Terminals : Store!ReclassifyCommand(t)
    BY <1>11
  <2>2. PICK n \in TermRow : term' = [term EXCEPT ![t] = n] /\ n.pc = "reclassify" /\ UNCHANGED rows
    BY <2>1, ReclassifyCommandDoes
  <2>3. IdsFine(n)'
    BY <2>2 DEF IdsFine
  <2> QED BY <1>3, <2>2, <2>3 DEF IdsInv
<1>12. CASE \E t \in Terminals : Store!UpdateVerdict(t)
  <2>1. PICK t \in Terminals : Store!UpdateVerdict(t)
    BY <1>12
  <2>2. PICK n, i, f :
           /\ n \in TermRow
           /\ term' = [term EXCEPT ![t] = n]
           /\ Rewritten(f, i, term[t].listing) /\ rows' = {f[x] : x \in rows}
           /\ n.pc \in {"idle", "reclassify"}
    BY <2>1, UpdateVerdictDoes, IdleTyped
  <2>3. \A y, z \in rows' : y.id = z.id => y = z
    BY <2>2 DEF IdsInv, Rewritten
  <2>4. IdsFine(n)'
    BY <2>2 DEF IdsFine
  <2> QED BY <1>3, <2>2, <2>3, <2>4
<1>13. CASE \E t \in Terminals : Store!Kill(t)
  <2>1. PICK t \in Terminals : Store!Kill(t)
    BY <1>13
  <2>2. term' = [term EXCEPT ![t] = Store!Idle] /\ UNCHANGED rows
    BY <2>1 DEF Store!Kill
  <2>3. IdsFine(Store!Idle)'
    BY IdleTyped DEF IdsFine, Store!Idle
  <2> QED BY <1>3, <2>2, <2>3 DEF IdsInv
<1>14. CASE Store!EditProfile
  <2>1. /\ rows' = rows
        /\ \A t \in Terminals : /\ term'[t].pc = term[t].pc /\ term'[t].run = term[t].run
                                /\ term'[t].ids = term[t].ids
    BY <1>14, EditProfileDoes
  <2>2. \A t \in Terminals : IdsFine(term[t])'
    BY <2>1 DEF IdsInv, IdsFine
  <2> QED BY <2>1, <2>2 DEF IdsInv
<1> QED BY <1>4, <1>5, <1>6, <1>7, <1>8, <1>9, <1>10, <1>11, <1>12, <1>13, <1>14, StoreSteps

LEMMA PaidAnswersKept ==
  ASSUME StoreTyped, IdsInv, Store!Next
  PROVE  \A x \in rows : ~x.answer.failed =>
           \E kept \in rows' : kept.id = x.id /\ kept.query = x.query /\ kept.answer = x.answer
<1> SUFFICES ASSUME NEW old \in rows, ~old.answer.failed
             PROVE  \E kept \in rows' : kept.id = old.id /\ kept.query = old.query /\ kept.answer = old.answer
  OBVIOUS
<1>1. CASE old \in rows'
  BY <1>1
<1>2. ASSUME NEW t \in Terminals, Store!SaveResult(t) PROVE old \in rows'
  BY <1>2, SaveResultDoes
<1>3. ASSUME NEW t \in Terminals, Store!DeleteResults(t) PROVE old \in rows'
  <2>1. term[t].pc = "delete" /\ rows' = {x \in rows : x.id \notin term[t].ids}
    BY <1>3, DeleteResultsDoes
  <2>2. old.id \notin term[t].ids
    BY <2>1 DEF IdsInv, IdsFine
  <2> QED BY <2>1, <2>2
<1>4. ASSUME NEW t \in Terminals, Store!UpdateVerdict(t)
      PROVE  \E kept \in rows' : kept.id = old.id /\ kept.query = old.query /\ kept.answer = old.answer
  <2>1. PICK i, f : Rewritten(f, i, term[t].listing) /\ rows' = {f[x] : x \in rows}
    BY <1>4, UpdateVerdictDoes
  <2>2. f[old] \in rows'
    BY <2>1
  <2> QED BY <2>1, <2>2 DEF Rewritten
<1> QED BY <1>1, <1>2, <1>3, <1>4, StoreSteps DEF Store!RunCommand, Store!StartRun, Store!FinishRun,
     Store!RetryCommand, Store!RecountRun, Store!ReclassifyCommand, Store!Kill, Store!EditProfile

-----------------------------------------------------------------------------
(* Verdicts are as the profile has them as long as every command that is     *)
(* under way read it as it is.                                               *)

AsListed(x, l) == ~x.answer.failed => x.verdict = Store!Analyze(x.answer, l)
Sweeps(n) == n.clean /\ n.pc = "reclassify"

CurrentInv ==
  /\ \A t \in Terminals : term[t].clean => term[t].pc = "reclassify"
  /\ (current \/ \E t \in Terminals : term[t].clean) =>
       \A t \in Terminals : term[t].pc # "idle" => term[t].listing = listing
  /\ current => \A x \in rows : AsListed(x, listing)
  /\ \A t \in Terminals : term[t].clean => \A x \in rows : x.id \in term[t].ids \/ AsListed(x, listing)

LEMMA CurrentInvInit == Store!Init => CurrentInv
  BY IdleTyped DEF Store!Init, CurrentInv

LEMMA CurrentInvStep == StoreTyped /\ CurrentInv /\ Store!Next => CurrentInv'
<1> SUFFICES ASSUME StoreTyped, CurrentInv, Store!Next PROVE CurrentInv'
  OBVIOUS
<1>1. \A t \in Terminals : term[t] \in TermRow /\ term[t].clean \in BOOLEAN /\ InPlace(term[t])
  BY DEF StoreTyped, TermRow
<1>2. ASSUME NEW t \in Terminals, NEW n \in TermRow, term' = [term EXCEPT ![t] = n], listing' = listing,
             current' = current, n.clean => term[t].clean /\ n.pc = "reclassify" /\ n.ids = term[t].ids,
             n.pc # "idle" => n.listing = listing \/ (term[t].pc # "idle" /\ n.listing = term[t].listing),
             \A x \in rows' : \/ x \in rows
                              \/ /\ AsListed(x, term[t].listing) /\ term[t].pc # "idle"
                              \/ /\ AsListed(x, listing)
      PROVE  CurrentInv'
  <2>1. \A u \in Terminals : u # t => term'[u] = term[u]
    BY <1>2 DEF StoreTyped
  <2>2. term'[t] = n
    BY <1>2 DEF StoreTyped
  <2>3. \A u \in Terminals : term'[u].clean => term[u].clean /\ term'[u].pc = "reclassify" /\ term'[u].ids = term[u].ids
    BY <1>2, <2>1, <2>2 DEF CurrentInv
  <2>4. (current \/ \E u \in Terminals : term[u].clean) =>
          \A u \in Terminals : term'[u].pc # "idle" => term'[u].listing = listing
    BY <1>2, <2>1, <2>2 DEF CurrentInv
  <2>5. (current \/ \E u \in Terminals : term[u].clean) => \A x \in rows' : x \in rows \/ AsListed(x, listing)
    BY <1>2 DEF CurrentInv
  <2>6. current' => \A x \in rows' : AsListed(x, listing)
    BY <1>2, <2>5 DEF CurrentInv
  <2>7. \A u \in Terminals : term'[u].clean => \A x \in rows' : x.id \in term'[u].ids \/ AsListed(x, listing)
    BY <2>3, <2>5 DEF CurrentInv
  <2>8. listing' = listing /\ current' = current
    BY <1>2
  <2> QED BY <2>3, <2>4, <2>6, <2>7, <2>8 DEF CurrentInv, AsListed, Store!Analyze
<1>3. CASE \E t \in Terminals : Store!RunCommand(t)
  <2>1. PICK t \in Terminals : Store!RunCommand(t)
    BY <1>3
  <2> QED BY <1>2, <2>1, RunCommandDoes
<1>4. CASE \E t \in Terminals : Store!StartRun(t)
  <2>1. PICK t \in Terminals : Store!StartRun(t)
    BY <1>4
  <2>2. PICK n \in TermRow :
           /\ term' = [term EXCEPT ![t] = n] /\ term[t].pc = "start"
           /\ n.listing = term[t].listing /\ n.clean = term[t].clean
           /\ UNCHANGED <<listing, rows, current>>
    BY <2>1, StartRunDoes
  <2>3. ~n.clean
    BY <2>2, <1>1 DEF CurrentInv
  <2> QED BY <1>2, <2>2, <2>3
<1>5. CASE \E t \in Terminals : Store!SaveResult(t)
  <2>1. PICK t \in Terminals : Store!SaveResult(t)
    BY <1>5
  <2>2. PICK n \in TermRow, x \in ResultRow :
           /\ term' = [term EXCEPT ![t] = n] /\ term[t].pc \in {"ask", "again"}
           /\ rows' = rows \cup {x} /\ x.verdict = Store!Analyze(x.answer, term[t].listing)
           /\ n.listing = term[t].listing /\ n.clean = term[t].clean
           /\ UNCHANGED <<listing, current>>
    BY <2>1, SaveResultDoes
  <2>3. ~n.clean
    BY <2>2, <1>1 DEF CurrentInv
  <2>4. \A y \in rows' : y \in rows \/ (AsListed(y, term[t].listing) /\ term[t].pc # "idle")
    BY <2>2 DEF AsListed
  <2> QED BY <1>2, <2>2, <2>3, <2>4
<1>6. CASE \E t \in Terminals : Store!FinishRun(t)
  <2>1. PICK t \in Terminals : Store!FinishRun(t)
    BY <1>6
  <2>2. PICK n \in TermRow :
           /\ term' = [term EXCEPT ![t] = n] /\ term[t].pc = "ask"
           /\ n.pc \in {"idle", "start"}
           /\ n.pc = "start" => n.listing = term[t].listing /\ n.clean = term[t].clean
           /\ n.pc = "idle" => n.clean = FALSE
           /\ UNCHANGED <<listing, rows, current>>
    BY <2>1, FinishRunDoes
  <2>3. ~n.clean
    BY <2>2, <1>1 DEF CurrentInv
  <2> QED BY <1>2, <2>2, <2>3
<1>7. CASE \E t \in Terminals : Store!RetryCommand(t)
  <2>1. PICK t \in Terminals : Store!RetryCommand(t)
    BY <1>7
  <2> QED BY <1>2, <2>1, RetryCommandDoes
<1>8. CASE \E t \in Terminals : Store!DeleteResults(t)
  <2>1. PICK t \in Terminals : Store!DeleteResults(t)
    BY <1>8
  <2>2. PICK n \in TermRow :
           /\ term' = [term EXCEPT ![t] = n] /\ term[t].pc = "delete"
           /\ rows' = {x \in rows : x.id \notin term[t].ids}
           /\ n.listing = term[t].listing /\ n.clean = term[t].clean
           /\ UNCHANGED <<listing, current>>
    BY <2>1, DeleteResultsDoes
  <2>3. ~n.clean
    BY <2>2, <1>1 DEF CurrentInv
  <2> QED BY <1>2, <2>2, <2>3
<1>9. CASE \E t \in Terminals : Store!RecountRun(t)
  <2>1. PICK t \in Terminals : Store!RecountRun(t)
    BY <1>9
  <2> QED BY <1>2, <2>1, RecountRunDoes, IdleTyped
<1>10. CASE \E t \in Terminals : Store!ReclassifyCommand(t)
  <2>1. PICK t \in Terminals : Store!ReclassifyCommand(t)
    BY <1>10
  <2>2. PICK n \in TermRow :
           /\ term' = [term EXCEPT ![t] = n] /\ term[t].pc = "idle"
           /\ n.pc = "reclassify" /\ n.listing = listing
           /\ n.ids = {x.id : x \in {y \in rows : ~y.answer.failed}}
           /\ n.clean = (\A u \in Terminals : term[u].pc = "idle" \/ term[u].listing = listing)
           /\ UNCHANGED <<listing, audit, rows, nextId, disturbed, current>>
    BY <2>1, ReclassifyCommandDoes
  <2>3. \A x \in rows : x.id \in n.ids \/ AsListed(x, listing)
    BY <2>2 DEF AsListed
  <2>4. term'[t] = n /\ \A u \in Terminals : u # t => term'[u] = term[u]
    BY <2>2 DEF StoreTyped
  <2>5. \A u \in Terminals : term'[u].clean => term'[u].pc = "reclassify"
    BY <2>2, <2>4 DEF CurrentInv
  <2>6. (current \/ \E u \in Terminals : term'[u].clean) =>
          \A u \in Terminals : term'[u].pc # "idle" => term'[u].listing = listing
    BY <2>2, <2>4 DEF CurrentInv
  <2>7. \A u \in Terminals : term'[u].clean => \A x \in rows : x.id \in term'[u].ids \/ AsListed(x, listing)
    BY <2>2, <2>3, <2>4 DEF CurrentInv
  <2> QED BY <2>2, <2>5, <2>6, <2>7 DEF CurrentInv, AsListed, Store!Analyze
<1>11. CASE \E t \in Terminals : Store!UpdateVerdict(t)
  <2>1. PICK t \in Terminals : Store!UpdateVerdict(t)
    BY <1>11
  <2> DEFINE o == term[t]
  <2>2. PICK n, i, f :
           /\ n \in TermRow
           /\ term' = [term EXCEPT ![t] = n] /\ o.pc = "reclassify"
           /\ Rewritten(f, i, o.listing) /\ rows' = {f[x] : x \in rows}
           /\ \/ /\ o.ids = {i} /\ n = Store!Idle /\ current' = (current \/ o.clean)
              \/ /\ n.pc = "reclassify" /\ n.listing = o.listing /\ n.clean = o.clean
                 /\ n.ids = o.ids \ {i} /\ current' = current
           /\ UNCHANGED <<listing, audit, nextId, disturbed>>
    BY <2>1, UpdateVerdictDoes
  <2>3. term'[t] = n /\ \A u \in Terminals : u # t => term'[u] = term[u]
    BY <2>2 DEF StoreTyped
  <2>4. \A u \in Terminals : term'[u].clean => term[u].clean /\ term'[u].pc = "reclassify"
    BY <2>2, <2>3, IdleTyped DEF CurrentInv
  <2>5. \A u \in Terminals : term'[u].pc # "idle" => term[u].pc # "idle" /\ term'[u].listing = term[u].listing
    BY <2>2, <2>3, IdleTyped
  <2>6. current' => current \/ o.clean
    BY <2>2
  <2>7. (current \/ \E u \in Terminals : term[u].clean) => o.listing = listing
    BY <2>2 DEF CurrentInv
  <2>8. \A x \in rows : o.listing = listing /\ (x.id = i \/ AsListed(x, listing)) => AsListed(f[x], listing)
    BY <2>2 DEF Rewritten, AsListed
  <2>9. \A x \in rows : f[x].id = x.id
    BY <2>2 DEF Rewritten
  <2>10. current' => \A y \in rows' : AsListed(y, listing)
    <3> SUFFICES ASSUME current', NEW y \in rows' PROVE AsListed(y, listing)
      OBVIOUS
    <3>1. PICK x \in rows : y = f[x]
      BY <2>2
    <3>2. CASE current
      BY <2>7, <2>8, <3>1, <3>2 DEF CurrentInv
    <3>3. CASE ~current
      <4>1. o.clean /\ o.ids = {i}
        BY <2>2, <3>3
      <4>2. x.id = i \/ AsListed(x, listing)
        BY <4>1 DEF CurrentInv
      <4> QED BY <2>7, <2>8, <3>1, <4>1, <4>2
    <3> QED BY <3>2, <3>3
  <2>11. ASSUME NEW u \in Terminals, term'[u].clean, NEW y \in rows'
         PROVE  y.id \in term'[u].ids \/ AsListed(y, listing)
    <3>1. PICK x \in rows : y = f[x]
      BY <2>2
    <3>2. term[u].clean /\ (x.id \in term[u].ids \/ AsListed(x, listing))
      BY <2>4, <2>11 DEF CurrentInv
    <3>3. o.listing = listing
      BY <2>7, <3>2
    <3>4. CASE u = t
      <4>1. term'[u].ids = o.ids \ {i}
        BY <2>2, <2>3, <2>11, <3>4, IdleTyped
      <4> QED BY <2>8, <2>9, <3>1, <3>2, <3>3, <3>4, <4>1
    <3>5. CASE u # t
      BY <2>3, <2>8, <2>9, <3>1, <3>2, <3>3, <3>5
    <3> QED BY <3>4, <3>5
  <2>12. (current' \/ \E u \in Terminals : term'[u].clean) =>
           \A u \in Terminals : term'[u].pc # "idle" => term'[u].listing = listing
    BY <2>4, <2>5, <2>6 DEF CurrentInv
  <2>13. listing' = listing /\ \A u \in Terminals : term'[u].clean => term'[u].pc = "reclassify"
    BY <2>2, <2>4
  <2>14. \A u \in Terminals : term'[u].clean => \A y \in rows' : y.id \in term'[u].ids \/ AsListed(y, listing)
    BY <2>11
  <2> QED BY <2>10, <2>12, <2>13, <2>14 DEF CurrentInv, AsListed, Store!Analyze
<1>12. CASE \E t \in Terminals : Store!Kill(t)
  <2>1. PICK t \in Terminals : Store!Kill(t)
    BY <1>12
  <2>2. term' = [term EXCEPT ![t] = Store!Idle] /\ UNCHANGED <<listing, rows, current>>
    BY <2>1 DEF Store!Kill
  <2> QED BY <1>2, <2>2, IdleTyped
<1>13. CASE Store!EditProfile
  <2>1. current' = FALSE /\ \A t \in Terminals : term'[t].clean = FALSE
    BY <1>13, EditProfileDoes
  <2> QED BY <2>1 DEF CurrentInv
<1> QED BY <1>3, <1>4, <1>5, <1>6, <1>7, <1>8, <1>9, <1>10, <1>11, <1>12, <1>13, StoreSteps

-----------------------------------------------------------------------------
(* An audit that no kill hit and no two commands worked on has one row of    *)
(* every question, or the command that works on it has yet to ask it.        *)

Working(n, r) == n.pc \in {"delete", "ask", "again"} /\ n.run = r
Good(S, r) == {x \in S : x.run = r /\ ~x.answer.failed}
Bad(S, r) == {x \in S : x.run = r /\ x.answer.failed}
Stored(S, r, q) == \E x \in S : x.run = r /\ x.query = q
OneEach(S, r) == \A x, y \in S : x.run = r /\ y.run = r /\ x.query = y.query => x = y

\* What the command n that works on r knows of its rows S.
Tracks(n, S, r) ==
  /\ n.pc \in {"ask", "again"} =>
       /\ \A q \in Queries : Stored(S, r, q) <=> \A w \in n.todo : w[2] # q
       /\ \A v, w \in n.todo : v[2] = w[2] => v = w
  /\ n.pc = "ask" => n.answered = Cardinality(Good(S, r)) /\ n.failed = Cardinality(Bad(S, r))
  /\ n.pc = "delete" => /\ \A q \in Queries : Stored(S, r, q)
                        /\ n.ids = {x.id : x \in Bad(S, r)}
                        /\ n.todo = {<<x.id, x.query>> : x \in Bad(S, r)}

Counted(a, S, r) ==
  /\ a.finished
  /\ \A q \in Queries : Stored(S, r, q)
  /\ a.query_count = Cardinality(Good(S, r)) /\ a.error_count = Cardinality(Bad(S, r))

\* The audit r, with the row a and the results S, among the commands c.
Whole(a, S, c, r) ==
  /\ OneEach(S, r)
  /\ \A t, u \in Terminals : Working(c[t], r) /\ Working(c[u], r) => t = u
  /\ \A t \in Terminals : Working(c[t], r) => Tracks(c[t], S, r)
  /\ (\A t \in Terminals : ~Working(c[t], r)) => Counted(a, S, r)

WholeInv == \A r \in DOMAIN audit \ disturbed : Whole(audit[r], rows, term, r)

LEMMA StoreNames ==
  /\ \A t \in Terminals : \A r : Store!WorksOn(t, r) <=> Working(term[t], r)
  /\ \A r : Store!Errored(r) = Bad(rows, r)
  /\ \A r : StoreTyped => Store!Answered(r) = Good(rows, r)
<1>1. \A t \in Terminals : \A r : Store!WorksOn(t, r) <=> Working(term[t], r)
  BY DEF Store!WorksOn, Working
<1>2. \A r : Store!Errored(r) = Bad(rows, r)
  BY DEF Store!Errored, Store!Of, Bad
<1>3. \A r : Store!Answered(r) = Good(rows, r)
  BY DEF Store!Answered, Store!Errored, Store!Of, Good
<1> QED BY <1>1, <1>2, <1>3

\* Rows of other audits do not matter.
LEMMA WholeElsewhere ==
  ASSUME NEW a, NEW S, NEW S2, NEW c, NEW c2, NEW r, Whole(a, S, c, r),
         \A x : x.run = r => (x \in S <=> x \in S2),
         \A t \in Terminals : /\ Working(c2[t], r) <=> Working(c[t], r)
                              /\ Working(c[t], r) => c2[t] = c[t]
  PROVE  Whole(a, S2, c2, r)
<1>1. Good(S2, r) = Good(S, r) /\ Bad(S2, r) = Bad(S, r)
  BY DEF Good, Bad
<1>2. \A q : Stored(S2, r, q) <=> Stored(S, r, q)
  BY DEF Stored
<1>3. OneEach(S2, r)
  BY DEF OneEach, Whole
<1>4. \A t, u \in Terminals : Working(c2[t], r) /\ Working(c2[u], r) => t = u
  BY DEF Whole
<1>5. \A t \in Terminals : Working(c2[t], r) => Tracks(c2[t], S2, r)
  <2> SUFFICES ASSUME NEW t \in Terminals, Working(c2[t], r) PROVE Tracks(c2[t], S2, r)
    OBVIOUS
  <2>1. Tracks(c[t], S, r) /\ c2[t] = c[t]
    BY DEF Whole
  <2> QED BY <1>1, <1>2, <2>1 DEF Tracks
<1>6. (\A t \in Terminals : ~Working(c2[t], r)) => Counted(a, S2, r)
  BY <1>1, <1>2 DEF Whole, Counted
<1> QED BY <1>3, <1>4, <1>5, <1>6 DEF Whole

\* A new row of the audit a command asks for.
LEMMA WholeSaved ==
  ASSUME NEW a, NEW S, NEW S2, NEW c, NEW c2, NEW r, NEW t \in Terminals, NEW w, NEW x,
         IsFiniteSet(S), Whole(a, S, c, r), S2 = S \cup {x},
         c[t].pc \in {"ask", "again"}, c[t].run = r,
         w \in c[t].todo, c[t].todo \in SUBSET (Nat \X Queries),
         x.run = r, x.query = w[2], x.answer.failed \in BOOLEAN, x \notin S,
         \A u \in Terminals : u # t => c2[u] = c[u],
         c2[t].pc = c[t].pc, c2[t].run = r, c2[t].todo = c[t].todo \ {w},
         x.answer.failed => c2[t].answered = c[t].answered /\ c2[t].failed = c[t].failed + 1,
         ~x.answer.failed => c2[t].answered = c[t].answered + 1 /\ c2[t].failed = c[t].failed
  PROVE  Whole(a, S2, c2, r)
<1>1. Working(c[t], r) /\ Working(c2[t], r) /\ \A u \in Terminals : Working(c2[u], r) <=> Working(c[u], r)
  BY DEF Working
<1>2. Tracks(c[t], S, r) /\ \A u \in Terminals : Working(c[u], r) => u = t
  BY <1>1 DEF Whole
<1>3. w \in Nat \X Queries /\ w[2] \in Queries
  OBVIOUS
<1>4. ~Stored(S, r, w[2])
  BY <1>2, <1>3 DEF Tracks
<1>5. OneEach(S2, r)
  BY <1>4 DEF OneEach, Stored, Whole
<1>6. \A q : Stored(S2, r, q) <=> Stored(S, r, q) \/ q = w[2]
  BY DEF Stored
<1>7. /\ \A q \in Queries : Stored(S2, r, q) <=> \A v \in c2[t].todo : v[2] # q
      /\ \A u, v \in c2[t].todo : u[2] = v[2] => u = v
  BY <1>2, <1>6 DEF Tracks
<1>8. c2[t].pc = "ask" => c2[t].answered = Cardinality(Good(S2, r)) /\ c2[t].failed = Cardinality(Bad(S2, r))
  <2> SUFFICES ASSUME c[t].pc = "ask"
               PROVE  c2[t].answered = Cardinality(Good(S2, r)) /\ c2[t].failed = Cardinality(Bad(S2, r))
    OBVIOUS
  <2>1. c[t].answered = Cardinality(Good(S, r)) /\ c[t].failed = Cardinality(Bad(S, r))
    BY <1>2 DEF Tracks
  <2>2. Good(S, r) \in SUBSET S /\ Bad(S, r) \in SUBSET S /\ x \notin Good(S, r) /\ x \notin Bad(S, r)
    BY DEF Good, Bad
  <2>3. IsFiniteSet(Good(S, r)) /\ IsFiniteSet(Bad(S, r))
    BY <2>2, FS_Subset
  <2>4. CASE x.answer.failed
    <3>1. Good(S2, r) = Good(S, r) /\ Bad(S2, r) = Bad(S, r) \cup {x}
      BY <2>4 DEF Good, Bad
    <3>2. Cardinality(Bad(S, r) \cup {x}) = Cardinality(Bad(S, r)) + 1
      BY <2>2, <2>3, FS_AddElement
    <3> QED BY <2>1, <2>4, <3>1, <3>2
  <2>5. CASE ~x.answer.failed
    <3>1. Good(S2, r) = Good(S, r) \cup {x} /\ Bad(S2, r) = Bad(S, r)
      BY <2>5 DEF Good, Bad
    <3>2. Cardinality(Good(S, r) \cup {x}) = Cardinality(Good(S, r)) + 1
      BY <2>2, <2>3, FS_AddElement
    <3> QED BY <2>1, <2>5, <3>1, <3>2
  <2> QED BY <2>4, <2>5
<1>9. Tracks(c2[t], S2, r)
  BY <1>7, <1>8 DEF Tracks
<1>10. \A u \in Terminals : Working(c2[u], r) => u = t
  BY <1>1, <1>2
<1> QED BY <1>1, <1>5, <1>9, <1>10 DEF Whole

\* A retry drops what failed.
LEMMA WholeDropped ==
  ASSUME NEW a, NEW S, NEW S2, NEW c, NEW c2, NEW r, Whole(a, S, c, r),
         NEW t \in Terminals, c[t].pc = "delete", c[t].run = r,
         \A x, y \in S : x.id = y.id => x = y,
         \A x \in S : x.answer.failed \in BOOLEAN,
         S2 = {x \in S : x.id \notin c[t].ids},
         \A u \in Terminals : u # t => c2[u] = c[u],
         c2[t].pc = "again", c2[t].run = r, c2[t].todo = c[t].todo
  PROVE  Whole(a, S2, c2, r)
<1>1. Working(c[t], r) /\ Working(c2[t], r) /\ \A u \in Terminals : Working(c2[u], r) <=> Working(c[u], r)
  BY DEF Working
<1>2. Tracks(c[t], S, r) /\ \A u \in Terminals : Working(c[u], r) => u = t
  BY <1>1 DEF Whole
<1>3. /\ \A q \in Queries : Stored(S, r, q)
      /\ c[t].ids = {x.id : x \in Bad(S, r)}
      /\ c[t].todo = {<<x.id, x.query>> : x \in Bad(S, r)}
  BY <1>2 DEF Tracks
<1>4. \A x \in S : x.run = r => (x \in S2 <=> ~x.answer.failed)
  <2>1. \A x \in S : x.id \in c[t].ids <=> x \in Bad(S, r)
    <3>1. Bad(S, r) \in SUBSET S
      BY DEF Bad
    <3> QED BY <1>3, <3>1
  <2> QED BY <2>1 DEF Bad
<1>5. OneEach(S, r) /\ OneEach(S2, r)
  BY DEF OneEach, Whole
<1>6. ASSUME NEW q \in Queries PROVE Stored(S2, r, q) <=> \A w \in c2[t].todo : w[2] # q
  <2>1. PICK x \in S : x.run = r /\ x.query = q
    BY <1>3 DEF Stored
  <2>2. \A y \in S : y.run = r /\ y.query = q => y = x
    BY <1>5, <2>1 DEF OneEach
  <2>3. Stored(S2, r, q) <=> ~x.answer.failed
    BY <1>4, <2>1, <2>2 DEF Stored
  <2>4. (\E w \in c2[t].todo : w[2] = q) <=> x.answer.failed
    <3>1. x.answer.failed => x \in Bad(S, r)
      BY <2>1 DEF Bad
    <3>2. ASSUME NEW w \in c2[t].todo, w[2] = q PROVE x.answer.failed
      <4>1. PICK y \in Bad(S, r) : w = <<y.id, y.query>>
        BY <1>3, <3>2
      <4>2. y \in S /\ y.run = r /\ y.query = q /\ y.answer.failed
        BY <3>2, <4>1 DEF Bad
      <4> QED BY <2>2, <4>2
    <3>3. ASSUME x.answer.failed PROVE \E w \in c2[t].todo : w[2] = q
      <4>1. <<x.id, x.query>> \in c2[t].todo
        BY <1>3, <3>1, <3>3
      <4> QED BY <2>1, <4>1
    <3> QED BY <3>2, <3>3
  <2> QED BY <2>3, <2>4
<1>7. ASSUME NEW v \in c2[t].todo, NEW w \in c2[t].todo, v[2] = w[2] PROVE v = w
  <2>1. PICK x \in Bad(S, r) : v = <<x.id, x.query>>
    BY <1>3
  <2>2. PICK y \in Bad(S, r) : w = <<y.id, y.query>>
    BY <1>3
  <2>3. x.query = y.query /\ x \in S /\ y \in S /\ x.run = r /\ y.run = r
    BY <1>7, <2>1, <2>2 DEF Bad
  <2>4. x = y
    BY <1>5, <2>3 DEF OneEach
  <2> QED BY <2>1, <2>2, <2>4
<1>8. Tracks(c2[t], S2, r)
  BY <1>6, <1>7 DEF Tracks
<1>9. \A u \in Terminals : Working(c2[u], r) => u = t
  BY <1>1, <1>2
<1> QED BY <1>1, <1>5, <1>8, <1>9 DEF Whole

\* A verdict written anew changes nothing that counts.
LEMMA WholeRewritten ==
  ASSUME NEW a, NEW S, IsFiniteSet(S), NEW f, NEW c, NEW c2, NEW r, Whole(a, S, c, r),
         f = [x \in S |-> f[x]],
         \A x \in S : f[x].id = x.id /\ f[x].run = x.run /\ f[x].query = x.query /\ f[x].answer = x.answer,
         \A x, y \in S : x.id = y.id => x = y,
         \A t \in Terminals : /\ Working(c2[t], r) <=> Working(c[t], r)
                              /\ Working(c[t], r) => c2[t] = c[t]
  PROVE  Whole(a, {f[x] : x \in S}, c2, r)
<1> DEFINE S2 == {f[x] : x \in S}
<1>1. \A q : Stored(S2, r, q) <=> Stored(S, r, q)
  BY DEF Stored
<1>2. OneEach(S2, r)
  BY DEF OneEach, Whole
<1>3. ASSUME NEW G, NEW H, G \subseteq S, H = {f[x] : x \in G} PROVE Cardinality(H) = Cardinality(G)
  <2> DEFINE g == [x \in G |-> f[x]]
  <2>1. g \in [G -> H] /\ \A x, y \in G : g[x] = g[y] => x = y
    BY <1>3
  <2>2. \A y \in H : \E x \in G : g[x] = y
    BY <1>3
  <2> HIDE DEF g
  <2>3. g \in Bijection(G, H)
    BY <2>1, <2>2 DEF Bijection, Injection, Surjection, IsInjective
  <2>4. IsFiniteSet(G) /\ ExistsBijection(G, H)
    BY <1>3, <2>3, FS_Subset DEF ExistsBijection
  <2> QED BY <2>4, FS_Bijection
<1>4. Good(S2, r) = {f[x] : x \in Good(S, r)} /\ Good(S, r) \subseteq S
  BY DEF Good
<1>5. Bad(S2, r) = {f[x] : x \in Bad(S, r)} /\ Bad(S, r) \subseteq S
  BY DEF Bad
<1>6. Cardinality(Good(S2, r)) = Cardinality(Good(S, r)) /\ Cardinality(Bad(S2, r)) = Cardinality(Bad(S, r))
  BY <1>3, <1>4, <1>5
<1>7. {x.id : x \in Bad(S2, r)} = {x.id : x \in Bad(S, r)}
  <2>1. \A x \in Bad(S, r) : f[x].id = x.id
    BY <1>5
  <2> HIDE DEF S2
  <2> QED BY <1>5, <2>1
<1>8. {<<x.id, x.query>> : x \in Bad(S2, r)} = {<<x.id, x.query>> : x \in Bad(S, r)}
  <2>1. \A x \in Bad(S, r) : f[x].id = x.id /\ f[x].query = x.query
    BY <1>5
  <2> HIDE DEF S2
  <2> QED BY <1>5, <2>1
<1>9. \A t, u \in Terminals : Working(c2[t], r) /\ Working(c2[u], r) => t = u
  BY DEF Whole
<1> HIDE DEF S2
<1>10. \A t \in Terminals : Working(c2[t], r) => Tracks(c2[t], S2, r)
  <2> SUFFICES ASSUME NEW t \in Terminals, Working(c2[t], r) PROVE Tracks(c2[t], S2, r)
    OBVIOUS
  <2>1. Tracks(c[t], S, r) /\ c2[t] = c[t]
    BY DEF Whole
  <2> QED BY <1>1, <1>6, <1>7, <1>8, <2>1 DEF Tracks
<1>11. (\A t \in Terminals : ~Working(c2[t], r)) => Counted(a, S2, r)
  BY <1>1, <1>6 DEF Whole, Counted
<1> QED BY <1>2, <1>9, <1>10, <1>11 DEF Whole, S2

LEMMA WholeInvInit == Store!Init => WholeInv
<1> SUFFICES ASSUME Store!Init PROVE WholeInv
  OBVIOUS
<1>1. DOMAIN audit = {}
  BY DEF Store!Init
<1> QED BY <1>1 DEF WholeInv

\* A command that worked on the audit neither before nor after.
LEMMA WholeBeside ==
  ASSUME NEW a, NEW S, NEW S2, NEW c \in [Terminals -> TermRow], NEW c2, NEW r, Whole(a, S, c, r),
         NEW t \in Terminals, NEW n, c2 = [c EXCEPT ![t] = n], ~Working(c[t], r), ~Working(n, r),
         \A x : x.run = r => (x \in S <=> x \in S2)
  PROVE  Whole(a, S2, c2, r)
<1>1. \A u \in Terminals : /\ Working(c2[u], r) <=> Working(c[u], r)
                           /\ Working(c[u], r) => c2[u] = c[u]
  BY DEF Working
<1> HIDE DEF Working
<1> QED BY <1>1, WholeElsewhere

LEMMA WholeInvStep == StoreTyped /\ IdsInv /\ WholeInv /\ Store!Next => WholeInv'
<1> SUFFICES ASSUME StoreTyped, IdsInv, WholeInv, Store!Next PROVE WholeInv'
  OBVIOUS
<1>1. /\ term \in [Terminals -> TermRow] /\ audit \in Seq(AuditRow) /\ IsFiniteSet(rows)
      /\ \A t \in Terminals : term[t] \in TermRow /\ InPlace(term[t])
      /\ DOMAIN audit \subseteq Nat
  BY DEF StoreTyped
<1>2. CASE \E t \in Terminals : Store!RunCommand(t)
  <2>1. PICK t \in Terminals : Store!RunCommand(t)
    BY <1>2
  <2>2. PICK n \in TermRow :
           /\ term' = [term EXCEPT ![t] = n] /\ term[t].pc = "idle" /\ n.pc = "start"
           /\ audit' = audit /\ rows' = rows /\ disturbed' = disturbed
    BY <2>1, RunCommandDoes
  <2>3. \A r : ~Working(term[t], r) /\ ~Working(n, r)
    BY <2>2 DEF Working
  <2>4. \A r \in DOMAIN audit \ disturbed : Whole(audit[r], rows, term', r)
    BY <1>1, <2>2, <2>3, WholeBeside DEF WholeInv
  <2> QED BY <2>2, <2>4 DEF WholeInv
<1>3. CASE \E t \in Terminals : Store!StartRun(t)
  <2>1. PICK t \in Terminals : Store!StartRun(t)
    BY <1>3
  <2>2. PICK n \in TermRow, a \in AuditRow :
           /\ term' = [term EXCEPT ![t] = n] /\ term[t].pc = "start"
           /\ audit' = Append(audit, a)
           /\ n.pc = "ask" /\ n.run = Len(audit) + 1 /\ n.todo = {<<0, q>> : q \in Queries}
           /\ n.answered = 0 /\ n.failed = 0
           /\ rows' = rows /\ disturbed' = disturbed
    BY <2>1, StartRunDoes
  <2> DEFINE new == Len(audit) + 1
  <2>3. new \notin DOMAIN audit /\ DOMAIN audit' = DOMAIN audit \cup {new} /\ \A r \in DOMAIN audit : audit'[r] = audit[r]
    BY <1>1, <2>2
  <2>4. term'[t] = n /\ \A u \in Terminals : u # t => term'[u] = term[u]
    BY <1>1, <2>2
  <2> HIDE DEF new
  <2>5. n.run = new
    BY <2>2 DEF new
  <2>6. ASSUME NEW r \in DOMAIN audit \ disturbed PROVE Whole(audit'[r], rows, term', r)
    <3>1. ~Working(term[t], r) /\ ~Working(n, r)
      BY <2>2, <2>3, <2>5 DEF Working
    <3>2. Whole(audit[r], rows, term, r)
      BY DEF WholeInv
    <3>3. Whole(audit[r], rows, term', r)
      BY <1>1, <2>2, <3>1, <3>2, WholeBeside
    <3> QED BY <2>3, <3>3
  <2>7. Whole(audit'[new], rows, term', new)
    <3>1. \A u \in Terminals : Working(term'[u], new) <=> u = t
      BY <1>1, <2>2, <2>3, <2>4, <2>5 DEF Working, InPlace
    <3>2. \A x \in rows : x.run # new
      BY <2>3 DEF StoreTyped
    <3>3. Good(rows, new) = {} /\ Bad(rows, new) = {} /\ (\A q : ~Stored(rows, new, q)) /\ OneEach(rows, new)
      BY <3>2 DEF Good, Bad, Stored, OneEach
    <3>4. \A q \in Queries : <<0, q>> \in n.todo
      BY <2>2
    <3>5. /\ \A q \in Queries : \E w \in n.todo : w[2] = q
          /\ \A v, w \in n.todo : v[2] = w[2] => v = w
      <4>1. \A v \in n.todo : \E q \in Queries : v = <<0, q>>
        BY <2>2
      <4>2. \A q \in Queries : <<0, q>>[2] = q
        OBVIOUS
      <4>3. \A q \in Queries : \E w \in n.todo : w[2] = q
        BY <3>4, <4>2
      <4>4. ASSUME NEW v \in n.todo, NEW w \in n.todo, v[2] = w[2] PROVE v = w
        <5>1. PICK p \in Queries : v = <<0, p>>
          BY <4>1
        <5>2. PICK q \in Queries : w = <<0, q>>
          BY <4>1
        <5> QED BY <4>4, <5>1, <5>2
      <4> QED BY <4>3, <4>4
    <3>6. Cardinality({}) = 0
      BY FS_EmptySet
    <3>7. Tracks(n, rows, new)
      BY <2>2, <3>3, <3>5, <3>6 DEF Tracks
    <3> QED BY <2>4, <3>1, <3>3, <3>7 DEF Whole
  <2> QED BY <2>2, <2>3, <2>6, <2>7 DEF WholeInv
<1>4. CASE \E t \in Terminals : Store!SaveResult(t)
  <2>1. PICK t \in Terminals : Store!SaveResult(t)
    BY <1>4
  <2>2. PICK n \in TermRow, w \in term[t].todo, x \in ResultRow :
           /\ term' = [term EXCEPT ![t] = n] /\ term[t].pc \in {"ask", "again"}
           /\ rows' = rows \cup {x}
           /\ x.id = nextId /\ x.run = term[t].run /\ x.query = w[2]
           /\ n.pc = term[t].pc /\ n.run = term[t].run /\ n.todo = term[t].todo \ {w}
           /\ n.answered = (IF x.answer.failed THEN term[t].answered ELSE term[t].answered + 1)
           /\ n.failed = (IF x.answer.failed THEN term[t].failed + 1 ELSE term[t].failed)
           /\ audit' = audit /\ disturbed' = disturbed
    BY <2>1, SaveResultDoes
  <2>3. term'[t] = n /\ \A u \in Terminals : u # t => term'[u] = term[u]
    BY <1>1, <2>2
  <2>4. x \notin rows /\ x.answer.failed \in BOOLEAN
    BY <2>2, AnswersTyped DEF StoreTyped, ResultRow
  <2>5. ASSUME NEW r \in DOMAIN audit \ disturbed PROVE Whole(audit[r], rows', term', r)
    <3>1. Whole(audit[r], rows, term, r)
      BY DEF WholeInv
    <3>2. CASE r = term[t].run
      <4>1. term[t].todo \in SUBSET (Nat \X Queries)
        BY <1>1 DEF TermRow
      <4>2. /\ term'[t].pc = term[t].pc /\ term'[t].run = r /\ term'[t].todo = term[t].todo \ {w}
            /\ x.answer.failed => term'[t].answered = term[t].answered /\ term'[t].failed = term[t].failed + 1
            /\ ~x.answer.failed => term'[t].answered = term[t].answered + 1 /\ term'[t].failed = term[t].failed
            /\ term[t].run = r /\ x.run = r /\ x.query = w[2] /\ term[t].pc \in {"ask", "again"} /\ w \in term[t].todo
        BY <2>2, <2>3, <3>2
      <4>3. Whole(audit[r], rows \cup {x}, term', r)
        BY <1>1, <2>3, <2>4, <3>1, <4>1, <4>2, WholeSaved
      <4> QED BY <2>2, <4>3
    <3>3. CASE r # term[t].run
      <4>1. ~Working(term[t], r) /\ ~Working(n, r)
        BY <2>2, <3>3 DEF Working
      <4>2. \A y : y.run = r => (y \in rows <=> y \in rows \cup {x})
        BY <2>2, <3>3
      <4>3. Whole(audit[r], rows \cup {x}, term', r)
        BY <1>1, <2>2, <3>1, <4>1, <4>2, WholeBeside
      <4> QED BY <2>2, <4>3
    <3> QED BY <3>2, <3>3
  <2> QED BY <2>2, <2>5 DEF WholeInv
<1>5. CASE \E t \in Terminals : Store!FinishRun(t)
  <2>1. PICK t \in Terminals : Store!FinishRun(t)
    BY <1>5
  <2>2. PICK n \in TermRow, a \in AuditRow :
           /\ term' = [term EXCEPT ![t] = n] /\ term[t].pc = "ask" /\ term[t].todo = {}
           /\ audit' = [audit EXCEPT ![term[t].run] = a]
           /\ a.finished = TRUE /\ a.query_count = term[t].answered /\ a.error_count = term[t].failed
           /\ n.pc \in {"idle", "start"}
           /\ rows' = rows /\ disturbed' = disturbed
    BY <2>1, FinishRunDoes
  <2>3. term'[t] = n /\ \A u \in Terminals : u # t => term'[u] = term[u]
    BY <1>1, <2>2
  <2>4. \A r : ~Working(n, r)
    BY <2>2 DEF Working
  <2>5. DOMAIN audit' = DOMAIN audit
    BY <2>2
  <2>6. ASSUME NEW r \in DOMAIN audit \ disturbed PROVE Whole(audit'[r], rows, term', r)
    <3>1. Whole(audit[r], rows, term, r)
      BY DEF WholeInv
    <3>2. CASE r = term[t].run
      <4>1. Working(term[t], r)
        BY <2>2, <3>2 DEF Working
      <4>2. Tracks(term[t], rows, r) /\ \A u \in Terminals : ~Working(term'[u], r)
        BY <2>3, <2>4, <3>1, <4>1 DEF Whole
      <4>3. Counted(a, rows, r)
        BY <2>2, <4>2 DEF Counted, Tracks
      <4>4. audit'[r] = a
        BY <2>2, <3>2
      <4> QED BY <3>1, <4>2, <4>3, <4>4 DEF Whole
    <3>3. CASE r # term[t].run
      <4>1. ~Working(term[t], r) /\ audit'[r] = audit[r]
        BY <2>2, <3>3 DEF Working
      <4>2. Whole(audit[r], rows, term', r)
        BY <1>1, <2>2, <2>4, <3>1, <4>1, WholeBeside
      <4> QED BY <4>1, <4>2
    <3> QED BY <3>2, <3>3
  <2> QED BY <2>2, <2>5, <2>6 DEF WholeInv
<1>6. CASE \E t \in Terminals : Store!RetryCommand(t)
  <2>1. PICK t \in Terminals : Store!RetryCommand(t)
    BY <1>6
  <2>2. PICK n \in TermRow, r0 \in DOMAIN audit :
           /\ term' = [term EXCEPT ![t] = n] /\ term[t].pc = "idle"
           /\ n.pc = "delete" /\ n.run = r0
           /\ n.ids = {x.id : x \in Store!Errored(r0)}
           /\ n.todo = {<<x.id, x.query>> : x \in Store!Errored(r0)}
           /\ disturbed' = disturbed \cup {s \in {r0} : \E u \in Terminals : Store!WorksOn(u, s)}
           /\ audit' = audit /\ rows' = rows
    BY <2>1, RetryCommandDoes
  <2>3. term'[t] = n /\ \A u \in Terminals : u # t => term'[u] = term[u]
    BY <1>1, <2>2
  <2>4. \A r : ~Working(term[t], r)
    BY <2>2 DEF Working
  <2>5. ASSUME NEW r \in DOMAIN audit \ disturbed' PROVE Whole(audit[r], rows, term', r)
    <3>1. r \in DOMAIN audit \ disturbed
      BY <2>2
    <3>2. Whole(audit[r], rows, term, r)
      BY <3>1 DEF WholeInv
    <3>3. CASE r = r0
      <4>1. \A u \in Terminals : ~Working(term[u], r)
        BY <2>2, <2>5, <3>3, StoreNames
      <4>2. Counted(audit[r], rows, r)
        BY <3>2, <4>1 DEF Whole
      <4>3. Working(n, r) /\ \A u \in Terminals : Working(term'[u], r) => u = t
        BY <2>2, <2>3, <3>3, <4>1 DEF Working
      <4>4. n.ids = {x.id : x \in Bad(rows, r)} /\ n.todo = {<<x.id, x.query>> : x \in Bad(rows, r)}
        BY <2>2, <3>3, StoreNames
      <4>5. Tracks(n, rows, r)
        BY <2>2, <4>2, <4>4 DEF Tracks, Counted
      <4> QED BY <2>3, <3>2, <4>3, <4>5 DEF Whole
    <3>4. CASE r # r0
      <4>1. ~Working(n, r)
        BY <2>2, <3>4 DEF Working
      <4> QED BY <1>1, <2>2, <2>4, <3>2, <4>1, WholeBeside
    <3> QED BY <3>3, <3>4
  <2> QED BY <2>2, <2>5 DEF WholeInv
<1>7. CASE \E t \in Terminals : Store!DeleteResults(t)
  <2>1. PICK t \in Terminals : Store!DeleteResults(t)
    BY <1>7
  <2>2. PICK n \in TermRow :
           /\ term' = [term EXCEPT ![t] = n] /\ term[t].pc = "delete"
           /\ rows' = {x \in rows : x.id \notin term[t].ids}
           /\ n.pc = "again" /\ n.run = term[t].run /\ n.todo = term[t].todo
           /\ audit' = audit /\ disturbed' = disturbed
    BY <2>1, DeleteResultsDoes
  <2>3. term'[t] = n /\ \A u \in Terminals : u # t => term'[u] = term[u]
    BY <1>1, <2>2
  <2>4. PICK S2 : S2 = {x \in rows : x.id \notin term[t].ids}
    OBVIOUS
  <2>5. ASSUME NEW r \in DOMAIN audit \ disturbed PROVE Whole(audit[r], S2, term', r)
    <3>1. Whole(audit[r], rows, term, r)
      BY DEF WholeInv
    <3>2. CASE r = term[t].run
      <4>1. \A x \in rows : x.answer.failed \in BOOLEAN
        BY AnswersTyped DEF StoreTyped, ResultRow
      <4>2. \A x, y \in rows : x.id = y.id => x = y
        BY DEF IdsInv
      <4>3. /\ term'[t].pc = "again" /\ term'[t].run = r /\ term'[t].todo = term[t].todo
            /\ term[t].pc = "delete" /\ term[t].run = r
        BY <2>2, <2>3, <3>2
      <4> QED BY <2>3, <2>4, <3>1, <4>1, <4>2, <4>3, WholeDropped
    <3>3. CASE r # term[t].run
      <4>1. ~Working(term[t], r) /\ ~Working(n, r)
        BY <2>2, <3>3 DEF Working
      <4>2. \A x \in rows : x.id \in term[t].ids => x.run = term[t].run
        BY <2>2 DEF IdsInv, IdsFine
      <4>3. \A x : x.run = r => (x \in rows <=> x \in S2)
        BY <2>4, <3>3, <4>2
      <4> QED BY <1>1, <2>2, <3>1, <4>1, <4>3, WholeBeside
    <3> QED BY <3>2, <3>3
  <2> QED BY <2>2, <2>4, <2>5 DEF WholeInv
<1>8. CASE \E t \in Terminals : Store!RecountRun(t)
  <2>1. PICK t \in Terminals : Store!RecountRun(t)
    BY <1>8
  <2>2. PICK a \in AuditRow :
           /\ term' = [term EXCEPT ![t] = Store!Idle] /\ term[t].pc = "again" /\ term[t].todo = {}
           /\ audit' = [audit EXCEPT ![term[t].run] = a]
           /\ a.finished = TRUE
           /\ a.query_count = Cardinality(Store!Answered(term[t].run))
           /\ a.error_count = Cardinality(Store!Errored(term[t].run))
           /\ rows' = rows /\ disturbed' = disturbed
    BY <2>1, RecountRunDoes
  <2>3. term'[t] = Store!Idle /\ \A u \in Terminals : u # t => term'[u] = term[u]
    BY <1>1, <2>2
  <2>4. \A r : ~Working(Store!Idle, r)
    BY IdleTyped DEF Working
  <2>5. DOMAIN audit' = DOMAIN audit
    BY <2>2
  <2>6. ASSUME NEW r \in DOMAIN audit \ disturbed PROVE Whole(audit'[r], rows, term', r)
    <3>1. Whole(audit[r], rows, term, r)
      BY DEF WholeInv
    <3>2. CASE r = term[t].run
      <4>1. Working(term[t], r)
        BY <2>2, <3>2 DEF Working
      <4>2. Tracks(term[t], rows, r) /\ \A u \in Terminals : ~Working(term'[u], r)
        BY <2>3, <2>4, <3>1, <4>1 DEF Whole
      <4>3. Counted(a, rows, r)
        BY <2>2, <3>2, <4>2, StoreNames DEF Counted, Tracks
      <4>4. audit'[r] = a
        BY <2>2, <3>2
      <4> QED BY <3>1, <4>2, <4>3, <4>4 DEF Whole
    <3>3. CASE r # term[t].run
      <4>1. ~Working(term[t], r) /\ audit'[r] = audit[r]
        BY <2>2, <3>3 DEF Working
      <4>2. Whole(audit[r], rows, term', r)
        BY <1>1, <2>2, <2>4, <3>1, <4>1, WholeBeside
      <4> QED BY <4>1, <4>2
    <3> QED BY <3>2, <3>3
  <2> QED BY <2>2, <2>5, <2>6 DEF WholeInv
<1>9. CASE \E t \in Terminals : Store!ReclassifyCommand(t)
  <2>1. PICK t \in Terminals : Store!ReclassifyCommand(t)
    BY <1>9
  <2>2. PICK n \in TermRow :
           /\ term' = [term EXCEPT ![t] = n] /\ term[t].pc = "idle" /\ n.pc = "reclassify"
           /\ audit' = audit /\ rows' = rows /\ disturbed' = disturbed
    BY <2>1, ReclassifyCommandDoes
  <2>3. \A r : ~Working(term[t], r) /\ ~Working(n, r)
    BY <2>2 DEF Working
  <2>4. \A r \in DOMAIN audit \ disturbed : Whole(audit[r], rows, term', r)
    BY <1>1, <2>2, <2>3, WholeBeside DEF WholeInv
  <2> QED BY <2>2, <2>4 DEF WholeInv
<1>10. CASE \E t \in Terminals : Store!UpdateVerdict(t)
  <2>1. PICK t \in Terminals : Store!UpdateVerdict(t)
    BY <1>10
  <2>2. PICK n, i, f :
           /\ n \in TermRow
           /\ term' = [term EXCEPT ![t] = n] /\ term[t].pc = "reclassify"
           /\ Rewritten(f, i, term[t].listing) /\ rows' = {f[x] : x \in rows}
           /\ n.pc \in {"idle", "reclassify"}
           /\ audit' = audit /\ disturbed' = disturbed
    BY <2>1, UpdateVerdictDoes, IdleTyped
  <2>3. term'[t] = n /\ \A u \in Terminals : u # t => term'[u] = term[u]
    BY <1>1, <2>2
  <2>4. \A r : ~Working(term[t], r) /\ ~Working(n, r)
    BY <2>2 DEF Working
  <2>5. f = [x \in rows |-> f[x]]
    BY <2>2 DEF Rewritten
  <2>6. \A x \in rows : f[x].id = x.id /\ f[x].run = x.run /\ f[x].query = x.query /\ f[x].answer = x.answer
    BY <2>2 DEF Rewritten
  <2>7. ASSUME NEW r \in DOMAIN audit \ disturbed PROVE Whole(audit[r], {f[x] : x \in rows}, term', r)
    <3>1. Whole(audit[r], rows, term, r)
      BY DEF WholeInv
    <3>2. \A u \in Terminals : /\ Working(term'[u], r) <=> Working(term[u], r)
                               /\ Working(term[u], r) => term'[u] = term[u]
      BY <2>3, <2>4
    <3>3. \A x, y \in rows : x.id = y.id => x = y
      BY DEF IdsInv
    <3> QED BY <1>1, <2>5, <2>6, <3>1, <3>2, <3>3, WholeRewritten
  <2> QED BY <2>2, <2>7 DEF WholeInv
<1>11. CASE \E t \in Terminals : Store!Kill(t)
  <2>1. PICK t \in Terminals : Store!Kill(t)
    BY <1>11
  <2>2. /\ term' = [term EXCEPT ![t] = Store!Idle]
        /\ disturbed' = disturbed \cup {r \in DOMAIN audit : Store!WorksOn(t, r)}
        /\ audit' = audit /\ rows' = rows
    BY <2>1 DEF Store!Kill
  <2>3. \A r : ~Working(Store!Idle, r)
    BY IdleTyped DEF Working
  <2>4. ASSUME NEW r \in DOMAIN audit \ disturbed' PROVE Whole(audit[r], rows, term', r)
    <3>1. r \in DOMAIN audit \ disturbed /\ ~Working(term[t], r)
      BY <2>2, StoreNames
    <3>2. Whole(audit[r], rows, term, r)
      BY <3>1 DEF WholeInv
    <3> QED BY <1>1, <2>2, <2>3, <3>1, <3>2, WholeBeside
  <2> QED BY <2>2, <2>4 DEF WholeInv
<1>12. CASE Store!EditProfile
  <2>1. /\ audit' = audit /\ rows' = rows /\ disturbed' = disturbed
        /\ \A t \in Terminals : /\ term'[t].pc = term[t].pc /\ term'[t].run = term[t].run /\ term'[t].ids = term[t].ids
                                /\ term'[t].todo = term[t].todo /\ term'[t].answered = term[t].answered
                                /\ term'[t].failed = term[t].failed
    BY <1>12, EditProfileDoes
  <2>2. ASSUME NEW r \in DOMAIN audit \ disturbed PROVE Whole(audit[r], rows, term', r)
    <3>1. Whole(audit[r], rows, term, r)
      BY DEF WholeInv
    <3>2. \A t \in Terminals : Working(term'[t], r) <=> Working(term[t], r)
      BY <2>1 DEF Working
    <3>3. \A t \in Terminals : Tracks(term[t], rows, r) => Tracks(term'[t], rows, r)
      BY <2>1 DEF Tracks
    <3> QED BY <3>1, <3>2, <3>3 DEF Whole
  <2> QED BY <2>1, <2>2 DEF WholeInv
<1> QED BY <1>2, <1>3, <1>4, <1>5, <1>6, <1>7, <1>8, <1>9, <1>10, <1>11, <1>12, StoreSteps

LEMMA WholeIsOnce ==
  ASSUME StoreTyped, IdsInv, WholeInv
  PROVE  Store!QuestionsOnce /\ Store!TotalsAddUp
<1>1. ASSUME NEW r \in DOMAIN audit \ disturbed
      PROVE  Whole(audit[r], rows, term, r) /\ (Store!Busy(r) <=> \E t \in Terminals : Working(term[t], r))
  BY StoreNames DEF WholeInv, Store!Busy
<1>2. Store!TotalsAddUp
  <2> SUFFICES ASSUME NEW r \in DOMAIN audit \ disturbed, ~Store!Busy(r)
               PROVE  /\ audit[r].query_count = Store!Cardinality(Store!Answered(r))
                      /\ audit[r].error_count = Store!Cardinality(Store!Errored(r))
    BY DEF Store!TotalsAddUp
  <2>1. Counted(audit[r], rows, r)
    BY <1>1 DEF Whole
  <2> QED BY <2>1, StoreNames, ErrorsCounted DEF Counted
<1>3. Store!QuestionsOnce
  <2> SUFFICES ASSUME NEW r \in DOMAIN audit \ disturbed, NEW q \in Queries
               PROVE  LET stored == {x \in Store!Of(r) : x.query = q /\ \A t \in Terminals : Store!WorksOn(t, r) => x.id \notin term[t].ids}
                          asked == {t \in Terminals : Store!WorksOn(t, r) /\ \E w \in term[t].todo : w[2] = q}
                      IN  Store!Cardinality(stored) + Store!Cardinality(asked) = 1
    BY DEF Store!QuestionsOnce
  <2> DEFINE stored == {x \in rows : x.run = r /\ x.query = q /\ \A t \in Terminals : Working(term[t], r) => x.id \notin term[t].ids}
             asked == {t \in Terminals : Working(term[t], r) /\ \E w \in term[t].todo : w[2] = q}
  <2>1. /\ stored = {x \in Store!Of(r) : x.query = q /\ \A t \in Terminals : Store!WorksOn(t, r) => x.id \notin term[t].ids}
        /\ asked = {t \in Terminals : Store!WorksOn(t, r) /\ \E w \in term[t].todo : w[2] = q}
    BY StoreNames DEF Store!Of
  <2>2. (\E x : stored = {x} /\ asked = {}) \/ (\E t : stored = {} /\ asked = {t})
    <3>1. OneEach(rows, r)
      BY <1>1 DEF Whole
    <3>2. CASE \A t \in Terminals : ~Working(term[t], r)
      <4>1. Stored(rows, r, q)
        BY <1>1, <3>2 DEF Whole, Counted
      <4>2. PICK x \in rows : x.run = r /\ x.query = q
        BY <4>1 DEF Stored
      <4>3. stored = {x}
        BY <3>1, <3>2, <4>2 DEF OneEach
      <4>4. asked = {}
        BY <3>2
      <4> QED BY <4>3, <4>4
    <3>3. ASSUME NEW t \in Terminals, Working(term[t], r)
          PROVE  (\E x : stored = {x} /\ asked = {}) \/ (\E u : stored = {} /\ asked = {u})
      <4>1. Tracks(term[t], rows, r) /\ \A u \in Terminals : Working(term[u], r) => u = t
        BY <1>1, <3>3 DEF Whole
      <4>2. stored = {x \in rows : x.run = r /\ x.query = q /\ x.id \notin term[t].ids}
        BY <3>3, <4>1
      <4>3. asked = {u \in {t} : \E w \in term[t].todo : w[2] = q}
        BY <3>3, <4>1
      <4> HIDE DEF stored, asked
      <4>4. CASE term[t].pc = "delete"
        <5>1. PICK x \in rows : x.run = r /\ x.query = q
          BY <4>1, <4>4 DEF Tracks, Stored
        <5>2. \A y \in rows : y.run = r /\ y.query = q => y = x
          BY <3>1, <5>1 DEF OneEach
        <5>3. x.id \in term[t].ids <=> x.answer.failed
          <6>1. term[t].ids = {y.id : y \in Bad(rows, r)}
            BY <4>1, <4>4 DEF Tracks
          <6>2. x.answer.failed => x \in Bad(rows, r)
            BY <5>1 DEF Bad
          <6>3. \A y \in Bad(rows, r) : y \in rows /\ y.answer.failed
            BY DEF Bad
          <6> QED BY <5>1, <6>1, <6>2, <6>3 DEF IdsInv
        <5>4. (\E w \in term[t].todo : w[2] = q) <=> x.answer.failed
          <6>1. term[t].todo = {<<y.id, y.query>> : y \in Bad(rows, r)}
            BY <4>1, <4>4 DEF Tracks
          <6>2. ASSUME x.answer.failed PROVE \E w \in term[t].todo : w[2] = q
            <7>1. x \in Bad(rows, r)
              BY <5>1, <6>2 DEF Bad
            <7>2. <<x.id, x.query>> \in term[t].todo
              BY <6>1, <7>1
            <7> QED BY <5>1, <7>2
          <6>3. ASSUME NEW w \in term[t].todo, w[2] = q PROVE x.answer.failed
            <7>1. PICK y \in Bad(rows, r) : w = <<y.id, y.query>>
              BY <6>1, <6>3
            <7>2. y \in rows /\ y.run = r /\ y.query = q /\ y.answer.failed
              BY <6>3, <7>1 DEF Bad
            <7> QED BY <5>2, <7>2
          <6> QED BY <6>2, <6>3
        <5>5. CASE x.answer.failed
          <6>1. stored = {} /\ asked = {t}
            BY <4>2, <4>3, <5>2, <5>3, <5>4, <5>5
          <6> QED BY <6>1
        <5>6. CASE ~x.answer.failed
          <6>1. stored = {x} /\ asked = {}
            BY <4>2, <4>3, <5>1, <5>2, <5>3, <5>4, <5>6
          <6> QED BY <6>1
        <5> QED BY <5>5, <5>6
      <4>5. CASE term[t].pc \in {"ask", "again"}
        <5>1. \A x \in rows : x.id \notin term[t].ids
          BY <4>5 DEF IdsInv, IdsFine
        <5>2. stored = {x \in rows : x.run = r /\ x.query = q}
          BY <4>2, <5>1
        <5>3. Stored(rows, r, q) <=> \A w \in term[t].todo : w[2] # q
          BY <4>1, <4>5 DEF Tracks
        <5>4. CASE Stored(rows, r, q)
          <6>1. PICK x \in rows : x.run = r /\ x.query = q
            BY <5>4 DEF Stored
          <6>2. stored = {x}
            BY <3>1, <5>2, <6>1 DEF OneEach
          <6>3. asked = {}
            BY <4>3, <5>3, <5>4
          <6> QED BY <6>2, <6>3
        <5>5. CASE ~Stored(rows, r, q)
          <6>1. stored = {} /\ asked = {t}
            BY <4>3, <5>2, <5>3, <5>5 DEF Stored
          <6> QED BY <6>1
        <5> QED BY <5>4, <5>5
      <4> QED BY <3>3, <4>4, <4>5 DEF Working
    <3> QED BY <3>2, <3>3
  <2> HIDE DEF stored, asked
  <2>3. Cardinality({}) = 0 /\ \A x : Cardinality({x}) = 1
    BY FS_EmptySet, FS_Singleton
  <2>4. Cardinality(stored) + Cardinality(asked) = 1
    <3>1. ASSUME NEW x, stored = {x}, asked = {} PROVE Cardinality(stored) + Cardinality(asked) = 1
      <4>1. Cardinality(stored) = 1 /\ Cardinality(asked) = 0
        BY <2>3, <3>1
      <4> QED BY <4>1
    <3>2. ASSUME NEW t, stored = {}, asked = {t} PROVE Cardinality(stored) + Cardinality(asked) = 1
      <4>1. Cardinality(stored) = 0 /\ Cardinality(asked) = 1
        BY <2>3, <3>2
      <4> QED BY <4>1
    <3> QED BY <2>2, <3>1, <3>2
  <2> QED BY <2>1, <2>4, StoreCounts
<1> QED BY <1>2, <1>3

-----------------------------------------------------------------------------
(* Three summaries of the same rows. *)

LEMMA FirstInRank ==
  ASSUME NEW set, set # {}, \A x \in set : Store!WebVerdict(x) \in {"cited", "directory", "named", "absent", "no_search", "error"}
  PROVE  LET has(v) == \E x \in set : Store!WebVerdict(x) = v
         IN  Store!WebQuestion(set) =
               IF has("cited") THEN "cited" ELSE IF has("directory") THEN "directory" ELSE IF has("named") THEN "named"
               ELSE IF has("absent") THEN "absent" ELSE IF has("no_search") THEN "no_search" ELSE "error"
<1> DEFINE verdicts == {Store!WebVerdict(x) : x \in set}
           rank == Store!VerdictRank
           First(i) == rank[i] \in verdicts /\ \A j \in 1..i - 1 : rank[j] \notin verdicts
           first == CHOOSE i \in 1..6 : First(i)
<1>1. DOMAIN rank = 1..6 /\ rank[1] = "cited" /\ rank[2] = "directory" /\ rank[3] = "named"
      /\ rank[4] = "absent" /\ rank[5] = "no_search" /\ rank[6] = "error"
  BY DEF Store!VerdictRank
<1>2. Store!WebQuestion(set) = rank[first]
  BY <1>1 DEF Store!WebQuestion
<1>3. \A v : v \in verdicts <=> \E x \in set : Store!WebVerdict(x) = v
  OBVIOUS
<1>4. verdicts # {} /\ verdicts \subseteq {"cited", "directory", "named", "absent", "no_search", "error"}
  OBVIOUS
<1> HIDE DEF verdicts, rank
<1>5. \E i \in 1..6 : First(i)
  <2>1. CASE rank[1] \in verdicts
    BY <2>1
  <2>2. CASE rank[1] \notin verdicts /\ rank[2] \in verdicts
    <3>1. \A j \in 1..2 - 1 : j = 1
      OBVIOUS
    <3> QED BY <2>2, <3>1
  <2>3. CASE rank[1] \notin verdicts /\ rank[2] \notin verdicts /\ rank[3] \in verdicts
    <3>1. \A j \in 1..3 - 1 : j = 1 \/ j = 2
      OBVIOUS
    <3> QED BY <2>3, <3>1
  <2>4. CASE rank[1] \notin verdicts /\ rank[2] \notin verdicts /\ rank[3] \notin verdicts /\ rank[4] \in verdicts
    <3>1. \A j \in 1..4 - 1 : j = 1 \/ j = 2 \/ j = 3
      OBVIOUS
    <3> QED BY <2>4, <3>1
  <2>5. CASE rank[1] \notin verdicts /\ rank[2] \notin verdicts /\ rank[3] \notin verdicts /\ rank[4] \notin verdicts
             /\ rank[5] \in verdicts
    <3>1. \A j \in 1..5 - 1 : j = 1 \/ j = 2 \/ j = 3 \/ j = 4
      OBVIOUS
    <3> QED BY <2>5, <3>1
  <2>6. CASE rank[1] \notin verdicts /\ rank[2] \notin verdicts /\ rank[3] \notin verdicts /\ rank[4] \notin verdicts
             /\ rank[5] \notin verdicts
    <3>1. \A j \in 1..6 - 1 : j = 1 \/ j = 2 \/ j = 3 \/ j = 4 \/ j = 5
      OBVIOUS
    <3>2. rank[6] \in verdicts
      BY <1>1, <1>4, <2>6
    <3> QED BY <2>6, <3>1, <3>2
  <2> QED BY <2>1, <2>2, <2>3, <2>4, <2>5, <2>6
<1>6. first \in 1..6 /\ First(first)
  <2> HIDE DEF First
  <2> QED BY <1>5
<1> HIDE DEF first
<1>7. \A i \in 1..6, j \in 1..6 : First(i) /\ rank[j] \in verdicts => i <= j
  OBVIOUS
<1>8. rank[first] \in verdicts /\ \A j \in 1..6 : rank[j] \in verdicts => first <= j
  BY <1>6, <1>7
<1>9. \/ first = 1 \/ first = 2 \/ first = 3 \/ first = 4 \/ first = 5 \/ first = 6
  BY <1>6
<1> HIDE DEF First
<1> QED BY <1>1, <1>2, <1>3, <1>8, <1>9

\* What the reports make of one row.
LEMMA RowVerdicts ==
  ASSUME NEW x, x.answer \in Answers, NEW l \in Store!Listings, x.verdict = Store!Analyze(x.answer, l),
         x.answer.failed \/ x.answer.text
  PROVE  /\ Store!WebVerdict(x) \in {"cited", "directory", "named", "absent", "no_search", "error"}
         /\ Store!WebVerdict(x) = "error" <=> x.answer.failed
         /\ ~x.answer.failed =>
              /\ Store!PhpVerdict(x) \in {"cited", "named", "absent", "ungrounded"}
              /\ Store!PhpVerdict(x) = "cited" <=> Store!WebVerdict(x) = "cited"
              /\ Store!PhpVerdict(x) = "named" <=> Store!WebVerdict(x) \in {"directory", "named"}
              /\ Store!PhpVerdict(x) = "absent" <=> Store!WebVerdict(x) = "absent"
              /\ Store!PhpVerdict(x) = "ungrounded" <=> Store!WebVerdict(x) = "no_search"
              /\ x.verdict["own_cited"] <=> Store!WebVerdict(x) = "cited"
              /\ x.verdict["name_mentioned"] /\ ~x.verdict["own_cited"] <=> Store!WebVerdict(x) \in {"directory", "named"}
<1>1. /\ x.answer.failed \in BOOLEAN /\ x.answer.searched \in BOOLEAN /\ x.answer.text \in BOOLEAN
      /\ x.answer.named \in BOOLEAN /\ x.answer.own \in BOOLEAN /\ x.answer.site \in BOOLEAN
  BY AnswersTyped
<1>2. /\ x.verdict.own_cited = x.answer.own /\ x.verdict.name_mentioned = x.answer.named
      /\ x.verdict.directory_only = (~x.answer.own /\ x.answer.named /\ x.answer.site /\ l = "directory")
  BY DEF Store!Analyze
<1> QED BY <1>1, <1>2 DEF Store!WebVerdict, Store!PhpVerdict

LEMMA SummariesAgree ==
  ASSUME NEW set, set # {}, \A x \in set : x.answer \in Answers /\ (x.answer.failed \/ x.answer.text),
         \A x \in set : \E l \in Store!Listings : x.verdict = Store!Analyze(x.answer, l)
  PROVE  LET web == Store!WebQuestion(set) IN
         /\ Store!PhpQuestion(set) = CASE web = "cited" -> "cited"
                                       [] web \in {"directory", "named"} -> "named"
                                       [] web = "absent" -> "invisible"
                                       [] web = "no_search" -> "unmeasured"
                                       [] web = "error" -> "unanswered"
         /\ Store!JobQuestion(set) = IF Store!PhpQuestion(set) \in {"cited", "named"} THEN Store!PhpQuestion(set) ELSE "neither"
<1> DEFINE has(v) == \E x \in set : Store!WebVerdict(x) = v
           kinds == {Store!PhpVerdict(x) : x \in {s \in set : ~s.answer.failed}}
<1>1. \A x \in set :
         /\ Store!WebVerdict(x) \in {"cited", "directory", "named", "absent", "no_search", "error"}
         /\ Store!WebVerdict(x) = "error" <=> x.answer.failed
         /\ ~x.answer.failed =>
              /\ Store!PhpVerdict(x) \in {"cited", "named", "absent", "ungrounded"}
              /\ Store!PhpVerdict(x) = "cited" <=> Store!WebVerdict(x) = "cited"
              /\ Store!PhpVerdict(x) = "named" <=> Store!WebVerdict(x) \in {"directory", "named"}
              /\ Store!PhpVerdict(x) = "absent" <=> Store!WebVerdict(x) = "absent"
              /\ Store!PhpVerdict(x) = "ungrounded" <=> Store!WebVerdict(x) = "no_search"
              /\ x.verdict["own_cited"] <=> Store!WebVerdict(x) = "cited"
              /\ x.verdict["name_mentioned"] /\ ~x.verdict["own_cited"] <=> Store!WebVerdict(x) \in {"directory", "named"}
  BY RowVerdicts
<1>2. /\ "cited" \in kinds <=> has("cited")
      /\ "named" \in kinds <=> has("directory") \/ has("named")
      /\ "absent" \in kinds <=> has("absent")
      /\ "ungrounded" \in kinds <=> has("no_search")
      /\ kinds \subseteq {"cited", "named", "absent", "ungrounded"}
  <2>1. \A v : v \in kinds <=> \E x \in set : ~x.answer.failed /\ Store!PhpVerdict(x) = v
    OBVIOUS
  <2> HIDE DEF kinds
  <2> QED BY <1>1, <2>1
<1>3. Store!PhpQuestion(set) = IF kinds = {} THEN "unanswered" ELSE IF "cited" \in kinds THEN "cited"
                               ELSE IF kinds \cap {"named", "directory"} # {} THEN "named"
                               ELSE IF kinds = {"ungrounded"} THEN "unmeasured" ELSE "invisible"
  BY DEF Store!PhpQuestion
<1> HIDE DEF kinds
<1>4. Store!PhpQuestion(set) = IF has("cited") THEN "cited" ELSE IF has("directory") \/ has("named") THEN "named"
                               ELSE IF has("absent") THEN "invisible" ELSE IF has("no_search") THEN "unmeasured"
                               ELSE "unanswered"
  <2>1. kinds = {} <=> ~("cited" \in kinds) /\ ~("named" \in kinds) /\ ~("absent" \in kinds) /\ ~("ungrounded" \in kinds)
    BY <1>2
  <2>2. kinds \cap {"named", "directory"} # {} <=> "named" \in kinds
    BY <1>2
  <2>3. ~("cited" \in kinds) /\ ~("named" \in kinds) => (kinds = {"ungrounded"} <=> "ungrounded" \in kinds /\ ~("absent" \in kinds))
    BY <1>2
  <2> HIDE DEF has
  <2> QED BY <1>2, <1>3, <2>1, <2>2, <2>3
<1>5. Store!WebQuestion(set) =
        IF has("cited") THEN "cited" ELSE IF has("directory") THEN "directory" ELSE IF has("named") THEN "named"
        ELSE IF has("absent") THEN "absent" ELSE IF has("no_search") THEN "no_search" ELSE "error"
  BY <1>1, FirstInRank
<1>6. Store!JobQuestion(set) = IF has("cited") THEN "cited" ELSE IF has("directory") \/ has("named") THEN "named" ELSE "neither"
  <2>1. (\E x \in set : ~x.answer.failed /\ x.verdict["own_cited"]) <=> has("cited")
    BY <1>1
  <2>2. ~has("cited") => ((\E x \in set : ~x.answer.failed /\ x.verdict["name_mentioned"]) <=> has("directory") \/ has("named"))
    BY <1>1
  <2> QED BY <2>1, <2>2 DEF Store!JobQuestion
<1> HIDE DEF has
<1> QED BY <1>4, <1>5, <1>6

-----------------------------------------------------------------------------
(* The theorems. *)

StoreInv == StoreTyped /\ IdsInv /\ CurrentInv /\ WholeInv

LEMMA StoreStutters == StoreInv /\ UNCHANGED auditVars => StoreInv'
<1> SUFFICES ASSUME StoreInv, UNCHANGED auditVars PROVE StoreInv'
  OBVIOUS
<1> USE DEF auditVars
<1>1. StoreTyped'
  BY DEF StoreInv, StoreTyped, InPlace
<1>2. IdsInv'
  BY DEF StoreInv, IdsInv, IdsFine
<1>3. CurrentInv'
  BY DEF StoreInv, CurrentInv
<1>4. WholeInv'
  BY DEF StoreInv, WholeInv
<1> QED BY <1>1, <1>2, <1>3, <1>4 DEF StoreInv

LEMMA StoreInvInductive == AuditsSpec => []StoreInv
<1>1. AuditsInit => StoreInv
  BY StoreTypedInit, IdsInvInit, CurrentInvInit, WholeInvInit DEF AuditsInit, StoreInv
<1>2. StoreInv /\ [AuditsNext]_AuditsVars => StoreInv'
  <2> SUFFICES ASSUME StoreInv, [AuditsNext]_AuditsVars PROVE StoreInv'
    OBVIOUS
  <2>1. CASE Store!Next
    BY <2>1, StoreTypedStep, IdsInvStep, CurrentInvStep, WholeInvStep DEF StoreInv
  <2>2. CASE UNCHANGED auditVars
    BY <2>2, StoreStutters
  <2> QED BY <2>1, <2>2 DEF AuditsNext, AuditsVars
<1> QED BY <1>1, <1>2, PTL DEF AuditsSpec

\* The store adds up: every question of an audit is stored once or is about to
\* be, the totals are those of the rows, unless a command was killed or two of
\* them worked on one audit; and a reclassify that no edit and no older command
\* overlaps leaves every verdict as the profile has it (panel.php, Db.php).
THEOREM StoreSound == AuditsSpec => []StoreIsSound
<1>1. StoreInv => StoreIsSound
  <2> SUFFICES ASSUME StoreInv PROVE StoreIsSound
    OBVIOUS
  <2>1. Store!QuestionsOnce /\ Store!TotalsAddUp
    BY WholeIsOnce DEF StoreInv
  <2>2. Store!VerdictsAreCurrent
    BY DEF StoreInv, CurrentInv, AsListed, Store!VerdictsAreCurrent
  <2> QED BY <2>1, <2>2 DEF StoreIsSound, Store!StoreIsSound
<1> QED BY <1>1, StoreInvInductive, PTL

\* Whatever is killed and whatever runs beside it, an answer that was paid for
\* stays in the store (Db.php, deleteResults).
THEOREM PaidAnswersStay == AuditsSpec => PaidAnswersAreKept
<1>1. StoreInv /\ [AuditsNext]_AuditsVars => [Store!KeepsPaidAnswers]_Store!vars
  <2> SUFFICES ASSUME StoreInv, [AuditsNext]_AuditsVars PROVE Store!KeepsPaidAnswers \/ UNCHANGED Store!vars
    OBVIOUS
  <2>1. CASE Store!Next
    BY <2>1, PaidAnswersKept DEF StoreInv, Store!KeepsPaidAnswers
  <2>2. CASE UNCHANGED auditVars
    BY <2>2 DEF auditVars, Store!vars
  <2> QED BY <2>1, <2>2 DEF AuditsNext, AuditsVars
<1> QED BY <1>1, StoreInvInductive, PTL DEF AuditsSpec, PaidAnswersAreKept, Store!PaidAnswersAreKept

\* Whatever the engines reply and however the profile lists a site, the printed
\* audit, the totals of a job and the web report find the same of a question, if
\* no answer came without text (Report.php, Job.php, report.ts).
THEOREM ReportsFindTheSame == AuditsSpec => []ReportsAgree
<1>1. StoreTyped => ReportsAgree
  <2> SUFFICES ASSUME StoreTyped PROVE ReportsAgree
    OBVIOUS
  <2>1. ASSUME NEW set, set \subseteq rows, set # {}, \A x \in set : x.answer.failed \/ x.answer.text
        PROVE  LET web == Store!WebQuestion(set) IN
               /\ Store!PhpQuestion(set) = CASE web = "cited" -> "cited"
                                             [] web \in {"directory", "named"} -> "named"
                                             [] web = "absent" -> "invisible"
                                             [] web = "no_search" -> "unmeasured"
                                             [] web = "error" -> "unanswered"
               /\ Store!JobQuestion(set) = IF Store!PhpQuestion(set) \in {"cited", "named"} THEN Store!PhpQuestion(set) ELSE "neither"
    <3>1. \A x \in set : x.answer \in Answers
      BY <2>1 DEF StoreTyped, ResultRow
    <3>2. \A x \in set : \E l \in Store!Listings : x.verdict = Store!Analyze(x.answer, l)
      BY <2>1 DEF StoreTyped
    <3> QED BY <2>1, <3>1, <3>2, SummariesAgree
  <2> QED BY <2>1 DEF ReportsAgree, Store!ReportsAgree
<1> QED BY <1>1, StoreInvInductive, PTL DEF StoreInv
-----------------------------------------------------------------------------
(* The sampling of a snapshot (MCAudits), for any panels, services, counts   *)
(* and order of the categories.                                              *)

Num(S, p, c) == Cardinality({i \in S : CategoryOf[p][i] = c})
Rest(F, S, p, c) == {i \in F \ S : CategoryOf[p][i] = c}

\* How many of the first k minimums ask for the category.
Asks(k, c) == Cardinality({m \in 1..k : Sampling!Minimums[m] = c})
Extra(S, p, c) == Num(S, p, c) - Asks(8, c)

SnapshotPlaces == {"fill", "minimums", "round", "planned", "permanent", "accepted", "rejected"}

SampleTyped ==
  /\ pc \in SnapshotPlaces
  /\ topic \in Panels /\ service \in {1} \cup Twins[topic] /\ at \in Nat \ {0}
  /\ filled \subseteq 1..Len(CategoryOf[topic]) /\ chosen \subseteq filled
  /\ count \in Nat
  /\ progressed \in BOOLEAN /\ named \in BOOLEAN

Reads(s, i) == IF i = 1 THEN s ELSE i

\* Each text of the first k questions is there, and no text is there twice.
FilledTo(F, s, k) ==
  /\ \A i, j \in F : Reads(s, i) = Reads(s, j) => i = j
  /\ \A i \in 1..k : \E j \in F : Reads(s, j) = Reads(s, i)

FillInv ==
  IF pc = "fill"
  THEN /\ chosen = {} /\ at <= Len(CategoryOf[topic]) + 1 /\ filled \subseteq 1..(at - 1)
       /\ FilledTo(filled, service, at - 1)
  ELSE FilledTo(filled, service, Len(CategoryOf[topic]))

OnTheWay == pc \in {"minimums", "round"}
Full == Cardinality(chosen) = count

CountInv == pc # "fill" =>
  \/ chosen = filled /\ Cardinality(filled) <= count /\ ~OnTheWay
  \/ Cardinality(chosen) <= count /\ count < Cardinality(filled) /\ (OnTheWay \/ Full)

\* Of each category as many as the first k minimums ask for, or all.
Met(F, S, p, k) ==
  \A c : /\ Num(S, p, c) <= Asks(k, c)
         /\ Rest(F, S, p, c) # {} => Num(S, p, c) = Asks(k, c)

MinimumInv == pc = "minimums" =>
  /\ at \in 1..9 /\ Cardinality(chosen) <= at - 1
  /\ count >= 8 => Met(filled, chosen, topic, at - 1)

\* r rounds are over; of a further one, the categories before k had their turn.
Even(F, S, p, r, k, wanting) ==
  \A n \in DOMAIN Alphabetical :
    LET c == Alphabetical[n] IN
    /\ Extra(S, p, c) <= r + 1
    /\ n >= k => Extra(S, p, c) <= r
    /\ Rest(F, S, p, c) # {} => Extra(S, p, c) >= r
    /\ Rest(F, S, p, c) # {} /\ n < k /\ wanting => Extra(S, p, c) >= r + 1

RoundInv == pc = "round" =>
  /\ at \in 1..(Len(Alphabetical) + 1)
  /\ progressed \/ (~Full /\ \A n \in DOMAIN Alphabetical : n < at => Rest(filled, chosen, topic, Alphabetical[n]) = {})
  /\ count >= 8 => \E r \in Nat : IF Full THEN Even(filled, chosen, topic, r, at, FALSE)
                                         ELSE Even(filled, chosen, topic, r, at, TRUE)

PlanInv == pc \notin {"fill", "minimums", "round"} =>
  /\ count >= 8 => chosen = filled \/ \E r \in Nat : Even(filled, chosen, topic, r, Len(Alphabetical) + 1, FALSE)
  /\ pc = "rejected" => ~named

SampleInv == SampleTyped /\ FillInv /\ CountInv /\ MinimumInv /\ RoundInv /\ PlanInv

LEMMA NumbersAdd ==
  ASSUME NEW S, IsFiniteSet(S), NEW p, NEW c
  PROVE  /\ Num(S, p, c) \in Nat
         /\ \A i : i \notin S => Num(S \cup {i}, p, c) =
              IF CategoryOf[p][i] = c THEN Num(S, p, c) + 1 ELSE Num(S, p, c)
<1> DEFINE Those(set) == {i \in set : CategoryOf[p][i] = c}
<1>1. IsFiniteSet(Those(S)) /\ Num(S, p, c) = Cardinality(Those(S))
  BY FS_Subset DEF Num
<1>2. ASSUME NEW i, i \notin S
      PROVE  Num(S \cup {i}, p, c) = IF CategoryOf[p][i] = c THEN Num(S, p, c) + 1 ELSE Num(S, p, c)
  <2>1. CASE CategoryOf[p][i] = c
    <3>1. Those(S \cup {i}) = Those(S) \cup {i} /\ i \notin Those(S)
      BY <1>2, <2>1
    <3> QED BY <1>1, <2>1, <3>1, FS_AddElement DEF Num
  <2>2. CASE CategoryOf[p][i] # c
    <3>1. Those(S \cup {i}) = Those(S)
      BY <2>2
    <3> QED BY <1>1, <2>2, <3>1 DEF Num
  <2> QED BY <2>1, <2>2
<1>3. Num(S, p, c) \in Nat
  BY <1>1, FS_CardinalityType
<1> QED BY <1>2, <1>3

LEMMA NoneLeft ==
  ASSUME NEW F, NEW S, S \subseteq F, NEW p, NEW c, Rest(F, S, p, c) = {}
  PROVE  Num(F, p, c) = Num(S, p, c)
<1>1. {i \in F : CategoryOf[p][i] = c} = {i \in S : CategoryOf[p][i] = c}
  BY DEF Rest
<1> QED BY <1>1 DEF Num

LEMMA RestShrinks ==
  ASSUME NEW F, NEW S, NEW p, NEW i \in F \ S
  PROVE  \A c : /\ Rest(F, S \cup {i}, p, c) # {} => Rest(F, S, p, c) # {}
                /\ CategoryOf[p][i] # c => Rest(F, S \cup {i}, p, c) = Rest(F, S, p, c)
BY DEF Rest

LEMMA MinimumsAre == Sampling!Minimums =
  <<"service-geo", "service-geo", "service-geo", "service-geo", "cost", "cost", "permits", "permits">>
BY DEF Sampling!Minimums

LEMMA AskingGrows ==
  ASSUME NEW c
  PROVE  /\ Asks(0, c) = 0
         /\ \A k \in 0..7 : /\ Asks(k, c) \in Nat
                            /\ Asks(k + 1, c) = IF Sampling!Minimums[k + 1] = c THEN Asks(k, c) + 1 ELSE Asks(k, c)
         /\ Asks(8, c) \in Nat
<1> DEFINE Those(k) == {m \in 1..k : Sampling!Minimums[m] = c}
<1>1. ASSUME NEW k \in Nat PROVE IsFiniteSet(Those(k)) /\ Asks(k, c) = Cardinality(Those(k))
  <2>1. IsFiniteSet(1..k)
    BY FS_Interval
  <2>2. Those(k) \in SUBSET (1..k)
    OBVIOUS
  <2> QED BY <2>1, <2>2, FS_Subset DEF Asks
<1>2. ASSUME NEW k \in Nat PROVE Asks(k, c) \in Nat
  BY <1>1, FS_CardinalityType
<1>3. ASSUME NEW k \in Nat
      PROVE  Asks(k + 1, c) = IF Sampling!Minimums[k + 1] = c THEN Asks(k, c) + 1 ELSE Asks(k, c)
  <2>0. k + 1 \in Nat
    OBVIOUS
  <2>1. CASE Sampling!Minimums[k + 1] = c
    <3>1. Those(k + 1) = Those(k) \cup {k + 1} /\ k + 1 \notin Those(k)
      BY <2>1
    <3> HIDE DEF Those
    <3>2. Cardinality(Those(k + 1)) = Cardinality(Those(k)) + 1
      BY <1>1, <3>1, FS_AddElement
    <3> QED BY <1>1, <2>0, <2>1, <3>2
  <2>2. CASE Sampling!Minimums[k + 1] # c
    <3>1. Those(k + 1) = Those(k)
      BY <2>2
    <3> HIDE DEF Those
    <3> QED BY <1>1, <2>0, <2>2, <3>1
  <2> QED BY <2>1, <2>2
<1>4. Asks(0, c) = 0
  <2>1. Those(0) = {}
    OBVIOUS
  <2> QED BY <1>1, <2>1, FS_EmptySet
<1> QED BY <1>2, <1>3, <1>4

\* A minimum that is asked for: one more of the category, if one is left.
LEMMA MetGrows ==
  ASSUME NEW F, NEW S, IsFiniteSet(S), NEW p, NEW k \in 0..7, Met(F, S, p, k),
         NEW d, d = Sampling!Minimums[k + 1]
  PROVE  /\ Rest(F, S, p, d) = {} => Met(F, S, p, k + 1)
         /\ \A i \in Rest(F, S, p, d) : Met(F, S \cup {i}, p, k + 1)
<1>1. \A c : Asks(k, c) \in Nat /\ Asks(k + 1, c) = IF d = c THEN Asks(k, c) + 1 ELSE Asks(k, c)
  BY AskingGrows
<1>2. \A c : Num(S, p, c) \in Nat
  BY NumbersAdd
<1>3. ASSUME Rest(F, S, p, d) = {} PROVE Met(F, S, p, k + 1)
  BY <1>1, <1>2, <1>3 DEF Met
<1>4. ASSUME NEW i \in Rest(F, S, p, d) PROVE Met(F, S \cup {i}, p, k + 1)
  <2>1. i \in F \ S /\ CategoryOf[p][i] = d
    BY DEF Rest
  <2>2. \A c : Num(S \cup {i}, p, c) = IF d = c THEN Num(S, p, c) + 1 ELSE Num(S, p, c)
    BY <2>1, NumbersAdd
  <2>3. \A c : Rest(F, S \cup {i}, p, c) # {} => Rest(F, S, p, c) # {}
    BY <2>1, RestShrinks
  <2>4. ASSUME NEW c PROVE Num(S \cup {i}, p, c) <= Asks(k + 1, c)
                           /\ (Rest(F, S \cup {i}, p, c) # {} => Num(S \cup {i}, p, c) = Asks(k + 1, c))
    <3>1. /\ Num(S, p, c) <= Asks(k, c)
          /\ Rest(F, S, p, c) # {} => Num(S, p, c) = Asks(k, c)
      BY DEF Met
    <3> QED BY <1>1, <1>2, <2>2, <2>3, <3>1
  <2> QED BY <2>4 DEF Met
<1> QED BY <1>3, <1>4

\* The rounds begin where the minimums end.
LEMMA MetIsEven ==
  ASSUME NEW F, NEW S, IsFiniteSet(S), NEW p, Met(F, S, p, 8), NEW wanting \in BOOLEAN
  PROVE  Even(F, S, p, 0, 1, wanting) /\ Even(F, S, p, 0, Len(Alphabetical) + 1, FALSE)
<1>1. \A c : Num(S, p, c) \in Nat /\ Asks(8, c) \in Nat
  BY NumbersAdd, AskingGrows
<1>2. \A n \in DOMAIN Alphabetical : n \in Nat /\ ~(n < 1)
  BY SnapshotConstants DEF Sampling!SamplingConstants
<1>3. \A c : Extra(S, p, c) <= 0 /\ (Rest(F, S, p, c) # {} => Extra(S, p, c) = 0)
  BY <1>1 DEF Met, Extra
<1>4. \A c : Extra(S, p, c) \in Int
  BY <1>1 DEF Extra
<1>5. \A n \in DOMAIN Alphabetical : n \in 1..Len(Alphabetical) /\ Len(Alphabetical) \in Nat
  BY SnapshotConstants DEF Sampling!SamplingConstants
<1>6. Even(F, S, p, 0, 1, wanting)
  BY <1>2, <1>3, <1>4 DEF Even
<1>7. Even(F, S, p, 0, Len(Alphabetical) + 1, FALSE)
  BY <1>3, <1>4, <1>5 DEF Even
<1> QED BY <1>6, <1>7

LEMMA ExtraIsInt ==
  ASSUME NEW S, IsFiniteSet(S), NEW p, NEW c
  PROVE  Extra(S, p, c) \in Int
<1>1. Num(S, p, c) \in Nat /\ Asks(8, c) \in Nat
  BY NumbersAdd, AskingGrows
<1> QED BY <1>1 DEF Extra

\* A turn in which a question is taken.
LEMMA TurnTakes ==
  ASSUME NEW F, NEW S, IsFiniteSet(S), NEW p, NEW r \in Nat, NEW k \in DOMAIN Alphabetical,
         Even(F, S, p, r, k, TRUE), NEW i \in Rest(F, S, p, Alphabetical[k]), NEW wanting \in BOOLEAN
  PROVE  Even(F, S \cup {i}, p, r, k + 1, wanting)
<1> DEFINE d == Alphabetical[k]
<1>1. i \in F \ S /\ CategoryOf[p][i] = d
  BY DEF Rest
<1>2. \A c : Extra(S, p, c) \in Int
  BY ExtraIsInt
<1>3. \A c : Extra(S \cup {i}, p, c) = IF d = c THEN Extra(S, p, c) + 1 ELSE Extra(S, p, c)
  <2>1. \A c : Num(S \cup {i}, p, c) = IF d = c THEN Num(S, p, c) + 1 ELSE Num(S, p, c)
    BY <1>1, NumbersAdd
  <2>2. \A c : Num(S, p, c) \in Nat /\ Asks(8, c) \in Nat
    BY NumbersAdd, AskingGrows
  <2> QED BY <2>1, <2>2 DEF Extra
<1>4. \A c : Rest(F, S \cup {i}, p, c) # {} => Rest(F, S, p, c) # {}
  BY <1>1, RestShrinks
<1>5. \A m, n \in DOMAIN Alphabetical : Alphabetical[m] = Alphabetical[n] => m = n
  BY SnapshotConstants DEF Sampling!SamplingConstants
<1>6. \A n \in DOMAIN Alphabetical : n \in Nat
  BY SnapshotConstants DEF Sampling!SamplingConstants
<1>7. ASSUME NEW n \in DOMAIN Alphabetical
      PROVE  LET c == Alphabetical[n] IN
             /\ Extra(S \cup {i}, p, c) <= r + 1
             /\ n >= k + 1 => Extra(S \cup {i}, p, c) <= r
             /\ Rest(F, S \cup {i}, p, c) # {} => Extra(S \cup {i}, p, c) >= r
             /\ Rest(F, S \cup {i}, p, c) # {} /\ n < k + 1 /\ wanting => Extra(S \cup {i}, p, c) >= r + 1
  <2> DEFINE c == Alphabetical[n]
  <2>1. /\ Extra(S, p, c) <= r + 1
        /\ n >= k => Extra(S, p, c) <= r
        /\ Rest(F, S, p, c) # {} => Extra(S, p, c) >= r
        /\ Rest(F, S, p, c) # {} /\ n < k => Extra(S, p, c) >= r + 1
    BY DEF Even
  <2>2. Rest(F, S, p, d) # {}
    OBVIOUS
  <2>3. Extra(S, p, c) \in Int /\ n \in Nat /\ k \in Nat
    BY <1>2, <1>6
  <2>4. CASE n = k
    <3>1. Extra(S, p, c) = r /\ Extra(S \cup {i}, p, c) = r + 1
      BY <1>3, <2>1, <2>2, <2>3, <2>4
    <3> QED BY <2>3, <2>4, <3>1
  <2>5. CASE n # k
    <3>1. Extra(S \cup {i}, p, c) = Extra(S, p, c)
      BY <1>3, <1>5, <2>5
    <3>2. Rest(F, S \cup {i}, p, c) # {} => Rest(F, S, p, c) # {}
      BY <1>4
    <3> QED BY <2>1, <2>3, <2>5, <3>1, <3>2
  <2> QED BY <2>4, <2>5
<1> QED BY <1>7 DEF Even

\* A turn in which nothing is taken: nothing is left, or nothing is wanted.
LEMMA TurnPasses ==
  ASSUME NEW F, NEW S, IsFiniteSet(S), NEW p, NEW r \in Nat, NEW k \in DOMAIN Alphabetical,
         NEW wanting \in BOOLEAN, Even(F, S, p, r, k, wanting),
         wanting => Rest(F, S, p, Alphabetical[k]) = {}
  PROVE  Even(F, S, p, r, k + 1, wanting)
<1>1. \A n \in DOMAIN Alphabetical : n \in Nat
  BY SnapshotConstants DEF Sampling!SamplingConstants
<1>2. \A c : Extra(S, p, c) \in Int
  BY ExtraIsInt
<1>3. ASSUME NEW n \in DOMAIN Alphabetical
      PROVE  LET c == Alphabetical[n] IN
             /\ Extra(S, p, c) <= r + 1
             /\ n >= k + 1 => Extra(S, p, c) <= r
             /\ Rest(F, S, p, c) # {} => Extra(S, p, c) >= r
             /\ Rest(F, S, p, c) # {} /\ n < k + 1 /\ wanting => Extra(S, p, c) >= r + 1
  <2> DEFINE c == Alphabetical[n]
  <2>1. /\ Extra(S, p, c) <= r + 1
        /\ n >= k => Extra(S, p, c) <= r
        /\ Rest(F, S, p, c) # {} => Extra(S, p, c) >= r
        /\ Rest(F, S, p, c) # {} /\ n < k /\ wanting => Extra(S, p, c) >= r + 1
    BY DEF Even
  <2>2. n \in Nat /\ k \in Nat
    BY <1>1
  <2>3. n >= k + 1 => n >= k
    BY <2>2
  <2>4. n < k + 1 => n < k \/ n = k
    BY <2>2
  <2> QED BY <2>1, <2>3, <2>4
<1> QED BY <1>3 DEF Even

\* A round that is over while questions are wanted, and one that ends the plan.
LEMMA RoundEnds ==
  ASSUME NEW F, NEW S, IsFiniteSet(S), NEW p, NEW r \in Nat, NEW k \in Nat, k > Len(Alphabetical),
         NEW wanting \in BOOLEAN, Even(F, S, p, r, k, wanting)
  PROVE  /\ wanting => Even(F, S, p, r + 1, 1, TRUE)
         /\ Even(F, S, p, r, Len(Alphabetical) + 1, FALSE)
<1>1. \A n \in DOMAIN Alphabetical : n \in Nat /\ n >= 1 /\ n < k /\ n < Len(Alphabetical) + 1
  BY SnapshotConstants DEF Sampling!SamplingConstants
<1>2. \A c : Extra(S, p, c) \in Int
  BY ExtraIsInt
<1>3. Len(Alphabetical) \in Nat
  BY SnapshotConstants DEF Sampling!SamplingConstants
<1>4. ASSUME wanting PROVE Even(F, S, p, r + 1, 1, TRUE)
  BY <1>1, <1>2, <1>4 DEF Even
<1>5. Even(F, S, p, r, Len(Alphabetical) + 1, FALSE)
  BY <1>1, <1>2, <1>3 DEF Even
<1> QED BY <1>4, <1>5

LEMMA SamplingCounts == \A S : Sampling!Cardinality(S) = Cardinality(S)
BY DEF Sampling!Cardinality, Cardinality

LEMMA PanelSizes ==
  ASSUME NEW p \in Panels
  PROVE  /\ Len(CategoryOf[p]) \in Nat /\ 1 <= Len(CategoryOf[p]) /\ Len(CategoryOf[p]) <= MaxQuestions
         /\ MaxQuestions \in Nat /\ Twins[p] \subseteq 2..Len(CategoryOf[p])
BY SnapshotConstants DEF Sampling!SamplingConstants

LEMMA SampleFinite ==
  ASSUME SampleTyped
  PROVE  /\ IsFiniteSet(filled) /\ IsFiniteSet(chosen)
         /\ Cardinality(filled) \in Nat /\ Cardinality(chosen) \in Nat
         /\ Cardinality(chosen) <= Cardinality(filled) /\ Cardinality(filled) <= MaxQuestions
         /\ MaxQuestions \in Nat
<1>1. topic \in Panels /\ filled \in SUBSET (1..Len(CategoryOf[topic])) /\ chosen \in SUBSET filled
  BY DEF SampleTyped
<1> DEFINE L == Len(CategoryOf[topic])
<1>2. L \in Nat /\ L <= MaxQuestions /\ MaxQuestions \in Nat
  BY <1>1, PanelSizes
<1>3. IsFiniteSet(1..L) /\ Cardinality(1..L) = L
  <2>1. 1 \in Int /\ L \in Int /\ (IF 1 > L THEN 0 ELSE L - 1 + 1) = L
    BY <1>2
  <2> HIDE DEF L
  <2> QED BY <2>1, FS_Interval
<1>4. IsFiniteSet(filled) /\ Cardinality(filled) <= L
  BY <1>1, <1>3, FS_Subset
<1>5. IsFiniteSet(chosen) /\ Cardinality(chosen) <= Cardinality(filled)
  BY <1>1, <1>4, FS_Subset
<1>6. Cardinality(filled) \in Nat /\ Cardinality(chosen) \in Nat
  BY <1>4, <1>5, FS_CardinalityType
<1> QED BY <1>2, <1>4, <1>5, <1>6

LEMMA SampleStarts == Sampling!Init => SampleInv
<1> SUFFICES ASSUME Sampling!Init PROVE SampleInv
  OBVIOUS
<1>1. /\ pc = "fill" /\ at = 1 /\ filled = {} /\ topic \in Panels /\ service \in {1} \cup Twins[topic]
      /\ count = 0 /\ chosen = {} /\ progressed = FALSE /\ named = TRUE
  BY DEF Sampling!Init
<1>2. Len(CategoryOf[topic]) \in Nat
  BY <1>1, PanelSizes
<1>3. SampleTyped
  <2>1. pc \in SnapshotPlaces /\ at \in Nat \ {0} /\ count \in Nat
    BY <1>1 DEF SnapshotPlaces
  <2>2. progressed \in BOOLEAN /\ named \in BOOLEAN
    BY <1>1
  <2>3. filled \subseteq 1..Len(CategoryOf[topic]) /\ chosen \subseteq filled
    BY <1>1
  <2> QED BY <1>1, <2>1, <2>2, <2>3 DEF SampleTyped
<1>4. FillInv
  BY <1>1, <1>2 DEF FillInv, FilledTo
<1> QED BY <1>1, <1>3, <1>4 DEF SampleInv, CountInv, MinimumInv, RoundInv, PlanInv

LEMMA FillKeeps == ASSUME SampleInv, Sampling!Fill PROVE SampleInv'
<1>1. /\ pc = "fill" /\ pc' = "fill" /\ at <= Len(CategoryOf[topic]) /\ at' = at + 1
      /\ UNCHANGED <<topic, service, count, chosen, progressed, named>>
      /\ filled' = IF \E j \in filled : Reads(service, j) = Reads(service, at) THEN filled ELSE filled \cup {at}
  BY DEF Sampling!Fill, Sampling!Size, Sampling!Seen, Sampling!Text, Reads
<1>2. SampleTyped /\ FillInv
  BY DEF SampleInv
<1>3. Len(CategoryOf[topic]) \in Nat /\ at \in Nat \ {0}
  BY <1>2, PanelSizes DEF SampleTyped
<1>4. at \in 1..Len(CategoryOf[topic])
  BY <1>1, <1>3
<1>5. SampleTyped'
  BY <1>1, <1>2, <1>3, <1>4 DEF SampleTyped
<1>6. FilledTo(filled', service, at)
  <2>1. FilledTo(filled, service, at - 1) /\ filled \subseteq 1..(at - 1)
    BY <1>1, <1>2 DEF FillInv
  <2>2. \A i, j \in filled' : Reads(service, i) = Reads(service, j) => i = j
    BY <1>1, <2>1 DEF FilledTo
  <2>3. \A i \in 1..at : i \in 1..(at - 1) \/ i = at
    BY <1>3
  <2>4. \E j \in filled' : Reads(service, j) = Reads(service, at)
    BY <1>1
  <2>5. \A i \in 1..(at - 1) : \E j \in filled' : Reads(service, j) = Reads(service, i)
    BY <1>1, <2>1 DEF FilledTo
  <2> QED BY <2>2, <2>3, <2>4, <2>5 DEF FilledTo
<1>7. FillInv'
  <2>1. filled' \subseteq 1..at /\ at' - 1 = at /\ at' <= Len(CategoryOf[topic]) + 1 /\ chosen = {}
    BY <1>1, <1>2, <1>3 DEF FillInv
  <2> QED BY <1>1, <1>6, <2>1 DEF FillInv
<1> QED BY <1>1, <1>5, <1>7 DEF SampleInv, CountInv, MinimumInv, RoundInv, PlanInv

LEMMA SampleKeeps == ASSUME SampleInv, Sampling!Sample PROVE SampleInv'
<1>1. PICK n \in Counts :
        /\ pc = "fill" /\ at > Len(CategoryOf[topic]) /\ count' = n /\ at' = 1
        /\ IF n >= Cardinality(filled) THEN pc' = "planned" /\ chosen' = filled ELSE pc' = "minimums" /\ chosen' = {}
        /\ UNCHANGED <<topic, service, filled, progressed, named>>
  BY SamplingCounts DEF Sampling!Sample, Sampling!Size
<1>2. SampleTyped /\ FillInv
  BY DEF SampleInv
<1>3. n \in Nat /\ Len(CategoryOf[topic]) \in Nat /\ at \in Nat
  BY <1>2, PanelSizes, SnapshotConstants DEF SampleTyped, Sampling!SamplingConstants
<1>4. FilledTo(filled, service, Len(CategoryOf[topic]))
  <2>1. FilledTo(filled, service, at - 1) /\ at <= Len(CategoryOf[topic]) + 1
    BY <1>1, <1>2 DEF FillInv
  <2>2. at - 1 = Len(CategoryOf[topic])
    BY <1>1, <1>3, <2>1
  <2> QED BY <2>1, <2>2
<1>5. SampleTyped'
  BY <1>1, <1>2, <1>3 DEF SampleTyped, SnapshotPlaces
<1>6. FillInv'
  BY <1>1, <1>4 DEF FillInv
<1>7. Cardinality(filled) \in Nat
  BY <1>2, SampleFinite
<1>8. CASE n >= Cardinality(filled)
  <2>1. pc' = "planned" /\ chosen' = filled
    BY <1>1, <1>8
  <2> QED BY <1>1, <1>5, <1>6, <1>8, <2>1 DEF SampleInv, CountInv, OnTheWay, MinimumInv, RoundInv, PlanInv
<1>9. CASE ~(n >= Cardinality(filled))
  <2>1. pc' = "minimums" /\ chosen' = {} /\ n < Cardinality(filled)
    BY <1>1, <1>3, <1>7, <1>9
  <2>2. Cardinality({}) = 0
    BY FS_EmptySet
  <2>3. CountInv'
    BY <1>1, <1>3, <2>1, <2>2 DEF CountInv, OnTheWay
  <2>4. Met(filled, {}, topic, 0)
    <3>1. \A c : Num({}, topic, c) = 0
      <4>1. \A c : {i \in {} : CategoryOf[topic][i] = c} = {}
        OBVIOUS
      <4> QED BY <2>2, <4>1 DEF Num
    <3>2. \A c : Asks(0, c) = 0
      BY AskingGrows
    <3> QED BY <3>1, <3>2 DEF Met
  <2>5. MinimumInv'
    <3>1. at' - 1 = 0 /\ at' \in 1..9
      BY <1>1
    <3> QED BY <1>1, <2>1, <2>2, <2>4, <3>1 DEF MinimumInv
  <2> QED BY <1>5, <1>6, <2>1, <2>3, <2>5 DEF SampleInv, RoundInv, PlanInv
<1> QED BY <1>8, <1>9

\* takeNext: one question of the category, or none if none is left.
LEMMA TakingOne ==
  ASSUME SampleTyped, NEW d, Sampling!Take(d)
  PROVE  \/ Rest(filled, chosen, topic, d) = {} /\ chosen' = chosen
         \/ \E i \in Rest(filled, chosen, topic, d) :
              /\ chosen' = chosen \cup {i} /\ chosen' \subseteq filled
              /\ Cardinality(chosen') = Cardinality(chosen) + 1
<1> DEFINE set == Rest(filled, chosen, topic, d)
           i == CHOOSE k \in set : TRUE
<1>1. Sampling!Left(d) = set
  BY DEF Sampling!Left, Sampling!Category, Rest
<1>2. chosen' = IF set = {} THEN chosen ELSE chosen \cup {i}
  BY <1>1 DEF Sampling!Take
<1>3. set \subseteq filled \ chosen /\ chosen \subseteq filled
  BY DEF Rest, SampleTyped
<1>4. CASE set # {}
  <2> HIDE DEF set
  <2>1. i \in set
    BY <1>4
  <2> HIDE DEF i
  <2>2. chosen' = chosen \cup {i}
    BY <1>2, <1>4
  <2>3. i \notin chosen /\ IsFiniteSet(chosen) /\ chosen \cup {i} \subseteq filled
    BY <1>3, <2>1, SampleFinite
  <2>4. Cardinality(chosen \cup {i}) = Cardinality(chosen) + 1
    BY <2>3, FS_AddElement
  <2>5. chosen' \subseteq filled /\ Cardinality(chosen') = Cardinality(chosen) + 1
    BY <2>2, <2>3, <2>4
  <2> QED BY <2>1, <2>2, <2>5 DEF set
<1> QED BY <1>2, <1>4

\* What a step of the sampling leaves of the first two parts.
LEMMA SampleMoves ==
  ASSUME SampleTyped, FillInv, pc # "fill", pc' \in SnapshotPlaces \ {"fill"}, at' \in Nat \ {0},
         chosen' \subseteq filled, UNCHANGED <<topic, service, filled, count>>,
         progressed' \in BOOLEAN, named' \in BOOLEAN
  PROVE  SampleTyped' /\ FillInv'
<1>1. SampleTyped'
  BY DEF SampleTyped
<1>2. FillInv'
  BY DEF FillInv, SnapshotPlaces
<1> QED BY <1>1, <1>2

LEMMA TakeMinimumKeeps == ASSUME SampleInv, Sampling!TakeMinimum PROVE SampleInv'
<1>1. /\ pc = "minimums" /\ pc' = "minimums" /\ at <= 8 /\ at' = at + 1
      /\ UNCHANGED <<topic, service, filled, count, progressed, named>>
      /\ IF Cardinality(chosen) < count THEN Sampling!Take(Sampling!Minimums[at]) ELSE chosen' = chosen
  BY SamplingCounts, MinimumsAre DEF Sampling!TakeMinimum, Sampling!Wanting
<1>2. SampleTyped /\ FillInv /\ CountInv /\ MinimumInv
  BY DEF SampleInv
<1>3. /\ Cardinality(chosen) \in Nat /\ count \in Nat /\ Cardinality(filled) \in Nat /\ IsFiniteSet(chosen)
      /\ at \in 1..8 /\ Cardinality(chosen) <= at - 1
  BY <1>1, <1>2, SampleFinite DEF SampleTyped, MinimumInv
<1>4. Cardinality(chosen) <= count /\ count < Cardinality(filled)
  BY <1>1, <1>2 DEF CountInv, OnTheWay
<1> DEFINE d == Sampling!Minimums[at]
           k == at - 1
<1>5. k \in 0..7 /\ k + 1 = at /\ d = Sampling!Minimums[k + 1] /\ at' - 1 = k + 1
  BY <1>1, <1>3
<1>6. /\ chosen' \subseteq filled /\ Cardinality(chosen') <= at /\ Cardinality(chosen') <= count
      /\ count >= 8 => Met(filled, chosen', topic, k + 1)
  <2>1. CASE Cardinality(chosen) < count
    <3>1. Sampling!Take(d)
      BY <1>1, <2>1
    <3>2. count >= 8 => Met(filled, chosen, topic, k)
      BY <1>1, <1>2 DEF MinimumInv
    <3>3. /\ Rest(filled, chosen, topic, d) = {} /\ count >= 8 => Met(filled, chosen, topic, k + 1)
          /\ \A i \in Rest(filled, chosen, topic, d) : count >= 8 => Met(filled, chosen \cup {i}, topic, k + 1)
      BY <1>3, <1>5, <3>2, MetGrows
    <3> HIDE DEF d, k
    <3>4. CASE Rest(filled, chosen, topic, d) = {} /\ chosen' = chosen
      BY <1>2, <1>3, <1>4, <3>3, <3>4 DEF SampleTyped
    <3>5. CASE \E i \in Rest(filled, chosen, topic, d) :
                 /\ chosen' = chosen \cup {i} /\ chosen' \subseteq filled
                 /\ Cardinality(chosen') = Cardinality(chosen) + 1
      <4>1. PICK i \in Rest(filled, chosen, topic, d) :
                 /\ chosen' = chosen \cup {i} /\ chosen' \subseteq filled
                 /\ Cardinality(chosen') = Cardinality(chosen) + 1
        BY <3>5
      <4>2. count >= 8 => Met(filled, chosen', topic, k + 1)
        BY <3>3, <4>1
      <4>3. Cardinality(chosen') <= at /\ Cardinality(chosen') <= count
        BY <1>3, <2>1, <4>1
      <4> QED BY <4>1, <4>2, <4>3
    <3> QED BY <1>2, <3>1, <3>4, <3>5, TakingOne
  <2>2. CASE ~(Cardinality(chosen) < count)
    <3>1. chosen' = chosen /\ ~(count >= 8)
      BY <1>1, <1>3, <2>2
    <3> QED BY <1>2, <1>3, <1>4, <3>1 DEF SampleTyped
  <2> QED BY <2>1, <2>2
<1>7. SampleTyped' /\ FillInv'
  BY <1>1, <1>2, <1>3, <1>6, SampleMoves DEF SampleTyped, SnapshotPlaces
<1>8. CountInv'
  BY <1>1, <1>4, <1>6 DEF CountInv, OnTheWay
<1>9. MinimumInv'
  <2>1. at' \in 1..9 /\ Cardinality(chosen') <= at' - 1
    BY <1>1, <1>3, <1>6
  <2>2. count' >= 8 => Met(filled', chosen', topic', at' - 1)
    BY <1>1, <1>5, <1>6
  <2> QED BY <2>1, <2>2 DEF MinimumInv
<1> QED BY <1>1, <1>7, <1>8, <1>9 DEF SampleInv, RoundInv, PlanInv

LEMMA StartRoundKeeps == ASSUME SampleInv, Sampling!StartRound PROVE SampleInv'
<1>1. /\ \/ pc = "minimums" /\ at > 8
         \/ pc = "round" /\ at > Len(Alphabetical) /\ progressed
      /\ at' = 1 /\ progressed' = FALSE
      /\ pc' = IF Cardinality(chosen) < count THEN "round" ELSE "planned"
      /\ UNCHANGED <<topic, service, filled, count, chosen, named>>
  BY SamplingCounts, MinimumsAre DEF Sampling!StartRound, Sampling!Wanting
<1>2. SampleTyped /\ FillInv /\ CountInv /\ MinimumInv /\ RoundInv
  BY DEF SampleInv
<1>3. /\ Cardinality(chosen) \in Nat /\ count \in Nat /\ Cardinality(filled) \in Nat /\ IsFiniteSet(chosen)
      /\ chosen \subseteq filled
  BY <1>2, SampleFinite DEF SampleTyped
<1>4. Cardinality(chosen) <= count /\ count < Cardinality(filled)
  BY <1>1, <1>2 DEF CountInv, OnTheWay
<1>5. count >= 8 =>
        /\ Cardinality(chosen) < count => \E r \in Nat : Even(filled, chosen, topic, r, 1, TRUE)
        /\ \E r \in Nat : Even(filled, chosen, topic, r, Len(Alphabetical) + 1, FALSE)
  <2> SUFFICES ASSUME count >= 8
               PROVE  /\ Cardinality(chosen) < count => \E r \in Nat : Even(filled, chosen, topic, r, 1, TRUE)
                      /\ \E r \in Nat : Even(filled, chosen, topic, r, Len(Alphabetical) + 1, FALSE)
    OBVIOUS
  <2>1. CASE pc = "minimums"
    <3>1. at - 1 = 8 /\ Met(filled, chosen, topic, at - 1)
      BY <1>1, <1>2, <2>1 DEF MinimumInv
    <3>2. Met(filled, chosen, topic, 8)
      BY <3>1
    <3>3. Even(filled, chosen, topic, 0, 1, TRUE) /\ Even(filled, chosen, topic, 0, Len(Alphabetical) + 1, FALSE)
      BY <1>3, <3>2, MetIsEven
    <3> QED BY <3>3
  <2>2. CASE pc = "round"
    <3>1. PICK r \in Nat : IF Full THEN Even(filled, chosen, topic, r, at, FALSE)
                                   ELSE Even(filled, chosen, topic, r, at, TRUE)
      BY <1>2, <2>2 DEF RoundInv
    <3>2. at \in Nat /\ at > Len(Alphabetical) /\ r + 1 \in Nat
      BY <1>1, <1>2, <2>2 DEF SampleTyped
    <3>3. CASE Full
      <4>1. Even(filled, chosen, topic, r, Len(Alphabetical) + 1, FALSE)
        BY <1>3, <3>1, <3>2, <3>3, RoundEnds
      <4>2. ~(Cardinality(chosen) < count)
        BY <1>3, <3>3 DEF Full
      <4> QED BY <4>1, <4>2
    <3>4. CASE ~Full
      <4>1. Even(filled, chosen, topic, r + 1, 1, TRUE) /\ Even(filled, chosen, topic, r, Len(Alphabetical) + 1, FALSE)
        BY <1>3, <3>1, <3>2, <3>4, RoundEnds
      <4> QED BY <3>2, <4>1
    <3> QED BY <3>3, <3>4
  <2> QED BY <1>1, <2>1, <2>2
<1>6. SampleTyped' /\ FillInv'
  <2>1. pc # "fill" /\ pc' \in SnapshotPlaces \ {"fill"} /\ at' \in Nat \ {0}
    BY <1>1 DEF SnapshotPlaces
  <2>2. progressed' \in BOOLEAN /\ named' \in BOOLEAN
    BY <1>1, <1>2 DEF SampleTyped
  <2> QED BY <1>1, <1>2, <1>3, <2>1, <2>2, SampleMoves
<1>7. CASE Cardinality(chosen) < count
  <2>1. pc' = "round" /\ ~Full'
    BY <1>1, <1>3, <1>7 DEF Full
  <2>2. CountInv'
    BY <1>1, <1>4, <2>1 DEF CountInv, OnTheWay
  <2>3. RoundInv'
    <3>1. at' \in 1..(Len(Alphabetical) + 1) /\ \A n \in DOMAIN Alphabetical : ~(n < at')
      BY <1>1, SnapshotConstants DEF Sampling!SamplingConstants
    <3>2. count' >= 8 => \E r \in Nat : Even(filled', chosen', topic', r, at', TRUE)
      BY <1>1, <1>5, <1>7
    <3> QED BY <2>1, <3>1, <3>2 DEF RoundInv
  <2> QED BY <1>6, <2>1, <2>2, <2>3 DEF SampleInv, MinimumInv, PlanInv
<1>8. CASE ~(Cardinality(chosen) < count)
  <2>1. pc' = "planned" /\ Full'
    BY <1>1, <1>3, <1>4, <1>8 DEF Full
  <2>2. CountInv'
    BY <1>1, <1>4, <2>1 DEF CountInv, OnTheWay
  <2>3. PlanInv'
    BY <1>1, <1>5, <2>1 DEF PlanInv
  <2> QED BY <1>6, <2>1, <2>2, <2>3 DEF SampleInv, MinimumInv, RoundInv
<1> QED BY <1>7, <1>8

LEMMA TakeTurnKeeps == ASSUME SampleInv, Sampling!TakeTurn PROVE SampleInv'
<1> DEFINE c == Alphabetical[at]
           set == Rest(filled, chosen, topic, c)
<1>1. /\ pc = "round" /\ pc' = "round" /\ at <= Len(Alphabetical) /\ at' = at + 1
      /\ UNCHANGED <<topic, service, filled, count, named>>
      /\ IF Cardinality(chosen) < count /\ set # {} THEN Sampling!Take(c) /\ progressed' = TRUE
         ELSE chosen' = chosen /\ progressed' = progressed
  BY SamplingCounts DEF Sampling!TakeTurn, Sampling!Wants, Sampling!Wanting, Sampling!Left, Sampling!Category, Rest
<1>2. SampleTyped /\ FillInv /\ CountInv /\ RoundInv
  BY DEF SampleInv
<1>3. /\ Cardinality(chosen) \in Nat /\ count \in Nat /\ Cardinality(filled) \in Nat /\ IsFiniteSet(chosen)
      /\ at \in Nat \ {0} /\ chosen \subseteq filled /\ progressed \in BOOLEAN /\ named \in BOOLEAN
  BY <1>2, SampleFinite DEF SampleTyped
<1>4. Cardinality(chosen) <= count /\ count < Cardinality(filled)
  BY <1>1, <1>2 DEF CountInv, OnTheWay
<1>5. /\ Len(Alphabetical) \in Nat /\ DOMAIN Alphabetical = 1..Len(Alphabetical) /\ at \in DOMAIN Alphabetical
      /\ at' \in 1..(Len(Alphabetical) + 1)
  BY <1>1, <1>3, SnapshotConstants DEF Sampling!SamplingConstants
<1>6. CASE Cardinality(chosen) < count /\ set # {}
  <2>1. PICK i \in set : /\ chosen' = chosen \cup {i} /\ chosen' \subseteq filled
                         /\ Cardinality(chosen') = Cardinality(chosen) + 1
    <3> HIDE DEF c
    <3>1. Sampling!Take(c)
      BY <1>1, <1>6
    <3> QED BY <1>2, <1>6, <3>1, TakingOne
  <2>2. progressed' = TRUE /\ Cardinality(chosen') <= count
    BY <1>1, <1>3, <1>6, <2>1
  <2>3. ~Full
    BY <1>3, <1>6 DEF Full
  <2>4. count >= 8 => \E r \in Nat : /\ Even(filled, chosen', topic, r, at + 1, FALSE)
                                     /\ Even(filled, chosen', topic, r, at + 1, TRUE)
    <3> SUFFICES ASSUME count >= 8
                 PROVE  \E r \in Nat : /\ Even(filled, chosen', topic, r, at + 1, FALSE)
                                       /\ Even(filled, chosen', topic, r, at + 1, TRUE)
      OBVIOUS
    <3>1. PICK r \in Nat : Even(filled, chosen, topic, r, at, TRUE)
      BY <1>1, <1>2, <2>3 DEF RoundInv
    <3>2. /\ Even(filled, chosen \cup {i}, topic, r, at + 1, FALSE)
          /\ Even(filled, chosen \cup {i}, topic, r, at + 1, TRUE)
      BY <1>3, <1>5, <2>1, <3>1, TurnTakes
    <3> QED BY <2>1, <3>2
  <2>5. SampleTyped' /\ FillInv'
    <3>1. progressed' \in BOOLEAN /\ named' \in BOOLEAN
      BY <1>1, <1>3, <2>2
    <3> QED BY <1>1, <1>2, <1>3, <2>1, <3>1, SampleMoves DEF SnapshotPlaces
  <2>6. CountInv'
    BY <1>1, <1>4, <2>2 DEF CountInv, OnTheWay
  <2>7. RoundInv'
    <3>1. count' >= 8 => \E r \in Nat : /\ Even(filled', chosen', topic', r, at', FALSE)
                                        /\ Even(filled', chosen', topic', r, at', TRUE)
      BY <1>1, <2>4
    <3> QED BY <1>5, <2>2, <3>1 DEF RoundInv
  <2> QED BY <1>1, <2>5, <2>6, <2>7 DEF SampleInv, MinimumInv, PlanInv
<1>7. CASE ~(Cardinality(chosen) < count /\ set # {})
  <2>1. chosen' = chosen /\ progressed' = progressed
    BY <1>1, <1>7
  <2>2. Full' <=> Full
    BY <1>1, <2>1 DEF Full
  <2>3. ~Full => set = {}
    BY <1>3, <1>4, <1>7 DEF Full
  <2>4. count >= 8 => \E r \in Nat : IF Full THEN Even(filled, chosen, topic, r, at + 1, FALSE)
                                             ELSE Even(filled, chosen, topic, r, at + 1, TRUE)
    <3> SUFFICES ASSUME count >= 8
                 PROVE  \E r \in Nat : IF Full THEN Even(filled, chosen, topic, r, at + 1, FALSE)
                                               ELSE Even(filled, chosen, topic, r, at + 1, TRUE)
      OBVIOUS
    <3>1. PICK r \in Nat : IF Full THEN Even(filled, chosen, topic, r, at, FALSE)
                                   ELSE Even(filled, chosen, topic, r, at, TRUE)
      BY <1>1, <1>2 DEF RoundInv
    <3>2. CASE Full
      <4>1. Even(filled, chosen, topic, r, at + 1, FALSE)
        BY <1>3, <1>5, <3>1, <3>2, TurnPasses
      <4> QED BY <3>2, <4>1
    <3>3. CASE ~Full
      <4>1. Even(filled, chosen, topic, r, at + 1, TRUE)
        BY <1>3, <1>5, <2>3, <3>1, <3>3, TurnPasses
      <4> QED BY <3>3, <4>1
    <3> QED BY <3>2, <3>3
  <2>5. progressed \/ (~Full /\ \A n \in DOMAIN Alphabetical : n < at + 1 => Rest(filled, chosen, topic, Alphabetical[n]) = {})
    <3>1. progressed \/ (~Full /\ \A n \in DOMAIN Alphabetical : n < at => Rest(filled, chosen, topic, Alphabetical[n]) = {})
      BY <1>1, <1>2 DEF RoundInv
    <3>2. \A n \in DOMAIN Alphabetical : n < at + 1 => n < at \/ n = at
      BY <1>3, <1>5
    <3> QED BY <2>3, <3>1, <3>2
  <2>6. SampleTyped' /\ FillInv'
    BY <1>1, <1>2, <1>3, <2>1, SampleMoves DEF SnapshotPlaces
  <2>7. CountInv'
    BY <1>1, <1>4, <2>1 DEF CountInv, OnTheWay
  <2>8. RoundInv'
    <3> HIDE DEF set, c
    <3>1. count' >= 8 => \E r \in Nat : IF Full' THEN Even(filled', chosen', topic', r, at', FALSE)
                                                 ELSE Even(filled', chosen', topic', r, at', TRUE)
      BY <1>1, <2>1, <2>2, <2>4
    <3>2. progressed' \/ (~Full' /\ \A n \in DOMAIN Alphabetical : n < at' => Rest(filled', chosen', topic', Alphabetical[n]) = {})
      BY <1>1, <2>1, <2>2, <2>5
    <3> QED BY <1>5, <3>1, <3>2 DEF RoundInv
  <2> QED BY <1>1, <2>6, <2>7, <2>8 DEF SampleInv, MinimumInv, PlanInv
<1> QED BY <1>6, <1>7

LEMMA RoundFailsKeeps == ASSUME SampleInv, Sampling!RoundFails PROVE SampleInv'
<1>1. /\ pc = "round" /\ at > Len(Alphabetical) /\ ~progressed
  BY DEF Sampling!RoundFails
<1>2. SampleTyped /\ CountInv /\ RoundInv
  BY DEF SampleInv
<1>3. /\ Cardinality(chosen) \in Nat /\ count \in Nat /\ Cardinality(filled) \in Nat
      /\ at \in Nat /\ chosen \subseteq filled /\ topic \in Panels /\ filled \subseteq 1..Len(CategoryOf[topic])
  BY <1>2, SampleFinite DEF SampleTyped
<1>4. Cardinality(chosen) <= count /\ count < Cardinality(filled)
  BY <1>1, <1>2 DEF CountInv, OnTheWay
<1>5. \A n \in DOMAIN Alphabetical : n < at
  BY <1>1, <1>3, SnapshotConstants DEF Sampling!SamplingConstants
<1>6. \A n \in DOMAIN Alphabetical : Rest(filled, chosen, topic, Alphabetical[n]) = {}
  BY <1>1, <1>2, <1>5 DEF RoundInv
<1>7. ASSUME NEW i \in filled PROVE i \in chosen
  <2>1. PICK n \in DOMAIN Alphabetical : Alphabetical[n] = CategoryOf[topic][i]
    BY <1>3, SnapshotConstants DEF Sampling!SamplingConstants
  <2>2. i \notin Rest(filled, chosen, topic, Alphabetical[n])
    BY <1>6
  <2> QED BY <2>1, <2>2 DEF Rest
<1>8. chosen = filled
  BY <1>3, <1>7
<1> QED BY <1>3, <1>4, <1>8

LEMMA EraseKeeps == ASSUME SampleInv, Sampling!Erase PROVE SampleInv'
<1>1. pc = "planned" /\ named' = FALSE /\ UNCHANGED <<pc, topic, service, at, filled, count, chosen, progressed>>
  BY DEF Sampling!Erase
<1>2. SampleTyped /\ FillInv /\ CountInv /\ PlanInv
  BY DEF SampleInv
<1>3. SampleTyped'
  <2>1. named' \in BOOLEAN
    BY <1>1
  <2> QED BY <1>1, <1>2, <2>1 DEF SampleTyped
<1>4. FillInv' /\ CountInv' /\ PlanInv'
  BY <1>1, <1>2 DEF FillInv, CountInv, OnTheWay, Full, PlanInv
<1> QED BY <1>1, <1>3, <1>4 DEF SampleInv, MinimumInv, RoundInv

LEMMA SendJobKeeps == ASSUME SampleInv, Sampling!SendJob PROVE SampleInv'
<1>1. /\ pc = "planned" /\ UNCHANGED <<topic, service, at, filled, count, chosen, progressed, named>>
      /\ pc' = IF chosen = {} THEN "permanent"
               ELSE IF named /\ Cardinality(chosen) <= MaxQuestions THEN "accepted" ELSE "rejected"
  BY SamplingCounts DEF Sampling!SendJob, Sampling!Accepts
<1>2. SampleTyped /\ FillInv /\ CountInv /\ PlanInv
  BY DEF SampleInv
<1>3. Cardinality(chosen) <= MaxQuestions
  BY <1>2, SampleFinite
<1>4. pc' \in {"permanent", "accepted", "rejected"} /\ (pc' = "rejected" => ~named)
  BY <1>1, <1>3
<1>5. SampleTyped' /\ FillInv'
  BY <1>1, <1>2, <1>4, SampleMoves DEF SampleTyped, SnapshotPlaces
<1>6. CountInv' /\ PlanInv'
  BY <1>1, <1>2, <1>4 DEF CountInv, OnTheWay, Full, PlanInv
<1> QED BY <1>4, <1>5, <1>6 DEF SampleInv, MinimumInv, RoundInv

LEMMA SampleInvInductive == AuditsSpec => []SampleInv
<1>1. AuditsInit => SampleInv
  BY SampleStarts DEF AuditsInit
<1>2. SampleInv /\ [AuditsNext]_AuditsVars => SampleInv'
  <2> SUFFICES ASSUME SampleInv, [AuditsNext]_AuditsVars PROVE SampleInv'
    OBVIOUS
  <2>1. CASE UNCHANGED samplingVars
    <3>1. UNCHANGED <<pc, topic, service, at, filled, count, chosen, progressed, named>>
      BY <2>1 DEF samplingVars
    <3> QED BY <3>1 DEF SampleInv, SampleTyped, FillInv, CountInv, OnTheWay, Full, MinimumInv, RoundInv, PlanInv
  <2>2. CASE Sampling!Next
    BY <2>2, FillKeeps, SampleKeeps, TakeMinimumKeeps, StartRoundKeeps, TakeTurnKeeps, RoundFailsKeeps,
       EraseKeeps, SendJobKeeps DEF Sampling!Next
  <2> QED BY <2>1, <2>2 DEF AuditsNext, AuditsVars
<1> QED BY <1>1, <1>2, PTL DEF AuditsSpec

AllTexts(s, k) == {Reads(s, i) : i \in 1..k}

\* One of the questions that are kept for each text.
LEMMA TextsCounted ==
  ASSUME NEW L \in Nat, NEW F, F \subseteq 1..L, NEW s, FilledTo(F, s, L)
  PROVE  {Reads(s, i) : i \in F} = AllTexts(s, L) /\ Cardinality(AllTexts(s, L)) = Cardinality(F)
<1> DEFINE all == AllTexts(s, L)
           f == [i \in F |-> Reads(s, i)]
<1>1. {Reads(s, i) : i \in F} = all
  BY DEF FilledTo, AllTexts
<1>2. f \in Bijection(F, all)
  <2>1. f \in [F -> all]
    BY <1>1
  <2>2. \A i, j \in F : f[i] = f[j] => i = j
    BY DEF FilledTo
  <2>3. \A x \in all : \E i \in F : f[i] = x
    BY <1>1
  <2> HIDE DEF f, all
  <2> QED BY <2>1, <2>2, <2>3 DEF Bijection, Injection, Surjection, IsInjective
<1>3. IsFiniteSet(F)
  <2>1. IsFiniteSet(1..L)
    BY FS_Interval
  <2> QED BY <2>1, FS_Subset
<1>4. ExistsBijection(F, all)
  BY <1>2 DEF ExistsBijection
<1>5. Cardinality(all) = Cardinality(F)
  <2> HIDE DEF all
  <2> QED BY <1>3, <1>4, FS_Bijection
<1> QED BY <1>1, <1>5

-----------------------------------------------------------------------------
(* A generated panel. *)

\* Up to the turn that comes next no request of the attempt is uncounted.
ReadingInv ==
  /\ making = "fetch" => refused = 0 /\ sent <= (IF scheme = "http" THEN MaxHops + 1 ELSE 0) + hop
  /\ Making!ReadingEnds

\* What is kept, of what Claude wrote or of a stored panel.
FitQuestion(question) ==
  /\ question.body \notin Unfit
  /\ Making!IsLocal(question) => question.place # "none"
  /\ namesake => \/ question.place \in {"none", "region"}
                 \/ question.place = "full" /\ Making!IsLocal(question)

FitQuestions(seq) ==
  /\ \A i, j \in DOMAIN seq : Making!SameText(seq[i], seq[j]) => i = j
  /\ \A i \in DOMAIN seq : FitQuestion(seq[i])

\* A panel is cleaned before one is stored, and planned once it is.
GeneratedInv ==
  /\ Making!TypeOK /\ ReadingInv
  /\ FitQuestions(filtered) /\ Making!PanelIsFit /\ Making!PlanIsFit
  /\ making \in {"fetch", "write", "clean"} => generated = <<>>

LEMMA GeneratedStarts == ASSUME Making!GeneratedInit PROVE GeneratedInv
<1> USE GeneratedConstants DEF Making!GeneratedInit
<1>1. Making!TypeOK
  BY DEF Making!TypeOK, Making!GenerationConstants
<1>2. ReadingInv
  BY DEF ReadingInv, Making!ReadingEnds, Making!GenerationConstants
<1>3. FitQuestions(filtered) /\ Making!PanelIsFit /\ Making!PlanIsFit
  BY DEF FitQuestions, Making!PanelIsFit, Making!PlanIsFit
<1> QED BY <1>1, <1>2, <1>3 DEF GeneratedInv

\* A step of the reading moves nothing else.
LEMMA ReadingKeeps ==
  ASSUME GeneratedInv, making = "fetch",
         Making!Redirect \/ Making!FetchFails \/ Making!FetchRefused \/ Making!PageRead
  PROVE  GeneratedInv'
<1>1. /\ Making!TypeOK /\ FitQuestions(filtered) /\ Making!PanelIsFit /\ Making!PlanIsFit
      /\ generated = <<>> /\ refused = 0
      /\ sent <= (IF scheme = "http" THEN MaxHops + 1 ELSE 0) + hop
  BY DEF GeneratedInv, ReadingInv
<1>2. /\ UNCHANGED <<namesake, writing, turn, filtered, generated, plan, generations>>
      /\ sent' = sent + 1 /\ refused' \in {0, sent'}
      /\ making' \in {"fetch", "write"} /\ scheme' \in {"https", "http"}
  BY <1>1 DEF Making!Redirect, Making!FetchFails, Making!FetchRefused, Making!PageRead, Making!TypeOK
<1>3. MaxHops \in Nat
  BY GeneratedConstants DEF Making!GenerationConstants
<1>4. hop \in 0..MaxHops /\ sent \in Nat /\ scheme \in {"https", "http"}
  BY <1>1 DEF Making!TypeOK
<1>5. hop' \in 0..MaxHops
  BY <1>3, <1>4 DEF Making!Redirect, Making!FetchFails, Making!FetchRefused, Making!PageRead
<1>6. /\ making' = "fetch" => refused' = 0 /\ sent' <= (IF scheme' = "http" THEN MaxHops + 1 ELSE 0) + hop'
      /\ Making!ReadingEnds'
  <2>1. CASE Making!Redirect
    BY <1>1, <1>2, <1>3, <1>4, <2>1 DEF Making!Redirect, Making!ReadingEnds
  <2>2. CASE Making!FetchFails
    BY <1>1, <1>2, <1>3, <1>4, <2>2 DEF Making!FetchFails, Making!ReadingEnds
  <2>3. CASE Making!FetchRefused
    BY <1>1, <1>2, <1>3, <1>4, <2>3 DEF Making!FetchRefused, Making!ReadingEnds
  <2>4. CASE Making!PageRead
    BY <1>1, <1>2, <1>3, <1>4, <2>4 DEF Making!PageRead, Making!ReadingEnds
  <2> QED BY <2>1, <2>2, <2>3, <2>4
<1>7. Making!TypeOK'
  <2>1. sent' \in Nat /\ refused' \in Nat
    BY <1>2, <1>4
  <2> QED BY <1>1, <1>2, <1>5, <2>1 DEF Making!TypeOK
<1>8. FitQuestions(filtered)' /\ Making!PanelIsFit' /\ Making!PlanIsFit'
  BY <1>1, <1>2 DEF FitQuestions, FitQuestion, Making!PanelIsFit, Making!PlanIsFit, Making!IsLocal, Making!SameText
<1> QED BY <1>1, <1>2, <1>6, <1>7, <1>8 DEF GeneratedInv, ReadingInv

\* So does one that leaves the questions and the requests alone.
LEMMA QuestionsStay ==
  ASSUME GeneratedInv, making # "fetch", making' \in {"write", "clean", "plan", "failed", "asked"},
         UNCHANGED <<namesake, scheme, hop, sent, refused, filtered, generated, plan>>,
         writing' \in Seq(Making!PanelQuestion), turn' \in Nat \ {0}, generations' \in 1..MaxGenerations,
         making' \in {"write", "clean"} => generated = <<>>
  PROVE  GeneratedInv'
<1>1. Making!TypeOK /\ ReadingInv /\ FitQuestions(filtered) /\ Making!PanelIsFit /\ Making!PlanIsFit
  BY DEF GeneratedInv
<1>2. Making!TypeOK'
  BY <1>1 DEF Making!TypeOK
<1>3. ReadingInv'
  BY <1>1 DEF ReadingInv, Making!ReadingEnds
<1>4. FitQuestions(filtered)' /\ Making!PanelIsFit' /\ Making!PlanIsFit'
  BY <1>1 DEF FitQuestions, FitQuestion, Making!PanelIsFit, Making!PlanIsFit, Making!IsLocal, Making!SameText
<1> QED BY <1>2, <1>3, <1>4 DEF GeneratedInv

LEMMA GenerationFailsKeeps == ASSUME GeneratedInv, Making!GenerationFails PROVE GeneratedInv'
<1>1. Making!TypeOK
  BY DEF GeneratedInv
<1>2. writing \in Seq(Making!PanelQuestion) /\ turn \in Nat \ {0} /\ generations \in 1..MaxGenerations
  BY <1>1 DEF Making!TypeOK
<1> QED BY <1>2, QuestionsStay DEF Making!GenerationFails

LEMMA ClaudeKeeps ==
  ASSUME GeneratedInv, NEW written \in Writings, Making!Claude(written) PROVE GeneratedInv'
<1>1. /\ Making!TypeOK /\ ReadingInv /\ Making!PanelIsFit /\ Making!PlanIsFit /\ generated = <<>>
  BY DEF GeneratedInv, Making!Claude
<1>2. written \in Seq(Making!PanelQuestion)
  BY GeneratedConstants DEF Making!GenerationConstants
<1>3. Making!TypeOK'
  BY <1>1, <1>2 DEF Making!TypeOK, Making!Claude
<1>4. ReadingInv'
  BY <1>1 DEF ReadingInv, Making!ReadingEnds, Making!Claude
<1>5. FitQuestions(filtered)' /\ Making!PanelIsFit' /\ Making!PlanIsFit'
  BY <1>1 DEF FitQuestions, Making!PanelIsFit, Making!PlanIsFit, Making!Claude
<1>6. generated' = <<>>
  BY <1>1 DEF Making!Claude
<1> QED BY <1>3, <1>4, <1>5, <1>6 DEF GeneratedInv

\* What is not dropped is fit to ask once it says where.
LEMMA LocatedIsFit ==
  ASSUME NEW question \in Making!PanelQuestion, namesake \in BOOLEAN, ~Making!Dropped(question)
  PROVE  Making!Located(question) \in Making!PanelQuestion /\ FitQuestion(Making!Located(question))
<1>1. question.place \in {"none", "region", "city", "full"}
  BY DEF Making!PanelQuestion
<1>2. CASE Making!IsLocal(question) /\ question.place = "none"
  <2>1. Making!Located(question) = [question EXCEPT !.place = "full"]
    BY <1>2 DEF Making!Located
  <2>2. /\ Making!Located(question) \in Making!PanelQuestion
        /\ Making!Located(question).c = question.c /\ Making!Located(question).body = question.body
        /\ Making!Located(question).place = "full"
    BY <2>1 DEF Making!PanelQuestion
  <2>3. Making!IsLocal(Making!Located(question))
    BY <1>2, <2>2 DEF Making!IsLocal
  <2> QED BY <2>2, <2>3 DEF FitQuestion, Making!Dropped
<1>3. CASE ~(Making!IsLocal(question) /\ question.place = "none")
  <2>1. Making!Located(question) = question
    BY <1>3 DEF Making!Located
  <2> QED BY <1>1, <1>3, <2>1 DEF FitQuestion, Making!Dropped
<1> QED BY <1>2, <1>3

LEMMA CleanQuestionKeeps == ASSUME GeneratedInv, Making!CleanQuestion PROVE GeneratedInv'
<1>1. /\ Making!TypeOK /\ ReadingInv /\ FitQuestions(filtered) /\ Making!PanelIsFit /\ Making!PlanIsFit
      /\ generated = <<>> /\ making = "clean" /\ turn <= Len(writing)
  BY DEF GeneratedInv, Making!CleanQuestion
<1>2. PICK question : question = writing[turn]
  OBVIOUS
<1>3. PICK located : located = Making!Located(question)
  OBVIOUS
<1>4. /\ UNCHANGED <<making, namesake, scheme, hop, sent, refused, writing, generated, plan, generations>>
      /\ turn' = turn + 1
      /\ filtered' = IF Making!Dropped(question) \/ Making!Seen(located) THEN filtered ELSE Append(filtered, located)
  BY <1>2, <1>3 DEF Making!CleanQuestion
<1>5. /\ writing \in Seq(Making!PanelQuestion) /\ turn \in Nat \ {0} /\ namesake \in BOOLEAN
      /\ filtered \in Seq(Making!PanelQuestion)
  BY <1>1 DEF Making!TypeOK
<1>6. question \in Making!PanelQuestion
  BY <1>1, <1>2, <1>5
<1>7. filtered' \in Seq(Making!PanelQuestion) /\ FitQuestions(filtered)'
  <2>1. CASE Making!Dropped(question) \/ Making!Seen(located)
    <3>1. filtered' = filtered
      BY <1>4, <2>1
    <3> QED BY <1>1, <1>4, <1>5, <3>1 DEF FitQuestions, FitQuestion, Making!IsLocal, Making!SameText
  <2>2. CASE ~Making!Dropped(question) /\ ~Making!Seen(located)
    <3>1. filtered' = Append(filtered, located) /\ located \in Making!PanelQuestion /\ FitQuestion(located)
      BY <1>3, <1>4, <1>5, <1>6, <2>2, LocatedIsFit
    <3>2. filtered' \in Seq(Making!PanelQuestion)
      BY <1>5, <3>1
    <3>3. \A i \in DOMAIN filtered : ~Making!SameText(filtered[i], located) /\ ~Making!SameText(located, filtered[i])
      BY <2>2 DEF Making!Seen, Making!SameText
    <3>4. /\ DOMAIN filtered = 1..Len(filtered) /\ DOMAIN filtered' = 1..(Len(filtered) + 1) /\ Len(filtered) \in Nat
          /\ \A i \in 1..(Len(filtered) + 1) : filtered'[i] = IF i <= Len(filtered) THEN filtered[i] ELSE located
      BY <1>5, <3>1
    <3>5. ASSUME NEW i \in DOMAIN filtered', NEW j \in DOMAIN filtered', Making!SameText(filtered'[i], filtered'[j])
          PROVE  i = j
      <4>1. CASE i \in DOMAIN filtered /\ j \in DOMAIN filtered
        BY <1>1, <3>4, <3>5, <4>1 DEF FitQuestions
      <4>2. CASE i \in DOMAIN filtered /\ j \notin DOMAIN filtered
        BY <3>3, <3>4, <3>5, <4>2
      <4>3. CASE i \notin DOMAIN filtered /\ j \in DOMAIN filtered
        BY <3>3, <3>4, <3>5, <4>3
      <4>4. CASE i \notin DOMAIN filtered /\ j \notin DOMAIN filtered
        BY <3>4, <4>4
      <4> QED BY <4>1, <4>2, <4>3, <4>4
    <3>6. \A i \in DOMAIN filtered' : FitQuestion(filtered'[i])
      BY <1>1, <3>1, <3>4 DEF FitQuestions
    <3>7. FitQuestions(filtered)'
      BY <1>4, <3>5, <3>6 DEF FitQuestions, FitQuestion, Making!IsLocal, Making!SameText
    <3> QED BY <3>2, <3>7
  <2> QED BY <2>1, <2>2
<1>8. Making!TypeOK'
  <2>1. turn' \in Nat \ {0}
    BY <1>4, <1>5
  <2> QED BY <1>1, <1>4, <1>7, <2>1 DEF Making!TypeOK
<1>9. ReadingInv' /\ Making!PanelIsFit' /\ Making!PlanIsFit'
  BY <1>1, <1>4 DEF ReadingInv, Making!ReadingEnds, Making!PanelIsFit, Making!PlanIsFit
<1>10. generated' = <<>>
  BY <1>1, <1>4
<1> QED BY <1>7, <1>8, <1>9, <1>10 DEF GeneratedInv

\* What is stored are the first of the questions kept.
LEMMA StorePanelKeeps == ASSUME GeneratedInv, Making!StorePanel PROVE GeneratedInv'
<1>1. /\ Making!TypeOK /\ ReadingInv /\ FitQuestions(filtered) /\ Making!PanelIsFit /\ Making!PlanIsFit
      /\ generated = <<>> /\ making = "clean"
  BY DEF GeneratedInv, Making!StorePanel
<1>2. UNCHANGED <<namesake, scheme, hop, sent, refused, writing, turn, filtered, plan, generations>>
  BY DEF Making!StorePanel
<1>3. /\ filtered \in Seq(Making!PanelQuestion) /\ plan = {}
      /\ writing \in Seq(Making!PanelQuestion) /\ turn \in Nat \ {0} /\ generations \in 1..MaxGenerations
  BY <1>1 DEF Making!TypeOK
<1>4. CASE Len(filtered) < MinGenerated
  <2>1. making' = "failed" /\ generated' = generated
    BY <1>4 DEF Making!StorePanel
  <2> QED BY <1>1, <1>2, <1>3, <2>1, QuestionsStay
<1>5. CASE ~(Len(filtered) < MinGenerated)
  <2> DEFINE n == IF Len(filtered) <= MaxGenerated THEN Len(filtered) ELSE MaxGenerated
  <2>1. making' = "plan" /\ generated' = SubSeq(filtered, 1, n)
    BY <1>5 DEF Making!StorePanel
  <2>2. n \in Nat /\ n <= Len(filtered) /\ n \in MinGenerated..MaxGenerated
    BY <1>3, <1>5, GeneratedConstants DEF Making!GenerationConstants
  <2> HIDE DEF n
  <2>3. /\ generated' \in Seq(Making!PanelQuestion) /\ Len(generated') = n /\ DOMAIN generated' = 1..n
        /\ \A i \in 1..n : generated'[i] = filtered[i] /\ i \in DOMAIN filtered
    BY <1>3, <2>1, <2>2
  <2>4. Making!TypeOK'
    BY <1>1, <1>2, <1>3, <2>1, <2>3 DEF Making!TypeOK
  <2>5. ReadingInv'
    BY <1>1, <1>2, <2>1 DEF ReadingInv, Making!ReadingEnds
  <2>6. FitQuestions(filtered)'
    BY <1>1, <1>2 DEF FitQuestions, FitQuestion, Making!IsLocal, Making!SameText
  <2>7. Making!PanelIsFit'
    <3>1. \A i, j \in 1..n : Making!SameText(generated'[i], generated'[j]) => i = j
      BY <1>1, <2>3 DEF FitQuestions
    <3>2. \A i \in 1..n : FitQuestion(generated'[i])
      BY <1>1, <2>3 DEF FitQuestions
    <3> QED BY <1>2, <2>2, <2>3, <3>1, <3>2 DEF Making!PanelIsFit, FitQuestion, Making!IsLocal, Making!SameText
  <2>8. Making!PlanIsFit'
    BY <1>2, <1>3, <2>1 DEF Making!PlanIsFit
  <2> QED BY <2>1, <2>4, <2>5, <2>6, <2>7, <2>8 DEF GeneratedInv
<1> QED BY <1>4, <1>5

\* A plan is empty only when no question is without a slot.
LEMMA PlanSnapshotKeeps == ASSUME GeneratedInv, Making!PlanSnapshot PROVE GeneratedInv'
<1>1. /\ Making!TypeOK /\ ReadingInv /\ FitQuestions(filtered) /\ Making!PanelIsFit /\ Making!PlanIsFit
      /\ making = "plan"
  BY DEF GeneratedInv, Making!PlanSnapshot
<1>2. /\ UNCHANGED <<namesake, scheme, hop, sent, refused, writing, turn, filtered, generated, generations>>
      /\ making' = IF plan' = {} THEN "permanent" ELSE "asked"
  BY DEF Making!PlanSnapshot
<1>3. PICK wanted \in Snapshots :
        /\ plan' \subseteq Making!Fillable
        /\ IF wanted >= Making!Cardinality(Making!Fillable) THEN plan' = Making!Fillable
                                                           ELSE Making!Cardinality(plan') = wanted
  BY DEF Making!PlanSnapshot
<1>4. Making!Fillable \subseteq DOMAIN generated /\ \A i \in Making!Fillable : generated[i].body \notin Slotted
  BY DEF Making!Fillable
<1>5. \A i, j \in DOMAIN generated : Making!SameText(generated[i], generated[j]) => i = j
  <2>1. CASE generated = <<>>
    BY <2>1
  <2>2. CASE generated # <<>>
    BY <1>1, <2>2 DEF Making!PanelIsFit
  <2> QED BY <2>1, <2>2
<1>6. ASSUME plan' = {}, NEW i \in DOMAIN generated PROVE generated[i].body \in Slotted
  <2>1. Making!Cardinality(plan') = 0
    <3>1. Making!Cardinality({}) = Cardinality({})
      BY DEF Making!Cardinality, Cardinality
    <3> QED BY <1>6, <3>1, FS_EmptySet
  <2>2. wanted \in Nat \ {0}
    BY GeneratedConstants DEF Making!GenerationConstants
  <2>3. Making!Fillable = {}
    BY <1>3, <1>6, <2>1, <2>2
  <2>4. \A j \in 1..(i - 1) : j \in DOMAIN generated /\ j # i
    BY <1>1 DEF Making!TypeOK
  <2> QED BY <1>5, <2>3, <2>4 DEF Making!Fillable
<1>7. plan' \subseteq DOMAIN generated' /\ making' \in {"asked", "permanent"}
  BY <1>2, <1>3, <1>4
<1>8. Making!TypeOK'
  BY <1>1, <1>2, <1>7 DEF Making!TypeOK
<1>9. ReadingInv'
  BY <1>1, <1>2, <1>7 DEF ReadingInv, Making!ReadingEnds
<1>10. FitQuestions(filtered)' /\ Making!PanelIsFit'
  BY <1>1, <1>2 DEF FitQuestions, FitQuestion, Making!PanelIsFit, Making!IsLocal, Making!SameText
<1>11. Making!PlanIsFit'
  <2>1. \A i, j \in plan' : Making!SameText(generated'[i], generated'[j]) => i = j
    BY <1>2, <1>5, <1>7 DEF Making!SameText
  <2>2. \A i \in plan' : generated'[i].body \notin Slotted
    BY <1>2, <1>3, <1>4
  <2>3. making' = "permanent" => \A i \in DOMAIN generated' : generated'[i].body \in Slotted
    BY <1>2, <1>6
  <2> QED BY <2>1, <2>2, <2>3 DEF Making!PlanIsFit, Making!SameText
<1> QED BY <1>7, <1>8, <1>9, <1>10, <1>11 DEF GeneratedInv

LEMMA NextAttemptKeeps == ASSUME GeneratedInv, Making!NextAttempt PROVE GeneratedInv'
<1>1. Making!TypeOK /\ FitQuestions(filtered) /\ Making!PanelIsFit /\ Making!PlanIsFit
  BY DEF GeneratedInv
<1>2. /\ UNCHANGED <<namesake, writing, turn, filtered, generated, plan>>
      /\ making' = IF generated = <<>> THEN "fetch" ELSE "plan"
      /\ scheme' = "https" /\ hop' = 0 /\ sent' = 0 /\ refused' = 0
      /\ generations' = generations + 1 /\ generations < MaxGenerations
  BY DEF Making!NextAttempt
<1>3. MaxHops \in Nat /\ MaxGenerations \in Nat \ {0} /\ generations \in 1..MaxGenerations
  BY <1>1, GeneratedConstants DEF Making!GenerationConstants, Making!TypeOK
<1>4. Making!TypeOK'
  <2>1. generations' \in 1..MaxGenerations /\ hop' \in 0..MaxHops
    BY <1>2, <1>3
  <2> QED BY <1>1, <1>2, <2>1 DEF Making!TypeOK
<1>5. ReadingInv'
  BY <1>2, <1>3 DEF ReadingInv, Making!ReadingEnds
<1>6. FitQuestions(filtered)' /\ Making!PanelIsFit' /\ Making!PlanIsFit'
  BY <1>1, <1>2 DEF FitQuestions, FitQuestion, Making!PanelIsFit, Making!PlanIsFit, Making!IsLocal, Making!SameText
<1>7. making' \in {"fetch", "write", "clean"} => generated' = <<>>
  BY <1>2
<1> QED BY <1>4, <1>5, <1>6, <1>7 DEF GeneratedInv

LEMMA GeneratedInvInductive == AuditsSpec => []GeneratedInv
<1>1. AuditsInit => GeneratedInv
  BY GeneratedStarts DEF AuditsInit
<1>2. GeneratedInv /\ [AuditsNext]_AuditsVars => GeneratedInv'
  <2> SUFFICES ASSUME GeneratedInv, [AuditsNext]_AuditsVars PROVE GeneratedInv'
    OBVIOUS
  <2>1. CASE UNCHANGED generatedVars
    BY <2>1 DEF generatedVars, GeneratedInv, Making!TypeOK, ReadingInv, Making!ReadingEnds, FitQuestions, FitQuestion,
                Making!PanelIsFit, Making!PlanIsFit, Making!IsLocal, Making!SameText
  <2>2. CASE Making!GeneratedNext
    <3>1. CASE Making!Redirect \/ Making!FetchFails \/ Making!FetchRefused \/ Making!PageRead
      <4>1. making = "fetch"
        BY <3>1 DEF Making!Redirect, Making!FetchFails, Making!FetchRefused, Making!PageRead
      <4> QED BY <3>1, <4>1, ReadingKeeps
    <3> QED BY <2>2, <3>1, GenerationFailsKeeps, ClaudeKeeps, CleanQuestionKeeps, StorePanelKeeps,
               PlanSnapshotKeeps, NextAttemptKeeps DEF Making!GeneratedNext
  <2> QED BY <2>1, <2>2 DEF AuditsNext, AuditsVars
<1> QED BY <1>1, <1>2, PTL DEF AuditsSpec

\* The homepage is read to an end, the panel Claude writes is stored only when
\* it can be asked, and a plan made of it can be answered (generate.ts, site.ts,
\* plan.ts).
THEOREM GeneratedSound == AuditsSpec => []Making!GeneratedIsSound
<1>1. GeneratedInv => Making!GeneratedIsSound
  BY DEF GeneratedInv, ReadingInv, Making!GeneratedIsSound
<1> QED BY <1>1, GeneratedInvInductive, PTL

\* Whatever Claude writes, the panel, the service typed and the number of
\* questions asked for: a generated panel is one that can be asked, and a
\* snapshot is whole, balanced and refused only for want of a name
\* (generate.ts, questions.ts:20-130, Job.php:55-58).
THEOREM SnapshotsSound == AuditsSpec => []SnapshotsAreSound
<1>1. SampleInv => Sampling!SnapshotsAreSound
  <2> SUFFICES ASSUME SampleInv, pc \notin {"fill", "minimums", "round"}
               PROVE  Sampling!PlanIsWhole /\ Sampling!PlanIsBalanced /\ Sampling!RefusedOnlyUnnamed
    BY DEF Sampling!SnapshotsAreSound, Sampling!Planned
  <2>1. /\ SampleTyped /\ FilledTo(filled, service, Len(CategoryOf[topic])) /\ PlanInv
        /\ \/ chosen = filled /\ Cardinality(filled) <= count
           \/ Cardinality(chosen) = count /\ count < Cardinality(filled)
    BY DEF SampleInv, FillInv, CountInv, OnTheWay, Full
  <2>2. /\ topic \in Panels /\ filled \subseteq 1..Len(CategoryOf[topic]) /\ chosen \subseteq filled
        /\ count \in Nat /\ IsFiniteSet(chosen) /\ IsFiniteSet(filled) /\ Len(CategoryOf[topic]) \in Nat
        /\ Cardinality(filled) \in Nat
    BY <2>1, SampleFinite, PanelSizes DEF SampleTyped
  <2>3. Sampling!PlanIsWhole
    <3> DEFINE all == AllTexts(service, Len(CategoryOf[topic]))
    <3>1. {Reads(service, i) : i \in filled} = all /\ Cardinality(all) = Cardinality(filled)
      <4>1. /\ Len(CategoryOf[topic]) \in Nat /\ filled \subseteq 1..Len(CategoryOf[topic])
            /\ FilledTo(filled, service, Len(CategoryOf[topic]))
        BY <2>1, <2>2
      <4> QED BY <4>1, TextsCounted
    <3>2. Sampling!Texts = all
      BY DEF Sampling!Texts, Sampling!Text, Sampling!Size, Reads, AllTexts
    <3>3. \A i, j \in chosen : Sampling!Text(i) = Sampling!Text(j) => i = j
      BY <2>1, <2>2 DEF FilledTo, Sampling!Text, Reads
    <3>4. {Sampling!Text(i) : i \in chosen} = {Reads(service, i) : i \in chosen}
      BY DEF Sampling!Text, Reads
    <3> HIDE DEF all
    <3>5. Sampling!Cardinality(Sampling!Texts) = Cardinality(filled) /\ Sampling!Cardinality(chosen) = Cardinality(chosen)
      BY <3>1, <3>2, SamplingCounts
    <3>6. CASE chosen = filled /\ Cardinality(filled) <= count
      <4>1. {Sampling!Text(i) : i \in chosen} = Sampling!Texts /\ count >= Sampling!Cardinality(Sampling!Texts)
        BY <2>2, <3>1, <3>2, <3>4, <3>5, <3>6
      <4> QED BY <3>3, <4>1 DEF Sampling!PlanIsWhole
    <3>7. CASE Cardinality(chosen) = count /\ count < Cardinality(filled)
      <4>1. ~(count >= Sampling!Cardinality(Sampling!Texts)) /\ Sampling!Cardinality(chosen) = count
        BY <2>2, <3>5, <3>7
      <4> QED BY <3>3, <4>1 DEF Sampling!PlanIsWhole
    <3> QED BY <2>1, <3>6, <3>7
  <2>4. Sampling!PlanIsBalanced
    <3> DEFINE extra(c) == Sampling!Number(chosen, c) - Sampling!Cardinality({n \in DOMAIN Sampling!Minimums : Sampling!Minimums[n] = c})
    <3> SUFFICES ASSUME count >= 8,
                        NEW i \in filled, Sampling!Number(filled, CategoryOf[topic][i]) > Sampling!Number(chosen, CategoryOf[topic][i]),
                        NEW j \in filled
                 PROVE  /\ extra(CategoryOf[topic][i]) >= 0
                        /\ extra(CategoryOf[topic][j]) <= extra(CategoryOf[topic][i]) + 1
      BY MinimumsAre DEF Sampling!PlanIsBalanced, Sampling!Category
    <3> DEFINE c == CategoryOf[topic][i]
               d == CategoryOf[topic][j]
    <3>1. \A S, a : Sampling!Number(S, a) = Num(S, topic, a)
      BY SamplingCounts DEF Sampling!Number, Sampling!Of, Sampling!Category, Num
    <3>2. \A a : extra(a) = Extra(chosen, topic, a)
      <4>1. DOMAIN Sampling!Minimums = 1..8
        BY MinimumsAre
      <4> QED BY <3>1, <4>1, SamplingCounts DEF Extra, Asks
    <3>3. Num(filled, topic, c) > Num(chosen, topic, c)
      BY <3>1
    <3>4. Rest(filled, chosen, topic, c) # {} /\ chosen # filled
      <4>1. Num(filled, topic, c) \in Nat /\ Num(chosen, topic, c) \in Nat
        BY <2>2, NumbersAdd
      <4>2. Num(filled, topic, c) # Num(chosen, topic, c)
        BY <3>3, <4>1
      <4>3. chosen # filled /\ chosen \subseteq filled
        BY <2>2, <4>2
      <4> HIDE DEF c
      <4>4. Rest(filled, chosen, topic, c) # {}
        BY <4>2, <4>3, NoneLeft
      <4> QED BY <4>3, <4>4
    <3>5. PICK r \in Nat : Even(filled, chosen, topic, r, Len(Alphabetical) + 1, FALSE)
      BY <2>1, <3>4 DEF PlanInv
    <3>6. /\ \E n \in DOMAIN Alphabetical : Alphabetical[n] = c
          /\ \E n \in DOMAIN Alphabetical : Alphabetical[n] = d
      BY <2>2, SnapshotConstants DEF Sampling!SamplingConstants
    <3> HIDE DEF c, d, extra
    <3>7. Extra(chosen, topic, c) >= r /\ Extra(chosen, topic, d) <= r + 1
      BY <3>4, <3>5, <3>6 DEF Even
    <3>8. Extra(chosen, topic, c) \in Int /\ Extra(chosen, topic, d) \in Int
      BY <2>2, ExtraIsInt
    <3>9. extra(c) >= 0 /\ extra(d) <= extra(c) + 1
      BY <3>2, <3>7, <3>8
    <3> QED BY <3>9 DEF c, d
  <2>5. Sampling!RefusedOnlyUnnamed
    BY <2>1 DEF PlanInv, Sampling!RefusedOnlyUnnamed
  <2> QED BY <2>3, <2>4, <2>5
<1>2. Sampling!SnapshotsAreSound /\ Making!GeneratedIsSound => SnapshotsAreSound
  BY DEF SnapshotsAreSound
<1> QED BY <1>1, <1>2, SampleInvInductive, GeneratedSound, PTL

=============================================================================

----------------------- MODULE SnapshotRequestsProofs -----------------------
(***************************************************************************)
(* Proofs about snapshot requests, for any number of connections, requests,*)
(* question sets and runs, and wherever a connection may be lost.          *)
(*                                                                         *)
(* The argument: whatever a transaction has read and means to commit is    *)
(* still true of the committed rows (TxFact), because the row lock keeps   *)
(* two of them off one request and the key of an uncommitted run is its    *)
(* own (Apart).  A step then either changes one transaction and no row     *)
(* (TxMoves), or commits, and each commit is shown to leave the others'    *)
(* facts alone.                                                            *)
(***************************************************************************)
EXTENDS SnapshotRequests, WellFoundedInduction, TLAPS

Attaching == {"locked", "chosen", "pointed"}
Holding == Attaching \cup {"erased", "spared", "condemned"}

\* The run a transaction has chosen serves its request.
Serves(r, q) ==
  run[r].status # "absent" /\ CoversOtherDomains(r, q) /\ SameQuestionSet(r, q)

\* What a transaction relies on between its statements.
TxFact(t) ==
  /\ t.pc \in Holding => t.request \in Requests
  /\ t.pc \in Attaching => request[t.request].state \in {"absent", "pending"}
  /\ t.pc \in {"chosen", "pointed", "erased", "spared", "condemned", "rerunning"} =>
       t.run \in RunIds
  /\ t.pc \in {"erased", "spared", "condemned"} => run[t.run].status # "absent"
  /\ t.pc \in {"chosen", "pointed"} =>
       \/ t.next = t.run
       \/ t.next = None /\ Serves(t.run, t.request)
  /\ t.pc = "pointed" /\ t.next = None => Exists(t.run)
  /\ t.pc = "rerunning" => t.next \in RunIds
  /\ t.pc \notin {"chosen", "pointed", "rerunning"} => t.next = None
  /\ t.next # None => run[t.next].status = "absent"

\* Two transactions never hold one request nor insert one run.
Disjoint(t, u) ==
  /\ t.pc \in Holding /\ u.pc \in Holding => t.request # u.request
  /\ t.next # None => t.next # u.next

TxInv == \A s \in Sessions : TxFact(tx[s])
Apart == \A s, o \in Sessions : s # o => Disjoint(tx[s], tx[o])

\* The answers a link has given so far are one run and its re-runs, and the
\* run it points at now is another of them.
Fits(q, r) == Exists(r) /\ CoversOtherDomains(r, q) /\ SameQuestionSet(r, q)
RootInv ==
  \A q \in Requests :
    /\ request[q].state \in {"absent", "pending"} => seen.answers[q] = {}
    /\ \A r \in seen.answers[q] \ {None} :
         /\ run[r].status # "absent"
         /\ request[q].run # None => seen.root[r] = seen.root[request[q].run]

IInv ==
  /\ TypeOK
  /\ TxInv
  /\ Apart
  /\ ReportFitsTheRequest
  /\ RootInv
  /\ SameRunEveryVisit
-----------------------------------------------------------------------------
(* Types *)

LEMMA TxFields ==
  ASSUME NEW t \in TxRow
  PROVE  /\ \A v \in {"idle", "locked", "chosen", "pointed", "erased", "spared", "condemned", "rerunning"} :
              [t EXCEPT !.pc = v] \in TxRow
         /\ \A q \in Requests, n \in Nat :
              [t EXCEPT !.pc = "locked", !.request = q, !.start = n] \in TxRow
         /\ \A q \in Requests, r \in RunIds :
              [t EXCEPT !.pc = "erased", !.request = q, !.run = r] \in TxRow
         /\ \A r, n \in RunIds, c \in Nat :
              [t EXCEPT !.pc = "rerunning", !.run = r, !.next = n, !.start = c] \in TxRow
         /\ \A v \in RunIds : [t EXCEPT !.pc = "chosen", !.run = v] \in TxRow
         /\ \A v \in RunIds : [t EXCEPT !.pc = "chosen", !.run = v, !.next = v] \in TxRow
BY DEF TxRow

LEMMA IdleIsRow == Idle \in TxRow /\ Idle.pc = "idle" /\ Idle.next = None
BY DEF TxRow, Idle

LEMMA IdleFact == TxFact(Idle) /\ \A t : Disjoint(Idle, t) /\ Disjoint(t, Idle)
BY IdleIsRow, RunAssumption DEF TxFact, Disjoint, Holding, Attaching, None
-----------------------------------------------------------------------------
(* Steps that change one transaction and no row *)

\* What every such step leaves alone.
RowsSame ==
  /\ UNCHANGED <<request, run>>
  /\ seen' \in SeenRow /\ clock' \in 0..MaxTx
  /\ seen'.answers = seen.answers /\ seen'.root = seen.root

LEMMA TxMoves ==
  ASSUME IInv, RowsSame, NEW s \in Sessions, NEW t \in TxRow,
         tx' = [tx EXCEPT ![s] = t],
         TxFact(t),
         \A o \in Sessions \ {s} : Disjoint(t, tx[o]) /\ Disjoint(tx[o], t)
  PROVE  IInv'
<1>1. TypeOK'
  BY DEF IInv, TypeOK, RowsSame
<1>2. \A o \in Sessions : tx'[o] = IF o = s THEN t ELSE tx[o]
  BY DEF IInv, TypeOK
<1>3. TxInv'
  <2> SUFFICES ASSUME NEW o \in Sessions PROVE TxFact(tx[o])'
    BY DEF TxInv
  <2>1. TxFact(tx'[o])
    BY <1>2 DEF IInv, TxInv
  <2> QED
    BY <2>1 DEF TxFact, RowsSame, Serves, Exists, CoversOtherDomains, SameQuestionSet
<1>4. Apart'
  <2> SUFFICES ASSUME NEW o \in Sessions, NEW p \in Sessions, o # p
               PROVE  Disjoint(tx'[o], tx'[p])
    BY DEF Apart, Disjoint
  <2> QED BY <1>2 DEF IInv, Apart
<1>5. ReportFitsTheRequest'
  BY DEF IInv, RowsSame, ReportFitsTheRequest, Exists, CoversOtherDomains, SameQuestionSet
<1>6. RootInv'
  BY DEF IInv, RowsSame, RootInv
<1>7. SameRunEveryVisit'
  BY DEF IInv, RowsSame, SameRunEveryVisit
<1> QED BY <1>1, <1>3, <1>4, <1>5, <1>6, <1>7 DEF IInv

LEMMA OpenKeeps ==
  ASSUME IInv, NEW s \in Sessions, NEW f \in Forms, Open(s, f)
  PROVE  IInv'
<1> DEFINE t == [Idle EXCEPT !.pc = "locked", !.request = f, !.start = clock + 1]
<1>1. /\ t \in TxRow /\ tx' = [tx EXCEPT ![s] = t]
      /\ t.pc = "locked" /\ t.request = f /\ t.next = None
  <2>1. clock + 1 \in Nat
    BY BoundAssumption DEF IInv, TypeOK
  <2>2. tx' = [tx EXCEPT ![s] = t]
    BY DEF Open
  <2>3. t \in TxRow
    BY <2>1, IdleIsRow, TxFields DEF Requests
  <2> QED BY <2>2, <2>3, IdleIsRow DEF TxRow
<1>2. RowsSame
  BY BoundAssumption DEF Open, RowsSame, IInv, TypeOK
<1>3. f \in Requests /\ request[f].state = "pending" /\ ~RowLocked(f)
  BY DEF Open, Opens, Requests
<1> HIDE DEF t
<1>4. TxFact(t)
  BY <1>1, <1>3 DEF TxFact, Holding, Attaching
<1>5. \A o \in Sessions \ {s} : Disjoint(t, tx[o]) /\ Disjoint(tx[o], t)
  BY <1>1, <1>3 DEF Disjoint, RowLocked
<1> QED BY <1>1, <1>2, <1>4, <1>5, TxMoves

LEMMA ProspectKeeps ==
  ASSUME IInv, NEW s \in Sessions, NEW p \in Prospects, Prospect(s, p)
  PROVE  IInv'
<1> DEFINE t == [Idle EXCEPT !.pc = "locked", !.request = p, !.start = clock + 1]
<1>1. /\ t \in TxRow /\ tx' = [tx EXCEPT ![s] = t]
      /\ t.pc = "locked" /\ t.request = p /\ t.next = None
  <2>1. clock + 1 \in Nat
    BY BoundAssumption DEF IInv, TypeOK
  <2>2. tx' = [tx EXCEPT ![s] = t]
    BY DEF Prospect
  <2>3. t \in TxRow
    BY <2>1, IdleIsRow, TxFields DEF Requests
  <2> QED BY <2>2, <2>3, IdleIsRow DEF TxRow
<1>2. RowsSame
  BY BoundAssumption DEF Prospect, RowsSame, IInv, TypeOK
<1>3. p \in Requests /\ request[p].state = "absent" /\ ~RowLocked(p)
  BY DEF Prospect, Requests
<1> HIDE DEF t
<1>4. TxFact(t)
  BY <1>1, <1>3 DEF TxFact, Holding, Attaching
<1>5. \A o \in Sessions \ {s} : Disjoint(t, tx[o]) /\ Disjoint(tx[o], t)
  BY <1>1, <1>3 DEF Disjoint, RowLocked
<1> QED BY <1>1, <1>2, <1>4, <1>5, TxMoves

LEMMA ChooseKeeps ==
  ASSUME IInv, NEW s \in Sessions, Choose(s)
  PROVE  IInv'
<1> DEFINE q == tx[s].request
<1>1. RowsSame
  BY DEF Choose, RowsSame, IInv, TypeOK
<1>2. /\ tx[s] \in TxRow /\ tx[s].pc = "locked" /\ q \in Requests
      /\ request[q].state \in {"absent", "pending"} /\ tx[s].next \in RunIds \cup {None}
  BY DEF Choose, IInv, TypeOK, TxInv, TxFact, Holding, Attaching, TxRow
<1>3. \A o \in Sessions \ {s} : Disjoint(tx[s], tx[o]) /\ Disjoint(tx[o], tx[s])
  BY DEF IInv, Apart
<1>4. CASE \E r \in RunIds : Existing(r, q) /\ tx' = [tx EXCEPT ![s].pc = "chosen", ![s].run = r]
  <2>1. PICK r \in RunIds :
          Existing(r, q) /\ tx' = [tx EXCEPT ![s].pc = "chosen", ![s].run = r]
    BY <1>4
  <2> DEFINE t == [tx[s] EXCEPT !.pc = "chosen", !.run = r]
  <2>2. /\ t \in TxRow /\ tx' = [tx EXCEPT ![s] = t]
        /\ t.pc = "chosen" /\ t.request = q /\ t.run = r /\ t.next = tx[s].next
    <3>1. tx' = [tx EXCEPT ![s] = t]
      BY <2>1
    <3>2. t \in TxRow
      BY <1>2, TxFields
    <3> QED BY <1>2, <3>1, <3>2 DEF TxRow
  <2>3. Serves(r, q)
    BY <2>1 DEF Existing, IsLatest, Reusable, Serves
  <2> HIDE DEF t
  <2>4. t.next = None
    BY <1>2, <2>2 DEF IInv, TxInv, TxFact
  <2>5. TxFact(t)
    BY <1>2, <2>2, <2>3, <2>4 DEF TxFact, Holding, Attaching
  <2>6. \A o \in Sessions \ {s} : Disjoint(t, tx[o]) /\ Disjoint(tx[o], t)
    BY <1>2, <1>3, <2>2, <2>4 DEF Disjoint, Holding, Attaching
  <2> QED BY <1>1, <2>2, <2>5, <2>6, TxMoves
<1>5. CASE \E n \in FreeIds :
             tx' = [tx EXCEPT ![s].pc = "chosen", ![s].run = n, ![s].next = n]
  <2>1. PICK n \in FreeIds :
          tx' = [tx EXCEPT ![s].pc = "chosen", ![s].run = n, ![s].next = n]
    BY <1>5
  <2> DEFINE t == [tx[s] EXCEPT !.pc = "chosen", !.run = n, !.next = n]
  <2>2. /\ t \in TxRow /\ tx' = [tx EXCEPT ![s] = t]
        /\ t.pc = "chosen" /\ t.request = q /\ t.run = n /\ t.next = n
    <3>1. tx' = [tx EXCEPT ![s] = t]
      BY <2>1
    <3>2. t \in TxRow
      BY <1>2, TxFields DEF FreeIds
    <3> QED BY <1>2, <3>1, <3>2 DEF TxRow
  <2> HIDE DEF t
  <2>3. /\ n \in RunIds /\ n # None /\ run[n].status = "absent"
        /\ \A o \in Sessions : tx[o].next # n
    BY RunAssumption DEF FreeIds
  <2>4. TxFact(t)
    BY <1>2, <2>2, <2>3 DEF TxFact, Holding, Attaching
  <2>5. \A o \in Sessions \ {s} : Disjoint(t, tx[o]) /\ Disjoint(tx[o], t)
    BY <1>2, <1>3, <2>2, <2>3 DEF Disjoint, Holding, Attaching
  <2> QED BY <1>1, <2>2, <2>4, <2>5, TxMoves
<1> QED BY <1>4, <1>5 DEF Choose

\* Giving a transaction up is safe wherever it is.
LEMMA IdleKeeps ==
  ASSUME IInv, RowsSame, NEW s \in Sessions, tx' = [tx EXCEPT ![s] = Idle]
  PROVE  IInv'
BY IdleIsRow, IdleFact, TxMoves

\* A transaction that only goes on with what it holds: what remains to be shown
\* is what its new position relies on.
LEMMA PcMoves ==
  ASSUME IInv, RowsSame, NEW s \in Sessions,
         NEW pc \in {"pointed", "spared", "condemned"},
         tx' = [tx EXCEPT ![s].pc = pc],
         pc = "pointed" =>
           tx[s].pc = "chosen" /\ (tx[s].next = None => Exists(tx[s].run)),
         pc # "pointed" => tx[s].pc = "erased"
  PROVE  IInv'
<1> DEFINE t == [tx[s] EXCEPT !.pc = pc]
<1>1. tx[s] \in TxRow
  BY DEF IInv, TypeOK
<1>2. /\ t \in TxRow /\ tx' = [tx EXCEPT ![s] = t]
      /\ t.pc = pc /\ t.request = tx[s].request /\ t.run = tx[s].run /\ t.next = tx[s].next
  <2>1. t \in TxRow
    BY <1>1, TxFields
  <2> QED BY <1>1, <2>1 DEF TxRow
<1> HIDE DEF t
<1>3. TxFact(tx[s])
  BY DEF IInv, TxInv
<1>4. TxFact(t)
  BY <1>2, <1>3 DEF TxFact, Holding, Attaching
<1>5. \A o \in Sessions \ {s} : Disjoint(t, tx[o]) /\ Disjoint(tx[o], t)
  <2> TAKE o \in Sessions \ {s}
  <2>1. Disjoint(tx[s], tx[o]) /\ Disjoint(tx[o], tx[s])
    BY DEF IInv, Apart
  <2> QED BY <1>2, <2>1 DEF Disjoint, Holding, Attaching
<1> QED BY <1>2, <1>4, <1>5, TxMoves

LEMMA PointKeeps ==
  ASSUME IInv, NEW s \in Sessions, Point(s)
  PROVE  IInv'
<1>1. RowsSame
  BY DEF Point, RowsSame, IInv, TypeOK
<1>2. TxFact(tx[s]) /\ tx[s].pc = "chosen" /\ s \in DOMAIN tx
  BY DEF Point, IInv, TxInv, TypeOK
<1>3. CASE run[tx[s].run].status = "deleted"
  <2>1. tx' = [tx EXCEPT ![s] = Idle]
    BY <1>2, <1>3 DEF Point
  <2> QED BY <1>1, <2>1, IdleKeeps
<1>4. CASE run[tx[s].run].status # "deleted"
  <2>1. tx' = [tx EXCEPT ![s].pc = "pointed"]
    BY <1>2, <1>4 DEF Point
  <2>2. tx[s].next = None => Exists(tx[s].run)
    BY <1>2, <1>4, RunAssumption DEF TxFact, Serves, Exists
  <2> QED BY <1>1, <1>2, <2>1, <2>2, PcMoves
<1> QED BY <1>3, <1>4

LEMMA DecideKeeps ==
  ASSUME IInv, NEW s \in Sessions, Decide(s)
  PROVE  IInv'
<1>1. RowsSame
  BY DEF Decide, RowsSame, IInv, TypeOK
<1>2. PICK pc \in {"spared", "condemned"} : tx' = [tx EXCEPT ![s].pc = pc]
  BY DEF Decide
<1> QED BY <1>1, <1>2, PcMoves DEF Decide

LEMMA AbortKeeps ==
  ASSUME IInv, NEW s \in Sessions, Abort(s)
  PROVE  IInv'
<1>1. RowsSame
  BY DEF Abort, RowsSame, IInv, TypeOK
<1> QED BY <1>1, IdleKeeps DEF Abort

LEMMA RerunKeeps ==
  ASSUME IInv, NEW s \in Sessions, NEW r \in RunIds, Rerun(s, r)
  PROVE  IInv'
<1>1. RowsSame
  <2>1. clock' \in 0..MaxTx
    BY BoundAssumption DEF Rerun, IInv, TypeOK
  <2>2. /\ seen' = [seen EXCEPT !.reruns = seen.reruns + 1] /\ UNCHANGED <<request, run>>
        /\ seen \in SeenRow
    BY DEF Rerun, IInv, TypeOK
  <2> QED BY <2>1, <2>2 DEF RowsSame, SeenRow
<1>2. PICK n \in FreeIds :
        tx' = [tx EXCEPT ![s] =
          [Idle EXCEPT !.pc = "rerunning", !.run = r, !.next = n, !.start = clock + 1]]
  BY DEF Rerun
<1> DEFINE t == [Idle EXCEPT !.pc = "rerunning", !.run = r, !.next = n, !.start = clock + 1]
<1>3. /\ n \in RunIds /\ n # None /\ run[n].status = "absent"
      /\ \A o \in Sessions : tx[o].next # n
  BY RunAssumption DEF FreeIds
<1>4. /\ t \in TxRow /\ tx' = [tx EXCEPT ![s] = t]
      /\ t.pc = "rerunning" /\ t.run = r /\ t.next = n
  <2>1. clock + 1 \in Nat
    BY BoundAssumption DEF IInv, TypeOK
  <2>2. t \in TxRow
    BY <1>3, <2>1, IdleIsRow, TxFields
  <2> QED BY <1>2, <2>2, IdleIsRow DEF TxRow
<1> HIDE DEF t
<1>5. TxFact(t)
  BY <1>3, <1>4 DEF TxFact, Holding, Attaching
<1>6. \A o \in Sessions \ {s} : Disjoint(t, tx[o]) /\ Disjoint(tx[o], t)
  BY <1>3, <1>4 DEF Disjoint, Holding, Attaching
<1> QED BY <1>1, <1>4, <1>5, <1>6, TxMoves

LEMMA EraseKeeps ==
  ASSUME IInv, NEW s \in Sessions, NEW q \in Requests, Erase(s, q), request[q].run # None
  PROVE  IInv'
<1> DEFINE t == [Idle EXCEPT !.pc = "erased", !.request = q, !.run = request[q].run]
<1>1. RowsSame
  BY DEF Erase, RowsSame, IInv, TypeOK
<1>2. /\ request[q].run \in RunIds /\ ~RowLocked(q)
      /\ run[request[q].run].status # "absent"
  BY DEF Erase, IInv, TypeOK, RequestRow, ReportFitsTheRequest, Exists
<1>3. /\ t \in TxRow /\ tx' = [tx EXCEPT ![s] = t]
      /\ t.pc = "erased" /\ t.request = q /\ t.run = request[q].run /\ t.next = None
  <2>1. t \in TxRow
    BY <1>2, IdleIsRow, TxFields
  <2>2. tx' = [tx EXCEPT ![s] = t]
    BY DEF Erase
  <2> QED BY <1>2, <2>1, <2>2, IdleIsRow DEF TxRow
<1> HIDE DEF t
<1>4. TxFact(t)
  BY <1>2, <1>3 DEF TxFact, Holding, Attaching
<1>5. \A o \in Sessions \ {s} : Disjoint(t, tx[o]) /\ Disjoint(tx[o], t)
  BY <1>2, <1>3 DEF Disjoint, RowLocked
<1> QED BY <1>1, <1>3, <1>4, <1>5, TxMoves
-----------------------------------------------------------------------------
(* Steps that change requests, or runs, and no transaction *)

LEMMA RequestMoves ==
  ASSUME IInv, UNCHANGED <<run, tx, clock>>,
         request' \in [Requests -> RequestRow],
         seen' \in SeenRow, seen'.root = seen.root,
         \A q \in Requests :
           /\ request'[q].run = request[q].run
           /\ request[q].run # None => request'[q].state = "verified"
           /\ request'[q].state \in {"absent", "pending"} =>
                request[q].state \in {"absent", "pending"} /\ seen'.answers[q] = seen.answers[q]
           /\ seen'.answers[q] \subseteq seen.answers[q] \cup {request[q].run},
         \A s \in Sessions : tx[s].pc \in Attaching =>
           request'[tx[s].request].state \in {"absent", "pending"}
  PROVE  IInv'
<1>1. TypeOK'
  BY DEF IInv, TypeOK
<1>2. TxInv'
  <2> SUFFICES ASSUME NEW s \in Sessions PROVE TxFact(tx[s])'
    BY DEF TxInv
  <2> QED BY DEF IInv, TxInv, TxFact, Serves, Exists, CoversOtherDomains, SameQuestionSet
<1>3. Apart'
  BY DEF IInv, Apart, Disjoint
<1>4. ReportFitsTheRequest'
  BY DEF IInv, ReportFitsTheRequest, Exists, CoversOtherDomains, SameQuestionSet
<1>5. RootInv'
  <2> SUFFICES ASSUME NEW q \in Requests
               PROVE  /\ request'[q].state \in {"absent", "pending"} => seen'.answers[q] = {}
                      /\ \A r \in seen'.answers[q] \ {None} :
                           /\ run'[r].status # "absent"
                           /\ request'[q].run # None => seen'.root[r] = seen'.root[request'[q].run]
    BY DEF RootInv
  <2>1. request[q].run # None => run[request[q].run].status # "absent"
    BY DEF IInv, ReportFitsTheRequest, Exists
  <2> QED BY <2>1 DEF IInv, RootInv
<1>6. SameRunEveryVisit'
  BY DEF IInv, RootInv, SameRunEveryVisit
<1> QED BY <1>1, <1>2, <1>3, <1>4, <1>5, <1>6 DEF IInv

LEMMA RunMoves ==
  ASSUME IInv, UNCHANGED <<request, tx, clock, seen>>,
         run' \in [RunIds -> RunRow],
         \A r \in RunIds :
           /\ run'[r].sites = run[r].sites /\ run'[r].panel = run[r].panel
           /\ run'[r].status = "absent" <=> run[r].status = "absent"
           /\ Exists(r) => run'[r].status # "deleted"
  PROVE  IInv'
<1>1. TypeOK'
  BY DEF IInv, TypeOK
<1>2. \A r \in RunIds : Exists(r) => Exists(r)'
  BY DEF Exists
<1>3. TxInv'
  <2> SUFFICES ASSUME NEW s \in Sessions PROVE TxFact(tx[s])'
    BY DEF TxInv
  <2>1. TxFact(tx[s]) /\ tx[s] \in TxRow
    BY DEF IInv, TxInv, TypeOK
  <2>2. tx[s].next # None => run'[tx[s].next].status = "absent"
    BY <2>1 DEF TxFact, TxRow
  <2>3. tx[s].pc \in {"chosen", "pointed"} /\ tx[s].next = None =>
          Serves(tx[s].run, tx[s].request)'
    BY <2>1, RunAssumption DEF TxFact, Serves, CoversOtherDomains, SameQuestionSet
  <2>4. tx[s].pc = "pointed" /\ tx[s].next = None => Exists(tx[s].run)'
    BY <1>2, <2>1 DEF TxFact, Exists
  <2> QED BY <2>1, <2>2, <2>3, <2>4 DEF TxFact
<1>4. Apart'
  BY DEF IInv, Apart, Disjoint
<1>5. ReportFitsTheRequest'
  <2> SUFFICES ASSUME NEW q \in Requests, request[q].run # None
               PROVE  /\ Exists(request[q].run)'
                      /\ CoversOtherDomains(request[q].run, q)'
                      /\ SameQuestionSet(request[q].run, q)'
    BY DEF ReportFitsTheRequest, Exists, CoversOtherDomains, SameQuestionSet
  <2>1. request[q].run \in RunIds
    BY DEF IInv, TypeOK, RequestRow
  <2> QED BY <1>2, <2>1
        DEF IInv, ReportFitsTheRequest, Exists, CoversOtherDomains, SameQuestionSet
<1>6. RootInv'
  <2>1. \A q \in Requests : seen.answers[q] \ {None} \subseteq RunIds
    BY DEF IInv, TypeOK, SeenRow
  <2> QED BY <2>1 DEF IInv, RootInv
<1>7. SameRunEveryVisit'
  BY DEF IInv, SameRunEveryVisit
<1> QED BY <1>1, <1>3, <1>4, <1>5, <1>6, <1>7 DEF IInv

\* A request at rest is in no attaching transaction.
LEMMA Unlocked ==
  ASSUME NEW q, ~RowLocked(q), NEW s \in Sessions
  PROVE  tx[s].request # q
BY DEF RowLocked

LEMMA FormKeeps ==
  ASSUME IInv, NEW f \in Forms, Submit(f) \/ Expire(f) \/ OpenAgain(f)
  PROVE  IInv'
<1>1. f \in Requests /\ request \in [Requests -> RequestRow] /\ seen \in SeenRow
  BY DEF Requests, IInv, TypeOK
<1>2. \A s \in Sessions : tx[s].pc \in Attaching =>
        tx[s].request \in Requests /\ request[tx[s].request].state \in {"absent", "pending"}
  BY DEF IInv, TxInv, TxFact, Holding
<1>3. \A q \in Requests :
        /\ request[q].run # None => request[q].state = "verified"
        /\ request[q].state \in {"absent", "pending"} => seen.answers[q] = {}
  BY DEF IInv, TypeOK, RootInv
<1>4. CASE Submit(f)
  <2>1. request' \in [Requests -> RequestRow]
    BY <1>1, <1>4 DEF Submit, RequestRow
  <2>2. \A q \in Requests :
          /\ request'[q].run = request[q].run
          /\ request'[q].state = IF q = f THEN "pending" ELSE request[q].state
    BY <1>1, <1>4 DEF Submit, RequestRow
  <2> QED BY <1>1, <1>2, <1>3, <1>4, <2>1, <2>2, RequestMoves DEF Submit
<1>5. CASE Expire(f)
  <2>1. request' \in [Requests -> RequestRow]
    BY <1>1, <1>5 DEF Expire, RequestRow
  <2>2. \A q \in Requests :
          request'[q].run = request[q].run /\ request'[q].state = request[q].state
    BY <1>1, <1>5 DEF Expire, RequestRow
  <2> QED BY <1>1, <1>2, <1>3, <1>5, <2>1, <2>2, RequestMoves DEF Expire
<1>6. CASE OpenAgain(f)
  <2> DEFINE answers == [seen.answers EXCEPT ![f] = @ \cup {request[f].run}]
  <2>1. request[f].run \in RunIds \cup {None} /\ seen.answers \in [Requests -> SUBSET (RunIds \cup {None})]
    BY <1>1 DEF RequestRow, SeenRow
  <2>2. answers \in [Requests -> SUBSET (RunIds \cup {None})]
    BY <1>1, <2>1
  <2>3. seen' = [seen EXCEPT !.answers = answers]
    BY <1>6 DEF OpenAgain
  <2>4. \A q \in Requests : answers[q] =
          IF q = f THEN seen.answers[q] \cup {request[q].run} ELSE seen.answers[q]
    BY <1>1, <2>1
  <2> HIDE DEF answers
  <2>5. seen' \in SeenRow /\ seen'.root = seen.root /\ seen'.answers = answers
    BY <1>1, <2>2, <2>3 DEF SeenRow
  <2>6. request[f].state = "verified" /\ UNCHANGED <<request, run, tx, clock>>
    BY <1>6 DEF OpenAgain
  <2> QED BY <1>1, <1>2, <1>3, <2>4, <2>5, <2>6, RequestMoves
<1> QED BY <1>4, <1>5, <1>6

LEMMA EraseNewKeeps ==
  ASSUME IInv, NEW s \in Sessions, NEW q \in Requests, Erase(s, q), request[q].run = None
  PROVE  IInv'
<1>1. request \in [Requests -> RequestRow] /\ seen \in SeenRow
  BY DEF IInv, TypeOK
<1>2. /\ request' = [request EXCEPT ![q].state = "deleted"]
      /\ UNCHANGED <<run, tx, clock, seen>> /\ ~RowLocked(q)
  BY DEF Erase
<1>3. request' \in [Requests -> RequestRow]
  BY <1>1, <1>2 DEF RequestRow
<1>4. \A o \in Requests :
        /\ request'[o].run = request[o].run
        /\ request'[o].state = IF o = q THEN "deleted" ELSE request[o].state
  BY <1>1, <1>2 DEF RequestRow
<1>5. \A o \in Sessions : tx[o].pc \in Attaching =>
        request'[tx[o].request].state \in {"absent", "pending"}
  BY <1>2, <1>4 DEF IInv, TxInv, TxFact, Holding, RowLocked
<1>6. \A o \in Requests : request[o].run # None => request[o].state = "verified"
  BY DEF IInv, TypeOK
<1> QED BY <1>1, <1>2, <1>3, <1>4, <1>5, <1>6, RequestMoves

LEMMA RunStepKeeps ==
  ASSUME IInv, NEW r \in RunIds, RunStep(r)
  PROVE  IInv'
<1>1. run \in [RunIds -> RunRow]
  BY DEF IInv, TypeOK
<1>2. CASE Age(r)
  <2>1. run' \in [RunIds -> RunRow]
    BY <1>1, <1>2 DEF Age, RunRow
  <2>2. \A o \in RunIds :
          /\ run'[o].sites = run[o].sites /\ run'[o].panel = run[o].panel
          /\ run'[o].status = run[o].status
    BY <1>1, <1>2 DEF Age, RunRow
  <2> QED BY <1>2, <2>1, <2>2, RunMoves DEF Age, Exists
<1>3. ASSUME NEW from \in {"queued", "running"}, NEW to \in {"running", "done", "failed"},
             SetStatus(r, from, to)
      PROVE  IInv'
  <2>1. run' \in [RunIds -> RunRow]
    BY <1>1, <1>3 DEF SetStatus, RunRow
  <2>2. \A o \in RunIds :
          /\ run'[o].sites = run[o].sites /\ run'[o].panel = run[o].panel
          /\ run'[o].status = IF o = r THEN to ELSE run[o].status
    BY <1>1, <1>3 DEF SetStatus, RunRow
  <2>3. run[r].status = from
    BY <1>3 DEF SetStatus
  <2>4. \A o \in RunIds :
          /\ run'[o].status = "absent" <=> run[o].status = "absent"
          /\ Exists(o) => run'[o].status # "deleted"
    BY <2>2, <2>3 DEF Exists
  <2> QED BY <1>3, <2>1, <2>2, <2>4, RunMoves DEF SetStatus
<1> QED BY <1>2, <1>3 DEF RunStep, Start, PlanFails, Finish, Fail
-----------------------------------------------------------------------------
(* Commits *)

\* After a commit the transaction is over and the others are where they were.
LEMMA CommitFrame ==
  ASSUME IInv, NEW s \in Sessions, tx' = [tx EXCEPT ![s] = Idle]
  PROVE  /\ tx' \in [Sessions -> TxRow]
         /\ \A o \in Sessions : tx'[o] = IF o = s THEN Idle ELSE tx[o]
         /\ Apart'
<1>1. tx' \in [Sessions -> TxRow] /\ \A o \in Sessions : tx'[o] = IF o = s THEN Idle ELSE tx[o]
  BY IdleIsRow DEF IInv, TypeOK
<1>2. Apart'
  <2> SUFFICES ASSUME NEW o \in Sessions, NEW p \in Sessions, o # p
               PROVE  Disjoint(tx'[o], tx'[p])
    BY DEF Apart, Disjoint
  <2> QED BY <1>1, IdleFact DEF IInv, Apart
<1> QED BY <1>1, <1>2

\* What a commit must leave alone for another transaction.
LEMMA OthersKeepFacts ==
  ASSUME IInv, NEW s \in Sessions, tx' = [tx EXCEPT ![s] = Idle],
         \A r \in RunIds : run[r].status # "absent" =>
           /\ run'[r].status # "absent"
           /\ run'[r].sites = run[r].sites /\ run'[r].panel = run[r].panel,
         \A o \in Sessions \ {s} :
           /\ tx[o].pc \in Attaching => request'[tx[o].request].state = request[tx[o].request].state
           /\ tx[o].next # None => run'[tx[o].next].status = "absent"
           /\ tx[o].pc = "pointed" /\ tx[o].next = None => run'[tx[o].run].status # "deleted"
  PROVE  TxInv'
<1> SUFFICES ASSUME NEW o \in Sessions PROVE TxFact(tx[o])'
  BY DEF TxInv
<1>1. CASE o = s
  <2>1. tx'[o] = Idle
    BY <1>1, CommitFrame
  <2> QED BY <2>1, IdleIsRow DEF TxFact, Holding, Attaching
<1>2. CASE o # s
  <2>1. tx'[o] = tx[o] /\ TxFact(tx[o])
    BY <1>2, CommitFrame DEF IInv, TxInv
  <2>2. tx[o].pc \in {"chosen", "pointed"} =>
          \/ tx[o].next = tx[o].run
          \/ tx[o].next = None /\ Serves(tx[o].run, tx[o].request)'
    BY <2>1 DEF TxFact, Serves, CoversOtherDomains, SameQuestionSet
  <2>3. tx[o].pc \in {"erased", "spared", "condemned"} => run'[tx[o].run].status # "absent"
    BY <2>1 DEF TxFact
  <2>4. tx[o].pc = "pointed" /\ tx[o].next = None => Exists(tx[o].run)'
    BY <1>2, <2>1 DEF TxFact, Exists
  <2>5. tx[o].pc \in Attaching => request'[tx[o].request].state \in {"absent", "pending"}
    BY <1>2, <2>1 DEF TxFact
  <2>6. tx[o].next # None => run'[tx[o].next].status = "absent"
    BY <1>2
  <2> QED BY <2>1, <2>2, <2>3, <2>4, <2>5, <2>6 DEF TxFact
<1> QED BY <1>1, <1>2

LEMMA EraseRowFields ==
  ASSUME request \in [Requests -> RequestRow], NEW q \in Requests
  PROVE  /\ EraseRow(q) \in [Requests -> RequestRow]
         /\ \A o \in Requests :
              /\ EraseRow(q)[o].state = IF o = q THEN "deleted" ELSE request[o].state
              /\ EraseRow(q)[o].run = IF o = q THEN None ELSE request[o].run
BY DEF EraseRow, RequestRow

\* Requests lose their run, one is deleted, and a run nobody points at may go.
LEMMA RemovalKeeps ==
  ASSUME IInv, NEW s \in Sessions, tx' = [tx EXCEPT ![s] = Idle],
         NEW q \in Requests, tx[s].request = q, tx[s].pc \in {"spared", "condemned"},
         UNCHANGED <<clock, seen>>,
         request' \in [Requests -> RequestRow], run' \in [RunIds -> RunRow],
         request'[q].state = "deleted",
         \A o \in Requests \ {q} : request'[o].state = request[o].state,
         request'[q].run = None,
         \A o \in Requests : request'[o].run \in {None, request[o].run},
         \A r \in RunIds :
           /\ run'[r].sites = run[r].sites /\ run'[r].panel = run[r].panel
           /\ \/ run'[r].status = run[r].status
              \/ /\ run[r].status # "absent" /\ run'[r].status = "deleted"
                 /\ \A o \in Requests : request'[o].run # r
                 /\ \A o \in Sessions : ~(tx[o].pc = "pointed" /\ tx[o].run = r)
  PROVE  IInv'
<1>1. \A o \in Requests : request'[o].run # None => request'[o].state = "verified"
  <2> TAKE o \in Requests
  <2>1. request[o].run # None => request[o].state = "verified"
    BY DEF IInv, TypeOK
  <2> QED BY <2>1
<1>2. TypeOK'
  BY <1>1, CommitFrame DEF IInv, TypeOK
<1>3. TxInv'
  <2>1. ASSUME NEW o \in Sessions \ {s}
        PROVE  /\ tx[o].pc \in Attaching => request'[tx[o].request].state = request[tx[o].request].state
               /\ tx[o].next # None => run'[tx[o].next].status = "absent"
               /\ tx[o].pc = "pointed" /\ tx[o].next = None => run'[tx[o].run].status # "deleted"
    <3>1. TxFact(tx[o]) /\ Disjoint(tx[o], tx[s]) /\ tx[o].next \in RunIds \cup {None}
      BY DEF IInv, TxInv, Apart, TypeOK, TxRow
    <3>2. tx[o].pc \in Attaching => tx[o].request \in Requests \ {q}
      BY <3>1 DEF TxFact, Disjoint, Holding
    <3>3. tx[o].next # None => run'[tx[o].next].status = "absent"
      BY <3>1 DEF TxFact
    <3>4. tx[o].pc = "pointed" /\ tx[o].next = None => run'[tx[o].run].status # "deleted"
      BY <3>1 DEF TxFact, Exists
    <3> QED BY <3>2, <3>3, <3>4
  <2>2. \A r \in RunIds : run[r].status # "absent" =>
          /\ run'[r].status # "absent"
          /\ run'[r].sites = run[r].sites /\ run'[r].panel = run[r].panel
    OBVIOUS
  <2> QED BY <2>1, <2>2, OthersKeepFacts
<1>4. ReportFitsTheRequest'
  <2> SUFFICES ASSUME NEW o \in Requests, request'[o].run # None
               PROVE  /\ Exists(request[o].run)'
                      /\ CoversOtherDomains(request[o].run, o)'
                      /\ SameQuestionSet(request[o].run, o)'
    BY DEF ReportFitsTheRequest
  <2>1. request'[o].run = request[o].run /\ request[o].run \in RunIds
    BY DEF IInv, TypeOK, RequestRow
  <2>2. run'[request[o].run].status = run[request[o].run].status
    BY <2>1
  <2> QED BY <2>1, <2>2
        DEF IInv, ReportFitsTheRequest, Exists, CoversOtherDomains, SameQuestionSet
<1>5. RootInv'
  <2> SUFFICES ASSUME NEW o \in Requests
               PROVE  /\ request'[o].state \in {"absent", "pending"} => seen.answers[o] = {}
                      /\ \A r \in seen.answers[o] \ {None} :
                           /\ run'[r].status # "absent"
                           /\ request'[o].run # None => seen.root[r] = seen.root[request'[o].run]
    BY DEF RootInv
  <2>1. seen.answers[o] \ {None} \subseteq RunIds
    BY DEF IInv, TypeOK, SeenRow
  <2> QED BY <2>1 DEF IInv, RootInv
<1>6. SameRunEveryVisit'
  BY DEF IInv, SameRunEveryVisit
<1> QED BY <1>2, <1>3, <1>4, <1>5, <1>6, CommitFrame DEF IInv

LEMMA CommitEraseKeeps ==
  ASSUME IInv, NEW s \in Sessions, CommitErase(s)
  PROVE  IInv'
<1> DEFINE q == tx[s].request
<1>1. q \in Requests /\ request \in [Requests -> RequestRow] /\ run \in [RunIds -> RunRow]
  BY DEF CommitErase, IInv, TxInv, TxFact, Holding, TypeOK
<1>2. /\ request' = EraseRow(q) /\ tx' = [tx EXCEPT ![s] = Idle] /\ tx[s].pc = "spared"
      /\ UNCHANGED <<run, clock, seen>>
  BY DEF CommitErase
<1>3. /\ request' \in [Requests -> RequestRow]
      /\ request'[q].state = "deleted" /\ request'[q].run = None
      /\ \A o \in Requests \ {q} : request'[o].state = request[o].state
      /\ \A o \in Requests : request'[o].run \in {None, request[o].run}
  BY <1>1, <1>2, EraseRowFields
<1> HIDE DEF q
<1> QED BY <1>1, <1>2, <1>3, RemovalKeeps DEF q

LEMMA DeleteRunKeeps ==
  ASSUME IInv, NEW s \in Sessions, DeleteRun(s)
  PROVE  IInv'
<1> DEFINE q == tx[s].request
           r == tx[s].run
<1>1. /\ q \in Requests /\ r \in RunIds
      /\ request \in [Requests -> RequestRow] /\ run \in [RunIds -> RunRow]
  BY DEF DeleteRun, IInv, TxInv, TxFact, Holding, TypeOK
<1>2. /\ tx' = [tx EXCEPT ![s] = Idle] /\ tx[s].pc = "condemned"
      /\ UNCHANGED <<clock, seen>>
      /\ run' = [run EXCEPT ![r].status = "deleted"]
      /\ request' = [o \in Requests |->
           IF o = q THEN EraseRow(q)[q]
           ELSE IF o \in Linked(r) THEN [request[o] EXCEPT !.run = None] ELSE request[o]]
      /\ \A o \in Sessions : ~(tx[o].pc = "pointed" /\ tx[o].run = r)
  BY DEF DeleteRun
<1>3. /\ run' \in [RunIds -> RunRow]
      /\ \A o \in RunIds :
           /\ run'[o].sites = run[o].sites /\ run'[o].panel = run[o].panel
           /\ run'[o].status = IF o = r THEN "deleted" ELSE run[o].status
  BY <1>1, <1>2 DEF RunRow
<1>4. /\ request' \in [Requests -> RequestRow]
      /\ request'[q].state = "deleted" /\ request'[q].run = None
      /\ \A o \in Requests \ {q} :
           /\ request'[o].state = request[o].state
           /\ request'[o].run = IF request[o].run = r THEN None ELSE request[o].run
  <2>1. \A o \in Requests : [request[o] EXCEPT !.run = None] \in RequestRow
    BY <1>1 DEF RequestRow
  <2>2. request' \in [Requests -> RequestRow]
    BY <1>1, <1>2, <2>1, EraseRowFields
  <2>3. request'[q].state = "deleted" /\ request'[q].run = None
    BY <1>1, <1>2, EraseRowFields
  <2>4. ASSUME NEW o \in Requests \ {q}
        PROVE  /\ request'[o].state = request[o].state
               /\ request'[o].run = IF request[o].run = r THEN None ELSE request[o].run
    BY <1>1, <1>2 DEF Linked, RequestRow
  <2> QED BY <2>2, <2>3, <2>4
<1>5. run[r].status # "absent"
  BY <1>2 DEF IInv, TxInv, TxFact
<1>6. \A o \in Requests : request'[o].run # r
  BY <1>1, <1>4, RunAssumption
<1>7. \A o \in RunIds :
        /\ run'[o].sites = run[o].sites /\ run'[o].panel = run[o].panel
        /\ \/ run'[o].status = run[o].status
           \/ /\ run[o].status # "absent" /\ run'[o].status = "deleted"
              /\ \A p \in Requests : request'[p].run # o
              /\ \A p \in Sessions : ~(tx[p].pc = "pointed" /\ tx[p].run = o)
  BY <1>2, <1>3, <1>5, <1>6
<1>8. \A o \in Requests : request'[o].run \in {None, request[o].run}
  BY <1>4
<1> HIDE DEF q, r
<1> QED BY <1>1, <1>2, <1>3, <1>4, <1>7, <1>8, RemovalKeeps DEF q

LEMMA CommitAttachKeeps ==
  ASSUME IInv, NEW s \in Sessions, CommitAttach(s)
  PROVE  IInv'
<1> DEFINE q == tx[s].request
           r == tx[s].run
           n == tx[s].next
           new == NewRun(q, tx[s].start)
           root == IF n = r THEN r ELSE seen.root[r]
<1>1. /\ tx[s].pc = "pointed" /\ tx' = [tx EXCEPT ![s] = Idle] /\ clock' = clock
      /\ request' = [request EXCEPT ![q].state = "verified", ![q].run = r]
      /\ run' = IF n = r THEN [run EXCEPT ![r] = new] ELSE run
      /\ seen' = [seen EXCEPT !.answers[q] = @ \cup {r}, !.asked[r] = @ \cup {q}, !.root[r] = root]
  BY DEF CommitAttach
<1>2. /\ request \in [Requests -> RequestRow] /\ run \in [RunIds -> RunRow]
      /\ seen \in SeenRow /\ tx[s] \in TxRow
  BY DEF IInv, TypeOK
<1>3. /\ q \in Requests /\ r \in RunIds /\ request[q].state \in {"absent", "pending"}
      /\ request[q].run = None /\ seen.answers[q] = {}
      /\ \/ n = r /\ run[r].status = "absent"
         \/ n = None /\ Exists(r) /\ CoversOtherDomains(r, q) /\ SameQuestionSet(r, q)
  BY <1>1, RunAssumption DEF IInv, TypeOK, TxInv, TxFact, Holding, Attaching, Serves, RootInv
<1>4. r # None
  BY <1>3, RunAssumption
<1>5. /\ new \in RunRow /\ new.status = "queued"
      /\ new.panel = PanelOf[q] /\ new.sites = SitesOf[q]
  <2>1. PanelOf[q] \in Panels /\ SitesOf[q] \in SUBSET Sites
    BY <1>3, ChoiceAssumption
  <2>2. tx[s].start \in Nat
    BY <1>2 DEF TxRow
  <2> QED BY <2>1, <2>2 DEF NewRun, RunRow
<1>6. /\ request' \in [Requests -> RequestRow]
      /\ request'[q].state = "verified" /\ request'[q].run = r
      /\ \A o \in Requests \ {q} : request'[o] = request[o]
  BY <1>1, <1>2, <1>3 DEF RequestRow
<1>7. /\ seen' \in SeenRow
      /\ seen'.answers = [seen.answers EXCEPT ![q] = {r}]
      /\ seen'.root = [seen.root EXCEPT ![r] = root]
  <2>1. /\ seen.answers \in [Requests -> SUBSET (RunIds \cup {None})]
        /\ seen.asked \in [RunIds -> SUBSET Requests]
        /\ seen.root \in [RunIds -> RunIds \cup {None}]
    BY <1>2 DEF SeenRow
  <2>2. root \in RunIds \cup {None}
    BY <1>3, <2>1
  <2> HIDE DEF root
  <2> DEFINE answers == [seen.answers EXCEPT ![q] = {r}]
             asked == [seen.asked EXCEPT ![r] = @ \cup {q}]
             roots == [seen.root EXCEPT ![r] = root]
  <2>3. seen' = [seen EXCEPT !.answers = answers, !.asked = asked, !.root = roots]
    BY <1>1, <1>3, <2>1
  <2>4. /\ answers \in [Requests -> SUBSET (RunIds \cup {None})]
        /\ asked \in [RunIds -> SUBSET Requests]
        /\ roots \in [RunIds -> RunIds \cup {None}]
    BY <1>3, <2>1, <2>2
  <2> HIDE DEF answers, asked, roots
  <2>5. seen' \in SeenRow /\ seen'.answers = answers /\ seen'.root = roots
    BY <1>2, <2>3, <2>4 DEF SeenRow
  <2> QED BY <2>5 DEF answers, roots
<1>8. \A o \in RunIds :
        /\ run[o].status # "absent" => run'[o] = run[o]
        /\ n = r => run'[r] = new
  BY <1>1, <1>2, <1>3, RunAssumption DEF Exists
<1>9. run' \in [RunIds -> RunRow]
  BY <1>1, <1>2, <1>5
<1>10. \A o \in RunIds : run[o].status # "absent" => seen'.root[o] = seen.root[o]
  BY <1>2, <1>3, <1>7, RunAssumption DEF SeenRow
<1>11. seen'.answers[q] = {r} /\ \A o \in Requests \ {q} : seen'.answers[o] = seen.answers[o]
  BY <1>2, <1>3, <1>7 DEF SeenRow
<1>12. /\ run'[r].status \notin {"absent", "deleted"}
       /\ run'[r].panel = PanelOf[q] /\ SitesOf[q] \subseteq run'[r].sites
  BY <1>3, <1>5, <1>8, RunAssumption DEF Exists, CoversOtherDomains, SameQuestionSet
<1> HIDE DEF q, r, n, new, root
<1>13. TypeOK'
  <2>1. \A o \in Requests : request'[o].run # None => request'[o].state = "verified"
    BY <1>6 DEF IInv, TypeOK
  <2> QED BY <1>1, <1>6, <1>7, <1>9, <2>1, CommitFrame DEF IInv, TypeOK
<1>14. TxInv'
  <2>1. ASSUME NEW o \in Sessions \ {s}
        PROVE  /\ tx[o].pc \in Attaching => request'[tx[o].request].state = request[tx[o].request].state
               /\ tx[o].next # None => run'[tx[o].next].status = "absent"
               /\ tx[o].pc = "pointed" /\ tx[o].next = None => run'[tx[o].run].status # "deleted"
    <3>1. TxFact(tx[o]) /\ tx[o].next \in RunIds \cup {None}
      BY DEF IInv, TxInv, TypeOK, TxRow
    <3>2. Disjoint(tx[o], tx[s])
      BY DEF IInv, Apart
    <3>3. tx[o].pc \in Attaching => tx[o].request \in Requests \ {q}
      BY <1>1, <3>1, <3>2 DEF TxFact, Disjoint, Holding, Attaching, q
    <3>4. tx[o].next # None => run'[tx[o].next].status = "absent"
      BY <1>1, <1>2, <3>1, <3>2 DEF TxFact, Disjoint, n, r
    <3>5. tx[o].pc = "pointed" /\ tx[o].next = None => run'[tx[o].run].status # "deleted"
      BY <1>8, <3>1 DEF TxFact, Exists
    <3> QED BY <1>6, <3>3, <3>4, <3>5
  <2>2. \A o \in RunIds : run[o].status # "absent" =>
          /\ run'[o].status # "absent"
          /\ run'[o].sites = run[o].sites /\ run'[o].panel = run[o].panel
    BY <1>8
  <2> QED BY <1>1, <2>1, <2>2, OthersKeepFacts
<1>15. ReportFitsTheRequest'
  <2> SUFFICES ASSUME NEW o \in Requests, request'[o].run # None
               PROVE  /\ Exists(request[o].run)'
                      /\ CoversOtherDomains(request[o].run, o)'
                      /\ SameQuestionSet(request[o].run, o)'
    BY DEF ReportFitsTheRequest
  <2>1. CASE o = q
    BY <1>6, <1>12, <2>1 DEF Exists, CoversOtherDomains, SameQuestionSet
  <2>2. CASE o # q
    <3>1. request'[o] = request[o] /\ request[o].run \in RunIds
      BY <1>2, <1>6, <2>2 DEF RequestRow
    <3> QED BY <1>8, <2>2, <3>1
          DEF IInv, ReportFitsTheRequest, Exists, CoversOtherDomains, SameQuestionSet
  <2> QED BY <2>1, <2>2
<1>16. RootInv'
  <2> SUFFICES ASSUME NEW o \in Requests
               PROVE  /\ request'[o].state \in {"absent", "pending"} => seen'.answers[o] = {}
                      /\ \A a \in seen'.answers[o] \ {None} :
                           /\ run'[a].status # "absent"
                           /\ request'[o].run # None => seen'.root[a] = seen'.root[request'[o].run]
    BY DEF RootInv
  <2>1. CASE o = q
    BY <1>6, <1>11, <1>12, <2>1
  <2>2. CASE o # q
    <3>1. request'[o] = request[o] /\ seen'.answers[o] = seen.answers[o]
      BY <1>6, <1>11, <2>2
    <3>2. seen.answers[o] \ {None} \subseteq RunIds /\ request[o].run \in RunIds \cup {None}
      BY <1>2 DEF SeenRow, RequestRow
    <3>3. request[o].run # None => run[request[o].run].status # "absent"
      BY DEF IInv, ReportFitsTheRequest, Exists
    <3> QED BY <1>8, <1>10, <3>1, <3>2, <3>3 DEF IInv, RootInv
  <2> QED BY <2>1, <2>2
<1>17. SameRunEveryVisit'
  <2> SUFFICES ASSUME NEW o \in Requests, NEW a \in seen'.answers[o] \ {None},
                      NEW b \in seen'.answers[o] \ {None}
               PROVE  seen'.root[a] = seen'.root[b]
    BY DEF SameRunEveryVisit
  <2>1. CASE o = q
    BY <1>11, <2>1
  <2>2. CASE o # q
    <3>1. a \in seen.answers[o] \ {None} /\ b \in seen.answers[o] \ {None}
      BY <1>11, <2>2
    <3>2. a \in RunIds /\ b \in RunIds
      BY <1>2, <3>1 DEF SeenRow
    <3> QED BY <1>10, <3>1, <3>2 DEF IInv, RootInv, SameRunEveryVisit
  <2> QED BY <2>1, <2>2
<1> QED BY <1>1, <1>13, <1>14, <1>15, <1>16, <1>17, CommitFrame DEF IInv

LEMMA CommitRerunKeeps ==
  ASSUME IInv, NEW s \in Sessions, CommitRerun(s)
  PROVE  IInv'
<1> DEFINE r == tx[s].run
           n == tx[s].next
           new == Copy(r, tx[s].start)
<1>1. /\ tx[s].pc = "rerunning" /\ tx' = [tx EXCEPT ![s] = Idle] /\ clock' = clock
      /\ run' = [run EXCEPT ![n] = new]
      /\ request' = [q \in Requests |->
           IF q \in Linked(r) THEN [request[q] EXCEPT !.run = n] ELSE request[q]]
      /\ seen' = [seen EXCEPT !.asked[n] = Linked(r), !.root[n] = seen.root[r]]
  BY DEF CommitRerun
<1>2. /\ request \in [Requests -> RequestRow] /\ run \in [RunIds -> RunRow]
      /\ seen \in SeenRow /\ tx[s] \in TxRow
  BY DEF IInv, TypeOK
<1>3. r \in RunIds /\ n \in RunIds /\ run[n].status = "absent"
  BY <1>1, RunAssumption DEF IInv, TxInv, TxFact
<1>4. n # None /\ r # None
  BY <1>3, RunAssumption
<1>5. /\ new \in RunRow /\ new.status = "queued"
      /\ new.panel = run[r].panel /\ new.sites = run[r].sites
  <2>1. run[r] \in RunRow /\ tx[s].start \in Nat
    BY <1>2, <1>3 DEF TxRow
  <2> QED BY <2>1 DEF Copy, RunRow
<1>6. /\ request' \in [Requests -> RequestRow]
      /\ \A q \in Requests :
           /\ request'[q].state = request[q].state
           /\ request'[q].run = IF request[q].run = r THEN n ELSE request[q].run
  <2>1. \A q \in Requests : [request[q] EXCEPT !.run = n] \in RequestRow
    BY <1>2, <1>3 DEF RequestRow
  <2>2. request' \in [Requests -> RequestRow]
    BY <1>1, <1>2, <2>1
  <2>3. ASSUME NEW q \in Requests
        PROVE  /\ request'[q].state = request[q].state
               /\ request'[q].run = IF request[q].run = r THEN n ELSE request[q].run
    BY <1>1, <1>2 DEF Linked, RequestRow
  <2> QED BY <2>2, <2>3
<1>7. /\ seen' \in SeenRow /\ seen'.answers = seen.answers
      /\ seen'.root = [seen.root EXCEPT ![n] = seen.root[r]]
  <2> DEFINE asked == [seen.asked EXCEPT ![n] = Linked(r)]
             roots == [seen.root EXCEPT ![n] = seen.root[r]]
  <2>1. /\ seen.asked \in [RunIds -> SUBSET Requests]
        /\ seen.root \in [RunIds -> RunIds \cup {None}]
    BY <1>2 DEF SeenRow
  <2>2. seen' = [seen EXCEPT !.asked = asked, !.root = roots]
    BY <1>1
  <2>3. /\ asked \in [RunIds -> SUBSET Requests]
        /\ roots \in [RunIds -> RunIds \cup {None}]
    BY <1>3, <2>1 DEF Linked
  <2> HIDE DEF asked, roots
  <2>4. seen' \in SeenRow /\ seen'.answers = seen.answers /\ seen'.root = roots
    BY <1>2, <2>2, <2>3 DEF SeenRow
  <2> QED BY <2>4 DEF roots
<1>8. run' \in [RunIds -> RunRow]
  BY <1>1, <1>2, <1>5
<1>9. run'[n] = new /\ \A o \in RunIds : run[o].status # "absent" => run'[o] = run[o]
  BY <1>1, <1>2, <1>3
<1>10. /\ \A o \in RunIds : run[o].status # "absent" => seen'.root[o] = seen.root[o]
       /\ seen'.root[n] = seen.root[r]
  BY <1>2, <1>3, <1>7 DEF SeenRow
<1> HIDE DEF r, n, new
<1>11. TypeOK'
  <2>1. \A q \in Requests : request'[q].run # None => request'[q].state = "verified"
    BY <1>4, <1>6 DEF IInv, TypeOK
  <2> QED BY <1>1, <1>6, <1>7, <1>8, <2>1, CommitFrame DEF IInv, TypeOK
<1>12. TxInv'
  <2>1. ASSUME NEW o \in Sessions \ {s}
        PROVE  /\ tx[o].pc \in Attaching => request'[tx[o].request].state = request[tx[o].request].state
               /\ tx[o].next # None => run'[tx[o].next].status = "absent"
               /\ tx[o].pc = "pointed" /\ tx[o].next = None => run'[tx[o].run].status # "deleted"
    <3>1. TxFact(tx[o]) /\ tx[o].next \in RunIds \cup {None}
      BY DEF IInv, TxInv, TypeOK, TxRow
    <3>2. Disjoint(tx[o], tx[s])
      BY DEF IInv, Apart
    <3>3. tx[o].next # None => run'[tx[o].next].status = "absent"
      BY <1>1, <1>2, <3>1, <3>2 DEF TxFact, Disjoint, n
    <3>4. tx[o].pc = "pointed" /\ tx[o].next = None => run'[tx[o].run].status # "deleted"
      BY <1>9, <3>1 DEF TxFact, Exists
    <3> QED BY <1>6, <3>1, <3>3, <3>4 DEF TxFact, Holding
  <2>2. \A o \in RunIds : run[o].status # "absent" =>
          /\ run'[o].status # "absent"
          /\ run'[o].sites = run[o].sites /\ run'[o].panel = run[o].panel
    BY <1>9
  <2> QED BY <1>1, <2>1, <2>2, OthersKeepFacts
<1>13. ReportFitsTheRequest'
  <2> SUFFICES ASSUME NEW q \in Requests, request'[q].run # None
               PROVE  /\ Exists(request[q].run)'
                      /\ CoversOtherDomains(request[q].run, q)'
                      /\ SameQuestionSet(request[q].run, q)'
    BY DEF ReportFitsTheRequest
  <2>1. request[q].run # None
    BY <1>4, <1>6
  <2>2. /\ request[q].run \in RunIds /\ Exists(request[q].run)
        /\ CoversOtherDomains(request[q].run, q) /\ SameQuestionSet(request[q].run, q)
    BY <1>2, <2>1 DEF IInv, ReportFitsTheRequest, RequestRow
  <2>3. CASE request[q].run = r
    BY <1>5, <1>6, <1>9, <2>2, <2>3 DEF Exists, CoversOtherDomains, SameQuestionSet
  <2>4. CASE request[q].run # r
    BY <1>6, <1>9, <2>2, <2>4 DEF Exists, CoversOtherDomains, SameQuestionSet
  <2> QED BY <2>3, <2>4
<1>14. ASSUME NEW q \in Requests, NEW a \in seen.answers[q] \ {None}
       PROVE  /\ a \in RunIds /\ run[a].status # "absent"
              /\ run'[a].status # "absent" /\ seen'.root[a] = seen.root[a]
  <2>1. a \in RunIds /\ run[a].status # "absent"
    BY <1>2 DEF IInv, RootInv, SeenRow
  <2> QED BY <1>9, <1>10, <2>1
<1>15. RootInv'
  <2> SUFFICES ASSUME NEW q \in Requests
               PROVE  /\ request'[q].state \in {"absent", "pending"} => seen'.answers[q] = {}
                      /\ \A a \in seen'.answers[q] \ {None} :
                           /\ run'[a].status # "absent"
                           /\ request'[q].run # None => seen'.root[a] = seen'.root[request'[q].run]
    BY DEF RootInv
  <2>1. request'[q].state \in {"absent", "pending"} => seen'.answers[q] = {}
    BY <1>6, <1>7 DEF IInv, RootInv
  <2>2. request'[q].run # None =>
          /\ request[q].run # None
          /\ seen'.root[request'[q].run] = seen.root[request[q].run]
    <3>1. request[q].run # None => request[q].run \in RunIds /\ run[request[q].run].status # "absent"
      BY <1>2 DEF IInv, ReportFitsTheRequest, Exists, RequestRow
    <3> QED BY <1>4, <1>6, <1>10, <3>1
  <2>3. ASSUME NEW a \in seen'.answers[q] \ {None}
        PROVE  /\ run'[a].status # "absent"
               /\ request'[q].run # None => seen'.root[a] = seen'.root[request'[q].run]
    BY <1>7, <1>14, <2>2 DEF IInv, RootInv
  <2> QED BY <2>1, <2>3
<1>16. SameRunEveryVisit'
  BY <1>7, <1>14 DEF IInv, SameRunEveryVisit
<1> QED BY <1>1, <1>11, <1>12, <1>13, <1>15, <1>16, CommitFrame DEF IInv
-----------------------------------------------------------------------------
(* The invariant *)

LEMMA InitHolds == Init => IInv
<1> SUFFICES ASSUME Init PROVE IInv
  OBVIOUS
<1>1. TypeOK
  <2>1. request \in [Requests -> RequestRow]
    BY DEF Init, RequestRow
  <2>2. run \in [RunIds -> RunRow]
    BY ChoiceAssumption DEF Init, NoRun, RunRow
  <2>3. tx \in [Sessions -> TxRow]
    BY IdleIsRow DEF Init
  <2>4. seen \in SeenRow
    BY DEF Init, SeenRow
  <2>5. clock \in 0..MaxTx
    BY BoundAssumption DEF Init
  <2> QED BY <2>1, <2>2, <2>3, <2>4, <2>5 DEF TypeOK, Init
<1>2. TxInv /\ Apart
  <2>1. \A s \in Sessions : tx[s] = Idle
    BY DEF Init
  <2> QED BY <2>1, IdleFact DEF TxInv, Apart
<1>3. ReportFitsTheRequest /\ RootInv /\ SameRunEveryVisit
  BY DEF Init, ReportFitsTheRequest, RootInv, SameRunEveryVisit
<1> QED BY <1>1, <1>2, <1>3 DEF IInv

LEMMA StutterKeeps ==
  ASSUME IInv, UNCHANGED vars
  PROVE  IInv'
<1>1. UNCHANGED <<run, tx, clock, request, seen>>
  BY DEF vars
<1>2. \A r \in RunIds : Exists(r) => run'[r].status # "deleted"
  BY <1>1 DEF Exists
<1> QED BY <1>1, <1>2, RunMoves DEF IInv, TypeOK

LEMMA NextKeeps ==
  ASSUME IInv, [Next]_vars
  PROVE  IInv'
<1>1. ASSUME NEW s \in Visitors, VisitorStep(s) PROVE IInv'
  BY <1>1, OpenKeeps DEF VisitorStep, Sessions
<1>2. ASSUME NEW s \in Admins, AdminStep(s) PROVE IInv'
  <2>1. s \in Sessions
    BY DEF Sessions
  <2>2. ASSUME NEW p \in Prospects, Prospect(s, p) PROVE IInv'
    BY <2>1, <2>2, ProspectKeeps
  <2>3. ASSUME NEW q \in Requests, Erase(s, q) PROVE IInv'
    BY <2>1, <2>3, EraseKeeps, EraseNewKeeps
  <2>4. ASSUME NEW r \in RunIds, Rerun(s, r) PROVE IInv'
    BY <2>1, <2>4, RerunKeeps
  <2> QED BY <1>2, <2>1, <2>2, <2>3, <2>4, DecideKeeps, CommitEraseKeeps, DeleteRunKeeps,
             CommitRerunKeeps DEF AdminStep
<1>3. ASSUME NEW s \in Sessions, AttachStep(s) \/ Abort(s) PROVE IInv'
  BY <1>3, ChooseKeeps, PointKeeps, CommitAttachKeeps, AbortKeeps DEF AttachStep
<1>4. ASSUME NEW f \in Forms, Submit(f) \/ Expire(f) \/ OpenAgain(f) PROVE IInv'
  BY <1>4, FormKeeps
<1>5. ASSUME NEW r \in RunIds, RunStep(r) PROVE IInv'
  BY <1>5, RunStepKeeps
<1>6. ASSUME UNCHANGED vars PROVE IInv'
  BY <1>6, StutterKeeps
<1> QED BY <1>1, <1>2, <1>3, <1>4, <1>5, <1>6 DEF Next

\* What a transaction relies on holds whenever it is between two statements, and
\* the answers of a link stay within one run and its re-runs.
THEOREM Invariance == Spec => []IInv
<1>1. Init => IInv
  BY InitHolds
<1>2. IInv /\ [Next]_vars => IInv'
  BY NextKeeps
<1> QED BY <1>1, <1>2, PTL DEF Spec

\* Every reachable state is well typed, and only verified requests have a run.
THEOREM TypeCorrect == Spec => []TypeOK
<1>1. IInv => TypeOK
  BY DEF IInv
<1> QED BY <1>1, Invariance, PTL

\* The run a request points at exists, asked the request's question set and
\* credits every other site it lists, through reuse, deletions and re-runs
\* (coversOtherDomains and sameQuestionSet, domain.ts:38-55).
THEOREM ReportsFit == Spec => []ReportFitsTheRequest
<1>1. IInv => ReportFitsTheRequest
  BY DEF IInv
<1> QED BY <1>1, Invariance, PTL

\* Every visit of a link is answered with one run or a re-run of it
\* (verifyRequest, requests.ts:147-150).
THEOREM VisitsAgree == Spec => []SameRunEveryVisit
<1>1. IInv => SameRunEveryVisit
  BY DEF IInv
<1> QED BY <1>1, Invariance, PTL
-----------------------------------------------------------------------------
(* What commits do to the runs, the links and what was asked for *)

LEMMA AttachEffect ==
  ASSUME IInv, NEW s \in Sessions, CommitAttach(s)
  PROVE  LET q == tx[s].request
             r == tx[s].run
         IN
         /\ q \in Requests /\ r \in RunIds /\ request[q].run = None /\ clock' = clock
         /\ \A o \in Requests : request'[o].run = IF o = q THEN r ELSE request[o].run
         /\ \A o \in RunIds : seen'.asked[o] = IF o = r THEN seen.asked[r] \cup {q} ELSE seen.asked[o]
         /\ \A o \in RunIds : run[o].status # "absent" => seen'.root[o] = seen.root[o]
         /\ \/ tx[s].next = None /\ UNCHANGED run /\ run[r].status # "absent"
            \/ /\ tx[s].next = r /\ run[r].status = "absent"
               /\ \A o \in RunIds : run'[o] = IF o = r THEN NewRun(q, tx[s].start) ELSE run[o]
<1> DEFINE q == tx[s].request
           r == tx[s].run
           n == tx[s].next
           root == IF n = r THEN r ELSE seen.root[r]
<1>1. /\ tx[s].pc = "pointed" /\ clock' = clock
      /\ request' = [request EXCEPT ![q].state = "verified", ![q].run = r]
      /\ run' = IF n = r THEN [run EXCEPT ![r] = NewRun(q, tx[s].start)] ELSE run
      /\ seen' = [seen EXCEPT !.answers[q] = @ \cup {r}, !.asked[r] = @ \cup {q}, !.root[r] = root]
  BY DEF CommitAttach
<1>2. /\ request \in [Requests -> RequestRow] /\ run \in [RunIds -> RunRow]
      /\ seen \in SeenRow
  BY DEF IInv, TypeOK
<1>3. /\ q \in Requests /\ r \in RunIds /\ request[q].run = None /\ r # None
      /\ \/ n = r /\ run[r].status = "absent"
         \/ n = None /\ Exists(r)
  BY <1>1, RunAssumption DEF IInv, TypeOK, TxInv, TxFact, Holding, Attaching, Serves
<1>4. \A o \in Requests : request'[o].run = IF o = q THEN r ELSE request[o].run
  BY <1>1, <1>2, <1>3 DEF RequestRow
<1>5. /\ \A o \in RunIds : seen'.asked[o] = IF o = r THEN seen.asked[r] \cup {q} ELSE seen.asked[o]
      /\ \A o \in RunIds : seen'.root[o] = IF o = r THEN root ELSE seen.root[o]
  <2> HIDE DEF root, q, r
  <2>1. /\ seen.asked \in [RunIds -> SUBSET Requests]
        /\ seen.root \in [RunIds -> RunIds \cup {None}]
    BY <1>2 DEF SeenRow
  <2>2. seen'.asked = [seen.asked EXCEPT ![r] = @ \cup {q}] /\ seen'.root = [seen.root EXCEPT ![r] = root]
    BY <1>1, <1>2 DEF SeenRow
  <2> QED BY <1>3, <2>1, <2>2
<1>6. \/ n = None /\ UNCHANGED run /\ run[r].status # "absent"
      \/ /\ n = r /\ run[r].status = "absent"
         /\ \A o \in RunIds : run'[o] = IF o = r THEN NewRun(q, tx[s].start) ELSE run[o]
  BY <1>1, <1>2, <1>3 DEF Exists
<1> QED BY <1>1, <1>3, <1>4, <1>5, <1>6 DEF Exists

LEMMA RerunEffect ==
  ASSUME IInv, NEW s \in Sessions, CommitRerun(s)
  PROVE  LET r == tx[s].run
             n == tx[s].next
         IN
         /\ r \in RunIds /\ n \in RunIds /\ run[n].status = "absent" /\ clock' = clock
         /\ \A o \in Requests : request'[o].run = IF request[o].run = r THEN n ELSE request[o].run
         /\ \A o \in RunIds : seen'.asked[o] = IF o = n THEN Linked(r) ELSE seen.asked[o]
         /\ \A o \in RunIds : seen'.root[o] = IF o = n THEN seen.root[r] ELSE seen.root[o]
         /\ \A o \in RunIds \ {n} : run'[o] = run[o]
         /\ run'[n].rerun /\ run'[n].created = tx[s].start /\ run'[n].status = "queued"
         /\ run'[n].panel = run[r].panel /\ run'[n].sites = run[r].sites
<1> DEFINE r == tx[s].run
           n == tx[s].next
<1>1. /\ tx[s].pc = "rerunning" /\ clock' = clock
      /\ run' = [run EXCEPT ![n] = Copy(r, tx[s].start)]
      /\ request' = [q \in Requests |->
           IF q \in Linked(r) THEN [request[q] EXCEPT !.run = n] ELSE request[q]]
      /\ seen' = [seen EXCEPT !.asked[n] = Linked(r), !.root[n] = seen.root[r]]
  BY DEF CommitRerun
<1>2. /\ request \in [Requests -> RequestRow] /\ run \in [RunIds -> RunRow]
      /\ seen \in SeenRow
  BY DEF IInv, TypeOK
<1>3. r \in RunIds /\ n \in RunIds /\ run[n].status = "absent"
  BY <1>1, RunAssumption DEF IInv, TxInv, TxFact
<1>4. \A o \in Requests : request'[o].run = IF request[o].run = r THEN n ELSE request[o].run
  BY <1>1, <1>2 DEF Linked, RequestRow
<1>5. /\ \A o \in RunIds : seen'.asked[o] = IF o = n THEN Linked(r) ELSE seen.asked[o]
      /\ \A o \in RunIds : seen'.root[o] = IF o = n THEN seen.root[r] ELSE seen.root[o]
  <2> HIDE DEF n, r
  <2>1. /\ seen.asked \in [RunIds -> SUBSET Requests]
        /\ seen.root \in [RunIds -> RunIds \cup {None}]
    BY <1>2 DEF SeenRow
  <2>2. seen'.asked = [seen.asked EXCEPT ![n] = Linked(r)] /\ seen'.root = [seen.root EXCEPT ![n] = seen.root[r]]
    BY <1>1, <1>2 DEF SeenRow
  <2> QED BY <1>3, <2>1, <2>2
<1>6. /\ \A o \in RunIds \ {n} : run'[o] = run[o]
      /\ run'[n] = Copy(r, tx[s].start)
  BY <1>1, <1>2, <1>3
<1>7. run[r] \in RunRow
  BY <1>2, <1>3
<1>8. /\ run'[n].rerun /\ run'[n].created = tx[s].start /\ run'[n].status = "queued"
      /\ run'[n].panel = run[r].panel /\ run'[n].sites = run[r].sites
  BY <1>6, <1>7 DEF Copy, RunRow
<1> QED BY <1>1, <1>3, <1>4, <1>5, <1>6, <1>8

LEMMA RemovalEffect ==
  ASSUME IInv, NEW s \in Sessions, CommitErase(s) \/ DeleteRun(s)
  PROVE  LET q == tx[s].request
             r == tx[s].run
         IN
         /\ q \in Requests /\ r \in RunIds /\ UNCHANGED <<clock, seen>>
         /\ request'[q].run = None
         /\ \A o \in RunIds : /\ run'[o].rerun = run[o].rerun /\ run'[o].created = run[o].created
                              /\ run'[o].panel = run[o].panel /\ run'[o].sites = run[o].sites
         /\ \/ /\ tx[s].pc = "spared" /\ UNCHANGED run
               /\ \A o \in Requests \ {q} : request'[o].run = request[o].run
            \/ /\ tx[s].pc = "condemned" /\ run[r].status # "absent"
               /\ \A o \in Requests \ {q} : request'[o].run \in {request[o].run, None}
                                            /\ (request[o].run # r => request'[o].run = request[o].run)
               /\ \A o \in RunIds : run'[o].status = IF o = r THEN "deleted" ELSE run[o].status
<1> DEFINE q == tx[s].request
           r == tx[s].run
<1>1. /\ q \in Requests /\ r \in RunIds /\ run[r].status # "absent"
      /\ request \in [Requests -> RequestRow] /\ run \in [RunIds -> RunRow]
  BY DEF CommitErase, DeleteRun, IInv, TxInv, TxFact, Holding, TypeOK
<1>2. CASE CommitErase(s)
  <2>1. request' = EraseRow(q) /\ UNCHANGED <<run, clock, seen>> /\ tx[s].pc = "spared"
    BY <1>2 DEF CommitErase
  <2> QED BY <1>1, <2>1, EraseRowFields
<1>3. CASE DeleteRun(s)
  <2>1. /\ tx[s].pc = "condemned" /\ UNCHANGED <<clock, seen>>
        /\ run' = [run EXCEPT ![r].status = "deleted"]
        /\ request' = [o \in Requests |->
             IF o = q THEN EraseRow(q)[q]
             ELSE IF o \in Linked(r) THEN [request[o] EXCEPT !.run = None] ELSE request[o]]
    BY <1>3 DEF DeleteRun
  <2>2. \A o \in RunIds :
           /\ run'[o].rerun = run[o].rerun /\ run'[o].created = run[o].created
           /\ run'[o].panel = run[o].panel /\ run'[o].sites = run[o].sites
           /\ run'[o].status = IF o = r THEN "deleted" ELSE run[o].status
    BY <1>1, <2>1 DEF RunRow
  <2>3. request'[q].run = None
    BY <1>1, <2>1, EraseRowFields
  <2>4. \A o \in Requests \ {q} :
          request'[o].run = IF request[o].run = r THEN None ELSE request[o].run
    BY <1>1, <2>1 DEF Linked, RequestRow
  <2> QED BY <1>1, <2>1, <2>2, <2>3, <2>4
<1> QED BY <1>2, <1>3
-----------------------------------------------------------------------------
(* Transactions and runs are dated by a clock that only goes on *)

ClockInv ==
  /\ \A s \in Sessions : tx[s].start <= clock
  /\ \A r \in RunIds : run[r].created <= clock

LEMMA ClockInit == Init => ClockInv
BY DEF Init, ClockInv, Idle, NoRun

LEMMA ClockKeeps ==
  ASSUME IInv, ClockInv, clock' \in {clock, clock + 1},
         \A s \in Sessions : tx'[s].start \in {tx[s].start, 0, clock'},
         \A r \in RunIds : \/ run'[r].created = run[r].created
                           \/ \E s \in Sessions : run'[r].created = tx[s].start
  PROVE  ClockInv'
<1>1. clock \in Nat /\ clock' \in Nat /\ clock <= clock'
  BY BoundAssumption DEF IInv, TypeOK
<1>2. /\ \A s \in Sessions : tx[s].start \in Nat
      /\ \A r \in RunIds : run[r].created \in Nat
  BY DEF IInv, TypeOK, TxRow, RunRow
<1>3. \A n \in Nat : n <= clock => n <= clock'
  BY <1>1
<1>4. ASSUME NEW s \in Sessions PROVE tx'[s].start <= clock'
  BY <1>1, <1>2, <1>3 DEF ClockInv
<1>5. ASSUME NEW r \in RunIds PROVE run'[r].created <= clock'
  BY <1>2, <1>3 DEF ClockInv
<1> QED BY <1>4, <1>5 DEF ClockInv

LEMMA ClockNext ==
  ASSUME IInv, ClockInv, [Next]_vars
  PROVE  ClockInv'
<1>t. /\ request \in [Requests -> RequestRow] /\ run \in [RunIds -> RunRow]
      /\ tx \in [Sessions -> TxRow]
  BY DEF IInv, TypeOK
<1>i. Idle.start = 0
  BY DEF Idle
<1>s. Visitors \subseteq Sessions /\ Admins \subseteq Sessions
  BY DEF Sessions
<1>1. ASSUME NEW s \in Sessions, tx' = [tx EXCEPT ![s] = Idle], clock' = clock,
             \A r \in RunIds : \/ run'[r].created = run[r].created
                               \/ run'[r].created = tx[s].start
      PROVE  ClockInv'
  BY <1>t, <1>i, <1>1, ClockKeeps
<1>2. ASSUME NEW s \in Sessions, NEW t, tx' = [tx EXCEPT ![s] = t], clock' = clock + 1, t.start = clock + 1,
             UNCHANGED run
      PROVE  ClockInv'
  BY <1>t, <1>2, ClockKeeps
<1>3. ASSUME NEW s \in Sessions, NEW t, tx' = [tx EXCEPT ![s] = t], clock' = clock,
             t.start \in {tx[s].start, 0}, UNCHANGED run
      PROVE  ClockInv'
  BY <1>t, <1>3, ClockKeeps
<1>4. ASSUME NEW s \in Sessions, NEW q, NEW pc,
             tx' = [tx EXCEPT ![s] = [Idle EXCEPT !.pc = pc, !.request = q, !.start = clock + 1]],
             clock' = clock + 1, UNCHANGED run
      PROVE  ClockInv'
  <2>1. [Idle EXCEPT !.pc = pc, !.request = q, !.start = clock + 1].start = clock + 1
    BY DEF Idle
  <2> QED BY <1>2, <1>4, <2>1
<1>5. ASSUME NEW s \in Visitors, VisitorStep(s) PROVE ClockInv'
  BY <1>s, <1>4, <1>5 DEF VisitorStep, Open
<1>6. ASSUME NEW s \in Admins, AdminStep(s) PROVE ClockInv'
  <2>0. s \in Sessions
    BY <1>s
  <2>1. ASSUME NEW p \in Prospects, Prospect(s, p) PROVE ClockInv'
    BY <2>0, <1>4, <2>1 DEF Prospect
  <2>2. ASSUME NEW q \in Requests, Erase(s, q) PROVE ClockInv'
    <3>1. CASE request[q].run = None
      BY <2>2, <3>1, ClockKeeps DEF Erase
    <3>2. CASE request[q].run # None
      <4>1. [Idle EXCEPT !.pc = "erased", !.request = q, !.run = request[q].run].start = 0
        BY DEF Idle
      <4> QED BY <2>0, <2>2, <3>2, <4>1, <1>3 DEF Erase
    <3> QED BY <3>1, <3>2
  <2>3. ASSUME NEW r \in RunIds, Rerun(s, r) PROVE ClockInv'
    <3>1. PICK n : tx' = [tx EXCEPT ![s] =
              [Idle EXCEPT !.pc = "rerunning", !.run = r, !.next = n, !.start = clock + 1]]
      BY <2>3 DEF Rerun
    <3>2. [Idle EXCEPT !.pc = "rerunning", !.run = r, !.next = n, !.start = clock + 1].start = clock + 1
      BY DEF Idle
    <3> QED BY <2>0, <1>2, <2>3, <3>1, <3>2 DEF Rerun
  <2>4. CASE Decide(s)
    <3>1. PICK pc : tx' = [tx EXCEPT ![s] = [tx[s] EXCEPT !.pc = pc]]
      BY <2>4 DEF Decide
    <3>2. [tx[s] EXCEPT !.pc = pc].start = tx[s].start
      BY <1>t, <2>0 DEF TxRow
    <3> QED BY <2>0, <2>4, <3>1, <3>2, <1>3 DEF Decide
  <2>5. CASE CommitErase(s) \/ DeleteRun(s)
    BY <2>0, <2>5, <1>1, RemovalEffect DEF CommitErase, DeleteRun
  <2>6. CASE CommitRerun(s)
    <3>1. \A r \in RunIds : \/ run'[r].created = run[r].created
                            \/ run'[r].created = tx[s].start
      BY <2>0, <2>6, RerunEffect
    <3> QED BY <2>0, <2>6, <3>1, <1>1 DEF CommitRerun
  <2> QED BY <1>6, <2>1, <2>2, <2>3, <2>4, <2>5, <2>6 DEF AdminStep
<1>7. ASSUME NEW s \in Sessions, AttachStep(s) \/ Abort(s) PROVE ClockInv'
  <2>1. CASE Choose(s)
    <3>1. ASSUME NEW r, tx' = [tx EXCEPT ![s].pc = "chosen", ![s].run = r] PROVE ClockInv'
      <4>1. [tx[s] EXCEPT !.pc = "chosen", !.run = r].start = tx[s].start
        BY <1>t DEF TxRow
      <4>2. tx' = [tx EXCEPT ![s] = [tx[s] EXCEPT !.pc = "chosen", !.run = r]]
        BY <3>1
      <4> QED BY <2>1, <4>1, <4>2, <1>3 DEF Choose
    <3>2. ASSUME NEW n, tx' = [tx EXCEPT ![s].pc = "chosen", ![s].run = n, ![s].next = n] PROVE ClockInv'
      <4>1. [tx[s] EXCEPT !.pc = "chosen", !.run = n, !.next = n].start = tx[s].start
        BY <1>t DEF TxRow
      <4>2. tx' = [tx EXCEPT ![s] = [tx[s] EXCEPT !.pc = "chosen", !.run = n, !.next = n]]
        BY <3>2
      <4> QED BY <2>1, <4>1, <4>2, <1>3 DEF Choose
    <3> QED BY <2>1, <3>1, <3>2 DEF Choose
  <2>2. CASE Point(s)
    <3>1. [tx[s] EXCEPT !.pc = "pointed"].start = tx[s].start
      BY <1>t DEF TxRow
    <3>2. tx' = [tx EXCEPT ![s] = Idle] \/ tx' = [tx EXCEPT ![s] = [tx[s] EXCEPT !.pc = "pointed"]]
      BY <1>t, <2>2 DEF Point
    <3> QED BY <2>2, <3>1, <3>2, <1>3, <1>i DEF Point
  <2>3. CASE CommitAttach(s)
    <3>1. \A r \in RunIds : \/ run'[r].created = run[r].created
                            \/ run'[r].created = tx[s].start
      <4>1. NewRun(tx[s].request, tx[s].start).created = tx[s].start
        BY DEF NewRun
      <4>2. \/ UNCHANGED run
            \/ \A o \in RunIds :
                 run'[o] = IF o = tx[s].run THEN NewRun(tx[s].request, tx[s].start) ELSE run[o]
        BY <2>3, AttachEffect
      <4> QED BY <4>1, <4>2
    <3> QED BY <2>3, <3>1, <1>1 DEF CommitAttach
  <2>4. CASE Abort(s)
    BY <2>4, <1>3, <1>i DEF Abort
  <2> QED BY <1>7, <2>1, <2>2, <2>3, <2>4 DEF AttachStep
<1>8. ASSUME UNCHANGED <<tx, clock>>, \A r \in RunIds : run'[r].created = run[r].created
      PROVE  ClockInv'
  BY <1>8, ClockKeeps
<1>9. ASSUME NEW r \in RunIds, RunStep(r) PROVE ClockInv'
  <2>1. \A o \in RunIds : run'[o].created = run[o].created
    BY <1>t, <1>9 DEF RunStep, Start, PlanFails, Finish, Fail, SetStatus, Age, RunRow
  <2>2. UNCHANGED <<tx, clock>>
    BY <1>9 DEF RunStep, Start, PlanFails, Finish, Fail, SetStatus, Age
  <2> QED BY <1>8, <2>1, <2>2
<1> QED BY <1>5, <1>6, <1>7, <1>8, <1>9 DEF Next, vars, Submit, Expire, OpenAgain
-----------------------------------------------------------------------------
(* Runs and their requests: with one admin, neither is left without the other *)

OneAdmin == \A a, b \in Admins : a = b

Editing == {"erased", "spared", "condemned", "rerunning"}

\* The runs between two steps: one that was asked for has a request to be
\* planned from, unless a re-run has taken them all.
RunsKept ==
  \A r \in RunIds :
    /\ run[r].status = "absent" => ~run[r].rerun
    /\ Exists(r) /\ ~run[r].rerun => seen.asked[r] # {}
    /\ Linked(r) \subseteq seen.asked[r]
    /\ Exists(r) /\ ~Replaced(r) /\ seen.asked[r] # {} => Linked(r) # {}

\* What the dashboard's transactions have read is still so.
EditFact(s) ==
  /\ tx[s].pc \in Editing => s \in Admins
  /\ tx[s].pc \in Editing \ {"rerunning"} => request[tx[s].request].run = tx[s].run
  /\ tx[s].pc = "spared" => Linked(tx[s].run) \ {tx[s].request} # {}
  /\ tx[s].pc = "rerunning" =>
       run[tx[s].run].status # "absent" /\ run[tx[s].run].created < tx[s].start

FollowInv == RunsKept /\ \A s \in Sessions : EditFact(s)

\* Steps that move no link and insert no run.
LinksStay ==
  /\ \A q \in Requests : request'[q].run = request[q].run
  /\ seen'.asked = seen.asked /\ seen'.root = seen.root
  /\ \A r \in RunIds :
       /\ run'[r].rerun = run[r].rerun /\ run'[r].created = run[r].created
       /\ run'[r].status = "absent" <=> run[r].status = "absent"
       /\ Exists(r)' <=> Exists(r)

LEMMA StartsKeepRuns ==
  ASSUME IInv, RunsKept, LinksStay
  PROVE  RunsKept'
<1>1. \A r \in RunIds : Linked(r)' = Linked(r)
  BY DEF LinksStay, Linked
<1>2. \A r \in RunIds : Replaced(r)' <=> Replaced(r)
  BY DEF LinksStay, Replaced
<1> QED BY <1>1, <1>2 DEF RunsKept, LinksStay

\* A transaction that stays where it is still knows what it read.
LEMMA StartsKeepFacts ==
  ASSUME IInv, LinksStay, NEW s \in Sessions, EditFact(s), tx'[s] = tx[s]
  PROVE  EditFact(s)'
<1>1. TxFact(tx[s])
  BY DEF IInv, TxInv
<1>2. tx[s].pc \in Editing \ {"rerunning"} => tx[s].request \in Requests
  BY <1>1 DEF TxFact, Holding, Editing
<1>3. tx[s].pc \in Editing => tx[s].run \in RunIds
  BY <1>1 DEF TxFact, Editing
<1>4. \A r \in RunIds : Linked(r)' = Linked(r)
  BY DEF LinksStay, Linked
<1> QED BY <1>2, <1>3, <1>4 DEF EditFact, LinksStay, Editing

\* Steps of transactions that change no row at all.
LEMMA RowsUntouched ==
  ASSUME UNCHANGED <<request, run>>, seen'.asked = seen.asked, seen'.root = seen.root
  PROVE  LinksStay
BY DEF LinksStay, Exists

\* A transaction that goes to a place where nothing of a run matters.
LEMMA OneMoves ==
  ASSUME IInv, FollowInv, LinksStay, NEW s \in Sessions,
         \A o \in Sessions \ {s} : tx'[o] = tx[o],
         EditFact(s)'
  PROVE  FollowInv'
<1>1. \A o \in Sessions : EditFact(o)'
  BY StartsKeepFacts DEF FollowInv
<1> QED BY <1>1, StartsKeepRuns DEF FollowInv

LEMMA IdleEdits ==
  ASSUME NEW s \in Sessions, tx'[s].pc \notin Editing
  PROVE  EditFact(s)'
BY DEF EditFact, Editing

LEMMA TxOf ==
  ASSUME IInv, NEW s \in Sessions, NEW t, tx' = [tx EXCEPT ![s] = t]
  PROVE  tx'[s] = t /\ \A o \in Sessions \ {s} : tx'[o] = tx[o]
BY DEF IInv, TypeOK

LEMMA BeginsFollow ==
  ASSUME IInv, FollowInv, NEW s \in Sessions,
         (\E f \in Forms : Open(s, f)) \/ (\E p \in Prospects : Prospect(s, p))
  PROVE  FollowInv'
<1>1. PICK q \in Requests :
        /\ tx' = [tx EXCEPT ![s] = [Idle EXCEPT !.pc = "locked", !.request = q, !.start = clock + 1]]
        /\ UNCHANGED <<request, run, seen>> /\ clock' = clock + 1
  BY DEF Open, Prospect, Requests
<1>2. [Idle EXCEPT !.pc = "locked", !.request = q, !.start = clock + 1].pc = "locked"
  BY DEF Idle
<1>3. LinksStay
  BY <1>1, RowsUntouched
<1>4. EditFact(s)'
  BY <1>1, <1>2, TxOf, IdleEdits DEF Editing
<1> QED BY <1>1, <1>3, <1>4, TxOf, OneMoves

LEMMA AttachesFollow ==
  ASSUME IInv, FollowInv, NEW s \in Sessions, Choose(s) \/ Point(s) \/ Abort(s)
  PROVE  FollowInv'
<1>1. /\ UNCHANGED <<request, run, clock, seen>>
      /\ tx[s] \in TxRow
  BY DEF Choose, Point, Abort, IInv, TypeOK
<1>2. LinksStay
  BY <1>1, RowsUntouched
<1>3. PICK t : tx' = [tx EXCEPT ![s] = t] /\ t.pc \notin Editing
  <2>1. CASE Choose(s)
    <3>1. ASSUME NEW r, tx' = [tx EXCEPT ![s].pc = "chosen", ![s].run = r]
          PROVE  \E t : tx' = [tx EXCEPT ![s] = t] /\ t.pc \notin Editing
      <4>1. [tx[s] EXCEPT !.pc = "chosen", !.run = r].pc = "chosen"
        BY <1>1 DEF TxRow
      <4>2. tx' = [tx EXCEPT ![s] = [tx[s] EXCEPT !.pc = "chosen", !.run = r]]
        BY <3>1
      <4> QED BY <4>1, <4>2 DEF Editing
    <3>2. ASSUME NEW n, tx' = [tx EXCEPT ![s].pc = "chosen", ![s].run = n, ![s].next = n]
          PROVE  \E t : tx' = [tx EXCEPT ![s] = t] /\ t.pc \notin Editing
      <4>1. [tx[s] EXCEPT !.pc = "chosen", !.run = n, !.next = n].pc = "chosen"
        BY <1>1 DEF TxRow
      <4>2. tx' = [tx EXCEPT ![s] = [tx[s] EXCEPT !.pc = "chosen", !.run = n, !.next = n]]
        BY <3>2
      <4> QED BY <4>1, <4>2 DEF Editing
    <3> QED BY <2>1, <3>1, <3>2 DEF Choose
  <2>2. CASE Point(s)
    <3>1. [tx[s] EXCEPT !.pc = "pointed"].pc = "pointed"
      BY <1>1 DEF TxRow
    <3>2. s \in DOMAIN tx
      BY DEF IInv, TypeOK
    <3> QED BY <2>2, <3>1, <3>2, IdleIsRow DEF Point, Editing
  <2>3. CASE Abort(s)
    BY <2>3, IdleIsRow DEF Abort, Editing
  <2> QED BY <2>1, <2>2, <2>3
<1>4. EditFact(s)'
  BY <1>3, TxOf, IdleEdits
<1> QED BY <1>2, <1>3, <1>4, TxOf, OneMoves

LEMMA EraseFollows ==
  ASSUME IInv, FollowInv, NEW s \in Admins, NEW q \in Requests, Erase(s, q)
  PROVE  FollowInv'
<1>1. s \in Sessions
  BY DEF Sessions
<1>2. CASE request[q].run = None
  <2>1. request' = [request EXCEPT ![q].state = "deleted"] /\ UNCHANGED <<run, tx, clock, seen>>
    BY <1>2 DEF Erase
  <2>2. \A o \in Requests : request'[o].run = request[o].run
    BY <2>1 DEF IInv, TypeOK, RequestRow
  <2>3. LinksStay
    BY <2>1, <2>2 DEF LinksStay, Exists
  <2>4. EditFact(s)'
    BY <1>1, <2>1, <2>3, StartsKeepFacts DEF FollowInv
  <2> QED BY <1>1, <2>1, <2>3, <2>4, OneMoves
<1>3. CASE request[q].run # None
  <2> DEFINE t == [Idle EXCEPT !.pc = "erased", !.request = q, !.run = request[q].run]
  <2>1. tx' = [tx EXCEPT ![s] = t] /\ UNCHANGED <<request, run, clock, seen>>
    BY <1>3 DEF Erase
  <2>2. t.pc = "erased" /\ t.request = q /\ t.run = request[q].run
    BY DEF Idle
  <2> HIDE DEF t
  <2>3. LinksStay
    BY <2>1, RowsUntouched
  <2>4. EditFact(s)'
    BY <1>1, <2>1, <2>2, TxOf DEF EditFact, Editing
  <2> QED BY <1>1, <2>1, <2>3, <2>4, TxOf, OneMoves
<1> QED BY <1>2, <1>3

LEMMA DecideFollows ==
  ASSUME IInv, FollowInv, NEW s \in Admins, Decide(s)
  PROVE  FollowInv'
<1>1. s \in Sessions /\ tx[s] \in TxRow
  BY DEF Sessions, IInv, TypeOK
<1> DEFINE pc == IF StillUsed(tx[s].request, tx[s].run) THEN "spared" ELSE "condemned"
           t == [tx[s] EXCEPT !.pc = pc]
<1>2. tx' = [tx EXCEPT ![s] = t] /\ UNCHANGED <<request, run, clock, seen>> /\ tx[s].pc = "erased"
  BY DEF Decide
<1>3. t.pc = pc /\ t.request = tx[s].request /\ t.run = tx[s].run
  BY <1>1 DEF TxRow
<1> HIDE DEF t
<1>4. LinksStay
  BY <1>2, RowsUntouched
<1>5. tx'[s] = t
  BY <1>1, <1>2, TxOf
<1>6. EditFact(s)
  BY <1>1 DEF FollowInv
<1>7. EditFact(s)'
  BY <1>2, <1>3, <1>5, <1>6 DEF EditFact, Editing, StillUsed, Linked
<1> QED BY <1>1, <1>2, <1>4, <1>7, TxOf, OneMoves

LEMMA RerunFollows ==
  ASSUME IInv, ClockInv, FollowInv, NEW s \in Admins, NEW r \in RunIds, Rerun(s, r)
  PROVE  FollowInv'
<1>1. s \in Sessions
  BY DEF Sessions
<1>2. PICK n \in FreeIds :
        tx' = [tx EXCEPT ![s] =
          [Idle EXCEPT !.pc = "rerunning", !.run = r, !.next = n, !.start = clock + 1]]
  BY DEF Rerun
<1> DEFINE t == [Idle EXCEPT !.pc = "rerunning", !.run = r, !.next = n, !.start = clock + 1]
<1>3. t.pc = "rerunning" /\ t.run = r /\ t.start = clock + 1
  BY DEF Idle
<1> HIDE DEF t
<1>4. /\ UNCHANGED <<request, run>> /\ clock' = clock + 1
      /\ seen'.asked = seen.asked /\ seen'.root = seen.root
  BY DEF Rerun, IInv, TypeOK, SeenRow
<1>5. LinksStay
  BY <1>4, RowsUntouched
<1>6. run[r].status # "absent" /\ run[r].created < clock + 1
  <2>1. run[r].status # "absent"
    BY DEF Rerun, Exists
  <2>2. run[r].created <= clock /\ run[r].created \in Nat /\ clock \in Nat
    BY BoundAssumption DEF ClockInv, IInv, TypeOK, RunRow
  <2> QED BY <2>1, <2>2
<1>7. tx'[s] = t
  BY <1>1, <1>2, TxOf DEF t
<1>8. EditFact(s)'
  BY <1>3, <1>4, <1>6, <1>7 DEF EditFact, Editing
<1> QED BY <1>1, <1>2, <1>5, <1>8, TxOf, OneMoves

LEMMA FormsFollow ==
  ASSUME IInv, FollowInv, NEW f \in Forms, Submit(f) \/ Expire(f) \/ OpenAgain(f)
  PROVE  FollowInv'
<1>1. \A q \in Requests : request'[q].run = request[q].run
  BY DEF Submit, Expire, OpenAgain, IInv, TypeOK, RequestRow
<1>2. seen'.asked = seen.asked /\ seen'.root = seen.root
  BY DEF Submit, Expire, OpenAgain, IInv, TypeOK, SeenRow
<1>3. UNCHANGED <<run, tx, clock>>
  BY DEF Submit, Expire, OpenAgain
<1>4. LinksStay
  BY <1>1, <1>2, <1>3 DEF LinksStay, Exists
<1> QED BY <1>3, <1>4, StartsKeepRuns, StartsKeepFacts DEF FollowInv

LEMMA RunsFollowOn ==
  ASSUME IInv, FollowInv, NEW r \in RunIds, RunStep(r)
  PROVE  FollowInv'
<1>1. UNCHANGED <<request, tx, clock, seen>> /\ run \in [RunIds -> RunRow]
  BY DEF RunStep, Start, PlanFails, Finish, Fail, SetStatus, Age, IInv, TypeOK
<1>2. CASE Age(r)
  <2>1. \A o \in RunIds : run'[o].rerun = run[o].rerun /\ run'[o].created = run[o].created
                          /\ run'[o].status = run[o].status
    BY <1>1, <1>2 DEF Age, RunRow
  <2>2. LinksStay
    BY <1>1, <2>1 DEF LinksStay, Exists
  <2> QED BY <1>1, <2>2, StartsKeepRuns, StartsKeepFacts DEF FollowInv
<1>3. ASSUME NEW from \in {"queued", "running"}, NEW to \in {"running", "done", "failed"},
             SetStatus(r, from, to)
      PROVE  FollowInv'
  <2>1. \A o \in RunIds : run'[o].rerun = run[o].rerun /\ run'[o].created = run[o].created
                          /\ run'[o].status = IF o = r THEN to ELSE run[o].status
    BY <1>1, <1>3 DEF SetStatus, RunRow
  <2>2. run[r].status = from
    BY <1>3 DEF SetStatus
  <2>3. LinksStay
    BY <1>1, <2>1, <2>2 DEF LinksStay, Exists
  <2> QED BY <1>1, <2>3, StartsKeepRuns, StartsKeepFacts DEF FollowInv
<1> QED BY <1>2, <1>3 DEF RunStep, Start, PlanFails, Finish, Fail

LEMMA AttachCommitFollows ==
  ASSUME IInv, ClockInv, FollowInv, NEW s \in Sessions, CommitAttach(s)
  PROVE  FollowInv'
<1>0. PICK q \in Requests, r \in RunIds : tx[s].request = q /\ tx[s].run = r
  BY AttachEffect
<1>1. /\ request[q].run = None
      /\ \A o \in Requests : request'[o].run = IF o = q THEN r ELSE request[o].run
      /\ \A o \in RunIds : seen'.asked[o] = IF o = r THEN seen.asked[r] \cup {q} ELSE seen.asked[o]
      /\ \A o \in RunIds : run[o].status # "absent" => seen'.root[o] = seen.root[o]
      /\ \/ UNCHANGED run /\ run[r].status # "absent"
         \/ /\ run[r].status = "absent"
            /\ \A o \in RunIds : run'[o] = IF o = r THEN NewRun(q, tx[s].start) ELSE run[o]
  <2>1. \/ UNCHANGED run /\ run[r].status # "absent"
        \/ /\ run[r].status = "absent"
           /\ \A o \in RunIds :
                run'[o] = IF o = r THEN NewRun(tx[s].request, tx[s].start) ELSE run[o]
    BY <1>0, AttachEffect
  <2> QED BY <1>0, <2>1, AttachEffect
<1>2. tx[s].pc = "pointed" /\ tx' = [tx EXCEPT ![s] = Idle]
  BY DEF CommitAttach
<1>3. NewRun(q, tx[s].start).status = "queued" /\ ~NewRun(q, tx[s].start).rerun
  BY DEF NewRun
<1>4. \A o \in RunIds : run[o].status # "absent" => run'[o] = run[o]
  BY <1>1
<1>5. \A o \in RunIds \ {r} : Linked(o)' = Linked(o)
  BY <1>1, RunAssumption DEF Linked
<1>6. Linked(r)' = Linked(r) \cup {q}
  BY <1>1 DEF Linked
<1>7. \A o \in RunIds : run[o].status # "absent" /\ Replaced(o) => Replaced(o)'
  BY <1>1, <1>4 DEF Replaced, FollowInv, RunsKept
<1>8. RunsKept'
  <2> SUFFICES ASSUME NEW o \in RunIds
               PROVE  /\ run'[o].status = "absent" => ~run'[o].rerun
                      /\ Exists(o)' /\ ~run'[o].rerun => seen'.asked[o] # {}
                      /\ Linked(o)' \subseteq seen'.asked[o]
                      /\ Exists(o)' /\ ~Replaced(o)' /\ seen'.asked[o] # {} => Linked(o)' # {}
    BY DEF RunsKept
  <2>1. CASE o = r
    BY <1>1, <1>3, <1>4, <1>6, <2>1 DEF FollowInv, RunsKept
  <2>2. CASE o # r
    <3>1. run'[o] = run[o] /\ seen'.asked[o] = seen.asked[o] /\ Linked(o)' = Linked(o)
      BY <1>1, <1>5, <2>2
    <3>2. Exists(o)' <=> Exists(o)
      BY <3>1 DEF Exists
    <3>3. Exists(o) => run[o].status # "absent"
      BY DEF Exists
    <3> QED BY <1>7, <3>1, <3>2, <3>3 DEF FollowInv, RunsKept
  <2> QED BY <2>1, <2>2
<1>9. ASSUME NEW o \in Sessions PROVE EditFact(o)'
  <2>1. CASE o = s
    BY <1>2, <2>1, TxOf, IdleEdits, IdleIsRow DEF Editing
  <2>2. CASE o # s
    <3>1. tx'[o] = tx[o] /\ EditFact(o) /\ TxFact(tx[o]) /\ Disjoint(tx[o], tx[s])
      BY <1>2, <2>2, TxOf DEF FollowInv, IInv, TxInv, Apart
    <3>2. tx[o].pc \in Editing \ {"rerunning"} => tx[o].request \in Requests \ {q}
      BY <1>0, <1>2, <3>1 DEF TxFact, Disjoint, Holding, Attaching, Editing
    <3>3. tx[o].pc \in Editing => tx[o].run \in RunIds
      BY <3>1 DEF TxFact, Editing
    <3>4. \A p \in RunIds : Linked(p) \subseteq Linked(p)'
      BY <1>5, <1>6
    <3> QED BY <1>1, <1>4, <3>1, <3>2, <3>3, <3>4 DEF EditFact, Editing
  <2> QED BY <2>1, <2>2
<1> QED BY <1>8, <1>9 DEF FollowInv

\* While the one admin commits, no other transaction is editing.
LEMMA OnlyEditor ==
  ASSUME OneAdmin, IInv, FollowInv, NEW s \in Admins, tx' = [tx EXCEPT ![s] = Idle],
         NEW o \in Sessions
  PROVE  EditFact(o)'
<1>1. s \in Sessions
  BY DEF Sessions
<1>2. CASE o = s
  BY <1>1, <1>2, TxOf, IdleEdits, IdleIsRow DEF Editing
<1>3. CASE o # s
  <2>1. tx'[o] = tx[o]
    BY <1>1, <1>3, TxOf
  <2>2. tx[o].pc \notin Editing
    BY <1>3 DEF FollowInv, EditFact, OneAdmin
  <2> QED BY <2>1, <2>2, IdleEdits
<1> QED BY <1>2, <1>3

LEMMA RemovalFollows ==
  ASSUME OneAdmin, IInv, FollowInv, NEW s \in Admins, CommitErase(s) \/ DeleteRun(s)
  PROVE  FollowInv'
<1>s. s \in Sessions
  BY DEF Sessions
<1>0. PICK q \in Requests, r \in RunIds : tx[s].request = q /\ tx[s].run = r
  BY <1>s, RemovalEffect
<1>1. /\ UNCHANGED seen
      /\ request'[q].run = None
      /\ \A o \in RunIds : run'[o].rerun = run[o].rerun /\ run'[o].created = run[o].created
      /\ \/ /\ tx[s].pc = "spared" /\ UNCHANGED run
            /\ \A o \in Requests \ {q} : request'[o].run = request[o].run
         \/ /\ tx[s].pc = "condemned" /\ run[r].status # "absent"
            /\ \A o \in Requests \ {q} : request'[o].run \in {request[o].run, None}
                                         /\ (request[o].run # r => request'[o].run = request[o].run)
            /\ \A o \in RunIds : run'[o].status = IF o = r THEN "deleted" ELSE run[o].status
  BY <1>s, <1>0, RemovalEffect
<1>2. request[q].run = r /\ (tx[s].pc = "spared" => Linked(r) \ {q} # {})
  BY <1>s, <1>0, <1>1 DEF FollowInv, EditFact, Editing
<1>3. \A o \in RunIds : Replaced(o)' <=> Replaced(o)
  BY <1>1 DEF Replaced
<1>4. \A o \in RunIds \ {r} : Linked(o)' = Linked(o)
  <2> SUFFICES ASSUME NEW o \in RunIds \ {r}, NEW p \in Requests
               PROVE  request'[p].run = o <=> request[p].run = o
    BY DEF Linked
  <2>1. o # None
    BY RunAssumption
  <2> QED BY <1>1, <1>2, <2>1
<1>5. Linked(r)' \subseteq Linked(r)
  <2>1. r # None
    BY <1>1, RunAssumption
  <2> QED BY <1>1, <2>1 DEF Linked
<1>6. CASE tx[s].pc = "spared"
  <2>1. Linked(r)' = Linked(r) \ {q}
    <3>1. r # None
      BY <1>1, RunAssumption
    <3> QED BY <1>1, <1>6, <3>1 DEF Linked
  <2>2. RunsKept'
    BY <1>1, <1>2, <1>3, <1>4, <1>6, <2>1 DEF FollowInv, RunsKept, Exists
  <2> QED BY <2>2, OnlyEditor DEF FollowInv, CommitErase, DeleteRun
<1>7. CASE tx[s].pc = "condemned"
  <2>1. \A o \in RunIds : run'[o].status = IF o = r THEN "deleted" ELSE run[o].status
    BY <1>1, <1>7
  <2>2. RunsKept'
    BY <1>1, <1>3, <1>4, <1>5, <2>1 DEF FollowInv, RunsKept, Exists
  <2> QED BY <2>2, OnlyEditor DEF FollowInv, CommitErase, DeleteRun
<1> QED BY <1>1, <1>6, <1>7

LEMMA RerunCommitFollows ==
  ASSUME OneAdmin, IInv, FollowInv, NEW s \in Admins, CommitRerun(s)
  PROVE  FollowInv'
<1>s. s \in Sessions
  BY DEF Sessions
<1>0. PICK r \in RunIds, n \in RunIds : tx[s].run = r /\ tx[s].next = n
  BY <1>s, RerunEffect
<1>1. /\ run[n].status = "absent"
      /\ \A o \in Requests : request'[o].run = IF request[o].run = r THEN n ELSE request[o].run
      /\ \A o \in RunIds : seen'.asked[o] = IF o = n THEN Linked(r) ELSE seen.asked[o]
      /\ \A o \in RunIds : seen'.root[o] = IF o = n THEN seen.root[r] ELSE seen.root[o]
      /\ \A o \in RunIds \ {n} : run'[o] = run[o]
      /\ run'[n].rerun /\ run'[n].created = tx[s].start /\ run'[n].status = "queued"
  BY <1>s, <1>0, RerunEffect
<1>2. tx' = [tx EXCEPT ![s] = Idle] /\ tx[s].pc = "rerunning"
  BY DEF CommitRerun
<1>3. run[r].status # "absent" /\ run[r].created < tx[s].start
  BY <1>s, <1>0, <1>2 DEF FollowInv, EditFact, Editing
<1>4. r # n
  BY <1>1, <1>3
<1>5. Linked(n) = {} /\ ~run[n].rerun
  <2>1. \A o \in Requests : request[o].run # n
    BY <1>1, RunAssumption DEF IInv, ReportFitsTheRequest, Exists
  <2> QED BY <1>1, <2>1 DEF Linked, FollowInv, RunsKept
<1>6. Linked(n)' = Linked(r)
  BY <1>1, <1>4, <1>5 DEF Linked
<1>7. \A o \in RunIds \ {n, r} : Linked(o)' = Linked(o)
  BY <1>1, <1>4 DEF Linked
<1>8. Linked(r)' = {}
  BY <1>1, <1>4 DEF Linked
<1>9. Replaced(r)'
  BY <1>1, <1>3, <1>4 DEF Replaced
<1>10. \A o \in RunIds \ {n} : Replaced(o) => Replaced(o)'
  <2> SUFFICES ASSUME NEW o \in RunIds \ {n}, NEW m \in RunIds, run[m].rerun,
                      seen.root[m] = seen.root[o], run[m].created > run[o].created
               PROVE  run'[m].rerun /\ seen'.root[m] = seen'.root[o] /\ run'[m].created > run'[o].created
    BY DEF Replaced
  <2>1. m # n
    BY <1>5
  <2> QED BY <1>1, <2>1
<1>11. RunsKept'
  <2> SUFFICES ASSUME NEW o \in RunIds
               PROVE  /\ run'[o].status = "absent" => ~run'[o].rerun
                      /\ Exists(o)' /\ ~run'[o].rerun => seen'.asked[o] # {}
                      /\ Linked(o)' \subseteq seen'.asked[o]
                      /\ Exists(o)' /\ ~Replaced(o)' /\ seen'.asked[o] # {} => Linked(o)' # {}
    BY DEF RunsKept
  <2>1. CASE o = n
    BY <1>1, <1>6, <2>1
  <2>2. CASE o # n
    <3>1. run'[o] = run[o] /\ seen'.asked[o] = seen.asked[o]
      BY <1>1, <2>2
    <3>2. Exists(o)' <=> Exists(o)
      BY <3>1 DEF Exists
    <3>3. CASE o = r
      BY <1>8, <1>9, <2>2, <3>1, <3>2, <3>3 DEF FollowInv, RunsKept
    <3>4. CASE o # r
      BY <1>7, <1>10, <2>2, <3>1, <3>2, <3>4 DEF FollowInv, RunsKept
    <3> QED BY <3>3, <3>4
  <2> QED BY <2>1, <2>2
<1> QED BY <1>2, <1>11, OnlyEditor DEF FollowInv

LEMMA FollowInit == Init => FollowInv
<1> SUFFICES ASSUME Init PROVE FollowInv
  OBVIOUS
<1>1. /\ \A q \in Requests : request[q].run = None
      /\ \A r \in RunIds : run[r].status = "absent" /\ ~run[r].rerun
      /\ \A s \in Sessions : tx[s].pc = "idle"
  BY DEF Init, NoRun, Idle
<1>2. \A r \in RunIds : Linked(r) = {}
  BY <1>1, RunAssumption DEF Linked
<1> QED BY <1>1, <1>2 DEF FollowInv, RunsKept, EditFact, Editing, Exists

LEMMA FollowNext ==
  ASSUME OneAdmin, IInv, ClockInv, FollowInv, [Next]_vars
  PROVE  FollowInv'
<1>s. Visitors \subseteq Sessions /\ Admins \subseteq Sessions
  BY DEF Sessions
<1>1. ASSUME NEW s \in Visitors, VisitorStep(s) PROVE FollowInv'
  BY <1>s, <1>1, BeginsFollow DEF VisitorStep
<1>2. ASSUME NEW s \in Admins, AdminStep(s) PROVE FollowInv'
  <2>1. ASSUME NEW p \in Prospects, Prospect(s, p) PROVE FollowInv'
    BY <1>s, <2>1, BeginsFollow
  <2> QED BY <1>2, <2>1, EraseFollows, RerunFollows, DecideFollows, RemovalFollows,
             RerunCommitFollows DEF AdminStep
<1>3. ASSUME NEW s \in Sessions, AttachStep(s) \/ Abort(s) PROVE FollowInv'
  BY <1>3, AttachesFollow, AttachCommitFollows DEF AttachStep
<1>4. ASSUME NEW f \in Forms, Submit(f) \/ Expire(f) \/ OpenAgain(f) PROVE FollowInv'
  BY <1>4, FormsFollow
<1>5. ASSUME NEW r \in RunIds, RunStep(r) PROVE FollowInv'
  BY <1>5, RunsFollowOn
<1>6. ASSUME UNCHANGED vars PROVE FollowInv'
  <2>1. LinksStay
    BY <1>6 DEF LinksStay, vars, Exists
  <2> QED BY <1>6, <2>1, StartsKeepRuns, StartsKeepFacts DEF FollowInv, vars
<1> QED BY <1>1, <1>2, <1>3, <1>4, <1>5, <1>6 DEF Next

\* With one admin, deleting, re-running and losing connections leave neither a
\* queued run without a request to plan it from nor the run of requests that
\* are all deleted (deleteRequest, createRerun, admin.ts:171-242).
THEOREM RunsAreFollowed == ASSUME OneAdmin PROVE Spec => []RunsFollowRequests
<1>1. Init => IInv /\ ClockInv /\ FollowInv
  BY InitHolds, ClockInit, FollowInit
<1>2. (IInv /\ ClockInv /\ FollowInv) /\ [Next]_vars => (IInv /\ ClockInv /\ FollowInv)'
  BY OneAdmin, NextKeeps, ClockNext, FollowNext
<1>3. IInv /\ FollowInv => RunsFollowRequests
  <2> SUFFICES ASSUME IInv, FollowInv PROVE RunsFollowRequests
    OBVIOUS
  <2>1. QueuedRunsHaveRequests
    BY DEF FollowInv, RunsKept, QueuedRunsHaveRequests, Exists
  <2>2. DeletionRemovesRuns
    <3> SUFFICES ASSUME NEW r \in RunIds, Exists(r), ~Replaced(r), seen.asked[r] # {}
                 PROVE  \E q \in seen.asked[r] : request[q].state # "deleted"
      BY DEF DeletionRemovesRuns
    <3>1. PICK q \in Requests : request[q].run = r
      BY DEF FollowInv, RunsKept, Linked
    <3>2. q \in seen.asked[r]
      BY <3>1 DEF FollowInv, RunsKept, Linked
    <3>3. request[q].state = "verified"
      BY <3>1, RunAssumption DEF IInv, TypeOK
    <3> QED BY <3>2, <3>3
  <2> QED BY <2>1, <2>2 DEF RunsFollowRequests
<1> QED BY <1>1, <1>2, <1>3, PTL DEF Spec
-----------------------------------------------------------------------------
(* Runs that are paid for: one live run per question set, unless it is hidden *)

Choosing == {"chosen", "pointed"}
Live(r) == Reusable(r) /\ ~run[r].rerun

\* The advisory lock lets one transaction between its choice and its commit, and
\* while that one means to insert a run, every live run that asked the same
\* questions is hidden already.
LiveInv ==
  /\ \A r, o \in RunIds :
       Live(r) /\ Live(o) /\ run[r].panel = run[o].panel /\ run[r].sites = run[o].sites
       => r = o \/ Hidden(r) \/ Hidden(o)
  /\ \A s, t \in Sessions : tx[s].pc \in Choosing /\ tx[t].pc \in Choosing => s = t
  /\ \A s \in Sessions : tx[s].pc \in Choosing /\ tx[s].next # None =>
       \A r \in RunIds : \A q \in Requests :
         Live(r) /\ tx[s].request = q /\ run[r].panel = PanelOf[q] /\ run[r].sites = SitesOf[q]
         => Hidden(r)

\* The reuse query finds a newest run when there is one to reuse.
LEMMA HasLatest ==
  ASSUME IInv, ClockInv, NEW r \in RunIds, Reusable(r)
  PROVE  \E m \in RunIds : IsLatest(m)
<1> DEFINE Ages == {clock - run[o].created : o \in {o \in RunIds : Reusable(o)}}
<1>1. clock \in Nat /\ \A o \in RunIds : run[o].created \in Nat /\ run[o].created <= clock
  BY BoundAssumption DEF IInv, TypeOK, RunRow, ClockInv
<1>2. Ages \subseteq Nat /\ Ages # {}
  BY <1>1
<1>3. PICK age \in Ages : \A a \in Ages : <<a, age>> \notin OpToRel(<, Nat)
  BY <1>2, NatLessThanWellFounded, WFMin
<1>4. \A a \in Ages : ~(a < age)
  BY <1>2, <1>3 DEF OpToRel
<1>5. PICK m \in RunIds : Reusable(m) /\ age = clock - run[m].created
  OBVIOUS
<1>6. ASSUME NEW o \in RunIds, Reusable(o) PROVE run[o].created <= run[m].created
  <2>1. ~(clock - run[o].created < clock - run[m].created)
    BY <1>4, <1>5, <1>6
  <2> QED BY <1>1, <2>1
<1> QED BY <1>5, <1>6 DEF IsLatest

\* Steps that choose nothing, keep the stored rows and bring no run to life.
RowsStay ==
  \A r \in RunIds : run[r].status # "absent" =>
    /\ run'[r].status # "absent" /\ run'[r].created = run[r].created
    /\ run'[r].panel = run[r].panel /\ run'[r].sites = run[r].sites
NothingChosen ==
  /\ RowsStay
  /\ \A r \in RunIds : Live(r)' => Live(r)
  /\ \A s \in Sessions : tx'[s].pc \in Choosing =>
       tx[s].pc \in Choosing /\ tx'[s].next = tx[s].next /\ tx'[s].request = tx[s].request

LEMMA HiddenStays ==
  ASSUME RowsStay, NEW r \in RunIds, run[r].status # "absent", Hidden(r)
  PROVE  Hidden(r)'
<1>1. PICK n \in RunIds :
        /\ run[n].status # "absent" /\ run[n].created >= run[r].created
        /\ run[n].panel # run[r].panel \/ ~(run[r].sites \subseteq run[n].sites)
  BY DEF Hidden
<1>2. /\ run'[n].status # "absent" /\ run'[n].created = run[n].created
      /\ run'[n].panel = run[n].panel /\ run'[n].sites = run[n].sites
      /\ run'[r].created = run[r].created
      /\ run'[r].panel = run[r].panel /\ run'[r].sites = run[r].sites
  BY <1>1 DEF RowsStay
<1> QED BY <1>1, <1>2 DEF Hidden

LEMMA LiveStored == ASSUME NEW r \in RunIds, Live(r) PROVE run[r].status # "absent"
BY DEF Live, Reusable

LEMMA NothingChosenKeeps ==
  ASSUME LiveInv, NothingChosen
  PROVE  LiveInv'
<1>1. ASSUME NEW r \in RunIds, Live(r)'
      PROVE  /\ Live(r) /\ run'[r].panel = run[r].panel /\ run'[r].sites = run[r].sites
             /\ Hidden(r) => Hidden(r)'
  BY <1>1, LiveStored, HiddenStays DEF NothingChosen, RowsStay
<1>2. ASSUME NEW r \in RunIds, NEW o \in RunIds, Live(r)', Live(o)',
             run'[r].panel = run'[o].panel, run'[r].sites = run'[o].sites
      PROVE  r = o \/ Hidden(r)' \/ Hidden(o)'
  BY <1>1, <1>2 DEF LiveInv
<1>3. \A s, t \in Sessions : tx'[s].pc \in Choosing /\ tx'[t].pc \in Choosing => s = t
  BY DEF LiveInv, NothingChosen
<1>4. ASSUME NEW s \in Sessions, tx'[s].pc \in Choosing, tx'[s].next # None,
             NEW r \in RunIds, NEW q \in Requests, Live(r)', tx'[s].request = q,
             run'[r].panel = PanelOf[q], run'[r].sites = SitesOf[q]
      PROVE  Hidden(r)'
  <2>1. tx[s].pc \in Choosing /\ tx[s].next # None /\ tx[s].request = q
    BY <1>4 DEF NothingChosen
  <2> QED BY <1>1, <1>4, <2>1 DEF LiveInv
<1> QED BY <1>2, <1>3, <1>4 DEF LiveInv

LEMMA ChooseKeepsLive ==
  ASSUME IInv, ClockInv, LiveInv, NEW s \in Sessions, Choose(s)
  PROVE  LiveInv'
<1>1. /\ tx \in [Sessions -> TxRow] /\ AdvisoryFree /\ UNCHANGED run /\ tx[s].pc = "locked"
      /\ tx[s].request \in Requests /\ tx[s].next = None
  BY DEF Choose, IInv, TypeOK, TxInv, TxFact, Holding, Attaching
<1>2. \A o \in Sessions : tx[o].pc \notin Choosing
  BY <1>1 DEF AdvisoryFree, Choosing
<1>3. PICK t : /\ tx' = [tx EXCEPT ![s] = t] /\ t.request = tx[s].request
               /\ t.next # None => \A r \in RunIds : ~Existing(r, tx[s].request)
  <2>1. ASSUME NEW r, tx' = [tx EXCEPT ![s].pc = "chosen", ![s].run = r]
        PROVE  \E t : /\ tx' = [tx EXCEPT ![s] = t] /\ t.request = tx[s].request
                      /\ t.next # None => \A o \in RunIds : ~Existing(o, tx[s].request)
    <3> DEFINE t == [tx[s] EXCEPT !.pc = "chosen", !.run = r]
    <3>1. t.request = tx[s].request /\ t.next = None
      BY <1>1 DEF TxRow
    <3>2. tx' = [tx EXCEPT ![s] = t]
      BY <2>1
    <3> QED BY <3>1, <3>2
  <2>2. ASSUME NEW n, tx' = [tx EXCEPT ![s].pc = "chosen", ![s].run = n, ![s].next = n],
               \A r \in RunIds : ~Existing(r, tx[s].request)
        PROVE  \E t : /\ tx' = [tx EXCEPT ![s] = t] /\ t.request = tx[s].request
                      /\ t.next # None => \A o \in RunIds : ~Existing(o, tx[s].request)
    <3> DEFINE t == [tx[s] EXCEPT !.pc = "chosen", !.run = n, !.next = n]
    <3>1. t.request = tx[s].request
      BY <1>1 DEF TxRow
    <3>2. tx' = [tx EXCEPT ![s] = t]
      BY <2>2
    <3> QED BY <2>2, <3>1, <3>2
  <2> QED BY <2>1, <2>2 DEF Choose
<1>4. tx'[s] = t /\ \A o \in Sessions \ {s} : tx'[o] = tx[o]
  BY <1>3, TxOf
<1>5. ASSUME t.next # None, NEW r \in RunIds, NEW q \in Requests, Live(r), t.request = q,
             run[r].panel = PanelOf[q], run[r].sites = SitesOf[q]
      PROVE  Hidden(r)
  <2>1. PICK m \in RunIds : IsLatest(m)
    BY <1>5, HasLatest DEF Live
  <2>2. run[m].status # "absent" /\ run[r].created <= run[m].created
    BY <1>5, <2>1 DEF IsLatest, Reusable, Live
  <2>3. ~(CoversOtherDomains(m, q) /\ SameQuestionSet(m, q))
    BY <1>3, <1>5, <2>1 DEF Existing
  <2>4. run[m].panel # run[r].panel \/ ~(run[r].sites \subseteq run[m].sites)
    BY <1>5, <2>3 DEF CoversOtherDomains, SameQuestionSet
  <2>5. run[r].created \in Nat /\ run[m].created \in Nat
    BY DEF IInv, TypeOK, RunRow
  <2> QED BY <2>2, <2>4, <2>5 DEF Hidden
<1>6. \A r \in RunIds : (Live(r)' <=> Live(r)) /\ (Hidden(r)' <=> Hidden(r))
  BY <1>1 DEF Live, Reusable, Hidden
<1>7. \A o \in Sessions : tx'[o].pc \in Choosing => o = s
  BY <1>2, <1>4
<1> QED BY <1>1, <1>4, <1>5, <1>6, <1>7 DEF LiveInv

LEMMA AttachKeepsLive ==
  ASSUME IInv, LiveInv, NEW s \in Sessions, CommitAttach(s)
  PROVE  LiveInv'
<1>1. /\ tx[s].pc = "pointed" /\ tx' = [tx EXCEPT ![s] = Idle]
      /\ tx'[s] = Idle /\ \A o \in Sessions \ {s} : tx'[o] = tx[o]
  BY TxOf DEF CommitAttach
<1>2. Idle.pc = "idle"
  BY IdleIsRow
<1>3. \A o \in Sessions : tx'[o].pc \notin Choosing
  BY <1>1, <1>2 DEF LiveInv, Choosing
<1>4. CASE UNCHANGED run
  <2>1. \A r \in RunIds : Live(r)' <=> Live(r)
    BY <1>4 DEF Live, Reusable
  <2> QED BY <1>3, <1>4, <2>1, NothingChosenKeeps DEF NothingChosen, RowsStay
<1>5. ASSUME NEW q \in Requests, NEW r \in RunIds, tx[s].request = q,
             tx[s].next = r, run[r].status = "absent",
             NEW n, \A o \in RunIds : run'[o] = IF o = r THEN NewRun(q, n) ELSE run[o]
      PROVE  LiveInv'
  <2>1. RowsStay
    BY <1>5 DEF RowsStay
  <2>2. ASSUME NEW o \in RunIds \ {r}, Live(o)'
        PROVE  /\ Live(o) /\ run'[o].panel = run[o].panel /\ run'[o].sites = run[o].sites
               /\ Hidden(o) => Hidden(o)'
    <3>1. Live(o) /\ run'[o] = run[o]
      BY <1>5, <2>2 DEF Live, Reusable
    <3> QED BY <2>1, <3>1, LiveStored, HiddenStays
  <2>3. run'[r].panel = PanelOf[q] /\ run'[r].sites = SitesOf[q]
    BY <1>5 DEF NewRun
  <2>4. ASSUME NEW o \in RunIds \ {r}, Live(o)',
               run'[o].panel = PanelOf[q], run'[o].sites = SitesOf[q]
        PROVE  Hidden(o)'
    <3>1. tx[s].pc \in Choosing /\ tx[s].next # None
      BY <1>1, <1>5, RunAssumption DEF Choosing
    <3> QED BY <1>5, <2>2, <2>4, <3>1 DEF LiveInv
  <2>5. ASSUME NEW o \in RunIds, NEW p \in RunIds, Live(o)', Live(p)',
               run'[o].panel = run'[p].panel, run'[o].sites = run'[p].sites
        PROVE  o = p \/ Hidden(o)' \/ Hidden(p)'
    <3>1. CASE o = r /\ p # r
      BY <2>3, <2>4, <2>5, <3>1
    <3>2. CASE p = r /\ o # r
      BY <2>3, <2>4, <2>5, <3>2
    <3>3. CASE o # r /\ p # r
      BY <2>2, <2>5, <3>3 DEF LiveInv
    <3> QED BY <3>1, <3>2, <3>3
  <2> QED BY <1>3, <2>5 DEF LiveInv
<1>6. PICK q \in Requests, r \in RunIds : tx[s].request = q /\ tx[s].run = r
  BY AttachEffect
<1>7. \/ UNCHANGED run
      \/ /\ tx[s].next = r /\ run[r].status = "absent"
         /\ \A o \in RunIds : run'[o] = IF o = r THEN NewRun(q, tx[s].start) ELSE run[o]
  BY <1>6, AttachEffect
<1> QED BY <1>4, <1>5, <1>6, <1>7

LEMMA CommitsKeepLive ==
  ASSUME IInv, LiveInv, NEW s \in Sessions, CommitErase(s) \/ DeleteRun(s) \/ CommitRerun(s)
  PROVE  LiveInv'
<1>1. /\ tx'[s] = Idle /\ \A o \in Sessions \ {s} : tx'[o] = tx[o]
      /\ Idle.pc = "idle"
  BY TxOf, IdleIsRow DEF CommitErase, DeleteRun, CommitRerun
<1>2. \A o \in Sessions : tx'[o].pc \in Choosing =>
        tx[o].pc \in Choosing /\ tx'[o].next = tx[o].next /\ tx'[o].request = tx[o].request
  BY <1>1 DEF Choosing
<1>3. CASE CommitErase(s) \/ DeleteRun(s)
  <2>1. PICK r \in RunIds :
          /\ \A o \in RunIds : /\ run'[o].rerun = run[o].rerun /\ run'[o].created = run[o].created
                               /\ run'[o].panel = run[o].panel /\ run'[o].sites = run[o].sites
          /\ \/ UNCHANGED run
             \/ /\ run[r].status # "absent"
                /\ \A o \in RunIds : run'[o].status = IF o = r THEN "deleted" ELSE run[o].status
    BY <1>3, RemovalEffect
  <2>2. CASE UNCHANGED run
    <3>1. \A o \in RunIds : Live(o)' <=> Live(o)
      BY <2>2 DEF Live, Reusable
    <3> QED BY <1>2, <2>2, <3>1, NothingChosenKeeps DEF NothingChosen, RowsStay
  <2>3. CASE /\ run[r].status # "absent"
             /\ \A o \in RunIds : run'[o].status = IF o = r THEN "deleted" ELSE run[o].status
    <3>1. \A o \in RunIds \ {r} : run'[o].recent = run[o].recent
      BY <1>3 DEF CommitErase, DeleteRun, IInv, TypeOK, RunRow
    <3>2. \A o \in RunIds : Live(o)' => Live(o)
      BY <2>1, <2>3, <3>1 DEF Live, Reusable
    <3>3. RowsStay
      BY <2>1, <2>3 DEF RowsStay
    <3> QED BY <1>2, <3>2, <3>3, NothingChosenKeeps DEF NothingChosen
  <2> QED BY <2>1, <2>2, <2>3
<1>4. CASE CommitRerun(s)
  <2>1. PICK n \in RunIds : /\ run[n].status = "absent" /\ run'[n].rerun
                            /\ \A o \in RunIds \ {n} : run'[o] = run[o]
    BY <1>4, RerunEffect
  <2>2. \A o \in RunIds : Live(o)' => Live(o)
    BY <2>1 DEF Live, Reusable
  <2>3. RowsStay
    BY <2>1 DEF RowsStay
  <2> QED BY <1>2, <2>2, <2>3, NothingChosenKeeps DEF NothingChosen
<1> QED BY <1>3, <1>4

LEMMA RunsStayDead ==
  ASSUME IInv, NEW r \in RunIds, RunStep(r), NEW o \in RunIds
  PROVE  /\ Live(o)' => Live(o)
         /\ run'[o].status = "absent" <=> run[o].status = "absent"
         /\ run'[o].panel = run[o].panel /\ run'[o].sites = run[o].sites
         /\ run'[o].created = run[o].created
<1>1. run \in [RunIds -> RunRow]
  BY DEF IInv, TypeOK
<1>2. CASE Age(r)
  <2>1. /\ run'[o].panel = run[o].panel /\ run'[o].sites = run[o].sites
        /\ run'[o].status = run[o].status /\ run'[o].rerun = run[o].rerun
        /\ run'[o].created = run[o].created
        /\ run'[o].recent => run[o].recent
    BY <1>1, <1>2 DEF Age, RunRow
  <2> QED BY <2>1 DEF Live, Reusable
<1>3. ASSUME NEW from \in {"queued", "running"}, NEW to \in {"running", "done", "failed"},
             SetStatus(r, from, to)
      PROVE  /\ Live(o)' => Live(o)
             /\ run'[o].status = "absent" <=> run[o].status = "absent"
             /\ run'[o].panel = run[o].panel /\ run'[o].sites = run[o].sites
             /\ run'[o].created = run[o].created
  <2>1. /\ run'[o].panel = run[o].panel /\ run'[o].sites = run[o].sites
        /\ run'[o].status = (IF o = r THEN to ELSE run[o].status)
        /\ run'[o].rerun = run[o].rerun /\ run'[o].recent = run[o].recent
        /\ run'[o].created = run[o].created
    BY <1>1, <1>3 DEF SetStatus, RunRow
  <2>2. run[r].status = from
    BY <1>3 DEF SetStatus
  <2> QED BY <2>1, <2>2 DEF Live, Reusable
<1> QED BY <1>2, <1>3 DEF RunStep, Start, PlanFails, Finish, Fail

LEMMA LiveInit == Init => LiveInv
<1> SUFFICES ASSUME Init PROVE LiveInv
  OBVIOUS
<1>1. /\ \A r \in RunIds : run[r].status = "absent"
      /\ \A s \in Sessions : tx[s].pc = "idle"
  BY DEF Init, NoRun, Idle
<1> QED BY <1>1 DEF LiveInv, Live, Reusable, Choosing

LEMMA LiveNext ==
  ASSUME IInv, ClockInv, LiveInv, [Next]_vars
  PROVE  LiveInv'
<1>s. Visitors \subseteq Sessions /\ Admins \subseteq Sessions
  BY DEF Sessions
<1>t. tx \in [Sessions -> TxRow]
  BY DEF IInv, TypeOK
<1>1. ASSUME UNCHANGED run, NEW s \in Sessions, NEW t, tx' = [tx EXCEPT ![s] = t],
             t.pc \in Choosing =>
               tx[s].pc \in Choosing /\ t.next = tx[s].next /\ t.request = tx[s].request
      PROVE  LiveInv'
  <2>1. \A r \in RunIds : Live(r)' <=> Live(r)
    BY <1>1 DEF Live, Reusable
  <2>2. tx'[s] = t /\ \A o \in Sessions \ {s} : tx'[o] = tx[o]
    BY <1>1, TxOf
  <2> QED BY <1>1, <2>1, <2>2, NothingChosenKeeps DEF NothingChosen, RowsStay
<1>2. ASSUME UNCHANGED <<run, tx>> PROVE LiveInv'
  <2>1. \A r \in RunIds : Live(r)' <=> Live(r)
    BY <1>2 DEF Live, Reusable
  <2> QED BY <1>2, <2>1, NothingChosenKeeps DEF NothingChosen, RowsStay
<1>3. ASSUME NEW s \in Sessions, NEW q, UNCHANGED run,
             tx' = [tx EXCEPT ![s] = [Idle EXCEPT !.pc = "locked", !.request = q, !.start = clock + 1]]
      PROVE  LiveInv'
  <2>1. [Idle EXCEPT !.pc = "locked", !.request = q, !.start = clock + 1].pc = "locked"
    BY DEF Idle
  <2> QED BY <1>1, <1>3, <2>1 DEF Choosing
<1>4. ASSUME NEW s \in Visitors, VisitorStep(s) PROVE LiveInv'
  BY <1>s, <1>3, <1>4 DEF VisitorStep, Open
<1>5. ASSUME NEW s \in Admins, AdminStep(s) PROVE LiveInv'
  <2>0. s \in Sessions
    BY <1>s
  <2>1. ASSUME NEW p \in Prospects, Prospect(s, p) PROVE LiveInv'
    BY <2>0, <1>3, <2>1 DEF Prospect
  <2>2. ASSUME NEW q \in Requests, Erase(s, q) PROVE LiveInv'
    <3>1. [Idle EXCEPT !.pc = "erased", !.request = q, !.run = request[q].run].pc = "erased"
      BY DEF Idle
    <3> QED BY <2>0, <2>2, <3>1, <1>1, <1>2 DEF Erase, Choosing
  <2>3. ASSUME NEW r \in RunIds, Rerun(s, r) PROVE LiveInv'
    <3>1. PICK n : tx' = [tx EXCEPT ![s] =
              [Idle EXCEPT !.pc = "rerunning", !.run = r, !.next = n, !.start = clock + 1]]
      BY <2>3 DEF Rerun
    <3> DEFINE t == [Idle EXCEPT !.pc = "rerunning", !.run = r, !.next = n, !.start = clock + 1]
    <3>2. t.pc = "rerunning"
      BY DEF Idle
    <3>3. tx' = [tx EXCEPT ![s] = t] /\ UNCHANGED run
      BY <2>3, <3>1 DEF Rerun
    <3> HIDE DEF t
    <3> QED BY <2>0, <3>2, <3>3, <1>1 DEF Choosing
  <2>4. CASE Decide(s)
    <3>1. PICK pc \in {"spared", "condemned"} : tx' = [tx EXCEPT ![s] = [tx[s] EXCEPT !.pc = pc]]
      BY <2>4 DEF Decide
    <3>2. [tx[s] EXCEPT !.pc = pc].pc = pc
      BY <1>t, <2>0 DEF TxRow
    <3> QED BY <2>0, <2>4, <3>1, <3>2, <1>1 DEF Decide, Choosing
  <2> QED BY <1>5, <2>0, <2>1, <2>2, <2>3, <2>4, CommitsKeepLive DEF AdminStep
<1>6. ASSUME NEW s \in Sessions, AttachStep(s) \/ Abort(s) PROVE LiveInv'
  <2>1. CASE Point(s)
    <3> DEFINE t == [tx[s] EXCEPT !.pc = "pointed"]
    <3>1. t.pc = "pointed" /\ t.next = tx[s].next /\ t.request = tx[s].request
      BY <1>t DEF TxRow
    <3>2. UNCHANGED run /\ tx[s].pc = "chosen" /\ (tx' = [tx EXCEPT ![s] = Idle] \/ tx' = [tx EXCEPT ![s] = t])
      BY <1>t, <2>1 DEF Point
    <3> HIDE DEF t
    <3> QED BY <3>1, <3>2, <1>1, IdleIsRow DEF Choosing
  <2>2. CASE Abort(s)
    BY <2>2, <1>1, IdleIsRow DEF Abort, Choosing
  <2> QED BY <1>6, <2>1, <2>2, ChooseKeepsLive, AttachKeepsLive DEF AttachStep
<1>7. ASSUME NEW r \in RunIds, RunStep(r) PROVE LiveInv'
  <2>1. UNCHANGED tx
    BY <1>7 DEF RunStep, Start, PlanFails, Finish, Fail, SetStatus, Age
  <2> QED BY <1>7, <2>1, RunsStayDead, NothingChosenKeeps DEF NothingChosen, RowsStay
<1> QED BY <1>2, <1>4, <1>5, <1>6, <1>7 DEF Next, vars, Submit, Expire, OpenAgain

\* Simultaneous visits never pay twice (attachToRun, requests.ts:68-72): of two
\* runs that asked the same questions of the same sites one at most is live,
\* re-runs apart, however many connections attach requests, delete them or are
\* lost; two are live only where a run for other questions, which the reuse query
\* found in their place, had been stored after one of them (requests.ts:100-101).
THEOREM LiveRunsAreSingle == Spec => []OneLiveRunPerQuestionSet
<1>1. Init => IInv /\ ClockInv /\ LiveInv
  BY InitHolds, ClockInit, LiveInit
<1>2. (IInv /\ ClockInv /\ LiveInv) /\ [Next]_vars => (IInv /\ ClockInv /\ LiveInv)'
  BY NextKeeps, ClockNext, LiveNext
<1>3. LiveInv => OneLiveRunPerQuestionSet
  BY DEF LiveInv, Live, OneLiveRunPerQuestionSet
<1> QED BY <1>1, <1>2, <1>3, PTL DEF Spec
=============================================================================

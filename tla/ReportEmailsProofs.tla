------------------------- MODULE ReportEmailsProofs -------------------------
(***************************************************************************)
(* Proofs about ReportEmails, for every number of requests, workers,       *)
(* attempts, crashes and re-runs.                                          *)
(*                                                                         *)
(* The argument: a claim is worth one number of attempts.  Whoever holds a *)
(* request has counted it just now, so it is in no backlog that is read    *)
(* meanwhile, and a row that was read before carries a smaller number and  *)
(* is not claimed any more.  This needs calls that end within a minute.    *)
(*                                                                         *)
(* The last parts are about two more of the components MCEmails runs, for  *)
(* all their constants: the rate limiter and the links of the reports.     *)
(***************************************************************************)
EXTENDS MCEmails, FiniteSetTheorems, WellFoundedInduction, TLAPS

Quick == "slow" \notin Faults

Held(q) == \E w \in Workers : sweeper[w].request = q
InSend(q) == \E w \in Workers : sweeper[w].request = q /\ At(w, "send")
InMark(q) == \E w \in Workers : sweeper[w].request = q /\ At(w, "mark")

\* Types but for the bounds on hist, which CountInv gives.
TypeInv ==
  /\ mail \in [Requests -> MailRow]
  /\ sweeper \in [Workers -> SweeperRow]
  /\ hist \in [Requests -> [delivered: Nat, excused: Nat]]
  /\ bound \in [crashes: 0..MaxCrashes, reruns: 0..MaxReruns]
  /\ \A w \in Workers : sweeper[w].request \in Requests <=> sweeper[w].pc \in {"send", "mark"}

\* A request in somebody's hands was counted within the minute, and is not
\* marked.
HeldInv ==
  \A q \in Requests : Held(q) =>
    mail[q].attempts > 0 /\ mail[q].minutes = 0 /\ ~mail[q].emailed

\* A row read by a sweep is due, or somebody has claimed it since.
DueInv ==
  \A w \in Workers : \A d \in sweeper[w].due :
    /\ d.attempts < MaxAttempts
    /\ d.attempts <= mail[d.request].attempts
    /\ Held(d.request) => d.attempts < mail[d.request].attempts

\* Every attempt is worth one email and one excuse.
Counted(q) ==
  /\ hist[q].delivered <= mail[q].attempts
  /\ hist[q].excused <= mail[q].attempts
  /\ InSend(q) => hist[q].delivered < mail[q].attempts
  /\ Held(q) => hist[q].excused < mail[q].attempts

CountInv == \A q \in Requests : Counted(q)

\* An email went out per excuse, and one more once it is about to be marked
\* or is marked.
Excused(q) ==
  /\ hist[q].delivered <= 1 + hist[q].excused
  /\ mail[q].emailed \/ InMark(q) \/ hist[q].delivered <= hist[q].excused
  /\ mail[q].emailed \/ InMark(q) => hist[q].delivered > 0

ExcuseInv == \A q \in Requests : Excused(q)

IInv == TypeInv /\ OneSender /\ HeldInv /\ DueInv /\ CountInv /\ ExcuseInv
-----------------------------------------------------------------------------
LEMMA InitHolds == Init => IInv
<1> SUFFICES ASSUME Init PROVE IInv
  OBVIOUS
<1>1. \A w \in Workers : sweeper[w] = AtTop
  BY DEF Init
<1>2. \A q \in Requests : ~Held(q)
  BY <1>1, RequestsAssumption DEF Held, AtTop
<1>3. \A q \in Requests : ~InSend(q) /\ ~InMark(q)
  BY <1>2 DEF Held, InSend, InMark
<1>4. TypeInv
  <2>1. AtTop \in SweeperRow
    BY DEF AtTop, SweeperRow, DueRow
  <2>2. mail \in [Requests -> MailRow]
    BY AttemptsAssumption DEF Init, MailRow, Settled
  <2>3. bound \in [crashes: 0..MaxCrashes, reruns: 0..MaxReruns]
    BY BoundsAssumption DEF Init
  <2> QED BY <1>1, <2>1, <2>2, <2>3, RequestsAssumption DEF Init, TypeInv, AtTop
<1>5. OneSender
  BY <1>1 DEF OneSender, AtTop
<1>6. HeldInv
  BY <1>2 DEF HeldInv
<1>7. DueInv
  BY <1>1 DEF DueInv, AtTop
<1>8. CountInv
  BY <1>2, <1>3, AttemptsAssumption DEF CountInv, Counted, Init
<1>9. ExcuseInv
  BY <1>3 DEF ExcuseInv, Excused, Init
<1> QED BY <1>4, <1>5, <1>6, <1>7, <1>8, <1>9 DEF IInv
-----------------------------------------------------------------------------
(* What happens to the requests outside the sweep *)

\* A step that moves no worker, tells of no email and leaves the attempts and
\* the marks of every request alone keeps everything, if no minute passes over
\* a request in somebody's hands.
LEMMA RowsMove ==
  ASSUME IInv, UNCHANGED <<sweeper, hist>>,
         mail' \in [Requests -> MailRow],
         bound' \in [crashes: 0..MaxCrashes, reruns: 0..MaxReruns],
         \A q \in Requests :
           /\ mail'[q].attempts = mail[q].attempts
           /\ mail'[q].emailed = mail[q].emailed
           /\ Held(q) => mail'[q].minutes = mail[q].minutes
  PROVE  IInv'
<1>1. \A q : Held(q)' = Held(q) /\ InSend(q)' = InSend(q) /\ InMark(q)' = InMark(q)
  BY DEF Held, InSend, InMark, At
<1>2. TypeInv'
  BY DEF IInv, TypeInv
<1>3. OneSender'
  BY DEF IInv, OneSender
<1>4. HeldInv'
  BY <1>1 DEF IInv, HeldInv
<1>5. DueInv'
  <2>1. \A w \in Workers : \A d \in sweeper[w].due : d.request \in Requests
    BY DEF IInv, TypeInv, SweeperRow, DueRow
  <2> QED BY <1>1, <2>1 DEF IInv, DueInv
<1>6. CountInv'
  BY <1>1 DEF IInv, CountInv, Counted
<1>7. ExcuseInv'
  BY <1>1 DEF IInv, ExcuseInv, Excused
<1> QED BY <1>2, <1>3, <1>4, <1>5, <1>6, <1>7 DEF IInv

\* One column of one request is set.
LEMMA ColumnMoves ==
  ASSUME IInv, NEW q \in Requests, UNCHANGED <<sweeper, hist>>,
         \/ mail' = [mail EXCEPT ![q].done = TRUE]
         \/ mail' = [mail EXCEPT ![q].done = FALSE]
         \/ mail' = [mail EXCEPT ![q].recent = FALSE]
         \/ mail' = [mail EXCEPT ![q].exists = FALSE],
         bound' \in [crashes: 0..MaxCrashes, reruns: 0..MaxReruns]
  PROVE  IInv'
<1> DEFINE Same(r, s) == /\ r.attempts = s.attempts
                        /\ r.emailed = s.emailed
                        /\ r.minutes = s.minutes
<1>1. PICK t \in MailRow : mail' = [mail EXCEPT ![q] = t] /\ Same(t, mail[q])
  <2>1. mail[q] \in MailRow
    BY DEF IInv, TypeInv
  <2>2. CASE mail' = [mail EXCEPT ![q].done = TRUE]
    <3>1. [mail[q] EXCEPT !.done = TRUE] \in MailRow
      BY <2>1 DEF MailRow
    <3> QED BY <2>1, <2>2, <3>1 DEF MailRow
  <2>3. CASE mail' = [mail EXCEPT ![q].done = FALSE]
    <3>1. [mail[q] EXCEPT !.done = FALSE] \in MailRow
      BY <2>1 DEF MailRow
    <3> QED BY <2>1, <2>3, <3>1 DEF MailRow
  <2>4. CASE mail' = [mail EXCEPT ![q].recent = FALSE]
    <3>1. [mail[q] EXCEPT !.recent = FALSE] \in MailRow
      BY <2>1 DEF MailRow
    <3> QED BY <2>1, <2>4, <3>1 DEF MailRow
  <2>5. CASE mail' = [mail EXCEPT ![q].exists = FALSE]
    <3>1. [mail[q] EXCEPT !.exists = FALSE] \in MailRow
      BY <2>1 DEF MailRow
    <3> QED BY <2>1, <2>5, <3>1 DEF MailRow
  <2> QED BY <2>2, <2>3, <2>4, <2>5
<1>2. mail' \in [Requests -> MailRow] /\ \A p \in Requests : Same(mail'[p], mail[p])
  BY <1>1 DEF IInv, TypeInv
<1> QED BY <1>2, RowsMove

LEMMA EnvironmentKeeps ==
  ASSUME IInv, NEW q \in Requests,
         RunDone(q) \/ Rerun(q) \/ WindowCloses(q) \/ Delete(q)
  PROVE  IInv'
<1>1. CASE Rerun(q)
  <2>1. bound' \in [crashes: 0..MaxCrashes, reruns: 0..MaxReruns]
    BY <1>1, BoundsAssumption DEF IInv, TypeInv, Rerun
  <2> QED BY <1>1, <2>1, ColumnMoves DEF Rerun
<1>2. CASE RunDone(q) \/ WindowCloses(q) \/ Delete(q)
  <2>1. bound' \in [crashes: 0..MaxCrashes, reruns: 0..MaxReruns]
    BY <1>2 DEF IInv, TypeInv, RunDone, WindowCloses, Delete
  <2> QED BY <1>2, <2>1, ColumnMoves DEF RunDone, WindowCloses, Delete
<1> QED BY <1>1, <1>2

LEMMA TickKeeps ==
  ASSUME IInv, Quick, Tick
  PROVE  IInv'
<1>1. \A q \in Requests : ~Held(q)
  BY DEF Quick, Tick, Held, IInv, TypeInv
<1>2. mail' \in [Requests -> MailRow]
  <2>1. ASSUME NEW t \in MailRow
        PROVE  [t EXCEPT !.minutes = IF @ < Settled THEN @ + 1 ELSE @] \in MailRow
    BY <2>1, AttemptsAssumption DEF MailRow, Settled
  <2> QED BY <2>1 DEF Tick, IInv, TypeInv
<1>3. \A q \in Requests : mail'[q].attempts = mail[q].attempts /\ mail'[q].emailed = mail[q].emailed
  BY DEF Tick, IInv, TypeInv, MailRow
<1>4. bound' \in [crashes: 0..MaxCrashes, reruns: 0..MaxReruns]
  BY DEF Tick, IInv, TypeInv
<1> QED BY <1>1, <1>2, <1>3, <1>4, RowsMove DEF Tick
-----------------------------------------------------------------------------
(* The sweep *)

\* Reading: nothing due is in anybody's hands, because it was counted within
\* the minute.
LEMMA ReadKeeps ==
  ASSUME IInv, NEW w \in Workers, ReadDue(w)
  PROVE  IInv'
<1> DEFINE due == {[request |-> q, attempts |-> mail[q].attempts] : q \in {x \in Requests : Due(x)}}
<1>1. sweeper' = [sweeper EXCEPT ![w] = [AtTop EXCEPT !.pc = "claim", !.due = due]]
  BY DEF ReadDue
<1>2. UNCHANGED <<mail, hist, bound>> /\ sweeper[w].pc = "top"
  BY DEF ReadDue, At
<1>3. \A d \in due : /\ d \in DueRow
                     /\ d.attempts < MaxAttempts
                     /\ d.attempts = mail[d.request].attempts
                     /\ ~Held(d.request)
  <2>1. ASSUME NEW q \in Requests, Due(q)
        PROVE  mail[q].attempts \in 0..MaxAttempts /\ mail[q].attempts < MaxAttempts /\ ~Held(q)
    BY <2>1, AttemptsAssumption DEF Due, BackedOff, IInv, TypeInv, HeldInv, MailRow
  <2> QED BY <2>1 DEF DueRow
<1> HIDE DEF due
<1>4. /\ sweeper'[w].pc = "claim" /\ sweeper'[w].due = due /\ sweeper'[w].request = "none"
      /\ \A v \in Workers \ {w} : sweeper'[v] = sweeper[v]
      /\ sweeper[w].request \notin Requests
  BY <1>1, <1>2 DEF IInv, TypeInv, AtTop
<1>5. sweeper' \in [Workers -> SweeperRow]
  <2>1. [AtTop EXCEPT !.pc = "claim", !.due = due] \in SweeperRow
    BY <1>3 DEF AtTop, SweeperRow
  <2> QED BY <1>1, <2>1 DEF IInv, TypeInv
<1>6. \A q \in Requests : Held(q)' = Held(q) /\ InSend(q)' = InSend(q) /\ InMark(q)' = InMark(q)
  BY <1>4, RequestsAssumption DEF Held, InSend, InMark, At
<1>7. TypeInv'
  BY <1>2, <1>4, <1>5, RequestsAssumption DEF IInv, TypeInv
<1>8. OneSender'
  BY <1>4 DEF IInv, OneSender
<1>9. HeldInv' /\ CountInv' /\ ExcuseInv'
  BY <1>2, <1>6 DEF IInv, HeldInv, CountInv, Counted, ExcuseInv, Excused
<1>10. DueInv'
  <2>1. ASSUME NEW v \in Workers, NEW d \in sweeper'[v].due
        PROVE  /\ d.request \in Requests
               /\ d.attempts < MaxAttempts
               /\ d.attempts <= mail[d.request].attempts
               /\ Held(d.request) => d.attempts < mail[d.request].attempts
    <3>1. CASE v = w
      BY <1>3, <1>4, <2>1, <3>1 DEF DueRow, IInv, TypeInv, MailRow
    <3>2. CASE v # w
      BY <1>4, <2>1, <3>2 DEF DueRow, IInv, TypeInv, DueInv, SweeperRow
    <3> QED BY <3>1, <3>2
  <2> QED BY <1>2, <1>6, <2>1 DEF DueInv
<1> QED BY <1>7, <1>8, <1>9, <1>10 DEF IInv

\* How a worker's turn with a request ends, or how it skips a row.
Ends(w) ==
  \/ UNCHANGED <<mail, hist>> /\ sweeper[w].pc # "mark"
  \/ At(w, "send") /\ UNCHANGED mail
      /\ hist' = [hist EXCEPT ![sweeper[w].request].delivered = @ + 1,
                              ![sweeper[w].request].excused = @ + 1]
  \/ At(w, "mark") /\ UNCHANGED mail
      /\ hist' = [hist EXCEPT ![sweeper[w].request].excused = @ + 1]
  \/ At(w, "mark") /\ UNCHANGED hist /\ mail' = Marked(sweeper[w].request)

\* A skipped row, the end of a sweep and every end of a request's turn: the
\* worker holds nothing any more and has no row it had not before.
LEMMA ReleaseKeeps ==
  ASSUME IInv, NEW w \in Workers,
         NEW t \in SweeperRow, t.pc \in {"top", "claim"}, t.request = "none",
         t.due \subseteq sweeper[w].due, sweeper' = [sweeper EXCEPT ![w] = t],
         bound' \in [crashes: 0..MaxCrashes, reruns: 0..MaxReruns],
         Ends(w)
  PROVE  IInv'
<1>1. PICK r : r = sweeper[w].request
  OBVIOUS
<1>2. /\ sweeper'[w] = t
      /\ \A v \in Workers \ {w} : sweeper'[v] = sweeper[v]
      /\ sweeper' \in [Workers -> SweeperRow]
  BY DEF IInv, TypeInv
<1>3. \A q \in Requests :
        /\ Held(q)' => Held(q) /\ q # r
        /\ InSend(q)' => InSend(q) /\ q # r
        /\ InMark(q)' => InMark(q) /\ q # r
        /\ q # r => InMark(q)' = InMark(q)
  BY <1>1, <1>2, RequestsAssumption DEF Held, InSend, InMark, At, IInv, OneSender
<1>4. At(w, "send") => r \in Requests /\ Held(r) /\ InSend(r)
  BY <1>1 DEF At, Held, InSend, IInv, TypeInv
<1>5. At(w, "mark") => r \in Requests /\ Held(r) /\ InMark(r)
  BY <1>1 DEF At, Held, InMark, IInv, TypeInv
<1>6. /\ mail' \in [Requests -> MailRow]
      /\ \A q \in Requests : /\ mail'[q].attempts = mail[q].attempts
                             /\ mail'[q].minutes = mail[q].minutes
                             /\ q # r => mail'[q].emailed = mail[q].emailed
  <2>1. CASE UNCHANGED mail
    BY <2>1 DEF IInv, TypeInv
  <2>2. CASE At(w, "mark") /\ mail' = Marked(r)
    <3>1. r \in Requests /\ mail[r] \in MailRow
      BY <1>5, <2>2 DEF IInv, TypeInv
    <3>2. PICK m : m = [mail[r] EXCEPT !.emailed = TRUE]
      OBVIOUS
    <3>3. m \in MailRow /\ m.attempts = mail[r].attempts /\ m.minutes = mail[r].minutes
      BY <3>1, <3>2 DEF MailRow
    <3>4. mail' = [mail EXCEPT ![r] = m]
      BY <2>2, <3>2 DEF Marked
    <3> QED BY <3>1, <3>3, <3>4 DEF IInv, TypeInv
  <2> QED BY <1>1, <2>1, <2>2 DEF Ends
<1>7. hist' \in [Requests -> [delivered: Nat, excused: Nat]]
      /\ \A q \in Requests : q # r => hist'[q] = hist[q]
  <2>1. CASE UNCHANGED hist
    BY <2>1 DEF IInv, TypeInv
  <2>2. ASSUME NEW h \in [delivered: Nat, excused: Nat]
        PROVE  /\ [h EXCEPT !.delivered = @ + 1] \in [delivered: Nat, excused: Nat]
               /\ [h EXCEPT !.excused = @ + 1] \in [delivered: Nat, excused: Nat]
    BY <2>2
  <2>3. ASSUME NEW f \in [Requests -> [delivered: Nat, excused: Nat]], r \in Requests
        PROVE  LET d == [f EXCEPT ![r].delivered = @ + 1]
                   e == [f EXCEPT ![r].excused = @ + 1]
               IN  /\ d \in [Requests -> [delivered: Nat, excused: Nat]]
                   /\ e \in [Requests -> [delivered: Nat, excused: Nat]]
                   /\ \A q \in Requests : q # r => d[q] = f[q] /\ e[q] = f[q]
    BY <2>2, <2>3
  <2>4. CASE At(w, "send") /\ hist' = [hist EXCEPT ![r].delivered = @ + 1, ![r].excused = @ + 1]
    <3>1. r \in Requests /\ hist \in [Requests -> [delivered: Nat, excused: Nat]]
      BY <1>4, <2>4 DEF IInv, TypeInv
    <3>2. PICK d : d = [hist EXCEPT ![r].delivered = @ + 1]
      OBVIOUS
    <3>3. /\ d \in [Requests -> [delivered: Nat, excused: Nat]]
          /\ \A q \in Requests : q # r => d[q] = hist[q]
      BY <2>3, <3>1, <3>2
    <3>4. hist' = [d EXCEPT ![r].excused = @ + 1]
      BY <2>4, <3>1, <3>2
    <3> QED BY <2>3, <3>1, <3>3, <3>4
  <2>5. CASE At(w, "mark") /\ hist' = [hist EXCEPT ![r].excused = @ + 1]
    <3>1. r \in Requests /\ hist \in [Requests -> [delivered: Nat, excused: Nat]]
      BY <1>5, <2>5 DEF IInv, TypeInv
    <3> QED BY <2>3, <2>5, <3>1
  <2> QED BY <1>1, <2>1, <2>4, <2>5 DEF Ends
<1>8. TypeInv'
  <2>1. t.request \notin Requests
    BY RequestsAssumption
  <2> QED BY <1>2, <1>6, <1>7, <2>1 DEF IInv, TypeInv
<1>9. OneSender'
  BY <1>2 DEF IInv, OneSender
<1>10. HeldInv'
  BY <1>3, <1>6 DEF IInv, HeldInv
<1>11. DueInv'
  <2>1. ASSUME NEW v \in Workers, NEW d \in sweeper'[v].due
        PROVE  d \in sweeper[v].due /\ d.request \in Requests
    BY <1>2, <2>1 DEF SweeperRow, DueRow
  <2> QED BY <1>3, <1>6, <2>1 DEF IInv, DueInv
<1>12. ASSUME NEW q \in Requests, q # r
       PROVE  Counted(q)' /\ Excused(q)'
  BY <1>3, <1>6, <1>7, <1>12 DEF IInv, CountInv, ExcuseInv, Counted, Excused
<1>13. ASSUME r \in Requests
       PROVE  Counted(r)' /\ Excused(r)'
  <2>1. ~Held(r)' /\ ~InSend(r)' /\ ~InMark(r)'
    BY <1>3, <1>13
  <2>2. /\ Counted(r) /\ Excused(r) /\ (InMark(r) => Held(r))
        /\ hist[r] \in [delivered: Nat, excused: Nat] /\ mail[r] \in MailRow
    BY <1>13 DEF IInv, CountInv, ExcuseInv, TypeInv, Held, InMark
  <2>3. CASE UNCHANGED <<mail, hist>> /\ sweeper[w].pc # "mark"
    <3>1. ~InMark(r)
      BY <1>1, <1>13, <2>3, RequestsAssumption DEF InMark, At, IInv, OneSender
    <3> QED BY <2>1, <2>2, <2>3, <3>1 DEF Counted, Excused
  <2>4. CASE At(w, "send") /\ UNCHANGED mail
             /\ hist' = [hist EXCEPT ![r].delivered = @ + 1,
                                     ![r].excused = @ + 1]
    <3>1. ~InMark(r) /\ ~mail[r].emailed
      BY <1>1, <1>4, <1>13, <2>4, RequestsAssumption DEF InMark, At, IInv, OneSender, HeldInv
    <3>2. hist'[r].delivered = hist[r].delivered + 1 /\ hist'[r].excused = hist[r].excused + 1
      BY <1>13, <2>2, <2>4 DEF IInv, TypeInv
    <3> QED BY <1>4, <2>1, <2>2, <2>4, <3>1, <3>2 DEF Counted, Excused, MailRow
  <2>5. CASE At(w, "mark") /\ UNCHANGED mail
             /\ hist' = [hist EXCEPT ![r].excused = @ + 1]
    <3>1. hist'[r].delivered = hist[r].delivered /\ hist'[r].excused = hist[r].excused + 1
      BY <1>13, <2>2, <2>5 DEF IInv, TypeInv
    <3>2. ~mail[r].emailed
      BY <1>5, <1>13, <2>5 DEF IInv, HeldInv
    <3> QED BY <1>5, <2>1, <2>2, <2>5, <3>1, <3>2 DEF Counted, Excused, MailRow
  <2>6. CASE At(w, "mark") /\ UNCHANGED hist /\ mail' = Marked(r)
    <3>1. mail'[r].emailed /\ mail'[r].attempts = mail[r].attempts
      BY <1>13, <2>2, <2>6 DEF Marked, IInv, TypeInv, MailRow
    <3> QED BY <1>5, <2>1, <2>2, <2>6, <3>1 DEF Counted, Excused
  <2> QED BY <1>1, <2>3, <2>4, <2>5, <2>6 DEF Ends
<1> QED BY <1>8, <1>9, <1>10, <1>11, <1>12, <1>13 DEF IInv, CountInv, ExcuseInv

\* The conditional update finds its row.
Takes(w, d) ==
  /\ Claims(d)
  /\ mail' = [mail EXCEPT ![d.request].attempts = @ + 1, ![d.request].minutes = 0]
  /\ sweeper' = [sweeper EXCEPT ![w].pc = "send", ![w].due = @ \ {d},
                                ![w].request = d.request]
  /\ UNCHANGED <<hist, bound>>

\* Claiming: the number of attempts is still the one that was read, so nobody
\* holds the request, and every other row read for it is outdated now.
LEMMA TakeKeeps ==
  ASSUME IInv, NEW w \in Workers, NEW d \in sweeper[w].due, At(w, "claim"), Takes(w, d)
  PROVE  IInv'
<1>1. PICK r : r = d.request
  OBVIOUS
<1>2. /\ r \in Requests /\ d \in DueRow /\ sweeper[w] \in SweeperRow
      /\ mail[r] \in MailRow /\ sweeper[w].request \notin Requests
      /\ d.attempts < MaxAttempts /\ mail[r].attempts = d.attempts /\ ~mail[r].emailed
      /\ ~Held(r)
  BY <1>1 DEF IInv, TypeInv, DueInv, SweeperRow, DueRow, At, Takes, Claims, MailRow
<1>3. UNCHANGED <<hist, bound>>
  BY DEF Takes
<1>4. /\ mail' \in [Requests -> MailRow]
      /\ mail'[r].attempts = mail[r].attempts + 1
      /\ mail'[r].minutes = 0
      /\ mail'[r].emailed = mail[r].emailed
      /\ \A q \in Requests : q # r => mail'[q] = mail[q]
  <2>1. PICK m : m = [mail[r] EXCEPT !.attempts = @ + 1, !.minutes = 0]
    OBVIOUS
  <2>2. /\ m \in MailRow
        /\ m.attempts = mail[r].attempts + 1
        /\ m.minutes = 0
        /\ m.emailed = mail[r].emailed
    <3>1. ASSUME NEW s \in MailRow, s.attempts < MaxAttempts
          PROVE  [s EXCEPT !.attempts = @ + 1, !.minutes = 0] \in MailRow
      <4>1. s.attempts + 1 \in 0..MaxAttempts /\ 0 \in 0..Settled
        BY <3>1, AttemptsAssumption DEF MailRow, Settled
      <4> QED BY <4>1 DEF MailRow
    <3> QED BY <1>2, <2>1, <3>1 DEF MailRow
  <2>3. mail' = [mail EXCEPT ![r] = m]
    BY <1>1, <1>2, <2>1 DEF Takes, IInv, TypeInv
  <2> QED BY <1>2, <2>2, <2>3 DEF IInv, TypeInv
<1>5. /\ sweeper' \in [Workers -> SweeperRow]
      /\ sweeper'[w].pc = "send"
      /\ sweeper'[w].due \subseteq sweeper[w].due
      /\ sweeper'[w].request = r
      /\ \A v \in Workers \ {w} : sweeper'[v] = sweeper[v]
  <2>1. PICK t : t = [sweeper[w] EXCEPT !.pc = "send", !.due = @ \ {d}, !.request = r]
    OBVIOUS
  <2>2. t \in SweeperRow /\ t.pc = "send" /\ t.due \subseteq sweeper[w].due /\ t.request = r
    BY <1>2, <2>1 DEF SweeperRow
  <2>3. sweeper' = [sweeper EXCEPT ![w] = t]
    BY <1>1, <2>1 DEF Takes, IInv, TypeInv
  <2> QED BY <2>2, <2>3 DEF IInv, TypeInv
<1>6. \A q \in Requests : q # r =>
        Held(q)' = Held(q) /\ InSend(q)' = InSend(q) /\ InMark(q)' = InMark(q)
  BY <1>2, <1>5 DEF Held, InSend, InMark, At
<1>7. Held(r)' /\ ~InMark(r)' /\ ~InMark(r)
  BY <1>2, <1>5 DEF Held, InMark, At
<1>8. TypeInv'
  BY <1>3, <1>2, <1>4, <1>5 DEF IInv, TypeInv
<1>9. OneSender'
  BY <1>2, <1>5 DEF IInv, OneSender, Held
<1>10. HeldInv'
  BY <1>2, <1>4, <1>6 DEF IInv, HeldInv, MailRow
<1>11. DueInv'
  <2>1. ASSUME NEW v \in Workers, NEW e \in sweeper'[v].due
        PROVE  e \in sweeper[v].due /\ e \in DueRow /\ e.request \in Requests
    BY <1>5, <2>1 DEF SweeperRow, DueRow, IInv, TypeInv
  <2>2. ASSUME NEW v \in Workers, NEW e \in sweeper'[v].due
        PROVE  /\ e.attempts < MaxAttempts
               /\ e.attempts <= mail'[e.request].attempts
               /\ Held(e.request)' => e.attempts < mail'[e.request].attempts
    <3>1. CASE e.request = r
      <4>1. e.attempts <= mail[r].attempts /\ e.attempts < MaxAttempts
        BY <2>1, <3>1 DEF IInv, DueInv
      <4>2. e.attempts \in Nat /\ mail[r].attempts \in Nat
        BY <1>2, <2>1, AttemptsAssumption DEF DueRow, MailRow
      <4> QED BY <1>4, <3>1, <4>1, <4>2
    <3>2. CASE e.request # r
      BY <1>4, <1>6, <2>1, <2>2, <3>2 DEF IInv, DueInv
    <3> QED BY <3>1, <3>2
  <2> QED BY <2>2 DEF DueInv
<1>12. ASSUME NEW q \in Requests
       PROVE  Counted(q)' /\ Excused(q)'
  <2>1. hist[q] \in [delivered: Nat, excused: Nat] /\ Counted(q) /\ Excused(q)
    BY <1>12 DEF IInv, TypeInv, CountInv, ExcuseInv
  <2>2. CASE q = r
    BY <1>3, <1>2, <1>4, <1>7, <2>1, <2>2 DEF Counted, Excused, MailRow
  <2>3. CASE q # r
    BY <1>3, <1>4, <1>6, <2>1, <2>3 DEF Counted, Excused
  <2> QED BY <2>2, <2>3
<1> QED BY <1>8, <1>9, <1>10, <1>11, <1>12 DEF IInv, CountInv, ExcuseInv

\* The email goes out and the worker learns it.
LEMMA SendKeeps ==
  ASSUME IInv, NEW w \in Workers, SendAccepted(w)
  PROVE  IInv'
<1>1. PICK r : r = sweeper[w].request
  OBVIOUS
<1>2. /\ r \in Requests /\ sweeper[w] \in SweeperRow /\ mail[r] \in MailRow
      /\ Held(r) /\ InSend(r) /\ ~mail[r].emailed
      /\ hist[r] \in [delivered: Nat, excused: Nat]
  BY <1>1 DEF SendAccepted, At, IInv, TypeInv, Held, InSend, HeldInv
<1>3. /\ sweeper' \in [Workers -> SweeperRow]
      /\ sweeper'[w].pc = "mark"
      /\ sweeper'[w].request = r
      /\ sweeper'[w].due = sweeper[w].due
      /\ \A v \in Workers \ {w} : sweeper'[v] = sweeper[v]
  <2>1. PICK t : t = [sweeper[w] EXCEPT !.pc = "mark"]
    OBVIOUS
  <2>2. t \in SweeperRow /\ t.pc = "mark" /\ t.request = r /\ t.due = sweeper[w].due
    BY <1>1, <1>2, <2>1 DEF SweeperRow
  <2> QED BY <2>1, <2>2 DEF SendAccepted, IInv, TypeInv
<1>4. /\ hist' \in [Requests -> [delivered: Nat, excused: Nat]]
      /\ hist'[r].delivered = hist[r].delivered + 1
      /\ hist'[r].excused = hist[r].excused
      /\ \A q \in Requests : q # r => hist'[q] = hist[q]
  <2>1. PICK h : h = [hist[r] EXCEPT !.delivered = @ + 1]
    OBVIOUS
  <2>2. /\ h \in [delivered: Nat, excused: Nat]
        /\ h.delivered = hist[r].delivered + 1
        /\ h.excused = hist[r].excused
    BY <1>2, <2>1
  <2>3. hist' = [hist EXCEPT ![r] = h]
    BY <1>1, <2>1 DEF SendAccepted
  <2> QED BY <1>2, <2>2, <2>3 DEF IInv, TypeInv
<1>5. UNCHANGED <<mail, bound>> /\ sweeper[w].pc = "send"
  BY DEF SendAccepted, At
<1>6. \A q \in Requests :
        /\ Held(q)' = Held(q)
        /\ q # r => InSend(q)' = InSend(q) /\ InMark(q)' = InMark(q)
  BY <1>1, <1>3 DEF Held, InSend, InMark, At
<1>7. InMark(r)' /\ ~InSend(r)' /\ ~InMark(r)
  BY <1>1, <1>2, <1>3, <1>5, RequestsAssumption DEF InMark, InSend, At, IInv, OneSender
<1>8. TypeInv'
  BY <1>1, <1>2, <1>3, <1>4, <1>5 DEF IInv, TypeInv
<1>9. OneSender'
  BY <1>1, <1>3 DEF IInv, OneSender
<1>10. HeldInv'
  BY <1>5, <1>6 DEF IInv, HeldInv
<1>11. DueInv'
  <2>1. ASSUME NEW v \in Workers, NEW e \in sweeper'[v].due
        PROVE  e \in sweeper[v].due /\ e.request \in Requests
    BY <1>3, <2>1 DEF SweeperRow, DueRow, IInv, TypeInv
  <2> QED BY <1>5, <1>6, <2>1 DEF IInv, DueInv
<1>12. ASSUME NEW q \in Requests
       PROVE  Counted(q)' /\ Excused(q)'
  <2>1. /\ hist[q] \in [delivered: Nat, excused: Nat] /\ mail[q] \in MailRow
        /\ Counted(q) /\ Excused(q)
    BY <1>12 DEF IInv, TypeInv, CountInv, ExcuseInv
  <2>2. CASE q = r
    BY <1>2, <1>4, <1>5, <1>6, <1>7, <2>1, <2>2 DEF Counted, Excused, MailRow
  <2>3. CASE q # r
    BY <1>4, <1>5, <1>6, <2>1, <2>3 DEF Counted, Excused
  <2> QED BY <2>2, <2>3
<1> QED BY <1>8, <1>9, <1>10, <1>11, <1>12 DEF IInv, CountInv, ExcuseInv

LEMMA ClaimKeeps ==
  ASSUME IInv, NEW w \in Workers, Claim(w)
  PROVE  IInv'
<1>1. PICK d \in sweeper[w].due :
        IF Claims(d)
          THEN /\ mail' = [mail EXCEPT ![d.request].attempts = @ + 1, ![d.request].minutes = 0]
               /\ sweeper' = [sweeper EXCEPT ![w].pc = "send", ![w].due = @ \ {d},
                                             ![w].request = d.request]
          ELSE /\ sweeper' = [sweeper EXCEPT ![w].due = @ \ {d}]
               /\ UNCHANGED mail
  BY DEF Claim
<1>2. At(w, "claim") /\ UNCHANGED <<hist, bound>>
  BY DEF Claim
<1>3. CASE Claims(d)
  <2>1. Takes(w, d)
    BY <1>1, <1>2, <1>3 DEF Takes
  <2> QED BY <1>2, <2>1, TakeKeeps
<1>4. CASE ~Claims(d)
  <2>1. PICK t : t = [sweeper[w] EXCEPT !.due = @ \ {d}]
    OBVIOUS
  <2>2. /\ sweeper[w] \in SweeperRow /\ sweeper[w].pc = "claim"
        /\ sweeper[w].request \notin Requests
    BY <1>2 DEF At, IInv, TypeInv
  <2>3. /\ t \in SweeperRow /\ t.pc = "claim" /\ t.request = "none"
        /\ t.due \subseteq sweeper[w].due
    BY <2>1, <2>2 DEF SweeperRow
  <2>4. sweeper' = [sweeper EXCEPT ![w] = t]
    BY <1>1, <1>4, <2>1
  <2>5. Ends(w) /\ bound' \in [crashes: 0..MaxCrashes, reruns: 0..MaxReruns]
    BY <1>1, <1>2, <1>4, <2>2 DEF Ends, IInv, TypeInv
  <2> QED BY <2>3, <2>4, <2>5, ReleaseKeeps
<1> QED BY <1>3, <1>4

\* The other steps of a sweep end a turn.
LEMMA TurnEnds ==
  ASSUME IInv, NEW w \in Workers,
         \/ SweepEnds(w) \/ SendRefused(w) \/ AnswerLost(w) \/ Mark(w)
         \/ MarkFails(w) \/ Crash(w)
  PROVE  IInv'
<1>1. sweeper[w] \in SweeperRow
  BY DEF IInv, TypeInv
<1>2. bound' \in [crashes: 0..MaxCrashes, reruns: 0..MaxReruns]
  <2>1. CASE Crash(w)
    BY <2>1, BoundsAssumption DEF Crash, IInv, TypeInv
  <2>2. CASE ~Crash(w)
    BY <2>2 DEF SweepEnds, SendRefused, AnswerLost, Mark, MarkFails, IInv, TypeInv
  <2> QED BY <2>1, <2>2
<1>3. Ends(w)
  <2>1. CASE SweepEnds(w) \/ SendRefused(w)
    BY <2>1 DEF SweepEnds, SendRefused, At, Ends
  <2>2. CASE AnswerLost(w) \/ Mark(w) \/ MarkFails(w)
    BY <2>2 DEF AnswerLost, Mark, MarkFails, Ends
  <2>3. CASE Crash(w)
    BY <2>3 DEF Crash, At, Ends
  <2> QED BY <2>1, <2>2, <2>3
<1>4. CASE sweeper' = [sweeper EXCEPT ![w] = AtTop]
  <2>1. /\ AtTop \in SweeperRow /\ AtTop.pc = "top" /\ AtTop.request = "none"
        /\ AtTop.due \subseteq sweeper[w].due
    BY DEF AtTop, SweeperRow
  <2> QED BY <1>2, <1>3, <1>4, <2>1, ReleaseKeeps
<1>5. CASE sweeper' = NextRow(w)
  <2>1. PICK t : t = [sweeper[w] EXCEPT !.pc = "claim", !.request = "none"]
    OBVIOUS
  <2>2. /\ t \in SweeperRow /\ t.pc = "claim" /\ t.request = "none"
        /\ t.due \subseteq sweeper[w].due
    BY <1>1, <2>1 DEF SweeperRow
  <2>3. sweeper' = [sweeper EXCEPT ![w] = t]
    BY <1>5, <2>1 DEF NextRow, IInv, TypeInv
  <2> QED BY <1>2, <1>3, <2>2, <2>3, ReleaseKeeps
<1> QED BY <1>4, <1>5 DEF SweepEnds, SendRefused, AnswerLost, Mark, MarkFails, Crash
-----------------------------------------------------------------------------
LEMMA NextKeeps == Quick /\ IInv /\ [Next]_vars => IInv'
<1> SUFFICES ASSUME Quick, IInv, [Next]_vars PROVE IInv'
  OBVIOUS
<1>1. ASSUME NEW w \in Workers, Sweep(w) \/ Crash(w) PROVE IInv'
  BY <1>1, ReadKeeps, ClaimKeeps, SendKeeps, TurnEnds DEF Sweep, Respond
<1>2. ASSUME NEW q \in Requests, RunDone(q) \/ Rerun(q) \/ WindowCloses(q) \/ Delete(q)
      PROVE  IInv'
  BY <1>2, EnvironmentKeeps
<1>3. CASE Tick
  BY <1>3, TickKeeps
<1>4. CASE UNCHANGED vars
  <2>1. mail' \in [Requests -> MailRow] /\ bound' \in [crashes: 0..MaxCrashes, reruns: 0..MaxReruns]
    BY <1>4 DEF vars, IInv, TypeInv
  <2> QED BY <1>4, <2>1, RowsMove DEF vars
<1> QED BY <1>1, <1>2, <1>3, <1>4 DEF Next

\* While calls end within the minute, the sweeps keep the invariant: a claim is
\* worth one number of attempts.
THEOREM Invariance ==
  ASSUME Quick
  PROVE  Spec => []IInv
<1>1. Init => IInv
  BY InitHolds
<1>2. IInv /\ [Next]_vars => IInv'
  BY NextKeeps
<1> QED BY <1>1, <1>2, PTL DEF Spec

\* Every reachable state is well typed; a request is emailed and excused at
\* most once per attempt.
THEOREM TypeCorrect ==
  ASSUME Quick
  PROVE  Spec => []TypeOK
<1>1. IInv => TypeOK
  <2> SUFFICES ASSUME IInv PROVE TypeOK
    OBVIOUS
  <2>1. ASSUME NEW q \in Requests
        PROVE  hist[q] \in [delivered: 0..MaxAttempts, excused: 0..MaxAttempts]
    BY <2>1, AttemptsAssumption DEF IInv, TypeInv, CountInv, Counted, MailRow
  <2> QED BY <2>1 DEF IInv, TypeInv, TypeOK
<1> QED BY <1>1, Invariance, PTL

\* While calls of the provider end within the minute, two workers never send
\* the same email (the claim of sendPendingReportEmails, notify.ts:58-67).
THEOREM SendersAreAlone ==
  ASSUME Quick
  PROVE  Spec => []OneSender
<1>1. IInv => OneSender
  BY DEF IInv
<1> QED BY <1>1, Invariance, PTL

\* While calls of the provider end within the minute, a report is emailed again
\* only when its worker could not know that it went out, and a marked request
\* was emailed and nobody is about to email it again (notify.ts:21-26,
\* admin.ts:257-261).
THEOREM DuplicatesAreExcused ==
  ASSUME Quick
  PROVE  Spec => []NoUnexcusedDuplicate
<1>1. IInv => OnlyExcusedTwice
  BY DEF IInv, ExcuseInv, Excused, OnlyExcusedTwice
<1>2. IInv => MarkedIsFinal
  BY DEF IInv, HeldInv, ExcuseInv, Excused, MarkedIsFinal, Held
<1>3. IInv => NoUnexcusedDuplicate
  BY <1>1, <1>2 DEF NoUnexcusedDuplicate
<1> QED BY <1>3, Invariance, PTL

-----------------------------------------------------------------------------
(* The rate limiter, for any calls, keys and limits.  An INCR counts its     *)
(* call, in the bucket it finds: no bucket shows more than the INCRs that    *)
(* were carried out, and while Redis keeps what it has, none shows fewer     *)
(* than the calls it let through.                                            *)

CheckStates == {"incr", "expire", "allowed", "over", "waved", "unavailable"}

Passing(k, w) == {c \in Limits!In(k, w) : check[c][k] \in {"expire", "allowed"}}
Carried(k, w) == {c \in Limits!In(k, w) : check[c][k] # "incr" /\ <<k, c>> \notin late}

LimitTypes ==
  /\ now \in 0..MaxWindow
  /\ bucket \in [Keys -> [0..MaxWindow -> Nat]]
  /\ check = [c \in Calls |-> check[c]] /\ \A c \in Calls : check[c] \in [KeysOf[c] -> CheckStates]
  /\ call \in [Calls -> Limits!CallRow]

CallFits(c) ==
  /\ call[c].outcome = "new" => \A k \in KeysOf[c] : check[c][k] = "incr"
  /\ call[c].outcome # "new" => call[c].window <= now
  /\ call[c].outcome = "stored" => \A k \in KeysOf[c] : check[c][k] \in {"allowed", "waved"}
  /\ call[c].outcome = "over" => \E k \in KeysOf[c] : check[c][k] = "over"
  /\ c \in Closed => \A k \in KeysOf[c] : check[c][k] # "waved"

LateFits == \A k, c : <<k, c>> \in late => c \in Calls /\ k \in KeysOf[c] /\ check[c][k] # "incr"

BucketFits(k, w) ==
  /\ bucket[k][w] <= Cardinality(Carried(k, w))
  /\ w \notin lost =>
       Cardinality(Passing(k, w)) <= bucket[k][w] /\ Cardinality(Passing(k, w)) <= Limit[k]

OverFits ==
  \A c \in Calls, w \in 0..MaxWindow : \A k \in KeysOf[c] :
    check[c][k] = "over" /\ call[c].window = w => Cardinality(Limits!In(k, w)) > Limit[k]

LimitInv ==
  /\ LimitTypes
  /\ \A c \in Calls : CallFits(c)
  /\ LateFits
  /\ \A k \in Keys, w \in 0..MaxWindow : BucketFits(k, w)
  /\ OverFits

LEMMA LimitConstants ==
  /\ IsFiniteSet(Calls) /\ Closed \subseteq Calls /\ MaxWindow \in Nat
  /\ KeysOf \in [Calls -> SUBSET Keys] /\ Limit \in [Keys -> Nat \ {0}]
<1>1. Limits!IsFiniteSet(Calls) <=> IsFiniteSet(Calls)
  BY DEF Limits!IsFiniteSet, IsFiniteSet
<1> QED BY <1>1, EmailsConstants DEF Limits!RateLimitConstants

LEMMA LimitCardinality == \A S : Limits!Cardinality(S) = Cardinality(S)
  BY DEF Limits!Cardinality, Cardinality

\* Sets of calls have a size, and one more call makes it one larger.
LEMMA CallSets ==
  ASSUME NEW S \in SUBSET Calls
  PROVE  /\ IsFiniteSet(S) /\ Cardinality(S) \in Nat
         /\ \A T \in SUBSET S : Cardinality(T) <= Cardinality(S)
         /\ \A c : c \notin S => Cardinality(S \cup {c}) = Cardinality(S) + 1
<1>1. IsFiniteSet(S)
  BY LimitConstants, FS_Subset
<1>2. Cardinality(S) \in Nat
  BY <1>1, FS_CardinalityType
<1>3. \A T \in SUBSET S : Cardinality(T) <= Cardinality(S)
  BY <1>1, FS_Subset
<1>4. \A c : c \notin S => Cardinality(S \cup {c}) = Cardinality(S) + 1
  BY <1>1, FS_AddElement
<1> QED BY <1>1, <1>2, <1>3, <1>4

LEMMA LimitsBegin ==
  ASSUME Limits!Init
  PROVE  LimitInv
<1>1. LimitTypes
  BY LimitConstants DEF Limits!Init, LimitTypes, Limits!Windows, Limits!CallRow, CheckStates
<1>2. \A c \in Calls : CallFits(c)
  BY DEF Limits!Init, CallFits
<1>3. LateFits /\ OverFits
  BY DEF Limits!Init, LateFits, OverFits
<1>4. ASSUME NEW k \in Keys, NEW w \in 0..MaxWindow
      PROVE  BucketFits(k, w)
  <2>1. Passing(k, w) = {} /\ Carried(k, w) = {}
    BY DEF Limits!Init, Passing, Carried, Limits!In
  <2> QED BY <2>1, FS_EmptySet, LimitConstants DEF Limits!Init, BucketFits, Limits!Windows
<1> QED BY <1>1, <1>2, <1>3, <1>4 DEF LimitInv

\* What an answer of one check leaves as it was.
LEMMA Answering ==
  ASSUME LimitInv, NEW c \in Calls, NEW k \in KeysOf[c], NEW b \in CheckStates \ {"incr"},
         call[c].outcome = "limits", c \in Closed => b # "waved",
         Limits!Answered(c, k, b), UNCHANGED <<now, call>>
  PROVE  /\ check' = [d \in Calls |-> check'[d]]
         /\ \A d \in Calls : check'[d] \in [KeysOf[d] -> CheckStates]
         /\ check'[c][k] = b
         /\ \A d \in Calls : \A j \in KeysOf[d] : <<d, j>> # <<c, k>> => check'[d][j] = check[d][j]
         /\ \A d \in Calls : CallFits(d)'
         /\ \A j, w : Limits!In(j, w)' = Limits!In(j, w)
<1>1. /\ check = [d \in Calls |-> check[d]]
      /\ \A d \in Calls : check[d] \in [KeysOf[d] -> CheckStates]
  BY DEF LimitInv, LimitTypes
<1>2. check' = [check EXCEPT ![c] = [check[c] EXCEPT ![k] = b]]
  BY DEF Limits!Answered
<1>3. PICK f : f = [check[c] EXCEPT ![k] = b]
  OBVIOUS
<1>4. f \in [KeysOf[c] -> CheckStates] /\ f[k] = b /\ \A j \in KeysOf[c] \ {k} : f[j] = check[c][j]
  BY <1>1, <1>3
<1>5. check' = [check EXCEPT ![c] = f]
  BY <1>2, <1>3
<1>6. check' = [d \in Calls |-> check'[d]] /\ check'[c] = f /\ \A d \in Calls \ {c} : check'[d] = check[d]
  BY <1>1, <1>5
<1>7. \A d \in Calls : \A j \in KeysOf[d] : <<d, j>> # <<c, k>> => check'[d][j] = check[d][j]
  BY <1>4, <1>6
<1>8. \A j, w : Limits!In(j, w)' = Limits!In(j, w)
  BY DEF Limits!In
<1>9. ASSUME NEW d \in Calls
      PROVE  CallFits(d)'
  <2>1. CallFits(d)
    BY DEF LimitInv
  <2>2. CASE d = c
    BY <1>4, <1>6, <2>1, <2>2 DEF CallFits
  <2>3. CASE d # c
    BY <1>6, <2>1, <2>3 DEF CallFits
  <2> QED BY <2>2, <2>3
<1> QED BY <1>1, <1>4, <1>6, <1>7, <1>8, <1>9

\* An INCR, of a call or of one that stopped waiting, adds to one bucket.
LEMMA Adding ==
  ASSUME LimitInv, NEW c \in Calls, NEW k \in KeysOf[c], Limits!Incremented(k, call[c].window)
  PROVE  /\ k \in Keys /\ call[c].window \in 0..MaxWindow
         /\ bucket' \in [Keys -> [0..MaxWindow -> Nat]]
         /\ bucket'[k][call[c].window] = bucket[k][call[c].window] + 1
         /\ \A j \in Keys, w \in 0..MaxWindow :
              <<j, w>> # <<k, call[c].window>> => bucket'[j][w] = bucket[j][w]
<1>1. k \in Keys /\ call[c].window \in 0..MaxWindow /\ bucket \in [Keys -> [0..MaxWindow -> Nat]]
  BY LimitConstants DEF LimitInv, LimitTypes, Limits!CallRow, Limits!Windows
<1>2. PICK f : f = [bucket[k] EXCEPT ![call[c].window] = @ + 1]
  OBVIOUS
<1>3. bucket' = [bucket EXCEPT ![k] = f]
  BY <1>2 DEF Limits!Incremented, Limits!BucketOf
<1>4. /\ f \in [0..MaxWindow -> Nat] /\ f[call[c].window] = bucket[k][call[c].window] + 1
      /\ \A w \in 0..MaxWindow : w # call[c].window => f[w] = bucket[k][w]
  <2>1. PICK v \in 0..MaxWindow : v = call[c].window
    BY <1>1
  <2>2. PICK g \in [0..MaxWindow -> Nat] : g = bucket[k]
    BY <1>1
  <2>3. f = [g EXCEPT ![v] = g[v] + 1]
    BY <1>2, <2>1, <2>2
  <2>4. f \in [0..MaxWindow -> Nat] /\ f[v] = g[v] + 1 /\ \A w \in 0..MaxWindow : w # v => f[w] = g[w]
    BY <2>3
  <2> QED BY <2>1, <2>2, <2>4
<1>5. bucket'[k] = f /\ \A j \in Keys \ {k} : bucket'[j] = bucket[j]
  BY <1>1, <1>3
<1>6. bucket' \in [Keys -> [0..MaxWindow -> Nat]]
  BY <1>1, <1>3, <1>4
<1> QED BY <1>1, <1>4, <1>5, <1>6

LEMMA IncrKeeps ==
  ASSUME LimitInv, NEW c \in Calls, NEW k \in Keys, Limits!Incr(c, k)
  PROVE  LimitInv'
<1> DEFINE win == call[c].window
           n == bucket[k][win] + 1
<1>1. /\ k \in KeysOf[c] /\ call[c].outcome = "limits" /\ check[c][k] = "incr"
      /\ Limits!Incremented(k, win) /\ UNCHANGED <<now, call, late, lost>>
  BY DEF Limits!Incr, Limits!Asking
<1>2. win \in 0..MaxWindow /\ bucket[k][win] \in Nat /\ Limit[k] \in Nat \ {0}
  BY LimitConstants DEF LimitInv, LimitTypes, Limits!CallRow, Limits!Windows
<1>3. PICK b : b = IF n = 1 THEN "expire" ELSE IF n <= Limit[k] THEN "allowed" ELSE "over"
  OBVIOUS
<1>4. /\ b \in {"expire", "allowed", "over"} /\ Limits!Answered(c, k, b)
      /\ b = "over" => n > Limit[k]
      /\ b # "over" => n <= Limit[k]
  BY <1>2, <1>3 DEF Limits!Incr, Limits!Verdict, Limits!BucketOf
<1>5. /\ check' = [d \in Calls |-> check'[d]]
      /\ \A d \in Calls : check'[d] \in [KeysOf[d] -> CheckStates]
      /\ check'[c][k] = b
      /\ \A d \in Calls : \A j \in KeysOf[d] : <<d, j>> # <<c, k>> => check'[d][j] = check[d][j]
      /\ \A d \in Calls : CallFits(d)'
      /\ \A j, w : Limits!In(j, w)' = Limits!In(j, w)
  BY <1>1, <1>4, Answering DEF CheckStates
<1>6. /\ bucket' \in [Keys -> [0..MaxWindow -> Nat]]
      /\ bucket'[k][win] = n
      /\ \A j \in Keys, w \in 0..MaxWindow : <<j, w>> # <<k, win>> => bucket'[j][w] = bucket[j][w]
  BY <1>1, Adding
<1>7. LimitTypes'
  BY <1>1, <1>5, <1>6 DEF LimitInv, LimitTypes
<1>8. LateFits'
  BY <1>1, <1>4, <1>5 DEF LimitInv, LateFits
<1>9. /\ c \in Limits!In(k, win) /\ c \notin Passing(k, win) /\ c \notin Carried(k, win)
      /\ Passing(k, win) \in SUBSET Calls /\ Carried(k, win) \in SUBSET Calls
      /\ \A j, w : Limits!In(j, w) \in SUBSET Calls
      /\ <<k, c>> \notin late
  BY <1>1 DEF Passing, Carried, Limits!In, LimitInv, LateFits
<1>10. /\ Carried(k, win)' = Carried(k, win) \cup {c}
       /\ Passing(k, win)' = IF b = "over" THEN Passing(k, win) ELSE Passing(k, win) \cup {c}
  BY <1>1, <1>4, <1>5, <1>9 DEF Passing, Carried, Limits!In
<1>11. ASSUME NEW j \in Keys, NEW w \in 0..MaxWindow
       PROVE  BucketFits(j, w)'
  <2>1. BucketFits(j, w)
    BY DEF LimitInv
  <2>2. CASE <<j, w>> = <<k, win>>
    <3>1. /\ Cardinality(Carried(k, win)') = Cardinality(Carried(k, win)) + 1
          /\ Cardinality(Passing(k, win)') \in {Cardinality(Passing(k, win)), Cardinality(Passing(k, win)) + 1}
          /\ b = "over" => Cardinality(Passing(k, win)') = Cardinality(Passing(k, win))
          /\ Cardinality(Passing(k, win)) \in Nat /\ Cardinality(Carried(k, win)) \in Nat
      BY <1>9, <1>10, CallSets
    <3> QED BY <1>1, <1>2, <1>4, <1>6, <2>1, <2>2, <3>1 DEF BucketFits
  <2>3. CASE <<j, w>> # <<k, win>>
    <3>1. Carried(j, w)' = Carried(j, w) /\ Passing(j, w)' = Passing(j, w)
      BY <1>1, <1>5, <2>3 DEF Passing, Carried, Limits!In
    <3> QED BY <1>1, <1>6, <2>1, <2>3, <3>1 DEF BucketFits
  <2> QED BY <2>2, <2>3
<1>12. OverFits'
  <2> SUFFICES ASSUME NEW d \in Calls, NEW w \in 0..MaxWindow, NEW j \in KeysOf[d],
                      check'[d][j] = "over", call[d].window = w
               PROVE  Cardinality(Limits!In(j, w)) > Limit[j]
    BY <1>1, <1>5 DEF OverFits
  <2>1. CASE <<d, j>> = <<c, k>>
    <3>1. Cardinality(Carried(k, win)) + 1 <= Cardinality(Limits!In(k, win))
      <4>1. Carried(k, win) \cup {c} \in SUBSET Limits!In(k, win)
        BY <1>9 DEF Carried
      <4> QED BY <1>9, <4>1, CallSets
    <3>2. n <= Cardinality(Carried(k, win)) + 1 /\ n > Limit[k]
      BY <1>2, <1>4, <1>5, <1>9, <2>1, CallSets DEF LimitInv, BucketFits
    <3>3. Cardinality(Carried(k, win)) \in Nat /\ Cardinality(Limits!In(k, win)) \in Nat
      BY <1>9, CallSets
    <3> QED BY <1>2, <2>1, <3>1, <3>2, <3>3
  <2>2. CASE <<d, j>> # <<c, k>>
    BY <1>5, <2>2 DEF LimitInv, OverFits
  <2> QED BY <2>1, <2>2
<1> QED BY <1>5, <1>7, <1>8, <1>11, <1>12 DEF LimitInv

LEMMA ExpireKeeps ==
  ASSUME LimitInv, NEW c \in Calls, NEW k \in Keys, Limits!Expire(c, k)
  PROVE  LimitInv'
<1>1. /\ k \in KeysOf[c] /\ call[c].outcome = "limits" /\ check[c][k] = "expire"
      /\ UNCHANGED <<now, bucket, call, late, lost>>
  BY DEF Limits!Expire, Limits!Asking
<1>2. Limits!Answered(c, k, "allowed")
  BY LimitConstants DEF Limits!Expire, Limits!Verdict
<1>3. /\ check' = [d \in Calls |-> check'[d]]
      /\ \A d \in Calls : check'[d] \in [KeysOf[d] -> CheckStates]
      /\ check'[c][k] = "allowed"
      /\ \A d \in Calls : \A j \in KeysOf[d] : <<d, j>> # <<c, k>> => check'[d][j] = check[d][j]
      /\ \A d \in Calls : CallFits(d)'
      /\ \A j, w : Limits!In(j, w)' = Limits!In(j, w)
  BY <1>1, <1>2, Answering DEF CheckStates
<1>4. LimitTypes'
  BY <1>1, <1>3 DEF LimitInv, LimitTypes
<1>8. LateFits'
  BY <1>1, <1>3 DEF LimitInv, LateFits
<1>5. OverFits'
  BY <1>1, <1>3 DEF LimitInv, OverFits
<1>6. \A j, w : Passing(j, w)' = Passing(j, w) /\ Carried(j, w)' = Carried(j, w)
  BY <1>1, <1>3 DEF Passing, Carried, Limits!In
<1>7. \A j \in Keys, w \in 0..MaxWindow : BucketFits(j, w)'
  BY <1>1, <1>6 DEF LimitInv, BucketFits
<1> QED BY <1>3, <1>4, <1>5, <1>7, <1>8 DEF LimitInv

\* Whoever waits no longer is not told "too many requests".
LEMMA TimeoutKeeps ==
  ASSUME LimitInv, NEW c \in Calls, NEW k \in Keys,
         Limits!TimeoutIncr(c, k) \/ Limits!TimeoutExpire(c, k)
  PROVE  LimitInv'
<1>1. /\ k \in KeysOf[c] /\ call[c].outcome = "limits" /\ check[c][k] \in {"incr", "expire"}
      /\ UNCHANGED <<now, bucket, call, lost>>
      /\ late' = IF check[c][k] = "incr" THEN late \cup {<<k, c>>} ELSE late
  BY DEF Limits!TimeoutIncr, Limits!TimeoutExpire, Limits!Asking
<1>2. PICK b : b = IF c \in Closed THEN "unavailable" ELSE "waved"
  OBVIOUS
<1>3. Limits!Answered(c, k, b)
  BY <1>2 DEF Limits!TimeoutIncr, Limits!TimeoutExpire, Limits!WithoutRedis
<1>4. /\ check' = [d \in Calls |-> check'[d]]
      /\ \A d \in Calls : check'[d] \in [KeysOf[d] -> CheckStates]
      /\ check'[c][k] = b
      /\ \A d \in Calls : \A j \in KeysOf[d] : <<d, j>> # <<c, k>> => check'[d][j] = check[d][j]
      /\ \A d \in Calls : CallFits(d)'
      /\ \A j, w : Limits!In(j, w)' = Limits!In(j, w)
  BY <1>1, <1>2, <1>3, Answering DEF CheckStates
<1>5. LimitTypes' /\ OverFits'
  BY <1>1, <1>2, <1>4 DEF LimitInv, LimitTypes, OverFits
<1>6. LateFits'
  BY <1>1, <1>2, <1>4 DEF LimitInv, LateFits
<1>7. ASSUME NEW j \in Keys, NEW w \in 0..MaxWindow
      PROVE  BucketFits(j, w)'
  <2>1. Carried(j, w)' = Carried(j, w)
    BY <1>1, <1>2, <1>4 DEF Carried, Limits!In
  <2>2. Passing(j, w)' \in SUBSET Passing(j, w) /\ Passing(j, w) \in SUBSET Calls
    BY <1>1, <1>2, <1>4 DEF Passing, Limits!In
  <2>3. /\ Cardinality(Passing(j, w)') <= Cardinality(Passing(j, w))
        /\ Cardinality(Passing(j, w)') \in Nat /\ Cardinality(Passing(j, w)) \in Nat
    BY <2>2, CallSets
  <2>4. bucket[j][w] \in Nat /\ Limit[j] \in Nat
    BY LimitConstants DEF LimitInv, LimitTypes
  <2> QED BY <1>1, <2>1, <2>3, <2>4 DEF LimitInv, BucketFits
<1> QED BY <1>4, <1>5, <1>6, <1>7 DEF LimitInv

LEMMA LateIncrKeeps ==
  ASSUME LimitInv, NEW c \in Calls, NEW k \in Keys, Limits!LateIncr(c, k)
  PROVE  LimitInv'
<1>0. PICK win : win = call[c].window
  OBVIOUS
<1>1. /\ <<k, c>> \in late /\ k \in KeysOf[c] /\ check[c][k] # "incr" /\ call[c].outcome # "new"
      /\ late' = late \ {<<k, c>>} /\ Limits!Incremented(k, win)
      /\ UNCHANGED <<now, check, call, lost>>
  BY <1>0 DEF Limits!LateIncr, LimitInv, LateFits, CallFits
<1>2. /\ bucket' \in [Keys -> [0..MaxWindow -> Nat]]
      /\ bucket'[k][win] = bucket[k][win] + 1
      /\ \A j \in Keys, w \in 0..MaxWindow : <<j, w>> # <<k, win>> => bucket'[j][w] = bucket[j][w]
  BY <1>0, <1>1, Adding
<1>3. LimitTypes' /\ LateFits' /\ \A d \in Calls : CallFits(d)'
  BY <1>1, <1>2 DEF LimitInv, LimitTypes, LateFits, CallFits
<1>6. OverFits'
  BY <1>1 DEF LimitInv, OverFits, Limits!In
<1>4. /\ c \notin Carried(k, win) /\ Carried(k, win) \in SUBSET Calls
      /\ Carried(k, win)' = Carried(k, win) \cup {c}
      /\ \A j, w : Passing(j, w)' = Passing(j, w) /\ Passing(j, w) \in SUBSET Calls
      /\ \A j, w : <<j, w>> # <<k, win>> => Carried(j, w)' = Carried(j, w)
  BY <1>0, <1>1 DEF Carried, Passing, Limits!In
<1>5. ASSUME NEW j \in Keys, NEW w \in 0..MaxWindow
      PROVE  BucketFits(j, w)'
  <2>1. BucketFits(j, w) /\ bucket[j][w] \in Nat /\ Cardinality(Passing(j, w)) \in Nat
    BY <1>4, CallSets DEF LimitInv, LimitTypes
  <2>2. CASE <<j, w>> = <<k, win>>
    <3>1. Cardinality(Carried(k, win)') = Cardinality(Carried(k, win)) + 1 /\ Cardinality(Carried(k, win)) \in Nat
      BY <1>4, CallSets
    <3>2. j = k /\ w = win
      BY <2>2
    <3>3. bucket'[j][w] <= Cardinality(Carried(j, w)')
      BY <1>2, <2>1, <3>1, <3>2 DEF BucketFits
    <3>4. w \notin lost =>
            Cardinality(Passing(j, w)) <= bucket'[j][w] /\ Cardinality(Passing(j, w)) <= Limit[j]
      BY <1>2, <2>1, <3>2 DEF BucketFits
    <3> QED BY <1>1, <1>4, <3>3, <3>4 DEF BucketFits
  <2>3. CASE <<j, w>> # <<k, win>>
    BY <1>1, <1>2, <1>4, <2>1, <2>3 DEF BucketFits
  <2> QED BY <2>2, <2>3
<1> QED BY <1>3, <1>5, <1>6 DEF LimitInv

\* The windows that are still to come have seen no call, and the others are lost.
LEMMA RestartKeeps ==
  ASSUME LimitInv, Limits!RestartRedis
  PROVE  LimitInv'
<1>1. /\ bucket' = [k \in Keys |-> [w \in 0..MaxWindow |-> 0]] /\ lost' = lost \cup 0..now
      /\ UNCHANGED <<now, check, call, late>>
  BY DEF Limits!RestartRedis, Limits!Windows
<1>2. LimitTypes' /\ LateFits' /\ \A d \in Calls : CallFits(d)'
  BY <1>1 DEF LimitInv, LimitTypes, LateFits, CallFits
<1>4. OverFits'
  BY <1>1 DEF LimitInv, OverFits, Limits!In
<1>3. ASSUME NEW j \in Keys, NEW w \in 0..MaxWindow
      PROVE  BucketFits(j, w)'
  <2>1. Carried(j, w)' \in SUBSET Calls /\ bucket'[j][w] = 0
    BY <1>1 DEF Carried, Limits!In
  <2>2. w \notin lost' => Passing(j, w)' = {}
    BY <1>1 DEF LimitInv, CallFits, Passing, Limits!In, LimitTypes
  <2> QED BY <2>1, <2>2, CallSets, FS_EmptySet, LimitConstants DEF BucketFits
<1> QED BY <1>2, <1>3, <1>4 DEF LimitInv

LEMMA BeginKeeps ==
  ASSUME LimitInv, NEW c \in Calls, Limits!Begin(c)
  PROVE  LimitInv'
<1>1. /\ call[c].outcome = "new" /\ call' = [call EXCEPT ![c] = [outcome |-> "limits", window |-> now]]
      /\ UNCHANGED <<now, bucket, check, late, lost>>
  BY DEF Limits!Begin
<1>2. now \in 0..MaxWindow /\ call \in [Calls -> Limits!CallRow]
  BY DEF LimitInv, LimitTypes
<1>3. /\ call'[c] = [outcome |-> "limits", window |-> now] /\ call'[c] \in Limits!CallRow
      /\ \A d \in Calls \ {c} : call'[d] = call[d]
      /\ call' \in [Calls -> Limits!CallRow]
  BY <1>1, <1>2 DEF Limits!CallRow, Limits!Windows
<1>4. \A k \in KeysOf[c] : check[c][k] = "incr"
  BY <1>1 DEF LimitInv, CallFits
<1>5. LimitTypes' /\ LateFits'
  BY <1>1, <1>3 DEF LimitInv, LimitTypes, LateFits
<1>6. ASSUME NEW d \in Calls
      PROVE  CallFits(d)'
  BY <1>1, <1>2, <1>3, <1>4 DEF LimitInv, CallFits
<1>7. \A k, w : Limits!In(k, w) \in SUBSET Calls /\ Limits!In(k, w)' \in SUBSET Calls
                /\ Limits!In(k, w) \in SUBSET Limits!In(k, w)'
  BY <1>1, <1>3 DEF Limits!In
<1>8. \A k, w : Passing(k, w)' = Passing(k, w) /\ Carried(k, w)' = Carried(k, w)
  BY <1>1, <1>3, <1>4 DEF Passing, Carried, Limits!In
<1>9. \A k \in Keys, w \in 0..MaxWindow : BucketFits(k, w)'
  BY <1>1, <1>8 DEF LimitInv, BucketFits
<1>10. OverFits'
  <2> SUFFICES ASSUME NEW d \in Calls, NEW w \in 0..MaxWindow, NEW k \in KeysOf[d],
                      check[d][k] = "over", call'[d].window = w
               PROVE  Cardinality(Limits!In(k, w)') > Limit[k]
    BY <1>1 DEF OverFits
  <2>1. call[d].window = w
    BY <1>3, <1>4
  <2>2. Cardinality(Limits!In(k, w)) > Limit[k]
    BY <2>1 DEF LimitInv, OverFits
  <2>3. /\ Cardinality(Limits!In(k, w)) <= Cardinality(Limits!In(k, w)')
        /\ Cardinality(Limits!In(k, w)) \in Nat /\ Cardinality(Limits!In(k, w)') \in Nat
    BY <1>7, CallSets
  <2>4. Limit[k] \in Nat
    BY LimitConstants
  <2> QED BY <2>2, <2>3, <2>4
<1> QED BY <1>5, <1>6, <1>9, <1>10 DEF LimitInv

LEMMA ReplyKeeps ==
  ASSUME LimitInv, NEW c \in Calls, Limits!Reply(c)
  PROVE  LimitInv'
<1> DEFINE said == {check[c][k] : k \in KeysOf[c]}
<1>1. PICK o : o = IF "unavailable" \in said THEN "unavailable"
                   ELSE IF Limits!EveryLimit(c) THEN "stored" ELSE "over"
  OBVIOUS
<1>2. /\ call[c].outcome = "limits" /\ said \cap {"incr", "expire"} = {}
      /\ call' = [call EXCEPT ![c].outcome = o]
      /\ UNCHANGED <<now, bucket, check, late, lost>>
  BY <1>1 DEF Limits!Reply
<1>3. call \in [Calls -> Limits!CallRow] /\ o \in {"unavailable", "stored", "over"}
  BY <1>1 DEF LimitInv, LimitTypes
<1>4. /\ call'[c].outcome = o /\ call'[c].window = call[c].window /\ call'[c] \in Limits!CallRow
      /\ \A d \in Calls \ {c} : call'[d] = call[d]
      /\ call' \in [Calls -> Limits!CallRow]
  BY <1>2, <1>3 DEF Limits!CallRow
<1>5. LimitTypes' /\ LateFits'
  BY <1>2, <1>4 DEF LimitInv, LimitTypes, LateFits
<1>6. /\ o = "stored" => \A k \in KeysOf[c] : check[c][k] \in {"allowed", "waved"}
      /\ o = "over" => \E k \in KeysOf[c] : check[c][k] = "over"
  <2>1. \A k \in KeysOf[c] : check[c][k] \in CheckStates /\ check[c][k] \in said
    BY DEF LimitInv, LimitTypes
  <2> QED BY <1>1, <1>2, <2>1 DEF Limits!EveryLimit, CheckStates
<1>7. ASSUME NEW d \in Calls
      PROVE  CallFits(d)'
  BY <1>2, <1>3, <1>4, <1>6 DEF LimitInv, CallFits
<1>8. \A k, w : Limits!In(k, w)' = Limits!In(k, w)
  BY <1>2, <1>3, <1>4 DEF Limits!In
<1>9. \A k, w : Passing(k, w)' = Passing(k, w) /\ Carried(k, w)' = Carried(k, w)
  BY <1>2, <1>8 DEF Passing, Carried
<1>10. \A k \in Keys, w \in 0..MaxWindow : BucketFits(k, w)'
  BY <1>2, <1>9 DEF LimitInv, BucketFits
<1>11. OverFits'
  BY <1>2, <1>4, <1>8 DEF LimitInv, OverFits
<1> QED BY <1>5, <1>7, <1>10, <1>11 DEF LimitInv

LEMMA LimitsStay ==
  ASSUME LimitInv, UNCHANGED <<bucket, check, call, late, lost>>, now' \in 0..MaxWindow, now <= now'
  PROVE  LimitInv'
<1>1. LimitTypes' /\ LateFits' /\ \A d \in Calls : CallFits(d)'
  <2>1. \A d \in Calls : call[d].window \in Nat
    BY DEF LimitInv, LimitTypes, Limits!CallRow, Limits!Windows
  <2> QED BY <2>1 DEF LimitInv, LimitTypes, LateFits, CallFits
<1>3. OverFits'
  BY DEF LimitInv, OverFits, Limits!In
<1>2. \A k \in Keys, w \in 0..MaxWindow : BucketFits(k, w)'
  BY DEF LimitInv, BucketFits, Passing, Carried, Limits!In
<1> QED BY <1>1, <1>2, <1>3 DEF LimitInv

\* No limit lets more calls through in a window than it says, whatever times out,
\* and nobody is refused before it is used up (rate-limit.ts).
THEOREM LimitsAreKept == EmailsSpec => []LimitsHold
<1>1. Limits!Init => LimitInv
  BY LimitsBegin
<1>2. LimitInv /\ [Limits!Next]_Limits!vars => LimitInv'
  <2> SUFFICES ASSUME LimitInv, [Limits!Next]_Limits!vars
               PROVE  LimitInv'
    OBVIOUS
  <2>1. CASE UNCHANGED Limits!vars
    BY <2>1, LimitsStay DEF Limits!vars, LimitInv, LimitTypes
  <2>2. ASSUME NEW c \in Calls, Limits!Begin(c) \/ Limits!Reply(c)
        PROVE  LimitInv'
    BY <2>2, BeginKeeps, ReplyKeeps
  <2>3. ASSUME NEW c \in Calls, NEW k \in Keys,
               \/ Limits!Incr(c, k) \/ Limits!Expire(c, k) \/ Limits!TimeoutIncr(c, k)
               \/ Limits!TimeoutExpire(c, k) \/ Limits!LateIncr(c, k)
        PROVE  LimitInv'
    BY <2>3, IncrKeeps, ExpireKeeps, TimeoutKeeps, LateIncrKeeps
  <2>4. CASE Limits!RestartRedis
    BY <2>4, RestartKeeps
  <2>5. CASE Limits!NextWindow
    BY <2>5, LimitsStay, LimitConstants DEF Limits!NextWindow, LimitInv, LimitTypes
  <2> QED BY <2>1, <2>2, <2>3, <2>4, <2>5 DEF Limits!Next
<1>3. LimitInv => LimitsHold
  <2> SUFFICES ASSUME LimitInv PROVE Limits!NeverTooMany /\ Limits!OverMeansOver
    BY DEF LimitsHold, Limits!LimitsHold
  <2>1. ASSUME NEW k \in Keys, NEW w \in 0..MaxWindow, w \notin lost,
               NEW passed, passed = {c \in Limits!In(k, w) : call[c].outcome = "stored"
                                                            /\ (c \in Closed \/ check[c][k] # "waved")}
        PROVE  Cardinality(passed) <= Limit[k]
    <3>1. passed \in SUBSET Passing(k, w) /\ Passing(k, w) \in SUBSET Calls
      BY <2>1 DEF LimitInv, CallFits, Passing, Limits!In
    <3>2. /\ Cardinality(passed) <= Cardinality(Passing(k, w))
          /\ Cardinality(passed) \in Nat /\ Cardinality(Passing(k, w)) \in Nat
      BY <3>1, CallSets
    <3>3. Cardinality(Passing(k, w)) <= Limit[k] /\ Limit[k] \in Nat
      BY <2>1, LimitConstants DEF LimitInv, BucketFits
    <3> QED BY <3>2, <3>3
  <2>2. Limits!NeverTooMany
    BY <2>1, LimitCardinality DEF Limits!NeverTooMany, Limits!Windows
  <2>3. Limits!OverMeansOver
    BY LimitCardinality
       DEF LimitInv, LimitTypes, Limits!CallRow, Limits!Windows, CallFits, OverFits, Limits!OverMeansOver
  <2> QED BY <2>2, <2>3
<1>4. EmailsInit => Limits!Init
  BY DEF EmailsInit
<1>5. [EmailsNext]_emailsVars => [Limits!Next]_Limits!vars
  BY DEF EmailsNext, Reports, FollowUps, FollowingLinks, Limiting, emailsVars, limitVars, Limits!vars
<1> QED BY <1>1, <1>2, <1>3, <1>4, <1>5, PTL DEF EmailsSpec
-----------------------------------------------------------------------------
(* The links of reports, for any requests, runs and visitors.  While a       *)
(* mailed run is its request's, it can only go with that request.  Once a    *)
(* re-run has taken every request from it, all it can still be taken with    *)
(* are latecomers.                                                           *)

LinkPage == [pc : {"closed", "request", "results", "shown", "insert", "joined", "refused"},
             run : 0..MaxRuns, loaded : Links!RunStatus, source : {"none", "form", "outbound"},
             answers : BOOLEAN, cut : BOOLEAN]

LinkTypes ==
  /\ report \in [Links!Runs -> Links!RunStatus]
  /\ asked \in [LinkRequests -> Links!RequestRow]
  /\ mark \in [Links!Runs -> SUBSET Links!MarkKinds]
  /\ page \in [Visitors -> LinkPage]
  /\ linked \in [LinkRequests -> 0..MaxRuns]
  /\ latecomers \in SUBSET LinkRequests

\* A request q whose email shows run m.
ShownBy(q, m) ==
  /\ report[m] # "none" /\ asked[q].run # 0
  /\ asked[q].run # m => Links!Linked(m) \subseteq latecomers
  /\ report[m] = "done" \/ (asked[q].run # m /\ Links!TakenByALateOne(m))
MailFits(q) == linked[q] # 0 /\ ~asked[q].deleted => ShownBy(q, linked[q])

PageFits(v) ==
  /\ page[v].pc # "closed" => page[v].run # 0
  /\ page[v].pc \in {"results", "insert", "joined", "refused"} => page[v].loaded = "done"
  /\ page[v].pc # "closed" /\ page[v].loaded = "done" /\ ~page[v].cut =>
       /\ report[page[v].run] = "done"
       /\ page[v].pc \in {"shown", "insert", "joined"} => page[v].answers
       /\ page[v].pc = "joined" => "waitlist" \in mark[page[v].run]

LinkInv ==
  /\ LinkTypes
  /\ \A q \in LinkRequests : MailFits(q)
  /\ \A v \in Visitors : PageFits(v)

LEMMA LinkConstants ==
  LinkRequests \subseteq Nat \ {0} /\ MaxRuns \in Nat \ {0} /\ MaxMarks \in Nat
BY EmailsConstants DEF Links!LinkConstants

\* Numbers have a smallest.
LEMMA OldestIsIn ==
  ASSUME NEW S \in SUBSET Nat, S # {}
  PROVE  Links!Oldest(S) \in S
<1>1. PICK r \in S : \A s \in S : <<s, r>> \notin OpToRel(<, Nat)
  BY NatLessThanWellFounded, WFMin
<1>2. \A s \in S : ~(s < r)
  BY <1>1 DEF OpToRel
<1>3. \A s \in S : r <= s
  <2>1. r \in Nat /\ \A s \in S : s \in Nat
    OBVIOUS
  <2> QED BY <1>2, <2>1
<1> QED BY <1>3 DEF Links!Oldest

LEMMA NewestIsIn ==
  ASSUME NEW S \in SUBSET Links!Runs, S # {}
  PROVE  Links!Newest(S) \in S
<1> DEFINE T == {MaxRuns - s : s \in S}
<1>1. MaxRuns \in Nat /\ \A s \in S : s \in Nat /\ s <= MaxRuns
  BY LinkConstants DEF Links!Runs
<1>2. T \in SUBSET Nat /\ T # {}
  BY <1>1
<1> HIDE DEF T
<1>3. PICK t \in T : \A u \in T : <<u, t>> \notin OpToRel(<, Nat)
  BY <1>2, NatLessThanWellFounded, WFMin
<1>4. \A u \in T : ~(u < t)
  BY <1>2, <1>3 DEF OpToRel
<1>5. PICK r \in S : t = MaxRuns - r
  BY DEF T
<1>6. \A s \in S : s <= r
  <2> SUFFICES ASSUME NEW s \in S
               PROVE  s <= r
    OBVIOUS
  <2>1. ~(MaxRuns - s < t)
    BY <1>4 DEF T
  <2> QED BY <1>1, <1>5, <2>1
<1> QED BY <1>6 DEF Links!Newest

\* A new run, a re-run or a re-check gets a run that was never used.
LEMMA NextRunIsUnused ==
  ASSUME Links!Unused # {}
  PROVE  Links!NextRun \in Links!Runs /\ report[Links!NextRun] = "none"
<1>1. Links!Unused \in SUBSET Nat
  BY LinkConstants DEF Links!Unused, Links!Runs
<1>2. Links!NextRun \in Links!Unused
  BY <1>1, OldestIsIn DEF Links!NextRun
<1> QED BY <1>2 DEF Links!Unused

\* The runs that are done stay done, and the requests with their run.
LEMMA LinksStay ==
  ASSUME LinkInv, LinkTypes',
         \A r \in Links!Runs : report[r] = "done" => report'[r] = "done",
         \A r \in Links!Runs : mark[r] \subseteq mark'[r],
         \A q \in LinkRequests : asked'[q].run = asked[q].run /\ asked'[q].deleted = asked[q].deleted,
         UNCHANGED <<page, latecomers>>,
         \A r \in Links!Runs : report[r] # "none" => report'[r] # "none",
         \A q \in LinkRequests : linked'[q] = linked[q]
           \/ (asked[q].run = linked'[q] /\ report'[asked[q].run] = "done")
  PROVE  LinkInv'
<1>1. \A r : Links!Linked(r)' = Links!Linked(r)
  BY DEF Links!Linked
<1>2. ASSUME NEW q \in LinkRequests
      PROVE  MailFits(q)'
  <2>1. MailFits(q) /\ linked[q] \in 0..MaxRuns /\ linked'[q] \in 0..MaxRuns
    BY DEF LinkInv, LinkTypes
  <2> SUFFICES ASSUME NEW m \in Links!Runs, m = linked'[q], ~asked[q].deleted
               PROVE  ShownBy(q, m)'
    BY <2>1 DEF MailFits, ShownBy, Links!Runs, Links!TakenByALateOne, Links!Linked
  <2>2. m # 0
    BY LinkConstants DEF Links!Runs
  <2>3. Links!TakenByALateOne(m) => Links!TakenByALateOne(m)'
    BY DEF Links!TakenByALateOne, LinkInv, LinkTypes
  <2>4. CASE linked'[q] = linked[q]
    <3>1. ShownBy(q, m)
      BY <2>1, <2>2, <2>4 DEF MailFits
    <3>2. /\ report'[m] # "none" /\ asked'[q].run # 0
          /\ asked'[q].run # m => Links!Linked(m)' \subseteq latecomers'
          /\ report'[m] = "done" \/ (asked'[q].run # m /\ Links!TakenByALateOne(m)')
      BY <1>1, <2>2, <2>3, <3>1 DEF ShownBy
    <3> QED BY <2>2, <3>2 DEF ShownBy, Links!Linked, Links!TakenByALateOne
  <2>5. CASE asked[q].run = linked'[q] /\ report'[asked[q].run] = "done"
    <3>1. m # 0 /\ "done" # "none"
      BY LinkConstants DEF Links!Runs
    <3>2. /\ report'[m] # "none" /\ asked'[q].run # 0 /\ asked'[q].run = m /\ report'[m] = "done"
      BY <2>2, <2>5, <3>1
    <3> QED BY <2>2, <3>2 DEF ShownBy
  <2> QED BY <2>4, <2>5
<1>3. ASSUME NEW v \in Visitors
      PROVE  PageFits(v)'
  <2>1. PageFits(v) /\ page[v] \in LinkPage
    BY DEF LinkInv, LinkTypes
  <2> QED BY <2>1 DEF PageFits, LinkPage, Links!Runs
<1> QED BY <1>2, <1>3 DEF LinkInv

LEMMA LinksBegin ==
  ASSUME Links!Init
  PROVE  LinkInv
<1>1. LinkTypes
  <2>1. \A v \in Visitors : page[v] \in LinkPage
    BY LinkConstants DEF Links!Init, Links!NoPage, LinkPage, Links!RunStatus
  <2>2. asked \in [LinkRequests -> Links!RequestRow]
    <3>1. 0 \in 0..MaxRuns
      BY LinkConstants
    <3>2. [run : {0}, source : {"form", "outbound"}, erased : {FALSE}, deleted : {FALSE}]
            \subseteq Links!RequestRow
      BY <3>1 DEF Links!RequestRow
    <3> QED BY <3>2 DEF Links!Init
  <2>3. report \in [Links!Runs -> Links!RunStatus] /\ mark \in [Links!Runs -> SUBSET Links!MarkKinds]
    BY DEF Links!Init, Links!RunStatus
  <2>4. /\ page \in [Visitors -> LinkPage] /\ linked \in [LinkRequests -> 0..MaxRuns]
        /\ latecomers \in SUBSET LinkRequests
    BY <2>1, LinkConstants DEF Links!Init
  <2> QED BY <2>2, <2>3, <2>4 DEF LinkTypes
<1>2. \A q \in LinkRequests : MailFits(q)
  BY DEF Links!Init, MailFits
<1>3. \A v \in Visitors : PageFits(v)
  BY DEF Links!Init, Links!NoPage, PageFits
<1> QED BY <1>1, <1>2, <1>3 DEF LinkInv

LEMMA FinishRunLinks ==
  ASSUME LinkInv, NEW r \in Links!Runs, Links!FinishRun(r)
  PROVE  LinkInv'
<1>1. /\ report[r] = "queued" /\ \E s \in {"done", "failed"} : report' = [report EXCEPT ![r] = s]
      /\ UNCHANGED <<asked, mark, page, linked, latecomers>>
  BY DEF Links!FinishRun
<1>2. LinkTypes' /\ \A o \in Links!Runs : report[o] = "done" => report'[o] = "done"
  BY <1>1 DEF LinkInv, LinkTypes, Links!RunStatus
<1>3. /\ \A o \in Links!Runs : report[o] = "done" => report'[o] = "done"
      /\ \A o \in Links!Runs : mark[o] \subseteq mark'[o]
      /\ \A o \in Links!Runs : report[o] # "none" => report'[o] # "none"
      /\ \A p \in LinkRequests : asked'[p].run = asked[p].run /\ asked'[p].deleted = asked[p].deleted
      /\ \A p \in LinkRequests : linked'[p] = linked[p]
           \/ (asked[p].run = linked'[p] /\ report'[asked[p].run] = "done")
  BY <1>1, <1>2
<1> QED BY <1>1, <1>2, <1>3, LinksStay

\* Whoever joins a run that an email shows, and whose request was moved on, is a
\* latecomer; a new run is shown by no email.
LEMMA AttachingLinks ==
  ASSUME LinkInv, NEW q \in LinkRequests, Links!JoinRun(q) \/ Links!StartRun(q)
  PROVE  LinkInv'
<1>1. /\ asked[q].run = 0 /\ ~asked[q].deleted
      /\ UNCHANGED <<mark, page, linked>>
  BY DEF Links!JoinRun, Links!StartRun, Links!Unattached, Links!Attach
<1>2. PICK r \in Links!Runs :
        /\ Links!Attach(q, r)
        /\ report' = report \/ (report[r] = "none" /\ report' = [report EXCEPT ![r] = "queued"])
  <2>1. CASE Links!JoinRun(q)
    <3>1. PICK since \in 1..MaxRuns + 1 :
            Links!Reusable(since) # {} /\ Links!Attach(q, Links!Newest(Links!Reusable(since)))
      BY <2>1 DEF Links!JoinRun
    <3>2. Links!Reusable(since) \in SUBSET Links!Runs
      BY DEF Links!Reusable
    <3>3. Links!Newest(Links!Reusable(since)) \in Links!Runs
      BY <3>1, <3>2, NewestIsIn
    <3> QED BY <2>1, <3>1, <3>3 DEF Links!JoinRun
  <2>2. CASE Links!StartRun(q)
    BY <2>2, NextRunIsUnused DEF Links!StartRun
  <2> QED BY <2>1, <2>2
<1>3. /\ asked' = [asked EXCEPT ![q].run = r] /\ latecomers \subseteq latecomers'
      /\ latecomers' \subseteq latecomers \cup {q}
      /\ (\E p \in LinkRequests : linked[p] = r /\ asked[p].run # r) => q \in latecomers'
  BY <1>2 DEF Links!Attach
<1>4. r # 0 /\ r \in 0..MaxRuns
  BY LinkConstants DEF Links!Runs
<1>5. /\ asked' \in [LinkRequests -> Links!RequestRow]
      /\ asked'[q].run = r /\ ~asked'[q].deleted
      /\ \A p \in LinkRequests \ {q} : asked'[p] = asked[p]
  <2>1. asked \in [LinkRequests -> Links!RequestRow] /\ asked[q] \in Links!RequestRow
    BY DEF LinkInv, LinkTypes
  <2>2. [asked[q] EXCEPT !.run = r] \in Links!RequestRow
    BY <1>4, <2>1 DEF Links!RequestRow
  <2> QED BY <1>1, <1>3, <2>1, <2>2 DEF Links!RequestRow
<1>6. \A o \in Links!Runs : report[o] # "none" => report'[o] = report[o]
  BY <1>2 DEF LinkInv, LinkTypes
<1>7. LinkTypes'
  BY <1>1, <1>2, <1>3, <1>5 DEF LinkInv, LinkTypes, Links!RunStatus
<1>8. ASSUME NEW p \in LinkRequests
      PROVE  MailFits(p)'
  <2> SUFFICES ASSUME linked[p] # 0, ~asked'[p].deleted
               PROVE  ShownBy(p, linked[p])'
    BY <1>1 DEF MailFits
  <2>1. PICK m \in Links!Runs : m = linked[p]
    BY DEF LinkInv, LinkTypes, Links!Runs
  <2>2. ShownBy(p, m)
    BY <1>1, <1>5, <2>1 DEF LinkInv, MailFits
  <2>3. p # q /\ asked'[p] = asked[p] /\ report'[m] = report[m]
    BY <1>1, <1>5, <1>6, <2>2 DEF ShownBy
  <2>4. Links!TakenByALateOne(m) => Links!TakenByALateOne(m)'
    BY <1>1, <1>3, <1>5 DEF Links!TakenByALateOne, LinkInv, LinkTypes
  <2>5. asked[p].run # m => Links!Linked(m)' \subseteq latecomers'
    BY <1>3, <1>5, <2>1, <2>2 DEF ShownBy, Links!Linked
  <2> QED BY <1>1, <2>1, <2>2, <2>3, <2>4, <2>5 DEF ShownBy
<1>9. ASSUME NEW v \in Visitors
      PROVE  PageFits(v)'
  <2>1. PageFits(v) /\ page[v] \in LinkPage
    BY DEF LinkInv, LinkTypes
  <2>2. "done" # "none"
    OBVIOUS
  <2> QED BY <1>1, <1>6, <2>1, <2>2 DEF PageFits, LinkPage, Links!Runs
<1> QED BY <1>7, <1>8, <1>9 DEF LinkInv

LEMMA SendReportLinks ==
  ASSUME LinkInv, NEW q \in LinkRequests, Links!SendReport(q)
  PROVE  LinkInv'
<1>1. /\ report[asked[q].run] = "done" /\ linked' = [linked EXCEPT ![q] = asked[q].run]
      /\ UNCHANGED <<report, asked, mark, page, latecomers>>
  BY DEF Links!SendReport
<1>2. asked[q].run \in 0..MaxRuns
  BY LinkConstants DEF LinkInv, LinkTypes, Links!RequestRow, Links!Runs
<1>3. LinkTypes'
  BY <1>1, <1>2 DEF LinkInv, LinkTypes
<1>4. /\ \A o \in Links!Runs : report[o] = "done" => report'[o] = "done"
      /\ \A o \in Links!Runs : mark[o] \subseteq mark'[o]
      /\ \A o \in Links!Runs : report[o] # "none" => report'[o] # "none"
      /\ \A p \in LinkRequests : asked'[p].run = asked[p].run /\ asked'[p].deleted = asked[p].deleted
      /\ \A p \in LinkRequests : linked'[p] = linked[p]
           \/ (asked[p].run = linked'[p] /\ report'[asked[p].run] = "done")
  BY <1>1 DEF LinkInv, LinkTypes
<1> QED BY <1>1, <1>3, <1>4, LinksStay

LEMMA StartRecheckLinks ==
  ASSUME LinkInv, NEW q \in LinkRequests, Links!StartRecheck(q)
  PROVE  LinkInv'
<1>1. Links!NextRun \in Links!Runs /\ report[Links!NextRun] = "none"
  BY NextRunIsUnused DEF Links!StartRecheck
<1>2. PICK next \in Links!Runs : report[next] = "none" /\ report' = [report EXCEPT ![next] = "queued"]
  BY <1>1 DEF Links!StartRecheck
<1>3. UNCHANGED <<asked, mark, page, linked, latecomers>>
  BY DEF Links!StartRecheck
<1>4. LinkTypes' /\ \A o \in Links!Runs : report[o] = "done" => report'[o] = "done"
  BY <1>2, <1>3 DEF LinkInv, LinkTypes, Links!RunStatus
<1>5. /\ \A o \in Links!Runs : report[o] = "done" => report'[o] = "done"
      /\ \A o \in Links!Runs : mark[o] \subseteq mark'[o]
      /\ \A o \in Links!Runs : report[o] # "none" => report'[o] # "none"
      /\ \A p \in LinkRequests : asked'[p].run = asked[p].run /\ asked'[p].deleted = asked[p].deleted
      /\ \A p \in LinkRequests : linked'[p] = linked[p]
           \/ (asked[p].run = linked'[p] /\ report'[asked[p].run] = "done")
  BY <1>2, <1>3, <1>4 DEF LinkInv, LinkTypes
<1> QED BY <1>3, <1>4, <1>5, LinksStay

LEMMA EraseLinks ==
  ASSUME LinkInv, Links!Erase
  PROVE  LinkInv'
<1>1. UNCHANGED <<report, mark, page, linked, latecomers>>
  BY DEF Links!Erase
<1>2. PICK qs : asked' = [q \in LinkRequests |-> [asked[q] EXCEPT !.erased = @ \/ q \in qs]]
  BY DEF Links!Erase
<1>3. \A q \in LinkRequests : /\ asked'[q] \in Links!RequestRow
                              /\ asked'[q].run = asked[q].run /\ asked'[q].deleted = asked[q].deleted
  <2> SUFFICES ASSUME NEW q \in LinkRequests, NEW e \in BOOLEAN, asked'[q] = [asked[q] EXCEPT !.erased = e]
               PROVE  /\ asked'[q] \in Links!RequestRow
                      /\ asked'[q].run = asked[q].run /\ asked'[q].deleted = asked[q].deleted
    BY <1>2
  <2>1. asked[q] \in Links!RequestRow
    BY DEF LinkInv, LinkTypes
  <2> QED BY <2>1 DEF Links!RequestRow
<1>4. LinkTypes'
  BY <1>1, <1>2, <1>3 DEF LinkInv, LinkTypes
<1>5. /\ \A o \in Links!Runs : report[o] = "done" => report'[o] = "done"
      /\ \A o \in Links!Runs : mark[o] \subseteq mark'[o]
      /\ \A o \in Links!Runs : report[o] # "none" => report'[o] # "none"
      /\ \A p \in LinkRequests : asked'[p].run = asked[p].run /\ asked'[p].deleted = asked[p].deleted
      /\ \A p \in LinkRequests : linked'[p] = linked[p]
           \/ (asked[p].run = linked'[p] /\ report'[asked[p].run] = "done")
  BY <1>1, <1>3
<1> QED BY <1>1, <1>4, <1>5, LinksStay

LEMMA CreateRerunLinks ==
  ASSUME LinkInv, NEW r \in Links!Runs, Links!CreateRerun(r)
  PROVE  LinkInv'
<1>1. Links!NextRun \in Links!Runs /\ report[Links!NextRun] = "none"
  BY NextRunIsUnused DEF Links!CreateRerun
<1>2. PICK next \in Links!Runs :
        /\ report[next] = "none" /\ report' = [report EXCEPT ![next] = "queued"]
        /\ asked' = [q \in LinkRequests |->
             IF q \in Links!Linked(r) THEN [asked[q] EXCEPT !.run = next] ELSE asked[q]]
  BY <1>1 DEF Links!CreateRerun
<1>3. UNCHANGED <<mark, page, linked, latecomers>>
  BY DEF Links!CreateRerun
<1>4. \A q \in LinkRequests :
        /\ asked[q] \in Links!RequestRow /\ asked'[q] \in Links!RequestRow
        /\ asked'[q].deleted = asked[q].deleted
        /\ asked'[q].run \in {asked[q].run, next}
        /\ asked'[q].run # asked[q].run => asked[q].run = r
        /\ asked[q].run = r /\ ~asked[q].deleted => asked'[q].run = next
        /\ asked[q].deleted => asked'[q].run = asked[q].run
  <2> SUFFICES ASSUME NEW q \in LinkRequests
               PROVE  /\ asked[q] \in Links!RequestRow /\ asked'[q] \in Links!RequestRow
                      /\ asked'[q].deleted = asked[q].deleted
                      /\ asked'[q].run \in {asked[q].run, next}
                      /\ asked'[q].run # asked[q].run => asked[q].run = r
                      /\ asked[q].run = r /\ ~asked[q].deleted => asked'[q].run = next
                      /\ asked[q].deleted => asked'[q].run = asked[q].run
    OBVIOUS
  <2>1. asked[q] \in Links!RequestRow
    BY DEF LinkInv, LinkTypes
  <2>2. CASE q \in Links!Linked(r)
    <3>1. asked'[q] = [asked[q] EXCEPT !.run = next] /\ asked[q].run = r /\ ~asked[q].deleted
      BY <1>2, <2>2 DEF Links!Linked
    <3>2. next \in 0..MaxRuns
      BY LinkConstants DEF Links!Runs
    <3> QED BY <2>1, <3>1, <3>2 DEF Links!RequestRow
  <2>3. CASE q \notin Links!Linked(r)
    BY <1>2, <2>1, <2>3 DEF Links!Linked
  <2> QED BY <2>2, <2>3
<1>5. LinkTypes' /\ \A o \in Links!Runs : report[o] = "done" => report'[o] = "done" /\ o # next
  BY <1>2, <1>3, <1>4 DEF LinkInv, LinkTypes, Links!RunStatus
<1>6. ASSUME NEW q \in LinkRequests
      PROVE  MailFits(q)'
  <2> SUFFICES ASSUME linked[q] # 0, ~asked[q].deleted
               PROVE  ShownBy(q, linked[q])'
    BY <1>3, <1>4 DEF MailFits
  <2>1. PICK m \in Links!Runs : m = linked[q]
    BY DEF LinkInv, LinkTypes, Links!Runs
  <2>2. ShownBy(q, m) /\ m # next
    BY <1>2, <2>1 DEF LinkInv, MailFits, ShownBy
  <2>3. report'[m] = report[m] /\ next # 0
    BY <1>2, <2>2, LinkConstants DEF LinkInv, LinkTypes, Links!Runs
  <2>4. asked[q].run # m => asked'[q].run # m
    BY <1>4, <2>2
  <2>5. Links!TakenByALateOne(m) => Links!TakenByALateOne(m)'
    BY <1>3, <1>4 DEF Links!TakenByALateOne, LinkInv, LinkTypes
  <2>6. Links!Linked(m)' \subseteq Links!Linked(m) /\ (r = m => Links!Linked(m)' = {})
    BY <1>4, <2>2 DEF Links!Linked
  <2>7. asked'[q].run # m => Links!Linked(m)' \subseteq latecomers
    BY <1>4, <2>2, <2>6 DEF ShownBy
  <2>8. asked'[q].run # 0
    BY <1>4, <2>2, <2>3 DEF ShownBy
  <2>9. report'[m] = "done" \/ (asked'[q].run # m /\ Links!TakenByALateOne(m)')
    BY <2>2, <2>3, <2>4, <2>5 DEF ShownBy
  <2> QED BY <1>3, <2>1, <2>2, <2>3, <2>7, <2>8, <2>9 DEF ShownBy
<1>7. ASSUME NEW v \in Visitors
      PROVE  PageFits(v)'
  <2>1. PageFits(v) /\ page[v] \in LinkPage
    BY DEF LinkInv, LinkTypes
  <2> QED BY <1>3, <1>5, <2>1 DEF PageFits, LinkPage, Links!Runs
<1> QED BY <1>5, <1>6, <1>7 DEF LinkInv

LEMMA DeleteRequestLinks ==
  ASSUME LinkInv, NEW q \in LinkRequests, Links!DeleteRequest(q)
  PROVE  LinkInv'
<1>1. PICK r, gone : r = asked[q].run /\ gone = {s \in Links!Runs \cap {r} : Links!NobodyLeft(s, q)}
  OBVIOUS
<1>2. /\ ~asked[q].deleted
      /\ asked' = [asked EXCEPT ![q] = [@ EXCEPT !.deleted = TRUE]]
      /\ report' = [s \in Links!Runs |-> IF s \in gone THEN "deleted" ELSE report[s]]
      /\ mark' = [s \in Links!Runs |-> IF s \in gone THEN {} ELSE mark[s]]
      /\ page' = [v \in Visitors |-> [page[v] EXCEPT !.cut = @ \/ page[v].run \in gone]]
      /\ UNCHANGED <<linked, latecomers>>
  BY <1>1 DEF Links!DeleteRequest
<1>3. gone \subseteq {r} /\ (gone # {} => Links!Linked(r) = {q})
  BY <1>1 DEF LinkInv, LinkTypes, Links!RequestRow, Links!NobodyLeft
<1>4. /\ asked'[q].deleted = TRUE /\ asked'[q] \in Links!RequestRow
      /\ \A p \in LinkRequests \ {q} : asked'[p] = asked[p]
      /\ asked' \in [LinkRequests -> Links!RequestRow]
  BY <1>2 DEF LinkInv, LinkTypes, Links!RequestRow
<1>5. ASSUME NEW v \in Visitors
      PROVE  /\ page'[v] \in LinkPage /\ page'[v].pc = page[v].pc /\ page'[v].run = page[v].run
             /\ page'[v].loaded = page[v].loaded /\ page'[v].answers = page[v].answers
             /\ page'[v].cut = (page[v].cut \/ page[v].run \in gone)
  <2>1. PICK c \in BOOLEAN : c = (page[v].cut \/ page[v].run \in gone)
    OBVIOUS
  <2>2. page'[v] = [page[v] EXCEPT !.cut = c] /\ page[v] \in LinkPage
    BY <1>2, <2>1 DEF LinkInv, LinkTypes
  <2>3. page'[v].cut = c
    BY <2>2 DEF LinkPage
  <2> QED BY <2>1, <2>2, <2>3 DEF LinkPage
<1>6. LinkTypes'
  BY <1>2, <1>4, <1>5 DEF LinkInv, LinkTypes, Links!RunStatus
<1>7. ASSUME NEW p \in LinkRequests
      PROVE  MailFits(p)'
  <2> SUFFICES ASSUME linked[p] # 0, ~asked'[p].deleted
               PROVE  ShownBy(p, linked[p])'
    BY <1>2 DEF MailFits
  <2>1. PICK m \in Links!Runs : m = linked[p]
    BY DEF LinkInv, LinkTypes, Links!Runs
  <2>2. p # q /\ asked'[p] = asked[p]
    BY <1>4
  <2>3. ShownBy(p, m)
    BY <2>1, <2>2 DEF LinkInv, MailFits
  <2>4. Links!Linked(m)' \subseteq Links!Linked(m)
    BY <1>4 DEF Links!Linked
  <2>5. Links!TakenByALateOne(m) => Links!TakenByALateOne(m)'
    BY <1>2, <1>4 DEF Links!TakenByALateOne, LinkInv, LinkTypes, Links!RequestRow
  <2>6. m \in gone => asked[p].run # m /\ Links!TakenByALateOne(m)'
    <3> SUFFICES ASSUME m \in gone
                 PROVE  asked[p].run # m /\ Links!TakenByALateOne(m)'
      OBVIOUS
    <3>1. m = asked[q].run /\ Links!Linked(m) = {q}
      BY <1>1, <1>3
    <3>2. asked[p].run # m
      BY <2>2, <3>1 DEF Links!Linked
    <3>3. q \in latecomers
      BY <2>3, <3>1, <3>2 DEF ShownBy
    <3>4. asked'[q].run = m /\ asked'[q].deleted
      BY <1>2, <1>4, <3>1 DEF LinkInv, LinkTypes, Links!RequestRow
    <3> QED BY <1>2, <3>2, <3>3, <3>4 DEF Links!TakenByALateOne
  <2>7. report'[m] = IF m \in gone THEN "deleted" ELSE report[m]
    BY <1>2
  <2> QED BY <1>2, <2>1, <2>2, <2>3, <2>4, <2>5, <2>6, <2>7 DEF ShownBy
<1>8. ASSUME NEW v \in Visitors
      PROVE  PageFits(v)'
  <2>1. PageFits(v) /\ page[v] \in LinkPage
    BY DEF LinkInv, LinkTypes
  <2> QED BY <1>2, <1>5, <2>1 DEF PageFits, LinkPage, Links!Runs
<1> QED BY <1>6, <1>7, <1>8 DEF LinkInv

\* What a page must be to go on as n.
PageGoesTo(v, n) ==
  /\ n \in LinkPage
  /\ n.pc # "closed" => n.run # 0
  /\ n.pc \in {"results", "insert", "joined", "refused"} => n.loaded = "done"
  /\ n.pc # "closed" /\ n.loaded = "done" /\ ~n.cut =>
       /\ report[n.run] = "done"
       /\ n.pc \in {"shown", "insert", "joined"} => n.answers
       /\ n.pc = "joined" => "waitlist" \in mark'[n.run]

LEMMA PageMoves ==
  ASSUME LinkInv, NEW v \in Visitors, NEW n, PageGoesTo(v, n), page' = [page EXCEPT ![v] = n],
         mark' \in [Links!Runs -> SUBSET Links!MarkKinds],
         \A r \in Links!Runs : mark[r] \subseteq mark'[r], UNCHANGED <<report, asked, linked, latecomers>>
  PROVE  LinkInv'
<1>1. LinkTypes'
  BY DEF LinkInv, LinkTypes, PageGoesTo
<1>2. \A q \in LinkRequests : MailFits(q)'
  BY DEF LinkInv, MailFits, ShownBy, Links!Linked, Links!TakenByALateOne
<1>3. ASSUME NEW u \in Visitors
      PROVE  PageFits(u)'
  <2>1. PageFits(u) /\ page[u] \in LinkPage /\ page'[v] = n /\ (u # v => page'[u] = page[u])
    BY DEF LinkInv, LinkTypes
  <2>2. CASE u = v
    BY <2>1, <2>2 DEF PageFits, PageGoesTo
  <2>3. CASE u # v
    BY <2>1, <2>3 DEF PageFits, LinkPage, Links!Runs
  <2> QED BY <2>2, <2>3
<1> QED BY <1>1, <1>2, <1>3 DEF LinkInv

LEMMA ReadingLinks ==
  ASSUME LinkInv, NEW v \in Visitors,
         Links!Close(v) \/ Links!OpenReport(v) \/ Links!ReadRequest(v) \/ Links!ReadResults(v)
  PROVE  LinkInv'
<1>1. UNCHANGED <<report, asked, mark, linked, latecomers>>
  BY DEF Links!Close, Links!OpenReport, Links!ReadRequest, Links!ReadResults
<1>2. page[v] \in LinkPage /\ PageFits(v)
  BY DEF LinkInv, LinkTypes
<1>3. Links!NoPage \in LinkPage /\ Links!NoPage.pc = "closed"
  BY LinkConstants DEF Links!NoPage, LinkPage, Links!RunStatus
<1>4. \E n : PageGoesTo(v, n) /\ page' = [page EXCEPT ![v] = n]
  <2>1. CASE Links!Close(v)
    <3>1. page' = [page EXCEPT ![v] = Links!NoPage]
      BY <2>1 DEF Links!Close
    <3>2. PageGoesTo(v, Links!NoPage)
      BY <1>3 DEF PageGoesTo
    <3> QED BY <3>1, <3>2
  <2>2. CASE Links!OpenReport(v)
    <3>1. PICK r \in Links!Runs :
            page' = [page EXCEPT ![v] = [Links!NoPage EXCEPT !.pc = "request", !.run = r, !.loaded = report[r]]]
      BY <2>2 DEF Links!OpenReport
    <3>2. PICK s \in Links!RunStatus : s = report[r]
      BY DEF LinkInv, LinkTypes
    <3>3. PICK n : n = [Links!NoPage EXCEPT !.pc = "request", !.run = r, !.loaded = s]
      OBVIOUS
    <3>4. n \in LinkPage /\ n.pc = "request" /\ n.run = r /\ n.loaded = s
      <4>1. r \in 0..MaxRuns
        BY LinkConstants DEF Links!Runs
      <4>2. n = [pc |-> "request", run |-> r, loaded |-> s, source |-> "none",
                 answers |-> FALSE, cut |-> FALSE]
        BY <3>3 DEF Links!NoPage
      <4> QED BY <3>2, <4>1, <4>2 DEF LinkPage
    <3>5. PageGoesTo(v, n)
      BY <3>2, <3>4, LinkConstants DEF PageGoesTo, Links!Runs
    <3> QED BY <3>1, <3>2, <3>3, <3>5
  <2>3. CASE Links!ReadRequest(v)
    <3>1. PICK pc, source :
            /\ pc = IF page[v].loaded = "done" THEN "results" ELSE "shown"
            /\ source = IF Links!Linked(page[v].run) = {} THEN "none"
                        ELSE asked[Links!Oldest(Links!Linked(page[v].run))].source
      OBVIOUS
    <3>2. page' = [page EXCEPT ![v] = [page[v] EXCEPT !.pc = pc, !.source = source]] /\ page[v].pc = "request"
      BY <2>3, <3>1 DEF Links!ReadRequest
    <3>3. source \in {"none", "form", "outbound"}
      <4>1. CASE Links!Linked(page[v].run) = {}
        BY <3>1, <4>1
      <4>2. CASE Links!Linked(page[v].run) # {}
        <5>1. Links!Linked(page[v].run) \in SUBSET LinkRequests
          BY DEF Links!Linked
        <5>2. Links!Oldest(Links!Linked(page[v].run)) \in LinkRequests
          BY <4>2, <5>1, OldestIsIn, LinkConstants
        <5> QED BY <3>1, <4>2, <5>2 DEF LinkInv, LinkTypes, Links!RequestRow
      <4> QED BY <4>1, <4>2
    <3>4. PICK n : n = [page[v] EXCEPT !.pc = pc, !.source = source]
      OBVIOUS
    <3>5. /\ n \in LinkPage /\ n.pc = pc /\ n.run = page[v].run /\ n.loaded = page[v].loaded
          /\ n.cut = page[v].cut /\ n.answers = page[v].answers
      BY <1>2, <3>1, <3>3, <3>4 DEF LinkPage
    <3>6. PageGoesTo(v, n)
      BY <1>2, <3>1, <3>2, <3>5 DEF PageGoesTo, PageFits
    <3> QED BY <3>2, <3>4, <3>6
  <2>4. CASE Links!ReadResults(v)
    <3>1. PICK answers \in BOOLEAN : answers = (report[page[v].run] = "done")
      OBVIOUS
    <3>2. page' = [page EXCEPT ![v] = [page[v] EXCEPT !.pc = "shown", !.answers = answers]] /\ page[v].pc = "results"
      BY <2>4, <3>1 DEF Links!ReadResults
    <3>3. PICK n : n = [page[v] EXCEPT !.pc = "shown", !.answers = answers]
      OBVIOUS
    <3>4. /\ n \in LinkPage /\ n.pc = "shown" /\ n.run = page[v].run /\ n.loaded = page[v].loaded
          /\ n.cut = page[v].cut /\ n.answers = answers
      BY <1>2, <3>3 DEF LinkPage
    <3>5. PageGoesTo(v, n)
      BY <1>2, <3>1, <3>2, <3>4 DEF PageGoesTo, PageFits
    <3> QED BY <3>2, <3>3, <3>5
  <2> QED BY <2>1, <2>2, <2>3, <2>4
<1>5. \A r \in Links!Runs : mark[r] \subseteq mark'[r]
  BY <1>1
<1>6. mark' \in [Links!Runs -> SUBSET Links!MarkKinds]
  BY <1>1 DEF LinkInv, LinkTypes
<1> QED BY <1>1, <1>4, <1>5, <1>6, PageMoves

LEMMA MarkingLinks ==
  ASSUME LinkInv, NEW v \in Visitors,
         Links!RecordReportView(v) \/ Links!RecordBookingClick(v) \/ Links!RecordMonitorClick(v)
  PROVE  LinkInv'
<1>1. PICK kind \in Links!MarkKinds : Links!Mark(page[v].run, kind)
  BY DEF Links!RecordReportView, Links!RecordBookingClick, Links!RecordMonitorClick, Links!MarkKinds
<1>2. /\ mark' = [mark EXCEPT ![page[v].run] = @ \cup {kind}]
      /\ UNCHANGED <<report, asked, page, linked, latecomers>>
  BY <1>1 DEF Links!Mark
<1>3. /\ mark' \in [Links!Runs -> SUBSET Links!MarkKinds]
      /\ \A r \in Links!Runs : mark[r] \subseteq mark'[r]
  BY <1>2 DEF LinkInv, LinkTypes
<1>4. LinkTypes'
  BY <1>2, <1>3 DEF LinkInv, LinkTypes
<1>5. /\ \A o \in Links!Runs : report[o] = "done" => report'[o] = "done"
      /\ \A p \in LinkRequests : asked'[p].run = asked[p].run /\ asked'[p].deleted = asked[p].deleted
      /\ \A p \in LinkRequests : linked'[p] = linked[p]
  BY <1>2
<1> QED BY <1>2, <1>3, <1>4, <1>5, LinksStay

LEMMA JoiningLinks ==
  ASSUME LinkInv, NEW v \in Visitors, Links!AskToJoin(v) \/ Links!InsertWaitlist(v)
  PROVE  LinkInv'
<1>1. page[v] \in LinkPage /\ PageFits(v) /\ mark \in [Links!Runs -> SUBSET Links!MarkKinds]
  BY DEF LinkInv, LinkTypes
<1>2. PICK r : r = page[v].run
  OBVIOUS
<1>3. CASE Links!AskToJoin(v)
  <2>1. PICK pc : /\ pc = CASE Links!MonitorPageState(r) = "joined" -> "joined"
                            [] Links!MonitorPageState(r) = "open" -> "insert"
                            [] OTHER -> "refused"
                  /\ page' = [page EXCEPT ![v].pc = pc]
    BY <1>2, <1>3 DEF Links!AskToJoin
  <2>2. pc \in {"joined", "insert", "refused"} /\ (pc = "joined" => "waitlist" \in mark[r])
    BY <2>1 DEF Links!MonitorPageState
  <2>3. page[v].pc = "shown" /\ page[v].loaded = "done" /\ UNCHANGED <<report, asked, mark, linked, latecomers>>
    BY <1>3 DEF Links!AskToJoin, Links!Showing
  <2>4. PICK n : n = [page[v] EXCEPT !.pc = pc]
    OBVIOUS
  <2>5. /\ n \in LinkPage /\ n.pc = pc /\ n.run = r /\ n.loaded = "done"
        /\ n.cut = page[v].cut /\ n.answers = page[v].answers
    BY <1>1, <1>2, <2>2, <2>3, <2>4 DEF LinkPage
  <2>6. PageGoesTo(v, n)
    BY <1>1, <1>2, <2>2, <2>3, <2>5 DEF PageGoesTo, PageFits
  <2>7. page' = [page EXCEPT ![v] = n]
    BY <2>1, <2>4
  <2>8. mark' \in [Links!Runs -> SUBSET Links!MarkKinds] /\ \A s \in Links!Runs : mark[s] \subseteq mark'[s]
    BY <1>1, <2>3
  <2> QED BY <2>3, <2>6, <2>7, <2>8, PageMoves
<1>4. CASE Links!InsertWaitlist(v)
  <2>1. /\ page[v].pc = "insert" /\ page' = [page EXCEPT ![v].pc = "joined"]
        /\ mark' = IF Links!Exists(r) THEN [mark EXCEPT ![r] = @ \cup {"waitlist"}] ELSE mark
        /\ UNCHANGED <<report, asked, linked, latecomers>>
    BY <1>2, <1>4 DEF Links!InsertWaitlist
  <2>2. PICK n : n = [page[v] EXCEPT !.pc = "joined"]
    OBVIOUS
  <2>3. /\ n \in LinkPage /\ n.pc = "joined" /\ n.run = r /\ n.loaded = page[v].loaded
        /\ n.cut = page[v].cut /\ n.answers = page[v].answers
    BY <1>1, <1>2, <2>2 DEF LinkPage
  <2>4. r \in Links!Runs
    BY <1>1, <1>2, <2>1 DEF PageFits, LinkPage, Links!Runs
  <2>5. report[r] = "done" => "waitlist" \in mark'[r]
    BY <1>1, <2>1, <2>4 DEF Links!Exists
  <2>6. PageGoesTo(v, n)
    BY <1>1, <1>2, <2>1, <2>3, <2>5 DEF PageGoesTo, PageFits
  <2>7. page' = [page EXCEPT ![v] = n]
    BY <2>1, <2>2
  <2>8. mark' \in [Links!Runs -> SUBSET Links!MarkKinds] /\ \A s \in Links!Runs : mark[s] \subseteq mark'[s]
    BY <1>1, <2>1 DEF Links!MarkKinds
  <2> QED BY <2>1, <2>6, <2>7, <2>8, PageMoves
<1> QED BY <1>3, <1>4

\* A mailed link works until its request is deleted, or a latecomer to the run a
\* re-run took it from; a page that shows a report
\* shows its answers, and whoever is told to be on the waitlist is on it
\* (report.ts, monitor.ts, retention.ts).
THEOREM LinksKeepTheirWord == EmailsSpec => []LinksAreHonest
<1>1. Links!Init => LinkInv
  BY LinksBegin
<1>2. LinkInv /\ [Links!Next]_Links!vars => LinkInv'
  <2> SUFFICES ASSUME LinkInv, [Links!Next]_Links!vars
               PROVE  LinkInv'
    OBVIOUS
  <2>1. CASE UNCHANGED Links!vars
    BY <2>1 DEF Links!vars, LinkInv, LinkTypes, MailFits, PageFits, ShownBy, Links!Linked,
                Links!TakenByALateOne
  <2>2. ASSUME NEW r \in Links!Runs, Links!FinishRun(r) \/ Links!CreateRerun(r)
        PROVE  LinkInv'
    BY <2>2, FinishRunLinks, CreateRerunLinks
  <2>3. ASSUME NEW q \in LinkRequests,
               \/ Links!JoinRun(q) \/ Links!StartRun(q)
               \/ Links!SendReport(q) \/ Links!StartRecheck(q) \/ Links!DeleteRequest(q)
        PROVE  LinkInv'
    BY <2>3, AttachingLinks, SendReportLinks, StartRecheckLinks, DeleteRequestLinks
  <2>4. CASE Links!Erase
    BY <2>4, EraseLinks
  <2>5. ASSUME NEW v \in Visitors,
               \/ Links!OpenReport(v) \/ Links!ReadRequest(v) \/ Links!ReadResults(v) \/ Links!Close(v)
               \/ Links!RecordReportView(v) \/ Links!RecordBookingClick(v) \/ Links!RecordMonitorClick(v)
               \/ Links!AskToJoin(v) \/ Links!InsertWaitlist(v)
        PROVE  LinkInv'
    BY <2>5, ReadingLinks, MarkingLinks, JoiningLinks
  <2> QED BY <2>1, <2>2, <2>3, <2>4, <2>5 DEF Links!Next
<1>3. LinkInv => LinksAreHonest
  <2> SUFFICES ASSUME LinkInv
               PROVE  Links!EmailedLinksWork /\ Links!PagesAreWhole /\ Links!JoinersAreListed
    BY DEF LinksAreHonest, Links!LinksAreHonest
  <2>1. Links!EmailedLinksWork
    BY DEF LinkInv, MailFits, ShownBy, Links!EmailedLinksWork
  <2>2. Links!PagesAreWhole /\ Links!JoinersAreListed
    BY DEF LinkInv, LinkTypes, LinkPage, PageFits, Links!PagesAreWhole, Links!JoinersAreListed
  <2> QED BY <2>1, <2>2
<1>4. EmailsInit => Links!Init
  BY DEF EmailsInit
<1>5. [EmailsNext]_emailsVars => [Links!Next]_Links!vars
  BY DEF EmailsNext, Reports, FollowUps, FollowingLinks, Limiting, emailsVars, linkVars, Links!vars
<1> QED BY <1>1, <1>2, <1>3, <1>4, <1>5, PTL DEF EmailsSpec

=============================================================================

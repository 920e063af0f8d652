--------------------------- MODULE RechecksProofs ---------------------------
(***************************************************************************)
(* What holds of Rechecks for any leads, workers, slots, limits and events,*)
(* however the workers' steps, crashes and slow sends overlap.             *)
(*                                                                         *)
(* A claim raises the attempts it has read and starts the backoff.  Who    *)
(* holds a row therefore has the newest claim, and the backoff has not     *)
(* ended, or the claim is among the overtaken; and an email that is        *)
(* neither unheard nor overtaken is the newest claim's, and no claim       *)
(* follows it: its row is marked, gone, or about to be marked.             *)
(*                                                                         *)
(* The second part is about what each worker's own sweeps add: what it     *)
(* checked before an insert stays true of its own re-checks, for nobody    *)
(* else adds to them.                                                      *)
(*                                                                         *)
(* The third proves of the watch in the composition MCOffice what the      *)
(* metrics and the alerts promise: the rows a source has, and how many     *)
(* alerts are open or mailed.  The last is about the drafts and the edits  *)
(* of panels in it.                                                        *)
(***************************************************************************)
EXTENDS MCOffice, FiniteSetTheorems, TLAPS

\* Row i is stored, and no backoff of its emails ended before the send.
Clean(i) == recheck[i].stored /\ recheck[i].overtaken = {}

\* A worker n with a claimed row.
HoldFine(n) == Holding(n) =>
  /\ n.slot \in Slots /\ n.lead \in Leads /\ n.token \in 1..MaxAttempts
  /\ run[n.slot].status # "absent" /\ run[n.slot].lead = n.lead
  /\ n.token <= recheck[n.slot].attempts
  /\ \/ n.token \in recheck[n.slot].overtaken
     \/ ~recheck[n.slot].waited /\ n.token = recheck[n.slot].attempts
  /\ Clean(n.slot) =>
       /\ ~recheck[n.slot].emailed
       /\ n.pc # "token" => recheck[n.slot].token = n.token
  /\ n.pc = "mark" => [slot |-> n.slot, token |-> n.token] \in inbox[n.lead]

InsertFine(n) == n.pc = "insert" =>
  n.slot \in Slots /\ n.lead \in Leads /\ run[n.slot].status = "absent"

\* A row that was read is stale, or may be claimed.
RowsFine(n) == \A x \in n.rows :
  /\ run[x.slot].status # "absent" /\ x.attempts < MaxAttempts
  /\ x.attempts <= recheck[x.slot].attempts
  /\ x.attempts = recheck[x.slot].attempts => recheck[x.slot].waited

WorkerInv == \A w \in Workers : HoldFine(sweeper[w]) /\ InsertFine(sweeper[w]) /\ RowsFine(sweeper[w])

\* No two workers have one claim of a slot, or insert into one.
Apart ==
  \A w, u \in Workers : sweeper[w].slot = sweeper[u].slot =>
    /\ Holding(sweeper[w]) /\ Holding(sweeper[u]) /\ sweeper[w].token = sweeper[u].token => w = u
    /\ sweeper[w].pc = "insert" /\ sweeper[u].pc = "insert" => w = u

AboutToMark(i, t) ==
  \E w \in Workers : sweeper[w].pc = "mark" /\ sweeper[w].slot = i /\ sweeper[w].token = t

SlotFine(i) ==
  /\ run[i].status # "absent" => run[i].lead \in Leads
  /\ run[i].status = "absent" => ~recheck[i].emailed
  /\ Clean(i) /\ recheck[i].emailed => [slot |-> i, token |-> recheck[i].token] \in inbox[run[i].lead]

\* An email e that lead l received.
MailFine(l, e) ==
  /\ run[e.slot].status # "absent" /\ run[e.slot].lead = l /\ e.token <= recheck[e.slot].attempts
  /\ \/ e.token \in recheck[e.slot].unheard \cup recheck[e.slot].overtaken
     \/ /\ e.token = recheck[e.slot].attempts
        /\ recheck[e.slot].emailed \/ ~recheck[e.slot].stored \/ AboutToMark(e.slot, e.token)
  /\ Clean(e.slot) => e.token = recheck[e.slot].token \/ e.token \in recheck[e.slot].unheard

SlotInv == \A i \in Slots : SlotFine(i)
MailInv == \A l \in Leads : \A e \in inbox[l] : MailFine(l, e)

IInv == TypeOK /\ WorkerInv /\ Apart /\ SlotInv /\ MailInv
-----------------------------------------------------------------------------
LEMMA AtTopRow == /\ AtTop \in SweeperRow /\ AtTop.pc = "top" /\ AtTop.rows = {} /\ AtTop.due = {}
                  /\ AtTop.slot = "none" /\ AtTop.add = FALSE
<1>1. 0 \in 0..MaxPerDay /\ 0 \in 0..MaxAttempts
  BY NumbersAssumption
<1> QED BY <1>1 DEF AtTop, SweeperRow

LEMMA InitHolds == ASSUME Init PROVE IInv
<1>1. TypeOK
  <2>1. 0 \in 0..MaxAttempts /\ 0 \in 0..MaxNights
    BY NumbersAssumption
  <2>2. lead \in [Leads -> LeadRow]
    BY DEF Init, LeadRow
  <2>3. run \in [Slots -> RunRow] /\ \A i \in Slots : ~recheck[i].stored
    BY DEF Init, RunRow
  <2>4. recheck \in [Slots -> RecheckRow]
    BY <2>1 DEF Init, RecheckRow
  <2>5. sweeper \in [Workers -> SweeperRow]
    BY AtTopRow DEF Init
  <2> QED BY <2>1, <2>2, <2>3, <2>4, <2>5 DEF Init, TypeOK
<1>2. WorkerInv /\ Apart
  BY AtTopRow DEF Init, WorkerInv, Apart, HoldFine, InsertFine, RowsFine, Holding
<1>3. SlotInv
  BY DEF Init, SlotInv, SlotFine, Clean
<1>4. MailInv
  BY DEF Init, MailInv
<1> QED BY <1>1, <1>2, <1>3, <1>4 DEF IInv

\* Whose row and email stay the same stays as fine as it was.
LEMMA Stays ==
  ASSUME UNCHANGED <<run, recheck, inbox>>
  PROVE  /\ \A n : /\ HoldFine(n) => HoldFine(n)'
                   /\ InsertFine(n) => InsertFine(n)'
                   /\ RowsFine(n) => RowsFine(n)'
         /\ \A i : SlotFine(i) => SlotFine(i)'
BY DEF HoldFine, InsertFine, RowsFine, SlotFine, Clean, Holding

\* An email stays fine as long as whoever is about to mark it is.
LEMMA MailStays ==
  ASSUME UNCHANGED <<run, recheck>>, NEW l, NEW e, MailFine(l, e),
         AboutToMark(e.slot, e.token) => AboutToMark(e.slot, e.token)'
  PROVE  MailFine(l, e)'
BY DEF MailFine, Clean
-----------------------------------------------------------------------------
(* Steps of a worker that change nothing but its position *)

LEMMA WorkerMoves ==
  ASSUME IInv, NEW w \in Workers, NEW n \in SweeperRow,
         sweeper' = [sweeper EXCEPT ![w] = n],
         UNCHANGED <<lead, run, recheck, visitor, inbox, nights>>,
         sweeper[w].pc # "mark", ~Holding(n), InsertFine(n), RowsFine(n),
         n.pc = "insert" => \A u \in Workers : sweeper[u].slot # n.slot
  PROVE  IInv'
<1>1. sweeper'[w] = n /\ \A u \in Workers \ {w} : sweeper'[u] = sweeper[u]
  BY DEF IInv, TypeOK
<1>2. TypeOK'
  BY DEF IInv, TypeOK
<1>3. WorkerInv'
  <2>1. ASSUME NEW u \in Workers PROVE (HoldFine(sweeper[u]) /\ InsertFine(sweeper[u]) /\ RowsFine(sweeper[u]))'
    <3>1. PICK m : m = sweeper'[u]
      OBVIOUS
    <3>2. HoldFine(m) /\ InsertFine(m) /\ RowsFine(m)
      BY <1>1, <3>1 DEF IInv, WorkerInv, HoldFine
    <3>3. HoldFine(m)' /\ InsertFine(m)' /\ RowsFine(m)'
      BY <3>2, Stays
    <3> QED BY <3>1, <3>3 DEF HoldFine, InsertFine, RowsFine, Holding, Clean
  <2> QED BY <2>1 DEF WorkerInv
<1>4. Apart'
  BY <1>1 DEF IInv, Apart, Holding
<1>5. SlotInv'
  BY Stays DEF IInv, SlotInv
<1>6. MailInv'
  <2>1. \A i, t : AboutToMark(i, t) => AboutToMark(i, t)'
    BY <1>1 DEF AboutToMark
  <2> QED BY <2>1, MailStays DEF IInv, MailInv
<1> QED BY <1>2, <1>3, <1>4, <1>5, <1>6 DEF IInv

LEMMA CountTodayKeeps ==
  ASSUME IInv, NEW w \in Workers, CountToday(w)
  PROVE  IInv'
<1>1. Room \in 0..MaxPerDay
  <2>1. IsFiniteSet(RechecksToday)
    BY SetsAssumption, FS_Subset DEF RechecksToday
  <2>2. Cardinality(RechecksToday) \in Nat
    BY <2>1, FS_CardinalityType
  <2> QED BY <2>2, NumbersAssumption DEF Room
<1>2. PICK n \in SweeperRow : /\ sweeper' = [sweeper EXCEPT ![w] = n]
                              /\ n.pc \in {"mails", "select"} /\ n.rows = {}
  <2> DEFINE place == IF Room = 0 THEN "mails" ELSE "select"
             n == [AtTop EXCEPT !.room = Room, !.pc = place]
  <2>1. place \in {"mails", "select"}
    OBVIOUS
  <2>2. sweeper' = [sweeper EXCEPT ![w] = n]
    BY DEF CountToday
  <2> HIDE DEF place
  <2>3. n \in SweeperRow /\ n.pc = place /\ n.rows = {}
    BY <1>1, <2>1, AtTopRow DEF SweeperRow
  <2> QED BY <2>1, <2>2, <2>3
<1>3. sweeper[w].pc # "mark" /\ UNCHANGED <<lead, run, recheck, visitor, inbox, nights>>
  BY DEF CountToday, At
<1>4. ~Holding(n) /\ InsertFine(n) /\ RowsFine(n) /\ n.pc # "insert"
  BY <1>2 DEF Holding, InsertFine, RowsFine
<1> QED BY <1>2, <1>3, <1>4, WorkerMoves

LEMMA SelectDueKeeps ==
  ASSUME IInv, NEW w \in Workers, SelectDue(w)
  PROVE  IInv'
<1>1. sweeper[w] \in SweeperRow /\ sweeper[w].pc = "select" /\ UNCHANGED <<lead, run, recheck, visitor, inbox, nights>>
  BY DEF SelectDue, At, IInv, TypeOK
<1>2. PICK picked \in SUBSET Leads : sweeper' = [sweeper EXCEPT ![w].pc = "start", ![w].due = picked]
  BY DEF SelectDue, kSubset
<1>3. PICK n \in SweeperRow : /\ sweeper' = [sweeper EXCEPT ![w] = n]
                              /\ n.pc = "start" /\ n.rows = sweeper[w].rows
  <2> DEFINE n == [sweeper[w] EXCEPT !.pc = "start", !.due = picked]
  <2>1. sweeper' = [sweeper EXCEPT ![w] = n]
    BY <1>2 DEF IInv, TypeOK
  <2>2. n \in SweeperRow /\ n.pc = "start" /\ n.rows = sweeper[w].rows
    BY <1>1, <1>2 DEF SweeperRow
  <2> QED BY <2>1, <2>2
<1>4. ~Holding(n) /\ InsertFine(n) /\ RowsFine(n) /\ n.pc # "insert"
  BY <1>3 DEF Holding, InsertFine, RowsFine, IInv, WorkerInv
<1> QED BY <1>1, <1>3, <1>4, WorkerMoves

LEMMA InsertOneKeeps ==
  ASSUME IInv, NEW w \in Workers, InsertOne(w)
  PROVE  IInv'
<1>1. sweeper[w] \in SweeperRow /\ sweeper[w].pc = "start" /\ UNCHANGED <<lead, run, recheck, visitor, inbox, nights>>
  BY DEF InsertOne, At, IInv, TypeOK
<1>2. PICK l \in sweeper[w].due, i \in FreeSlots :
        sweeper' = [sweeper EXCEPT ![w] =
          IF lead[l].exists
            THEN [@ EXCEPT !.pc = "insert", !.due = sweeper[w].due \ {l}, !.lead = l, !.slot = i, !.add = ~Rechecked(l)]
            ELSE AtTop]
  BY DEF InsertOne
<1>3. l \in Leads /\ i \in Slots /\ run[i].status = "absent" /\ \A u \in Workers : sweeper[u].slot # i
  BY <1>1 DEF SweeperRow, FreeSlots
<1>4. PICK n \in SweeperRow : /\ sweeper' = [sweeper EXCEPT ![w] = n]
                              /\ \/ n.pc = "insert" /\ n.lead = l /\ n.slot = i /\ n.rows = sweeper[w].rows
                                 \/ n.pc = "top" /\ n.rows = {}
  <2>1. CASE lead[l].exists
    <3> DEFINE due == sweeper[w].due \ {l}
               add == ~Rechecked(l)
               n == [sweeper[w] EXCEPT !.pc = "insert", !.due = due, !.lead = l, !.slot = i, !.add = add]
    <3>1. sweeper' = [sweeper EXCEPT ![w] = n]
      <4>1. sweeper' = [sweeper EXCEPT ![w] =
              [@ EXCEPT !.pc = "insert", !.due = sweeper[w].due \ {l}, !.lead = l, !.slot = i, !.add = ~Rechecked(l)]]
        BY <1>2, <2>1
      <4> QED BY <4>1 DEF IInv, TypeOK
    <3>2. due \in SUBSET Leads /\ add \in BOOLEAN
      BY <1>1 DEF SweeperRow
    <3> HIDE DEF due, add
    <3>3. n \in SweeperRow /\ n.pc = "insert" /\ n.lead = l /\ n.slot = i /\ n.rows = sweeper[w].rows
      BY <1>1, <1>3, <3>2 DEF SweeperRow
    <3> QED BY <3>1, <3>3
  <2>2. CASE ~lead[l].exists
    BY <1>2, <2>2, AtTopRow
  <2> QED BY <2>1, <2>2
<1>5. ~Holding(n) /\ InsertFine(n) /\ RowsFine(n)
  BY <1>3, <1>4 DEF Holding, InsertFine, RowsFine, IInv, WorkerInv
<1> QED BY <1>1, <1>3, <1>4, <1>5, WorkerMoves

LEMMA SelectFinishedKeeps ==
  ASSUME IInv, NEW w \in Workers, SelectFinished(w)
  PROVE  IInv'
<1> DEFINE due == {[slot |-> i, attempts |-> recheck[i].attempts] : i \in {j \in Slots : DueEmail(j)}}
<1>1. sweeper[w] \in SweeperRow /\ sweeper[w].pc = "mails" /\ UNCHANGED <<lead, run, recheck, visitor, inbox, nights>>
  BY DEF SelectFinished, At, IInv, TypeOK
<1>2. \A x \in due : /\ x.slot \in Slots /\ DueEmail(x.slot) /\ x.attempts = recheck[x.slot].attempts
                     /\ x \in [slot: Slots, attempts: 0..MaxAttempts]
  BY DEF IInv, TypeOK, RecheckRow
<1>3. \A x \in due : /\ run[x.slot].status # "absent" /\ x.attempts < MaxAttempts
                     /\ x.attempts <= recheck[x.slot].attempts
                     /\ x.attempts = recheck[x.slot].attempts => recheck[x.slot].waited
  <2> SUFFICES ASSUME NEW x \in due
               PROVE  /\ run[x.slot].status # "absent" /\ x.attempts < MaxAttempts
                      /\ x.attempts <= recheck[x.slot].attempts
                      /\ x.attempts = recheck[x.slot].attempts => recheck[x.slot].waited
    OBVIOUS
  <2>1. PICK i \in Slots : i = x.slot /\ DueEmail(i) /\ x.attempts = recheck[i].attempts
    BY <1>2
  <2>2. recheck[i].attempts \in Nat
    BY NumbersAssumption DEF IInv, TypeOK, RecheckRow
  <2> QED BY <2>1, <2>2 DEF DueEmail
<1>4. PICK n \in SweeperRow : sweeper' = [sweeper EXCEPT ![w] = n] /\ n.pc = "claim" /\ n.rows = due
  <2>1. due \in SUBSET [slot: Slots, attempts: 0..MaxAttempts]
    BY <1>2
  <2>2. sweeper' = [sweeper EXCEPT ![w].pc = "claim", ![w].rows = due]
    BY DEF SelectFinished
  <2> HIDE DEF due
  <2> DEFINE n == [sweeper[w] EXCEPT !.pc = "claim", !.rows = due]
  <2>3. sweeper' = [sweeper EXCEPT ![w] = n]
    BY <2>2 DEF IInv, TypeOK
  <2>4. n \in SweeperRow /\ n.pc = "claim" /\ n.rows = due
    BY <1>1, <2>1 DEF SweeperRow
  <2> QED BY <2>3, <2>4
<1> HIDE DEF due
<1>5. ~Holding(n) /\ InsertFine(n) /\ RowsFine(n) /\ n.pc # "insert"
  <2>1. ~Holding(n) /\ InsertFine(n) /\ n.pc # "insert"
    BY <1>4 DEF Holding, InsertFine
  <2>2. RowsFine(n)
    BY <1>3, <1>4 DEF RowsFine
  <2> QED BY <2>1, <2>2
<1> QED BY <1>1, <1>4, <1>5, WorkerMoves

\* The ends of a sweep, and of a claim that comes to nothing.
LEMMA EndsKeep ==
  ASSUME IInv, NEW w \in Workers, AllStarted(w) \/ MailsEnd(w) \/ SendRefused(w)
  PROVE  IInv'
<1>1. sweeper[w] \in SweeperRow /\ sweeper[w].pc # "mark" /\ UNCHANGED <<lead, run, recheck, visitor, inbox, nights>>
  BY DEF AllStarted, MailsEnd, SendRefused, At, IInv, TypeOK
<1>2. PICK n \in SweeperRow : /\ sweeper' = [sweeper EXCEPT ![w] = n]
                              /\ n.pc \in {"mails", "top", "claim"} /\ n.rows \in {{}, sweeper[w].rows}
  <2>1. CASE AllStarted(w)
    <3> DEFINE n == [AtTop EXCEPT !.pc = "mails"]
    <3>1. sweeper' = [sweeper EXCEPT ![w] = n]
      BY <2>1 DEF AllStarted
    <3>2. n \in SweeperRow /\ n.pc = "mails" /\ n.rows = {}
      BY AtTopRow DEF SweeperRow
    <3> QED BY <3>1, <3>2
  <2>2. CASE MailsEnd(w)
    BY <2>2, AtTopRow DEF MailsEnd
  <2>3. CASE SendRefused(w)
    <3> DEFINE n == [sweeper[w] EXCEPT !.pc = "claim", !.slot = "none", !.lead = "none", !.token = 0]
    <3>1. sweeper' = [sweeper EXCEPT ![w] = n]
      BY <2>3 DEF SendRefused, NextRow, IInv, TypeOK
    <3>2. 0 \in 0..MaxAttempts
      BY NumbersAssumption
    <3>3. n \in SweeperRow /\ n.pc = "claim" /\ n.rows = sweeper[w].rows
      BY <1>1, <3>2 DEF SweeperRow
    <3> QED BY <3>1, <3>3
  <2> QED BY <2>1, <2>2, <2>3
<1>3. ~Holding(n) /\ InsertFine(n) /\ RowsFine(n) /\ n.pc # "insert"
  BY <1>2 DEF Holding, InsertFine, RowsFine, IInv, WorkerInv
<1> QED BY <1>1, <1>2, <1>3, WorkerMoves
-----------------------------------------------------------------------------
(* Steps of a worker that change the row of slot i, or what was sent for it *)

\* Worker w turns into n, and the row of slot i into r.
RowStep(w, n, i, r) ==
  /\ sweeper' = [sweeper EXCEPT ![w] = n] /\ recheck' = [recheck EXCEPT ![i] = r]
  /\ inbox' \in [Leads -> SUBSET Email] /\ UNCHANGED <<lead, run, visitor, nights>>
  /\ run[i].status # "absent"
  /\ Holding(sweeper[w]) => sweeper[w].slot = i
  /\ Holding(n) => n.slot = i
  /\ n.pc # "insert" /\ n.rows \subseteq sweeper[w].rows
  /\ r.stored = recheck[i].stored /\ recheck[i].attempts <= r.attempts
  /\ r.attempts = recheck[i].attempts /\ recheck[i].waited => r.waited
  /\ \A l \in Leads : inbox[l] \subseteq inbox'[l]
  /\ \A l \in Leads : \A e \in inbox'[l] : e.slot # i => e \in inbox[l]

LEMMA RowStepKeeps ==
  ASSUME IInv, NEW w \in Workers, NEW n \in SweeperRow, NEW i \in Slots, NEW r \in RecheckRow,
         RowStep(w, n, i, r), HoldFine(n)',
         \A u \in Workers \ {w} : Holding(sweeper[u]) /\ sweeper[u].slot = i =>
           HoldFine(sweeper[u])' /\ (Holding(n) => sweeper[u].token # n.token),
         SlotFine(i)',
         \A l \in Leads : \A e \in inbox'[l] : e.slot = i => MailFine(l, e)'
  PROVE  IInv'
<1> USE DEF RowStep
<1>1. sweeper'[w] = n /\ \A u \in Workers \ {w} : sweeper'[u] = sweeper[u]
  BY DEF IInv, TypeOK
<1>2. recheck'[i] = r /\ \A j \in Slots \ {i} : recheck'[j] = recheck[j]
  BY DEF IInv, TypeOK
<1>3. TypeOK'
  BY <1>2 DEF IInv, TypeOK
<1>4. /\ \A j \in Slots : recheck[j].attempts \in Nat
      /\ r.attempts \in Nat
      /\ \A u \in Workers : \A x \in sweeper[u].rows : x.slot \in Slots /\ x.attempts \in Nat
  BY NumbersAssumption DEF IInv, TypeOK, RecheckRow, SweeperRow
<1>5. \A u \in Workers : \A x \in sweeper[u].rows :
        /\ run'[x.slot].status # "absent" /\ x.attempts < MaxAttempts
        /\ x.attempts <= recheck'[x.slot].attempts
        /\ x.attempts = recheck'[x.slot].attempts => recheck'[x.slot].waited
  <2> SUFFICES ASSUME NEW u \in Workers, NEW x \in sweeper[u].rows
               PROVE  /\ run'[x.slot].status # "absent" /\ x.attempts < MaxAttempts
                      /\ x.attempts <= recheck'[x.slot].attempts
                      /\ x.attempts = recheck'[x.slot].attempts => recheck'[x.slot].waited
    OBVIOUS
  <2>1. /\ run[x.slot].status # "absent" /\ x.attempts < MaxAttempts
        /\ x.attempts <= recheck[x.slot].attempts
        /\ x.attempts = recheck[x.slot].attempts => recheck[x.slot].waited
    BY DEF IInv, WorkerInv, RowsFine
  <2>2. CASE x.slot = i
    <3>1. recheck'[x.slot] = r /\ x.attempts \in Nat /\ recheck[i].attempts \in Nat /\ r.attempts \in Nat
      BY <1>2, <1>4, <2>2
    <3> QED BY <2>1, <2>2, <3>1
  <2>3. CASE x.slot # i
    BY <1>2, <1>4, <2>1, <2>3
  <2> QED BY <2>2, <2>3
<1>6. WorkerInv'
  <2>1. ASSUME NEW u \in Workers, u # w
        PROVE  (HoldFine(sweeper[u]) /\ InsertFine(sweeper[u]) /\ RowsFine(sweeper[u]))'
    <3>1. PICK m \in SweeperRow : m = sweeper'[u] /\ m = sweeper[u]
      BY <1>1, <2>1 DEF IInv, TypeOK
    <3>2. HoldFine(m) /\ InsertFine(m)
      BY <3>1 DEF IInv, WorkerInv
    <3>3. CASE Holding(m) /\ m.slot = i
      <4>1. HoldFine(sweeper[u])'
        BY <2>1, <3>1, <3>3
      <4>2. InsertFine(m)' /\ RowsFine(m)'
        BY <1>5, <3>1, <3>2 DEF InsertFine, RowsFine
      <4> QED BY <3>1, <4>1, <4>2 DEF InsertFine, RowsFine
    <3>4. CASE ~(Holding(m) /\ m.slot = i)
      <4>1. ASSUME Holding(m)
            PROVE  /\ m.slot \in Slots \ {i} /\ m.lead \in Leads
                   /\ recheck'[m.slot] = recheck[m.slot] /\ inbox[m.lead] \subseteq inbox'[m.lead]
        BY <1>2, <3>2, <3>4, <4>1 DEF HoldFine
      <4>2. HoldFine(m)'
        BY <3>2, <4>1 DEF HoldFine, Holding, Clean
      <4>3. InsertFine(m)' /\ RowsFine(m)'
        BY <1>5, <3>1, <3>2 DEF InsertFine, RowsFine
      <4> QED BY <3>1, <4>2, <4>3 DEF HoldFine, InsertFine, RowsFine, Holding, Clean
    <3> QED BY <3>3, <3>4
  <2>2. (HoldFine(sweeper[w]) /\ InsertFine(sweeper[w]) /\ RowsFine(sweeper[w]))'
    <3>1. RowsFine(n)'
      BY <1>5 DEF RowsFine
    <3> QED BY <1>1, <3>1 DEF HoldFine, InsertFine, RowsFine, Holding, Clean
  <2> QED BY <2>1, <2>2 DEF WorkerInv
<1>7. Apart'
  <2>1. ASSUME NEW u \in Workers, u # w, Holding(sweeper[u]), Holding(n), sweeper[u].slot = n.slot
        PROVE  sweeper[u].token # n.token
    BY <2>1
  <2> QED BY <1>1, <2>1 DEF IInv, Apart, Holding
<1>8. SlotInv'
  <2> SUFFICES ASSUME NEW j \in Slots, j # i
               PROVE  SlotFine(j)'
    BY DEF SlotInv
  <2>1. SlotFine(j) /\ recheck'[j] = recheck[j]
    BY <1>2 DEF IInv, SlotInv
  <2>2. recheck[j].stored => run[j].lead \in Leads
    BY <2>1 DEF SlotFine, IInv, TypeOK
  <2> QED BY <2>1, <2>2 DEF SlotFine, Clean
<1>9. MailInv'
  <2> SUFFICES ASSUME NEW l \in Leads, NEW e \in inbox'[l], e.slot # i
               PROVE  MailFine(l, e)'
    BY DEF MailInv
  <2>1. e \in inbox[l] /\ e.slot \in Slots
    BY DEF Email
  <2>2. MailFine(l, e) /\ recheck'[e.slot] = recheck[e.slot]
    BY <1>2, <2>1 DEF IInv, MailInv
  <2>3. AboutToMark(e.slot, e.token) => AboutToMark(e.slot, e.token)'
    BY <1>1 DEF AboutToMark, Holding
  <2> QED BY <2>2, <2>3 DEF MailFine, Clean
<1> QED BY <1>3, <1>6, <1>7, <1>8, <1>9 DEF IInv

LEMMA ClaimKeeps ==
  ASSUME IInv, NEW w \in Workers, ClaimRow(w)
  PROVE  IInv'
<1>1. sweeper[w] \in SweeperRow /\ sweeper[w].pc = "claim" /\ UNCHANGED <<lead, run, visitor, inbox, nights>>
  BY DEF ClaimRow, At, IInv, TypeOK
<1>2. PICK x \in sweeper[w].rows :
        IF Claims(x)
          THEN /\ recheck' = [recheck EXCEPT ![x.slot].attempts = @ + 1, ![x.slot].waited = FALSE]
               /\ sweeper' = [sweeper EXCEPT ![w].pc = "token", ![w].rows = @ \ {x},
                    ![w].slot = x.slot, ![w].lead = run[x.slot].lead,
                    ![w].token = recheck[x.slot].attempts + 1]
          ELSE sweeper' = [sweeper EXCEPT ![w].rows = @ \ {x}] /\ UNCHANGED recheck
  BY DEF ClaimRow
<1> DEFINE rest == sweeper[w].rows \ {x}
<1>3. rest \in SUBSET [slot: Slots, attempts: 0..MaxAttempts] /\ rest \subseteq sweeper[w].rows
  BY <1>1 DEF SweeperRow
<1>4. /\ x.slot \in Slots /\ x.attempts \in Nat /\ run[x.slot].status # "absent" /\ x.attempts < MaxAttempts
      /\ x.attempts = recheck[x.slot].attempts => recheck[x.slot].waited
  BY <1>1, NumbersAssumption DEF SweeperRow, IInv, WorkerInv, RowsFine
<1>5. CASE ~Claims(x)
  <2> DEFINE n == [sweeper[w] EXCEPT !.rows = rest]
  <2>1. sweeper' = [sweeper EXCEPT ![w] = n] /\ UNCHANGED recheck
    BY <1>2, <1>5 DEF IInv, TypeOK
  <2> HIDE DEF rest
  <2>2. n \in SweeperRow /\ n.pc = "claim" /\ n.rows = rest
    BY <1>1, <1>3 DEF SweeperRow
  <2> HIDE DEF n
  <2>3. ~Holding(n) /\ InsertFine(n) /\ RowsFine(n) /\ n.pc # "insert"
    BY <1>3, <2>2 DEF Holding, InsertFine, RowsFine, IInv, WorkerInv
  <2> QED BY <1>1, <2>1, <2>2, <2>3, WorkerMoves
<1>6. CASE Claims(x)
  <2>1. PICK i \in Slots : i = x.slot
    BY <1>4
  <2>2. PICK a \in Nat : /\ a = recheck[i].attempts /\ a = x.attempts /\ a + 1 \in 1..MaxAttempts /\ a + 1 \in 0..MaxAttempts
                         /\ recheck[i].waited /\ recheck[i].stored /\ ~recheck[i].emailed
    BY <1>4, <1>6, <2>1, NumbersAssumption DEF Claims
  <2>3. run[i].lead \in Leads /\ recheck[i] \in RecheckRow /\ run[i].status # "absent"
    BY <1>4, <2>1 DEF IInv, SlotInv, SlotFine, TypeOK
  \* The backoff is over: whoever still holds the row has been overtaken.
  <2>4. ASSUME NEW u \in Workers, Holding(sweeper[u]), sweeper[u].slot = i
        PROVE  /\ sweeper[u].token \in recheck[i].overtaken /\ sweeper[u].token <= a
               /\ sweeper[u].token \in 1..MaxAttempts /\ ~Clean(i)
    <3>1. HoldFine(sweeper[u])
      BY DEF IInv, WorkerInv
    <3> QED BY <2>2, <2>4, <3>1 DEF HoldFine, Clean
  <2>5. PICK r \in RecheckRow : /\ recheck' = [recheck EXCEPT ![i] = r] /\ r.attempts = a + 1 /\ ~r.waited
                                /\ r.stored /\ ~r.emailed /\ r.token = recheck[i].token
                                /\ r.unheard = recheck[i].unheard /\ r.overtaken = recheck[i].overtaken
    <3> DEFINE r == [recheck[i] EXCEPT !.attempts = a + 1, !.waited = FALSE]
    <3>1. recheck' = [recheck EXCEPT ![i] = r]
      <4>1. recheck' = [recheck EXCEPT ![i].attempts = a + 1, ![i].waited = FALSE]
        BY <1>2, <1>6, <2>1, <2>2
      <4> QED BY <4>1 DEF IInv, TypeOK
    <3>2. /\ r \in RecheckRow /\ r.attempts = a + 1 /\ ~r.waited /\ r.stored /\ ~r.emailed
          /\ r.token = recheck[i].token
          /\ r.unheard = recheck[i].unheard /\ r.overtaken = recheck[i].overtaken
      BY <2>2, <2>3 DEF RecheckRow
    <3> QED BY <3>1, <3>2
  <2>6. PICK n \in SweeperRow : /\ sweeper' = [sweeper EXCEPT ![w] = n] /\ n.pc = "token" /\ n.rows = rest
                                /\ n.slot = i /\ n.lead = run[i].lead /\ n.token = a + 1
    <3> DEFINE ld == run[i].lead
               n == [sweeper[w] EXCEPT !.pc = "token", !.rows = rest, !.slot = i, !.lead = ld, !.token = a + 1]
    <3>1. sweeper' = [sweeper EXCEPT ![w] = n]
      BY ZenonT(60), <1>2, <1>6, <2>1, <2>2 DEF IInv, TypeOK
    <3>2. ld \in Leads
      BY <2>3
    <3> HIDE DEF rest, ld
    <3>3. n \in SweeperRow /\ n.pc = "token" /\ n.rows = rest /\ n.slot = i /\ n.lead = ld /\ n.token = a + 1
      BY <1>1, <1>3, <2>2, <3>2 DEF SweeperRow
    <3> QED BY <3>1, <3>3 DEF ld
  <2> HIDE DEF rest
  <2>7. recheck'[i] = r /\ UNCHANGED run
    BY <1>1, <2>5 DEF IInv, TypeOK
  <2>8. HoldFine(n)'
    BY <2>2, <2>3, <2>5, <2>6, <2>7 DEF HoldFine, Clean
  <2>9. ASSUME NEW u \in Workers \ {w}, Holding(sweeper[u]), sweeper[u].slot = i
        PROVE  HoldFine(sweeper[u])' /\ sweeper[u].token # n.token
    <3>1. PICK m : m = sweeper[u] /\ m = sweeper'[u]
      BY <2>6 DEF IInv, TypeOK
    <3>2. HoldFine(m) /\ m.slot = i /\ Holding(m)
      BY <2>9, <3>1 DEF IInv, WorkerInv
    <3>3. /\ m.token \in recheck[i].overtaken /\ m.token \in Nat /\ m.token <= a /\ ~Clean(i)
      <4>1. /\ sweeper[u].token \in recheck[i].overtaken /\ sweeper[u].token <= a
            /\ sweeper[u].token \in 1..MaxAttempts /\ ~Clean(i)
        BY <2>4, <2>9
      <4> QED BY <3>1, <4>1, NumbersAssumption
    <3>4. ~Clean(i)' /\ m.token <= r.attempts /\ m.token # a + 1
      BY <2>2, <2>5, <2>7, <3>3 DEF Clean
    <3>5. HoldFine(m)'
      BY <1>1, <2>5, <2>7, <3>2, <3>3, <3>4 DEF HoldFine, Holding
    <3> QED BY <2>6, <3>1, <3>4, <3>5 DEF HoldFine, Holding, Clean
  <2>10. SlotFine(i)'
    BY <2>3, <2>5, <2>7 DEF SlotFine
  \* No claim follows an email that is neither unheard nor overtaken.
  <2>11. ASSUME NEW l \in Leads, NEW e \in inbox'[l], e.slot = i PROVE MailFine(l, e)'
    <3>1. MailFine(l, e) /\ e.token \in Nat
      BY <1>1, <2>11, NumbersAssumption DEF IInv, MailInv, TypeOK, Email
    <3>2. e.token \in recheck[i].unheard \cup recheck[i].overtaken
      <4>1. CASE AboutToMark(i, e.token)
        <5>1. PICK u \in Workers : Holding(sweeper[u]) /\ sweeper[u].slot = i /\ sweeper[u].token = e.token
          BY <4>1 DEF AboutToMark, Holding
        <5> QED BY <2>4, <5>1
      <4> QED BY <2>2, <2>11, <3>1, <4>1 DEF MailFine
    <3>3. e.token <= a
      BY <2>2, <2>11, <3>1 DEF MailFine
    <3> QED BY <1>1, <2>2, <2>5, <2>7, <2>11, <3>1, <3>2, <3>3 DEF MailFine, Clean
  <2>12. RowStep(w, n, i, r)
    BY <1>1, <1>3, <2>2, <2>3, <2>5, <2>6 DEF RowStep, Holding, IInv, TypeOK
  <2> QED BY <2>8, <2>9, <2>10, <2>11, <2>12, RowStepKeeps
<1> QED BY <1>5, <1>6

\* The worker w with a claimed row, the row, and who else holds it.
LEMMA Holder ==
  ASSUME IInv, NEW w \in Workers, Holding(sweeper[w])
  PROVE  \E i \in Slots :
           /\ i = sweeper[w].slot /\ recheck[i] \in RecheckRow /\ run[i].status # "absent"
           /\ sweeper[w].lead \in Leads /\ run[i].lead = sweeper[w].lead
           /\ sweeper[w].token \in 1..MaxAttempts /\ sweeper[w].token <= recheck[i].attempts
           /\ Clean(i) => /\ sweeper[w].token = recheck[i].attempts
                          /\ \A u \in Workers \ {w} : ~(Holding(sweeper[u]) /\ sweeper[u].slot = i)
           /\ \A u \in Workers \ {w} : Holding(sweeper[u]) /\ sweeper[u].slot = i =>
                HoldFine(sweeper[u]) /\ sweeper[u].token # sweeper[w].token
           /\ HoldFine(sweeper[w])
<1>1. \A u \in Workers : HoldFine(sweeper[u])
  BY DEF IInv, WorkerInv
<1>2. PICK i \in Slots : i = sweeper[w].slot
  BY <1>1 DEF HoldFine
<1>3. recheck[i] \in RecheckRow
  BY DEF IInv, TypeOK
<1>4. \A u \in Workers \ {w} : Holding(sweeper[u]) /\ sweeper[u].slot = i => sweeper[u].token # sweeper[w].token
  BY <1>2 DEF IInv, Apart
<1>5. ASSUME Clean(i), NEW u \in Workers, Holding(sweeper[u]), sweeper[u].slot = i
      PROVE  sweeper[u].token = recheck[i].attempts
  BY <1>1, <1>5 DEF HoldFine, Clean
<1>6. /\ run[i].status # "absent" /\ sweeper[w].lead \in Leads /\ run[i].lead = sweeper[w].lead
      /\ sweeper[w].token \in 1..MaxAttempts /\ sweeper[w].token <= recheck[i].attempts
  BY <1>1, <1>2 DEF HoldFine
<1>7. Clean(i) => /\ sweeper[w].token = recheck[i].attempts
                  /\ \A u \in Workers \ {w} : ~(Holding(sweeper[u]) /\ sweeper[u].slot = i)
  BY <1>2, <1>4, <1>5
<1> QED BY <1>1, <1>2, <1>3, <1>4, <1>6, <1>7

LEMMA NextRowMoves ==
  ASSUME IInv, NEW w \in Workers, NextRow(w)
  PROVE  \E n \in SweeperRow : /\ sweeper' = [sweeper EXCEPT ![w] = n]
                               /\ n.pc = "claim" /\ n.rows = sweeper[w].rows
<1> DEFINE n == [sweeper[w] EXCEPT !.pc = "claim", !.slot = "none", !.lead = "none", !.token = 0]
<1>1. sweeper' = [sweeper EXCEPT ![w] = n]
  BY DEF NextRow, IInv, TypeOK
<1>2. 0 \in 0..MaxAttempts /\ sweeper[w] \in SweeperRow
  BY NumbersAssumption DEF IInv, TypeOK
<1>3. n \in SweeperRow /\ n.pc = "claim" /\ n.rows = sweeper[w].rows
  BY <1>2 DEF SweeperRow
<1> QED BY <1>1, <1>3

\* One email more.
LEMMA Delivered ==
  ASSUME IInv, NEW w \in Workers, Holding(sweeper[w]), Deliver(w)
  PROVE  /\ inbox' \in [Leads -> SUBSET Email]
         /\ [slot |-> sweeper[w].slot, token |-> sweeper[w].token] \in inbox'[sweeper[w].lead]
         /\ \A l \in Leads : inbox[l] \subseteq inbox'[l]
         /\ \A l \in Leads : \A e \in inbox'[l] :
              \/ e \in inbox[l]
              \/ l = sweeper[w].lead /\ e.slot = sweeper[w].slot /\ e.token = sweeper[w].token
<1>1. PICK i \in Slots, l \in Leads, t \in 1..MaxAttempts :
        i = sweeper[w].slot /\ l = sweeper[w].lead /\ t = sweeper[w].token
  BY Holder
<1> DEFINE e == [slot |-> i, token |-> t]
<1>2. e \in Email /\ e.slot = i /\ e.token = t
  BY DEF Email
<1>3. inbox' = [inbox EXCEPT ![l] = @ \cup {e}] /\ e = [slot |-> sweeper[w].slot, token |-> sweeper[w].token]
  BY <1>1 DEF Deliver
<1> HIDE DEF e
<1>4. /\ inbox' \in [Leads -> SUBSET Email] /\ inbox'[l] = inbox[l] \cup {e}
      /\ \A k \in Leads \ {l} : inbox'[k] = inbox[k]
  BY <1>2, <1>3 DEF IInv, TypeOK
<1> QED BY <1>1, <1>2, <1>3, <1>4

\* What a step that leaves attempts, backoff and history of slot i does to
\* another worker that holds it: nothing, unless the row is clean.
LEMMA OthersHold ==
  ASSUME IInv, NEW w \in Workers, NEW u \in Workers \ {w}, NEW i \in Slots, NEW r,
         Holding(sweeper[u]), sweeper[u].slot = i, ~Clean(i),
         sweeper'[u] = sweeper[u], recheck'[i] = r, UNCHANGED run,
         \A l \in Leads : inbox[l] \subseteq inbox'[l],
         r.attempts = recheck[i].attempts, r.waited = recheck[i].waited,
         r.stored = recheck[i].stored, r.overtaken = recheck[i].overtaken
  PROVE  HoldFine(sweeper[u])'
<1>1. PICK m : m = sweeper[u] /\ m = sweeper'[u]
  OBVIOUS
<1>2. HoldFine(m) /\ m.slot = i /\ Holding(m)
  BY <1>1 DEF IInv, WorkerInv
<1>3. ~Clean(i)'
  BY DEF Clean
<1>4. HoldFine(m)'
  BY <1>2, <1>3 DEF HoldFine, Holding
<1> QED BY <1>1, <1>4 DEF HoldFine, Holding, Clean

LEMMA SetTokenKeeps ==
  ASSUME IInv, NEW w \in Workers, SetToken(w)
  PROVE  IInv'
<1>1. /\ sweeper[w] \in SweeperRow /\ sweeper[w].pc = "token" /\ Holding(sweeper[w])
      /\ UNCHANGED <<lead, run, visitor, inbox, nights>>
  BY DEF SetToken, At, IInv, TypeOK, Holding
<1>2. PICK i \in Slots :
           /\ i = sweeper[w].slot /\ recheck[i] \in RecheckRow /\ run[i].status # "absent"
           /\ sweeper[w].lead \in Leads /\ run[i].lead = sweeper[w].lead
           /\ sweeper[w].token \in 1..MaxAttempts /\ sweeper[w].token <= recheck[i].attempts
           /\ Clean(i) => /\ sweeper[w].token = recheck[i].attempts
                          /\ \A u \in Workers \ {w} : ~(Holding(sweeper[u]) /\ sweeper[u].slot = i)
           /\ \A u \in Workers \ {w} : Holding(sweeper[u]) /\ sweeper[u].slot = i =>
                HoldFine(sweeper[u]) /\ sweeper[u].token # sweeper[w].token
           /\ HoldFine(sweeper[w])
  BY <1>1, Holder
<1>3. PICK t \in 0..MaxAttempts : t = sweeper[w].token
  BY <1>1 DEF SweeperRow
<1>4. PICK r \in RecheckRow :
        /\ recheck' = [recheck EXCEPT ![i] = r] /\ r.attempts = recheck[i].attempts
        /\ r.waited = recheck[i].waited /\ r.stored = recheck[i].stored /\ r.emailed = recheck[i].emailed
        /\ r.unheard = recheck[i].unheard /\ r.overtaken = recheck[i].overtaken
        /\ r.stored => r.token = t
  <2>1. CASE recheck[i].stored
    <3> DEFINE r == [recheck[i] EXCEPT !.token = t]
    <3>1. recheck' = [recheck EXCEPT ![i] = r]
      BY <1>2, <1>3, <2>1 DEF SetToken, WithToken, IInv, TypeOK
    <3>2. r \in RecheckRow /\ r.attempts = recheck[i].attempts
          /\ r.waited = recheck[i].waited /\ r.stored = recheck[i].stored /\ r.emailed = recheck[i].emailed
          /\ r.unheard = recheck[i].unheard /\ r.overtaken = recheck[i].overtaken /\ r.token = t
      BY <1>2, <1>3 DEF RecheckRow
    <3> QED BY <3>1, <3>2
  <2>2. CASE ~recheck[i].stored
    <3>1. recheck' = [recheck EXCEPT ![i] = recheck[i]]
      BY <1>2, <2>2 DEF SetToken, IInv, TypeOK
    <3> QED BY <1>2, <2>2, <3>1
  <2> QED BY <2>1, <2>2
<1>5. PICK n \in SweeperRow : /\ sweeper' = [sweeper EXCEPT ![w] = n] /\ n.pc = "send"
                              /\ n.rows = sweeper[w].rows /\ n.slot = i
                              /\ n.lead = sweeper[w].lead /\ n.token = t
  <2> DEFINE n == [sweeper[w] EXCEPT !.pc = "send"]
  <2>1. sweeper' = [sweeper EXCEPT ![w] = n]
    BY DEF SetToken, Goto, IInv, TypeOK
  <2>2. n \in SweeperRow /\ n.pc = "send" /\ n.rows = sweeper[w].rows /\ n.slot = i
        /\ n.lead = sweeper[w].lead /\ n.token = t
    BY <1>1, <1>2, <1>3 DEF SweeperRow
  <2> QED BY <2>1, <2>2
<1>6. /\ recheck'[i] = r /\ (Clean(i)' <=> Clean(i))
      /\ sweeper'[w] = n /\ \A u \in Workers \ {w} : sweeper'[u] = sweeper[u]
  BY <1>4, <1>5 DEF IInv, TypeOK, Clean
<1>7. HoldFine(n)'
  <2>1. Clean(i)' => r.token = t /\ ~r.emailed
    BY <1>1, <1>2, <1>4, <1>6 DEF HoldFine, Clean
  <2> QED BY <1>1, <1>2, <1>3, <1>4, <1>5, <1>6, <2>1 DEF HoldFine, Holding
<1>8. \A u \in Workers \ {w} : Holding(sweeper[u]) /\ sweeper[u].slot = i =>
        HoldFine(sweeper[u])' /\ (Holding(n) => sweeper[u].token # n.token)
  BY <1>1, <1>2, <1>3, <1>4, <1>5, <1>6, OthersHold
<1>9. Clean(i) => ~recheck[i].emailed
  BY <1>1, <1>2 DEF HoldFine
<1>10. SlotFine(i)'
  BY <1>1, <1>2, <1>4, <1>6, <1>9 DEF SlotFine
\* Every email of a clean row before this one went unheard.
<1>11. ASSUME NEW l \in Leads, NEW e \in inbox'[l], e.slot = i PROVE MailFine(l, e)'
  <2>1. MailFine(l, e)
    BY <1>1 DEF IInv, MailInv
  <2>2. AboutToMark(i, e.token) => AboutToMark(i, e.token)'
    BY <1>1, <1>6 DEF AboutToMark
  <2>3. ASSUME Clean(i) PROVE e.token \in recheck[i].unheard
    <3>1. ~AboutToMark(i, e.token)
      BY <1>1, <1>2, <2>3 DEF AboutToMark, Holding
    <3> QED BY <1>9, <1>11, <2>1, <2>3, <3>1 DEF MailFine, Clean
  <2> QED BY <1>1, <1>4, <1>6, <1>11, <2>1, <2>2, <2>3 DEF MailFine
<1>12. RowStep(w, n, i, r)
  <2>1. inbox' \in [Leads -> SUBSET Email] /\ recheck[i].attempts <= r.attempts
    BY <1>1, <1>2, <1>4, NumbersAssumption DEF IInv, TypeOK, RecheckRow
  <2> QED BY <1>1, <1>2, <1>4, <1>5, <2>1 DEF RowStep
<1> QED BY <1>7, <1>8, <1>10, <1>11, <1>12, RowStepKeeps

LEMMA AcceptedKeeps ==
  ASSUME IInv, NEW w \in Workers, SendAccepted(w)
  PROVE  IInv'
<1>1. /\ sweeper[w] \in SweeperRow /\ sweeper[w].pc = "send" /\ Holding(sweeper[w])
      /\ UNCHANGED <<lead, run, recheck, visitor, nights>> /\ Deliver(w)
  BY DEF SendAccepted, At, IInv, TypeOK, Holding
<1>2. PICK i \in Slots :
           /\ i = sweeper[w].slot /\ recheck[i] \in RecheckRow /\ run[i].status # "absent"
           /\ sweeper[w].lead \in Leads /\ run[i].lead = sweeper[w].lead
           /\ sweeper[w].token \in 1..MaxAttempts /\ sweeper[w].token <= recheck[i].attempts
           /\ Clean(i) => /\ sweeper[w].token = recheck[i].attempts
                          /\ \A u \in Workers \ {w} : ~(Holding(sweeper[u]) /\ sweeper[u].slot = i)
           /\ \A u \in Workers \ {w} : Holding(sweeper[u]) /\ sweeper[u].slot = i =>
                HoldFine(sweeper[u]) /\ sweeper[u].token # sweeper[w].token
           /\ HoldFine(sweeper[w])
  BY <1>1, Holder
<1>3. PICK r \in RecheckRow : r = recheck[i] /\ recheck' = [recheck EXCEPT ![i] = r]
  BY <1>1, <1>2 DEF IInv, TypeOK
<1>4. PICK n \in SweeperRow : /\ sweeper' = [sweeper EXCEPT ![w] = n] /\ n.pc = "mark"
                              /\ n.rows = sweeper[w].rows /\ n.slot = i
                              /\ n.lead = sweeper[w].lead /\ n.token = sweeper[w].token
  <2> DEFINE n == [sweeper[w] EXCEPT !.pc = "mark"]
  <2>1. sweeper' = [sweeper EXCEPT ![w] = n]
    BY DEF SendAccepted, Goto, IInv, TypeOK
  <2>2. n \in SweeperRow /\ n.pc = "mark" /\ n.rows = sweeper[w].rows /\ n.slot = i
        /\ n.lead = sweeper[w].lead /\ n.token = sweeper[w].token
    BY <1>1, <1>2 DEF SweeperRow
  <2> QED BY <2>1, <2>2
<1>5. sweeper'[w] = n /\ \A u \in Workers \ {w} : sweeper'[u] = sweeper[u]
  BY <1>4 DEF IInv, TypeOK
<1>6. /\ inbox' \in [Leads -> SUBSET Email]
      /\ [slot |-> i, token |-> sweeper[w].token] \in inbox'[sweeper[w].lead]
      /\ \A l \in Leads : inbox[l] \subseteq inbox'[l]
      /\ \A l \in Leads : \A e \in inbox'[l] :
           \/ e \in inbox[l]
           \/ l = sweeper[w].lead /\ e.slot = i /\ e.token = sweeper[w].token
  BY <1>1, <1>2, Delivered
<1>7. HoldFine(n)'
  BY <1>1, <1>2, <1>4, <1>6 DEF HoldFine, Holding, Clean
<1>8. \A u \in Workers \ {w} : Holding(sweeper[u]) /\ sweeper[u].slot = i =>
        HoldFine(sweeper[u])' /\ (Holding(n) => sweeper[u].token # n.token)
  BY <1>1, <1>2, <1>4, <1>5, <1>6, OthersHold
<1>9. SlotFine(i)'
  BY <1>1, <1>2, <1>6 DEF SlotFine, Clean, IInv, SlotInv
<1>10. ASSUME NEW l \in Leads, NEW e \in inbox'[l], e.slot = i PROVE MailFine(l, e)'
  <2>1. CASE e \in inbox[l]
    <3>1. MailFine(l, e)
      BY <2>1 DEF IInv, MailInv
    <3>2. AboutToMark(i, e.token) => AboutToMark(i, e.token)'
      BY <1>1, <1>5 DEF AboutToMark
    <3> QED BY <1>1, <1>10, <3>1, <3>2 DEF MailFine, Clean
  <2>2. CASE l = sweeper[w].lead /\ e.token = sweeper[w].token
    <3>1. AboutToMark(i, e.token)'
      BY <1>4, <1>5, <2>2 DEF AboutToMark
    <3>2. e.token \in recheck[i].overtaken \/ e.token = recheck[i].attempts
      BY <1>1, <1>2, <2>2 DEF HoldFine
    <3>3. Clean(i) => recheck[i].token = e.token
      BY <1>1, <1>2, <2>2 DEF HoldFine
    <3> QED BY <1>1, <1>2, <1>10, <2>2, <3>1, <3>2, <3>3 DEF MailFine, Clean
  <2> QED BY <1>6, <2>1, <2>2
<1>11. RowStep(w, n, i, r)
  <2>1. recheck[i].attempts <= r.attempts
    BY <1>2, <1>3, NumbersAssumption DEF RecheckRow
  <2> QED BY <1>1, <1>2, <1>3, <1>4, <1>6, <2>1 DEF RowStep
<1> QED BY <1>7, <1>8, <1>9, <1>10, <1>11, RowStepKeeps

\* What is written of an email that nobody will mark.
LEMMA UnheardWrites ==
  ASSUME IInv, NEW w \in Workers, Unheard(w), NEW i \in Slots, i = sweeper[w].slot,
         sweeper[w].token \in 1..MaxAttempts
  PROVE  \E r \in RecheckRow :
           /\ recheck' = [recheck EXCEPT ![i] = r] /\ r.attempts = recheck[i].attempts
           /\ r.waited = recheck[i].waited /\ r.stored = recheck[i].stored /\ r.emailed = recheck[i].emailed
           /\ r.token = recheck[i].token /\ r.overtaken = recheck[i].overtaken
           /\ recheck[i].unheard \subseteq r.unheard /\ sweeper[w].token \in r.unheard
<1> DEFINE x == recheck[i].unheard \cup {sweeper[w].token}
           r == [recheck[i] EXCEPT !.unheard = x]
<1>1. recheck' = [recheck EXCEPT ![i] = r]
  BY DEF Unheard, IInv, TypeOK
<1>2. recheck[i] \in RecheckRow
  BY DEF IInv, TypeOK
<1>3. x \in SUBSET (1..MaxAttempts) /\ recheck[i].unheard \subseteq x /\ sweeper[w].token \in x
  BY <1>2 DEF RecheckRow
<1> HIDE DEF x
<1>4. /\ r \in RecheckRow /\ r.attempts = recheck[i].attempts
      /\ r.waited = recheck[i].waited /\ r.stored = recheck[i].stored /\ r.emailed = recheck[i].emailed
      /\ r.token = recheck[i].token /\ r.overtaken = recheck[i].overtaken /\ r.unheard = x
  BY <1>2, <1>3 DEF RecheckRow
<1> QED BY <1>1, <1>3, <1>4

LEMMA LostKeeps ==
  ASSUME IInv, NEW w \in Workers, AnswerLost(w)
  PROVE  IInv'
<1>1. /\ sweeper[w].pc = "send" /\ Holding(sweeper[w])
      /\ UNCHANGED <<lead, run, visitor, nights>> /\ Deliver(w) /\ NextRow(w) /\ Unheard(w)
  BY DEF AnswerLost, At, Holding
<1>2. PICK i \in Slots :
           /\ i = sweeper[w].slot /\ recheck[i] \in RecheckRow /\ run[i].status # "absent"
           /\ sweeper[w].lead \in Leads /\ run[i].lead = sweeper[w].lead
           /\ sweeper[w].token \in 1..MaxAttempts /\ sweeper[w].token <= recheck[i].attempts
           /\ Clean(i) => /\ sweeper[w].token = recheck[i].attempts
                          /\ \A u \in Workers \ {w} : ~(Holding(sweeper[u]) /\ sweeper[u].slot = i)
           /\ \A u \in Workers \ {w} : Holding(sweeper[u]) /\ sweeper[u].slot = i =>
                HoldFine(sweeper[u]) /\ sweeper[u].token # sweeper[w].token
           /\ HoldFine(sweeper[w])
  BY <1>1, Holder
<1>3. PICK r \in RecheckRow :
        /\ recheck' = [recheck EXCEPT ![i] = r] /\ r.attempts = recheck[i].attempts
        /\ r.waited = recheck[i].waited /\ r.stored = recheck[i].stored /\ r.emailed = recheck[i].emailed
        /\ r.token = recheck[i].token /\ r.overtaken = recheck[i].overtaken
        /\ recheck[i].unheard \subseteq r.unheard /\ sweeper[w].token \in r.unheard
  BY <1>1, <1>2, UnheardWrites
<1>4. PICK n \in SweeperRow : /\ sweeper' = [sweeper EXCEPT ![w] = n]
                              /\ n.pc = "claim" /\ n.rows = sweeper[w].rows
  BY <1>1, NextRowMoves
<1>5. /\ sweeper'[w] = n /\ \A u \in Workers \ {w} : sweeper'[u] = sweeper[u]
      /\ recheck'[i] = r /\ (Clean(i)' <=> Clean(i))
  BY <1>3, <1>4 DEF IInv, TypeOK, Clean
<1>6. HoldFine(n)' /\ ~Holding(n)
  BY <1>4 DEF HoldFine, Holding
<1>7. /\ inbox' \in [Leads -> SUBSET Email]
      /\ [slot |-> i, token |-> sweeper[w].token] \in inbox'[sweeper[w].lead]
      /\ \A l \in Leads : inbox[l] \subseteq inbox'[l]
      /\ \A l \in Leads : \A e \in inbox'[l] :
           \/ e \in inbox[l]
           \/ l = sweeper[w].lead /\ e.slot = i /\ e.token = sweeper[w].token
  BY <1>1, <1>2, Delivered
<1>8. \A u \in Workers \ {w} : Holding(sweeper[u]) /\ sweeper[u].slot = i =>
        HoldFine(sweeper[u])' /\ (Holding(n) => sweeper[u].token # n.token)
  BY <1>1, <1>2, <1>3, <1>5, <1>6, <1>7, OthersHold
<1>9. SlotFine(i)'
  BY <1>1, <1>2, <1>3, <1>5, <1>7 DEF SlotFine, IInv, SlotInv
<1>10. ASSUME NEW l \in Leads, NEW e \in inbox'[l], e.slot = i PROVE MailFine(l, e)'
  <2>1. CASE e \in inbox[l]
    <3>1. MailFine(l, e)
      BY <2>1 DEF IInv, MailInv
    <3>2. AboutToMark(i, e.token) => AboutToMark(i, e.token)'
      BY <1>1, <1>5 DEF AboutToMark
    <3> QED BY <1>1, <1>3, <1>5, <1>10, <3>1, <3>2 DEF MailFine
  <2>2. CASE l = sweeper[w].lead /\ e.token = sweeper[w].token
    BY <1>1, <1>2, <1>3, <1>5, <1>10, <2>2 DEF MailFine
  <2> QED BY <1>7, <2>1, <2>2
<1>11. RowStep(w, n, i, r)
  <2>1. recheck[i].attempts <= r.attempts
    BY <1>2, <1>3, NumbersAssumption DEF RecheckRow
  <2> QED BY <1>1, <1>2, <1>3, <1>4, <1>6, <1>7, <2>1 DEF RowStep
<1> QED BY <1>6, <1>8, <1>9, <1>10, <1>11, RowStepKeeps

\* After the answer: the row is marked, or the process died before that.
LEMMA MarkKeeps ==
  ASSUME IInv, NEW w \in Workers, Mark(w) \/ (Crash(w) /\ sweeper[w].pc = "mark")
  PROVE  IInv'
<1>1. /\ sweeper[w].pc = "mark" /\ Holding(sweeper[w])
      /\ UNCHANGED <<lead, run, visitor, inbox, nights>>
  BY DEF Mark, Crash, At, Holding
<1>2. PICK i \in Slots :
           /\ i = sweeper[w].slot /\ recheck[i] \in RecheckRow /\ run[i].status # "absent"
           /\ sweeper[w].lead \in Leads /\ run[i].lead = sweeper[w].lead
           /\ sweeper[w].token \in 1..MaxAttempts /\ sweeper[w].token <= recheck[i].attempts
           /\ Clean(i) => /\ sweeper[w].token = recheck[i].attempts
                          /\ \A u \in Workers \ {w} : ~(Holding(sweeper[u]) /\ sweeper[u].slot = i)
           /\ \A u \in Workers \ {w} : Holding(sweeper[u]) /\ sweeper[u].slot = i =>
                HoldFine(sweeper[u]) /\ sweeper[u].token # sweeper[w].token
           /\ HoldFine(sweeper[w])
  BY <1>1, Holder
<1>3. PICK r \in RecheckRow :
        /\ recheck' = [recheck EXCEPT ![i] = r] /\ r.attempts = recheck[i].attempts
        /\ r.waited = recheck[i].waited /\ r.stored = recheck[i].stored
        /\ r.token = recheck[i].token /\ r.overtaken = recheck[i].overtaken
        /\ recheck[i].unheard \subseteq r.unheard
        /\ sweeper[w].token \in r.unheard \/ ~r.stored \/ r.emailed
        /\ recheck[i].emailed => r.emailed
  <2>1. CASE Mark(w) /\ recheck[i].stored
    <3> DEFINE r == [recheck[i] EXCEPT !.emailed = TRUE]
    <3>1. recheck' = [recheck EXCEPT ![i] = r]
      BY <1>2, <2>1 DEF Mark, Marked, IInv, TypeOK
    <3>2. r \in RecheckRow /\ r.attempts = recheck[i].attempts /\ r.token = recheck[i].token
          /\ r.waited = recheck[i].waited /\ r.stored = recheck[i].stored
          /\ r.emailed /\ r.unheard = recheck[i].unheard /\ r.overtaken = recheck[i].overtaken
      BY <1>2 DEF RecheckRow
    <3> QED BY <3>1, <3>2
  <2>2. CASE Mark(w) /\ ~recheck[i].stored
    <3>1. recheck' = [recheck EXCEPT ![i] = recheck[i]]
      BY <1>2, <2>2 DEF Mark, Marked, IInv, TypeOK
    <3> QED BY ZenonT(60), <1>2, <2>2, <3>1
  <2>3. CASE Crash(w)
    <3>1. Unheard(w)
      BY <1>1, <2>3 DEF Crash, At
    <3> QED BY <1>2, <3>1, UnheardWrites
  <2> QED BY <2>1, <2>2, <2>3
<1>4. PICK n \in SweeperRow : /\ sweeper' = [sweeper EXCEPT ![w] = n]
                              /\ n.pc \in {"claim", "top"} /\ n.rows \subseteq sweeper[w].rows
  <2>1. CASE Mark(w)
    BY <2>1, NextRowMoves DEF Mark
  <2>2. CASE Crash(w)
    BY <2>2, AtTopRow DEF Crash
  <2> QED BY <2>1, <2>2
<1>5. /\ sweeper'[w] = n /\ \A u \in Workers \ {w} : sweeper'[u] = sweeper[u]
      /\ recheck'[i] = r /\ (Clean(i)' <=> Clean(i))
  BY <1>3, <1>4 DEF IInv, TypeOK, Clean
<1>6. HoldFine(n)' /\ ~Holding(n)
  BY <1>4 DEF HoldFine, Holding
<1>7. \A u \in Workers \ {w} : Holding(sweeper[u]) /\ sweeper[u].slot = i =>
        HoldFine(sweeper[u])' /\ (Holding(n) => sweeper[u].token # n.token)
  BY <1>1, <1>2, <1>3, <1>5, <1>6, OthersHold
<1>8. SlotFine(i)'
  <2>1. Clean(i) => /\ recheck[i].token = sweeper[w].token
                    /\ [slot |-> i, token |-> sweeper[w].token] \in inbox[sweeper[w].lead]
    BY <1>1, <1>2 DEF HoldFine
  <2> QED BY <1>1, <1>2, <1>3, <1>5, <2>1 DEF SlotFine
<1>9. ASSUME NEW l \in Leads, NEW e \in inbox'[l], e.slot = i PROVE MailFine(l, e)'
  <2>1. MailFine(l, e)
    BY <1>1 DEF IInv, MailInv
  <2>2. AboutToMark(i, e.token) => AboutToMark(i, e.token)' \/ e.token = sweeper[w].token
    BY <1>5 DEF AboutToMark
  <2> QED BY <1>1, <1>3, <1>5, <1>9, <2>1, <2>2 DEF MailFine
<1>10. RowStep(w, n, i, r)
  <2>1. inbox' \in [Leads -> SUBSET Email] /\ recheck[i].attempts <= r.attempts
    BY <1>1, <1>2, <1>3, NumbersAssumption DEF IInv, TypeOK, RecheckRow
  <2> QED BY <1>1, <1>2, <1>3, <1>4, <1>6, <2>1 DEF RowStep
<1> QED BY <1>6, <1>7, <1>8, <1>9, <1>10, RowStepKeeps

LEMMA CrashKeeps ==
  ASSUME IInv, NEW w \in Workers, Crash(w)
  PROVE  IInv'
<1>1. CASE sweeper[w].pc = "mark"
  BY <1>1, MarkKeeps
<1>2. CASE sweeper[w].pc # "mark"
  <2>1. /\ sweeper' = [sweeper EXCEPT ![w] = AtTop] /\ UNCHANGED <<lead, run, recheck, visitor, inbox, nights>>
    BY <1>2 DEF Crash, At
  <2>2. AtTop \in SweeperRow /\ ~Holding(AtTop) /\ InsertFine(AtTop) /\ RowsFine(AtTop) /\ AtTop.pc # "insert"
    BY AtTopRow DEF Holding, InsertFine, RowsFine
  <2> QED BY <1>2, <2>1, <2>2, WorkerMoves
<1> QED BY <1>1, <1>2

LEMMA CommitKeeps ==
  ASSUME IInv, NEW w \in Workers, CommitOne(w)
  PROVE  IInv'
<1>1. sweeper[w] \in SweeperRow /\ sweeper[w].pc = "insert" /\ UNCHANGED <<lead, visitor, inbox, nights>>
  BY DEF CommitOne, At, IInv, TypeOK
<1>2. PICK i \in Slots, l \in Leads : i = sweeper[w].slot /\ l = sweeper[w].lead /\ run[i].status = "absent"
  BY <1>1 DEF IInv, WorkerInv, InsertFine
<1>3. PICK r \in RecheckRow : /\ recheck' = [recheck EXCEPT ![i] = r] /\ r.attempts = recheck[i].attempts
                              /\ r.emailed = recheck[i].emailed
  <2> DEFINE add == sweeper[w].add
             r == [recheck[i] EXCEPT !.stored = add]
  <2>1. recheck' = [recheck EXCEPT ![i] = r]
    BY <1>2 DEF CommitOne, IInv, TypeOK
  <2>2. add \in BOOLEAN /\ recheck[i] \in RecheckRow
    BY <1>1 DEF SweeperRow, IInv, TypeOK
  <2> HIDE DEF add
  <2>3. r \in RecheckRow /\ r.attempts = recheck[i].attempts /\ r.emailed = recheck[i].emailed
    BY <2>2 DEF RecheckRow
  <2> QED BY <2>1, <2>3
<1>4. PICK x \in RunRow : run' = [run EXCEPT ![i] = x] /\ x.status = "queued" /\ x.lead = l
  <2> DEFINE x == [status |-> "queued", lead |-> l, linked |-> FALSE, today |-> TRUE, by |-> w]
  <2>1. run' = [run EXCEPT ![i] = x]
    BY <1>2 DEF CommitOne
  <2>2. x \in RunRow /\ x.status = "queued" /\ x.lead = l
    BY DEF RunRow
  <2> QED BY <2>1, <2>2
<1>5. PICK n \in SweeperRow : /\ sweeper' = [sweeper EXCEPT ![w] = n]
                              /\ n.pc = "start" /\ n.rows = sweeper[w].rows
  <2> DEFINE n == [sweeper[w] EXCEPT !.pc = "start", !.lead = "none", !.slot = "none", !.add = FALSE]
  <2>1. sweeper' = [sweeper EXCEPT ![w] = n]
    BY DEF CommitOne, IInv, TypeOK
  <2>2. n \in SweeperRow /\ n.pc = "start" /\ n.rows = sweeper[w].rows
    BY <1>1 DEF SweeperRow
  <2> QED BY <2>1, <2>2
<1>6. /\ recheck'[i] = r /\ run'[i] = x /\ sweeper'[w] = n
      /\ \A j \in Slots \ {i} : recheck'[j] = recheck[j] /\ run'[j] = run[j]
      /\ \A u \in Workers \ {w} : sweeper'[u] = sweeper[u]
  BY <1>3, <1>4, <1>5 DEF IInv, TypeOK
<1>7. TypeOK'
  <2>1. \A j \in Slots : recheck'[j].stored => run'[j].status # "absent"
    BY <1>4, <1>6 DEF IInv, TypeOK
  <2> QED BY <1>1, <1>3, <1>4, <1>5, <2>1 DEF IInv, TypeOK
<1>8. WorkerInv'
  <2>1. ASSUME NEW u \in Workers, u # w
        PROVE  (HoldFine(sweeper[u]) /\ InsertFine(sweeper[u]) /\ RowsFine(sweeper[u]))'
    <3>1. PICK m \in SweeperRow : m = sweeper'[u] /\ m = sweeper[u]
      BY <1>6, <2>1 DEF IInv, TypeOK
    <3>2. HoldFine(m) /\ InsertFine(m) /\ RowsFine(m)
      BY <3>1 DEF IInv, WorkerInv
    <3>3. m.pc = "insert" \/ Holding(m) => m.slot # i
      <4>1. CASE m.pc = "insert"
        BY <1>1, <1>2, <2>1, <3>1, <4>1 DEF IInv, Apart
      <4>2. CASE Holding(m)
        BY <1>2, <3>2, <4>2 DEF HoldFine
      <4> QED BY <4>1, <4>2
    <3>4. HoldFine(m)'
      BY <1>1, <1>6, <3>2, <3>3 DEF HoldFine, Holding, Clean
    <3>5. InsertFine(m)'
      BY <1>6, <3>2, <3>3 DEF InsertFine
    <3>6. RowsFine(m)'
      <4> SUFFICES ASSUME NEW y \in m.rows
                   PROVE  /\ run'[y.slot].status # "absent" /\ y.attempts < MaxAttempts
                          /\ y.attempts <= recheck'[y.slot].attempts
                          /\ y.attempts = recheck'[y.slot].attempts => recheck'[y.slot].waited
        BY DEF RowsFine
      <4>1. y.slot \in Slots
        BY DEF SweeperRow
      <4>2. /\ run[y.slot].status # "absent" /\ y.attempts < MaxAttempts
            /\ y.attempts <= recheck[y.slot].attempts
            /\ y.attempts = recheck[y.slot].attempts => recheck[y.slot].waited
        BY <3>2 DEF RowsFine
      <4> QED BY <1>2, <1>6, <4>1, <4>2
    <3> QED BY <3>1, <3>4, <3>5, <3>6 DEF HoldFine, InsertFine, RowsFine, Holding, Clean
  <2>2. (HoldFine(sweeper[w]) /\ InsertFine(sweeper[w]) /\ RowsFine(sweeper[w]))'
    <3>1. RowsFine(n)'
      <4> SUFFICES ASSUME NEW y \in n.rows
                   PROVE  /\ run'[y.slot].status # "absent" /\ y.attempts < MaxAttempts
                          /\ y.attempts <= recheck'[y.slot].attempts
                          /\ y.attempts = recheck'[y.slot].attempts => recheck'[y.slot].waited
        BY DEF RowsFine
      <4>1. y.slot \in Slots
        BY DEF SweeperRow
      <4>2. /\ run[y.slot].status # "absent" /\ y.attempts < MaxAttempts
            /\ y.attempts <= recheck[y.slot].attempts
            /\ y.attempts = recheck[y.slot].attempts => recheck[y.slot].waited
        BY <1>5 DEF IInv, WorkerInv, RowsFine
      <4> QED BY <1>2, <1>6, <4>1, <4>2
    <3> QED BY <1>5, <1>6, <3>1 DEF HoldFine, InsertFine, RowsFine, Holding
  <2> QED BY <2>1, <2>2 DEF WorkerInv
<1>9. Apart'
  BY <1>5, <1>6 DEF IInv, Apart, Holding
<1>10. \A other \in Leads : \A e \in inbox[other] : e.slot \in Slots \ {i}
  BY <1>2 DEF IInv, MailInv, MailFine, TypeOK, Email
<1>11. SlotInv'
  <2> SUFFICES ASSUME NEW j \in Slots
               PROVE  SlotFine(j)'
    BY DEF SlotInv
  <2>1. SlotFine(j)
    BY DEF IInv, SlotInv
  <2>2. CASE j = i
    BY <1>2, <1>3, <1>4, <1>6, <2>1, <2>2 DEF SlotFine
  <2>3. CASE j # i
    BY <1>1, <1>6, <2>1, <2>3 DEF SlotFine, Clean
  <2> QED BY <2>2, <2>3
<1>12. MailInv'
  <2> SUFFICES ASSUME NEW k \in Leads, NEW e \in inbox[k]
               PROVE  MailFine(k, e)'
    BY <1>1 DEF MailInv
  <2>1. MailFine(k, e) /\ recheck'[e.slot] = recheck[e.slot] /\ run'[e.slot] = run[e.slot]
    BY <1>6, <1>10 DEF IInv, MailInv
  <2>2. AboutToMark(e.slot, e.token) => AboutToMark(e.slot, e.token)'
    BY <1>1, <1>6 DEF AboutToMark
  <2> QED BY <2>1, <2>2 DEF MailFine, Clean
<1> QED BY <1>7, <1>8, <1>9, <1>11, <1>12 DEF IInv
-----------------------------------------------------------------------------
(* Steps of the leads, of the runs and of time *)

\* Workers and inboxes stay, runs stay what they were inserted for, and rows at
\* most go, or lose their backoff with whoever holds them overtaken.
RowsStay ==
  /\ recheck' \in [Slots -> RecheckRow] /\ run' \in [Slots -> RunRow]
  /\ \A i \in Slots : run'[i].lead = run[i].lead /\ (run'[i].status = "absent" <=> run[i].status = "absent")
  /\ \A i \in Slots :
       /\ recheck'[i].stored => recheck[i].stored
       /\ recheck'[i].attempts = recheck[i].attempts /\ recheck'[i].emailed = recheck[i].emailed
       /\ recheck'[i].token = recheck[i].token /\ recheck'[i].unheard = recheck[i].unheard
       /\ recheck[i].overtaken \subseteq recheck'[i].overtaken
       /\ recheck[i].waited => recheck'[i].waited
       /\ \/ recheck'[i].waited = recheck[i].waited
          \/ \A u \in Workers : Holding(sweeper[u]) /\ sweeper[u].slot = i =>
               sweeper[u].token \in recheck'[i].overtaken

LEMMA WorldMoves ==
  ASSUME IInv, RowsStay, lead' \in [Leads -> LeadRow], visitor' \in Leads \cup {"none"},
         nights' \in 0..MaxNights, UNCHANGED <<sweeper, inbox>>
  PROVE  IInv'
<1> USE DEF RowsStay
<1>1. TypeOK'
  BY DEF IInv, TypeOK
<1>2. \A i \in Slots : Clean(i)' => Clean(i)
  BY DEF Clean
<1>3. WorkerInv'
  <2> SUFFICES ASSUME NEW u \in Workers
               PROVE  (HoldFine(sweeper[u]) /\ InsertFine(sweeper[u]) /\ RowsFine(sweeper[u]))'
    BY DEF WorkerInv
  <2>1. PICK m \in SweeperRow : m = sweeper[u] /\ m = sweeper'[u]
    BY DEF IInv, TypeOK
  <2>2. HoldFine(m) /\ InsertFine(m) /\ RowsFine(m)
    BY <2>1 DEF IInv, WorkerInv
  <2>3. HoldFine(m)'
    <3>1. CASE ~Holding(m)
      BY <3>1 DEF HoldFine, Holding
    <3>2. CASE Holding(m)
      <4>1. \/ m.token \in recheck'[m.slot].overtaken
            \/ ~recheck'[m.slot].waited /\ m.token = recheck'[m.slot].attempts
        BY <2>1, <2>2, <3>2 DEF HoldFine
      <4> QED BY <1>2, <2>2, <3>2, <4>1 DEF HoldFine
    <3> QED BY <3>1, <3>2
  <2>4. InsertFine(m)' /\ RowsFine(m)'
    <3>1. \A x \in m.rows : x.slot \in Slots
      BY DEF SweeperRow
    <3> QED BY <2>2, <3>1 DEF InsertFine, RowsFine
  <2> QED BY <2>1, <2>3, <2>4 DEF HoldFine, InsertFine, RowsFine, Holding, Clean
<1>4. Apart'
  BY DEF IInv, Apart, Holding
<1>5. SlotInv'
  <2> SUFFICES ASSUME NEW j \in Slots
               PROVE  SlotFine(j)'
    BY DEF SlotInv
  <2>1. SlotFine(j)
    BY DEF IInv, SlotInv
  <2> QED BY <1>2, <2>1 DEF SlotFine
<1>6. MailInv'
  <2> SUFFICES ASSUME NEW l \in Leads, NEW e \in inbox[l]
               PROVE  MailFine(l, e)'
    BY DEF MailInv
  <2>1. MailFine(l, e) /\ e.slot \in Slots
    BY DEF IInv, MailInv, TypeOK, Email
  <2>2. AboutToMark(e.slot, e.token) => AboutToMark(e.slot, e.token)'
    BY DEF AboutToMark
  <2> QED BY <1>2, <2>1, <2>2 DEF MailFine
<1> QED BY <1>1, <1>3, <1>4, <1>5, <1>6 DEF IInv

LEMMA LeadKeeps ==
  ASSUME IInv, \/ Unsubscribe
               \/ \E l \in Leads : GrowOld(l) \/ Erase(l) \/ \E e \in inbox[l] : OpenUnsubscribe(l, e)
               \/ UNCHANGED vars
  PROVE  IInv'
<1>1. UNCHANGED <<run, recheck, sweeper, inbox, nights>>
  BY DEF Unsubscribe, GrowOld, Erase, OpenUnsubscribe, Others, vars
<1>2. visitor' \in Leads \cup {"none"}
  BY DEF Unsubscribe, GrowOld, Erase, OpenUnsubscribe, Others, IInv, TypeOK, vars
<1> DEFINE Stay == lead' \in [Leads -> LeadRow]
<1>3. Stay
  <2>1. lead \in [Leads -> LeadRow] /\ visitor \in Leads \cup {"none"}
    BY DEF IInv, TypeOK
  <2>2. CASE Unsubscribe
    BY ZenonT(60), <2>1, <2>2 DEF Unsubscribe, LeadRow
  <2>3. ASSUME NEW l \in Leads, GrowOld(l) PROVE Stay
    BY <2>1, <2>3 DEF GrowOld, LeadRow
  <2>4. ASSUME NEW l \in Leads, Erase(l) PROVE Stay
    BY ZenonT(60), <2>1, <2>4 DEF Erase, LeadRow
  <2>5. ASSUME NEW l \in Leads, NEW e \in inbox[l], OpenUnsubscribe(l, e) PROVE Stay
    BY <2>1, <2>5 DEF OpenUnsubscribe
  <2>6. CASE UNCHANGED vars
    BY <2>1, <2>6 DEF vars
  <2> QED BY <2>2, <2>3, <2>4, <2>5, <2>6
<1>4. RowsStay /\ nights' \in 0..MaxNights
  BY <1>1 DEF RowsStay, IInv, TypeOK
<1> QED BY <1>1, <1>2, <1>3, <1>4, WorldMoves

\* A run stays what it was inserted for.
LEMMA RunKeeps ==
  ASSUME IInv, Midnight \/ \E i \in Slots : Link(i) \/ RunRecheck(i)
  PROVE  IInv'
<1>1. UNCHANGED <<lead, recheck, sweeper, visitor, inbox>>
  BY DEF Midnight, Link, RunRecheck, PlanFails, Measure, PanelFails, SetStatus, Others
<1>2. nights' \in 0..MaxNights
  <2>1. nights \in 0..MaxNights
    BY DEF IInv, TypeOK
  <2>2. CASE Midnight
    BY <2>1, <2>2, NumbersAssumption DEF Midnight
  <2>3. CASE \E i \in Slots : Link(i) \/ RunRecheck(i)
    BY <2>1, <2>3 DEF Link, RunRecheck, PlanFails, Measure, PanelFails, SetStatus, Others
  <2> QED BY <2>2, <2>3
<1> DEFINE Stay == /\ run' \in [Slots -> RunRow]
                   /\ \A i \in Slots : /\ run'[i].lead = run[i].lead
                                       /\ run'[i].status = "absent" <=> run[i].status = "absent"
<1>3. Stay
  <2>1. run \in [Slots -> RunRow]
    BY DEF IInv, TypeOK
  <2>2. CASE Midnight
    BY ZenonT(60), <2>1, <2>2 DEF Midnight, RunRow
  <2>3. ASSUME NEW i \in Slots, Link(i) PROVE Stay
    BY ZenonT(60), <2>1, <2>3 DEF Link, RunRow
  <2>4. ASSUME NEW i \in Slots, RunRecheck(i) PROVE Stay
    <3>1. PICK status \in {"done", "failed"} : SetStatus(i, status)
      BY <2>4 DEF RunRecheck, PlanFails, Measure, PanelFails
    <3> QED BY <2>1, <3>1 DEF SetStatus, RunRow
  <2> QED BY <2>2, <2>3, <2>4
<1>4. RowsStay /\ lead' \in [Leads -> LeadRow] /\ visitor' \in Leads \cup {"none"}
  BY <1>1, <1>3 DEF RowsStay, IInv, TypeOK
<1> QED BY <1>1, <1>2, <1>4, WorldMoves

LEMMA DeleteKeeps ==
  ASSUME IInv, NEW l \in Leads, Delete(l)
  PROVE  IInv'
<1>1. UNCHANGED <<run, sweeper, visitor, inbox, nights>>
  BY DEF Delete, Others
<1>2. lead' \in [Leads -> LeadRow]
  BY ZenonT(60) DEF Delete, IInv, TypeOK, LeadRow
<1>3. /\ recheck' \in [Slots -> RecheckRow]
      /\ \A i \in Slots :
           /\ recheck'[i].stored => recheck[i].stored
           /\ recheck'[i].attempts = recheck[i].attempts /\ recheck'[i].waited = recheck[i].waited
           /\ recheck'[i].token = recheck[i].token /\ recheck'[i].emailed = recheck[i].emailed
           /\ recheck'[i].unheard = recheck[i].unheard /\ recheck'[i].overtaken = recheck[i].overtaken
  BY ZenonT(60) DEF Delete, IInv, TypeOK, RecheckRow
<1>4. RowsStay /\ visitor' \in Leads \cup {"none"} /\ nights' \in 0..MaxNights
  BY <1>1, <1>3 DEF RowsStay, IInv, TypeOK
<1> QED BY <1>1, <1>2, <1>4, WorldMoves

\* Whoever holds the row when its backoff ends is overtaken.
LEMMA BackoffKeeps ==
  ASSUME IInv, NEW i \in Slots, BackoffEnds(i)
  PROVE  IInv'
<1>1. UNCHANGED <<lead, run, sweeper, visitor, inbox, nights>>
  BY DEF BackoffEnds, Others
<1>2. recheck[i] \in RecheckRow /\ HeldAttempts(i) \subseteq 1..MaxAttempts
  <2>1. \A u \in Workers : Holding(sweeper[u]) => sweeper[u].token \in 1..MaxAttempts
    BY DEF IInv, WorkerInv, HoldFine
  <2> QED BY <2>1 DEF HeldAttempts, IInv, TypeOK
<1>3. PICK r \in RecheckRow :
        /\ recheck' = [recheck EXCEPT ![i] = r] /\ r.stored = recheck[i].stored
        /\ r.attempts = recheck[i].attempts /\ r.token = recheck[i].token /\ r.emailed = recheck[i].emailed
        /\ r.unheard = recheck[i].unheard /\ r.waited
        /\ r.overtaken = recheck[i].overtaken \cup HeldAttempts(i)
  <2> DEFINE x == recheck[i].overtaken \cup HeldAttempts(i)
             r == [recheck[i] EXCEPT !.waited = TRUE, !.overtaken = x]
  <2>1. recheck' = [recheck EXCEPT ![i] = r]
    BY DEF BackoffEnds, IInv, TypeOK
  <2>2. x \in SUBSET (1..MaxAttempts)
    BY <1>2 DEF RecheckRow
  <2> HIDE DEF x
  <2>3. /\ r \in RecheckRow /\ r.stored = recheck[i].stored
        /\ r.attempts = recheck[i].attempts /\ r.token = recheck[i].token /\ r.emailed = recheck[i].emailed
        /\ r.unheard = recheck[i].unheard /\ r.waited /\ r.overtaken = x
    BY <1>2, <2>2 DEF RecheckRow
  <2> QED BY <2>1, <2>3 DEF x
<1>4. RowsStay
  <2>1. recheck' \in [Slots -> RecheckRow] /\ recheck'[i] = r /\ \A j \in Slots \ {i} : recheck'[j] = recheck[j]
    BY <1>3 DEF IInv, TypeOK
  <2>2. \A u \in Workers : Holding(sweeper[u]) /\ sweeper[u].slot = i => sweeper[u].token \in r.overtaken
    BY <1>3 DEF HeldAttempts
  <2> QED BY <1>1, <1>3, <2>1, <2>2 DEF RowsStay, IInv, TypeOK
<1>5. /\ lead' \in [Leads -> LeadRow] /\ visitor' \in Leads \cup {"none"} /\ nights' \in 0..MaxNights
  BY <1>1 DEF IInv, TypeOK
<1> QED BY <1>1, <1>4, <1>5, WorldMoves
-----------------------------------------------------------------------------
LEMMA NextKeeps == ASSUME IInv, [Next]_vars PROVE IInv'
<1>1. ASSUME NEW w \in Workers, StartDue(w) PROVE IInv'
  BY <1>1, CountTodayKeeps, SelectDueKeeps, InsertOneKeeps, CommitKeeps, EndsKeep DEF StartDue
<1>2. ASSUME NEW w \in Workers, SendEmails(w) PROVE IInv'
  BY <1>2, SelectFinishedKeeps, ClaimKeeps, EndsKeep, SetTokenKeeps, AcceptedKeeps, LostKeeps, MarkKeeps
     DEF SendEmails
<1>3. ASSUME NEW w \in Workers, Crash(w) PROVE IInv'
  BY <1>3, CrashKeeps
<1>4. ASSUME NEW l \in Leads, GrowOld(l) \/ Erase(l) \/ \E e \in inbox[l] : OpenUnsubscribe(l, e) PROVE IInv'
  BY <1>4, LeadKeeps
<1>5. ASSUME NEW l \in Leads, Delete(l) PROVE IInv'
  BY <1>5, DeleteKeeps
<1>6. ASSUME NEW i \in Slots, Link(i) \/ RunRecheck(i) PROVE IInv'
  BY <1>6, RunKeeps
<1>7. ASSUME NEW i \in Slots, BackoffEnds(i) PROVE IInv'
  BY <1>7, BackoffKeeps
<1>8. CASE Unsubscribe \/ UNCHANGED vars
  BY <1>8, LeadKeeps
<1>9. CASE Midnight
  BY <1>9, RunKeeps
<1> QED BY <1>1, <1>2, <1>3, <1>4, <1>5, <1>6, <1>7, <1>8, <1>9 DEF Next, Sweep

\* The inductive invariant holds in every state.
THEOREM Invariance == Spec => []IInv
<1>1. Init => IInv
  BY InitHolds
<1>2. IInv /\ [Next]_vars => IInv'
  BY NextKeeps
<1> QED BY <1>1, <1>2, PTL DEF Spec

\* Every value stays within its type (recheck.ts, schema.ts), and a re-check
\* that is stored has a run.
THEOREM TypeCorrect == Spec => []TypeOK
<1>1. IInv => TypeOK
  BY DEF IInv
<1> QED BY <1>1, Invariance, PTL

\* A re-check is emailed again only when the worker did not hear, or not before
\* the backoff ended, that the email before went out, whatever workers claim,
\* crash and retry at once and however slow a send is (recheck.ts:75-79).
THEOREM NoDuplicate == Spec => []NoUnexcusedDuplicate
<1>1. IInv => NoUnexcusedDuplicate
  <2> SUFFICES ASSUME IInv, NEW i \in Slots, NEW k \in Leads, NEW l \in Leads, NEW e \in inbox[k], NEW f \in inbox[l],
                      e.slot = i, f.slot = i, e.token < f.token
               PROVE  e.token \in recheck[i].unheard \cup recheck[i].overtaken
    BY DEF NoUnexcusedDuplicate
  <2>1. MailFine(k, e) /\ MailFine(l, f)
    BY DEF IInv, MailInv
  <2>2. e.token \in Nat /\ f.token \in Nat /\ recheck[i].attempts \in Nat
    BY NumbersAssumption DEF IInv, TypeOK, Email, RecheckRow
  <2> QED BY <2>1, <2>2 DEF MailFine
<1> QED BY <1>1, Invariance, PTL

\* While the sends of a re-check are shorter than their backoffs, its being
\* marked as emailed means a link that works is out, and a link stops working
\* only when its email's answer did not come back (recheck.ts:119-121).
THEOREM LinksWork == Spec => []UnsubscribeLinksWork
<1>1. IInv => UnsubscribeLinksWork
  <2> SUFFICES ASSUME IInv, NEW i \in Slots, Clean(i)
               PROVE  LET received == {e \in inbox[run[i].lead] : e.slot = i} IN
                      /\ recheck[i].emailed => \E e \in received : e.token = recheck[i].token
                      /\ \A e \in received : e.token = recheck[i].token \/ e.token \in recheck[i].unheard
    BY DEF UnsubscribeLinksWork, Clean
  <2>1. run[i].lead \in Leads /\ SlotFine(i)
    BY DEF IInv, SlotInv, SlotFine, TypeOK, Clean
  <2>2. \A e \in inbox[run[i].lead] : MailFine(run[i].lead, e)
    BY <2>1 DEF IInv, MailInv
  <2>3. ASSUME recheck[i].emailed PROVE \E e \in inbox[run[i].lead] : e.slot = i /\ e.token = recheck[i].token
    BY <2>1, <2>3 DEF SlotFine
  <2> QED BY <2>2, <2>3 DEF MailFine
<1> QED BY <1>1, Invariance, PTL
-----------------------------------------------------------------------------
(* The ceiling and one re-check per lead, for the sweeps of each worker *)

Starting(n) == n.pc \in {"select", "start", "insert"}

\* Worker w has added a re-check for lead l; how many it has added today.
AddedBy(w, l) == \E i \in Slots : recheck[i].stored /\ run[i].lead = l /\ run[i].by = w
AddedToday(w) == Cardinality(TodayBy(w))

\* What worker w in state n has read stays true of its own re-checks: there is
\* room for the leads it has still to start, and the one it inserts is new.
StartFine(w, n) ==
  /\ n.pc = "select" => AddedToday(w) + n.room <= MaxPerDay
  /\ n.pc = "start" => AddedToday(w) + Cardinality(n.due) <= MaxPerDay
  /\ n.pc = "insert" => AddedToday(w) + Cardinality(n.due) + 1 <= MaxPerDay
  /\ n.pc = "insert" /\ n.add => ~AddedBy(w, n.lead)

StartInv ==
  /\ \A w \in Workers : StartFine(w, sweeper[w]) /\ AddedToday(w) <= MaxPerDay
  /\ RecheckedOnceByEach

LEMMA Fewer ==
  ASSUME NEW T, IsFiniteSet(T), NEW S \in SUBSET T
  PROVE  IsFiniteSet(S) /\ Cardinality(S) \in Nat /\ Cardinality(T) \in Nat /\ Cardinality(S) <= Cardinality(T)
BY FS_Subset, FS_CardinalityType

LEMMA TodayIsNat ==
  ASSUME NEW w
  PROVE  /\ AddedToday(w) \in Nat /\ IsFiniteSet(TodayBy(w))
         /\ Cardinality(RechecksToday) \in Nat /\ AddedToday(w) <= Cardinality(RechecksToday)
<1>1. IsFiniteSet(RechecksToday)
  BY SetsAssumption, FS_Subset DEF RechecksToday
<1>2. TodayBy(w) \subseteq RechecksToday
  BY DEF TodayBy
<1> QED BY <1>1, <1>2, Fewer DEF AddedToday

\* Steps that add no re-check, and after which only workers that were starting are.
Quiet ==
  /\ \A u \in Workers : sweeper'[u] = sweeper[u] \/ ~Starting(sweeper'[u])
  /\ \A i \in Slots :
       /\ recheck'[i].stored => recheck[i].stored
       /\ run'[i].today => run[i].today
       /\ run'[i].lead = run[i].lead /\ run'[i].by = run[i].by

LEMMA QuietStep ==
  ASSUME IInv, StartInv, Quiet
  PROVE  StartInv'
<1>1. ASSUME NEW u \in Workers PROVE StartFine(u, sweeper[u])' /\ (AddedToday(u) <= MaxPerDay)'
  <2>1. TodayBy(u)' \subseteq TodayBy(u)
    BY DEF Quiet, TodayBy, RechecksToday
  <2>2. PICK t \in Nat : t = AddedToday(u)' /\ t <= AddedToday(u) /\ AddedToday(u) \in Nat
    BY <2>1, TodayIsNat, Fewer DEF AddedToday
  <2>3. \A l : AddedBy(u, l)' => AddedBy(u, l)
    BY DEF Quiet, AddedBy
  <2>4. t <= MaxPerDay
    BY <2>2, NumbersAssumption DEF StartInv
  <2>5. StartFine(u, sweeper[u])'
    <3>1. CASE ~Starting(sweeper'[u])
      BY <3>1 DEF StartFine, Starting
    <3>2. CASE sweeper'[u] = sweeper[u]
      <4>1. PICK n \in SweeperRow : n = sweeper[u] /\ n = sweeper'[u]
        BY <3>2 DEF IInv, TypeOK
      <4>2. StartFine(u, n)
        BY <4>1 DEF StartInv
      <4>3. n.room \in Nat /\ Cardinality(n.due) \in Nat
        BY SetsAssumption, NumbersAssumption, Fewer DEF SweeperRow
      <4>4. StartFine(u, n)'
        BY <2>2, <2>3, <4>2, <4>3, NumbersAssumption DEF StartFine
      <4> QED BY <4>1, <4>4 DEF StartFine
    <3> QED BY <3>1, <3>2 DEF Quiet
  <2> QED BY <2>2, <2>4, <2>5
<1>2. RecheckedOnceByEach'
  BY DEF Quiet, StartInv, RecheckedOnceByEach
<1> QED BY <1>1, <1>2 DEF StartInv

\* A worker reads and moves on.
LEMMA Reads ==
  ASSUME IInv, StartInv, NEW w \in Workers, NEW n \in SweeperRow, sweeper' = [sweeper EXCEPT ![w] = n],
         UNCHANGED <<lead, run, recheck>>, StartFine(w, n)
  PROVE  StartInv'
<1>1. sweeper'[w] = n /\ \A u \in Workers \ {w} : sweeper'[u] = sweeper[u]
  BY DEF IInv, TypeOK
<1>2. \A u : AddedToday(u)' = AddedToday(u) /\ \A l : AddedBy(u, l)' = AddedBy(u, l)
  BY DEF AddedToday, TodayBy, RechecksToday, AddedBy
<1>3. ASSUME NEW u \in Workers PROVE StartFine(u, sweeper[u])'
  <2>1. PICK m : m = sweeper'[u]
    OBVIOUS
  <2>2. StartFine(u, m)
    BY <1>1, <2>1 DEF StartInv
  <2> QED BY <1>2, <2>1, <2>2 DEF StartFine
<1> QED BY <1>2, <1>3 DEF StartInv, RecheckedOnceByEach

LEMMA CountTodayStarts ==
  ASSUME IInv, StartInv, NEW w \in Workers, CountToday(w)
  PROVE  StartInv'
<1>1. Room \in 0..MaxPerDay /\ (Room = 0 \/ AddedToday(w) + Room <= MaxPerDay)
  BY TodayIsNat, NumbersAssumption DEF Room
<1>2. PICK n \in SweeperRow : /\ sweeper' = [sweeper EXCEPT ![w] = n]
                              /\ n.pc = (IF Room = 0 THEN "mails" ELSE "select") /\ n.room = Room
  <2> DEFINE place == IF Room = 0 THEN "mails" ELSE "select"
             n == [AtTop EXCEPT !.room = Room, !.pc = place]
  <2>1. place \in {"mails", "select"}
    OBVIOUS
  <2>2. sweeper' = [sweeper EXCEPT ![w] = n]
    BY DEF CountToday
  <2> HIDE DEF place
  <2>3. n \in SweeperRow /\ n.pc = place /\ n.room = Room
    BY <1>1, <2>1, AtTopRow DEF SweeperRow
  <2> QED BY <2>1, <2>2, <2>3 DEF place
<1>3. StartFine(w, n)
  BY <1>1, <1>2 DEF StartFine
<1>4. UNCHANGED <<lead, run, recheck>>
  BY DEF CountToday
<1> QED BY <1>2, <1>3, <1>4, Reads

LEMMA SelectDueStarts ==
  ASSUME IInv, StartInv, NEW w \in Workers, SelectDue(w)
  PROVE  StartInv'
<1>1. /\ sweeper[w] \in SweeperRow /\ sweeper[w].room \in Nat /\ UNCHANGED <<lead, run, recheck>>
      /\ AddedToday(w) + sweeper[w].room <= MaxPerDay
  BY NumbersAssumption DEF SelectDue, At, IInv, TypeOK, SweeperRow, StartInv, StartFine
<1> DEFINE due == {l \in Leads : Due(l)}
           size == IF Cardinality(due) < sweeper[w].room THEN Cardinality(due) ELSE sweeper[w].room
<1>2. PICK picked \in SUBSET due :
        /\ Cardinality(picked) = size /\ sweeper' = [sweeper EXCEPT ![w].pc = "start", ![w].due = picked]
  BY DEF SelectDue, kSubset
<1>3. Cardinality(due) \in Nat
  BY SetsAssumption, FS_Subset, FS_CardinalityType
<1>4. Cardinality(picked) \in Nat /\ Cardinality(picked) <= sweeper[w].room
  BY <1>1, <1>2, <1>3
<1>5. PICK n \in SweeperRow : /\ sweeper' = [sweeper EXCEPT ![w] = n]
                              /\ n.pc = "start" /\ n.due = picked
  <2> DEFINE n == [sweeper[w] EXCEPT !.pc = "start", !.due = picked]
  <2>1. sweeper' = [sweeper EXCEPT ![w] = n]
    BY <1>2 DEF IInv, TypeOK
  <2>2. picked \in SUBSET Leads
    BY <1>2
  <2>3. n \in SweeperRow /\ n.pc = "start" /\ n.due = picked
    BY <1>1, <2>2 DEF SweeperRow
  <2> QED BY <2>1, <2>3
<1> HIDE DEF due, size
<1>6. StartFine(w, n)
  BY <1>1, <1>4, <1>5, TodayIsNat, NumbersAssumption DEF StartFine
<1> QED BY <1>1, <1>5, <1>6, Reads

LEMMA InsertOneStarts ==
  ASSUME IInv, StartInv, NEW w \in Workers, InsertOne(w)
  PROVE  StartInv'
<1>1. /\ sweeper[w] \in SweeperRow /\ sweeper[w].pc = "start" /\ UNCHANGED <<lead, run, recheck>>
      /\ AddedToday(w) + Cardinality(sweeper[w].due) <= MaxPerDay
  BY DEF InsertOne, At, IInv, TypeOK, StartInv, StartFine
<1>2. PICK l \in sweeper[w].due, i \in FreeSlots :
        sweeper' = [sweeper EXCEPT ![w] =
          IF lead[l].exists
            THEN [@ EXCEPT !.pc = "insert", !.due = sweeper[w].due \ {l}, !.lead = l, !.slot = i,
                           !.add = ~Rechecked(l)]
            ELSE AtTop]
  BY DEF InsertOne
<1>3. l \in Leads /\ i \in Slots
  BY <1>1 DEF SweeperRow, FreeSlots
<1> DEFINE due == sweeper[w].due \ {l}
           add == ~Rechecked(l)
<1>4. /\ Cardinality(due) \in Nat /\ Cardinality(due) + 1 = Cardinality(sweeper[w].due)
      /\ due \in SUBSET Leads
  <2>1. IsFiniteSet(sweeper[w].due) /\ sweeper[w].due \in SUBSET Leads
    BY <1>1, SetsAssumption, FS_Subset DEF SweeperRow
  <2>2. IsFiniteSet(due) /\ Cardinality(due) = Cardinality(sweeper[w].due) - 1
    BY <2>1, FS_RemoveElement
  <2>3. Cardinality(due) \in Nat /\ Cardinality(sweeper[w].due) \in Nat
    BY <2>1, <2>2, FS_CardinalityType
  <2> QED BY <2>1, <2>2, <2>3
<1>5. add \in BOOLEAN /\ (add => ~AddedBy(w, l))
  BY DEF Rechecked, AddedBy
<1>6. PICK n \in SweeperRow : /\ sweeper' = [sweeper EXCEPT ![w] = n]
                              /\ \/ n.pc = "insert" /\ n.lead = l /\ n.due = due /\ n.add = add
                                 \/ n.pc = "top"
  <2>1. CASE lead[l].exists
    <3> DEFINE n == [sweeper[w] EXCEPT !.pc = "insert", !.due = due, !.lead = l, !.slot = i, !.add = add]
    <3>1. sweeper' = [sweeper EXCEPT ![w] = n]
      <4>1. sweeper' = [sweeper EXCEPT ![w] =
              [@ EXCEPT !.pc = "insert", !.due = sweeper[w].due \ {l}, !.lead = l, !.slot = i,
                        !.add = ~Rechecked(l)]]
        BY <1>2, <2>1
      <4> QED BY <4>1 DEF IInv, TypeOK
    <3> HIDE DEF due, add
    <3>2. n \in SweeperRow /\ n.pc = "insert" /\ n.lead = l /\ n.due = due /\ n.add = add
      BY <1>1, <1>3, <1>4, <1>5 DEF SweeperRow
    <3> QED BY <3>1, <3>2
  <2>2. CASE ~lead[l].exists
    BY <1>2, <2>2, AtTopRow
  <2> QED BY <2>1, <2>2
<1> HIDE DEF due, add
<1>7. StartFine(w, n)
  BY <1>1, <1>3, <1>4, <1>5, <1>6, TodayIsNat, NumbersAssumption DEF StartFine
<1> QED BY <1>1, <1>6, <1>7, Reads

\* The one step that adds a re-check adds it to the worker's own.
LEMMA CommitOneStarts ==
  ASSUME IInv, StartInv, NEW w \in Workers, CommitOne(w)
  PROVE  StartInv'
<1>1. sweeper[w] \in SweeperRow /\ sweeper[w].pc = "insert" /\ UNCHANGED lead
  BY DEF CommitOne, At, IInv, TypeOK
<1>2. PICK i \in Slots, l \in Leads :
        /\ i = sweeper[w].slot /\ l = sweeper[w].lead /\ run[i].status = "absent" /\ ~recheck[i].stored
  BY <1>1 DEF IInv, WorkerInv, InsertFine, TypeOK
<1>3. /\ sweeper[w].add => ~AddedBy(w, l)
      /\ AddedToday(w) + Cardinality(sweeper[w].due) + 1 <= MaxPerDay
  BY <1>1, <1>2 DEF StartInv, StartFine
<1>4. /\ recheck'[i].stored = sweeper[w].add /\ run'[i].lead = l /\ run'[i].by = w
      /\ \A j \in Slots \ {i} : recheck'[j] = recheck[j] /\ run'[j] = run[j]
  BY <1>2, <1>3 DEF CommitOne, IInv, TypeOK, RecheckRow
<1>5. TodayBy(w)' \subseteq TodayBy(w) \cup {i} /\ \A u \in Workers \ {w} : TodayBy(u)' \subseteq TodayBy(u)
  BY <1>2, <1>4 DEF TodayBy, RechecksToday
<1>6. AddedToday(w)' \in Nat /\ AddedToday(w)' <= AddedToday(w) + 1
  <2> DEFINE old == TodayBy(w)
  <2>1. IsFiniteSet(old) /\ Cardinality(old) \in Nat /\ AddedToday(w) = Cardinality(old)
    BY TodayIsNat DEF AddedToday
  <2>2. IsFiniteSet(old \cup {i}) /\ Cardinality(old \cup {i}) \in {Cardinality(old), Cardinality(old) + 1}
    BY <2>1, FS_AddElement
  <2>3. /\ Cardinality(TodayBy(w)') \in Nat
        /\ Cardinality(TodayBy(w)') <= Cardinality(old \cup {i})
    BY <1>5, <2>2, Fewer
  <2> QED BY <2>1, <2>2, <2>3 DEF AddedToday
<1>7. Cardinality(sweeper[w].due) \in Nat
  BY <1>1, SetsAssumption, Fewer DEF SweeperRow
<1>8. PICK n \in SweeperRow : /\ sweeper' = [sweeper EXCEPT ![w] = n]
                              /\ n.pc = "start" /\ n.due = sweeper[w].due
  <2> DEFINE n == [sweeper[w] EXCEPT !.pc = "start", !.lead = "none", !.slot = "none", !.add = FALSE]
  <2>1. sweeper' = [sweeper EXCEPT ![w] = n]
    BY DEF CommitOne, IInv, TypeOK
  <2>2. n \in SweeperRow /\ n.pc = "start" /\ n.due = sweeper[w].due
    BY <1>1 DEF SweeperRow
  <2> QED BY <2>1, <2>2
<1>9. sweeper'[w] = n /\ \A u \in Workers \ {w} : sweeper'[u] = sweeper[u]
  BY <1>8 DEF IInv, TypeOK
<1>10. ASSUME NEW u \in Workers PROVE StartFine(u, sweeper[u])' /\ (AddedToday(u) <= MaxPerDay)'
  <2>1. CASE u = w
    <3>1. PICK t \in Nat : t = AddedToday(w)'
      BY <1>6
    <3>2. t + Cardinality(n.due) <= MaxPerDay /\ t <= MaxPerDay
      BY <1>3, <1>6, <1>7, <1>8, <3>1, TodayIsNat, NumbersAssumption
    <3> QED BY <1>8, <1>9, <2>1, <3>1, <3>2 DEF StartFine
  <2>2. CASE u # w
    <3>1. PICK m \in SweeperRow : m = sweeper[u] /\ m = sweeper'[u]
      BY <1>9, <2>2 DEF IInv, TypeOK
    <3>2. PICK t \in Nat : t = AddedToday(u)' /\ t <= AddedToday(u) /\ AddedToday(u) \in Nat
      BY <1>5, <2>2, TodayIsNat, Fewer DEF AddedToday
    <3>3. \A k : AddedBy(u, k)' => AddedBy(u, k)
      BY <1>4, <2>2 DEF AddedBy
    <3>4. m.room \in Nat /\ Cardinality(m.due) \in Nat
      BY SetsAssumption, NumbersAssumption, Fewer DEF SweeperRow
    <3>5. StartFine(u, m) /\ AddedToday(u) <= MaxPerDay
      BY <3>1 DEF StartInv
    <3>6. StartFine(u, m)' /\ t <= MaxPerDay
      BY <3>2, <3>3, <3>4, <3>5, NumbersAssumption DEF StartFine
    <3> QED BY <3>1, <3>2, <3>6 DEF StartFine
  <2> QED BY <2>1, <2>2
<1>11. RecheckedOnceByEach'
  <2> SUFFICES ASSUME NEW a \in Slots, NEW b \in Slots, a # b,
                      recheck'[a].stored, recheck'[b].stored, run'[a].lead = run'[b].lead
               PROVE  run'[a].by # run'[b].by
    BY DEF RecheckedOnceByEach
  <2>1. CASE a = i \/ b = i
    BY <1>3, <1>4, <2>1 DEF AddedBy
  <2>2. CASE a # i /\ b # i
    BY <1>4, <2>2 DEF StartInv, RecheckedOnceByEach
  <2> QED BY <2>1, <2>2
<1> QED BY <1>10, <1>11 DEF StartInv

\* The steps of a worker in sendRecheckEmails, and its end, are quiet.
LEMMA MailsAreQuiet ==
  ASSUME IInv, NEW w \in Workers, SendEmails(w) \/ AllStarted(w) \/ Crash(w)
  PROVE  Quiet
<1> DEFINE Kept == \A i \in Slots : recheck'[i].stored = recheck[i].stored
           Left == \A u \in Workers : sweeper'[u] = sweeper[u] \/ ~Starting(sweeper'[u])
<1>1. UNCHANGED <<lead, run>>
  BY DEF SendEmails, SelectFinished, ClaimRow, MailsEnd, SetToken, SendAccepted, SendRefused, AnswerLost,
         Mark, AllStarted, Crash
<1>2. recheck \in [Slots -> RecheckRow] /\ sweeper \in [Workers -> SweeperRow]
  BY DEF IInv, TypeOK
<1>3. ASSUME UNCHANGED recheck PROVE Kept
  BY <1>3
<1>4. ASSUME Unheard(w) PROVE Kept
  BY <1>2, <1>4 DEF Unheard, RecheckRow
<1>5. ASSUME NextRow(w) PROVE Left
  BY <1>2, <1>5 DEF NextRow, Starting, SweeperRow
<1>6. ASSUME AllStarted(w) \/ MailsEnd(w) PROVE Kept /\ Left
  <2>1. sweeper'[w].pc \in {"top", "mails"} /\ \A u \in Workers \ {w} : sweeper'[u] = sweeper[u]
    BY <1>2, <1>6 DEF AllStarted, MailsEnd, AtTop
  <2> QED BY <1>6, <2>1 DEF AllStarted, MailsEnd, Starting
<1>7. ASSUME SelectFinished(w) PROVE Kept /\ Left
  <2>1. sweeper'[w].pc = "claim" /\ \A u \in Workers \ {w} : sweeper'[u] = sweeper[u]
    BY <1>2, <1>7 DEF SelectFinished, SweeperRow
  <2> QED BY <1>7, <2>1 DEF SelectFinished, Starting
<1>8. ASSUME ClaimRow(w) PROVE Kept /\ Left
  <2>1. PICK x \in sweeper[w].rows :
          IF Claims(x)
            THEN /\ recheck' = [recheck EXCEPT ![x.slot].attempts = @ + 1, ![x.slot].waited = FALSE]
                 /\ sweeper' = [sweeper EXCEPT ![w].pc = "token", ![w].rows = @ \ {x},
                      ![w].slot = x.slot, ![w].lead = run[x.slot].lead,
                      ![w].token = recheck[x.slot].attempts + 1]
            ELSE sweeper' = [sweeper EXCEPT ![w].rows = @ \ {x}] /\ UNCHANGED recheck
    BY <1>8 DEF ClaimRow
  <2>2. CASE Claims(x)
    <3>1. Kept
      BY <1>2, <2>1, <2>2 DEF RecheckRow
    <3>2. sweeper'[w].pc = "token" /\ \A u \in Workers \ {w} : sweeper'[u] = sweeper[u]
      BY <1>2, <2>1, <2>2 DEF SweeperRow
    <3> QED BY <3>1, <3>2 DEF Starting
  <2>3. CASE ~Claims(x)
    <3>1. sweeper'[w].pc = "claim" /\ \A u \in Workers \ {w} : sweeper'[u] = sweeper[u]
      BY <1>2, <1>8, <2>1, <2>3 DEF SweeperRow, ClaimRow, At
    <3> QED BY <2>1, <2>3, <3>1 DEF Starting
  <2> QED BY <2>2, <2>3
<1>9. ASSUME SetToken(w) PROVE Kept /\ Left
  <2>1. Kept
    BY <1>2, <1>9 DEF SetToken, RecheckRow
  <2>2. sweeper'[w].pc = "send" /\ \A u \in Workers \ {w} : sweeper'[u] = sweeper[u]
    BY <1>2, <1>9 DEF SetToken, Goto, SweeperRow
  <2> QED BY <2>1, <2>2 DEF Starting
<1>10. ASSUME SendAccepted(w) PROVE Kept /\ Left
  <2>1. sweeper'[w].pc = "mark" /\ \A u \in Workers \ {w} : sweeper'[u] = sweeper[u]
    BY <1>2, <1>10 DEF SendAccepted, Goto, SweeperRow
  <2> QED BY <1>10, <2>1 DEF SendAccepted, Starting
<1>11. ASSUME SendRefused(w) PROVE Kept /\ Left
  BY <1>5, <1>11 DEF SendRefused
<1>12. ASSUME AnswerLost(w) PROVE Kept /\ Left
  BY <1>4, <1>5, <1>12 DEF AnswerLost
<1>13. ASSUME Mark(w) PROVE Kept /\ Left
  <2>1. Kept
    BY <1>2, <1>13 DEF Mark, Marked, RecheckRow
  <2> QED BY <1>5, <1>13, <2>1 DEF Mark
<1>14. ASSUME Crash(w) PROVE Kept /\ Left
  <2>1. Kept
    BY <1>3, <1>4, <1>14 DEF Crash
  <2>2. sweeper'[w].pc = "top" /\ \A u \in Workers \ {w} : sweeper'[u] = sweeper[u]
    BY <1>2, <1>14, AtTopRow DEF Crash
  <2> QED BY <2>1, <2>2 DEF Starting
<1>15. Kept /\ Left
  BY <1>6, <1>7, <1>8, <1>9, <1>10, <1>11, <1>12, <1>13, <1>14 DEF SendEmails
<1> QED BY <1>1, <1>15 DEF Quiet

\* What becomes of leads, runs and time adds no re-check either.
LEMMA WorldIsQuiet ==
  ASSUME IInv,
         \/ \E l \in Leads : GrowOld(l) \/ Erase(l) \/ Delete(l) \/ \E e \in inbox[l] : OpenUnsubscribe(l, e)
         \/ \E i \in Slots : Link(i) \/ RunRecheck(i) \/ BackoffEnds(i)
         \/ Unsubscribe \/ Midnight \/ UNCHANGED vars
  PROVE  Quiet
<1>1. /\ lead \in [Leads -> LeadRow] /\ run \in [Slots -> RunRow] /\ recheck \in [Slots -> RecheckRow]
      /\ visitor \in Leads \cup {"none"}
  BY DEF IInv, TypeOK
<1>2. ASSUME UNCHANGED <<run, recheck, sweeper>>, \A l \in Leads : lead'[l].exists = lead[l].exists
      PROVE  Quiet
  BY <1>2 DEF Quiet
<1>3. ASSUME UNCHANGED <<lead, recheck, sweeper>>,
             \A i \in Slots : /\ run'[i].lead = run[i].lead /\ run'[i].by = run[i].by
                              /\ run'[i].today => run[i].today
      PROVE  Quiet
  BY <1>3 DEF Quiet
<1>4. ASSUME NEW l \in Leads, GrowOld(l) \/ Erase(l) PROVE Quiet
  BY <1>1, <1>2, <1>4 DEF GrowOld, Erase, Others, LeadRow
<1>5. ASSUME NEW l \in Leads, NEW e \in inbox[l], OpenUnsubscribe(l, e) PROVE Quiet
  BY <1>2, <1>5 DEF OpenUnsubscribe
<1>6. CASE Unsubscribe
  BY <1>1, <1>2, <1>6 DEF Unsubscribe, LeadRow
<1>7. ASSUME NEW l \in Leads, Delete(l) PROVE Quiet
  <2>1. UNCHANGED <<run, sweeper>>
    BY <1>7 DEF Delete, Others
  <2>2. ~lead'[l].exists /\ \A k \in Leads \ {l} : lead'[k] = lead[k]
    BY <1>1, <1>7 DEF Delete, LeadRow
  <2>3. \A i \in Slots : /\ recheck'[i].stored => recheck[i].stored
                         /\ run[i].lead # l => recheck'[i].stored = recheck[i].stored
    BY <1>1, <1>7 DEF Delete, RecheckRow
  <2> QED BY <2>1, <2>2, <2>3 DEF Quiet
<1>8. ASSUME NEW i \in Slots, Link(i) PROVE Quiet
  BY <1>1, <1>3, <1>8 DEF Link, Others, RunRow
<1>9. ASSUME NEW i \in Slots, RunRecheck(i) PROVE Quiet
  <2>1. PICK status \in {"done", "failed"} : SetStatus(i, status)
    BY <1>9 DEF RunRecheck, PlanFails, Measure, PanelFails
  <2> QED BY <1>1, <1>3, <2>1 DEF SetStatus, Others, RunRow
<1>10. ASSUME NEW i \in Slots, BackoffEnds(i) PROVE Quiet
  <2>1. UNCHANGED <<lead, run, sweeper>>
    BY <1>10 DEF BackoffEnds, Others
  <2>2. \A j \in Slots : recheck'[j].stored = recheck[j].stored
    BY <1>1, <1>10 DEF BackoffEnds, RecheckRow
  <2> QED BY <2>1, <2>2 DEF Quiet
<1>11. CASE Midnight
  BY <1>1, <1>3, <1>11 DEF Midnight, RunRow
<1>12. CASE UNCHANGED vars
  BY <1>2, <1>12 DEF vars
<1> QED BY <1>4, <1>5, <1>6, <1>7, <1>8, <1>9, <1>10, <1>11, <1>12

LEMMA StartKeeps == ASSUME IInv, StartInv, [Next]_vars PROVE StartInv'
<1>1. ASSUME NEW w \in Workers, StartDue(w) PROVE StartInv'
  BY <1>1, CountTodayStarts, SelectDueStarts, InsertOneStarts, CommitOneStarts, MailsAreQuiet, QuietStep
     DEF StartDue
<1>2. ASSUME NEW w \in Workers, SendEmails(w) \/ Crash(w) PROVE StartInv'
  BY <1>2, MailsAreQuiet, QuietStep
<1>3. ASSUME \/ \E l \in Leads : GrowOld(l) \/ Erase(l) \/ Delete(l) \/ \E e \in inbox[l] : OpenUnsubscribe(l, e)
             \/ \E i \in Slots : Link(i) \/ RunRecheck(i) \/ BackoffEnds(i)
             \/ Unsubscribe \/ Midnight \/ UNCHANGED vars
      PROVE StartInv'
  BY <1>3, WorldIsQuiet, QuietStep
<1> QED BY <1>1, <1>2, <1>3 DEF Next, Sweep

LEMMA StartHolds == ASSUME Init PROVE StartInv
<1>1. \A w : TodayBy(w) = {}
  BY DEF Init, TodayBy, RechecksToday
<1>2. \A w : AddedToday(w) = 0
  BY <1>1, FS_EmptySet DEF AddedToday
<1>3. \A w \in Workers : StartFine(w, sweeper[w])
  BY AtTopRow DEF Init, StartFine
<1> QED BY <1>2, <1>3, NumbersAssumption DEF Init, StartInv, RecheckedOnceByEach

LEMMA Starts == Spec => []StartInv
<1>1. Init => StartInv
  BY StartHolds
<1>2. IInv /\ StartInv /\ [Next]_vars => StartInv'
  BY StartKeeps
<1> QED BY <1>1, <1>2, Invariance, PTL DEF Spec

\* However the sweeps of several workers overlap and whatever dies between their
\* steps, no worker adds a second re-check for a lead (recheck.ts:12, 63-70).
THEOREM RecheckedOnce == Spec => []RecheckedOnceByEach
<1>1. StartInv => RecheckedOnceByEach
  BY DEF StartInv
<1> QED BY <1>1, Starts, PTL

\* However the sweeps overlap, what one worker adds in a day stays within the
\* ceiling (recheck.ts:32-36), so that all of them add at most the ceiling times
\* their number.
THEOREM CeilingIsKept == Spec => []CeilingHoldsForEach
<1>1. StartInv => CeilingHoldsForEach
  BY DEF StartInv, CeilingHoldsForEach, AddedToday
<1> QED BY <1>1, Starts, PTL

-----------------------------------------------------------------------------
(* The watch and the metrics it reads.                                       *)
(*                                                                           *)
(* A task that replaces rows says so to the others that write rows of the    *)
(* same source: what it does alone it does to rows nobody touched since it   *)
(* began.  Between the two statements of a sync the rows it is about to      *)
(* write are missing, and no others.                                         *)

\* The rows one origin wrote, in a table: each of the values once.
OriginRows(table, o) == {r \in DOMAIN table : r.origin = o}
Holds(table, values, src, o) ==
  /\ OriginRows(table, o) = {Watch!Row(v, src, o) : v \in values}
  /\ \A r \in OriginRows(table, o) : table[r] = 1

SyncStages == {"fetch", "read", "define", "delete", "insert", "report", "drop"}
LedgerStages == {"range", "sums", "upsert", "clear", "derive"}
RowFields == {"key", "period", "value", "source", "origin"}
TaskFields == {"pc", "of", "queue", "values", "keys", "missing", "window", "failed", "alone"}

Got(n, k) == {v \in n.values : v.key = k}

\* What a task n is doing.
TaskFine(n) ==
  /\ DOMAIN n = TaskFields /\ n.queue \subseteq Sources /\ n.alone \in BOOLEAN
  /\ n.pc \in SyncStages \cup LedgerStages \cup {"idle"}
  /\ n.pc \in SyncStages =>
       /\ n.of \in Sources
       /\ n.keys \subseteq {v.key : v \in n.values}
       /\ \A v \in n.values : v.period \in Watch!Periods
  /\ n.pc \in LedgerStages => n.of = "ledger"
  /\ n.pc \in {"upsert", "clear", "derive"} => \A v \in n.values : v.key \in Derived
  /\ n.pc = "insert" => \E k : n.missing = {k} /\ Got(n, k) # {}

\* A derivation that nobody disturbed works with what the ledger says now.
DerivesWell(n) == n.alone =>
  /\ n.pc \in LedgerStages \ {"range"} => n.window = Watch!LedgerRange(entries)
  /\ n.pc \in {"upsert", "clear", "derive"} => n.values = Watch!Derivation(entries, n.window)
  /\ n.pc = "derive" => OriginRows(metric, "ledger") = {}

DropsWell(n) == n.pc = "drop" /\ n.alone => stored[n.of] = {}

Inserting(n, s) == n.pc = "insert" /\ n.of = s

\* Between its two statements a sync has taken out what it is about to replace.
Outside(values, new, k) == {v \in values : v.key # k \/ ~Watch!InWindow(v, new)}
Opened(n, s) ==
  \A k : n.missing = {k} => Holds(metric, Outside(stored[s], Got(n, k), k), s, s)

TaskInv ==
  /\ DOMAIN job = Tasks /\ DOMAIN stored = Sources
  /\ \A t \in Tasks : TaskFine(job[t]) /\ DerivesWell(job[t]) /\ DropsWell(job[t])

\* A row keeps the name of the source that wrote it until the source is dropped.
OriginInv ==
  \A r \in DOMAIN metric :
    /\ DOMAIN r = RowFields
    /\ r.source \in Sources => r.origin = r.source
    /\ r.origin \in Sources => r.source \in {r.origin, None}
    /\ r.origin = "ledger" => r.key \in Derived

SourceInv ==
  \A s \in Sources \ torn :
    /\ (\A t \in Tasks : ~Inserting(job[t], s)) => Holds(metric, stored[s], s, s)
    /\ \A t \in Tasks :
         Inserting(job[t], s) /\ job[t].alone /\ (\A u \in Tasks \ {t} : ~Inserting(job[u], s))
           => Opened(job[t], s)

TypedInv == typed \subseteq Typed /\ Holds(metric, typed, None, "typed")

LedgerInv ==
  /\ entries \in [Watch!Periods -> Nat]
  /\ "ledger" \in torn \/
       Holds(metric, Watch!Derivation(entries, Watch!LedgerRange(entries)), None, "ledger")

MetricInv == TaskInv /\ OriginInv /\ SourceInv /\ TypedInv /\ LedgerInv

WatchFields == {"pc", "hits", "rule", "fresh", "changed", "alone"}

\* What a watch n is doing: it alone is about to open an alert, or to insert
\* suggestions, unless another did since it looked.
WatchFine(n) ==
  /\ DOMAIN n = WatchFields /\ n.alone \in BOOLEAN
  /\ n.hits \subseteq Rules /\ n.fresh \subseteq Rules /\ n.hits \cap n.fresh = {}
  /\ n.pc = "idle" => n.fresh = {}
  /\ n.pc # "create" => n.rule = None
  /\ n.pc = "create" => n.rule \in Rules /\ n.rule \notin n.hits \cup n.fresh
  /\ n.alone /\ n.pc = "create" => alert[n.rule].open = 0
  /\ n.alone /\ n.pc = "suggest" => suggested = 0

\* The watches that have yet to mail the alert they opened for a rule.
Holders(r) == {w \in Watches : r \in watch[w].fresh}

Tally(r) ==
  /\ alert[r].open > 1 => r \in doubled
  /\ r \in silent \/ alert[r].open + alert[r].closed = alert[r].mailed + Cardinality(Holders(r))

AlertInv ==
  /\ DOMAIN watch = Watches /\ suggested \in Nat
  /\ alert \in [Rules -> [open : Nat, closed : Nat, mailed : Nat]]
  /\ \A w \in Watches : WatchFine(watch[w])
  /\ \A r \in Rules : Tally(r)
  /\ suggested > 1 => piled
-----------------------------------------------------------------------------
(* The first and the last period of a ledger *)

LEMMA LeastPeriod ==
  ASSUME NEW S, S \subseteq Nat, S # {}
  PROVE  \E x \in S : \A y \in S : x <= y
<1>1. PICK x \in S : \A y \in S : <<y, x>> \notin OpToRel(<, Nat)
  BY WFMin, NatLessThanWellFounded, Zenon
<1>2. ASSUME NEW y \in S PROVE x <= y
  <2>1. <<y, x>> \in Nat \X Nat /\ <<y, x>>[1] = y /\ <<y, x>>[2] = x
    OBVIOUS
  <2>2. ~(y < x)
    BY <1>1, <2>1 DEF OpToRel
  <2> QED BY <2>2
<1> QED BY <1>2

LEMMA GreatestPeriod ==
  ASSUME NEW S, S \subseteq Watch!Periods, S # {}
  PROVE  \E x \in S : \A y \in S : x >= y
<1> DEFINE Left == {MaxPeriod - y : y \in S}
<1>1. MaxPeriod \in Nat /\ \A y \in S : y \in Nat /\ MaxPeriod - y \in Nat
  BY OfficeConstants DEF Watch!WatchConstants, Watch!MetricConstants, Watch!Periods
<1>2. Left \subseteq Nat /\ Left # {}
  BY <1>1
<1>3. PICK d \in Left : \A e \in Left : d <= e
  BY <1>2, LeastPeriod
<1>4. PICK x \in S : d = MaxPeriod - x
  BY <1>3
<1>5. ASSUME NEW y \in S PROVE x >= y
  <2>1. MaxPeriod - y \in Left
    OBVIOUS
  <2>2. MaxPeriod - x <= MaxPeriod - y
    BY <2>1, <1>3, <1>4
  <2> QED BY <2>2, <1>1, <1>4
<1> QED BY <1>4, <1>5

LEMMA Extremes ==
  ASSUME NEW S, S \subseteq Watch!Periods, S # {}
  PROVE  /\ Watch!Min(S) \in S /\ Watch!Max(S) \in S
         /\ \A y \in S : Watch!Min(S) <= y /\ y <= Watch!Max(S)
<1>1. S \subseteq Nat
  BY OfficeConstants DEF Watch!WatchConstants, Watch!MetricConstants, Watch!Periods
<1>2. \E x \in S : \A y \in S : x <= y
  BY <1>1, LeastPeriod
<1>3. \E x \in S : \A y \in S : x >= y
  BY GreatestPeriod
<1>4. Watch!Min(S) \in S /\ \A y \in S : Watch!Min(S) <= y
  BY <1>2 DEF Watch!Min
<1>5. Watch!Max(S) \in S /\ \A y \in S : Watch!Max(S) >= y
  BY <1>3 DEF Watch!Max
<1> QED BY <1>1, <1>4, <1>5

LEMMA InOwnWindow ==
  ASSUME NEW new, \A n \in new : n.period \in Watch!Periods
  PROVE  \A n \in new : Watch!InWindow(n, new)
<1> DEFINE S == {n.period : n \in new}
<1> SUFFICES ASSUME NEW n \in new PROVE Watch!InWindow(n, new)
  OBVIOUS
<1>1. S \subseteq Watch!Periods /\ S # {} /\ n.period \in S
  OBVIOUS
<1>2. Watch!Min(S) <= n.period /\ n.period <= Watch!Max(S)
  BY <1>1, Extremes
<1> QED BY <1>2 DEF Watch!InWindow

\* The range the property speaks of is the one ReadRange computes.
LEMMA RangeIs ==
  ASSUME entries \in [Watch!Periods -> Nat]
  PROVE  Watch!LedgerRange(entries) =
           {p \in Watch!Periods : \E a, b \in Watch!Periods :
              a <= p /\ p <= b /\ entries[a] > 0 /\ entries[b] > 0}
<1> DEFINE S == {p \in Watch!Periods : entries[p] > 0}
           B == {p \in Watch!Periods : \E a, b \in Watch!Periods :
                   a <= p /\ p <= b /\ entries[a] > 0 /\ entries[b] > 0}
<1>1. CASE S = {}
  <2>1. B = {}
    BY <1>1
  <2> QED BY <1>1, <2>1 DEF Watch!LedgerRange
<1>2. CASE S # {}
  <2>1. /\ Watch!Min(S) \in S /\ Watch!Max(S) \in S
        /\ \A y \in S : Watch!Min(S) <= y /\ y <= Watch!Max(S)
    BY <1>2, Extremes
  <2> DEFINE lo == Watch!Min(S)
             hi == Watch!Max(S)
  <2>2. Watch!Periods = 1..MaxPeriod /\ MaxPeriod \in Nat
    BY OfficeConstants DEF Watch!WatchConstants, Watch!MetricConstants, Watch!Periods
  <2>3. Watch!LedgerRange(entries) = lo..hi
    BY <1>2 DEF Watch!LedgerRange
  <2> HIDE DEF lo, hi
  <2>4. lo \in S /\ hi \in S /\ \A y \in S : lo <= y /\ y <= hi
    BY <2>1 DEF lo, hi
  <2>5. lo..hi \subseteq B
    BY <2>4, <2>2
  <2>6. B \subseteq lo..hi
    <3> SUFFICES ASSUME NEW p \in B PROVE p \in lo..hi
      OBVIOUS
    <3>1. PICK a \in Watch!Periods, b \in Watch!Periods :
            a <= p /\ p <= b /\ entries[a] > 0 /\ entries[b] > 0
      OBVIOUS
    <3>2. a \in S /\ b \in S
      BY <3>1
    <3>3. lo <= a /\ b <= hi
      BY <3>2, <2>4
    <3>4. lo \in Int /\ hi \in Int /\ p \in Int /\ a \in Int /\ b \in Int
      BY <2>4, <2>2
    <3> QED BY <3>1, <3>3, <3>4
  <2> QED BY <2>3, <2>5, <2>6
<1> QED BY <1>1, <1>2
-----------------------------------------------------------------------------
(* Bags of rows *)

\* Rows of other origins come and go.
LEMMA OthersCome ==
  ASSUME NEW table, NEW more, NEW values, NEW src, NEW o, Holds(table, values, src, o),
         \A r \in DOMAIN more : r.origin # o
  PROVE  Holds(Watch!(+)(table, more), values, src, o)
<1> DEFINE sum == Watch!(+)(table, more)
<1>1. DOMAIN sum = DOMAIN table \cup DOMAIN more
  BY DEF Watch!(+)
<1>2. OriginRows(sum, o) = OriginRows(table, o)
  BY <1>1 DEF OriginRows
<1>3. ASSUME NEW r \in OriginRows(sum, o) PROVE sum[r] = 1
  <2>1. r \in DOMAIN table /\ r \notin DOMAIN more /\ table[r] = 1
    BY <1>2 DEF OriginRows, Holds
  <2>2. sum[r] = table[r] + 0
    BY <2>1 DEF Watch!(+)
  <2> QED BY <2>1, <2>2
<1> QED BY <1>2, <1>3 DEF Holds

LEMMA RowsCome ==
  ASSUME NEW table, NEW values, NEW new, NEW src, NEW o, Holds(table, values, src, o),
         \A v \in values, n \in new : Watch!Row(v, src, o) # Watch!Row(n, src, o)
  PROVE  Holds(Watch!(+)(table, Watch!Rows(new, src, o)), values \cup new, src, o)
<1> DEFINE more == Watch!Rows(new, src, o)
           sum == Watch!(+)(table, more)
           Own(V) == {Watch!Row(v, src, o) : v \in V}
<1>1. DOMAIN more = Own(new) /\ \A r \in Own(new) : more[r] = 1
  BY DEF Watch!Rows, Watch!SetToBag
<1>2. DOMAIN sum = DOMAIN table \cup DOMAIN more
  BY DEF Watch!(+)
<1>3. \A r \in Own(new) : r.origin = o
  BY DEF Watch!Row
<1>4. OriginRows(sum, o) = OriginRows(table, o) \cup Own(new)
  BY <1>1, <1>2, <1>3 DEF OriginRows
<1>5. OriginRows(table, o) = Own(values) /\ \A r \in Own(values) : r \in DOMAIN table /\ table[r] = 1
  BY DEF Holds, OriginRows
<1>6. Own(values) \cap Own(new) = {}
  OBVIOUS
<1>7. Own(values) \cup Own(new) = Own(values \cup new)
  OBVIOUS
<1>8. ASSUME NEW r \in Own(values) PROVE sum[r] = 1
  <2>1. r \in DOMAIN table /\ table[r] = 1 /\ r \notin DOMAIN more
    BY <1>5, <1>6, <1>1
  <2>2. sum[r] = table[r] + 0
    BY <2>1 DEF Watch!(+)
  <2> QED BY <2>1, <2>2
<1>9. ASSUME NEW r \in Own(new) PROVE sum[r] = 1
  <2>1. r \in DOMAIN more /\ more[r] = 1 /\ r \in DOMAIN sum
    BY <1>1, <1>2
  <2>2. r \notin DOMAIN table
    BY <1>3, <1>5, <1>6 DEF OriginRows
  <2>3. sum[r] = 0 + more[r]
    BY <2>1, <2>2 DEF Watch!(+)
  <2> QED BY <2>1, <2>3
<1> HIDE DEF sum, more, Own
<1>10. \A r \in OriginRows(sum, o) : sum[r] = 1
  BY <1>4, <1>5, <1>8, <1>9
<1>11. OriginRows(sum, o) = Own(values \cup new)
  BY <1>4, <1>5, <1>7
<1> QED BY <1>10, <1>11 DEF Holds, sum, more, Own

LEMMA RowsGo ==
  ASSUME NEW values, NEW kept, NEW gone, NEW src, NEW o, Holds(metric, values, src, o),
         kept \subseteq values,
         \A v \in values : v \in kept <=> Watch!Row(v, src, o) \notin gone
  PROVE  Holds(Watch!Without(gone), kept, src, o)
<1> DEFINE left == Watch!Without(gone)
           Own(V) == {Watch!Row(v, src, o) : v \in V}
<1>1. DOMAIN left = DOMAIN metric \ gone /\ \A r \in DOMAIN metric \ gone : left[r] = metric[r]
  BY DEF Watch!Without
<1>2. OriginRows(metric, o) = Own(values) /\ \A r \in OriginRows(metric, o) : metric[r] = 1
  BY DEF Holds
<1>3. OriginRows(left, o) = OriginRows(metric, o) \ gone
  BY <1>1 DEF OriginRows
<1>4. Own(values) \ gone = Own(kept)
  OBVIOUS
<1>5. \A r \in OriginRows(left, o) : left[r] = 1
  BY <1>1, <1>2, <1>3 DEF OriginRows
<1> HIDE DEF left, Own
<1>6. OriginRows(left, o) = Own(kept)
  BY <1>2, <1>3, <1>4
<1> QED BY <1>5, <1>6 DEF Holds, left, Own

LEMMA OthersGo ==
  ASSUME NEW values, NEW gone, NEW src, NEW o, Holds(metric, values, src, o),
         \A r \in DOMAIN metric \cap gone : r.origin # o
  PROVE  Holds(Watch!Without(gone), values, src, o)
<1>1. ASSUME NEW v \in values PROVE Watch!Row(v, src, o) \notin gone
  <2>1. Watch!Row(v, src, o) \in OriginRows(metric, o)
    BY DEF Holds
  <2> QED BY <2>1 DEF OriginRows
<1> QED BY <1>1, RowsGo
-----------------------------------------------------------------------------
(* The tasks *)

SourceFine(s) ==
  /\ (\A t \in Tasks : ~Inserting(job[t], s)) => Holds(metric, stored[s], s, s)
  /\ \A t \in Tasks :
       Inserting(job[t], s) /\ job[t].alone /\ (\A u \in Tasks \ {t} : ~Inserting(job[u], s))
         => Opened(job[t], s)

\* All that a task n is, another one's step leaves as it was, but for alone.
Sees(n, m) ==
  /\ DOMAIN n = DOMAIN m /\ n.alone \in BOOLEAN /\ (n.alone => m.alone)
  /\ n.pc = m.pc /\ n.of = m.of /\ n.queue = m.queue /\ n.values = m.values
  /\ n.keys = m.keys /\ n.missing = m.missing /\ n.window = m.window

LEMMA SeesFine == ASSUME NEW n, NEW m, TaskFine(m), Sees(n, m) PROVE TaskFine(n)
BY DEF TaskFine, Sees, Got

LEMMA OthersStay ==
  ASSUME MetricInv, NEW t \in Tasks, DOMAIN job' = Tasks, DOMAIN stored' = Sources,
         \A u \in Tasks \ {t} : Sees(job'[u], job[u]),
         TaskFine(job[t])', DerivesWell(job[t])', DropsWell(job[t])',
         \A u \in Tasks \ {t} : job'[u].alone /\ job[u].of = "ledger" =>
           /\ entries' = entries
           /\ OriginRows(metric, "ledger") = {} => OriginRows(metric', "ledger") = {},
         \A u \in Tasks \ {t}, s \in Sources :
           job'[u].alone /\ job[u].of = s /\ stored[s] = {} => stored'[s] = {}
  PROVE  TaskInv'
<1>1. ASSUME NEW u \in Tasks \ {t}
      PROVE  TaskFine(job[u])' /\ DerivesWell(job[u])' /\ DropsWell(job[u])'
  <2>1. TaskFine(job[u]) /\ DerivesWell(job[u]) /\ DropsWell(job[u]) /\ Sees(job'[u], job[u])
    BY DEF MetricInv, TaskInv
  <2>2. TaskFine(job'[u])
    BY <2>1, SeesFine
  <2>3. DerivesWell(job[u])'
    <3> SUFFICES ASSUME job'[u].alone, job'[u].pc \in LedgerStages
                 PROVE  DerivesWell(job[u])'
      BY DEF DerivesWell, LedgerStages
    <3>1. job[u].alone /\ job[u].of = "ledger" /\ job[u].pc = job'[u].pc
      BY <2>1 DEF Sees, TaskFine
    <3>2. entries' = entries /\ (OriginRows(metric, "ledger") = {} => OriginRows(metric', "ledger") = {})
      BY <3>1
    <3> QED BY <2>1, <3>1, <3>2 DEF DerivesWell, Sees
  <2>4. DropsWell(job[u])'
    <3> SUFFICES ASSUME job'[u].alone, job'[u].pc = "drop" PROVE stored'[job'[u].of] = {}
      BY DEF DropsWell
    <3>1. job[u].alone /\ job[u].of \in Sources /\ job[u].pc = "drop" /\ job'[u].of = job[u].of
      BY <2>1 DEF Sees, TaskFine, SyncStages
    <3>2. stored[job[u].of] = {}
      BY <3>1, <2>1 DEF DropsWell
    <3> QED BY <3>1, <3>2
  <2> QED BY <2>2, <2>3, <2>4
<1>2. \A u \in Tasks : (TaskFine(job[u]) /\ DerivesWell(job[u]) /\ DropsWell(job[u]))'
  BY <1>1
<1> QED BY <1>2 DEF TaskInv

LEMMA SourceMoves ==
  ASSUME MetricInv, NEW s \in Sources \ torn,
         \A u \in Tasks : Inserting(job'[u], s) <=> Inserting(job[u], s),
         \A u \in Tasks : Inserting(job'[u], s) => Sees(job'[u], job[u]),
         Holds(metric, stored[s], s, s) => Holds(metric', stored'[s], s, s),
         \A new, k : Holds(metric, Outside(stored[s], new, k), s, s) =>
                       Holds(metric', Outside(stored'[s], new, k), s, s)
  PROVE  SourceFine(s)'
<1>1. SourceFine(s)
  BY DEF MetricInv, SourceInv, SourceFine
<1>2. ASSUME \A u \in Tasks : ~Inserting(job'[u], s) PROVE Holds(metric', stored'[s], s, s)
  BY <1>1, <1>2 DEF SourceFine
<1>3. ASSUME NEW u \in Tasks, Inserting(job'[u], s), job'[u].alone,
             \A w \in Tasks \ {u} : ~Inserting(job'[w], s)
      PROVE  Opened(job[u], s)'
  <2>1. Sees(job'[u], job[u])
    BY <1>3
  <2>2. Inserting(job[u], s) /\ job[u].alone /\ \A w \in Tasks \ {u} : ~Inserting(job[w], s)
    BY <1>3, <2>1 DEF Sees
  <2>3. Opened(job[u], s)
    BY <1>1, <2>2 DEF SourceFine
  <2>4. job'[u].missing = job[u].missing /\ \A k : Got(job'[u], k) = Got(job[u], k)
    BY <2>1 DEF Sees, Got
  <2>5. ASSUME NEW k, job'[u].missing = {k}
        PROVE  Holds(metric', Outside(stored'[s], Got(job'[u], k), k), s, s)
    <3>1. Holds(metric, Outside(stored[s], Got(job[u], k), k), s, s)
      BY <2>3, <2>4, <2>5 DEF Opened
    <3> QED BY <3>1, <2>4
  <2> QED BY <2>5 DEF Opened
<1> QED BY <1>2, <1>3 DEF SourceFine

\* The step of a task that is not inserting rows of the source.
LEMMA SourceStays ==
  ASSUME MetricInv, NEW t \in Tasks, NEW s \in Sources \ torn,
         \A u \in Tasks \ {t} : Sees(job'[u], job[u]),
         ~Inserting(job'[t], s), ~Inserting(job[t], s),
         stored'[s] = stored[s],
         \A values : Holds(metric, values, s, s) => Holds(metric', values, s, s)
  PROVE  SourceFine(s)'
<1>1. \A u \in Tasks : Inserting(job'[u], s) <=> Inserting(job[u], s)
  BY DEF Sees, Inserting
<1>2. \A u \in Tasks : Inserting(job'[u], s) => Sees(job'[u], job[u])
  OBVIOUS
<1> QED BY <1>1, <1>2, SourceMoves

\* A step that only moves a task, and may give up on its rows.
LEMMA TaskMoves ==
  ASSUME MetricInv, NEW t \in Tasks, DOMAIN job' = Tasks,
         \A u \in Tasks \ {t} : job'[u] = job[u],
         UNCHANGED <<metric, entries, stored, typed>>,
         torn \subseteq torn', job[t].pc = "insert" => job[t].of \in torn',
         job'[t].pc \notin {"insert", "drop"}, TaskFine(job'[t]), DerivesWell(job[t])'
  PROVE  MetricInv'
<1>1. \A u \in Tasks \ {t} : Sees(job'[u], job[u])
  BY DEF MetricInv, TaskInv, TaskFine, Sees
<1>2. TaskInv'
  <2>1. DropsWell(job[t])' /\ TaskFine(job[t])'
    BY DEF DropsWell
  <2>2. DOMAIN stored' = Sources
    BY DEF MetricInv, TaskInv
  <2> QED BY <1>1, <2>1, <2>2, OthersStay
<1>3. ASSUME NEW s \in Sources \ torn' PROVE SourceFine(s)'
  <2>1. ~Inserting(job'[t], s) /\ ~Inserting(job[t], s)
    BY DEF Inserting
  <2>2. \A values : Holds(metric, values, s, s) => Holds(metric', values, s, s)
    OBVIOUS
  <2>3. s \in Sources \ torn /\ stored'[s] = stored[s]
    OBVIOUS
  <2> QED BY <1>1, <2>1, <2>2, <2>3, SourceStays
<1>4. SourceInv'
  BY <1>3 DEF SourceInv, SourceFine
<1>5. (OriginInv /\ TypedInv /\ LedgerInv)'
  BY DEF MetricInv, OriginInv, TypedInv, LedgerInv
<1> QED BY <1>2, <1>4, <1>5 DEF MetricInv

LEMMA Stages ==
  /\ {"fetch", "read", "define", "delete", "report"} \subseteq SyncStages \ LedgerStages
  /\ {"sums", "upsert", "clear"} \subseteq LedgerStages \ SyncStages
  /\ "idle" \notin SyncStages \cup LedgerStages
BY DEF SyncStages, LedgerStages

LEMMA Begun ==
  /\ \A stage, of : /\ DOMAIN Watch!At(stage, of) = TaskFields
                 /\ Watch!At(stage, of).pc = stage /\ Watch!At(stage, of).of = of
                 /\ Watch!At(stage, of).queue = {} /\ Watch!At(stage, of).keys = {}
                 /\ Watch!At(stage, of).values = {} /\ Watch!At(stage, of).alone = FALSE
  /\ DOMAIN Watch!Idle = TaskFields /\ Watch!Idle.pc = "idle" /\ Watch!Idle.queue = {}
  /\ Watch!Idle.alone = FALSE
BY DEF Watch!At, Watch!Idle, TaskFields

LEMMA FetchingFine ==
  ASSUME NEW s \in Sources, NEW queue \in SUBSET Sources
  PROVE  /\ TaskFine([Watch!At("fetch", s) EXCEPT !.queue = queue])
         /\ [Watch!At("fetch", s) EXCEPT !.queue = queue].pc = "fetch"
<1> DEFINE began == Watch!At("fetch", s)
           n == [began EXCEPT !.queue = queue]
<1>1. /\ DOMAIN began = TaskFields /\ began.pc = "fetch" /\ began.of = s /\ began.keys = {} /\ began.values = {}
      /\ began.alone = FALSE
  BY Begun
<1> HIDE DEF began
<1>2. /\ DOMAIN n = TaskFields /\ n.pc = "fetch" /\ n.of = s /\ n.keys = {} /\ n.values = {}
      /\ n.alone = FALSE /\ n.queue = queue
  BY <1>1 DEF TaskFields
<1> HIDE DEF n
<1>3. TaskFine(n) /\ n.pc = "fetch"
  BY <1>2, Stages DEF TaskFine
<1> QED BY <1>3 DEF n, began

LEMMA IdleFine == TaskFine(Watch!Idle) /\ DerivesWell(Watch!Idle)' /\ Watch!Idle.pc = "idle"
BY Begun, Stages DEF TaskFine, DerivesWell

LEMMA AtFine ==
  ASSUME NEW s \in Sources PROVE TaskFine(Watch!At("fetch", s)) /\ Watch!At("fetch", s).pc = "fetch"
<1> DEFINE n == Watch!At("fetch", s)
<1>1. /\ DOMAIN n = TaskFields /\ n.pc = "fetch" /\ n.of = s /\ n.keys = {} /\ n.values = {}
      /\ n.alone = FALSE /\ n.queue = {}
  BY Begun
<1> HIDE DEF n
<1>2. TaskFine(n) /\ n.pc = "fetch"
  BY <1>1, Stages DEF TaskFine
<1> QED BY <1>2 DEF n

\* A step that leaves a task syncing or at rest.
LEMMA SyncMoves ==
  ASSUME MetricInv, NEW t \in Tasks, DOMAIN job' = Tasks,
         \A u \in Tasks \ {t} : job'[u] = job[u],
         UNCHANGED <<metric, entries, stored, typed>>,
         torn \subseteq torn', job[t].pc = "insert" => job[t].of \in torn',
         job'[t].pc \in {"fetch", "read", "define", "delete", "report", "idle"}, TaskFine(job'[t])
  PROVE  MetricInv'
<1>1. DerivesWell(job[t])'
  BY Stages DEF DerivesWell
<1> QED BY <1>1, TaskMoves

LEMMA StartSyncKeeps == ASSUME MetricInv, NEW t \in Tasks, Watch!StartSync(t) PROVE MetricInv'
<1>1. PICK s \in Sources : Watch!Begin(t, Watch!At("fetch", s))
  BY DEF Watch!StartSync
<1>2. /\ job' = [job EXCEPT ![t] = Watch!At("fetch", s)] /\ job[t].pc = "idle"
      /\ UNCHANGED <<metric, entries, stored, typed, torn>>
  BY <1>1 DEF Watch!StartSync, Watch!Begin
<1>3. DOMAIN job = Tasks
  BY DEF MetricInv, TaskInv
<1>4. /\ DOMAIN job' = Tasks /\ job'[t] = Watch!At("fetch", s)
      /\ \A u \in Tasks \ {t} : job'[u] = job[u]
  BY <1>2, <1>3
<1>5. TaskFine(job'[t]) /\ job'[t].pc = "fetch"
  BY <1>4, AtFine
<1> QED BY <1>2, <1>4, <1>5, SyncMoves

LEMMA StartCronKeeps == ASSUME MetricInv, NEW t \in Tasks, Watch!StartCron(t) PROVE MetricInv'
<1> DEFINE listed == {s \in Sources : source[s] = "active"}
<1>1. PICK s \in listed : Watch!Begin(t, [Watch!At("fetch", s) EXCEPT !.queue = listed \ {s}])
  BY DEF Watch!StartCron
<1> DEFINE new == [Watch!At("fetch", s) EXCEPT !.queue = listed \ {s}]
<1>2. /\ job' = [job EXCEPT ![t] = new] /\ job[t].pc = "idle"
      /\ UNCHANGED <<metric, entries, stored, typed, torn>>
  BY <1>1 DEF Watch!StartCron, Watch!Begin
<1>3. TaskFine(new) /\ new.pc = "fetch"
  <2>1. s \in Sources /\ listed \ {s} \in SUBSET Sources
    OBVIOUS
  <2> QED BY <2>1, FetchingFine
<1> HIDE DEF new
<1>4. DOMAIN job = Tasks
  BY DEF MetricInv, TaskInv
<1>5. DOMAIN job' = Tasks /\ job'[t] = new /\ \A u \in Tasks \ {t} : job'[u] = job[u]
  BY <1>2, <1>4
<1> QED BY <1>2, <1>3, <1>5, SyncMoves

LEMMA ValuesHavePeriods ==
  ASSUME NEW s, NEW response \in Responses
  PROVE  \A v \in Watch!ValuesOf(s, response) : v.period \in Watch!Periods
<1>1. response \subseteq [period : 1..MaxPeriod \cup {None}, value : Int \cup {None}]
  BY OfficeConstants DEF Watch!WatchConstants, Watch!MetricConstants
<1>2. ASSUME NEW r \in Watch!Usable(response, Mode[s]) PROVE r.period \in Watch!Periods
  BY <1>1 DEF Watch!Usable, Watch!Periods
<1>3. ASSUME NEW v \in Watch!Normalized(response, Mode[s]) PROVE v.period \in Watch!Periods
  BY <1>2 DEF Watch!Normalized
<1> QED BY <1>3 DEF Watch!ValuesOf

LEMMA FetchKeeps == ASSUME MetricInv, NEW t \in Tasks, Watch!Fetch(t) PROVE MetricInv'
<1>1. PICK response \in Responses :
        LET values == Watch!ValuesOf(job[t].of, response)
        IN job' = [job EXCEPT
             ![t].pc = IF values = {} THEN "report" ELSE "read",
             ![t].failed = (values = {}),
             ![t].values = values, ![t].keys = {v.key : v \in values}]
  BY DEF Watch!Fetch
<1> DEFINE values == Watch!ValuesOf(job[t].of, response)
           keys == {v.key : v \in values}
           stage == IF values = {} THEN "report" ELSE "read"
           void == values = {}
<1>2. \A v \in values : v.period \in Watch!Periods
  BY ValuesHavePeriods
<1>3. job' = [job EXCEPT ![t].pc = stage, ![t].failed = void, ![t].values = values, ![t].keys = keys]
  BY <1>1
<1>4. stage \in {"report", "read"}
  OBVIOUS
<1>5. keys \subseteq {v.key : v \in values}
  OBVIOUS
<1> HIDE DEF values, keys, stage, void
<1>6. DOMAIN job = Tasks /\ TaskFine(job[t]) /\ job[t].pc = "fetch"
  BY DEF MetricInv, TaskInv, Watch!Fetch
<1>7. DOMAIN job[t] = TaskFields /\ job[t].of \in Sources /\ job[t].queue \subseteq Sources /\ job[t].alone \in BOOLEAN
  BY <1>6, Stages DEF TaskFine
<1>8. /\ DOMAIN job' = Tasks /\ \A u \in Tasks \ {t} : job'[u] = job[u]
      /\ DOMAIN job'[t] = TaskFields /\ job'[t].pc = stage /\ job'[t].values = values
      /\ job'[t].keys = keys /\ job'[t].of = job[t].of /\ job'[t].queue = job[t].queue
      /\ job'[t].alone = job[t].alone
  BY <1>3, <1>6, <1>7 DEF TaskFields
<1>9. TaskFine(job'[t])
  BY <1>2, <1>4, <1>5, <1>7, <1>8, Stages DEF TaskFine
<1>10. UNCHANGED <<metric, entries, stored, typed, torn>>
  BY DEF Watch!Fetch
<1> QED BY <1>4, <1>6, <1>8, <1>9, <1>10, SyncMoves

\* A step within a sync that keeps what was fetched.
KeepsTask(n, m) ==
  /\ DOMAIN n = TaskFields
  /\ n.of = m.of /\ n.queue = m.queue /\ n.values = m.values /\ n.keys = m.keys /\ n.alone = m.alone

LEMMA SyncStep ==
  ASSUME MetricInv, NEW t \in Tasks, job[t].pc \in SyncStages,
         DOMAIN job' = Tasks, \A u \in Tasks \ {t} : job'[u] = job[u],
         KeepsTask(job'[t], job[t]), job'[t].pc \in {"read", "define", "delete", "report"},
         UNCHANGED <<metric, entries, stored, typed>>,
         torn \subseteq torn', job[t].pc = "insert" => job[t].of \in torn'
  PROVE  MetricInv'
<1>1. TaskFine(job[t])
  BY DEF MetricInv, TaskInv
<1>2. TaskFine(job'[t])
  BY <1>1, Stages DEF TaskFine, KeepsTask
<1> QED BY <1>2, SyncMoves

LEMMA ReadDefinitionsKeeps == ASSUME MetricInv, NEW t \in Tasks, Watch!ReadDefinitions(t) PROVE MetricInv'
<1> DEFINE missing == job[t].keys \ defined
           stage == IF missing = {} THEN "delete" ELSE "define"
<1>1. job' = [job EXCEPT ![t].missing = missing, ![t].pc = stage]
  BY DEF Watch!ReadDefinitions
<1>2. stage \in {"delete", "define"}
  OBVIOUS
<1> HIDE DEF missing, stage
<1>3. DOMAIN job = Tasks /\ DOMAIN job[t] = TaskFields
  BY DEF MetricInv, TaskInv, TaskFine
<1>4. /\ DOMAIN job' = Tasks /\ \A u \in Tasks \ {t} : job'[u] = job[u]
      /\ KeepsTask(job'[t], job[t]) /\ job'[t].pc = stage
  BY <1>1, <1>3 DEF TaskFields, KeepsTask
<1>5. job[t].pc = "read" /\ UNCHANGED <<metric, entries, stored, typed, torn>>
  BY DEF Watch!ReadDefinitions
<1>6. job[t].pc \in SyncStages /\ job[t].pc # "insert" /\ torn \subseteq torn'
  BY <1>5, Stages
<1> QED BY <1>2, <1>4, <1>5, <1>6, SyncStep

LEMMA InsertDefinitionsKeeps == ASSUME MetricInv, NEW t \in Tasks, Watch!InsertDefinitions(t) PROVE MetricInv'
<1> DEFINE clash == job[t].missing \cap defined # {}
           stage == IF clash THEN "report" ELSE "delete"
<1>1. job' = [job EXCEPT ![t].pc = stage, ![t].failed = clash]
  BY DEF Watch!InsertDefinitions
<1>2. stage \in {"report", "delete"}
  OBVIOUS
<1> HIDE DEF clash, stage
<1>3. DOMAIN job = Tasks /\ DOMAIN job[t] = TaskFields
  BY DEF MetricInv, TaskInv, TaskFine
<1>4. /\ DOMAIN job' = Tasks /\ \A u \in Tasks \ {t} : job'[u] = job[u]
      /\ KeepsTask(job'[t], job[t]) /\ job'[t].pc = stage
  BY <1>1, <1>3 DEF TaskFields, KeepsTask
<1>5. job[t].pc = "define" /\ UNCHANGED <<metric, entries, stored, typed, torn>>
  BY DEF Watch!InsertDefinitions
<1>6. job[t].pc \in SyncStages /\ job[t].pc # "insert" /\ torn \subseteq torn'
  BY <1>5, Stages
<1> QED BY <1>2, <1>4, <1>5, <1>6, SyncStep

LEMMA StatementFailsKeeps == ASSUME MetricInv, NEW t \in Tasks, Watch!StatementFails(t) PROVE MetricInv'
<1>1. /\ job[t].pc \in {"read", "define", "delete", "insert"}
      /\ job' = [job EXCEPT ![t].pc = "report", ![t].failed = TRUE]
      /\ torn' = IF job[t].pc = "insert" THEN torn \cup {job[t].of} ELSE torn
      /\ UNCHANGED <<metric, entries, stored, typed>>
  BY DEF Watch!StatementFails
<1>2. DOMAIN job = Tasks /\ DOMAIN job[t] = TaskFields
  BY DEF MetricInv, TaskInv, TaskFine
<1>3. /\ DOMAIN job' = Tasks /\ \A u \in Tasks \ {t} : job'[u] = job[u]
      /\ KeepsTask(job'[t], job[t]) /\ job'[t].pc = "report"
  BY <1>1, <1>2 DEF TaskFields, KeepsTask
<1>4. /\ job[t].pc \in SyncStages /\ torn \subseteq torn'
      /\ job[t].pc = "insert" => job[t].of \in torn'
  BY <1>1 DEF SyncStages
<1> QED BY <1>1, <1>3, <1>4, SyncStep

LEMMA ReportKeeps == ASSUME MetricInv, NEW t \in Tasks, Watch!Report(t) PROVE MetricInv'
<1>1. job[t].pc = "report" /\ UNCHANGED <<metric, entries, stored, typed, torn>>
  BY DEF Watch!Report
<1>2. DOMAIN job = Tasks /\ TaskFine(job[t])
  BY DEF MetricInv, TaskInv
<1>3. CASE job' = [job EXCEPT ![t] = Watch!Idle]
  <2>1. /\ DOMAIN job' = Tasks /\ job'[t] = Watch!Idle
        /\ \A u \in Tasks \ {t} : job'[u] = job[u]
    BY <1>2, <1>3
  <2>2. TaskFine(job'[t]) /\ job'[t].pc = "idle"
    BY <2>1, IdleFine
  <2> QED BY <1>1, <2>1, <2>2, SyncMoves
<1>4. ASSUME NEW s \in job[t].queue,
             job' = [job EXCEPT ![t] = [Watch!At("fetch", s) EXCEPT !.queue = job[t].queue \ {s}]]
      PROVE  MetricInv'
  <2> DEFINE new == [Watch!At("fetch", s) EXCEPT !.queue = job[t].queue \ {s}]
  <2>1. TaskFine(new) /\ new.pc = "fetch"
    <3>1. s \in Sources /\ job[t].queue \ {s} \in SUBSET Sources
      BY <1>2 DEF TaskFine
    <3> QED BY <3>1, FetchingFine
  <2>2. job' = [job EXCEPT ![t] = new]
    BY <1>4
  <2> HIDE DEF new
  <2>3. DOMAIN job' = Tasks /\ job'[t] = new /\ \A u \in Tasks \ {t} : job'[u] = job[u]
    BY <1>2, <2>2
  <2> QED BY <1>1, <2>1, <2>3, SyncMoves
<1> QED BY <1>3, <1>4 DEF Watch!Report

LEMMA TaskDiesKeeps == ASSUME MetricInv, NEW t \in Tasks, Watch!TaskDies(t) PROVE MetricInv'
<1>1. /\ job' = [job EXCEPT ![t] = Watch!Idle]
      /\ torn' = IF job[t].pc = "insert" THEN torn \cup {job[t].of} ELSE torn
      /\ UNCHANGED <<metric, entries, stored, typed>>
  BY DEF Watch!TaskDies
<1>2. DOMAIN job = Tasks
  BY DEF MetricInv, TaskInv
<1>3. /\ DOMAIN job' = Tasks /\ job'[t] = Watch!Idle
      /\ \A u \in Tasks \ {t} : job'[u] = job[u]
  BY <1>1, <1>2
<1>4. TaskFine(job'[t]) /\ job'[t].pc = "idle"
  BY <1>3, IdleFine
<1>5. torn \subseteq torn' /\ (job[t].pc = "insert" => job[t].of \in torn')
  BY <1>1
<1> QED BY <1>1, <1>3, <1>4, <1>5, SyncMoves

LEMMA ReadRangeKeeps == ASSUME MetricInv, NEW t \in Tasks, Watch!ReadRange(t) PROVE MetricInv'
<1> DEFINE range == Watch!LedgerRange(entries)
<1>1. /\ job[t].pc = "range" /\ UNCHANGED <<metric, entries, stored, typed, torn>>
      /\ job' = [job EXCEPT ![t].pc = "sums", ![t].window = range, ![t].alone = TRUE]
  BY DEF Watch!ReadRange
<1> HIDE DEF range
<1>2. DOMAIN job = Tasks /\ TaskFine(job[t])
  BY DEF MetricInv, TaskInv
<1>3. DOMAIN job[t] = TaskFields /\ job[t].of = "ledger" /\ job[t].queue \subseteq Sources
  BY <1>1, <1>2 DEF TaskFine, LedgerStages
<1>4. /\ DOMAIN job' = Tasks /\ \A u \in Tasks \ {t} : job'[u] = job[u]
      /\ DOMAIN job'[t] = TaskFields /\ job'[t].pc = "sums" /\ job'[t].window = range
      /\ job'[t].of = "ledger" /\ job'[t].queue \subseteq Sources /\ job'[t].alone = TRUE
  BY <1>1, <1>2, <1>3 DEF TaskFields
<1>5. TaskFine(job'[t])
  BY <1>4, Stages DEF TaskFine
<1>6. DerivesWell(job[t])'
  BY <1>1, <1>4 DEF DerivesWell, range
<1>7. job'[t].pc \notin {"insert", "drop"} /\ job[t].pc # "insert" /\ torn \subseteq torn'
  BY <1>1, <1>4
<1> QED BY <1>1, <1>4, <1>5, <1>6, <1>7, TaskMoves

LEMMA ReadSumsKeeps == ASSUME MetricInv, NEW t \in Tasks, Watch!ReadSums(t) PROVE MetricInv'
<1> DEFINE values == Watch!Derivation(entries, job[t].window)
<1>1. /\ job[t].pc = "sums" /\ UNCHANGED <<metric, entries, stored, typed, torn>>
      /\ job' = [job EXCEPT ![t].pc = "upsert", ![t].values = values]
  BY DEF Watch!ReadSums
<1>2. values' = Watch!Derivation(entries', job'[t].window)
  OBVIOUS
<1> HIDE DEF values
<1>3. DOMAIN job = Tasks /\ TaskFine(job[t]) /\ DerivesWell(job[t])
  BY DEF MetricInv, TaskInv
<1>4. DOMAIN job[t] = TaskFields /\ job[t].of = "ledger" /\ job[t].queue \subseteq Sources /\ job[t].alone \in BOOLEAN
  BY <1>1, <1>3, Stages DEF TaskFine
<1>5. /\ DOMAIN job' = Tasks /\ \A u \in Tasks \ {t} : job'[u] = job[u]
      /\ DOMAIN job'[t] = TaskFields /\ job'[t].pc = "upsert" /\ job'[t].values = values
      /\ job'[t].window = job[t].window /\ job'[t].of = "ledger"
      /\ job'[t].queue \subseteq Sources /\ job'[t].alone = job[t].alone
  BY <1>1, <1>3, <1>4 DEF TaskFields
<1>6. TaskFine(job'[t])
  <2>1. \A v \in values : v.key \in Derived
    BY DEF values, Watch!Derivation
  <2> QED BY <2>1, <1>4, <1>5, Stages DEF TaskFine
<1>7. job[t].alone => job[t].window = Watch!LedgerRange(entries)
  BY <1>1, <1>3 DEF DerivesWell, LedgerStages
<1>8. DerivesWell(job[t])'
  BY <1>1, <1>5, <1>7 DEF DerivesWell, values
<1>9. job'[t].pc \notin {"insert", "drop"} /\ job[t].pc # "insert" /\ torn \subseteq torn'
  BY <1>1, <1>5
<1> QED BY <1>1, <1>5, <1>6, <1>8, <1>9, TaskMoves

LEMMA UpsertKeeps == ASSUME MetricInv, NEW t \in Tasks, Watch!UpsertDefinitions(t) PROVE MetricInv'
<1>1. /\ job[t].pc = "upsert" /\ UNCHANGED <<metric, entries, stored, typed, torn>>
      /\ job' = [job EXCEPT ![t].pc = "clear"]
  BY DEF Watch!UpsertDefinitions
<1>2. DOMAIN job = Tasks /\ TaskFine(job[t]) /\ DerivesWell(job[t])
  BY DEF MetricInv, TaskInv
<1>3. DOMAIN job[t] = TaskFields /\ job[t].of = "ledger" /\ job[t].queue \subseteq Sources /\ job[t].alone \in BOOLEAN
  BY <1>1, <1>2 DEF TaskFine, LedgerStages
<1>4. \A v \in job[t].values : v.key \in Derived
  BY <1>1, <1>2 DEF TaskFine
<1>5. /\ DOMAIN job' = Tasks /\ \A u \in Tasks \ {t} : job'[u] = job[u]
      /\ DOMAIN job'[t] = TaskFields /\ job'[t].pc = "clear" /\ job'[t].values = job[t].values
      /\ job'[t].window = job[t].window /\ job'[t].of = "ledger"
      /\ job'[t].queue \subseteq Sources /\ job'[t].alone = job[t].alone
  BY <1>1, <1>2, <1>3 DEF TaskFields
<1>6. TaskFine(job'[t])
  BY <1>3, <1>5, <1>4, Stages DEF TaskFine
<1>7. job[t].alone => /\ job[t].window = Watch!LedgerRange(entries)
                      /\ job[t].values = Watch!Derivation(entries, job[t].window)
  BY <1>1, <1>2 DEF DerivesWell, LedgerStages
<1>8. DerivesWell(job[t])'
  BY <1>1, <1>5, <1>7 DEF DerivesWell
<1>9. job'[t].pc \notin {"insert", "drop"} /\ job[t].pc # "insert" /\ torn \subseteq torn'
  BY <1>1, <1>5
<1> QED BY <1>1, <1>5, <1>6, <1>8, <1>9, TaskMoves
-----------------------------------------------------------------------------
(* What changes the rows *)

\* A step of t, which the others with the same rows o take notice of.
Writes(t, new, o) ==
  job' = [u \in Tasks |-> IF u = t THEN new ELSE [job[u] EXCEPT !.alone = @ /\ job[u].of # o]]

LEMMA Written ==
  ASSUME MetricInv, NEW t \in Tasks, NEW new, NEW o, Writes(t, new, o)
  PROVE  /\ DOMAIN job' = Tasks /\ job'[t] = new
         /\ \A u \in Tasks \ {t} : Sees(job'[u], job[u]) /\ (job'[u].alone => job[u].of # o)
<1> SUFFICES ASSUME NEW u \in Tasks \ {t}
             PROVE  Sees(job'[u], job[u]) /\ (job'[u].alone => job[u].of # o)
  BY DEF Writes
<1> DEFINE still == job[u].alone /\ job[u].of # o
<1>1. job'[u] = [job[u] EXCEPT !.alone = still]
  BY DEF Writes
<1>2. still \in BOOLEAN /\ (still => job[u].alone /\ job[u].of # o)
  OBVIOUS
<1> HIDE DEF still
<1>3. DOMAIN job[u] = TaskFields
  BY DEF MetricInv, TaskInv, TaskFine
<1>4. /\ DOMAIN job'[u] = TaskFields /\ job'[u].alone = still
      /\ job'[u].pc = job[u].pc /\ job'[u].of = job[u].of /\ job'[u].queue = job[u].queue
      /\ job'[u].values = job[u].values /\ job'[u].keys = job[u].keys
      /\ job'[u].missing = job[u].missing /\ job'[u].window = job[u].window
  BY <1>1, <1>3 DEF TaskFields
<1> QED BY <1>2, <1>3, <1>4 DEF Sees

LEMMA SourceNames ==
  /\ "ledger" \notin Sources /\ "typed" \notin Sources /\ None \notin Sources
  /\ None # "ledger" /\ None # "typed"
BY OfficeConstants DEF Watch!WatchConstants, Watch!MetricConstants

LEMMA RowIs ==
  ASSUME NEW v, NEW src, NEW o
  PROVE  /\ DOMAIN Watch!Row(v, src, o) = RowFields
         /\ Watch!Row(v, src, o).key = v.key /\ Watch!Row(v, src, o).period = v.period
         /\ Watch!Row(v, src, o).value = v.value
         /\ Watch!Row(v, src, o).source = src /\ Watch!Row(v, src, o).origin = o
BY DEF Watch!Row, RowFields

LEMMA OriginsLeft ==
  ASSUME OriginInv, NEW gone, metric' = Watch!Without(gone) PROVE OriginInv'
<1>1. DOMAIN metric' \subseteq DOMAIN metric
  BY DEF Watch!Without
<1> QED BY <1>1 DEF OriginInv

LEMMA OriginsCome ==
  ASSUME OriginInv, NEW values, NEW src, NEW o, metric' = Watch!(+)(metric, Watch!Rows(values, src, o)),
         src \in Sources => o = src, o \in Sources => src \in {o, None},
         o = "ledger" => \A v \in values : v.key \in Derived
  PROVE  OriginInv'
<1>1. DOMAIN metric' = DOMAIN metric \cup {Watch!Row(v, src, o) : v \in values}
  BY DEF Watch!(+), Watch!Rows, Watch!SetToBag
<1>2. ASSUME NEW r \in DOMAIN metric'
      PROVE  /\ DOMAIN r = RowFields
             /\ r.source \in Sources => r.origin = r.source
             /\ r.origin \in Sources => r.source \in {r.origin, None}
             /\ r.origin = "ledger" => r.key \in Derived
  <2>1. CASE r \in DOMAIN metric
    BY <2>1 DEF OriginInv
  <2>2. ASSUME NEW v \in values, r = Watch!Row(v, src, o)
        PROVE  /\ DOMAIN r = RowFields /\ r.key = v.key /\ r.source = src /\ r.origin = o
    BY <2>2, RowIs
  <2> QED BY <1>1, <2>1, <2>2
<1> QED BY <1>2 DEF OriginInv

LEMMA RowsOfOrigin ==
  ASSUME NEW values, NEW src, NEW o
  PROVE  \A r \in DOMAIN Watch!Rows(values, src, o) : r.origin = o
<1>1. DOMAIN Watch!Rows(values, src, o) = {Watch!Row(v, src, o) : v \in values}
  BY DEF Watch!Rows, Watch!SetToBag
<1> QED BY <1>1, RowIs

LEMMA DeleteWindowKeeps == ASSUME MetricInv, NEW t \in Tasks, Watch!DeleteWindow(t) PROVE MetricInv'
<1>1. PICK k \in job[t].keys :
        /\ metric' = Watch!Without(Watch!Replaced(t, k))
        /\ Watch!Write(t, [job[t] EXCEPT !.pc = "insert", !.missing = {k}, !.keys = @ \ {k}, !.alone = TRUE])
  BY DEF Watch!DeleteWindow
<1> DEFINE gone == Watch!Replaced(t, k)
           left == job[t].keys \ {k}
           new == [job[t] EXCEPT !.pc = "insert", !.missing = {k}, !.keys = left, !.alone = TRUE]
           fetched == Got(job[t], k)
<1>2. job[t].pc = "delete" /\ UNCHANGED <<entries, stored, typed, torn>>
  BY DEF Watch!DeleteWindow
<1>3. DOMAIN job = Tasks /\ DOMAIN stored = Sources /\ TaskFine(job[t])
  BY DEF MetricInv, TaskInv
<1>4. PICK s \in Sources : s = job[t].of
  BY <1>2, <1>3, Stages DEF TaskFine
<1>5. /\ DOMAIN job[t] = TaskFields /\ job[t].queue \subseteq Sources
      /\ job[t].keys \subseteq {v.key : v \in job[t].values}
      /\ \A v \in job[t].values : v.period \in Watch!Periods
  BY <1>2, <1>3, Stages DEF TaskFine
<1>6. /\ DOMAIN job' = Tasks /\ job'[t] = new
      /\ \A u \in Tasks \ {t} : Sees(job'[u], job[u]) /\ (job'[u].alone => job[u].of # s)
  <2>1. Watch!Write(t, new)
    BY <1>1
  <2> HIDE DEF new
  <2>2. Writes(t, new, job[t].of)
    BY <2>1 DEF Watch!Write, Writes
  <2> QED BY <2>2, <1>4, Written
<1>7. /\ DOMAIN new = TaskFields /\ new.pc = "insert" /\ new.of = s /\ new.queue = job[t].queue
      /\ new.keys = left /\ new.missing = {k} /\ new.values = job[t].values /\ new.alone = TRUE
  BY <1>5, <1>4 DEF TaskFields
<1> HIDE DEF new
<1>8. fetched # {}
  BY <1>5 DEF Got
<1>9. TaskFine(new)
  <2>1. Got(new, k) # {}
    BY <1>7, <1>8 DEF Got
  <2>2. new.pc \in SyncStages \ LedgerStages
    BY <1>7 DEF SyncStages, LedgerStages
  <2>3. \E q : new.missing = {q} /\ Got(new, q) # {}
    BY <2>1, <1>7
  <2> QED BY <2>2, <2>3, <1>5, <1>7 DEF TaskFine
<1>10. gone = {r \in DOMAIN metric : r.source = s /\ r.key = k /\ Watch!InWindow(r, fetched)}
  BY <1>4 DEF Watch!Replaced, Watch!Fetched, Got
<1>11. ASSUME NEW r \in DOMAIN metric \cap gone PROVE r.origin = s
  BY <1>5, <1>10 DEF MetricInv, OriginInv
<1>12. ASSUME NEW values, NEW src, NEW o, o # s, Holds(metric, values, src, o)
       PROVE  Holds(metric', values, src, o)
  <2>1. \A r \in DOMAIN metric \cap gone : r.origin # o
    BY <1>11, <1>12
  <2>2. Holds(Watch!Without(gone), values, src, o)
    BY <2>1, <1>12, OthersGo
  <2> QED BY <2>2, <1>1
<1> HIDE DEF gone
<1>13. TaskInv'
  <2>1. DerivesWell(job[t])' /\ DropsWell(job[t])' /\ TaskFine(job[t])'
    BY <1>6, <1>7, <1>9 DEF DerivesWell, DropsWell, LedgerStages
  <2>2. OriginRows(metric', "ledger") = OriginRows(metric, "ledger")
    <3>1. OriginRows(metric', "ledger") = OriginRows(metric, "ledger") \ gone
      BY <1>1 DEF OriginRows, Watch!Without, gone
    <3>2. \A r \in OriginRows(metric, "ledger") : r \notin gone
      BY <1>5, <1>11, SourceNames DEF OriginRows
    <3> QED BY <3>1, <3>2
  <2>3. DOMAIN stored' = Sources
    BY <1>2, <1>3
  <2>4. \A u \in Tasks \ {t} : job'[u].alone /\ job[u].of = "ledger" =>
          /\ entries' = entries
          /\ OriginRows(metric, "ledger") = {} => OriginRows(metric', "ledger") = {}
    BY <2>2, <1>2
  <2>5. \A u \in Tasks \ {t}, q \in Sources :
          job'[u].alone /\ job[u].of = q /\ stored[q] = {} => stored'[q] = {}
    BY <1>2
  <2> QED BY <1>6, <2>1, <2>3, <2>4, <2>5, OthersStay
<1>14. ASSUME NEW q \in Sources \ torn', q # s PROVE SourceFine(q)'
  <2>1. ~Inserting(job'[t], q) /\ ~Inserting(job[t], q)
    BY <1>2, <1>6, <1>7, <1>14 DEF Inserting
  <2>2. \A values : Holds(metric, values, q, q) => Holds(metric', values, q, q)
    BY <1>12, <1>14
  <2>3. q \in Sources \ torn /\ stored'[q] = stored[q]
    BY <1>2
  <2> QED BY <1>6, <2>1, <2>2, <2>3, SourceStays
<1>15. ASSUME s \in Sources \ torn' PROVE SourceFine(s)'
  <2>1. Inserting(job'[t], s)
    BY <1>6, <1>7 DEF Inserting
  <2>2. ASSUME NEW u \in Tasks, Inserting(job'[u], s), job'[u].alone,
               \A w \in Tasks \ {u} : ~Inserting(job'[w], s)
        PROVE  Opened(job[u], s)'
    <3>1. u = t
      BY <2>1, <2>2
    <3>2. \A w \in Tasks : ~Inserting(job[w], s)
      BY <1>2, <1>6, <2>2, <3>1 DEF Sees, Inserting
    <3>3. Holds(metric, stored[s], s, s)
      BY <3>2, <1>2, <1>15 DEF MetricInv, SourceInv
    <3> DEFINE kept == Outside(stored[s], fetched, k)
    <3>4. ASSUME NEW v \in stored[s] PROVE v \in kept <=> Watch!Row(v, s, s) \notin gone
      <4> DEFINE r == Watch!Row(v, s, s)
      <4>1. r \in DOMAIN metric
        BY <3>3 DEF Holds, OriginRows
      <4>2. r.source = s /\ r.key = v.key /\ r.period = v.period
        BY RowIs
      <4>3. Watch!InWindow(r, fetched) <=> Watch!InWindow(v, fetched)
        BY <4>2 DEF Watch!InWindow
      <4>4. r \in gone <=> v.key = k /\ Watch!InWindow(v, fetched)
        BY <1>10, <4>1, <4>2, <4>3
      <4> QED BY <4>4 DEF Outside
    <3>5. kept \subseteq stored[s]
      BY DEF Outside
    <3> HIDE DEF kept
    <3>6. Holds(Watch!Without(gone), kept, s, s)
      BY <3>3, <3>4, <3>5, RowsGo
    <3>7. Holds(metric', kept, s, s)
      BY <3>6, <1>1 DEF gone
    <3>8. Got(job'[u], k) = fetched /\ job'[u].missing = {k}
      BY <1>6, <1>7, <3>1 DEF Got
    <3>9. ASSUME NEW q, job'[u].missing = {q}
          PROVE  Holds(metric', Outside(stored'[s], Got(job'[u], q), q), s, s)
      <4>1. q = k
        BY <3>8, <3>9
      <4> QED BY <4>1, <3>7, <3>8, <1>2 DEF kept
    <3> QED BY <3>9 DEF Opened
  <2> QED BY <2>1, <2>2 DEF SourceFine
<1>16. SourceInv'
  BY <1>14, <1>15 DEF SourceInv, SourceFine
<1>17. OriginInv'
  BY <1>1, OriginsLeft DEF MetricInv
<1>18. TypedInv' /\ LedgerInv'
  <2>1. s # "typed" /\ s # "ledger"
    BY SourceNames
  <2> QED BY <2>1, <1>2, <1>12 DEF MetricInv, TypedInv, LedgerInv
<1> QED BY <1>13, <1>16, <1>17, <1>18 DEF MetricInv

LEMMA InsertWindowKeeps == ASSUME MetricInv, NEW t \in Tasks, Watch!InsertWindow(t) PROVE MetricInv'
<1>1. job[t].pc = "insert" /\ UNCHANGED <<entries, typed>>
  BY DEF Watch!InsertWindow
<1>2. DOMAIN job = Tasks /\ DOMAIN stored = Sources /\ TaskFine(job[t])
  BY DEF MetricInv, TaskInv
<1>3. PICK s \in Sources : s = job[t].of
  BY <1>1, <1>2 DEF TaskFine, SyncStages
<1>4. /\ DOMAIN job[t] = TaskFields /\ job[t].queue \subseteq Sources /\ job[t].alone \in BOOLEAN
      /\ job[t].keys \subseteq {v.key : v \in job[t].values}
      /\ \A v \in job[t].values : v.period \in Watch!Periods
  BY <1>1, <1>2 DEF TaskFine, SyncStages
<1>5. PICK k : job[t].missing = {k} /\ Got(job[t], k) # {}
  BY <1>1, <1>2 DEF TaskFine
<1>6. k = CHOOSE q \in job[t].missing : TRUE
  BY <1>5
<1> DEFINE new == Got(job[t], k)
           stage == IF job[t].keys = {} THEN "report" ELSE "delete"
           next == [job[t] EXCEPT !.pc = stage]
<1>7. /\ metric' = Watch!(+)(metric, Watch!Rows(new, s, s))
      /\ stored' = [stored EXCEPT ![s] = {v \in @ : v.key # k \/ ~Watch!InWindow(v, new)} \cup new]
      /\ torn' = Watch!Spoilt(t)
      /\ Watch!Write(t, next)
  BY <1>3, <1>6 DEF Watch!InsertWindow, Watch!Fetched, Got
<1>8. stage \in {"report", "delete"}
  OBVIOUS
<1> HIDE DEF stage, next
<1>9. /\ DOMAIN job' = Tasks /\ job'[t] = next
      /\ \A u \in Tasks \ {t} : Sees(job'[u], job[u]) /\ (job'[u].alone => job[u].of # s)
  <2>1. Writes(t, next, job[t].of)
    BY <1>7 DEF Watch!Write, Writes
  <2> QED BY <2>1, <1>3, Written
<1>10. /\ DOMAIN next = TaskFields /\ next.pc = stage /\ next.of = s /\ next.queue = job[t].queue
       /\ next.keys = job[t].keys /\ next.values = job[t].values /\ next.alone = job[t].alone
  BY <1>3, <1>4 DEF next, TaskFields
<1>11. TaskFine(next)
  BY <1>4, <1>8, <1>10, Stages DEF TaskFine
<1>12. /\ \A q \in Sources \ {s} : stored'[q] = stored[q]
       /\ DOMAIN stored' = Sources
       /\ stored'[s] = Outside(stored[s], new, k) \cup new
  BY <1>2, <1>7 DEF Outside
<1> HIDE DEF new
<1>13. \A r \in DOMAIN Watch!Rows(new, s, s) : r.origin = s
  BY RowsOfOrigin
<1>14. ASSUME NEW values, NEW src, NEW o, o # s, Holds(metric, values, src, o)
       PROVE  Holds(metric', values, src, o)
  <2>1. \A r \in DOMAIN Watch!Rows(new, s, s) : r.origin # o
    BY <1>13, <1>14
  <2>2. Holds(Watch!(+)(metric, Watch!Rows(new, s, s)), values, src, o)
    BY <2>1, <1>14, OthersCome
  <2> QED BY <2>2, <1>7
<1>15. torn \subseteq torn' /\ (~job[t].alone => s \in torn') /\ (job[t].alone => torn' = torn)
  BY <1>3, <1>7 DEF Watch!Spoilt
<1>16. TaskInv'
  <2>1. DerivesWell(job[t])' /\ DropsWell(job[t])' /\ TaskFine(job[t])'
    BY <1>8, <1>9, <1>10, <1>11 DEF DerivesWell, DropsWell, LedgerStages
  <2>2. OriginRows(metric', "ledger") = OriginRows(metric, "ledger")
    <3>1. DOMAIN metric' = DOMAIN metric \cup DOMAIN Watch!Rows(new, s, s)
      BY <1>7 DEF Watch!(+)
    <3> QED BY <3>1, <1>13, SourceNames DEF OriginRows
  <2>3. \A u \in Tasks \ {t} : job'[u].alone /\ job[u].of = "ledger" =>
          /\ entries' = entries
          /\ OriginRows(metric, "ledger") = {} => OriginRows(metric', "ledger") = {}
    BY <2>2, <1>1
  <2>4. \A u \in Tasks \ {t}, q \in Sources :
          job'[u].alone /\ job[u].of = q /\ stored[q] = {} => stored'[q] = {}
    BY <1>9, <1>12
  <2> QED BY <1>9, <1>12, <2>1, <2>3, <2>4, OthersStay
<1>17. ASSUME NEW q \in Sources \ torn', q # s PROVE SourceFine(q)'
  <2>1. ~Inserting(job'[t], q) /\ ~Inserting(job[t], q)
    BY <1>3, <1>9, <1>10, <1>17 DEF Inserting
  <2>2. \A values : Holds(metric, values, q, q) => Holds(metric', values, q, q)
    BY <1>14, <1>17
  <2>3. q \in Sources \ torn /\ stored'[q] = stored[q]
    BY <1>12, <1>15, <1>17
  <2> QED BY <1>9, <2>1, <2>2, <2>3, SourceStays
<1>18. ASSUME s \in Sources \ torn' PROVE SourceFine(s)'
  <2>1. job[t].alone /\ s \notin torn
    BY <1>15, <1>18
  <2>2. ASSUME \A u \in Tasks : ~Inserting(job'[u], s) PROVE Holds(metric', stored'[s], s, s)
    <3>1. \A u \in Tasks \ {t} : ~Inserting(job[u], s)
      BY <1>9, <2>2 DEF Sees, Inserting
    <3>2. Inserting(job[t], s)
      BY <1>1, <1>3 DEF Inserting
    <3>3. Opened(job[t], s)
      BY <2>1, <3>1, <3>2 DEF MetricInv, SourceInv
    <3> DEFINE kept == Outside(stored[s], new, k)
    <3>4. Holds(metric, kept, s, s)
      BY <3>3, <1>5 DEF Opened, new
    <3>5. \A n \in new : n.key = k /\ Watch!InWindow(n, new)
      <4>1. \A n \in new : n.period \in Watch!Periods
        BY <1>4 DEF new, Got
      <4>2. \A n \in new : Watch!InWindow(n, new)
        BY <4>1, InOwnWindow
      <4> QED BY <4>2 DEF new, Got
    <3>6. ASSUME NEW v \in kept, NEW n \in new PROVE Watch!Row(v, s, s) # Watch!Row(n, s, s)
      <4>1. v.key # n.key \/ v.period # n.period
        BY <3>5 DEF Outside, Watch!InWindow
      <4> QED BY <4>1, RowIs
    <3> HIDE DEF kept
    <3>7. Holds(Watch!(+)(metric, Watch!Rows(new, s, s)), kept \cup new, s, s)
      BY <3>4, <3>6, RowsCome
    <3> QED BY <3>7, <1>7, <1>12 DEF kept
  <2>3. ASSUME NEW u \in Tasks, Inserting(job'[u], s), job'[u].alone PROVE FALSE
    <3>1. u # t
      BY <2>3, <1>8, <1>9, <1>10 DEF Inserting
    <3> QED BY <3>1, <2>3, <1>9 DEF Sees, Inserting
  <2> QED BY <2>2, <2>3 DEF SourceFine
<1>19. SourceInv'
  BY <1>17, <1>18 DEF SourceInv, SourceFine
<1>20. OriginInv'
  BY <1>7, OriginsCome, SourceNames DEF MetricInv
<1>21. TypedInv' /\ LedgerInv'
  <2>1. s # "typed" /\ s # "ledger"
    BY SourceNames
  <2>2. "ledger" \in torn => "ledger" \in torn'
    BY <1>15
  <2> QED BY <2>1, <2>2, <1>1, <1>14, <1>15 DEF MetricInv, TypedInv, LedgerInv
<1> QED BY <1>16, <1>19, <1>20, <1>21 DEF MetricInv

\* All the rows of a source go.
LEMMA OwnRowsGo ==
  ASSUME MetricInv, NEW s \in Sources, NEW gone, gone = {r \in DOMAIN metric : r.source = s}
  PROVE  /\ \A values, src, o : o # s /\ Holds(metric, values, src, o) => Holds(Watch!Without(gone), values, src, o)
         /\ OriginRows(Watch!Without(gone), "ledger") = OriginRows(metric, "ledger")
         /\ \A values : Holds(metric, values, s, s) => Holds(Watch!Without(gone), {}, s, s)
<1>1. \A r \in DOMAIN metric \cap gone : r.origin = s
  BY DEF MetricInv, OriginInv
<1>2. ASSUME NEW values, NEW src, NEW o, o # s, Holds(metric, values, src, o)
      PROVE  Holds(Watch!Without(gone), values, src, o)
  <2>1. \A r \in DOMAIN metric \cap gone : r.origin # o
    BY <1>1, <1>2
  <2> QED BY <2>1, <1>2, OthersGo
<1>3. OriginRows(Watch!Without(gone), "ledger") = OriginRows(metric, "ledger")
  <2>1. OriginRows(Watch!Without(gone), "ledger") = OriginRows(metric, "ledger") \ gone
    BY DEF OriginRows, Watch!Without
  <2>2. \A r \in OriginRows(metric, "ledger") : r \notin gone
    BY <1>1, SourceNames DEF OriginRows
  <2> QED BY <2>1, <2>2
<1>4. ASSUME NEW values, Holds(metric, values, s, s)
      PROVE  Holds(Watch!Without(gone), {}, s, s)
  <2>1. ASSUME NEW v \in values PROVE Watch!Row(v, s, s) \in gone
    <3>1. Watch!Row(v, s, s) \in DOMAIN metric
      BY <1>4 DEF Holds, OriginRows
    <3> QED BY <3>1, RowIs
  <2> QED BY <2>1, <1>4, RowsGo
<1> QED BY <1>2, <1>3, <1>4

LEMMA DeleteRowsKeeps == ASSUME MetricInv, NEW t \in Tasks, Watch!DeleteRows(t) PROVE MetricInv'
<1>1. PICK s \in Sources :
        /\ metric' = Watch!Without({r \in DOMAIN metric : r.source = s})
        /\ stored' = [stored EXCEPT ![s] = {}]
        /\ job' = [u \in Tasks |->
             IF u = t THEN [Watch!At("drop", s) EXCEPT !.alone = TRUE]
             ELSE [job[u] EXCEPT !.alone = @ /\ job[u].of # s]]
  BY DEF Watch!DeleteRows
<1>2. job[t].pc = "idle" /\ UNCHANGED <<entries, typed, torn>>
  BY DEF Watch!DeleteRows
<1>3. DOMAIN job = Tasks /\ DOMAIN stored = Sources
  BY DEF MetricInv, TaskInv
<1> DEFINE gone == {r \in DOMAIN metric : r.source = s}
           next == [Watch!At("drop", s) EXCEPT !.alone = TRUE]
<1>4. /\ DOMAIN next = TaskFields /\ next.pc = "drop" /\ next.of = s /\ next.queue = {}
      /\ next.keys = {} /\ next.values = {} /\ next.alone = TRUE
  <2> DEFINE began == Watch!At("drop", s)
  <2>1. /\ DOMAIN began = TaskFields /\ began.pc = "drop" /\ began.of = s /\ began.queue = {}
        /\ began.keys = {} /\ began.values = {}
    BY Begun
  <2> HIDE DEF began
  <2>2. next = [began EXCEPT !.alone = TRUE]
    BY DEF began
  <2> QED BY <2>1, <2>2 DEF TaskFields
<1> HIDE DEF next
<1>5. TaskFine(next)
  BY <1>4 DEF TaskFine, SyncStages, LedgerStages
<1>6. /\ DOMAIN job' = Tasks /\ job'[t] = next
      /\ \A u \in Tasks \ {t} : Sees(job'[u], job[u]) /\ (job'[u].alone => job[u].of # s)
  <2>1. Writes(t, next, s)
    BY <1>1 DEF Writes, next
  <2> QED BY <2>1, Written
<1>7. /\ metric' = Watch!Without(gone)
      /\ DOMAIN stored' = Sources /\ stored'[s] = {} /\ \A q \in Sources \ {s} : stored'[q] = stored[q]
  BY <1>1, <1>3
<1>8. /\ \A values, src, o : o # s /\ Holds(metric, values, src, o) => Holds(metric', values, src, o)
      /\ OriginRows(metric', "ledger") = OriginRows(metric, "ledger")
      /\ \A values : Holds(metric, values, s, s) => Holds(metric', {}, s, s)
  BY <1>7, OwnRowsGo
<1> HIDE DEF gone
<1>9. TaskInv'
  <2>1. DerivesWell(job[t])' /\ DropsWell(job[t])' /\ TaskFine(job[t])'
    BY <1>4, <1>5, <1>6, <1>7 DEF DerivesWell, DropsWell, LedgerStages
  <2>2. \A u \in Tasks \ {t} : job'[u].alone /\ job[u].of = "ledger" =>
          /\ entries' = entries
          /\ OriginRows(metric, "ledger") = {} => OriginRows(metric', "ledger") = {}
    BY <1>2, <1>8
  <2>3. \A u \in Tasks \ {t}, q \in Sources :
          job'[u].alone /\ job[u].of = q /\ stored[q] = {} => stored'[q] = {}
    BY <1>7
  <2> QED BY <1>6, <1>7, <2>1, <2>2, <2>3, OthersStay
<1>10. ~Inserting(job[t], s) /\ \A q : ~Inserting(job'[t], q) /\ ~Inserting(job[t], q)
  BY <1>2, <1>4, <1>6 DEF Inserting
<1>11. ASSUME NEW q \in Sources \ torn', q # s PROVE SourceFine(q)'
  <2>1. \A values : Holds(metric, values, q, q) => Holds(metric', values, q, q)
    BY <1>8, <1>11
  <2>2. q \in Sources \ torn /\ stored'[q] = stored[q]
    BY <1>2, <1>7, <1>11
  <2> QED BY <1>6, <1>10, <2>1, <2>2, SourceStays
<1>12. ASSUME s \in Sources \ torn' PROVE SourceFine(s)'
  <2>1. ASSUME \A u \in Tasks : ~Inserting(job'[u], s) PROVE Holds(metric', stored'[s], s, s)
    <3>1. \A u \in Tasks : ~Inserting(job[u], s)
      BY <1>6, <1>10, <2>1 DEF Sees, Inserting
    <3>2. Holds(metric, stored[s], s, s)
      BY <3>1, <1>2, <1>12 DEF MetricInv, SourceInv
    <3> QED BY <3>2, <1>7, <1>8
  <2>2. ASSUME NEW u \in Tasks, Inserting(job'[u], s), job'[u].alone PROVE FALSE
    BY <2>2, <1>6, <1>10 DEF Sees, Inserting
  <2> QED BY <2>1, <2>2 DEF SourceFine
<1>13. SourceInv'
  BY <1>11, <1>12 DEF SourceInv, SourceFine
<1>14. OriginInv'
  BY <1>7, OriginsLeft DEF MetricInv
<1>15. TypedInv' /\ LedgerInv'
  <2>1. s # "typed" /\ s # "ledger"
    BY SourceNames
  <2> QED BY <2>1, <1>2, <1>8 DEF MetricInv, TypedInv, LedgerInv
<1> QED BY <1>9, <1>13, <1>14, <1>15 DEF MetricInv

LEMMA DropSourceKeeps == ASSUME MetricInv, NEW t \in Tasks, Watch!DropSource(t) PROVE MetricInv'
<1>1. job[t].pc = "drop" /\ UNCHANGED <<entries, stored, typed>>
  BY DEF Watch!DropSource
<1>2. DOMAIN job = Tasks /\ DOMAIN stored = Sources /\ TaskFine(job[t]) /\ DropsWell(job[t])
  BY DEF MetricInv, TaskInv
<1>3. PICK s \in Sources : s = job[t].of
  BY <1>1, <1>2 DEF TaskFine, SyncStages
<1> DEFINE own == {r \in DOMAIN metric : r.source = s}
           Nulled(r) == [r EXCEPT !.source = None]
           freed == [q \in {Nulled(r) : r \in own} |-> metric[[q EXCEPT !.source = s]]]
           rest == Watch!Without(own)
<1>4. /\ metric' = Watch!(+)(rest, freed)
      /\ torn' = Watch!Spoilt(t) /\ Watch!Write(t, Watch!Idle)
  BY <1>3 DEF Watch!DropSource
<1>5. /\ DOMAIN job' = Tasks /\ job'[t] = Watch!Idle
      /\ \A u \in Tasks \ {t} : Sees(job'[u], job[u]) /\ (job'[u].alone => job[u].of # s)
  <2>1. Writes(t, Watch!Idle, job[t].of)
    BY <1>4 DEF Watch!Write, Writes
  <2> QED BY <2>1, <1>3, Written
<1>6. torn \subseteq torn' /\ (~job[t].alone => s \in torn') /\ (job[t].alone => torn' = torn)
  BY <1>3, <1>4 DEF Watch!Spoilt
<1>7. DOMAIN freed = {Nulled(r) : r \in own} /\ DOMAIN rest = DOMAIN metric \ own
  BY DEF Watch!Without
<1>8. ASSUME NEW r \in own
      PROVE  /\ DOMAIN Nulled(r) = RowFields /\ Nulled(r).source = None
             /\ Nulled(r).origin = s /\ Nulled(r).key = r.key
  <2>1. DOMAIN r = RowFields /\ r.origin = s
    BY DEF MetricInv, OriginInv
  <2> QED BY <2>1 DEF RowFields
<1>9. /\ \A values, src, o : o # s /\ Holds(metric, values, src, o) => Holds(rest, values, src, o)
      /\ OriginRows(rest, "ledger") = OriginRows(metric, "ledger")
  BY OwnRowsGo
<1>10. \A r \in DOMAIN freed : r.origin = s
  BY <1>7, <1>8
<1>11. DOMAIN metric' = DOMAIN rest \cup DOMAIN freed
  BY <1>4 DEF Watch!(+)
<1>12. OriginInv'
  <2>1. ASSUME NEW r \in DOMAIN metric'
        PROVE  /\ DOMAIN r = RowFields
               /\ r.source \in Sources => r.origin = r.source
               /\ r.origin \in Sources => r.source \in {r.origin, None}
               /\ r.origin = "ledger" => r.key \in Derived
    <3>1. CASE r \in DOMAIN metric
      BY <3>1 DEF MetricInv, OriginInv
    <3>2. CASE r \in DOMAIN freed
      <4>1. PICK q \in own : r = Nulled(q)
        BY <3>2, <1>7
      <4>2. DOMAIN r = RowFields /\ r.source = None /\ r.origin = s
        BY <4>1, <1>8
      <4> QED BY <4>2, SourceNames
    <3> QED BY <3>1, <3>2, <1>7, <1>11
  <2> QED BY <2>1 DEF OriginInv
<1>13. ASSUME s \notin torn', Holds(metric, stored[s], s, s)
       PROVE  Holds(metric', stored'[s], s, s)
  <2>1. stored[s] = {}
    BY <1>1, <1>2, <1>3, <1>6, <1>13 DEF DropsWell
  <2>2. OriginRows(metric, s) = {}
    BY <2>1, <1>13 DEF Holds
  <2>3. own = {}
    BY <2>2 DEF MetricInv, OriginInv, OriginRows
  <2>4. OriginRows(metric', s) = {}
    BY <2>2, <2>3, <1>7, <1>11 DEF OriginRows
  <2> QED BY <2>1, <2>4, <1>1 DEF Holds
<1> HIDE DEF own, freed, rest
<1>14. ASSUME NEW values, NEW src, NEW o, o # s, Holds(metric, values, src, o)
       PROVE  Holds(metric', values, src, o)
  <2>1. Holds(rest, values, src, o) /\ \A r \in DOMAIN freed : r.origin # o
    BY <1>9, <1>10, <1>14
  <2>2. Holds(Watch!(+)(rest, freed), values, src, o)
    BY <2>1, OthersCome
  <2> QED BY <2>2, <1>4
<1>15. TaskInv'
  <2>1. DerivesWell(job[t])' /\ DropsWell(job[t])' /\ TaskFine(job[t])'
    BY <1>5, IdleFine DEF DropsWell
  <2>2. OriginRows(metric', "ledger") = OriginRows(metric, "ledger")
    BY <1>9, <1>10, <1>11, SourceNames DEF OriginRows
  <2>3. \A u \in Tasks \ {t} : job'[u].alone /\ job[u].of = "ledger" =>
          /\ entries' = entries
          /\ OriginRows(metric, "ledger") = {} => OriginRows(metric', "ledger") = {}
    BY <2>2, <1>1
  <2>4. \A u \in Tasks \ {t}, q \in Sources :
          job'[u].alone /\ job[u].of = q /\ stored[q] = {} => stored'[q] = {}
    BY <1>1
  <2>5. DOMAIN stored' = Sources
    BY <1>1, <1>2
  <2> QED BY <1>5, <2>1, <2>3, <2>4, <2>5, OthersStay
<1>16. \A q : ~Inserting(job'[t], q) /\ ~Inserting(job[t], q)
  BY <1>1, <1>5, IdleFine DEF Inserting
<1>17. ASSUME NEW q \in Sources \ torn', q # s PROVE SourceFine(q)'
  <2>1. \A values : Holds(metric, values, q, q) => Holds(metric', values, q, q)
    BY <1>14, <1>17
  <2>2. q \in Sources \ torn /\ stored'[q] = stored[q]
    BY <1>1, <1>6, <1>17
  <2> QED BY <1>5, <1>16, <2>1, <2>2, SourceStays
<1>18. ASSUME s \in Sources \ torn' PROVE SourceFine(s)'
  <2>1. ASSUME \A u \in Tasks : ~Inserting(job'[u], s) PROVE Holds(metric', stored'[s], s, s)
    <3>1. \A u \in Tasks : ~Inserting(job[u], s)
      BY <1>5, <1>16, <2>1 DEF Sees, Inserting
    <3>2. Holds(metric, stored[s], s, s)
      BY <3>1, <1>6, <1>18 DEF MetricInv, SourceInv
    <3> QED BY <3>2, <1>13, <1>18
  <2>2. ASSUME NEW u \in Tasks, Inserting(job'[u], s), job'[u].alone PROVE FALSE
    BY <2>2, <1>5, <1>16 DEF Sees, Inserting
  <2> QED BY <2>1, <2>2 DEF SourceFine
<1>19. SourceInv'
  BY <1>17, <1>18 DEF SourceInv, SourceFine
<1>20. TypedInv' /\ LedgerInv'
  <2>1. s # "typed" /\ s # "ledger"
    BY SourceNames
  <2>2. "ledger" \in torn => "ledger" \in torn'
    BY <1>6
  <2> QED BY <2>1, <2>2, <1>1, <1>14 DEF MetricInv, TypedInv, LedgerInv
<1> QED BY <1>12, <1>15, <1>19, <1>20 DEF MetricInv

LEMMA ImportKeeps == ASSUME MetricInv, NEW t \in Tasks, Watch!Import(t) PROVE MetricInv'
<1> DEFINE next == Watch!At("range", "ledger")
<1>1. /\ job[t].pc = "idle" /\ torn' = torn \cup {"ledger"} /\ UNCHANGED <<metric, stored, typed>>
      /\ Writes(t, next, "ledger")
  BY DEF Watch!Import, Writes
<1>2. /\ DOMAIN next = TaskFields /\ next.pc = "range" /\ next.of = "ledger" /\ next.queue = {}
      /\ next.alone = FALSE
  BY Begun
<1> HIDE DEF next
<1>3. TaskFine(next)
  BY <1>2 DEF TaskFine, SyncStages, LedgerStages
<1>4. /\ DOMAIN job' = Tasks /\ job'[t] = next
      /\ \A u \in Tasks \ {t} : Sees(job'[u], job[u]) /\ (job'[u].alone => job[u].of # "ledger")
  BY <1>1, Written
<1>5. TaskInv'
  <2>1. DerivesWell(job[t])' /\ DropsWell(job[t])' /\ TaskFine(job[t])'
    BY <1>2, <1>3, <1>4 DEF DerivesWell, DropsWell
  <2>2. DOMAIN stored' = Sources
    BY <1>1 DEF MetricInv, TaskInv
  <2>3. \A u \in Tasks \ {t} : job'[u].alone /\ job[u].of = "ledger" =>
          /\ entries' = entries
          /\ OriginRows(metric, "ledger") = {} => OriginRows(metric', "ledger") = {}
    BY <1>4
  <2>4. \A u \in Tasks \ {t}, q \in Sources :
          job'[u].alone /\ job[u].of = q /\ stored[q] = {} => stored'[q] = {}
    BY <1>1
  <2> QED BY <1>4, <2>1, <2>2, <2>3, <2>4, OthersStay
<1>6. ASSUME NEW q \in Sources \ torn' PROVE SourceFine(q)'
  <2>1. ~Inserting(job'[t], q) /\ ~Inserting(job[t], q)
    BY <1>1, <1>2, <1>4 DEF Inserting
  <2>2. \A values : Holds(metric, values, q, q) => Holds(metric', values, q, q)
    BY <1>1
  <2>3. q \in Sources \ torn /\ stored'[q] = stored[q]
    BY <1>1
  <2> QED BY <1>4, <2>1, <2>2, <2>3, SourceStays
<1>7. SourceInv'
  BY <1>6 DEF SourceInv, SourceFine
<1>8. (OriginInv /\ TypedInv)'
  BY <1>1 DEF MetricInv, OriginInv, TypedInv
<1>9. LedgerInv'
  <2>1. PICK p \in Watch!Periods : entries' = [entries EXCEPT ![p] = @ + 1]
    BY DEF Watch!Import
  <2>2. entries \in [Watch!Periods -> Nat]
    BY DEF MetricInv, LedgerInv
  <2>3. entries' \in [Watch!Periods -> Nat]
    BY <2>1, <2>2
  <2> QED BY <2>3, <1>1 DEF LedgerInv
<1> QED BY <1>5, <1>7, <1>8, <1>9 DEF MetricInv

LEMMA ClearDerivedKeeps == ASSUME MetricInv, NEW t \in Tasks, Watch!ClearDerived(t) PROVE MetricInv'
<1> DEFINE gone == {r \in DOMAIN metric : r.key \in Derived}
           next == [job[t] EXCEPT !.pc = "derive"]
<1>1. /\ job[t].pc = "clear" /\ torn' = torn \cup {"ledger"} /\ UNCHANGED entries
      /\ metric' = Watch!Without(gone)
      /\ stored' = [s \in Sources |-> Watch!NotDerived(stored[s])]
      /\ typed' = Watch!NotDerived(typed)
      /\ Watch!Write(t, next)
  BY DEF Watch!ClearDerived
<1>2. DOMAIN job = Tasks /\ DOMAIN stored = Sources /\ TaskFine(job[t]) /\ DerivesWell(job[t])
  BY DEF MetricInv, TaskInv
<1>3. /\ DOMAIN job[t] = TaskFields /\ job[t].of = "ledger" /\ job[t].queue \subseteq Sources
      /\ job[t].alone \in BOOLEAN /\ \A v \in job[t].values : v.key \in Derived
  BY <1>1, <1>2 DEF TaskFine, LedgerStages
<1>4. /\ DOMAIN next = TaskFields /\ next.pc = "derive" /\ next.of = "ledger"
      /\ next.queue = job[t].queue /\ next.values = job[t].values /\ next.window = job[t].window
      /\ next.alone = job[t].alone
  BY <1>3 DEF TaskFields
<1> HIDE DEF next, gone
<1>5. TaskFine(next)
  BY <1>3, <1>4 DEF TaskFine, SyncStages, LedgerStages
<1>6. /\ DOMAIN job' = Tasks /\ job'[t] = next
      /\ \A u \in Tasks \ {t} : Sees(job'[u], job[u]) /\ (job'[u].alone => job[u].of # "ledger")
  <2>1. Writes(t, next, job[t].of)
    BY <1>1 DEF Watch!Write, Writes
  <2> QED BY <2>1, <1>3, Written
<1>7. ASSUME NEW values, NEW src, NEW o, Holds(metric, values, src, o)
      PROVE  Holds(metric', Watch!NotDerived(values), src, o)
  <2>1. ASSUME NEW v \in values
        PROVE  v \in Watch!NotDerived(values) <=> Watch!Row(v, src, o) \notin gone
    <3>1. Watch!Row(v, src, o) \in DOMAIN metric
      BY <1>7 DEF Holds, OriginRows
    <3>2. Watch!Row(v, src, o).key = v.key
      BY RowIs
    <3> QED BY <3>1, <3>2 DEF gone, Watch!NotDerived
  <2>2. Watch!NotDerived(values) \subseteq values
    BY DEF Watch!NotDerived
  <2>3. Holds(Watch!Without(gone), Watch!NotDerived(values), src, o)
    BY <2>1, <2>2, <1>7, RowsGo
  <2> QED BY <2>3, <1>1
<1>8. OriginRows(metric', "ledger") = {}
  <2>1. DOMAIN metric' = DOMAIN metric \ gone
    BY <1>1 DEF Watch!Without
  <2> QED BY <2>1 DEF OriginRows, gone, MetricInv, OriginInv
<1>9. DOMAIN stored' = Sources /\ \A q \in Sources : stored'[q] = Watch!NotDerived(stored[q])
  BY <1>1
<1>10. TaskInv'
  <2>1. DerivesWell(job[t])' /\ DropsWell(job[t])' /\ TaskFine(job[t])'
    <3>1. DerivesWell(job[t])'
      BY <1>1, <1>2, <1>4, <1>6, <1>8 DEF DerivesWell, LedgerStages
    <3> QED BY <3>1, <1>4, <1>5, <1>6 DEF DropsWell
  <2>2. \A u \in Tasks \ {t} : job'[u].alone /\ job[u].of = "ledger" =>
          /\ entries' = entries
          /\ OriginRows(metric, "ledger") = {} => OriginRows(metric', "ledger") = {}
    BY <1>6
  <2>3. \A u \in Tasks \ {t}, q \in Sources :
          job'[u].alone /\ job[u].of = q /\ stored[q] = {} => stored'[q] = {}
    BY <1>9 DEF Watch!NotDerived
  <2> QED BY <1>6, <1>9, <2>1, <2>2, <2>3, OthersStay
<1>11. ASSUME NEW q \in Sources \ torn' PROVE SourceFine(q)'
  <2>1. \A u \in Tasks : Inserting(job'[u], q) <=> Inserting(job[u], q)
    BY <1>1, <1>4, <1>6 DEF Inserting, Sees
  <2>2. \A u \in Tasks : Inserting(job'[u], q) => Sees(job'[u], job[u])
    BY <1>4, <1>6 DEF Inserting
  <2>3. Holds(metric, stored[q], q, q) => Holds(metric', stored'[q], q, q)
    BY <1>7, <1>9
  <2>4. ASSUME NEW new, NEW k, Holds(metric, Outside(stored[q], new, k), q, q)
        PROVE  Holds(metric', Outside(stored'[q], new, k), q, q)
    <3>1. Outside(stored'[q], new, k) = Watch!NotDerived(Outside(stored[q], new, k))
      BY <1>9 DEF Outside, Watch!NotDerived
    <3> QED BY <3>1, <2>4, <1>7
  <2>5. q \in Sources \ torn
    BY <1>1
  <2> QED BY <2>1, <2>2, <2>3, <2>4, <2>5, SourceMoves
<1>12. SourceInv'
  BY <1>11 DEF SourceInv, SourceFine
<1>13. OriginInv'
  BY <1>1, OriginsLeft DEF MetricInv
<1>14. TypedInv'
  BY <1>1, <1>7 DEF MetricInv, TypedInv, Watch!NotDerived
<1>15. LedgerInv'
  BY <1>1 DEF MetricInv, LedgerInv
<1> QED BY <1>10, <1>12, <1>13, <1>14, <1>15 DEF MetricInv

LEMMA InsertDerivedKeeps == ASSUME MetricInv, NEW t \in Tasks, Watch!InsertDerived(t) PROVE MetricInv'
<1> DEFINE values == job[t].values
           more == Watch!Rows(values, None, "ledger")
<1>1. /\ job[t].pc = "derive" /\ UNCHANGED <<entries, stored, typed>>
      /\ metric' = Watch!(+)(metric, more)
      /\ torn' = Watch!Spoilt(t) \ (IF job[t].alone THEN {"ledger"} ELSE {})
      /\ Watch!Write(t, Watch!Idle)
  BY DEF Watch!InsertDerived
<1>2. DOMAIN job = Tasks /\ DOMAIN stored = Sources /\ TaskFine(job[t]) /\ DerivesWell(job[t])
  BY DEF MetricInv, TaskInv
<1>3. job[t].of = "ledger" /\ job[t].alone \in BOOLEAN /\ \A v \in values : v.key \in Derived
  BY <1>1, <1>2 DEF TaskFine, LedgerStages
<1>4. /\ DOMAIN job' = Tasks /\ job'[t] = Watch!Idle
      /\ \A u \in Tasks \ {t} : Sees(job'[u], job[u]) /\ (job'[u].alone => job[u].of # "ledger")
  <2>1. Writes(t, Watch!Idle, job[t].of)
    BY <1>1 DEF Watch!Write, Writes
  <2> QED BY <2>1, <1>3, Written
<1>5. /\ \A q \in Sources : q \notin torn' => q \notin torn
      /\ "ledger" \notin torn' => job[t].alone
  BY <1>1, <1>3, SourceNames DEF Watch!Spoilt
<1>6. \A r \in DOMAIN more : r.origin = "ledger"
  BY RowsOfOrigin
<1>7. ASSUME NEW kept, NEW src, NEW o, o # "ledger", Holds(metric, kept, src, o)
      PROVE  Holds(metric', kept, src, o)
  <2>1. \A r \in DOMAIN more : r.origin # o
    BY <1>6, <1>7
  <2>2. Holds(Watch!(+)(metric, more), kept, src, o)
    BY <2>1, <1>7, OthersCome
  <2> QED BY <2>2, <1>1
<1>8. TaskInv'
  <2>1. DerivesWell(job[t])' /\ DropsWell(job[t])' /\ TaskFine(job[t])'
    BY <1>4, IdleFine DEF DropsWell
  <2>2. \A u \in Tasks \ {t} : job'[u].alone /\ job[u].of = "ledger" =>
          /\ entries' = entries
          /\ OriginRows(metric, "ledger") = {} => OriginRows(metric', "ledger") = {}
    BY <1>4
  <2>3. \A u \in Tasks \ {t}, q \in Sources :
          job'[u].alone /\ job[u].of = q /\ stored[q] = {} => stored'[q] = {}
    BY <1>1
  <2>4. DOMAIN stored' = Sources
    BY <1>1, <1>2
  <2> QED BY <1>4, <2>1, <2>2, <2>3, <2>4, OthersStay
<1>9. ASSUME NEW q \in Sources \ torn' PROVE SourceFine(q)'
  <2>1. ~Inserting(job'[t], q) /\ ~Inserting(job[t], q)
    BY <1>1, <1>4, IdleFine DEF Inserting
  <2>2. \A kept : Holds(metric, kept, q, q) => Holds(metric', kept, q, q)
    BY <1>7, SourceNames
  <2>3. q \in Sources \ torn /\ stored'[q] = stored[q]
    BY <1>1, <1>5
  <2> QED BY <1>4, <2>1, <2>2, <2>3, SourceStays
<1>10. SourceInv'
  BY <1>9 DEF SourceInv, SourceFine
<1>11. OriginInv'
  BY <1>1, <1>3, OriginsCome, SourceNames DEF MetricInv
<1>12. TypedInv'
  BY <1>1, <1>7 DEF MetricInv, TypedInv
<1>13. LedgerInv'
  <2>1. ASSUME "ledger" \notin torn'
        PROVE  Holds(metric', Watch!Derivation(entries', Watch!LedgerRange(entries')), None, "ledger")
    <3>1. /\ job[t].window = Watch!LedgerRange(entries)
          /\ values = Watch!Derivation(entries, job[t].window)
          /\ OriginRows(metric, "ledger") = {}
      BY <1>1, <1>2, <1>5, <2>1 DEF DerivesWell, LedgerStages
    <3>2. Holds(metric, {}, None, "ledger")
      BY <3>1 DEF Holds
    <3> HIDE DEF values
    <3>3. Holds(Watch!(+)(metric, more), {} \cup values, None, "ledger")
      BY <3>2, RowsCome
    <3>4. {} \cup values = values
      OBVIOUS
    <3>5. Holds(metric', values, None, "ledger")
      BY <3>3, <3>4, <1>1
    <3> QED BY <3>1, <3>5, <1>1
  <2>2. entries' \in [Watch!Periods -> Nat]
    BY <1>1 DEF MetricInv, LedgerInv
  <2> QED BY <2>1, <2>2 DEF LedgerInv
<1> QED BY <1>8, <1>10, <1>11, <1>12, <1>13 DEF MetricInv

LEMMA RecordValueKeeps == ASSUME MetricInv, NEW v \in Typed, Watch!RecordValue(v) PROVE MetricInv'
<1> DEFINE more == Watch!Rows({v}, None, "typed")
<1>1. /\ v \notin typed /\ metric' = Watch!(+)(metric, more) /\ typed' = typed \cup {v}
      /\ UNCHANGED <<entries, job, stored, torn>>
  BY DEF Watch!RecordValue
<1>2. \A r \in DOMAIN more : r.origin = "typed"
  BY RowsOfOrigin
<1>3. ASSUME NEW kept, NEW src, NEW o, o # "typed", Holds(metric, kept, src, o)
      PROVE  Holds(metric', kept, src, o)
  <2>1. \A r \in DOMAIN more : r.origin # o
    BY <1>2, <1>3
  <2>2. Holds(Watch!(+)(metric, more), kept, src, o)
    BY <2>1, <1>3, OthersCome
  <2> QED BY <2>2, <1>1
<1>4. OriginRows(metric', "ledger") = OriginRows(metric, "ledger")
  <2>1. DOMAIN metric' = DOMAIN metric \cup DOMAIN more
    BY <1>1 DEF Watch!(+)
  <2> QED BY <2>1, <1>2 DEF OriginRows
<1>5. TaskInv'
  BY <1>1, <1>4 DEF MetricInv, TaskInv, DerivesWell, DropsWell
<1>6. ASSUME NEW q \in Sources \ torn' PROVE SourceFine(q)'
  <2>1. \A u \in Tasks : /\ Inserting(job'[u], q) <=> Inserting(job[u], q)
                         /\ Sees(job'[u], job[u])
    BY <1>1 DEF MetricInv, TaskInv, TaskFine, Sees
  <2>2. \A kept : Holds(metric, kept, q, q) => Holds(metric', kept, q, q)
    BY <1>3, SourceNames
  <2>3. q \in Sources \ torn /\ stored'[q] = stored[q]
    BY <1>1
  <2> QED BY <2>1, <2>2, <2>3, SourceMoves
<1>7. SourceInv'
  BY <1>6 DEF SourceInv, SourceFine
<1>8. OriginInv'
  BY <1>1, OriginsCome, SourceNames DEF MetricInv
<1>9. TypedInv'
  <2>1. \A w \in typed : Watch!Row(w, None, "typed") # Watch!Row(v, None, "typed")
    <3> SUFFICES ASSUME NEW w \in typed, Watch!Row(w, None, "typed") = Watch!Row(v, None, "typed")
                 PROVE  w = v
      BY <1>1
    <3>1. w.key = v.key /\ w.period = v.period /\ w.value = v.value
      BY RowIs
    <3>2. /\ w \in [key : Keys, period : 1..MaxPeriod, value : Int]
          /\ v \in [key : Keys, period : 1..MaxPeriod, value : Int]
      BY OfficeConstants DEF MetricInv, TypedInv, Watch!WatchConstants, Watch!MetricConstants
    <3> QED BY <3>1, <3>2
  <2>2. Holds(metric, typed, None, "typed") /\ typed \subseteq Typed
    BY DEF MetricInv, TypedInv
  <2>3. \A w \in typed, n \in {v} : Watch!Row(w, None, "typed") # Watch!Row(n, None, "typed")
    BY <2>1
  <2>4. Holds(Watch!(+)(metric, more), typed \cup {v}, None, "typed")
    BY <2>2, <2>3, RowsCome
  <2> QED BY <2>2, <2>4, <1>1 DEF TypedInv
<1>10. LedgerInv'
  BY <1>1, <1>3 DEF MetricInv, LedgerInv
<1> QED BY <1>5, <1>7, <1>8, <1>9, <1>10 DEF MetricInv

LEMMA NoMetrics == ASSUME Watch!Init PROVE MetricInv
<1>1. /\ job = [t \in Tasks |-> Watch!Idle] /\ stored = [s \in Sources |-> {}] /\ typed = {}
      /\ entries = [p \in Watch!Periods |-> 0] /\ torn = {} /\ DOMAIN metric = {}
  BY DEF Watch!Init, Watch!EmptyBag, Watch!SetToBag
<1>2. \A src, o : Holds(metric, {}, src, o)
  BY <1>1 DEF Holds, OriginRows
<1>3. TaskInv
  <2>1. TaskFine(Watch!Idle) /\ DerivesWell(Watch!Idle) /\ DropsWell(Watch!Idle)
    BY Begun, IdleFine DEF DerivesWell, DropsWell
  <2> QED BY <2>1, <1>1 DEF TaskInv
<1>4. OriginInv /\ TypedInv
  BY <1>1, <1>2 DEF OriginInv, TypedInv
<1>5. SourceInv
  <2>1. \A t \in Tasks, s \in Sources : ~Inserting(job[t], s)
    BY <1>1, IdleFine DEF Inserting
  <2> QED BY <2>1, <1>1, <1>2 DEF SourceInv
<1>6. LedgerInv
  <2>1. Watch!LedgerRange(entries) = {}
    BY <1>1 DEF Watch!LedgerRange
  <2>2. Watch!Derivation(entries, Watch!LedgerRange(entries)) = {}
    BY <2>1 DEF Watch!Derivation
  <2> QED BY <2>2, <1>1, <1>2 DEF LedgerInv
<1> QED BY <1>3, <1>4, <1>5, <1>6 DEF MetricInv

LEMMA MetricsKeep == ASSUME MetricInv, Watch!MetricNext PROVE MetricInv'
<1>1. ASSUME NEW t \in Tasks, Watch!Syncing(t) PROVE MetricInv'
  BY <1>1, StartSyncKeeps, StartCronKeeps, FetchKeeps, ReadDefinitionsKeeps, InsertDefinitionsKeeps,
     DeleteWindowKeeps, InsertWindowKeeps, StatementFailsKeeps, ReportKeeps DEF Watch!Syncing
<1>2. ASSUME NEW t \in Tasks, Watch!Deriving(t) PROVE MetricInv'
  BY <1>2, ImportKeeps, ReadRangeKeeps, ReadSumsKeeps, UpsertKeeps, ClearDerivedKeeps, InsertDerivedKeeps
     DEF Watch!Deriving
<1>3. ASSUME NEW t \in Tasks, Watch!DeleteRows(t) \/ Watch!DropSource(t) \/ Watch!TaskDies(t)
      PROVE  MetricInv'
  BY <1>3, DeleteRowsKeeps, DropSourceKeeps, TaskDiesKeeps
<1>4. ASSUME NEW v \in Typed, Watch!RecordValue(v) PROVE MetricInv'
  BY <1>4, RecordValueKeeps
<1> QED BY <1>1, <1>2, <1>3, <1>4 DEF Watch!MetricNext

LEMMA MetricsRest ==
  ASSUME MetricInv, UNCHANGED <<metric, entries, job, stored, typed, torn>> PROVE MetricInv'
<1>1. TaskInv' /\ OriginInv' /\ TypedInv' /\ LedgerInv'
  BY DEF MetricInv, TaskInv, DerivesWell, DropsWell, OriginInv, TypedInv, LedgerInv
<1>2. SourceInv'
  BY DEF MetricInv, SourceInv, Opened
<1> QED BY <1>1, <1>2 DEF MetricInv

LEMMA RowsStaySound == ASSUME MetricInv PROVE Watch!RowsAreSound
<1>1. \A values, src, o : Holds(metric, values, src, o) => Watch!Exactly(values, src, o)
  BY DEF Holds, OriginRows, Watch!Exactly
<1>2. ASSUME NEW s \in Sources \ torn PROVE Watch!Replacing(s) \/ Watch!Exactly(stored[s], s, s)
  BY <1>1 DEF MetricInv, SourceInv, Inserting, Watch!Replacing
<1>3. Watch!Exactly(typed, None, "typed")
  BY <1>1 DEF MetricInv, TypedInv
<1>4. ASSUME "ledger" \notin torn
      PROVE  Watch!Exactly(Watch!Derivation(entries, Watch!LedgerRange(entries)), None, "ledger")
  BY <1>1, <1>4 DEF MetricInv, LedgerInv
<1>5. Watch!LedgerRange(entries) =
        {p \in Watch!Periods : \E a, b \in Watch!Periods :
           a <= p /\ p <= b /\ entries[a] > 0 /\ entries[b] > 0}
  BY RangeIs DEF MetricInv, LedgerInv
<1> QED BY <1>2, <1>3, <1>4, <1>5 DEF Watch!RowsAreSound
-----------------------------------------------------------------------------
(* The watch *)

\* Another's step leaves a watch m as it was, but for alone.
Looks(n, m) ==
  /\ DOMAIN n = DOMAIN m /\ n.alone \in BOOLEAN /\ (n.alone => m.alone)
  /\ n.pc = m.pc /\ n.hits = m.hits /\ n.rule = m.rule /\ n.fresh = m.fresh

LEMMA WatchesStay ==
  ASSUME AlertInv, NEW w \in Watches, \A u \in Watches \ {w} : Looks(watch'[u], watch[u]),
         WatchFine(watch[w])',
         \A u \in Watches \ {w} : watch'[u].alone =>
           /\ watch[u].pc = "create" /\ alert[watch[u].rule].open = 0 => alert'[watch[u].rule].open = 0
           /\ watch[u].pc = "suggest" /\ suggested = 0 => suggested' = 0
  PROVE  \A u \in Watches : WatchFine(watch[u])'
<1> SUFFICES ASSUME NEW u \in Watches \ {w} PROVE WatchFine(watch[u])'
  OBVIOUS
<1>1. WatchFine(watch[u]) /\ Looks(watch'[u], watch[u])
  BY DEF AlertInv
<1> QED BY <1>1 DEF WatchFine, Looks

LEMMA HoldersStay ==
  ASSUME NEW w \in Watches, \A u \in Watches \ {w} : Looks(watch'[u], watch[u]),
         watch'[w].fresh = watch[w].fresh
  PROVE  \A r : Holders(r)' = Holders(r)
BY DEF Looks, Holders

LEMMA HoldersAreFew == \A r : IsFiniteSet(Holders(r)) /\ Cardinality(Holders(r)) \in Nat
<1>1. IsFiniteSet(Watches)
  BY OfficeConstants DEF Watch!WatchConstants, Watch!IsFiniteSet, IsFiniteSet
<1> SUFFICES ASSUME NEW r PROVE IsFiniteSet(Holders(r)) /\ Cardinality(Holders(r)) \in Nat
  OBVIOUS
<1>2. Holders(r) \subseteq Watches
  BY DEF Holders
<1>3. IsFiniteSet(Holders(r))
  BY <1>1, <1>2, FS_Subset
<1> QED BY <1>3, FS_CardinalityType

LEMMA WatchCounts == \A S : Watch!Cardinality(S) = Cardinality(S)
BY DEF Watch!Cardinality, Cardinality

\* A step that neither opens nor mails an alert.
LEMMA WatchMoves ==
  ASSUME AlertInv, NEW w \in Watches, DOMAIN watch' = Watches,
         \A u \in Watches \ {w} : Looks(watch'[u], watch[u]), WatchFine(watch[w])',
         watch'[w].fresh = watch[w].fresh,
         UNCHANGED <<alert, doubled, silent>>,
         suggested' \in Nat, suggested' > 1 => piled',
         \A u \in Watches \ {w} : watch'[u].alone /\ watch[u].pc = "suggest" /\ suggested = 0 => suggested' = 0
  PROVE  AlertInv'
<1>1. \A u \in Watches : WatchFine(watch[u])'
  BY WatchesStay
<1>2. \A r : Holders(r)' = Holders(r)
  BY HoldersStay
<1>3. ASSUME NEW r \in Rules PROVE Tally(r)'
  BY <1>2 DEF AlertInv, Tally
<1> QED BY <1>1, <1>3 DEF AlertInv

LEMMA ReadSummaryKeeps == ASSUME AlertInv, NEW w \in Watches, Watch!ReadSummary(w) PROVE AlertInv'
<1>1. PICK m : watch' = [watch EXCEPT ![w] = [Watch!Waiting EXCEPT
         !.pc = "check",
         !.hits = {r \in Rules : r.key \in defined /\ Watch!Triggered(r, m[r.key])},
         !.changed = \E k \in defined : Watch!Material(m[k])]]
  BY DEF Watch!ReadSummary
<1> DEFINE hits == {r \in Rules : r.key \in defined /\ Watch!Triggered(r, m[r.key])}
           changed == \E k \in defined : Watch!Material(m[k])
           next == [Watch!Waiting EXCEPT !.pc = "check", !.hits = hits, !.changed = changed]
<1>2. watch' = [watch EXCEPT ![w] = next]
  BY <1>1
<1>3. hits \subseteq Rules
  OBVIOUS
<1> HIDE DEF hits, changed
<1>4. /\ DOMAIN next = WatchFields /\ next.pc = "check" /\ next.hits = hits /\ next.rule = None
      /\ next.fresh = {} /\ next.alone = FALSE
  BY DEF Watch!Waiting, WatchFields
<1> HIDE DEF next
<1>5. DOMAIN watch = Watches /\ WatchFine(watch[w]) /\ watch[w].pc = "idle"
  BY DEF AlertInv, Watch!ReadSummary
<1>6. DOMAIN watch' = Watches /\ watch'[w] = next /\ \A u \in Watches \ {w} : watch'[u] = watch[u]
  BY <1>2, <1>5
<1>7. WatchFine(watch[w])'
  BY <1>3, <1>4, <1>6 DEF WatchFine
<1>8. watch'[w].fresh = watch[w].fresh
  BY <1>4, <1>5, <1>6 DEF WatchFine
<1>9. \A u \in Watches \ {w} : Looks(watch'[u], watch[u])
  BY <1>6 DEF AlertInv, WatchFine, Looks
<1>10. UNCHANGED <<alert, suggested, doubled, silent, piled>>
  BY DEF Watch!ReadSummary
<1>11. suggested' \in Nat /\ (suggested' > 1 => piled')
  BY <1>10 DEF AlertInv
<1> QED BY <1>6, <1>7, <1>8, <1>9, <1>10, <1>11, WatchMoves

LEMMA CheckOpenKeeps == ASSUME AlertInv, NEW w \in Watches, Watch!CheckOpen(w) PROVE AlertInv'
<1>1. PICK r \in watch[w].hits :
        IF Watch!HasOpenAlert(r) THEN watch' = [watch EXCEPT ![w].hits = @ \ {r}]
        ELSE watch' = [watch EXCEPT ![w].hits = @ \ {r}, ![w].rule = r, ![w].pc = "create", ![w].alone = TRUE]
  BY DEF Watch!CheckOpen
<1>2. watch[w].pc = "check" /\ UNCHANGED <<alert, suggested, doubled, silent, piled>>
  BY DEF Watch!CheckOpen
<1>3. DOMAIN watch = Watches /\ WatchFine(watch[w]) /\ DOMAIN watch[w] = WatchFields
  BY DEF AlertInv, WatchFine
<1>4. /\ DOMAIN watch' = Watches /\ \A u \in Watches \ {w} : watch'[u] = watch[u]
      /\ DOMAIN watch'[w] = WatchFields /\ watch'[w].hits = watch[w].hits \ {r}
      /\ watch'[w].fresh = watch[w].fresh
      /\ \/ /\ watch'[w].pc = "check" /\ watch'[w].rule = watch[w].rule
            /\ watch'[w].alone = watch[w].alone
         \/ /\ watch'[w].pc = "create" /\ watch'[w].rule = r /\ alert[r].open = 0
            /\ watch'[w].alone = TRUE
  <2>1. r \in Rules /\ alert[r].open \in Nat
    BY <1>3 DEF WatchFine, AlertInv
  <2>2. CASE Watch!HasOpenAlert(r)
    BY <1>1, <1>2, <1>3, <2>2 DEF WatchFields
  <2>3. CASE ~Watch!HasOpenAlert(r)
    <3>1. alert[r].open = 0
      BY <2>1, <2>3 DEF Watch!HasOpenAlert
    <3>2. watch' = [watch EXCEPT ![w].hits = @ \ {r}, ![w].rule = r, ![w].pc = "create", ![w].alone = TRUE]
      BY <1>1, <2>3
    <3> QED BY <1>3, <3>1, <3>2 DEF WatchFields
  <2> QED BY <2>2, <2>3
<1>5. WatchFine(watch[w])'
  BY <1>2, <1>3, <1>4 DEF WatchFine
<1>6. \A u \in Watches \ {w} : Looks(watch'[u], watch[u])
  BY <1>4 DEF AlertInv, WatchFine, Looks
<1>7. suggested' \in Nat /\ (suggested' > 1 => piled')
  BY <1>2 DEF AlertInv
<1> QED BY <1>2, <1>4, <1>5, <1>6, <1>7, WatchMoves

LEMMA WhoSaw ==
  ASSUME AlertInv, NEW w \in Watches, NEW stage, NEW next, Watch!Seen(w, stage, next)
  PROVE  /\ DOMAIN watch' = Watches /\ watch'[w] = next
         /\ \A u \in Watches \ {w} :
              /\ Looks(watch'[u], watch[u])
              /\ watch'[u].alone => ~(watch[u].pc = stage /\ watch[u].rule = watch[w].rule)
<1> SUFFICES ASSUME NEW u \in Watches \ {w}
             PROVE  /\ Looks(watch'[u], watch[u])
                    /\ watch'[u].alone => ~(watch[u].pc = stage /\ watch[u].rule = watch[w].rule)
  BY DEF Watch!Seen
<1> DEFINE still == watch[u].alone /\ ~(watch[u].pc = stage /\ watch[u].rule = watch[w].rule)
<1>1. watch'[u] = [watch[u] EXCEPT !.alone = still]
  BY DEF Watch!Seen
<1>2. /\ still \in BOOLEAN
      /\ still => watch[u].alone /\ ~(watch[u].pc = stage /\ watch[u].rule = watch[w].rule)
  OBVIOUS
<1> HIDE DEF still
<1>3. DOMAIN watch[u] = WatchFields
  BY DEF AlertInv, WatchFine
<1>4. /\ DOMAIN watch'[u] = WatchFields /\ watch'[u].alone = still
      /\ watch'[u].pc = watch[u].pc /\ watch'[u].hits = watch[u].hits
      /\ watch'[u].rule = watch[u].rule /\ watch'[u].fresh = watch[u].fresh
  BY <1>1, <1>3 DEF WatchFields
<1> QED BY <1>2, <1>3, <1>4 DEF Looks

LEMMA CreateAlertKeeps == ASSUME AlertInv, NEW w \in Watches, Watch!CreateAlert(w) PROVE AlertInv'
<1>1. DOMAIN watch = Watches /\ WatchFine(watch[w]) /\ watch[w].pc = "create"
  BY DEF AlertInv, Watch!CreateAlert
<1>2. PICK r \in Rules : r = watch[w].rule
  BY <1>1 DEF WatchFine
<1> DEFINE fresh == watch[w].fresh \cup {r}
           next == [watch[w] EXCEPT !.pc = "check", !.rule = None, !.fresh = fresh]
<1>3. /\ alert' = [alert EXCEPT ![r].open = @ + 1]
      /\ doubled' = IF watch[w].alone THEN doubled ELSE doubled \cup {r}
      /\ Watch!Seen(w, "create", next)
      /\ UNCHANGED <<suggested, silent, piled>>
  BY <1>2 DEF Watch!CreateAlert
<1>4. /\ DOMAIN next = WatchFields /\ next.pc = "check" /\ next.rule = None /\ next.fresh = fresh
      /\ next.hits = watch[w].hits /\ next.alone = watch[w].alone
  BY <1>1 DEF WatchFine, WatchFields
<1> HIDE DEF next
<1>5. /\ DOMAIN watch' = Watches /\ watch'[w] = next
      /\ \A u \in Watches \ {w} :
           /\ Looks(watch'[u], watch[u])
           /\ watch'[u].alone => ~(watch[u].pc = "create" /\ watch[u].rule = r)
  BY <1>2, <1>3, WhoSaw
<1>6. /\ r \notin watch[w].hits /\ r \notin watch[w].fresh /\ watch[w].alone \in BOOLEAN
      /\ watch[w].alone => alert[r].open = 0
  BY <1>1, <1>2 DEF WatchFine
<1>7. /\ alert' \in [Rules -> [open : Nat, closed : Nat, mailed : Nat]]
      /\ alert'[r].open = alert[r].open + 1
      /\ alert'[r].closed = alert[r].closed /\ alert'[r].mailed = alert[r].mailed
      /\ \A q \in Rules \ {r} : alert'[q] = alert[q]
      /\ \A q \in Rules : alert[q].open \in Nat /\ alert[q].closed \in Nat /\ alert[q].mailed \in Nat
  BY <1>3 DEF AlertInv
<1>8. WatchFine(watch[w])'
  BY <1>1, <1>4, <1>5, <1>6 DEF WatchFine
<1>9. \A u \in Watches : WatchFine(watch[u])'
  <2>1. \A u \in Watches \ {w} : watch'[u].alone =>
           /\ watch[u].pc = "create" /\ alert[watch[u].rule].open = 0 => alert'[watch[u].rule].open = 0
           /\ watch[u].pc = "suggest" /\ suggested = 0 => suggested' = 0
    <3> SUFFICES ASSUME NEW u \in Watches \ {w}, watch'[u].alone, watch[u].pc = "create",
                        alert[watch[u].rule].open = 0
                 PROVE  alert'[watch[u].rule].open = 0
      BY <1>3
    <3>1. watch[u].rule \in Rules \ {r}
      BY <1>5 DEF AlertInv, WatchFine
    <3> QED BY <3>1, <1>7
  <2> QED BY <2>1, <1>5, <1>8, WatchesStay
<1>10. ASSUME NEW q \in Rules PROVE Tally(q)'
  <2>1. Tally(q)
    BY DEF AlertInv
  <2>2. CASE q = r
    <3>1. Holders(r)' = Holders(r) \cup {w} /\ w \notin Holders(r)
      BY <1>4, <1>5, <1>6 DEF Holders, Looks
    <3>2. Cardinality(Holders(r)') = Cardinality(Holders(r)) + 1
      BY <3>1, HoldersAreFew, FS_AddElement
    <3>3. alert'[r].open > 1 => r \in doubled'
      BY <1>3, <1>6, <1>7
    <3>4. Cardinality(Holders(r)) \in Nat
      BY HoldersAreFew
    <3>5. r \in silent' \/ alert'[r].open + alert'[r].closed = alert'[r].mailed + Cardinality(Holders(r)')
      BY <2>1, <2>2, <3>2, <3>4, <1>3, <1>7 DEF Tally
    <3> QED BY <2>2, <3>3, <3>5 DEF Tally
  <2>3. CASE q # r
    <3>1. Holders(q)' = Holders(q)
      BY <2>3, <1>4, <1>5 DEF Holders, Looks
    <3> QED BY <2>1, <2>3, <3>1, <1>3, <1>7 DEF Tally
  <2> QED BY <2>2, <2>3
<1> QED BY <1>3, <1>5, <1>7, <1>9, <1>10 DEF AlertInv

LEMMA ClearSuggestedKeeps == ASSUME AlertInv, NEW w \in Watches, Watch!ClearSuggested(w) PROVE AlertInv'
<1> DEFINE next == [watch[w] EXCEPT !.pc = "suggest", !.alone = TRUE]
<1>1. /\ watch[w].pc = "check" /\ suggested' = 0 /\ Watch!Seen(w, "suggest", next)
      /\ UNCHANGED <<alert, doubled, silent, piled>>
  BY DEF Watch!ClearSuggested
<1>2. WatchFine(watch[w]) /\ DOMAIN watch[w] = WatchFields
  BY DEF AlertInv, WatchFine
<1>3. /\ DOMAIN next = WatchFields /\ next.pc = "suggest" /\ next.rule = watch[w].rule
      /\ next.fresh = watch[w].fresh /\ next.hits = watch[w].hits /\ next.alone = TRUE
  BY <1>2 DEF WatchFields
<1> HIDE DEF next
<1>4. /\ DOMAIN watch' = Watches /\ watch'[w] = next
      /\ \A u \in Watches \ {w} : Looks(watch'[u], watch[u])
  BY <1>1, WhoSaw
<1>5. WatchFine(watch[w])' /\ watch'[w].fresh = watch[w].fresh
  BY <1>1, <1>2, <1>3, <1>4 DEF WatchFine
<1>6. suggested' \in Nat /\ ~(suggested' > 1)
  BY <1>1
<1> QED BY <1>1, <1>4, <1>5, <1>6, WatchMoves

LEMMA InsertSuggestedKeeps == ASSUME AlertInv, NEW w \in Watches, Watch!InsertSuggested(w) PROVE AlertInv'
<1>1. DOMAIN watch = Watches /\ WatchFine(watch[w]) /\ DOMAIN watch[w] = WatchFields /\ watch[w].pc = "suggest"
  BY DEF AlertInv, WatchFine, Watch!InsertSuggested
<1>2. UNCHANGED <<alert, doubled, silent>> /\ suggested \in Nat /\ (suggested > 1 => piled)
  BY DEF AlertInv, Watch!InsertSuggested
<1> DEFINE next == [watch[w] EXCEPT !.pc = "send"]
<1>3. /\ DOMAIN next = WatchFields /\ next.pc = "send" /\ next.rule = watch[w].rule
      /\ next.fresh = watch[w].fresh /\ next.hits = watch[w].hits /\ next.alone = watch[w].alone
  BY <1>1 DEF WatchFields
<1>4. CASE Watch!To(w, "send") /\ UNCHANGED <<suggested, piled>>
  <2>1. watch' = [watch EXCEPT ![w].pc = "send"]
    BY <1>4 DEF Watch!To
  <2>2. DOMAIN watch' = Watches /\ watch'[w] = next /\ \A u \in Watches \ {w} : watch'[u] = watch[u]
    BY <1>1, <2>1
  <2> HIDE DEF next
  <2>3. WatchFine(watch[w])' /\ watch'[w].fresh = watch[w].fresh
    BY <1>1, <1>3, <2>2 DEF WatchFine
  <2>4. \A u \in Watches \ {w} : Looks(watch'[u], watch[u])
    BY <2>2 DEF AlertInv, WatchFine, Looks
  <2>5. suggested' \in Nat /\ (suggested' > 1 => piled')
    BY <1>2, <1>4
  <2> QED BY <1>2, <1>4, <2>2, <2>3, <2>4, <2>5, WatchMoves
<1>5. CASE /\ suggested' = suggested + 1
           /\ piled' = (piled \/ ~watch[w].alone)
           /\ Watch!Seen(w, "suggest", next)
  <2> HIDE DEF next
  <2>1. /\ DOMAIN watch' = Watches /\ watch'[w] = next
        /\ \A u \in Watches \ {w} :
             /\ Looks(watch'[u], watch[u])
             /\ watch'[u].alone => ~(watch[u].pc = "suggest" /\ watch[u].rule = watch[w].rule)
    BY <1>5, WhoSaw
  <2>2. WatchFine(watch[w])' /\ watch'[w].fresh = watch[w].fresh
    BY <1>1, <1>3, <2>1 DEF WatchFine
  <2>3. \A u \in Watches \ {w} : watch'[u].alone => watch[u].pc # "suggest"
    BY <1>1, <2>1 DEF AlertInv, WatchFine
  <2>4. suggested' \in Nat
    BY <1>2, <1>5
  <2>5. ASSUME suggested' > 1 PROVE piled'
    <3>1. CASE watch[w].alone
      <4>1. suggested = 0
        BY <1>1, <3>1 DEF WatchFine
      <4> QED BY <4>1, <1>5, <2>5
    <3>2. CASE ~watch[w].alone
      BY <3>2, <1>5
    <3> QED BY <3>1, <3>2
  <2> QED BY <1>2, <2>1, <2>2, <2>3, <2>4, <2>5, WatchMoves
<1> QED BY <1>4, <1>5 DEF Watch!InsertSuggested

\* A watch that ends leaves no alert behind that was neither mailed nor given up.
LEMMA WatchEnds ==
  ASSUME AlertInv, NEW w \in Watches, watch' = [watch EXCEPT ![w] = Watch!Waiting],
         alert' \in [Rules -> [open : Nat, closed : Nat, mailed : Nat]],
         \A r \in Rules : alert'[r].open = alert[r].open /\ alert'[r].closed = alert[r].closed,
         \A r \in Rules \ watch[w].fresh : alert'[r].mailed = alert[r].mailed,
         \A r \in watch[w].fresh : r \in silent' \/ alert'[r].mailed = alert[r].mailed + 1,
         silent \subseteq silent', UNCHANGED <<suggested, doubled, piled>>
  PROVE  AlertInv'
<1>1. DOMAIN watch = Watches /\ WatchFine(watch[w])
  BY DEF AlertInv
<1>2. /\ DOMAIN watch' = Watches /\ watch'[w] = Watch!Waiting
      /\ \A u \in Watches \ {w} : watch'[u] = watch[u]
  BY <1>1
<1>3. /\ DOMAIN Watch!Waiting = WatchFields /\ Watch!Waiting.pc = "idle" /\ Watch!Waiting.hits = {}
      /\ Watch!Waiting.fresh = {} /\ Watch!Waiting.rule = None /\ Watch!Waiting.alone = FALSE
  BY DEF Watch!Waiting, WatchFields
<1>4. \A u \in Watches \ {w} : Looks(watch'[u], watch[u])
  BY <1>2 DEF AlertInv, WatchFine, Looks
<1>5. WatchFine(watch[w])'
  BY <1>2, <1>3 DEF WatchFine
<1>6. \A u \in Watches : WatchFine(watch[u])'
  <2>1. \A u \in Watches \ {w} : watch'[u].alone =>
          /\ watch[u].pc = "create" /\ alert[watch[u].rule].open = 0 => alert'[watch[u].rule].open = 0
          /\ watch[u].pc = "suggest" /\ suggested = 0 => suggested' = 0
    BY DEF AlertInv, WatchFine
  <2> QED BY <2>1, <1>4, <1>5, WatchesStay
<1>7. ASSUME NEW r \in Rules PROVE Tally(r)'
  <2>1. Tally(r) /\ alert[r].open \in Nat /\ alert[r].closed \in Nat /\ alert[r].mailed \in Nat
    BY DEF AlertInv
  <2>2. Cardinality(Holders(r)) \in Nat /\ IsFiniteSet(Holders(r))
    BY HoldersAreFew
  <2>3. CASE r \in watch[w].fresh
    <3>1. Holders(r)' = Holders(r) \ {w} /\ w \in Holders(r)
      BY <1>2, <1>3, <2>3 DEF Holders
    <3>2. Cardinality(Holders(r)') = Cardinality(Holders(r)) - 1
      BY <3>1, <2>2, FS_RemoveElement
    <3>3. ASSUME r \notin silent'
          PROVE  alert'[r].open + alert'[r].closed = alert'[r].mailed + Cardinality(Holders(r)')
      <4>1. alert[r].open + alert[r].closed = alert[r].mailed + Cardinality(Holders(r))
        BY <2>1, <3>3 DEF Tally
      <4>2. alert'[r].mailed = alert[r].mailed + 1
        BY <2>3, <3>3
      <4>3. alert'[r].open + alert'[r].closed = alert[r].open + alert[r].closed
        OBVIOUS
      <4>4. alert[r].mailed + Cardinality(Holders(r)) = (alert[r].mailed + 1) + (Cardinality(Holders(r)) - 1)
        BY <2>1, <2>2
      <4> QED BY <4>1, <4>2, <4>3, <4>4, <3>2
    <3> QED BY <2>1, <3>3 DEF Tally
  <2>4. CASE r \notin watch[w].fresh
    <3>1. Holders(r)' = Holders(r)
      BY <1>2, <1>3, <2>4 DEF Holders
    <3> QED BY <2>1, <2>4, <3>1 DEF Tally
  <2> QED BY <2>3, <2>4
<1> QED BY <1>2, <1>6, <1>7 DEF AlertInv

LEMMA SendDigestKeeps == ASSUME AlertInv, NEW w \in Watches, Watch!SendDigest(w) PROVE AlertInv'
<1>1. /\ watch' = [watch EXCEPT ![w] = Watch!Waiting] /\ UNCHANGED <<suggested, doubled, piled>>
      /\ watch[w].fresh \subseteq Rules
      /\ alert \in [Rules -> [open : Nat, closed : Nat, mailed : Nat]]
  BY DEF AlertInv, WatchFine, Watch!SendDigest
<1>2. CASE /\ alert' = [r \in Rules |-> IF r \in watch[w].fresh THEN [alert[r] EXCEPT !.mailed = @ + 1] ELSE alert[r]]
           /\ UNCHANGED silent
  <2>1. /\ alert' \in [Rules -> [open : Nat, closed : Nat, mailed : Nat]]
        /\ \A r \in Rules : alert'[r].open = alert[r].open /\ alert'[r].closed = alert[r].closed
        /\ \A r \in Rules \ watch[w].fresh : alert'[r].mailed = alert[r].mailed
        /\ \A r \in watch[w].fresh : alert'[r].mailed = alert[r].mailed + 1
    BY <1>1, <1>2
  <2> QED BY <1>1, <1>2, <2>1, WatchEnds
<1>3. CASE silent' = silent \cup watch[w].fresh /\ UNCHANGED alert
  BY <1>1, <1>3, WatchEnds
<1>4. CASE watch[w].fresh = {} /\ UNCHANGED <<alert, silent>>
  BY <1>1, <1>4, WatchEnds
<1> QED BY <1>2, <1>3, <1>4 DEF Watch!SendDigest, Watch!SomethingToReport

LEMMA WatchDiesKeeps == ASSUME AlertInv, NEW w \in Watches, Watch!WatchDies(w) PROVE AlertInv'
<1>1. /\ watch' = [watch EXCEPT ![w] = Watch!Waiting] /\ UNCHANGED <<alert, suggested, doubled, piled>>
      /\ silent' = silent \cup watch[w].fresh
  BY DEF Watch!WatchDies
<1>2. alert' \in [Rules -> [open : Nat, closed : Nat, mailed : Nat]]
  BY <1>1 DEF AlertInv
<1> QED BY <1>1, <1>2, WatchEnds

LEMMA SettleAlertKeeps == ASSUME AlertInv, NEW r \in Rules, Watch!SettleAlert(r) PROVE AlertInv'
<1>1. /\ alert[r].open > 0 /\ alert' = [alert EXCEPT ![r].open = @ - 1, ![r].closed = @ + 1]
      /\ UNCHANGED <<watch, suggested, doubled, silent, piled>>
  BY DEF Watch!SettleAlert
<1>2. alert \in [Rules -> [open : Nat, closed : Nat, mailed : Nat]]
  BY DEF AlertInv
<1>3. /\ alert' \in [Rules -> [open : Nat, closed : Nat, mailed : Nat]]
      /\ alert'[r].open = alert[r].open - 1 /\ alert'[r].closed = alert[r].closed + 1
      /\ alert'[r].mailed = alert[r].mailed
      /\ \A q \in Rules \ {r} : alert'[q] = alert[q]
  BY <1>1, <1>2
<1>4. ASSUME NEW w \in Watches PROVE WatchFine(watch[w])'
  <2>1. WatchFine(watch[w])
    BY DEF AlertInv
  <2>2. watch'[w].rule = r => ~(watch'[w].alone /\ watch'[w].pc = "create")
    BY <2>1, <1>1 DEF WatchFine
  <2> QED BY <2>1, <2>2, <1>1, <1>3 DEF WatchFine
<1>5. ASSUME NEW q \in Rules PROVE Tally(q)'
  <2>1. /\ Tally(q) /\ Cardinality(Holders(q)) \in Nat
        /\ alert[q].open \in Nat /\ alert[q].closed \in Nat /\ alert[q].mailed \in Nat
    BY <1>2, HoldersAreFew DEF AlertInv
  <2>2. Holders(q)' = Holders(q)
    BY <1>1 DEF Holders
  <2>3. alert'[q].open + alert'[q].closed = alert[q].open + alert[q].closed
        /\ alert'[q].mailed = alert[q].mailed /\ alert'[q].open <= alert[q].open
    BY <1>3, <2>1
  <2>4. alert'[q].open \in Nat
    BY <1>3
  <2> QED BY <2>1, <2>2, <2>3, <2>4, <1>1 DEF Tally
<1> QED BY <1>1, <1>3, <1>4, <1>5 DEF AlertInv

LEMMA AlertsRest ==
  ASSUME AlertInv, UNCHANGED <<watch, alert, suggested, doubled, silent, piled>> PROVE AlertInv'
<1>1. \A r : Holders(r)' = Holders(r)
  BY DEF Holders
<1> QED BY <1>1 DEF AlertInv, WatchFine, Tally

LEMMA NoAlerts == ASSUME Watch!WatchInit PROVE AlertInv
<1>1. /\ watch = [w \in Watches |-> Watch!Waiting]
      /\ alert = [r \in Rules |-> [open |-> 0, closed |-> 0, mailed |-> 0]]
      /\ suggested = 0 /\ doubled = {} /\ silent = {} /\ piled = FALSE
  BY DEF Watch!WatchInit
<1>2. \A w \in Watches : WatchFine(watch[w]) /\ watch[w].fresh = {}
  BY <1>1 DEF WatchFine, WatchFields, Watch!Waiting
<1>3. \A r \in Rules : Cardinality(Holders(r)) = 0
  <2>1. \A r \in Rules : Holders(r) = {}
    BY <1>2 DEF Holders
  <2> QED BY <2>1, FS_EmptySet
<1>4. \A r \in Rules : Tally(r)
  BY <1>1, <1>3 DEF Tally
<1> QED BY <1>1, <1>2, <1>4 DEF AlertInv

LEMMA AlertsStaySound == ASSUME AlertInv PROVE Watch!AlertsAreSound
<1>1. \A r : Watch!Cardinality({w \in Watches : r \in watch[w].fresh}) = Cardinality(Holders(r))
  BY WatchCounts DEF Holders
<1>2. ASSUME NEW r \in Rules
      PROVE  /\ alert[r].open > 1 => r \in doubled
             /\ r \in silent \/ alert[r].open + alert[r].closed =
                  alert[r].mailed + Watch!Cardinality({w \in Watches : r \in watch[w].fresh})
  <2>1. Tally(r)
    BY DEF AlertInv
  <2> QED BY <2>1, <1>1 DEF Tally
<1> QED BY <1>2 DEF Watch!AlertsAreSound, AlertInv

LEMMA WatchKeeps == ASSUME MetricInv, AlertInv, [Watch!Next]_Watch!vars PROVE MetricInv' /\ AlertInv'
<1>1. CASE Watch!MetricNext /\ UNCHANGED Watch!watchVars
  <2>1. UNCHANGED <<watch, alert, suggested, doubled, silent, piled>>
    BY <1>1 DEF Watch!watchVars
  <2> QED BY <1>1, <2>1, MetricsKeep, AlertsRest
<1>2. ASSUME NEW w \in Watches,
             \/ Watch!ReadSummary(w) \/ Watch!CheckOpen(w) \/ Watch!CreateAlert(w) \/ Watch!ClearSuggested(w)
             \/ Watch!InsertSuggested(w) \/ Watch!SendDigest(w) \/ Watch!WatchDies(w)
      PROVE  MetricInv' /\ AlertInv'
  <2>1. AlertInv'
    BY <1>2, ReadSummaryKeeps, CheckOpenKeeps, CreateAlertKeeps, ClearSuggestedKeeps,
       InsertSuggestedKeeps, SendDigestKeeps, WatchDiesKeeps
  <2>2. UNCHANGED <<metric, entries, job, stored, typed, torn>>
    BY <1>2 DEF Watch!ReadSummary, Watch!CheckOpen, Watch!CreateAlert, Watch!ClearSuggested,
       Watch!InsertSuggested, Watch!SendDigest, Watch!WatchDies, Watch!metricVars
  <2> QED BY <2>1, <2>2, MetricsRest
<1>3. ASSUME NEW r \in Rules, Watch!SettleAlert(r) PROVE MetricInv' /\ AlertInv'
  <2>1. UNCHANGED <<metric, entries, job, stored, typed, torn>>
    BY <1>3 DEF Watch!SettleAlert, Watch!metricVars
  <2> QED BY <2>1, <1>3, SettleAlertKeeps, MetricsRest
<1>4. CASE UNCHANGED Watch!vars
  <2>1. UNCHANGED <<metric, entries, job, stored, typed, torn>>
    BY <1>4 DEF Watch!vars, Watch!metricVars
  <2>2. UNCHANGED <<watch, alert, suggested, doubled, silent, piled>>
    BY <1>4 DEF Watch!vars, Watch!watchVars
  <2> QED BY <2>1, <2>2, MetricsRest, AlertsRest
<1> QED BY <1>1, <1>2, <1>3, <1>4 DEF Watch!Next

\* Whatever syncs, derivations, deletions and typed values the watch reads, and
\* however many watches run, the rows are the ones their writers last gave and
\* every alert is open once and mailed once, but for the overlaps and failures
\* that the histories name (sync.ts:46-51, watch/run.ts:42).
THEOREM WatchSound == OfficeSpec => []WatchIsSound
<1>1. OfficeInit => MetricInv /\ AlertInv
  <2>1. OfficeInit => Watch!WatchInit
    BY DEF OfficeInit
  <2>2. Watch!WatchInit => Watch!Init
    BY DEF Watch!WatchInit
  <2> QED BY <2>1, <2>2, NoMetrics, NoAlerts
<1>2. MetricInv /\ AlertInv /\ [OfficeNext]_<<AuditsVars, officeVars>> => MetricInv' /\ AlertInv'
  <2> SUFFICES ASSUME MetricInv, AlertInv, [OfficeNext]_<<AuditsVars, officeVars>>
               PROVE  MetricInv' /\ AlertInv'
    OBVIOUS
  <2>1. Watch!Next \/ UNCHANGED watchVars
    BY DEF OfficeNext, officeVars
  <2>2. [Watch!Next]_Watch!vars
    BY <2>1 DEF watchVars, Watch!vars, Watch!metricVars, Watch!watchVars
  <2> QED BY <2>2, WatchKeeps
<1>3. MetricInv /\ AlertInv => WatchIsSound
  BY RowsStaySound, AlertsStaySound DEF WatchIsSound, Watch!WatchIsSound
<1> QED BY <1>1, <1>2, <1>3, PTL DEF OfficeSpec

-----------------------------------------------------------------------------
(* The drafts: a page of the version there is shows what there is. *)

Fine(content) ==
  /\ Drafts!NoProblems(content)
  /\ content.directory \cap content.reference = {}
  /\ (content.directory \cup content.reference) \cap Common = {}

\* A page that shows the draft there is shows it as it is.
ReviewFine(p) ==
  /\ p.pc = "review" => p.shown.n <= draft.n /\ (p.shown.n = draft.n => p.shown = draft)
  /\ p.pc = "publish" => Fine(p.content) /\ ~p.other

\* A page of the version there is shows its content and offers nothing that is
\* listed; an edit of that version is checked.
EditFine(e) ==
  /\ e.pc # "idle" => 0 < e.version /\ e.version <= live.version
  /\ e.version = live.version =>
       /\ e.pc = "open" =>
            /\ e.shown = live.content
            /\ \A h \in e.offered : h \notin live.content.directory \cup live.content.reference \cup Common
       /\ e.pc \in {"dismiss", "save"} =>
            e.content = live.content \/ (Fine(e.content) /\ ~e.other)

DraftsInv ==
  /\ Drafts!TypeOK
  /\ Drafts!DraftsAreSound
  /\ \A a \in Editors : ReviewFine(review[a]) /\ EditFine(edit[a])

LEMMA BlankPages ==
  ASSUME Drafts!DraftConstants
  PROVE  /\ Drafts!Blank \in Drafts!Content
         /\ Drafts!NoDraft \in Drafts!Draft /\ Drafts!NoDraft.n = 0
         /\ Drafts!NoReview \in Drafts!ReviewRow /\ Drafts!NoReview.pc = "idle"
         /\ Drafts!NoEdit \in Drafts!EditRow /\ Drafts!NoEdit.pc = "idle"
<1>1. Drafts!Blank \in Drafts!Content
  BY DEF Drafts!Blank, Drafts!Content, Drafts!DraftConstants
<1>2. Drafts!NoDraft \in Drafts!Draft /\ Drafts!NoDraft.n = 0
  BY DEF Drafts!NoDraft, Drafts!Draft, Drafts!DraftConstants
<1>3. Drafts!NoReview \in Drafts!ReviewRow /\ Drafts!NoReview.pc = "idle"
  BY <1>1, <1>2 DEF Drafts!NoReview, Drafts!ReviewRow
<1>4. Drafts!NoEdit \in Drafts!EditRow /\ Drafts!NoEdit.pc = "idle"
  BY <1>1 DEF Drafts!NoEdit, Drafts!EditRow, Drafts!DraftConstants
<1> QED BY <1>1, <1>2, <1>3, <1>4

LEMMA DraftsBegin ==
  ASSUME Drafts!DraftConstants, Drafts!DraftsInit
  PROVE  DraftsInv
<1>1. Drafts!TypeOK
  <2>1. MaxVersion \in Nat
    BY DEF Drafts!DraftConstants
  <2>2. live \in Drafts!PanelRow
    BY <2>1, BlankPages DEF Drafts!DraftsInit, Drafts!PanelRow
  <2> QED BY <2>2, BlankPages DEF Drafts!TypeOK, Drafts!DraftsInit
<1>2. Drafts!DraftsAreSound
  BY DEF Drafts!DraftsAreSound, Drafts!DraftIsClean, Drafts!PanelIsUsable, Drafts!DraftsInit,
         Drafts!NoDraft, Drafts!TextsAreFine
<1>3. \A a \in Editors : ReviewFine(review[a]) /\ EditFine(edit[a])
  BY BlankPages DEF Drafts!DraftsInit, ReviewFine, EditFine
<1> QED BY <1>1, <1>2, <1>3 DEF DraftsInv

\* A draft is renumbered, and nothing in it would be refused.
LEMMA CleaningCleans ==
  ASSUME Drafts!DraftConstants, Drafts!TypeOK, draft.n < MaxDrafts,
         NEW output \in Outputs, NEW d \in Drafts!CleanDrafts(output)
  PROVE  /\ d \in Drafts!Draft /\ d.n = draft.n + 1
         /\ Drafts!TextsAreFine({d.questions[i] : i \in DOMAIN d.questions})
         /\ d.directory \cap d.reference = {}
         /\ (d.directory \cup d.reference) \cap Common = {}
<1> DEFINE qs == output.questions
           kept == Drafts!KeptPositions(qs)
<1>1. /\ qs \in Seq(Wordings)
      /\ output.directory \in SUBSET STRING /\ output.reference \in SUBSET STRING
  BY DEF Drafts!DraftConstants
<1>2. draft.n \in 0..MaxDrafts /\ MaxDrafts \in Nat
  BY DEF Drafts!TypeOK, Drafts!Draft, Drafts!DraftConstants
<1>3. PICK f \in Drafts!InOrder(kept) :
        d = [n |-> draft.n + 1, questions |-> [i \in DOMAIN f |-> qs[f[i]]],
             directory |-> Drafts!DirectoryOf(output), reference |-> Drafts!ReferenceOf(output)]
  BY DEF Drafts!CleanDrafts
<1>4. kept \subseteq 1..Len(qs)
  BY <1>1 DEF Drafts!KeptPositions
<1>5. Drafts!Cardinality(kept) \in Nat
  <2>1. IsFiniteSet(kept)
    <3>1. IsFiniteSet(1..Len(qs))
      BY <1>1, FS_Interval
    <3> HIDE DEF kept
    <3> QED BY <3>1, <1>4, FS_Subset
  <2>2. \A S : Drafts!Cardinality(S) = Cardinality(S)
    BY DEF Drafts!Cardinality, Cardinality
  <2>3. Drafts!Cardinality(kept) = Cardinality(kept)
    BY <2>2
  <2> QED BY <2>1, <2>3, FS_CardinalityType
<1>6. f \in [1..Drafts!Cardinality(kept) -> kept]
      /\ \A m, n \in DOMAIN f : m < n => f[m] < f[n]
  BY <1>3 DEF Drafts!InOrder
<1>7. \A i \in DOMAIN f : f[i] \in kept /\ qs[f[i]] \in Wordings
  BY <1>1, <1>4, <1>6
<1>8. d.questions \in Seq(Wordings) /\ DOMAIN d.questions = DOMAIN f
      /\ \A i \in DOMAIN f : d.questions[i] = qs[f[i]]
  <2>1. d.questions \in [1..Drafts!Cardinality(kept) -> Wordings]
    BY <1>3, <1>6, <1>7
  <2> QED BY <2>1, <1>3, <1>5, <1>6
<1>9. /\ d.directory \in SUBSET Hosts /\ d.reference \in SUBSET Hosts
      /\ d.directory \cap d.reference = {}
      /\ (d.directory \cup d.reference) \cap Common = {}
  BY <1>3 DEF Drafts!DirectoryOf, Drafts!ReferenceOf, Drafts!Bare
<1>10. d \in Drafts!Draft /\ d.n = draft.n + 1
  BY <1>2, <1>3, <1>8, <1>9 DEF Drafts!Draft
<1>11. ASSUME NEW i \in DOMAIN f, NEW j \in DOMAIN f, Key[qs[f[i]]] = Key[qs[f[j]]]
       PROVE  qs[f[i]] = qs[f[j]]
  <2>1. /\ f[i] \in 1..Len(qs) /\ f[j] \in 1..Len(qs) /\ Len(qs) \in Nat
        /\ qs[f[i]] \in Draftable /\ qs[f[j]] \in Draftable
    BY <1>1, <1>4, <1>7 DEF Drafts!KeptPositions
  <2>2. ~(f[i] < f[j])
    <3>1. f[i] < f[j] => f[i] \in 1..(f[j] - 1)
      BY <2>1
    <3> QED BY <3>1, <2>1, <1>7, <1>11 DEF Drafts!KeptPositions
  <2>3. ~(f[j] < f[i])
    <3>1. f[j] < f[i] => f[j] \in 1..(f[i] - 1)
      BY <2>1
    <3> QED BY <3>1, <2>1, <1>7, <1>11 DEF Drafts!KeptPositions
  <2> QED BY <2>1, <2>2, <2>3
<1>12. Drafts!TextsAreFine({d.questions[i] : i \in DOMAIN d.questions})
  <2>1. \A i \in DOMAIN f : qs[f[i]] \in Draftable
    BY <1>7 DEF Drafts!KeptPositions
  <2>2. Draftable \subseteq Askable
    BY DEF Drafts!DraftConstants
  <2> QED BY <1>8, <1>11, <2>1, <2>2 DEF Drafts!TextsAreFine
<1> QED BY <1>9, <1>10, <1>12

\* What a page of a and the other pages are after a step of a.
LEMMA PagesStay ==
  ASSUME DraftsInv, NEW a \in Editors,
         draft'.n \in Nat, live'.version \in Nat,
         draft'.n >= draft.n, draft'.n = draft.n => draft' = draft,
         live' = live \/ live'.version > live.version
                      \/ (live'.version = live.version /\ live'.content = live.content),
         NEW b \in Editors
  PROVE  /\ review'[b] = review[b] => ReviewFine(review[b])'
         /\ edit'[b] = edit[b] => EditFine(edit[b])'
<1>1. ReviewFine(review[b]) /\ EditFine(edit[b])
  BY DEF DraftsInv
<1>2. /\ review[b].shown.n \in Nat /\ draft.n \in Nat
      /\ edit[b].version \in Nat /\ live.version \in Nat
  <2>1. draft.n \in Nat /\ live.version \in Nat
    BY DEF DraftsInv, Drafts!TypeOK, Drafts!Draft, Drafts!PanelRow
  <2>2. review[b] \in Drafts!ReviewRow /\ edit[b] \in Drafts!EditRow
    BY DEF DraftsInv, Drafts!TypeOK
  <2>3. review[b].shown.n \in Nat
    BY <2>2 DEF Drafts!ReviewRow, Drafts!Draft
  <2>4. edit[b].version \in Nat
    BY <2>2 DEF Drafts!EditRow
  <2> QED BY <2>1, <2>3, <2>4
<1>3. ASSUME review'[b] = review[b]
      PROVE  ReviewFine(review[b])'
  BY <1>1, <1>2, <1>3 DEF ReviewFine
<1>4. ASSUME edit'[b] = edit[b]
      PROVE  EditFine(edit[b])'
  BY <1>1, <1>2, <1>4 DEF EditFine
<1> QED BY <1>3, <1>4

\* A step that only turns one page.
LEMMA ReviewTurned ==
  ASSUME DraftsInv, NEW a \in Editors, NEW p \in Drafts!ReviewRow, ReviewFine(p),
         review' = [review EXCEPT ![a] = p], UNCHANGED <<draft, live, edit, unasked>>
  PROVE  DraftsInv'
<1>1. draft.n \in Nat /\ live.version \in Nat
  BY DEF DraftsInv, Drafts!TypeOK, Drafts!Draft, Drafts!PanelRow
<1>2. Drafts!TypeOK'
  BY DEF DraftsInv, Drafts!TypeOK
<1>3. Drafts!DraftsAreSound'
  BY DEF DraftsInv, Drafts!DraftsAreSound, Drafts!DraftIsClean, Drafts!PanelIsUsable
<1>4. \A b \in Editors : review'[b] = IF b = a THEN p ELSE review[b]
  BY DEF DraftsInv, Drafts!TypeOK
<1>5. ASSUME NEW b \in Editors
      PROVE  ReviewFine(review[b])' /\ EditFine(edit[b])'
  <2>1. EditFine(edit[b])' /\ (b # a => ReviewFine(review[b])')
    BY <1>1, <1>4, PagesStay
  <2>2. b = a => ReviewFine(review[b])'
    BY <1>4 DEF ReviewFine
  <2> QED BY <2>1, <2>2
<1> QED BY <1>2, <1>3, <1>5 DEF DraftsInv

LEMMA EditTurned ==
  ASSUME DraftsInv, NEW a \in Editors, NEW e \in Drafts!EditRow, EditFine(e),
         edit' = [edit EXCEPT ![a] = e], UNCHANGED <<draft, live, review, unasked>>
  PROVE  DraftsInv'
<1>1. draft.n \in Nat /\ live.version \in Nat
  BY DEF DraftsInv, Drafts!TypeOK, Drafts!Draft, Drafts!PanelRow
<1>2. Drafts!TypeOK'
  BY DEF DraftsInv, Drafts!TypeOK
<1>3. Drafts!DraftsAreSound'
  BY DEF DraftsInv, Drafts!DraftsAreSound, Drafts!DraftIsClean, Drafts!PanelIsUsable
<1>4. \A b \in Editors : edit'[b] = IF b = a THEN e ELSE edit[b]
  BY DEF DraftsInv, Drafts!TypeOK
<1>5. ASSUME NEW b \in Editors
      PROVE  ReviewFine(review[b])' /\ EditFine(edit[b])'
  <2>1. ReviewFine(review[b])' /\ (b # a => EditFine(edit[b])')
    BY <1>1, <1>4, PagesStay
  <2>2. b = a => EditFine(edit[b])'
    BY <1>4 DEF EditFine
  <2> QED BY <2>1, <2>2
<1> QED BY <1>2, <1>3, <1>5 DEF DraftsInv

LEMMA Types ==
  ASSUME DraftsInv
  PROVE  /\ draft \in Drafts!Draft /\ live \in Drafts!PanelRow
         /\ review \in [Editors -> Drafts!ReviewRow] /\ edit \in [Editors -> Drafts!EditRow]
         /\ unasked \in BOOLEAN
BY DEF DraftsInv, Drafts!TypeOK

LEMMA AskForDraftKeeps ==
  ASSUME Drafts!DraftConstants, DraftsInv, NEW a \in Editors, Drafts!AskForDraft(a)
  PROVE  DraftsInv'
<1>1. PICK p : p = [review[a] EXCEPT !.pc = "drafting"]
  OBVIOUS
<1>2. p \in Drafts!ReviewRow /\ p.pc = "drafting"
  BY <1>1, Types DEF Drafts!ReviewRow
<1>3. review' = [review EXCEPT ![a] = p] /\ UNCHANGED <<draft, live, edit, unasked>>
  BY <1>1, Types DEF Drafts!AskForDraft
<1>4. ReviewFine(p)
  BY <1>2 DEF ReviewFine
<1> QED BY <1>2, <1>3, <1>4, ReviewTurned

LEMMA ReviewLeft ==
  ASSUME Drafts!DraftConstants, DraftsInv, NEW a \in Editors,
         Drafts!DraftFails(a) \/ Drafts!CloseReview(a)
  PROVE  DraftsInv'
<1>1. review' = [review EXCEPT ![a] = Drafts!NoReview] /\ UNCHANGED <<draft, live, edit, unasked>>
  BY DEF Drafts!DraftFails, Drafts!CloseReview
<1>2. Drafts!NoReview \in Drafts!ReviewRow /\ ReviewFine(Drafts!NoReview)
  BY BlankPages DEF ReviewFine
<1> QED BY <1>1, <1>2, ReviewTurned

LEMMA OpenReviewKeeps ==
  ASSUME Drafts!DraftConstants, DraftsInv, NEW a \in Editors, Drafts!OpenReview(a)
  PROVE  DraftsInv'
<1>1. PICK p : p = [Drafts!NoReview EXCEPT !.pc = "review", !.shown = draft]
  OBVIOUS
<1>2. p \in Drafts!ReviewRow /\ p.pc = "review" /\ p.shown = draft
  BY <1>1, BlankPages, Types DEF Drafts!ReviewRow
<1>3. review' = [review EXCEPT ![a] = p] /\ UNCHANGED <<draft, live, edit, unasked>>
  BY <1>1 DEF Drafts!OpenReview
<1>4. draft.n \in Nat
  BY Types DEF Drafts!Draft
<1>5. ReviewFine(p)
  BY <1>2, <1>4 DEF ReviewFine
<1> QED BY <1>2, <1>3, <1>5, ReviewTurned

\* What is kept on the page of the draft there is was reviewed.
LEMMA PublishBacklogDraftKeeps ==
  ASSUME Drafts!DraftConstants, DraftsInv, NEW a \in Editors, Drafts!PublishBacklogDraft(a)
  PROVE  DraftsInv'
<1> DEFINE shown == review[a].shown
<1>1. PICK name \in Names, keepQ \in SUBSET DOMAIN shown.questions,
           keepDir \in SUBSET shown.directory, keepRef \in SUBSET shown.reference :
        /\ Drafts!NoProblems(Drafts!KeptOf(draft, name, keepQ, keepDir, keepRef))
        /\ review' = [review EXCEPT ![a] =
             [Drafts!NoReview EXCEPT !.pc = "publish",
                !.content = Drafts!KeptOf(draft, name, keepQ, keepDir, keepRef),
                !.other = ~Drafts!AsReviewed(Drafts!KeptOf(draft, name, keepQ, keepDir, keepRef),
                                             Drafts!KeptOf(shown, name, keepQ, keepDir, keepRef),
                                             draft.n # shown.n)]]
  BY DEF Drafts!PublishBacklogDraft
<1>2. PICK content : content = Drafts!KeptOf(draft, name, keepQ, keepDir, keepRef)
  OBVIOUS
<1>3. PICK kept : kept = Drafts!KeptOf(shown, name, keepQ, keepDir, keepRef)
  OBVIOUS
<1>4. Drafts!AsReviewed(content, kept, draft.n # shown.n)
  <2>1. draft.n = shown.n => content = kept
    BY <1>2, <1>3 DEF DraftsInv, ReviewFine, Drafts!PublishBacklogDraft
  <2>2. content.directory \subseteq kept.directory /\ content.reference \subseteq kept.reference
    BY <1>1, <1>2, <1>3 DEF Drafts!KeptOf
  <2> QED BY <2>1, <2>2 DEF Drafts!AsReviewed
<1>5. PICK p : p = [Drafts!NoReview EXCEPT !.pc = "publish", !.content = content, !.other = FALSE]
  OBVIOUS
<1>6. review' = [review EXCEPT ![a] = p]
  BY <1>1, <1>2, <1>3, <1>4, <1>5
<1>7. content \in Drafts!Content
  BY <1>1, <1>2, Types DEF Drafts!KeptOf, Drafts!Content, Drafts!Draft
<1>8. p \in Drafts!ReviewRow /\ p.pc = "publish" /\ p.content = content /\ ~p.other
  BY <1>5, <1>7, BlankPages DEF Drafts!ReviewRow
<1>9. Fine(content)
  BY <1>1, <1>2 DEF Fine, Drafts!KeptOf, DraftsInv, Drafts!DraftsAreSound, Drafts!DraftIsClean
<1>10. ReviewFine(p)
  BY <1>8, <1>9 DEF ReviewFine
<1> QED BY <1>6, <1>8, <1>10, ReviewTurned DEF Drafts!PublishBacklogDraft

LEMMA SaveBacklogDraftKeeps ==
  ASSUME Drafts!DraftConstants, DraftsInv, NEW a \in Editors, Drafts!SaveBacklogDraft(a)
  PROVE  DraftsInv'
<1>1. PICK output \in Outputs : \E d \in Drafts!CleanDrafts(output) :
        draft' = IF Drafts!Len(d.questions) >= MinDraft THEN d ELSE draft
  BY DEF Drafts!SaveBacklogDraft
<1>2. PICK d \in Drafts!CleanDrafts(output) : draft' = d \/ draft' = draft
  BY <1>1
<1>3. /\ draft.n < MaxDrafts /\ review' = [review EXCEPT ![a] = Drafts!NoReview]
      /\ UNCHANGED <<live, edit, unasked>>
  BY DEF Drafts!SaveBacklogDraft
<1>4. Drafts!TypeOK
  BY DEF DraftsInv
<1>5. /\ d \in Drafts!Draft /\ d.n = draft.n + 1
      /\ Drafts!TextsAreFine({d.questions[i] : i \in DOMAIN d.questions})
      /\ d.directory \cap d.reference = {}
      /\ (d.directory \cup d.reference) \cap Common = {}
  BY <1>3, <1>4, CleaningCleans
<1>6. draft.n \in Nat /\ live.version \in Nat
  BY Types DEF Drafts!Draft, Drafts!PanelRow
<1>7. draft' \in Drafts!Draft /\ draft'.n \in Nat /\ draft'.n >= draft.n
      /\ (draft'.n = draft.n => draft' = draft)
  BY <1>2, <1>5, <1>6, Types
<1>8. Drafts!TypeOK'
  BY <1>3, <1>7, BlankPages, Types DEF Drafts!TypeOK
<1>9. Drafts!DraftIsClean'
  BY <1>2, <1>5 DEF Drafts!DraftIsClean, DraftsInv, Drafts!DraftsAreSound
<1>10. Drafts!DraftsAreSound'
  BY <1>3, <1>9 DEF DraftsInv, Drafts!DraftsAreSound, Drafts!PanelIsUsable
<1>11. \A b \in Editors : review'[b] = IF b = a THEN Drafts!NoReview ELSE review[b]
  BY <1>3, Types
<1>12. ASSUME NEW b \in Editors
       PROVE  ReviewFine(review[b])' /\ EditFine(edit[b])'
  <2>1. EditFine(edit[b])' /\ (b # a => ReviewFine(review[b])')
    BY <1>3, <1>6, <1>7, <1>11, PagesStay
  <2>2. b = a => ReviewFine(review[b])'
    BY <1>11, BlankPages DEF ReviewFine
  <2> QED BY <2>1, <2>2
<1> QED BY <1>8, <1>10, <1>12 DEF DraftsInv

LEMMA PublishBacklogPanelKeeps ==
  ASSUME Drafts!DraftConstants, DraftsInv, NEW a \in Editors, Drafts!PublishBacklogPanel(a)
  PROVE  DraftsInv'
<1>1. /\ review[a].pc = "publish" /\ review' = [review EXCEPT ![a] = Drafts!NoReview]
      /\ UNCHANGED <<draft, edit>>
  BY DEF Drafts!PublishBacklogPanel
<1>2. PICK content : content = review[a].content
  OBVIOUS
<1>3. content \in Drafts!Content /\ Fine(content) /\ ~review[a].other
  BY <1>1, <1>2, Types DEF DraftsInv, ReviewFine, Drafts!ReviewRow
<1>4. draft.n \in Nat /\ live.version \in 0..MaxVersion /\ MaxVersion \in Nat \ {0}
  BY Types DEF Drafts!Draft, Drafts!PanelRow, Drafts!DraftConstants
<1>5. \/ UNCHANGED <<live, unasked>>
      \/ /\ live.version = 0 /\ live' = [live EXCEPT !.version = 1, !.content = content]
         /\ unasked' = unasked
  BY <1>2, <1>3, Types DEF Drafts!PublishBacklogPanel
<1>6. CASE UNCHANGED <<live, unasked>>
  <2>1. Drafts!NoReview \in Drafts!ReviewRow /\ ReviewFine(Drafts!NoReview)
    BY BlankPages DEF ReviewFine
  <2> QED BY <1>1, <1>6, <2>1, ReviewTurned
<1>7. CASE /\ live.version = 0 /\ live' = [live EXCEPT !.version = 1, !.content = content]
           /\ unasked' = unasked
  <2>1. live' \in Drafts!PanelRow /\ live'.version = 1 /\ live'.content = content
    <3>1. 1 \in 0..MaxVersion
      BY <1>4
    <3> QED BY <3>1, <1>3, <1>7, Types DEF Drafts!PanelRow
  <2>2. Drafts!TypeOK'
    BY <1>1, <1>7, <2>1, BlankPages, Types DEF Drafts!TypeOK
  <2>3. Drafts!DraftsAreSound'
    BY <1>1, <1>3, <1>7, <2>1
       DEF DraftsInv, Drafts!DraftsAreSound, Drafts!DraftIsClean, Drafts!PanelIsUsable, Fine
  <2>4. \A b \in Editors : review'[b] = IF b = a THEN Drafts!NoReview ELSE review[b]
    BY <1>1, Types
  <2>5. ASSUME NEW b \in Editors
        PROVE  ReviewFine(review[b])' /\ EditFine(edit[b])'
    <3>1. EditFine(edit[b])' /\ (b # a => ReviewFine(review[b])')
      BY <1>1, <1>4, <1>7, <2>1, <2>4, PagesStay
    <3>2. b = a => ReviewFine(review[b])'
      BY <2>4, BlankPages DEF ReviewFine
    <3> QED BY <3>1, <3>2
  <2> QED BY <2>2, <2>3, <2>5 DEF DraftsInv
<1> QED BY <1>5, <1>6, <1>7

\* What is offered is not listed: every domain is within itself.
LEMMA OpenPanelKeeps ==
  ASSUME Drafts!DraftConstants, DraftsInv, NEW a \in Editors, Drafts!OpenPanel(a)
  PROVE  DraftsInv'
<1>1. PICK cited \in SUBSET Hosts :
        edit' = [edit EXCEPT ![a] = [Drafts!NoEdit EXCEPT !.pc = "open", !.version = live.version,
                   !.shown = live.content,
                   !.offered = Drafts!Suggested(cited, live.content, live.dismissed)]]
  BY DEF Drafts!OpenPanel
<1>2. PICK offered : offered = Drafts!Suggested(cited, live.content, live.dismissed)
  OBVIOUS
<1>3. PICK e : e = [Drafts!NoEdit EXCEPT !.pc = "open", !.version = live.version,
                      !.shown = live.content, !.offered = offered]
  OBVIOUS
<1>4. offered \subseteq Hosts
      /\ \A h \in offered : h \notin live.content.directory \cup live.content.reference \cup Common
  BY <1>2 DEF Drafts!Suggested, Drafts!Listed, Drafts!DraftConstants
<1>5. /\ e \in Drafts!EditRow /\ e.pc = "open" /\ e.version = live.version
      /\ e.shown = live.content /\ e.offered = offered
  BY <1>3, <1>4, BlankPages, Types DEF Drafts!EditRow, Drafts!PanelRow
<1>6. live.version \in Nat /\ live.version > 0
  BY Types DEF Drafts!PanelRow, Drafts!OpenPanel
<1>7. EditFine(e)
  BY <1>4, <1>5, <1>6 DEF EditFine
<1>8. edit' = [edit EXCEPT ![a] = e] /\ UNCHANGED <<draft, live, review, unasked>>
  BY <1>1, <1>2, <1>3 DEF Drafts!OpenPanel
<1> QED BY <1>5, <1>7, <1>8, EditTurned

LEMMA ClosePanelKeeps ==
  ASSUME Drafts!DraftConstants, DraftsInv, NEW a \in Editors, Drafts!ClosePanel(a)
  PROVE  DraftsInv'
<1>1. Drafts!NoEdit \in Drafts!EditRow /\ EditFine(Drafts!NoEdit)
  BY BlankPages DEF EditFine
<1> QED BY <1>1, EditTurned DEF Drafts!ClosePanel

\* An edit of the version there is, of what the page showed, is checked.
LEMMA CheckedKeeps ==
  ASSUME Drafts!DraftConstants, DraftsInv, NEW a \in Editors, edit[a].pc = "open",
         NEW stage \in {"dismiss", "save"}, NEW dismissed \in SUBSET Hosts,
         NEW content \in Drafts!Content, NEW wanted, Drafts!Checked(a, stage, dismissed, content, wanted),
         edit[a].version = live.version =>
           content = live.content \/ (Fine(content) /\ content = wanted),
         UNCHANGED <<draft, live, review, unasked>>
  PROVE  DraftsInv'
<1>1. PICK other \in BOOLEAN : other = (content # wanted)
  OBVIOUS
<1>2. PICK e : e = [Drafts!NoEdit EXCEPT !.pc = stage, !.version = edit[a].version,
                      !.dismissed = dismissed, !.content = content, !.other = other]
  OBVIOUS
<1>3. edit[a] \in Drafts!EditRow /\ EditFine(edit[a])
  BY Types DEF DraftsInv
<1>4. /\ e \in Drafts!EditRow /\ e.pc = stage /\ e.version = edit[a].version
      /\ e.content = content /\ e.other = other
  BY <1>2, <1>3, BlankPages DEF Drafts!EditRow
<1>5. edit' = [edit EXCEPT ![a] = e]
  BY <1>1, <1>2 DEF Drafts!Checked
<1>6. EditFine(e)
  BY <1>1, <1>3, <1>4 DEF EditFine
<1> QED BY <1>4, <1>5, <1>6, EditTurned

LEMMA ApplyPanelSuggestionsKeeps ==
  ASSUME Drafts!DraftConstants, DraftsInv, NEW a \in Editors, Drafts!ApplyPanelSuggestions(a)
  PROVE  DraftsInv'
<1>1. PICK directory \in SUBSET edit[a].offered, reference \in SUBSET edit[a].offered,
           dismissed \in SUBSET edit[a].offered, removed \in SUBSET edit[a].shown.questions :
        /\ directory \cap reference = {}
        /\ directory \cup reference \cup removed # {} =>
             Drafts!NoProblems(Drafts!ApplyPanelChanges(live.content, directory, reference, removed))
        /\ Drafts!Checked(a, "dismiss", dismissed,
             Drafts!ApplyPanelChanges(live.content, directory, reference, removed),
             Drafts!ApplyPanelChanges(edit[a].shown, directory, reference, removed))
  BY DEF Drafts!ApplyPanelSuggestions
<1>2. PICK content : content = Drafts!ApplyPanelChanges(live.content, directory, reference, removed)
  OBVIOUS
<1>3. PICK wanted : wanted = Drafts!ApplyPanelChanges(edit[a].shown, directory, reference, removed)
  OBVIOUS
<1>4. edit[a].pc = "open" /\ UNCHANGED <<draft, live, review, unasked>>
  BY DEF Drafts!ApplyPanelSuggestions
<1>5. edit[a].offered \in SUBSET Hosts /\ live.content \in Drafts!Content
  BY Types DEF Drafts!EditRow, Drafts!PanelRow
<1>6. /\ content \in Drafts!Content
      /\ content.directory = live.content.directory \cup directory
      /\ content.reference = live.content.reference \cup (reference \ directory)
  BY <1>1, <1>2, <1>5 DEF Drafts!ApplyPanelChanges, Drafts!Content
<1>7. directory \cup reference \cup removed = {} => content = live.content
  BY <1>2, <1>5 DEF Drafts!ApplyPanelChanges, Drafts!Content
<1>8. ASSUME edit[a].version = live.version
      PROVE  content = live.content \/ (Fine(content) /\ content = wanted)
  <2>1. /\ 0 < live.version /\ edit[a].shown = live.content
        /\ \A h \in edit[a].offered : h \notin live.content.directory \cup live.content.reference \cup Common
    BY <1>4, <1>8 DEF DraftsInv, EditFine
  <2>2. content = wanted
    BY <1>2, <1>3, <2>1
  <2>3. /\ live.content.directory \cap live.content.reference = {}
        /\ (live.content.directory \cup live.content.reference) \cap Common = {}
    BY <2>1 DEF DraftsInv, Drafts!DraftsAreSound, Drafts!PanelIsUsable
  <2>4. /\ content.directory \cap content.reference = {}
        /\ (content.directory \cup content.reference) \cap Common = {}
    BY <1>1, <1>6, <2>1, <2>3
  <2> QED BY <1>1, <1>2, <1>7, <2>2, <2>4 DEF Fine
<1>9. Drafts!Checked(a, "dismiss", dismissed, content, wanted) /\ dismissed \in SUBSET Hosts
  BY <1>1, <1>2, <1>3, <1>5
<1> QED BY <1>4, <1>6, <1>8, <1>9, CheckedKeeps

LEMMA RenamePanelKeeps ==
  ASSUME Drafts!DraftConstants, DraftsInv, NEW a \in Editors, Drafts!RenamePanel(a)
  PROVE  DraftsInv'
<1>1. PICK name \in Names \ {live.content.name} :
        Drafts!Checked(a, "save", {}, [live.content EXCEPT !.name = name],
                       [edit[a].shown EXCEPT !.name = name])
  BY DEF Drafts!RenamePanel
<1>2. edit[a].pc = "open" /\ UNCHANGED <<draft, live, review, unasked>>
  BY DEF Drafts!RenamePanel
<1>3. PICK content : content = [live.content EXCEPT !.name = name]
  OBVIOUS
<1>4. PICK wanted : wanted = [edit[a].shown EXCEPT !.name = name]
  OBVIOUS
<1>5. live.content \in Drafts!Content
  BY Types DEF Drafts!PanelRow
<1>6. /\ content \in Drafts!Content /\ content.questions = live.content.questions
      /\ content.directory = live.content.directory /\ content.reference = live.content.reference
  BY <1>3, <1>5 DEF Drafts!Content
<1>7. ASSUME edit[a].version = live.version
      PROVE  Fine(content) /\ content = wanted
  <2>1. 0 < live.version /\ edit[a].shown = live.content
    BY <1>2, <1>7 DEF DraftsInv, EditFine
  <2>2. Fine(live.content)
    BY <2>1 DEF DraftsInv, Drafts!DraftsAreSound, Drafts!PanelIsUsable, Fine
  <2> QED BY <1>3, <1>4, <1>6, <2>1, <2>2 DEF Fine, Drafts!NoProblems
<1>8. Drafts!Checked(a, "save", {}, content, wanted)
  BY <1>1, <1>3, <1>4
<1> QED BY <1>2, <1>6, <1>7, <1>8, CheckedKeeps

LEMMA DismissDomainsKeeps ==
  ASSUME Drafts!DraftConstants, DraftsInv, NEW a \in Editors, Drafts!DismissDomains(a)
  PROVE  DraftsInv'
<1>1. /\ edit[a].pc = "dismiss" /\ live' = [live EXCEPT !.dismissed = @ \cup edit[a].dismissed]
      /\ edit' = [edit EXCEPT ![a].pc = "save"] /\ UNCHANGED <<draft, review, unasked>>
  BY DEF Drafts!DismissDomains
<1>2. /\ live' \in Drafts!PanelRow /\ live'.version = live.version /\ live'.content = live.content
  BY <1>1, Types DEF Drafts!PanelRow, Drafts!EditRow
<1>3. PICK e : e = [edit[a] EXCEPT !.pc = "save"]
  OBVIOUS
<1>4. /\ e \in Drafts!EditRow /\ e.pc = "save" /\ e.version = edit[a].version
      /\ e.content = edit[a].content /\ e.other = edit[a].other
  BY <1>3, Types DEF Drafts!EditRow
<1>5. \A b \in Editors : edit'[b] = IF b = a THEN e ELSE edit[b]
  BY <1>1, <1>3, Types
<1>6. Drafts!TypeOK'
  <2>1. edit' \in [Editors -> Drafts!EditRow]
    BY <1>1, <1>3, <1>4, Types
  <2> QED BY <1>1, <1>2, <2>1, Types DEF Drafts!TypeOK
<1>7. Drafts!DraftsAreSound'
  BY <1>1, <1>2 DEF DraftsInv, Drafts!DraftsAreSound, Drafts!DraftIsClean, Drafts!PanelIsUsable
<1>8. draft.n \in Nat /\ live.version \in Nat
  BY Types DEF Drafts!Draft, Drafts!PanelRow
<1>9. ASSUME NEW b \in Editors
      PROVE  ReviewFine(review[b])' /\ EditFine(edit[b])'
  <2>1. ReviewFine(review[b])' /\ (b # a => EditFine(edit[b])')
    BY <1>1, <1>2, <1>5, <1>8, PagesStay
  <2>2. EditFine(edit[a])
    BY DEF DraftsInv
  <2>3. b = a => EditFine(edit[b])'
    BY <1>1, <1>2, <1>4, <1>5, <2>2 DEF EditFine
  <2> QED BY <2>1, <2>3
<1> QED BY <1>6, <1>7, <1>9 DEF DraftsInv

LEMMA SavePanelEditKeeps ==
  ASSUME Drafts!DraftConstants, DraftsInv, NEW a \in Editors, Drafts!SavePanelEdit(a)
  PROVE  DraftsInv'
<1>1. /\ edit[a].pc = "save" /\ edit' = [edit EXCEPT ![a] = Drafts!NoEdit]
      /\ UNCHANGED <<draft, review>>
  BY DEF Drafts!SavePanelEdit
<1>2. CASE UNCHANGED <<live, unasked>>
  <2>1. Drafts!NoEdit \in Drafts!EditRow /\ EditFine(Drafts!NoEdit)
    BY BlankPages DEF EditFine
  <2> QED BY <1>1, <1>2, <2>1, EditTurned
<1>3. CASE ~UNCHANGED <<live, unasked>>
  <2>1. PICK content : content = edit[a].content
    OBVIOUS
  <2>2. /\ live.version = edit[a].version /\ content # live.content /\ live.version < MaxVersion
        /\ live' = [live EXCEPT !.version = @ + 1, !.content = content]
        /\ unasked' = (unasked \/ edit[a].other)
    BY <1>3, <2>1 DEF Drafts!SavePanelEdit, Drafts!Outdated
  <2>3. EditFine(edit[a]) /\ edit[a] \in Drafts!EditRow
    BY Types DEF DraftsInv
  <2>4. content \in Drafts!Content /\ Fine(content) /\ ~edit[a].other
    BY <1>1, <2>1, <2>2, <2>3 DEF EditFine, Drafts!EditRow
  <2>5. draft.n \in Nat /\ live.version \in 0..MaxVersion /\ MaxVersion \in Nat
    BY Types DEF Drafts!Draft, Drafts!PanelRow, Drafts!DraftConstants
  <2>6. live' \in Drafts!PanelRow /\ live'.version = live.version + 1 /\ live'.content = content
    <3>1. live.version + 1 \in 0..MaxVersion
      BY <2>2, <2>5
    <3> QED BY <3>1, <2>2, <2>4, Types DEF Drafts!PanelRow
  <2>7. unasked' = unasked
    BY <2>2, <2>4, Types
  <2>8. Drafts!TypeOK'
    BY <1>1, <2>6, <2>7, BlankPages, Types DEF Drafts!TypeOK
  <2>9. Drafts!DraftsAreSound'
    BY <1>1, <2>4, <2>6, <2>7
       DEF DraftsInv, Drafts!DraftsAreSound, Drafts!DraftIsClean, Drafts!PanelIsUsable, Fine
  <2>10. \A b \in Editors : edit'[b] = IF b = a THEN Drafts!NoEdit ELSE edit[b]
    BY <1>1, Types
  <2>11. ASSUME NEW b \in Editors
         PROVE  ReviewFine(review[b])' /\ EditFine(edit[b])'
    <3>1. ReviewFine(review[b])' /\ (b # a => EditFine(edit[b])')
      BY <1>1, <2>5, <2>6, <2>10, PagesStay
    <3>2. b = a => EditFine(edit[b])'
      BY <2>5, <2>6, <2>10, BlankPages DEF EditFine, Drafts!NoEdit
    <3> QED BY <3>1, <3>2
  <2> QED BY <2>8, <2>9, <2>11 DEF DraftsInv
<1> QED BY <1>2, <1>3

LEMMA DraftsKeep ==
  ASSUME Drafts!DraftConstants, DraftsInv, Drafts!DraftsNext \/ UNCHANGED draftVars
  PROVE  DraftsInv'
<1>1. CASE Drafts!DraftsNext
  <2>1. PICK a \in Editors :
          \/ Drafts!AskForDraft(a) \/ Drafts!DraftFails(a) \/ Drafts!SaveBacklogDraft(a)
          \/ Drafts!OpenReview(a) \/ Drafts!PublishBacklogDraft(a) \/ Drafts!CloseReview(a)
          \/ Drafts!PublishBacklogPanel(a) \/ Drafts!OpenPanel(a) \/ Drafts!ClosePanel(a)
          \/ Drafts!ApplyPanelSuggestions(a) \/ Drafts!DismissDomains(a)
          \/ Drafts!RenamePanel(a) \/ Drafts!SavePanelEdit(a)
    BY <1>1 DEF Drafts!DraftsNext
  <2> QED BY <2>1, AskForDraftKeeps, ReviewLeft, SaveBacklogDraftKeeps, OpenReviewKeeps,
             PublishBacklogDraftKeeps, PublishBacklogPanelKeeps, OpenPanelKeeps, ClosePanelKeeps,
             ApplyPanelSuggestionsKeeps, DismissDomainsKeeps, RenamePanelKeeps, SavePanelEditKeeps
<1>2. CASE UNCHANGED draftVars
  BY <1>2 DEF draftVars, DraftsInv, Drafts!TypeOK, Drafts!DraftsAreSound, Drafts!DraftIsClean,
              Drafts!PanelIsUsable, ReviewFine, EditFine
<1> QED BY <1>1, <1>2

\* Nobody publishes or saves a panel without having seen and chosen what it says,
\* unless the draft was replaced between the review and the publishing
\* (actions.ts:205-210), which is excused; what is saved passes the check, and a
\* stored draft would pass it but for too few questions (panel-admin.ts:149-151,
\* panel-draft.ts:114).
THEOREM DraftsSound == OfficeSpec => []DraftsAreSound
<1>1. OfficeInit => DraftsInv
  <2>1. Drafts!DraftConstants
    BY OfficeConstants
  <2> QED BY <2>1, DraftsBegin DEF OfficeInit
<1>2. DraftsInv /\ [OfficeNext]_<<AuditsVars, officeVars>> => DraftsInv'
  <2> SUFFICES ASSUME DraftsInv, [OfficeNext]_<<AuditsVars, officeVars>>
               PROVE  DraftsInv'
    OBVIOUS
  <2>1. Drafts!DraftsNext \/ UNCHANGED draftVars
    BY DEF OfficeNext, officeVars
  <2>2. Drafts!DraftConstants
    BY OfficeConstants
  <2> QED BY <2>1, <2>2, DraftsKeep
<1>3. DraftsInv => DraftsAreSound
  BY DEF DraftsInv, DraftsAreSound
<1> QED BY <1>1, <1>2, <1>3, PTL DEF OfficeSpec
=============================================================================

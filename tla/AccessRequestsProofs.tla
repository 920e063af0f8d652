------------------------ MODULE AccessRequestsProofs ------------------------
(***************************************************************************)
(* What holds of AccessRequests for any people, requests, submissions and  *)
(* admin actions.                                                          *)
(*                                                                         *)
(* A request keeps its address from the moment it is there, so whoever     *)
(* gained the role under it stays accounted for: by the approval that is   *)
(* about to mark it, by its mark, or by cut.  And as long as removals do   *)
(* not overlap, the one under way has an actor who stays an admin.         *)
(***************************************************************************)
EXTENDS AccessRequests, TLAPS

Approving(t) == task[t].pc \in {"user", "grant", "mark"}
Removing(t) == task[t].pc = "remove"

\* A request that somebody refers to is there, and has its address.
There(r) == r \in Requests /\ request[r].status # None
RequestsHaveAddresses == \A r \in Requests : There(r) => request[r].email \in People
ReferredToAreThere ==
  /\ \A r \in cut : There(r)
  /\ \A t \in Tasks : Approving(t) => There(task[t].request) /\ ~task[t].late

\* Why p may hold the role.
Backed(p) ==
  \E r \in Requests :
    /\ There(r) /\ request[r].email = p
    /\ \/ request[r].status = "approved" \/ r \in cut
       \/ \E t \in Tasks : task[t].pc = "mark" /\ task[t].request = r

RoleInv == \A p \in Admins \ First : Backed(p)

\* One removal at a time, by an admin, of somebody else.
RemovalInv ==
  crossed \/
    /\ \A t, u \in Tasks : Removing(t) /\ Removing(u) => t = u
    /\ \A t \in Tasks : Removing(t) => task[t].actor \in Admins /\ task[t].actor # task[t].target
    /\ Admins # {}

IInv == TypeOK /\ RequestsHaveAddresses /\ ReferredToAreThere /\ RoleInv /\ RemovalInv
-----------------------------------------------------------------------------
LEMMA IdleRow == Idle \in TaskRow /\ Idle.pc = "idle"
BY DEF Idle, TaskRow

LEMMA InitHolds ==
  ASSUME AccessConstants, Init
  PROVE  IInv
<1>1. user \in [People -> {None, "customer", "admin"}]
  BY DEF Init
<1>2. Admins = First
  BY DEF Init, Admins, AccessConstants
<1>3. \A t \in Tasks : task[t].pc = "idle"
  BY DEF Init, Idle
<1>4. TypeOK
  <2>2. [email |-> None, status |-> None] \in RequestRow
    BY DEF RequestRow
  <2> QED BY <1>1, IdleRow, <2>2 DEF Init, TypeOK
<1>5. RequestsHaveAddresses /\ ReferredToAreThere
  BY <1>3 DEF Init, RequestsHaveAddresses, ReferredToAreThere, There, Approving
<1>6. RoleInv /\ RemovalInv
  BY <1>2, <1>3 DEF RoleInv, RemovalInv, Removing, AccessConstants
<1> QED BY <1>4, <1>5, <1>6 DEF IInv

\* A step that changes no request, no role and no history only has to keep
\* the approvals in order: those at "mark" stay.
LEMMA TasksMove ==
  ASSUME IInv, AccessConstants, UNCHANGED <<user, request, cut>>, TypeOK',
         \A u \in Tasks : Approving(u)' => There(task'[u].request) /\ ~task'[u].late,
         \A u \in Tasks : task[u].pc = "mark" => task'[u] = task[u]
  PROVE  RequestsHaveAddresses' /\ ReferredToAreThere' /\ RoleInv'
<1>1. \A r : There(r)' = There(r)
  BY DEF There
<1>2. RequestsHaveAddresses' /\ ReferredToAreThere'
  BY <1>1 DEF IInv, RequestsHaveAddresses, ReferredToAreThere
<1>3. \A p : Backed(p) => Backed(p)'
  BY <1>1 DEF Backed
<1>4. RoleInv'
  BY <1>3 DEF IInv, RoleInv, Admins
<1> QED BY <1>2, <1>4

LEMMA SubmitKeeps ==
  ASSUME IInv, NEW f \in Forms, NEW p \in People, Submit(f, p)
  PROVE  IInv'
<1>1. TypeOK'
  BY DEF IInv, TypeOK, Submit
<1> QED
  BY <1>1 DEF IInv, Submit, RequestsHaveAddresses, ReferredToAreThere, RoleInv, RemovalInv, Backed, There,
              Admins, Approving, Removing

LEMMA ApproveKeeps ==
  ASSUME IInv, AccessConstants, NEW t \in Tasks, NEW a \in People, NEW r \in Requests, Approve(t, a, r)
  PROVE  IInv'
<1>1. request[r].status = "pending" /\ task[t].pc = "idle"
  BY DEF Approve, Approvable
<1>2. PICK n \in TaskRow : /\ task' = [task EXCEPT ![t] = n]
                           /\ n.pc = "user" /\ n.request = r /\ n.late = FALSE
  <2> DEFINE late == request[r].status # "pending"
             n == [Idle EXCEPT !.pc = "user", !.actor = a, !.request = r, !.late = late]
  <2>1. late = FALSE
    BY <1>1
  <2>2. task' = [task EXCEPT ![t] = n]
    BY DEF Approve
  <2> HIDE DEF late
  <2>3. n \in TaskRow /\ n.pc = "user" /\ n.request = r /\ n.late = FALSE
    BY <2>1, IdleRow DEF TaskRow
  <2> QED BY <2>2, <2>3
<1>3. TypeOK'
  BY <1>2 DEF IInv, TypeOK, Approve
<1>4. There(r)
  BY <1>1 DEF There, AccessConstants
<1>5. RequestsHaveAddresses' /\ ReferredToAreThere' /\ RoleInv'
  <2>1. \A u \in Tasks : Approving(u)' => There(task'[u].request) /\ ~task'[u].late
    BY <1>2, <1>4 DEF IInv, TypeOK, ReferredToAreThere, Approving
  <2>2. \A u \in Tasks : task[u].pc = "mark" => task'[u] = task[u]
    BY <1>1, <1>2 DEF IInv, TypeOK
  <2> QED BY <1>3, <2>1, <2>2, TasksMove DEF Approve
<1>6. RemovalInv'
  BY <1>2 DEF IInv, TypeOK, RemovalInv, Removing, Admins, Approve
<1> QED BY <1>3, <1>5, <1>6 DEF IInv

\* A decision changes no address, and a request that was decided is still there.
LEMMA FindUserKeeps ==
  ASSUME IInv, AccessConstants, NEW t \in Tasks, FindUser(t)
  PROVE  IInv'
<1>1. task[t].pc = "user" /\ task[t] \in TaskRow
  BY DEF FindUser, IInv, TypeOK
<1>2. There(task[t].request) /\ ~task[t].late /\ Email(t) \in People
  BY <1>1 DEF IInv, ReferredToAreThere, RequestsHaveAddresses, Approving, There, Email
<1>3. PICK n \in TaskRow : /\ task' = [task EXCEPT ![t] = n]
                           /\ n.pc = "grant" /\ n.request = task[t].request /\ n.late = task[t].late
  <2> DEFINE found == user[Email(t)] # None
             target == IF user[Email(t)] # None THEN Email(t) ELSE None
             n == [task[t] EXCEPT !.pc = "grant", !.found = found, !.target = target]
  <2>1. found \in BOOLEAN /\ target \in People \cup {None}
    BY <1>2
  <2>2. task' = [task EXCEPT ![t] = n]
    BY DEF FindUser, IInv, TypeOK
  <2> HIDE DEF found, target
  <2>3. n \in TaskRow /\ n.pc = "grant" /\ n.request = task[t].request /\ n.late = task[t].late
    BY <1>1, <2>1 DEF TaskRow
  <2> QED BY <2>2, <2>3
<1>4. TypeOK'
  BY <1>3 DEF IInv, TypeOK, FindUser
<1>5. RequestsHaveAddresses' /\ ReferredToAreThere' /\ RoleInv'
  <2>1. \A u \in Tasks : Approving(u)' => There(task'[u].request) /\ ~task'[u].late
    BY <1>2, <1>3 DEF IInv, TypeOK, ReferredToAreThere, Approving
  <2>2. \A u \in Tasks : task[u].pc = "mark" => task'[u] = task[u]
    BY <1>1, <1>3 DEF IInv, TypeOK
  <2> QED BY <1>4, <2>1, <2>2, TasksMove DEF FindUser
<1>6. RemovalInv'
  BY <1>3 DEF IInv, TypeOK, RemovalInv, Removing, Admins, FindUser
<1> QED BY <1>4, <1>5, <1>6 DEF IInv

LEMMA RemoveAccessKeeps ==
  ASSUME IInv, AccessConstants, NEW t \in Tasks, NEW a \in People, NEW p \in People, RemoveAccess(t, a, p)
  PROVE  IInv'
<1>1. task[t].pc = "idle" /\ a \in Admins /\ p # a
  BY DEF RemoveAccess, RemovableByOther
<1>2. PICK n \in TaskRow : /\ task' = [task EXCEPT ![t] = n]
                           /\ n.pc = "remove" /\ n.actor = a /\ n.target = p
  <2> DEFINE n == [Idle EXCEPT !.pc = "remove", !.actor = a, !.target = p]
  <2>2. n \in TaskRow /\ n.pc = "remove" /\ n.actor = a /\ n.target = p
    BY IdleRow DEF TaskRow
  <2>3. task' = [task EXCEPT ![t] = n]
    BY DEF RemoveAccess
  <2> QED BY <2>2, <2>3
<1>3. TypeOK'
  BY <1>2 DEF IInv, TypeOK, RemoveAccess
<1>4. RequestsHaveAddresses' /\ ReferredToAreThere' /\ RoleInv'
  <2>1. \A u \in Tasks : Approving(u)' => There(task'[u].request) /\ ~task'[u].late
    BY <1>2 DEF IInv, TypeOK, ReferredToAreThere, Approving
  <2>2. \A u \in Tasks : task[u].pc = "mark" => task'[u] = task[u]
    BY <1>1, <1>2 DEF IInv, TypeOK
  <2> QED BY <1>3, <2>1, <2>2, TasksMove DEF RemoveAccess
<1>5. RemovalInv'
  <2>1. CASE crossed'
    BY <2>1 DEF RemovalInv
  <2>2. CASE ~crossed'
    <3>1. ~crossed /\ \A u \in Tasks : ~Removing(u)
      BY <2>2 DEF RemoveAccess, Removing
    <3>2. \A u \in Tasks : Removing(u)' => u = t
      BY <1>2, <3>1 DEF IInv, TypeOK, Removing
    <3>3. task'[t].actor \in Admins' /\ task'[t].actor # task'[t].target
      BY <1>1, <1>2 DEF IInv, TypeOK, RemoveAccess, Admins
    <3> QED BY <3>2, <3>3 DEF RemovalInv
  <2> QED BY <2>1, <2>2
<1> QED BY <1>3, <1>4, <1>5 DEF IInv

\* The end of a task that is not at "mark" takes nothing away.
LEMMA TaskEnds ==
  ASSUME IInv, AccessConstants, NEW t \in Tasks, task[t].pc # "mark",
         task' = [task EXCEPT ![t] = Idle], UNCHANGED <<user, request, form, cut, crossed>>
  PROVE  IInv'
<1>1. Idle \in TaskRow /\ Idle.pc = "idle"
  BY IdleRow
<1>2. TypeOK'
  BY <1>1 DEF IInv, TypeOK
<1>3. RequestsHaveAddresses' /\ ReferredToAreThere' /\ RoleInv'
  <2>1. \A u \in Tasks : Approving(u)' => There(task'[u].request) /\ ~task'[u].late
    BY <1>1 DEF IInv, TypeOK, ReferredToAreThere, Approving
  <2>2. \A u \in Tasks : task[u].pc = "mark" => task'[u] = task[u]
    BY DEF IInv, TypeOK
  <2> QED BY <1>2, <2>1, <2>2, TasksMove
<1>4. RemovalInv'
  BY <1>1 DEF IInv, TypeOK, RemovalInv, Removing, Admins
<1> QED BY <1>2, <1>3, <1>4 DEF IInv

LEMMA GrantKeeps ==
  ASSUME IInv, AccessConstants, NEW t \in Tasks, Grant(t)
  PROVE  IInv'
<1>1. task[t].pc = "grant" /\ task[t] \in TaskRow
  BY DEF Grant, IInv, TypeOK
<1>2. PICK r \in Requests, p \in People :
        task[t].request = r /\ Email(t) = p /\ There(r) /\ request[r].email = p /\ ~task[t].late
  BY <1>1 DEF IInv, ReferredToAreThere, RequestsHaveAddresses, Approving, There, Email
<1>3. CASE ~task[t].found /\ user[p] # None
  BY <1>1, <1>2, <1>3, TaskEnds DEF Grant
<1>4. CASE ~(~task[t].found /\ user[p] # None)
  <2>1. PICK n \in TaskRow : /\ task' = [task EXCEPT ![t] = n]
                             /\ n.pc = "mark" /\ n.request = r /\ n.late = task[t].late
    <3> DEFINE n == [task[t] EXCEPT !.pc = "mark", !.target = None]
    <3>1. n \in TaskRow /\ n.pc = "mark" /\ n.request = r /\ n.late = task[t].late
      BY <1>1, <1>2 DEF TaskRow
    <3>2. task' = [task EXCEPT ![t] = n]
      BY <1>2, <1>4 DEF Grant, IInv, TypeOK
    <3> QED BY <3>1, <3>2
  <2>2. user' = user \/ user' = [user EXCEPT ![p] = "admin"]
    BY <1>2, <1>4 DEF Grant
  <2>3. UNCHANGED <<request, form, cut, crossed>>
    BY DEF Grant
  <2>4. TypeOK'
    BY <1>2, <2>1, <2>2, <2>3 DEF IInv, TypeOK
  <2>5. Admins \subseteq Admins' /\ Admins' \subseteq Admins \cup {p}
    BY <1>2, <2>2 DEF IInv, TypeOK, Admins
  <2>6. RequestsHaveAddresses' /\ ReferredToAreThere'
    BY <1>2, <2>1, <2>3 DEF IInv, TypeOK, RequestsHaveAddresses, ReferredToAreThere, There, Approving
  <2>7. RoleInv'
    <3>1. \A u \in Tasks : task[u].pc = "mark" => task'[u] = task[u]
      BY <1>1, <2>1 DEF IInv, TypeOK
    <3>2. \A q : Backed(q) => Backed(q)'
      BY <2>3, <3>1 DEF Backed, There
    <3>3. Backed(p)'
      BY <1>2, <2>1, <2>3 DEF Backed, There, IInv, TypeOK
    <3> QED BY <2>5, <3>2, <3>3 DEF IInv, RoleInv
  <2>8. RemovalInv'
    <3>1. \A u \in Tasks : Removing(u)' => Removing(u) /\ task'[u] = task[u]
      BY <1>1, <2>1 DEF IInv, TypeOK, Removing
    <3> QED BY <2>3, <2>5, <3>1 DEF IInv, RemovalInv
  <2> QED BY <2>4, <2>6, <2>7, <2>8 DEF IInv
<1> QED BY <1>3, <1>4

\* What a step does to the requests when it changes r alone, which stays or
\* comes to be there under its address.
LEMMA RequestChanges ==
  ASSUME IInv, NEW r \in Requests, NEW n \in RequestRow, request' = [request EXCEPT ![r] = n],
         n.status # None, n.email \in People, There(r) => n.email = request[r].email
  PROVE  /\ \A q : There(q) => There(q)' /\ request'[q].email = request[q].email
         /\ RequestsHaveAddresses'
<1>1. request'[r] = n /\ \A q \in Requests \ {r} : request'[q] = request[q]
  BY DEF IInv, TypeOK
<1> QED BY <1>1 DEF IInv, There, RequestsHaveAddresses

LEMMA InsertKeeps ==
  ASSUME IInv, AccessConstants, NEW f \in Forms, Insert(f)
  PROVE  IInv'
<1>1. form[f] \in People
  BY DEF Insert, IInv, TypeOK
<1>2. PICK r \in Requests :
        /\ request[r].status = None
        /\ request' = [request EXCEPT ![r] = [email |-> form[f], status |-> "pending"]]
  BY DEF Insert
<1>3. PICK n \in RequestRow : n = [email |-> form[f], status |-> "pending"]
  BY <1>1 DEF RequestRow
<1>4. request' = [request EXCEPT ![r] = n] /\ n.status = "pending" /\ n.email = form[f]
  BY <1>2, <1>3
<1>5. UNCHANGED <<user, task, cut, crossed>> /\ TypeOK'
  BY <1>4 DEF Insert, IInv, TypeOK
<1>6. /\ \A q : There(q) => There(q)' /\ request'[q].email = request[q].email
      /\ RequestsHaveAddresses'
  BY <1>1, <1>2, <1>4, RequestChanges DEF AccessConstants, There
<1>7. ReferredToAreThere'
  BY <1>5, <1>6 DEF IInv, ReferredToAreThere, Approving
<1>8. \A q \in Requests : There(q) => request'[q] = request[q]
  BY <1>2, <1>4 DEF There, IInv, TypeOK
<1>9. RoleInv'
  <2>1. \A p : Backed(p) => Backed(p)'
    BY <1>5, <1>6, <1>8 DEF Backed
  <2> QED BY <1>5, <2>1 DEF IInv, RoleInv, Admins
<1>10. RemovalInv'
  BY <1>5 DEF IInv, RemovalInv, Removing, Admins
<1> QED BY <1>5, <1>6, <1>7, <1>9, <1>10 DEF IInv

LEMMA DeclineKeeps ==
  ASSUME IInv, AccessConstants, NEW r \in Requests, Decline(r)
  PROVE  IInv'
<1>1. request[r].status = "pending" /\ request[r] \in RequestRow /\ There(r)
  BY DEF Decline, Declinable, IInv, TypeOK, There, AccessConstants
<1>2. PICK n \in RequestRow : /\ request' = [request EXCEPT ![r] = n]
                              /\ n.status = "declined" /\ n.email = request[r].email
  <2> DEFINE n == [request[r] EXCEPT !.status = "declined"]
  <2>1. n \in RequestRow /\ n.status = "declined" /\ n.email = request[r].email
    BY <1>1 DEF RequestRow
  <2>2. request' = [request EXCEPT ![r] = n]
    BY DEF Decline
  <2> QED BY <2>1, <2>2
<1>3. UNCHANGED <<user, task, cut, crossed>> /\ TypeOK'
  BY <1>2 DEF Decline, IInv, TypeOK
<1>4. /\ \A q : There(q) => There(q)' /\ request'[q].email = request[q].email
      /\ RequestsHaveAddresses'
  <2>1. n.status # None /\ n.email \in People
    BY <1>1, <1>2 DEF AccessConstants, IInv, RequestsHaveAddresses
  <2> QED BY <1>2, <2>1, RequestChanges
<1>5. ReferredToAreThere'
  BY <1>3, <1>4 DEF IInv, ReferredToAreThere, Approving
<1>6. \A q \in Requests : request[q].status = "approved" => request'[q] = request[q]
  BY <1>1, <1>2 DEF IInv, TypeOK
<1>7. RoleInv'
  <2>1. \A p : Backed(p) => Backed(p)'
    BY <1>3, <1>4, <1>6 DEF Backed
  <2> QED BY <1>3, <2>1 DEF IInv, RoleInv, Admins
<1>8. RemovalInv'
  BY <1>3 DEF IInv, RemovalInv, Removing, Admins
<1> QED BY <1>3, <1>4, <1>5, <1>7, <1>8 DEF IInv

\* An approval that stops before it marks its request leaves it in cut.
LEMMA CutKeeps ==
  ASSUME IInv, AccessConstants, NEW t \in Tasks, task[t].pc = "mark",
         cut' = cut \cup {task[t].request}, task' = [task EXCEPT ![t] = Idle],
         UNCHANGED <<user, request, form, crossed>>
  PROVE  IInv'
<1>1. Idle \in TaskRow /\ Idle.pc = "idle"
  BY IdleRow
<1>2. There(task[t].request)
  BY DEF IInv, ReferredToAreThere, Approving
<1>3. TypeOK'
  BY <1>1, <1>2 DEF IInv, TypeOK, There
<1>4. \A u \in Tasks \ {t} : task'[u] = task[u]
  BY DEF IInv, TypeOK
<1>5. task'[t].pc = "idle"
  BY <1>1 DEF IInv, TypeOK
<1>6. RequestsHaveAddresses' /\ ReferredToAreThere'
  BY <1>2, <1>4, <1>5 DEF IInv, RequestsHaveAddresses, ReferredToAreThere, There, Approving
<1>7. RoleInv'
  <2>1. \A p : Backed(p) => Backed(p)'
    BY <1>4 DEF Backed, There
  <2> QED BY <2>1 DEF IInv, RoleInv, Admins
<1>8. RemovalInv'
  BY <1>4, <1>5 DEF IInv, RemovalInv, Removing, Admins
<1> QED BY <1>3, <1>6, <1>7, <1>8 DEF IInv

LEMMA MarkKeeps ==
  ASSUME IInv, AccessConstants, NEW t \in Tasks, Mark(t)
  PROVE  IInv'
<1>1. task[t].pc = "mark" /\ task' = [task EXCEPT ![t] = Idle]
  BY DEF Mark
<1>2. CASE task[t].actor = None
  BY <1>1, <1>2, CutKeeps DEF Mark
<1>3. CASE task[t].actor # None
  <2>1. PICK r \in Requests : r = task[t].request /\ There(r) /\ request[r] \in RequestRow
    BY <1>1 DEF IInv, TypeOK, ReferredToAreThere, Approving, There
  <2>2. PICK n \in RequestRow : /\ request' = [request EXCEPT ![r] = n]
                                /\ n.status = "approved" /\ n.email = request[r].email
    <3> DEFINE n == [request[r] EXCEPT !.status = "approved"]
    <3>1. n \in RequestRow /\ n.status = "approved" /\ n.email = request[r].email
      BY <2>1 DEF RequestRow
    <3>2. request' = [request EXCEPT ![r] = n]
      BY <1>3, <2>1 DEF Mark, Marked
    <3> QED BY <3>1, <3>2
  <2>3. UNCHANGED <<user, form, cut, crossed>>
    BY <1>3 DEF Mark
  <2>4. /\ \A q : There(q) => There(q)' /\ request'[q].email = request[q].email
        /\ RequestsHaveAddresses'
    <3>1. n.status # None /\ n.email \in People
      BY <2>1, <2>2 DEF AccessConstants, IInv, RequestsHaveAddresses
    <3> QED BY <2>2, <3>1, RequestChanges
  <2>5. Idle \in TaskRow /\ Idle.pc = "idle"
    BY IdleRow
  <2>6. TypeOK'
    BY <1>1, <2>2, <2>3, <2>5 DEF IInv, TypeOK
  <2>7. \A u \in Tasks \ {t} : task'[u] = task[u]
    BY <1>1 DEF IInv, TypeOK
  <2>8. task'[t].pc = "idle"
    BY <1>1, <2>5 DEF IInv, TypeOK
  <2>9. ReferredToAreThere'
    BY <2>3, <2>4, <2>7, <2>8 DEF IInv, ReferredToAreThere, Approving
  <2>10. RoleInv'
    <3>1. request'[r].status = "approved" /\ \A q \in Requests \ {r} : request'[q] = request[q]
      BY <2>2 DEF IInv, TypeOK
    <3>2. \A p : Backed(p) => Backed(p)'
      BY <2>1, <2>3, <2>4, <2>7, <3>1 DEF Backed
    <3> QED BY <2>3, <3>2 DEF IInv, RoleInv, Admins
  <2>11. RemovalInv'
    BY <2>3, <2>7, <2>8 DEF IInv, RemovalInv, Removing, Admins
  <2> QED BY <2>4, <2>6, <2>9, <2>10, <2>11 DEF IInv
<1> QED BY <1>2, <1>3

LEMMA CrashKeeps ==
  ASSUME IInv, AccessConstants, NEW t \in Tasks, Crash(t)
  PROVE  IInv'
<1>1. CASE task[t].pc = "mark"
  BY <1>1, CutKeeps DEF Crash
<1>2. CASE task[t].pc # "mark"
  BY <1>2, TaskEnds DEF Crash
<1> QED BY <1>1, <1>2

\* The user t removes is not the admin who removes, who stays one.
LEMMA RemoveUserKeeps ==
  ASSUME IInv, AccessConstants, NEW t \in Tasks, RemoveUser(t)
  PROVE  IInv'
<1>1. PICK p \in People \cup {None} : p = task[t].target
  BY DEF IInv, TypeOK, TaskRow
<1>2. /\ task[t].pc = "remove"
      /\ user' = [q \in People |-> IF q = p THEN None ELSE user[q]]
      /\ UNCHANGED <<request, form, cut, crossed>>
  BY <1>1 DEF RemoveUser
<1>3. Idle \in TaskRow /\ Idle.pc = "idle"
  BY IdleRow
<1>4. /\ task' \in [Tasks -> TaskRow] /\ task'[t] = Idle
      /\ \A u \in Tasks \ {t} :
           /\ task'[u].pc = task[u].pc /\ task'[u].request = task[u].request /\ task'[u].late = task[u].late
  <2> DEFINE n(u) == [task[u] EXCEPT !.actor = IF @ = p THEN None ELSE @, !.target = IF @ = p THEN None ELSE @]
  <2>1. task' = [u \in Tasks |-> IF u = t THEN Idle ELSE n(u)]
    BY <1>1 DEF RemoveUser
  <2>2. \A u \in Tasks : /\ n(u) \in TaskRow
                         /\ n(u).pc = task[u].pc /\ n(u).request = task[u].request /\ n(u).late = task[u].late
    BY DEF IInv, TypeOK, TaskRow
  <2> HIDE DEF n
  <2> QED BY <1>3, <2>1, <2>2
<1>5. TypeOK'
  BY <1>2, <1>4 DEF IInv, TypeOK
<1>6. Admins' = Admins \ {p}
  BY <1>2 DEF Admins, IInv, TypeOK, AccessConstants
<1>7. RequestsHaveAddresses' /\ ReferredToAreThere'
  BY <1>2, <1>3, <1>4 DEF IInv, RequestsHaveAddresses, ReferredToAreThere, There, Approving
<1>8. RoleInv'
  <2>1. \A q : Backed(q) => Backed(q)'
    BY <1>2, <1>4 DEF Backed, There
  <2> QED BY <1>6, <2>1 DEF IInv, RoleInv
<1>9. RemovalInv'
  <2>1. \A u \in Tasks : Removing(u)' => Removing(u) /\ u # t
    BY <1>3, <1>4 DEF Removing
  <2>2. ~crossed => Admins' # {}
    BY <1>1, <1>2, <1>6 DEF IInv, RemovalInv, Removing
  <2> QED BY <1>2, <2>1, <2>2 DEF IInv, RemovalInv, Removing
<1> QED BY <1>5, <1>7, <1>8, <1>9 DEF IInv
-----------------------------------------------------------------------------
LEMMA NextKeeps ==
  ASSUME IInv, AccessConstants, [Next]_vars
  PROVE  IInv'
<1>1. CASE UNCHANGED vars
  BY <1>1 DEF vars, IInv, TypeOK, RequestsHaveAddresses, ReferredToAreThere, RoleInv, RemovalInv, Backed,
              There, Admins, Approving, Removing
<1>2. CASE Next
  BY <1>2, SubmitKeeps, InsertKeeps, ApproveKeeps, FindUserKeeps, GrantKeeps, MarkKeeps, CrashKeeps,
     DeclineKeeps, RemoveAccessKeeps, RemoveUserKeeps DEF Next
<1> QED BY <1>1, <1>2

THEOREM Invariance == ASSUME AccessConstants PROVE Spec => []IInv
<1>1. Init => IInv
  BY InitHolds
<1>2. IInv /\ [Next]_vars => IInv'
  BY NextKeeps
<1> QED BY <1>1, <1>2, PTL DEF Spec

\* The variables keep their types.
THEOREM TypeCorrect == ASSUME AccessConstants PROVE Spec => []TypeOK
<1>1. IInv => TypeOK
  BY DEF IInv
<1> QED BY <1>1, Invariance, PTL

\* Every admin but the first has an approved request, or one whose approval was
\* cut off, and there is an admin unless two removals overlapped (requests.ts,
\* users/actions.ts).
THEOREM AdminsStayTrusted == ASSUME AccessConstants PROVE Spec => []AdminsAreTrusted
<1>1. IInv => AdminsAreTrusted
  BY DEF IInv, RoleInv, Backed, RemovalInv, AdminsAreTrusted, AdminsWereApproved, SomebodyIsAdmin
<1> QED BY <1>1, Invariance, PTL

LEMMA StepDecidesOnce ==
  ASSUME IInv, AccessConstants, [Next]_vars, NEW r \in Requests,
         request[r].status \in {"approved", "declined"}, request'[r] # request[r]
  PROVE  /\ request[r].status = "declined" /\ request'[r].status = "approved"
         /\ \E t \in Tasks : task[t].pc = "mark" /\ task[t].request = r /\ ~task[t].late
<1>1. CASE request' = request
  BY <1>1
<1>2. CASE \E f \in Forms : Insert(f)
  BY <1>2 DEF Insert, AccessConstants, IInv, TypeOK
<1>3. CASE \E q \in Requests : Decline(q)
  BY <1>3 DEF Decline, Declinable, IInv, TypeOK
<1>4. CASE \E t \in Tasks : Mark(t) /\ task[t].actor # None
  <2>1. PICK t \in Tasks : Mark(t) /\ task[t].actor # None
    BY <1>4
  <2>2. PICK q \in Requests : q = task[t].request /\ request[q] \in RequestRow
    BY <2>1 DEF Mark, IInv, TypeOK, ReferredToAreThere, Approving, There
  <2>3. /\ request' = [request EXCEPT ![q] = [request[q] EXCEPT !.status = "approved"]]
        /\ task[t].pc = "mark" /\ ~task[t].late
    BY <2>1, <2>2 DEF Mark, Marked, IInv, ReferredToAreThere, Approving
  <2>4. q = r
    BY <2>2, <2>3 DEF IInv, TypeOK
  <2>5. request[r].status # "approved"
    <3>1. SUFFICES ASSUME request[r].status = "approved" PROVE FALSE
      OBVIOUS
    <3>2. [request[r] EXCEPT !.status = "approved"] = request[r]
      BY <2>2, <2>4, <3>1 DEF RequestRow
    <3> QED BY <2>2, <2>3, <2>4, <3>2 DEF IInv, TypeOK
  <2>6. request'[r].status = "approved"
    BY <2>2, <2>3, <2>4 DEF IInv, TypeOK, RequestRow
  <2> QED BY <2>2, <2>3, <2>4, <2>5, <2>6
<1> QED
  BY <1>1, <1>2, <1>3, <1>4 DEF Next, vars, Submit, FindUser, Grant, Mark, Crash, RemoveUser, Approve, RemoveAccess

\* A decision stands, except that an approval begun before a decline wins over
\* it (requests.ts:107).
THEOREM DecisionsStand == ASSUME AccessConstants PROVE Spec => DecisionIsFinal
<1>1. IInv /\ [Next]_vars =>
        [\A r \in Requests :
           request[r].status \in {"approved", "declined"} /\ request'[r] # request[r] =>
             /\ request[r].status = "declined" /\ request'[r].status = "approved"
             /\ \E t \in Tasks : task[t].pc = "mark" /\ task[t].request = r /\ ~task[t].late]_vars
  BY StepDecidesOnce
<1> QED BY <1>1, Invariance, PTL DEF Spec, DecisionIsFinal
=============================================================================

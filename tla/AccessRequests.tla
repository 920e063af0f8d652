--------------------------- MODULE AccessRequests ---------------------------
(***************************************************************************)
(* Requests for a login and the users they become                          *)
(* (src/lib/access/requests.ts), decided by admins whose own logins other  *)
(* admins may remove meanwhile (src/app/dashboard/users/actions.ts).       *)
(*                                                                         *)
(* Every action reads the session first; it is not looked at again.  Each  *)
(* statement after that is an action of its own.  A user is known by the   *)
(* email address, which is unique; a task that holds the id of a user who  *)
(* is removed holds nobody from then on.                                   *)
(***************************************************************************)
EXTENDS Naturals

CONSTANTS
  People,    \* email addresses
  First,     \* the admins of the seed script
  Requests,  \* ids of access requests
  Forms,     \* submissions of the form that may be under way at once
  Tasks,     \* admin actions that may be under way at once
  None

\* What the constants must satisfy: an instance assumes it.
AccessConstants ==
  /\ First \subseteq People /\ First # {}
  /\ None \notin People \cup Requests \cup {"pending", "approved", "declined", "customer", "admin"}

VARIABLES
  user,     \* the role of each user, None for an address without one
  request,  \* access_request
  form,     \* each submission: the address it found no pending request for
  task,     \* each admin action's position
  cut,      \* history: requests whose approval ended between its statements
  crossed   \* history: two removals were under way at once

vars == <<user, request, form, task, cut, crossed>>
-----------------------------------------------------------------------------
RequestRow == [email: People \cup {None}, status: {None, "pending", "approved", "declined"}]

\* "user", "grant" and "mark": an approval before it looks for the user, before
\* it writes the user, and before it marks the request.  found: the user it
\* saw; late: it began after a decision.
TaskRow == [pc: {"idle", "user", "grant", "mark", "remove"}, actor: People \cup {None},
            request: Requests \cup {None}, found: BOOLEAN, target: People \cup {None}, late: BOOLEAN]
Idle == [pc |-> "idle", actor |-> None, request |-> None, found |-> FALSE, target |-> None,
         late |-> FALSE]

Init ==
  /\ user \in {[p \in People |-> IF p \in First THEN "admin" ELSE IF p \in C THEN "customer" ELSE None] :
               C \in SUBSET (People \ First)}
  /\ request = [r \in Requests |-> [email |-> None, status |-> None]]
  /\ form = [f \in Forms |-> None]
  /\ task = [t \in Tasks |-> Idle]
  /\ cut = {}
  /\ crossed = FALSE

Admins == {p \in People : user[p] = "admin"}
-----------------------------------------------------------------------------
(* createAccessRequest *)

Submit(f, p) ==
  /\ form[f] = None
  /\ ~\E r \in Requests : request[r] = [email |-> p, status |-> "pending"]
  /\ form' = [form EXCEPT ![f] = p]
  /\ UNCHANGED <<user, request, task, cut, crossed>>

Insert(f) ==
  /\ form[f] # None
  /\ \E r \in Requests :
       /\ request[r].status = None
       /\ request' = [request EXCEPT ![r] = [email |-> form[f], status |-> "pending"]]
  /\ form' = [form EXCEPT ![f] = None]
  /\ UNCHANGED <<user, task, cut, crossed>>
-----------------------------------------------------------------------------
(* approveAccessRequest and declineAccessRequest *)

\* Mutant: any request that is there.
ApprovableAtAll(r) == request[r].status # None
Approvable(r) == request[r].status = "pending"

Approve(t, a, r) ==
  /\ task[t].pc = "idle" /\ a \in Admins /\ Approvable(r)
  /\ task' = [task EXCEPT ![t] = [Idle EXCEPT !.pc = "user", !.actor = a, !.request = r,
                                               !.late = request[r].status # "pending"]]
  /\ UNCHANGED <<user, request, form, cut, crossed>>

Email(t) == request[task[t].request].email

FindUser(t) ==
  /\ task[t].pc = "user"
  /\ task' = [task EXCEPT ![t].pc = "grant", ![t].found = user[Email(t)] # None,
                          ![t].target = IF user[Email(t)] # None THEN Email(t) ELSE None]
  /\ UNCHANGED <<user, request, form, cut, crossed>>

\* The user that was found gains the role, if it is still there; a new user's
\* address must not have been taken meanwhile.
Grant(t) ==
  /\ task[t].pc = "grant"
  /\ IF ~task[t].found /\ user[Email(t)] # None
       THEN task' = [task EXCEPT ![t] = Idle] /\ UNCHANGED user
       ELSE /\ task' = [task EXCEPT ![t].pc = "mark", ![t].target = None]
            /\ user' = IF task[t].found /\ task[t].target = None THEN user
                       ELSE [user EXCEPT ![Email(t)] = "admin"]
  /\ UNCHANGED <<request, form, cut, crossed>>

Marked(s) == "approved"

\* decided_by must be a user: an admin removed by now cannot mark the request.
Mark(t) ==
  /\ task[t].pc = "mark"
  /\ IF task[t].actor # None
       THEN /\ request' = [request EXCEPT ![task[t].request].status = Marked(@)]
            /\ UNCHANGED cut
       ELSE cut' = cut \cup {task[t].request} /\ UNCHANGED request
  /\ task' = [task EXCEPT ![t] = Idle]
  /\ UNCHANGED <<user, form, crossed>>

Crash(t) ==
  /\ task[t].pc # "idle"
  /\ cut' = IF task[t].pc = "mark" THEN cut \cup {task[t].request} ELSE cut
  /\ task' = [task EXCEPT ![t] = Idle]
  /\ UNCHANGED <<user, request, form, crossed>>

Declinable(r) == request[r].status = "pending"

\* One conditional update; the session before it is that of some admin.
Decline(r) ==
  /\ Admins # {} /\ Declinable(r)
  /\ request' = [request EXCEPT ![r].status = "declined"]
  /\ UNCHANGED <<user, form, task, cut, crossed>>
-----------------------------------------------------------------------------
(* removeAccess *)

\* Mutant: an admin may remove their own login.
Removable(a, p) == user[p] # None
RemovableByOther(a, p) == user[p] # None /\ p # a

\* The session and the target's address are read.
RemoveAccess(t, a, p) ==
  /\ task[t].pc = "idle" /\ a \in Admins /\ RemovableByOther(a, p)
  /\ task' = [task EXCEPT ![t] = [Idle EXCEPT !.pc = "remove", !.actor = a, !.target = p]]
  /\ crossed' = (crossed \/ \E u \in Tasks : task[u].pc = "remove")
  /\ UNCHANGED <<user, request, form, cut>>

RemoveUser(t) ==
  LET p == task[t].target IN
  /\ task[t].pc = "remove"
  /\ user' = [q \in People |-> IF q = p THEN None ELSE user[q]]
  /\ task' = [u \in Tasks |->
       IF u = t THEN Idle
       ELSE [task[u] EXCEPT !.actor = IF @ = p THEN None ELSE @, !.target = IF @ = p THEN None ELSE @]]
  /\ UNCHANGED <<request, form, cut, crossed>>

Next ==
  \/ \E f \in Forms : Insert(f) \/ \E p \in People : Submit(f, p)
  \/ \E t \in Tasks :
       \/ FindUser(t) \/ Grant(t) \/ Mark(t) \/ Crash(t) \/ RemoveUser(t)
       \/ \E a \in People : \/ \E r \in Requests : Approve(t, a, r)
                            \/ \E p \in People : RemoveAccess(t, a, p)
  \/ \E r \in Requests : Decline(r)

Spec == Init /\ [][Next]_vars
-----------------------------------------------------------------------------
(* Properties *)

TypeOK ==
  /\ user \in [People -> {None, "customer", "admin"}]
  /\ request \in [Requests -> RequestRow]
  /\ form \in [Forms -> People \cup {None}]
  /\ task \in [Tasks -> TaskRow]
  /\ cut \subseteq Requests
  /\ crossed \in BOOLEAN

\* A decision stands, except that an approval begun while the request was
\* pending wins over a decline that comes first (requests.ts:86-88, 107-110).
DecisionIsFinal ==
  [][\A r \in Requests :
       request[r].status \in {"approved", "declined"} /\ request'[r] # request[r] =>
         /\ request[r].status = "declined" /\ request'[r].status = "approved"
         /\ \E t \in Tasks : task[t].pc = "mark" /\ task[t].request = r /\ ~task[t].late]_vars

\* Every admin but the first has an approved request, whoever declines
\* meanwhile, unless an approval stopped half way (requests.ts:80-83).
AdminsWereApproved ==
  \A p \in Admins \ First :
    \E r \in Requests :
      /\ request[r].email = p
      /\ \/ request[r].status = "approved" \/ r \in cut
         \/ \E t \in Tasks : task[t].pc = "mark" /\ task[t].request = r

\* Somebody can still sign in and approve others, unless two admins removed
\* logins at the same time (users/actions.ts:67).
SomebodyIsAdmin == crossed \/ Admins # {}

\* The dashboard is neither open to the unapproved nor locked for good.
AdminsAreTrusted == AdminsWereApproved /\ SomebodyIsAdmin
=============================================================================

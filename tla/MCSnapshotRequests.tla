------------------------ MODULE MCSnapshotRequests ------------------------
(* TLC instances of SnapshotRequests. *)
EXTENDS SnapshotRequests, TLC

CONSTANTS f1, f2, p1, plumbing, roofing, site

\* One question set, no other sites.
SamePanel == [q \in Requests |-> plumbing]
NoSites == [q \in Requests |-> {}]

\* Prospects list another site of the business.
ProspectSites == [q \in Requests |-> IF q \in Forms THEN {} ELSE {site}]

\* The form's requests ask for the same.
Symmetry == Permutations(Visitors) \cup Permutations(Admins) \cup Permutations(Forms)
=============================================================================

----------------------------- MODULE PanelCall -----------------------------
(***************************************************************************)
(* What runPanelJob (src/lib/aeo/job.ts) promises its caller: one answer,  *)
(* or one recorded failure, for every question and engine it was asked, or *)
(* an error and nothing.  No files here, no process, no retries.           *)
(***************************************************************************)
CONSTANTS Workers, Questions, Engines

VARIABLES phase, asked, aborted, reply

call == <<phase, asked, aborted, reply>>

Row == [q: Questions, e: Engines, ok: BOOLEAN]

\* Exactly one row for each question and engine, and no other row.
Whole(rows, qs) ==
  /\ rows \subseteq [q: qs, e: Engines, ok: BOOLEAN]
  /\ \A q \in qs, e \in Engines : \E r \in rows : r.q = q /\ r.e = e
  /\ \A r, s \in rows : r.q = s.q /\ r.e = s.e => r = s

Init ==
  /\ phase = [w \in Workers |-> "idle"]
  /\ asked = [w \in Workers |-> {}]
  /\ aborted = [w \in Workers |-> FALSE]
  /\ reply = [w \in Workers |-> {}]

Call(w) ==
  /\ phase[w] # "asking"
  /\ phase' = [phase EXCEPT ![w] = "asking"]
  /\ \E qs \in (SUBSET Questions) \ {{}} : asked' = [asked EXCEPT ![w] = qs]
  /\ aborted' = [aborted EXCEPT ![w] = FALSE]
  /\ reply' = [reply EXCEPT ![w] = {}]

Abort(w) ==
  /\ phase[w] = "asking"
  /\ aborted' = [aborted EXCEPT ![w] = TRUE]
  /\ UNCHANGED <<phase, asked, reply>>

Return(w) ==
  /\ phase[w] = "asking"
  /\ phase' = [phase EXCEPT ![w] = "returned"]
  /\ \E rows \in SUBSET Row : Whole(rows, asked[w]) /\ reply' = [reply EXCEPT ![w] = rows]
  /\ UNCHANGED <<asked, aborted>>

\* Only a caller that aborted hears "aborted", which costs no attempt.
Fail(w) ==
  /\ phase[w] = "asking"
  /\ \E why \in {"aborted", "failed"} :
       /\ why = "aborted" => aborted[w]
       /\ phase' = [phase EXCEPT ![w] = why]
  /\ UNCHANGED <<asked, aborted, reply>>

Die(w) ==
  /\ phase' = [phase EXCEPT ![w] = "idle"]
  /\ asked' = [asked EXCEPT ![w] = {}]
  /\ aborted' = [aborted EXCEPT ![w] = FALSE]
  /\ reply' = [reply EXCEPT ![w] = {}]

Next == \E w \in Workers : Call(w) \/ Abort(w) \/ Return(w) \/ Fail(w) \/ Die(w)

Spec == Init /\ [][Next]_call
=============================================================================

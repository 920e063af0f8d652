---------------------------- MODULE BusinessWatch ----------------------------
(***************************************************************************)
(* The watch over the metrics (src/lib/watch, src/lib/actions): it reads   *)
(* the latest values while Metrics changes them, opens an alert for each   *)
(* rule they trigger, replaces the suggestions and mails a digest.  Each   *)
(* statement is an action.  Insights, which are only ever added, and all   *)
(* wording are left out; a batch of suggestions stays or goes as one.      *)
(***************************************************************************)
EXTENDS Metrics

CONSTANTS
  Rules,    \* active alert rules: [key, condition, threshold]
  Target,   \* the target of each metric, or None
  Watches   \* watches that may run at once

VARIABLES
  watch,      \* what each watch is doing
  alert,      \* each rule's alerts: how many are open, closed, and were mailed
  suggested,  \* batches of suggestions that are still open
  crossed,    \* history: rules two watches were about to open an alert for
  silent,     \* history: rules whose alert was in a digest that never went out
  piled       \* history: two watches replaced the suggestions at once

watchVars == <<watch, alert, suggested, crossed, silent, piled>>
vars == <<metricVars, watchVars>>
-----------------------------------------------------------------------------
Waiting == [pc |-> "idle", hits |-> {}, rule |-> None, fresh |-> {}, changed |-> FALSE, alone |-> FALSE]

WatchConstants ==
  MetricConstants /\ Target \in [Keys -> Int \cup {None}] /\ None \notin Rules /\ IsFiniteSet(Watches)

WatchInit ==
  /\ Init
  /\ watch = [w \in Watches |-> Waiting]
  /\ alert = [r \in Rules |-> [open |-> 0, closed |-> 0, mailed |-> 0]]
  /\ suggested = 0 /\ crossed = {} /\ silent = {} /\ piled = FALSE
-----------------------------------------------------------------------------
(* rules.ts, and what it reads *)

Newest(table, k) ==
  {r \in DOMAIN table : r.key = k /\ \A q \in DOMAIN table : q.key = k => q.period <= r.period}

\* The last two rows of a metric; rows of one period come in any order.
Readings(k) ==
  IF Newest(metric, k) = {} THEN {<<None, None>>}
  ELSE UNION {LET before == Newest(metric (-) SetToBag({r}), k)
              IN IF before = {} THEN {<<r.value, None>>} ELSE {<<r.value, q.value>> : q \in before} :
                r \in Newest(metric, k)}

Size(n) == IF n < 0 THEN -n ELSE n

\* Tenths of a percent, rounded half up as Math.round does.
PctChange(reading) ==
  LET current == reading[1]
      previous == reading[2]
  IN IF current = None \/ previous = None THEN None
     ELSE IF previous = 0 THEN None
     ELSE (2000 * (current - previous) + Size(previous)) \div (2 * Size(previous))

\* evaluateRule
Triggered(rule, reading) ==
  LET current == reading[1]
      pct == PctChange(reading)
      limit == rule.threshold
      target == Target[rule.key]
      c == rule.condition
  IN \/ pct # None /\ limit # None /\ \/ c = "pct_drop" /\ pct <= -10 * limit
                                      \/ c = "pct_rise" /\ pct >= 10 * limit
     \/ current # None /\ target # None /\ \/ c = "below_target" /\ current < target
                                           \/ c = "above_target" /\ current > target
     \/ current # None /\ limit # None /\ \/ c = "below_threshold" /\ current < limit
                                          \/ c = "above_threshold" /\ current > limit

\* detectMaterialChanges: ten percent.
Material(reading) == PctChange(reading) # None /\ Size(PctChange(reading)) >= 100
-----------------------------------------------------------------------------
(* runWatch *)

To(w, pc) == watch' = [watch EXCEPT ![w].pc = pc]

\* buildOrgSummary: every metric that has a definition.
ReadSummary(w) ==
  /\ watch[w].pc = "idle" /\ starts < MaxStarts
  /\ \E m \in {f \in [defined -> UNION {Readings(k) : k \in defined}] : \A k \in defined : f[k] \in Readings(k)} :
       watch' = [watch EXCEPT ![w] = [Waiting EXCEPT
         !.pc = "check",
         !.hits = {r \in Rules : r.key \in defined /\ Triggered(r, m[r.key])},
         !.changed = \E k \in defined : Material(m[k])]]
  /\ starts' = starts + 1
  /\ UNCHANGED <<source, defined, metric, entries, job, stored, typed, torn, alert, suggested, crossed, silent, piled>>

\* hasOpenAlertForRule.
HasOpenAlert(r) == alert[r].open > 0

CheckOpen(w) ==
  /\ watch[w].pc = "check"
  /\ \E r \in watch[w].hits :
       IF HasOpenAlert(r) THEN watch' = [watch EXCEPT ![w].hits = @ \ {r}]
       ELSE watch' = [watch EXCEPT ![w].hits = @ \ {r}, ![w].rule = r, ![w].pc = "create", ![w].alone = TRUE]
  /\ UNCHANGED <<metricVars, alert, suggested, crossed, silent, piled>>

\* The watches that are at the same pc, and at the same rule, see w's writing.
Seen(w, pc, next) ==
  watch' = [u \in Watches |->
    IF u = w THEN next
    ELSE [watch[u] EXCEPT !.alone = @ /\ ~(watch[u].pc = pc /\ watch[u].rule = watch[w].rule)]]

CreateAlert(w) ==
  LET r == watch[w].rule
  IN /\ watch[w].pc = "create"
     /\ alert' = [alert EXCEPT ![r].open = @ + 1]
     /\ crossed' = IF watch[w].alone THEN crossed ELSE crossed \cup {r}
     /\ Seen(w, "create", [watch[w] EXCEPT !.pc = "check", !.rule = None, !.fresh = @ \cup {r}])
     /\ UNCHANGED <<metricVars, suggested, silent, piled>>

\* replaceSuggested, after the model has answered: it inserts nothing when the
\* model did not.
ClearSuggested(w) ==
  /\ watch[w].pc = "check" /\ watch[w].hits = {}
  /\ suggested' = 0
  /\ Seen(w, "suggest", [watch[w] EXCEPT !.pc = "suggest", !.alone = TRUE])
  /\ UNCHANGED <<metricVars, alert, crossed, silent, piled>>

InsertSuggested(w) ==
  /\ watch[w].pc = "suggest"
  /\ \/ /\ suggested' = suggested + 1
        /\ piled' = (piled \/ ~watch[w].alone)
        /\ Seen(w, "suggest", [watch[w] EXCEPT !.pc = "send"])
     \/ To(w, "send") /\ UNCHANGED <<suggested, piled>>
  /\ UNCHANGED <<metricVars, alert, crossed, silent>>

\* itemCount > 0
SomethingToReport(w) == watch[w].fresh # {} \/ watch[w].changed

SendDigest(w) ==
  /\ watch[w].pc = "send"
  /\ watch' = [watch EXCEPT ![w] = Waiting]
  /\ \/ /\ SomethingToReport(w)
        /\ alert' = [r \in Rules |-> IF r \in watch[w].fresh THEN [alert[r] EXCEPT !.mailed = @ + 1] ELSE alert[r]]
        /\ UNCHANGED silent
     \/ /\ SomethingToReport(w)                           \* the provider refuses it
        /\ silent' = silent \cup watch[w].fresh
        /\ UNCHANGED alert
     \/ ~SomethingToReport(w) /\ UNCHANGED <<alert, silent>>
  /\ UNCHANGED <<metricVars, suggested, crossed, piled>>

WatchDies(w) ==
  /\ watch[w].pc # "idle"
  /\ watch' = [watch EXCEPT ![w] = Waiting]
  /\ silent' = silent \cup watch[w].fresh
  /\ UNCHANGED <<metricVars, alert, suggested, crossed, piled>>

\* setAlertStatus, to acknowledged or resolved.
SettleAlert(r) ==
  /\ alert[r].open > 0
  /\ alert' = [alert EXCEPT ![r].open = @ - 1, ![r].closed = @ + 1]
  /\ UNCHANGED <<metricVars, watch, suggested, crossed, silent, piled>>

Next ==
  \/ MetricNext /\ UNCHANGED watchVars
  \/ \E w \in Watches : \/ ReadSummary(w) \/ CheckOpen(w) \/ CreateAlert(w) \/ ClearSuggested(w)
                        \/ InsertSuggested(w) \/ SendDigest(w) \/ WatchDies(w)
  \/ \E r \in Rules : SettleAlert(r)

Spec == WatchInit /\ [][Next]_vars
-----------------------------------------------------------------------------
(* Properties *)

\* A rule has one open alert at a time (run.ts:42), unless two watches looked
\* for it before either opened one; every alert was mailed once, or is about
\* to be, unless its watch died or its digest was refused; and suggestions
\* do not pile up (actions/store.ts:43-47), unless two watches replaced them
\* at once.
AlertsAreSound ==
  /\ \A r \in Rules :
       /\ alert[r].open > 1 => r \in crossed
       /\ r \in silent \/ alert[r].open + alert[r].closed =
            alert[r].mailed + Cardinality({w \in Watches : r \in watch[w].fresh})
  /\ suggested > 1 => piled

\* What the watch reads is sound, and so is what it makes of it.
WatchIsSound == RowsAreSound /\ AlertsAreSound
=============================================================================

------------------------------- MODULE Metrics -------------------------------
(***************************************************************************)
(* The metric values of one organization and the three writers that share  *)
(* them: the sync of an API source (src/lib/connectors/sync.ts), the       *)
(* derivation from the ledger (src/lib/ledger/metrics-bridge.ts) and rows  *)
(* typed in or imported (src/lib/metrics/mutations.ts).  The earlier       *)
(* product left them; no route, script or worker calls them now.           *)
(*                                                                         *)
(* No writer uses a transaction: each statement is an action, and a task   *)
(* may die between any two.  The table is a bag of rows, since nothing     *)
(* makes a row unique.  An answer of the API is a set of rows with a       *)
(* period and a number; dimensions and period ends are left out.           *)
(***************************************************************************)
EXTENDS Integers, FiniteSetsExt, Bags

CONSTANTS
  Sources,     \* API sources
  Keys,        \* metric keys
  Derived,     \* the keys derived from the ledger, DERIVED_KEYS
  Running,     \* those that carry a balance from period to period
  Mappings,    \* the keys each source provides
  Mode,        \* how its mappings read rows: "row", "sum" or "count"
  Responses,   \* what an API may answer; {} when it cannot be reached
  MaxPeriod,
  Typed,       \* the values that may be typed in
  Tasks,       \* calls that may be in progress at once
  MaxStarts,   \* bound on calls
  None

MetricConstants ==
  /\ Running \subseteq Derived /\ Derived \subseteq Keys
  /\ Mappings \in [Sources -> SUBSET Keys \ {{}}]
  /\ Mode \in [Sources -> {"row", "sum", "count"}]
  /\ MaxPeriod \in Nat \ {0} /\ MaxStarts \in Nat
  /\ Responses \subseteq SUBSET [period : 1..MaxPeriod \cup {None}, value : Int \cup {None}]
  /\ Typed \subseteq [key : Keys, period : 1..MaxPeriod, value : Int]
  /\ Sources \cap {"ledger", "typed", None} = {} /\ None \notin {"ledger", "typed"}

VARIABLES
  source,   \* data_source: "active", "error" or "deleted"
  defined,  \* the keys with a metric_definition
  metric,   \* metric_value, a bag of rows
  entries,  \* how much the ledger has entered in each period
  job,      \* what each task is doing
  stored,   \* history: the values each source last gave
  typed,    \* history: the values typed in that no derivation replaced
  torn,     \* history: whose rows an overlap or a failure may have spoilt
  starts    \* history: calls so far

metricVars == <<source, defined, metric, entries, job, stored, typed, torn, starts>>
-----------------------------------------------------------------------------
Periods == 1..MaxPeriod

\* origin is history: whoever wrote the row.
Row(v, src, origin) ==
  [key |-> v.key, period |-> v.period, value |-> v.value, source |-> src, origin |-> origin]
Rows(values, src, origin) == SetToBag({Row(v, src, origin) : v \in values})
Without(gone) == [r \in DOMAIN metric \ gone |-> metric[r]]
NotDerived(values) == {v \in values : v.key \notin Derived}

\* of: whose rows the task writes.  alone: nobody else wrote them since it
\* began to replace them.
Idle == [pc |-> "idle", of |-> None, queue |-> {}, values |-> {}, keys |-> {}, missing |-> {},
         window |-> {}, failed |-> FALSE, alone |-> FALSE]
At(pc, of) == [Idle EXCEPT !.pc = pc, !.of = of]

Begin(t, new) ==
  /\ job[t].pc = "idle" /\ starts < MaxStarts
  /\ job' = [job EXCEPT ![t] = new]
  /\ starts' = starts + 1

\* The task t goes on as new, and the others see its writing.
Write(t, new) ==
  job' = [u \in Tasks |->
            IF u = t THEN new ELSE [job[u] EXCEPT !.alone = @ /\ job[u].of # job[t].of]]

Spoilt(t) == IF job[t].alone THEN torn ELSE torn \cup {job[t].of}

Init ==
  /\ source \in [Sources -> {"active", "deleted"}]
  /\ defined = {} /\ metric = EmptyBag
  /\ entries = [p \in Periods |-> 0]
  /\ job = [t \in Tasks |-> Idle]
  /\ stored = [s \in Sources |-> {}]
  /\ typed = {} /\ torn = {} /\ starts \in 0..MaxStarts
-----------------------------------------------------------------------------
(* normalize.ts *)

\* Rows without a date, or without the number their mapping needs, are errors.
Usable(response, mode) ==
  {r \in response : r.period # None /\ (mode = "count" \/ r.value # None)}

Aggregate(rows, mode, p) ==
  LET bucket == {r \in rows : r.period = p}
  IN IF mode = "sum" THEN MapThenSumSet(LAMBDA r : r.value, bucket) ELSE Cardinality(bucket)

Normalized(response, mode) ==
  LET rows == Usable(response, mode)
  IN IF mode = "row" THEN rows
     ELSE {[period |-> p, value |-> Aggregate(rows, mode, p)] : p \in {r.period : r \in rows}}

ValuesOf(s, response) ==
  {[key |-> k, period |-> v.period, value |-> v.value] :
     k \in Mappings[s], v \in Normalized(response, Mode[s])}
-----------------------------------------------------------------------------
(* A sync *)

\* syncSourceById, whatever the status of the source.
StartSync(t) ==
  /\ \E s \in Sources : source[s] # "deleted" /\ Begin(t, At("fetch", s))
  /\ UNCHANGED <<source, defined, metric, entries, stored, typed, torn>>

\* syncActiveSources: the sources are listed once and synced in turn.
StartCron(t) ==
  /\ LET listed == {s \in Sources : source[s] = "active"}
     IN \E s \in listed : Begin(t, [At("fetch", s) EXCEPT !.queue = listed \ {s}])
  /\ UNCHANGED <<source, defined, metric, entries, stored, typed, torn>>

Fetch(t) ==
  /\ job[t].pc = "fetch"
  /\ \E response \in Responses :
       LET values == ValuesOf(job[t].of, response)
       IN job' = [job EXCEPT
            ![t].pc = IF values = {} THEN "report" ELSE "read",
            ![t].failed = (values = {}),
            ![t].values = values, ![t].keys = {v.key : v \in values}]
  /\ UNCHANGED <<source, defined, metric, entries, stored, typed, torn, starts>>

\* ensureDefinitions reads the keys that have a definition and inserts the others.
ReadDefinitions(t) ==
  /\ job[t].pc = "read"
  /\ LET missing == job[t].keys \ defined
     IN job' = [job EXCEPT ![t].missing = missing,
                           ![t].pc = IF missing = {} THEN "delete" ELSE "define"]
  /\ UNCHANGED <<source, defined, metric, entries, stored, typed, torn, starts>>

\* One key that was defined since fails them all: the index is unique.
InsertDefinitions(t) ==
  /\ job[t].pc = "define"
  /\ LET clash == job[t].missing \cap defined # {}
     IN /\ defined' = IF clash THEN defined ELSE defined \cup job[t].missing
        /\ job' = [job EXCEPT ![t].pc = IF clash THEN "report" ELSE "delete", ![t].failed = clash]
  /\ UNCHANGED <<source, metric, entries, stored, typed, torn, starts>>

Fetched(t, k) == {v \in job[t].values : v.key = k}
InWindow(v, new) ==
  LET starting == {n.period : n \in new} IN Min(starting) <= v.period /\ v.period <= Max(starting)
\* Mutant: the rows of other sources, and typed ones, go too.
ReplacedOfAll(t, k) == {r \in DOMAIN metric : r.key = k /\ InWindow(r, Fetched(t, k))}
Replaced(t, k) ==
  {r \in DOMAIN metric : r.source = job[t].of /\ r.key = k /\ InWindow(r, Fetched(t, k))}

\* missing holds the key between its two statements.
DeleteWindow(t) ==
  /\ job[t].pc = "delete"
  /\ \E k \in job[t].keys :
       /\ metric' = Without(Replaced(t, k))
       /\ Write(t, [job[t] EXCEPT !.pc = "insert", !.missing = {k}, !.keys = @ \ {k}, !.alone = TRUE])
  /\ UNCHANGED <<source, defined, entries, stored, typed, torn, starts>>

InsertWindow(t) ==
  LET s == job[t].of
      k == CHOOSE k \in job[t].missing : TRUE
      new == Fetched(t, k)
  IN /\ job[t].pc = "insert" /\ source[s] # "deleted"
     /\ metric' = metric (+) Rows(new, s, s)
     /\ stored' = [stored EXCEPT ![s] = {v \in @ : v.key # k \/ ~InWindow(v, new)} \cup new]
     /\ torn' = Spoilt(t)
     /\ Write(t, [job[t] EXCEPT !.pc = IF job[t].keys = {} THEN "report" ELSE "delete"])
     /\ UNCHANGED <<source, defined, entries, typed, starts>>

\* A statement fails, the insertion for a source that is gone among them:
\* what came before it stays.
StatementFails(t) ==
  /\ job[t].pc \in {"read", "define", "delete", "insert"}
  /\ job' = [job EXCEPT ![t].pc = "report", ![t].failed = TRUE]
  /\ torn' = IF job[t].pc = "insert" THEN torn \cup {job[t].of} ELSE torn
  /\ UNCHANGED <<source, defined, metric, entries, stored, typed, starts>>

\* updateSyncResult, and the next source of a cron's list.
Report(t) ==
  /\ job[t].pc = "report"
  /\ source' = [source EXCEPT ![job[t].of] =
       IF @ = "deleted" THEN @ ELSE IF job[t].failed THEN "error" ELSE "active"]
  /\ \/ job[t].queue = {} /\ job' = [job EXCEPT ![t] = Idle]
     \/ \E s \in job[t].queue :
          job' = [job EXCEPT ![t] = [At("fetch", s) EXCEPT !.queue = job[t].queue \ {s}]]
  /\ UNCHANGED <<defined, metric, entries, stored, typed, torn, starts>>

\* deleteSource: its rows, then the source, whose remaining rows lose it.
DeleteRows(t) ==
  /\ job[t].pc = "idle" /\ starts < MaxStarts
  /\ \E s \in Sources :
       /\ source[s] # "deleted"
       /\ metric' = Without({r \in DOMAIN metric : r.source = s})
       /\ stored' = [stored EXCEPT ![s] = {}]
       /\ job' = [u \in Tasks |->
            IF u = t THEN [At("drop", s) EXCEPT !.alone = TRUE]
            ELSE [job[u] EXCEPT !.alone = @ /\ job[u].of # s]]
  /\ starts' = starts + 1
  /\ UNCHANGED <<source, defined, entries, typed, torn>>

DropSource(t) ==
  LET s == job[t].of
      own == {r \in DOMAIN metric : r.source = s}
      Nulled(r) == [r EXCEPT !.source = None]
  IN /\ job[t].pc = "drop"
     /\ source' = [source EXCEPT ![s] = "deleted"]
     /\ metric' = Without(own) (+) [q \in {Nulled(r) : r \in own} |-> metric[[q EXCEPT !.source = s]]]
     /\ torn' = Spoilt(t)
     /\ Write(t, Idle)
     /\ UNCHANGED <<defined, entries, stored, typed, starts>>
-----------------------------------------------------------------------------
(* The ledger, and values typed in *)

\* The periods from the first entry to the last.
LedgerRange(ledger) ==
  LET entered == {p \in Periods : ledger[p] > 0}
  IN IF entered = {} THEN {} ELSE Min(entered)..Max(entered)

DerivedValue(k, p, ledger, range) ==
  IF k \in Running THEN MapThenSumSet(LAMBDA q : ledger[q], {q \in range : q <= p}) ELSE ledger[p]

Derivation(ledger, range) ==
  {[key |-> k, period |-> p, value |-> DerivedValue(k, p, ledger, range)] : k \in Derived, p \in range}

\* importTransactionsCsv: the entries are in before anything is derived.
Import(t) ==
  /\ job[t].pc = "idle" /\ starts < MaxStarts
  /\ \E p \in Periods : entries' = [entries EXCEPT ![p] = @ + 1]
  /\ job' = [u \in Tasks |->
       IF u = t THEN At("range", "ledger") ELSE [job[u] EXCEPT !.alone = @ /\ job[u].of # "ledger"]]
  /\ torn' = torn \cup {"ledger"}
  /\ starts' = starts + 1
  /\ UNCHANGED <<source, defined, metric, stored, typed>>

ReadRange(t) ==
  /\ job[t].pc = "range"
  /\ job' = [job EXCEPT ![t].pc = "sums", ![t].window = LedgerRange(entries), ![t].alone = TRUE]
  /\ UNCHANGED <<source, defined, metric, entries, stored, typed, torn, starts>>

ReadSums(t) ==
  /\ job[t].pc = "sums"
  /\ job' = [job EXCEPT ![t].pc = "upsert", ![t].values = Derivation(entries, job[t].window)]
  /\ UNCHANGED <<source, defined, metric, entries, stored, typed, torn, starts>>

UpsertDefinitions(t) ==
  /\ job[t].pc = "upsert"
  /\ defined' = defined \cup Derived
  /\ job' = [job EXCEPT ![t].pc = "clear"]
  /\ UNCHANGED <<source, metric, entries, stored, typed, torn, starts>>

\* Whoever wrote them, the rows of the derived keys go.
ClearDerived(t) ==
  /\ job[t].pc = "clear"
  /\ metric' = Without({r \in DOMAIN metric : r.key \in Derived})
  /\ stored' = [s \in Sources |-> NotDerived(stored[s])]
  /\ typed' = NotDerived(typed)
  /\ torn' = torn \cup {"ledger"}
  /\ Write(t, [job[t] EXCEPT !.pc = "derive"])
  /\ UNCHANGED <<source, defined, entries, starts>>

InsertDerived(t) ==
  /\ job[t].pc = "derive"
  /\ metric' = metric (+) Rows(job[t].values, None, "ledger")
  /\ torn' = Spoilt(t) \ (IF job[t].alone THEN {"ledger"} ELSE {})
  /\ Write(t, Idle)
  /\ UNCHANGED <<source, defined, entries, stored, typed, starts>>

\* recordValue and importRows.
RecordValue(v) ==
  /\ v \notin typed
  /\ metric' = metric (+) Rows({v}, None, "typed")
  /\ typed' = typed \cup {v}
  /\ UNCHANGED <<source, defined, entries, job, stored, torn, starts>>

\* The server dies, or a statement of a derivation or of a deletion fails.
TaskDies(t) ==
  /\ job[t].pc # "idle"
  /\ job' = [job EXCEPT ![t] = Idle]
  /\ torn' = IF job[t].pc = "insert" THEN torn \cup {job[t].of} ELSE torn
  /\ UNCHANGED <<source, defined, metric, entries, stored, typed, starts>>

Syncing(t) ==
  \/ StartSync(t) \/ StartCron(t) \/ Fetch(t) \/ ReadDefinitions(t) \/ InsertDefinitions(t)
  \/ DeleteWindow(t) \/ InsertWindow(t) \/ StatementFails(t) \/ Report(t)
Deriving(t) ==
  Import(t) \/ ReadRange(t) \/ ReadSums(t) \/ UpsertDefinitions(t) \/ ClearDerived(t) \/ InsertDerived(t)

MetricNext ==
  \/ \E t \in Tasks : Syncing(t) \/ DeleteRows(t) \/ DropSource(t) \/ Deriving(t) \/ TaskDies(t)
  \/ \E v \in Typed : RecordValue(v)
-----------------------------------------------------------------------------
(* Properties *)

\* Exactly these rows come from the origin, once each and under their source.
Exactly(values, src, origin) ==
  LET found == {r \in DOMAIN metric : r.origin = origin}
  IN found = {Row(v, src, origin) : v \in values} /\ \A r \in found : metric[r] = 1

Replacing(s) == \E t \in Tasks : job[t].pc = "insert" /\ job[t].of = s

\* However syncs, derivations, deletions and typed rows follow one another,
\* the table holds what each source last gave for a period, once
\* (sync.ts:46-51), nothing of a source that is gone (connectors/store.ts:126-127),
\* every typed row, and the ledger's own figures (metrics-bridge.ts:14-18),
\* unless writers of the same rows overlapped or one was cut short; a
\* derivation that ran alone repairs whatever happened to the derived rows.
RowsAreSound ==
  /\ \A s \in Sources \ torn : Replacing(s) \/ Exactly(stored[s], s, s)
  /\ Exactly(typed, None, "typed")
  /\ "ledger" \in torn \/
       Exactly(Derivation(entries, {p \in Periods : \E a, b \in Periods :
         a <= p /\ p <= b /\ entries[a] > 0 /\ entries[b] > 0}), None, "ledger")
=============================================================================

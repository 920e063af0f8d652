# BusinessPulse verification

TLA+ models of BusinessPulse, the TLC runs that check them and the TLAPS proofs
about them. BusinessPulse sells AI-visibility snapshots: a visitor of the public
site asks for one, confirms by an emailed link, worker processes ask a panel of
questions of several AI engines through a PHP program, and the visitor is emailed
a report, then a re-check a month later. Everything is kept in Postgres, and the
hard part of the system is what several processes do to the same rows.

Paths below are relative to the repository. The machine-readable index of this
project (components, runs, mutants, the map from definitions to source lines,
findings, hazards, theorems) is `PROJECT.json`.

## 1. The system

| Part | Code | State | Operations |
|---|---|---|---|
| Run queue | `src/lib/aeo/queue.ts` | `aeo_run`: status, attempts, lease token, `locked_at`, cost; `aeo_result`: one row per question | claim, heartbeat, sweep of abandoned runs, save progress, complete, fail or retry, release, today's spend |
| Worker | `src/worker/index.ts`, `src/lib/aeo/outcome.ts` | the loop's locals, the heartbeat timer, the shutdown and abort signals | `tick` (four sweeps, spend, claim), `processRun`, shutdown |
| Run planning | `src/lib/aeo/plan.ts`, `generate.ts`, `site.ts` | the generated panel on the run | canned panel, stored generated panel, or read the homepage and generate one under the lease |
| Question sampling, panels | `questions.ts`, `panels/*.ts` | none; the canned panels | fill the slots, drop repeated texts, take a balanced snapshot |
| Panel job | `src/lib/aeo/job.ts`, `panel/panel.php` (`job`) | job and result files, a child process, the PHP program's request windows | write job, spawn, time out, abort, read the result |
| Panel audits (PHP) | `panel/panel.php` (`run`, `retry`, `reclassify`), `panel/src/*.php` | an SQLite store: `runs`, `results` | ask and store, re-ask what failed, judge again, report |
| Snapshot requests | `requests.ts`, `domain.ts`, `tokens.ts` | `aeo_request`: token, expiry, `verified_at`, `run_id` | create, verify (open the link), prospect snapshot, choose a run to reuse |
| Lead administration | `admin.ts`, `src/app/dashboard/aeo/actions.ts` | the same tables | delete a request (and its run), re-run, lead status |
| Report emails | `notify.ts`, `src/lib/email/provider.ts` | attempts, `attempted_at`, `emailed_at` on the request | read the due, claim, send, mark |
| Re-checks | `recheck.ts` | `aeo_recheck`: token hash, attempts, `emailed_at` | count today's, start, email, unsubscribe |
| Follow-ups, retention | `outreach.ts`, `retention.ts` | `aeo_mail_send`, lead status, contact details | send a follow-up, erase after the retention period, blank copies |
| Report page and links | `report.ts`, `report-views.ts`, `booking.ts`, `monitor.ts` | view count, `aeo_booking_click`, `aeo_monitor_interest` | load a report, count a view or a click, join the waitlist |
| Panel administration | `panel-admin.ts`, `dashboard/panels/actions.ts`, `scripts/aeo-panels.ts` | `aeo_panel`, its versions, the backlog | edit from a version, activate, draft, publish, seed at deploy |
| Panel drafting | `panel-draft.ts`, `panel-content.ts`, `PanelForms.tsx` | the draft on `aeo_panel_backlog`, the domains dismissed | draft, clean, review, publish; suggest domains from finished runs, apply, dismiss, rename |
| Access | `src/lib/access/requests.ts`, `dashboard/users/actions.ts` | `access_request`, `user` | ask, approve, decline, remove |
| Rate limits | `src/lib/rate-limit.ts` | Redis counters | increment, expire, fail open or closed |
| Connectors, ledger, metrics | `src/lib/{connectors,ledger,metrics}` | `data_source`, `metric_value` | sync, derive from the ledger, type in, delete a source |
| Business Watch, suggestions | `src/lib/{watch,actions}` | `alert`, `action_item` | evaluate rules, open alerts, replace suggestions, mail a digest |

The last two rows are an earlier product: no route, script or worker of the
repository calls them any more. They are modelled last.

How they interact. A visitor's link (*requests*) inserts or reuses a row of
`aeo_run`; a worker (*queue*) claims it, plans it from the run's first request
(*planning*), runs the panel (*panel job*) and stores answers; the next worker to
sweep sees a done run and emails its requests (*report emails*); thirty days later
a sweep inserts a fresh run for the lead (*re-checks*), which goes through the
same queue. Meanwhile the dashboard deletes, re-runs and mails (*follow-ups*), the
retention sweep erases, and whoever has a report's link reads it. Nothing calls
anything else directly: the tables are the only interface between the web
process and the workers, and the statements' `where` clauses the only guards.

What is hard: two workers in one table (`FOR UPDATE SKIP LOCKED`, leases that
expire under a worker that is slow and not dead), statements of two READ COMMITTED
transactions interleaving, a worker that dies between two statements or between a
provider's answer and its mark, an answer of the database or the provider that is
lost, a read whose result is minutes old when it is used, deploys that stop a
container while a panel runs, scripts and commands without transactions that are
killed half way, and limits (attempts, daily spend, daily re-checks, requests per
window) counted in one statement and used in another. `PROJECT.json` lists each
under `hazards`, at its line.

What makes each part correct:

- *Queue and worker*: one holder per run; a token exactly while running; no
  question stored twice, no answer lost to a retry; a report counts the answers
  stored for it; refunds never forgive a failed attempt; a finished run is final;
  every run ends; the spend cap.
- *Sampling*: a plan asks as many questions as it should and none twice, and no
  category is passed over; the panel program accepts it.
- *Generated panels*: reading a homepage ends and stops at a refusal; what is stored can
  be asked, names no business and says where; no text is asked twice.
- *Panel job*: a call returns one row for every question and engine, or fails;
  every question is in one place while the panel asks; no process outlives its
  call; an abort is seen whenever it comes; every call ends.
- *Audits*: a paid answer is never lost; a run's totals are those of its rows; three
  programs find the same of one question.
- *Requests*: simultaneous visits do not pay twice; a report fits the request it
  is shown for; a link opened again leads to the same snapshot; no run is left
  without a request, and a deletion leaves no run behind.
- *Report emails*: a second email has a reason; an emailed request is never emailed
  again; no request is forgotten.
- *Re-checks*: no worker starts two for a lead, or more in a day than the ceiling; a
  second email has a reason; links that work; every lead hears back.
- *Follow-ups, retention*: an email can be stopped by its link; nobody is mailed
  after leaving; a client's details stay; an erased lead's copies go.
- *Report page and links*: an emailed link goes on showing a whole report, whoever
  joins its run or is taken from it; who is told to be on the waitlist is on it; deletion removes everything.
- *Panel administration*: a stale edit never overwrites, and every version a panel
  had can be looked up.
- *Panel drafting*: a live panel passes the check of its content whatever was edited
  beside it; what is saved is what its admin saw and chose.
- *Access, rate limits*: a decision is final and somebody is left to make it; a
  limit is neither passed nor enforced too early.
- *Metrics, watch*: the table holds what each source last gave, once; one open
  alert per rule, mailed once.

## 2. Modules

| Module | What it is |
|---|---|
| `RunLifecycle` | abstract: what the queue promises of a run (claimed by one holder, progress, done, failed, refunded, final) |
| `RunQueue`, `RunQueueProofs` | the queue with its workers, statement by statement; implements `RunLifecycle` |
| `SnapshotRequests`, `SnapshotRequestsProofs` | requests, reuse of runs, deletion and re-run as interleaved READ COMMITTED transactions |
| `ReportEmails`, `ReportEmailsProofs` | the report-ready email sweep of several workers |
| `Rechecks`, `RechecksProofs` | the re-check sweep, its emails, unsubscribing |
| `PanelCall` | abstract: what `runPanelJob` promises its caller |
| `VisibilityPanel` | the PHP program's `job` command: its loop, tries and backoff, its result file |
| `PanelJob`, `PanelJobProofs` | `runPanelJob` and the process it spawns; composes `VisibilityPanel`, implements `PanelCall` |
| `Outreach`, `OutreachProofs` | follow-up emails, the unsubscribe page, retention and the admins |
| `ReportLinks` | the report page, what is recorded from it, beside re-runs and deletion |
| `PanelAdmin`, `PanelAdminProofs` | edits, activation, drafts and publishing, beside the deploy script |
| `PanelDrafts` | what is in a panel: its draft, the review, publication, the edits that finished runs suggest |
| `AccessRequests`, `AccessRequestsProofs` | access requests decided by admins who may be removed |
| `RateLimit` | INCR and EXPIRE with their timeouts, under the handlers that use them |
| `Panels`, `QuestionSampling` | the canned panels, and the snapshot taken of one up to the job |
| `GeneratedPanels` | a panel made for one business: its homepage read, its questions cleaned, stored and planned |
| `Audits` | the stand-alone audits over the SQLite store, and the three summaries of a question |
| `Metrics`, `BusinessWatch` | the writers of `metric_value`; the watch that reads them (extends `Metrics`) |
| `MCRunQueue`, `MCSnapshotRequests`, `MCRechecks`, `MCReportLinks` | instances of one module |
| `MCAudits`, `MCWorker`, `MCEmails`, `MCOffice` | several components in one run, see section 3 |

`MCWorker` instantiates `RunQueueProofs` instead of `RunQueue`: the definitions are the
same, and a theorem of the instance can be cited. `PanelJobProofs`, `ReportEmailsProofs`
and `RechecksProofs` extend the module their component runs in.

Each module names what it leaves out in its first comment. In all of them, variables
called *history* record observations that no action reads.

### RunQueue

`row` is `aeo_run`, `result` is `aeo_result`, `panel` the canned panel an admin may
edit, `job[w]` worker w's program counter with the local variables of `tick` and
`processRun`, `stopping[w]` its `shutdown.signal.aborted`. `hist` is history (money
billed, failures recorded, alerts sent).
One SQL statement or transaction is one action; what a worker does between two
awaits belongs to the action before. The actions carry the names of the functions:
`SweepAbandoned`, `ReadSpend` (`spentTodayUsd`), `ClaimNextRun`, `PlanRun`,
`GenerateForRun`, `ReadAnswered` (`answeredQueries`), `PanelReturns` / `PanelFails`
/ `PanelAborted` (the outcomes of `runPanelJob`), `CompleteRun`, `SaveProgress`,
`FailAttempt`, `ReleaseRun`, `Heartbeat`; `RunError`, `StoreUnseen`,
`FailureUnseen`, `ClaimUnseen` and `TickError` are the ways a database call fails,
before or after its commit; `ShutdownRequested`, `WorkerStops`, `Crash`,
`KilledAfterGrace`, `Restart` the life of the container.

Abstractions. `locked_at` is null, "fresh" or "old": all its comparisons with
`now()` ask. `started_at` is never, today or earlier. A lease token is the number of
the claim, so tokens differ as random UUIDs do. A panel is a set of questions and
a result a row per asked question, ok or not; the prose of answers is left out.
Costs are multiples of `AskCost` and `GenCost`. The order of claims (`created_at`)
is the order of run ids. The panel is the outcomes of `PanelCall`, one engine at a time.

### SnapshotRequests

All requests are for one domain, because the advisory lock, the reuse query and
the row locks never relate two domains. `request` and `run` are the committed rows;
`tx[s]` is connection s's open transaction: what it has read, locked and written
and not committed. One statement is one action, and sees what was committed when
it began. `RowLocked` stands for `FOR UPDATE`, uncommitted updates and deletes;
`AdvisoryFree` for `pg_advisory_xact_lock`. `Point` and `DeleteRun` carry the two
effects of the foreign key: a key-share lock on the run that a deletion waits for,
and `ON DELETE SET NULL`. `created` is the transaction's start, as `now()` is in
Postgres. The worker's side is one step per status change.

### ReportEmails

`mail[q]` holds the email columns of a request and whether its run is done;
`report_email_attempted_at` is the whole minutes since, capped at one more than the
longest backoff. `sweeper[w]` is a worker's position in `sendPendingReportEmails`
with the rows it has read: due rows are read once and claimed one by one, which
is where they may be stale. The order (`verified_at`) and the limit of twenty are
left open: any due row may come next.

### Rechecks

`startDueRechecks` is split at its reads: the count, the selection, and per lead a
transaction whose insert is seen only after its commit. `sendRecheckEmails` is
select, conditional claim, token, send, mark. The backoff is modelled by whether
it is over, and it may end (`BackoffEnds`) while the worker that claimed the row still
waits for the provider, whose calls have no timeout. History says who inserted a run
(`by`), which attempts were delivered without being marked (`unheard`: the answer was lost, or
the worker died before its mark) and which were under way when their backoff ended
(`overtaken`). A re-check's run has no request of its own, so what happens to it when
a worker claims it is `PlanFails`, unless a new request of the site has been
pointed at it (`Link`).

### VisibilityPanel and PanelJob

`php[w]` is the process of worker w: the program counter names the part of the code
it is in (`launch` and `read` are the two halves of `runPanel`'s loop), `queue`,
`flight`, `pending` and `rows` are `$queue`, `$inFlight`, `$pending` and the rows
collected by the `job` command. The process is one thread, so a half of the loop is one
action; the engines answer (`Respond`) and waits end (`BackoffEnds`) at any time.
`inFile` and `outFile` are the run's two files; the temporary file is left out, because
nobody reads it. `job[w]` is worker w's call of `runPanelJob`, one await an action;
`stop` is `stopReason`. A signalled process ends at any later step (`Killed`), or
exits by itself before the signal reaches it; SIGKILL adds nothing but the certainty.
`Crash` kills the container with its processes (`init: true`); its files stay.

### Outreach

`lead` is what the queries ask of `aeo_request` and its run, `mail` is
`aeo_mail_send`, `tab[t]` a dashboard request's position in `sendFollowUp`: eligibility
is read (`ReadLead`), the provider called, the send logged, the lead moved on, each
later and on rows that others have changed. Mail n is the n-th send and stands for its
token. `sweep` is the worker between the retention sweep's two statements, `visitor` the
unsubscribe page between its lookup and its update.

### ReportLinks

A public id and its run are one number, and runs are numbered as they are made. A request
starts its run (`StartRun`) or joins the newest one that may be reused (`JoinRun`), be
that a re-run, a re-check's run or a run whose requests a re-run has taken; whether the question
set fits is left open. `page[v]` is what a visitor's request has read so
far: the run row, its oldest request, its answers, each in an action of its own, while
admins re-run and delete, the sweep erases names and workers finish runs. `mark[r]` is
what was recorded against run r, as whether there is any. `latecomers` is history: the
requests that joined a run whose mailed request a re-run had taken away.

### PanelAdmin

One panel. `page[a]` is the edit form an admin has open with the version it showed; an
edit is `Submit` (reads the panel again) and `SavePanelEdit` (the transaction that
compares versions). `script` is `aeo-panels.ts` between its statements, none of which is
in a transaction: read, insert, record the old version, update, record the new one; it
may die between any two. `code` is the definition of the current deploy. What a panel says
is one value here; `PanelDrafts` opens it up.

### PanelDrafts

One panel again, from the backlog on. `draft` is the stored draft with a number of its own,
`live` the row of `aeo_panel` with the domains dismissed, `review[a]` and `edit[a]` an admin's
page of the one and of the other: what it showed, and what became of the form since. A
question is its text, of which the checks need to know: `Askable` (what
`validatePanelContent` accepts), `Draftable` (what `cleanDraft` keeps, which is
less), `Key` (which texts are the same), `Enough` (which sets fill a snapshot). The domains
that finished runs cite are any set at each reading, because runs come and go. Removing a
question is open to the admin whatever its statistics, so these are left out, as are the
backlog's status and the guidance given to the model. `unasked` is history: something was
saved that its admin had not seen or chosen.

### AccessRequests

Every action of the dashboard reads the session once; `task[t]` is what follows:
`approveAccessRequest` looks the user up, writes the user, marks the request, three
statements. `cut` and `crossed` are history: approvals cut off between two of them,
removals that overlapped.

### RateLimit

`check[c][k]` is one call of `rateLimit`, `call[c]` the handler that makes one call for
each of its keys. A timed-out INCR may be carried out later (`LateIncr`): the client
retries for ever. `RestartRedis` loses all counts.

### Panels and QuestionSampling

`Panels` has, of each of the canned panels, the categories of its questions in
file order and the positions its {service} template may coincide with. One turn of a loop of
`fillSlots` and `sampleQuestions` is one action. Which questions of a category are taken
depends on a hash of the domain and is left out; how many does not.

### GeneratedPanels

One run. `scheme` and `hop` are where `fetchHomepage` is, one request an action; `writing`
is what Claude answered, `turn` the question that is cleaned next, `filtered` those kept,
`generated` the column of `aeo_run`, `plan` the positions asked. A question is its
category, what it says but for the place, and which place it says (none, the region, the
city, or the place that `withLocation` adds); the facts the filters ask of its words are
sets (`Unfit`, `Seeking`, `Slotted`). An attempt that fails is followed by another
(`NextAttempt`), which does not generate again what is stored. The model's prompt, its
price, reference domains and the text of the homepage are left out, and the lease is
`RunQueue`'s.

### Audits

`run` and `rows` are the SQLite tables, `term[t]` a command in a terminal between two
of its statements; one client, one other host. `parse` and `Analyze` (the adapters and
`Analyzer.php`) reduce a reply to the facts that count, `PhpQuestion`, `JobQuestion` and
`WebQuestion` are the verdicts of `Report.php`, `Job.php` and `report.ts`.

### Metrics and BusinessWatch

`metric` is `metric_value`, a bag because nothing makes a row unique. `job[t]` is a
sync, a derivation or a deletion of a source between two statements (there are no
transactions), `watch[w]` a watch between its own. `torn`, `crossed`, `silent` and `piled`
are history: whose rows two writers or a failure may have spoilt, and which guarantees
of the watch two watches, a crash or a refused mail have cost.

## 3. Runs

All instances are small because the hazards are: two processes and one row show
every race here, and a retry limit of two has a first, a last and no middle
attempt. Each property of a passing run has a mutant in `PROJECT.json`, a
plausible bug of the code that breaks it within the same bounds, so no bound hides
the case a property is about.

Components that share no rows, or whose shared rows are modelled in a module of
their own, are checked by one run in turn: `part` is chosen in the initial state, a
behaviour is one of that component, and the variables of the others stay as they
began. The rows of the table name the parts.

| Run | Instance | Shows |
|---|---|---|
| `contention` | 1 run, 2 workers, 2 questions, 2 plans, 2 attempts, a shutdown, an edit, all faults | `OneHolder`, `OneRowPerQuestion`, `DoneReportIsSound`, `FailuresArePaidFor`, `AlertsAreTrueAndSingle`, `AnswersKept`; the refinement of `RunLifecycle` |
| `settles` | 1 generated run, 2 workers, 2 questions, crashes, failed calls; `FairSpec` | every run ends; the generated panel is written once; stored cost is covered by what was billed |
| `shared` | 2 form requests, 1 prospect with another site, 2 visitors, 1 admin, 3 run ids, 3 inserting transactions, a re-run, lost connections | fit of reports, reuse, stable links, no run without a request and no deleted request's run |
| `worker` | *panel*: 1 worker, 2 calls, 2 questions, 2 engines, concurrency 1, 2 tries, a crash, every fault, fairness | `OnePlace`, `ProcessObeysItsCall`, every call ends without its timeout; the refinement of `PanelCall` |
| | *cap*: 1 worker, 2 runs (one bypasses the cap), a cap of 1, midnights, crashes, failed calls | no run starts over the daily cap |
| | *generated*: every answer of 3 questions out of 7, a minimum and maximum of 2, 1 redirect, 2 attempts, a city that is and is not named like the business | reading ends, what is stored can be asked, the plan asks it once |
| | *sampling*: every canned panel, every service that coincides with a question, counts 1, 5, 8, 20, 60 and 500 | the plan is whole, balanced and accepted |
| | *store*: 1 question, 2 engines, 7 replies, 2 commands, an edit of the profile | the three summaries agree |
| `emails` | *reports*: 1 request, 2 workers, 3 attempts, 2 crashes, a re-run, lost answers, failed marks, fairness | no unexcused duplicate and none after the mark, no report is forgotten |
| | *followups*: 1 lead, 2 tabs, 2 sends, lost answers, crashes, fairness | links work, leaving is kept, clients' details stay, erased leads' copies go |
| | *links*: 2 requests that start or join runs, 2 runs, 1 visitor, 1 kind of mark | emailed links work, pages are whole, joiners are listed |
| | *limits*: 3 calls, 2 keys, limits of 1, 2 windows, timeouts, a restart of Redis | no limit is passed or enforced early |
| `office` | *rechecks*: 2 leads, 2 workers, 2 slots, a ceiling of 1, 2 attempts, a midnight, all events | one re-check for a lead and the ceiling, for each worker; no unexcused duplicate, working links |
| | *panels*: 2 admins, 2 contents, 3 versions, 1 deploy, the script's deaths | edits are sound |
| | *drafts*: 2 admins, 3 answers of the model, 2 drafts, 3 versions, 2 names, 3 domains of which one is common and one below it | a live panel passes its check, what is saved was seen and chosen |
| | *access*: 2 people, 2 requests, 1 form, 2 admin actions, crashes | decisions are final, admins are trusted |
| | *store*: 2 terminals, 2 questions, 3 commands or 2 and an edit, kills | the store adds up, paid answers are kept |
| | *watch*: 2 sources of one metric, 2 keys, 3 periods, 2 rules, 2 watches | rows, alerts and suggestions are sound |

Deadlock is checked in `contention`, `settles`, `deploy`, `twice` and `unplanned`. In
the other runs the instance really may stop: every request can be deleted or
emailed, every call ended, every bound used up, and nothing is left to happen.

Some passing runs have one actor fewer than the code allows, because the
property fails with more, and the violation runs and the list below say how: one
worker in *cap* and *panel*, one admin in `shared`. In `office` the constraint
`Bounded` keeps the run small: `OneMailed` (sweeps that start re-checks overlap freely, and
once an email is claimed there is one re-check and no worker is starting another, so that the
emails of two re-checks, which share nothing, are not interleaved), `OneGone` (one lead erased or deleted), `TwoAudits`,
`OneReviewed` (once the panel is live, other reviews of its draft are followed no further
than a publication under way, and neither are edits of a panel that had two drafts), and
`OneWriter` (with one source the calls that write metrics follow one another and are
overlapped by watches; with two sources they overlap each other). TLC checks the
properties in a state outside the constraint too and does not go on from it. No property
needs a constraint to hold: what they cut off is proved (section 4).

### Disagreements between the code and what the repository says

Six runs find a property violated that a comment, a doc or a page states:

| Run | Violated | How |
|---|---|---|
| `deploy` | `InterruptionsAreRefunded` | SIGTERM after the loop's test and before `processRun` adds its listener: the listener never fires, the panel runs until the container is killed, and the attempt is used up |
| `race` | `LinkStaysValid` | `deleteRequest` decides on a snapshot, waits for a visit's key-share lock, then deletes the run the visit was just given |
| `twice` | `OneRecheckPerLead` | two workers' transactions do not see each other's re-check, and the index the comment relies on is not unique |
| `unplanned` | `EveryLeadHearsBack` | a re-check's run has no linked request, so planning fails it for good; no fault is needed |
| `goodbye` | `GoodbyeIsForThePerson` | unsubscribing marks the one request the link belongs to; a person with two requests is emailed about the other |
| `deletion` | `DeletionRemovesEverything` | after a re-run or a re-check, deleting the request leaves the run it had before, or the re-check's run, with its answers and its link |

Further disagreements met while modelling. Queue, planning and panel:

- *Daily cap* (`worker/index.ts:229`): two workers may both start a run on one
  reading of the spend. `docs/aeo-build-spec.md:506`: "Enforced in the worker before
  each run". So *cap* has one worker.
- *Concurrency* (`panel/panel.php:530`): questions that come back from their backoff are sent
  whatever is in flight. With concurrency 1, two requests are in flight in *panel*;
  with more questions, as many as are due. `panel.php:466`: "parallel requests (default
  4)". `Room` limits first tries only.
- *One directory for two workers* (`job.ts:142`): with two workers in *panel*,
  `ImplementsPanelCall` fails: a worker writes its job file over the one the other has
  written and its process not yet read, and the other's result answers the wrong
  questions, against `job.ts:136`. Containers have a directory each; workers started on
  one host share the default one.
- *Half an answer at the end* (`worker/index.ts:203`): when the last attempt dies the run
  fails without asking `decideOutcome`, even if earlier attempts stored half.
- *Re-run of an erased request*: the retention sweep clears the business name the job is
  built with, and the panel program refuses a job without one (`panel/src/Job.php:55-58`):
  every attempt fails. `SnapshotsAreSound` excuses it.
- *Names in generated questions* (`generate.ts:170-171`: "no mention of the
  business, its domain"): the names and the length are checked before `withLocation` adds the place. A
  business named like its city is named by every question the city was added to, and a
  question may grow past 200 characters. `PanelIsFit` allows the first.
- *Deadline of a homepage* (`site.ts:16`: "10-second deadline across all hops"): the hops of
  one `fetchPage`. `fetchHomepage` tries http after https, with ten seconds more.
- *Verdicts* (`report.ts:48`): "Mirrors the verdicts in the SaxonAEO audit reports". Answers
  without text are cited or absent in PHP and an error on the web, and PHP's
  order of cases makes `directory` unreachable in `Report.php`. `ReportsAgree` is stated
  for answers with text and takes a directory listing for the name.
- *A killed retry* (`panel/panel.php`): failed rows are deleted before they are asked
  again; a kill loses them, `finished_at` stays, and the run looks finished. Two retries
  of one run ask its questions twice. A retry of a killed run finishes it with the questions
  that were never asked missing. `StoreIsSound` excuses runs that were killed or worked on
  twice; `PaidAnswersAreKept` excuses nothing.

Requests, reports and emails:

- *Two deletions* (`admin.ts:250`): with two admins in `shared`, the deletions of a
  run's last two requests each see the other's request, and both leave the run,
  against `admin.ts:235`.
- *Reuse looks at the newest run only* (`requests.ts:100-101`): when requests of two
  industries alternate, a third run is paid for although the first one is recent, against
  `requests.ts:68-70`. `OneLiveRunPerQuestionSet` excuses a run that is `Hidden` behind a
  later one for other questions, and no other.
- *Re-run, then delete* (`admin.ts:282`): besides `deletion`, a replaced run that was
  still queued fails for want of a request. `Replaced` leaves these runs out of
  `RunsFollowRequests`.
- *Re-run, then read* (`admin.ts:259-260`: "their report links show the new results"): the
  link in an email that was already sent names the old run and goes on showing it, and
  the views, clicks and sign-ups recorded there drop out of the lists, which join the
  new run.
- *Re-run, join, delete* (`admin.ts:247-252`): after a re-run the old run, which a mailed
  link shows (`retention.ts:11-12`: "reports keep working"), has no request left, but
  `attachToRun` may give it to a new one, and that one's deletion deletes the run although
  the request the link was mailed to was never deleted. `EmailedLinksWork` excuses that.
- *Waitlist* (`monitor.ts:82`: "True if it is on the list afterwards"): true is returned
  even if the run was deleted after the page state was read. `JoinersAreListed` excuses
  it. `REACHABLE_REQUEST` takes a run's oldest request, also when that one is erased and
  another is not.
- *Slow provider* (`email/provider.ts:34`): `fetch` has no timeout. With `"slow"` among
  the faults, a call outlasts the backoff and `NoUnexcusedDuplicate` fails, against
  `notify.ts:24`.
- *Daily ceiling of re-checks* (`recheck.ts:12-13, 32-36`): two workers both count before
  either inserts, so that the ceiling holds for each worker and not for all
  (`CeilingHoldsForEach`); likewise a lead's re-checks, with `twice`, are one for each
  (`RecheckedOnceByEach`). The count is of the rows there are, and deleting a lead deletes
  its re-check: that frees a slot of the same day.
- *Unsubscribe during a sweep* (`recheck.ts:114`): `unsubscribed_at` is read with the
  due list and not again.
- *Re-check emailed twice* (`recheck.ts:75-77`: "claimed before sending, so it goes out
  once"): when a send outlasts its backoff (`email/provider.ts:34`), a later sweep claims
  the row again and both emails arrive. `NoUnexcusedDuplicate` names the attempt that was
  delivered unheard, or overtaken.
- *Dead unsubscribe links* (`recheck.ts:121`): each claim replaces the stored hash before
  its own email is out. If the email before was delivered and its answer lost, and the
  retries are refused until the attempts are used up, the only link the lead has is dead for good. So is the
  link of a send that was overtaken. And `emailed_at` may be set for an email whose token was
  replaced meanwhile (`schema.ts:647`). `UnsubscribeLinksWork` is about re-checks of which no
  send was overtaken, and leaves out emails delivered unheard.

Dashboard and limits:

- *Deploy script* (`scripts/aeo-panels.ts:12-13`): panels edited in the dashboard "are never
  overwritten from code", but `editedAt` is read in one statement and the update is another, so an edit
  between them is lost. `EditsAreSound` excuses versions of panels that raced.
- *Draft and review* (`panels/actions.ts:205-208`): the positions an admin kept on one page
  (`PanelForms.tsx:226`: "Review a draft: uncheck anything to leave out") are applied to the
  draft stored when the form arrives, which may be a newer one. `DraftsAreSound` excuses
  the questions of a draft that was replaced, and nothing else.
- *Dismissals* (`panels/actions.ts:72`): the domains dismissed on a page are stored before the
  version is compared, so they stay when the edit beside them is refused as stale.
- *A question's statistics* (`panel-content.ts:94-96, 190`): a stored question counts for the first
  template whose pattern matches it, which may be another one that fits the same text.
- *Approve beside decline* (`access/requests.ts:107-110`): the last update of an approval
  is unconditional and wins over a decline made meanwhile. `DecisionIsFinal` allows
  exactly that.
- *Two removals* (`users/actions.ts:67`): nobody can remove the own login, but two admins
  may remove each other. `SomebodyIsAdmin` excuses overlapping removals.
- *EXPIRE* (`rate-limit.ts:51-53`): an INCR without its EXPIRE leaves a key that never
  goes away. It locks nobody out, because the key names its window (`OverMeansOver`).

The earlier product:

- *A failed sync* (`sync.ts:113-118`): a source put into `error`, be it by a race with
  the creation of a definition, is not active, and the sync of all sources passes over
  it from then on.
- *Gaps* (`sync.ts:46-51`): the window is from the first to the last period that came
  back; rows of periods missing in between are deleted with it. Rows of two sources for
  one period are two readings to the watch and may hide a drop.
- *Derived keys*: the derivation deletes rows of its keys whatever wrote them, typed ones too.
- *Alerts*: an alert is opened before the digest is sent; if the digest is refused, the
  alert is open and never mailed. When the model fails, the open suggestions are
  deleted and none put in their place.
- *One failure stops the rest* (`watch/run.ts:109-113`): a throw for one organization
  leaves the later ones unwatched.

### Fairness

Liveness is checked under fairness only. A worker's loop never blocks: each call it
makes ends (the panel has a timeout, a database call fails), and `restart:
unless-stopped` brings a dead container back, hence weak fairness of each worker's
own steps. `RunQueue` adds: time passes a lease nobody refreshes, days end
(otherwise the spend cap may hold a run forever), and strong fairness of the claim,
because a poll that finds work again and again is eventually not the one that
fails; nothing is assumed of crashes, heartbeats, edits or errors. `ReportEmails`
assumes runs finish (what `settles` shows) and minutes pass. `PanelJob` assumes that
engines answer or time out (`CURLOPT_TIMEOUT`), that waits end, that PHP and the worker
run on and that a signalled process ends; no timeout and no abort need come.
`Outreach` assumes that the sweep runs again and again: weak fairness of its first
statement, and strong fairness of the second, since a worker that dies between the
two comes back and is eventually not the one that dies. `EmailsFairSpec` and
`PanelFairness` are these, each for its part. `Rechecks` assumes the same of its sweeps,
runs and days; there the fairness is used to refute, and more fairness would not help.

## 4. Proofs

Eight modules prove, for every value of the constants, what the runs check on small
ones: every invariant of a passing run is the property of a theorem, and so are the action
properties and the two refinements. What is left to TLC is at the end of this section.

The assumptions are the named `ASSUME`s of the modules, or the operators the theorems
and the compositions assume (`OutreachConstants`, `AccessConstants`, `PanelAdminConstants`,
`RateLimitConstants`, `LinkConstants`, `SamplingConstants`, `AuditConstants`,
`GenerationConstants`, `WatchConstants`, `DraftConstants`): finiteness and types of the
constants, nothing about the code. Where a property needs something the code does not
enforce, the theorem says so in a hypothesis of its own:

| Hypothesis | In | Without it |
|---|---|---|
| `WritesAreAcknowledged` | `CostsWereBilled` | `saveProgress` commits, its answer is lost, and `failAttempt` adds the cost a second time |
| `OneWorker` (queue), `OneQueueWorker` | `CapIsKept`, `CapIsKeptByOneWorker` | two workers start a run each on one reading of the spend; `docker-compose.yml` runs one |
| `OneWorker` (directory) | `PanelJobImplementsPanelCall` | two workers exchange their files; each container has a directory |
| `OneAdmin` | `RunsAreFollowed` | the deletions of a run's last two requests each see the other's request |
| `Quick` | the theorems about `ReportEmails` | a call of the provider outlasts the backoff, and another worker sends too |

Each is a disagreement of section 3, and shown there by a run or by what happens in one.

*Components and compositions.* The runs of several components check a specification in
which `part` chooses one, and a behaviour is one of that component alone: nothing is claimed
about two of them at once. The theorems of `OutreachProofs`, `PanelAdminProofs`,
`AccessRequestsProofs`, `RunQueueProofs`, `SnapshotRequestsProofs` and the component parts of
the other three are about the component's own specification. Components without a proof
module are proved about where they are run: `Audits`, `QuestionSampling` and
`GeneratedPanels` in `PanelJobProofs`, `RateLimit` and `ReportLinks` in `ReportEmailsProofs`,
`Metrics`, `BusinessWatch` and `PanelDrafts` in `RechecksProofs`; their theorems name the
composition's specification, and the first step of each drops to the component.

### RunQueue

*The argument.* `RunQueue` has thirty actions; proofs by cases over them would repeat
each other. `WorkerMoves` and `RunMoves` show that every step is one of a few moves
of a worker's job and one of a few moves of a run's row, and `OthersStay` that all
steps but the abandoned sweep and midnight leave other runs alone. Invariants are
then proved of moves.

*The inductive invariant* `IInv`, in the order its parts are needed:

1. `LeaseInv`: types, tokens of working workers are issued and distinct, a run
   carries a token exactly while it is running, each recorded failure has used an
   attempt. From it `OneHolder`, `FailuresArePaidFor` and `TerminalIsFinal`.
2. `AnswerInv`: between reading the answered questions and storing, a holder's
   `known` is still what is stored (`HolderKnowsAnswers`: only the holder writes
   results, and there is one holder); rows to be stored were asked and not known.
   From it `OneRowPerQuestion`, `DoneReportIsSound`, `AnswersKept`. Without
   `HolderKnowsAnswers` a reclaimed run could get a second row for a question.
3. `AlertInv`: a pending alert is about a failed run nobody alerted before, and is in
   one worker's hands. From it `AlertsAreTrueAndSingle`.

*Costs and panels* rest on it. `CostInv`: what a run shows and what its holder is about to add
is covered by what was billed; a holder that has stored its cost has none left to store
(`JobCostMoves`). From it `CostNeverOverstated`. A worker about to store a panel has seen that
its run has none (`GenerateMove`), and the lease lets nobody else store one: hence
`GeneratedPanelIsKept`. For `CapHoldsAtClaim` one
worker is enough because nothing bills between its reading and its claim (`ClaimSteps`): time
may pass, and a midnight lowers the day's spend.

*Refinement* (`QueueImplementsLifecycle`): the status, attempts, lease, answers and
claim counter of each step are a step of `RunLifecycle` or leave it unchanged.

### SnapshotRequests

*The argument.* What a transaction has read and means to commit stays true of the
committed rows until it commits (`TxFact`); two transactions never hold one request or
insert one run (`Apart`). Steps that change one transaction and no row are one lemma
(`TxMoves`); each commit is shown to leave the other transactions' facts alone.

*The inductive invariant* `IInv` adds to these that the answers of a link share one
root (`RootInv`): the run the first visit was given, or a re-run of it. It is needed
because a re-run moves the request while an earlier answer is already given. From it
`ReportFitsTheRequest` and `SameRunEveryVisit`.

*Runs and requests.* `FollowInv`, under `OneAdmin`: a run that was asked for keeps a
request unless a re-run took them all, and what the admin's transaction has read is still
so when it commits (a run it spares has another request, a run it replaces is older than the
transaction, by `ClockInv`). From it `RunsFollowRequests`. `LiveInv`, with no hypothesis:
the advisory lock lets one transaction between its choice and its commit, and while that one
means to insert a run, every live run that asked the same questions is `Hidden`: the newest
run the reuse query found did not fit (`HasLatest`), and is as new as any of them. A run that is
hidden stays so (`HiddenStays`), because rows keep what they ask and when they began. From it
`OneLiveRunPerQuestionSet`, for any number of visitors, prospects, admins and question sets.

### ReportEmails

*The hypothesis* `Quick`: no call of the provider takes as long as a minute. The
code does not enforce it (`fetch` has no timeout), and without it `OneSender` is false.

*The argument.* A claim is worth one number of attempts. A request in somebody's hands
was counted within the minute, so no sweep reads it as due (`HeldInv`); a row read
before carries a smaller number, so its claim finds no row (`DueInv`). `CountInv`
bounds emails and excuses by the attempts, `ExcuseInv` relates the two. From them
`OneSender`, `NoUnexcusedDuplicate` (no second email without an excuse, none after the mark)
and the bounds in `TypeOK`, for any number of requests, workers, crashes and re-runs.

### RateLimit

*The inductive invariant* `LimitInv` counts. An INCR adds its call to the bucket it finds, so
no bucket shows more than the INCRs carried out, late ones included; and in a window
in which Redis lost nothing, none shows fewer than the calls it let through. So a call that
reads at most the limit is one of at most that many (`LimitsHold`, first part), and one that
reads more is one of more calls than the limit (`OverFits`, second part). A handler that
fails closed never waves a call through.

### ReportLinks

*The inductive invariant* `LinkInv`: once its link is mailed, a request's run can only go
with that request, because it is still its run, or a re-run has taken every request from it and
those that joined it since are latecomers (`MailFits`): it is gone only if one of them was
deleted. A page that has loaded a finished run shows its answers,
unless the run was deleted between two of its reads (`PageFits`). From it `LinksAreHonest`.

### Rechecks

*The inductive invariant* `IInv` needs no hypothesis. A claim raises the attempts it has
read and starts the backoff, so two workers never have one claim of a row (`Apart`), and who
holds a claim has the newest one and its backoff goes on, or the claim is overtaken
(`HoldFine`). An email that is neither unheard nor overtaken is therefore the newest claim's,
and none follows it: its row is marked, gone or about to be marked (`MailFine`). While no
send of a row was overtaken (`Clean`), its stored token is the holder's, and a marked row's is
the one delivered last (`SlotFine`). From these `NoUnexcusedDuplicate` and
`UnsubscribeLinksWork`, with any number of workers sending for as long as they like.

*The second part* `StartInv` is about starting, and needs no hypothesis either, because
it is about each worker's own re-checks: nobody else adds to them, so what the worker
has read stays true of them until its commit. The room it counted and its rows of today do not
exceed `MaxPerDay`, and it inserts no second re-check for a lead that has one of its own. From it
`RecheckedOnceByEach` and `CeilingHoldsForEach`. That the workers together keep neither is
what run `twice` and section 3 say.

### PanelJob

*The argument.* A step of the panel changes one process, so the lemmas come first for one
process, with no state around it: `LaunchIsSound`, `RetryIsSound`, `RowIsSound`
and the others show that what goes into a step sound comes out sound. `Quiet` is what
the rest of the system may see of such a step.

*The inductive invariant* `IInv` has two parts beside the types:

1. `Sound`: the questions of the engine being asked are each somewhere and nowhere twice
   (`Placed`), there is at most one row for a question and engine (`OneRowEach`), the
   engines asked before are done and those to come have no row (`InTurn`). From it
   `OnePlace`, for any number of questions, engines, tries and requests at a time.
2. `Linked`: a process exists only while its call waits, and a call with a reason to stop
   has signalled it. From it `ProcessObeysItsCall`.

*Refinement* (`PanelJobImplementsPanelCall`). `Traced` follows the questions of a call from
the job file through the process to the result file. It holds under the hypothesis
`OneWorker`, one worker to a directory, which the deployment provides (a container
each) and the code does not: section 3 says what happens with two.

### Audits

*The argument.* `StoreInv` has three parts beside the types:

1. `IdsInv`: an id names one row for good, and a retry between its deletion and its inserts
   holds failed rows of its own audit. From it `PaidAnswersAreKept`, with no hypothesis.
2. `CurrentInv`: while nobody edited the profile since the last complete `reclassify`, each
   command under way has read it as it is. From it the part of `StoreIsSound` about verdicts.
3. `WholeInv`: in an audit that was not killed and that no two commands worked on, each
   question has one row, or the command at work still has it to ask, and knows how many
   succeeded and failed so far. From it the counters of a finished audit.

`ReportsAgree` is about one set of rows: `FirstInRank` turns the ranking of `report.ts` into the
order of cases that the two PHP summaries have.

### QuestionSampling and GeneratedPanels

*Sampling.* `SampleInv` follows the loops. `FillInv`: the positions filled so far read like
each position passed, no two alike. `MinimumInv` and `Met`: of every category the minimums have
passed, as many are chosen as they ask for, or all. `RoundInv` and `Even`: after r rounds a
category has had r turns beyond its minimum, or has none left, and those already visited in
a round may be one ahead. When the rounds end by a full plan or by a round without a turn,
`Even` is the balance that `SnapshotsAreSound` promises.

*Generated panels.* `GeneratedInv`: the requests of an attempt are at most those its position
allows (`ReadingInv`), what is kept of the turns so far is fit and no text is there twice
(`FitQuestions`), and nothing is stored before the cleaning is over. A stored panel is
a prefix of what was kept, a plan a set of its positions.

### Outreach

*The argument.* Sends are numbered in the order they begin. A tab that is sending holds a
number that was issued and no other tab holds (`TabsAreNumbered`, `OneTabPerMail`), and
what an inbox or the log has of it is one lead's (`SentIsWhereItBelongs`); so a log entry
belongs to the email that was sent. `GoodbyeInv` says that a lead who has left has the
number reached then, and every send that began later looked before: from it
`GoodbyeIsKept`. `DecisionInv` relates the admin's last decision to the status that the
two automatic writers may change: from it `ClientsKeepTheirDetails`.

### AccessRequests

*The argument.* A request that a task or a form refers to has an address
(`RequestsHaveAddresses`, `ReferredToAreThere`), and every admin but the first is backed by
a request whose approval has ended, is in progress or was cut off (`RoleInv`). While a
single removal is under way, the admin who asked for it is still there (`RemovalInv`). From
these `AdminsAreTrusted`, and `DecisionIsFinal` by cases over the actions.

### PanelAdmin

*The argument.* Four writers add a version, and one lemma (`VersionAdded`) covers them: the
new version is one above those there are, so what the panel `had` below it stays, and the
row that is replaced is recorded by then. For an edit the same transaction records it; for
the script's update it holds because the row it read is still the panel (`RowIsPanel`) and
was recorded before (`RowIsRecorded`). What the script records late was the panel's content
at that version (`RowWasHad`), and a page shows a version the panel had
(`PagesShowVersions`), so an edit that is not stale replaces what its admin saw.

*The inductive invariant* `IInv` asks all this only while nobody raced, plus what holds in
any case: a page being edited has a panel, a draft under review is there, and the script has
a definition to write. From it `EditsAreSound`.

### PanelDrafts

*The inductive invariant* `DraftsInv` adds to `DraftsAreSound` what pages know. A review page
that shows the newest draft shows it as it is, and a draft's number only grows, so a
page is either right or known to be older. An edit page of the live version shows its content
and offers no domain that is listed already; an edit of that version that waits to be saved
was checked, so when no version came between, what is saved passes the check.

### Metrics and BusinessWatch

*The rows.* `MetricInv`: a row keeps the name of its writer until the source is dropped
(`OriginInv`); for a source no two calls overlapped on, the table holds what was last given, once
(`SourceInv`), and between a sync's deletion and its insert exactly the rows it will write are
missing (`Opened`); what was typed in is there (`TypedInv`), and what the ledger says is what
was last derived (`LedgerInv`). A bag has no set theory of its own in the library, so the
proofs carry a row and its multiplicity.

*The alerts.* `AlertInv`: the alerts of a rule, open and closed, are those mailed and those in
the hands of a watch that has yet to mail. From both `WatchIsSound`, for any sources, calls, rules
and watches, excusing the overlaps and failures that section 3 lists.

### Only model-checked

Liveness under fairness: `EveryRunSettles`, `ReportsAreEmailed`, `EveryCallEnds`,
`ErasedCopiesGo`. The prover has neither fairness nor ENABLED. Neither has it induction over data:
what a recursive function computes for every input stays with TLC, and sums are proved
about only where one step of the definition is enough (`NothingSums`). No module uses a
RECURSIVE operator.

That the canned panels satisfy `SamplingConstants` is evaluated by TLC, for all of them.

## 5. Not modelled

`PROJECT.json` has each part with its reason.

- *Scan requests*: insert, notify, list, delete and sweep of one table, each a single
  statement; nothing interleaves that a property could be about.
- *Sessions and sign-in*: better-auth keeps the state.
- *AI text and business reports*: calls and formatting without state.
- *Audit log*: append only.
- *Website and content*: pages.

Parts that are modelled in part leave out: of the worker, sleeping and `EXIT_WHEN_IDLE`; of
reading a site, which addresses are refused, bodies, deadlines as times and the text of a
page; of requests, the form's validation and
`normalizeDomain`; of lead administration, lists and the audit log; of the panel program,
what goes over the wire and the printing commands; of sampling, the hash that orders a
category; of the report page, its layout, the gap and rival lists and the dashboard's page
of a run; of the earlier product, HTTP, parsing CSV, the chart of accounts, the ledger's
own reports, insights and what becomes of answered suggestions. Of the schema the tables of the
modelled components are there, with their defaults, cascades and the unique indexes
that matter.

What the models abstract from throughout: one site, panel, client or organization at a
time, where the code's locks and queries never relate two; wording; and time, which is
only as fine as its comparisons.

## 6. Plan

Done: `RunLifecycle` and `RunQueue`; `SnapshotRequests`; `ReportEmails`; `Rechecks`;
`PanelCall`, `VisibilityPanel` and `PanelJob`; `Outreach`; `AccessRequests`; `PanelAdmin`; `RateLimit`,
`ReportLinks`, `QuestionSampling`, `GeneratedPanels`, `Audits`, `PanelDrafts`, `Metrics` and
`BusinessWatch`, each with its proofs.

What would come next, in this order:

1. `RunQueue` and `Rechecks` composed, once a re-check's run can be planned: then
   `EveryLeadHearsBack` should hold instead of being refuted.
2. `RunsFollowRequests` without `Replaced`, once `createRerun` keeps track of the run it
   replaces.
3. The statuses of runs in `SnapshotRequests` and `ReportLinks` shown to be those of
   `RunLifecycle`, with deletion, so that the three models are known to agree on them.

# A TLA+ model of OpenProgram's check-in core

OpenProgram asks each developer for a daily status in chat, reads the replies,
nudges and escalates when none comes, and turns the result into one status per
developer and day. From that day follow asks between members, writes to the issue
tracker, blockers and reports. This directory models the parts of the backend that
must get this right when workflows overlap, processes stop, messages are repeated,
people answer late, and others change the tracker meanwhile.
Paths below are relative to `src/backend/` unless they start with `docs/`.

## Inventory

### Components, their state, and how they interact

| Component | Where | State it keeps | Operations | Hard behaviour |
|---|---|---|---|---|
| Check-in dispatch | `infra/workflows/daily_checkin.py`, `checkin_fanout.py`, `adapters/workflows/dbos.py` | `checkin_schedule_runs`, `checkins`, `checkin_correlations` | plan (fan-out, reconcile, admin), start step, launch of the nudge workflow | overlapping dispatches, crash and retry inside a durable step |
| Send-once guard | `infra/adapters/chat/send_once.py`, `slack.py` | one Redis key per idempotency key | claim, get, put, release | expiring claims, non-atomic release, posts of unknown outcome |
| Inbound reply intake | `infra/registry.py`, `core/application/reply_ingestion.py`, `infra/persistence/postgres_inbound.py` | `inbound_chat_events`, coalesce workflows, dead letters | append, arm, drain, sweep | lost arms, concurrent drains, poisoned conversations |
| Check-in lifecycle | `core/application/status_collector.py`, `infra/workflows/nudge.py`, `task_update_service.py`, `self_status_service.py` | `checkins.replied_at`, `consumed_at`, held signals, clarification counts, `checkin_nudges`, `developer_statuses` | handle reply, clarify, finalize, recover, nudge, close out, console edits | reply against close-out, crash between the finalize and the status, stale reads before writes |
| Cross-person requests | `core/application/cross_person_service.py`, `core/domain/cross_person.py`, `infra/persistence/postgres_cross_person.py`, `infra/workflows/git_sync.py` | `cross_person_requests`: status, attempts, back-off | record, refresh, settle, notify, retry, reply, console act, resolve after a merge, clean up copies | claims, copies of one ask resolved at once, passes over stale lists |
| Write-back | `core/application/writeback_service.py` | `writeback_audit`, the correlation's advisory lock; the issue itself lives in the tracker | claim, answer, expire, console move, suggest, revert | reads that are stale when written, moves whose answer is lost, reverts at once |
| Day report | `core/application/day_report_service.py`, `infra/persistence/postgres_reports.py` | `day_reports`, `day_report_runs` | save, remove, scheduled pass, send now | passes that overlap, edits of zone and time in between, crash after a claim |
| Fill day | `core/application/fill_day.py` | `developer_statuses` | the pass | a day answered while the pass reads, an ask in flight, one person's failure |
| Blockers | `core/domain/blockers.py`, `core/application/blocker_lifecycle.py`, `blocker_settlement.py` | `developer_blockers`, the list in `developer_statuses` | open, reconcile, persist, close out, settle, revise | two derived lists, locks in opposite orders, rows read before a transaction |
| Read sync and schedules | `core/application/sync_services.py`, `infra/workflows/schedule.py`, `dispatch.py` | cursors, schedules | tick, run, supersede | superseded ticks, queues |
| Rollups | `core/application/rollup_service.py`, `infra/workflows/rollup.py` | rollups | refresh | debounce, staleness |
| Forecast, risk, hygiene, readiness, delivery, impact, timeline, ask, portfolio, baselines, gates | `core/application/*.py` | snapshots and settings | compute and store | mostly sequential computation over read data |
| Connections, secrets, auth, directory, LLM and tracker adapters, API, front ends | `infra/adapters/`, `api/`, `src/frontend*` | credentials, sessions | I/O | provider I/O |

Calls and shared state: the fan-out workflow starts one check-in workflow per
developer, which runs the start step and then starts the developer's nudge
workflow. The start step sends through the chat adapter (send-once) and leaves
the rows that a reply is later matched to. A webhook or socket event is appended
to the inbound buffer, which arms a coalesce workflow; its drain runs the reply
pipeline, which finalizes the check-in the nudge ladder is waiting on. The
ladder, the pipeline, the console and the fill-day pass all write the developer's
day. A finalized reply also reconciles the person's blockers, records and settles
asks of other members, and claims or answers moves of issues; a reply of the
person asked, a button, or a merge seen by the repository sync resolves an ask,
which in turn settles the blockers that waited for it. Reports are sent from the
days and rollups on a schedule of their own. All of them share PostgreSQL rows;
apart from a statement's own row locks and write-back's advisory lock there is no
lock, and each await is a point where another one runs.

### What makes each part correct

* Dispatch: one check-in per developer and day; a recorded run stands for a sent
  check-in; a sent check-in is followed up; every dispatch ends.
* Send-once: duplicates only where a claim expired or an outcome was unknown; a
  recorded id stays; every call ends.
* Intake: nothing buffered is lost; nothing is marked that was not processed;
  messages keep their order.
* Lifecycle: a reply is recorded once and reaches the status; silence becomes a
  status and never hides an answer; what a person stated in the console stays;
  no rung of the ladder sends twice; the ladder ends.
* Cross-person: an attempt at a DM has one sender; a requester hears of an ask, once,
  and not before its copies are closed; cleaning up copies never drops the ask.
* Write-back: every move has its row; a yes moves the issue once, in however many
  places it is given; a write is reverted once, and refused only if it was.
* Day report: a report reaches a destination once for its local day; a removed report
  stays removed; a claimed run is recorded.
* Fill day: an answer is not filled over; "not reached" is true; everyone gets a day.
* Blockers: what is stated stays open; what is settled stays settled unless it is
  stated; the status does not list what is cleared; no transaction waits forever.

The hazards, each at its line, are in `PROJECT.json`.

## The modules

Each component is one module, its theorems, where it has them, a second (`...Proofs`)
that extends it, and an `MC...` module that only names the finite sets its configurations use. All of them
are written the same way: `pc` (or `stage`) says between which two awaits of the code
an actor stands, one action is one read or write of a shared row with the local work
that follows it, and a crash puts the actor back where the workflow engine would
begin again. History variables only remember what happened; no guard reads one.
A definition commented "Faulty variant" is never part of a specification: it is the
definition below it with a bug put in, kept so that each property can be seen to
fail when the code is wrong in the way the property is about.

### `SendOnce`: one idempotency key, one message

`infra/adapters/chat/send_once.py` and `SlackChatAdapter.send_dm`. `key` is the Redis
value (nothing, a claim that does not say whose, or the message id). A sender claims
(`SET NX EX`), polls while refused until it finds an id or its deadline passes, posts,
and records the id with an unconditional `SET`, or releases the claim after a failure
in two Redis calls. `Lapse` is the expiry of a claim under a dead or a slow sender,
`PostUnknown` a call that raised after its message had landed, `Die` a process that
stopped. Left out: the day-long expiry of a recorded id, and other keys.

### `CheckinStart`: asking one developer on one day

`checkin_fanout.py`, `daily_checkin.py` and the workflow body in `dbos.py`. A dispatch
is one planned workflow with a correlation id of its own; fan-out, reconcile pass and
admin route differ in what they look at when they plan. The durable step looks for
the day's run, looks for its own check-in, posts the message, and records its id, the
check-in, the correlation and the run, in this order, one await each. A fault at any
of them starts the step again or uses up the engine's attempts. Around it go replies,
ladders that end, and edits of the check-in days. Reminders and what a reply says are
left to `CheckinLifecycle`.

### `ReplyIntake`: from the provider to the reply pipeline

`infra/registry.py` (enqueue, coalesce workflow, sweeper), `reply_ingestion.py`
(`drain_conversation`) and `postgres_inbound.py`. An event is a row and, if it is the
earliest of its burst, the name of the coalesce workflow that drains the burst. A
drainer lists all unprocessed rows of the conversation, gives them to the pipeline as
one reply, marks them, and looks again, up to two nested bounds on passes; the sweeper
does the same for conversations with rows past the grace window, and records dead
letters first. Nothing makes drainers exclusive, as in the code. The pipeline is one
step that succeeds or raises.

### `CheckinPromise` and `CheckinLifecycle`: one asked check-in to its end

`CheckinPromise` says what a check-in promises, whoever keeps it: it is answered once,
maybe after it closed; it does not stay open; one receipt at most; each rung of the
ladder is decided while the check-in is open and sent at most once, lower rungs first.

`CheckinLifecycle` is the code that keeps it: any number of drains in the reply
pipeline (`process_inbound_message`, `handle_reply`), the nudge ladder and its close-out
(`dbos_nudge_workflow`, `send_escalation_step_activity`,
`close_checkin_non_response_activity`) and the console (`self_status_service.py`,
`task_update_service.py`).

| Variable | In the code |
|---|---|
| `inbox` | the rows of `inbound_chat_events`, coalesced |
| `turns`, `refused` | conversation turns of the correlation; the recorded "no status in that" answer |
| `replied`, `held` | `checkins.replied_at`, `checkins.signals` while open |
| `clarifs` | rows of `checkin_clarifications` |
| `consumed` | `checkin_correlations.consumed_at` |
| `day` | who gave `developer_statuses` its row: a finalized reply, a partial one, the console, or nobody ("silent": inferred, stale or unknown) |
| `acks`, `posts` | receipts and rungs that reached the chat |
| `nudges` | rows of `checkin_nudges`, the claim of a rung |
| `pc`, `batch`, `asks`, `rung`, `kept`, `console`, `seen` | locals of the running code: what was read and is used after an await |
| `told`, `early`, `heard`, `crashes`, `acts` | history and bounds |

What the language model reads in a reply is a choice between no status, one that
needs a follow-up, and one that is enough. `Record` is `record_checkin_reply_once`, the
only conditional write and so the point where concurrent finalizers are told apart;
`Finalize(a)` is shared by drains and the close-out as the function is. A day that an
earlier check-in closed is one of the initial states. Left out: what has a module
of its own (write-back, cross-person requests, blocker rows), and the text of
everything said.

The abstract check-in is `INSTANCE CheckinPromise` with `phase` read off `replied` and
`consumed`, `going` off the ladder's place, `receipts` and `notices` as they are.
`KeepsPromise` is the whole of it with its fairness, `StepsKeepPromise` its safety part.

### `CrossPerson`: asks between members

`cross_person_service.py` over the statements of `postgres_cross_person.py`. A row is a
request; rows with the same `Ask` are copies of one ask, which the code finds by
comparing texts (`same_subject`) and the model is given. A worker runs one service call
at a time: a check-in that records a request or settles it from what its person
chose, a retry pass, the reply of the person asked, an act of either in the console,
or the pass after a repository sync. `me[w]` holds the locals that the call keeps over
its awaits: the request it works on, the rows it has listed and the attempts it read
there (`queue`), the copies it has yet to close (`todo`), the time it will write
(`stamp`). Statements that are conditional in SQL are conditional here on the row at the
time of the statement (`Claim`, `Refresh`, `Resolve`), everything else on what was read.
Time is the ordinal of check-ins, which is all `created_at` and `updated_at` are
compared for. Of the history variables, `resolvedAs`, `shut` and `byHand` keep how and when
a request was resolved, `beside` its copies that were open then, `silent` and `behind` whose
resolution told nobody; `raced`, `touched` and `lost` are the occasions on which a requester
may go untold. A DM is one step, since its send-once key is the subject of `SendOnce`.

### `WriteBack`: moving one issue, and moving it back

`writeback_service.py` for one issue of one person. `issue`, `mine` and `openMR` are in the
tracker, where people change them between any two steps (`People`); `audit` is the
append-only table that every decision is read from; `lock` is the advisory lock of a
correlation, which answers take and claims, console moves and reverts do not. A call
goes through `find`, `lock`, `check`, `read`, `merge_requests`, `move` and `record`, or through
`undo_check`, `undo` and `undo_record`, one request or statement to a step; the move in the
tracker and its row are two steps, and a crash or a lost answer may come between
(`lost`). Left out: the comment, the copy of the issue in OpenProgram, and how texts are
read into a state or a yes.

### `DayReport`: a report once a day

`day_report_service.py` and `postgres_reports.py`. A worker is a dispatch pass, a "send now"
or a save; `Remove` is one statement with its cascade. A pass lists the definitions once and
works on that list while reports are edited and removed under it; the claim of a report's
day is the unique insert into `day_report_runs`, then the report is built, delivered to one
destination after the other, and its run recorded. `Day` and `Due` are computed from hours
in UTC and the definition's zone, so that an edit of the zone in between changes which
day it is. Weekdays, the day's note and the report's contents are left out.

### `FillDay`: a day for those the check-in did not reach

`fill_day.py`: the pass picks one person after the other, reads the status, then the run,
then (the tracker and Git being slow) writes the day. The check-in of the same people is
reduced to the rows the pass reads (`ask`, `run`, `day`): in particular the moment between
the message and the record of the run, which `CheckinStart` has in detail. A step that
raises ends the pass, as a crash does: who is left waits for the next tick. Several names
carry "fill" because the theorems of this module and of `SendOnce` stand in one.

### `Blockers`: rows and the list derived from them

`blockers.py` (reconciliation), `blocker_lifecycle.py` (the one path by which writers reach
the rows), `blocker_settlement.py`, and the two transactions of `postgres_status.py`.

| Variable | In the code |
|---|---|
| `rows` | `developer_blockers` as committed, by id: wording, state, `updated_at` |
| `status` | the list in `developer_statuses`, of the day and of the one before |
| `me` | a call's locals: the list and rows it read, the rows it will write, those it has written and so locks, the day whose status it locks |
| `endedAt` | when the request or merge request that a wording waits on ended |
| `now` | the time of transactions (`now()` of PostgreSQL) and of ended waits |

A writer reads the status, then the open rows (`Prior`, with shim rows of a legacy status),
reconciles outside of any transaction (`Reconcile`), and writes status and rows in one
transaction, statement by statement. What a transaction has written is locked and
unseen until `Commit`; a statement that needs a locked row waits (`Free`), a second open row
of a wording breaks the unique index (`Taken`), and of transactions in a deadlock the
database ends one (`Victim`). A settlement reads the open rows last stated before their wait
ended, then resolves those that are unchanged, then revises the status.

## The runs

| Run | Instance | Shows |
|---|---|---|
| `send_once` | three senders; 9,601 states | duplicates of a message are bounded by expired claims and unknown outcomes; a recorded id stays while no send outlasts its claim; every call ends |
| `checkin_start` | a fan-out and a reconcile dispatch, an edit of the days, two faults per step with two attempts; 186,822 states | a recorded run stands on a posted check-in; resends are bounded by lost ids; an orderly day asks once; an unfaulted check-in is followed up |
| `reply_intake` | two messages of a conversation in any order of arrival, with and without the sweeper, one pass per call and two calls, two lost arms, errors or crashes; 234 thousand states | nothing overtakes, everything is processed |
| `checkin_lifecycle` | one reply, two drains, two rungs, one follow-up, one console act, one crash; 4,112,646 states | a closed day has a status; nobody heard of is nudged; answers from before the close-out stay; every step is one the promise allows |
| `checkin_lifecycle_ends` | two replies, one drain, one rung, one follow-up, one crash, fair; 87,930 states | the whole promise with its fairness; an unfaulted reply reaches the status |
| `checkin_lifecycle_lost` (expected to fail) | one reply, one crash, fair | a recorded reply whose status is never written |
| `cross_person` | two copies of one ask, two workers with different calls, two attempts, one check-in to come, one crash or failed DM; 5,032,155 states | an attempt has one sender; a requester hears of an ask once, after its copies are closed, and does hear of it unless calls raced or it is behind a silent resolution; the cleanup keeps the ask |
| `write_back` | three states of the issue, two workers, three calls, one change by people, one lost answer; 1.26 million states | every move is audited; a yes moves once; a write is reverted once unless two reverts overlap |
| `write_back_refused` (expected to fail) | one worker, five calls | a revert refused as already made, of a write that was not reverted |
| `day_report` | one report, two destinations, two workers, three calls, definitions in two zones, two-hour days, one crash; 1.45 million states | once a destination and local day; a removed report stays removed; an unfinished run is in hand or was cut short |
| `fill_day` | two people, one of them away, two passes, one console act, one fault; 249 thousand states | an answer is filled over only under a pass; "not reached" is true; everyone due gets a day |
| `blockers` | two wordings, six ids, two workers, one call of each or two of one, one crash; 369 thousand states | a restated blocker is not settled; a settled one is not reopened by a call that carried it; a cleared one is listed only after a race; every call ends |

"Expected to fail" runs state what a comment or a document says; each comes with a
counterexample, described under Findings. All others pass.

Why the bounds are enough. Every hazard here needs two actors, or one and its retry:
two senders race for a key and a third sees what they leave; a fan-out overlaps with
one reconcile pass; two drains of a conversation overlap, and the ladder and the
console are two further actors of their own. A single crash may hit any actor between
any two awaits, and the second fault of `checkin_start` reaches exhausted attempts.
Two rungs are needed for order among them, and with a cap of one follow-up there is
a last one. Two replies are needed for a late one beside one in time: `checkin_lifecycle`
has one reply and all the interleaving, `checkin_lifecycle_ends` two replies and the
fairness, each with the rest reduced so that the run stays short. In `cross_person` two
requests are an ask and its copy, and two attempts are a first and a last one; a request
that is `behind` another takes a third copy, with two workers too much for a run. The theorem
covers it, and its invariant `QuietInv` was checked on three requests with one worker as well
(14,579,409 states). In
`write_back` three calls are a claim, its answer and whatever disturbs the answer, or two
reverts and the write before them; the wrong refusal takes five, in a run of one worker.
In `day_report` two hours make a day, so that each of the two hours is in another local day
for one of the two zones; the third call is a save that brings a removed report back. In
`fill_day` the person listed first is the one passed over. In `blockers` six ids are two shims and as many new ones
as two calls can use. Workers and people that
do the same are a symmetry set where no liveness property is checked and no set of calls
tells them apart. The proofs carry the safety properties to all other values.

`CHECK_DEADLOCK FALSE` stands where the system may stop for good: a day that is over,
a conversation that is drained, calls that are used up. `SendOnce` says by `Finished` when it
may stop, and its runs look for deadlocks.

### Fairness

* `SendOnce`: a live sender keeps running, Redis does expire a claim, and a refused
  sender's deadline comes however often it polls (strong fairness, since polling turns
  the action off and on). A sender may die at any point.
* `CheckinStart`, `CheckinLifecycle`: DBOS runs a started workflow to its end, through
  crashes. Nothing forces a reply, an edit, a console act or a crash. A request in the
  console that has read is answered.
* `ReplyIntake`: the same for coalesce workflows and for time passing; the sweeper is
  fair only in the deployments that schedule it (`sweeping`), since whether it is
  scheduled is a choice of the initial state.
* In `CheckinLifecycle` a drain is fair whether or not its workflow was armed: what a
  lost arm does is the question of `ReplyIntake`, and its answer is taken from there.
* `FillDay`: the schedule fires again and again, and a pass that has begun goes on. The
  tenant's switch is not forced: `EveryoneGetsADay` is about one that stays on.
* `Blockers`: a call that was begun goes on; a statement that waits for a lock goes on when
  the lock is free, and PostgreSQL does end one transaction of a deadlock.
* `CrossPerson`, `WriteBack` and `DayReport` state no liveness: what would make their work
  complete (an administrator, a person's answer, the next sync) is nothing the code
  schedules.

## Findings

* `checkin_lifecycle_lost`: a crash between the record of the reply and the write of the
  status loses the status: the retry is answered "duplicate" before it reaches the
  recovery written for this case. Without a crash the status is always written
  (`UnfaultedReplyReachesStatus`).
* `write_back_refused`: `_already_reverted` looks for a reverted row of the same correlation
  and issue with the state to go back to, not for a revert of the row in question. When a write
  is reverted and the same check-in's next claim is applied from the same state, the
  revert of the second write is told that it was made already.

A further disagreement shows with three copies of an ask, and so has no run of its own.
`_told_about_a_copy` asks whether a copy was resolved, not whether its requester was told.
Let A be resolved and its requester told, and an older B, whose person was named only later, be
resolved after it: silently, for A. B's `_close_repeats` then closes a copy C that was made
after A's notice, or C is resolved by itself and is silent for B: nobody is told of C. The
comments say that the requester "was told about the request itself, so not again here"
(`cross_person_service.py:159`) and that a notice from before a request was made "said
nothing about this one" (`:381`). It came out of the proof of `QuietOnlyIfRaced`, which did
not go through before such requests (`behind`) were named in it.

What the code leaves open, and no comment claims otherwise, is in the properties' own
conditions, so that each says exactly how far the code goes:

* two calls of `release` can delete an id recorded in between, if the send outlasted its
  claim (`PromptIdStays` is about sends that did not);
* dispatches that overlap, or run out of attempts, ask twice (`OrderlyAsksOnce`); a crash
  after the check-in is recorded leaves it without a ladder (`UnfaultedIsFollowedUp`);
* the sweeper ends its step with the first conversation that raises, so what is buffered
  is processed where every reply can be (`BufferedIsProcessed`, over conversations that
  are not in `Poison`, of which its run has none);
* a close-out that began before the console's answer, or has replies without status from
  the chat, replaces it (`AnsweredBeforeCloseStays`);
* two resolutions of an ask that overlap may each take the other for the one that was told
  (`QuietOnlyIfRaced`); two reverts that overlap both move (`RevertedOnce`); a save that looked its
  report up before a removal brings it back (`RemovedStaysRemoved`);
* an answer given while a pass has already read the day is filled over
  (`AnswerFilledOverOnlyIfRaced`), and someone whose ask is between its message and its row
  is called not reached (`NotReachedIsTrue`);
* a status written from rows that were read before a settlement lists what was
  settled (`ClearedIsListedOnlyIfRaced`).

## The theorems

For every value of the constants that their assumptions allow (finite sets where
something is counted, positive bounds), TLAPS proves what follows. None of the properties is
inductive alone; each module has an invariant that says what the calls under way still
hold.

* `SendOnceFillDayProofs`, on `SendOnce`. The inductive invariant is an account: messages posted, sends
  under way that are unposted, and a free key together never exceed one, plus the
  expired claims, plus the unknown outcomes. The bound on duplicates alone is not
  inductive, since it does not say how many senders may still post. A second
  invariant, that the holder of a claim is alone while no send has outlasted its
  claim, gives `PromptIdStays`. On `FillDay`: `UnderThePass` says that an answer, or an ask
  that is out, which a pass past its look would write over came there while that pass held
  the person; `AnswerFilledOverOnlyIfRaced` and `NotReachedIsTrue` follow.
* `CheckinStartProofs`. `Grounded` says for each place in the step what the awaits before
  it have left; with it a recorded run and a ladder always stand on a posted check-in.
  `Serial`, on an orderly day, adds that one dispatch at most is in its step and that
  any other message belongs to the recorded run, and gives the one check-in of
  that day and the run that stays. `LastIsKept`: a message beyond those whose ids were lost has
  its id on record, or is about to, which bounds what is posted again (`ResendsArePaidFor`).
* `ReplyIntakeProofs`. A batch about to be marked was handled; a batch holds every
  earlier message that no pipeline has taken. The second is what makes messages keep
  their order although drainers overlap. `Counters` (a pass or an attempt under way is one of
  those the bounds allow) keeps passes, calls and attempts within their types.
* `CheckinLifecycleProofs`. Six conjuncts, each kept by a lemma of its own:
  `OneReceipt` (one actor at most is on its way from the record to the receipt),
  `StatusFirst` (whoever is about to consume knows of a status), `RungsInOrder` (a sent
  rung was claimed, claims follow the ladder, and only an ended ladder leaves a
  closed and unanswered check-in), `StillHeard`, `ReplyOnRecord` and `SeenBeforeClose`.
  From them follow `ClosedDayHasStatus`, `HeardIsNotNudged`, `AnsweredBeforeCloseStays`
  and `StepsKeepPromise`, the safety part of the refinement, with one lemma per action
  that the abstraction sees.
* `CrossPersonProofs`. One lemma says what any step may make of a request's row (`Flow`) and
  where it takes a call (`GoesOn`, `Paths`), and the invariants are kept by that lemma and not
  by the twenty actions. `Counted`: an attempt that a sender holds is one the row
  counts, so the next claim has another number (`AttemptIsHeldOnce`). `CopiesInv`: of the copies
  that were open at its resolution, a call has closed each or has it on its list
  (`NoticeAfterCopies`). `HeardInv`: of two copies whose requester was told, or is about to be by a
  call that found nobody told, one was resolved before the other was made
  (`HeardAtMostOnce`). `SurviveInv`: what a pass will dismiss has a later copy, and an ask
  that names its person has one, as late, that is not dismissed (`AskSurvives`). `QuietInv`: a
  resolved request is one whose requester knows of it, or is behind a silent resolution, or has
  its caller yet to look; a resolution that was not silent is known of as late as it was
  written, and no two calls look at copies of one ask at once while nothing raced
  (`QuietOnlyIfRaced`). `AskSurvives` assumes that rows which are there from the start were made
  at different times (`CreatedBefore` injective); rows made later are, by the clock.
* `WriteBackProofs`. `CallsAreOrderly` (what a call at a place is about), `AnswersHoldLock`
  (an answer past its lock holds it), `NothingYet` and `OnePerKey` (who will settle a proposal
  found nothing that had, so it gets one row: `AnsweredOnceCorrect`), `YesNotYet` (so its yes moves
  once), `RevertsKnowTheirRow` and `InTurn` (a revert past its check finds its row not undone, while
  reverts do not overlap) and `CountInv` (moves counted against rows and calls in
  flight).
* `DayReportProofs`. What was delivered and the runs in hand are `Items`; `CallsAreNumbered` and
  `ItemsAreNamed` give them names that nobody reuses, `ReportsAreKnown` their reports, `RowsStand`
  says that each keeps its row while its report stands, and `OneRunADay` that scheduled
  items of one report and day are of one run, which the unique row of the day gives. `ScheduledOnce` follows; `UnfinishedIsInHand`
  and `RemovedStaysRemoved` have an invariant on the run or definition that a call holds.
* `BlockersProofs`. Each action is brought to one of seven shapes by what it makes of its call
  (it ends, starts, reads, plans, selects, goes on or commits), and the invariants are kept
  shape by shape. `OneKeyAnId`: an id never stands for two wordings, among rows and what calls
  hold. `RowsAreLocked`: no two calls have written one row. `SettledInTime`: what a settlement
  resolves was last written before its wait ended and is, once written, as it was
  read (`RestatedStays`). `OpensItsOwn`: a row to be opened is what the call is about, or
  of an id only that call has (`SettledStaysSettled`). `Listed` follows a call that nothing
  overlapped: what it read is what is there (`ReadsInv`), what it will list is open once it
  commits (`SaysInv`, `WriterInv`), what a settlement lists is the status without the rows it
  resolved (`RevisesInv`), and one call at most holds a day (`DaysAreLocked`); with it what is
  cleared is listed only after a race (`ClearedIsListedOnlyIfRaced`).

Every invariant and every action property of a passing run is proved. Only model-checked is
liveness, which is beyond the prover: `EveryCallEnds` of `SendOnce` and of `Blockers`,
`UnfaultedIsFollowedUp`, `BufferedIsProcessed`, `UnfaultedReplyReachesStatus`,
`EveryoneGetsADay`, and the fairness of `KeepsPromise`. `AnsweredOnce` of `WriteBack` is proved and not among the runs' properties; nor are some of
the older theorems (`LaddersAreGrounded`, `OrderlyRunsStay`, `NothingIsLost`, `ReturnMeansPosted`).

## What is not modelled

* Read sync and schedules, rollups: superseded ticks, queues of runs and the debounce of
  refreshes. They recompute from stored data; planned next.
* Forecast, risk and delivery analysis, ask and narrative briefs: sequential computation over
  rows that others write, and text; there is no protocol between writers.
* Connections, secrets, auth, directory; tracker, calendar, LLM and report adapters: requests
  to providers, whose outcome is a choice in the modules that use them.
* HTTP API and the web front end: routes call the services, and those that change a check-in,
  a request, an issue or a report are actions of the modules; views keep nothing.

The greater part of the source by lines is in these components, in data types, and in what
the modules take as a choice: prompts and the reading of answers, wording, formatting and
the layout of messages.

What joins the modelled parts is abstracted from both sides: a send is one step in
`CheckinStart` but for the id it records, and one step in `CrossPerson`; the ladder is one step in
`CheckinStart`, the reply pipeline one step in `ReplyIntake`, the check-in a few rows in `FillDay`; a
finalized reply begins calls of `Blockers`, `CrossPerson` and `WriteBack`, each of which takes its
inputs as a choice, and the end of a wait in `Blockers` is a resolution or merge of
`CrossPerson`.

## Plan

1. `SendOnce`, `CheckinStart`, `ReplyIntake`, `CheckinLifecycle` with `CheckinPromise` (done).
2. `CrossPerson`, `WriteBack`, `DayReport`, `FillDay`, `Blockers` (done).
3. The theorems on every safety property of the runs (done).
4. A composition of `CrossPerson` and `Blockers`, where the resolution of an ask is the end
   of a wait; and of `CheckinStart` and `CheckinLifecycle`: two open check-ins of one developer,
   where an unthreaded reply is ambiguous and is dropped.
5. Schedules: superseded ticks and the queue of sync runs; rollup debounce.

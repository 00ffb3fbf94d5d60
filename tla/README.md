# Cocopilot: specifications and proofs

Cocopilot is a coordination server for coding agents. It keeps projects, tasks
and leases in one SQLite file and serves an HTTP interface; agents ask for
work, hold a task under a lease, send heartbeats, and complete or fail it.
Everything runs in one process: each request has its goroutine, and a handful
of tickers run beside them. A SQL statement is atomic, and so is a transaction;
nearly every handler is a *sequence* of those, and the interesting behaviour of
the server is what other handlers, tickers and a crash can do between two of
them.

This directory holds TLA+ modules for that behaviour, the TLC runs that check
them, and proofs for TLAPS. `PROJECT.json` maps each definition to the lines it
stands for and lists the runs, the deliberate slips ("mutants") each property
catches, the hazards and the theorems.

    tlc -workers 2 -config LifecycleUnattended.cfg MCTaskLifecycle.tla
    tlapm TaskLifecycleProofs.tla

## Inventory of the system

| Part | State | Operations | Talks to | Hard behaviour | What makes it correct | Modules |
|---|---|---|---|---|---|---|
| Tasks (`dbstore/tasks.go`, `handlers_v2_tasks.go`, `handlers_v1.go`, `finalization.go`) | `tasks.status` (v1), `tasks.status_v2`, approval | create, approve, reject, edit, complete, fail, delete | leases, runs, events | two status columns written by different code paths; whole-row write-back; finalization in up to five statements | columns agree; a finished task stays finished; its run is closed | `TaskLifecycle`, `TaskGraph` |
| Leases (`dbstore/leases.go`, `assignment.go`, lease handlers of `handlers_v2_projects.go`) | one row per task (unique index), `expires_at` | claim, claim-next, create, heartbeat, release, sweep | tasks, events | find and claim in two transactions; read-add-write heartbeat; expiry at any instant; sweep against re-claim | exclusive lock per task; expired leases go; no claimable task is forgotten | `TaskLifecycle`, `LeaseLock` |
| Runs (`dbstore/runs.go`, `handlers_v2_runs.go`) | status of a run, steps, logs, artifacts | start at claim, close at finalization | tasks | "latest run" is looked up again at the end | no finished task with a running run | `TaskLifecycle` |
| Task graph (`handlers_v2_tasks.go`, `dbstore/tasks.go`, `automation.go:1671`) | dependency rows, parent links | add and remove edge, patch the parent, delete, report unblocked | tasks, events | cycle check and insert are separate; deletion in two statements; rows of deleted tasks stay | acyclic when checked; parent walk ends; no inherited edges | `TaskGraph` |
| Automation gates (`automation.go`, `ratelimit`) | rules, circuit per rule, two sliding windows | depth, limits, policies, breaker | tasks, events | event handlers run on the goroutine of whoever made the event, several at once | breaker opens and recovers; limits hold | `Automation`, `CircuitBreaker`, `RateLimiter` |
| Follow-up tasks (`automation.go`, `handlers_v2_tasks.go:1139`) | `automation_depth`, emission rows | investigations, rules' follow-ups, calls for a human, idle planner, replay | tasks, events | depth stored after the INSERT; duplicate checked before it; windows | chains end; one investigation a window; one planner | `FollowUps` |
| Events (`dbstore/events.go`, `sse.go`, `handlers_v2_events.go`, `handlers_v1.go`) | `events` table, subscribers with a buffer of 10 | create, publish, replay, subscribe, prune, poll | everything | publish before commit, replay then subscribe, drop on a full buffer, close while sending | a client lacks only what is accounted for; the v1 stream shows every announced change | `EventStream`, `TaskStream`, `TaskMirror` |
| Planning (`planning_*.go`, `dbstore/planning.go`) | planning row, cycles, workstreams, goals, tasks it made | run a cycle's stages, edit the row, seed a project | tasks, events | cycles of the ticker and of requests overlap; whole-row writes | no number skipped; titles planned once; deletions last | `Planning` |
| Policies (`policy.go`, `policy_engine.go`, `internal/policy`) | rows of rules, rate tracker in memory | rate limits, quotas, hours, block rules; edits of policies | handlers, automation | evaluated before, not with, the statement they guard; count and record apart; what cannot be read lets pass | overruns are bounded by the requests in flight and what came uncounted; a standing block blocks | `PolicyEngine` |
| Project knowledge (`repo_files.go`, `context_packs.go`, `scanner.go`, workers of `automation.go`) | listed files, memories, packs, emissions | report, scan, walk, sync, invalidate, mark | events, disk | two walks with different ideas of a file; failed or missing scans and writes; packs read at one time and written at another | rows settle; fresh packs are current | `Knowledge` |
| Memories and context (`memory.go`, `finalization.go:380-525`, `assignment.go`) | memory rows | learn from completions and failures, write, trim to a budget | tasks, claims | look and write are separate | same content twice only from overlapping completions; what must be told goes last | `Memories` |
| Prompts (`dbstore/prompts.go`, `handlers_v2_prompts.go`) | versions, one active | create, edit, activate, delete | planning stages | creation in three statements | at most one active version | `Prompts` |
| Worker (`internal/worker`) | current task, heartbeat goroutine | poll, execute, heartbeat, report | HTTP | lost messages, refused reports, silence, restarts | no work wasted without a reason | `Worker` |
| Agents (`dbstore/agents.go`, `main.go`) | agent rows | register, heartbeat, claim, delete, mark stale | claims | heartbeat in two statements against the job; requests that leave no `last_seen` | the lists tell who was silent | `Agents` |
| Migrations (`internal/migrate`) | `schema_migrations` | run at start, roll back | database | several processes on one file, stops, rollbacks that overlap | the table tells what was done | `Migrations` |
| Background jobs (`main.go`) | tickers | lease sweep 1 min, stale agents 5 min, idle and stall 10 min, planning 15 min, pruning and emissions 1 h | all of the above | run beside the handlers | each round is idempotent | with the part each works on |
| Projects, templates, comments | rows | one statement per request | - | none of their own | - | - |
| Auth, routing, configuration, export, UI, MCP server, editor extension | - | stateless, run once, or clients | - | none | - | - |

## Modules

| Module | What it is |
|---|---|
| `TaskStatus` | The values of the two status columns and the two mappings between them (`dbstore/tasks.go:11-35`), with the pairs the update endpoint can store. |
| `LeaseLock` | Abstract specification: an exclusive lock per task that may lapse at any time but never changes hands while held. |
| `TaskLifecycle` | Tasks, approvals, leases, runs, the sweep, hand edits, crashes and failed writes, statement by statement. |
| `MCTaskLifecycle` | Adds the symmetry set for TLC. |
| `CircuitBreaker`, `RateLimiter` | The breaker's entries with its four operations; the two sliding windows of a project, with the history of what they granted. |
| `Automation` | Events on their way to the rules: composes the two above. |
| `MCAutomation` | Window sizes and the symmetry set for TLC. |
| `FollowUps` | The tasks the server makes by itself, behind the gates. |
| `PolicyEngine` | Policies and the requests they are put to. |
| `Planning` | Planning cycles, the row they share, workstreams, the tasks they make. |
| `Knowledge` | Files on disk and in rows, memories as a source of change, context packs, and the chain of workers from one to the other. |
| `Engine` | The five above side by side (`EngineSideBySide`): what each asks of the constants (`EngineAssumption`), and their properties under one name each. |
| `MCEngine` | The small instances of `Engine` for TLC, see "How the parts are run together". |
| `TaskGraph` | Dependencies, parents, deletion, creation and completion with all they touch of both. |
| `EventStream` | The event log, its two ways in, pruning, and the v2 stream of a client that reconnects. |
| `TaskMirror` | Abstract specification: what a client of the v1 stream may be shown, and that it is shown every announced change. |
| `TaskStream` | The v1 stream: tokens in bounded channels, lists read and sent. Implements `TaskMirror`. |
| `Worker` | The bundled worker against a server reduced to what it sees. |
| `Agents`, `Prompts`, `Migrations`, `Memories` | The rows of each, with every operation that writes them. |
| `Components` | The parts from `TaskGraph` to here side by side (`ComponentsSideBySide`), with `ComponentsAssumption` and their properties. |
| `MCComponents` | The small instances of `Components` for TLC. |
| `TaskLifecycleProofs` | Types, unique lease rows, agreement of the status columns. |
| `LeaseLockProofs` | `TaskLifecycle` implements `LeaseLock`. |
| `FinishedTaskProofs` | What holds while nobody edits a status by hand: finished tasks stay, half requeued tasks have their event ahead, runs get closed. |
| `AutomationProofs` | A closed circuit is below its limit, a half-open one has one probe, and the sliding windows grant no more than their limits and refuse nothing else. |
| `Counting` | Induction for proofs: on numbers and on sequences, and that a function defined step by step exists. |
| `ComponentsProofs` | The properties of `Components`, the types of all its parts, that every step of the v1 stream is one of `TaskMirror`, and that the worker's server is a `LeaseLock`. |
| `FollowUpsProofs` | One planner, one investigation a window, chains of follow-ups that end, and the types. |
| `EngineProofs` | Blocks, quotas and rate limits; files and packs; cycle numbers, deleted workstreams, titles planned once; the types of all parts of `Engine`. |

A definition whose comment begins with "Slip:" is not the code: it is a plausible
mistake in the operator below it, and is used only to see that a property catches
it.

### How `TaskLifecycle` stands for the code

*State.* `v1` and `v2` are the columns `status` and `status_v2`; `approval`
folds `requires_approval` and `approval_status`; `run[t]` is the status of the
task's latest run, the only one finalization ever looks up; `leases` is the
lease table, by id, with the time left instead of `expires_at`; `pending` is the
sweeper's list of events it has yet to write after its commit; `proc` holds the
local variables of handlers in flight.

*Steps.* A handler that issues one statement or one transaction is one action
(`Approve`, `ClaimByID`, `ReleaseLease`, `SetStatusV1`). A handler that issues
several takes a slot of `Procs` and has one action per statement that writes, or
reads something a later one uses:

| Handler | Actions |
|---|---|
| create with approval | `CreateTask`, `MarkApproval` |
| claim-next | `ClaimNextFind`, then `ClaimNextClaim` or `ClaimNextConflict` |
| heartbeat | `HeartbeatCheck`, `HeartbeatRead`, `HeartbeatWrite` |
| complete | `Complete`, `FinishReadRun`, `FinishUpdateRun`, `FinishReadLease`, `FinishReleaseLease` |
| fail | `FailCheck`, `Fail` (v1: `FailV1`), then the same four |
| sweep | `SweepTx`, then one `RequeueExpired` per event |
| edit without a status | `PatchRead`, `PatchWrite` |

A guard that only answers an error (the task is finished, the lease is gone)
makes the action impossible, because the request then changes nothing. A handler
that reads "the latest run" remembers it in `proc[p].run`: `"latest"` turns
into `"older"` when a claim starts a new run, and the late update then goes to a
run this module no longer shows.

*Time.* `Tick` takes one from every remaining time, in the rows and in a
heartbeat's local variable. Zero is `expires_at <= now`.

*Faults.* `Crash` clears what handlers and sweeper held, and keeps the tables.
`WriteFails` is a finalization statement that fails (the code logs it and goes
on). `EmitFails` is an event of the sweep that cannot be written (the code stops
the loop, so the rest of the events is lost), or whose worker cannot read or
update the task (that one is lost).

*What is left out.* Data that decides nothing here: titles, priorities,
capabilities (the candidate order inside a status bucket is left open), outputs,
summaries. Deletion and the tasks a completion creates next are in `TaskGraph`,
the policies that refuse a request before its first statement in `PolicyEngine`,
the completion contract in `Worker`, the log of events in `EventStream`.

### How `Automation` stands for the code

*State.* `circuit[r]` is the breaker's entry of rule `r`, `stamps[k]` the
timestamps of the project's hourly and burst windows, `worker[w]` an event inside
`processAutomationEvent`. All three are in memory: `Restart` is how a crash looks
to them. Times are kept as what is left of a cooldown and as the age of a
timestamp, so `Tick` is the only clock. `granted` and the field `probe` are
history variables: every grant of the last window whether or not the limiter
still holds it, and whether the execution under way was let through by a circuit
that was not closed.

*Steps.* `CreateEvent` calls the engine on the goroutine that made the event, so
as many events are processed at once as there are `Workers`. Every method of the
limiter and of the breaker holds its mutex to the end and is one step; between
two of them other events, statistics requests and the clock may act.

| `processAutomationEvent` | Actions |
|---|---|
| up to the recursion check (lines 589-639) | `Receive`; an event that is refused here changes nothing of this module's state |
| hourly limit, burst limit | `CheckHour`, `CheckMinute` |
| policies | `CheckPolicies`, answer left open |
| a rule of the trigger | `Refuse` or `Execute` |
| its action | `Skip`, or `Create` and then `Succeed` or `Fail` |

`ShowStats` is the statistics endpoint, whose `GetState` *writes*: it takes an
open circuit to half-open.

*What is left out.* The follow-up tasks: whether one is written, fails or is not
called for is open in `Skip` and `Create`, and so are depth and duplicates;
`FollowUps` is the other half, where in turn an event may stop at any gate. A
rule has one action (the code loops over several and records each). The order of
rules is left open. The metrics endpoint probes the breaker with a rule name of
its own, `__probe__` (`handlers_v2_misc.go:120`), which never fails: the
`automation_circuit` it reports is always closed, and the model has no such rule.

### How the other modules stand for the code

The same conventions hold everywhere. A statement or a transaction is one action;
what a handler or a job reads and uses later is held in a record per process
(`client`, `worker`, `planner`, `request`), whose `pc` names the step to come. A
refusal that changes nothing is no action. History variables are marked as such
where they are declared; they only say why a property may be excused.

**`FollowUps`.** `tasks` is the sequence of tasks in the order they were made, each
with its stored `depth`, its parent, its purpose and whether it is open; `gen` is
what the depth would be if it were always stored, `born` the window of an
investigation. `Receive` is `processAutomationEvent` on the goroutine that made
the event (also that of a replay), `Examine` and `Emit` are `processRunFailedEvent`
with `TryRecordEmission`, `Load` the check of depth against `MaxDepth`, `ApplyRule`
the loop over the rules. `CheckDuplicate`, `Create` and `StoreDepth` are the three
statements of a follow-up, the last two of which may fail. `SpawnIdlePlanner` is
one transaction. The tasks that call for a human, and planner tasks, are born at
depth 0 and so begin a chain of their own.

**`PolicyEngine`.** `hits` is the rate tracker: how many hits of each time it keeps
under the one key of an agent and an action. `Evaluate` counts under one lock and
`Record` writes under another, with any request in between; every rate limit of the
project counts and records under the same key and prunes it with *its* window, so
that a longer limit loses its history to a shorter one and is not kept. The shortest
is exceeded by up to *two* for each further request in flight: one may count before
the others record, and one that took its time long ago may count after a later one
has pruned what it should have counted. `CheckBlocks` is the handler's own reading of
the block rules, `Insert` the INSERT. The middleware fails open: `ArriveUnread` is a
request whose list of policies fails and `EvaluateUnread` one whose count of tasks
does; both go on. Tasks also come to count without a request that was counted:
`InsertOutside` is a task made where the policies are not asked (the middleware only
stands before `/api/v2/tasks`, `/tasks/` and `/runs/`, and acts only if the query names
the project, `routes.go:121-124`), `MoveIn` a task that `PATCH project_id` brings from
another project, `Reopen` a finished one that an edit makes active again. All three are
`OneMore`, and `outside` counts them together with what was let through unread: the
quota is exceeded by so much at most beside the requests in flight. The property is
about a quota in force from the beginning. A project has no more policies than the
middleware lists (100). `ReadPolicy` and `WritePolicy` are the whole-row edit of a
policy. Quotas of runs count lower-case statuses that are stored in upper case and
never refuse; `workflow_constraint` rules never apply, since no caller sets the
status they compare.

**`Planning`.** A cycle goes through `Start`, `Recon`, `ReadScores`, `WriteScores`,
`Rank`, `Propose`, one `Create` per task and `CountCycle`, which writes back the
row `Start` read. `ReadRow` and `WriteRow` are the PUT of the planning state,
`EditStream` the workstream endpoints, `Seed` the start of a project, `CreateOther`
the tasks of users and rules. A task is known by its title, which is what duplicates
are found by: among the newest `Listed` tasks (100 in the code), and before the
title is trimmed. A workstream's `what_next` that an edit has stored with space
around it (`Padded`) therefore makes a title that is never found again. When the
listing fails its error is ignored and every title is new (`ProposeBlind`; `blind` are
those cycles). `Move` takes a task to another project, back again, or away for good
(`gone` are those that are not listed, `moved` those that once were not). An INSERT
that fails is logged (`CreateFails`), a row that cannot be written closes the cycle
uncounted (`CountCycle`). Left out are tasks with one `created_at`, whose order in the
listing is open.

**`Knowledge`.** The three workers run one after the other on one goroutine:
`RepoChanged`, `Scan`, `List` (the rows of a scan), `Walk`, `Save` (the rows of the
walk, and a summary), `Invalidate`, `Mark`, `QueueRefresh`. Hardly a failure stops
them: a scan that cannot be made (`ScanFails`), a walk without a workdir
(`WalkSkipped`), a list that cannot be read (the empty ones in `Scan` and `Walk`), a
row that cannot be written or deleted (`failed` in `List` and `Save`) and a marking
that fails (`MarkFails`) are logged at most, and the chain goes on; only an event that
is not written, or a project that cannot be read, ends it with its emission recorded
(`Lost`). The walk looks at `MaxFiles` files (1000 in the code) and looks for what it
has to drop among `MaxRows` rows (10000), `FirstRows`. `clean` says that since a chain
began after the last change on disk nothing of this happened to a *walk*; what
happens to the scan before it does not matter. The worker of `context.invalidated` also
asks for five queued tasks, to make their packs again, but by "priority", which
`ListTasksV2` refuses (`dbstore/tasks.go:432-440`): the list always fails and no pack
is made, so there is no such step. A row that is written again loses what an older write
knew of it, so even a row that stays may change a pack. The requests that write files,
memories and packs beside the chains are `PutFile`, `DropFile`, `SyncFiles`,
`ScanFiles`, `Remember`, `MakePack`, `InsertPack`. The reading of the disk is one step.
`Crash` ends all chains and keeps the emissions, so the packs of that window stay
unmarked.

**`TaskGraph`.** `deps` are the rows of `task_dependencies`, `status` says for each id whether
it was given out, deleted, queued, claimed or finished. `CheckEdge` and
`InsertEdge` are the two halves of adding a dependency, `CreateTask` with
`CreateEdge` a task with `depends_on`, whose edges nobody checks; `PatchRead` and
`PatchWrite` the update that writes the whole row back; `DetachChildren`,
`RemoveRow` and `DeleteRow` the two deletions. `Complete` is followed by
`ReportUnblocked` and one `CreateNext` per next task, each of which may fail.
`Reaches` and `ParentChain` are the two walks of the code, as recursive functions.
`GetTasksDependingOn` asks for a column `deleted_at` that no migration creates, so
its query always fails and `dependency.unblocked` is never reported: the model
takes the columns a query names and those the table has, and shows just that.
Foreign keys are declared and never switched on. `loose` remembers that an edge
went in which no check can cover: to a task that was not there yet, or while another
request was between its check, or creation, and its edges.

**`EventStream`.** An event is its `created_at`. `Stamp` takes the time, `Insert`
or the transaction writes the row, `Announce` sends it to the subscribers in the
list, dropping it for whoever's channel is full; `EndTx` commits or rolls back
after the announcement. `Connect` and `Resume` begin a stream at a time or after
the newest event received, `Replay` and `Subscribe` are two steps, `Deliver`
takes from the channel, `Leave` and `Close` take the client off the list and close
its channel, in the code's order. `Prune` deletes what is older than a cutoff or
more than the table keeps. `missed` says why a client lacks what it lacks.

**`TaskStream`.** `version` and `told` are the last change and the last announced
one, `casts` the goroutines of `broadcastUpdate` under way, `tokens` what waits in
a client's channel, `view` the list it was shown last. `blind` are clients whose
last query failed.

**`Worker`.** All workers share the id `agent_worker`, so a lease is told by who
works under it. `ClaimUnheard` is a claim whose answer is lost, `ReportLost` a
report that does not arrive; nothing is sent twice. `ContractMet` is the completion
contract of `v2TaskCompleteHandler`, which wants fields of a `result` the worker
never sends.

**`Agents`.** `Register` leaves `last_seen` NULL (`Never`), `Ensure` is the row a
claim makes sure of, `FindBeat` and `WriteBeat` the two statements of a heartbeat.
`heard` is how long ago a request of the agent was answered, a registration and any
other request included; `unseen` are the agents whose last answer left no mark in
`last_seen`: new ones, and those that `PassBy` with a request that does not write it.
`MarkStale` is the job, `Tick` its period, after which it runs or, when it failed, runs
the next time. `Listed` is the filter of the list endpoint.

**`Prompts`.** `ReadMax`, `Insert` and `Deactivate` are the statements of a
creation, `CutShort` its end after any of them. `ReadPrompt` and `WritePrompt` are
an edit.

**`Migrations`.** `Start` reads the recorded versions once; `Apply` is the
transaction of one version, whose row makes a second process fail (`ApplyFails`)
unless it is rolled back. A rollback is two steps, `ReadLargest` outside the
transaction and `Remove` in it, which deletes the row of that version, if it is still
there, and undoes nothing; other processes start, apply or roll back in between.

**`Memories`.** `LookForHash`, `LookForKey` and `Write` are the statements for one
candidate of a completion. A look that fails finds nothing (`read` is false; `unread`
are the tasks it happened to when they looked for a hash), a write that fails is only
reported (`WriteFails`). A task that is opened again is completed again, so `together`
is about tasks. `Put` is what a user, or an import, writes: any value, with any
`content_hash`. `Candidates` are the rows the filter lets through, a set:
the scores that order them are left out, and with them which of them the limit cuts.
Mandatory rows come first. `WithinBudget` is `enforceContextBudget`, as a function of
the number of rounds, evaluated on every mixture of files, artifacts, runs and
memories the instance can hold.

### How the parts are run together

`Engine` and `Components` each put several components side by side: they extend the
first and instantiate the others, renaming variables where two have one name, and
state the properties of all of them. The proofs are about these modules, those of the
types about `EngineSideBySide` and `ComponentsSideBySide`, where every part takes its
steps. The components of one share no state, so nothing is gained by interleaving them,
and `MCEngine` and `MCComponents` do not: `part` is chosen at the beginning and says
which instance takes steps; the others stay at their initial states. A part is kept
small by conditions on its steps (`OnlyPlanner`, `OneRequest`, `part = "limits" => made'
<= 4`) or by an instance with fewer goals, depths or tasks that may be worked on
(`Edits`, `Chains`, `Deletions`), never by another definition. The properties checked
are those of `Engine` and `Components`, unguarded. What
components do share they share by assumption of one and conclusion of another: an
event that passes the gates of `Automation` is one that `FollowUps` may receive, and
a policy that refuses in `PolicyEngine` is the open answer of `CheckPolicies`.

## Runs

Time to live is 1 or 2 ticks: 1 is the shortest life a lease can have, 2 the
shortest in which a heartbeat can come neither first nor last. Two handler slots
are the least for two agents to interleave; every statement-level race in the
list of hazards needs two. `lifecycle_unattended` has three lease ids for one task:
one live row, one id held by a handler that read it earlier, and one fresh. The
properties speak of one task at a time, and tasks meet only in the candidate
order of claim-next and in the list of events a failed emission drops: that more
tasks add nothing is what the proofs show for the safety properties.

| Run | Instance | Checks |
|---|---|---|
| `lifecycle_unattended` | 1 task, 3 lease ids, 2 handlers, TTL 2, 1 fault; about 310 000 states | `TypeOK`, `UniqueLease`, `FinishedClosesRun`, `HalfRequeuedIsPending`, `FinishedStaysFinished`, `LeasesImplementLock`: without hand edits. |
| `lifecycle_edits` | the same with TTL 1, no fault, all edits; about 515 000 states | `StatusesAgree`: hand edits, among them the write-back of a row read earlier. |
| `lifecycle_liveness` | 1 task, 2 lease ids, 1 handler, 1 fault; about 21 000 states | `ExpiredLeaseGoes`, `HalfRequeuedSettles`, `ClaimableIsTaken`. |
| `automation_gates` | the thirteen instances of `MCEngine` below; about 710 000 states | `EngineTypes` and the fifteen properties below. |
| `components` | the eleven instances of `MCComponents` below; about 625 000 states | `AllTypes` and the thirteen properties below. |
| `claim_next_stale` | 2 handlers | `ClaimNextClaimsClaimable` is violated, see below. |
| `fail_after_success` | 2 handlers | `SucceededRunStays` is violated. |
| `heartbeat_lost` | 2 handlers, TTL 2 | `HeartbeatNeverShortens` is violated. |
| `release_orphans` | 1 handler | `ReleasedTaskIsRequeued` is violated. |
| `half_open_stuck` | 1 event at a time, 1 rule, 1 failure opens | `HalfOpenSettles` is violated. |
| `worker_unfinished` | 1 worker, 1 task | `ExecutedIsFinished` is violated. |
| `claim_before_dependencies` | 2 tasks, 1 client | `ClaimsAwaitDependencies` is violated. |

`automation_gates`:

| Part | Instance | Shows |
|---|---|---|
| `gates` | 2 events at a time, 2 rules, 2 failures open, cooldown of 2 ticks, windows of 3 ages with limit 2 and of 1 age with limit 1 | `ClosedIsBelowLimit`, `ProbeIsAlone`, `WindowsRespected`, `RefusedOnlyWhenFull`: an event is refused only if the window has granted its limit. |
| `limits` | 2 clients, two rate limits on one key (1 in 3 ticks, 2 in 2), 4 requests, 3 ticks | `ShortestWindowKept`: the limit with the shortest window is exceeded by no more than two for each further request in flight. |
| `windows` | 2 clients, the second of those limits alone, 6 requests, 2 ticks | the same, with enough requests to exceed it by two |
| `quotas` | 2 clients, a quota, hours and an editable block, 3 requests, 1 task made elsewhere | `QuotaOverrunBounded`; `BlocksAreRespected`: a block in force throughout lets nothing through. |
| `cycles` | the ticker and a request plan at once for a goal, 3 cycles | `NumbersHaveNoGaps`, `PlannedOnce` |
| `edits` | 2 cycles one by one, an edit of the row, a workstream that comes and goes with a padded `what_next`, 3 tasks | `DeletedStreamsStayDeleted`, `PlannedOnce` |
| `repeats` | one planner, 2 cycles, 5 tasks, a listing of 2; the first planned task moves, or one listing fails | `PlannedOnce` without overlap, past the end of the listing |
| `chains` | one event at a time, two windows, depths 1 and 2 | `ChainsEnd` |
| `failures` | two events at a time about one task | `InvestigationsApart` |
| `planner` | two idle agents, three windows | `OnePlanner` |
| `files` | two paths, one ignored by `.gitignore`, a walk that stops after one file; two chains and the disk, with all that fails | `ScansSettle` |
| `rows` | one chain at a time whose walk reads one row, beside requests that write rows | `ScansSettle` |
| `packs` | two tasks, two chains | `FreshPacksAreCurrent` |

`components`:

| Part | Instance | Shows |
|---|---|---|
| `stream` | 2 clients, a buffer of 1, 3 changes | `StaleViewsAreDue`; `MirrorsTasks`: the v1 stream implements `TaskMirror`, liveness included. |
| `graph` | 3 tasks, 3 edges, one request in flight at a time, deletions | `AcyclicUnlessLoose`, `ChainIsTheAncestry`, `NoInheritedDependencies` |
| `race` | 2 tasks, 2 requests at a time, one task that is worked on | the same |
| `events` | 3 events, a channel of 1, pages of 2, a table of 2 rows, one client that comes and goes | `SubscribersAreOpen`, `NothingElseMissed` |
| `worker` | 2 workers, a task with a contract and one without, leases of 2 ticks that pile up to 3 | `NoWorkIsWasted` |
| `agents` | one that registers, one that only claims, threshold 2 | `ListsTellSilence` |
| `creations`, `revisions` | 2 creations at once; one beside an edit | `OneActive` |
| `schema` | 2 processes, 3 versions of which one cannot be repeated, each removed twice at most | `RecordedIsDone` |
| `twins`, `budget` | 2 completions that may say the same; 1 with constraints users write | `TwinsOverlapped`, `MandatoryGoLast` |

*Bounds.* `MaxLeft` caps the time heartbeats build up (the code has no cap: the
"max 1 hour" of `docs/api/v2-design.md:721` is not implemented), `MaxFaults` caps
crashes and failed writes. Lease ids are reused when no row and no handler refers
to them, which the uuids of the code never need. Liveness runs use no symmetry.

The breaker counts failures up to `MaxFailures` only: the count is compared with
it and reset, nothing else. Two failures are the least at which a count can be
below the limit without being zero, two ticks the least cooldown that can be half
over, two events at a time the least for a late success or failure to meet a
probe. An age past the window is dropped one tick later at the latest; the code
drops it at the next check, which looks at nothing else. The two windows of the
instance differ so that the burst limit refuses what the hour granted.

The other instances follow one rule: two of what can race, one more step of what
can wrap around. Three tasks are the least for a cycle that is not an edge and its
reverse, and for an id to be deleted, left behind in an edge, and not used again;
the race of two checks needs two tasks only. Three events, a channel of one and a
table of two let a client lose an event in each of the ways the property
names, and pruning overtake a reconnection. A worker is late after a whole lease, so
a lease of two ticks is the shortest in which it can be silent and still in time.
Three requests for a limit of one with two at a time separate "one too many" from
"as many as are in flight"; five are the fewest by which two at a time exceed a limit
of two by two (with four a smaller bound seems to hold), and `windows` has a sixth to
go further with. Chains need one more task than the limit on depth.
Bounds on tasks, cycles, requests and events (`MaxTasks`, `MaxCycles`,
`MaxRequests`, `MaxEvents`, `MaxChanges`, `MaxVersions`, `MaxRollbacks`) end these
instances, hence no check for deadlock in the two composed runs.

*Fairness.* `ServerFairness` is weak fairness of the clock, of the sweep and of
each event it has to write (one goroutine with a ticker, `main.go:119-136`, which
an error does not end), and of every handler that has started (Go's scheduler
and `net/http` run it to its end). `AgentsPoll` is strong fairness of "some
handler finds a candidate": agents poll without end, and the model's handler
slots, which the server does not have, must not be what stops them.
`ExpiredLeaseGoes` and `HalfRequeuedSettles` need only the first;
`ClaimableIsTaken` needs both. Nothing assumes that an agent finishes, releases
or extends.

`Fairness` of `TaskStream` is weak: the goroutine of a broadcast runs, a query and
a write of a client's handler return (the query perhaps with an error), and a
`select` with a token in its channel takes it unless the client has gone. No change
and no client is ever required.

`FairSpec` of `Automation` refutes rather than proves, so it is generous: every
event is processed to its end and time passes (weak fairness), events of every
rule keep coming and policies keep letting them through (strong fairness). A
circuit that stays half-open under all this stays so in any server.

### What the violation runs show

- **Claim-next is two transactions.** `handlers_v2_tasks.go:1287` promises one.
  The candidate query runs in a transaction that is always rolled back, and
  `ClaimTaskByID` has no condition on the status: a task completed in between
  (and its lease released) goes back to `IN_PROGRESS`/`CLAIMED` with a new run.
- **A late failure rewrites history.** `FailTaskWithError` does not look at the
  number of rows its guarded update changed; the run of a completed task becomes
  `FAILED` while the task stays `SUCCEEDED` (`finalization.go:204-218`,
  `fail_task_test.go:261`).
- **A heartbeat can shorten a lease.** `ExtendLease` reads and writes
  `expires_at` in two statements (`leases.go:206-232`, `v2-design.md:395`).
- **A released task is an orphan.** Releasing leaves the task `CLAIMED` without a
  row, and the sweep only knows tasks with a row (`v2-roadmap.md:366`). Claim-next
  may still pick it up, because it also offers tasks in progress without a lease;
  if no agent asks, it shows as claimed for ever.
- **A half-open circuit may stay so.** `GetState` takes an open circuit to
  half-open for whoever looks at the statistics (`automation.go:167-169`), and an
  execution let through may create nothing (blank instructions, a duplicate
  follow-up). Neither calls `RecordSuccess` or `RecordFailure`, `AllowExecution`
  refuses everything else while half-open, and so the rule is dead until the
  server restarts (`automation.go:111-113`).

- **The bundled worker cannot finish most tasks.** Its report has no `result`, and
  the completion contract of `MODIFY` (the default type), `TEST`, `DOC` and `REVIEW`
  wants fields of it. The answer is 400, which the worker logs; the lease lapses and
  the task is given out and executed again (`worker.go:86-87`, `worker.go:308`).
- **Dependencies do not hold a task back.** Neither way to claim looks at them;
  `golden_path_test.go:230-231` says a dependent can only be claimed afterwards.

Smaller disagreements between documents and code, noted while reading: the v2 design
says a claim "does not auto-create runs" (`v2-design.md:395`; it does); the complete
handler looks for "already completed" in an error that says "is in a terminal
state", so a second completion answers 500 and not 409; the worker takes an answer
of 202 for a failure. `dependency.unblocked` is never reported (see `TaskGraph`).
The README says dependency cycles are prevented (`README.md:13`): two overlapping
requests close one, and so does `depends_on` of a new task naming the id to come. A
cycle that overrides `max_tasks_per_cycle` in its request has the override
discarded. `enforceContextBudget` halves mandatory memories down to two, which its
comment excludes. A title planned from a padded `what_next` is planned again by
every cycle, although `planning_pipeline.go:538` drops duplicates. The planning
pipeline in recovery mode makes two tasks for one gap of failures. A planner task
that is reopened stands beside a new one. The worker registers a new agent row every
30 seconds, and its own id goes OFFLINE during a long task. A newly registered agent
has no `last_seen` and is marked OFFLINE by the next run of the job, although its
threshold is 10 minutes (`agents.go:217`). The worker of `context.invalidated`
rebuilds no pack: it lists the tasks sorted by `priority` (`automation.go:1300`),
which `dbstore/tasks.go:432` refuses. Of two overlapping rollbacks both may report
success, and one has removed nothing. A query that fails counts as an empty answer:
no duplicate memory (`finalization.go:538`), no planned task
(`planning_pipeline.go:519`), no quota reached (`policy.go:267`). `DeleteProject`
removes the row of the project and nothing of its contents. A backup copies the file
of a live database. An import keeps a parent only if it was imported before its
child. None of these is stated as a property: each is either visible in the model as
an excuse a property names, or outside it. `CancelTask`, the older `CompleteTask`
and `FailTask`, `CreateRun`, `DeleteRun`, `RequeueStuckTasks` and
`startOperationalChecks` have no caller in the server.

## What is proved

Every safety invariant and every action property the passing runs check is a theorem,
and so is the type invariant of every part. Each is for all values
of the constants: any set of tasks, lease ids, handlers, rules, policies, clients,
any limits, windows, bounds and numbers of faults. They rest on the named assumptions
of the modules, which TLC evaluates on every instance:

- `TaskLifecycle`: `TTL` is a positive natural number no larger than `MaxLeft`,
  `MaxFaults` is a natural number, `None` is not a task or a lease id.
- `Automation` and what it extends: `MaxFailures` is a positive natural number,
  `Cooldown`, `Limit` and `Span` are natural numbers, `None` is not a rule.
- `EngineAssumption`: policies are numbered in the order they are evaluated in;
  requests are finitely many, quotas and rate limits have a limit of at least one (a
  rule without is none, `policy.go:179-189`, `policy.go:261-264`) and windows are
  natural numbers; the limits of follow-ups and the length of a listing are natural
  numbers; workstreams are finitely many; packs and workers have different names;
  bounds on what is counted are natural numbers, those on the tasks of a project
  positive.
- `ComponentsAssumption`: bounds and limits are natural numbers, a claim's life fits
  its bound, `"none"` and `Nobody` name no worker, the keys of memories are finitely
  many. `TaskStream`: a buffer has at least one place.

Elsewhere nothing is assumed finite.

| Theorem | Inductive invariant, and why it is needed |
|---|---|
| `TypeCorrect`: `Spec => []TypeOK` | `Typing`. The type alone is not inductive: a finalization writes `outcome` into `run[task]`, so a handler at `run_write` must hold a task and a verdict, a handler at `hb_write` a lease id, and so on (`ProcOK`). |
| `LeaseRowsUnique`: `Spec => []UniqueLease` | `Typing /\ UniqueLease`. `InsertLease` deletes the expired rows of one task and inserts under the index; every other step leaves each row's task alone or empties it (`ShrinkingKeepsUnique`). |
| `ColumnsAgree`: `Spec => []StatusesAgree` | `Agreement`: the pair a `PATCH` holds in its local variables must agree too, because it is written back with no condition. |
| `LeasesLock`: `Spec => LeasesImplementLock` | Uses `UniqueLease`: the abstract holder is *the* live row. Each step is a grant (`InsertGrants`), a lapse (release, sweep, tick) or a stutter; the one surprise is the late heartbeat, which may revive the expired row of a task: by uniqueness nobody else holds it, so it is a grant (`HeartbeatLocks`). |
| `FinishedTasksStay`: `UnattendedSpec => FinishedStaysFinished` | `Unattended`: types, agreement, no edit in flight. Agreement is what makes the guards over `status` (finalization, sweep) and those over `status_v2` (event worker) protect the same tasks. |
| `HalfRequeuedArePending`: `UnattendedSpec => []HalfRequeuedIsPending` | The property itself with `Unattended`: only `SweepTx` makes a half requeued task, and it puts it in `pending` in the same step. |
| `FinishedTasksCloseRuns`: `UnattendedSpec => []FinishedClosesRun` | `RunsClosing`: a handler that read the run as the latest stays so until a claim supersedes it, and a claim makes the task unfinished. |
| **Automation** | |
| `ClosedBelowLimit`: `[]ClosedIsBelowLimit` | `Breaker`, whose part about types bounds the failure count. |
| `ProbesAlone`: `[]ProbeIsAlone` | `Breaker` again. The property alone is not inductive: an open circuit that goes half-open would meet an old probe. `ProbesHalfOpen` says that an execution still marked as a probe belongs to a circuit that is half-open now, so that an open circuit has none; `ProbesDiffer` that no two of them share a rule. |
| `WindowsKept`: `[]WindowsRespected` | `WindowsInv`: the limiter still holds every grant of the last window, in whatever way it prunes. Pruning is a function of the steps along the sequence, which `StepsExist` makes available to the prover. |
| `RefusalsHaveCause`: `RefusedOnlyWhenFull` | `WindowsInv` again: what the limiter counts after pruning is what it granted in the window, so a refusal means the grants are as many as the limit. With `WindowsKept`, a limit is exact. |
| `GatesTypeCorrect`: `[]TypeOK` | The types, with the breaker's bound on its count. |
| **Follow-ups** | |
| `OnePlannerOnly`: `[]OnePlanner` | `PlannersApart`: two open planners are the same one; only `SpawnIdlePlanner` makes one, having looked in the same transaction. |
| `InvestigationsStayApart`: `[]InvestigationsApart` | `DecisionsEmitted` and `DecisionsApart`: a worker that has decided on an investigation counts as if it had made it, and a decision of this window has its emission row. |
| `ChainsAreShort`: `[]ChainsEnd` | `ChainInv`: as long as no depth was read before it was stored, what a worker has read is how far its task is from a user's, and a depth that is not right has its worker about to store it. |
| `FollowUpsTypeCorrect`: `[]TypeOK` | `Bounded`: a task's depth and generation are below its place in the order of creation, and so is what a worker has read of it, or `MaxMade` would not bound them. |
| **Policies** | |
| `BlocksHold`: `[]BlocksAreRespected` | `Watched`: a request in flight has met a moment without a block, or there has been one ever since it arrived. |
| `QuotasHold`: `[]QuotaOverrunBounded` | `QuotaKept`: requests that have passed the quota are counted as if they had inserted; one that passed unread is matched by the `outside` it added. |
| `LimitsHold`: `[]ShortestWindowKept` | `LimitKept`: for each window either the tracker still has all that passed in it (`Remembered`), or a later request has pruned it and time has moved on (`Forgotten`), when the requests still under way from that window can all pass. The case `Forgotten` is where the second of the two per request comes from: an earlier form of the property allowed one, held on four requests, and failed here; on five TLC shows it fail too. |
| `PoliciesTypeCorrect`: `[]TypeOK` | `RequestsCounted`: the tasks there are and the requests under way together are no more than the requests made and the tasks that came beside them. The bound on tasks alone is not inductive. |
| **Planning** | |
| `NumbersRunOn`: `[]NumbersHaveNoGaps` | `Numbered`: nobody holds a count, in the row, in an edit or in a cycle, that is above the numbers taken. |
| `DeletedForGood`: `DeletedStreamsStayDeleted` | Types only: `UpdateWorkstream` updates the row there is. |
| `PlansOnce`: `[]PlannedOnce` | `OnceInv`: while no two cycles overlapped, one is under way at most, and what it is still to create no other cycle has planned, unless it could not read the listing, or the other's task was once gone or is past its end, or lost its padding (`IsNew`). The proof attempt is what brought out the length of the listing and the padding, which the model lacked. |
| `PlansTypeCorrect`: `[]TypeOK` | `PlanCounts`: whatever row somebody holds counts no further than the cycles started, and that of a cycle under way one less, which is what it will add. |
| **Files and packs** | |
| `RowsSettle`: `[]ScansSettle` | `Settling`: from a scan that began after the last change on disk, each row that does not belong will be dropped by a chain that is on its way or has read it, and what is missing will be listed, for as long as every walk does what it set out to do (`clean`). |
| `PacksFresh`: `[]FreshPacksAreCurrent` | The property with `Settling` and the types. |
| `KnowledgeTypeCorrect`: `[]TypeOK` | The types. |
| `EngineTypeCorrect`: `EngineSideBySide => []EngineTypes` | The five type theorems together. |
| **Streams** | |
| `StreamTypeCorrect`: `Spec => []TypeOK` | The type, and that announcements under way are no more than changes. |
| `StaleIsDue`: `[]StaleViewsAreDue` | `MirrorInv`. A view may be stale while the client's handler reads or sends, so the invariant speaks of those states too: what is on its way to the client is no older than the last announced change, or a token waits. |
| `StreamMirrors` | The same invariant maps each step of `TaskStream` to a step or a stutter of `TaskMirror`. Fairness is left to TLC. |
| `ChannelsAreOpen`: `[]SubscribersAreOpen` | `LiveAreListed`: the list is of the clients that are live. |
| `NothingIsLostUnseen`: `[]NothingElseMissed` | `AllAccounted`: from its replay on, not only once it follows, a client has, is about to be sent, or misses every announced event, those pruned since included. |
| `EventsTypeCorrect`: `[]TypeOK` | `StreamInv` and `AnchorsBounded`: a client resumes after an event it has. |
| **Task graph** | |
| `CheckedGraphsAreAcyclic`: `[]AcyclicUnlessLoose` | `GraphInv`, whose `AcyclicAhead` says that the edges under way close no cycle either. `ReachesIsClosed` says the recursive query computes a closed set; what waits for each other after an insertion then did so before. |
| `NewTasksAreFree`: `NoInheritedDependencies` | `GraphTypes`: edges start at tasks that were created, and ids are not used twice. |
| `ChainsAreRight`: `[]ChainIsTheAncestry` | None: it holds of every table of parents. `Passed` is the invariant of the walk, by induction on its length. |
| `GraphTypeCorrect`: `[]TypeOK` | `GraphInv` and `GraphBounds`: what a request carries from its check to its insertion is an edge between two tasks. |
| **Worker, agents, tables, memories** | |
| `WastesNothing`: `[]NoWorkIsWasted` | `WorkIsHeld`: an open task under work with no excuse has its worker's lease, and what is left of the lease and the worker's silence add up to a whole lease at least. So the lease of a worker in time has not run out, and nobody else gets the task. |
| `WorkersShareALock`: `Spec => WorkLock!Spec` | The types of the leases. `WorkLock` is `LeaseLock` held by the worker and the task while a lease has ticks left: a claim grants, a heartbeat keeps, a report and the last tick let go (`LettingGoLapses`). |
| `ListsAreRight`: `[]ListsTellSilence` | `RowsTellSilence`: the lists only filter rows, and say nothing of a row between two ticks: a row was seen when its agent was heard, or before if that left no mark, and one that is OFFLINE was not seen within the threshold. |
| `OneVersionIsActive`: `[]OneActive` | `SmallerIsDoomed`: of two active versions the smaller is about to be set inactive by a creation under way. |
| `PromptsTypeCorrect`: `[]TypeOK` | `PromptInv` and `VersionsBounded`: a creation counts on from a version there is. |
| `TableTellsWhatWasDone`: `[]RecordedIsDone` | `Accounted`: commits are removals plus the row, whatever a rollback had read; `PassedAreKnown`: what a process has passed, or read as recorded, was recorded once, without which nothing is known of it at its end. |
| `OnlyOverlapsRepeat`: `[]TwinsOverlapped` | `MemoInv`: a completion that has looked for its hash finds it again only in rows of completions that overlap with it, if it could look at all (`LookIsGood`). |
| `MemoriesTypeCorrect`: `[]TypeOK` | `MemoTypes`: a completion under way has a candidate left, and its candidates are the end of a list of scopes (`CandidateLists`). |
| `MandatoryStay`: `[]MandatoryGoLast` | None: it holds of every table of memories. Mandatory rows come first (`MustFirst`), a round takes something or is stuck (`Trims`), and so many rounds as there are things are enough (`BudgetCuts`). |
| `ComponentsTypeCorrect`: `ComponentsSideBySide => []AllTypes` | The types of all eight parts together, those of the worker, the agents and the migrations from the invariants above. |

The theorems under **Automation** are in `AutomationProofs`, under **Follow-ups** in
`FollowUpsProofs`, from **Policies** to **Files and packs** in `EngineProofs`, from
**Streams** on in `ComponentsProofs`; the first seven are in the three modules about
`TaskLifecycle`.

*Induction.* The library's induction theorems take the property as an operator, which
none of the provers instantiates. `Counting` has them of *sets* instead: a set of
naturals with 0 that has with each number the next one has them all (`CountingUp`), a
set of sequences that is closed under `Append` has them all (`AppendingUp`), and a
function defined step by step along a number exists (`StepsExist`). With these, what
the recursive functions of the models compute (sums over times, pruned sequences, the
walk along parents, the rounds of the budget) is proved for every input.

*Only model-checked.* The temporal properties: `ExpiredLeaseGoes`,
`HalfRequeuedSettles`, `ClaimableIsTaken` and the liveness half of `MirrorsTasks`
(fairness and `ENABLED` are outside what the prover handles); and the violations,
each of which is one behaviour that TLC finds.

## Not modelled

- *Authentication and routing*: checks in front of the handlers; a request that
  fails one changes nothing. Routing matters in one place, the policies, and is
  there.
- *User interface, MCP server, editor extension, code generator*: clients of the
  endpoints modelled here, or build tools.
- *Configuration, export, import, backup*: read once, or rows copied one after the
  other; no other part decides on a half-finished copy.
- *Projects, templates, comments, run steps, logs and artifacts*: rows that are
  stored and returned. The detection of stalled tasks and idle projects only writes
  notifications.
- *Data*: scores, priorities, capabilities, wording, redaction, the order of
  candidates that tie, the executors and models behind the worker and the stages of
  planning.

## Plan for what is left

All modules of the plan exist, and all safety properties of the passing runs are
proved, the types included. What would say more:

1. An abstract specification for the sliding windows and the rate tracker (a bag of
   grants that ages), which `RateLimiter` implements (`WindowsKept` and
   `RefusalsHaveCause` are its two halves) and `PolicyEngine` approximates.
2. A run as a row of its own in `TaskLifecycle`, then the existing proofs again.
3. The two hazards without a property: the finalizer that releases a later claim's
   lease, and the task that is claimable before it is marked as needing approval.

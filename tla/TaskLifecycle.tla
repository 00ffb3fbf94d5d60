--------------------------- MODULE TaskLifecycle ----------------------------
(***************************************************************************)
(* The life of a task: creation and approval, claiming under a lease,      *)
(* heartbeats, completion and failure, the sweep of expired leases, and    *)
(* the status edits an operator makes by hand.                             *)
(*                                                                         *)
(* The server is one process with many goroutines over one SQLite file.    *)
(* Each SQL statement, and each transaction, is atomic; between two of     *)
(* them any other goroutine may run.  A handler that issues one statement  *)
(* (or one transaction) is a single action; a handler that issues several  *)
(* occupies a slot of Procs and is one action per statement that reads     *)
(* what a later one uses, or writes.                                       *)
(*                                                                         *)
(* Time is relative: a lease row keeps the ticks left until expires_at,    *)
(* and 0 means expires_at <= now.                                          *)
(***************************************************************************)
EXTENDS Naturals, TaskStatus

CONSTANTS
    Tasks,      \* task ids
    LeaseIds,   \* lease ids; an id is fresh when nothing refers to it
    Procs,      \* request handlers that may be in flight at the same time
    TTL,        \* ticks a lease is granted for (15 minutes in the code)
    MaxLeft,    \* bound: the longest remaining time a heartbeat may build up
    MaxFaults,  \* bound: crashes and failed writes in a behaviour
    None

ASSUME TimesAssumption ==
    /\ TTL \in Nat \ {0}
    /\ MaxLeft \in Nat
    /\ TTL <= MaxLeft

ASSUME FaultsAssumption == MaxFaults \in Nat

ASSUME NoneAssumption == None \notin Tasks \cup LeaseIds

VARIABLES
    v1, v2,     \* tasks.status and tasks.status_v2, "ABSENT" before the INSERT
    approval,   \* requires_approval and approval_status in one value
    run,        \* status of the task's latest run, "NONE" before the first
    leases,     \* the lease table, by lease id
    pending,    \* tasks whose lease.expired event the sweeper has yet to emit
    proc,       \* the handlers in flight
    faults      \* faults so far

vars == <<v1, v2, approval, run, leases, pending, proc, faults>>
taskVars == <<v1, v2, approval, run>>

Approvals == {"not_required", "pending", "approved", "rejected"}
RunStatus == {"NONE", "RUNNING", "SUCCEEDED", "FAILED"}

Row(t, n) == [task |-> t, left |-> n]
NoRow == Row(None, 0)

\* What a handler holds in local variables.  `run` says whether the run id it
\* read still names the task's latest run; v1 and v2 are the columns of the
\* task it read and will write back.
Idle == [pc |-> "idle", task |-> None, lease |-> None, left |-> 0,
         run |-> "none", outcome |-> "none", v1 |-> "ABSENT", v2 |-> "ABSENT"]

-----------------------------------------------------------------------------
(* Queries.                                                                *)

Exists(t) == v1[t] # "ABSENT"
Finished(t) == v1[t] \in FinishedV1

RowsOf(t) == {l \in LeaseIds : leases[l].task = t}
Held(l) == leases[l].task # None
Live(l) == Held(l) /\ leases[l].left > 0
Expired(l) == Held(l) /\ leases[l].left = 0

\* GetLeaseByTaskID: the rows of t with expires_at > now.
LiveRowsOf(t) == {l \in RowsOf(t) : leases[l].left > 0}
Leased(t) == LiveRowsOf(t) # {}

Fresh(l) == ~Held(l) /\ \A p \in Procs : proc[p].lease # l

\* The WHERE clause of claimNextTaskTx.
Claimable(t) ==
    /\ v1[t] \in {"NOT_PICKED", "IN_PROGRESS"}
    /\ ~Leased(t)
    /\ approval[t] \in {"not_required", "approved"}

\* Slip: a candidate query that only looks at tasks never picked.
FreshClaimable(t) == Claimable(t) /\ v1[t] = "NOT_PICKED"

\* Its ORDER BY: a task never picked goes before one left in progress.  The
\* order inside a bucket (capabilities, priority, id) is left open.
FirstClaimable(t) ==
    /\ Claimable(t)
    /\ v1[t] = "IN_PROGRESS" => \A u \in Tasks : Claimable(u) => v1[u] = "IN_PROGRESS"

-----------------------------------------------------------------------------
Init ==
    /\ v1 = [t \in Tasks |-> "ABSENT"]
    /\ v2 = [t \in Tasks |-> "ABSENT"]
    /\ approval = [t \in Tasks |-> "not_required"]
    /\ run = [t \in Tasks |-> "NONE"]
    /\ leases = [l \in LeaseIds |-> NoRow]
    /\ pending = {}
    /\ proc = [p \in Procs |-> Idle]
    /\ faults = 0

At(p, pc) == proc[p].pc = pc
Become(p, q) == proc' = [proc EXCEPT ![p] = q]
Done(p) == Become(p, Idle)

SetStatus(t, a, b) ==
    /\ v1' = [v1 EXCEPT ![t] = a]
    /\ v2' = [v2 EXCEPT ![t] = b]

-----------------------------------------------------------------------------
(* Creation and approval.                                                  *)

\* The task is inserted first; when approval was requested a second statement
\* marks it, so until then the row looks like any other.
CreateTask(p, t, gated) ==
    /\ At(p, "idle")
    /\ ~Exists(t)
    /\ SetStatus(t, "NOT_PICKED", "QUEUED")
    /\ IF gated THEN Become(p, [Idle EXCEPT !.pc = "mark", !.task = t])
                ELSE UNCHANGED proc
    /\ UNCHANGED <<approval, run, leases, pending, faults>>

MarkApproval(p) ==
    /\ At(p, "mark")
    /\ approval' = [approval EXCEPT ![proc[p].task] = "pending"]
    /\ Done(p)
    /\ UNCHANGED <<v1, v2, run, leases, pending, faults>>

\* Only a task that requires approval, and is not approved yet.
Approve(t) ==
    /\ approval[t] \in {"pending", "rejected"}
    /\ approval' = [approval EXCEPT ![t] = "approved"]
    /\ UNCHANGED <<v1, v2, run, leases, pending, proc, faults>>

\* Whatever the task's status: an approved task in progress can be rejected.
Reject(t) ==
    /\ approval[t] # "not_required"
    /\ approval' = [approval EXCEPT ![t] = "rejected"]
    /\ UNCHANGED <<v1, v2, run, leases, pending, proc, faults>>

-----------------------------------------------------------------------------
(* Leases and claims.                                                      *)

\* Slips: the insert without its unique index, and a delete that takes the live
\* row along with the expired one.
InsertLeaseNoIndex(t, l) ==
    /\ Fresh(l)
    /\ leases' = [m \in LeaseIds |-> IF m = l THEN Row(t, TTL) ELSE leases[m]]

InsertLeaseStealing(t, l) ==
    /\ Fresh(l)
    /\ leases' = [m \in LeaseIds |-> IF m = l THEN Row(t, TTL)
                                     ELSE IF m \in RowsOf(t) THEN NoRow
                                     ELSE leases[m]]

\* CreateLeaseTx: delete the task's expired row, then insert under the unique
\* index on task_id, which refuses while another row of the task remains.
InsertLease(t, l) ==
    /\ Fresh(l)
    /\ RowsOf(t) \subseteq {m \in LeaseIds : Expired(m)}
    /\ leases' = [m \in LeaseIds |->
                    IF m = l THEN Row(t, TTL)
                    ELSE IF m \in RowsOf(t) /\ Expired(m) THEN NoRow
                    ELSE leases[m]]

\* ClaimTaskByID: lease, status and run in one transaction, with no condition
\* on the status the task has.
ClaimTx(t, l) ==
    /\ InsertLease(t, l)
    /\ SetStatus(t, "IN_PROGRESS", "CLAIMED")
    /\ run' = [run EXCEPT ![t] = "RUNNING"]

\* The new run takes the place of the one a handler may have read before.
RunSuperseded(t) ==
    [p \in Procs |-> IF proc[p].task = t /\ proc[p].run = "latest"
                     THEN [proc[p] EXCEPT !.run = "older"]
                     ELSE proc[p]]

\* POST /tasks/{id}/claim: any existing task, whatever its status or approval.
ClaimByID(t, l) ==
    /\ Exists(t)
    /\ ClaimTx(t, l)
    /\ proc' = RunSuperseded(t)
    /\ UNCHANGED <<approval, pending, faults>>

\* Claim-next (v1 GET /task and v2 claim-next): the candidate is selected in a
\* transaction that is rolled back ...
ClaimNextFind(p, t) ==
    /\ At(p, "idle")
    /\ FirstClaimable(t)
    /\ Become(p, [Idle EXCEPT !.pc = "found", !.task = t])
    /\ UNCHANGED <<taskVars, leases, pending, faults>>

\* ... and claimed in another one.
ClaimNextClaim(p, l) ==
    /\ At(p, "found")
    /\ ClaimTx(proc[p].task, l)
    /\ proc' = [RunSuperseded(proc[p].task) EXCEPT ![p] = Idle]
    /\ UNCHANGED <<approval, pending, faults>>

\* A conflict sends the handler back to its next attempt.
ClaimNextConflict(p) ==
    /\ At(p, "found")
    /\ Leased(proc[p].task)
    /\ Done(p)
    /\ UNCHANGED <<taskVars, leases, pending, faults>>

\* POST /leases: a lease without a claim; not even the task has to exist.
CreateLease(t, l) ==
    /\ InsertLease(t, l)
    /\ UNCHANGED <<taskVars, pending, proc, faults>>

\* POST /leases/{id}/release, and ReleaseLease: the row goes, the task stays
\* as it is.
ReleaseLease(l) ==
    /\ Held(l)
    /\ leases' = [leases EXCEPT ![l] = NoRow]
    /\ UNCHANGED <<taskVars, pending, proc, faults>>

\* POST /leases/{id}/heartbeat: refuse an expired lease, ...
HeartbeatCheck(p, l) ==
    /\ At(p, "idle")
    /\ Live(l)
    /\ Become(p, [Idle EXCEPT !.pc = "hb_read", !.lease = l])
    /\ UNCHANGED <<taskVars, leases, pending, faults>>

\* ... ExtendLease reads expires_at and adds TTL to max(now, expires_at), ...
HeartbeatRead(p) ==
    /\ At(p, "hb_read")
    /\ LET row == leases[proc[p].lease] IN
         IF row.task = None
         THEN Done(p)
         ELSE /\ row.left + TTL <= MaxLeft
              /\ Become(p, [proc[p] EXCEPT !.pc = "hb_write",
                                           !.left = row.left + TTL])
    /\ UNCHANGED <<taskVars, leases, pending, faults>>

\* ... and writes it to the row of that id, if there still is one.
HeartbeatWrite(p) ==
    /\ At(p, "hb_write")
    /\ leases' = IF Held(proc[p].lease)
                 THEN [leases EXCEPT ![proc[p].lease].left = proc[p].left]
                 ELSE leases
    /\ Done(p)
    /\ UNCHANGED <<taskVars, pending, faults>>

-----------------------------------------------------------------------------
(* Finalization.                                                           *)

\* Slip: the verdict is not passed on.
StartFinalizingBlank(p, t, verdict) ==
    Become(p, [Idle EXCEPT !.pc = "run_read", !.task = t])

\* From the task update to the end of CompleteTaskWithPayload and of
\* FailTaskWithError: the latest run gets the verdict, the lease is released.
StartFinalizing(p, t, verdict) ==
    Become(p, [Idle EXCEPT !.pc = "run_read", !.task = t, !.outcome = verdict])

\* The update refuses a task that is finished; the call then ends in an error.
Complete(p, t) ==
    /\ At(p, "idle")
    /\ Exists(t)
    /\ ~Finished(t)
    /\ v2[t] # "CANCELLED"
    /\ SetStatus(t, "COMPLETE", "SUCCEEDED")
    /\ StartFinalizing(p, t, "SUCCEEDED")
    /\ UNCHANGED <<approval, run, leases, pending, faults>>

\* v2TaskFailHandler refuses a terminal task before it calls FailTaskWithError.
FailCheck(p, t) ==
    /\ At(p, "idle")
    /\ Exists(t)
    /\ v2[t] \notin TerminalV2
    /\ Become(p, [Idle EXCEPT !.pc = "fail", !.task = t])
    /\ UNCHANGED <<taskVars, leases, pending, faults>>

\* FailTaskWithError: the update spares a finished task, but nobody asks
\* whether it did anything.
FailUpdate(p, t) ==
    /\ IF Finished(t) THEN UNCHANGED <<v1, v2>>
                      ELSE SetStatus(t, "FAILED", "FAILED")
    /\ StartFinalizing(p, t, "FAILED")
    /\ UNCHANGED <<approval, run, leases, pending, faults>>

Fail(p) == At(p, "fail") /\ FailUpdate(p, proc[p].task)

\* The v1 status endpoint calls it with no check before.
FailV1(p, t) == At(p, "idle") /\ Exists(t) /\ FailUpdate(p, t)

\* Slip: the run is closed only while the task is still leased.
FinishReadRunIfLeased(p) ==
    /\ At(p, "run_read")
    /\ Become(p, IF run[proc[p].task] = "NONE" \/ ~Leased(proc[p].task)
                 THEN [proc[p] EXCEPT !.pc = "lease_read"]
                 ELSE [proc[p] EXCEPT !.pc = "run_write", !.run = "latest"])
    /\ UNCHANGED <<taskVars, leases, pending, faults>>

FinishReadRun(p) ==
    /\ At(p, "run_read")
    /\ Become(p, IF run[proc[p].task] = "NONE"
                 THEN [proc[p] EXCEPT !.pc = "lease_read"]
                 ELSE [proc[p] EXCEPT !.pc = "run_write", !.run = "latest"])
    /\ UNCHANGED <<taskVars, leases, pending, faults>>

\* UpdateRunStatus: unconditional.  A run that is no longer the latest one is
\* updated out of sight of this module.
FinishUpdateRun(p) ==
    /\ At(p, "run_write")
    /\ run' = IF proc[p].run = "latest"
              THEN [run EXCEPT ![proc[p].task] = proc[p].outcome]
              ELSE run
    /\ Become(p, [proc[p] EXCEPT !.pc = "lease_read", !.run = "none"])
    /\ UNCHANGED <<v1, v2, approval, leases, pending, faults>>

\* Whatever live lease the task has now, whoever holds it.
FinishReadLease(p) ==
    /\ At(p, "lease_read")
    /\ IF Leased(proc[p].task)
       THEN \E l \in LiveRowsOf(proc[p].task) :
              Become(p, [proc[p] EXCEPT !.pc = "lease_del", !.lease = l])
       ELSE Done(p)
    /\ UNCHANGED <<taskVars, leases, pending, faults>>

FinishReleaseLease(p) ==
    /\ At(p, "lease_del")
    /\ leases' = [leases EXCEPT ![proc[p].lease] = NoRow]
    /\ Done(p)
    /\ UNCHANGED <<taskVars, pending, faults>>

-----------------------------------------------------------------------------
(* The lease sweep, every minute.                                          *)

\* Slips: the sweep requeues tasks of any status, and the sweep deletes only
\* the leases of the tasks it requeues.
SweepTxAnyStatus ==
    /\ pending = {}
    /\ \E l \in LeaseIds : Expired(l)
    /\ LET abandoned == {t \in Tasks : \E l \in RowsOf(t) : Expired(l)} IN
         /\ v1' = [t \in Tasks |-> IF t \in abandoned THEN "NOT_PICKED" ELSE v1[t]]
         /\ pending' = abandoned
    /\ leases' = [l \in LeaseIds |-> IF Expired(l) THEN NoRow ELSE leases[l]]
    /\ UNCHANGED <<v2, approval, run, proc, faults>>

SweepTxInProgressOnly ==
    /\ pending = {}
    /\ LET abandoned == {t \in Tasks : v1[t] = "IN_PROGRESS" /\ \E l \in RowsOf(t) : Expired(l)} IN
         /\ abandoned # {}
         /\ v1' = [t \in Tasks |-> IF t \in abandoned THEN "NOT_PICKED" ELSE v1[t]]
         /\ pending' = abandoned
         /\ leases' = [l \in LeaseIds |-> IF leases[l].task \in abandoned /\ Expired(l)
                                          THEN NoRow ELSE leases[l]]
    /\ UNCHANGED <<v2, approval, run, proc, faults>>

\* DeleteExpiredLeases: one transaction sets status (not status_v2) back and
\* deletes the rows.  The sweeper handles all events before its next round.
SweepTx ==
    /\ pending = {}
    /\ \E l \in LeaseIds : Expired(l)
    /\ LET abandoned == {t \in Tasks : \E l \in RowsOf(t) : Expired(l)} IN
         /\ v1' = [t \in Tasks |-> IF t \in abandoned /\ v1[t] = "IN_PROGRESS"
                                   THEN "NOT_PICKED" ELSE v1[t]]
         /\ pending' = abandoned
    /\ leases' = [l \in LeaseIds |-> IF Expired(l) THEN NoRow ELSE leases[l]]
    /\ UNCHANGED <<v2, approval, run, proc, faults>>

\* Slip: the event worker looks for RUNNING alone.
RequeueExpiredRunning(t) ==
    /\ t \in pending
    /\ pending' = pending \ {t}
    /\ IF v2[t] = "RUNNING" THEN SetStatus(t, "NOT_PICKED", "QUEUED")
                            ELSE UNCHANGED <<v1, v2>>
    /\ UNCHANGED <<approval, run, leases, proc, faults>>

\* One lease.expired event and processLeaseExpiredEvent, which runs inside
\* CreateEvent.  Its update repeats the condition it read, so the pair of
\* statements is as atomic as the update; neither looks at the lease table.
RequeueExpired(t) ==
    /\ t \in pending
    /\ pending' = pending \ {t}
    /\ IF v2[t] \in ActiveV2 THEN SetStatus(t, "NOT_PICKED", "QUEUED")
                             ELSE UNCHANGED <<v1, v2>>
    /\ UNCHANGED <<approval, run, leases, proc, faults>>

-----------------------------------------------------------------------------
(* Status edits by hand.                                                   *)

\* The v1 status endpoint with NOT_PICKED or IN_PROGRESS: no guard at all.
SetStatusV1(t, s) ==
    /\ Exists(t)
    /\ SetStatus(t, s, IF s = "IN_PROGRESS" THEN "CLAIMED" ELSE "QUEUED")
    /\ UNCHANGED <<approval, run, leases, pending, proc, faults>>

\* PATCH /tasks/{id} with a status: what it read is overwritten anyway.
PatchStatus(t, pair) ==
    /\ Exists(t)
    /\ SetStatus(t, pair[1], pair[2])
    /\ UNCHANGED <<approval, run, leases, pending, proc, faults>>

\* PATCH without a status: UpdateTaskV2 reads the row, and ...
PatchRead(p, t) ==
    /\ At(p, "idle")
    /\ Exists(t)
    /\ Become(p, [Idle EXCEPT !.pc = "patch", !.task = t,
                              !.v1 = v1[t], !.v2 = v2[t]])
    /\ UNCHANGED <<taskVars, leases, pending, faults>>

\* ... writes both status columns back along with the field it was to change.
PatchWrite(p) ==
    /\ At(p, "patch")
    /\ SetStatus(proc[p].task, proc[p].v1, proc[p].v2)
    /\ Done(p)
    /\ UNCHANGED <<approval, run, leases, pending, faults>>

-----------------------------------------------------------------------------
(* Time and faults.                                                        *)

Tick ==
    /\ \/ \E l \in LeaseIds : leases[l].left > 0
       \/ \E p \in Procs : proc[p].left > 0
    /\ leases' = [l \in LeaseIds |->
                    [leases[l] EXCEPT !.left = IF @ > 0 THEN @ - 1 ELSE 0]]
    /\ proc' = [p \in Procs |->
                    [proc[p] EXCEPT !.left = IF @ > 0 THEN @ - 1 ELSE 0]]
    /\ UNCHANGED <<taskVars, pending, faults>>

Fault == faults < MaxFaults /\ faults' = faults + 1

\* The process stops: what handlers and sweeper held is gone, the file is not.
Crash ==
    /\ Fault
    /\ pending' = {}
    /\ proc' = [p \in Procs |-> Idle]
    /\ UNCHANGED <<taskVars, leases>>

\* A write of the finalization fails (SQLITE_BUSY): it is logged, and the
\* handler goes on.  The approval mark is not even logged.
WriteFails(p) ==
    /\ Fault
    /\ \/ /\ proc[p].pc \in {"run_read", "run_write"}
          /\ Become(p, [proc[p] EXCEPT !.pc = "lease_read", !.run = "none"])
       \/ /\ proc[p].pc \in {"lease_read", "lease_del", "hb_write", "mark"}
          /\ Done(p)
    /\ UNCHANGED <<taskVars, leases, pending>>

\* A lease.expired event cannot be written: the remaining ones are dropped.  Or
\* it is written, but its worker cannot load or update the task.
EmitFails ==
    /\ Fault
    /\ \E t \in pending : pending' \in {{}, pending \ {t}}
    /\ UNCHANGED <<taskVars, leases, proc>>

-----------------------------------------------------------------------------
Handler(p) ==
    \/ MarkApproval(p)
    \/ \E l \in LeaseIds : ClaimNextClaim(p, l)
    \/ ClaimNextConflict(p)
    \/ HeartbeatRead(p) \/ HeartbeatWrite(p)
    \/ Fail(p)
    \/ FinishReadRun(p) \/ FinishUpdateRun(p)
    \/ FinishReadLease(p) \/ FinishReleaseLease(p)
    \/ PatchWrite(p)

Request(p) ==
    \/ \E t \in Tasks, gated \in BOOLEAN : CreateTask(p, t, gated)
    \/ \E t \in Tasks : \/ ClaimNextFind(p, t) \/ Complete(p, t)
                        \/ FailCheck(p, t) \/ FailV1(p, t)
    \/ \E l \in LeaseIds : HeartbeatCheck(p, l)

OneStep ==
    \/ \E t \in Tasks : Approve(t) \/ Reject(t)
    \/ \E t \in Tasks, l \in LeaseIds : ClaimByID(t, l) \/ CreateLease(t, l)
    \/ \E l \in LeaseIds : ReleaseLease(l)

Sweeper == SweepTx \/ \E t \in Tasks : RequeueExpired(t)

Faulty == Crash \/ EmitFails \/ \E p \in Procs : WriteFails(p)

\* Nobody edits a status by hand.
UnattendedNext ==
    \/ \E p \in Procs : Handler(p) \/ Request(p)
    \/ OneStep \/ Sweeper \/ Tick \/ Faulty

Edit ==
    \/ \E t \in Tasks, s \in {"NOT_PICKED", "IN_PROGRESS"} : SetStatusV1(t, s)
    \/ \E t \in Tasks, pair \in PatchablePairs : PatchStatus(t, pair)
    \/ \E p \in Procs, t \in Tasks : PatchRead(p, t)

Next == UnattendedNext \/ Edit

UnattendedSpec == Init /\ [][UnattendedNext]_vars
Spec == Init /\ [][Next]_vars

-----------------------------------------------------------------------------
(* Properties.                                                             *)

PCs == {"idle", "mark", "found", "hb_read", "hb_write", "fail", "run_read",
        "run_write", "lease_read", "lease_del", "patch"}

ProcType ==
    [pc : PCs, task : Tasks \cup {None}, lease : LeaseIds \cup {None},
     left : 0..MaxLeft, run : {"none", "latest", "older"},
     outcome : {"none", "SUCCEEDED", "FAILED"},
     v1 : StatusV1 \cup {"ABSENT"}, v2 : StatusV2 \cup {"ABSENT"}]

\* Every variable keeps to its type: the columns hold the values the schema
\* and models.go name, and a remaining time never leaves its bound.
TypeOK ==
    /\ v1 \in [Tasks -> StatusV1 \cup {"ABSENT"}]
    /\ v2 \in [Tasks -> StatusV2 \cup {"ABSENT"}]
    /\ approval \in [Tasks -> Approvals]
    /\ run \in [Tasks -> RunStatus]
    /\ leases \in [LeaseIds -> [task : Tasks \cup {None}, left : 0..MaxLeft]]
    /\ pending \subseteq Tasks
    /\ proc \in [Procs -> ProcType]
    /\ faults \in 0..MaxFaults

\* The lease table never has two rows for one task, expired ones included:
\* CreateLeaseTx makes room for its row and only for its row.
UniqueLease ==
    \A l, m \in LeaseIds : Held(l) /\ leases[m].task = leases[l].task => l = m

\* The pairs of columns a task may show.
AgreeingPair(a, b) ==
    \/ a = "NOT_PICKED"  /\ b \in {"QUEUED"} \cup ActiveV2
    \/ a = "IN_PROGRESS" /\ b \in ActiveV2
    \/ a = "COMPLETE"    /\ b \in TerminalV2 \cup {"NEEDS_REVIEW"}
    \/ a = "FAILED"      /\ b = "FAILED"

\* The two status columns of a task agree on whether it is finished, whatever
\* handlers, sweep and hand edits interleave: the guards written over `status`
\* protect the same tasks as those written over `status_v2`.
StatusesAgree ==
    \A t \in Tasks : \/ v1[t] = "ABSENT" /\ v2[t] = "ABSENT"
                     \/ AgreeingPair(v1[t], v2[t])

\* A finished task keeps both its statuses for ever, unless somebody takes a
\* new lease and a new run for it: no sweep, requeue, late completion or late
\* failure touches it (the guards of finalization.go and automation.go).
FinishedStaysFinished ==
    [][\A t \in Tasks :
         Finished(t) /\ <<v1[t], v2[t]>>' # <<v1[t], v2[t]>>
           => ~Leased(t) /\ Leased(t)' /\ v2'[t] = "CLAIMED" /\ run'[t] = "RUNNING"]_vars

\* As long as no write fails, a finished task does not keep a running run: the
\* handler that finished it is still on its way to the latest run, even when
\* the task was claimed again and finished by another handler meanwhile.
FinishedClosesRun ==
    faults = 0 =>
      \A t \in Tasks : Finished(t) /\ run[t] = "RUNNING" =>
        \E p \in Procs : /\ proc[p].task = t
                         /\ \/ proc[p].pc = "run_read"
                            \/ proc[p].pc = "run_write" /\ proc[p].run = "latest"

\* As long as no write fails, a task that is back in the queue by `status` but
\* still claimed by `status_v2` has its lease.expired event ahead of it: the
\* sweep's transaction and the event worker together move both columns.
HalfRequeuedIsPending ==
    faults = 0 =>
      \A t \in Tasks : v1[t] = "NOT_PICKED" /\ v2[t] \in ActiveV2 => t \in pending

\* The lock the lease table implements: a task is held under the id of its
\* live row.
Holder == [t \in Tasks |-> IF Leased(t) THEN CHOOSE l \in LiveRowsOf(t) : TRUE
                                       ELSE None]

Lock == INSTANCE LeaseLock WITH Free <- None, holder <- Holder

\* Claims, heartbeats, releases, sweeps, finalizations and the clock together
\* implement an exclusive lock: a live lease is never replaced by another one.
LeasesImplementLock == Lock!Spec

-----------------------------------------------------------------------------
(* Fairness and liveness.                                                  *)

\* What the server does on its own: time passes, the sweeper's ticker keeps
\* firing and its loop keeps going, and a handler runs to its end.
ServerFairness ==
    /\ WF_vars(Tick)
    /\ WF_vars(SweepTx)
    /\ \A t \in Tasks : WF_vars(RequeueExpired(t))
    /\ \A p \in Procs : WF_vars(Handler(p))

\* Some agent keeps asking for work.  Strong fairness, because in the model,
\* unlike in the server, other requests can keep all handler slots taken.
AgentsPoll == SF_vars(\E p \in Procs, t \in Tasks : ClaimNextFind(p, t))

ServerSpec == UnattendedSpec /\ ServerFairness
PolledSpec == ServerSpec /\ AgentsPoll

\* An expired lease does not stay: it is swept, replaced by a claim, or
\* revived by a heartbeat that was under way, even after a crash or an event
\* that could not be written.
ExpiredLeaseGoes == \A l \in LeaseIds : Expired(l) ~> ~Expired(l)

\* As long as no write fails, a task whose `status` the sweep put back in the
\* queue gets its `status_v2` put back too, or is claimed again.
HalfRequeuedSettles ==
    \A t \in Tasks :
      v1[t] = "NOT_PICKED" /\ v2[t] \in ActiveV2
        ~> ~(v1[t] = "NOT_PICKED" /\ v2[t] \in ActiveV2) \/ faults > 0

\* While agents poll, no claimable task is left alone for ever, one whose
\* lease expired or whose sweep event was lost included.
ClaimableIsTaken == \A t \in Tasks : Claimable(t) ~> ~Claimable(t)

-----------------------------------------------------------------------------
(* What comments, docs and tests say, and the code does not do.            *)

\* handlers_v2_tasks.go:1287: claim-next claims "atomically in a single
\* transaction (select + lease + status update + run creation)", so what it
\* claims is claimable when it claims it.
ClaimNextClaimsClaimable ==
    [][\A p \in Procs, t \in Tasks :
         At(p, "found") /\ proc[p].task = t /\ proc'[p].pc = "idle"
           /\ ~Leased(t) /\ Leased(t)' => Claimable(t)]_vars

\* finalization.go:204 and TestFailTask_AlreadyCompleteNoChange: failing a
\* completed task does "not change state", so a run that succeeded does not
\* turn into a failed one.
SucceededRunStays ==
    [][\A t \in Tasks : run[t] = "SUCCEEDED" => run'[t] # "FAILED"]_vars

\* v2-design.md:395: heartbeats extend the lease from max(now, current
\* expiry), so no heartbeat takes time away from a lease.
HeartbeatNeverShortens ==
    [][\A p \in Procs, l \in LeaseIds :
         At(p, "hb_write") /\ proc[p].lease = l /\ proc'[p].pc = "idle"
           /\ Held(l) /\ Held(l)' => leases'[l].left >= leases[l].left]_vars

\* v2-roadmap.md:366: releasing a lease puts the task back in the queue if it
\* is not completed.  Nothing else in the server does it either: the sweep
\* only knows tasks that have a lease row.
ReleasedTaskIsRequeued ==
    \A t \in Tasks :
      v2[t] = "CLAIMED" /\ RowsOf(t) = {} ~> v2[t] # "CLAIMED" \/ RowsOf(t) # {}
=============================================================================

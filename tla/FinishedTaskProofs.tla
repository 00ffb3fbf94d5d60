------------------------- MODULE FinishedTaskProofs -------------------------
(***************************************************************************)
(* What holds as long as nobody edits a status by hand: finished tasks     *)
(* stay finished, their runs are closed, and a task half put back in the   *)
(* queue is on its way there.                                              *)
(***************************************************************************)
EXTENDS TaskLifecycleProofs

-----------------------------------------------------------------------------
(* Without edits there is no PATCH handler, so nobody writes back columns  *)
(* it read before.                                                         *)

NoPatch == \A p \in Procs : ~At(p, "patch")

Unattended == Typing /\ Agreement /\ NoPatch

LEMMA UnattendedIsNext == [UnattendedNext]_vars => [Next]_vars
BY DEF Next

LEMMA NoPatchStep == Typing /\ NoPatch /\ [UnattendedNext]_vars => NoPatch'
<1> SUFFICES ASSUME Typing, NoPatch, [UnattendedNext]_vars PROVE NoPatch'
  OBVIOUS
<1> USE DEF NoPatch, At
<1>0. proc \in [Procs -> ProcType]
  BY DEF Typing, TypeOK
<1>1. ASSUME NEW p \in Procs, NEW q, q.pc # "patch", Become(p, q) PROVE NoPatch'
  BY <1>0, <1>1 DEF Become
<1>2. ASSUME NEW p \in Procs, Done(p) PROVE NoPatch'
  BY <1>0, <1>2 DEF Done, Become, Idle
<1>3. CASE UNCHANGED proc
  BY <1>3
<1>4. ASSUME NEW p \in Procs, Request(p) PROVE NoPatch'
  <2>1. ASSUME NEW c \in {"mark", "found", "fail"}, NEW t \in Tasks
        PROVE  [Idle EXCEPT !.pc = c, !.task = t].pc # "patch"
    BY DEF Idle
  <2>2. ASSUME NEW t \in Tasks, NEW verdict
        PROVE  [Idle EXCEPT !.pc = "run_read", !.task = t, !.outcome = verdict].pc # "patch"
    BY DEF Idle
  <2>3. ASSUME NEW l \in LeaseIds PROVE [Idle EXCEPT !.pc = "hb_read", !.lease = l].pc # "patch"
    BY DEF Idle
  <2> QED
    BY <1>1, <1>3, <1>4, <2>1, <2>2, <2>3
    DEF Request, CreateTask, ClaimNextFind, Complete, FailCheck, FailV1, FailUpdate,
        StartFinalizing, HeartbeatCheck
<1>5. ASSUME NEW p \in Procs, Handler(p) PROVE NoPatch'
  <2>1. ASSUME NEW c \in {"lease_read"} PROVE [proc[p] EXCEPT !.pc = c].pc # "patch"
    BY <1>0 DEF ProcType
  <2>2. ASSUME NEW c \in {"lease_read", "run_write"}, NEW n
        PROVE  [proc[p] EXCEPT !.pc = c, !.run = n].pc # "patch"
    BY <1>0 DEF ProcType
  <2>3. ASSUME NEW l PROVE [proc[p] EXCEPT !.pc = "lease_del", !.lease = l].pc # "patch"
    BY <1>0 DEF ProcType
  <2>4. ASSUME NEW n PROVE [proc[p] EXCEPT !.pc = "hb_write", !.left = n].pc # "patch"
    BY <1>0 DEF ProcType
  <2>5. ASSUME NEW t
        PROVE  [Idle EXCEPT !.pc = "run_read", !.task = t, !.outcome = "FAILED"].pc # "patch"
    BY DEF Idle
  <2>6. ASSUME NEW l \in LeaseIds, ClaimNextClaim(p, l) PROVE NoPatch'
    <3>1. RunSuperseded(proc[p].task) = [r \in Procs |-> RunSuperseded(proc[p].task)[r]]
      BY DEF RunSuperseded
    <3>2. \A r \in Procs : RunSuperseded(proc[p].task)[r].pc = proc[r].pc
      BY <1>0 DEF RunSuperseded, ProcType
    <3> QED
      BY <2>6, <3>1, <3>2 DEF ClaimNextClaim, Idle
  <2>7. CASE MarkApproval(p) \/ ClaimNextConflict(p) \/ HeartbeatWrite(p) \/ FinishReleaseLease(p)
    BY <1>2, <2>7 DEF MarkApproval, ClaimNextConflict, HeartbeatWrite, FinishReleaseLease
  <2>8. CASE HeartbeatRead(p)
    BY <1>1, <1>2, <2>4, <2>8 DEF HeartbeatRead
  <2>9. CASE Fail(p)
    BY <1>1, <2>5, <2>9 DEF Fail, FailUpdate, StartFinalizing
  <2>10. CASE FinishReadRun(p) \/ FinishUpdateRun(p)
    BY <1>1, <2>1, <2>2, <2>10 DEF FinishReadRun, FinishUpdateRun
  <2>11. CASE FinishReadLease(p)
    BY <1>1, <1>2, <2>3, <2>11 DEF FinishReadLease
  <2> QED
    BY <1>5, <2>6, <2>7, <2>8, <2>9, <2>10, <2>11 DEF Handler, PatchWrite
<1>6. CASE OneStep \/ Sweeper
  <2>1. ASSUME NEW t \in Tasks, proc' = RunSuperseded(t) PROVE NoPatch'
    BY <1>0, <2>1 DEF RunSuperseded, ProcType
  <2> QED
    BY <1>3, <1>6, <2>1 DEF OneStep, Approve, Reject, ClaimByID, CreateLease, ReleaseLease,
                            Sweeper, SweepTx, RequeueExpired
<1>7. CASE Tick
  BY <1>0, <1>7 DEF Tick, ProcType
<1>8. CASE Faulty
  <2>1. CASE Crash
    BY <2>1 DEF Crash, Idle
  <2>2. CASE EmitFails
    BY <1>3, <2>2 DEF EmitFails
  <2>3. ASSUME NEW p \in Procs, WriteFails(p) PROVE NoPatch'
    <3>1. [proc[p] EXCEPT !.pc = "lease_read", !.run = "none"].pc # "patch"
      BY <1>0 DEF ProcType
    <3> QED
      BY <1>1, <1>2, <2>3, <3>1 DEF WriteFails
  <2> QED
    BY <1>8, <2>1, <2>2, <2>3 DEF Faulty
<1>9. CASE UNCHANGED vars
  BY <1>3, <1>9 DEF vars
<1> QED
  BY <1>4, <1>5, <1>6, <1>7, <1>8, <1>9 DEF UnattendedNext

LEMMA UnattendedInvariant == UnattendedSpec => []Unattended
<1>1. Init => Unattended
  BY TypingInit DEF Init, Unattended, Agreement, StatusesAgree, PatchesAgree, NoPatch, At, Idle
<1>2. Unattended /\ [UnattendedNext]_vars => Unattended'
  BY TypingStep, AgreementStep, NoPatchStep, UnattendedIsNext DEF Unattended
<1> QED
  BY <1>1, <1>2, PTL DEF UnattendedSpec

-----------------------------------------------------------------------------
(* Finished tasks stay finished.                                           *)

\* A claim of t by whatever path, as the exception of FinishedStaysFinished
\* describes it.
Claimed(t) ==
    ~Leased(t) /\ Leased(t)' /\ v2'[t] = "CLAIMED" /\ run'[t] = "RUNNING"

Keeps(t) == <<v1[t], v2[t]>>' = <<v1[t], v2[t]>>

FinishedStep == \A t \in Tasks : Finished(t) => Keeps(t) \/ Claimed(t)

LEMMA SetKeepsOthers ==
    ASSUME Typing, NEW t \in Tasks, NEW a, NEW b, SetStatus(t, a, b),
           NEW u \in Tasks, u # t
    PROVE  Keeps(u)
BY DEF Typing, TypeOK, SetStatus, Keeps

LEMMA SetSparesFinished ==
    ASSUME Typing, NEW t \in Tasks, NEW a, NEW b, SetStatus(t, a, b), ~Finished(t)
    PROVE  FinishedStep
BY SetKeepsOthers DEF FinishedStep

LEMMA ClaimIsClaimed ==
    ASSUME Typing, NEW t \in Tasks, NEW l \in LeaseIds, ClaimTx(t, l)
    PROVE  FinishedStep
<1>1. ~Leased(t)
  BY DEF ClaimTx, InsertLease, Leased, LiveRowsOf, Expired
<1>2. leases'[l] = Row(t, TTL)
  BY DEF ClaimTx, InsertLease
<1>3. Leased(t)'
  BY <1>2, TimesAssumption DEF Leased, LiveRowsOf, RowsOf, Row
<1>4. v2'[t] = "CLAIMED" /\ run'[t] = "RUNNING"
  BY DEF ClaimTx, SetStatus, Typing, TypeOK
<1> QED
  BY <1>1, <1>3, <1>4, SetKeepsOthers DEF ClaimTx, FinishedStep, Claimed

LEMMA FinishedStepHolds == Unattended /\ [UnattendedNext]_vars => FinishedStep
<1> SUFFICES ASSUME Unattended, [UnattendedNext]_vars PROVE FinishedStep
  OBVIOUS
<1>0. Typing /\ StatusesAgree /\ NoPatch
  BY DEF Unattended, Agreement
<1>1. ASSUME UNCHANGED <<v1, v2>> PROVE FinishedStep
  BY <1>1 DEF FinishedStep, Keeps
<1>2. ASSUME NEW p \in Procs, NEW t \in Tasks, FailUpdate(p, t) PROVE FinishedStep
  BY <1>0, <1>1, <1>2, SetSparesFinished DEF FailUpdate
<1>3. ASSUME NEW p \in Procs, Request(p) PROVE FinishedStep
  <2>1. ASSUME NEW t \in Tasks, NEW g \in BOOLEAN, CreateTask(p, t, g) PROVE FinishedStep
    <3>1. ~Finished(t)
      BY <2>1 DEF CreateTask, Exists, Finished, FinishedV1
    <3> QED
      BY <1>0, <2>1, <3>1, SetSparesFinished DEF CreateTask
  <2>2. ASSUME NEW t \in Tasks, Complete(p, t) PROVE FinishedStep
    BY <1>0, <2>2, SetSparesFinished DEF Complete
  <2> QED
    BY <1>1, <1>2, <1>3, <2>1, <2>2
    DEF Request, ClaimNextFind, FailCheck, FailV1, HeartbeatCheck, taskVars
<1>4. ASSUME NEW p \in Procs, Handler(p) PROVE FinishedStep
  <2>1. ASSUME NEW l \in LeaseIds, ClaimNextClaim(p, l) PROVE FinishedStep
    <3>1. proc[p].task \in Tasks
      BY <1>0, <2>1 DEF ClaimNextClaim, At, Typing, ProcOK
    <3> QED
      BY <1>0, <2>1, <3>1, ClaimIsClaimed DEF ClaimNextClaim
  <2>2. ASSUME Fail(p) PROVE FinishedStep
    <3>1. proc[p].task \in Tasks
      BY <1>0, <2>2 DEF Fail, At, Typing, ProcOK
    <3> QED
      BY <1>2, <2>2, <3>1 DEF Fail
  <2>3. ~PatchWrite(p)
    BY <1>0 DEF PatchWrite, NoPatch
  <2> QED
    BY <1>1, <1>4, <2>1, <2>2, <2>3
    DEF Handler, MarkApproval, ClaimNextConflict, HeartbeatRead, HeartbeatWrite,
        FinishReadRun, FinishUpdateRun, FinishReadLease, FinishReleaseLease, taskVars
<1>5. CASE OneStep
  <2>1. ASSUME NEW t \in Tasks, NEW l \in LeaseIds, ClaimByID(t, l) PROVE FinishedStep
    BY <1>0, <2>1, ClaimIsClaimed DEF ClaimByID
  <2> QED
    BY <1>1, <1>5, <2>1 DEF OneStep, Approve, Reject, CreateLease, ReleaseLease, taskVars
<1>6. CASE SweepTx
  BY <1>0, <1>6 DEF SweepTx, FinishedStep, Keeps, Finished, FinishedV1, Typing, TypeOK
<1>7. ASSUME NEW t \in Tasks, RequeueExpired(t) PROVE FinishedStep
  <2>1. CASE v2[t] \in ActiveV2
    <3>1. ~Finished(t)
      BY <1>0, <2>1 DEF StatusesAgree, AgreeingPair, Finished, FinishedV1, ActiveV2, TerminalV2
    <3> QED
      BY <1>0, <1>7, <2>1, <3>1, SetSparesFinished DEF RequeueExpired
  <2>2. CASE v2[t] \notin ActiveV2
    BY <1>1, <1>7, <2>2 DEF RequeueExpired
  <2> QED
    BY <2>1, <2>2
<1>8. CASE Tick \/ Faulty \/ UNCHANGED vars
  BY <1>1, <1>8 DEF Tick, Faulty, Crash, EmitFails, WriteFails, taskVars, vars
<1> QED
  BY <1>3, <1>4, <1>5, <1>6, <1>7, <1>8 DEF UnattendedNext, Sweeper

\* A finished task keeps both its statuses unless somebody takes a new lease
\* and a new run for it: no sweep, no lease.expired event, no late completion
\* and no late failure touches it.
THEOREM FinishedTasksStay == UnattendedSpec => FinishedStaysFinished
<1>1. FinishedStep => [\A t \in Tasks :
         Finished(t) /\ <<v1[t], v2[t]>>' # <<v1[t], v2[t]>>
           => ~Leased(t) /\ Leased(t)' /\ v2'[t] = "CLAIMED" /\ run'[t] = "RUNNING"]_vars
  BY DEF FinishedStep, Keeps, Claimed
<1>2. Unattended /\ [UnattendedNext]_vars => [\A t \in Tasks :
         Finished(t) /\ <<v1[t], v2[t]>>' # <<v1[t], v2[t]>>
           => ~Leased(t) /\ Leased(t)' /\ v2'[t] = "CLAIMED" /\ run'[t] = "RUNNING"]_vars
  BY <1>1, FinishedStepHolds
<1> QED
  BY <1>2, UnattendedInvariant, PTL DEF UnattendedSpec, FinishedStaysFinished

-----------------------------------------------------------------------------
(* Tasks half put back in the queue.                                       *)

\* A step after which no fault has happened is not one.
LEMMA NoFaultYet ==
    ASSUME Typing, [UnattendedNext]_vars, faults' = 0
    PROVE  ~Faulty /\ faults = 0
<1>1. ~Faulty
  <2>1. ~Fault
    BY DEF Fault, Typing, TypeOK
  <2> QED
    BY <2>1 DEF Faulty, Crash, EmitFails, WriteFails
<1>2. UNCHANGED faults
  BY <1>1 DEF UnattendedNext, vars, Handler, Request, OneStep, Sweeper, Tick,
     MarkApproval, ClaimNextClaim, ClaimNextConflict, HeartbeatRead, HeartbeatWrite, Fail,
     FailUpdate, FinishReadRun, FinishUpdateRun, FinishReadLease, FinishReleaseLease,
     PatchWrite, CreateTask, ClaimNextFind, Complete, FailCheck, FailV1, HeartbeatCheck,
     Approve, Reject, ClaimByID, CreateLease, ReleaseLease, SweepTx, RequeueExpired
<1> QED
  BY <1>1, <1>2

LEMMA HalfStep ==
    Unattended /\ HalfRequeuedIsPending /\ [UnattendedNext]_vars => HalfRequeuedIsPending'
<1> SUFFICES ASSUME Unattended, HalfRequeuedIsPending, [UnattendedNext]_vars, faults' = 0
             PROVE  \A t \in Tasks : v1'[t] = "NOT_PICKED" /\ v2'[t] \in ActiveV2 => t \in pending'
  BY DEF HalfRequeuedIsPending
<1> DEFINE Goal == \A t \in Tasks : v1'[t] = "NOT_PICKED" /\ v2'[t] \in ActiveV2 => t \in pending'
<1>0. Typing /\ NoPatch
  BY DEF Unattended
<1>1. ~Faulty /\ faults = 0
  BY <1>0, NoFaultYet
<1>3. \A t \in Tasks : v1[t] = "NOT_PICKED" /\ v2[t] \in ActiveV2 => t \in pending
  BY <1>1 DEF HalfRequeuedIsPending
<1>4. ASSUME UNCHANGED <<v1, v2, pending>> PROVE Goal
  BY <1>3, <1>4
<1>5. ASSUME NEW t \in Tasks, NEW a, NEW b, SetStatus(t, a, b),
             a # "NOT_PICKED" \/ b \notin ActiveV2, pending \ {t} \subseteq pending'
      PROVE  Goal
  BY <1>0, <1>3, <1>5 DEF SetStatus, Typing, TypeOK
<1>6. ASSUME NEW t \in Tasks, NEW l \in LeaseIds, ClaimTx(t, l), UNCHANGED pending PROVE Goal
  BY <1>5, <1>6 DEF ClaimTx
<1>7. ASSUME NEW p \in Procs, NEW t \in Tasks, FailUpdate(p, t) PROVE Goal
  BY <1>4, <1>5, <1>7 DEF FailUpdate
<1>8. ASSUME NEW p \in Procs, Request(p) PROVE Goal
  <2>1. ASSUME NEW t \in Tasks, NEW g \in BOOLEAN, CreateTask(p, t, g) PROVE Goal
    BY <1>5, <2>1 DEF CreateTask, ActiveV2
  <2>2. ASSUME NEW t \in Tasks, Complete(p, t) PROVE Goal
    BY <1>5, <2>2 DEF Complete
  <2> QED
    BY <1>4, <1>7, <1>8, <2>1, <2>2
    DEF Request, ClaimNextFind, FailCheck, FailV1, HeartbeatCheck, taskVars
<1>9. ASSUME NEW p \in Procs, Handler(p) PROVE Goal
  <2>1. ASSUME NEW l \in LeaseIds, ClaimNextClaim(p, l) PROVE Goal
    <3>1. proc[p].task \in Tasks
      BY <1>0, <2>1 DEF ClaimNextClaim, At, Typing, ProcOK
    <3> QED
      BY <1>6, <2>1, <3>1 DEF ClaimNextClaim
  <2>2. ASSUME Fail(p) PROVE Goal
    <3>1. proc[p].task \in Tasks
      BY <1>0, <2>2 DEF Fail, At, Typing, ProcOK
    <3> QED
      BY <1>7, <2>2, <3>1 DEF Fail
  <2>3. ~PatchWrite(p)
    BY <1>0 DEF PatchWrite, NoPatch
  <2> QED
    BY <1>4, <1>9, <2>1, <2>2, <2>3
    DEF Handler, MarkApproval, ClaimNextConflict, HeartbeatRead, HeartbeatWrite,
        FinishReadRun, FinishUpdateRun, FinishReadLease, FinishReleaseLease, taskVars
<1>10. CASE OneStep
  <2>1. ASSUME NEW t \in Tasks, NEW l \in LeaseIds, ClaimByID(t, l) PROVE Goal
    BY <1>6, <2>1 DEF ClaimByID
  <2> QED
    BY <1>4, <1>10, <2>1 DEF OneStep, Approve, Reject, CreateLease, ReleaseLease, taskVars
<1>11. CASE SweepTx
  BY <1>0, <1>3, <1>11 DEF SweepTx, Typing, TypeOK
<1>12. ASSUME NEW t \in Tasks, RequeueExpired(t) PROVE Goal
  <2>1. CASE v2[t] \in ActiveV2
    BY <1>5, <1>12, <2>1 DEF RequeueExpired, ActiveV2
  <2>2. CASE v2[t] \notin ActiveV2
    BY <1>3, <1>12, <2>2 DEF RequeueExpired
  <2> QED
    BY <2>1, <2>2
<1>13. CASE Tick \/ UNCHANGED vars
  BY <1>4, <1>13 DEF Tick, taskVars, vars
<1> QED
  BY <1>1, <1>8, <1>9, <1>10, <1>11, <1>12, <1>13 DEF UnattendedNext, Sweeper

\* As long as no write fails, a task the sweep put back in the queue by
\* `status` alone has its lease.expired event ahead of it.
THEOREM HalfRequeuedArePending == UnattendedSpec => []HalfRequeuedIsPending
<1>1. Init => HalfRequeuedIsPending
  BY DEF Init, HalfRequeuedIsPending
<1> QED
  BY <1>1, UnattendedInvariant, HalfStep, PTL DEF UnattendedSpec

-----------------------------------------------------------------------------
(* Finished tasks close their run.                                         *)

\* Task t is finished and its latest run still counts as running.
OpenRun(t) == Finished(t) /\ run[t] = "RUNNING"

\* Handler p is going to close it.
Closing(p, t) ==
    /\ proc[p].task = t
    /\ proc[p].pc = "run_read" \/ (proc[p].pc = "run_write" /\ proc[p].run = "latest")

RunsClosing == \A t \in Tasks : OpenRun(t) => \E p \in Procs : Closing(p, t)

\* A step that opens no run but those it closes itself, and takes no handler
\* away from a run that stays open.
LEMMA ClosingKept ==
    ASSUME RunsClosing,
           \A t \in Tasks : OpenRun(t)' => OpenRun(t) \/ \E p \in Procs : Closing(p, t)',
           \A p \in Procs, t \in Tasks : Closing(p, t) => Closing(p, t)' \/ ~OpenRun(t)'
    PROVE  RunsClosing'
BY DEF RunsClosing

\* The same for a step of one handler, which closes no run itself.
LEMMA ClosingKeptByOne ==
    ASSUME Typing, RunsClosing, NEW p \in Procs, NEW q, Become(p, q),
           \A t \in Tasks : ~Closing(p, t),
           \A t \in Tasks : OpenRun(t)' => OpenRun(t)
    PROVE  RunsClosing'
<1>1. \A r \in Procs : r # p => proc'[r] = proc[r]
  BY DEF Become, Typing, TypeOK
<1>2. ASSUME NEW r \in Procs, NEW t \in Tasks, Closing(r, t) PROVE Closing(r, t)'
  BY <1>1, <1>2 DEF Closing
<1> QED
  BY <1>2, ClosingKept

LEMMA SetOpensNoOther ==
    ASSUME Typing, NEW t \in Tasks, NEW a, NEW b, SetStatus(t, a, b), UNCHANGED run,
           NEW u \in Tasks, u # t \/ a \notin FinishedV1, OpenRun(u)'
    PROVE  OpenRun(u)
BY DEF Typing, TypeOK, SetStatus, OpenRun, Finished

\* Whoever starts to finalize a task closes its run.
LEMMA FinalizingCloses ==
    ASSUME Typing, RunsClosing, NEW p \in Procs, NEW t \in Tasks, NEW verdict,
           proc[p].pc \in {"idle", "fail"}, StartFinalizing(p, t, verdict), UNCHANGED run,
           SetStatus(t, "COMPLETE", "SUCCEEDED") \/ SetStatus(t, "FAILED", "FAILED")
             \/ UNCHANGED <<v1, v2>>
    PROVE  RunsClosing'
<1>1. /\ proc'[p].task = t /\ proc'[p].pc = "run_read"
      /\ \A r \in Procs : r # p => proc'[r] = proc[r]
  BY DEF StartFinalizing, Become, Idle, Typing, TypeOK
<1>2. Closing(p, t)'
  BY <1>1 DEF Closing
<1>3. ASSUME NEW u \in Tasks, u # t, OpenRun(u)' PROVE OpenRun(u)
  BY <1>3, SetOpensNoOther DEF OpenRun, Finished
<1>4. ASSUME NEW r \in Procs, NEW u \in Tasks, Closing(r, u) PROVE Closing(r, u)'
  <2>1. r # p
    BY <1>4 DEF Closing
  <2> QED
    BY <1>1, <1>4, <2>1 DEF Closing
<1> QED
  BY <1>2, <1>3, <1>4, ClosingKept

\* A claim reopens its task, and the run it supersedes is one of that task.
LEMMA ClaimKeepsClosing ==
    ASSUME Typing, RunsClosing, NEW t \in Tasks, NEW l \in LeaseIds, ClaimTx(t, l),
           \A r \in Procs, u \in Tasks : Closing(r, u) => proc'[r] = RunSuperseded(t)[r]
    PROVE  RunsClosing'
<1>1. ~OpenRun(t)'
  BY DEF ClaimTx, SetStatus, OpenRun, Finished, FinishedV1, Typing, TypeOK
<1>2. ASSUME NEW u \in Tasks, u # t, OpenRun(u)' PROVE OpenRun(u)
  BY <1>2 DEF ClaimTx, SetStatus, OpenRun, Finished, Typing, TypeOK
<1>3. ASSUME NEW r \in Procs, NEW u \in Tasks, u # t, Closing(r, u) PROVE Closing(r, u)'
  <2>1. RunSuperseded(t)[r] = proc[r]
    BY <1>3 DEF RunSuperseded, Closing
  <2> QED
    BY <1>3, <2>1 DEF Closing
<1> QED
  BY <1>1, <1>2, <1>3, ClosingKept

LEMMA RunsClosingStep ==
    ASSUME Typing, NoPatch, RunsClosing, [UnattendedNext]_vars, ~Faulty
    PROVE  RunsClosing'
<1>1. ASSUME \A t \in Tasks : OpenRun(t)' => OpenRun(t), UNCHANGED proc PROVE RunsClosing'
  BY <1>1, ClosingKept DEF Closing
<1>2. ASSUME UNCHANGED <<v1, run>>, NEW t \in Tasks, OpenRun(t)' PROVE OpenRun(t)
  BY <1>2 DEF OpenRun, Finished
<1>3. ASSUME NEW p \in Procs, Request(p) PROVE RunsClosing'
  <2>1. ASSUME NEW q, Become(p, q), proc[p].pc = "idle",
               \A t \in Tasks : OpenRun(t)' => OpenRun(t)
        PROVE  RunsClosing'
    BY <2>1, ClosingKeptByOne DEF Closing
  <2>2. ASSUME NEW t \in Tasks, NEW g \in BOOLEAN, CreateTask(p, t, g) PROVE RunsClosing'
    <3>1. \A u \in Tasks : OpenRun(u)' => OpenRun(u)
      BY <2>2, SetOpensNoOther DEF CreateTask, FinishedV1
    <3> QED
      BY <1>1, <2>1, <2>2, <3>1 DEF CreateTask, At
  <2>3. ASSUME NEW t \in Tasks, Complete(p, t) PROVE RunsClosing'
    BY <2>3, FinalizingCloses DEF Complete, At
  <2>4. ASSUME NEW t \in Tasks, FailV1(p, t) PROVE RunsClosing'
    BY <2>4, FinalizingCloses DEF FailV1, FailUpdate, At
  <2>5. ASSUME NEW t \in Tasks, ClaimNextFind(p, t) \/ FailCheck(p, t) PROVE RunsClosing'
    BY <1>2, <2>1, <2>5 DEF ClaimNextFind, FailCheck, At, taskVars
  <2>6. ASSUME NEW l \in LeaseIds, HeartbeatCheck(p, l) PROVE RunsClosing'
    BY <1>2, <2>1, <2>6 DEF HeartbeatCheck, At, taskVars
  <2> QED
    BY <1>3, <2>2, <2>3, <2>4, <2>5, <2>6 DEF Request
<1>4. ASSUME NEW p \in Procs, Handler(p) PROVE RunsClosing'
  <2>1. ASSUME NEW q, Become(p, q), proc[p].pc \notin {"run_read", "run_write"},
               UNCHANGED <<v1, run>>
        PROVE  RunsClosing'
    BY <1>2, <2>1, ClosingKeptByOne DEF Closing
  <2>2. CASE \/ MarkApproval(p) \/ ClaimNextConflict(p) \/ HeartbeatRead(p)
             \/ HeartbeatWrite(p) \/ FinishReadLease(p) \/ FinishReleaseLease(p)
    BY <2>1, <2>2 DEF MarkApproval, ClaimNextConflict, HeartbeatRead, HeartbeatWrite,
       FinishReadLease, FinishReleaseLease, Done, At, taskVars
  <2>3. ASSUME NEW l \in LeaseIds, ClaimNextClaim(p, l) PROVE RunsClosing'
    <3>1. proc[p].task \in Tasks /\ proc[p].pc = "found"
      BY <2>3 DEF ClaimNextClaim, At, Typing, ProcOK
    <3>2. ASSUME NEW r \in Procs, r # p PROVE proc'[r] = RunSuperseded(proc[p].task)[r]
      BY <2>3, <3>2 DEF ClaimNextClaim, RunSuperseded
    <3>3. \A u \in Tasks : ~Closing(p, u)
      BY <3>1 DEF Closing
    <3>4. ClaimTx(proc[p].task, l)
      BY <2>3 DEF ClaimNextClaim
    <3> QED
      BY <3>1, <3>2, <3>3, <3>4, ClaimKeepsClosing
  <2>4. CASE Fail(p)
    <3>1. proc[p].task \in Tasks /\ proc[p].pc = "fail"
      BY <2>4 DEF Fail, At, Typing, ProcOK
    <3> QED
      BY <2>4, <3>1, FinalizingCloses DEF Fail, FailUpdate
  <2>5. CASE FinishReadRun(p)
    <3>1. /\ \A r \in Procs : r # p => proc'[r] = proc[r]
          /\ run[proc[p].task] = "NONE" \/ (/\ proc'[p].task = proc[p].task
                                            /\ proc'[p].pc = "run_write"
                                            /\ proc'[p].run = "latest")
      BY <2>5 DEF FinishReadRun, Become, Typing, TypeOK, ProcType
    <3>2. UNCHANGED <<v1, run>>
      BY <2>5 DEF FinishReadRun, taskVars
    <3>3. ASSUME NEW r \in Procs, NEW t \in Tasks, Closing(r, t)
          PROVE  Closing(r, t)' \/ ~OpenRun(t)'
      BY <3>1, <3>2, <3>3 DEF Closing, OpenRun
    <3> QED
      BY <1>2, <3>2, <3>3, ClosingKept
  <2>6. CASE FinishUpdateRun(p)
    <3>1. PICK t \in Tasks : t = proc[p].task
      BY <2>6 DEF FinishUpdateRun, At, Typing, ProcOK
    <3>2. /\ \A r \in Procs : r # p => proc'[r] = proc[r]
          /\ proc[p].pc = "run_write"
          /\ UNCHANGED v1
      BY <2>6 DEF FinishUpdateRun, At, Become, Typing, TypeOK
    <3>3. /\ proc[p].run = "latest" => run'[t] # "RUNNING"
          /\ \A u \in Tasks : run'[u] = run[u] \/ run'[u] # "RUNNING"
      BY <2>6, <3>1, <3>2 DEF FinishUpdateRun, Typing, TypeOK, ProcOK
    <3>4. ASSUME NEW u \in Tasks, OpenRun(u)' PROVE OpenRun(u)
      BY <3>2, <3>3, <3>4 DEF OpenRun, Finished
    <3>5. ASSUME NEW r \in Procs, NEW u \in Tasks, Closing(r, u)
          PROVE  Closing(r, u)' \/ ~OpenRun(u)'
      BY <3>1, <3>2, <3>3, <3>5 DEF Closing, OpenRun
    <3> QED
      BY <3>4, <3>5, ClosingKept
  <2>7. ~PatchWrite(p)
    BY DEF PatchWrite, NoPatch
  <2> QED
    BY <1>4, <2>2, <2>3, <2>4, <2>5, <2>6, <2>7 DEF Handler
<1>5. CASE OneStep
  <2>1. ASSUME NEW t \in Tasks, NEW l \in LeaseIds, ClaimByID(t, l) PROVE RunsClosing'
    BY <2>1, ClaimKeepsClosing DEF ClaimByID
  <2> QED
    BY <1>1, <1>2, <1>5, <2>1 DEF OneStep, Approve, Reject, CreateLease, ReleaseLease, taskVars
<1>6. CASE SweepTx
  <2>1. \A t \in Tasks : OpenRun(t)' => OpenRun(t)
    BY <1>6 DEF SweepTx, OpenRun, Finished, FinishedV1, Typing, TypeOK
  <2> QED
    BY <1>1, <1>6, <2>1 DEF SweepTx
<1>7. ASSUME NEW t \in Tasks, RequeueExpired(t) PROVE RunsClosing'
  <2>1. \A u \in Tasks : OpenRun(u)' => OpenRun(u)
    BY <1>2, <1>7, SetOpensNoOther DEF RequeueExpired, FinishedV1
  <2> QED
    BY <1>1, <1>7, <2>1 DEF RequeueExpired
<1>8. CASE Tick
  <2>1. ASSUME NEW r \in Procs, NEW t \in Tasks, Closing(r, t) PROVE Closing(r, t)'
    BY <1>8, <2>1 DEF Tick, Closing, Typing, TypeOK, ProcType
  <2> QED
    BY <1>2, <1>8, <2>1, ClosingKept DEF Tick, taskVars
<1>9. CASE UNCHANGED vars
  BY <1>1, <1>2, <1>9 DEF vars
<1> QED
  BY <1>3, <1>4, <1>5, <1>6, <1>7, <1>8, <1>9 DEF UnattendedNext, Sweeper

LEMMA FinishedClosesRunIs == FinishedClosesRun <=> (faults = 0 => RunsClosing)
BY DEF FinishedClosesRun, RunsClosing, OpenRun, Closing

\* As long as no write fails, a finished task whose latest run still counts as
\* running has a handler on its way to close it, whatever claims, completions
\* and failures of the same task came in between.
THEOREM FinishedTasksCloseRuns == UnattendedSpec => []FinishedClosesRun
<1> DEFINE Closed == faults = 0 => RunsClosing
<1>1. Init => Closed
  BY DEF Init, RunsClosing, OpenRun, Finished, FinishedV1
<1>2. Unattended /\ Closed /\ [UnattendedNext]_vars => Closed'
  BY NoFaultYet, RunsClosingStep DEF Unattended
<1>3. Closed <=> FinishedClosesRun
  BY FinishedClosesRunIs
<1> HIDE DEF Closed
<1> QED
  BY <1>1, <1>2, <1>3, UnattendedInvariant, PTL DEF UnattendedSpec
=============================================================================

------------------------ MODULE TaskLifecycleProofs -------------------------
(***************************************************************************)
(* Theorems about TaskLifecycle, for any sets of tasks, lease ids and      *)
(* handlers and any lease time.                                            *)
(***************************************************************************)
EXTENDS TaskLifecycle, TLAPS

-----------------------------------------------------------------------------
(* Types.                                                                  *)

\* What a handler's place in the code says about what it holds.
ProcOK(q) ==
    /\ q.pc \in {"mark", "found", "fail", "run_read", "run_write", "lease_read",
                 "patch"} => q.task \in Tasks
    /\ q.pc \in {"hb_read", "hb_write", "lease_del"} => q.lease \in LeaseIds
    /\ q.pc \in {"run_read", "run_write"} => q.outcome \in {"SUCCEEDED", "FAILED"}

ProcsOK == proc \in [Procs -> ProcType] /\ \A p \in Procs : ProcOK(proc[p])

Typing == TypeOK /\ \A p \in Procs : ProcOK(proc[p])

USE TimesAssumption, FaultsAssumption

LEMMA IdleTyped == Idle \in ProcType /\ ProcOK(Idle)
BY DEF Idle, ProcType, ProcOK, PCs

\* A handler moves to a well-formed state, the others stay where they are.
LEMMA BecomeTyped ==
    ASSUME ProcsOK, NEW p \in Procs, NEW q \in ProcType, ProcOK(q), Become(p, q)
    PROVE  ProcsOK'
BY DEF ProcsOK, Become

LEMMA InsertTyped ==
    ASSUME TypeOK, NEW t \in Tasks, NEW l \in LeaseIds, InsertLease(t, l)
    PROVE  leases' \in [LeaseIds -> [task : Tasks \cup {None}, left : 0..MaxLeft]]
BY DEF TypeOK, InsertLease, Row, NoRow

LEMMA ClaimTyped ==
    ASSUME TypeOK, NEW t \in Tasks, NEW l \in LeaseIds, ClaimTx(t, l)
    PROVE  /\ v1' \in [Tasks -> StatusV1 \cup {"ABSENT"}]
           /\ v2' \in [Tasks -> StatusV2 \cup {"ABSENT"}]
           /\ run' \in [Tasks -> RunStatus]
           /\ leases' \in [LeaseIds -> [task : Tasks \cup {None}, left : 0..MaxLeft]]
<1>1. InsertLease(t, l)
  BY DEF ClaimTx
<1> QED
  BY <1>1, InsertTyped DEF ClaimTx, SetStatus, TypeOK, StatusV1, StatusV2, RunStatus

LEMMA SupersededTyped ==
    ASSUME ProcsOK, NEW t \in Tasks
    PROVE  /\ RunSuperseded(t) \in [Procs -> ProcType]
           /\ \A p \in Procs : ProcOK(RunSuperseded(t)[p])
BY DEF ProcsOK, RunSuperseded, ProcType, ProcOK

LEMMA TypingInit == Init => Typing
BY IdleTyped DEF Init, Typing, TypeOK, Approvals, RunStatus, NoRow, Row

LEMMA TypingStep == Typing /\ [Next]_vars => Typing'
<1> SUFFICES ASSUME Typing, [Next]_vars PROVE Typing'
  OBVIOUS
<1>p. ProcsOK
  BY DEF Typing, TypeOK, ProcsOK
<1>q. ASSUME NEW p \in Procs, Done(p) PROVE ProcsOK'
  BY <1>p, <1>q, IdleTyped, BecomeTyped DEF Done
<1>r. ASSUME ProcsOK',
             UNCHANGED <<v1, v2, approval, run, leases, pending, faults>>
      PROVE  Typing'
  BY <1>r DEF Typing, TypeOK, ProcsOK
<1> USE DEF Typing, TypeOK
<1>1. ASSUME NEW p \in Procs, NEW t \in Tasks, NEW g \in BOOLEAN, CreateTask(p, t, g)
      PROVE  Typing'
  <2> DEFINE q == [Idle EXCEPT !.pc = "mark", !.task = t]
  <2>1. q \in ProcType
    BY IdleTyped DEF ProcType, PCs
  <2>2. ProcOK(q)
    BY DEF Idle, ProcOK
  <2>3. ProcsOK'
    <3>1. CASE Become(p, q)
      BY <1>p, <2>1, <2>2, <3>1, BecomeTyped
    <3>2. CASE UNCHANGED proc
      BY <1>p, <3>2 DEF ProcsOK
    <3> QED
      BY <1>1, <3>1, <3>2 DEF CreateTask
  <2> QED
    BY <1>1, <2>3 DEF CreateTask, SetStatus, StatusV1, StatusV2, ProcsOK
<1>2. ASSUME NEW p \in Procs, MarkApproval(p) PROVE Typing'
  <2>1. ProcsOK'
    BY <1>2, <1>q DEF MarkApproval
  <2> QED
    BY <1>2, <2>1 DEF MarkApproval, Approvals, ProcsOK
<1>3. ASSUME NEW t \in Tasks, Approve(t) \/ Reject(t) PROVE Typing'
  BY <1>3 DEF Approve, Reject, Approvals
<1>4. ASSUME NEW t \in Tasks, NEW l \in LeaseIds, ClaimByID(t, l) PROVE Typing'
  <2>1. ClaimTx(t, l) /\ proc' = RunSuperseded(t)
    BY <1>4 DEF ClaimByID
  <2>2. ProcsOK'
    BY <1>p, <2>1, SupersededTyped DEF ProcsOK
  <2> QED
    BY <1>4, <2>1, <2>2, ClaimTyped DEF ClaimByID, ProcsOK
<1>5. ASSUME NEW p \in Procs, NEW t \in Tasks, ClaimNextFind(p, t) PROVE Typing'
  <2> DEFINE q == [Idle EXCEPT !.pc = "found", !.task = t]
  <2>1. q \in ProcType
    BY IdleTyped DEF ProcType, PCs
  <2>2. ProcOK(q)
    BY DEF Idle, ProcOK
  <2>3. ProcsOK'
    BY <1>p, <1>5, <2>1, <2>2, BecomeTyped DEF ClaimNextFind
  <2> QED
    BY <1>5, <1>r, <2>3 DEF ClaimNextFind, taskVars
<1>6. ASSUME NEW p \in Procs, NEW l \in LeaseIds, ClaimNextClaim(p, l) PROVE Typing'
  <2> DEFINE t == proc[p].task
  <2>1. /\ ClaimTx(t, l)
        /\ proc' = [RunSuperseded(t) EXCEPT ![p] = Idle]
        /\ UNCHANGED <<approval, pending, faults>>
    BY <1>6 DEF ClaimNextClaim
  <2>2. t \in Tasks
    BY <1>6, <1>p DEF ClaimNextClaim, At, ProcsOK, ProcOK
  <2> HIDE DEF t
  <2>3. ProcsOK'
    BY <1>p, <2>1, <2>2, SupersededTyped, IdleTyped DEF ProcsOK
  <2> QED
    BY <2>1, <2>2, <2>3, ClaimTyped DEF ProcsOK
<1>7. ASSUME NEW p \in Procs, ClaimNextConflict(p) PROVE Typing'
  BY <1>7, <1>q, <1>r DEF ClaimNextConflict, taskVars
<1>8. ASSUME NEW t \in Tasks, NEW l \in LeaseIds, CreateLease(t, l) PROVE Typing'
  BY <1>8, InsertTyped DEF CreateLease, taskVars
<1>9. ASSUME NEW l \in LeaseIds, ReleaseLease(l) PROVE Typing'
  BY <1>9 DEF ReleaseLease, taskVars, NoRow, Row
<1>10. ASSUME NEW p \in Procs, NEW l \in LeaseIds, HeartbeatCheck(p, l) PROVE Typing'
  <2> DEFINE q == [Idle EXCEPT !.pc = "hb_read", !.lease = l]
  <2>1. q \in ProcType
    BY IdleTyped DEF ProcType, PCs
  <2>2. ProcOK(q)
    BY DEF Idle, ProcOK
  <2>3. ProcsOK'
    BY <1>p, <1>10, <2>1, <2>2, BecomeTyped DEF HeartbeatCheck
  <2> QED
    BY <1>10, <1>r, <2>3 DEF HeartbeatCheck, taskVars
<1>11. ASSUME NEW p \in Procs, HeartbeatRead(p) PROVE Typing'
  <2> DEFINE row == leases[proc[p].lease]
             q == [proc[p] EXCEPT !.pc = "hb_write", !.left = row.left + TTL]
  <2>0. row \in [task : Tasks \cup {None}, left : 0..MaxLeft]
    BY <1>p, <1>11 DEF HeartbeatRead, At, ProcsOK, ProcOK
  <2>1. ASSUME row.left + TTL <= MaxLeft PROVE q \in ProcType /\ ProcOK(q)
    <3>1. row.left + TTL \in 0..MaxLeft
      BY <2>0, <2>1
    <3>2. proc[p] \in ProcType /\ ProcOK(proc[p]) /\ proc[p].pc = "hb_read"
      BY <1>p, <1>11 DEF HeartbeatRead, At, ProcsOK
    <3> HIDE DEF row
    <3>3. q \in ProcType
      BY <3>1, <3>2 DEF ProcType, PCs
    <3> QED
      BY <3>1, <3>2, <3>3 DEF ProcType, ProcOK
  <2>2. ProcsOK'
    <3>1. CASE Done(p)
      BY <1>q, <3>1
    <3>2. CASE row.left + TTL <= MaxLeft /\ Become(p, q)
      BY <1>p, <2>1, <3>2, BecomeTyped
    <3> QED
      BY <1>11, <3>1, <3>2 DEF HeartbeatRead
  <2> QED
    BY <1>11, <1>r, <2>2 DEF HeartbeatRead, taskVars
<1>12. ASSUME NEW p \in Procs, HeartbeatWrite(p) PROVE Typing'
  <2>1. ProcsOK'
    BY <1>12, <1>q DEF HeartbeatWrite
  <2>2. proc[p].left \in 0..MaxLeft /\ proc[p].lease \in LeaseIds
    BY <1>p, <1>12 DEF HeartbeatWrite, At, ProcsOK, ProcType, ProcOK
  <2>3. leases' \in [LeaseIds -> [task : Tasks \cup {None}, left : 0..MaxLeft]]
    BY <1>12, <2>2 DEF HeartbeatWrite
  <2> QED
    BY <1>12, <2>1, <2>3 DEF HeartbeatWrite, taskVars, ProcsOK
<1>13. ASSUME NEW p \in Procs, NEW t \in Tasks, Complete(p, t) PROVE Typing'
  <2> DEFINE q == [Idle EXCEPT !.pc = "run_read", !.task = t, !.outcome = "SUCCEEDED"]
  <2>1. q \in ProcType
    BY IdleTyped DEF ProcType, PCs
  <2>2. ProcOK(q)
    BY DEF Idle, ProcOK
  <2>3. ProcsOK'
    BY <1>p, <1>13, <2>1, <2>2, BecomeTyped DEF Complete, StartFinalizing
  <2> QED
    BY <1>13, <2>3 DEF Complete, SetStatus, StatusV1, StatusV2, ProcsOK
<1>14. ASSUME NEW p \in Procs, NEW t \in Tasks, FailCheck(p, t) PROVE Typing'
  <2> DEFINE q == [Idle EXCEPT !.pc = "fail", !.task = t]
  <2>1. q \in ProcType
    BY IdleTyped DEF ProcType, PCs
  <2>2. ProcOK(q)
    BY DEF Idle, ProcOK
  <2>3. ProcsOK'
    BY <1>p, <1>14, <2>1, <2>2, BecomeTyped DEF FailCheck
  <2> QED
    BY <1>14, <1>r, <2>3 DEF FailCheck, taskVars
<1>15. ASSUME NEW p \in Procs, NEW t \in Tasks, FailUpdate(p, t) PROVE Typing'
  <2> DEFINE q == [Idle EXCEPT !.pc = "run_read", !.task = t, !.outcome = "FAILED"]
  <2>1. q \in ProcType
    BY IdleTyped DEF ProcType, PCs
  <2>2. ProcOK(q)
    BY DEF Idle, ProcOK
  <2>3. ProcsOK'
    BY <1>p, <1>15, <2>1, <2>2, BecomeTyped DEF FailUpdate, StartFinalizing
  <2> QED
    BY <1>15, <2>3 DEF FailUpdate, SetStatus, StatusV1, StatusV2, ProcsOK
<1>16. ASSUME NEW p \in Procs, Fail(p) PROVE Typing'
  <2>1. proc[p].task \in Tasks
    BY <1>p, <1>16 DEF Fail, At, ProcsOK, ProcOK
  <2> QED
    BY <1>15, <1>16, <2>1 DEF Fail
<1>17. ASSUME NEW p \in Procs, NEW t \in Tasks, FailV1(p, t) PROVE Typing'
  BY <1>15, <1>17 DEF FailV1
<1>18. ASSUME NEW p \in Procs, FinishReadRun(p) PROVE Typing'
  <2> DEFINE q == IF run[proc[p].task] = "NONE"
                  THEN [proc[p] EXCEPT !.pc = "lease_read"]
                  ELSE [proc[p] EXCEPT !.pc = "run_write", !.run = "latest"]
  <2>1. q \in ProcType /\ ProcOK(q)
    <3>1. proc[p] \in ProcType /\ ProcOK(proc[p]) /\ proc[p].pc = "run_read"
      BY <1>p, <1>18 DEF FinishReadRun, At, ProcsOK
    <3> QED
      BY <3>1 DEF ProcType, ProcOK, PCs
  <2>2. ProcsOK'
    BY <1>p, <1>18, <2>1, BecomeTyped DEF FinishReadRun
  <2> QED
    BY <1>18, <1>r, <2>2 DEF FinishReadRun, taskVars
<1>19. ASSUME NEW p \in Procs, FinishUpdateRun(p) PROVE Typing'
  <2> DEFINE q == [proc[p] EXCEPT !.pc = "lease_read", !.run = "none"]
  <2>1. q \in ProcType /\ ProcOK(q)
    BY <1>p, <1>19 DEF FinishUpdateRun, At, ProcsOK, ProcType, ProcOK, PCs
  <2>2. ProcsOK'
    BY <1>p, <1>19, <2>1, BecomeTyped DEF FinishUpdateRun
  <2>3. proc[p].task \in Tasks /\ proc[p].outcome \in RunStatus
    BY <1>p, <1>19 DEF FinishUpdateRun, At, ProcsOK, ProcOK, RunStatus
  <2> QED
    BY <1>19, <2>2, <2>3 DEF FinishUpdateRun, ProcsOK
<1>20. ASSUME NEW p \in Procs, FinishReadLease(p) PROVE Typing'
  <2>1. ASSUME NEW l \in LeaseIds
        PROVE  LET q == [proc[p] EXCEPT !.pc = "lease_del", !.lease = l]
               IN  q \in ProcType /\ ProcOK(q)
    BY <1>p, <1>20 DEF FinishReadLease, At, ProcsOK, ProcType, ProcOK, PCs
  <2>2. ProcsOK'
    <3>1. CASE Done(p)
      BY <1>q, <3>1
    <3>2. ASSUME NEW l \in LiveRowsOf(proc[p].task),
                 Become(p, [proc[p] EXCEPT !.pc = "lease_del", !.lease = l])
          PROVE  ProcsOK'
      <4>1. l \in LeaseIds
        BY DEF LiveRowsOf, RowsOf
      <4> QED
        BY <1>p, <2>1, <3>2, <4>1, BecomeTyped
    <3> QED
      BY <1>20, <3>1, <3>2 DEF FinishReadLease
  <2> QED
    BY <1>20, <1>r, <2>2 DEF FinishReadLease, taskVars
<1>21. ASSUME NEW p \in Procs, FinishReleaseLease(p) PROVE Typing'
  <2>1. ProcsOK'
    BY <1>21, <1>q DEF FinishReleaseLease
  <2>2. leases' \in [LeaseIds -> [task : Tasks \cup {None}, left : 0..MaxLeft]]
    <3>1. NoRow \in [task : Tasks \cup {None}, left : 0..MaxLeft]
      BY DEF NoRow, Row
    <3> QED
      BY <1>21, <3>1 DEF FinishReleaseLease
  <2> QED
    BY <1>21, <2>1, <2>2 DEF FinishReleaseLease, taskVars, ProcsOK
<1>22. ASSUME SweepTx PROVE Typing'
  BY <1>22 DEF SweepTx, NoRow, Row, StatusV1
<1>23. ASSUME NEW t \in Tasks, RequeueExpired(t) PROVE Typing'
  BY <1>23 DEF RequeueExpired, SetStatus, StatusV1, StatusV2
<1>24. ASSUME NEW t \in Tasks, NEW a \in StatusV1, NEW b \in StatusV2,
              SetStatus(t, a, b),
              UNCHANGED <<approval, run, leases, pending, proc, faults>>
       PROVE  Typing'
  BY <1>24 DEF SetStatus
<1>25. ASSUME NEW t \in Tasks, NEW s \in {"NOT_PICKED", "IN_PROGRESS"}, SetStatusV1(t, s)
       PROVE  Typing'
  BY <1>24, <1>25 DEF SetStatusV1, StatusV1, StatusV2
<1>26. ASSUME NEW t \in Tasks, NEW pair \in PatchablePairs, PatchStatus(t, pair)
       PROVE  Typing'
  <2>1. pair[1] \in StatusV1 /\ pair[2] \in StatusV2
    BY DEF PatchablePairs, MapStatusV1ToV2, MapStatusV2ToV1, StatusV1, StatusV2,
           ActiveV2, TerminalV2
  <2> QED
    BY <1>24, <1>26, <2>1 DEF PatchStatus
<1>27. ASSUME NEW p \in Procs, NEW t \in Tasks, PatchRead(p, t) PROVE Typing'
  <2> DEFINE q == [Idle EXCEPT !.pc = "patch", !.task = t, !.v1 = v1[t], !.v2 = v2[t]]
  <2>1. q \in ProcType
    BY IdleTyped DEF ProcType, PCs
  <2>2. ProcOK(q)
    BY DEF Idle, ProcOK
  <2>3. ProcsOK'
    BY <1>p, <1>27, <2>1, <2>2, BecomeTyped DEF PatchRead
  <2> QED
    BY <1>27, <1>r, <2>3 DEF PatchRead, taskVars
<1>28. ASSUME NEW p \in Procs, PatchWrite(p) PROVE Typing'
  <2>1. ProcsOK'
    BY <1>28, <1>q DEF PatchWrite
  <2>2. /\ proc[p].task \in Tasks
        /\ proc[p].v1 \in StatusV1 \cup {"ABSENT"}
        /\ proc[p].v2 \in StatusV2 \cup {"ABSENT"}
    BY <1>p, <1>28 DEF PatchWrite, At, ProcsOK, ProcType, ProcOK
  <2> QED
    BY <1>28, <2>1, <2>2 DEF PatchWrite, SetStatus, ProcsOK
<1>29. ASSUME Tick PROVE Typing'
  <2>1. ProcsOK'
    <3>1. ASSUME NEW q \in ProcType, ProcOK(q)
          PROVE  LET r == [q EXCEPT !.left = IF @ > 0 THEN @ - 1 ELSE 0]
                 IN  r \in ProcType /\ ProcOK(r)
      <4>1. (IF q.left > 0 THEN q.left - 1 ELSE 0) \in 0..MaxLeft
        BY DEF ProcType
      <4> QED
        BY <3>1, <4>1 DEF ProcType, ProcOK
    <3> QED
      BY <1>p, <1>29, <3>1 DEF Tick, ProcsOK
  <2>2. leases' \in [LeaseIds -> [task : Tasks \cup {None}, left : 0..MaxLeft]]
    BY <1>29 DEF Tick
  <2> QED
    BY <1>29, <2>1, <2>2 DEF Tick, taskVars, ProcsOK
<1>30. ASSUME Crash PROVE Typing'
  BY <1>30, IdleTyped DEF Crash, Fault, taskVars
<1>31. ASSUME EmitFails PROVE Typing'
  BY <1>31 DEF EmitFails, Fault, taskVars
<1>32. ASSUME NEW p \in Procs, WriteFails(p) PROVE Typing'
  <2> DEFINE q == [proc[p] EXCEPT !.pc = "lease_read", !.run = "none"]
  <2>1. ProcsOK'
    <3>1. CASE Done(p)
      BY <1>q, <3>1
    <3>2. CASE proc[p].pc \in {"run_read", "run_write"} /\ Become(p, q)
      <4>1. q \in ProcType /\ ProcOK(q)
        BY <1>p, <3>2 DEF ProcsOK, ProcType, ProcOK, PCs
      <4> QED
        BY <1>p, <3>2, <4>1, BecomeTyped
    <3> QED
      BY <1>32, <3>1, <3>2 DEF WriteFails
  <2> QED
    BY <1>32, <2>1 DEF WriteFails, Fault, taskVars, ProcsOK
<1>33. ASSUME UNCHANGED vars PROVE Typing'
  BY <1>33 DEF vars, ProcOK
<1> QED
  BY <1>1, <1>2, <1>3, <1>4, <1>5, <1>6, <1>7, <1>8, <1>9, <1>10, <1>11, <1>12,
     <1>13, <1>14, <1>16, <1>17, <1>18, <1>19, <1>20, <1>21, <1>22, <1>23,
     <1>25, <1>26, <1>27, <1>28, <1>29, <1>30, <1>31, <1>32, <1>33
  DEF Next, UnattendedNext, Edit, Handler, Request, OneStep, Sweeper, Faulty

\* The variables keep to their types under everything the server, the agents
\* and an operator do: no handler loses the task or lease it works for, and no
\* remaining time leaves its bound.
THEOREM TypeCorrect == Spec => []TypeOK
<1>1. Typing => TypeOK
  BY DEF Typing
<1> QED
  BY <1>1, TypingInit, TypingStep, PTL DEF Spec

-----------------------------------------------------------------------------
(* One lease row per task.                                                 *)

LEMMA ShrinkingKeepsUnique ==
    ASSUME UniqueLease,
           \A l \in LeaseIds : leases'[l].task \in {leases[l].task, None}
    PROVE  UniqueLease'
BY DEF UniqueLease, Held

LEMMA InsertKeepsUnique ==
    ASSUME Typing, UniqueLease, NEW t \in Tasks, NEW l \in LeaseIds, InsertLease(t, l)
    PROVE  UniqueLease'
<1>1. leases'[l].task = t
  BY DEF InsertLease, Row
<1>2. ASSUME NEW m \in LeaseIds, m # l
      PROVE  leases'[m].task # t /\ leases'[m].task \in {leases[m].task, None}
  <2>1. CASE leases[m].task = t
    BY <1>2, <2>1, NoneAssumption DEF InsertLease, RowsOf, Row, NoRow
  <2>2. CASE leases[m].task # t
    BY <1>2, <2>2 DEF InsertLease, RowsOf
  <2> QED
    BY <2>1, <2>2
<1> QED
  BY <1>1, <1>2 DEF UniqueLease, Held

LEMMA UniqueStep == Typing /\ UniqueLease /\ [Next]_vars => UniqueLease'
<1> SUFFICES ASSUME Typing, UniqueLease, [Next]_vars PROVE UniqueLease'
  OBVIOUS
<1>1. CASE UNCHANGED leases
  BY <1>1 DEF UniqueLease, Held
<1>2. ASSUME NEW t \in Tasks, NEW l \in LeaseIds, ClaimByID(t, l) \/ CreateLease(t, l)
      PROVE  UniqueLease'
  BY <1>2, InsertKeepsUnique DEF ClaimByID, CreateLease, ClaimTx
<1>3. ASSUME NEW p \in Procs, NEW l \in LeaseIds, ClaimNextClaim(p, l)
      PROVE  UniqueLease'
  <2>1. proc[p].task \in Tasks
    BY <1>3 DEF ClaimNextClaim, At, Typing, ProcOK
  <2> QED
    BY <1>3, <2>1, InsertKeepsUnique DEF ClaimNextClaim, ClaimTx
<1>4. ASSUME NEW l \in LeaseIds, leases' = [leases EXCEPT ![l] = NoRow]
      PROVE  UniqueLease'
  BY <1>4, ShrinkingKeepsUnique DEF Typing, TypeOK, NoRow, Row
<1>5. ASSUME NEW p \in Procs, HeartbeatWrite(p) PROVE UniqueLease'
  BY <1>5, ShrinkingKeepsUnique DEF HeartbeatWrite, Typing, TypeOK
<1>6. ASSUME NEW p \in Procs, FinishReleaseLease(p) PROVE UniqueLease'
  <2>1. proc[p].lease \in LeaseIds
    BY <1>6 DEF FinishReleaseLease, At, Typing, ProcOK
  <2> QED
    BY <1>4, <1>6, <2>1 DEF FinishReleaseLease
<1>7. CASE SweepTx
  BY <1>7, ShrinkingKeepsUnique DEF SweepTx, NoRow, Row
<1>8. CASE Tick
  BY <1>8, ShrinkingKeepsUnique DEF Tick, Typing, TypeOK
<1>9. CASE \/ \E l \in LeaseIds : ReleaseLease(l)
           \/ \E t \in Tasks : RequeueExpired(t) \/ Approve(t) \/ Reject(t)
  BY <1>1, <1>4, <1>9 DEF ReleaseLease, RequeueExpired, Approve, Reject
<1>10. CASE Edit
  BY <1>1, <1>10 DEF Edit, SetStatusV1, PatchStatus, PatchRead
<1>11. CASE Faulty
  BY <1>1, <1>11 DEF Faulty, Crash, EmitFails, WriteFails
<1>12. CASE \E p \in Procs : Request(p)
  BY <1>1, <1>12 DEF Request, CreateTask, ClaimNextFind, Complete, FailCheck, FailV1,
                     FailUpdate, HeartbeatCheck
<1>13. CASE \E p \in Procs : Handler(p)
  <2>1. ASSUME NEW p \in Procs,
               \/ MarkApproval(p) \/ ClaimNextConflict(p) \/ HeartbeatRead(p)
               \/ Fail(p) \/ FinishReadRun(p) \/ FinishUpdateRun(p)
               \/ FinishReadLease(p) \/ PatchWrite(p)
        PROVE  UNCHANGED leases
    BY <2>1 DEF MarkApproval, ClaimNextConflict, HeartbeatRead, Fail, FailUpdate,
                FinishReadRun, FinishUpdateRun, FinishReadLease, PatchWrite
  <2> QED
    BY <1>1, <1>3, <1>5, <1>6, <1>13, <2>1 DEF Handler
<1>14. CASE UNCHANGED vars
  BY <1>1, <1>14 DEF vars
<1> QED
  BY <1>2, <1>7, <1>8, <1>9, <1>10, <1>11, <1>12, <1>13, <1>14
  DEF Next, UnattendedNext, OneStep, Sweeper

\* The lease table never has two rows for one task: whatever claims, releases,
\* heartbeats, sweeps and finalizations interleave, and however many tasks and
\* handlers there are, CreateLeaseTx leaves its own row alone.
THEOREM LeaseRowsUnique == Spec => []UniqueLease
<1>1. Init => UniqueLease
  BY DEF Init, UniqueLease, Held, NoRow, Row
<1> QED
  BY <1>1, TypingInit, TypingStep, UniqueStep, PTL DEF Spec

-----------------------------------------------------------------------------
(* The two status columns.                                                 *)

\* The strengthening: what a PATCH handler read, and will write back over
\* whatever happened since, was a pair the columns may show.
PatchesAgree == \A p \in Procs : At(p, "patch") => AgreeingPair(proc[p].v1, proc[p].v2)

Agreement == StatusesAgree /\ PatchesAgree

LEMMA SetKeepsAgreement ==
    ASSUME Typing, StatusesAgree, NEW t \in Tasks, NEW a, NEW b, AgreeingPair(a, b),
           SetStatus(t, a, b)
    PROVE  StatusesAgree'
BY DEF Typing, TypeOK, StatusesAgree, SetStatus

LEMMA BecomeKeepsPatches ==
    ASSUME Typing, PatchesAgree, NEW p \in Procs, NEW q, q.pc # "patch", Become(p, q)
    PROVE  PatchesAgree'
BY DEF Typing, TypeOK, PatchesAgree, Become, At

LEMMA DoneKeepsPatches ==
    ASSUME Typing, PatchesAgree, NEW p \in Procs, Done(p)
    PROVE  PatchesAgree'
<1>1. Idle.pc # "patch"
  BY DEF Idle
<1> QED
  BY <1>1, BecomeKeepsPatches DEF Done

\* Handlers that get on with their work without a new copy of the columns.
LEMMA OthersKeepPatches ==
    ASSUME PatchesAgree,
           \A p \in Procs : \/ proc'[p].pc # "patch"
                            \/ /\ proc'[p].pc = proc[p].pc
                               /\ proc'[p].v1 = proc[p].v1
                               /\ proc'[p].v2 = proc[p].v2
    PROVE  PatchesAgree'
BY DEF PatchesAgree, At

LEMMA SupersededKeepsPatches ==
    ASSUME Typing, NEW t \in Tasks, NEW p \in Procs
    PROVE  /\ RunSuperseded(t)[p].pc = proc[p].pc
           /\ RunSuperseded(t)[p].v1 = proc[p].v1
           /\ RunSuperseded(t)[p].v2 = proc[p].v2
BY DEF RunSuperseded, Typing, TypeOK, ProcType

LEMMA ClaimKeepsAgreement ==
    ASSUME Typing, StatusesAgree, NEW t \in Tasks, NEW l \in LeaseIds, ClaimTx(t, l)
    PROVE  StatusesAgree'
<1>1. AgreeingPair("IN_PROGRESS", "CLAIMED")
  BY DEF AgreeingPair, ActiveV2
<1> QED
  BY <1>1, SetKeepsAgreement DEF ClaimTx

LEMMA RequestAgreement ==
    ASSUME Typing, Agreement, NEW p \in Procs, Request(p)
    PROVE  Agreement'
<1> USE DEF Agreement
<1>1. ASSUME NEW t \in Tasks, NEW g \in BOOLEAN, CreateTask(p, t, g) PROVE Agreement'
  <2>1. AgreeingPair("NOT_PICKED", "QUEUED")
    BY DEF AgreeingPair
  <2>2. StatusesAgree'
    BY <1>1, <2>1, SetKeepsAgreement DEF CreateTask
  <2>3. [Idle EXCEPT !.pc = "mark", !.task = t].pc # "patch"
    BY DEF Idle
  <2>4. CASE UNCHANGED proc
    BY <2>2, <2>4 DEF PatchesAgree, At
  <2> QED
    BY <1>1, <2>2, <2>3, <2>4, BecomeKeepsPatches DEF CreateTask
<1>2. ASSUME NEW t \in Tasks, ClaimNextFind(p, t) \/ FailCheck(p, t) PROVE Agreement'
  <2>1. /\ [Idle EXCEPT !.pc = "found", !.task = t].pc # "patch"
        /\ [Idle EXCEPT !.pc = "fail", !.task = t].pc # "patch"
    BY DEF Idle
  <2> QED
    BY <1>2, <2>1, BecomeKeepsPatches DEF ClaimNextFind, FailCheck, taskVars, StatusesAgree
<1>3. ASSUME NEW t \in Tasks, NEW verdict, StartFinalizing(p, t, verdict)
      PROVE  PatchesAgree'
  <2>1. [Idle EXCEPT !.pc = "run_read", !.task = t, !.outcome = verdict].pc # "patch"
    BY DEF Idle
  <2> QED
    BY <1>3, <2>1, BecomeKeepsPatches DEF StartFinalizing
<1>4. ASSUME NEW t \in Tasks, Complete(p, t) PROVE Agreement'
  <2>1. AgreeingPair("COMPLETE", "SUCCEEDED")
    BY DEF AgreeingPair, TerminalV2
  <2> QED
    BY <1>3, <1>4, <2>1, SetKeepsAgreement DEF Complete
<1>5. ASSUME NEW t \in Tasks, FailV1(p, t) PROVE Agreement'
  <2>1. AgreeingPair("FAILED", "FAILED")
    BY DEF AgreeingPair
  <2>2. CASE UNCHANGED <<v1, v2>>
    BY <1>3, <1>5, <2>2 DEF FailV1, FailUpdate, StatusesAgree
  <2>3. CASE SetStatus(t, "FAILED", "FAILED")
    BY <1>3, <1>5, <2>1, <2>3, SetKeepsAgreement DEF FailV1, FailUpdate
  <2> QED
    BY <1>5, <2>2, <2>3 DEF FailV1, FailUpdate
<1>6. ASSUME NEW l \in LeaseIds, HeartbeatCheck(p, l) PROVE Agreement'
  <2>1. [Idle EXCEPT !.pc = "hb_read", !.lease = l].pc # "patch"
    BY DEF Idle
  <2> QED
    BY <1>6, <2>1, BecomeKeepsPatches DEF HeartbeatCheck, taskVars, StatusesAgree
<1> QED
  BY <1>1, <1>2, <1>4, <1>5, <1>6 DEF Request

LEMMA HandlerAgreement ==
    ASSUME Typing, Agreement, NEW p \in Procs, Handler(p)
    PROVE  Agreement'
<1> USE DEF Agreement
<1>1. ASSUME NEW l \in LeaseIds, ClaimNextClaim(p, l) PROVE Agreement'
  <2> DEFINE t == proc[p].task
  <2>1. t \in Tasks
    BY <1>1 DEF ClaimNextClaim, At, Typing, ProcOK
  <2>2. /\ ClaimTx(t, l)
        /\ proc' = [RunSuperseded(t) EXCEPT ![p] = Idle]
    BY <1>1 DEF ClaimNextClaim
  <2> HIDE DEF t
  <2>3. StatusesAgree'
    BY <2>1, <2>2, ClaimKeepsAgreement
  <2>4. ASSUME NEW r \in Procs
        PROVE  \/ proc'[r].pc # "patch"
               \/ /\ proc'[r].pc = proc[r].pc
                  /\ proc'[r].v1 = proc[r].v1
                  /\ proc'[r].v2 = proc[r].v2
    <3>1. CASE r = p
      BY <2>2, <3>1 DEF RunSuperseded, Idle
    <3>2. CASE r # p
      BY <2>1, <2>2, <3>2, SupersededKeepsPatches DEF RunSuperseded
    <3> QED
      BY <3>1, <3>2
  <2> QED
    BY <2>3, <2>4, OthersKeepPatches
<1>2. ASSUME \/ MarkApproval(p) \/ ClaimNextConflict(p) \/ HeartbeatWrite(p)
             \/ FinishReleaseLease(p)
      PROVE  Agreement'
  BY <1>2, DoneKeepsPatches DEF MarkApproval, ClaimNextConflict, HeartbeatWrite,
     FinishReleaseLease, taskVars, StatusesAgree
<1>3. ASSUME proc[p].pc \in {"hb_read", "run_read", "run_write", "lease_read"},
             UNCHANGED <<v1, v2>>,
             NEW q, q.pc # "patch", Become(p, q)
      PROVE  Agreement'
  BY <1>3, BecomeKeepsPatches DEF StatusesAgree
<1>4. ASSUME HeartbeatRead(p) PROVE Agreement'
  <2>1. ASSUME NEW n PROVE [proc[p] EXCEPT !.pc = "hb_write", !.left = n].pc # "patch"
    BY DEF Typing, TypeOK, ProcType
  <2> QED
    BY <1>3, <1>4, <2>1, DoneKeepsPatches DEF HeartbeatRead, At, taskVars, StatusesAgree
<1>5. ASSUME Fail(p) PROVE Agreement'
  <2>1. FailUpdate(p, proc[p].task) /\ proc[p].task \in Tasks
    BY <1>5 DEF Fail, At, Typing, ProcOK
  <2>2. AgreeingPair("FAILED", "FAILED")
    BY DEF AgreeingPair
  <2>3. StatusesAgree'
    BY <2>1, <2>2, SetKeepsAgreement DEF FailUpdate, StatusesAgree
  <2>4. ASSUME NEW t
        PROVE  [Idle EXCEPT !.pc = "run_read", !.task = t, !.outcome = "FAILED"].pc # "patch"
    BY DEF Idle
  <2> QED
    BY <2>1, <2>3, <2>4, BecomeKeepsPatches DEF FailUpdate, StartFinalizing
<1>6. ASSUME FinishReadRun(p) \/ FinishUpdateRun(p) PROVE Agreement'
  <2>1. /\ [proc[p] EXCEPT !.pc = "lease_read"].pc # "patch"
        /\ [proc[p] EXCEPT !.pc = "run_write", !.run = "latest"].pc # "patch"
        /\ [proc[p] EXCEPT !.pc = "lease_read", !.run = "none"].pc # "patch"
    BY DEF Typing, TypeOK, ProcType
  <2> QED
    BY <1>3, <1>6, <2>1 DEF FinishReadRun, FinishUpdateRun, At, taskVars
<1>7. ASSUME FinishReadLease(p) PROVE Agreement'
  <2>1. ASSUME NEW l PROVE [proc[p] EXCEPT !.pc = "lease_del", !.lease = l].pc # "patch"
    BY DEF Typing, TypeOK, ProcType
  <2> QED
    BY <1>3, <1>7, <2>1, DoneKeepsPatches DEF FinishReadLease, At, taskVars, StatusesAgree
<1>8. ASSUME PatchWrite(p) PROVE Agreement'
  <2>1. proc[p].task \in Tasks /\ AgreeingPair(proc[p].v1, proc[p].v2)
    BY <1>8 DEF PatchWrite, At, Typing, ProcOK, PatchesAgree
  <2>2. StatusesAgree'
    BY <1>8, <2>1, SetKeepsAgreement DEF PatchWrite
  <2> QED
    BY <1>8, <2>2, DoneKeepsPatches DEF PatchWrite
<1> QED
  BY <1>1, <1>2, <1>4, <1>5, <1>6, <1>7, <1>8 DEF Handler

LEMMA EditAgreement ==
    ASSUME Typing, Agreement, Edit
    PROVE  Agreement'
<1> USE DEF Agreement
<1>1. ASSUME NEW t \in Tasks, NEW s \in {"NOT_PICKED", "IN_PROGRESS"}, SetStatusV1(t, s)
      PROVE  Agreement'
  <2>1. AgreeingPair(s, IF s = "IN_PROGRESS" THEN "CLAIMED" ELSE "QUEUED")
    BY DEF AgreeingPair, ActiveV2
  <2> QED
    BY <1>1, <2>1, SetKeepsAgreement DEF SetStatusV1, PatchesAgree, At
<1>2. ASSUME NEW t \in Tasks, NEW pair \in PatchablePairs, PatchStatus(t, pair)
      PROVE  Agreement'
  <2>1. AgreeingPair(pair[1], pair[2])
    BY DEF PatchablePairs, AgreeingPair, MapStatusV1ToV2, MapStatusV2ToV1, StatusV1,
           StatusV2, ActiveV2, TerminalV2
  <2> QED
    BY <1>2, <2>1, SetKeepsAgreement DEF PatchStatus, PatchesAgree, At
<1>3. ASSUME NEW p \in Procs, NEW t \in Tasks, PatchRead(p, t) PROVE Agreement'
  <2> DEFINE q == [Idle EXCEPT !.pc = "patch", !.task = t, !.v1 = v1[t], !.v2 = v2[t]]
  <2>1. q.v1 = v1[t] /\ q.v2 = v2[t]
    BY DEF Idle
  <2>2. AgreeingPair(v1[t], v2[t])
    BY <1>3 DEF PatchRead, Exists, StatusesAgree
  <2>3. Become(p, q) /\ UNCHANGED <<v1, v2>>
    BY <1>3 DEF PatchRead, taskVars
  <2> HIDE DEF q
  <2> QED
    BY <2>1, <2>2, <2>3 DEF Typing, TypeOK, Become, PatchesAgree, At, StatusesAgree
<1> QED
  BY <1>1, <1>2, <1>3 DEF Edit

LEMMA AgreementStep == Typing /\ Agreement /\ [Next]_vars => Agreement'
<1> SUFFICES ASSUME Typing, Agreement, [Next]_vars PROVE Agreement'
  OBVIOUS
<1> USE DEF Agreement
<1>1. ASSUME UNCHANGED <<v1, v2, proc>> PROVE Agreement'
  BY <1>1 DEF StatusesAgree, PatchesAgree, At
<1>2. ASSUME NEW t \in Tasks, NEW l \in LeaseIds, ClaimByID(t, l) PROVE Agreement'
  <2>1. StatusesAgree'
    BY <1>2, ClaimKeepsAgreement DEF ClaimByID
  <2> QED
    BY <1>2, <2>1, SupersededKeepsPatches, OthersKeepPatches DEF ClaimByID
<1>3. CASE \/ \E t \in Tasks : Approve(t) \/ Reject(t)
           \/ \E t \in Tasks, l \in LeaseIds : CreateLease(t, l)
           \/ \E l \in LeaseIds : ReleaseLease(l)
  BY <1>1, <1>3 DEF Approve, Reject, CreateLease, ReleaseLease, taskVars
<1>4. CASE SweepTx
  BY <1>4 DEF SweepTx, Typing, TypeOK, StatusesAgree, AgreeingPair, PatchesAgree, At
<1>5. ASSUME NEW t \in Tasks, RequeueExpired(t) PROVE Agreement'
  <2>1. AgreeingPair("NOT_PICKED", "QUEUED")
    BY DEF AgreeingPair
  <2> QED
    BY <1>5, <2>1, SetKeepsAgreement DEF RequeueExpired, StatusesAgree, PatchesAgree, At
<1>6. CASE Tick
  <2>1. ASSUME NEW p \in Procs
        PROVE  /\ proc'[p].pc = proc[p].pc
               /\ proc'[p].v1 = proc[p].v1
               /\ proc'[p].v2 = proc[p].v2
    BY <1>6 DEF Tick, Typing, TypeOK, ProcType
  <2> QED
    BY <1>6, <2>1, OthersKeepPatches DEF Tick, taskVars, StatusesAgree
<1>7. CASE Crash
  BY <1>7 DEF Crash, taskVars, StatusesAgree, PatchesAgree, At, Idle
<1>8. CASE EmitFails
  BY <1>1, <1>8 DEF EmitFails, taskVars
<1>9. ASSUME NEW p \in Procs, WriteFails(p) PROVE Agreement'
  <2>1. [proc[p] EXCEPT !.pc = "lease_read", !.run = "none"].pc # "patch"
    BY DEF Typing, TypeOK, ProcType
  <2> QED
    BY <1>9, <2>1, BecomeKeepsPatches, DoneKeepsPatches
    DEF WriteFails, taskVars, StatusesAgree
<1>10. CASE UNCHANGED vars
  BY <1>1, <1>10 DEF vars
<1> QED
  BY <1>2, <1>3, <1>4, <1>5, <1>6, <1>7, <1>8, <1>9, <1>10, RequestAgreement,
     HandlerAgreement, EditAgreement
  DEF Next, UnattendedNext, OneStep, Sweeper, Faulty

\* The two status columns agree on whether a task is finished, whatever
\* handlers, sweeps, faults and hand edits interleave, a PATCH that writes back
\* the columns it read long ago included.
THEOREM ColumnsAgree == Spec => []StatusesAgree
<1>1. Init => Agreement
  BY DEF Init, Agreement, StatusesAgree, PatchesAgree, At, Idle
<1>2. Agreement => StatusesAgree
  BY DEF Agreement
<1> QED
  BY <1>1, <1>2, TypingInit, TypingStep, AgreementStep, PTL DEF Spec
=============================================================================

-------------------------- MODULE LeaseLockProofs ---------------------------
(***************************************************************************)
(* The lease table implements the exclusive lock of LeaseLock, for any     *)
(* sets of tasks, lease ids and handlers.                                  *)
(***************************************************************************)
EXTENDS TaskLifecycleProofs

-----------------------------------------------------------------------------
(* The refinement mapping.  Holder picks some live row of a task; with at  *)
(* most one row per task it is that row.                                   *)

HolderIsLiveRow ==
    \A t \in Tasks : /\ \A l \in LiveRowsOf(t) : Holder[t] = l
                     /\ LiveRowsOf(t) = {} => Holder[t] = None

LEMMA HolderRight == UniqueLease => HolderIsLiveRow
<1> SUFFICES ASSUME UniqueLease, NEW t \in Tasks
             PROVE  /\ \A l \in LiveRowsOf(t) : Holder[t] = l
                    /\ LiveRowsOf(t) = {} => Holder[t] = None
  BY DEF HolderIsLiveRow
<1>1. ASSUME NEW l \in LiveRowsOf(t), NEW m \in LiveRowsOf(t) PROVE l = m
  BY <1>1, NoneAssumption DEF UniqueLease, LiveRowsOf, RowsOf, Held
<1>2. ASSUME NEW l \in LiveRowsOf(t) PROVE Holder[t] = l
  <2>1. Leased(t)
    BY DEF Leased
  <2>2. Holder[t] = CHOOSE m \in LiveRowsOf(t) : TRUE
    BY <2>1 DEF Holder
  <2>3. Holder[t] \in LiveRowsOf(t)
    BY <2>2
  <2> QED
    BY <1>1, <2>3
<1>3. ASSUME LiveRowsOf(t) = {} PROVE Holder[t] = None
  BY <1>3 DEF Holder, Leased
<1> QED
  BY <1>2, <1>3

LEMMA HolderRightNext == UniqueLease' => HolderIsLiveRow'
BY HolderRight, PTL

LEMMA HolderIsFunction == Holder = [t \in Tasks |-> Holder[t]]
BY DEF Holder

LEMMA HolderIsFunctionNext == Holder' = [t \in Tasks |-> Holder'[t]]
BY DEF Holder

-----------------------------------------------------------------------------
(* The two ways the table changes.                                         *)

\* No row becomes live, and a live row stays with its task: the lock lapses on
\* the tasks whose live row is gone.
LEMMA Lapses ==
    ASSUME UniqueLease, UniqueLease',
           \A l \in LeaseIds : Live(l)' => Live(l) /\ leases'[l].task = leases[l].task
    PROVE  Lock!Next
<1> DEFINE S == {t \in Tasks : LiveRowsOf(t)' = {}}
<1>1. HolderIsLiveRow /\ HolderIsLiveRow'
  BY HolderRight, HolderRightNext
<1>2. ASSUME NEW t \in S PROVE Holder'[t] = None
  BY <1>1 DEF HolderIsLiveRow
<1>3. ASSUME NEW t \in Tasks, t \notin S PROVE Holder'[t] = Holder[t]
  <2>1. PICK l \in LeaseIds : l \in LiveRowsOf(t)'
    BY <1>3 DEF LiveRowsOf, RowsOf
  <2>2. leases'[l].task = t /\ leases'[l].left > 0
    BY <2>1 DEF LiveRowsOf, RowsOf
  <2>3. Live(l)'
    BY <2>2, NoneAssumption DEF Live, Held
  <2>4. l \in LiveRowsOf(t)
    BY <2>2, <2>3 DEF LiveRowsOf, RowsOf, Live
  <2> QED
    BY <1>1, <2>1, <2>4 DEF HolderIsLiveRow
<1>4. Holder' = [t \in Tasks |-> IF t \in S THEN None ELSE Holder[t]]
  BY <1>2, <1>3, HolderIsFunctionNext
<1>5. Lock!Lapse(S)
  BY <1>4 DEF Lock!Lapse
<1> QED
  BY <1>5 DEF Lock!Next

\* A row comes to life for a task that had none, and nothing else changes.
LEMMA Grants ==
    ASSUME UniqueLease, UniqueLease', NEW t \in Tasks, NEW l \in LeaseIds,
           ~Leased(t), ~Live(l), l \in LiveRowsOf(t)',
           \A u \in Tasks \ {t} : LiveRowsOf(u)' = LiveRowsOf(u)
    PROVE  Lock!Next
<1>1. HolderIsLiveRow /\ HolderIsLiveRow'
  BY HolderRight, HolderRightNext
<1>2. Holder[t] = None /\ Holder'[t] = l
  BY <1>1 DEF HolderIsLiveRow, Leased
<1>3. ASSUME NEW u \in Tasks PROVE Holder[u] # l
  <2>1. CASE LiveRowsOf(u) = {}
    BY <1>1, <2>1, NoneAssumption DEF HolderIsLiveRow
  <2>2. ASSUME NEW m \in LiveRowsOf(u) PROVE Holder[u] # l
    BY <1>1, <2>2, NoneAssumption DEF HolderIsLiveRow, LiveRowsOf, RowsOf, Live, Held
  <2> QED
    BY <2>1, <2>2
<1>4. ASSUME NEW u \in Tasks, u # t PROVE Holder'[u] = Holder[u]
  <2>1. LiveRowsOf(u)' = LiveRowsOf(u)
    BY <1>4
  <2>2. CASE LiveRowsOf(u) = {}
    BY <1>1, <2>1, <2>2 DEF HolderIsLiveRow
  <2>3. ASSUME NEW m \in LiveRowsOf(u) PROVE Holder'[u] = Holder[u]
    BY <1>1, <2>1, <2>3 DEF HolderIsLiveRow
  <2> QED
    BY <2>2, <2>3
<1>5. Holder' = [Holder EXCEPT ![t] = l]
  BY <1>2, <1>4, HolderIsFunction, HolderIsFunctionNext
<1>6. Lock!Grant(t, l)
  BY <1>2, <1>3, <1>5 DEF Lock!Grant
<1> QED
  BY <1>6 DEF Lock!Next

-----------------------------------------------------------------------------
(* The actions.                                                            *)

LEMMA InsertGrants ==
    ASSUME Typing, UniqueLease, UniqueLease', NEW t \in Tasks, NEW l \in LeaseIds,
           InsertLease(t, l)
    PROVE  Lock!Next
<1>1. ~Leased(t)
  BY DEF InsertLease, Leased, LiveRowsOf, Expired
<1>2. ~Live(l)
  BY DEF InsertLease, Fresh, Live
<1>3. l \in LiveRowsOf(t)'
  BY TimesAssumption DEF InsertLease, LiveRowsOf, RowsOf, Row
<1>4. ASSUME NEW u \in Tasks, u # t PROVE LiveRowsOf(u)' = LiveRowsOf(u)
  <2>1. ASSUME NEW m \in LeaseIds PROVE m \in LiveRowsOf(u)' <=> m \in LiveRowsOf(u)
    <3>1. CASE m = l
      <4>1. leases'[m].task = t
        BY <3>1 DEF InsertLease, Row
      <4>2. leases[m].task = None
        BY <3>1 DEF InsertLease, Fresh, Held
      <4> QED
        BY <1>4, <4>1, <4>2, NoneAssumption DEF LiveRowsOf, RowsOf
    <3>2. CASE m # l /\ m \in RowsOf(t)
      <4>1. leases[m].task = t
        BY <3>2 DEF RowsOf
      <4>2. leases'[m].task \in {t, None}
        BY <3>2, <4>1 DEF InsertLease, Row, NoRow
      <4> QED
        BY <1>4, <4>1, <4>2, NoneAssumption DEF LiveRowsOf, RowsOf
    <3>3. CASE m # l /\ m \notin RowsOf(t)
      <4>1. leases'[m] = leases[m]
        BY <3>3 DEF InsertLease
      <4> QED
        BY <4>1 DEF LiveRowsOf, RowsOf
    <3> QED
      BY <3>1, <3>2, <3>3
  <2> QED
    BY <2>1 DEF LiveRowsOf, RowsOf
<1> QED
  BY <1>1, <1>2, <1>3, <1>4, Grants

\* A heartbeat written late may find its lease expired and bring it back: the
\* row is still there, so nobody else can have the task.
LEMMA HeartbeatLocks ==
    ASSUME Typing, UniqueLease, UniqueLease', NEW p \in Procs, HeartbeatWrite(p)
    PROVE  Lock!Next
<1>1. PICK h \in LeaseIds, n \in Nat : h = proc[p].lease /\ n = proc[p].left
  BY DEF HeartbeatWrite, At, Typing, TypeOK, ProcOK, ProcType
<1>2. CASE ~Held(h)
  BY <1>1, <1>2, Lapses DEF HeartbeatWrite, Live, Held
<1>3. CASE Held(h)
  <2>1. leases' = [leases EXCEPT ![h].left = n]
    BY <1>1, <1>3 DEF HeartbeatWrite
  <2>2. /\ leases'[h].task = leases[h].task
        /\ leases'[h].left = n
        /\ \A m \in LeaseIds \ {h} : leases'[m] = leases[m]
    BY <2>1 DEF Typing, TypeOK
  <2>3. CASE Live(h) \/ n = 0
    BY <2>2, <2>3, Lapses DEF Live, Held
  <2>4. CASE ~Live(h) /\ n > 0
    <3>1. PICK t \in Tasks : leases[h].task = t
      BY <1>3 DEF Typing, TypeOK, Held
    <3>2. \A m \in RowsOf(t) : m = h
      BY <1>3, <3>1 DEF UniqueLease, RowsOf
    <3>3. ~Leased(t)
      BY <1>3, <2>4, <3>2 DEF Leased, LiveRowsOf, Live
    <3>4. h \in LiveRowsOf(t)'
      BY <2>2, <2>4, <3>1 DEF LiveRowsOf, RowsOf
    <3>5. ASSUME NEW u \in Tasks, u # t PROVE LiveRowsOf(u)' = LiveRowsOf(u)
      BY <2>2, <3>1, <3>5 DEF LiveRowsOf, RowsOf
    <3> QED
      BY <2>4, <3>3, <3>4, <3>5, Grants
  <2> QED
    BY <2>3, <2>4
<1> QED
  BY <1>2, <1>3

LEMMA LockStep ==
    Typing /\ UniqueLease /\ UniqueLease' /\ [Next]_vars => [Lock!Next]_Holder
<1> SUFFICES ASSUME Typing, UniqueLease, UniqueLease', [Next]_vars
             PROVE  Lock!Next
  OBVIOUS
<1>1. CASE UNCHANGED leases
  BY <1>1, Lapses DEF Live, Held
<1>2. ASSUME NEW t \in Tasks, NEW l \in LeaseIds, ClaimByID(t, l) \/ CreateLease(t, l)
      PROVE  Lock!Next
  BY <1>2, InsertGrants DEF ClaimByID, CreateLease, ClaimTx
<1>3. ASSUME NEW p \in Procs, NEW l \in LeaseIds, ClaimNextClaim(p, l)
      PROVE  Lock!Next
  <2>1. proc[p].task \in Tasks
    BY <1>3 DEF ClaimNextClaim, At, Typing, ProcOK
  <2> QED
    BY <1>3, <2>1, InsertGrants DEF ClaimNextClaim, ClaimTx
<1>4. ASSUME NEW l \in LeaseIds, leases' = [leases EXCEPT ![l] = NoRow]
      PROVE  Lock!Next
  BY <1>4, Lapses DEF Typing, TypeOK, NoRow, Row, Live, Held
<1>5. ASSUME NEW p \in Procs, FinishReleaseLease(p) PROVE Lock!Next
  <2>1. proc[p].lease \in LeaseIds
    BY <1>5 DEF FinishReleaseLease, At, Typing, ProcOK
  <2> QED
    BY <1>4, <1>5, <2>1 DEF FinishReleaseLease
<1>6. CASE SweepTx
  BY <1>6, Lapses DEF SweepTx, NoRow, Row, Live, Held
<1>7. CASE Tick
  <2>1. ASSUME NEW l \in LeaseIds
        PROVE  /\ leases'[l].task = leases[l].task
               /\ leases'[l].left > 0 => leases[l].left > 0
    BY <1>7 DEF Tick, Typing, TypeOK
  <2> QED
    BY <2>1, Lapses DEF Live, Held
<1>8. CASE \/ \E l \in LeaseIds : ReleaseLease(l)
           \/ \E t \in Tasks : RequeueExpired(t) \/ Approve(t) \/ Reject(t)
  BY <1>1, <1>4, <1>8 DEF ReleaseLease, RequeueExpired, Approve, Reject
<1>9. CASE Edit
  BY <1>1, <1>9 DEF Edit, SetStatusV1, PatchStatus, PatchRead
<1>10. CASE Faulty
  BY <1>1, <1>10 DEF Faulty, Crash, EmitFails, WriteFails
<1>11. CASE \E p \in Procs : Request(p)
  BY <1>1, <1>11 DEF Request, CreateTask, ClaimNextFind, Complete, FailCheck, FailV1,
                     FailUpdate, HeartbeatCheck
<1>12. CASE \E p \in Procs : Handler(p)
  <2>1. ASSUME NEW p \in Procs,
               \/ MarkApproval(p) \/ ClaimNextConflict(p) \/ HeartbeatRead(p)
               \/ Fail(p) \/ FinishReadRun(p) \/ FinishUpdateRun(p)
               \/ FinishReadLease(p) \/ PatchWrite(p)
        PROVE  UNCHANGED leases
    BY <2>1 DEF MarkApproval, ClaimNextConflict, HeartbeatRead, Fail, FailUpdate,
                FinishReadRun, FinishUpdateRun, FinishReadLease, PatchWrite
  <2> QED
    BY <1>1, <1>3, <1>5, <1>12, <2>1, HeartbeatLocks DEF Handler
<1>13. CASE UNCHANGED vars
  BY <1>1, <1>13 DEF vars
<1> QED
  BY <1>2, <1>6, <1>7, <1>8, <1>9, <1>10, <1>11, <1>12, <1>13
  DEF Next, UnattendedNext, OneStep, Sweeper

\* The lease table is an exclusive lock: a task held under a live lease is not
\* granted under another one before the first is released or expires, however
\* claims, heartbeats, sweeps, finalizations and crashes interleave.
THEOREM LeasesLock == Spec => LeasesImplementLock
<1>1. Init => UniqueLease
  BY DEF Init, UniqueLease, Held, NoRow, Row
<1>2. Init => Lock!Init
  <2> SUFFICES ASSUME Init PROVE Lock!Init
    OBVIOUS
  <2>1. ASSUME NEW t \in Tasks PROVE ~Leased(t)
    BY NoneAssumption DEF Init, Leased, LiveRowsOf, RowsOf, NoRow, Row
  <2> QED
    BY <2>1 DEF Lock!Init, Holder
<1> QED
  BY <1>1, <1>2, TypingInit, TypingStep, UniqueStep, LockStep, PTL
  DEF Spec, LeasesImplementLock, Lock!Spec
=============================================================================

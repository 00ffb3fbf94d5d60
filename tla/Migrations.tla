----------------------------- MODULE Migrations ------------------------------
(***************************************************************************)
(* The migrations of the database, run when a server starts or by hand.    *)
(* Several processes may start on one file; a mutex keeps the goroutines   *)
(* of a process apart, not the processes.  A process reads once which      *)
(* versions are recorded, then applies the rest in order, each in a        *)
(* transaction that ends with the version's row in schema_migrations.      *)
(* Rolling back removes the row of the largest version and nothing else;   *)
(* which it is, is read before, and the mutex covers both in one process.  *)
(***************************************************************************)
EXTENDS Naturals

CONSTANTS
    Processes,
    MaxVersion,     \* migrations in the directory
    Repeatable,     \* those whose statements succeed a second time
    MaxRollbacks    \* bound: removals of one version's row

Versions == 1..MaxVersion

VARIABLES
    recorded,   \* versions in schema_migrations
    done,       \* how often each version's statements were committed
    process,    \* the run each process is in
    rolledBack  \* how often each version's row was removed

vars == <<recorded, done, process, rolledBack>>

Idle == [pc |-> "idle", applied |-> {}, next |-> 1]

TypeOK ==
    /\ recorded \subseteq Versions
    /\ done \in [Versions -> 0..MaxRollbacks + 1]
    /\ process \in [Processes -> [pc : {"idle", "apply", "ready", "failed", "rollback"},
                                  applied : SUBSET Versions, next : 1..MaxVersion + 1]]
    /\ rolledBack \in [Versions -> 0..MaxRollbacks]

Init ==
    /\ recorded = {}
    /\ done = [v \in Versions |-> 0]
    /\ process = [p \in Processes |-> Idle]
    /\ rolledBack = [v \in Versions |-> 0]

At(p, pc) == process[p].pc = pc
Become(p, q) == process' = [process EXCEPT ![p] = q]

\* Run reads the recorded versions.
Start(p) ==
    /\ At(p, "idle")
    /\ Become(p, [pc |-> "apply", applied |-> recorded, next |-> 1])
    /\ UNCHANGED <<recorded, done, rolledBack>>

\* One that was recorded then is skipped.
Skip(p) ==
    /\ At(p, "apply")
    /\ process[p].next \in process[p].applied
    /\ Become(p, [process[p] EXCEPT !.next = @ + 1])
    /\ UNCHANGED <<recorded, done, rolledBack>>

\* Slip: the row is inserted unless it is there.
AppliesAnyway(v) == done[v] > 0 => v \in Repeatable

\* The statements succeed, a second time only if they can, and there is no row.
Applies(v) == v \notin recorded /\ (done[v] > 0 => v \in Repeatable)

\* Apply commits the statements and the row ...
Apply(p) ==
    /\ At(p, "apply")
    /\ LET v == process[p].next IN
         /\ v \in Versions \ process[p].applied
         /\ Applies(v)
         /\ recorded' = recorded \cup {v}
         /\ done' = [done EXCEPT ![v] = @ + 1]
    /\ Become(p, [process[p] EXCEPT !.next = @ + 1])
    /\ UNCHANGED rolledBack

\* ... or neither, and the process gives up.
ApplyFails(p) ==
    /\ At(p, "apply")
    /\ process[p].next \in Versions \ process[p].applied
    /\ Become(p, [Idle EXCEPT !.pc = "failed"])
    /\ UNCHANGED <<recorded, done, rolledBack>>

Finish(p) ==
    /\ At(p, "apply")
    /\ process[p].next = MaxVersion + 1
    /\ Become(p, [Idle EXCEPT !.pc = "ready"])
    /\ UNCHANGED <<recorded, done, rolledBack>>

\* Rollback, in a process of its own, reads the largest version that is recorded ...
ReadLargest(p) ==
    /\ At(p, "idle")
    /\ \E v \in recorded :
          /\ \A w \in recorded : w <= v
          /\ Become(p, [Idle EXCEPT !.pc = "rollback", !.next = v])
    /\ UNCHANGED <<recorded, done, rolledBack>>

\* ... and deletes its row, which need not be there, nor be the largest, any more.
Remove(p) ==
    /\ At(p, "rollback")
    /\ LET v == process[p].next IN
         /\ rolledBack[v] < MaxRollbacks
         /\ recorded' = recorded \ {v}
         /\ rolledBack' = [rolledBack EXCEPT ![v] = IF v \in recorded THEN @ + 1 ELSE @]
    /\ Become(p, Idle)
    /\ UNCHANGED done

\* A process stops at any point and is started again.
Crash(p) ==
    /\ ~At(p, "idle")
    /\ Become(p, Idle)
    /\ UNCHANGED <<recorded, done, rolledBack>>

Next ==
    \E p \in Processes :
        \/ Start(p) \/ Skip(p) \/ Apply(p) \/ ApplyFails(p) \/ Finish(p)
        \/ ReadLargest(p) \/ Remove(p) \/ Crash(p)

Spec == Init /\ [][Next]_vars

-----------------------------------------------------------------------------
(* Properties.                                                             *)

\* The statements of a migration took effect as often as its row and the removals
\* of its row say, however many processes start, stop and roll back meanwhile, one
\* beside the other; and a server that is ready has every migration whose row was
\* not removed.
RecordedIsDone ==
    /\ \A v \in Versions : done[v] = rolledBack[v] + (IF v \in recorded THEN 1 ELSE 0)
    /\ \A p \in Processes : At(p, "ready") =>
            \A v \in Versions : v \in recorded \/ rolledBack[v] > 0
=============================================================================

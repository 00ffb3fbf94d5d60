------------------------------- MODULE Worker -------------------------------
(***************************************************************************)
(* The bundled worker: it claims a task, executes it while a goroutine     *)
(* renews the lease, reports, and polls again.  Any number of workers run, *)
(* all under the agent id agent_worker, so only a lease's id tells whose   *)
(* it is.  Requests and answers may be lost, nothing is sent twice, and    *)
(* the report carries no lease: the server takes it from anybody.  It has  *)
(* no `result` either, which the server wants of most types of tasks.      *)
(*                                                                         *)
(* The server is reduced to what the worker can see of it; the steps of    *)
(* its handlers are those of TaskLifecycle.  Time is relative: a lease     *)
(* keeps the ticks left to it, and piles up at most MaxLeft of them.       *)
(***************************************************************************)
EXTENDS Naturals

CONSTANTS
    Workers,
    Tasks,
    Contracted,     \* the tasks of type MODIFY, TEST, DOC and REVIEW
    Ttl,            \* ticks a claim or a heartbeat adds to a lease
    MaxLeft,        \* bound: ticks a lease may pile up, at least Ttl
    MaxFailures     \* failures of claim-next in a row that stop a worker

NoTask == "no task"
Nobody == "nobody"  \* holds a lease whose claim was answered into the void

VARIABLES
    open,       \* tasks that are not finished
    lease,      \* the lease of each task: who works under it, ticks left
    worker,
    quiet,      \* history: ticks since the worker last renewed its lease
    excused,    \* history: tasks with a worker too late or gone, a message lost
                \* or a report refused
    wasted,     \* history: tasks claimed twice, or reported on in vain
    answered    \* history: tasks whose execution succeeded, and the server heard of it

vars == <<open, lease, worker, quiet, excused, wasted, answered>>

NoLease == [holder |-> "none", left |-> 0]
Polling == [pc |-> "poll", task |-> NoTask, failures |-> 0]

TypeOK ==
    /\ open \subseteq Tasks
    /\ lease \in [Tasks -> [holder : Workers \cup {"none", Nobody}, left : 0..MaxLeft]]
    /\ worker \in [Workers -> [pc : {"poll", "execute", "succeeded", "failed", "stopped"},
                               task : Tasks \cup {NoTask}, failures : 0..MaxFailures]]
    /\ quiet \in [Workers -> 0..Ttl]
    /\ excused \subseteq Tasks
    /\ wasted \subseteq Tasks
    /\ answered \subseteq Tasks

Init ==
    /\ open = Tasks
    /\ lease = [t \in Tasks |-> NoLease]
    /\ worker = [w \in Workers |-> Polling]
    /\ quiet = [w \in Workers |-> 0]
    /\ excused = {}
    /\ wasted = {}
    /\ answered = {}

At(w, pc) == worker[w].pc = pc
Become(w, q) == worker' = [worker EXCEPT ![w] = q]

-----------------------------------------------------------------------------
(* workerClaimNext.                                                        *)

\* Slip: a task in progress counts as free whatever its lease.
FreeOfStatus(t) == t \in open

\* What claim-next may answer with.
Free(t) == t \in open /\ lease[t].left = 0

\* The server's side of a claim, for a worker or for nobody.
GiveOut(t, holder) ==
    /\ Free(t)
    /\ lease' = [lease EXCEPT ![t] = [holder |-> holder, left |-> Ttl]]
    /\ wasted' = IF lease[t] # NoLease \/ \E w \in Workers : worker[w].task = t
                 THEN wasted \cup {t} ELSE wasted

ClaimNext(w, t) ==
    /\ At(w, "poll")
    /\ GiveOut(t, w)
    /\ Become(w, [pc |-> "execute", task |-> t, failures |-> 0])
    /\ quiet' = [quiet EXCEPT ![w] = 0]
    /\ UNCHANGED <<open, excused, answered>>

\* Back off, until it was too often.
Failed(w) ==
    LET n == worker[w].failures + 1 IN
      [Polling EXCEPT !.failures = n, !.pc = IF n >= MaxFailures THEN "stopped" ELSE "poll"]

\* The claim succeeds and the answer is lost, or comes after the client's timeout.
ClaimUnheard(w, t) ==
    /\ At(w, "poll")
    /\ GiveOut(t, Nobody)
    /\ Become(w, Failed(w))
    /\ excused' = excused \cup {t}
    /\ UNCHANGED <<open, quiet, answered>>

\* No answer, or a status that is none of 200, 204 and 404.
ClaimFails(w) ==
    /\ At(w, "poll")
    /\ Become(w, Failed(w))
    /\ UNCHANGED <<open, lease, quiet, excused, wasted, answered>>

\* 204 and 404: wait for the next poll.
NothingToDo(w) ==
    /\ At(w, "poll")
    /\ \A t \in Tasks : ~Free(t)
    /\ Become(w, Polling)
    /\ UNCHANGED <<open, lease, quiet, excused, wasted, answered>>

-----------------------------------------------------------------------------
(* Execution.                                                              *)

\* The ticker of the claim: the server finds the lease and adds to what is left,
\* also of one that has expired and is still there.  Of a heartbeat that fails
\* only the log says something.
Heartbeat(w, t) ==
    /\ At(w, "execute")
    /\ worker[w].task = t
    /\ lease[t].holder = w
    /\ lease' = [lease EXCEPT ![t].left = IF @ + Ttl < MaxLeft THEN @ + Ttl ELSE MaxLeft]
    /\ quiet' = [quiet EXCEPT ![w] = 0]
    /\ UNCHANGED <<open, worker, excused, wasted, answered>>

\* The executor returns, with a result or an error, and the ticker stops.
Executed(w) ==
    /\ At(w, "execute")
    /\ \E outcome \in {"succeeded", "failed"} : Become(w, [worker[w] EXCEPT !.pc = outcome])
    /\ UNCHANGED <<open, lease, quiet, excused, wasted, answered>>

Reporting(w) == At(w, "succeeded") \/ At(w, "failed")

\* The completion contract: what the worker sends has no result in it.
ContractMet(w, t) == At(w, "failed") \/ t \notin Contracted

\* workerCompleteTask and workerFailTask: a task that is not finished is, and
\* whatever lease it has is released, unless the contract says no; of one that is
\* finished the server says so.  Whatever the answer, the worker goes on polling.
Report(w, t) ==
    /\ Reporting(w)
    /\ worker[w].task = t
    /\ IF t \in open /\ ContractMet(w, t)
       THEN /\ open' = open \ {t}
            /\ lease' = [lease EXCEPT ![t] = NoLease]
       ELSE UNCHANGED <<open, lease>>
    /\ wasted' = IF t \in open THEN wasted ELSE wasted \cup {t}
    /\ excused' = IF t \in open /\ ~ContractMet(w, t) THEN excused \cup {t} ELSE excused
    /\ answered' = IF At(w, "succeeded") THEN answered \cup {t} ELSE answered
    /\ Become(w, Polling)
    /\ UNCHANGED quiet

\* The report does not arrive.  It is not sent again.
ReportLost(w) ==
    /\ Reporting(w)
    /\ excused' = excused \cup {worker[w].task}
    /\ Become(w, Polling)
    /\ UNCHANGED <<open, lease, quiet, wasted, answered>>

-----------------------------------------------------------------------------
(* Time, and what stops.                                                   *)

\* A worker between its claim and its report is late after Ttl ticks of silence.
Tick ==
    /\ \/ \E t \in Tasks : lease[t].left > 0
       \/ \E w \in Workers : worker[w].task # NoTask /\ quiet[w] < Ttl
    /\ lease' = [t \in Tasks |-> [lease[t] EXCEPT !.left = IF @ > 0 THEN @ - 1 ELSE 0]]
    /\ quiet' = [w \in Workers |-> IF worker[w].task = NoTask THEN 0
                                   ELSE IF quiet[w] < Ttl THEN quiet[w] + 1 ELSE Ttl]
    /\ excused' = excused \cup {t \in Tasks : \E w \in Workers :
                                    worker[w].task = t /\ quiet'[w] = Ttl}
    /\ UNCHANGED <<open, worker, wasted, answered>>

\* The sweep deletes what has expired.
Sweep ==
    /\ \E t \in Tasks : lease[t] # NoLease /\ lease[t].left = 0
    /\ lease' = [t \in Tasks |-> IF lease[t].left = 0 THEN NoLease ELSE lease[t]]
    /\ UNCHANGED <<open, worker, quiet, excused, wasted, answered>>

\* A worker is killed, or started again after it stopped.
Restart(w) ==
    /\ worker[w] # Polling
    /\ excused' = excused \cup ({worker[w].task} \cap Tasks)
    /\ Become(w, Polling)
    /\ UNCHANGED <<open, lease, quiet, wasted, answered>>

Next ==
    \/ \E w \in Workers :
          \/ \E t \in Tasks : ClaimNext(w, t) \/ ClaimUnheard(w, t) \/ Heartbeat(w, t)
                              \/ Report(w, t)
          \/ ClaimFails(w) \/ NothingToDo(w) \/ Executed(w) \/ ReportLost(w) \/ Restart(w)
    \/ Tick \/ Sweep

Spec == Init /\ [][Next]_vars

-----------------------------------------------------------------------------
(* Properties.                                                             *)

\* A task is given out again, or a report on it refused, only after a message
\* about it was lost, the report was refused for the contract, a worker of it was
\* killed, or was silent for the whole time of a lease between its claim and its
\* report.
NoWorkIsWasted == wasted \subseteq excused

-----------------------------------------------------------------------------
(* What a comment says, and the code does not do.                          *)

\* worker.go:86-87: RunWorker "marks them as completed with a placeholder result":
\* a task that was executed, and on whose success the server gave its answer, is
\* finished.
ExecutedIsFinished == answered \cap open = {}
=============================================================================

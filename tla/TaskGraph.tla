------------------------------ MODULE TaskGraph ------------------------------
(***************************************************************************)
(* What relates tasks to each other: dependencies, parents, deletion, and  *)
(* the worker that reports a task whose dependencies have succeeded.       *)
(*                                                                         *)
(* The schema declares foreign keys, but the connection never switches     *)
(* them on, so a deleted task leaves its edges behind.  Ids are            *)
(* AUTOINCREMENT: they are handed out in order and never again.            *)
(*                                                                         *)
(* A request that fails a check changes nothing, so a refusal is no        *)
(* action.  Checks made together before a step are one step with it when   *)
(* nothing can tell the difference.  Projects are left out: they can only  *)
(* refuse more.                                                            *)
(***************************************************************************)
EXTENDS Naturals, FiniteSets, SequencesExt

CONSTANTS
    MaxTasks,   \* bound: tasks ever created
    Workable,   \* bound: the tasks an agent or an operator may work on
    MaxLinks,   \* bound: dependencies and parents at any time
    Clients     \* requests that may be in flight at the same time

Tasks == 1..MaxTasks

VARIABLES
    status,     \* tasks.status_v2; "ABSENT" before the INSERT, "DELETED" after the DELETE
    parent,     \* tasks.parent_task_id, 0 for NULL
    deps,       \* task_dependencies: <<task, the task it depends on>>
    unblocked,  \* tasks some dependency.unblocked event has named
    client,     \* the requests in flight
    loose       \* history: an edge went in that no check can cover

vars == <<status, parent, deps, unblocked, client, loose>>
rows == <<status, parent>>

Statuses == {"ABSENT", "QUEUED", "CLAIMED", "SUCCEEDED", "FAILED", "DELETED"}

Idle == [pc |-> "idle", task |-> 0, other |-> 0, todo |-> {}, status |-> "ABSENT"]

TypeOK ==
    /\ status \in [Tasks -> Statuses]
    /\ parent \in [Tasks -> 0..MaxTasks]
    /\ deps \subseteq {e \in Tasks \X Tasks : e[1] # e[2]}
    /\ unblocked \subseteq Tasks
    /\ loose \in BOOLEAN
    /\ client \in [Clients -> [pc : {"idle", "edges", "insert", "write", "remove", "worker", "next"},
                               task : 0..MaxTasks, other : 0..MaxTasks,
                               todo : SUBSET Tasks, status : Statuses]]

Init ==
    /\ status = [t \in Tasks |-> "ABSENT"]
    /\ parent = [t \in Tasks |-> 0]
    /\ deps = {}
    /\ unblocked = {}
    /\ client = [c \in Clients |-> Idle]
    /\ loose = FALSE

At(c, pc) == client[c].pc = pc
Become(c, q) == client' = [client EXCEPT ![c] = q]
Done(c) == Become(c, Idle)

Exists(t) == t \in Tasks /\ status[t] \notin {"ABSENT", "DELETED"}
Links == Cardinality(deps) + Cardinality({t \in Tasks : parent[t] # 0})

-----------------------------------------------------------------------------
(* Queries.                                                                *)

DepsOf(S) == {e[2] : e \in {d \in deps : d[1] \in S}}

\* Slip: a check that only looks at the direct dependencies.
ReachesDirectly(t) == DepsOf({t})

\* The recursive query of TaskDependencyCreatesCycle: UNION until nothing new.
Reaches(t) ==
    LET round[n \in 0..MaxTasks] ==
          IF n = 0 THEN DepsOf({t}) ELSE round[n - 1] \cup DepsOf(round[n - 1])
    IN round[MaxTasks]

CreatesCycle(t, u) == t = u \/ t \in Reaches(u)

\* AreAllDependenciesFulfilled joins the tasks table, so the dependency on a
\* deleted task does not count.
Fulfilled(t) == \A u \in DepsOf({t}) : Exists(u) => status[u] = "SUCCEEDED"

\* The columns the migrations give to tasks, and those GetTasksDependingOn asks
\* for.  A statement that names a column the table lacks is an error.
TaskColumns ==
    {"id", "instructions", "status", "output", "parent_task_id", "created_at", "title",
     "type", "priority", "tags_json", "status_v2", "updated_at", "project_id",
     "automation_depth", "requires_approval", "approval_status", "loop_anchor_prompt"}

DependingOnColumns ==
    {"id", "project_id", "title", "instructions", "type", "priority", "tags_json",
     "status", "status_v2", "parent_task_id", "output", "created_at", "updated_at",
     "automation_depth", "loop_anchor_prompt", "deleted_at"}

\* GetTasksDependingOn as its caller sees it: the error is logged and no task
\* is looked at.
TasksDependingOn(t) ==
    IF DependingOnColumns \subseteq TaskColumns
    THEN {e[1] : e \in {d \in deps : d[2] = t /\ Exists(d[1])}}
    ELSE {}

\* Slip: a walk that remembers nothing and stops only at the end of the chain.
WalkBlindly(chain, up) == IF up = 0 THEN chain ELSE Append(chain, up)

\* One turn of the loop of GetTaskParentChain.
Walk(chain, up) ==
    IF up = 0 \/ up \in Range(chain) \/ ~Exists(up) THEN chain ELSE Append(chain, up)

\* The ancestors of t, the farthest first.
ParentChain(t) ==
    LET chain[n \in 0..MaxTasks + 1] ==
          IF n = 0 THEN <<>>
          ELSE LET c == chain[n - 1]
               IN Walk(c, IF c = <<>> THEN parent[t] ELSE parent[Last(c)])
    IN Reverse(chain[MaxTasks + 1])

-----------------------------------------------------------------------------
(* Creation.  No handler checks the tasks named in depends_on, and the v1  *)
(* handler does not check the parent either: both may be gone, or not yet  *)
(* there.                                                                  *)

\* Slip: the id of a deleted task is handed out again, as SQLite does for a
\* key that is not AUTOINCREMENT.
ReusedId(t) == ~Exists(t) /\ \A u \in Tasks : u < t => Exists(u)

NextId(t) == status[t] = "ABSENT" /\ \A u \in Tasks : u < t => status[u] # "ABSENT"

CreateTask(c, t, up, on) ==
    /\ At(c, "idle")
    /\ NextId(t)
    /\ Links + Cardinality(on) + (IF up = 0 THEN 0 ELSE 1) <= MaxLinks
    /\ status' = [status EXCEPT ![t] = "QUEUED"]
    /\ parent' = [parent EXCEPT ![t] = up]
    /\ IF on = {} THEN UNCHANGED client
                  ELSE Become(c, [Idle EXCEPT !.pc = "edges", !.task = t, !.todo = on])
    /\ UNCHANGED <<deps, unblocked, loose>>

\* Slip: the table has no CHECK.
WithUnchecked(t, u) == deps \cup {<<t, u>>}

\* The table with another edge: its key is the pair, and its CHECK refuses an
\* edge from a task to itself.
With(t, u) == IF t = u THEN deps ELSE deps \cup {<<t, u>>}

\* Histories: what no check of an edge can cover.  The task it names is not there
\* yet, or another request is between its own check, or creation, and its edges.
Uncovered(c, u) ==
    \/ status[u] = "ABSENT"
    \/ \E d \in Clients \ {c} : At(d, "insert") \/ At(d, "edges")

\* The edges of a new task are not checked: nothing can depend on it yet, unless
\* it was named before it existed, or as soon as it did.
CreateEdge(c, u) ==
    /\ At(c, "edges")
    /\ u \in client[c].todo
    /\ deps' = With(client[c].task, u)
    /\ loose' = (loose \/ Uncovered(c, u))
    /\ IF client[c].todo = {u} THEN Done(c)
                               ELSE Become(c, [client[c] EXCEPT !.todo = @ \ {u}])
    /\ UNCHANGED <<rows, unblocked>>

-----------------------------------------------------------------------------
(* Dependencies.                                                           *)

\* POST /tasks/{id}/dependencies: both tasks exist and the edge closes no
\* cycle, ...
CheckEdge(c, t, u) ==
    /\ At(c, "idle")
    /\ Exists(t)
    /\ Exists(u)
    /\ ~CreatesCycle(t, u)
    /\ Links < MaxLinks
    /\ Become(c, [Idle EXCEPT !.pc = "insert", !.task = t, !.other = u])
    /\ UNCHANGED <<rows, deps, unblocked, loose>>

\* ... and then it is inserted; a second copy is refused by the primary key.
InsertEdge(c) ==
    /\ At(c, "insert")
    /\ deps' = With(client[c].task, client[c].other)
    /\ loose' = (loose \/ Uncovered(c, client[c].other))
    /\ Done(c)
    /\ UNCHANGED <<rows, unblocked>>

\* DELETE /tasks/{id}/dependencies/{other}: an edge of a deleted task can no
\* longer be removed.
DeleteEdge(t, u) ==
    /\ Exists(t)
    /\ Exists(u)
    /\ <<t, u>> \in deps
    /\ deps' = deps \ {<<t, u>>}
    /\ UNCHANGED <<rows, unblocked, client, loose>>

-----------------------------------------------------------------------------
(* Parents and deletion.                                                   *)

\* PATCH /tasks/{id}: UpdateTaskV2 reads the row; `up` is the new parent, or the
\* one it read when the request names none.  A task is not its own parent, but
\* it may become an ancestor of itself.
PatchRead(c, t, up) ==
    /\ At(c, "idle")
    /\ Exists(t)
    /\ up = parent[t] \/ (Exists(up) /\ up # t)
    /\ Links + (IF parent[t] = 0 /\ up # 0 THEN 1 ELSE 0) <= MaxLinks
    /\ Become(c, [Idle EXCEPT !.pc = "write", !.task = t, !.other = up, !.status = status[t]])
    /\ UNCHANGED <<rows, deps, unblocked, loose>>

\* It writes every column back, also what another request has changed since.
PatchWrite(c) ==
    /\ At(c, "write")
    /\ LET t == client[c].task IN
         IF Exists(t)
         THEN /\ parent' = [parent EXCEPT ![t] = client[c].other]
              /\ status' = [status EXCEPT ![t] = client[c].status]
         ELSE UNCHANGED rows
    /\ Done(c)
    /\ UNCHANGED <<deps, unblocked, loose>>

\* DELETE /tasks/{id}: first the children lose their parent, ...
DetachChildren(c, t) ==
    /\ At(c, "idle")
    /\ Exists(t)
    /\ parent' = [u \in Tasks |-> IF parent[u] = t THEN 0 ELSE parent[u]]
    /\ Become(c, [Idle EXCEPT !.pc = "remove", !.task = t])
    /\ UNCHANGED <<status, deps, unblocked, loose>>

RemoveRow(t) ==
    /\ status' = [status EXCEPT ![t] = IF Exists(t) THEN "DELETED" ELSE @]
    /\ parent' = [parent EXCEPT ![t] = 0]

\* ... then the row goes.
DeleteRow(c) ==
    /\ At(c, "remove")
    /\ RemoveRow(client[c].task)
    /\ Done(c)
    /\ UNCHANGED <<deps, unblocked, loose>>

\* POST /delete of v1 leaves the children as they are.
DeleteV1(t) ==
    /\ Exists(t)
    /\ RemoveRow(t)
    /\ UNCHANGED <<deps, unblocked, client, loose>>

-----------------------------------------------------------------------------
(* Work.  A claim looks at leases and approval, never at dependencies.     *)

Claim(t) ==
    /\ t \in Workable
    /\ status[t] = "QUEUED"
    /\ status' = [status EXCEPT ![t] = "CLAIMED"]
    /\ UNCHANGED <<parent, deps, unblocked, client, loose>>

Fail(t) ==
    /\ t \in Workable
    /\ status[t] = "CLAIMED"
    /\ status' = [status EXCEPT ![t] = "FAILED"]
    /\ UNCHANGED <<parent, deps, unblocked, client, loose>>

\* How many tasks the result of a completion may name to come next: each with a
\* title, instructions, a type and a priority, or the completion is refused.  Bound: one.
NextTasks == 0..1

\* A completion that fulfils its contract: the finalizer writes the status and
\* later emits task.completed, ...
Complete(c, t, n) ==
    /\ At(c, "idle")
    /\ t \in Workable
    /\ status[t] \in {"QUEUED", "CLAIMED"}
    /\ status' = [status EXCEPT ![t] = "SUCCEEDED"]
    /\ Become(c, [Idle EXCEPT !.pc = "worker", !.task = t, !.other = n])
    /\ UNCHANGED <<parent, deps, unblocked, loose>>

\* ... which runs the dependency worker on the same goroutine.
Waiting(t) == status[t] = "QUEUED"

ReportUnblocked(c) ==
    /\ At(c, "worker")
    /\ unblocked' = unblocked \cup {t \in TasksDependingOn(client[c].task) :
                                      Waiting(t) /\ Fulfilled(t)}
    /\ IF client[c].other = 0 THEN Done(c) ELSE Become(c, [client[c] EXCEPT !.pc = "next"])
    /\ UNCHANGED <<rows, deps, loose>>

\* Then the next tasks are created, one by one, as children of the completed one,
\* which may be gone by now.
CreateNext(c, t) ==
    /\ At(c, "next")
    /\ NextId(t)
    /\ Links < MaxLinks
    /\ status' = [status EXCEPT ![t] = "QUEUED"]
    /\ parent' = [parent EXCEPT ![t] = client[c].task]
    /\ IF client[c].other = 1 THEN Done(c) ELSE Become(c, [client[c] EXCEPT !.other = @ - 1])
    /\ UNCHANGED <<deps, unblocked, loose>>

\* An INSERT fails: the rest is never created, and the completion stands.
CreateNextFails(c) ==
    /\ At(c, "next")
    /\ Done(c)
    /\ UNCHANGED <<rows, deps, unblocked, loose>>

Next ==
    \/ \E t \in Tasks : DeleteV1(t) \/ Claim(t) \/ Fail(t)
    \/ \E t, u \in Tasks : DeleteEdge(t, u)
    \/ \E c \in Clients :
          \/ \E t \in Tasks, up \in 0..MaxTasks, on \in SUBSET Tasks : CreateTask(c, t, up, on)
          \/ \E u \in Tasks : CreateEdge(c, u)
          \/ \E t, u \in Tasks : CheckEdge(c, t, u)
          \/ InsertEdge(c)
          \/ \E t \in Tasks, up \in 0..MaxTasks : PatchRead(c, t, up)
          \/ PatchWrite(c)
          \/ \E t \in Tasks : DetachChildren(c, t)
          \/ DeleteRow(c)
          \/ \E t \in Tasks, n \in NextTasks : Complete(c, t, n)
          \/ ReportUnblocked(c)
          \/ \E t \in Tasks : CreateNext(c, t)
          \/ CreateNextFails(c)

Spec == Init /\ [][Next]_vars

-----------------------------------------------------------------------------
(* Properties.                                                             *)

\* A cycle is a set of tasks each of which waits for another one of the set.
Cycle(S) == S # {} /\ \A t \in S : \E u \in S : <<t, u>> \in deps

\* As long as no edge names a task to come, and none goes in while another request
\* is about to add some, the dependencies form a DAG, whatever is created, patched
\* or deleted before and between: the transitive check of
\* TaskDependencyCreatesCycle is enough, also across the edges that deleted tasks
\* leave behind, and the unchecked edges of a new task close no cycle.
AcyclicUnlessLoose == ~loose => \A S \in SUBSET Tasks : ~Cycle(S)

\* The parents a task has, directly or not, as far as the rows are there.
Ancestors(t) ==
    {a \in DOMAIN status : \E S \in SUBSET DOMAIN status :
        /\ a \in S
        /\ \A b \in S : Exists(b)
        /\ \A R \in SUBSET S : R # {} /\ parent[t] \notin R
                               => \E b \in R : \E d \in S \ R : parent[d] = b}

\* GetTaskParentChain ends on every parent graph the requests can build, cycles
\* and missing parents included, and returns each ancestor once.
ChainIsTheAncestry ==
    \A t \in DOMAIN status : Exists(t) =>
        /\ Range(ParentChain(t)) = Ancestors(t)
        /\ IsInjective(ParentChain(t))

\* A task starts its life with no dependencies, although deleted tasks leave
\* theirs in the table: the id in such an edge is never given to a new task.
NoInheritedDependencies ==
    [][\A t \in DOMAIN status : ~Exists(t) /\ Exists(t)' => DepsOf({t}) = {}]_vars

-----------------------------------------------------------------------------
(* What a test says, and the code does not do.                             *)

\* golden_path_test.go:230-231: with a dependency of T2 on T1, "T2 can only be
\* claimed after T1 completes": a claim finds every dependency fulfilled.
ClaimsAwaitDependencies ==
    [][\A t \in Tasks : status[t] = "QUEUED" /\ status'[t] = "CLAIMED" => Fulfilled(t)]_vars
=============================================================================

------------------------------ MODULE FollowUps ------------------------------
(***************************************************************************)
(* The tasks the server makes by itself: investigations of failures, the   *)
(* follow-ups of rules, calls for a human, and the idle planner.           *)
(*                                                                         *)
(* An event is processed on the goroutine that made it, so events about    *)
(* the same task overlap.  What keeps the tasks from multiplying is spread *)
(* over separate statements: the depth of a task is read at the start and  *)
(* stored after its child is made, and an open task of the same title and  *)
(* parent is looked for before the INSERT.  Only the emission, once per    *)
(* task and window, and the planner's transaction are atomic.              *)
(*                                                                         *)
(* Circuits and rate limits have a module of their own, Automation: here   *)
(* an event may stop at any of them.                                       *)
(***************************************************************************)
EXTENDS Naturals, Sequences, FiniteSets

CONSTANTS
    Workers,        \* events that may be processed at the same time
    IdleAgents,     \* agents that may find no task to claim
    MaxDepth,       \* getMaxAutomationDepth
    MaxFollowUps,   \* maxFollowUpDepth
    MaxTasks,       \* bound: tasks
    MaxWindow       \* bound: windows of emissions

VARIABLES
    tasks,      \* the tasks in the order of their creation
    emitted,    \* automation_emissions of this window: tasks with an
                \* investigation, and 0 for the planner
    window,
    worker,     \* the events being processed
    missed,     \* history: a depth was read before it was stored, or never stored
    reopened    \* history: a planner was opened again

vars == <<tasks, emitted, window, worker, missed, reopened>>

Purposes == {"user", "investigate", "rule", "human", "planner"}

\* `gen` and `born` are history: the follow-ups between the task and a user's or
\* a human's, and the window in which an investigation was decided on.
Made(parent, purpose, gen, born) ==
    [open |-> TRUE, parent |-> parent, purpose |-> purpose, depth |-> 0, gen |-> gen,
     born |-> born]

Idle == [pc |-> "idle", task |-> 0, depth |-> 0, purpose |-> "user", child |-> 0, born |-> 0]

TypeOK ==
    /\ Len(tasks) <= MaxTasks
    /\ \A t \in DOMAIN tasks :
          tasks[t] \in [open : BOOLEAN, parent : 0..MaxTasks, purpose : Purposes,
                        depth : 0..MaxTasks, gen : 0..MaxTasks, born : 0..MaxWindow]
    /\ emitted \subseteq 0..MaxTasks
    /\ window \in 0..MaxWindow
    /\ worker \in [Workers -> [pc : {"idle", "examine", "emit", "load", "rules", "duplicate",
                                     "create", "store"},
                               task : 0..MaxTasks, depth : 0..MaxTasks, purpose : Purposes,
                               child : 0..MaxTasks, born : 0..MaxWindow]]
    /\ missed \in BOOLEAN
    /\ reopened \in BOOLEAN

Init ==
    /\ tasks = <<Made(0, "user", 0, 0)>>
    /\ emitted = {}
    /\ window = 0
    /\ worker = [w \in Workers |-> Idle]
    /\ missed = FALSE
    /\ reopened = FALSE

At(w, pc) == worker[w].pc = pc
Become(w, q) == worker' = [worker EXCEPT ![w] = q]
Goto(w, pc) == Become(w, [worker[w] EXCEPT !.pc = pc])
Done(w) == Become(w, Idle)

Room == Len(tasks) < MaxTasks
Insert(task) == Room /\ tasks' = Append(tasks, task)

\* createAutomationEscalateTask, createAutomationReviewTask: to the engine a task
\* like a user's, at depth 0, whose parent nothing asks for.
AskHuman == IF Room THEN Insert(Made(0, "human", 0, 0)) ELSE UNCHANGED tasks

\* The depth read here is used to the end of the event.
ReadDepth(w, pc) ==
    /\ Become(w, [worker[w] EXCEPT !.pc = pc, !.depth = tasks[worker[w].task].depth])
    /\ missed' = (missed \/ \E v \in Workers : worker[v].child = worker[w].task)

-----------------------------------------------------------------------------
(* Events.                                                                 *)

\* An event about a task: a failure, or any other kind rules are made for.
Receive(w, t, failure) ==
    /\ At(w, "idle")
    /\ Become(w, [Idle EXCEPT !.pc = IF failure THEN "examine" ELSE "load", !.task = t])
    /\ UNCHANGED <<tasks, emitted, window, missed, reopened>>

\* processRunFailedEvent: the failure is remembered, and investigated unless the
\* task is an investigation of investigations already.
Examine(w) ==
    /\ At(w, "examine")
    /\ ReadDepth(w, IF tasks[worker[w].task].depth >= MaxFollowUps THEN "load" ELSE "emit")
    /\ UNCHANGED <<tasks, emitted, window, reopened>>

\* Slip: the emission is written whether or not it is there.
EmitUnchecked(w) ==
    /\ At(w, "emit")
    /\ emitted' = emitted \cup {worker[w].task}
    /\ Become(w, [worker[w] EXCEPT !.pc = "duplicate", !.purpose = "investigate",
                                   !.born = window])
    /\ UNCHANGED <<tasks, window, missed, reopened>>

\* TryRecordEmission, once per task and window.
Emit(w) ==
    /\ At(w, "emit")
    /\ IF worker[w].task \in emitted
       THEN Goto(w, "load") /\ UNCHANGED emitted
       ELSE /\ emitted' = emitted \cup {worker[w].task}
            /\ Become(w, [worker[w] EXCEPT !.pc = "duplicate", !.purpose = "investigate",
                                           !.born = window])
    /\ UNCHANGED <<tasks, window, missed, reopened>>

\* Slip: the limit is off by one.
LoadDeeper(w) ==
    /\ At(w, "load")
    /\ IF tasks[worker[w].task].depth > MaxDepth
       THEN AskHuman /\ Done(w) /\ UNCHANGED missed
       ELSE ReadDepth(w, "rules") /\ UNCHANGED tasks
    /\ UNCHANGED <<emitted, window, reopened>>

\* Then come the rules, unless their follow-ups would be too deep.
Load(w) ==
    /\ At(w, "load")
    /\ IF tasks[worker[w].task].depth + 1 > MaxDepth
       THEN AskHuman /\ Done(w) /\ UNCHANGED missed
       ELSE ReadDepth(w, "rules") /\ UNCHANGED tasks
    /\ UNCHANGED <<emitted, window, reopened>>

\* A rate limit refuses and a human is asked, a policy refuses, or the next rule
\* has its turn: its follow-up has a title and a parent to look for, or lacks one.
ApplyRule(w) ==
    /\ At(w, "rules")
    /\ \/ AskHuman /\ Done(w)
       \/ Done(w) /\ UNCHANGED tasks
       \/ /\ \E pc \in {"duplicate", "create"} :
                Become(w, [worker[w] EXCEPT !.pc = pc, !.purpose = "rule"])
          /\ UNCHANGED tasks
    /\ UNCHANGED <<emitted, window, missed, reopened>>

-----------------------------------------------------------------------------
(* Follow-ups.                                                             *)

\* On from a follow-up to the rules, or to the next rule.
After(w) ==
    [Idle EXCEPT !.pc = IF worker[w].purpose = "investigate" THEN "load" ELSE "rules",
                 !.task = worker[w].task,
                 !.depth = IF worker[w].purpose = "investigate" THEN 0 ELSE worker[w].depth]

\* isFollowUpDuplicate: an open task of the same parent and title.
CheckDuplicate(w) ==
    /\ At(w, "duplicate")
    /\ IF \E t \in DOMAIN tasks : /\ tasks[t].open
                                  /\ tasks[t].parent = worker[w].task
                                  /\ tasks[t].purpose = worker[w].purpose
       THEN Become(w, After(w))
       ELSE Goto(w, "create")
    /\ UNCHANGED <<tasks, emitted, window, missed, reopened>>

\* CreateTaskV2WithMeta: the row starts at depth 0.
Create(w) ==
    /\ At(w, "create")
    /\ LET parent == worker[w].task IN
         Insert(Made(parent, worker[w].purpose, tasks[parent].gen + 1, worker[w].born))
    /\ Become(w, [worker[w] EXCEPT !.pc = "store", !.child = Len(tasks) + 1])
    /\ UNCHANGED <<emitted, window, missed, reopened>>

\* The task could not be written; a circuit that opens asks for a human.
CreateFails(w) ==
    /\ At(w, "create")
    /\ Become(w, After(w))
    /\ UNCHANGED tasks \/ (worker[w].purpose = "rule" /\ AskHuman)
    /\ UNCHANGED <<emitted, window, missed, reopened>>

\* setTaskAutomationDepth, a statement of its own, ...
StoreDepth(w) ==
    /\ At(w, "store")
    /\ tasks' = [tasks EXCEPT ![worker[w].child].depth = worker[w].depth + 1]
    /\ Become(w, After(w))
    /\ UNCHANGED <<emitted, window, missed, reopened>>

\* ... whose failure is logged.
StoreFails(w) ==
    /\ At(w, "store")
    /\ Become(w, After(w))
    /\ missed' = TRUE
    /\ UNCHANGED <<tasks, emitted, window, reopened>>

-----------------------------------------------------------------------------
(* The idle planner.                                                       *)

PlannerOpen == \E t \in DOMAIN tasks : tasks[t].purpose = "planner" /\ tasks[t].open

\* Slip: the emission alone keeps a second planner away.
SpawnOncePerWindow ==
    /\ 0 \notin emitted
    /\ Insert(Made(0, "planner", 0, 0))
    /\ emitted' = emitted \cup {0}
    /\ UNCHANGED <<window, worker, missed, reopened>>

\* spawnIdlePlannerTx: an agent found no task to claim.  When a planner is open
\* the emission is rolled back.
SpawnIdlePlanner ==
    /\ 0 \notin emitted
    /\ ~PlannerOpen
    /\ Insert(Made(0, "planner", 0, 0))
    /\ emitted' = emitted \cup {0}
    /\ UNCHANGED <<window, worker, missed, reopened>>

-----------------------------------------------------------------------------
(* The rest of the system.                                                 *)

\* A follow-up or a planner leaves its open statuses; of other tasks nothing
\* asks for it.
Finish(t) ==
    /\ tasks[t].open
    /\ tasks[t].purpose \in {"investigate", "rule", "planner"}
    /\ tasks' = [tasks EXCEPT ![t].open = FALSE]
    /\ UNCHANGED <<emitted, window, worker, missed, reopened>>

\* A planner is put back among the open tasks.
Reopen(t) ==
    /\ ~tasks[t].open
    /\ tasks[t].purpose = "planner"
    /\ tasks' = [tasks EXCEPT ![t].open = TRUE]
    /\ reopened' = TRUE
    /\ UNCHANGED <<emitted, window, worker, missed>>

NextWindow ==
    /\ window < MaxWindow
    /\ window' = window + 1
    /\ emitted' = {}
    /\ UNCHANGED <<tasks, worker, missed, reopened>>

\* The server stops; an emission stays, with or without its task.
Crash ==
    /\ worker' = [w \in Workers |-> Idle]
    /\ missed' = (missed \/ \E w \in Workers : worker[w].child # 0)
    /\ UNCHANGED <<tasks, emitted, window, reopened>>

Next ==
    \/ \E w \in Workers :
          \/ \E t \in DOMAIN tasks, failure \in BOOLEAN : Receive(w, t, failure)
          \/ Examine(w) \/ Emit(w) \/ Load(w) \/ ApplyRule(w) \/ CheckDuplicate(w)
          \/ Create(w) \/ CreateFails(w) \/ StoreDepth(w) \/ StoreFails(w)
    \/ \E t \in DOMAIN tasks : Finish(t) \/ Reopen(t)
    \/ \E a \in IdleAgents : SpawnIdlePlanner
    \/ NextWindow \/ Crash

Spec == Init /\ [][Next]_vars

-----------------------------------------------------------------------------
(* Properties.                                                             *)

\* As long as every depth is stored before it is read, chains of follow-ups end:
\* those of rules at MaxDepth, investigations of failed investigations at
\* MaxFollowUps, and mixed ones at whichever comes first.
ChainsEnd ==
    ~missed =>
        \A t \in DOMAIN tasks :
            /\ tasks[t].purpose = "rule" => tasks[t].gen <= MaxDepth
            /\ tasks[t].purpose = "investigate" => tasks[t].gen <= MaxFollowUps

\* However many failures of a task are processed at once, and whether or not an
\* earlier investigation is finished, no two come from the same window.
InvestigationsApart ==
    \A t, u \in DOMAIN tasks :
        /\ t < u /\ tasks[t].parent = tasks[u].parent
        /\ tasks[t].purpose = "investigate" /\ tasks[u].purpose = "investigate"
        => tasks[t].born # tasks[u].born

\* Agents that find nothing to do get one planner between them, unless someone
\* opens an old one again.
OnePlanner ==
    ~reopened =>
        Cardinality({t \in DOMAIN tasks : tasks[t].purpose = "planner" /\ tasks[t].open}) <= 1
=============================================================================

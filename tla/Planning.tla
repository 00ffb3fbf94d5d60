------------------------------ MODULE Planning ------------------------------
(***************************************************************************)
(* The planning pipeline of one project.  A cycle, started by a request or *)
(* by the ticker, reads the planning_state row, records itself under the   *)
(* row's count plus one, looks at tasks and workstreams, ranks what to do, *)
(* creates tasks and writes back the row it read, counted up.  Nothing is  *)
(* locked and the interval between cycles is only kept from the end of one *)
(* to the start of the next, so cycles may overlap each other and requests.*)
(*                                                                         *)
(* Scores, summaries and the wording of tasks are left out; a task is      *)
(* known by the title that decides whether it is proposed again.  No       *)
(* executor is configured, so every stage is the heuristic one.            *)
(***************************************************************************)
EXTENDS Naturals, Sequences, FiniteSets, SequencesExt

CONSTANTS
    Planners,   \* who may run a cycle: the ticker, and requests
    Editors,    \* requests that edit the planning state
    Modes,      \* planning modes in use
    Streams,    \* workstreams that may be created
    Statuses,   \* statuses requests give them
    NextOf,     \* what_next of each, "" for none; seeded ones have it in common
    Padded,     \* those whose what_next an edit has left with space around it
    Goals,      \* goals of the project, in order
    GoalsOf,    \* the goals the title or description of a workstream names
    Listed,     \* how many tasks a listing returns, the newest: 100
    MaxCycles,  \* bound: cycles started
    MaxTasks    \* bound: tasks of the project

VARIABLES
    row,        \* the planning_state row, or NoRow
    numbers,    \* numbers of the rows of planning_cycles
    started,    \* cycles started so far
    streams,    \* status of each workstream
    tasks,      \* the tasks in the order of their creation, those of other projects too
    gone,       \* those that are in another project now, or deleted
    planner,    \* the cycles under way
    editor,     \* the rows that edits have read
    overlapped, \* history: two cycles were once under way together
    moved,      \* history: tasks that were once elsewhere
    blind       \* history: cycles that could not read which tasks there are

vars ==
    <<row, numbers, started, streams, tasks, gone, planner, editor, overlapped, moved, blind>>

NoRow == [mode |-> "none", count |-> 0, last |-> "never"]
FreshRow == [mode |-> "standard", count |-> 0, last |-> "never"]
Idle == [pc |-> "idle", cycle |-> 0, row |-> NoRow, failed |-> 0, agents |-> FALSE,
         scored |-> [s \in Streams |-> "none"], todo |-> <<>>]

Open == {"active", "paused"}
StreamStatuses == Statuses \cup {"none", "active", "deleted"}
Failures(n) == <<"failures", n>>
AgentsTitle == <<"agents", 0>>
NextTitle(s) == <<IF s \in Padded THEN "padded" ELSE "next", NextOf[s]>>
NoTitle == <<"next", "">>

\* CreateTaskV2WithMeta trims the title; creating a workstream trims what_next,
\* editing one does not.
Trimmed(title) ==
    IF title \in {NextTitle(s) : s \in Padded} THEN <<"next", title[2]>> ELSE title
LosePadding == {Trimmed(NextTitle(s)) : s \in Padded}

Titles == {Failures(n) : n \in 1..MaxTasks} \cup {NextTitle(s) : s \in Streams}
            \cup {<<"goal", g>> : g \in ToSet(Goals)} \cup {AgentsTitle, <<"user", 0>>}
            \cup LosePadding
Rows == [mode : Modes \cup {"none", "standard"}, count : 0..MaxCycles,
         last : {"never", "just now", "this hour", "long ago"}]

TypeOK ==
    /\ row \in Rows
    /\ numbers \subseteq 1..MaxCycles
    /\ started \in 0..MaxCycles
    /\ streams \in [Streams -> StreamStatuses]
    /\ Len(tasks) <= MaxTasks
    /\ \A i \in DOMAIN tasks : tasks[i] \in [title : Titles, cycle : 0..MaxCycles,
                                             status : {"QUEUED", "FAILED", "SUCCEEDED"}]
    /\ \A p \in Planners :
          /\ planner[p].pc \in {"idle", "recon", "scores", "write", "rank", "propose",
                                "create", "count"}
          /\ planner[p].row \in Rows
          /\ planner[p].failed \in 0..MaxTasks
          /\ planner[p].scored \in [Streams -> StreamStatuses]
          /\ ToSet(planner[p].todo) \subseteq Titles
    /\ editor \in [Editors -> Rows]
    /\ overlapped \in BOOLEAN
    /\ gone \subseteq moved /\ moved \subseteq DOMAIN tasks
    /\ blind \subseteq 0..MaxCycles

Init ==
    /\ row = NoRow
    /\ numbers = {}
    /\ started = 0
    /\ streams = [s \in Streams |-> "none"]
    /\ tasks = <<[title |-> <<"user", 0>>, cycle |-> 0, status |-> "QUEUED"]>>
    /\ planner = [p \in Planners |-> Idle]
    /\ editor = [e \in Editors |-> NoRow]
    /\ overlapped = FALSE
    /\ gone = {}
    /\ moved = {}
    /\ blind = {}

At(p, pc) == planner[p].pc = pc
Become(p, q) == planner' = [planner EXCEPT ![p] = q]

\* The newest n tasks of the project: ListTasksV2 by created_at.
Newest(n) ==
    LET here == (DOMAIN tasks) \ gone
    IN  {i \in here : Cardinality({j \in here : j > i}) < n}
Count(listed, status) == Cardinality({i \in listed : tasks[i].status = status})

\* The loop that leaves out what is in S: SelectSeq, written so that a proof can
\* follow it.
Without(seq, S) ==
    LET kept[i \in 0..Len(seq)] ==
          IF i = 0 THEN <<>>
          ELSE IF seq[i] \in S THEN kept[i - 1] ELSE Append(kept[i - 1], seq[i])
    IN  kept[Len(seq)]

-----------------------------------------------------------------------------
(* Modes.                                                                  *)

MaxTasksPerCycle(mode) ==
    CASE mode = "focused" -> 2 [] mode = "recovery" -> 5 [] mode = "maintenance" -> 1
      [] OTHER -> 3
PrioritizesFailures(mode) == mode \in {"recovery", "maintenance"}
AllowsNewWorkstreams(mode) == mode \notin {"focused", "recovery", "maintenance"}

-----------------------------------------------------------------------------
(* A cycle.                                                                *)

\* GetOrCreatePlanningState; of two that create the row one fails and is gone.
FoundRow == IF row = NoRow THEN FreshRow ELSE row

\* The check of the interval, and the row of planning_cycles.
Start(p) ==
    /\ At(p, "idle")
    /\ FoundRow.last # "just now"
    /\ started < MaxCycles
    /\ started' = started + 1
    /\ row' = FoundRow
    /\ numbers' = numbers \cup {FoundRow.count + 1}
    /\ Become(p, [Idle EXCEPT !.pc = "recon", !.cycle = started + 1,
                          !.row = [FoundRow EXCEPT !.last = "never"]])
    /\ overlapped' = (overlapped \/ \E q \in Planners : ~At(q, "idle"))
    /\ UNCHANGED <<streams, tasks, gone, editor, moved, blind>>

\* What the ticker looks at first: a row, the hour of maintenance mode, and no
\* queued task, too many failures or workstreams that may all be stalled.
Wanted ==
    /\ row # NoRow
    /\ row.mode = "maintenance" /\ row.count > 0 => row.last \in {"never", "long ago"}
    /\ \/ Count(Newest(Listed), "QUEUED") = 0
       \/ Count(Newest(Listed), "FAILED") > Count(Newest(Listed), "SUCCEEDED")
       \/ \E s \in Streams : streams[s] = "active"

\* Stage 0; when it fails the cycle is closed and not counted.
Recon(p) ==
    /\ At(p, "recon")
    /\ \/ \E agents \in BOOLEAN :
             Become(p, [planner[p] EXCEPT !.pc = "scores", !.agents = agents,
                                          !.failed = Count(Newest(1000), "FAILED")])
       \/ Become(p, Idle)
    /\ UNCHANGED <<row, numbers, started, streams, tasks, gone, editor, overlapped, moved, blind>>

\* Stage 1 reads the workstreams ...
ReadScores(p) ==
    /\ At(p, "scores")
    /\ Become(p, [planner[p] EXCEPT !.pc = "write", !.scored = streams])
    /\ UNCHANGED <<row, numbers, started, streams, tasks, gone, editor, overlapped, moved, blind>>

\* Slip: UpdateWorkstream as an upsert.
Rewritten(s, scored) == IF scored[s] \in Open THEN scored[s] ELSE streams[s]

\* UpdateWorkstream writes the row as it was read, where there still is one.
Written(s, scored) ==
    IF scored[s] \in Open /\ streams[s] # "deleted" THEN scored[s] ELSE streams[s]

\* ... and writes back those that were open, with new scores.
WriteScores(p) ==
    /\ At(p, "write")
    /\ streams' = [s \in Streams |-> Written(s, planner[p].scored)]
    /\ Become(p, [planner[p] EXCEPT !.pc = "rank", !.scored = Idle.scored])
    /\ UNCHANGED <<row, numbers, started, tasks, gone, editor, overlapped, moved, blind>>

\* Stage 2: goals no active workstream covers, and failed tasks.
Gaps(failed, active) ==
    LET covered == UNION {GoalsOf[s] : s \in active}
        open == Without(Goals, covered)
    IN [i \in DOMAIN open |-> <<"goal", open[i]>>]
         \o (IF failed > 0 THEN <<Failures(failed)>> ELSE <<>>)

\* Stage 3: critical gaps if the mode says so, open workstreams, all gaps, and
\* idle agents unless the mode allows no new workstream.
Ranked(mode, failed, agents, open, active) ==
    LET urgent == IF PrioritizesFailures(mode) /\ failed > 0 THEN <<Failures(failed)>> ELSE <<>>
        candidates == SetToSeq(open)
        chances == IF agents /\ AllowsNewWorkstreams(mode) THEN <<AgentsTitle>> ELSE <<>>
    IN urgent \o [i \in DOMAIN candidates |-> NextTitle(candidates[i])]
         \o Gaps(failed, active) \o chances

\* Stages 1 and 2 list workstreams, each on its own; what cannot be listed is none.
Rank(p) ==
    /\ At(p, "rank")
    /\ \E open \in {{s \in Streams : streams[s] \in Open}, {}},
          active \in {{s \in Streams : streams[s] = "active"}, {}} :
         LET ranked == Ranked(planner[p].row.mode, planner[p].failed, planner[p].agents,
                              open, active)
         IN Become(p, [planner[p] EXCEPT !.pc = "propose", !.failed = 0, !.agents = FALSE,
                                         !.todo = ranked])
    /\ UNCHANGED <<row, numbers, started, streams, tasks, gone, editor, overlapped, moved, blind>>

First(seq, n) == SubSeq(seq, 1, IF Len(seq) < n THEN Len(seq) ELSE n)

\* Slip: only tasks that are still queued count as duplicates.
Queued == {tasks[i].title : i \in {i \in Newest(Listed) : tasks[i].status = "QUEUED"}}

\* The titles of the listed tasks.
Existing == {tasks[i].title : i \in Newest(Listed)}

\* Stage 4: the first ranks, without titles that there are.  Titles the cycle
\* proposes itself are not looked at.
Proposed(ranked, mode, existing) ==
    Without(First(ranked, MaxTasksPerCycle(mode)), existing \cup {NoTitle})

\* Stage 5 approves all of it.
ProposeBeside(p, existing) ==
    /\ At(p, "propose")
    /\ LET todo == Proposed(planner[p].todo, planner[p].row.mode, existing) IN
         Become(p, [planner[p] EXCEPT !.pc = IF todo = <<>> THEN "count" ELSE "create",
                                      !.todo = todo])
    /\ UNCHANGED <<row, numbers, started, streams, tasks, gone, editor, overlapped, moved>>

Propose(p) == ProposeBeside(p, Existing) /\ UNCHANGED blind

\* The error of the listing is ignored: there seems to be no task.
ProposeBlind(p) == ProposeBeside(p, {}) /\ blind' = blind \cup {planner[p].cycle}

\* createApprovedTasks, one INSERT at a time.
NextToCreate(p) ==
    /\ At(p, "create")
    /\ Become(p, [planner[p] EXCEPT !.pc = IF Len(planner[p].todo) = 1 THEN "count" ELSE "create",
                                    !.todo = Tail(planner[p].todo)])
    /\ UNCHANGED <<row, numbers, started, streams, gone, editor, overlapped, moved, blind>>

Create(p) ==
    /\ Len(tasks) < MaxTasks
    /\ NextToCreate(p)
    /\ tasks' = Append(tasks, [title |-> Trimmed(Head(planner[p].todo)),
                               cycle |-> planner[p].cycle, status |-> "QUEUED"])

\* An INSERT that fails is logged.
CreateFails(p) == NextToCreate(p) /\ UNCHANGED tasks

\* Slip: the count of the row as it is now goes up.
CountedNow(read) == [read EXCEPT !.count = row.count + 1, !.last = "just now"]

\* Stage 6: the row as it was read, counted up; when it cannot be written the cycle
\* is closed and not counted.
Counted(read) == [read EXCEPT !.count = @ + 1, !.last = "just now"]

CountCycle(p) ==
    /\ At(p, "count")
    /\ row' \in {Counted(planner[p].row), row}
    /\ Become(p, Idle)
    /\ UNCHANGED <<numbers, started, streams, tasks, gone, editor, overlapped, moved, blind>>

-----------------------------------------------------------------------------
(* Requests, and the rest of the system.                                   *)

\* POST: the row, and workstreams for the tasks that are open.
Seed(made) ==
    /\ row = NoRow
    /\ made # {} => Count(Newest(Len(tasks)), "QUEUED") > 0
    /\ row' = FreshRow
    /\ streams' = [s \in Streams |-> IF s \in made THEN "active" ELSE streams[s]]
    /\ \A s \in made : streams[s] = "none"
    /\ UNCHANGED <<numbers, started, tasks, gone, planner, editor, overlapped, moved, blind>>

\* PUT reads the row ...
ReadRow(e) ==
    /\ editor[e] = NoRow
    /\ row' = FoundRow
    /\ editor' = [editor EXCEPT ![e] = FoundRow]
    /\ UNCHANGED <<numbers, started, streams, tasks, gone, planner, overlapped, moved, blind>>

\* ... and writes all of it.
WriteRow(e, mode) ==
    /\ editor[e] # NoRow
    /\ row' = [editor[e] EXCEPT !.mode = mode]
    /\ editor' = [editor EXCEPT ![e] = NoRow]
    /\ UNCHANGED <<numbers, started, streams, tasks, gone, planner, overlapped, moved, blind>>

\* POST, PUT and DELETE of a workstream.
EditStream(s, status) ==
    /\ streams[s] # "deleted"
    /\ IF streams[s] = "none" THEN status = "active" /\ row' = FoundRow ELSE UNCHANGED row
    /\ streams' = [streams EXCEPT ![s] = status]
    /\ UNCHANGED <<numbers, started, tasks, gone, planner, editor, overlapped, moved, blind>>

\* Users and rules make tasks too.
CreateOther ==
    /\ Len(tasks) < MaxTasks
    /\ tasks' = Append(tasks, [title |-> <<"user", 0>>, cycle |-> 0, status |-> "QUEUED"])
    /\ UNCHANGED <<row, numbers, started, streams, gone, planner, editor, overlapped, moved, blind>>

\* PATCH project_id moves a task to another project and back, and DELETE ends it there.
Move(i) ==
    /\ gone' = IF i \in gone THEN gone \ {i} ELSE gone \cup {i}
    /\ moved' = moved \cup {i}
    /\ UNCHANGED <<row, numbers, started, streams, tasks, planner, editor, overlapped, blind>>

FinishTask(i, status) ==
    /\ tasks[i].status = "QUEUED"
    /\ tasks' = [tasks EXCEPT ![i].status = status]
    /\ UNCHANGED <<row, numbers, started, streams, gone, planner, editor, overlapped, moved, blind>>

\* Time passes, for the rows that edits have read as well; a cycle does not
\* use what it read of it.
Older(r) == [r EXCEPT !.last = CASE @ = "just now" -> "this hour" [] @ = "this hour" -> "long ago"
                                 [] OTHER -> @]
Elapse ==
    /\ row' = Older(row)
    /\ editor' = [e \in Editors |-> Older(editor[e])]
    /\ UNCHANGED <<numbers, started, streams, tasks, gone, planner, overlapped, moved, blind>>

\* The server stops; what was under way is lost.
Crash ==
    /\ planner' = [p \in Planners |-> Idle]
    /\ editor' = [e \in Editors |-> NoRow]
    /\ UNCHANGED <<row, numbers, started, streams, tasks, gone, overlapped, moved, blind>>

Next ==
    \/ \E p \in Planners :
          \/ p # "ticker" /\ Start(p)
          \/ p = "ticker" /\ Wanted /\ Start(p)
          \/ Recon(p) \/ ReadScores(p) \/ WriteScores(p) \/ Rank(p) \/ Propose(p)
          \/ ProposeBlind(p) \/ Create(p) \/ CreateFails(p) \/ CountCycle(p)
    \/ \E made \in SUBSET Streams : Seed(made)
    \/ \E e \in Editors : ReadRow(e) \/ \E mode \in Modes : WriteRow(e, mode)
    \/ \E s \in Streams, status \in Statuses \cup {"active", "deleted"} : EditStream(s, status)
    \/ \E i \in DOMAIN tasks :
          Move(i) \/ \E status \in {"FAILED", "SUCCEEDED"} : FinishTask(i, status)
    \/ CreateOther \/ Elapse \/ Crash

Spec == Init /\ [][Next]_vars

-----------------------------------------------------------------------------
(* Properties.                                                             *)

\* Cycles that overlap share a number, and so does one that was lost; but no
\* number is ever skipped, whatever is written back late.
NumbersHaveNoGaps == numbers = 1..Cardinality(numbers)

Planned(i) == tasks[i].cycle # 0

\* A title is planned again only by cycles that overlapped, by one that could not read
\* the listing, when the listing is too short to show it, when its task was once moved
\* to another project or deleted, when it lost its padding and is not recognised, or
\* twice by one cycle: for failed tasks, which stand first in the ranking and again
\* among the gaps, or for workstreams with the same what_next.
PlannedOnce ==
    \A i, j \in DOMAIN tasks :
        Planned(i) /\ Planned(j) /\ i < j /\ tasks[i].title = tasks[j].title =>
            \/ overlapped \/ tasks[i].cycle = tasks[j].cycle
            \/ tasks[j].cycle \in blind \/ i \in moved
            \/ j - i > Listed \/ tasks[i].title \in LosePadding

\* A cycle that writes back old rows brings no deleted workstream back.
DeletedStreamsStayDeleted ==
    [][\A s \in DOMAIN streams : streams[s] = "deleted" => streams'[s] = "deleted"]_streams
=============================================================================

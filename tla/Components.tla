----------------------------- MODULE Components -----------------------------
(***************************************************************************)
(* What lies around the lifecycle of a task, side by side: what relates    *)
(* tasks, what clients are shown of them, the agents and the worker, and   *)
(* the rows and tables they rest on.  They share no state.  TaskStream is  *)
(* extended, the others are instantiated, with variables renamed where two *)
(* have the same name.  Clients stands for whoever sends requests to each: *)
(* clients, workers, creators, processes, and completions, each of a task. *)
(***************************************************************************)
EXTENDS TaskStream, FiniteSets, Sequences

CONSTANTS
    \* TaskGraph
    MaxTasks, Workable, MaxLinks,
    \* EventStream
    MaxEvents, Streams, Limit, MaxRows,
    \* Worker; its Tasks are Jobs
    Jobs, Contracted, Ttl, MaxLeft, MaxFailures,
    \* Agents
    Registered, Named, Threshold,
    \* Prompts
    Editors, Contents, MaxVersions,
    \* Migrations
    MaxVersion, Repeatable, MaxRollbacks,
    \* Memories
    Summaries, Errors, UserKeys, MaxMemories, MaxItems

VARIABLES
    \* TaskGraph
    status, parent, deps, unblocked, client, loose,
    \* EventStream; its conn is `link`
    event, announced, subs, link, channel, queue, anchor, first, got, missed,
    \* Worker
    open, lease, worker, quiet, excused, wasted, answered,
    \* Agents
    agents, beats, unused, due, heard, unseen,
    \* Prompts; its excused is `overtaken`
    rows, creator, editor, used, overtaken,
    \* Migrations
    recorded, done, process, rolledBack,
    \* Memories
    memory, finisher, together, unread

Graph == INSTANCE TaskGraph

Events == INSTANCE EventStream WITH conn <- link

Work == INSTANCE Worker WITH Workers <- Clients, Tasks <- Jobs

Agency == INSTANCE Agents

Prompt == INSTANCE Prompts WITH Creators <- Clients, excused <- overtaken

Schema == INSTANCE Migrations WITH Processes <- Clients

Memo == INSTANCE Memories WITH Tasks <- Clients

-----------------------------------------------------------------------------
(* What the parts ask of the constants.                                    *)

\* The worker's names stand for nothing else, and a claim's life fits its bound.
LeasesSound ==
    /\ Work!NoTask \notin Jobs
    /\ "none" \notin Clients /\ Work!Nobody \notin Clients
    /\ Ttl \in Nat \ {0} /\ MaxLeft \in Nat /\ Ttl <= MaxLeft
    /\ MaxFailures \in Nat \ {0}

\* What is numbered is numbered from 1: events, which a replay returns a page of,
\* tasks, versions of prompts and of the schema, whose rollbacks are counted too, as
\* is what an agent is told.
NumbersSound ==
    /\ MaxEvents \in Nat /\ Limit \in Nat
    /\ MaxTasks \in Nat
    /\ MaxVersions \in Nat /\ MaxVersion \in Nat /\ MaxRollbacks \in Nat
    /\ MaxMemories \in Nat /\ MaxItems \in Nat

\* Memories have finitely many keys.
KeysFinite == IsFiniteSet(Memo!Keys)

ASSUME ComponentsAssumption == LeasesSound /\ NumbersSound /\ Threshold \in Nat /\ KeysFinite

-----------------------------------------------------------------------------
(* The parts side by side: each takes its steps, and the others may take   *)
(* theirs in the same one.                                                 *)

ComponentsSideBySide ==
    /\ Spec /\ Graph!Spec /\ Events!Spec /\ Work!Spec /\ Agency!Spec
    /\ Prompt!Spec /\ Schema!Spec /\ Memo!Spec

-----------------------------------------------------------------------------
(* The properties of the parts, under one name each; they are stated, with *)
(* what they say of the code, in the modules.                              *)

\* Every variable of every part keeps to its type and its bounds: edges are between
\* two tasks, channels hold events of the log, and a completion's candidates are of the
\* scopes there are.
AllTypes ==
    /\ TypeOK /\ Graph!TypeOK /\ Events!TypeOK /\ Work!TypeOK /\ Agency!TypeOK
    /\ Prompt!TypeOK /\ Schema!TypeOK /\ Memo!TypeOK

\* Of the task graph: checked edges close no cycle.
AcyclicUnlessLoose == Graph!AcyclicUnlessLoose

\* Of the task graph: the parent chain is the ancestry of a task.
ChainIsTheAncestry == Graph!ChainIsTheAncestry

\* Of the task graph: no new task finds dependencies of a deleted one.
NoInheritedDependencies == Graph!NoInheritedDependencies

\* Of the event stream: subscribers have open channels.
SubscribersAreOpen == Events!SubscribersAreOpen

\* Of the event stream: a client that follows lacks only what is accounted for.
NothingElseMissed == Events!NothingElseMissed

\* Of the worker: no task is executed or reported on twice without a reason.
NoWorkIsWasted == Work!NoWorkIsWasted

\* Of the agents: the two lists tell who was silent.
ListsTellSilence == Agency!ListsTellSilence

\* Of the prompts: at most one version is active.
OneActive == Prompt!OneActive

\* Of the migrations: the table says what was done.
RecordedIsDone == Schema!RecordedIsDone

\* Of the memories: completions that say the same overlapped or could not look.
TwinsOverlapped == Memo!TwinsOverlapped

\* Of the memories: what must be told is the last to go.
MandatoryGoLast == Memo!MandatoryGoLast
=============================================================================

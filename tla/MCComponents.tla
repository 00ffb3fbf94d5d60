---------------------------- MODULE MCComponents ----------------------------
(***************************************************************************)
(* Components on small instances.  A behaviour is one of one part, chosen  *)
(* at the beginning (`part`), and the others stay where they start.  A     *)
(* part is an instance of Components held within bounds of its own, or an  *)
(* instance of the same module with other constants.                       *)
(***************************************************************************)
EXTENDS Components

VARIABLE part

graphVars == <<status, parent, deps, unblocked, client, loose>>
eventVars == <<event, announced, subs, link, channel, queue, anchor, first, got, missed>>
workerVars == <<open, lease, worker, quiet, excused, wasted, answered>>
agentVars == <<agents, beats, unused, due, heard, unseen>>
promptVars == <<rows, creator, editor, used, overtaken>>
migrationVars == <<recorded, done, process, rolledBack>>
memoryVars == <<memory, finisher, together, unread>>

allVars == <<part, vars, graphVars, eventVars, workerVars, agentVars, promptVars,
             migrationVars, memoryVars>>

One == {CHOOSE c \in Clients : TRUE}

MCUserKeys ==
    ({"completion"} \X (One \cup {"a"})) \cup ({"constraint"} \X {"a", "b", "c"})

-----------------------------------------------------------------------------
(* Instances with other constants, and what a part is held to.             *)

\* Three tasks and their deletion, one request in flight at a time.
Deletions == INSTANCE TaskGraph WITH Workable <- {}

OneRequest == \A c \in Clients \ One : client'[c] = client[c]

\* Two tasks, one of which may be done, and two requests at a time.
Race == INSTANCE TaskGraph WITH MaxLinks <- 2

TwoTasks ==
    /\ \A t \in 3..MaxTasks : status'[t] = "ABSENT"
    /\ \A t \in Graph!Tasks : parent'[t] <= 2
    /\ \A c \in Clients : client'[c].todo \subseteq 1..2 /\ client'[c].other <= 2

-----------------------------------------------------------------------------

Parts == {"stream", "graph", "race", "events", "worker", "agents",
          "creations", "revisions", "schema", "twins", "budget"}

AllInit ==
    /\ part \in Parts
    /\ Init
    /\ Graph!Init
    /\ Events!Init
    /\ Work!Init
    /\ Agency!Init
    /\ Prompt!Init
    /\ Schema!Init
    /\ Memo!Init

StreamNext ==
    /\ part = "stream" /\ Next
    /\ UNCHANGED <<part, graphVars, eventVars, workerVars, agentVars,
                   promptVars, migrationVars, memoryVars>>

GraphNext ==
    /\ \/ part = "graph" /\ Deletions!Next /\ OneRequest
       \/ part = "race" /\ Race!Next /\ TwoTasks
    /\ UNCHANGED <<part, vars, eventVars, workerVars, agentVars, promptVars,
                   migrationVars, memoryVars>>

EventNext ==
    /\ part = "events" /\ Events!Next
    /\ UNCHANGED <<part, vars, graphVars, workerVars, agentVars, promptVars,
                   migrationVars, memoryVars>>

WorkerNext ==
    /\ part = "worker" /\ Work!Next
    /\ UNCHANGED <<part, vars, graphVars, eventVars, agentVars, promptVars,
                   migrationVars, memoryVars>>

AgentNext ==
    /\ part = "agents" /\ Agency!Next
    /\ UNCHANGED <<part, vars, graphVars, eventVars, workerVars, promptVars,
                   migrationVars, memoryVars>>

\* Requests that create versions of one text, and one of them beside an edit.
PromptNext ==
    /\ part \in {"creations", "revisions"}
    /\ Prompt!Next
    /\ part = "creations" =>
          editor' = editor /\ \A v \in DOMAIN rows' : rows'[v].content = "text"
    /\ part = "revisions" =>
          /\ \A c \in Clients \ One : creator'[c] = creator[c]
          /\ \A c \in One : creator'[c].version < MaxVersions
    /\ UNCHANGED <<part, vars, graphVars, eventVars, workerVars, agentVars,
                   migrationVars, memoryVars>>

MigrationNext ==
    /\ part = "schema" /\ Schema!Next
    /\ UNCHANGED <<part, vars, graphVars, eventVars, workerVars, agentVars,
                   promptVars, memoryVars>>

\* Completions beside a key of one of them, and one of them beside all other keys.
MemoryNext ==
    /\ part \in {"twins", "budget"}
    /\ Memo!Next
    /\ part = "twins" => \A k \in UserKeys \ ({"completion"} \X One) : memory'[k] = memory[k]
    /\ part = "budget" =>
          /\ \A t \in Clients \ One : finisher'[t] = finisher[t]
          /\ \A k \in ({"failure_pattern"} \X Errors) \cup ({"completion"} \X One) :
                memory'[k].by \notin {"user", "failure"}
    /\ UNCHANGED <<part, vars, graphVars, eventVars, workerVars, agentVars,
                   promptVars, migrationVars>>

AllNext ==
    \/ StreamNext \/ GraphNext \/ EventNext \/ WorkerNext
    \/ AgentNext \/ PromptNext \/ MigrationNext \/ MemoryNext

AllSpec == AllInit /\ [][AllNext]_allVars /\ Fairness

=============================================================================

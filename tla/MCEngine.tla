------------------------------ MODULE MCEngine ------------------------------
(***************************************************************************)
(* Engine on small instances.  A behaviour is one of one part, chosen at   *)
(* the beginning (`part`), and the others stay where they start.  A part   *)
(* is an instance of Engine held within bounds of its own, or an instance  *)
(* of the same module with other constants.  A window of n ticks holds     *)
(* n + 1 ages.                                                             *)
(***************************************************************************)
EXTENDS Engine, TLC

MCLimit == [hour |-> 2, minute |-> 1]
MCSpan == [hour |-> 2, minute |-> 0]

\* Two rate limits; a quota, hours, and a block that is edited.
MCRuleOf == <<[type |-> "rate_limit", limit |-> 1, window |-> 2],
              [type |-> "rate_limit", limit |-> 2, window |-> 1],
              [type |-> "resource_quota", limit |-> 1],
              [type |-> "time_window", from |-> 2, to |-> 1],
              [type |-> "task.create.block"]>>

MCGoals == <<"g">>
MCGoalsOf == [s \in Streams |-> {}]
MCNextOf == [s \in Streams |-> "continue"]

Symmetry == Permutations(Workers) \cup Permutations(Rules)

VARIABLE part

policyVars == <<policy, hits, now, counted, request, made, outside, passed>>
planningVars ==
    <<row, numbers, started, streams, planned, gone, planner, editor, overlapped, moved, blind>>
followVars == <<tasks, emitted, window, follower, misread, reopened>>
knowledgeVars == <<disk, listed, stale, current, scanEmitted, scans, clean, excused>>

allVars == <<part, vars, policyVars, planningVars, followVars, knowledgeVars>>

-----------------------------------------------------------------------------
(* Instances with other constants, and what a part is held to.             *)

\* Only planner p runs, no row is edited, and workstreams stay as they are.
OnlyPlanner(p) == \A q \in Planners \ {p} : planner'[q] = planner[q]
Uneventful == editor' = editor /\ streams' = streams

\* The ticker and a request plan for a goal.
Cycles == INSTANCE Planning WITH MaxTasks <- 2, tasks <- planned

\* One planner, an edit of the row, and a workstream that comes and goes, with a padded
\* what_next.
Edits == INSTANCE Planning WITH
    Goals <- <<>>, MaxCycles <- 2, MaxTasks <- 3, tasks <- planned

\* One planner after the other for a goal, with more cycles than titles and more tasks
\* than a listing shows.
Repeats == INSTANCE Planning WITH MaxCycles <- 2, MaxTasks <- MaxPlanned, tasks <- planned

\* The first planned task is moved, or one listing not read, and early tasks end.
FewSurprises ==
    /\ moved' \subseteq {2} /\ Cardinality(moved') + Cardinality(blind') <= 1
    /\ \A i \in DOMAIN planned' \ {1, 2} : planned'[i].status = "QUEUED"
\* Every listing is read, and tasks stay.
AllListed == moved' = moved /\ blind' = blind

\* One event is processed at a time, or none.
OneEvent == \A v, w \in Workers : v # w => Follow!Idle \in {follower'[v], follower'[w]}
NoEvent == follower' = follower

\* One failure after the other, across windows.
Chains == INSTANCE FollowUps WITH
    IdleAgents <- {}, MaxTasks <- MaxMade, MaxWindow <- 1, missed <- misread, worker <- follower

\* Two failures at a time.
Failures == INSTANCE FollowUps WITH
    IdleAgents <- {}, MaxDepth <- 0, MaxFollowUps <- 1, MaxTasks <- MaxMade, MaxWindow <- 0,
    missed <- misread, worker <- follower

\* Chains alone write rows, the disk changes beside them, and they end with the rows.
ChainsAlone ==
    /\ scans' = scans => listed' = listed
    /\ Know!AllIdle => disk' = disk
    /\ \A w \in Workers : scans'[w].pc # "mark"

\* One chain at a time, whose walk reads one row and drops no other.
Short == INSTANCE Knowledge WITH
    MaxRows <- 1, Tasks <- Packed, emitted <- scanEmitted, worker <- scans
OneChain == \A v, w \in Workers : v # w => Know!Idle \in {scans'[v], scans'[w]}

-----------------------------------------------------------------------------

Parts == {"gates", "limits", "windows", "quotas", "cycles", "edits", "repeats", "chains",
          "failures", "planner", "files", "rows", "packs"}

\* Limits are the first two policies, the second of them alone for longer; and the last
\* policy comes and goes beside a quota.
PoliciesAtFirst ==
    LET on == CASE part = "quotas" -> {3, 4} [] part = "windows" -> {2} [] OTHER -> {1, 2}
    IN [p \in Policies |-> IF p \in on THEN "on" ELSE "absent"]

EngineInit ==
    /\ part \in Parts
    /\ Init
    /\ policy = PoliciesAtFirst /\ Policy!Init
    /\ Plan!Init
    /\ Follow!Init
    /\ part \notin {"files", "rows"} => disk = {}
    /\ Know!Init

GatesNext ==
    /\ part = "gates" /\ Next
    /\ UNCHANGED <<part, policyVars, planningVars, followVars, knowledgeVars>>

PolicyNext ==
    /\ part \in {"limits", "windows", "quotas"}
    /\ Policy!Next
    /\ part # "quotas" => outside' = 0 /\ counted' >= counted /\ policy' = policy
    /\ part = "limits" => made' <= 4
    /\ part = "windows" => now' <= 2
    /\ part = "quotas" => now' <= 1 /\ made' <= 3
    /\ UNCHANGED <<part, vars, planningVars, followVars, knowledgeVars>>

\* Beside edits, others create no task and end none but the first.
PlanningNext ==
    /\ \/ part = "cycles" /\ Cycles!Next /\ Uneventful /\ AllListed
       \/ part = "edits" /\ Edits!Next /\ OnlyPlanner("request") /\ AllListed
       \/ part = "repeats" /\ Repeats!Next /\ OnlyPlanner("ticker") /\ Uneventful /\ FewSurprises
    /\ part = "edits" =>
          \A i \in DOMAIN planned' \ {1} :
              planned'[i].cycle # 0 /\ planned'[i].status = "QUEUED"
    /\ UNCHANGED <<part, vars, policyVars, followVars, knowledgeVars>>

FollowNext ==
    /\ \/ part = "chains" /\ Chains!Next /\ OneEvent
       \/ part = "failures" /\ Failures!Next
       \/ part = "planner" /\ Follow!Next /\ NoEvent
    /\ UNCHANGED <<part, vars, policyVars, planningVars, knowledgeVars>>

\* Chains alone write rows and there are no packs to make; anyone does beside one chain;
\* and packs with no files on disk.
KnowledgeNext ==
    /\ \/ part = "files" /\ Know!Next /\ ChainsAlone
       \/ part = "rows" /\ Short!Next /\ OneChain
       \/ part = "packs" /\ Know!Next
    /\ part # "packs" => stale' = stale /\ \A w \in Workers : scans'[w].todo = {}
    /\ part = "packs" => disk' = {} /\ listed' = {}
    /\ UNCHANGED <<part, vars, policyVars, planningVars, followVars>>

EngineNext == GatesNext \/ PolicyNext \/ PlanningNext \/ FollowNext \/ KnowledgeNext

EngineSpec == EngineInit /\ [][EngineNext]_allVars

=============================================================================

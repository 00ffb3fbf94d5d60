------------------------------- MODULE Engine -------------------------------
(***************************************************************************)
(* What decides and acts on its own behind the handlers, side by side: the *)
(* gates of the automation engine, the follow-up tasks behind them, the    *)
(* policies, the planning pipeline and the workers that keep what is known *)
(* of a project.  They share no state.  Automation is extended, the others *)
(* are instantiated, with variables renamed where two have the same name.  *)
(* Workers stands for events, requests and chains under way in each.       *)
(***************************************************************************)
EXTENDS Automation, FiniteSets

CONSTANTS
    \* PolicyEngine; its Clients are Workers
    Policies, RuleOf, Editable, MaxTime, MaxRequests, MaxOutside,
    \* Planning; its MaxTasks is MaxPlanned
    Planners, Editors, Modes, Streams, Statuses, NextOf, Padded, Goals, GoalsOf,
    Listed, MaxCycles, MaxPlanned,
    \* FollowUps; its MaxTasks is MaxMade
    IdleAgents, MaxDepth, MaxFollowUps, MaxMade, MaxWindow,
    \* Knowledge; its Tasks are Packed
    Paths, Hidden, Ignored, MaxFiles, MaxRows, Packed

VARIABLES
    \* PolicyEngine; its tasks are `counted`
    policy, hits, now, counted, request, made, outside, passed,
    \* Planning; its tasks are `planned`
    row, numbers, started, streams, planned, gone, planner, editor, overlapped, moved, blind,
    \* FollowUps; its worker is `follower`, its missed `misread`
    tasks, emitted, window, follower, misread, reopened,
    \* Knowledge; its worker is `scans`, its emitted `scanEmitted`
    disk, listed, stale, current, scanEmitted, scans, clean, excused

Policy == INSTANCE PolicyEngine WITH Clients <- Workers, tasks <- counted

Plan == INSTANCE Planning WITH MaxTasks <- MaxPlanned, tasks <- planned

Follow == INSTANCE FollowUps WITH MaxTasks <- MaxMade, missed <- misread, worker <- follower

Know == INSTANCE Knowledge WITH Tasks <- Packed, emitted <- scanEmitted, worker <- scans

-----------------------------------------------------------------------------
(* What the parts ask of the constants.                                    *)

\* Policies are numbered in the order they are evaluated in, and are no more than the
\* middleware lists (auth.go:349).
PoliciesNumbered ==
    /\ Policies \subseteq Nat
    /\ IsFiniteSet(Policies) /\ Cardinality(Policies) <= 100

\* Requests are finitely many, and a quota is of one task at least: a rule whose
\* max_count is not positive is none (policy.go:261-264).  A rate limit has a limit and
\* a window, or is none (policy.go:179-189).
QuotasSound ==
    /\ IsFiniteSet(Workers) /\ Workers # {} /\ MaxTime \in Nat
    /\ \A p \in Policies : Policy!Type(p) = "rate_limit" =>
          RuleOf[p].limit \in Nat \ {0} /\ RuleOf[p].window \in Nat
    /\ \A p \in Policies : Policy!Type(p) = "resource_quota" => RuleOf[p].limit \in Nat \ {0}

\* The limits of follow-ups are numbers.
LimitsSound == MaxDepth \in Nat /\ MaxFollowUps \in Nat

\* Workstreams are finitely many, goals are texts, and a listing has a length.
PlansSound == IsFiniteSet(Streams) /\ Goals \in Seq(STRING) /\ Listed \in Nat

\* Packs and the workers that write them are told apart.
PacksApart == Workers \cap Packed = {}

\* What is counted has a bound; a project has a task to begin with.
BoundsSound ==
    /\ MaxRequests \in Nat /\ MaxOutside \in Nat
    /\ MaxCycles \in Nat /\ MaxPlanned \in Nat \ {0}
    /\ MaxMade \in Nat \ {0} /\ MaxWindow \in Nat

ASSUME EngineAssumption ==
    /\ PoliciesNumbered /\ QuotasSound /\ LimitsSound /\ PlansSound /\ PacksApart
    /\ BoundsSound

-----------------------------------------------------------------------------
(* The parts side by side: each takes its steps, and the others may take   *)
(* theirs in the same one.                                                 *)

EngineSideBySide == Spec /\ Policy!Spec /\ Plan!Spec /\ Follow!Spec /\ Know!Spec

-----------------------------------------------------------------------------
(* The properties of the parts, under one name each; they are stated, with *)
(* what they say of the code, in the modules.                              *)

\* Every variable of every part keeps to its type and its bounds: tasks under way to
\* the requests made, cycle numbers to the cycles started, depths and generations of
\* follow-ups to the tasks there are.
EngineTypes == TypeOK /\ Policy!TypeOK /\ Plan!TypeOK /\ Follow!TypeOK /\ Know!TypeOK

\* Of the policy engine: the limit with the shortest window holds.
ShortestWindowKept == Policy!ShortestWindowKept

\* Of the policy engine: quotas hold up to the requests in flight and what is not counted.
QuotaOverrunBounded == Policy!QuotaOverrunBounded

\* Of the policy engine: no task is created under a block.
BlocksAreRespected == Policy!BlocksAreRespected

\* Of the planning pipeline: cycle numbers have no gaps.
NumbersHaveNoGaps == Plan!NumbersHaveNoGaps

\* Of the planning pipeline: a cycle plans again only what it could not see.
PlannedOnce == Plan!PlannedOnce

\* Of the planning pipeline: a deleted workstream stays deleted.
DeletedStreamsStayDeleted == Plan!DeletedStreamsStayDeleted

\* Of follow-up tasks: chains of them end.
ChainsEnd == Follow!ChainsEnd

\* Of follow-up tasks: one investigation of a task in each window.
InvestigationsApart == Follow!InvestigationsApart

\* Of follow-up tasks: idle agents get one planner.
OnePlanner == Follow!OnePlanner

\* Of the scans: the rows end as the last walk sees the disk.
ScansSettle == Know!ScansSettle

\* Of the context packs: one that passes for fresh is current.
FreshPacksAreCurrent == Know!FreshPacksAreCurrent
=============================================================================

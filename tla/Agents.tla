------------------------------- MODULE Agents -------------------------------
(***************************************************************************)
(* The rows of agents, and the job that marks silent ones OFFLINE.  A row  *)
(* comes with a registration, under a new id and without a last_seen, or   *)
(* with the first claim under an id of the client's choice.  A heartbeat   *)
(* looks the row up in one statement and writes it in another.             *)
(*                                                                         *)
(* A tick is the job's period of five minutes.  Names, capabilities and    *)
(* metadata are left out: nothing decides on them.                         *)
(***************************************************************************)
EXTENDS Naturals

CONSTANTS
    Registered,     \* ids the server may make up
    Named,          \* ids clients claim under
    Threshold       \* ticks of silence that make an agent stale

Ids == Registered \cup Named
NoRow == [status |-> "none", seen |-> 0]
Never == Threshold + 2      \* last_seen is NULL, or as long ago as matters
Later(n) == IF n < Never THEN n + 1 ELSE Never

VARIABLES
    agents,     \* the row of each agent: status, ticks since last_seen
    beats,      \* heartbeats that have found their row
    unused,     \* ids not made up yet
    due,        \* the job has not done its work since the last tick
    heard,      \* history: ticks since a request of each agent was answered
    unseen      \* history: those whose last answered request left no mark in the row

vars == <<agents, beats, unused, due, heard, unseen>>

TypeOK ==
    /\ agents \in [Ids -> [status : {"none", "ONLINE", "OFFLINE"}, seen : 0..Never]]
    /\ beats \subseteq Ids
    /\ unused \subseteq Registered
    /\ due \in BOOLEAN
    /\ heard \in [Ids -> 0..Never]
    /\ unseen \subseteq Ids

Init ==
    /\ agents = [a \in Ids |-> NoRow]
    /\ beats = {}
    /\ unused = Registered
    /\ due = FALSE
    /\ heard = [a \in Ids |-> Never]
    /\ unseen = {}

Exists(a) == agents[a] # NoRow
Online(seen) == [status |-> "ONLINE", seen |-> seen]
Hear(a) == heard' = [heard EXCEPT ![a] = 0]
See(a) == unseen' = unseen \ {a}
Overlook(a) == unseen' = unseen \cup {a}

\* RegisterAgent: an id in the request is not read, and last_seen stays NULL.
Register(a) ==
    /\ unused' = unused \ {a}
    /\ agents' = [agents EXCEPT ![a] = Online(Never)]
    /\ Hear(a) /\ Overlook(a)
    /\ UNCHANGED <<beats, due>>

\* Slip: the row that is there gets its status back, and keeps its last_seen.
EnsureStatus(a) ==
    /\ agents' = [agents EXCEPT ![a] = IF Exists(a) THEN [@ EXCEPT !.status = "ONLINE"]
                                                    ELSE Online(0)]
    /\ Hear(a) /\ See(a)
    /\ UNCHANGED <<beats, unused, due>>

\* EnsureAgent, at the start of every claim.
Ensure(a) ==
    /\ agents' = [agents EXCEPT ![a] = Online(0)]
    /\ Hear(a) /\ See(a)
    /\ UNCHANGED <<beats, unused, due>>

\* A claim goes on when EnsureAgent fails, and requests of other kinds, such as a new
\* list of capabilities, are answered and do not touch last_seen.
PassBy(a) ==
    /\ Hear(a) /\ Overlook(a)
    /\ UNCHANGED <<agents, beats, unused, due>>

\* UpdateAgentHeartbeat reads the row ...
FindBeat(a) ==
    /\ Exists(a)
    /\ beats' = beats \cup {a}
    /\ UNCHANGED <<agents, unused, due, heard, unseen>>

\* ... and writes it, if it is still there; the answer is the same.
WriteBeat(a) ==
    /\ a \in beats
    /\ beats' = beats \ {a}
    /\ agents' = [agents EXCEPT ![a] = IF Exists(a) THEN Online(0) ELSE @]
    /\ Hear(a) /\ See(a)
    /\ UNCHANGED <<unused, due>>

Delete(a) ==
    /\ Exists(a)
    /\ agents' = [agents EXCEPT ![a] = NoRow]
    /\ UNCHANGED <<beats, unused, due, heard, unseen>>

Stale(row) == row.status = "ONLINE" /\ row.seen > Threshold

\* MarkStaleAgentsOffline, in one statement.
MarkStale ==
    /\ due
    /\ due' = FALSE
    /\ agents' = [a \in Ids |-> IF Stale(agents[a]) THEN [agents[a] EXCEPT !.status = "OFFLINE"]
                                ELSE agents[a]]
    /\ UNCHANGED <<beats, unused, heard, unseen>>

\* Also when the job has failed, which is only logged.
Tick ==
    /\ due' = TRUE
    /\ agents' = [a \in Ids |-> IF Exists(a) THEN [agents[a] EXCEPT !.seen = Later(@)]
                                ELSE agents[a]]
    /\ heard' = [a \in Ids |-> Later(heard[a])]
    /\ UNCHANGED <<beats, unused, unseen>>

\* ListAgents, by the two filters it has.
Listed(filter) ==
    {a \in Ids : Exists(a) /\ CASE filter = "active" -> agents[a].status = "ONLINE"
                               [] filter = "stale" -> agents[a].status = "OFFLINE"}

Next ==
    \/ \E a \in Ids \ unused :
          Ensure(a) \/ PassBy(a) \/ FindBeat(a) \/ WriteBeat(a) \/ Delete(a)
    \/ \E a \in unused : Register(a)
    \/ MarkStale \/ Tick

Spec == Init /\ [][Next]_vars

-----------------------------------------------------------------------------
(* Properties.                                                             *)

\* The list of stale agents has none that was heard of within the threshold, unless
\* what was heard last is not in its row: a new agent is marked OFFLINE by the next run
\* of the job.  And once the job has done its work, that of active agents has none
\* that was silent for longer.
ListsTellSilence ==
    /\ \A a \in Listed("stale") : heard[a] > Threshold \/ a \in unseen
    /\ \A a \in Listed("active") : heard[a] > Threshold => due
=============================================================================

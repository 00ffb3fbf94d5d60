----------------------------- MODULE PolicyEngine -----------------------------
(***************************************************************************)
(* The policies of a project and the requests they are put to: the         *)
(* middleware that evaluates rate limits, quotas and time windows, and the *)
(* block rules the handler of POST /api/v2/tasks reads after it.           *)
(*                                                                         *)
(* A policy has one rule: the engine takes the rules of all policies in    *)
(* one sequence, so several rules are several policies.  All requests are  *)
(* of one agent and one action, hence have one key in the rate tracker.    *)
(* The middleware acts when the query names the project, and lists 100     *)
(* enabled policies at most: there are no more.  Workflow rules are not    *)
(* modelled, since no caller sets the CurrentStatus they compare.          *)
(***************************************************************************)
EXTENDS Naturals, FiniteSets, FiniteSetsExt

CONSTANTS
    Clients,     \* requests that may be in flight at the same time
    Policies,    \* policies, numbered by created_at
    RuleOf,      \* the rule of each policy
    Editable,    \* bound: the policies that are created, edited and deleted
    MaxTime,     \* bound: the clock
    MaxRequests, \* bound: requests ever made
    MaxOutside   \* bound: tasks that come to count without having been counted

Times == 0..MaxTime

VARIABLES
    policy,     \* whether a policy is "absent", "off" or "on"
    hits,       \* the rate tracker's timestamps of the key, as how many there are of each
    now,
    tasks,      \* tasks of the project that are queued, claimed or running
    request,    \* the requests in flight
    made,       \* requests made so far
    outside,    \* history: tasks that came to count without having been counted, and
                \* requests that passed for want of the count or of the policies
    passed      \* history: how many requests of each time passed each rate limit

vars == <<policy, hits, now, tasks, request, made, outside, passed>>

Idle == [pc |-> "idle", ts |-> 0, todo |-> {}, ok |-> TRUE, clear |-> TRUE, on |-> "off"]

TypeOK ==
    /\ policy \in [Policies -> {"absent", "off", "on"}]
    /\ hits \in [Times -> Nat]
    /\ now \in Times
    /\ tasks \in 0..(MaxRequests + MaxOutside)
    /\ request \in [Clients -> [pc : {"idle", "rules", "record", "blocks", "insert", "edit"},
                                ts : Times, todo : SUBSET Policies, ok : BOOLEAN,
                                clear : BOOLEAN, on : {"off", "on"}]]
    /\ made \in 0..MaxRequests
    /\ outside \in 0..MaxOutside
    /\ passed \in [Policies -> [Times -> Nat]]

Init ==
    /\ policy \in [Policies -> {"absent", "off", "on"}]
    /\ hits = [t \in Times |-> 0]
    /\ now = 0
    /\ tasks = 0
    /\ request = [c \in Clients |-> Idle]
    /\ made = 0
    /\ outside = 0
    /\ passed = [p \in Policies |-> [t \in Times |-> 0]]

At(c, pc) == request[c].pc = pc
Become(c, q) == request' = [request EXCEPT ![c] = q]
Done(c) == Become(c, Idle)

Enabled == {p \in Policies : policy[p] = "on"}
Type(p) == RuleOf[p].type

\* Slip: the first policy of the list decides.
FirstBlocks == Enabled # {} /\ Type(Min(Enabled)) = "task.create.block"

\* isTaskCreateBlockedByPolicies.
BlockedByPolicies == \E p \in Enabled : Type(p) = "task.create.block"

\* History: the same of any state of the table.
InForce(state) == \E p \in Policies : state[p] = "on" /\ Type(p) = "task.create.block"

-----------------------------------------------------------------------------
(* The rules.                                                              *)

\* The sum of f over the times of S.
Total(f, S) ==
    LET upto[t \in 0..(MaxTime + 1)] ==
          IF t = 0 THEN 0 ELSE upto[t - 1] + (IF t - 1 \in S THEN f[t - 1] ELSE 0)
    IN  upto[MaxTime + 1]

\* Slip: a hit at the very edge of the window no longer counts.
CountInside(ts, window) == Total(hits, {t \in Times : t + window > ts})

\* RateTracker.Count: the hits that are not before ts - window, later ones too.
Count(ts, window) == Total(hits, {t \in Times : t + window >= ts})

\* evaluateTimeWindow; a window that starts after it ends is one overnight.
InHours(rule, hour) ==
    IF rule.from <= rule.to THEN rule.from <= hour /\ hour < rule.to
                            ELSE rule.from <= hour \/ hour < rule.to

\* Slip: the quota is reached only when it is exceeded.
OverQuota(rule) == tasks > rule.limit

\* evaluateResourceQuota for tasks.
QuotaReached(rule) == tasks >= rule.limit

\* The rules that change nothing; those of an unknown type allow everything.
Allows(p, ts) ==
    /\ Type(p) = "resource_quota" => ~QuotaReached(RuleOf[p])
    /\ Type(p) = "time_window" => InHours(RuleOf[p], ts)

-----------------------------------------------------------------------------
(* A request.                                                              *)

\* The middleware takes the time and the list of enabled policies.
Arrive(c) ==
    /\ At(c, "idle")
    /\ made < MaxRequests
    /\ made' = made + 1
    /\ Become(c, [Idle EXCEPT !.pc = "rules", !.ts = now, !.todo = Enabled,
                              !.clear = ~InForce(policy)])
    /\ UNCHANGED <<policy, hits, now, tasks, outside, passed>>

\* Something passes uncounted.
Uncounted == outside < MaxOutside /\ outside' = outside + 1

\* The list fails: the request goes on to the handler as if there were no policies.
ArriveUnread(c) ==
    /\ At(c, "idle")
    /\ made < MaxRequests
    /\ made' = made + 1
    /\ Uncounted
    /\ Become(c, [Idle EXCEPT !.pc = "blocks", !.ts = now, !.clear = ~InForce(policy)])
    /\ UNCHANGED <<policy, hits, now, tasks, passed>>

\* EvaluatePolicy takes the rules in order, and goes on after a violation.  A
\* rate limit counts and records under separate locks.
Evaluate(c) ==
    /\ At(c, "rules")
    /\ request[c].todo # {}
    /\ LET q == request[c]
           p == Min(q.todo)
       IN IF Type(p) # "rate_limit"
          THEN Become(c, [q EXCEPT !.todo = @ \ {p}, !.ok = @ /\ Allows(p, q.ts)])
          ELSE IF Count(q.ts, RuleOf[p].window) >= RuleOf[p].limit
          THEN Become(c, [q EXCEPT !.todo = @ \ {p}, !.ok = FALSE])
          ELSE Become(c, [q EXCEPT !.pc = "record"])
    /\ UNCHANGED <<policy, hits, now, tasks, made, outside, passed>>

\* The count of tasks fails: the quota lets the request pass.
EvaluateUnread(c) ==
    /\ At(c, "rules")
    /\ request[c].todo # {}
    /\ Type(Min(request[c].todo)) = "resource_quota"
    /\ Uncounted
    /\ Become(c, [request[c] EXCEPT !.todo = @ \ {Min(@)}])
    /\ UNCHANGED <<policy, hits, now, tasks, made, passed>>

\* RateTracker.Record: one more hit at ts, and those before ts - window are gone.
Recorded(ts, window) ==
    [t \in Times |-> IF t + window < ts THEN 0 ELSE IF t = ts THEN hits[t] + 1 ELSE hits[t]]

\* The key is pruned with the window of this rule, whatever the windows of others.
Record(c) ==
    /\ At(c, "record")
    /\ LET q == request[c]
           p == Min(q.todo)
       IN /\ hits' = Recorded(q.ts, RuleOf[p].window)
          /\ passed' = [passed EXCEPT ![p][q.ts] = @ + 1]
          /\ Become(c, [q EXCEPT !.pc = "rules", !.todo = @ \ {p}])
    /\ UNCHANGED <<policy, now, tasks, made, outside>>

Decide(c) ==
    /\ At(c, "rules")
    /\ request[c].todo = {}
    /\ IF request[c].ok THEN Become(c, [request[c] EXCEPT !.pc = "blocks"]) ELSE Done(c)
    /\ UNCHANGED <<policy, hits, now, tasks, made, outside, passed>>

\* The handler reads all policies again; when it cannot, the request ends there.
CheckBlocks(c) ==
    /\ At(c, "blocks")
    /\ \/ Done(c)
       \/ ~BlockedByPolicies /\ Become(c, [request[c] EXCEPT !.pc = "insert"])
    /\ UNCHANGED <<policy, hits, now, tasks, made, outside, passed>>

Insert(c) ==
    /\ At(c, "insert")
    /\ tasks' = tasks + 1
    /\ Done(c)
    /\ UNCHANGED <<policy, hits, now, made, outside, passed>>

-----------------------------------------------------------------------------
(* Around it.                                                              *)

\* One more task that is queued, claimed or running, without a request that counted.
OneMore ==
    /\ Uncounted
    /\ tasks' = tasks + 1
    /\ UNCHANGED <<policy, hits, now, request, made, passed>>

\* POST /api/v2/projects/{id}/tasks and the automation create tasks without the
\* middleware, as does a request whose query names no project or another one.
InsertOutside == OneMore

\* PATCH project_id moves a task here from another project.
MoveIn == OneMore

\* A finished task is queued, claimed or running again: by PATCH status, or PATCH of
\* something else that writes back the row it read while the task was under way.
Reopen == OneMore

\* A task ends, is deleted or moves to another project.
Finish ==
    /\ tasks > 0
    /\ tasks' = tasks - 1
    /\ UNCHANGED <<policy, hits, now, request, made, outside, passed>>

Tick ==
    /\ now < MaxTime
    /\ now' = now + 1
    /\ UNCHANGED <<policy, hits, tasks, request, made, outside, passed>>

\* A write to the table; history: what is in flight has seen a moment without a
\* block when there is none now.
SetPolicy(p, state, req) ==
    /\ policy' = [policy EXCEPT ![p] = state]
    /\ request' = [c \in Clients |-> [req[c] EXCEPT !.clear = @ \/ ~InForce(policy')]]

CreatePolicy(p, state) ==
    /\ p \in Editable
    /\ policy[p] = "absent"
    /\ SetPolicy(p, state, request)
    /\ UNCHANGED <<hits, now, tasks, made, outside, passed>>

DeletePolicy(p) ==
    /\ p \in Editable
    /\ policy[p] # "absent"
    /\ SetPolicy(p, "absent", request)
    /\ UNCHANGED <<hits, now, tasks, made, outside, passed>>

\* UpdatePolicy reads the row; `state` is what the request sets, or what was read
\* when it sets something else, ...
ReadPolicy(c, p, state) ==
    /\ p \in Editable
    /\ At(c, "idle")
    /\ policy[p] # "absent"
    /\ Become(c, [Idle EXCEPT !.pc = "edit", !.todo = {p}, !.on = state])
    /\ UNCHANGED <<policy, hits, now, tasks, made, outside, passed>>

\* ... and writes all of it back, when it is still there.
WritePolicy(c) ==
    /\ At(c, "edit")
    /\ LET p == Min(request[c].todo) IN
         SetPolicy(p, IF policy[p] = "absent" THEN "absent" ELSE request[c].on,
                   [request EXCEPT ![c] = Idle])
    /\ UNCHANGED <<hits, now, tasks, made, outside, passed>>

Next ==
    \/ \E c \in Clients :
          \/ Arrive(c) \/ ArriveUnread(c) \/ Evaluate(c) \/ EvaluateUnread(c)
          \/ Record(c) \/ Decide(c) \/ CheckBlocks(c) \/ Insert(c)
          \/ WritePolicy(c)
          \/ \E p \in Policies, state \in {"off", "on"} : ReadPolicy(c, p, state)
    \/ \E p \in Policies, state \in {"off", "on"} : CreatePolicy(p, state)
    \/ \E p \in Policies : DeletePolicy(p)
    \/ InsertOutside \/ MoveIn \/ Reopen \/ Finish \/ Tick

Spec == Init /\ [][Next]_vars

-----------------------------------------------------------------------------
(* Properties.                                                             *)

RateLimits == {p \in Policies : Type(p) = "rate_limit"}

\* The requests that passed p in the window that ends at t.
PassedIn(p, t) == Total(passed[p], {u \in Times : u <= t /\ t <= u + RuleOf[p].window})

Shortest == {p \in RateLimits : \A q \in RateLimits : RuleOf[p].window <= RuleOf[q].window}

\* A rate limit whose window is the shortest of the project's holds exactly for one
\* request at a time, and is exceeded by two for each further one in flight with it:
\* they may count before the others record, and one that took its time long ago may
\* count after a later one has pruned what it should have counted.  A longer limit
\* has no such bound, since the tracker forgets what the shortest window no longer
\* needs.
ShortestWindowKept ==
    \A p \in Shortest, t \in Times :
        PassedIn(p, t) <= RuleOf[p].limit + 2 * (Cardinality(Clients) - 1)

\* A quota of tasks that stays in force is exceeded by no more than the requests
\* in flight together, the tasks that come without a request that is put to it (made
\* on other routes, moved here, reopened) and the requests let through because their
\* count or their policies could not be read.
QuotaOverrunBounded ==
    \A p \in Policies \ Editable :
        policy[p] = "on" /\ Type(p) = "resource_quota" =>
            tasks < RuleOf[p].limit + Cardinality(Clients) + outside

\* A request about to create a task has met a moment without a block since it
\* arrived, whichever policies were edited meanwhile: a block that is in force from
\* beginning to end lets nothing through.
BlocksAreRespected == \A c \in Clients : At(c, "insert") => request[c].clear
=============================================================================

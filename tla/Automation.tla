----------------------------- MODULE Automation -----------------------------
(***************************************************************************)
(* The gates of the automation engine: what stands between an event and    *)
(* the follow-up tasks its rules create.                                   *)
(*                                                                         *)
(* CreateEvent calls processAutomationEvent on the goroutine that made the *)
(* event, so several events are processed at once.  An event goes through  *)
(* the two rate limits and the policies to the rules of its trigger, and   *)
(* each rule through its circuit.  Each call of a limiter or breaker       *)
(* method holds a mutex and is one step; so is the statement that writes a *)
(* task.  The tasks themselves, their depth and their duplicates are not   *)
(* part of this module: whether a follow-up is written, fails, or is not   *)
(* called for is left open.                                                *)
(***************************************************************************)
EXTENDS CircuitBreaker, RateLimiter

CONSTANTS
    Workers,    \* events that may be processed at the same time
    None

ASSUME NoneAssumption == None \notin Rules

VARIABLE worker     \* the events being processed

vars == <<circuit, stamps, granted, worker>>

\* `rule` is the rule whose action is under way and `todo` those still to come;
\* `probe` is history: the circuit let this execution through to try it out.
Idle == [pc |-> "idle", rule |-> None, todo |-> {}, probe |-> FALSE]

Init ==
    /\ CircuitInit
    /\ LimiterInit
    /\ worker = [w \in Workers |-> Idle]

At(w, pc) == worker[w].pc = pc
Become(w, q) == worker' = [worker EXCEPT ![w] = q]
Goto(w, pc) == Become(w, [worker[w] EXCEPT !.pc = pc])
Done(w) == Become(w, Idle)

-----------------------------------------------------------------------------
(* Limits.                                                                 *)

\* An event about a task that is not too deep.  `triggered` are the enabled
\* rules whose trigger it is; an event of no rule still counts for the limits.
Receive(w, triggered) ==
    /\ At(w, "idle")
    /\ Become(w, [Idle EXCEPT !.pc = "hour", !.todo = triggered])
    /\ UNCHANGED <<circuit, limiterVars>>

\* Refused: the event ends here, and a human is asked to review.
CheckHour(w) ==
    /\ At(w, "hour")
    /\ CheckRateLimit("hour")
    /\ IF Grants("hour") THEN Goto(w, "minute") ELSE Done(w)
    /\ UNCHANGED circuit

\* What the hour granted stays granted when the minute refuses.
CheckMinute(w) ==
    /\ At(w, "minute")
    /\ CheckRateLimit("minute")
    /\ IF Grants("minute") THEN Goto(w, "policy") ELSE Done(w)
    /\ UNCHANGED circuit

-----------------------------------------------------------------------------
(* Rules.  Bound: one action per rule.                                     *)

\* On to the rules that are left, if any.
NextRule(todo) ==
    IF todo = {} THEN Idle ELSE [Idle EXCEPT !.pc = "rule", !.todo = todo]

\* The policies of the project let the automation run, or not.
CheckPolicies(w) ==
    /\ At(w, "policy")
    /\ Done(w) \/ Become(w, NextRule(worker[w].todo))
    /\ UNCHANGED <<circuit, limiterVars>>

\* A rule its circuit refuses is passed over.
Refuse(w, r) ==
    /\ At(w, "rule")
    /\ r \in worker[w].todo
    /\ ~Allows(r)
    /\ Become(w, NextRule(worker[w].todo \ {r}))
    /\ UNCHANGED <<circuit, limiterVars>>

\* A rule its circuit lets through.
Execute(w, r) ==
    /\ At(w, "rule")
    /\ r \in worker[w].todo
    /\ Allows(r)
    /\ AllowExecution(r)
    /\ Become(w, [pc |-> "act", rule |-> r, todo |-> worker[w].todo \ {r},
                  probe |-> circuit[r].state # "closed"])
    /\ UNCHANGED limiterVars

\* No follow-up is called for: the rule creates none, its instructions are empty
\* once the template is filled in, or an open task is already there for it.
Skip(w) ==
    /\ At(w, "act")
    /\ Become(w, NextRule(worker[w].todo))
    /\ UNCHANGED <<circuit, limiterVars>>

\* CreateTaskV2WithMeta writes the follow-up, or returns an error.
Create(w) ==
    /\ At(w, "act")
    /\ Goto(w, "succeed") \/ Goto(w, "fail")
    /\ UNCHANGED <<circuit, limiterVars>>

\* History: once the circuit of r has left half-open, the execution it let
\* through is no longer its probe.
Ended(w, r) ==
    [v \in Workers |-> IF v = w THEN NextRule(worker[w].todo)
                       ELSE IF worker[v].rule = r THEN [worker[v] EXCEPT !.probe = FALSE]
                       ELSE worker[v]]

Succeed(w) ==
    /\ At(w, "succeed")
    /\ RecordSuccess(worker[w].rule)
    /\ worker' = Ended(w, worker[w].rule)
    /\ UNCHANGED limiterVars

\* A circuit that opens is brought to a human's attention.
Fail(w) ==
    /\ At(w, "fail")
    /\ RecordFailure(worker[w].rule)
    /\ worker' = Ended(w, worker[w].rule)
    /\ UNCHANGED limiterVars

-----------------------------------------------------------------------------
(* Around the events.                                                      *)

\* GET /projects/{id}/automation/stats asks for the state of every circuit.
ShowStats(r) ==
    /\ GetState(r)
    /\ UNCHANGED <<limiterVars, worker>>

Tick ==
    /\ Age
    /\ circuit' = [r \in Rules |-> CoolDown(circuit[r])]
    /\ UNCHANGED worker

\* Circuits, limits and the events under way are in memory only.
Restart ==
    /\ circuit' = [r \in Rules |-> Closed]
    /\ stamps' = [k \in Windows |-> <<>>]
    /\ granted' = [k \in Windows |-> <<>>]
    /\ worker' = [w \in Workers |-> Idle]

-----------------------------------------------------------------------------
Process(w) ==
    \/ CheckHour(w) \/ CheckMinute(w) \/ CheckPolicies(w)
    \/ \E r \in Rules : Refuse(w, r) \/ Execute(w, r)
    \/ Skip(w) \/ Create(w) \/ Succeed(w) \/ Fail(w)

Next ==
    \/ \E w \in Workers : Process(w)
    \/ \E w \in Workers, triggered \in SUBSET Rules : Receive(w, triggered)
    \/ \E r \in Rules : ShowStats(r)
    \/ Tick \/ Restart

Spec == Init /\ [][Next]_vars

-----------------------------------------------------------------------------
(* Properties.                                                             *)

PCs == {"idle", "hour", "minute", "policy", "rule", "act", "succeed", "fail"}

WorkerType ==
    [pc : PCs, rule : Rules \cup {None}, todo : SUBSET Rules, probe : BOOLEAN]

\* Every variable keeps to its type; failure counts and cooldowns stay within
\* their bounds.
TypeOK ==
    /\ circuit \in [Rules -> Entry]
    /\ stamps \in [Windows -> Seq(Nat)]
    /\ granted \in [Windows -> Seq(Nat)]
    /\ worker \in [Workers -> WorkerType]

\* A closed circuit is below the limit of consecutive failures, whatever late
\* successes and failures of executions admitted earlier come in: it takes no
\* more than MaxFailures in a row to open it, and after it has closed as many
\* again (RecordSuccess and RecordFailure in automation.go).
ClosedIsBelowLimit ==
    \A r \in Rules : circuit[r].state = "closed" => circuit[r].failures < MaxFailures

\* A half-open circuit has let at most one execution through (the comment at
\* automation.go:111), although executions admitted before it opened may still
\* be under way and may close it or open it again at any time.
ProbeIsAlone ==
    \A r \in Rules : circuit[r].state = "half_open" =>
      \A v, w \in Workers : /\ worker[v].rule = r /\ worker[v].probe
                            /\ worker[w].rule = r /\ worker[w].probe
                            => v = w

\* No stretch of time as long as a window sees more grants than its limit, the
\* grant at the far end of the window included (CheckRateLimit), whatever the
\* events refused in between.
WindowsRespected == \A k \in Windows : Len(granted[k]) <= Limit[k]

\* A limit refuses an event only when it has granted all it takes within its window:
\* neither what was refused before nor what was granted longer ago counts against an
\* event (CheckRateLimit prunes before it counts, and records what it grants).  A
\* restart refuses nothing, it forgets.
RefusedOnlyWhenFull ==
    [][Restart \/ \A w \in Workers, k \in Windows :
          At(w, k) /\ worker'[w].pc = "idle" => Len(granted[k]) = Limit[k]]_vars

-----------------------------------------------------------------------------
(* What a comment says, and the code does not do.                          *)

\* Every event is processed to its end, time passes, and there always are
\* events for every rule, and policies that let them run.
Fairness ==
    /\ \A w \in Workers : WF_vars(Process(w))
    /\ WF_vars(Tick)
    /\ \A r \in Rules : SF_vars(\E w \in Workers : Receive(w, {r}))
    /\ \A w \in Workers : SF_vars(CheckPolicies(w) /\ worker'[w].pc # "idle")

FairSpec == Spec /\ Fairness

\* automation.go:112-113: the next RecordSuccess or RecordFailure ends the
\* half-open state, which blocks "until the probe completes": while events keep
\* coming and are processed, a circuit does not stay half-open.
HalfOpenSettles ==
    \A r \in Rules : circuit[r].state = "half_open" ~> circuit[r].state # "half_open"
=============================================================================

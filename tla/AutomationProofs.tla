-------------------------- MODULE AutomationProofs --------------------------
(***************************************************************************)
(* What the circuit breaker and the rate limiter of the automation engine  *)
(* keep to, for any number of rules, of events processed at once, and any  *)
(* limits: probes, windows, what a refusal needs, and the types.           *)
(***************************************************************************)
EXTENDS Automation, Counting, TLAPS

\* The types of circuits and workers, and what a worker holds at each place.
Acting(q) == q.pc \in {"act", "succeed", "fail"}

CircuitTyped == circuit \in [Rules -> Entry]

WorkersTyped ==
    /\ worker \in [Workers -> WorkerType]
    /\ \A w \in Workers : /\ Acting(worker[w]) => worker[w].rule \in Rules
                          /\ ~Acting(worker[w]) => worker[w].rule = None /\ ~worker[w].probe

\* A probe's circuit is half-open, and it has no other probe.
ProbesHalfOpen ==
    \A w \in Workers : worker[w].probe => circuit[worker[w].rule].state = "half_open"

ProbesDiffer ==
    \A v, w \in Workers : worker[v].probe /\ worker[w].probe /\ worker[v].rule = worker[w].rule
                          => v = w

Breaker == /\ CircuitTyped /\ WorkersTyped
           /\ ClosedIsBelowLimit /\ ProbesHalfOpen /\ ProbesDiffer

-----------------------------------------------------------------------------
(* The operations of the breaker.                                          *)

LEMMA ClosedTyped == Closed \in Entry /\ Closed.state = "closed" /\ Closed.failures < MaxFailures
BY BreakerAssumption, SMT DEF Closed, Entry, CircuitState

\* The two calls that let a cooled circuit become half-open: nothing else changes.
LEMMA HalfOpening ==
  ASSUME CircuitTyped, ClosedIsBelowLimit, NEW r \in Rules,
         circuit' = [circuit EXCEPT ![r] = HalfOpen(@)]
  PROVE  /\ CircuitTyped' /\ ClosedIsBelowLimit'
         /\ \A s \in Rules : circuit[s].state = "half_open" => circuit'[s].state = "half_open"
         /\ Allows(r) /\ circuit[r].state # "closed" =>
              circuit[r].state = "open" /\ circuit'[r].state = "half_open"
<1>1. HalfOpen(circuit[r]) \in Entry
  BY SMT DEF CircuitTyped, HalfOpen, Entry, CircuitState
<1>2. CircuitTyped'
  BY <1>1 DEF CircuitTyped
<1>3. \A s \in Rules : circuit'[s] = IF s = r THEN HalfOpen(circuit[r]) ELSE circuit[s]
  BY DEF CircuitTyped
<1>4. /\ HalfOpen(circuit[r]).failures = circuit[r].failures
      /\ HalfOpen(circuit[r]).state \in {circuit[r].state, "half_open"}
      /\ circuit[r].state = "open" /\ circuit[r].cool = 0
           => HalfOpen(circuit[r]).state = "half_open"
  BY SMT DEF CircuitTyped, HalfOpen, Entry, CircuitState
<1>5. ClosedIsBelowLimit'
  BY <1>3, <1>4 DEF ClosedIsBelowLimit
<1> QED BY <1>2, <1>3, <1>4, <1>5 DEF Allows

LEMMA Succeeding ==
  ASSUME CircuitTyped, ClosedIsBelowLimit, NEW r \in Rules, RecordSuccess(r)
  PROVE  /\ CircuitTyped' /\ ClosedIsBelowLimit'
         /\ \A s \in Rules \ {r} : circuit'[s] = circuit[s]
BY ClosedTyped DEF RecordSuccess, CircuitTyped, ClosedIsBelowLimit

\* A failure either opens the circuit or leaves its state, and a closed circuit
\* that it does not open stays below the limit.
LEMMA Failing ==
  ASSUME CircuitTyped, ClosedIsBelowLimit, NEW r \in Rules, RecordFailure(r)
  PROVE  /\ CircuitTyped' /\ ClosedIsBelowLimit'
         /\ \A s \in Rules \ {r} : circuit'[s] = circuit[s]
<1> DEFINE counted == IF circuit[r].failures < MaxFailures
                      THEN circuit[r].failures + 1 ELSE MaxFailures
           next == IF Trips(r)
                   THEN [state |-> "open", failures |-> counted, cool |-> Cooldown]
                   ELSE [circuit[r] EXCEPT !.failures = counted]
<1>1. circuit' = [circuit EXCEPT ![r] = next]
  BY DEF RecordFailure
<1>2. circuit[r] \in Entry
  BY DEF CircuitTyped
<1>3. counted \in 0..MaxFailures
  BY <1>2, BreakerAssumption, SMT DEF Entry
<1>4. next \in Entry
  BY <1>2, <1>3, BreakerAssumption, SMT DEF Entry, CircuitState
<1>5. CircuitTyped'
  BY <1>1, <1>4 DEF CircuitTyped
<1>6. next.state = "closed" => next.failures < MaxFailures
  BY <1>2, BreakerAssumption, SMT DEF Trips, Entry, CircuitState
<1>7. \A s \in Rules : circuit'[s] = IF s = r THEN next ELSE circuit[s]
  BY <1>1 DEF CircuitTyped
<1>8. ClosedIsBelowLimit'
  BY <1>6, <1>7 DEF ClosedIsBelowLimit
<1> QED BY <1>5, <1>7, <1>8

LEMMA Cooling ==
  ASSUME CircuitTyped, ClosedIsBelowLimit,
         circuit' = [r \in Rules |-> CoolDown(circuit[r])]
  PROVE  /\ CircuitTyped' /\ ClosedIsBelowLimit'
         /\ \A s \in Rules : circuit'[s].state = circuit[s].state
<1>1. ASSUME NEW r \in Rules
      PROVE  /\ CoolDown(circuit[r]) \in Entry
             /\ CoolDown(circuit[r]).state = circuit[r].state
             /\ CoolDown(circuit[r]).failures = circuit[r].failures
  BY BreakerAssumption, SMT DEF CircuitTyped, CoolDown, Entry, CircuitState
<1> QED BY <1>1 DEF CircuitTyped, ClosedIsBelowLimit

-----------------------------------------------------------------------------
(* The workers.                                                            *)

LEMMA NextRuleTyped ==
  ASSUME NEW todo \in SUBSET Rules
  PROVE  /\ NextRule(todo) \in WorkerType
         /\ ~Acting(NextRule(todo))
         /\ NextRule(todo).rule = None /\ ~NextRule(todo).probe
BY DEF NextRule, Idle, WorkerType, PCs, Acting

\* A worker that goes on with the execution it is at, or comes to rest, and
\* leaves the circuits alone.
LEMMA ToAct ==
  ASSUME Breaker, NEW w \in Workers, NEW q \in WorkerType, Become(w, q),
         Acting(q), q.rule = worker[w].rule, q.rule \in Rules,
         q.probe = worker[w].probe, circuit' = circuit
  PROVE  Breaker'
<1>1. \A v \in Workers : worker'[v] = IF v = w THEN q ELSE worker[v]
  BY DEF Become, Breaker, WorkersTyped
<1>2. worker' \in [Workers -> WorkerType]
  BY DEF Become, Breaker, WorkersTyped
<1>3. WorkersTyped'
  BY <1>1, <1>2 DEF Breaker, WorkersTyped
<1>4. \A v \in Workers : worker'[v].rule = worker[v].rule /\ worker'[v].probe = worker[v].probe
  BY <1>1
<1>5. ProbesHalfOpen' /\ ProbesDiffer'
  BY <1>4 DEF Breaker, ProbesHalfOpen, ProbesDiffer
<1> QED BY <1>3, <1>5 DEF Breaker, CircuitTyped, ClosedIsBelowLimit

Resting(q) == q \in WorkerType /\ ~Acting(q) /\ q.rule = None /\ ~q.probe

LEMMA ToRest ==
  ASSUME Breaker, NEW w \in Workers, NEW q, Resting(q), Become(w, q), circuit' = circuit
  PROVE  Breaker'
<1>1. q \in WorkerType /\ ~Acting(q) /\ q.rule = None /\ ~q.probe
  BY DEF Resting
<1>2. \A v \in Workers : worker'[v] = IF v = w THEN q ELSE worker[v]
  BY DEF Become, Breaker, WorkersTyped
<1>3. worker' \in [Workers -> WorkerType]
  BY <1>1 DEF Become, Breaker, WorkersTyped
<1>4. WorkersTyped'
  BY <1>1, <1>2, <1>3 DEF Breaker, WorkersTyped
<1>5. ProbesHalfOpen' /\ ProbesDiffer'
  BY <1>1, <1>2 DEF Breaker, ProbesHalfOpen, ProbesDiffer
<1> QED BY <1>4, <1>5 DEF Breaker, CircuitTyped, ClosedIsBelowLimit

LEMMA IdleRests == Resting(Idle)
BY DEF Resting, Idle, WorkerType, PCs, Acting

\* The end of an execution, when its circuit has changed: no probe of the rule
\* is left, and those of other rules keep their circuits.
LEMMA Ending ==
  ASSUME Breaker, NEW w \in Workers, NEW r \in Rules,
         worker[w].rule = r, worker' = Ended(w, r),
         CircuitTyped', ClosedIsBelowLimit',
         \A s \in Rules \ {r} : circuit'[s] = circuit[s]
  PROVE  Breaker'
<1> DEFINE calm(v) == [worker[v] EXCEPT !.probe = FALSE]
<1>1. worker[w].todo \in SUBSET Rules
  BY DEF Breaker, WorkersTyped, WorkerType
<1>2. \A v \in Workers : worker'[v] = IF v = w THEN NextRule(worker[w].todo)
                                      ELSE IF worker[v].rule = r THEN calm(v)
                                      ELSE worker[v]
  BY DEF Ended
<1>3. ASSUME NEW v \in Workers
      PROVE  /\ calm(v) \in WorkerType /\ ~calm(v).probe
             /\ calm(v).pc = worker[v].pc /\ calm(v).rule = worker[v].rule
  BY DEF Breaker, WorkersTyped, WorkerType
<1>4. worker' \in [Workers -> WorkerType]
  <2>1. \A v \in Workers : worker'[v] \in WorkerType
    BY <1>1, <1>2, <1>3, NextRuleTyped DEF Breaker, WorkersTyped
  <2> QED BY <2>1 DEF Ended
<1>5. \A v \in Workers : /\ Acting(worker'[v]) => worker'[v].rule \in Rules
                         /\ ~Acting(worker'[v]) => worker'[v].rule = None /\ ~worker'[v].probe
  <2> SUFFICES ASSUME NEW v \in Workers
               PROVE  /\ Acting(worker'[v]) => worker'[v].rule \in Rules
                      /\ ~Acting(worker'[v]) => worker'[v].rule = None /\ ~worker'[v].probe
    OBVIOUS
  <2>1. CASE v = w
    BY <1>1, <1>2, <2>1, NextRuleTyped
  <2>2. CASE v # w /\ worker[v].rule = r
    <3>1. worker'[v] = calm(v)
      BY <1>2, <2>2
    <3>2. Acting(worker[v])
      BY <2>2, NoneAssumption DEF Breaker, WorkersTyped
    <3>3. Acting(worker'[v]) /\ worker'[v].rule = r
      BY <1>3, <2>2, <3>1, <3>2 DEF Acting
    <3> QED BY <3>3
  <2>3. CASE v # w /\ worker[v].rule # r
    BY <1>2, <2>3 DEF Breaker, WorkersTyped
  <2> QED BY <2>1, <2>2, <2>3
<1>6. \A v \in Workers : worker'[v].probe =>
          /\ worker'[v] = worker[v]
          /\ worker[v].rule \in Rules \ {r}
  BY <1>1, <1>2, <1>3, NextRuleTyped DEF Breaker, WorkersTyped
<1>7. ProbesHalfOpen' /\ ProbesDiffer'
  BY <1>6 DEF Breaker, ProbesHalfOpen, ProbesDiffer
<1> QED BY <1>4, <1>5, <1>7 DEF Breaker, WorkersTyped

\* Workers stay, and what was half-open stays half-open.
LEMMA CircuitsMove ==
  ASSUME Breaker, UNCHANGED worker, CircuitTyped', ClosedIsBelowLimit',
         \A s \in Rules : circuit[s].state = "half_open" => circuit'[s].state = "half_open"
  PROVE  Breaker'
<1>1. \A w \in Workers : worker[w].probe => worker[w].rule \in Rules
  BY DEF Breaker, WorkersTyped
<1>2. ProbesHalfOpen'
  BY <1>1 DEF Breaker, ProbesHalfOpen
<1> QED BY <1>2 DEF Breaker, WorkersTyped, ProbesDiffer

-----------------------------------------------------------------------------
LEMMA BreakerInit == Init => Breaker
<1> SUFFICES ASSUME Init PROVE Breaker
  OBVIOUS
<1>1. CircuitTyped /\ ClosedIsBelowLimit
  BY ClosedTyped DEF Init, CircuitInit, CircuitTyped, ClosedIsBelowLimit
<1>2. Idle \in WorkerType /\ ~Acting(Idle) /\ Idle.rule = None /\ ~Idle.probe
  BY DEF Idle, WorkerType, PCs, Acting
<1>3. \A w \in Workers : worker[w] = Idle
  BY DEF Init
<1>4. WorkersTyped
  BY <1>2, <1>3 DEF Init, WorkersTyped
<1> QED BY <1>1, <1>2, <1>3, <1>4 DEF Breaker, ProbesHalfOpen, ProbesDiffer

LEMMA BreakerStep == Breaker /\ [Next]_vars => Breaker'
<1> SUFFICES ASSUME Breaker, [Next]_vars PROVE Breaker'
  OBVIOUS
<1>0. \A w \in Workers : /\ worker[w] \in WorkerType
                         /\ Acting(worker[w]) => worker[w].rule \in Rules
                         /\ ~Acting(worker[w]) => worker[w].rule = None /\ ~worker[w].probe
  BY DEF Breaker, WorkersTyped
<1>1. ASSUME NEW w \in Workers, CheckHour(w) \/ CheckMinute(w) PROVE Breaker'
  <2>1. ~Acting(worker[w])
    BY <1>1 DEF CheckHour, CheckMinute, At, Acting
  <2>2. PICK q : /\ Become(w, q)
                 /\ \/ q = Idle
                    \/ \E pc \in {"minute", "policy"} : q = [worker[w] EXCEPT !.pc = pc]
    BY <1>1 DEF CheckHour, CheckMinute, Done, Goto
  <2>3. ASSUME NEW pc \in {"minute", "policy"} PROVE Resting([worker[w] EXCEPT !.pc = pc])
    <3>1. /\ worker[w] \in WorkerType /\ worker[w].rule = None /\ ~worker[w].probe
      BY <1>0, <2>1
    <3> QED BY <3>1 DEF Resting, WorkerType, PCs, Acting
  <2>4. Resting(q)
    BY <2>2, <2>3, IdleRests
  <2>5. circuit' = circuit
    BY <1>1 DEF CheckHour, CheckMinute
  <2> QED BY <2>2, <2>4, <2>5, ToRest
<1>2. ASSUME NEW w \in Workers, NEW triggered \in SUBSET Rules, Receive(w, triggered)
      PROVE  Breaker'
  <2>1. Resting([Idle EXCEPT !.pc = "hour", !.todo = triggered])
    BY DEF Resting, Idle, WorkerType, PCs, Acting
  <2>2. circuit' = circuit
    BY <1>2 DEF Receive
  <2> QED BY <1>2, <2>1, <2>2, ToRest DEF Receive
<1>3. ASSUME NEW w \in Workers, CheckPolicies(w) \/ Skip(w) PROVE Breaker'
  <2>1. worker[w].todo \in SUBSET Rules
    BY <1>0 DEF WorkerType
  <2>2. PICK q \in {Idle, NextRule(worker[w].todo)} : Become(w, q)
    BY <1>3 DEF CheckPolicies, Skip, Done
  <2>3. Resting(q)
    BY <2>1, <2>2, IdleRests, NextRuleTyped DEF Resting
  <2>4. circuit' = circuit
    BY <1>3 DEF CheckPolicies, Skip
  <2> QED BY <2>2, <2>3, <2>4, ToRest
<1>4. ASSUME NEW w \in Workers, NEW r \in Rules, Refuse(w, r) PROVE Breaker'
  <2>1. Resting(NextRule(worker[w].todo \ {r}))
    BY <1>0, NextRuleTyped DEF WorkerType, Resting
  <2>2. circuit' = circuit
    BY <1>4 DEF Refuse
  <2> QED BY <1>4, <2>1, <2>2, ToRest DEF Refuse
<1>5. ASSUME NEW w \in Workers, NEW r \in Rules, Execute(w, r) PROVE Breaker'
  <2> DEFINE q == [pc |-> "act", rule |-> r, todo |-> worker[w].todo \ {r},
                   probe |-> circuit[r].state # "closed"]
  <2>1. q \in WorkerType /\ Acting(q)
    BY <1>0 DEF WorkerType, PCs, Acting
  <2>2. worker' = [worker EXCEPT ![w] = q]
    BY <1>5 DEF Execute, Become
  <2>3. \A v \in Workers : worker'[v] = IF v = w THEN q ELSE worker[v]
    BY <2>2 DEF Breaker, WorkersTyped
  <2>4. /\ CircuitTyped' /\ ClosedIsBelowLimit'
        /\ \A s \in Rules : circuit[s].state = "half_open" => circuit'[s].state = "half_open"
        /\ circuit[r].state # "closed" =>
             circuit[r].state = "open" /\ circuit'[r].state = "half_open"
    BY <1>5, HalfOpening DEF Execute, AllowExecution, Breaker
  <2>5. WorkersTyped'
    BY <2>1, <2>2, <2>3 DEF Breaker, WorkersTyped
  <2>6. \A v \in Workers : worker[v].probe =>
            worker[v].rule \in Rules /\ circuit[worker[v].rule].state = "half_open"
    BY <1>0 DEF Breaker, ProbesHalfOpen
  <2>7. ProbesHalfOpen'
    <3>1. q.rule = r /\ (q.probe => circuit'[r].state = "half_open")
      BY <2>4
    <3>2. \A v \in Workers : worker[v].probe => circuit'[worker[v].rule].state = "half_open"
      BY <2>4, <2>6
    <3> HIDE DEF q
    <3> QED BY <2>3, <3>1, <3>2 DEF ProbesHalfOpen
  <2>8. q.probe => \A v \in Workers : worker[v].probe => worker[v].rule # r
    BY <2>4, <2>6
  <2>9. ProbesDiffer'
    BY <2>3, <2>8 DEF Breaker, ProbesDiffer
  <2> QED BY <2>4, <2>5, <2>7, <2>9 DEF Breaker
<1>6. ASSUME NEW w \in Workers, Create(w) PROVE Breaker'
  <2>1. PICK pc \in {"succeed", "fail"} : Become(w, [worker[w] EXCEPT !.pc = pc])
    BY <1>6 DEF Create, Goto
  <2> DEFINE q == [worker[w] EXCEPT !.pc = pc]
  <2>2. Acting(worker[w])
    BY <1>6 DEF Create, At, Acting
  <2>3. /\ q \in WorkerType /\ Acting(q) /\ q.rule = worker[w].rule
        /\ q.probe = worker[w].probe /\ q.rule \in Rules
    BY <1>0, <2>1, <2>2 DEF WorkerType, PCs, Acting
  <2>4. circuit' = circuit
    BY <1>6 DEF Create
  <2>5. Become(w, q)
    BY <2>1
  <2> HIDE DEF q
  <2> QED BY <2>3, <2>4, <2>5, ToAct
<1>7. ASSUME NEW w \in Workers, Succeed(w) PROVE Breaker'
  <2>1. worker[w].rule \in Rules
    BY <1>0, <1>7 DEF Succeed, At, Acting
  <2> QED BY <1>7, <2>1, Succeeding, Ending DEF Succeed, Breaker
<1>8. ASSUME NEW w \in Workers, Fail(w) PROVE Breaker'
  <2>1. worker[w].rule \in Rules
    BY <1>0, <1>8 DEF Fail, At, Acting
  <2> QED BY <1>8, <2>1, Failing, Ending DEF Fail, Breaker
<1>9. ASSUME NEW r \in Rules, ShowStats(r) PROVE Breaker'
  BY <1>9, HalfOpening, CircuitsMove DEF ShowStats, GetState, Breaker
<1>10. ASSUME Tick PROVE Breaker'
  BY <1>10, Cooling, CircuitsMove DEF Tick, Breaker
<1>11. ASSUME Restart PROVE Breaker'
  <2>1. CircuitTyped' /\ ClosedIsBelowLimit'
    BY <1>11, ClosedTyped DEF Restart, CircuitTyped, ClosedIsBelowLimit
  <2>2. Idle \in WorkerType /\ ~Acting(Idle) /\ Idle.rule = None /\ ~Idle.probe
    BY DEF Idle, WorkerType, PCs, Acting
  <2>3. \A w \in Workers : worker'[w] = Idle
    BY <1>11 DEF Restart
  <2>4. WorkersTyped'
    BY <1>11, <2>2, <2>3 DEF Restart, WorkersTyped
  <2> QED BY <2>1, <2>2, <2>3, <2>4 DEF Breaker, ProbesHalfOpen, ProbesDiffer
<1>12. CASE UNCHANGED vars
  BY <1>12, CircuitsMove DEF vars, Breaker, CircuitTyped, ClosedIsBelowLimit
<1> QED
  BY <1>1, <1>2, <1>3, <1>4, <1>5, <1>6, <1>7, <1>8, <1>9, <1>10, <1>11, <1>12
     DEF Next, Process

LEMMA BreakerInvariant == Spec => []Breaker
<1> QED BY BreakerInit, BreakerStep, PTL DEF Spec

\* A closed circuit is below its limit of consecutive failures, for any limit,
\* any cooldown and any number of executions under way.
THEOREM ClosedBelowLimit == Spec => []ClosedIsBelowLimit
<1>1. Breaker => ClosedIsBelowLimit
  BY DEF Breaker
<1> QED BY <1>1, BreakerInvariant, PTL

\* A half-open circuit has at most one probe under way, for any number of
\* executions that were let through before it opened.
THEOREM ProbesAlone == Spec => []ProbeIsAlone
<1>1. Breaker => ProbeIsAlone
  BY DEF Breaker, ProbesDiffer, ProbeIsAlone
<1> QED BY <1>1, BreakerInvariant, PTL

-----------------------------------------------------------------------------
(* The loop that prunes a window.                                          *)

\* What the loop has kept after each timestamp, and that there is one way to do so.
Keeps(g, seq, last) ==
    /\ g \in [0..Len(seq) -> Seq(Nat)]
    /\ \A i \in 0..Len(seq) : g[i] = IF i = 0 THEN <<>>
                                     ELSE IF seq[i] <= last THEN Append(g[i - 1], seq[i])
                                     ELSE g[i - 1]

LEMMA LoopKeeps ==
    ASSUME NEW seq \in Seq(Nat), NEW last \in Nat
    PROVE  \E g : Keeps(g, seq, last) /\ Within(seq, last) = g[Len(seq)]
<1> DEFINE m == Len(seq)
           step == [i \in Nat |-> [q \in Seq(Nat) |->
                       IF i \in 1..m /\ seq[i] <= last THEN Append(q, seq[i]) ELSE q]]
           kept[i \in 0..m] == IF i = 0 THEN <<>>
                               ELSE IF seq[i] <= last THEN Append(kept[i - 1], seq[i])
                               ELSE kept[i - 1]
           Is(f) == f = [i \in 0..m |-> IF i = 0 THEN <<>>
                               ELSE IF seq[i] <= last THEN Append(f[i - 1], seq[i])
                               ELSE f[i - 1]]
<1>1. Within(seq, last) = kept[m]
  BY DEF Within
<1>2. kept = CHOOSE f : Is(f)
  OBVIOUS
<1> HIDE DEF kept
<1>3. m \in Nat /\ <<>> \in Seq(Nat)
  OBVIOUS
<1>4. ASSUME NEW i \in Nat, NEW q \in Seq(Nat)
      PROVE  (IF i \in 1..m /\ seq[i] <= last THEN Append(q, seq[i]) ELSE q) \in Seq(Nat)
  OBVIOUS
<1>5. step \in [Nat -> [Seq(Nat) -> Seq(Nat)]]
  BY <1>4
<1>6. PICK g : Takes(g, m, Seq(Nat), <<>>, step)
  <2> HIDE DEF step, m
  <2> QED BY <1>3, <1>5, StepsExist
<1>7. ASSUME NEW i \in 0..m, i # 0
      PROVE  step[i][g[i - 1]] = IF seq[i] <= last THEN Append(g[i - 1], seq[i]) ELSE g[i - 1]
  <2>1. i \in Nat /\ i \in 1..m /\ g[i - 1] \in Seq(Nat)
    BY <1>3, <1>6, <1>7 DEF Takes
  <2> HIDE DEF m
  <2> QED BY <2>1
<1> HIDE DEF step
<1>8. Is(g) /\ Keeps(g, seq, last)
  BY <1>6, <1>7 DEF Takes, Keeps
<1>9. Is(kept)
  BY <1>2, <1>8
<1> DEFINE Same == {i \in Nat : i \in 0..m => kept[i] = g[i]}
<1>10. ASSUME NEW i \in 0..m
       PROVE  /\ kept[i] = IF i = 0 THEN <<>>
                           ELSE IF seq[i] <= last THEN Append(kept[i - 1], seq[i])
                           ELSE kept[i - 1]
              /\ g[i] = IF i = 0 THEN <<>>
                           ELSE IF seq[i] <= last THEN Append(g[i - 1], seq[i])
                           ELSE g[i - 1]
  BY <1>8, <1>9, Zenon
<1> HIDE DEF Is
<1>11. 0 \in Same
  BY <1>10, <1>3
<1>12. ASSUME NEW i \in Same PROVE i + 1 \in Same
  <2> SUFFICES ASSUME i + 1 \in 0..m PROVE kept[i + 1] = g[i + 1]
    OBVIOUS
  <2>1. i \in 0..m /\ i + 1 # 0 /\ (i + 1) - 1 = i /\ kept[i] = g[i]
    BY <1>3
  <2> QED BY <1>10, <2>1
<1> HIDE DEF Same
<1>13. Same = Nat
  <2>1. Same \subseteq Nat
    BY DEF Same
  <2> QED BY <2>1, <1>11, <1>12, CountingUp
<1>14. kept[m] = g[m]
  BY <1>3, <1>13 DEF Same
<1> QED BY <1>1, <1>8, <1>14

LEMMA KeepsOneWay ==
    ASSUME NEW s \in Seq(Nat), NEW q \in Seq(Nat), NEW last \in Nat,
           NEW g, NEW h, Keeps(g, s, last), Keeps(h, q, last),
           Len(s) <= Len(q), \A i \in 1..Len(s) : s[i] = q[i]
    PROVE  \A i \in 0..Len(s) : g[i] = h[i]
<1> DEFINE Same == {i \in Nat : i \in 0..Len(s) => g[i] = h[i]}
<1>1. 0 \in Same
  BY DEF Keeps
<1>2. ASSUME NEW i \in Same PROVE i + 1 \in Same
  <2> SUFFICES ASSUME i + 1 \in 0..Len(s) PROVE g[i + 1] = h[i + 1]
    OBVIOUS
  <2>1. i \in 0..Len(s) /\ i + 1 # 0 /\ i + 1 \in 1..Len(s) /\ i + 1 \in 0..Len(q)
        /\ (i + 1) - 1 = i /\ g[i] = h[i] /\ s[i + 1] = q[i + 1]
    OBVIOUS
  <2> QED BY <2>1 DEF Keeps
<1> HIDE DEF Same
<1>3. Same \subseteq Nat
  BY DEF Same
<1>4. Same = Nat
  BY <1>1, <1>2, <1>3, CountingUp
<1> QED BY <1>4 DEF Same

\* The loop on one more timestamp.
LEMMA WithinEmpty == \A last \in Nat : Within(<<>>, last) = <<>>
<1> SUFFICES ASSUME NEW last \in Nat PROVE Within(<<>>, last) = <<>>
  OBVIOUS
<1> DEFINE none == <<>>
<1>1. none \in Seq(Nat) /\ Len(none) = 0
  OBVIOUS
<1> HIDE DEF none
<1>2. PICK g : Keeps(g, none, last) /\ Within(none, last) = g[Len(none)]
  BY <1>1, LoopKeeps
<1>3. g[0] = <<>>
  BY <1>1, <1>2 DEF Keeps
<1> QED BY <1>1, <1>2, <1>3 DEF none

LEMMA WithinAppend ==
    ASSUME NEW q \in Seq(Nat), NEW x \in Nat, NEW last \in Nat
    PROVE  /\ Within(q, last) \in Seq(Nat)
           /\ Within(Append(q, x), last) =
                IF x <= last THEN Append(Within(q, last), x) ELSE Within(q, last)
<1> DEFINE r == Append(q, x)
<1>1. r \in Seq(Nat) /\ Len(r) = Len(q) + 1 /\ Len(q) \in Nat /\ r[Len(q) + 1] = x
      /\ \A i \in 1..Len(q) : q[i] = r[i]
  OBVIOUS
<1> HIDE DEF r
<1>2. PICK g : Keeps(g, q, last) /\ Within(q, last) = g[Len(q)]
  BY LoopKeeps
<1>3. PICK h : Keeps(h, r, last) /\ Within(r, last) = h[Len(r)]
  BY <1>1, LoopKeeps
<1>4. \A i \in 0..Len(q) : g[i] = h[i]
  BY <1>1, <1>2, <1>3, KeepsOneWay
<1>5. Len(r) \in 0..Len(r) /\ Len(r) # 0 /\ Len(r) - 1 = Len(q) /\ Len(q) \in 0..Len(q)
  BY <1>1
<1>6. h[Len(r)] = IF r[Len(r)] <= last THEN Append(h[Len(r) - 1], r[Len(r)]) ELSE h[Len(r) - 1]
  BY <1>3, <1>5 DEF Keeps
<1>7. h[Len(r)] = IF x <= last THEN Append(g[Len(q)], x) ELSE g[Len(q)]
  BY <1>1, <1>4, <1>5, <1>6
<1>8. g[Len(q)] \in Seq(Nat)
  BY <1>2, <1>5 DEF Keeps
<1> QED BY <1>2, <1>3, <1>7, <1>8 DEF r

\* To prune twice is to prune once, to the shorter window.
LEMMA WithinWithin ==
    ASSUME NEW far \in Nat, NEW near \in Nat, near <= far
    PROVE  \A q \in Seq(Nat) : Within(Within(q, far), near) = Within(q, near)
<1> DEFINE S == {q \in Seq(Nat) : Within(Within(q, far), near) = Within(q, near)}
<1>1. <<>> \in S
  BY WithinEmpty
<1>2. ASSUME NEW q \in S, NEW x \in Nat PROVE Append(q, x) \in S
  <2>1. q \in Seq(Nat) /\ Append(q, x) \in Seq(Nat) /\ Within(q, far) \in Seq(Nat)
    BY WithinAppend
  <2>2. Within(Within(q, far), near) = Within(q, near)
    OBVIOUS
  <2>3. CASE x <= far
    <3>1. Within(Append(q, x), far) = Append(Within(q, far), x)
      BY <2>1, <2>3, WithinAppend
    <3>2. Within(Append(Within(q, far), x), near) =
            IF x <= near THEN Append(Within(q, near), x) ELSE Within(q, near)
      BY <2>1, <2>2, WithinAppend
    <3>3. Within(Append(q, x), near) =
            IF x <= near THEN Append(Within(q, near), x) ELSE Within(q, near)
      BY <2>1, WithinAppend
    <3> QED BY <2>1, <3>1, <3>2, <3>3
  <2>4. CASE ~(x <= far)
    <3>1. ~(x <= near)
      BY <2>4
    <3> QED BY <2>1, <2>2, <2>4, <3>1, WithinAppend
  <2> QED BY <2>3, <2>4
<1> HIDE DEF S
<1>3. S \in SUBSET Seq(Nat)
  BY DEF S
<1>4. S = Seq(Nat)
  BY <1>1, <1>2, <1>3, AppendingUp
<1> QED BY <1>4 DEF S

LEMMA OlderAppend ==
    ASSUME NEW q \in Seq(Nat), NEW x \in Nat
    PROVE  Older(q) \in Seq(Nat) /\ Older(Append(q, x)) = Append(Older(q), x + 1)
<1>1. Older(q) \in Seq(Nat) /\ Len(Older(q)) = Len(q) /\ \A i \in 1..Len(q) : Older(q)[i] = q[i] + 1
  BY DEF Older
<1>2. /\ Append(q, x) \in Seq(Nat) /\ Len(Append(q, x)) = Len(q) + 1
      /\ Append(q, x)[Len(q) + 1] = x /\ \A i \in 1..Len(q) : Append(q, x)[i] = q[i]
  OBVIOUS
<1>3. /\ Older(Append(q, x)) \in Seq(Nat) /\ Len(Older(Append(q, x))) = Len(q) + 1
      /\ \A i \in 1..(Len(q) + 1) : Older(Append(q, x))[i] = Append(q, x)[i] + 1
  <2> HIDE DEF Older
  <2> DEFINE r == Append(q, x)
  <2>1. r \in Seq(Nat) /\ Len(r) = Len(q) + 1
    OBVIOUS
  <2> HIDE DEF r
  <2>2. Older(r) \in Seq(Nat) /\ Len(Older(r)) = Len(r) /\ \A i \in 1..Len(r) : Older(r)[i] = r[i] + 1
    BY <2>1 DEF Older
  <2> QED BY <2>1, <2>2 DEF r
<1>4. /\ Append(Older(q), x + 1) \in Seq(Nat) /\ Len(Append(Older(q), x + 1)) = Len(q) + 1
      /\ Append(Older(q), x + 1)[Len(q) + 1] = x + 1
      /\ \A i \in 1..Len(q) : Append(Older(q), x + 1)[i] = q[i] + 1
  BY <1>1
<1>5. ASSUME NEW i \in 1..(Len(q) + 1) PROVE Older(Append(q, x))[i] = Append(Older(q), x + 1)[i]
  <2>1. i = Len(q) + 1 \/ i \in 1..Len(q)
    OBVIOUS
  <2> QED BY <2>1, <1>2, <1>3, <1>4
<1>6. Older(Append(q, x)) = Append(Older(q), x + 1)
  <2>1. Len(q) \in Nat
    OBVIOUS
  <2> QED BY <2>1, <1>3, <1>4, <1>5, SeqEqual
<1> QED BY <1>1, <1>6

\* To prune and let a tick pass is to let it pass and prune.
LEMMA OlderWithin ==
    ASSUME NEW last \in Nat
    PROVE  \A q \in Seq(Nat) : Older(Within(q, last)) = Within(Older(q), last + 1)
<1> DEFINE S == {q \in Seq(Nat) : Older(Within(q, last)) = Within(Older(q), last + 1)}
<1>1. <<>> \in S
  <2>1. Older(<<>>) = <<>>
    BY DEF Older
  <2> QED BY <2>1, WithinEmpty
<1>2. ASSUME NEW q \in S, NEW x \in Nat PROVE Append(q, x) \in S
  <2>1. /\ q \in Seq(Nat) /\ Append(q, x) \in Seq(Nat) /\ Within(q, last) \in Seq(Nat)
        /\ Older(q) \in Seq(Nat) /\ last + 1 \in Nat /\ x + 1 \in Nat
    BY WithinAppend, OlderAppend
  <2>2. Older(Within(q, last)) = Within(Older(q), last + 1)
    OBVIOUS
  <2>3. x <= last <=> x + 1 <= last + 1
    OBVIOUS
  <2>4. Older(Append(q, x)) = Append(Older(q), x + 1)
    BY <2>1, OlderAppend
  <2>5. Within(Append(Older(q), x + 1), last + 1) =
          IF x <= last THEN Append(Within(Older(q), last + 1), x + 1) ELSE Within(Older(q), last + 1)
    BY <2>1, <2>3, WithinAppend
  <2>6. Older(Within(Append(q, x), last)) =
          IF x <= last THEN Append(Older(Within(q, last)), x + 1) ELSE Older(Within(q, last))
    BY <2>1, WithinAppend, OlderAppend
  <2> QED BY <2>1, <2>2, <2>4, <2>5, <2>6
<1> HIDE DEF S
<1>3. S \in SUBSET Seq(Nat)
  BY DEF S
<1>4. S = Seq(Nat)
  BY <1>1, <1>2, <1>3, AppendingUp
<1> QED BY <1>4 DEF S

LEMMA WithinShortens ==
    ASSUME NEW last \in Nat
    PROVE  \A q \in Seq(Nat) : Within(q, last) \in Seq(Nat) /\ Len(Within(q, last)) <= Len(q)
<1> DEFINE S == {q \in Seq(Nat) : Within(q, last) \in Seq(Nat) /\ Len(Within(q, last)) <= Len(q)}
<1>1. <<>> \in S
  <2>1. Within(<<>>, last) = <<>>
    BY WithinEmpty
  <2>2. <<>> \in Seq(Nat) /\ Len(<<>>) <= Len(<<>>)
    OBVIOUS
  <2> QED BY <2>1, <2>2
<1>2. ASSUME NEW q \in S, NEW x \in Nat PROVE Append(q, x) \in S
  <2>1. q \in Seq(Nat) /\ Within(q, last) \in Seq(Nat) /\ Len(Within(q, last)) <= Len(q)
    OBVIOUS
  <2>2. Within(Append(q, x), last) =
          IF x <= last THEN Append(Within(q, last), x) ELSE Within(q, last)
    BY <2>1, WithinAppend
  <2> HIDE DEF S
  <2>3. /\ Append(q, x) \in Seq(Nat) /\ Len(Append(q, x)) = Len(q) + 1
        /\ Append(Within(q, last), x) \in Seq(Nat)
        /\ Len(Append(Within(q, last), x)) = Len(Within(q, last)) + 1
        /\ Len(q) \in Nat /\ Len(Within(q, last)) \in Nat
    BY <2>1
  <2> DEFINE p == Append(q, x)
             w == Within(p, last)
  <2>4. p \in Seq(Nat) /\ w \in Seq(Nat) /\ Len(w) <= Len(p)
    BY <2>1, <2>2, <2>3
  <2> HIDE DEF p
  <2> QED BY <2>4 DEF S, p
<1> HIDE DEF S
<1>3. S \in SUBSET Seq(Nat)
  BY DEF S
<1>4. S = Seq(Nat)
  BY <1>1, <1>2, <1>3, AppendingUp
<1> QED BY <1>4 DEF S

-----------------------------------------------------------------------------
(* The limits.                                                             *)

\* What a window holds, of the timestamps still in it, is what it granted.
WindowsHoldGrants ==
    /\ stamps \in [Windows -> Seq(Nat)]
    /\ granted \in [Windows -> Seq(Nat)]
    /\ \A k \in Windows : Within(stamps[k], Span[k]) = granted[k]

WindowsInv == WindowsHoldGrants /\ WindowsRespected

LEMMA WindowsInit == LimiterInit => WindowsInv
  BY LimiterAssumption, WithinEmpty
  DEF LimiterInit, WindowsInv, WindowsHoldGrants, WindowsRespected

LEMMA CheckedWindow ==
    ASSUME WindowsInv, NEW k \in Windows, CheckRateLimit(k)
    PROVE  WindowsInv'
<1>1. Limit[k] \in Nat /\ Span[k] \in Nat /\ 0 <= Span[k]
  BY LimiterAssumption
<1>2. /\ stamps[k] \in Seq(Nat) /\ granted[k] \in Seq(Nat) /\ Pruned(k) = granted[k]
      /\ Len(granted[k]) <= Limit[k]
  BY DEF WindowsInv, WindowsHoldGrants, WindowsRespected, Pruned
<1>3. Within(granted[k], Span[k]) = granted[k]
  BY <1>1, <1>2, WithinWithin DEF Pruned
<1>4. Within(Append(granted[k], 0), Span[k]) = Append(granted[k], 0)
  BY <1>1, <1>2, <1>3, WithinAppend
<1> DEFINE now == IF Grants(k) THEN Append(granted[k], 0) ELSE granted[k]
<1>5. stamps' = [stamps EXCEPT ![k] = now] /\ granted' = [granted EXCEPT ![k] = now]
  BY <1>2 DEF CheckRateLimit
<1>6. now \in Seq(Nat) /\ Within(now, Span[k]) = now /\ Len(now) <= Limit[k]
  <2>1. CASE Grants(k)
    BY <1>1, <1>2, <1>4, <2>1 DEF Grants
  <2>2. CASE ~Grants(k)
    BY <1>2, <1>3, <2>2
  <2> QED BY <2>1, <2>2
<1> HIDE DEF now
<1> QED BY <1>5, <1>6 DEF WindowsInv, WindowsHoldGrants, WindowsRespected

LEMMA AgedWindows == ASSUME WindowsInv, Age PROVE WindowsInv'
<1> SUFFICES ASSUME NEW k \in Windows
             PROVE  /\ stamps'[k] \in Seq(Nat) /\ granted'[k] \in Seq(Nat)
                    /\ Within(stamps'[k], Span[k]) = granted'[k]
                    /\ Len(granted'[k]) <= Limit[k]
  BY DEF Age, WindowsInv, WindowsHoldGrants, WindowsRespected
<1> DEFINE s == stamps[k]
           g == granted[k]
           m == Span[k]
<1>1. /\ s \in Seq(Nat) /\ g \in Seq(Nat) /\ m \in Nat /\ m + 1 \in Nat /\ m <= m + 1
      /\ Within(s, m) = g /\ Len(g) \in Nat /\ Len(g) <= Limit[k] /\ Limit[k] \in Nat
  BY LimiterAssumption DEF WindowsInv, WindowsHoldGrants, WindowsRespected
<1>2. stamps'[k] = Within(Older(s), m + 1) /\ granted'[k] = Within(Older(g), m)
  BY DEF Age
<1> HIDE DEF s, g, m
<1>3. Older(s) \in Seq(Nat) /\ Older(g) \in Seq(Nat) /\ Len(Older(g)) = Len(g)
  <2>1. \A q \in Seq(Nat) : Older(q) \in Seq(Nat) /\ Len(Older(q)) = Len(q)
    BY DEF Older
  <2> QED BY <1>1, <2>1
<1>4. Older(g) = Within(Older(s), m + 1)
  BY <1>1, OlderWithin
<1>5. Within(Within(Older(s), m + 1), m) = Within(Older(s), m)
  BY <1>1, <1>3, WithinWithin
<1>6. Within(Older(g), m) \in Seq(Nat) /\ Len(Within(Older(g), m)) <= Len(Older(g))
      /\ Within(Older(s), m + 1) \in Seq(Nat)
  BY <1>1, <1>3, WithinShortens
<1> QED BY <1>1, <1>2, <1>3, <1>4, <1>5, <1>6 DEF m

LEMMA WindowsStep == WindowsInv /\ [Next]_vars => WindowsInv'
<1> SUFFICES ASSUME WindowsInv, [Next]_vars PROVE WindowsInv'
  OBVIOUS
<1>1. ASSUME UNCHANGED limiterVars PROVE WindowsInv'
  BY <1>1 DEF limiterVars, WindowsInv, WindowsHoldGrants, WindowsRespected
<1>2. ASSUME NEW w \in Workers, CheckHour(w) \/ CheckMinute(w) PROVE WindowsInv'
  BY <1>2, CheckedWindow DEF CheckHour, CheckMinute, Windows
<1>3. CASE Tick
  BY <1>3, AgedWindows DEF Tick
<1>4. CASE Restart
  BY <1>4, WindowsInit, LimiterAssumption, WithinEmpty
  DEF Restart, WindowsInv, WindowsHoldGrants, WindowsRespected
<1>5. ASSUME NEW w \in Workers, NEW r \in Rules,
             CheckPolicies(w) \/ Refuse(w, r) \/ Execute(w, r) \/ Skip(w) \/ Create(w)
               \/ Succeed(w) \/ Fail(w)
      PROVE  UNCHANGED limiterVars
  BY <1>5 DEF CheckPolicies, Refuse, Execute, Skip, Create, Succeed, Fail
<1>6. ASSUME NEW w \in Workers, CheckPolicies(w) \/ Skip(w) \/ Create(w) \/ Succeed(w) \/ Fail(w)
      PROVE  UNCHANGED limiterVars
  BY <1>6 DEF CheckPolicies, Skip, Create, Succeed, Fail
<1>7. ASSUME NEW w \in Workers, NEW triggered \in SUBSET Rules, Receive(w, triggered)
      PROVE  UNCHANGED limiterVars
  BY <1>7 DEF Receive
<1>8. ASSUME NEW r \in Rules, ShowStats(r) PROVE UNCHANGED limiterVars
  BY <1>8 DEF ShowStats
<1>9. CASE UNCHANGED vars
  BY <1>1, <1>9 DEF vars, limiterVars
<1> QED BY <1>1, <1>2, <1>3, <1>4, <1>5, <1>6, <1>7, <1>8, <1>9 DEF Next, Process

\* No stretch of time as long as a window sees more grants than its limit, whatever
\* the limits and the windows (CheckRateLimit in ratelimit.go).
THEOREM WindowsKept == Spec => []WindowsRespected
<1>1. WindowsInv => WindowsRespected
  BY DEF WindowsInv
<1> QED BY WindowsInit, WindowsStep, <1>1, PTL DEF Spec, Init

\* A check that refuses finds its window full.
LEMMA RefusedWhenFull ==
    ASSUME Breaker, WindowsInv, NEW w \in Workers, NEW k \in Windows, At(w, k),
           CheckHour(w) \/ CheckMinute(w), worker'[w].pc = "idle"
    PROVE  Len(granted[k]) = Limit[k]
<1>1. /\ \/ k = "hour" /\ CheckHour(w)
         \/ k = "minute" /\ CheckMinute(w)
      /\ worker[w] \in WorkerType
  BY DEF CheckHour, CheckMinute, At, Windows, Breaker, WorkersTyped
<1>2. ASSUME Grants(k) PROVE FALSE
  <2>1. PICK pc \in {"minute", "policy"} : Goto(w, pc)
    BY <1>1, <1>2 DEF CheckHour, CheckMinute
  <2>2. worker'[w] = [worker[w] EXCEPT !.pc = pc]
    BY <2>1 DEF Goto, Become, Breaker, WorkersTyped
  <2> QED BY <1>1, <2>2 DEF WorkerType
<1>3. /\ Pruned(k) = granted[k] /\ granted[k] \in Seq(Nat)
      /\ Len(granted[k]) <= Limit[k] /\ Limit[k] \in Nat
  BY LimiterAssumption DEF WindowsInv, WindowsHoldGrants, WindowsRespected, Pruned
<1> QED BY <1>2, <1>3 DEF Grants

\* The steps that leave a worker at its limit there.
LEMMA OthersWait ==
    ASSUME Breaker, Next, ~Restart, NEW w \in Workers, worker[w].pc \in Windows,
           ~(CheckHour(w) \/ CheckMinute(w))
    PROVE  worker'[w].pc = worker[w].pc
<1>0. worker \in [Workers -> WorkerType] /\ worker[w].pc \in {"hour", "minute"}
  BY DEF Breaker, WorkersTyped, Windows
<1>1. ASSUME NEW v \in Workers, v # w, NEW q, Become(v, q) PROVE worker'[w].pc = worker[w].pc
  BY <1>0, <1>1 DEF Become
<1>2. ASSUME NEW v \in Workers, v # w, CheckHour(v) \/ CheckMinute(v)
      PROVE  \E q : Become(v, q)
  BY <1>2 DEF CheckHour, CheckMinute, Goto, Done
<1>3. ASSUME NEW v \in Workers, CheckPolicies(v) \/ Skip(v) \/ Create(v)
      PROVE  v # w /\ \E q : Become(v, q)
  BY <1>0, <1>3 DEF CheckPolicies, Skip, Create, At, Goto, Done
<1>4. ASSUME NEW v \in Workers, NEW r \in Rules, Refuse(v, r) \/ Execute(v, r)
      PROVE  v # w /\ \E q : Become(v, q)
  BY <1>0, <1>4 DEF Refuse, Execute, At
<1>5. ASSUME NEW v \in Workers, Succeed(v) \/ Fail(v) PROVE worker'[w].pc = worker[w].pc
  <2>1. v # w /\ worker' = Ended(v, worker[v].rule)
    BY <1>0, <1>5 DEF Succeed, Fail, At
  <2>2. worker'[w] = IF worker[w].rule = worker[v].rule THEN [worker[w] EXCEPT !.probe = FALSE]
                                                        ELSE worker[w]
    BY <2>1 DEF Ended
  <2> QED BY <1>0, <2>2 DEF WorkerType
<1>6. ASSUME NEW v \in Workers, NEW triggered \in SUBSET Rules, Receive(v, triggered)
      PROVE  v # w /\ \E q : Become(v, q)
  BY <1>0, <1>6 DEF Receive, At
<1>7. ASSUME \/ \E r \in Rules : ShowStats(r)
             \/ Tick
      PROVE  worker'[w].pc = worker[w].pc
  BY <1>7 DEF ShowStats, Tick
<1>8. PICK v \in Workers : \/ Process(v)
                          \/ \E triggered \in SUBSET Rules : Receive(v, triggered)
                          \/ worker'[w].pc = worker[w].pc
  BY <1>7 DEF Next
<1> QED BY <1>1, <1>2, <1>3, <1>4, <1>5, <1>6, <1>8 DEF Process

\* No event is refused without cause, whatever the limits and the windows: together
\* with WindowsKept, a limit grants exactly what it says (CheckRateLimit).
THEOREM RefusalsHaveCause == Spec => RefusedOnlyWhenFull
<1>1. Breaker /\ WindowsInv /\ [Next]_vars
      => [Restart \/ \A w \in Workers, k \in Windows :
             At(w, k) /\ worker'[w].pc = "idle" => Len(granted[k]) = Limit[k]]_vars
  <2> SUFFICES ASSUME Breaker, WindowsInv, Next, ~Restart, NEW w \in Workers, NEW k \in Windows,
                      At(w, k), worker'[w].pc = "idle"
               PROVE  Len(granted[k]) = Limit[k]
    OBVIOUS
  <2>1. worker[w].pc = k /\ k # "idle"
    BY DEF At, Windows
  <2> QED BY <2>1, RefusedWhenFull, OthersWait
<1>2. Spec => []WindowsInv
  BY WindowsInit, WindowsStep, PTL DEF Spec, Init
<1> QED BY <1>1, <1>2, BreakerInvariant, PTL DEF Spec, RefusedOnlyWhenFull

-----------------------------------------------------------------------------
\* Circuits, windows and the events under way keep to their types, a circuit's
\* failures and its cooldown to their bounds.
THEOREM GatesTypeCorrect == Spec => []TypeOK
<1>1. Breaker /\ WindowsInv => TypeOK
  BY DEF Breaker, CircuitTyped, WorkersTyped, WindowsInv, WindowsHoldGrants, TypeOK
<1>2. Spec => []WindowsInv
  BY WindowsInit, WindowsStep, PTL DEF Spec, Init
<1> QED BY <1>1, <1>2, BreakerInvariant, PTL
=============================================================================

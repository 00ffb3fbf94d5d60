--------------------------- MODULE CircuitBreaker ---------------------------
(***************************************************************************)
(* The circuit breaker of the automation engine: one entry per rule, kept  *)
(* in memory behind a mutex, so every operation is one step.               *)
(*                                                                         *)
(* The failure count is only ever reset or compared with MaxFailures: it   *)
(* stops there.  `cool` is what is left of the cooldown since openedAt.    *)
(***************************************************************************)
EXTENDS Naturals

CONSTANTS
    Rules,          \* names of the automation rules
    MaxFailures,    \* consecutive failures that open a circuit
    Cooldown        \* ticks a circuit stays open before a probe

ASSUME BreakerAssumption == MaxFailures \in Nat \ {0} /\ Cooldown \in Nat

VARIABLE circuit    \* the entry of each rule

CircuitState == {"closed", "open", "half_open"}
Entry == [state : CircuitState, failures : 0..MaxFailures, cool : 0..Cooldown]

Closed == [state |-> "closed", failures |-> 0, cool |-> 0]

CircuitInit == circuit = [r \in Rules |-> Closed]

\* Slip: the cooldown runs below zero.
CoolDownPast(e) == [e EXCEPT !.cool = @ - 1]

CoolDown(e) == [e EXCEPT !.cool = IF @ > 0 THEN @ - 1 ELSE 0]

\* From open to half-open once the cooldown has elapsed.
HalfOpen(e) == IF e.state = "open" /\ e.cool = 0
               THEN [e EXCEPT !.state = "half_open"]
               ELSE e

\* Slip: a half-open circuit lets everything through.
AllowsHalfOpen(r) == circuit[r].state # "open" \/ circuit[r].cool = 0

\* A closed circuit lets everything through, an open one whose cooldown has
\* elapsed lets one probe through, a half-open one nothing.
Allows(r) ==
    \/ circuit[r].state = "closed"
    \/ circuit[r].state = "open" /\ circuit[r].cool = 0

\* AllowExecution, whose answer is Allows(r).
AllowExecution(r) == circuit' = [circuit EXCEPT ![r] = HalfOpen(@)]

\* GetState makes the same transition, and lets nothing through.
GetState(r) == circuit' = [circuit EXCEPT ![r] = HalfOpen(@)]

\* Slip: the count of failures goes on.
RecordSuccessCounting(r) == circuit' = [circuit EXCEPT ![r].state = "closed"]

\* From any state.
RecordSuccess(r) == circuit' = [circuit EXCEPT ![r] = Closed]

Trips(r) ==
    \/ circuit[r].state = "half_open"
    \/ circuit[r].state = "closed" /\ circuit[r].failures + 1 >= MaxFailures

\* A failure counted while the circuit is open does not extend the cooldown.
RecordFailure(r) ==
    LET counted == IF circuit[r].failures < MaxFailures
                   THEN circuit[r].failures + 1 ELSE MaxFailures
    IN circuit' = [circuit EXCEPT ![r] =
                     IF Trips(r)
                     THEN [state |-> "open", failures |-> counted, cool |-> Cooldown]
                     ELSE [@ EXCEPT !.failures = counted]]
=============================================================================

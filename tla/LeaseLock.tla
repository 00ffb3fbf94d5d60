----------------------------- MODULE LeaseLock ------------------------------
(***************************************************************************)
(* What the lease table promises to the agents: an exclusive lock per task *)
(* that may be lost at any moment (released, or left to expire) but never  *)
(* changes hands while it is held.  A lease id is the token an agent holds.*)
(***************************************************************************)
CONSTANTS Tasks, LeaseIds, Free

VARIABLE holder     \* the lease id under which each task is held, or Free

Init == holder = [t \in Tasks |-> Free]

\* A free task is granted to a token that holds nothing.
Grant(t, l) ==
    /\ holder[t] = Free
    /\ \A u \in Tasks : holder[u] # l
    /\ holder' = [holder EXCEPT ![t] = l]

\* Any set of tasks loses its holders: one release, or one tick of the clock.
Lapse(S) == holder' = [t \in Tasks |-> IF t \in S THEN Free ELSE holder[t]]

Next ==
    \/ \E t \in Tasks, l \in LeaseIds : Grant(t, l)
    \/ \E S \in SUBSET Tasks : Lapse(S)

Spec == Init /\ [][Next]_holder
=============================================================================

---------------------------- MODULE RateLimiter -----------------------------
(***************************************************************************)
(* The sliding window rate limiter in front of the automation rules: two   *)
(* windows for a project, an hour and a minute, each with its timestamps.  *)
(*                                                                         *)
(* A timestamp is kept as its age, oldest first.  A check prunes the ages  *)
(* past the window before it does anything else; they are forgotten one    *)
(* tick later in any case, so that ages stay bounded.                      *)
(***************************************************************************)
EXTENDS Naturals, Sequences

CONSTANTS
    Limit,      \* requests a window takes: [hour |-> .., minute |-> ..]
    Span        \* its length in ticks

Windows == {"hour", "minute"}

ASSUME LimiterAssumption == Limit \in [Windows -> Nat] /\ Span \in [Windows -> Nat]

VARIABLES
    stamps,     \* the timestamps each window holds
    granted     \* history: every request granted in the last Span[k] ticks

limiterVars == <<stamps, granted>>

LimiterInit ==
    /\ stamps = [k \in Windows |-> <<>>]
    /\ granted = [k \in Windows |-> <<>>]

\* Slip: the window excludes its far end.
PrunedEarly(k) == SelectSeq(stamps[k], LAMBDA age : age < Span[k])

\* The loop that keeps the ages up to `last`: SelectSeq, written so that a proof
\* can follow it.
Within(seq, last) ==
    LET kept[i \in 0..Len(seq)] ==
          IF i = 0 THEN <<>>
          ELSE IF seq[i] <= last THEN Append(kept[i - 1], seq[i])
          ELSE kept[i - 1]
    IN  kept[Len(seq)]

\* Timestamps that are not before now - window stay.
Pruned(k) == Within(stamps[k], Span[k])

Grants(k) == Len(Pruned(k)) < Limit[k]

\* Slip: a request refused is recorded too.
RecordRefused(k) ==
    /\ stamps' = [stamps EXCEPT ![k] = Append(Pruned(k), 0)]
    /\ granted' = [granted EXCEPT ![k] = IF Grants(k) THEN Append(@, 0) ELSE @]

\* CheckRateLimit: a request refused is not recorded.
CheckRateLimit(k) ==
    /\ stamps' = [stamps EXCEPT ![k] = IF Grants(k) THEN Append(Pruned(k), 0)
                                                    ELSE Pruned(k)]
    /\ granted' = [granted EXCEPT ![k] = IF Grants(k) THEN Append(@, 0) ELSE @]

Older(seq) == [i \in DOMAIN seq |-> seq[i] + 1]

\* One tick older.
Age ==
    /\ stamps' = [k \in Windows |-> Within(Older(stamps[k]), Span[k] + 1)]
    /\ granted' = [k \in Windows |-> Within(Older(granted[k]), Span[k])]
=============================================================================

---------------------------- MODULE EngineProofs ----------------------------
(***************************************************************************)
(* The parts behind the automation engine, each for any number of requests,*)
(* policies, chains of events, packs, planning cycles and workstreams:     *)
(* blocks, quotas and the shortest rate limit hold, the rows of files      *)
(* settle, packs that pass for fresh are current, cycles are numbered      *)
(* without gaps, deleted workstreams stay deleted, titles are planned once,*)
(* and every variable of the five parts keeps to its type and its bounds.  *)
(***************************************************************************)
EXTENDS AutomationProofs, FollowUpsProofs, FunctionTheorems

-----------------------------------------------------------------------------
(* Policies.                                                               *)

\* Where a request may be, and what the engine has of one.
InFlight == {"rules", "record", "blocks", "insert"}
Request == [pc : InFlight \cup {"idle", "edit"}, ts : Nat, todo : SUBSET Policies,
            ok : BOOLEAN, clear : BOOLEAN, on : {"off", "on"}]

\* What the rest needs of the type invariant.
RequestTypes ==
    /\ request \in [Workers -> Request]
    /\ policy \in [Policies -> {"absent", "off", "on"}]
    /\ now \in Nat

\* An edit has one policy in hand, and a rate limit is recorded for a rate limit.
RequestsFit ==
    \A c \in Workers :
        /\ request[c].pc = "edit" => \E p \in Policies \cap Editable : request[c].todo = {p}
        /\ request[c].pc = "record" =>
              Policy!Type(Policy!Min(request[c].todo)) = "rate_limit"
        /\ request[c].pc \in {"blocks", "insert"} => request[c].ok /\ request[c].todo = {}

\* Become is a move.
LEMMA RequestsMove ==
    ASSUME RequestTypes, NEW c \in Workers, NEW q \in Request, Policy!Become(c, q)
    PROVE  /\ request' \in [Workers -> Request]
           /\ request'[c] = q
           /\ \A d \in Workers : d # c => request'[d] = request[d]
  BY DEF RequestTypes, Policy!Become

\* A request is somewhere else.
Comes(c, q) ==
    /\ request' \in [Workers -> Request]
    /\ request'[c] = q
    /\ \A d \in Workers : d # c => request'[d] = request[d]

\* An idle request is well formed.
LEMMA IdleRequest ==
    /\ Policy!Idle \in Request /\ Policy!Idle.pc = "idle" /\ Policy!Idle.clear = TRUE
    /\ Policy!Idle.ts = 0
  BY DEF Policy!Idle, Request

\* What is known of a request.
LEMMA RequestTyped ==
    ASSUME RequestTypes, NEW c \in Workers
    PROVE  /\ request[c] \in Request
           /\ request[c].pc \in InFlight \cup {"idle", "edit"}
           /\ request[c].todo \subseteq Policies
           /\ request[c].ok \in BOOLEAN
           /\ request[c].clear \in BOOLEAN
<1>1. request[c] \in Request
  BY DEF RequestTypes
<1> QED BY <1>1 DEF Request

-----------------------------------------------------------------------------
(* What each step does.                                                    *)

\* A request arrives: it has all enabled policies before it.
LEMMA Arrived ==
    ASSUME RequestTypes, NEW c \in Workers, Policy!Arrive(c)
    PROVE  \E q \in Request : /\ Comes(c, q) /\ q.pc = "rules" /\ q.todo = Policy!Enabled
                              /\ q.clear = ~Policy!InForce(policy) /\ q.ts = now
<1> DEFINE clear == ~Policy!InForce(policy)
           q == [Policy!Idle EXCEPT !.pc = "rules", !.ts = now, !.todo = Policy!Enabled,
                                    !.clear = clear]
<1>1. Policy!Become(c, q)
  BY DEF Policy!Arrive
<1>2. clear \in BOOLEAN /\ Policy!Enabled \subseteq Policies /\ now \in Nat
  BY DEF Policy!InForce, Policy!Enabled, RequestTypes
<1> HIDE DEF clear
<1>3. q \in Request /\ q.pc = "rules" /\ q.todo = Policy!Enabled /\ q.clear = clear
        /\ q.ts = now
  BY <1>2, IdleRequest DEF Request, InFlight
<1> HIDE DEF q
<1> QED BY <1>1, <1>3, RequestsMove DEF Comes, clear

\* A request arrives that nothing is put to.
LEMMA ArrivedUnread ==
    ASSUME RequestTypes, NEW c \in Workers, Policy!ArriveUnread(c)
    PROVE  \E q \in Request : /\ Comes(c, q) /\ q.pc = "blocks" /\ q.todo = {} /\ q.ok = TRUE
                              /\ q.clear = ~Policy!InForce(policy) /\ q.ts = now
<1> DEFINE clear == ~Policy!InForce(policy)
           q == [Policy!Idle EXCEPT !.pc = "blocks", !.ts = now, !.clear = clear]
<1>1. Policy!Become(c, q)
  BY DEF Policy!ArriveUnread
<1>2. clear \in BOOLEAN /\ now \in Nat
  BY DEF Policy!InForce, RequestTypes
<1> HIDE DEF clear
<1>3. q \in Request /\ q.pc = "blocks" /\ q.todo = {} /\ q.ok = TRUE /\ q.clear = clear
        /\ q.ts = now
  BY <1>2, IdleRequest DEF Request, InFlight, Policy!Idle
<1> HIDE DEF q
<1> QED BY <1>1, <1>3, RequestsMove DEF Comes, clear

\* A quota lets a request pass that it could not count for.
LEMMA EvaluatedUnread ==
    ASSUME RequestTypes, NEW c \in Workers, Policy!EvaluateUnread(c)
    PROVE  \E q \in Request :
              /\ Comes(c, q) /\ q.pc = "rules" /\ q.todo \subseteq request[c].todo
              /\ q.ok = request[c].ok /\ q.clear = request[c].clear /\ q.ts = request[c].ts
<1> DEFINE p == Policy!Min(request[c].todo)
           todo == request[c].todo \ {p}
           q == [request[c] EXCEPT !.todo = todo]
<1>1. request[c].pc = "rules" /\ request[c] \in Request /\ request[c].todo \subseteq Policies
  BY RequestTyped DEF Policy!EvaluateUnread, Policy!At
<1>2. Policy!Become(c, q)
  BY DEF Policy!EvaluateUnread
<1>3. q \in Request /\ q.pc = "rules" /\ q.todo = todo /\ q.ok = request[c].ok
        /\ q.clear = request[c].clear /\ q.ts = request[c].ts
  BY <1>1 DEF Request
<1> HIDE DEF q
<1> QED BY <1>2, <1>3, RequestsMove DEF Comes

\* A policy is evaluated: it lets the request pass, or ends it.
LEMMA Evaluated ==
    ASSUME RequestTypes, NEW c \in Workers, Policy!Evaluate(c)
    PROVE  \E q \in Request : \E p :
              /\ Comes(c, q) /\ p = Policy!Min(request[c].todo)
              /\ q.clear = request[c].clear /\ q.ts = request[c].ts
              /\ \/ /\ q.pc = "rules" /\ q.todo = request[c].todo \ {p}
                    /\ q.ok => request[c].ok
                    /\ q.ok /\ Policy!Type(p) = "resource_quota" =>
                          ~Policy!QuotaReached(RuleOf[p])
                 \/ /\ q.pc = "record" /\ q.todo = request[c].todo /\ q.ok = request[c].ok
                    /\ Policy!Type(p) = "rate_limit"
                    /\ ~(Policy!Count(request[c].ts, RuleOf[p].window) >= RuleOf[p].limit)
<1> DEFINE p == Policy!Min(request[c].todo)
           todo == request[c].todo \ {p}
           ok == request[c].ok /\ Policy!Allows(p, request[c].ts)
           stays == [request[c] EXCEPT !.todo = todo, !.ok = ok]
           fails == [request[c] EXCEPT !.todo = todo, !.ok = FALSE]
           records == [request[c] EXCEPT !.pc = "record"]
           full == Policy!Count(request[c].ts, RuleOf[p].window) >= RuleOf[p].limit
<1>1. request[c].pc = "rules" /\ request[c] \in Request /\ request[c].todo \subseteq Policies
  BY RequestTyped DEF Policy!Evaluate, Policy!At
<1>2. \/ Policy!Become(c, stays) /\ Policy!Type(p) # "rate_limit"
      \/ Policy!Become(c, fails)
      \/ Policy!Become(c, records) /\ Policy!Type(p) = "rate_limit" /\ ~full
  BY DEF Policy!Evaluate
<1>3. ok \in BOOLEAN /\ todo \subseteq Policies
  BY <1>1, RequestTyped
<1>4. ok => /\ request[c].ok
            /\ Policy!Type(p) = "resource_quota" => ~Policy!QuotaReached(RuleOf[p])
  BY DEF Policy!Allows
<1> HIDE DEF ok, full
<1>5. CASE Policy!Become(c, stays)
  <2>1. stays \in Request /\ stays.pc = "rules" /\ stays.todo = todo /\ stays.ok = ok
        /\ stays.clear = request[c].clear /\ stays.ts = request[c].ts
    BY <1>1, <1>3 DEF Request
  <2> QED BY <1>4, <1>5, <2>1, RequestsMove DEF Comes
<1>6. CASE Policy!Become(c, fails)
  <2>1. fails \in Request /\ fails.pc = "rules" /\ fails.todo = todo /\ fails.ok = FALSE
        /\ fails.clear = request[c].clear /\ fails.ts = request[c].ts
    BY <1>1, <1>3 DEF Request
  <2> QED BY <1>6, <2>1, RequestsMove DEF Comes
<1>7. CASE Policy!Become(c, records) /\ Policy!Type(p) = "rate_limit" /\ ~full
  <2>1. records \in Request /\ records.pc = "record" /\ records.todo = request[c].todo
        /\ records.ok = request[c].ok /\ records.clear = request[c].clear
        /\ records.ts = request[c].ts
    BY <1>1 DEF Request, InFlight
  <2> QED BY <1>7, <2>1, RequestsMove DEF Comes, full
<1> QED BY <1>2, <1>5, <1>6, <1>7

\* A rate limit counts the request.
LEMMA Recorded ==
    ASSUME RequestTypes, NEW c \in Workers, Policy!Record(c)
    PROVE  \E q \in Request :
              /\ Comes(c, q) /\ q.pc = "rules" /\ q.ok = request[c].ok
              /\ q.todo = request[c].todo \ {Policy!Min(request[c].todo)}
              /\ q.clear = request[c].clear /\ q.ts = request[c].ts
<1> DEFINE todo == request[c].todo \ {Policy!Min(request[c].todo)}
           q == [request[c] EXCEPT !.pc = "rules", !.todo = todo]
<1>1. Policy!Become(c, q)
  BY DEF Policy!Record
<1>2. request[c] \in Request /\ todo \subseteq Policies
  BY RequestTyped
<1> HIDE DEF todo
<1>3. q \in Request /\ q.pc = "rules" /\ q.ok = request[c].ok /\ q.todo = todo
      /\ q.clear = request[c].clear /\ q.ts = request[c].ts
  BY <1>2 DEF Request, InFlight
<1> HIDE DEF q
<1> QED BY <1>1, <1>3, RequestsMove DEF Comes, todo

\* A request goes on to the handler, or on to the INSERT.
LEMMA GoesOn ==
    ASSUME RequestTypes, NEW c \in Workers, NEW pc \in InFlight,
           Policy!Become(c, [request[c] EXCEPT !.pc = pc])
    PROVE  \E q \in Request :
              /\ Comes(c, q) /\ q.pc = pc /\ q.ok = request[c].ok
              /\ q.todo = request[c].todo /\ q.clear = request[c].clear
              /\ q.ts = request[c].ts
<1> DEFINE q == [request[c] EXCEPT !.pc = pc]
<1>1. q \in Request /\ q.pc = pc /\ q.ok = request[c].ok
      /\ q.todo = request[c].todo /\ q.clear = request[c].clear /\ q.ts = request[c].ts
  BY RequestTyped DEF Request, InFlight
<1> HIDE DEF q
<1> QED BY <1>1, RequestsMove DEF Comes, q

\* An edit reads the row of its policy.
LEMMA EditRead ==
    ASSUME RequestTypes, NEW c \in Workers, NEW p \in Policies, NEW state \in {"off", "on"},
           Policy!ReadPolicy(c, p, state)
    PROVE  \E q \in Request : /\ Comes(c, q) /\ q.pc = "edit" /\ q.todo = {p} /\ q.ts = 0
                              /\ p \in Editable
<1> DEFINE q == [Policy!Idle EXCEPT !.pc = "edit", !.todo = {p}, !.on = state]
<1>1. q \in Request /\ q.pc = "edit" /\ q.todo = {p} /\ q.ts = 0
  BY IdleRequest DEF Request, InFlight
<1>2. Policy!Become(c, q) /\ p \in Editable
  BY DEF Policy!ReadPolicy
<1> HIDE DEF q
<1> QED BY <1>1, <1>2, IdleRequest, RequestsMove DEF Comes

\* A write to the table leaves the requests where they are.
LEMMA PolicySet ==
    ASSUME RequestTypes, NEW p \in Policies, NEW state \in {"absent", "off", "on"},
           NEW req \in [Workers -> Request], Policy!SetPolicy(p, state, req)
    PROVE  /\ request' \in [Workers -> Request]
           /\ policy' \in [Policies -> {"absent", "off", "on"}]
           /\ \A o \in Policies : o # p => policy'[o] = policy[o]
           /\ \A c \in Workers :
                 /\ request'[c].pc = req[c].pc
                 /\ request'[c].todo = req[c].todo
                 /\ request'[c].ok = req[c].ok
                 /\ request'[c].ts = req[c].ts
                 /\ request'[c].clear = (req[c].clear \/ ~Policy!InForce(policy'))
<1>1. policy' \in [Policies -> {"absent", "off", "on"}]
      /\ \A o \in Policies : o # p => policy'[o] = policy[o]
  BY DEF Policy!SetPolicy, RequestTypes
<1>2. ASSUME NEW c \in Workers
      PROVE  /\ request'[c] \in Request
             /\ request'[c].pc = req[c].pc
             /\ request'[c].todo = req[c].todo
             /\ request'[c].ok = req[c].ok
             /\ request'[c].ts = req[c].ts
             /\ request'[c].clear = (req[c].clear \/ ~Policy!InForce(policy'))
  <2> DEFINE clear == req[c].clear \/ ~Policy!InForce(policy')
  <2>1. request'[c] = [req[c] EXCEPT !.clear = clear] /\ req[c] \in Request
    BY DEF Policy!SetPolicy
  <2>2. clear \in BOOLEAN
    BY <2>1 DEF Policy!InForce, Request
  <2> HIDE DEF clear
  <2>3. /\ request'[c] \in Request
        /\ request'[c].pc = req[c].pc
        /\ request'[c].todo = req[c].todo
        /\ request'[c].ok = req[c].ok
        /\ request'[c].ts = req[c].ts
        /\ request'[c].clear = clear
    BY <2>1, <2>2 DEF Request
  <2> QED BY <2>3 DEF clear
<1>3. request' = [c \in Workers |-> request'[c]]
  BY DEF Policy!SetPolicy
<1> QED BY <1>1, <1>2, <1>3

\* The first of one policy is that policy.
LEMMA MinOfOne == ASSUME NEW p \in Nat PROVE Policy!Min({p}) = p
<1>1. \E x \in {p} : \A y \in {p} : x <= y
  OBVIOUS
<1>2. (CHOOSE x \in {p} : \A y \in {p} : x <= y) \in {p}
  BY <1>1
<1> QED BY <1>2 DEF Policy!Min

\* What is written back is the one policy that was read.
LEMMA PolicyWritten ==
    ASSUME PoliciesNumbered, RequestTypes, RequestsFit, NEW c \in Workers, Policy!WritePolicy(c)
    PROVE  /\ request' \in [Workers -> Request]
           /\ policy' \in [Policies -> {"absent", "off", "on"}]
           /\ \A o \in Policies \ Editable : policy'[o] = policy[o]
           /\ request'[c].pc = "idle" /\ request'[c].ts = 0
           /\ \A d \in Workers : d # c =>
                 /\ request'[d].pc = request[d].pc
                 /\ request'[d].todo = request[d].todo
                 /\ request'[d].ok = request[d].ok
                 /\ request'[d].ts = request[d].ts
                 /\ request'[d].clear = (request[d].clear \/ ~Policy!InForce(policy'))
<1> DEFINE req == [request EXCEPT ![c] = Policy!Idle]
           state == IF policy[Policy!Min(request[c].todo)] = "absent" THEN "absent"
                    ELSE request[c].on
<1>1. PICK p \in Policies \cap Editable : request[c].todo = {p}
  BY DEF Policy!WritePolicy, Policy!At, RequestsFit
<1>2. Policy!Min(request[c].todo) = p
  BY <1>1, MinOfOne DEF PoliciesNumbered
<1>3. req \in [Workers -> Request] /\ req[c] = Policy!Idle
      /\ \A d \in Workers : d # c => req[d] = request[d]
  BY IdleRequest DEF RequestTypes
<1>4. state \in {"absent", "off", "on"}
  BY RequestTyped DEF Request
<1>5. Policy!SetPolicy(p, state, req)
  BY <1>2 DEF Policy!WritePolicy
<1> HIDE DEF req, state
<1> QED BY <1>1, <1>3, <1>4, <1>5, IdleRequest, PolicySet

\* Every step keeps the types.
LEMMA RequestTypesStay ==
    ASSUME PoliciesNumbered, RequestTypes, RequestsFit, [Policy!Next]_(Policy!vars)
    PROVE  RequestTypes' /\ RequestsFit'
<1>1. ASSUME NEW c \in Workers, NEW q \in Request, Comes(c, q), policy' = policy, now' = now,
             q.pc = "edit" => \E p \in Policies \cap Editable : q.todo = {p},
             q.pc = "record" => Policy!Type(Policy!Min(q.todo)) = "rate_limit",
             q.pc \in {"blocks", "insert"} => q.ok /\ q.todo = {}
      PROVE  RequestTypes' /\ RequestsFit'
  <2>1. RequestTypes'
    BY <1>1 DEF RequestTypes, Comes
  <2>2. RequestsFit'
    BY <1>1 DEF RequestsFit, Comes
  <2> QED BY <2>1, <2>2
<1>2. ASSUME NEW c \in Workers, Policy!Arrive(c) PROVE RequestTypes' /\ RequestsFit'
  BY <1>1, <1>2, Arrived DEF Policy!Arrive
<1>15. ASSUME NEW c \in Workers, Policy!ArriveUnread(c) PROVE RequestTypes' /\ RequestsFit'
  BY <1>1, <1>15, ArrivedUnread DEF Policy!ArriveUnread
<1>16. ASSUME NEW c \in Workers, Policy!EvaluateUnread(c) PROVE RequestTypes' /\ RequestsFit'
  BY <1>1, <1>16, EvaluatedUnread DEF Policy!EvaluateUnread
<1>3. ASSUME NEW c \in Workers, Policy!Evaluate(c) PROVE RequestTypes' /\ RequestsFit'
  <2>1. policy' = policy /\ now' = now
    BY <1>3 DEF Policy!Evaluate
  <2>2. PICK q \in Request :
              /\ Comes(c, q)
              /\ \/ q.pc = "rules"
                 \/ q.pc = "record" /\ q.todo = request[c].todo
                    /\ Policy!Type(Policy!Min(request[c].todo)) = "rate_limit"
    BY <1>3, Evaluated
  <2> QED BY <1>1, <2>1, <2>2
<1>4. ASSUME NEW c \in Workers, Policy!Record(c) PROVE RequestTypes' /\ RequestsFit'
  BY <1>1, <1>4, Recorded DEF Policy!Record
<1>5. ASSUME NEW c \in Workers, Policy!Done(c), policy' = policy, now' = now
      PROVE  RequestTypes' /\ RequestsFit'
  <2>1. Comes(c, Policy!Idle)
    BY <1>5, IdleRequest, RequestsMove DEF Policy!Done, Comes
  <2> QED BY <1>1, <1>5, <2>1, IdleRequest
<1>6. ASSUME NEW c \in Workers, Policy!Decide(c) PROVE RequestTypes' /\ RequestsFit'
  <2>1. CASE ~request[c].ok
    BY <1>5, <1>6, <2>1 DEF Policy!Decide
  <2>2. CASE request[c].ok
    <3>1. /\ Policy!Become(c, [request[c] EXCEPT !.pc = "blocks"])
          /\ policy' = policy /\ now' = now /\ request[c].todo = {}
      BY <1>6, <2>2 DEF Policy!Decide
    <3>2. \E q \in Request :
              /\ Comes(c, q) /\ q.pc = "blocks" /\ q.ok = request[c].ok
              /\ q.todo = request[c].todo
      BY <3>1, GoesOn DEF InFlight
    <3> QED BY <1>1, <2>2, <3>1, <3>2
  <2> QED BY <2>1, <2>2
<1>7. ASSUME NEW c \in Workers, Policy!CheckBlocks(c) PROVE RequestTypes' /\ RequestsFit'
  <2>1. CASE Policy!Done(c)
    BY <1>5, <1>7, <2>1 DEF Policy!CheckBlocks
  <2>2. CASE ~Policy!Done(c)
    <3>1. /\ Policy!Become(c, [request[c] EXCEPT !.pc = "insert"])
          /\ policy' = policy /\ now' = now /\ request[c].pc = "blocks"
      BY <1>7, <2>2 DEF Policy!CheckBlocks, Policy!At
    <3>2. \E q \in Request :
              /\ Comes(c, q) /\ q.pc = "insert" /\ q.ok = request[c].ok
              /\ q.todo = request[c].todo
      BY <3>1, GoesOn DEF InFlight
    <3>3. request[c].ok /\ request[c].todo = {}
      BY <3>1 DEF RequestsFit
    <3> QED BY <1>1, <3>1, <3>2, <3>3
  <2> QED BY <2>1, <2>2
<1>8. ASSUME NEW c \in Workers, Policy!Insert(c) PROVE RequestTypes' /\ RequestsFit'
  BY <1>5, <1>8 DEF Policy!Insert
<1>9. ASSUME NEW c \in Workers, NEW p \in Policies, NEW state \in {"off", "on"},
             Policy!ReadPolicy(c, p, state)
      PROVE  RequestTypes' /\ RequestsFit'
  <2>1. policy' = policy /\ now' = now
    BY <1>9 DEF Policy!ReadPolicy
  <2>2. \E q \in Request : Comes(c, q) /\ q.pc = "edit" /\ q.todo = {p} /\ p \in Editable
    BY <1>9, EditRead
  <2> QED BY <1>1, <2>1, <2>2
<1>10. ASSUME request' \in [Workers -> Request],
              policy' \in [Policies -> {"absent", "off", "on"}], now' \in Nat,
              \A c \in Workers : request'[c].pc # "idle" =>
                 /\ request'[c].pc = request[c].pc
                 /\ request'[c].todo = request[c].todo
                 /\ request'[c].ok = request[c].ok
       PROVE  RequestTypes' /\ RequestsFit'
  BY <1>10 DEF RequestTypes, RequestsFit
<1>11. ASSUME NEW c \in Workers, Policy!WritePolicy(c) PROVE RequestTypes' /\ RequestsFit'
  <2>1. now' \in Nat
    BY <1>11 DEF Policy!WritePolicy, RequestTypes
  <2> QED BY <1>10, <1>11, <2>1, PolicyWritten
<1>12. ASSUME NEW p \in Policies, NEW state \in {"absent", "off", "on"},
              Policy!SetPolicy(p, state, request), now' = now
       PROVE  RequestTypes' /\ RequestsFit'
  BY <1>10, <1>12, PolicySet DEF RequestTypes
<1>13. CASE \/ \E p \in Policies, state \in {"off", "on"} : Policy!CreatePolicy(p, state)
            \/ \E p \in Policies : Policy!DeletePolicy(p)
  BY <1>12, <1>13 DEF Policy!CreatePolicy, Policy!DeletePolicy
<1>14. CASE Policy!OneMore \/ Policy!Finish \/ Policy!Tick \/ UNCHANGED Policy!vars
  BY <1>10, <1>14
  DEF Policy!OneMore, Policy!Finish, Policy!Tick, Policy!vars, RequestTypes
<1> QED
  BY <1>2, <1>3, <1>4, <1>6, <1>7, <1>8, <1>9, <1>11, <1>13, <1>14, <1>15, <1>16
  DEF Policy!Next, Policy!InsertOutside, Policy!MoveIn, Policy!Reopen

\* The types hold at the start.
LEMMA RequestTypesHold == Policy!Init => RequestTypes /\ RequestsFit
  BY IdleRequest DEF Policy!Init, RequestTypes, RequestsFit

-----------------------------------------------------------------------------
(* Blocks.                                                                 *)

\* A request in flight has met a moment without a block, unless there has been one
\* ever since it arrived.
Watched ==
    \A c \in Workers : request[c].pc \in InFlight =>
        /\ ~Policy!InForce(policy) => request[c].clear
        /\ request[c].pc = "insert" => request[c].clear

\* A block that is in force when a request arrives or is evaluated ends it.
LEMMA BlocksStayRespected ==
    ASSUME PoliciesNumbered, RequestTypes, RequestsFit, Watched, [Policy!Next]_(Policy!vars)
    PROVE  Watched'
<1>1. ASSUME NEW c \in Workers, NEW q \in Request, Comes(c, q), policy' = policy,
             q.pc \in InFlight => /\ ~Policy!InForce(policy) => q.clear
                                  /\ q.pc = "insert" => q.clear
      PROVE  Watched'
  <2> SUFFICES ASSUME NEW d \in Workers, request'[d].pc \in InFlight
               PROVE  /\ ~Policy!InForce(policy') => request'[d].clear
                      /\ request'[d].pc = "insert" => request'[d].clear
    BY DEF Watched, Policy!InForce
  <2>1. Policy!InForce(policy') <=> Policy!InForce(policy)
    BY <1>1 DEF Policy!InForce
  <2>2. CASE d = c
    <3>1. request'[d] = q /\ q.pc \in InFlight
      BY <1>1, <2>2 DEF Comes
    <3>2. (~Policy!InForce(policy) => q.clear) /\ (q.pc = "insert" => q.clear)
      BY <1>1, <3>1
    <3> QED BY <2>1, <3>1, <3>2
  <2>3. CASE d # c
    <3>1. request'[d] = request[d]
      BY <1>1, <2>3 DEF Comes
    <3> QED BY <2>1, <3>1 DEF Watched
  <2> QED BY <2>2, <2>3
<1>2. ASSUME NEW c \in Workers, Policy!Arrive(c) PROVE Watched'
  BY <1>1, <1>2, Arrived DEF Policy!Arrive
<1>15. ASSUME NEW c \in Workers, Policy!ArriveUnread(c) PROVE Watched'
  BY <1>1, <1>15, ArrivedUnread DEF Policy!ArriveUnread
<1>16. ASSUME NEW c \in Workers, Policy!EvaluateUnread(c) PROVE Watched'
  <2>1. policy' = policy /\ request[c].pc = "rules"
    BY <1>16 DEF Policy!EvaluateUnread, Policy!At
  <2>2. \E q \in Request : Comes(c, q) /\ q.clear = request[c].clear /\ q.pc = "rules"
    BY <1>16, EvaluatedUnread
  <2>3. ~Policy!InForce(policy) => request[c].clear
    BY <2>1 DEF Watched, InFlight
  <2> QED BY <1>1, <2>1, <2>2, <2>3
<1>3. ASSUME NEW c \in Workers, Policy!Evaluate(c) PROVE Watched'
  <2>1. policy' = policy /\ request[c].pc = "rules"
    BY <1>3 DEF Policy!Evaluate, Policy!At
  <2>2. \E q \in Request :
          Comes(c, q) /\ q.clear = request[c].clear /\ q.pc \in {"rules", "record"}
    BY <1>3, Evaluated
  <2>3. ~Policy!InForce(policy) => request[c].clear
    BY <2>1 DEF Watched, InFlight
  <2> QED BY <1>1, <2>1, <2>2, <2>3
<1>4. ASSUME NEW c \in Workers, Policy!Record(c) PROVE Watched'
  <2>1. policy' = policy /\ request[c].pc = "record"
    BY <1>4 DEF Policy!Record, Policy!At
  <2>2. \E q \in Request : Comes(c, q) /\ q.clear = request[c].clear /\ q.pc = "rules"
    BY <1>4, Recorded
  <2>3. ~Policy!InForce(policy) => request[c].clear
    BY <2>1 DEF Watched, InFlight
  <2> QED BY <1>1, <2>1, <2>2, <2>3
<1>5. ASSUME NEW c \in Workers, Policy!Done(c), policy' = policy PROVE Watched'
  <2>1. Comes(c, Policy!Idle)
    BY <1>5, IdleRequest, RequestsMove DEF Policy!Done, Comes
  <2> QED BY <1>1, <1>5, <2>1, IdleRequest
<1>6. ASSUME NEW c \in Workers, Policy!Decide(c) PROVE Watched'
  <2>1. policy' = policy /\ request[c].pc = "rules"
    BY <1>6 DEF Policy!Decide, Policy!At
  <2>2. CASE Policy!Done(c)
    BY <1>5, <2>1, <2>2
  <2>3. CASE Policy!Become(c, [request[c] EXCEPT !.pc = "blocks"])
    <3>1. \E q \in Request : Comes(c, q) /\ q.clear = request[c].clear /\ q.pc = "blocks"
      BY <2>3, GoesOn DEF InFlight
    <3>2. ~Policy!InForce(policy) => request[c].clear
      BY <2>1 DEF Watched, InFlight
    <3> QED BY <1>1, <2>1, <3>1, <3>2
  <2> QED BY <1>6, <2>2, <2>3 DEF Policy!Decide
<1>7. ASSUME NEW c \in Workers, Policy!CheckBlocks(c) PROVE Watched'
  <2>1. policy' = policy /\ request[c].pc = "blocks"
    BY <1>7 DEF Policy!CheckBlocks, Policy!At
  <2>2. CASE Policy!Done(c)
    BY <1>5, <2>1, <2>2
  <2>3. CASE ~Policy!BlockedByPolicies
             /\ Policy!Become(c, [request[c] EXCEPT !.pc = "insert"])
    <3>1. \E q \in Request : Comes(c, q) /\ q.clear = request[c].clear /\ q.pc = "insert"
      BY <2>3, GoesOn DEF InFlight
    <3>2. ~Policy!InForce(policy)
      BY <2>3 DEF Policy!InForce, Policy!BlockedByPolicies, Policy!Enabled
    <3>3. request[c].clear
      BY <2>1, <3>2 DEF Watched, InFlight
    <3> QED BY <1>1, <2>1, <3>1, <3>3
  <2> QED BY <1>7, <2>2, <2>3 DEF Policy!CheckBlocks
<1>8. ASSUME NEW c \in Workers, Policy!Insert(c) PROVE Watched'
  BY <1>5, <1>8 DEF Policy!Insert
<1>9. ASSUME NEW c \in Workers, NEW p \in Policies, NEW state \in {"off", "on"},
             Policy!ReadPolicy(c, p, state)
      PROVE  Watched'
  <2>1. policy' = policy
    BY <1>9 DEF Policy!ReadPolicy
  <2>2. PICK q \in Request : Comes(c, q) /\ q.pc = "edit"
    BY <1>9, EditRead
  <2>3. q.pc \notin InFlight
    BY <2>2 DEF InFlight
  <2> QED BY <1>1, <2>1, <2>2, <2>3
<1>10. ASSUME \A c \in Workers : request'[c].pc \in InFlight =>
                 /\ request'[c].pc = request[c].pc
                 /\ request'[c].clear = (request[c].clear \/ ~Policy!InForce(policy'))
       PROVE  Watched'
  <2> SUFFICES ASSUME NEW c \in Workers, request'[c].pc \in InFlight
               PROVE  /\ ~Policy!InForce(policy') => request'[c].clear
                      /\ request'[c].pc = "insert" => request'[c].clear
    BY DEF Watched, Policy!InForce
  <2>1. request'[c].clear = (request[c].clear \/ ~Policy!InForce(policy'))
        /\ (request'[c].pc = "insert" => request[c].pc = "insert")
    BY <1>10
  <2>2. request[c].pc = "insert" => request[c].clear
    BY DEF Watched, InFlight
  <2> QED BY <2>1, <2>2
<1>11. ASSUME NEW c \in Workers, Policy!WritePolicy(c) PROVE Watched'
  BY <1>10, <1>11, PolicyWritten DEF InFlight
<1>12. ASSUME NEW p \in Policies, NEW state \in {"absent", "off", "on"},
              Policy!SetPolicy(p, state, request)
       PROVE  Watched'
  BY <1>10, <1>12, PolicySet DEF RequestTypes
<1>13. CASE \/ \E p \in Policies, state \in {"off", "on"} : Policy!CreatePolicy(p, state)
            \/ \E p \in Policies : Policy!DeletePolicy(p)
  BY <1>12, <1>13 DEF Policy!CreatePolicy, Policy!DeletePolicy
<1>14. CASE Policy!OneMore \/ Policy!Finish \/ Policy!Tick \/ UNCHANGED Policy!vars
  BY <1>14
  DEF Policy!OneMore, Policy!Finish, Policy!Tick, Policy!vars, Watched, Policy!InForce
<1> QED
  BY <1>2, <1>3, <1>4, <1>6, <1>7, <1>8, <1>9, <1>11, <1>13, <1>14, <1>15, <1>16
  DEF Policy!Next, Policy!InsertOutside, Policy!MoveIn, Policy!Reopen

\* No task is created by a request that was under a block all along, however
\* policies are edited meanwhile: property BlocksAreRespected, for any policies and
\* any number of requests.
THEOREM BlocksHold == Policy!Spec => []BlocksAreRespected
<1> USE EngineAssumption
<1>1. Policy!Init => RequestTypes /\ RequestsFit /\ Watched
  <2>1. Policy!Init => Watched
    BY IdleRequest DEF Policy!Init, Watched, InFlight
  <2> QED BY <2>1, RequestTypesHold
<1>2. RequestTypes /\ RequestsFit /\ Watched /\ [Policy!Next]_(Policy!vars)
      => (RequestTypes /\ RequestsFit /\ Watched)'
  BY RequestTypesStay, BlocksStayRespected
<1>3. Watched => BlocksAreRespected
  BY DEF Watched, InFlight, BlocksAreRespected, Policy!BlocksAreRespected, Policy!At
<1> QED BY <1>1, <1>2, <1>3, PTL DEF Policy!Spec

-----------------------------------------------------------------------------
(* Quotas.                                                                 *)

\* The count of the instance is the count of the library.
LEMMA SameCount == \A S : Policy!Cardinality(S) = Cardinality(S)
  BY Zenon DEF Policy!Cardinality, Cardinality

\* The requests that have passed policy p and may still insert.
PassedBy(p) == {c \in Workers : /\ request[c].pc \in InFlight
                               /\ p \notin request[c].todo
                               /\ request[c].ok}

\* Policy p is a quota that is on and not edited.
Kept(p) == p \in Policies \ Editable /\ policy[p] = "on" /\ Policy!Type(p) = "resource_quota"

\* Those requests are counted as if they had inserted.
QuotaKept ==
    /\ counted \in Nat /\ outside \in Nat
    /\ \A p \in Policies : Kept(p) =>
          counted + Cardinality(PassedBy(p)) <= RuleOf[p].limit - 1 + Cardinality(Workers) + outside

\* Those that have passed are finitely many.
LEMMA PassedCounted ==
    ASSUME QuotasSound, NEW p
    PROVE  /\ IsFiniteSet(PassedBy(p)) /\ Cardinality(PassedBy(p)) \in Nat
           /\ Cardinality(PassedBy(p)) <= Cardinality(Workers) /\ Cardinality(Workers) \in Nat
           /\ \A S \in SUBSET PassedBy(p) : /\ IsFiniteSet(S) /\ Cardinality(S) \in Nat
                                            /\ Cardinality(S) <= Cardinality(PassedBy(p))
           /\ \A c \in PassedBy(p) :
                 Cardinality(PassedBy(p) \ {c}) = Cardinality(PassedBy(p)) - 1
<1>1. PassedBy(p) \subseteq Workers /\ IsFiniteSet(Workers)
  BY DEF PassedBy, QuotasSound
<1>2. IsFiniteSet(PassedBy(p)) /\ Cardinality(PassedBy(p)) <= Cardinality(Workers)
  BY <1>1, FS_Subset
<1>3. Cardinality(PassedBy(p)) \in Nat /\ Cardinality(Workers) \in Nat
  BY <1>1, <1>2, FS_CardinalityType
<1>4. ASSUME NEW S \in SUBSET PassedBy(p)
      PROVE  IsFiniteSet(S) /\ Cardinality(S) \in Nat
             /\ Cardinality(S) <= Cardinality(PassedBy(p))
  BY <1>2, FS_Subset, FS_CardinalityType
<1>5. ASSUME NEW c \in PassedBy(p)
      PROVE  Cardinality(PassedBy(p) \ {c}) = Cardinality(PassedBy(p)) - 1
  BY <1>2, FS_RemoveElement
<1> QED BY <1>2, <1>3, <1>4, <1>5

\* As long as no request passes, nothing is used up.
LEMMA QuotaKeeps ==
    ASSUME QuotasSound, QuotaKept, counted' = counted, outside' = outside,
           \A p \in Policies \ Editable : policy'[p] = policy[p],
           \A p \in Policies : Kept(p) => PassedBy(p)' \subseteq PassedBy(p)
    PROVE  QuotaKept'
<1> SUFFICES ASSUME NEW p \in Policies, Kept(p)'
             PROVE  counted + Cardinality(PassedBy(p)')
                      <= RuleOf[p].limit - 1 + Cardinality(Workers) + outside
  BY DEF QuotaKept
<1>1. Kept(p)
  BY DEF Kept, Policy!Type
<1>2. counted + Cardinality(PassedBy(p)) <= RuleOf[p].limit - 1 + Cardinality(Workers) + outside
  BY <1>1 DEF QuotaKept
<1>3. PassedBy(p)' \subseteq PassedBy(p)
  BY <1>1
<1> DEFINE m == Cardinality(PassedBy(p)')
           n == Cardinality(PassedBy(p))
<1>4. m \in Nat /\ n \in Nat /\ m <= n /\ counted \in Nat /\ outside \in Nat
      /\ Cardinality(Workers) \in Nat /\ RuleOf[p].limit \in Nat
  BY <1>1, <1>3, PassedCounted DEF QuotaKept, QuotasSound, Kept
<1> HIDE DEF m, n
<1>5. counted + n <= RuleOf[p].limit - 1 + Cardinality(Workers) + outside
  BY <1>2 DEF n
<1>6. counted + m <= RuleOf[p].limit - 1 + Cardinality(Workers) + outside
  BY <1>4, <1>5
<1> QED BY <1>6 DEF m

\* A request that is not counted for may pass every quota, and is counted as one of
\* those outside.
LEMMA QuotaUnread ==
    ASSUME QuotasSound, QuotaKept, counted' = counted, outside' = outside + 1, policy' = policy,
           NEW c \in Workers, NEW q \in Request, Comes(c, q)
    PROVE  QuotaKept'
<1>1. counted \in Nat /\ outside \in Nat
  BY DEF QuotaKept
<1> SUFFICES ASSUME NEW p \in Policies, Kept(p)
             PROVE  counted + Cardinality(PassedBy(p)')
                      <= RuleOf[p].limit - 1 + Cardinality(Workers) + (outside + 1)
  BY <1>1 DEF QuotaKept, Kept, Policy!Type
<1> DEFINE m == Cardinality(PassedBy(p)')
           n == Cardinality(PassedBy(p))
           workers == Cardinality(Workers)
           limit == RuleOf[p].limit
<1>2. PassedBy(p)' \subseteq PassedBy(p) \cup {c}
  BY DEF PassedBy, Comes
<1>3. /\ m \in Nat /\ n \in Nat /\ workers \in Nat /\ limit \in Nat
      /\ m <= n + 1
  <2>1. limit \in Nat
    BY DEF QuotasSound, Kept
  <2>2. n \in Nat /\ workers \in Nat /\ IsFiniteSet(PassedBy(p) \cup {c})
        /\ Cardinality(PassedBy(p) \cup {c}) \in {n, n + 1}
    BY PassedCounted, FS_AddElement
  <2>3. m \in Nat /\ m <= Cardinality(PassedBy(p) \cup {c})
    BY <1>2, <2>2, FS_Subset, FS_CardinalityType
  <2> QED BY <2>1, <2>2, <2>3
<1>4. counted + n <= limit - 1 + workers + outside
  BY DEF QuotaKept
<1> HIDE DEF m, n, workers, limit
<1>5. counted + m <= limit - 1 + workers + (outside + 1)
  BY <1>1, <1>3, <1>4
<1> QED BY <1>5 DEF m, workers, limit

\* A request passes a quota only below its limit.
LEMMA QuotasStayKept ==
    ASSUME PoliciesNumbered, QuotasSound,
           RequestTypes, RequestsFit, QuotaKept, [Policy!Next]_(Policy!vars)
    PROVE  QuotaKept'
<1>1. ASSUME counted' = counted, outside' = outside, policy' = policy,
             NEW c \in Workers, NEW q \in Request, Comes(c, q),
             \A p \in Policies : Kept(p) /\ q.pc \in InFlight /\ p \notin q.todo /\ q.ok
                 => c \in PassedBy(p)
      PROVE  QuotaKept'
  <2>1. ASSUME NEW p \in Policies, Kept(p), NEW d \in PassedBy(p)' PROVE d \in PassedBy(p)
    <3>1. d \in Workers /\ request'[d].pc \in InFlight /\ p \notin request'[d].todo
          /\ request'[d].ok
      BY DEF PassedBy
    <3>2. CASE d = c
      BY <1>1, <2>1, <3>1, <3>2 DEF Comes
    <3>3. CASE d # c
      BY <1>1, <3>1, <3>3 DEF Comes, PassedBy
    <3> QED BY <3>2, <3>3
  <2> QED BY <1>1, <2>1, QuotaKeeps
<1>2. ASSUME NEW c \in Workers, Policy!Arrive(c) PROVE QuotaKept'
  <2>1. counted' = counted /\ outside' = outside /\ policy' = policy
    BY <1>2 DEF Policy!Arrive
  <2>2. PICK q \in Request : Comes(c, q) /\ q.todo = Policy!Enabled
    BY <1>2, Arrived
  <2>3. \A p \in Policies : Kept(p) => p \in q.todo
    BY <2>2 DEF Kept, Policy!Enabled
  <2> QED BY <1>1, <2>1, <2>2, <2>3
<1>16. ASSUME NEW c \in Workers, Policy!ArriveUnread(c) PROVE QuotaKept'
  BY <1>16, ArrivedUnread, QuotaUnread DEF Policy!ArriveUnread, Policy!Uncounted
<1>17. ASSUME NEW c \in Workers, Policy!EvaluateUnread(c) PROVE QuotaKept'
  BY <1>17, EvaluatedUnread, QuotaUnread DEF Policy!EvaluateUnread, Policy!Uncounted
<1>3. ASSUME NEW c \in Workers, Policy!Evaluate(c) PROVE QuotaKept'
  <2>1. counted' = counted /\ outside' = outside /\ policy' = policy
        /\ request[c].pc = "rules"
    BY <1>3 DEF Policy!Evaluate, Policy!At
  <2> DEFINE o == Policy!Min(request[c].todo)
  <2>2. PICK q \in Request :
              /\ Comes(c, q)
              /\ \/ /\ q.pc = "rules" /\ q.todo = request[c].todo \ {o}
                    /\ q.ok => request[c].ok
                    /\ q.ok /\ Policy!Type(o) = "resource_quota" =>
                          ~Policy!QuotaReached(RuleOf[o])
                 \/ q.pc = "record" /\ q.todo = request[c].todo /\ q.ok = request[c].ok
    BY <1>3, Evaluated
  <2> HIDE DEF o
  <2>3. \A p \in Policies :
           q.pc \in InFlight /\ p \notin q.todo /\ q.ok /\ p # o => c \in PassedBy(p)
    BY <2>1, <2>2 DEF PassedBy, InFlight
  <2>4. CASE ~(Kept(o) /\ o \in Policies /\ q.pc = "rules" /\ q.ok)
    <3>1. \A p \in Policies : Kept(p) /\ q.pc \in InFlight /\ p \notin q.todo /\ q.ok
             => c \in PassedBy(p)
      BY <2>1, <2>2, <2>3, <2>4 DEF PassedBy, InFlight
    <3> QED BY <1>1, <2>1, <2>2, <3>1
  <2>5. CASE Kept(o) /\ o \in Policies /\ q.pc = "rules" /\ q.ok
    <3>1. ~(counted >= RuleOf[o].limit)
      <4>1. ~Policy!QuotaReached(RuleOf[o])
        BY <2>2, <2>5 DEF Kept
      <4> QED BY <4>1 DEF Policy!QuotaReached
    <3> SUFFICES ASSUME NEW p \in Policies, Kept(p)
                 PROVE  counted + Cardinality(PassedBy(p)')
                          <= RuleOf[p].limit - 1 + Cardinality(Workers) + outside
      BY <2>1 DEF QuotaKept, Kept, Policy!Type
    <3> DEFINE m == Cardinality(PassedBy(p)')
               n == Cardinality(PassedBy(p))
               workers == Cardinality(Workers)
               limit == RuleOf[p].limit
    <3>2. m \in Nat /\ m <= workers /\ workers \in Nat
      <4>1. PassedBy(p)' \subseteq Workers /\ IsFiniteSet(Workers)
        BY DEF PassedBy, QuotasSound
      <4> QED BY <4>1, FS_Subset, FS_CardinalityType
    <3>3. counted \in Nat /\ outside \in Nat /\ limit \in Nat \ {0}
      BY DEF QuotaKept, QuotasSound, Kept
    <3>4. CASE p = o
      <4>1. ~(counted >= limit)
        BY <3>1, <3>4
      <4> HIDE DEF m, workers, limit
      <4>2. counted + m <= limit - 1 + workers + outside
        BY <3>2, <3>3, <4>1
      <4> QED BY <4>2 DEF m, workers, limit
    <3>5. CASE p # o
      <4>1. PassedBy(p)' \subseteq PassedBy(p)
        <5> SUFFICES ASSUME NEW d \in PassedBy(p)' PROVE d \in PassedBy(p)
          OBVIOUS
        <5>1. d \in Workers /\ request'[d].pc \in InFlight /\ p \notin request'[d].todo
              /\ request'[d].ok
          BY DEF PassedBy
        <5>2. CASE d = c
          BY <2>2, <2>3, <3>5, <5>1, <5>2 DEF Comes
        <5>3. CASE d # c
          BY <2>2, <5>1, <5>3 DEF Comes, PassedBy
        <5> QED BY <5>2, <5>3
      <4>2. m <= n /\ n \in Nat
        BY <4>1, PassedCounted
      <4>3. counted + n <= limit - 1 + workers + outside
        BY DEF QuotaKept
      <4> HIDE DEF m, n, workers, limit
      <4>4. counted + m <= limit - 1 + workers + outside
        BY <3>2, <3>3, <4>2, <4>3
      <4> QED BY <4>4 DEF m, workers, limit
    <3> QED BY <3>4, <3>5
  <2> QED BY <2>4, <2>5
<1>4. ASSUME NEW c \in Workers, Policy!Record(c) PROVE QuotaKept'
  <2>1. /\ counted' = counted /\ outside' = outside /\ policy' = policy
        /\ Policy!Type(Policy!Min(request[c].todo)) = "rate_limit"
        /\ request[c].pc = "record"
    BY <1>4 DEF Policy!Record, Policy!At, RequestsFit
  <2>2. PICK q \in Request :
              /\ Comes(c, q) /\ q.pc = "rules" /\ q.ok = request[c].ok
              /\ q.todo = request[c].todo \ {Policy!Min(request[c].todo)}
    BY <1>4, Recorded
  <2>3. \A p \in Policies : Kept(p) /\ p \notin q.todo /\ q.ok => c \in PassedBy(p)
    BY <2>1, <2>2 DEF Kept, PassedBy, InFlight
  <2> QED BY <1>1, <2>1, <2>2, <2>3
<1>5. ASSUME NEW c \in Workers, Policy!Done(c), counted' = counted, outside' = outside,
             policy' = policy
      PROVE  QuotaKept'
  <2>1. Comes(c, Policy!Idle) /\ Policy!Idle.pc \notin InFlight
    BY <1>5, IdleRequest, RequestsMove DEF Policy!Done, Comes, InFlight
  <2> QED BY <1>1, <1>5, <2>1, IdleRequest
<1>6. ASSUME NEW c \in Workers, NEW pc \in InFlight, request[c].pc \in InFlight,
             Policy!Become(c, [request[c] EXCEPT !.pc = pc]),
             counted' = counted, outside' = outside, policy' = policy
      PROVE  QuotaKept'
  <2>1. PICK q \in Request : Comes(c, q) /\ q.ok = request[c].ok /\ q.todo = request[c].todo
    BY <1>6, GoesOn
  <2> QED BY <1>1, <1>6, <2>1 DEF PassedBy
<1>7. ASSUME NEW c \in Workers, Policy!Decide(c) \/ Policy!CheckBlocks(c) PROVE QuotaKept'
  <2>1. /\ counted' = counted /\ outside' = outside /\ policy' = policy
        /\ request[c].pc \in InFlight
        /\ \/ Policy!Done(c)
           \/ \E pc \in InFlight : Policy!Become(c, [request[c] EXCEPT !.pc = pc])
    BY <1>7 DEF Policy!Decide, Policy!CheckBlocks, Policy!At, InFlight
  <2> QED BY <1>5, <1>6, <2>1
<1>8. ASSUME NEW c \in Workers, Policy!Insert(c) PROVE QuotaKept'
  <2>1. /\ counted' = counted + 1 /\ outside' = outside /\ policy' = policy
        /\ request[c].pc = "insert" /\ request[c].todo = {} /\ request[c].ok
    BY <1>8 DEF Policy!Insert, Policy!At, RequestsFit
  <2>2. Comes(c, Policy!Idle) /\ Policy!Idle.pc \notin InFlight
    BY <1>8, IdleRequest, RequestsMove DEF Policy!Insert, Policy!Done, Comes, InFlight
  <2>3. counted \in Nat /\ outside \in Nat
    BY DEF QuotaKept
  <2> SUFFICES ASSUME NEW p \in Policies, Kept(p)
               PROVE  counted + 1 + Cardinality(PassedBy(p)')
                        <= RuleOf[p].limit - 1 + Cardinality(Workers) + outside
    BY <2>1, <2>3 DEF QuotaKept, Kept, Policy!Type
  <2>4. c \in PassedBy(p)
    BY <2>1 DEF PassedBy, InFlight
  <2>5. PassedBy(p)' \subseteq PassedBy(p) \ {c}
    BY <2>2 DEF PassedBy, Comes
  <2> DEFINE m == Cardinality(PassedBy(p)')
             n == Cardinality(PassedBy(p))
             workers == Cardinality(Workers)
             limit == RuleOf[p].limit
  <2>6. /\ m \in Nat /\ n \in Nat /\ workers \in Nat /\ limit \in Nat
        /\ m <= n - 1
    <3>1. limit \in Nat
      BY DEF QuotasSound, Kept
    <3>2. n \in Nat /\ workers \in Nat /\ IsFiniteSet(PassedBy(p) \ {c})
          /\ Cardinality(PassedBy(p) \ {c}) = n - 1
      BY <2>4, PassedCounted
    <3>3. m \in Nat /\ m <= Cardinality(PassedBy(p) \ {c})
      BY <2>5, <3>2, FS_Subset, FS_CardinalityType
    <3> QED BY <3>1, <3>2, <3>3
  <2>7. counted + n <= limit - 1 + workers + outside
    BY DEF QuotaKept
  <2> HIDE DEF m, n, workers, limit
  <2>8. counted + 1 + m <= limit - 1 + workers + outside
    BY <2>3, <2>6, <2>7
  <2> QED BY <2>8 DEF m, workers, limit
<1>9. ASSUME NEW c \in Workers, NEW p \in Policies, NEW state \in {"off", "on"},
             Policy!ReadPolicy(c, p, state)
      PROVE  QuotaKept'
  <2>1. counted' = counted /\ outside' = outside /\ policy' = policy
    BY <1>9 DEF Policy!ReadPolicy
  <2>2. PICK q \in Request : Comes(c, q) /\ q.pc = "edit"
    BY <1>9, EditRead
  <2>3. q.pc \notin InFlight
    BY <2>2 DEF InFlight
  <2> QED BY <1>1, <2>1, <2>2, <2>3
<1>10. ASSUME counted' = counted, outside' = outside,
              \A p \in Policies \ Editable : policy'[p] = policy[p],
              \A c \in Workers : request'[c].pc # "idle" =>
                 /\ request'[c].pc = request[c].pc
                 /\ request'[c].todo = request[c].todo
                 /\ request'[c].ok = request[c].ok
       PROVE  QuotaKept'
  <2>1. \A p \in Policies : PassedBy(p)' \subseteq PassedBy(p)
    BY <1>10 DEF PassedBy, InFlight
  <2> QED BY <1>10, <2>1, QuotaKeeps
<1>11. ASSUME NEW c \in Workers, Policy!WritePolicy(c) PROVE QuotaKept'
  <2>1. counted' = counted /\ outside' = outside
    BY <1>11 DEF Policy!WritePolicy
  <2> QED BY <1>10, <1>11, <2>1, PolicyWritten DEF QuotasSound
<1>12. ASSUME NEW p \in Policies, p \in Editable, NEW state \in {"absent", "off", "on"},
              Policy!SetPolicy(p, state, request), counted' = counted, outside' = outside
       PROVE  QuotaKept'
  BY <1>10, <1>12, PolicySet DEF RequestTypes
<1>13. CASE \/ \E p \in Policies, state \in {"off", "on"} : Policy!CreatePolicy(p, state)
            \/ \E p \in Policies : Policy!DeletePolicy(p)
  BY <1>12, <1>13 DEF Policy!CreatePolicy, Policy!DeletePolicy
<1>14. CASE Policy!Tick \/ UNCHANGED Policy!vars
  BY <1>10, <1>14 DEF Policy!Tick, Policy!vars
<1>15. CASE Policy!OneMore \/ Policy!Finish
  <2>1. /\ policy' = policy /\ request' = request /\ counted \in Nat /\ outside \in Nat
        /\ \/ counted' = counted + 1 /\ outside' = outside + 1
           \/ counted > 0 /\ counted' = counted - 1 /\ outside' = outside
    BY <1>15 DEF Policy!OneMore, Policy!Uncounted, Policy!Finish, QuotaKept
  <2>2. counted' \in Nat /\ outside' \in Nat
    BY <2>1
  <2> SUFFICES ASSUME NEW p \in Policies, Kept(p)
               PROVE  counted' + Cardinality(PassedBy(p))
                        <= RuleOf[p].limit - 1 + Cardinality(Workers) + outside'
    BY <2>1, <2>2 DEF QuotaKept, Kept, PassedBy, Policy!Type
  <2> DEFINE n == Cardinality(PassedBy(p))
             workers == Cardinality(Workers)
             limit == RuleOf[p].limit
  <2>3. n \in Nat /\ workers \in Nat /\ limit \in Nat
    BY PassedCounted DEF QuotasSound, Kept
  <2>4. counted + n <= limit - 1 + workers + outside
    BY DEF QuotaKept
  <2> HIDE DEF n, workers, limit
  <2>5. counted' + n <= limit - 1 + workers + outside'
    BY <2>1, <2>3, <2>4
  <2> QED BY <2>5 DEF n, workers, limit
<1> QED
  BY <1>2, <1>3, <1>4, <1>7, <1>8, <1>9, <1>11, <1>13, <1>14, <1>15, <1>16, <1>17
  DEF Policy!Next, Policy!InsertOutside, Policy!MoveIn, Policy!Reopen

\* Requests that look at the count together overrun a quota by no more than their
\* number, what comes to count beside them (inserted on other routes, moved here,
\* reopened) and the requests whose count or policies could not be read: property
\* QuotaOverrunBounded, for any limits and any number of requests.
THEOREM QuotasHold == Policy!Spec => []QuotaOverrunBounded
<1> USE EngineAssumption
<1>1. Policy!Init => RequestTypes /\ RequestsFit /\ QuotaKept
  <2> SUFFICES ASSUME Policy!Init PROVE QuotaKept
    BY RequestTypesHold
  <2>1. counted = 0 /\ outside = 0 /\ \A p : PassedBy(p) = {}
    BY IdleRequest DEF Policy!Init, PassedBy, InFlight
  <2>2. Cardinality({}) = 0 /\ Cardinality(Workers) \in Nat
    BY FS_EmptySet, FS_CardinalityType DEF QuotasSound
  <2>3. ASSUME NEW p \in Policies, Kept(p)
        PROVE  0 + 0 <= RuleOf[p].limit - 1 + Cardinality(Workers) + 0
    BY <2>2, <2>3 DEF QuotasSound, Kept
  <2> QED BY <2>1, <2>2, <2>3 DEF QuotaKept
<1>2. RequestTypes /\ RequestsFit /\ QuotaKept /\ [Policy!Next]_(Policy!vars)
      => (RequestTypes /\ RequestsFit /\ QuotaKept)'
  BY RequestTypesStay, QuotasStayKept DEF QuotasSound
<1>3. QuotaKept => QuotaOverrunBounded
  <2> SUFFICES ASSUME QuotaKept, NEW p \in Policies, Kept(p)
               PROVE  counted < RuleOf[p].limit + Cardinality(Workers) + outside
    BY SameCount DEF QuotaOverrunBounded, Policy!QuotaOverrunBounded, Kept
  <2> DEFINE n == Cardinality(PassedBy(p))
             workers == Cardinality(Workers)
             limit == RuleOf[p].limit
  <2>1. n \in Nat /\ workers \in Nat /\ limit \in Nat /\ counted \in Nat /\ outside \in Nat
    BY PassedCounted DEF QuotasSound, Kept, QuotaKept
  <2>2. counted + n <= limit - 1 + workers + outside
    BY DEF QuotaKept
  <2> HIDE DEF n, workers, limit
  <2>3. counted < limit + workers + outside
    BY <2>1, <2>2
  <2> QED BY <2>3 DEF workers, limit
<1> QED BY <1>1, <1>2, <1>3, PTL DEF Policy!Spec

-----------------------------------------------------------------------------
(* Rate limits.                                                            *)

\* g sums up f over the times of S.
Sums(g, f, S) ==
    /\ g \in [0..(MaxTime + 1) -> Nat]
    /\ g[0] = 0
    /\ \A t \in 1..(MaxTime + 1) : g[t] = g[t - 1] + (IF t - 1 \in S THEN f[t - 1] ELSE 0)

\* A total is summed up from 0, one time after the other.
LEMMA TotalIsSum ==
    ASSUME MaxTime \in Nat, NEW f \in [Policy!Times -> Nat], NEW S
    PROVE  \E g : Sums(g, f, S) /\ Policy!Total(f, S) = g[MaxTime + 1]
<1> DEFINE m == MaxTime + 1
           more(i) == IF i - 1 \in S /\ i \in 1..m THEN f[i - 1] ELSE 0
           step == [i \in Nat |-> [v \in Nat |-> v + more(i)]]
           upto[t \in 0..(MaxTime + 1)] ==
              IF t = 0 THEN 0 ELSE upto[t - 1] + (IF t - 1 \in S THEN f[t - 1] ELSE 0)
           Is(g) == g = [t \in 0..(MaxTime + 1) |->
                            IF t = 0 THEN 0 ELSE g[t - 1] + (IF t - 1 \in S THEN f[t - 1] ELSE 0)]
<1>1. Policy!Total(f, S) = upto[m]
  BY DEF Policy!Total
<1>2. upto = CHOOSE g : Is(g)
  OBVIOUS
<1> HIDE DEF upto
<1>3. m \in Nat /\ \A i \in 1..m : i \in Nat /\ i - 1 \in Policy!Times
  BY DEF Policy!Times
<1>4. \A i \in Nat : more(i) \in Nat
  BY <1>3
<1>5. step \in [Nat -> [Nat -> Nat]]
  <2> HIDE DEF more
  <2> QED BY <1>4
<1>6. PICK g : Takes(g, m, Nat, 0, step)
  <2> HIDE DEF step, m
  <2> QED BY <1>3, <1>5, StepsExist
<1>7. g \in [0..m -> Nat] /\ g[0] = 0
  <2> HIDE DEF step
  <2> QED BY <1>3, <1>6 DEF Takes
<1>8. ASSUME NEW i \in 1..m PROVE g[i] = g[i - 1] + (IF i - 1 \in S THEN f[i - 1] ELSE 0)
  <2>1. i \in 0..m /\ i # 0 /\ i \in Nat /\ i - 1 \in 0..m
    BY <1>3
  <2>2. g[i] = step[i][g[i - 1]] /\ g[i - 1] \in Nat
    <3> HIDE DEF step
    <3> QED BY <1>6, <2>1 DEF Takes
  <2>3. step[i][g[i - 1]] = g[i - 1] + more(i)
    <3> HIDE DEF more
    <3> QED BY <2>1, <2>2
  <2> QED BY <2>2, <2>3
<1>9. Is(g)
  <2>1. \A i \in 0..m : i = 0 \/ i \in 1..m
    BY <1>3
  <2> QED BY <1>7, <1>8, <2>1
<1>10. Is(upto)
  BY <1>2, <1>9
<1>11. Sums(upto, f, S)
  <2>1. \A i \in 1..m : i \in 0..m /\ i # 0 /\ i - 1 \in 0..m
    BY <1>3
  <2>2. upto[0] = 0 /\ \A i \in 1..m : upto[i] = upto[i - 1] + (IF i - 1 \in S THEN f[i - 1] ELSE 0)
    BY <1>3, <1>10, <2>1
  <2> DEFINE Good == {i \in Nat : i \in 0..m => upto[i] = g[i]}
  <2>3. 0 \in Good
    BY <1>7, <2>2
  <2>4. ASSUME NEW i \in Good PROVE i + 1 \in Good
    <3>1. i \in Nat /\ (i + 1 \in 0..m => i \in 0..m /\ i + 1 \in 1..m /\ (i + 1) - 1 = i)
      BY <1>3
    <3> QED BY <1>8, <2>2, <3>1
  <2> HIDE DEF Good
  <2>5. Good = Nat
    <3>1. Good \subseteq Nat
      BY DEF Good
    <3> QED BY <2>3, <2>4, <3>1, CountingUp
  <2>6. \A i \in 0..m : upto[i] = g[i] /\ g[i] \in Nat
    BY <1>3, <1>7, <2>5 DEF Good
  <2>7. upto \in [0..m -> Nat]
    BY <1>10, <2>6
  <2> QED BY <2>2, <2>7 DEF Sums
<1> QED BY <1>1, <1>11

\* A total over more times of a function that is greater is greater.
LEMMA TotalGrows ==
    ASSUME MaxTime \in Nat, NEW f \in [Policy!Times -> Nat], NEW h \in [Policy!Times -> Nat],
           NEW S, NEW T, \A t \in Policy!Times : t \in S => t \in T /\ f[t] <= h[t]
    PROVE  /\ Policy!Total(f, S) \in Nat /\ Policy!Total(h, T) \in Nat
           /\ Policy!Total(f, S) <= Policy!Total(h, T)
<1>1. PICK g : Sums(g, f, S) /\ Policy!Total(f, S) = g[MaxTime + 1]
  BY TotalIsSum
<1>2. PICK k : Sums(k, h, T) /\ Policy!Total(h, T) = k[MaxTime + 1]
  BY TotalIsSum
<1> DEFINE Good == {i \in Nat : i \in 0..(MaxTime + 1) => g[i] <= k[i]}
<1>3. 0 \in Good
  BY <1>1, <1>2 DEF Sums
<1>4. ASSUME NEW i \in Good, i + 1 \in 0..(MaxTime + 1) PROVE g[i + 1] <= k[i + 1]
  <2>1. /\ i \in Nat /\ i \in 0..(MaxTime + 1) /\ i + 1 \in 1..(MaxTime + 1) /\ (i + 1) - 1 = i
        /\ i \in Policy!Times
    BY <1>4 DEF Policy!Times
  <2>2. g[i] \in Nat /\ k[i] \in Nat /\ g[i] <= k[i]
    BY <1>1, <1>2, <2>1 DEF Sums
  <2>3. /\ g[i + 1] = g[i] + (IF i \in S THEN f[i] ELSE 0)
        /\ k[i + 1] = k[i] + (IF i \in T THEN h[i] ELSE 0)
    BY <1>1, <1>2, <2>1 DEF Sums
  <2>4. f[i] \in Nat /\ h[i] \in Nat /\ (i \in S => i \in T /\ f[i] <= h[i])
    BY <2>1
  <2> QED BY <2>2, <2>3, <2>4
<1>5. MaxTime + 1 \in Good
  <2>1. Good \subseteq Nat /\ \A i \in Good : i + 1 \in Good
    BY <1>4
  <2> HIDE DEF Good
  <2> QED BY <1>3, <2>1, CountingUp
<1>6. g[MaxTime + 1] <= k[MaxTime + 1] /\ g[MaxTime + 1] \in Nat /\ k[MaxTime + 1] \in Nat
  BY <1>1, <1>2, <1>5 DEF Sums
<1> QED BY <1>1, <1>2, <1>6

\* One more of a time that is looked at is one more in the total.
LEMMA TotalCounts ==
    ASSUME MaxTime \in Nat, NEW f \in [Policy!Times -> Nat], NEW u \in Policy!Times, NEW S,
           NEW h, h = [f EXCEPT ![u] = @ + 1]
    PROVE  /\ Policy!Total(f, S) \in Nat
           /\ Policy!Total(h, S) = Policy!Total(f, S) + (IF u \in S THEN 1 ELSE 0)
<1> USE DEF Policy!Times
<1>0. h \in [Policy!Times -> Nat] /\ \A t \in Policy!Times : h[t] = IF t = u THEN f[t] + 1 ELSE f[t]
  OBVIOUS
<1>1. PICK g : Sums(g, f, S) /\ Policy!Total(f, S) = g[MaxTime + 1]
  BY TotalIsSum
<1>2. PICK k : Sums(k, h, S) /\ Policy!Total(h, S) = k[MaxTime + 1]
  BY <1>0, TotalIsSum
<1> DEFINE Good == {i \in Nat : i \in 0..(MaxTime + 1) =>
                        k[i] = g[i] + (IF u \in S /\ u < i THEN 1 ELSE 0)}
<1>3. 0 \in Good
  BY <1>1, <1>2 DEF Sums
<1>4. ASSUME NEW i \in Good, i + 1 \in 0..(MaxTime + 1)
      PROVE  k[i + 1] = g[i + 1] + (IF u \in S /\ u < i + 1 THEN 1 ELSE 0)
  <2>1. /\ i \in Nat /\ i \in 0..(MaxTime + 1) /\ i + 1 \in 1..(MaxTime + 1) /\ (i + 1) - 1 = i
        /\ i \in Policy!Times
    BY <1>4
  <2>2. g[i] \in Nat /\ k[i] = g[i] + (IF u \in S /\ u < i THEN 1 ELSE 0)
    BY <1>1, <2>1 DEF Sums
  <2>3. /\ g[i + 1] = g[i] + (IF i \in S THEN f[i] ELSE 0)
        /\ k[i + 1] = k[i] + (IF i \in S THEN h[i] ELSE 0)
    BY <1>1, <1>2, <2>1 DEF Sums
  <2>4. f[i] \in Nat /\ h[i] = IF i = u THEN f[i] + 1 ELSE f[i]
    BY <1>0, <2>1
  <2>5. CASE i = u /\ u \in S
    <3>1. ~(u < i) /\ u < i + 1
      BY <2>1, <2>5
    <3>2. k[i] = g[i] + 0
      BY <2>2, <3>1
    <3>3. k[i + 1] = k[i] + (f[i] + 1) /\ g[i + 1] = g[i] + f[i]
      BY <2>3, <2>4, <2>5
    <3>4. f[i] \in Nat /\ g[i] \in Nat
      BY <2>2, <2>4
    <3>5. k[i + 1] = g[i + 1] + 1
      BY <3>2, <3>3, <3>4
    <3> QED BY <2>5, <3>1, <3>5
  <2>6. CASE i = u /\ u \notin S
    <3>1. k[i] = g[i] + 0
      BY <2>2, <2>6
    <3>2. k[i + 1] = k[i] + 0 /\ g[i + 1] = g[i] + 0
      BY <2>3, <2>6
    <3>3. k[i + 1] = g[i + 1] + 0
      BY <2>2, <3>1, <3>2
    <3> QED BY <2>6, <3>3
  <2>7. CASE i # u
    <3>1. h[i] = f[i] /\ (u < i + 1 <=> u < i)
      BY <2>1, <2>4, <2>7
    <3> DEFINE more == IF i \in S THEN f[i] ELSE 0
    <3>4. more \in Nat /\ g[i + 1] = g[i] + more /\ k[i + 1] = k[i] + more
      BY <2>3, <2>4, <3>1
    <3> HIDE DEF more
    <3>2. CASE u \in S /\ u < i
      <4>1. k[i] = g[i] + 1
        BY <2>2, <3>2
      <4>2. k[i + 1] = g[i + 1] + 1
        BY <2>2, <3>4, <4>1
      <4> QED BY <3>1, <3>2, <4>2
    <3>3. CASE ~(u \in S /\ u < i)
      <4>1. k[i] = g[i]
        BY <2>2, <3>3
      <4>2. k[i + 1] = g[i + 1] /\ g[i + 1] \in Nat
        BY <2>2, <3>4, <4>1
      <4> QED BY <3>1, <3>3, <4>2
    <3> QED BY <3>2, <3>3
  <2> QED BY <2>5, <2>6, <2>7
<1>5. MaxTime + 1 \in Good
  <2>1. Good \subseteq Nat /\ \A i \in Good : i + 1 \in Good
    BY <1>4
  <2> HIDE DEF Good
  <2> QED BY <1>3, <2>1, CountingUp
<1>6. u < MaxTime + 1
  OBVIOUS
<1>7. g[MaxTime + 1] \in Nat /\ k[MaxTime + 1] = g[MaxTime + 1] + (IF u \in S THEN 1 ELSE 0)
  BY <1>1, <1>5, <1>6 DEF Sums
<1> QED BY <1>1, <1>2, <1>7

\* A total of nothing is 0.
LEMMA TotalOfNone ==
    ASSUME MaxTime \in Nat, NEW f \in [Policy!Times -> Nat], NEW S,
           \A t \in Policy!Times : t \in S => f[t] = 0
    PROVE  Policy!Total(f, S) = 0
<1>1. PICK g : Sums(g, f, S) /\ Policy!Total(f, S) = g[MaxTime + 1]
  BY TotalIsSum
<1> DEFINE Good == {i \in Nat : i \in 0..(MaxTime + 1) => g[i] = 0}
<1>2. 0 \in Good
  BY <1>1 DEF Sums
<1>3. ASSUME NEW i \in Good, i + 1 \in 0..(MaxTime + 1) PROVE g[i + 1] = 0
  <2>1. /\ i \in Nat /\ i \in 0..(MaxTime + 1) /\ i + 1 \in 1..(MaxTime + 1) /\ (i + 1) - 1 = i
        /\ i \in Policy!Times
    BY <1>3 DEF Policy!Times
  <2>2. g[i] = 0 /\ (i \in S => f[i] = 0)
    BY <2>1
  <2>3. g[i + 1] = g[i] + (IF i \in S THEN f[i] ELSE 0)
    BY <1>1, <2>1 DEF Sums
  <2> QED BY <2>2, <2>3
<1>4. MaxTime + 1 \in Good
  <2>1. Good \subseteq Nat /\ \A i \in Good : i + 1 \in Good
    BY <1>3
  <2> HIDE DEF Good
  <2> QED BY <1>2, <2>1, CountingUp
<1> QED BY <1>1, <1>4

\* Sets of requests are finite.
LEMMA WorkersCounted ==
    ASSUME QuotasSound, NEW S \in SUBSET Workers
    PROVE  /\ Cardinality(S) \in Nat /\ Cardinality(Workers) \in Nat
           /\ 1 <= Cardinality(Workers) /\ Cardinality(S) <= Cardinality(Workers)
           /\ \A T \in SUBSET S : Cardinality(T) \in Nat /\ Cardinality(T) <= Cardinality(S)
           /\ \A c \in S : \A T \in SUBSET (S \ {c}) : Cardinality(T) <= Cardinality(S) - 1
<1>1. IsFiniteSet(Workers) /\ Workers # {}
  BY DEF QuotasSound
<1>2. IsFiniteSet(S) /\ Cardinality(S) <= Cardinality(Workers)
  BY <1>1, FS_Subset
<1>3. Cardinality(S) \in Nat /\ Cardinality(Workers) \in Nat
  BY <1>1, <1>2, FS_CardinalityType
<1>4. Cardinality(Workers) # 0
  BY <1>1, FS_EmptySet
<1>5. ASSUME NEW T \in SUBSET S PROVE Cardinality(T) \in Nat /\ Cardinality(T) <= Cardinality(S)
  BY <1>2, FS_Subset, FS_CardinalityType
<1>6. ASSUME NEW c \in S, NEW T \in SUBSET (S \ {c}) PROVE Cardinality(T) <= Cardinality(S) - 1
  <2>1. IsFiniteSet(S \ {c}) /\ Cardinality(S \ {c}) = Cardinality(S) - 1
    BY <1>2, FS_RemoveElement
  <2>2. Cardinality(T) <= Cardinality(S \ {c})
    BY <2>1, FS_Subset
  <2> QED BY <2>1, <2>2
<1> QED BY <1>2, <1>3, <1>4, <1>5, <1>6

\* The window of policy p that ends at t, and how many requests passed p in it.
Window(p, t) == {u \in Policy!Times : u <= t /\ t <= u + RuleOf[p].window}
Went(p, t) == Policy!Total(passed[p], Window(p, t))

\* The requests of the window that have counted for p and not recorded, ...
Records(p, t) == {c \in Workers : /\ request[c].pc = "record"
                                 /\ Policy!Min(request[c].todo) = p
                                 /\ request[c].ts \in Window(p, t)}

\* ... and those that have p still before them.
Slow(p, t) == {c \in Workers : /\ request[c].pc \in {"rules", "record"}
                              /\ p \in request[c].todo
                              /\ request[c].ts \in Window(p, t)}

\* As long as the tracker has all that passed in the window, those count that do not
\* yet record.
Remembered(p, t) ==
    /\ \A u \in Window(p, t) : passed[p][u] <= hits[u]
    /\ Went(p, t) + Cardinality(Records(p, t)) <= RuleOf[p].limit - 1 + Cardinality(Workers)

\* Once a later request has pruned them, the window is over, and those that are still
\* in it can all pass.
Forgotten(p, t) ==
    /\ t < now
    /\ Went(p, t) + Cardinality(Slow(p, t)) <= RuleOf[p].limit + 2 * (Cardinality(Workers) - 1)

LimitKept ==
    \A p \in Policy!Shortest, t \in Policy!Times : Remembered(p, t) \/ Forgotten(p, t)

\* What that needs of the types.
LimitTypes ==
    /\ hits \in [Policy!Times -> Nat]
    /\ passed \in [Policies -> [Policy!Times -> Nat]]
    /\ now \in Policy!Times
    /\ \A c \in Workers :
          /\ request[c].pc \in {"rules", "record"} =>
                request[c].ts \in Policy!Times /\ request[c].ts <= now
          /\ request[c].pc = "record" => Policy!Min(request[c].todo) \in request[c].todo

\* What is counted are numbers.
LEMMA LimitCounted ==
    ASSUME QuotasSound, LimitTypes, NEW p \in Policy!Shortest, NEW t
    PROVE  /\ p \in Policies /\ Policy!Type(p) = "rate_limit"
           /\ RuleOf[p].limit \in Nat \ {0} /\ RuleOf[p].window \in Nat
           /\ Went(p, t) \in Nat
           /\ Records(p, t) \subseteq Workers /\ Slow(p, t) \subseteq Workers
           /\ Cardinality(Records(p, t)) \in Nat /\ Cardinality(Slow(p, t)) \in Nat
<1>1. p \in Policies /\ Policy!Type(p) = "rate_limit"
  BY DEF Policy!Shortest, Policy!RateLimits
<1>2. RuleOf[p].limit \in Nat \ {0} /\ RuleOf[p].window \in Nat
  BY <1>1 DEF QuotasSound
<1>3. passed[p] \in [Policy!Times -> Nat] /\ MaxTime \in Nat
  BY <1>1 DEF LimitTypes, QuotasSound
<1>4. Went(p, t) \in Nat
  <2>1. \A u \in Policy!Times : passed[p][u] <= passed[p][u]
    BY <1>3
  <2> QED BY <1>3, <2>1, TotalGrows DEF Went
<1>5. Records(p, t) \subseteq Workers /\ Slow(p, t) \subseteq Workers
  BY DEF Records, Slow
<1> QED BY <1>1, <1>2, <1>4, <1>5, WorkersCounted

\* When nothing is recorded and no request is about to, nothing changes; those that
\* arrive have the present time.
LEMMA LimitRests ==
    ASSUME QuotasSound, LimitTypes, LimitKept, hits' = hits, passed' = passed,
           now' \in Policy!Times, now <= now',
           \A c \in Workers : request'[c].pc \in {"rules", "record"} =>
              \/ request'[c].pc = "rules" /\ request'[c].ts = now /\ now' = now
              \/ /\ request[c].pc \in {"rules", "record"}
                 /\ request'[c].ts = request[c].ts
                 /\ request'[c].todo \subseteq request[c].todo
                 /\ request'[c].pc = "record" =>
                       request[c].pc = "record" /\ request'[c].todo = request[c].todo
    PROVE  LimitTypes' /\ LimitKept'
<1>1. LimitTypes'
  <2>1. ASSUME NEW c \in Workers
        PROVE  /\ request'[c].pc \in {"rules", "record"} =>
                     request'[c].ts \in Policy!Times /\ request'[c].ts <= now'
               /\ request'[c].pc = "record" => Policy!Min(request'[c].todo) \in request'[c].todo
    <3>1. now \in Int /\ now' \in Int /\ \A u \in Policy!Times : u \in Int
      BY DEF LimitTypes, Policy!Times
    <3>2. CASE request'[c].pc = "rules" /\ request'[c].ts = now /\ now' = now
      BY <3>1, <3>2 DEF LimitTypes
    <3> DEFINE q == request'[c]
    <3>3. CASE /\ request[c].pc \in {"rules", "record"} /\ q.ts = request[c].ts
               /\ q.pc = "record" => request[c].pc = "record" /\ q.todo = request[c].todo
      <4>1. request[c].ts \in Policy!Times /\ request[c].ts <= now
        BY <3>3 DEF LimitTypes
      <4>2. request[c].pc = "record" => Policy!Min(request[c].todo) \in request[c].todo
        BY DEF LimitTypes
      <4>3. q.ts \in Policy!Times /\ q.ts <= now'
        <5>1. q.ts = request[c].ts /\ request[c].ts \in Int
          BY <3>1, <3>3, <4>1
        <5> HIDE DEF q
        <5> QED BY <3>1, <4>1, <5>1
      <4>4. q.pc = "record" => Policy!Min(q.todo) \in q.todo
        BY <3>3, <4>2
      <4> QED BY <4>3, <4>4
    <3> QED BY <3>2, <3>3
  <2> QED BY <2>1 DEF LimitTypes
<1> SUFFICES ASSUME NEW p \in Policy!Shortest, NEW t \in Policy!Times
             PROVE  Remembered(p, t)' \/ Forgotten(p, t)'
  BY <1>1 DEF LimitKept
<1>2. Went(p, t)' = Went(p, t)
  BY DEF Went
<1>3. Records(p, t)' \subseteq Records(p, t)
  BY DEF Records
<1>4. t < now => Slow(p, t)' \subseteq Slow(p, t)
  <2> SUFFICES ASSUME t < now, NEW c \in Slow(p, t)' PROVE c \in Slow(p, t)
    OBVIOUS
  <2>1. c \in Workers /\ request'[c].pc \in {"rules", "record"}
        /\ p \in request'[c].todo /\ request'[c].ts \in Window(p, t)
    BY DEF Slow
  <2>2. request'[c].ts <= t /\ t \in Int /\ now \in Int /\ request'[c].ts \in Int
    BY <2>1 DEF Window, Policy!Times, LimitTypes
  <2>3. request'[c].ts # now
    BY <2>2
  <2> QED BY <2>1, <2>3 DEF Slow
<1> DEFINE went == Went(p, t)
           limit == RuleOf[p].limit
           workers == Cardinality(Workers)
<1>5. went \in Nat /\ limit \in Nat /\ workers \in Nat /\ t \in Int /\ now \in Int /\ now' \in Int
  BY LimitCounted, WorkersCounted DEF Policy!Times, LimitTypes
<1>6. CASE Remembered(p, t)
  <2> DEFINE m == Cardinality(Records(p, t)')
             n == Cardinality(Records(p, t))
  <2>1. m \in Nat /\ n \in Nat /\ m <= n
    BY <1>3, LimitCounted, WorkersCounted
  <2>2. went + n <= limit - 1 + workers
    BY <1>6 DEF Remembered
  <2> HIDE DEF m, n, went, limit, workers
  <2>3. went + m <= limit - 1 + workers
    BY <1>5, <2>1, <2>2
  <2>4. Went(p, t)' + m <= RuleOf[p].limit - 1 + Cardinality(Workers)
    BY <1>2, <2>3 DEF went, limit, workers
  <2> QED BY <1>6, <2>4 DEF Remembered, m
<1>7. CASE Forgotten(p, t)
  <2> DEFINE m == Cardinality(Slow(p, t)')
             n == Cardinality(Slow(p, t))
  <2>1. t < now
    BY <1>7 DEF Forgotten
  <2>2. m \in Nat /\ n \in Nat /\ m <= n
    BY <1>4, <2>1, LimitCounted, WorkersCounted
  <2>3. went + n <= limit + 2 * (workers - 1)
    BY <1>7 DEF Forgotten
  <2> HIDE DEF m, n, went, limit, workers
  <2>4. went + m <= limit + 2 * (workers - 1)
    BY <1>5, <2>2, <2>3
  <2>5. Went(p, t)' + m <= RuleOf[p].limit + 2 * (Cardinality(Workers) - 1)
    BY <1>2, <2>4 DEF went, limit, workers
  <2>6. t < now'
    BY <1>5, <2>1
  <2> QED BY <2>5, <2>6 DEF Forgotten, m
<1> QED BY <1>6, <1>7 DEF LimitKept

\* One request moves, and nothing is recorded.
LEMMA LimitMoves ==
    ASSUME QuotasSound, LimitTypes, LimitKept, hits' = hits, passed' = passed, now' = now,
           NEW c \in Workers, NEW q \in Request, Comes(c, q),
           \/ q.pc \notin {"rules", "record"}
           \/ q.pc = "rules" /\ q.ts = now
           \/ /\ q.pc = "rules" /\ request[c].pc \in {"rules", "record"}
              /\ q.ts = request[c].ts /\ q.todo \subseteq request[c].todo
    PROVE  LimitTypes' /\ LimitKept'
<1>1. now \in Policy!Times /\ now <= now'
  BY DEF LimitTypes, Policy!Times
<1>2. ASSUME NEW d \in Workers, request'[d].pc \in {"rules", "record"}
      PROVE  \/ request'[d].pc = "rules" /\ request'[d].ts = now /\ now' = now
             \/ /\ request[d].pc \in {"rules", "record"}
                /\ request'[d].ts = request[d].ts
                /\ request'[d].todo \subseteq request[d].todo
                /\ request'[d].pc = "record" =>
                      request[d].pc = "record" /\ request'[d].todo = request[d].todo
  <2>1. CASE d = c
    <3>1. request'[d] = q
      BY <2>1 DEF Comes
    <3> QED BY <1>2, <2>1, <3>1
  <2>2. CASE d # c
    <3>1. request'[d] = request[d]
      BY <2>2 DEF Comes
    <3> QED BY <1>2, <3>1
  <2> QED BY <2>1, <2>2
<1> QED BY <1>1, <1>2, LimitRests

\* A request is let on by the limit: all that passed in the window are among those
\* that it counted.
LEMMA LimitCounts ==
    ASSUME PoliciesNumbered, QuotasSound, RequestTypes, LimitTypes, LimitKept,
           NEW c \in Workers, Policy!Evaluate(c)
    PROVE  LimitTypes' /\ LimitKept'
<1> DEFINE o == Policy!Min(request[c].todo)
<1>1. hits' = hits /\ passed' = passed /\ now' = now /\ request[c].pc = "rules"
      /\ request[c].todo # {}
  BY DEF Policy!Evaluate, Policy!At
<1>2. PICK q \in Request :
          /\ Comes(c, q) /\ q.ts = request[c].ts
          /\ \/ q.pc = "rules" /\ q.todo = request[c].todo \ {o}
             \/ /\ q.pc = "record" /\ q.todo = request[c].todo
                /\ ~(Policy!Count(request[c].ts, RuleOf[o].window) >= RuleOf[o].limit)
  BY Evaluated
<1>3. o \in request[c].todo
  <2>1. request[c].todo \subseteq Nat
    BY RequestTyped DEF PoliciesNumbered
  <2>2. \E x \in request[c].todo : \A y \in request[c].todo : x <= y
    BY <1>1, <2>1, LeastExists
  <2> QED BY <2>2 DEF Policy!Min
<1> HIDE DEF o
<1>4. CASE q.pc = "rules"
  BY <1>1, <1>2, <1>4, LimitMoves
<1>5. CASE q.pc = "record" /\ q.todo = request[c].todo
           /\ ~(Policy!Count(request[c].ts, RuleOf[o].window) >= RuleOf[o].limit)
  <2>1. request[c].ts \in Policy!Times /\ request[c].ts <= now /\ MaxTime \in Nat
    BY <1>1 DEF LimitTypes, QuotasSound
  <2>2. LimitTypes'
    <3>1. ASSUME NEW d \in Workers
          PROVE  /\ request'[d].pc \in {"rules", "record"} =>
                       request'[d].ts \in Policy!Times /\ request'[d].ts <= now'
                 /\ request'[d].pc = "record" =>
                       Policy!Min(request'[d].todo) \in request'[d].todo
      <4>1. CASE d = c
        <5>1. request'[d] = q
          BY <1>2, <4>1 DEF Comes
        <5> QED BY <1>1, <1>2, <1>3, <1>5, <2>1, <5>1 DEF o
      <4>2. CASE d # c
        <5>1. request'[d] = request[d]
          BY <1>2, <4>2 DEF Comes
        <5> QED BY <1>1, <5>1 DEF LimitTypes
      <4> QED BY <4>1, <4>2
    <3> QED BY <1>1, <3>1 DEF LimitTypes
  <2> SUFFICES ASSUME NEW p \in Policy!Shortest, NEW t \in Policy!Times
               PROVE  Remembered(p, t)' \/ Forgotten(p, t)'
    BY <2>2 DEF LimitKept
  <2> DEFINE went == Went(p, t)
             limit == RuleOf[p].limit
             workers == Cardinality(Workers)
  <2>3. Went(p, t)' = went
    BY <1>1 DEF Went
  <2>4. Slow(p, t)' \subseteq Slow(p, t)
    <3> SUFFICES ASSUME NEW d \in Slow(p, t)' PROVE d \in Slow(p, t)
      OBVIOUS
    <3>1. d \in Workers /\ request'[d].pc \in {"rules", "record"}
          /\ p \in request'[d].todo /\ request'[d].ts \in Window(p, t)
      BY DEF Slow
    <3>2. CASE d = c
      <4>1. request'[d] = q
        BY <1>2, <3>2 DEF Comes
      <4> QED BY <1>1, <1>2, <1>5, <3>1, <3>2, <4>1 DEF Slow
    <3>3. CASE d # c
      BY <1>2, <3>1, <3>3 DEF Comes, Slow
    <3> QED BY <3>2, <3>3
  <2>5. Records(p, t)' \subseteq Workers
    BY DEF Records
  <2>6. (p = o /\ request[c].ts \in Window(p, t)) \/ Records(p, t)' \subseteq Records(p, t)
    <3> SUFFICES ASSUME ~(p = o /\ request[c].ts \in Window(p, t)), NEW d \in Records(p, t)'
                 PROVE  d \in Records(p, t)
      OBVIOUS
    <3>1. d \in Workers /\ request'[d].pc = "record"
          /\ Policy!Min(request'[d].todo) = p /\ request'[d].ts \in Window(p, t)
      BY DEF Records
    <3>2. d # c
      <4> SUFFICES ASSUME d = c PROVE FALSE
        OBVIOUS
      <4>1. request'[d] = q
        BY <1>2 DEF Comes
      <4> QED BY <1>2, <1>5, <3>1, <4>1 DEF o
    <3> QED BY <1>2, <3>1, <3>2 DEF Comes, Records
  <2>7. /\ went \in Nat /\ limit \in Nat \ {0} /\ workers \in Nat /\ RuleOf[p].window \in Nat
        /\ p \in Policies
    BY LimitCounted, WorkersCounted
  <2>8. CASE Remembered(p, t) /\ p = o /\ request[c].ts \in Window(p, t)
    <3> DEFINE m == Cardinality(Records(p, t)')
               found == Policy!Count(request[c].ts, RuleOf[p].window)
               inside == {u \in Policy!Times : u + RuleOf[p].window >= request[c].ts}
    <3>1. m \in Nat /\ m <= workers
      BY <2>5, WorkersCounted
    <3>2. went <= found /\ found \in Nat
      <4>1. \A u \in Policy!Times : u \in Window(p, t) => u \in inside /\ passed[p][u] <= hits[u]
        BY <2>7, <2>8 DEF Window, Remembered, Policy!Times
      <4>2. passed[p] \in [Policy!Times -> Nat] /\ hits \in [Policy!Times -> Nat]
        BY <2>7 DEF LimitTypes
      <4>3. found = Policy!Total(hits, inside)
        BY DEF Policy!Count
      <4> HIDE DEF inside, found
      <4>4. Policy!Total(passed[p], Window(p, t)) <= Policy!Total(hits, inside)
            /\ Policy!Total(hits, inside) \in Nat
        BY <2>1, <4>1, <4>2, TotalGrows
      <4> QED BY <4>3, <4>4 DEF Went
    <3>3. ~(found >= limit)
      BY <1>5, <2>8
    <3>4. \A u \in Window(p, t) : passed'[p][u] <= hits'[u]
      BY <1>1, <2>8 DEF Remembered
    <3> HIDE DEF went, found, m, limit, workers
    <3>5. went + m <= limit - 1 + workers
      BY <2>7, <3>1, <3>2, <3>3
    <3> QED BY <2>3, <3>4, <3>5 DEF Remembered, m, limit, workers
  <2>9. CASE Remembered(p, t) /\ Records(p, t)' \subseteq Records(p, t)
    <3> DEFINE m == Cardinality(Records(p, t)')
               n == Cardinality(Records(p, t))
    <3>1. m \in Nat /\ n \in Nat /\ m <= n
      BY <2>9, LimitCounted, WorkersCounted
    <3>2. went + n <= limit - 1 + workers
      BY <2>9 DEF Remembered
    <3>3. \A u \in Window(p, t) : passed'[p][u] <= hits'[u]
      BY <1>1, <2>9 DEF Remembered
    <3> HIDE DEF went, n, m, limit, workers
    <3>4. went + m <= limit - 1 + workers
      BY <2>7, <3>1, <3>2
    <3> QED BY <2>3, <3>3, <3>4 DEF Remembered, m, limit, workers
  <2>10. CASE Forgotten(p, t)
    <3> DEFINE m == Cardinality(Slow(p, t)')
               n == Cardinality(Slow(p, t))
    <3>1. m \in Nat /\ n \in Nat /\ m <= n
      BY <2>4, LimitCounted, WorkersCounted
    <3>2. went + n <= limit + 2 * (workers - 1)
      BY <2>10 DEF Forgotten
    <3> HIDE DEF went, n, m, limit, workers
    <3>3. went + m <= limit + 2 * (workers - 1)
      BY <2>7, <3>1, <3>2
    <3> QED BY <1>1, <2>3, <2>10, <3>3 DEF Forgotten, m, limit, workers
  <2> QED BY <2>6, <2>8, <2>9, <2>10 DEF LimitKept
<1> QED BY <1>2, <1>4, <1>5

\* A request is recorded: it is one more in the tracker and one less to record; when
\* its time is past the window, what is pruned may be of the window, and it is itself
\* not in the way any more.
LEMMA LimitRecords ==
    ASSUME QuotasSound, RequestTypes, RequestsFit, LimitTypes, LimitKept,
           NEW c \in Workers, Policy!Record(c)
    PROVE  LimitTypes' /\ LimitKept'
<1> DEFINE o == Policy!Min(request[c].todo)
           ts == request[c].ts
           wide == RuleOf[o].window
<1>1. /\ hits' = Policy!Recorded(ts, wide) /\ now' = now /\ request[c].pc = "record"
      /\ passed' = [passed EXCEPT ![o][ts] = @ + 1]
  BY DEF Policy!Record, Policy!At
<1>2. PICK q \in Request : /\ Comes(c, q) /\ q.pc = "rules" /\ q.ts = ts
                           /\ q.todo = request[c].todo \ {o}
  BY Recorded
<1>3. /\ o \in request[c].todo /\ o \in Policies /\ Policy!Type(o) = "rate_limit"
      /\ o \in Policy!RateLimits /\ wide \in Nat
      /\ ts \in Policy!Times /\ ts <= now /\ now \in Policy!Times /\ MaxTime \in Nat
  <2>1. o \in request[c].todo /\ Policy!Type(o) = "rate_limit"
        /\ ts \in Policy!Times /\ ts <= now /\ now \in Policy!Times
    BY <1>1 DEF LimitTypes, RequestsFit
  <2>2. o \in Policies
    BY <2>1, RequestTyped
  <2> QED BY <2>1, <2>2 DEF QuotasSound, Policy!RateLimits
<1> HIDE DEF o, ts, wide
<1>4. hits \in [Policy!Times -> Nat] /\ passed \in [Policies -> [Policy!Times -> Nat]]
  BY DEF LimitTypes
<1>5. \A u \in Policy!Times :
         /\ u + wide < ts => hits'[u] = 0
         /\ ~(u + wide < ts) /\ u = ts => hits'[u] = hits[u] + 1
         /\ ~(u + wide < ts) /\ u # ts => hits'[u] = hits[u]
  BY <1>1 DEF Policy!Recorded
<1>6. hits' \in [Policy!Times -> Nat]
  <2>1. \A u \in Policy!Times : hits'[u] \in Nat
    BY <1>4, <1>5
  <2>2. hits' = [u \in Policy!Times |-> hits'[u]]
    BY <1>1 DEF Policy!Recorded
  <2> QED BY <2>1, <2>2
<1>7. /\ passed' \in [Policies -> [Policy!Times -> Nat]]
      /\ \A p \in Policies : p # o => passed'[p] = passed[p]
      /\ passed'[o] = [passed[o] EXCEPT ![ts] = @ + 1]
  <2>1. [passed[o] EXCEPT ![ts] = @ + 1] \in [Policy!Times -> Nat]
    BY <1>3, <1>4
  <2> QED BY <1>1, <1>3, <1>4, <2>1
<1>8. LimitTypes'
  <2>1. ASSUME NEW d \in Workers
        PROVE  /\ request'[d].pc \in {"rules", "record"} =>
                     request'[d].ts \in Policy!Times /\ request'[d].ts <= now'
               /\ request'[d].pc = "record" =>
                     Policy!Min(request'[d].todo) \in request'[d].todo
    <3>1. CASE d = c
      <4>1. request'[d] = q
        BY <1>2, <3>1 DEF Comes
      <4> QED BY <1>1, <1>2, <1>3, <4>1
    <3>2. CASE d # c
      <4>1. request'[d] = request[d]
        BY <1>2, <3>2 DEF Comes
      <4> QED BY <1>1, <4>1 DEF LimitTypes
    <3> QED BY <3>1, <3>2
  <2> QED BY <1>1, <1>3, <1>6, <1>7, <2>1 DEF LimitTypes
<1> SUFFICES ASSUME NEW p \in Policy!Shortest, NEW t \in Policy!Times
             PROVE  Remembered(p, t)' \/ Forgotten(p, t)'
  BY <1>8 DEF LimitKept
<1>9. p \in Policies /\ RuleOf[p].window \in Nat /\ RuleOf[p].window <= wide
  BY <1>3, LimitCounted DEF Policy!Shortest, wide
<1>10. Records(p, t)' \subseteq Records(p, t) \ {c}
  <2> SUFFICES ASSUME NEW d \in Records(p, t)' PROVE d \in Records(p, t) \ {c}
    OBVIOUS
  <2>1. d \in Workers /\ request'[d].pc = "record"
        /\ Policy!Min(request'[d].todo) = p /\ request'[d].ts \in Window(p, t)
    BY DEF Records
  <2>2. d # c
    BY <1>2, <2>1 DEF Comes
  <2> QED BY <1>2, <2>1, <2>2 DEF Comes, Records
<1>11. ASSUME NEW d \in Slow(p, t)'
       PROVE  d \in Slow(p, t) /\ (d = c => p # o /\ ts \in Window(p, t))
  <2>1. d \in Workers /\ request'[d].pc \in {"rules", "record"}
        /\ p \in request'[d].todo /\ request'[d].ts \in Window(p, t)
    BY DEF Slow
  <2>2. CASE d = c
    <3>1. request'[d] = q
      BY <1>2, <2>2 DEF Comes
    <3>2. p \in request[c].todo /\ p # o /\ ts \in Window(p, t)
      BY <1>2, <2>1, <3>1
    <3> QED BY <1>1, <2>2, <3>2 DEF Slow, ts
  <2>3. CASE d # c
    BY <1>2, <2>1, <2>3 DEF Comes, Slow
  <2> QED BY <2>2, <2>3
<1> DEFINE went == Went(p, t)
           limit == RuleOf[p].limit
           workers == Cardinality(Workers)
           m == Cardinality(Records(p, t)')
           n == Cardinality(Records(p, t))
           k == Cardinality(Slow(p, t)')
           l == Cardinality(Slow(p, t))
<1>12. /\ went \in Nat /\ limit \in Nat \ {0} /\ workers \in Nat /\ 1 <= workers
       /\ m \in Nat /\ n \in Nat /\ m <= n
       /\ k \in Nat /\ l \in Nat /\ k <= l
       /\ c \in Records(p, t) => m <= n - 1
       /\ c \in Slow(p, t) /\ c \notin Slow(p, t)' => k <= l - 1
       /\ c \notin Slow(p, t)' => k <= workers - 1
  <2>1. Records(p, t)' \subseteq Records(p, t) /\ Slow(p, t)' \subseteq Slow(p, t)
        /\ Records(p, t) \subseteq Workers /\ Slow(p, t) \subseteq Workers
    BY <1>10, <1>11, LimitCounted
  <2>2. m \in Nat /\ n \in Nat /\ m <= n /\ k \in Nat /\ l \in Nat /\ k <= l /\ 1 <= workers
    BY <2>1, WorkersCounted
  <2>3. c \in Records(p, t) => m <= n - 1
    BY <1>10, <2>1, WorkersCounted
  <2>4. c \in Slow(p, t) /\ c \notin Slow(p, t)' => k <= l - 1
    BY <2>1, WorkersCounted
  <2>5. c \notin Slow(p, t)' => k <= workers - 1
    <3>1. c \notin Slow(p, t)' => Slow(p, t)' \subseteq Workers \ {c}
      BY <2>1
    <3> QED BY <3>1, WorkersCounted
  <2> QED BY <2>2, <2>3, <2>4, <2>5, LimitCounted, WorkersCounted
<1>13. /\ Remembered(p, t) => went + n <= limit - 1 + workers
       /\ Forgotten(p, t) => t < now /\ went + l <= limit + 2 * (workers - 1)
  BY DEF Remembered, Forgotten
<1>14. \A u \in Window(p, t) : /\ u \in Policy!Times /\ u <= t /\ t <= u + RuleOf[p].window
                               /\ ts <= t => ~(u + wide < ts)
  BY <1>3, <1>9 DEF Window, Policy!Times
<1>15. CASE p = o /\ ts \in Window(p, t)
  <2>1. Went(p, t)' = went + 1
    <3>1. passed[o] \in [Policy!Times -> Nat]
      BY <1>3, <1>4
    <3>2. Policy!Total(passed'[o], Window(p, t)) = Policy!Total(passed[o], Window(p, t)) + 1
      BY <1>3, <1>7, <1>15, <3>1, TotalCounts
    <3> QED BY <1>15, <3>2 DEF Went
  <2>2. c \in Records(p, t) /\ c \in Slow(p, t) /\ c \notin Slow(p, t)'
    BY <1>1, <1>3, <1>11, <1>15 DEF Records, Slow, o, ts
  <2>3. CASE Remembered(p, t)
    <3>1. ASSUME NEW u \in Window(p, t) PROVE passed'[p][u] <= hits'[u]
      <4>1. u \in Policy!Times /\ ~(u + wide < ts)
        BY <1>14, <1>15
      <4>2. passed[p][u] <= hits[u] /\ passed[p][u] \in Nat /\ hits[u] \in Nat
        BY <1>4, <1>9, <2>3, <4>1 DEF Remembered
      <4>3. CASE u = ts
        <5>1. hits'[u] = hits[u] + 1 /\ passed'[p][u] = passed[p][u] + 1
          <6>1. passed[o] \in [Policy!Times -> Nat]
            BY <1>3, <1>4
          <6> QED BY <1>5, <1>7, <1>15, <4>1, <4>3, <6>1
        <5> QED BY <4>2, <5>1
      <4>4. CASE u # ts
        <5>1. hits'[u] = hits[u] /\ passed'[p][u] = passed[p][u]
          <6>1. passed[o] \in [Policy!Times -> Nat]
            BY <1>3, <1>4
          <6> QED BY <1>5, <1>7, <1>15, <4>1, <4>4, <6>1
        <5> QED BY <4>2, <5>1
      <4> QED BY <4>3, <4>4
    <3> HIDE DEF went, limit, workers, m, n
    <3>2. went + 1 + m <= limit - 1 + workers
      BY <1>12, <1>13, <2>2, <2>3
    <3> QED BY <2>1, <3>1, <3>2 DEF Remembered, limit, workers, m
  <2>4. CASE Forgotten(p, t)
    <3> HIDE DEF went, limit, workers, k, l
    <3>1. went + 1 + k <= limit + 2 * (workers - 1)
      BY <1>12, <1>13, <2>2, <2>4
    <3> QED BY <1>1, <1>13, <2>1, <2>4, <3>1 DEF Forgotten, limit, workers, k
  <2> QED BY <2>3, <2>4 DEF LimitKept
<1>16. CASE ~(p = o /\ ts \in Window(p, t))
  <2>1. Went(p, t)' = went
    <3>1. CASE p # o
      BY <1>7, <1>9, <3>1 DEF Went
    <3>2. CASE p = o
      <4>1. passed[o] \in [Policy!Times -> Nat] /\ ts \notin Window(p, t)
        BY <1>3, <1>4, <1>16, <3>2
      <4>2. /\ Policy!Total(passed[o], Window(p, t)) \in Nat
            /\ Policy!Total(passed'[o], Window(p, t)) = Policy!Total(passed[o], Window(p, t)) + 0
        BY <1>3, <1>7, <4>1, TotalCounts
      <4> QED BY <3>2, <4>2 DEF Went
    <3> QED BY <3>1, <3>2
  <2>2. CASE Remembered(p, t) /\ ts <= t
    <3>1. ASSUME NEW u \in Window(p, t) PROVE passed'[p][u] <= hits'[u]
      <4>1. u \in Policy!Times /\ ~(u + wide < ts)
        BY <1>14, <2>2
      <4>2. passed[p][u] <= hits[u] /\ passed[p][u] \in Nat /\ hits[u] \in Nat
        BY <1>4, <1>9, <2>2, <4>1 DEF Remembered
      <4>3. hits'[u] = hits[u] \/ hits'[u] = hits[u] + 1
        BY <1>5, <4>1
      <4>4. passed'[p][u] = passed[p][u]
        <5>1. CASE p # o
          BY <1>7, <1>9, <5>1
        <5>2. CASE p = o
          <6>1. passed[o] \in [Policy!Times -> Nat] /\ u # ts
            BY <1>3, <1>4, <1>16, <5>2
          <6> QED BY <1>7, <4>1, <5>2, <6>1
        <5> QED BY <5>1, <5>2
      <4> QED BY <4>2, <4>3, <4>4
    <3> HIDE DEF went, limit, workers, m, n
    <3>2. went + m <= limit - 1 + workers
      BY <1>12, <1>13, <2>2
    <3> QED BY <2>1, <3>1, <3>2 DEF Remembered, limit, workers, m
  <2>3. CASE Remembered(p, t) /\ ~(ts <= t)
    <3>1. ts \notin Window(p, t) /\ t < now
      BY <1>3, <2>3 DEF Window, Policy!Times
    <3>2. c \notin Slow(p, t)'
      BY <1>11, <3>1
    <3> HIDE DEF went, limit, workers, k, n
    <3>3. went + k <= limit + 2 * (workers - 1)
      BY <1>12, <1>13, <2>3, <3>2
    <3> QED BY <1>1, <2>1, <3>1, <3>3 DEF Forgotten, limit, workers, k
  <2>4. CASE Forgotten(p, t)
    <3> HIDE DEF went, limit, workers, k, l
    <3>1. went + k <= limit + 2 * (workers - 1)
      BY <1>12, <1>13, <2>4
    <3> QED BY <1>1, <1>13, <2>1, <2>4, <3>1 DEF Forgotten, limit, workers, k
  <2> QED BY <2>2, <2>3, <2>4 DEF LimitKept
<1> QED BY <1>15, <1>16

\* Every step keeps the limit.
LEMMA LimitStays ==
    ASSUME PoliciesNumbered, QuotasSound, RequestTypes, RequestsFit, LimitTypes, LimitKept,
           [Policy!Next]_(Policy!vars)
    PROVE  LimitTypes' /\ LimitKept'
<1>1. now \in Policy!Times /\ now <= now
  BY DEF LimitTypes, Policy!Times
<1>2. ASSUME NEW c \in Workers, Policy!Arrive(c) PROVE LimitTypes' /\ LimitKept'
  <2>1. hits' = hits /\ passed' = passed /\ now' = now
    BY <1>2 DEF Policy!Arrive
  <2>2. \E q \in Request : Comes(c, q) /\ q.pc = "rules" /\ q.ts = now
    BY <1>2, Arrived
  <2> QED BY <2>1, <2>2, LimitMoves
<1>13. ASSUME NEW c \in Workers, Policy!ArriveUnread(c) PROVE LimitTypes' /\ LimitKept'
  <2>1. hits' = hits /\ passed' = passed /\ now' = now
    BY <1>13 DEF Policy!ArriveUnread
  <2>2. \E q \in Request : Comes(c, q) /\ q.pc = "blocks"
    BY <1>13, ArrivedUnread
  <2>3. "blocks" \notin {"rules", "record"}
    OBVIOUS
  <2> QED BY <2>1, <2>2, <2>3, LimitMoves
<1>14. ASSUME NEW c \in Workers, Policy!EvaluateUnread(c) PROVE LimitTypes' /\ LimitKept'
  <2>1. hits' = hits /\ passed' = passed /\ now' = now /\ request[c].pc = "rules"
    BY <1>14 DEF Policy!EvaluateUnread, Policy!At
  <2>2. PICK q \in Request :
              /\ Comes(c, q) /\ q.pc = "rules" /\ q.ts = request[c].ts
              /\ q.todo \subseteq request[c].todo
    BY <1>14, EvaluatedUnread
  <2>3. ASSUME NEW d \in Workers, request'[d].pc \in {"rules", "record"}
        PROVE  /\ request[d].pc \in {"rules", "record"}
               /\ request'[d].ts = request[d].ts
               /\ request'[d].todo \subseteq request[d].todo
               /\ request'[d].pc = "record" =>
                     request[d].pc = "record" /\ request'[d].todo = request[d].todo
    BY <2>1, <2>2, <2>3 DEF Comes
  <2> QED BY <1>1, <2>1, <2>3, LimitRests
<1>3. ASSUME NEW c \in Workers, Policy!Done(c), hits' = hits, passed' = passed, now' = now
      PROVE  LimitTypes' /\ LimitKept'
  <2>1. Comes(c, Policy!Idle) /\ Policy!Idle.pc \notin {"rules", "record"}
    BY <1>3, IdleRequest, RequestsMove DEF Policy!Done, Comes
  <2> QED BY <1>3, <2>1, IdleRequest, LimitMoves
<1>4. ASSUME NEW c \in Workers, NEW pc \in {"blocks", "insert"},
             Policy!Become(c, [request[c] EXCEPT !.pc = pc]),
             hits' = hits, passed' = passed, now' = now
      PROVE  LimitTypes' /\ LimitKept'
  <2>1. \E q \in Request : Comes(c, q) /\ q.pc = pc
    BY <1>4, GoesOn DEF InFlight
  <2>2. pc \notin {"rules", "record"}
    BY <1>4
  <2> QED BY <1>4, <2>1, <2>2, LimitMoves
<1>5. ASSUME NEW c \in Workers,
             Policy!Decide(c) \/ Policy!CheckBlocks(c) \/ Policy!Insert(c)
      PROVE  LimitTypes' /\ LimitKept'
  <2>1. /\ hits' = hits /\ passed' = passed /\ now' = now
        /\ \/ Policy!Done(c)
           \/ \E pc \in {"blocks", "insert"} : Policy!Become(c, [request[c] EXCEPT !.pc = pc])
    BY <1>5 DEF Policy!Decide, Policy!CheckBlocks, Policy!Insert
  <2> QED BY <1>3, <1>4, <2>1
<1>6. ASSUME NEW c \in Workers, NEW p \in Policies, NEW state \in {"off", "on"},
             Policy!ReadPolicy(c, p, state)
      PROVE  LimitTypes' /\ LimitKept'
  <2>1. hits' = hits /\ passed' = passed /\ now' = now
    BY <1>6 DEF Policy!ReadPolicy
  <2>2. \E q \in Request : Comes(c, q) /\ q.pc = "edit"
    BY <1>6, EditRead
  <2> QED BY <2>1, <2>2, LimitMoves
<1>7. ASSUME hits' = hits, passed' = passed, now' \in Policy!Times, now <= now',
             \A c \in Workers : request'[c].pc # "idle" =>
                /\ request'[c].pc = request[c].pc
                /\ request'[c].todo = request[c].todo
                /\ request'[c].ts = request[c].ts
      PROVE  LimitTypes' /\ LimitKept'
  <2>1. ASSUME NEW c \in Workers, request'[c].pc \in {"rules", "record"}
        PROVE  /\ request[c].pc \in {"rules", "record"}
               /\ request'[c].ts = request[c].ts
               /\ request'[c].todo \subseteq request[c].todo
               /\ request'[c].pc = "record" =>
                     request[c].pc = "record" /\ request'[c].todo = request[c].todo
    <3>1. request'[c].pc # "idle"
      BY <2>1
    <3> QED BY <1>7, <2>1, <3>1
  <2> QED BY <1>7, <2>1, LimitRests
<1>8. ASSUME NEW c \in Workers, Policy!WritePolicy(c) PROVE LimitTypes' /\ LimitKept'
  <2>1. hits' = hits /\ passed' = passed /\ now' = now
    BY <1>8 DEF Policy!WritePolicy
  <2>2. request'[c].pc = "idle" /\ \A d \in Workers : d # c =>
                 /\ request'[d].pc = request[d].pc
                 /\ request'[d].todo = request[d].todo
                 /\ request'[d].ts = request[d].ts
    BY <1>8, PolicyWritten
  <2> QED BY <1>1, <1>7, <2>1, <2>2
<1>9. ASSUME NEW p \in Policies, NEW state \in {"absent", "off", "on"},
             Policy!SetPolicy(p, state, request), hits' = hits, passed' = passed, now' = now
      PROVE  LimitTypes' /\ LimitKept'
  BY <1>1, <1>7, <1>9, PolicySet DEF RequestTypes
<1>10. CASE \/ \E p \in Policies, state \in {"off", "on"} : Policy!CreatePolicy(p, state)
            \/ \E p \in Policies : Policy!DeletePolicy(p)
  BY <1>9, <1>10 DEF Policy!CreatePolicy, Policy!DeletePolicy
<1>11. CASE Policy!Tick
  <2>1. hits' = hits /\ passed' = passed /\ request' = request
        /\ now < MaxTime /\ now' = now + 1
    BY <1>11 DEF Policy!Tick
  <2>2. now' \in Policy!Times /\ now <= now'
    BY <1>1, <2>1 DEF Policy!Times, QuotasSound
  <2> QED BY <1>7, <2>1, <2>2
<1>12. CASE Policy!OneMore \/ Policy!Finish \/ UNCHANGED Policy!vars
  <2>1. hits' = hits /\ passed' = passed /\ request' = request /\ now' = now
    BY <1>12 DEF Policy!OneMore, Policy!Finish, Policy!vars
  <2> QED BY <1>1, <1>7, <2>1
<1> QED
  BY <1>2, <1>5, <1>6, <1>8, <1>10, <1>11, <1>12, <1>13, <1>14, LimitCounts, LimitRecords
  DEF Policy!Next, Policy!InsertOutside, Policy!MoveIn, Policy!Reopen

\* At the start nothing has passed.
LEMMA LimitStarts == ASSUME QuotasSound, Policy!Init PROVE LimitTypes /\ LimitKept
<1>1. MaxTime \in Nat /\ 0 \in Policy!Times
  BY DEF QuotasSound, Policy!Times
<1>2. /\ hits \in [Policy!Times -> Nat] /\ passed \in [Policies -> [Policy!Times -> Nat]]
      /\ now \in Policy!Times /\ \A c \in Workers : request[c].pc = "idle"
      /\ \A p \in Policies, t \in Policy!Times : passed[p][t] = 0 /\ hits[t] = 0
  BY <1>1, IdleRequest DEF Policy!Init
<1>3. LimitTypes
  BY <1>2 DEF LimitTypes
<1>4. ASSUME NEW p \in Policy!Shortest, NEW t \in Policy!Times PROVE Remembered(p, t)
  <2>1. p \in Policies /\ RuleOf[p].limit \in Nat \ {0}
    BY <1>3, LimitCounted DEF QuotasSound
  <2>2. \A u \in Window(p, t) : u \in Policy!Times /\ passed[p][u] <= hits[u]
    BY <1>2, <2>1 DEF Window
  <2>3. Went(p, t) = 0
    BY <1>1, <1>2, <2>1, TotalOfNone DEF Went
  <2>4. Cardinality(Records(p, t)) = 0
    <3>1. Records(p, t) = {}
      BY <1>2 DEF Records
    <3> QED BY <3>1, FS_EmptySet
  <2>5. Cardinality(Workers) \in Nat
    BY FS_CardinalityType DEF QuotasSound
  <2>6. 0 + 0 <= RuleOf[p].limit - 1 + Cardinality(Workers)
    BY <2>1, <2>5
  <2> QED BY <2>2, <2>3, <2>4, <2>6 DEF Remembered
<1> QED BY <1>3, <1>4 DEF LimitKept

\* A rate limit with the shortest window of the project is exceeded by no more than
\* two for each further request in flight: property ShortestWindowKept, for any limits
\* and windows and any number of requests.
THEOREM LimitsHold == Policy!Spec => []ShortestWindowKept
<1> USE EngineAssumption
<1>1. Policy!Init => RequestTypes /\ RequestsFit /\ LimitTypes /\ LimitKept
  BY RequestTypesHold, LimitStarts
<1>2. RequestTypes /\ RequestsFit /\ LimitTypes /\ LimitKept /\ [Policy!Next]_(Policy!vars)
      => (RequestTypes /\ RequestsFit /\ LimitTypes /\ LimitKept)'
  BY RequestTypesStay, LimitStays
<1>3. LimitTypes /\ LimitKept => ShortestWindowKept
  <2> SUFFICES ASSUME LimitTypes, LimitKept, NEW p \in Policy!Shortest, NEW t \in Policy!Times
               PROVE  Went(p, t) <= RuleOf[p].limit + 2 * (Cardinality(Workers) - 1)
    BY SameCount
    DEF ShortestWindowKept, Policy!ShortestWindowKept, Policy!PassedIn, Went, Window
  <2> DEFINE went == Went(p, t)
             limit == RuleOf[p].limit
             workers == Cardinality(Workers)
             n == Cardinality(Records(p, t))
             l == Cardinality(Slow(p, t))
  <2>1. /\ went \in Nat /\ limit \in Nat /\ workers \in Nat /\ 1 <= workers
        /\ n \in Nat /\ l \in Nat
    BY LimitCounted, WorkersCounted
  <2>2. \/ went + n <= limit - 1 + workers
        \/ went + l <= limit + 2 * (workers - 1)
    BY DEF LimitKept, Remembered, Forgotten
  <2> HIDE DEF went, limit, workers, n, l
  <2>3. went <= limit + 2 * (workers - 1)
    BY <2>1, <2>2
  <2> QED BY <2>3 DEF went, limit, workers
<1> QED BY <1>1, <1>2, <1>3, PTL DEF Policy!Spec

-----------------------------------------------------------------------------
(* The bounds of the policies.                                             *)

\* The requests past the middleware's beginning.
UnderWay == {c \in Workers : request[c].pc \in InFlight}

\* A task of the project was made by a request that has ended, or outside.
RequestsCounted ==
    /\ counted \in Nat /\ made \in Nat /\ outside \in Nat
    /\ made <= MaxRequests /\ outside <= MaxOutside
    /\ counted + Cardinality(UnderWay) <= made + outside
    /\ \A c \in Workers : request[c].ts \in Policy!Times

\* Nothing is made, and no request begins.
LEMMA CountedRests ==
    ASSUME QuotasSound, RequestsCounted, made' = made, outside' = outside,
           counted' \in Nat, counted' <= counted,
           UnderWay' \subseteq UnderWay, \A c \in Workers : request'[c].ts \in Policy!Times
    PROVE  RequestsCounted'
<1> DEFINE m == Cardinality(UnderWay')
           n == Cardinality(UnderWay)
<1>1. m \in Nat /\ n \in Nat /\ m <= n
  <2>1. UnderWay \subseteq Workers
    BY DEF UnderWay
  <2> QED BY <2>1, WorkersCounted
<1>2. counted + n <= made + outside /\ counted \in Nat /\ made \in Nat /\ outside \in Nat
      /\ made <= MaxRequests /\ outside <= MaxOutside
  BY DEF RequestsCounted
<1>3. \A k, l \in Nat : k <= counted /\ l <= n => k + l <= made + outside
  <2> HIDE DEF m, n
  <2> QED BY <1>1, <1>2
<1>4. counted' + m <= made + outside
  <2> HIDE DEF m, n
  <2> QED BY <1>1, <1>3
<1> QED BY <1>2, <1>4 DEF RequestsCounted

\* One request moves, and was in flight before when it is now.
LEMMA CountedMoves ==
    ASSUME QuotasSound, RequestsCounted, made' = made, outside' = outside, counted' = counted,
           NEW c \in Workers, NEW q \in Request, Comes(c, q), q.ts \in Policy!Times,
           q.pc \in InFlight => request[c].pc \in InFlight
    PROVE  RequestsCounted'
<1>1. ASSUME NEW d \in Workers
      PROVE  /\ request'[d].ts \in Policy!Times
             /\ request'[d].pc \in InFlight => request[d].pc \in InFlight
  BY DEF Comes, RequestsCounted
<1>2. UnderWay' \subseteq UnderWay
  BY <1>1 DEF UnderWay
<1>3. counted' \in Nat /\ counted' <= counted
  BY DEF RequestsCounted
<1> QED BY <1>1, <1>2, <1>3, CountedRests

\* A task is made by a request in flight, which ends, or outside.
LEMMA CountedStays ==
    ASSUME PoliciesNumbered, QuotasSound, BoundsSound,
           RequestTypes, RequestsFit, LimitTypes, RequestsCounted, [Policy!Next]_(Policy!vars)
    PROVE  RequestsCounted'
<1>0. /\ counted \in Nat /\ made \in Nat /\ outside \in Nat
      /\ made <= MaxRequests /\ outside <= MaxOutside
      /\ MaxRequests \in Nat /\ MaxOutside \in Nat
      /\ counted + Cardinality(UnderWay) <= made + outside
      /\ 0 \in Policy!Times /\ now \in Policy!Times
      /\ \A c \in Workers : request[c].ts \in Policy!Times
  BY DEF RequestsCounted, BoundsSound, QuotasSound, Policy!Times, LimitTypes
<1>1. UnderWay \subseteq Workers /\ IsFiniteSet(UnderWay) /\ Cardinality(UnderWay) \in Nat
  <2>1. UnderWay \subseteq Workers
    BY DEF UnderWay
  <2> QED BY <2>1, FS_Subset, FS_CardinalityType DEF QuotasSound
<1>2. ASSUME NEW c \in Workers, Policy!Arrive(c) \/ Policy!ArriveUnread(c)
      PROVE  RequestsCounted'
  <2>1. /\ made < MaxRequests /\ made' = made + 1 /\ counted' = counted
        /\ outside <= outside' /\ outside' \in Nat /\ outside' <= MaxOutside
        /\ request[c].pc = "idle"
    BY <1>0, <1>2 DEF Policy!Arrive, Policy!ArriveUnread, Policy!Uncounted, Policy!At
  <2>2. PICK q \in Request : Comes(c, q) /\ q.ts = now
    BY <1>2, Arrived, ArrivedUnread
  <2>3. UnderWay' \subseteq UnderWay \cup {c}
    BY <2>2 DEF UnderWay, Comes
  <2> DEFINE m == Cardinality(UnderWay')
             n == Cardinality(UnderWay)
  <2>4. m \in Nat /\ m <= n + 1
    <3>1. /\ IsFiniteSet(UnderWay \cup {c})
          /\ Cardinality(UnderWay \cup {c}) \in {n, n + 1}
      BY <1>1, FS_AddElement
    <3>2. m \in Nat /\ m <= Cardinality(UnderWay \cup {c})
      BY <2>3, <3>1, FS_Subset, FS_CardinalityType
    <3> QED BY <1>1, <3>1, <3>2
  <2>5. \A d \in Workers : request'[d].ts \in Policy!Times
    BY <1>0, <2>2 DEF Comes
  <2>6. n \in Nat /\ counted + n <= made + outside
    BY <1>0, <1>1
  <2>9. /\ counted \in Nat /\ made \in Nat /\ outside \in Nat /\ outside' \in Nat
        /\ counted' = counted /\ made' = made + 1 /\ outside <= outside'
    BY <1>0, <2>1
  <2> HIDE DEF m, n
  <2>10. \A k \in Nat : outside <= k => counted + m <= made + 1 + k
    BY <2>4, <2>6, <2>9
  <2>7. counted' + m <= made' + outside'
    BY <2>9, <2>10
  <2>8. made' \in Nat /\ made' <= MaxRequests
    BY <1>0, <2>1
  <2> QED BY <1>0, <2>1, <2>5, <2>7, <2>8 DEF RequestsCounted, m
<1>3. ASSUME NEW c \in Workers, Policy!Evaluate(c) PROVE RequestsCounted'
  <2>1. /\ made' = made /\ outside' = outside /\ counted' = counted
        /\ request[c].pc \in InFlight
    BY <1>3 DEF Policy!Evaluate, Policy!At, InFlight
  <2>2. \E q \in Request : Comes(c, q) /\ q.ts = request[c].ts
    BY <1>3, Evaluated
  <2> QED BY <1>0, <2>1, <2>2, CountedMoves
<1>14. ASSUME NEW c \in Workers, Policy!EvaluateUnread(c) PROVE RequestsCounted'
  <2>1. /\ made' = made /\ counted' = counted /\ request[c].pc \in InFlight
        /\ outside <= outside' /\ outside' \in Nat /\ outside' <= MaxOutside
    BY <1>0, <1>14 DEF Policy!EvaluateUnread, Policy!Uncounted, Policy!At, InFlight
  <2>2. PICK q \in Request : Comes(c, q) /\ q.ts = request[c].ts
    BY <1>14, EvaluatedUnread
  <2>3. UnderWay' \subseteq UnderWay /\ \A d \in Workers : request'[d].ts \in Policy!Times
    BY <1>0, <2>1, <2>2 DEF UnderWay, Comes
  <2> DEFINE m == Cardinality(UnderWay')
             n == Cardinality(UnderWay)
  <2>4. m \in Nat /\ n \in Nat /\ m <= n /\ counted + n <= made + outside
    BY <1>0, <1>1, <2>3, WorkersCounted
  <2>6. /\ counted \in Nat /\ made \in Nat /\ outside \in Nat /\ outside' \in Nat
        /\ counted' = counted /\ made' = made /\ outside <= outside'
    BY <1>0, <2>1
  <2> HIDE DEF m, n
  <2>7. \A k \in Nat : outside <= k => counted + m <= made + k
    BY <2>4, <2>6
  <2>5. counted' + m <= made' + outside'
    BY <2>6, <2>7
  <2> QED BY <1>0, <2>1, <2>3, <2>5 DEF RequestsCounted, m
<1>4. ASSUME NEW c \in Workers, Policy!Record(c) PROVE RequestsCounted'
  <2>1. /\ made' = made /\ outside' = outside /\ counted' = counted
        /\ request[c].pc \in InFlight
    BY <1>4 DEF Policy!Record, Policy!At, InFlight
  <2>2. \E q \in Request : Comes(c, q) /\ q.ts = request[c].ts
    BY <1>4, Recorded
  <2> QED BY <1>0, <2>1, <2>2, CountedMoves
<1>5. ASSUME NEW c \in Workers, Policy!Done(c), made' = made, outside' = outside,
             counted' = counted
      PROVE  RequestsCounted'
  <2>1. Comes(c, Policy!Idle) /\ Policy!Idle.pc \notin InFlight
    BY <1>5, IdleRequest, RequestsMove DEF Policy!Done, Comes, InFlight
  <2> QED BY <1>0, <1>5, <2>1, IdleRequest, CountedMoves
<1>6. ASSUME NEW c \in Workers, Policy!Decide(c) \/ Policy!CheckBlocks(c)
      PROVE  RequestsCounted'
  <2>1. /\ made' = made /\ outside' = outside /\ counted' = counted
        /\ request[c].pc \in InFlight
        /\ \/ Policy!Done(c)
           \/ \E pc \in {"blocks", "insert"} : Policy!Become(c, [request[c] EXCEPT !.pc = pc])
    BY <1>6 DEF Policy!Decide, Policy!CheckBlocks, Policy!At, InFlight
  <2>2. ASSUME NEW pc \in {"blocks", "insert"},
               Policy!Become(c, [request[c] EXCEPT !.pc = pc])
        PROVE  RequestsCounted'
    <3>1. pc \in InFlight
      BY DEF InFlight
    <3>2. \E q \in Request : Comes(c, q) /\ q.ts = request[c].ts
      BY <2>2, <3>1, GoesOn
    <3> QED BY <1>0, <2>1, <3>2, CountedMoves
  <2> QED BY <1>5, <2>1, <2>2
<1>7. ASSUME NEW c \in Workers, Policy!Insert(c) PROVE RequestsCounted'
  <2>1. /\ made' = made /\ outside' = outside /\ counted' = counted + 1
        /\ request[c].pc \in InFlight /\ Policy!Done(c)
    BY <1>7 DEF Policy!Insert, Policy!At, InFlight
  <2>2. Comes(c, Policy!Idle) /\ Policy!Idle.pc \notin InFlight
    BY <2>1, IdleRequest, RequestsMove DEF Comes, Policy!Done, InFlight
  <2>3. c \in UnderWay /\ UnderWay' \subseteq UnderWay \ {c}
    BY <2>1, <2>2 DEF UnderWay, Comes
  <2> DEFINE m == Cardinality(UnderWay')
             n == Cardinality(UnderWay)
  <2>4. m \in Nat /\ n \in Nat /\ m <= n - 1
    BY <1>1, <2>3, WorkersCounted
  <2>5. \A d \in Workers : request'[d].ts \in Policy!Times
    BY <1>0, <2>2, IdleRequest DEF Comes
  <2>6. counted + n <= made + outside
    BY <1>0
  <2> HIDE DEF m, n
  <2>7. counted' + m <= made' + outside'
    BY <1>0, <2>1, <2>4, <2>6
  <2> QED BY <1>0, <2>1, <2>5, <2>7 DEF RequestsCounted, m
<1>8. ASSUME NEW c \in Workers, NEW p \in Policies, NEW state \in {"off", "on"},
             Policy!ReadPolicy(c, p, state)
      PROVE  RequestsCounted'
  <2>1. made' = made /\ outside' = outside /\ counted' = counted
    BY <1>8 DEF Policy!ReadPolicy
  <2>2. \E q \in Request : Comes(c, q) /\ q.pc = "edit" /\ q.ts = 0
    BY <1>8, EditRead
  <2>3. "edit" \notin InFlight
    BY DEF InFlight
  <2> QED BY <1>0, <2>1, <2>2, <2>3, CountedMoves
<1>9. ASSUME made' = made, outside' = outside, counted' \in Nat, counted' <= counted,
             \A c \in Workers :
                /\ request'[c].pc = "idle" \/ request'[c].pc = request[c].pc
                /\ request'[c].ts \in {0, request[c].ts}
      PROVE  RequestsCounted'
  <2>1. UnderWay' \subseteq UnderWay
    BY <1>9 DEF UnderWay, InFlight
  <2>2. \A c \in Workers : request'[c].ts \in Policy!Times
    BY <1>0, <1>9
  <2> QED BY <1>9, <2>1, <2>2, CountedRests
<1>10. ASSUME NEW c \in Workers, Policy!WritePolicy(c) PROVE RequestsCounted'
  <2>1. made' = made /\ outside' = outside /\ counted' \in Nat /\ counted' <= counted
    BY <1>0, <1>10 DEF Policy!WritePolicy
  <2>2. \A d \in Workers :
           /\ request'[d].pc = "idle" \/ request'[d].pc = request[d].pc
           /\ request'[d].ts \in {0, request[d].ts}
    BY <1>10, PolicyWritten
  <2> QED BY <1>9, <2>1, <2>2
<1>11. CASE \/ \E p \in Policies, state \in {"off", "on"} : Policy!CreatePolicy(p, state)
            \/ \E p \in Policies : Policy!DeletePolicy(p)
  <2>1. PICK p \in Policies, state \in {"absent", "off", "on"} :
              Policy!SetPolicy(p, state, request)
    BY <1>11 DEF Policy!CreatePolicy, Policy!DeletePolicy
  <2>2. made' = made /\ outside' = outside /\ counted' \in Nat /\ counted' <= counted
    BY <1>0, <1>11 DEF Policy!CreatePolicy, Policy!DeletePolicy
  <2>3. \A c \in Workers : request'[c].pc = request[c].pc /\ request'[c].ts = request[c].ts
    BY <2>1, PolicySet DEF RequestTypes
  <2> QED BY <1>9, <2>2, <2>3
<1>12. CASE Policy!OneMore
  <2>1. /\ outside < MaxOutside /\ outside' = outside + 1 /\ counted' = counted + 1
        /\ made' = made /\ request' = request
    BY <1>12 DEF Policy!OneMore, Policy!Uncounted
  <2>2. UnderWay' = UnderWay
    BY <2>1 DEF UnderWay
  <2> DEFINE n == Cardinality(UnderWay)
  <2>3. n \in Nat /\ counted + n <= made + outside
    BY <1>0, <1>1
  <2> HIDE DEF n
  <2>4. counted' + n <= made' + outside' /\ outside' \in Nat /\ outside' <= MaxOutside
        /\ counted' \in Nat
    BY <1>0, <2>1, <2>3
  <2> QED BY <1>0, <2>1, <2>2, <2>4 DEF RequestsCounted, n
<1>13. CASE Policy!Finish \/ Policy!Tick \/ UNCHANGED Policy!vars
  <2>1. /\ made' = made /\ outside' = outside /\ request' = request
        /\ counted' = counted \/ (counted > 0 /\ counted' = counted - 1)
    BY <1>13 DEF Policy!Finish, Policy!Tick, Policy!vars
  <2>2. counted' \in Nat /\ counted' <= counted
    BY <1>0, <2>1
  <2> QED BY <1>9, <2>1, <2>2
<1> QED
  BY <1>2, <1>3, <1>4, <1>6, <1>7, <1>8, <1>10, <1>11, <1>12, <1>13, <1>14
  DEF Policy!Next, Policy!InsertOutside, Policy!MoveIn, Policy!Reopen

\* What holds of the policies in every reachable state.
PoliciesInv == RequestTypes /\ RequestsFit /\ LimitTypes /\ LimitKept /\ RequestsCounted

\* Every variable of the policy engine has its type, for any policies and any number
\* of requests: what a project has of tasks never exceeds what was asked for.
THEOREM PoliciesTypeCorrect == Policy!Spec => []Policy!TypeOK
<1> USE EngineAssumption
<1>1. Policy!Init => PoliciesInv
  <2> SUFFICES ASSUME Policy!Init PROVE RequestsCounted
    BY LimitStarts, RequestTypesHold DEF PoliciesInv
  <2>1. /\ counted = 0 /\ made = 0 /\ outside = 0
        /\ \A c \in Workers : request[c] = Policy!Idle
    BY DEF Policy!Init
  <2>2. UnderWay = {}
    BY <2>1, IdleRequest DEF UnderWay, InFlight
  <2>3. 0 \in Policy!Times
    BY DEF Policy!Times, QuotasSound
  <2> QED BY <2>1, <2>2, <2>3, IdleRequest, FS_EmptySet DEF RequestsCounted, BoundsSound
<1>2. PoliciesInv /\ [Policy!Next]_(Policy!vars) => PoliciesInv'
  BY RequestTypesStay, LimitStays, CountedStays DEF PoliciesInv
<1>3. PoliciesInv => Policy!TypeOK
  <2> SUFFICES ASSUME PoliciesInv PROVE Policy!TypeOK
    OBVIOUS
  <2>1. ASSUME NEW c \in Workers
        PROVE  request[c] \in [pc : {"idle", "rules", "record", "blocks", "insert", "edit"},
                               ts : Policy!Times, todo : SUBSET Policies, ok : BOOLEAN,
                               clear : BOOLEAN, on : {"off", "on"}]
    <3>1. request[c] \in Request /\ request[c].ts \in Policy!Times
      BY DEF PoliciesInv, RequestTypes, RequestsCounted
    <3> QED BY <3>1 DEF Request, InFlight
  <2>2. counted \in 0..(MaxRequests + MaxOutside)
    <3> DEFINE n == Cardinality(UnderWay)
    <3>1. n \in Nat
      <4>1. UnderWay \subseteq Workers
        BY DEF UnderWay
      <4> QED BY <4>1, WorkersCounted
    <3>2. counted + n <= made + outside /\ counted \in Nat /\ made \in Nat /\ outside \in Nat
          /\ made <= MaxRequests /\ outside <= MaxOutside
      BY DEF PoliciesInv, RequestsCounted
    <3> HIDE DEF n
    <3> QED BY <3>1, <3>2 DEF BoundsSound
  <2> QED
    BY <2>1, <2>2
    DEF Policy!TypeOK, PoliciesInv, RequestTypes, LimitTypes, RequestsCounted, BoundsSound
<1> QED BY <1>1, <1>2, <1>3, PTL DEF Policy!Spec

-----------------------------------------------------------------------------
(* Scans.                                                                  *)

\* Before its row is written, a chain is going to bring the rows up to date.
Scanning(w) == scans[w].pc \in {"scan", "list", "walk"}
\* Its row is about to be written from what it has read.
Saving(w) == scans[w].pc = "save"

\* What a chain of events has in hand.
Chain == [pc : {"idle", "scan", "list", "walk", "save", "invalidate", "mark", "queue", "pack"},
          seen : SUBSET Paths, before : SUBSET Paths, todo : SUBSET Packed]

\* What the rest needs of the type invariant.
ScanTypes == scans \in [Workers -> Chain] /\ disk \subseteq Paths /\ listed \subseteq Paths

\* From a scan that began after the last change on disk: a row that does not belong
\* will be dropped by a chain that is on its way or has read it, and one that is
\* missing will be listed.
Settling ==
    clean =>
        /\ \A w \in Workers : Saving(w) => scans[w].seen = Know!Walkable
        /\ \A p \in listed \ Know!Walkable :
              \E w \in Workers : Scanning(w) \/ (Saving(w) /\ p \in scans[w].before)
        /\ ~(Know!Walkable \subseteq listed) => \E w \in Workers : Scanning(w) \/ Saving(w)

\* An idle chain is well formed.
LEMMA IdleChain == Know!Idle \in Chain
  BY DEF Know!Idle, Chain

\* A chain goes on with nothing in hand.
LEMMA ChainGoes ==
    ASSUME ScanTypes, NEW w \in Workers,
           NEW pc \in {"idle", "scan", "list", "walk", "save", "invalidate", "mark", "queue",
                       "pack"},
           Know!Goto(w, pc)
    PROVE  /\ scans' \in [Workers -> Chain]
           /\ scans'[w].pc = pc
           /\ \A v \in Workers : v # w => scans'[v] = scans[v]
<1> DEFINE q == [Know!Idle EXCEPT !.pc = pc]
<1>1. q \in Chain /\ q.pc = pc
  BY IdleChain DEF Chain
<1>2. scans' = [scans EXCEPT ![w] = q]
  BY DEF Know!Goto, Know!Become
<1> HIDE DEF q
<1> QED BY <1>1, <1>2 DEF ScanTypes

\* A chain ends.
LEMMA ChainEnds ==
    ASSUME ScanTypes, NEW w \in Workers, Know!Done(w)
    PROVE  /\ scans' \in [Workers -> Chain]
           /\ scans'[w].pc = "idle"
           /\ \A v \in Workers : v # w => scans'[v] = scans[v]
<1>1. scans' = [scans EXCEPT ![w] = Know!Idle] /\ Know!Idle.pc = "idle"
  BY DEF Know!Done, Know!Become, Know!Idle
<1> QED BY <1>1, IdleChain DEF ScanTypes

\* A chain reads rows and files.
LEMMA ChainReads ==
    ASSUME ScanTypes, NEW w \in Workers, NEW pc \in {"list", "save"}, NEW seen \in SUBSET Paths,
           NEW before \in SUBSET Paths,
           Know!Become(w, [scans[w] EXCEPT !.pc = pc, !.seen = seen, !.before = before])
    PROVE  /\ scans' \in [Workers -> Chain]
           /\ scans'[w].pc = pc /\ scans'[w].seen = seen /\ scans'[w].before = before
           /\ \A v \in Workers : v # w => scans'[v] = scans[v]
<1> DEFINE q == [scans[w] EXCEPT !.pc = pc, !.seen = seen, !.before = before]
<1>1. q \in Chain /\ q.pc = pc /\ q.seen = seen /\ q.before = before
  BY DEF Chain, ScanTypes
<1>2. scans' = [scans EXCEPT ![w] = q]
  BY DEF Know!Become
<1> HIDE DEF q
<1> QED BY <1>1, <1>2 DEF ScanTypes

\* A chain that makes a pack.
LEMMA ChainPacks ==
    ASSUME ScanTypes, NEW w \in Workers, NEW t \in Packed,
           Know!Become(w, [Know!Idle EXCEPT !.pc = "pack", !.todo = {t}])
    PROVE  /\ scans' \in [Workers -> Chain]
           /\ scans'[w].pc = "pack"
           /\ \A v \in Workers : v # w => scans'[v] = scans[v]
<1> DEFINE q == [Know!Idle EXCEPT !.pc = "pack", !.todo = {t}]
<1>1. q \in Chain /\ q.pc = "pack"
  BY IdleChain DEF Chain
<1>2. scans' = [scans EXCEPT ![w] = q]
  BY DEF Know!Become
<1> HIDE DEF q
<1> QED BY <1>1, <1>2 DEF ScanTypes

\* A chain is somewhere else.
ChainComes(w) ==
    scans' \in [Workers -> Chain] /\ \A v \in Workers : v # w => scans'[v] = scans[v]

\* What the walk sees depends on the disk only.
LEMMA SameDisk == ASSUME disk' = disk PROVE Know!Walkable' = Know!Walkable
  BY DEF Know!Walkable

\* What walks see is on the disk.
LEMMA WalkableOnDisk == Know!Walkable \subseteq disk /\ Know!Scannable \subseteq disk
  BY DEF Know!Walkable, Know!Scannable

\* The steps that neither list files nor are on the way to it.
LEMMA SettlingKeeps ==
    ASSUME ScanTypes, Settling, disk' = disk, listed' = listed, clean' => clean,
           NEW w \in Workers, ChainComes(w),
           Scanning(w) => Scanning(w)', ~Saving(w), ~Saving(w)'
    PROVE  Settling'
<1> SUFFICES ASSUME clean'
             PROVE  /\ \A v \in Workers : Saving(v)' => scans'[v].seen = Know!Walkable
                    /\ \A p \in listed \ Know!Walkable :
                          \E v \in Workers : Scanning(v)' \/ (Saving(v)' /\ p \in scans'[v].before)
                    /\ ~(Know!Walkable \subseteq listed) =>
                          \E v \in Workers : Scanning(v)' \/ Saving(v)'
  BY SameDisk DEF Settling
<1>1. \A v \in Workers : v # w => /\ Scanning(v)' <=> Scanning(v)
                                  /\ Saving(v)' <=> Saving(v)
                                  /\ scans'[v] = scans[v]
  BY DEF ChainComes, Scanning, Saving
<1>2. \A v \in Workers : Scanning(v) => Scanning(v)'
  BY <1>1
<1>3. \A v \in Workers : Saving(v) => Saving(v)' /\ scans'[v] = scans[v]
  BY <1>1
<1>4. \A v \in Workers : Saving(v)' => Saving(v) /\ scans'[v] = scans[v]
  BY <1>1
<1> QED BY <1>2, <1>3, <1>4 DEF Settling

\* A chain is on its way, so that the rows are settled whatever is listed.
LEMMA SettlingAwaited ==
    ASSUME ScanTypes, disk' = disk, NEW w \in Workers, ChainComes(w), Scanning(w)',
           clean' => \A v \in Workers : v # w /\ Saving(v) => scans[v].seen = Know!Walkable
    PROVE  Settling'
<1>1. ~Saving(w)'
  BY DEF Scanning, Saving
<1>2. \A v \in Workers : v # w => (Saving(v)' <=> Saving(v)) /\ scans'[v] = scans[v]
  BY DEF ChainComes, Saving
<1> QED BY <1>1, <1>2, SameDisk DEF Settling

\* Every step keeps the rows on their way.
LEMMA SettlingStays ==
    ASSUME ScanTypes, Settling, [Know!Next]_(Know!vars)
    PROVE  ScanTypes' /\ Settling'
<1>1. ASSUME NEW w \in Workers, NEW changed \in SUBSET Paths, Know!RepoChanged(w, changed)
      PROVE  ScanTypes' /\ Settling'
  <2>1. disk' = disk /\ listed' = listed \cup changed /\ scans[w].pc = "idle"
    BY <1>1 DEF Know!RepoChanged, Know!At
  <2>2. CASE Know!Goto(w, "scan") /\ clean' = (clean \/ Know!AllIdle)
    <3>1. ChainComes(w) /\ scans'[w].pc = "scan"
      BY <2>2, ChainGoes DEF ChainComes
    <3>2. clean' => \A v \in Workers : v # w /\ Saving(v) => scans[v].seen = Know!Walkable
      BY <2>2 DEF Settling, Saving, Know!AllIdle, Know!At
    <3>3. Settling'
      BY <2>1, <3>1, <3>2, SettlingAwaited DEF Scanning
    <3> QED BY <2>1, <3>1, <3>3 DEF ScanTypes, ChainComes
  <2>3. CASE scans' = scans /\ clean' = (clean /\ listed' = listed)
    <3>1. CASE listed' = listed
      BY <2>1, <2>3, <3>1, SameDisk DEF Settling, ScanTypes, Scanning, Saving
    <3>2. CASE listed' # listed
      BY <2>1, <2>3, <3>2 DEF Settling, ScanTypes
    <3> QED BY <3>1, <3>2
  <2> QED BY <1>1, <2>2, <2>3 DEF Know!RepoChanged
<1>2. ASSUME NEW w \in Workers, Know!Scan(w) PROVE ScanTypes' /\ Settling'
  <2>1. PICK before \in {listed, {}} :
          Know!Become(w, [scans[w] EXCEPT !.pc = "list", !.seen = Know!Scannable,
                                          !.before = before])
    BY <1>2 DEF Know!Scan
  <2>2. scans[w].pc = "scan" /\ disk' = disk /\ listed' = listed /\ clean' = clean
    BY <1>2 DEF Know!Scan, Know!At, Know!files, Know!histories
  <2>3. before \in SUBSET Paths /\ Know!Scannable \in SUBSET Paths
    BY WalkableOnDisk DEF ScanTypes
  <2>4. ChainComes(w) /\ scans'[w].pc = "list"
    BY <2>1, <2>3, ChainReads DEF ChainComes
  <2>5. Settling'
    BY <2>2, <2>4, SettlingKeeps DEF Scanning, Saving
  <2> QED BY <2>2, <2>4, <2>5 DEF ScanTypes, ChainComes
<1>3. ASSUME NEW w \in Workers, NEW failed \in SUBSET Paths, Know!List(w, failed)
      PROVE  ScanTypes' /\ Settling'
  <2>1. Know!Goto(w, "walk") /\ scans[w].pc = "list" /\ disk' = disk /\ clean' = clean
        /\ listed' = Know!Synced(w, failed)
    BY <1>3 DEF Know!List, Know!At, Know!histories
  <2>2. ChainComes(w) /\ scans'[w].pc = "walk"
    BY <2>1, ChainGoes DEF ChainComes
  <2>3. listed' \subseteq Paths
    BY <2>1 DEF Know!Synced, ScanTypes, Chain
  <2>4. clean' => \A v \in Workers : v # w /\ Saving(v) => scans[v].seen = Know!Walkable
    BY <2>1 DEF Settling
  <2>5. Settling'
    BY <2>1, <2>2, <2>4, SettlingAwaited DEF Scanning
  <2> QED BY <2>1, <2>2, <2>3, <2>5 DEF ScanTypes, ChainComes
<1>4. ASSUME NEW w \in Workers, Know!Walk(w) PROVE ScanTypes' /\ Settling'
  <2>1. PICK before \in {Know!FirstRows, {}} :
          /\ Know!Become(w, [scans[w] EXCEPT !.pc = "save", !.before = before,
                                             !.seen = Know!Walkable])
          /\ clean' = (clean /\ listed \ before \subseteq Know!Walkable)
    BY <1>4 DEF Know!Walk
  <2>2. /\ Know!Become(w, [scans[w] EXCEPT !.pc = "save", !.seen = Know!Walkable,
                                           !.before = before])
        /\ scans[w].pc = "walk" /\ disk' = disk /\ listed' = listed
    <3>1. [scans[w] EXCEPT !.pc = "save", !.before = before, !.seen = Know!Walkable]
            = [scans[w] EXCEPT !.pc = "save", !.seen = Know!Walkable, !.before = before]
      BY DEF ScanTypes, Chain
    <3> QED BY <1>4, <2>1, <3>1 DEF Know!Walk, Know!At, Know!files
  <2>3. before \in SUBSET Paths /\ Know!Walkable \in SUBSET Paths
    BY WalkableOnDisk DEF Know!FirstRows, ScanTypes
  <2>4. /\ ChainComes(w) /\ scans'[w].pc = "save"
        /\ scans'[w].seen = Know!Walkable /\ scans'[w].before = before
    BY <2>2, <2>3, ChainReads DEF ChainComes
  <2>5. \A v \in Workers : v # w => (Saving(v)' <=> Saving(v)) /\ scans'[v] = scans[v]
    BY <2>4 DEF ChainComes, Saving
  <2>6. Saving(w)'
    BY <2>4 DEF Saving
  <2>7. clean' => clean /\ \A p \in listed \ Know!Walkable : p \in before
    BY <2>1
  <2>8. Settling'
    BY <2>2, <2>4, <2>5, <2>6, <2>7, SameDisk DEF Settling
  <2> QED BY <2>2, <2>4, <2>8 DEF ScanTypes, ChainComes
<1>5. ASSUME NEW w \in Workers, NEW failed \in SUBSET Paths, Know!Save(w, failed)
      PROVE  ScanTypes' /\ Settling'
  <2>1. Know!Goto(w, "invalidate") /\ scans[w].pc = "save" /\ disk' = disk
        /\ listed' = Know!Synced(w, failed)
        /\ clean' = (clean /\ listed' = Know!Synced(w, {}))
    BY <1>5 DEF Know!Save, Know!At
  <2>2. ChainComes(w) /\ scans'[w].pc = "invalidate"
    BY <2>1, ChainGoes DEF ChainComes
  <2>3. listed' \subseteq Paths
    BY <2>1 DEF ScanTypes, Chain, Know!Synced
  <2>4. \A v \in Workers : v # w => /\ Scanning(v)' <=> Scanning(v)
                                    /\ Saving(v)' <=> Saving(v)
                                    /\ scans'[v] = scans[v]
    BY <2>2 DEF ChainComes, Scanning, Saving
  <2>5. ~Saving(w)' /\ ~Scanning(w) /\ Saving(w)
    BY <2>1, <2>2 DEF Saving, Scanning
  <2>6. Settling'
    <3> SUFFICES ASSUME clean, listed' = Know!Synced(w, {})
                 PROVE  /\ \A v \in Workers : Saving(v)' => scans'[v].seen = Know!Walkable
                        /\ \A p \in listed' \ Know!Walkable :
                              \E v \in Workers :
                                  Scanning(v)' \/ (Saving(v)' /\ p \in scans'[v].before)
                        /\ Know!Walkable \subseteq listed'
      BY <2>1, SameDisk DEF Settling
    <3>0. listed' = (listed \cup scans[w].seen) \ (scans[w].before \ scans[w].seen)
      BY DEF Know!Synced
    <3>1. scans[w].seen = Know!Walkable
      BY <2>5 DEF Settling
    <3>2. ASSUME NEW p \in listed' \ Know!Walkable
          PROVE  \E v \in Workers : Scanning(v)' \/ (Saving(v)' /\ p \in scans'[v].before)
      <4>1. p \in listed \ Know!Walkable /\ p \notin scans[w].before
        BY <3>0, <3>1
      <4>2. PICK v \in Workers : Scanning(v) \/ (Saving(v) /\ p \in scans[v].before)
        BY <4>1 DEF Settling
      <4>3. v # w
        BY <2>5, <4>1, <4>2
      <4> QED BY <2>4, <4>2, <4>3
    <3>3. \A v \in Workers : Saving(v)' => scans'[v].seen = Know!Walkable
      BY <2>4, <2>5 DEF Settling
    <3> QED BY <3>0, <3>1, <3>2, <3>3
  <2> QED BY <2>1, <2>2, <2>3, <2>6 DEF ScanTypes, ChainComes
<1>6. ASSUME NEW w \in Workers,
             Know!ReadTree(w) \/ Know!Remember(w) \/ Know!ScanFails(w)
      PROVE  ScanTypes' /\ Settling'
  <2>1. scans[w].pc \in {"idle", "scan"} /\ disk' = disk /\ listed' = listed /\ clean' = clean
        /\ (Know!Goto(w, "walk") \/ (scans[w].pc = "idle" /\ Know!Goto(w, "invalidate")))
    BY <1>6 DEF Know!ReadTree, Know!Remember, Know!ScanFails, Know!At, Know!files,
       Know!histories
  <2>2. ChainComes(w) /\ scans'[w].pc \in {"walk", "invalidate"}
        /\ (scans[w].pc = "scan" => scans'[w].pc = "walk")
    BY <2>1, ChainGoes DEF ChainComes
  <2>3. Settling'
    BY <2>1, <2>2, SettlingKeeps DEF Scanning, Saving
  <2> QED BY <2>1, <2>2, <2>3 DEF ScanTypes, ChainComes
<1>7. ASSUME NEW w \in Workers,
             \/ Know!Invalidate(w) \/ Know!Mark(w) \/ Know!MarkFails(w)
             \/ Know!QueueRefresh(w) \/ Know!InsertPack(w)
      PROVE  ScanTypes' /\ Settling'
  <2>1. scans[w].pc \in {"invalidate", "mark", "queue", "pack"} /\ disk' = disk
        /\ listed' = listed /\ clean' = clean
        /\ (Know!Goto(w, "mark") \/ Know!Goto(w, "queue") \/ Know!Done(w))
    BY <1>7 DEF Know!Invalidate, Know!Mark, Know!MarkFails, Know!QueueRefresh, Know!InsertPack,
       Know!At, Know!files, Know!histories
  <2>2. ChainComes(w) /\ scans'[w].pc \in {"mark", "queue", "idle"}
    BY <2>1, ChainGoes, ChainEnds DEF ChainComes
  <2>3. Settling'
    BY <2>1, <2>2, SettlingKeeps DEF Scanning, Saving
  <2> QED BY <2>1, <2>2, <2>3 DEF ScanTypes, ChainComes
<1>8. ASSUME NEW w \in Workers, NEW t \in Packed, Know!MakePack(w, t)
      PROVE  ScanTypes' /\ Settling'
  <2>1. disk' = disk /\ listed' = listed /\ clean' = clean /\ scans[w].pc = "idle"
    BY <1>8 DEF Know!MakePack, Know!At, Know!files, Know!histories
  <2>2. ChainComes(w) /\ scans'[w].pc = "pack"
    BY <1>8, ChainPacks DEF ChainComes, Know!MakePack
  <2>3. Settling'
    BY <2>1, <2>2, SettlingKeeps DEF Scanning, Saving
  <2> QED BY <2>1, <2>2, <2>3 DEF ScanTypes, ChainComes
<1>9. ASSUME scans' = scans, disk' \subseteq Paths, listed' \subseteq Paths,
             clean' => disk' = disk /\ listed' = listed /\ clean
      PROVE  ScanTypes' /\ Settling'
  BY <1>9, SameDisk DEF ScanTypes, Settling, Scanning, Saving
<1>10. CASE \E p \in Paths : Know!PutFile(p) \/ Know!DropFile(p)
  BY <1>9, <1>10 DEF Know!PutFile, Know!DropFile, Know!Silently, ScanTypes
<1>11. CASE \E purge \in BOOLEAN :
               Know!ScanFiles(purge) \/ \E sent \in SUBSET Paths : Know!SyncFiles(sent, purge)
  <2>1. Know!Scannable \in SUBSET Paths
    BY WalkableOnDisk DEF ScanTypes
  <2>2. ASSUME NEW purge \in BOOLEAN, NEW sent \in SUBSET Paths, Know!SyncFiles(sent, purge)
        PROVE  scans' = scans /\ disk' = disk /\ listed' \subseteq Paths /\ clean' = FALSE
    BY <2>2 DEF Know!SyncFiles, Know!Silently, ScanTypes
  <2> QED BY <1>9, <1>11, <2>1, <2>2 DEF Know!ScanFiles, ScanTypes
<1>12. CASE \E now_ \in SUBSET Paths : Know!EditDisk(now_)
  BY <1>9, <1>12 DEF Know!EditDisk, ScanTypes
<1>13. CASE Know!RememberQuietly \/ Know!NextWindow \/ UNCHANGED Know!vars
  BY <1>9, <1>13
  DEF Know!RememberQuietly, Know!NextWindow, Know!vars, Know!files, Know!histories, ScanTypes
<1>14. CASE Know!Crash
  BY <1>14, IdleChain DEF Know!Crash, Know!files, ScanTypes, Settling
<1>15. ASSUME NEW w \in Workers, Know!WalkSkipped(w) \/ Know!Lost(w)
       PROVE  ScanTypes' /\ Settling'
  <2>1. disk' = disk /\ listed' = listed /\ (Know!Goto(w, "invalidate") \/ Know!Done(w))
    BY <1>15 DEF Know!WalkSkipped, Know!Lost, Know!files
  <2>2. ChainComes(w) /\ scans'[w].pc \in {"invalidate", "idle"}
    BY <2>1, ChainGoes, ChainEnds DEF ChainComes
  <2>3. CASE ~clean'
    BY <2>1, <2>2, <2>3 DEF Settling, ScanTypes, ChainComes
  <2>4. CASE clean'
    <3>1. clean /\ scans[w].pc = "mark"
      BY <1>15, <2>4 DEF Know!WalkSkipped, Know!Lost, Know!At
    <3>2. Settling'
      BY <2>1, <2>2, <3>1, SettlingKeeps DEF Scanning, Saving
    <3> QED BY <2>1, <2>2, <3>2 DEF ScanTypes, ChainComes
  <2> QED BY <2>3, <2>4
<1> QED
  BY <1>1, <1>2, <1>3, <1>4, <1>5, <1>6, <1>7, <1>8, <1>10, <1>11, <1>12, <1>13, <1>14, <1>15
  DEF Know!Next

\* However chains overlap, although two walks undo each other's work, and whatever of
\* the first of them fails, the rows end as the last walk sees the disk: property
\* ScansSettle, for any files, any limits on them and on the rows, and any number of
\* chains.
THEOREM RowsSettle == Know!Spec => []ScansSettle
<1>1. Know!Init => ScanTypes /\ Settling
  BY IdleChain DEF Know!Init, ScanTypes, Settling
<1>2. ScanTypes /\ Settling /\ [Know!Next]_(Know!vars) => (ScanTypes /\ Settling)'
  BY SettlingStays
<1>3. Settling => ScansSettle
  <2> SUFFICES ASSUME Settling, Know!AllIdle, clean PROVE listed = Know!Walkable
    BY DEF ScansSettle, Know!ScansSettle
  <2>1. \A w \in Workers : ~Scanning(w) /\ ~Saving(w)
    BY DEF Know!AllIdle, Know!At, Scanning, Saving
  <2>2. listed \subseteq Know!Walkable /\ Know!Walkable \subseteq listed
    BY <2>1 DEF Settling
  <2> QED BY <2>2
<1> QED BY <1>1, <1>2, <1>3, PTL DEF Know!Spec

-----------------------------------------------------------------------------
(* Packs.                                                                  *)

\* The steps after which a worker is on its way to mark the packs.
LEMMA FreshAnnounced ==
    ASSUME NEW w \in Workers,
           scans'[w].pc \in {"scan", "list", "walk", "save", "invalidate", "mark"}
    PROVE  FreshPacksAreCurrent'
  BY DEF FreshPacksAreCurrent, Know!FreshPacksAreCurrent, Know!Announcing

\* The steps of a worker that was not on its way there and still is not.
LEMMA FreshKept ==
    ASSUME NEW w \in Workers, FreshPacksAreCurrent,
           scans[w].pc \notin {"scan", "list", "walk", "save", "invalidate", "mark"},
           \A v \in Workers : v # w => scans'[v] = scans[v],
           ~excused' => /\ ~excused
                        /\ Packed \ stale' \subseteq (Packed \ stale) \cup current'
                        /\ current \cap Packed \subseteq current'
    PROVE  FreshPacksAreCurrent'
<1> SUFFICES ASSUME ~excused', ~Know!Announcing' PROVE Packed \ stale' \subseteq current'
  BY DEF FreshPacksAreCurrent, Know!FreshPacksAreCurrent
<1>1. ~excused /\ Packed \ stale' \subseteq (Packed \ stale) \cup current'
        /\ current \cap Packed \subseteq current'
  OBVIOUS
<1>2. ~Know!Announcing
  BY DEF Know!Announcing
<1>3. Packed \ stale \subseteq current
  BY <1>1, <1>2 DEF FreshPacksAreCurrent, Know!FreshPacksAreCurrent
<1> QED BY <1>1, <1>3

\* Every step keeps FreshPacksAreCurrent, which needs no strengthening but the types.
LEMMA FreshStays ==
    ASSUME PacksApart, ScanTypes, excused \in BOOLEAN, FreshPacksAreCurrent,
           [Know!Next]_(Know!vars)
    PROVE  FreshPacksAreCurrent' /\ excused' \in BOOLEAN
<1>1. ASSUME NEW w \in Workers, NEW changed \in SUBSET Paths, Know!RepoChanged(w, changed)
      PROVE  FreshPacksAreCurrent' /\ excused' \in BOOLEAN
  <2>1. CASE Know!Goto(w, "scan") /\ excused' = excused
    BY <2>1, ChainGoes, FreshAnnounced
  <2>2. CASE scans' = scans /\ excused' = (excused \/ changed # {})
    <3>1. stale' = stale /\ (changed = {} => current' = current)
      BY <1>1 DEF Know!RepoChanged, Know!LearnIf
    <3> QED
      BY <2>2, <3>1 DEF FreshPacksAreCurrent, Know!FreshPacksAreCurrent, Know!Announcing
  <2> QED BY <1>1, <2>1, <2>2 DEF Know!RepoChanged
<1>2. ASSUME NEW w \in Workers,
             \/ Know!Scan(w) \/ Know!ScanFails(w) \/ Know!ReadTree(w) \/ Know!Walk(w)
             \/ Know!WalkSkipped(w) \/ Know!Remember(w)
             \/ \E failed \in SUBSET Paths : Know!List(w, failed) \/ Know!Save(w, failed)
      PROVE  FreshPacksAreCurrent' /\ excused' \in BOOLEAN
  <2>1. excused' = excused
    BY <1>2 DEF Know!Scan, Know!ScanFails, Know!List, Know!ReadTree, Know!Walk,
       Know!WalkSkipped, Know!Save, Know!Remember, Know!histories
  <2>2. scans'[w].pc \in {"list", "walk", "save", "invalidate"}
    <3>1. CASE Know!Scan(w)
      BY <1>2, <3>1 DEF Know!Scan, Know!Become, ScanTypes, Chain
    <3>2. CASE Know!Walk(w)
      BY <1>2, <3>2 DEF Know!Walk, Know!Become, ScanTypes, Chain
    <3>3. CASE ~Know!Scan(w) /\ ~Know!Walk(w)
      <4>1. Know!Goto(w, "walk") \/ Know!Goto(w, "invalidate")
        BY <1>2, <3>3 DEF Know!ScanFails, Know!List, Know!ReadTree, Know!WalkSkipped, Know!Save,
           Know!Remember
      <4> QED BY <4>1, ChainGoes
    <3> QED BY <3>1, <3>2, <3>3
  <2> QED BY <2>1, <2>2, FreshAnnounced
<1>3. ASSUME NEW w \in Workers, Know!Invalidate(w)
      PROVE  FreshPacksAreCurrent' /\ excused' \in BOOLEAN
  <2>1. CASE Know!Goto(w, "mark") /\ excused' = excused
    BY <2>1, ChainGoes, FreshAnnounced
  <2>2. CASE excused' = TRUE
    BY <2>2 DEF FreshPacksAreCurrent, Know!FreshPacksAreCurrent
  <2> QED BY <1>3, <2>1, <2>2 DEF Know!Invalidate
<1>4. ASSUME NEW w \in Workers, Know!Mark(w)
      PROVE  FreshPacksAreCurrent' /\ excused' \in BOOLEAN
  BY <1>4 DEF Know!Mark, FreshPacksAreCurrent, Know!FreshPacksAreCurrent
<1>5. ASSUME NEW w \in Workers, Know!QueueRefresh(w) \/ \E t \in Packed : Know!MakePack(w, t)
      PROVE  FreshPacksAreCurrent' /\ excused' \in BOOLEAN
  <2>1. excused' = excused /\ stale' = stale /\ current \subseteq current'
        /\ scans[w].pc \in {"queue", "idle"}
    BY <1>5 DEF Know!QueueRefresh, Know!MakePack, Know!histories, Know!packs, Know!At
  <2>2. \A v \in Workers : v # w => scans'[v] = scans[v]
    BY <1>5 DEF Know!QueueRefresh, Know!MakePack, Know!Done, Know!Become, ScanTypes
  <2>3. FreshPacksAreCurrent'
    BY <2>1, <2>2, FreshKept
  <2> QED BY <2>1, <2>3
<1>6. ASSUME NEW w \in Workers, Know!InsertPack(w)
      PROVE  FreshPacksAreCurrent' /\ excused' \in BOOLEAN
  <2>1. PICK t \in Packed : Know!Put(w, t)
    BY <1>6 DEF Know!InsertPack, ScanTypes, Chain
  <2>2. scans[w].pc = "pack"
    BY <1>6 DEF Know!InsertPack, Know!At
  <2>3. \A v \in Workers : v # w => scans'[v] = scans[v]
    BY <1>6 DEF Know!InsertPack, Know!Done, Know!Become, ScanTypes
  <2>4. excused' = (excused \/ w \notin current) /\ stale' = stale \ {t}
        /\ current' = (IF w \in current THEN current \cup {t} ELSE current \ {t}) \ {w}
    BY <2>1 DEF Know!Put
  <2>5. w \notin Packed
    BY DEF PacksApart
  <2>6. CASE excused'
    BY <2>4, <2>6 DEF FreshPacksAreCurrent, Know!FreshPacksAreCurrent
  <2>7. CASE ~excused'
    <3>1. ~excused /\ current' = (current \cup {t}) \ {w}
      BY <2>4, <2>7
    <3>2. Packed \ stale' \subseteq (Packed \ stale) \cup current'
      BY <2>4, <2>5, <3>1
    <3>3. current \cap Packed \subseteq current'
      BY <2>5, <3>1
    <3>4. FreshPacksAreCurrent'
      BY <2>2, <2>3, <3>1, <3>2, <3>3, FreshKept
    <3> QED BY <2>4, <3>4
  <2> QED BY <2>4, <2>6, <2>7
<1>7. CASE \/ \E p \in Paths : Know!PutFile(p) \/ Know!DropFile(p)
           \/ \E purge \in BOOLEAN :
                 Know!ScanFiles(purge) \/ \E sent \in SUBSET Paths : Know!SyncFiles(sent, purge)
           \/ Know!RememberQuietly \/ Know!Crash
           \/ \E w \in Workers : Know!Lost(w) \/ Know!MarkFails(w)
  <2>1. excused' = TRUE
    BY <1>7 DEF Know!Lost, Know!MarkFails, Know!PutFile, Know!DropFile, Know!ScanFiles,
       Know!SyncFiles, Know!Silently, Know!RememberQuietly, Know!Crash
  <2> QED BY <2>1 DEF FreshPacksAreCurrent, Know!FreshPacksAreCurrent
<1>8. CASE Know!NextWindow \/ UNCHANGED Know!vars \/ \E now_ \in SUBSET Paths : Know!EditDisk(now_)
  <2>1. excused' = excused /\ stale' = stale /\ current' = current /\ scans' = scans
    BY <1>8 DEF Know!NextWindow, Know!vars, Know!EditDisk, Know!packs, Know!histories
  <2> QED BY <2>1 DEF FreshPacksAreCurrent, Know!FreshPacksAreCurrent, Know!Announcing
<1> QED BY <1>1, <1>2, <1>3, <1>4, <1>5, <1>6, <1>7, <1>8 DEF Know!Next

\* A pack that passes for fresh holds what is known, or its marking is on the way,
\* or has been excused, by a failed marking or event among others: property
\* FreshPacksAreCurrent, for any number of chains and packs.
THEOREM PacksFresh == Know!Spec => []FreshPacksAreCurrent
<1> USE EngineAssumption
<1> DEFINE Inv == (ScanTypes /\ Settling) /\ excused \in BOOLEAN /\ FreshPacksAreCurrent
<1>1. Know!Init => Inv
  BY IdleChain DEF Know!Init, ScanTypes, Settling, FreshPacksAreCurrent,
     Know!FreshPacksAreCurrent
<1>2. Inv /\ [Know!Next]_(Know!vars) => Inv'
  BY SettlingStays, FreshStays
<1>3. Inv => FreshPacksAreCurrent
  OBVIOUS
<1> QED BY <1>1, <1>2, <1>3, PTL DEF Know!Spec

-----------------------------------------------------------------------------
(* Planning cycles.                                                        *)

\* A row of planning_state, whatever its mode and age.
StateRow(r) == r \in [mode : {r.mode}, count : Nat, last : {r.last}]

\* A cycle under way, whatever it has found and means to do.
Cycle(q) ==
    /\ q \in [pc : {"idle", "recon", "scores", "write", "rank", "propose", "create", "count"},
              cycle : {q.cycle}, row : {q.row}, failed : {q.failed}, agents : {q.agents},
              scored : {q.scored}, todo : {q.todo}]
    /\ StateRow(q.row)

\* What the rest needs of the type invariant.
PlanTypes ==
    /\ StateRow(row)
    /\ planner = [p \in Planners |-> planner[p]]
    /\ \A p \in Planners : Cycle(planner[p])
    /\ editor = [e \in Editors |-> editor[e]]
    /\ \A e \in Editors : StateRow(editor[e])

\* The numbers up to n are taken, and nobody holds a count that is above them.
Numbered(n) ==
    /\ numbers = 1..n
    /\ row.count <= n
    /\ \A e \in Editors : editor[e].count <= n
    /\ \A p \in Planners : planner[p].pc # "idle" => planner[p].row.count + 1 <= n

\* At the start no number is taken.
LEMMA PlanningStarts == Plan!Init => PlanTypes /\ Numbered(0)
<1> SUFFICES ASSUME Plan!Init PROVE PlanTypes /\ Numbered(0)
  OBVIOUS
<1>1. StateRow(Plan!NoRow) /\ Plan!NoRow.count = 0
  BY DEF StateRow, Plan!NoRow
<1>2. Cycle(Plan!Idle) /\ Plan!Idle.pc = "idle"
  BY <1>1 DEF Cycle, Plan!Idle
<1>3. row = Plan!NoRow /\ numbers = {} /\ planner = [p \in Planners |-> Plan!Idle]
      /\ editor = [e \in Editors |-> Plan!NoRow]
  BY DEF Plan!Init
<1>4. 1..0 = {}
  OBVIOUS
<1> QED BY <1>1, <1>2, <1>3, <1>4 DEF PlanTypes, Numbered

\* A row made anew counts from zero.
LEMMA FoundRowCounts ==
    ASSUME PlanTypes
    PROVE  /\ StateRow(Plan!FoundRow)
           /\ \A n \in Nat : row.count <= n => Plan!FoundRow.count <= n
  BY DEF PlanTypes, StateRow, Plan!FoundRow, Plan!FreshRow

\* Time passing leaves the count.
LEMMA OlderRow ==
    ASSUME NEW r, StateRow(r)
    PROVE  StateRow(Plan!Older(r)) /\ Plan!Older(r).count = r.count
<1> DEFINE l == CASE r.last = "just now" -> "this hour" [] r.last = "this hour" -> "long ago"
                  [] OTHER -> r.last
<1>1. Plan!Older(r) = [r EXCEPT !.last = l]
  BY Zenon DEF Plan!Older
<1> HIDE DEF l
<1> QED BY <1>1 DEF StateRow

\* A cycle that goes on with the row it read.
LEMMA CycleGoesOn ==
    ASSUME PlanTypes, NEW p \in Planners, NEW q, Cycle(q), q.row = planner[p].row,
           planner[p].pc # "idle", Plan!Become(p, q), row' = row, editor' = editor,
           numbers' = numbers, NEW n \in Nat, Numbered(n)
    PROVE  PlanTypes' /\ Numbered(n)'
  BY DEF PlanTypes, Numbered, Plan!Become

\* A cycle that is over.
LEMMA CycleEnds ==
    ASSUME PlanTypes, NEW p \in Planners, Plan!Become(p, Plan!Idle), StateRow(row'),
           editor' = editor, numbers' = numbers, NEW n \in Nat, Numbered(n), row'.count <= n
    PROVE  PlanTypes' /\ Numbered(n)'
<1>1. Cycle(Plan!Idle) /\ Plan!Idle.pc = "idle"
  BY DEF Cycle, StateRow, Plan!Idle, Plan!NoRow
<1> QED BY <1>1 DEF PlanTypes, Numbered, Plan!Become

\* Requests and time.
LEMMA RowsChange ==
    ASSUME PlanTypes, planner' = planner, numbers' = numbers, StateRow(row'),
           editor' = [e \in Editors |-> editor'[e]], \A e \in Editors : StateRow(editor'[e]),
           NEW n \in Nat, Numbered(n), row'.count <= n, \A e \in Editors : editor'[e].count <= n
    PROVE  PlanTypes' /\ Numbered(n)'
  BY DEF PlanTypes, Numbered

\* Every step keeps the numbers without gaps, and adds one at most.
LEMMA PlanningGoesOn ==
    ASSUME PlanTypes, NEW n \in Nat, Numbered(n), [Plan!Next]_(Plan!vars)
    PROVE  PlanTypes' /\ \E m \in Nat : Numbered(m)'
<1>1. ASSUME NEW p \in Planners, Plan!Start(p) PROVE PlanTypes' /\ \E m \in Nat : Numbered(m)'
  <2> DEFINE r == [Plan!FoundRow EXCEPT !.last = "never"]
             q == [Plan!Idle EXCEPT !.pc = "recon", !.cycle = started + 1, !.row = r]
             k == Plan!FoundRow.count
  <2>1. /\ row' = Plan!FoundRow /\ numbers' = numbers \cup {k + 1} /\ editor' = editor
        /\ planner' = [planner EXCEPT ![p] = q]
    BY <1>1 DEF Plan!Start, Plan!Become
  <2>2. StateRow(Plan!FoundRow) /\ k \in Nat /\ k <= n
    BY FoundRowCounts DEF StateRow, Numbered
  <2>3. StateRow(r) /\ r.count = k
    BY <2>2 DEF StateRow
  <2> HIDE DEF r
  <2>4. Cycle(q) /\ q.pc = "recon" /\ q.row = r
    BY <2>3 DEF Cycle, Plan!Idle
  <2> HIDE DEF q, k
  <2>5. PlanTypes'
    BY <2>1, <2>2, <2>4 DEF PlanTypes
  <2>6. PICK m \in Nat : m >= n /\ k + 1 <= m /\ numbers' = 1..m
    <3>1. CASE k + 1 <= n
      BY <2>1, <2>2, <3>1 DEF Numbered
    <3>2. CASE k = n
      <4>1. numbers' = 1..(n + 1)
        BY <2>1, <3>2 DEF Numbered
      <4> QED BY <2>2, <3>2, <4>1
    <3> QED BY <2>2, <3>1, <3>2
  <2>7. row'.count <= m
    BY <2>1, <2>2, <2>6 DEF k
  <2>8. \A e \in Editors : editor'[e].count <= m
    BY <2>1, <2>6 DEF Numbered, PlanTypes, StateRow
  <2>9. \A p1 \in Planners : planner'[p1].pc # "idle" => planner'[p1].row.count + 1 <= m
    <3> TAKE p1 \in Planners
    <3>1. CASE p1 = p
      BY <2>1, <2>3, <2>4, <2>6, <3>1 DEF PlanTypes
    <3>2. CASE p1 # p
      BY <2>1, <2>6, <3>2 DEF PlanTypes, Numbered, Cycle, StateRow
    <3> QED BY <3>1, <3>2
  <2> QED BY <2>5, <2>6, <2>7, <2>8, <2>9 DEF Numbered
<1>2. ASSUME NEW p \in Planners, Plan!Recon(p) PROVE PlanTypes' /\ Numbered(n)'
  <2>1. planner[p].pc = "recon" /\ row' = row /\ editor' = editor /\ numbers' = numbers
    BY <1>2 DEF Plan!Recon, Plan!At
  <2>2. CASE Plan!Become(p, Plan!Idle)
    BY <2>1, <2>2, CycleEnds DEF PlanTypes, Numbered
  <2>3. CASE ~Plan!Become(p, Plan!Idle)
    <3> DEFINE failed == Plan!Count(Plan!Newest(1000), "FAILED")
               Looked(agents) == [planner[p] EXCEPT !.pc = "scores", !.agents = agents,
                                                    !.failed = failed]
    <3>1. PICK agents \in BOOLEAN : Plan!Become(p, Looked(agents))
      BY <1>2, <2>3, Zenon DEF Plan!Recon
    <3> DEFINE q == Looked(agents)
    <3> HIDE DEF failed
    <3>2. Cycle(q) /\ q.row = planner[p].row
      BY DEF PlanTypes, Cycle
    <3> HIDE DEF q
    <3>3. Plan!Become(p, q)
      BY <3>1 DEF q
    <3> QED BY <2>1, <3>2, <3>3, CycleGoesOn
  <2> QED BY <2>2, <2>3
<1>3. ASSUME NEW p \in Planners, Plan!ReadScores(p) PROVE PlanTypes' /\ Numbered(n)'
  <2> DEFINE q == [planner[p] EXCEPT !.pc = "write", !.scored = streams]
  <2>1. planner[p].pc = "scores" /\ row' = row /\ editor' = editor /\ numbers' = numbers
        /\ Plan!Become(p, q)
    BY <1>3 DEF Plan!ReadScores, Plan!At
  <2>2. Cycle(q) /\ q.row = planner[p].row
    BY DEF PlanTypes, Cycle
  <2> HIDE DEF q
  <2> QED BY <2>1, <2>2, CycleGoesOn
<1>4. ASSUME NEW p \in Planners, Plan!WriteScores(p) PROVE PlanTypes' /\ Numbered(n)'
  <2> DEFINE q == [planner[p] EXCEPT !.pc = "rank", !.scored = Plan!Idle.scored]
  <2>1. planner[p].pc = "write" /\ row' = row /\ editor' = editor /\ numbers' = numbers
        /\ Plan!Become(p, q)
    BY <1>4 DEF Plan!WriteScores, Plan!At
  <2>2. Cycle(q) /\ q.row = planner[p].row
    BY DEF PlanTypes, Cycle
  <2> HIDE DEF q
  <2> QED BY <2>1, <2>2, CycleGoesOn
<1>5. ASSUME NEW p \in Planners, Plan!Rank(p) PROVE PlanTypes' /\ Numbered(n)'
  <2>1. PICK todo : Plan!Become(p, [planner[p] EXCEPT !.pc = "propose", !.failed = 0,
                                                      !.agents = FALSE, !.todo = todo])
    BY <1>5 DEF Plan!Rank
  <2> DEFINE q == [planner[p] EXCEPT !.pc = "propose", !.failed = 0, !.agents = FALSE,
                                     !.todo = todo]
  <2>3. planner[p].pc = "rank" /\ row' = row /\ editor' = editor /\ numbers' = numbers
        /\ Plan!Become(p, q)
    BY <1>5, <2>1 DEF Plan!Rank, Plan!At
  <2>2. Cycle(q) /\ q.row = planner[p].row
    BY DEF PlanTypes, Cycle
  <2> HIDE DEF q
  <2> QED BY <2>2, <2>3, CycleGoesOn
<1>6. ASSUME NEW p \in Planners,
             \/ \E existing : Plan!ProposeBeside(p, existing)
             \/ Plan!NextToCreate(p)
      PROVE  PlanTypes' /\ Numbered(n)'
  <2>1. planner[p].pc \in {"propose", "create"} /\ row' = row /\ editor' = editor
        /\ numbers' = numbers
    BY <1>6 DEF Plan!ProposeBeside, Plan!NextToCreate, Plan!At
  <2>2. ASSUME NEW pc \in {"count", "create"}, NEW todo,
               Plan!Become(p, [planner[p] EXCEPT !.pc = pc, !.todo = todo])
        PROVE  PlanTypes' /\ Numbered(n)'
    <3> DEFINE q == [planner[p] EXCEPT !.pc = pc, !.todo = todo]
    <3>1. Cycle(q) /\ q.row = planner[p].row
      BY DEF PlanTypes, Cycle
    <3>2. Plan!Become(p, q)
      BY <2>2
    <3> HIDE DEF q
    <3> QED BY <2>1, <3>1, <3>2, CycleGoesOn
  <2>3. ASSUME NEW existing, Plan!ProposeBeside(p, existing) PROVE PlanTypes' /\ Numbered(n)'
    <3> DEFINE todo == Plan!Proposed(planner[p].todo, planner[p].row.mode, existing)
               pc == IF todo = <<>> THEN "count" ELSE "create"
    <3>1. Plan!Become(p, [planner[p] EXCEPT !.pc = pc, !.todo = todo])
      BY <2>3 DEF Plan!ProposeBeside
    <3>2. pc \in {"count", "create"}
      OBVIOUS
    <3> HIDE DEF todo, pc
    <3> QED BY <2>2, <3>1, <3>2
  <2>4. CASE Plan!NextToCreate(p)
    <3> DEFINE todo == Plan!Tail(planner[p].todo)
               pc == IF Plan!Len(planner[p].todo) = 1 THEN "count" ELSE "create"
    <3>1. Plan!Become(p, [planner[p] EXCEPT !.pc = pc, !.todo = todo])
      BY <2>4 DEF Plan!NextToCreate
    <3>2. pc \in {"count", "create"}
      OBVIOUS
    <3> HIDE DEF todo, pc
    <3> QED BY <2>2, <3>1, <3>2
  <2> QED BY <1>6, <2>3, <2>4
<1>7. ASSUME NEW p \in Planners, Plan!CountCycle(p) PROVE PlanTypes' /\ Numbered(n)'
  <2> DEFINE r == planner[p].row
  <2>1. planner[p].pc = "count" /\ row' \in {Plan!Counted(r), row} /\ editor' = editor
        /\ numbers' = numbers /\ Plan!Become(p, Plan!Idle)
    BY <1>7 DEF Plan!CountCycle, Plan!At
  <2>2. StateRow(r) /\ r.count + 1 <= n
    BY <2>1 DEF PlanTypes, Cycle, Numbered
  <2> HIDE DEF r
  <2>3. StateRow(Plan!Counted(r)) /\ Plan!Counted(r).count = r.count + 1
    <3> DEFINE c == r.count + 1
    <3>1. Plan!Counted(r) = [r EXCEPT !.count = c, !.last = "just now"]
      BY Zenon DEF Plan!Counted
    <3>2. c \in Nat
      BY <2>2 DEF StateRow
    <3> HIDE DEF c
    <3>3. StateRow(Plan!Counted(r)) /\ Plan!Counted(r).count = c
      BY <2>2, <3>1, <3>2 DEF StateRow
    <3> QED BY <3>3 DEF c
  <2>4. Plan!Counted(r).count <= n
    BY <2>2, <2>3
  <2>5. StateRow(row) /\ row.count <= n
    BY DEF PlanTypes, Numbered
  <2>6. StateRow(row') /\ row'.count <= n
    BY <2>1, <2>3, <2>4, <2>5
  <2> QED BY <2>1, <2>6, CycleEnds
<1>8. ASSUME NEW r, StateRow(r), r.count <= n, row' = r, planner' = planner, editor' = editor,
             numbers' = numbers
      PROVE  PlanTypes' /\ Numbered(n)'
  BY <1>8, RowsChange DEF PlanTypes, Numbered
<1>9. ASSUME NEW made_ \in SUBSET Streams, Plan!Seed(made_) PROVE PlanTypes' /\ Numbered(n)'
  <2>1. StateRow(Plan!FreshRow) /\ Plan!FreshRow.count <= n
    BY DEF Plan!FreshRow, StateRow
  <2> QED BY <1>8, <1>9, <2>1 DEF Plan!Seed
<1>10. ASSUME NEW e \in Editors, Plan!ReadRow(e) PROVE PlanTypes' /\ Numbered(n)'
  <2>1. row' = Plan!FoundRow /\ planner' = planner /\ numbers' = numbers
        /\ editor' = [editor EXCEPT ![e] = Plan!FoundRow]
    BY <1>10 DEF Plan!ReadRow
  <2>2. StateRow(Plan!FoundRow) /\ Plan!FoundRow.count <= n
    BY FoundRowCounts DEF Numbered
  <2> QED BY <2>1, <2>2, RowsChange DEF PlanTypes, Numbered
<1>11. ASSUME NEW e \in Editors, NEW mode \in Modes, Plan!WriteRow(e, mode)
       PROVE  PlanTypes' /\ Numbered(n)'
  <2> DEFINE r == [editor[e] EXCEPT !.mode = mode]
  <2>1. row' = r /\ planner' = planner /\ numbers' = numbers
        /\ editor' = [editor EXCEPT ![e] = Plan!NoRow]
    BY <1>11 DEF Plan!WriteRow
  <2>2. StateRow(r) /\ r.count <= n
    BY DEF PlanTypes, StateRow, Numbered
  <2>3. StateRow(Plan!NoRow) /\ Plan!NoRow.count <= n
    BY DEF StateRow, Plan!NoRow
  <2> HIDE DEF r
  <2> QED BY <2>1, <2>2, <2>3, RowsChange DEF PlanTypes, Numbered
<1>12. ASSUME NEW s \in Streams, NEW status, Plan!EditStream(s, status)
       PROVE  PlanTypes' /\ Numbered(n)'
  <2>1. (row' = row \/ row' = Plan!FoundRow) /\ planner' = planner /\ editor' = editor
        /\ numbers' = numbers
    BY <1>12 DEF Plan!EditStream
  <2>2. StateRow(Plan!FoundRow) /\ Plan!FoundRow.count <= n /\ StateRow(row) /\ row.count <= n
    BY FoundRowCounts DEF Numbered, PlanTypes
  <2> QED BY <1>8, <2>1, <2>2
<1>13. CASE Plan!Elapse
  <2>1. row' = Plan!Older(row) /\ planner' = planner /\ numbers' = numbers
        /\ editor' = [e \in Editors |-> Plan!Older(editor[e])]
    BY <1>13 DEF Plan!Elapse
  <2>2. StateRow(row') /\ row'.count <= n
    BY <2>1, OlderRow DEF PlanTypes, Numbered
  <2>3. \A e \in Editors : StateRow(editor'[e]) /\ editor'[e].count <= n
    BY <2>1, OlderRow DEF PlanTypes, Numbered
  <2>4. editor' = [e \in Editors |-> editor'[e]]
    BY <2>1
  <2> QED BY <2>1, <2>2, <2>3, <2>4, RowsChange
<1>14. CASE Plan!Crash
  <2>1. row' = row /\ numbers' = numbers /\ planner' = [p \in Planners |-> Plan!Idle]
        /\ editor' = [e \in Editors |-> Plan!NoRow]
    BY <1>14 DEF Plan!Crash
  <2>2. StateRow(Plan!NoRow) /\ Plan!NoRow.count = 0
    BY DEF StateRow, Plan!NoRow
  <2>3. Cycle(Plan!Idle) /\ Plan!Idle.pc = "idle"
    BY <2>2 DEF Cycle, Plan!Idle
  <2> QED BY <2>1, <2>2, <2>3 DEF PlanTypes, Numbered
<1>15. ASSUME row' = row, planner' = planner, editor' = editor, numbers' = numbers
       PROVE  PlanTypes' /\ Numbered(n)'
  BY <1>15 DEF PlanTypes, Numbered
<1>16. CASE \/ \E i \in DOMAIN planned, status \in {"FAILED", "SUCCEEDED"} :
                  Plan!FinishTask(i, status)
            \/ \E i \in DOMAIN planned : Plan!Move(i)
            \/ Plan!CreateOther
            \/ UNCHANGED Plan!vars
  BY <1>15, <1>16 DEF Plan!FinishTask, Plan!Move, Plan!CreateOther, Plan!vars
<1>17. ASSUME NEW p \in Planners,
              Plan!Propose(p) \/ Plan!ProposeBlind(p) \/ Plan!Create(p) \/ Plan!CreateFails(p)
       PROVE  PlanTypes' /\ Numbered(n)'
  <2>1. (\E existing : Plan!ProposeBeside(p, existing)) \/ Plan!NextToCreate(p)
    BY <1>17 DEF Plan!Propose, Plan!ProposeBlind, Plan!Create, Plan!CreateFails
  <2> QED BY <1>6, <2>1
<1> QED
  BY <1>1, <1>2, <1>3, <1>4, <1>5, <1>7, <1>9, <1>10, <1>11, <1>12, <1>13, <1>14, <1>16, <1>17
  DEF Plan!Next

\* Cycles that overlap, edits that write back old rows and restarts make cycles
\* share numbers, but never skip one: property NumbersHaveNoGaps, for any number of
\* cycles, edits and modes.
THEOREM NumbersRunOn == Plan!Spec => []NumbersHaveNoGaps
<1> DEFINE Inv == PlanTypes /\ \E n \in Nat : Numbered(n)
<1>1. Plan!Init => Inv
  BY PlanningStarts
<1>2. Inv /\ [Plan!Next]_(Plan!vars) => Inv'
  BY PlanningGoesOn
<1>3. Inv => NumbersHaveNoGaps
  <2> SUFFICES ASSUME NEW n \in Nat, numbers = 1..n
               PROVE  numbers = 1..Plan!Cardinality(numbers)
    BY DEF Numbered, NumbersHaveNoGaps, Plan!NumbersHaveNoGaps
  <2>1. Plan!Cardinality(numbers) = Cardinality(numbers)
    BY Zenon DEF Plan!Cardinality, Cardinality
  <2>2. Cardinality(1..n) = n
    BY FS_Interval
  <2> QED BY <2>1, <2>2
<1> QED BY <1>1, <1>2, <1>3, PTL DEF Plan!Spec

-----------------------------------------------------------------------------
(* Workstreams.                                                            *)

\* The statuses are those of the workstreams.
StreamTypes == streams = [s \in Streams |-> streams[s]]

\* A step changes no status of a deleted workstream.
LEMMA DeletedStays ==
    ASSUME StreamTypes, [Plan!Next]_(Plan!vars)
    PROVE  StreamTypes' /\ \A s \in Streams : streams[s] = "deleted" => streams'[s] = "deleted"
<1>1. ASSUME NEW p \in Planners, Plan!WriteScores(p)
      PROVE  StreamTypes' /\ \A s \in Streams : streams[s] = "deleted" => streams'[s] = "deleted"
  <2>1. streams' = [s \in Streams |-> Plan!Written(s, planner[p].scored)]
    BY <1>1 DEF Plan!WriteScores
  <2>2. \A s \in Streams : streams[s] = "deleted" =>
           Plan!Written(s, planner[p].scored) = "deleted"
    BY DEF Plan!Written
  <2> QED BY <2>1, <2>2 DEF StreamTypes
<1>2. ASSUME NEW made_ \in SUBSET Streams, Plan!Seed(made_)
      PROVE  StreamTypes' /\ \A s \in Streams : streams[s] = "deleted" => streams'[s] = "deleted"
  BY <1>2 DEF Plan!Seed, StreamTypes
<1>3. ASSUME NEW s \in Streams, NEW status, Plan!EditStream(s, status)
      PROVE  /\ StreamTypes'
             /\ \A s1 \in Streams : streams[s1] = "deleted" => streams'[s1] = "deleted"
  BY <1>3 DEF Plan!EditStream, StreamTypes
<1>4. ASSUME streams' = streams
      PROVE  StreamTypes' /\ \A s \in Streams : streams[s] = "deleted" => streams'[s] = "deleted"
  BY <1>4 DEF StreamTypes
<1>5. CASE \/ \E p \in Planners :
                 \/ Plan!Start(p) \/ Plan!Recon(p) \/ Plan!ReadScores(p) \/ Plan!Rank(p)
                 \/ Plan!Propose(p) \/ Plan!ProposeBlind(p) \/ Plan!Create(p)
                 \/ Plan!CreateFails(p) \/ Plan!CountCycle(p)
           \/ \E e \in Editors : Plan!ReadRow(e) \/ \E mode \in Modes : Plan!WriteRow(e, mode)
           \/ \E i \in DOMAIN planned :
                 Plan!Move(i) \/ \E status \in {"FAILED", "SUCCEEDED"} : Plan!FinishTask(i, status)
           \/ Plan!CreateOther \/ Plan!Elapse \/ Plan!Crash \/ UNCHANGED Plan!vars
  <2>1. streams' = streams
    BY <1>5 DEF Plan!Start, Plan!Recon, Plan!ReadScores, Plan!Rank, Plan!Propose,
       Plan!ProposeBlind, Plan!ProposeBeside, Plan!Create, Plan!CreateFails, Plan!NextToCreate,
       Plan!CountCycle, Plan!ReadRow, Plan!WriteRow, Plan!Move, Plan!FinishTask,
       Plan!CreateOther, Plan!Elapse, Plan!Crash, Plan!vars
  <2> QED BY <1>4, <2>1
<1> QED BY <1>1, <1>2, <1>3, <1>5 DEF Plan!Next

\* A cycle that writes back the rows it read brings no deleted workstream back, and
\* no request does: the action property DeletedStreamsStayDeleted, for any
\* workstreams and statuses.
THEOREM DeletedForGood == Plan!Spec => DeletedStreamsStayDeleted
<1> DEFINE Stays == \A s \in DOMAIN streams : streams[s] = "deleted" => streams'[s] = "deleted"
<1>1. Plan!Init => StreamTypes
  BY DEF Plan!Init, StreamTypes
<1>2. StreamTypes /\ [Plan!Next]_(Plan!vars) => StreamTypes'
  BY DeletedStays
<1>3. StreamTypes /\ [Plan!Next]_(Plan!vars) => [Stays]_streams
  BY DeletedStays DEF StreamTypes
<1> QED BY <1>1, <1>2, <1>3, PTL DEF Plan!Spec, DeletedStreamsStayDeleted,
                                     Plan!DeletedStreamsStayDeleted

-----------------------------------------------------------------------------
(* Titles.                                                                 *)

\* A sequence, whatever it is of.
IsSeq(q) == \E V : q \in Seq(V)

LEMMA WithoutDrops ==
    ASSUME NEW V, NEW seq \in Seq(V), NEW S
    PROVE  Plan!Without(seq, S) \in Seq(V \ S)
<1> DEFINE m == Len(seq)
           W == Seq(V \ S)
           step == [i \in Nat |-> [q \in W |->
                       IF i \in 1..m /\ seq[i] \notin S THEN Append(q, seq[i]) ELSE q]]
           kept[i \in 0..m] == IF i = 0 THEN <<>>
                               ELSE IF seq[i] \in S THEN kept[i - 1] ELSE Append(kept[i - 1], seq[i])
           Is(f) == f = [i \in 0..m |-> IF i = 0 THEN <<>>
                               ELSE IF seq[i] \in S THEN f[i - 1] ELSE Append(f[i - 1], seq[i])]
<1>1. Plan!Without(seq, S) = kept[m]
  BY DEF Plan!Without
<1>2. kept = CHOOSE f : Is(f)
  OBVIOUS
<1> HIDE DEF kept
<1>3. m \in Nat /\ <<>> \in W /\ \A i \in 1..m : seq[i] \in V
  OBVIOUS
<1>4. ASSUME NEW i \in Nat, NEW q \in W
      PROVE  (IF i \in 1..m /\ seq[i] \notin S THEN Append(q, seq[i]) ELSE q) \in W
  <2>1. CASE i \in 1..m /\ seq[i] \notin S
    <3>1. seq[i] \in V \ S
      BY <1>3, <2>1
    <3> QED BY <2>1, <3>1
  <2>2. CASE ~(i \in 1..m /\ seq[i] \notin S)
    BY <2>2
  <2> QED BY <2>1, <2>2
<1>5. step \in [Nat -> [W -> W]]
  <2> HIDE DEF W
  <2> QED BY <1>4
<1>6. PICK g : Takes(g, m, W, <<>>, step)
  <2> HIDE DEF step, m, W
  <2> QED BY <1>3, <1>5, StepsExist
<1>7. ASSUME NEW i \in 0..m, i # 0
      PROVE  step[i][g[i - 1]] = IF seq[i] \in S THEN g[i - 1] ELSE Append(g[i - 1], seq[i])
  <2> HIDE DEF m, W, step
  <2>1. i \in Nat /\ i \in 1..m /\ i - 1 \in 0..m
    BY <1>3, <1>7
  <2>2. g \in [0..m -> W]
    BY <1>6 DEF Takes
  <2>3. g[i - 1] \in W
    BY <2>1, <2>2
  <2> QED BY <2>1, <2>3 DEF step
<1> HIDE DEF step
<1>8. Is(g)
  <2> HIDE DEF W
  <2> QED BY <1>6, <1>7 DEF Takes
<1>9. Is(kept)
  BY <1>2, <1>8
<1>10. ASSUME NEW i \in 0..m
       PROVE  kept[i] = IF i = 0 THEN <<>>
                        ELSE IF seq[i] \in S THEN kept[i - 1] ELSE Append(kept[i - 1], seq[i])
  BY <1>9, Zenon
<1> HIDE DEF Is
<1> DEFINE Good == {i \in Nat : i \in 0..m => kept[i] \in W}
<1>11. 0 \in Good
  BY <1>3, <1>10
<1>12. ASSUME NEW i \in Good PROVE i + 1 \in Good
  <2> SUFFICES ASSUME i + 1 \in 0..m PROVE kept[i + 1] \in W
    OBVIOUS
  <2>1. i \in 0..m /\ i + 1 # 0 /\ (i + 1) - 1 = i /\ kept[i] \in W /\ seq[i + 1] \in V
    BY <1>3
  <2>2. seq[i + 1] \notin S => Append(kept[i], seq[i + 1]) \in W
    BY <2>1
  <2> HIDE DEF W
  <2> QED BY <1>10, <2>1, <2>2
<1> HIDE DEF Good
<1>13. Good = Nat
  <2>1. Good \subseteq Nat
    BY DEF Good
  <2> QED BY <2>1, <1>11, <1>12, CountingUp
<1>14. kept[m] \in W
  BY <1>3, <1>13 DEF Good
<1> QED BY <1>1, <1>14

LEMMA Concatenated == ASSUME NEW a, NEW b, IsSeq(a), IsSeq(b) PROVE IsSeq(a \o b)
<1>1. PICK V : a \in Seq(V)
  BY DEF IsSeq
<1>2. PICK W : b \in Seq(W)
  BY DEF IsSeq
<1>3. a \in Seq(V \cup W) /\ b \in Seq(V \cup W)
  BY <1>1, <1>2, SeqMonotonic
<1>4. a \o b \in Seq(V \cup W)
  BY <1>3
<1> QED BY <1>4 DEF IsSeq

\* The workstreams in some order.
LEMMA InSomeOrder == ASSUME NEW S, IsFiniteSet(S) PROVE Plan!SetToSeq(S) \in Seq(S)
<1>1. \A T : Plan!Cardinality(T) = Cardinality(T)
  BY Zenon DEF Plan!Cardinality, Cardinality
<1>2. Cardinality(S) \in Nat /\ ExistsBijection(1..Cardinality(S), S)
  BY FS_CardinalityType
<1>3. PICK f : f \in [1..Cardinality(S) -> S] /\ Plan!IsInjective(f)
  BY <1>2, Zenon DEF ExistsBijection, Bijection, Injection, IsInjective, Plan!IsInjective
<1>4. Plan!SetToSeq(S) \in [1..Cardinality(S) -> S]
  BY <1>1, <1>3, Zenon DEF Plan!SetToSeq
<1> QED BY <1>2, <1>4

LEMMA RankedIsASeq ==
    ASSUME PlansSound, NEW mode, NEW failed, NEW agents, NEW open \in SUBSET Streams,
           NEW active
    PROVE  IsSeq(Plan!Ranked(mode, failed, agents, open, active))
<1>0. \A x : IsSeq(<<x>>) /\ IsSeq(<<>>)
  <2> TAKE x
  <2>1. <<x>> \in Seq({x}) /\ <<>> \in Seq({x})
    OBVIOUS
  <2> QED BY <2>1 DEF IsSeq
<1> DEFINE urgent == IF Plan!PrioritizesFailures(mode) /\ failed > 0
                     THEN <<Plan!Failures(failed)>> ELSE <<>>
           candidates == Plan!SetToSeq(open)
           nexts == [i \in DOMAIN candidates |-> Plan!NextTitle(candidates[i])]
           chances == IF agents /\ Plan!AllowsNewWorkstreams(mode) THEN <<Plan!AgentsTitle>> ELSE <<>>
           covered == UNION {GoalsOf[s] : s \in active}
           missing == Plan!Without(Goals, covered)
           goals == [i \in DOMAIN missing |-> <<"goal", missing[i]>>]
           failures == IF failed > 0 THEN <<Plan!Failures(failed)>> ELSE <<>>
<1>1. Plan!Ranked(mode, failed, agents, open, active)
        = ((urgent \o nexts) \o (goals \o failures)) \o chances
  BY DEF Plan!Ranked, Plan!Gaps
<1>2. IsSeq(urgent) /\ IsSeq(chances) /\ IsSeq(failures)
  BY <1>0
<1>3. \A V, q : q \in Seq(V) => IsSeq([i \in DOMAIN q |-> Plan!NextTitle(q[i])])
                              /\ IsSeq([i \in DOMAIN q |-> <<"goal", q[i]>>])
  <2> SUFFICES ASSUME NEW V, NEW q \in Seq(V)
               PROVE  /\ IsSeq([i \in DOMAIN q |-> Plan!NextTitle(q[i])])
                      /\ IsSeq([i \in DOMAIN q |-> <<"goal", q[i]>>])
    OBVIOUS
  <2>1. DOMAIN q = 1..Len(q) /\ Len(q) \in Nat
    OBVIOUS
  <2>2. [i \in 1..Len(q) |-> Plan!NextTitle(q[i])] \in Seq({Plan!NextTitle(q[i]) : i \in 1..Len(q)})
    BY <2>1, IsASeq
  <2>3. [i \in 1..Len(q) |-> <<"goal", q[i]>>] \in Seq({<<"goal", q[i]>> : i \in 1..Len(q)})
    BY <2>1, IsASeq
  <2> QED BY <2>1, <2>2, <2>3 DEF IsSeq
<1>4. IsFiniteSet(open)
  BY FS_Subset DEF PlansSound
<1>5. IsSeq(nexts)
  BY <1>3, <1>4, InSomeOrder
<1>6. IsSeq(goals)
  <2> HIDE DEF covered
  <2>1. Goals \in Seq(STRING)
    BY DEF PlansSound
  <2>2. missing \in Seq(STRING \ covered)
    BY <2>1, WithoutDrops
  <2> HIDE DEF missing
  <2>3. IsSeq([i \in DOMAIN missing |-> <<"goal", missing[i]>>])
    BY <1>3, <2>2
  <2> QED BY <2>3
<1> HIDE DEF urgent, nexts, chances, goals, failures
<1> QED BY <1>1, <1>2, <1>5, <1>6, Concatenated

LEMMA FirstIsASeq ==
    ASSUME NEW V, NEW q \in Seq(V), NEW n \in Nat
    PROVE  Plan!First(q, n) \in Seq(V)
  BY DEF Plan!First

LEMMA ModesCount == \A mode : Plan!MaxTasksPerCycle(mode) \in Nat
  BY DEF Plan!MaxTasksPerCycle

-----------------------------------------------------------------------------
(* What a cycle is about to create.                                        *)

TaskRow(t) == t \in [title : {t.title}, cycle : {t.cycle}, status : {t.status}]

PlannedFormed == IsSeq(planned) /\ \A i \in 1..Len(planned) : TaskRow(planned[i])

\* What a cycle is still to create no other cycle has planned, as far as it could see:
\* but for cycles that saw nothing, and tasks that have been elsewhere.
IsNew(q, unseeing, unseen) ==
    \A k \in 1..Len(q.todo), i \in 1..Len(planned) :
        planned[i].cycle # 0 /\ planned[i].title = Plan!Trimmed(q.todo[k]) =>
            \/ planned[i].cycle = q.cycle \/ Len(planned) - i >= Listed
            \/ planned[i].title \in Plan!LosePadding
            \/ q.cycle \in unseeing \/ i \in unseen

\* Nothing is forgotten of what a cycle could not see.
StaysKnown == gone' \subseteq moved' /\ moved \subseteq moved' /\ blind \subseteq blind'

\* Titles are stored as they are, or lose their padding.
LEMMA TitlesAreStored ==
    \A title : Plan!Trimmed(title) = title \/ Plan!Trimmed(title) \in Plan!LosePadding
<1> TAKE title
<1>1. CASE title \in {Plan!NextTitle(s) : s \in Padded}
  BY <1>1 DEF Plan!LosePadding
<1>2. CASE title \notin {Plan!NextTitle(s) : s \in Padded}
  BY <1>2 DEF Plan!Trimmed
<1> QED BY <1>1, <1>2

Meaning(q) ==
    /\ q.pc \in {"propose", "create"} => IsSeq(q.todo)
    /\ q.pc = "create" => q.todo # <<>>

\* Cycles that never overlapped: one is under way at most.
OneByOne ==
    /\ \A p, q \in Planners : planner[p].pc # "idle" /\ planner[q].pc # "idle" => p = q
    /\ \A p \in Planners : planner[p].pc = "create" => IsNew(planner[p], blind, moved)
    /\ PlannedOnce

OnceInv ==
    /\ PlanTypes /\ PlannedFormed
    /\ overlapped \in BOOLEAN /\ gone \subseteq moved
    /\ \A p \in Planners : Meaning(planner[p])
    /\ ~overlapped => OneByOne

\* What the listing leaves out is far back, or elsewhere.
LEMMA ListingShows ==
    ASSUME PlannedFormed, Listed \in Nat, NEW i \in 1..Len(planned), i \notin gone,
           Len(planned) - i < Listed
    PROVE  planned[i].title \in Plan!Existing
<1> DEFINE n == Len(planned)
           here == (DOMAIN planned) \ gone
           later == {j \in here : j > i}
<1>1. DOMAIN planned = 1..n /\ n \in Nat
  BY DEF PlannedFormed, IsSeq
<1>2. later \subseteq (i + 1)..n /\ i + 1 \in Int /\ n \in Int
  BY <1>1
<1>3. IsFiniteSet((i + 1)..n) /\ Cardinality((i + 1)..n) = IF i + 1 > n THEN 0 ELSE n - (i + 1) + 1
  BY <1>2, FS_Interval
<1>4. Cardinality(later) \in Nat /\ Cardinality(later) <= Cardinality((i + 1)..n)
  BY <1>2, <1>3, FS_Subset, FS_CardinalityType
<1>5. Cardinality(later) < Listed
  BY <1>1, <1>3, <1>4
<1>6. Plan!Cardinality(later) = Cardinality(later)
  BY Zenon DEF Plan!Cardinality, Cardinality
<1>7. i \in here
  BY <1>1
<1>8. i \in Plan!Newest(Listed)
  BY <1>5, <1>6, <1>7 DEF Plan!Newest
<1> QED BY <1>8 DEF Plan!Existing

\* What is left of the ranking is nothing that exists.
LEMMA ProposedIsNew ==
    ASSUME NEW ranked, IsSeq(ranked), NEW mode, NEW existing
    PROVE  /\ IsSeq(Plan!Proposed(ranked, mode, existing))
           /\ \A k \in 1..Len(Plan!Proposed(ranked, mode, existing)) :
                 Plan!Proposed(ranked, mode, existing)[k] \notin existing
<1> DEFINE top == Plan!First(ranked, Plan!MaxTasksPerCycle(mode))
           todo == Plan!Proposed(ranked, mode, existing)
<1>1. PICK V : ranked \in Seq(V)
  BY DEF IsSeq
<1>2. top \in Seq(V)
  BY <1>1, FirstIsASeq, ModesCount
<1>3. todo = Plan!Without(top, existing \cup {Plan!NoTitle})
  BY DEF Plan!Proposed
<1> HIDE DEF top
<1>4. todo \in Seq(V \ (existing \cup {Plan!NoTitle}))
  BY <1>2, <1>3, WithoutDrops
<1> HIDE DEF todo
<1>5. \A k \in 1..Len(todo) : todo[k] \notin existing
  BY <1>4
<1> QED BY <1>4, <1>5 DEF todo, IsSeq

-----------------------------------------------------------------------------
(* What each step does to it.                                              *)

\* A cycle moves on, and no task is created.
LEMMA OnceGoesOn ==
    ASSUME OnceInv, PlanTypes', planned' = planned, overlapped' = overlapped,
           NEW p \in Planners, NEW q, planner' = [planner EXCEPT ![p] = q],
           planner[p].pc # "idle", Meaning(q), StaysKnown,
           q.pc = "create" => IsNew(q, blind', moved')
    PROVE  OnceInv'
<1>1. \A o \in Planners : planner'[o] = IF o = p THEN q ELSE planner[o]
  BY DEF OnceInv, PlanTypes
<1>2. PlannedFormed' /\ \A o \in Planners : Meaning(planner'[o])
  BY <1>1 DEF OnceInv, PlannedFormed
<1>3. ASSUME ~overlapped PROVE OneByOne'
  <2>1. OneByOne
    BY <1>3 DEF OnceInv
  <2>2. \A o \in Planners : planner'[o].pc # "idle" => planner[o].pc # "idle"
    BY <1>1
  <2>3. ASSUME NEW o \in Planners, planner'[o].pc = "create"
        PROVE  IsNew(planner[o], blind, moved)'
    <3>1. CASE o = p
      BY <1>1, <2>3, <3>1 DEF IsNew
    <3>2. CASE o # p
      BY <1>1, <2>1, <2>3, <3>2 DEF OneByOne, IsNew, StaysKnown
    <3> QED BY <3>1, <3>2
  <2>4. PlannedOnce'
    BY <2>1 DEF OneByOne, PlannedOnce, Plan!PlannedOnce, Plan!Planned, StaysKnown
  <2> QED BY <2>1, <2>2, <2>3, <2>4 DEF OneByOne
<1> QED BY <1>2, <1>3 DEF OnceInv, Meaning, StaysKnown

LEMMA OnceStarts ==
    ASSUME OnceInv, PlanTypes', StaysKnown, NEW p \in Planners, Plan!Start(p)
    PROVE  OnceInv'
<1> DEFINE q == [Plan!Idle EXCEPT !.pc = "recon", !.cycle = started + 1,
                          !.row = [Plan!FoundRow EXCEPT !.last = "never"]]
<1>1. /\ planned' = planned /\ planner' = [planner EXCEPT ![p] = q] /\ planner[p].pc = "idle"
      /\ overlapped' = (overlapped \/ \E o \in Planners : planner[o].pc # "idle")
  BY DEF Plan!Start, Plan!Become, Plan!At
<1>2. q.pc = "recon"
  BY DEF Plan!Idle
<1> HIDE DEF q
<1>3. \A o \in Planners : planner'[o] = IF o = p THEN q ELSE planner[o]
  BY <1>1 DEF OnceInv, PlanTypes
<1>4. PlannedFormed' /\ \A o \in Planners : Meaning(planner'[o])
  BY <1>1, <1>2, <1>3 DEF OnceInv, PlannedFormed, Meaning
<1>5. overlapped' \in BOOLEAN
  BY <1>1 DEF OnceInv
<1>6. ASSUME ~overlapped' PROVE OneByOne'
  <2>1. OneByOne /\ \A o \in Planners : planner[o].pc = "idle"
    BY <1>1, <1>6 DEF OnceInv
  <2>2. PlannedOnce'
    BY <1>1, <2>1 DEF OneByOne, PlannedOnce, Plan!PlannedOnce, Plan!Planned, StaysKnown
  <2> QED BY <1>2, <1>3, <2>1, <2>2 DEF OneByOne
<1> QED BY <1>4, <1>5, <1>6 DEF OnceInv, Meaning, StaysKnown

\* Requests and time leave cycles alone, and tasks but for where they are; a restart ends
\* every cycle.
LEMMA OnceRests ==
    ASSUME OnceInv, PlanTypes', StaysKnown, planned' = planned, overlapped' = overlapped,
           planner' = planner \/ planner' = [p \in Planners |-> Plan!Idle]
    PROVE  OnceInv'
<1>1. \A p \in Planners : planner'[p] = planner[p] \/ planner'[p] = Plan!Idle
  OBVIOUS
<1>2. Plan!Idle.pc = "idle"
  BY DEF Plan!Idle
<1>3. PlannedFormed' /\ \A o \in Planners : Meaning(planner'[o])
  BY <1>1, <1>2 DEF OnceInv, PlannedFormed, Meaning
<1>4. ASSUME ~overlapped PROVE OneByOne'
  <2>1. OneByOne
    BY <1>4 DEF OnceInv
  <2>2. PlannedOnce'
    BY <2>1 DEF OneByOne, PlannedOnce, Plan!PlannedOnce, Plan!Planned, StaysKnown
  <2>3. \A o \in Planners : planner'[o].pc = "create" => IsNew(planner'[o], blind', moved')
    BY <1>1, <1>2, <2>1 DEF OneByOne, IsNew, StaysKnown
  <2> QED BY <1>1, <1>2, <2>1, <2>2, <2>3 DEF OneByOne, IsNew
<1> QED BY <1>3, <1>4 DEF OnceInv, Meaning, StaysKnown

\* A task of a cycle, or of somebody else, at the end of the list.
LEMMA TaskComes ==
    ASSUME PlannedFormed, NEW t, TaskRow(t), planned' = Append(planned, t)
    PROVE  /\ PlannedFormed' /\ Len(planned) \in Nat /\ Len(planned') = Len(planned) + 1
           /\ DOMAIN planned = 1..Len(planned) /\ DOMAIN planned' = 1..(Len(planned) + 1)
           /\ planned'[Len(planned) + 1] = t
           /\ \A i \in 1..Len(planned) : planned'[i] = planned[i]
<1>1. PICK V : planned \in Seq(V)
  BY DEF PlannedFormed, IsSeq
<1>2. planned \in Seq(V \cup {t})
  BY <1>1, SeqMonotonic
<1>3. /\ planned' \in Seq(V \cup {t}) /\ Len(planned) \in Nat /\ Len(planned') = Len(planned) + 1
      /\ DOMAIN planned = 1..Len(planned) /\ DOMAIN planned' = 1..(Len(planned) + 1)
      /\ planned'[Len(planned) + 1] = t
      /\ \A i \in 1..Len(planned) : planned'[i] = planned[i]
  BY <1>2
<1>4. \A i \in 1..Len(planned') : i \in 1..Len(planned) \/ i = Len(planned) + 1
  BY <1>3
<1>5. PlannedFormed'
  BY <1>3, <1>4 DEF PlannedFormed, IsSeq, TaskRow
<1> QED BY <1>3, <1>5

LEMMA OnceCreates ==
    ASSUME PlansSound, OnceInv, PlanTypes', StaysKnown, NEW p \in Planners, Plan!Create(p)
    PROVE  OnceInv'
<1> DEFINE old == planner[p]
           t == [title |-> Plan!Trimmed(Head(old.todo)), cycle |-> old.cycle,
                 status |-> "QUEUED"]
           q == [old EXCEPT !.pc = IF Len(old.todo) = 1 THEN "count" ELSE "create",
                            !.todo = Tail(old.todo)]
<1>1. /\ old.pc = "create" /\ planned' = Append(planned, t) /\ overlapped' = overlapped
      /\ planner' = [planner EXCEPT ![p] = q]
  BY DEF Plan!Create, Plan!NextToCreate, Plan!Become, Plan!At
<1>2. IsSeq(old.todo) /\ old.todo # <<>> /\ Cycle(old)
  BY <1>1 DEF OnceInv, Meaning, PlanTypes
<1>3. PICK V : old.todo \in Seq(V)
  BY <1>2 DEF IsSeq
<1>4. /\ Len(old.todo) \in Nat \ {0} /\ Head(old.todo) = old.todo[1]
      /\ Tail(old.todo) \in Seq(V) /\ Len(Tail(old.todo)) = Len(old.todo) - 1
      /\ \A k \in 1..(Len(old.todo) - 1) : Tail(old.todo)[k] = old.todo[k + 1]
  BY <1>2, <1>3
<1>5. /\ q.todo = Tail(old.todo) /\ q.cycle = old.cycle
      /\ q.pc = IF Len(old.todo) = 1 THEN "count" ELSE "create"
  BY <1>2 DEF Cycle
<1>6. /\ TaskRow(t) /\ t.title = Plan!Trimmed(old.todo[1]) /\ t.cycle = old.cycle
  BY <1>4 DEF TaskRow
<1> HIDE DEF q, t, old
<1>7. Meaning(q)
  <2>1. Len(old.todo) # 1 => Len(Tail(old.todo)) # 0
    BY <1>4
  <2>2. Len(<<>>) = 0
    OBVIOUS
  <2>3. Len(old.todo) # 1 => Tail(old.todo) # <<>>
    BY <2>1, <2>2
  <2>4. IsSeq(q.todo)
    BY <1>4, <1>5 DEF IsSeq
  <2> QED BY <1>5, <2>3, <2>4 DEF Meaning
<1>8. /\ PlannedFormed' /\ Len(planned) \in Nat /\ Len(planned') = Len(planned) + 1
      /\ DOMAIN planned = 1..Len(planned) /\ DOMAIN planned' = 1..(Len(planned) + 1)
      /\ planned'[Len(planned) + 1] = t
      /\ \A i \in 1..Len(planned) : planned'[i] = planned[i]
  BY <1>1, <1>6, TaskComes DEF OnceInv
<1>9. \A o \in Planners : planner'[o] = IF o = p THEN q ELSE planner[o]
  BY <1>1 DEF OnceInv, PlanTypes
<1>10. \A o \in Planners : Meaning(planner'[o])
  BY <1>7, <1>9 DEF OnceInv
<1>11. ASSUME ~overlapped PROVE OneByOne'
  <2>1. OneByOne /\ IsNew(old, blind, moved) /\ Listed \in Nat
    BY <1>1, <1>11 DEF OnceInv, OneByOne, PlansSound, old
  <2>2. \A i \in 1..(Len(planned) + 1) : i \in 1..Len(planned) \/ i = Len(planned) + 1
    BY <1>8
  <2>3. ASSUME NEW k \in 1..Len(q.todo), NEW i \in 1..Len(planned'), planned'[i].cycle # 0,
               planned'[i].title = Plan!Trimmed(q.todo[k])
        PROVE  \/ planned'[i].cycle = q.cycle \/ Len(planned') - i >= Listed
               \/ planned'[i].title \in Plan!LosePadding
               \/ q.cycle \in blind' \/ i \in moved'
    <3>1. k + 1 \in 1..Len(old.todo) /\ q.todo[k] = old.todo[k + 1]
      BY <1>4, <1>5
    <3>2. CASE i = Len(planned) + 1
      BY <1>5, <1>6, <1>8, <3>2
    <3>3. CASE i \in 1..Len(planned)
      <4>1. \/ planned[i].cycle = old.cycle \/ Len(planned) - i >= Listed
            \/ planned[i].title \in Plan!LosePadding
            \/ old.cycle \in blind \/ i \in moved
        BY <1>8, <2>1, <2>3, <3>1, <3>3 DEF IsNew
      <4> QED BY <1>5, <1>8, <2>1, <3>3, <4>1 DEF StaysKnown
    <3> QED BY <1>8, <2>2, <3>2, <3>3
  <2>4. ASSUME NEW i \in 1..Len(planned'), NEW j \in 1..Len(planned'),
               planned'[i].cycle # 0, planned'[j].cycle # 0, i < j,
               planned'[i].title = planned'[j].title
        PROVE  \/ planned'[i].cycle = planned'[j].cycle \/ j - i > Listed
               \/ planned'[i].title \in Plan!LosePadding
               \/ planned'[j].cycle \in blind' \/ i \in moved'
    <3>1. i \in 1..Len(planned) /\ planned'[i] = planned[i]
      BY <1>8, <2>2, <2>4
    <3>2. CASE j = Len(planned) + 1
      <4>1. 1 \in 1..Len(old.todo)
            /\ planned[i].title = Plan!Trimmed(old.todo[1]) /\ planned[i].cycle # 0
        BY <1>4, <1>6, <1>8, <2>4, <3>1, <3>2
      <4>2. \/ planned[i].cycle = old.cycle \/ Len(planned) - i >= Listed
            \/ planned[i].title \in Plan!LosePadding
            \/ old.cycle \in blind \/ i \in moved
        BY <2>1, <3>1, <4>1 DEF IsNew
      <4> QED BY <1>6, <1>8, <2>1, <3>1, <3>2, <4>2 DEF StaysKnown
    <3>3. CASE j \in 1..Len(planned)
      BY <1>8, <1>11, <2>1, <2>4, <3>1, <3>3
      DEF OneByOne, PlannedOnce, Plan!PlannedOnce, Plan!Planned, StaysKnown
    <3> QED BY <1>8, <2>2, <3>2, <3>3
  <2>5. PlannedOnce'
    BY <1>8, <2>4 DEF PlannedOnce, Plan!PlannedOnce, Plan!Planned
  <2>6. \A o \in Planners : planner'[o].pc # "idle" => planner[o].pc # "idle"
    BY <1>1, <1>9 DEF old
  <2>7. ASSUME NEW o \in Planners, planner'[o].pc = "create" PROVE o = p /\ planner'[o] = q
    <3>1. planner[o].pc # "idle" /\ planner[p].pc # "idle"
      BY <1>1, <2>6, <2>7 DEF old
    <3> QED BY <1>9, <2>1, <3>1 DEF OneByOne
  <2>8. \A o \in Planners : planner'[o].pc = "create" => IsNew(planner[o], blind, moved)'
    BY <2>3, <2>7 DEF IsNew
  <2> QED BY <2>1, <2>5, <2>6, <2>8 DEF OneByOne
<1> QED BY <1>1, <1>8, <1>10, <1>11 DEF OnceInv, Meaning, StaysKnown

LEMMA OnceNotCreated ==
    ASSUME OnceInv, PlanTypes', StaysKnown, NEW p \in Planners, Plan!CreateFails(p)
    PROVE  OnceInv'
<1> DEFINE old == planner[p]
           q == [old EXCEPT !.pc = IF Len(old.todo) = 1 THEN "count" ELSE "create",
                            !.todo = Tail(old.todo)]
<1>1. /\ old.pc = "create" /\ planned' = planned /\ overlapped' = overlapped
      /\ planner' = [planner EXCEPT ![p] = q]
  BY DEF Plan!CreateFails, Plan!NextToCreate, Plan!Become, Plan!At
<1>2. IsSeq(old.todo) /\ old.todo # <<>> /\ Cycle(old)
  BY <1>1 DEF OnceInv, Meaning, PlanTypes
<1>3. PICK V : old.todo \in Seq(V)
  BY <1>2 DEF IsSeq
<1>4. /\ Len(old.todo) \in Nat \ {0}
      /\ Tail(old.todo) \in Seq(V) /\ Len(Tail(old.todo)) = Len(old.todo) - 1
      /\ \A k \in 1..(Len(old.todo) - 1) : Tail(old.todo)[k] = old.todo[k + 1]
  BY <1>2, <1>3
<1>5. /\ q.todo = Tail(old.todo) /\ q.cycle = old.cycle
      /\ q.pc = IF Len(old.todo) = 1 THEN "count" ELSE "create"
  BY <1>2 DEF Cycle
<1> HIDE DEF q, old
<1>6. Meaning(q)
  <2>1. Len(old.todo) # 1 => Len(Tail(old.todo)) # 0
    BY <1>4
  <2>2. Len(<<>>) = 0
    OBVIOUS
  <2>3. Len(old.todo) # 1 => Tail(old.todo) # <<>>
    BY <2>1, <2>2
  <2>4. IsSeq(q.todo)
    BY <1>4, <1>5 DEF IsSeq
  <2> QED BY <1>5, <2>3, <2>4 DEF Meaning
<1>7. \A o \in Planners : planner'[o] = IF o = p THEN q ELSE planner[o]
  BY <1>1 DEF OnceInv, PlanTypes
<1>8. PlannedFormed' /\ \A o \in Planners : Meaning(planner'[o])
  BY <1>1, <1>6, <1>7 DEF OnceInv, PlannedFormed
<1>9. ASSUME ~overlapped PROVE OneByOne'
  <2>1. OneByOne /\ IsNew(old, blind, moved)
    BY <1>1, <1>9 DEF OnceInv, OneByOne, old
  <2>2. \A k \in 1..Len(q.todo) : k + 1 \in 1..Len(old.todo) /\ q.todo[k] = old.todo[k + 1]
    BY <1>4, <1>5
  <2>3. IsNew(q, blind', moved')
    BY <1>5, <2>1, <2>2 DEF IsNew, StaysKnown
  <2>4. ASSUME NEW o \in Planners, planner'[o].pc = "create"
        PROVE  IsNew(planner[o], blind, moved)'
    <3>1. CASE o = p
      BY <1>1, <1>7, <2>3, <3>1 DEF IsNew
    <3>2. CASE o # p
      <4>1. planner'[o] = planner[o] /\ planner[o].pc = "create"
        BY <1>7, <2>4, <3>2
      <4> QED BY <1>1, <2>1, <4>1 DEF OneByOne, IsNew, StaysKnown
    <3> QED BY <3>1, <3>2
  <2>5. \A o \in Planners : planner'[o].pc # "idle" => planner[o].pc # "idle"
    BY <1>1, <1>7 DEF old
  <2>6. PlannedOnce'
    BY <1>1, <2>1 DEF OneByOne, PlannedOnce, Plan!PlannedOnce, Plan!Planned, StaysKnown
  <2> QED BY <2>1, <2>4, <2>5, <2>6 DEF OneByOne
<1> QED BY <1>1, <1>8, <1>9 DEF OnceInv, Meaning, StaysKnown

LEMMA OthersCreate ==
    ASSUME PlansSound, OnceInv, PlanTypes', StaysKnown, Plan!CreateOther PROVE OnceInv'
<1> DEFINE t == [title |-> <<"user", 0>>, cycle |-> 0, status |-> "QUEUED"]
<1>1. planned' = Append(planned, t) /\ overlapped' = overlapped /\ planner' = planner
  BY DEF Plan!CreateOther
<1>2. TaskRow(t) /\ t.cycle = 0
  BY DEF TaskRow
<1> HIDE DEF t
<1>3. /\ PlannedFormed' /\ Len(planned) \in Nat /\ Len(planned') = Len(planned) + 1
      /\ DOMAIN planned = 1..Len(planned) /\ DOMAIN planned' = 1..(Len(planned) + 1)
      /\ planned'[Len(planned) + 1] = t
      /\ \A i \in 1..Len(planned) : planned'[i] = planned[i]
  BY <1>1, <1>2, TaskComes DEF OnceInv
<1>4. ASSUME NEW i \in 1..Len(planned'), planned'[i].cycle # 0
      PROVE  i \in 1..Len(planned) /\ planned'[i] = planned[i]
  BY <1>2, <1>3, <1>4
<1>5. ASSUME ~overlapped PROVE OneByOne'
  <2>1. OneByOne /\ Listed \in Nat
    BY <1>5 DEF OnceInv, PlansSound
  <2>2. PlannedOnce'
    BY <1>3, <1>4, <2>1, <1>5, <1>1
    DEF OneByOne, PlannedOnce, Plan!PlannedOnce, Plan!Planned, StaysKnown
  <2>3. ASSUME NEW o \in Planners, planner[o].pc = "create",
               NEW k \in 1..Len(planner[o].todo), NEW i \in 1..Len(planned'),
               planned'[i].cycle # 0, planned'[i].title = Plan!Trimmed(planner[o].todo[k])
        PROVE  \/ planned'[i].cycle = planner[o].cycle \/ Len(planned') - i >= Listed
               \/ planned'[i].title \in Plan!LosePadding
               \/ planner[o].cycle \in blind' \/ i \in moved'
    <3>1. \/ planned[i].cycle = planner[o].cycle \/ Len(planned) - i >= Listed
          \/ planned[i].title \in Plan!LosePadding
          \/ planner[o].cycle \in blind \/ i \in moved
      BY <1>4, <2>1, <2>3 DEF OneByOne, IsNew
    <3> QED BY <1>3, <1>4, <2>1, <2>3, <3>1 DEF StaysKnown
  <2> QED BY <1>1, <2>1, <2>2, <2>3 DEF OneByOne, IsNew
<1> QED BY <1>1, <1>3, <1>5 DEF OnceInv, Meaning, StaysKnown

LEMMA TaskEnds ==
    ASSUME OnceInv, PlanTypes', StaysKnown, NEW i \in DOMAIN planned, NEW s,
           Plan!FinishTask(i, s)
    PROVE  OnceInv'
<1> DEFINE t == [planned[i] EXCEPT !.status = s]
<1>1. planned' = [planned EXCEPT ![i] = t] /\ overlapped' = overlapped /\ planner' = planner
  BY DEF Plan!FinishTask
<1>2. PICK V : planned \in Seq(V)
  BY DEF OnceInv, PlannedFormed, IsSeq
<1>3. DOMAIN planned = 1..Len(planned) /\ Len(planned) \in Nat /\ TaskRow(planned[i])
  BY <1>2 DEF OnceInv, PlannedFormed
<1>4. TaskRow(t) /\ t.title = planned[i].title /\ t.cycle = planned[i].cycle
  BY <1>3 DEF TaskRow
<1> HIDE DEF t
<1>5. planned \in Seq(V \cup {t})
  BY <1>2, SeqMonotonic
<1>6. /\ planned' \in Seq(V \cup {t}) /\ Len(planned') = Len(planned)
      /\ DOMAIN planned' = DOMAIN planned
      /\ \A k \in 1..Len(planned) : planned'[k] = IF k = i THEN t ELSE planned[k]
  BY <1>1, <1>3, <1>5
<1>7. PlannedFormed'
  BY <1>4, <1>6 DEF OnceInv, PlannedFormed, IsSeq
<1>8. \A k \in 1..Len(planned) :
          planned'[k].title = planned[k].title /\ planned'[k].cycle = planned[k].cycle
  BY <1>4, <1>6
<1>9. ASSUME ~overlapped PROVE OneByOne'
  <2>1. OneByOne
    BY <1>9 DEF OnceInv
  <2>2. PlannedOnce'
    BY <1>1, <1>3, <1>6, <1>8, <2>1
    DEF OneByOne, PlannedOnce, Plan!PlannedOnce, Plan!Planned, StaysKnown
  <2>3. \A o \in Planners : planner[o].pc = "create" => IsNew(planner[o], blind, moved)'
    BY <1>1, <1>6, <1>8, <2>1 DEF OneByOne, IsNew, StaysKnown
  <2> QED BY <1>1, <2>1, <2>2, <2>3 DEF OneByOne
<1> QED BY <1>1, <1>7, <1>9 DEF OnceInv, Meaning, StaysKnown

LEMMA StepRemembers == ASSUME OnceInv, [Plan!Next]_(Plan!vars) PROVE StaysKnown
  BY DEF OnceInv, StaysKnown, Plan!Next, Plan!vars, Plan!Start, Plan!Recon, Plan!ReadScores,
     Plan!WriteScores, Plan!Rank, Plan!Propose, Plan!ProposeBlind, Plan!ProposeBeside,
     Plan!Create, Plan!CreateFails, Plan!NextToCreate, Plan!CountCycle, Plan!Seed,
     Plan!ReadRow, Plan!WriteRow, Plan!EditStream, Plan!CreateOther, Plan!Move,
     Plan!FinishTask, Plan!Elapse, Plan!Crash

LEMMA OnceStep ==
    ASSUME PlansSound, OnceInv, PlanTypes', [Plan!Next]_(Plan!vars)
    PROVE  OnceInv'
<1>0. StaysKnown
  BY StepRemembers
<1>1. ASSUME NEW p \in Planners, Plan!Start(p) PROVE OnceInv'
  BY <1>0, <1>1, OnceStarts
<1>2. ASSUME NEW p \in Planners,
             Plan!Recon(p) \/ Plan!ReadScores(p) \/ Plan!WriteScores(p) \/ Plan!CountCycle(p)
      PROVE  OnceInv'
  <2>1. /\ planned' = planned /\ overlapped' = overlapped /\ planner[p].pc # "idle"
        /\ \E q : /\ planner' = [planner EXCEPT ![p] = q]
                  /\ q.pc \in {"idle", "scores", "write", "rank"}
    <3> DEFINE Goes(q) == planner' = [planner EXCEPT ![p] = q]
                          /\ q.pc \in {"idle", "scores", "write", "rank"}
    <3>0. Cycle(planner[p]) /\ Plan!Idle.pc = "idle"
      BY DEF OnceInv, PlanTypes, Plan!Idle
    <3>1. planned' = planned /\ overlapped' = overlapped /\ planner[p].pc # "idle"
      BY <1>2 DEF Plan!Recon, Plan!ReadScores, Plan!WriteScores, Plan!CountCycle, Plan!At
    <3>2. Plan!Become(p, Plan!Idle) => \E q : Goes(q)
      <4> DEFINE q == Plan!Idle
      <4>1. Plan!Become(p, q) => planner' = [planner EXCEPT ![p] = q]
        BY DEF Plan!Become
      <4> HIDE DEF q
      <4>2. q.pc = "idle"
        BY <3>0 DEF q
      <4>3. Plan!Become(p, q) => Goes(q)
        BY <4>1, <4>2
      <4> HIDE DEF Goes
      <4> QED BY <4>3 DEF q
    <3> SUFFICES \E q : Goes(q)
      BY <3>1
    <3>3. CASE Plan!Recon(p)
      <4> DEFINE n == Plan!Count(Plan!Newest(1000), "FAILED")
                 Looked(agents) == [planner[p] EXCEPT !.pc = "scores", !.agents = agents, !.failed = n]
      <4>1. CASE Plan!Become(p, Plan!Idle)
        <5> HIDE DEF Goes
        <5> QED BY <3>2, <4>1
      <4>2. CASE ~Plan!Become(p, Plan!Idle)
        <5>1. PICK agents \in BOOLEAN : Plan!Become(p, Looked(agents))
          BY <3>3, <4>2, Zenon DEF Plan!Recon
        <5> DEFINE q == Looked(agents)
        <5>2. planner' = [planner EXCEPT ![p] = q]
          BY <5>1 DEF Plan!Become
        <5> HIDE DEF n
        <5>3. q.pc = "scores"
          BY <3>0 DEF Cycle
        <5> HIDE DEF q
        <5> QED BY <5>2, <5>3
      <4> QED BY <4>1, <4>2
    <3>4. CASE Plan!ReadScores(p)
      <4> DEFINE q == [planner[p] EXCEPT !.pc = "write", !.scored = streams]
      <4>1. planner' = [planner EXCEPT ![p] = q]
        BY <3>4 DEF Plan!ReadScores, Plan!Become
      <4>2. q.pc = "write"
        BY <3>0 DEF Cycle
      <4> HIDE DEF q
      <4> QED BY <4>1, <4>2
    <3>5. CASE Plan!WriteScores(p)
      <4> DEFINE sc == Plan!Idle.scored
                 q == [planner[p] EXCEPT !.pc = "rank", !.scored = sc]
      <4>1. planner' = [planner EXCEPT ![p] = q]
        BY <3>5 DEF Plan!WriteScores, Plan!Become
      <4> HIDE DEF sc
      <4>2. q.pc = "rank"
        BY <3>0 DEF Cycle
      <4> HIDE DEF q
      <4> QED BY <4>1, <4>2
    <3>6. CASE Plan!CountCycle(p)
      BY <3>2, <3>6 DEF Plan!CountCycle
    <3> QED BY <1>2, <3>1, <3>3, <3>4, <3>5, <3>6
  <2>2. PICK q : planner' = [planner EXCEPT ![p] = q] /\ q.pc \in {"idle", "scores", "write", "rank"}
    BY <2>1
  <2> QED BY <1>0, <2>1, <2>2, OnceGoesOn DEF Meaning
<1>3. ASSUME NEW p \in Planners, Plan!Rank(p) PROVE OnceInv'
  <2>1. PICK open \in SUBSET Streams, active \in SUBSET Streams :
          Plan!Become(p, [planner[p] EXCEPT !.pc = "propose", !.failed = 0, !.agents = FALSE,
              !.todo = Plan!Ranked(planner[p].row.mode, planner[p].failed, planner[p].agents,
                                   open, active)])
    BY <1>3 DEF Plan!Rank
  <2> DEFINE r == Plan!Ranked(planner[p].row.mode, planner[p].failed, planner[p].agents,
                              open, active)
             q == [planner[p] EXCEPT !.pc = "propose", !.failed = 0, !.agents = FALSE, !.todo = r]
  <2>2. /\ planned' = planned /\ overlapped' = overlapped /\ planner[p].pc # "idle"
        /\ planner' = [planner EXCEPT ![p] = q]
    BY <1>3, <2>1 DEF Plan!Rank, Plan!Become, Plan!At
  <2>3. IsSeq(r)
    BY RankedIsASeq
  <2> HIDE DEF r
  <2>4. q.pc = "propose" /\ q.todo = r
    BY DEF OnceInv, PlanTypes, Cycle
  <2> HIDE DEF q
  <2> QED BY <1>0, <2>2, <2>3, <2>4, OnceGoesOn DEF Meaning
<1>4. ASSUME NEW p \in Planners, NEW existing, Plan!ProposeBeside(p, existing),
             existing = Plan!Existing \/ planner[p].cycle \in blind'
      PROVE  OnceInv'
  <2> DEFINE todo == Plan!Proposed(planner[p].todo, planner[p].row.mode, existing)
             pc == IF todo = <<>> THEN "count" ELSE "create"
             q == [planner[p] EXCEPT !.pc = pc, !.todo = todo]
  <2>1. /\ planned' = planned /\ overlapped' = overlapped /\ planner[p].pc = "propose"
        /\ planner' = [planner EXCEPT ![p] = q]
    BY <1>4 DEF Plan!ProposeBeside, Plan!Become, Plan!At
  <2>2. IsSeq(planner[p].todo) /\ PlannedFormed /\ gone \subseteq moved
    BY <2>1 DEF OnceInv, Meaning
  <2>3. IsSeq(todo) /\ \A k \in 1..Len(todo) : todo[k] \notin existing
    BY <2>2, ProposedIsNew
  <2> HIDE DEF todo
  <2>4. pc \in {"count", "create"} /\ (pc = "create" => todo # <<>>)
    OBVIOUS
  <2> HIDE DEF pc
  <2>5. q.pc = pc /\ q.todo = todo /\ q.cycle = planner[p].cycle
    BY DEF OnceInv, PlanTypes, Cycle
  <2> HIDE DEF q
  <2>6. IsNew(q, blind', moved')
    <3>1. CASE planner[p].cycle \in blind'
      BY <2>5, <3>1 DEF IsNew
    <3>2. CASE existing = Plan!Existing
      <4>1. Listed \in Nat /\ Len(planned) \in Nat
        BY <2>2 DEF PlansSound, PlannedFormed, IsSeq
      <4>2. ASSUME NEW k \in 1..Len(todo), NEW i \in 1..Len(planned),
                   planned[i].title = Plan!Trimmed(todo[k])
            PROVE  \/ Len(planned) - i >= Listed \/ planned[i].title \in Plan!LosePadding
                   \/ i \in moved'
        <5>1. CASE planned[i].title = todo[k]
          <6>1. planned[i].title \notin Plan!Existing
            BY <2>3, <3>2, <5>1
          <6>2. i \in gone \/ ~(Len(planned) - i < Listed)
            BY <2>2, <4>1, <6>1, ListingShows
          <6> QED BY <1>0, <2>2, <4>1, <6>2 DEF StaysKnown
        <5>2. CASE planned[i].title # todo[k]
          BY <4>2, <5>2, TitlesAreStored
        <5> QED BY <5>1, <5>2
      <4> QED BY <2>5, <4>2 DEF IsNew
    <3> QED BY <1>4, <3>1, <3>2
  <2>7. Meaning(q)
    BY <2>3, <2>4, <2>5 DEF Meaning
  <2> QED BY <1>0, <2>1, <2>6, <2>7, OnceGoesOn
<1>9. ASSUME NEW p \in Planners, Plan!Propose(p) \/ Plan!ProposeBlind(p) PROVE OnceInv'
  BY <1>4, <1>9 DEF Plan!Propose, Plan!ProposeBlind
<1>5. ASSUME NEW p \in Planners, Plan!Create(p) PROVE OnceInv'
  BY <1>0, <1>5, OnceCreates
<1>10. ASSUME NEW p \in Planners, Plan!CreateFails(p) PROVE OnceInv'
  BY <1>0, <1>10, OnceNotCreated
<1>6. CASE Plan!CreateOther
  BY <1>0, <1>6, OthersCreate
<1>7. ASSUME NEW i \in DOMAIN planned, NEW s, Plan!FinishTask(i, s) PROVE OnceInv'
  BY <1>0, <1>7, TaskEnds
<1>8. CASE \/ \E new \in SUBSET Streams : Plan!Seed(new)
           \/ \E e \in Editors : Plan!ReadRow(e) \/ \E mode \in Modes : Plan!WriteRow(e, mode)
           \/ \E s \in Streams, st \in Statuses \cup {"active", "deleted"} : Plan!EditStream(s, st)
           \/ \E i \in DOMAIN planned : Plan!Move(i)
           \/ Plan!Elapse \/ Plan!Crash \/ UNCHANGED Plan!vars
  <2>1. /\ planned' = planned /\ overlapped' = overlapped
        /\ planner' = planner \/ planner' = [p \in Planners |-> Plan!Idle]
    BY <1>8 DEF Plan!Seed, Plan!ReadRow, Plan!WriteRow, Plan!EditStream, Plan!Move, Plan!Elapse,
         Plan!Crash, Plan!vars
  <2> QED BY <1>0, <2>1, OnceRests
<1> QED BY <1>1, <1>2, <1>3, <1>5, <1>6, <1>7, <1>8, <1>9, <1>10 DEF Plan!Next

LEMMA OnceInit == Plan!Init => OnceInv
<1> SUFFICES ASSUME Plan!Init PROVE OnceInv
  OBVIOUS
<1> DEFINE t == [title |-> <<"user", 0>>, cycle |-> 0, status |-> "QUEUED"]
<1>1. /\ planned = <<t>> /\ planner = [p \in Planners |-> Plan!Idle]
      /\ ~overlapped /\ overlapped \in BOOLEAN /\ gone = {}
  BY DEF Plan!Init
<1>2. TaskRow(t) /\ Plan!Idle.pc = "idle"
  BY DEF TaskRow, Plan!Idle
<1> HIDE DEF t
<1>3. <<t>> \in Seq({t}) /\ Len(<<t>>) = 1 /\ <<t>>[1] = t /\ DOMAIN <<t>> = 1..1
  OBVIOUS
<1>4. PlannedFormed
  <2>1. \A i \in 1..Len(planned) : planned[i] = t
    BY <1>1, <1>3
  <2>2. IsSeq(planned)
    BY <1>1, <1>3 DEF IsSeq
  <2> QED BY <1>2, <2>1, <2>2 DEF PlannedFormed
<1>5. PlannedOnce
  BY <1>1, <1>3 DEF PlannedOnce, Plan!PlannedOnce
<1> QED BY <1>1, <1>2, <1>4, <1>5, PlanningStarts DEF OnceInv, OneByOne, Meaning

\* Cycles plan a title again only if they overlapped, if one could not read the listing,
\* if that was too short to show it, if its task was once moved or deleted, if it lost
\* its padding, or if one cycle ranks it twice: runSynthesisStage looks at titles whatever
\* became of the tasks, and neither a restart in the middle of a cycle nor an INSERT or a
\* row of planning_state that fails loses one of them.
THEOREM PlansOnce == Plan!Spec => []PlannedOnce
<1> USE EngineAssumption
<1> DEFINE Inv == OnceInv /\ \E n \in Nat : Numbered(n)
<1>1. Plan!Init => Inv
  BY OnceInit, PlanningStarts
<1>2. Inv /\ [Plan!Next]_(Plan!vars) => Inv'
  <2> SUFFICES ASSUME Inv, [Plan!Next]_(Plan!vars) PROVE Inv'
    OBVIOUS
  <2>1. PlanTypes' /\ \E m \in Nat : Numbered(m)'
    BY PlanningGoesOn DEF OnceInv
  <2>2. OnceInv'
    BY <2>1, OnceStep
  <2> QED BY <2>1, <2>2
<1>3. Inv => PlannedOnce
  BY DEF OnceInv, OneByOne, PlannedOnce, Plan!PlannedOnce
<1> QED BY <1>1, <1>2, <1>3, PTL DEF Plan!Spec

-----------------------------------------------------------------------------
(* The bounds of the planning cycles.                                      *)

\* A row of planning_state, a cycle and a task, each with the set of every field.
PlanRow == [mode : Modes \cup {"none", "standard"}, count : Nat,
            last : {"never", "just now", "this hour", "long ago"}]
PlanCycle == [pc : {"idle", "recon", "scores", "write", "rank", "propose", "create", "count"},
              cycle : Nat, row : PlanRow, failed : 0..MaxPlanned, agents : BOOLEAN,
              scored : [Streams -> Plan!StreamStatuses], todo : Seq(Plan!Titles)]
PlanTask == [title : Plan!Titles, cycle : Nat, status : {"QUEUED", "FAILED", "SUCCEEDED"}]

PlanSets ==
    /\ row \in PlanRow
    /\ streams \in [Streams -> Plan!StreamStatuses]
    /\ planned \in Seq(PlanTask) /\ Len(planned) <= MaxPlanned
    /\ planner \in [Planners -> PlanCycle]
    /\ editor \in [Editors -> PlanRow]
    /\ overlapped \in BOOLEAN
    /\ gone \subseteq moved /\ moved \subseteq DOMAIN planned

\* A cycle has a number that was started, and means to count up a row that counts
\* fewer cycles than were started.
CycleCounts(q) ==
    /\ q.cycle <= started /\ q.row.count <= started
    /\ q.pc # "idle" => q.row.count + 1 <= started

PlanCounts ==
    /\ started \in Nat /\ started <= MaxCycles /\ numbers \subseteq 1..started
    /\ row.count <= started
    /\ \A e \in Editors : editor[e].count <= started
    /\ \A p \in Planners : CycleCounts(planner[p])
    /\ \A i \in DOMAIN planned : planned[i].cycle <= started
    /\ blind \subseteq 0..started

\* A row that is not there, and one made anew.
LEMMA FirstRows ==
    /\ Plan!NoRow \in PlanRow /\ Plan!NoRow.count = 0
    /\ Plan!FreshRow \in PlanRow /\ Plan!FreshRow.count = 0
    /\ Plan!Idle.pc = "idle" /\ Plan!Idle.cycle = 0 /\ Plan!Idle.row = Plan!NoRow
  BY DEF Plan!NoRow, Plan!FreshRow, PlanRow, Plan!Idle

LEMMA IdleCycle == ASSUME BoundsSound PROVE Plan!Idle \in PlanCycle
<1>1. Plan!NoRow \in PlanRow /\ 0 \in 0..MaxPlanned /\ <<>> \in Seq(Plan!Titles)
  BY FirstRows DEF BoundsSound
<1>2. [s \in Streams |-> "none"] \in [Streams -> Plan!StreamStatuses]
  <2>1. "none" \in Plan!StreamStatuses
    BY DEF Plan!StreamStatuses
  <2> HIDE DEF Plan!StreamStatuses
  <2> QED BY <2>1
<1> QED BY <1>1, <1>2 DEF Plan!Idle, PlanCycle

\* Titles: the names of tasks that cycles make.
LEMMA TitlesOf ==
    /\ \A n \in 1..MaxPlanned : Plan!Failures(n) \in Plan!Titles
    /\ \A s \in Streams : Plan!NextTitle(s) \in Plan!Titles
    /\ \A g \in Plan!ToSet(Goals) : <<"goal", g>> \in Plan!Titles
    /\ Plan!AgentsTitle \in Plan!Titles /\ <<"user", 0>> \in Plan!Titles
    /\ Plan!LosePadding \subseteq Plan!Titles
  BY DEF Plan!Titles

\* What is ranked has titles.
LEMMA RankedTitles ==
    ASSUME PlansSound, BoundsSound, NEW mode, NEW failed \in 0..MaxPlanned, NEW agents,
           NEW open \in SUBSET Streams, NEW active
    PROVE  Plan!Ranked(mode, failed, agents, open, active) \in Seq(Plan!Titles)
<1> DEFINE T == Plan!Titles
           urgent == IF Plan!PrioritizesFailures(mode) /\ failed > 0
                     THEN <<Plan!Failures(failed)>> ELSE <<>>
           candidates == Plan!SetToSeq(open)
           nexts == [i \in DOMAIN candidates |-> Plan!NextTitle(candidates[i])]
           chances == IF agents /\ Plan!AllowsNewWorkstreams(mode) THEN <<Plan!AgentsTitle>> ELSE <<>>
           covered == UNION {GoalsOf[s] : s \in active}
           missing == Plan!Without(Goals, covered)
           goals == [i \in DOMAIN missing |-> <<"goal", missing[i]>>]
           failures == IF failed > 0 THEN <<Plan!Failures(failed)>> ELSE <<>>
<1>1. Plan!Ranked(mode, failed, agents, open, active)
        = ((urgent \o nexts) \o (goals \o failures)) \o chances
  BY DEF Plan!Ranked, Plan!Gaps
<1>2. urgent \in Seq(T) /\ chances \in Seq(T) /\ failures \in Seq(T)
  <2>1. failed > 0 => Plan!Failures(failed) \in T
    <3>1. failed > 0 => failed \in 1..MaxPlanned
      BY DEF BoundsSound
    <3> QED BY <3>1, TitlesOf
  <2>2. Plan!AgentsTitle \in T
    BY TitlesOf
  <2> HIDE DEF T
  <2>3. \A x \in T : <<x>> \in Seq(T) /\ <<>> \in Seq(T)
    OBVIOUS
  <2>4. <<>> \in Seq(T)
    OBVIOUS
  <2> QED BY <2>1, <2>2, <2>3, <2>4
<1>3. nexts \in Seq(T)
  <2>1. IsFiniteSet(open)
    BY FS_Subset DEF PlansSound
  <2>2. candidates \in Seq(open)
    BY <2>1, InSomeOrder
  <2>3. candidates \in Seq(Streams)
    BY <2>2, SeqMonotonic
  <2> HIDE DEF candidates, T
  <2>4. /\ Len(candidates) \in Nat /\ DOMAIN candidates = 1..Len(candidates)
        /\ \A i \in 1..Len(candidates) : candidates[i] \in Streams
    BY <2>3
  <2>5. \A i \in 1..Len(candidates) : Plan!NextTitle(candidates[i]) \in T
    BY <2>4, TitlesOf DEF T
  <2> QED BY <2>4, <2>5, IsASeq
<1>4. goals \in Seq(T)
  <2> HIDE DEF covered
  <2>1. Goals \in Seq(Plan!ToSet(Goals))
    <3>1. Goals \in Seq(STRING)
      BY DEF PlansSound
    <3>2. Plan!ToSet(Goals) = {Goals[i] : i \in DOMAIN Goals}
      BY DEF Plan!ToSet
    <3>3. /\ Len(Goals) \in Nat /\ DOMAIN Goals = 1..Len(Goals)
          /\ Goals = [i \in 1..Len(Goals) |-> Goals[i]]
      BY <3>1
    <3>4. \A i \in 1..Len(Goals) : Goals[i] \in Plan!ToSet(Goals)
      BY <3>2, <3>3
    <3> QED BY <3>3, <3>4, IsASeq
  <2>2. missing \in Seq(Plan!ToSet(Goals) \ covered)
    BY <2>1, WithoutDrops
  <2> HIDE DEF missing, T
  <2>3. /\ Len(missing) \in Nat /\ DOMAIN missing = 1..Len(missing)
        /\ \A i \in 1..Len(missing) : missing[i] \in Plan!ToSet(Goals)
    BY <2>2
  <2>4. \A i \in 1..Len(missing) : <<"goal", missing[i]>> \in T
    BY <2>3, TitlesOf DEF T
  <2> QED BY <2>3, <2>4, IsASeq
<1> HIDE DEF urgent, nexts, chances, goals, failures, T
<1>5. ((urgent \o nexts) \o (goals \o failures)) \o chances \in Seq(T)
  <2>1. urgent \o nexts \in Seq(T) /\ goals \o failures \in Seq(T)
    BY <1>2, <1>3, <1>4
  <2>2. (urgent \o nexts) \o (goals \o failures) \in Seq(T)
    BY <2>1
  <2> QED BY <1>2, <2>2
<1> QED BY <1>1, <1>5 DEF T

\* What is proposed was ranked.
LEMMA ProposedTitles ==
    ASSUME NEW V, NEW ranked \in Seq(V), NEW mode, NEW existing
    PROVE  Plan!Proposed(ranked, mode, existing) \in Seq(V)
<1> DEFINE top == Plan!First(ranked, Plan!MaxTasksPerCycle(mode))
           S == existing \cup {Plan!NoTitle}
<1>1. top \in Seq(V)
  BY FirstIsASeq, ModesCount
<1>2. Plan!Proposed(ranked, mode, existing) = Plan!Without(top, S)
  BY DEF Plan!Proposed
<1> HIDE DEF top, S
<1>3. Plan!Without(top, S) \in Seq(V \ S)
  BY <1>1, WithoutDrops
<1> QED BY <1>2, <1>3, SeqMonotonic

\* A listing has no more failed tasks than there are tasks.
LEMMA FailuresCounted ==
    ASSUME PlanSets, BoundsSound
    PROVE  Plan!Count(Plan!Newest(1000), "FAILED") \in 0..MaxPlanned
<1> DEFINE n == Len(planned)
           S == {i \in Plan!Newest(1000) : planned[i].status = "FAILED"}
<1>1. DOMAIN planned = 1..n /\ n \in Nat /\ n <= MaxPlanned /\ MaxPlanned \in Nat
  BY DEF PlanSets, BoundsSound
<1>2. S \subseteq 1..n
  BY <1>1 DEF Plan!Newest
<1>3. IsFiniteSet(1..n) /\ Cardinality(1..n) = n
  <2>1. \A l \in Nat : IsFiniteSet(1..l) /\ Cardinality(1..l) = l
    BY FS_Interval
  <2> QED BY <1>1, <2>1
<1>4. Plan!Count(Plan!Newest(1000), "FAILED") = Cardinality(S)
  <2>1. Plan!Cardinality(S) = Cardinality(S)
    BY Zenon DEF Plan!Cardinality, Cardinality
  <2> QED BY <2>1 DEF Plan!Count
<1> HIDE DEF S
<1>5. Cardinality(S) \in Nat /\ Cardinality(S) <= n
  BY <1>2, <1>3, FS_Subset, FS_CardinalityType
<1> HIDE DEF n
<1> QED BY <1>1, <1>4, <1>5

\* A cycle goes on or ends, and the row is kept or written back.
LEMMA PlannerGoesOn ==
    ASSUME PlanSets, PlanCounts, NEW p \in Planners, NEW q, Plan!Become(p, q),
           q \in PlanCycle, CycleCounts(q),
           started' = started, numbers' = numbers, planned' = planned, editor' = editor,
           overlapped' = overlapped, gone' = gone, moved' = moved, blind' \subseteq 0..started,
           row' \in PlanRow, row'.count <= started,
           streams' \in [Streams -> Plan!StreamStatuses]
    PROVE  PlanSets' /\ PlanCounts'
<1>1. planner' \in [Planners -> PlanCycle]
      /\ \A o \in Planners : planner'[o] = IF o = p THEN q ELSE planner[o]
  BY DEF PlanSets, Plan!Become
<1>2. PlanSets'
  BY <1>1 DEF PlanSets
<1>3. \A o \in Planners : CycleCounts(planner'[o])
  BY <1>1 DEF PlanCounts
<1>4. PlanCounts'
  BY <1>3 DEF PlanCounts, CycleCounts
<1> QED BY <1>2, <1>4

\* The other requests: what they write to the row counts no more cycles than were
\* started.
LEMMA RowGoesOn ==
    ASSUME PlanSets, PlanCounts,
           started' = started, numbers' = numbers, planner' = planner, overlapped' = overlapped,
           row' \in PlanRow, row'.count <= started,
           editor' \in [Editors -> PlanRow], \A e \in Editors : editor'[e].count <= started,
           streams' \in [Streams -> Plan!StreamStatuses],
           planned' \in Seq(PlanTask), Len(planned') <= MaxPlanned,
           \A i \in DOMAIN planned' : planned'[i].cycle <= started,
           gone' \subseteq moved', moved' \subseteq DOMAIN planned', blind' = blind
    PROVE  PlanSets' /\ PlanCounts'
<1>1. PlanSets'
  BY DEF PlanSets
<1>2. PlanCounts'
  BY DEF PlanCounts, CycleCounts
<1> QED BY <1>1, <1>2

\* What is known of a cycle under way.
LEMMA CycleTyped ==
    ASSUME PlanSets, PlanCounts, NEW p \in Planners
    PROVE  /\ planner[p] \in PlanCycle /\ CycleCounts(planner[p])
           /\ planner[p].row \in PlanRow /\ planner[p].row.count \in Nat
           /\ planner[p].cycle \in Nat
           /\ planner[p].todo \in Seq(Plan!Titles)
           /\ planner[p].failed \in 0..MaxPlanned
           /\ row.count \in Nat /\ started \in Nat
<1>1. planner[p] \in PlanCycle /\ CycleCounts(planner[p]) /\ row \in PlanRow /\ started \in Nat
  BY DEF PlanSets, PlanCounts
<1>2. planner[p].row \in PlanRow
  BY <1>1 DEF PlanCycle
<1> QED BY <1>1, <1>2 DEF PlanCycle, PlanRow

\* A row that is found or made counts no more.
LEMMA RowIsFound ==
    ASSUME PlanSets, PlanCounts
    PROVE  Plan!FoundRow \in PlanRow /\ Plan!FoundRow.count \in Nat /\ Plan!FoundRow.count <= started
<1>1. row \in PlanRow /\ row.count <= started /\ started \in Nat
  BY DEF PlanSets, PlanCounts
<1>2. Plan!FoundRow \in {row, Plan!FreshRow}
  BY DEF Plan!FoundRow
<1>3. Plan!FoundRow \in PlanRow /\ Plan!FoundRow.count <= started
  BY <1>1, <1>2, FirstRows
<1> QED BY <1>3 DEF PlanRow

\* Time passes.
LEMMA RowAges ==
    ASSUME NEW r \in PlanRow
    PROVE  Plan!Older(r) \in PlanRow /\ Plan!Older(r).count = r.count
<1> DEFINE l == CASE r.last = "just now" -> "this hour" [] r.last = "this hour" -> "long ago"
                  [] OTHER -> r.last
<1>1. Plan!Older(r) = [r EXCEPT !.last = l]
  BY Zenon DEF Plan!Older
<1>2. l \in {"never", "just now", "this hour", "long ago"}
  BY DEF PlanRow
<1> HIDE DEF l
<1> QED BY <1>1, <1>2 DEF PlanRow

\* Every step keeps the types and the counts.
LEMMA PlanStays ==
    ASSUME PlansSound, BoundsSound, PlanSets, PlanCounts,
           \A p \in Planners : Meaning(planner[p]), [Plan!Next]_(Plan!vars)
    PROVE  PlanSets' /\ PlanCounts'
<1>0. /\ row \in PlanRow /\ row.count <= started /\ started \in Nat
      /\ streams \in [Streams -> Plan!StreamStatuses]
      /\ editor \in [Editors -> PlanRow] /\ \A e \in Editors : editor[e].count <= started
      /\ planned \in Seq(PlanTask) /\ Len(planned) <= MaxPlanned
      /\ \A i \in DOMAIN planned : planned[i].cycle <= started
      /\ gone \subseteq moved /\ moved \subseteq DOMAIN planned /\ blind \subseteq 0..started
  BY DEF PlanSets, PlanCounts
<1>i. Plan!Idle \in PlanCycle /\ CycleCounts(Plan!Idle)
  BY <1>0, IdleCycle, FirstRows DEF CycleCounts
<1>1. ASSUME NEW p \in Planners, Plan!Start(p) PROVE PlanSets' /\ PlanCounts'
  <2> DEFINE r == [Plan!FoundRow EXCEPT !.last = "never"]
             n == started + 1
             k == Plan!FoundRow.count
             q == [Plan!Idle EXCEPT !.pc = "recon", !.cycle = n, !.row = r]
  <2>1. /\ started < MaxCycles /\ started' = n /\ row' = Plan!FoundRow
        /\ numbers' = numbers \cup {k + 1} /\ Plan!Become(p, q)
        /\ overlapped' \in BOOLEAN
        /\ UNCHANGED <<streams, planned, editor, gone, moved, blind>>
    BY <1>1 DEF Plan!Start
  <2>2. k \in Nat /\ k <= started /\ Plan!FoundRow \in PlanRow
    BY RowIsFound
  <2>3. r \in PlanRow /\ r.count = k
    BY <2>2 DEF PlanRow
  <2>4. n \in Nat /\ started < n /\ n <= MaxCycles /\ k + 1 \in 1..n
    BY <1>0, <2>1, <2>2 DEF BoundsSound
  <2>5. n = started'
    BY <2>1
  <2> HIDE DEF r, n, k
  <2>6. q \in PlanCycle /\ q.cycle = n /\ q.row = r /\ q.pc = "recon"
    BY <1>i, <2>3, <2>4 DEF PlanCycle
  <2> HIDE DEF q
  <2>7. planner' \in [Planners -> PlanCycle]
        /\ \A o \in Planners : planner'[o] = IF o = p THEN q ELSE planner[o]
    BY <2>1, <2>6 DEF PlanSets, Plan!Become
  <2>8. PlanSets'
    BY <1>0, <2>1, <2>2, <2>7 DEF PlanSets
  <2>9. \A c \in Nat : c <= started => c <= started' /\ c + 1 <= started'
    BY <1>0, <2>1 DEF n
  <2>10. \A o \in Planners : CycleCounts(planner[o])'
    <3> SUFFICES ASSUME NEW o \in Planners PROVE CycleCounts(planner[o])'
      OBVIOUS
    <3>1. CASE o = p
      <4>1. k + 1 <= started' /\ k <= started' /\ n <= started'
        BY <2>2, <2>4, <2>5, <2>9
      <4> QED BY <2>3, <2>6, <2>7, <3>1, <4>1 DEF CycleCounts
    <3>2. CASE o # p
      <4>1. planner'[o] = planner[o]
        BY <2>7, <3>2
      <4>2. CycleCounts(planner[o]) /\ planner[o].cycle \in Nat /\ planner[o].row.count \in Nat
        BY CycleTyped
      <4> QED BY <2>9, <4>1, <4>2 DEF CycleCounts
    <3> QED BY <3>1, <3>2
  <2>11. numbers' \subseteq 1..started'
    <3>1. numbers \subseteq 1..started /\ started \in Nat
      BY DEF PlanCounts
    <3>2. 1..started \subseteq 1..n
      BY <1>0, <2>4
    <3> QED BY <2>1, <2>4, <2>5, <3>1, <3>2
  <2>12. row'.count <= started' /\ \A e \in Editors : editor'[e].count <= started'
    <3>1. \A e \in Editors : editor[e].count \in Nat
      BY <1>0 DEF PlanRow
    <3> QED BY <1>0, <2>1, <2>2, <2>9, <3>1 DEF k
  <2>13. \A i \in DOMAIN planned' : planned'[i].cycle <= started'
    <3>1. \A i \in DOMAIN planned : planned[i].cycle \in Nat
      <4>1. \A i \in DOMAIN planned : planned[i] \in PlanTask
        BY <1>0
      <4> QED BY <4>1 DEF PlanTask
    <3> QED BY <1>0, <2>1, <2>9, <3>1
  <2>14. blind' \subseteq 0..started'
    BY <1>0, <2>1, <2>9
  <2> QED
    BY <2>1, <2>4, <2>5, <2>8, <2>10, <2>11, <2>12, <2>13, <2>14 DEF PlanCounts
<1>2. ASSUME NEW p \in Planners, Plan!Become(p, Plan!Idle), row' \in PlanRow,
             row'.count <= started,
             UNCHANGED <<numbers, started, streams, planned, gone, editor, overlapped, moved,
                         blind>>
      PROVE  PlanSets' /\ PlanCounts'
  BY <1>0, <1>i, <1>2, PlannerGoesOn
<1>3. ASSUME NEW p \in Planners, Plan!Recon(p) PROVE PlanSets' /\ PlanCounts'
  <2>1. UNCHANGED <<row, numbers, started, streams, planned, gone, editor, overlapped,
                    moved, blind>>
        /\ planner[p].pc = "recon"
    BY <1>3 DEF Plan!Recon, Plan!At
  <2> DEFINE failed == Plan!Count(Plan!Newest(1000), "FAILED")
             Looked(agents) == [planner[p] EXCEPT !.pc = "scores", !.agents = agents,
                                                  !.failed = failed]
  <2>2. CASE Plan!Become(p, Plan!Idle)
    BY <1>0, <1>2, <2>1, <2>2
  <2>3. CASE ~Plan!Become(p, Plan!Idle)
    <3>1. PICK agents \in BOOLEAN : Plan!Become(p, Looked(agents))
      BY <1>3, <2>3, Zenon DEF Plan!Recon
    <3>2. failed \in 0..MaxPlanned
      BY FailuresCounted
    <3> DEFINE q == Looked(agents)
    <3> HIDE DEF failed
    <3>3. q \in PlanCycle /\ CycleCounts(q)
      BY <2>1, <3>2, CycleTyped DEF PlanCycle, CycleCounts
    <3>4. Plan!Become(p, q)
      BY <3>1
    <3> HIDE DEF q, Looked
    <3> QED BY <1>0, <2>1, <3>3, <3>4, PlannerGoesOn
  <2> QED BY <2>2, <2>3
<1>4. ASSUME NEW p \in Planners, Plan!ReadScores(p) PROVE PlanSets' /\ PlanCounts'
  <2> DEFINE q == [planner[p] EXCEPT !.pc = "write", !.scored = streams]
  <2>1. UNCHANGED <<row, numbers, started, streams, planned, gone, editor, overlapped,
                    moved, blind>>
        /\ planner[p].pc = "scores" /\ Plan!Become(p, q)
    BY <1>4 DEF Plan!ReadScores, Plan!At
  <2>2. q \in PlanCycle /\ CycleCounts(q)
    BY <1>0, <2>1, CycleTyped DEF PlanCycle, CycleCounts
  <2> HIDE DEF q
  <2> QED BY <1>0, <2>1, <2>2, PlannerGoesOn
<1>5. ASSUME NEW p \in Planners, Plan!WriteScores(p) PROVE PlanSets' /\ PlanCounts'
  <2> DEFINE sc == Plan!Idle.scored
             q == [planner[p] EXCEPT !.pc = "rank", !.scored = sc]
  <2>1. UNCHANGED <<row, numbers, started, planned, gone, editor, overlapped, moved, blind>>
        /\ planner[p].pc = "write" /\ Plan!Become(p, q)
        /\ streams' = [s \in Streams |-> Plan!Written(s, planner[p].scored)]
    BY <1>5 DEF Plan!WriteScores, Plan!At
  <2>2. sc \in [Streams -> Plan!StreamStatuses]
    BY <1>i DEF PlanCycle
  <2> HIDE DEF sc
  <2>3. q \in PlanCycle /\ CycleCounts(q)
    BY <2>1, <2>2, CycleTyped DEF PlanCycle, CycleCounts
  <2> HIDE DEF q
  <2>4. streams' \in [Streams -> Plan!StreamStatuses]
    <3>1. planner[p].scored \in [Streams -> Plan!StreamStatuses]
      BY CycleTyped DEF PlanCycle
    <3>2. \A s \in Streams : Plan!Written(s, planner[p].scored) \in Plan!StreamStatuses
      BY <1>0, <3>1 DEF Plan!Written
    <3> QED BY <2>1, <3>2
  <2> QED BY <1>0, <2>1, <2>3, <2>4, PlannerGoesOn
<1>6. ASSUME NEW p \in Planners, Plan!Rank(p) PROVE PlanSets' /\ PlanCounts'
  <2>0. PICK open \in SUBSET Streams, active \in SUBSET Streams :
          Plan!Become(p, [planner[p] EXCEPT !.pc = "propose", !.failed = 0, !.agents = FALSE,
              !.todo = Plan!Ranked(planner[p].row.mode, planner[p].failed, planner[p].agents,
                                   open, active)])
    BY <1>6 DEF Plan!Rank
  <2> DEFINE r == Plan!Ranked(planner[p].row.mode, planner[p].failed, planner[p].agents,
                              open, active)
             q == [planner[p] EXCEPT !.pc = "propose", !.failed = 0, !.agents = FALSE, !.todo = r]
  <2>1. UNCHANGED <<row, numbers, started, streams, planned, gone, editor, overlapped,
                    moved, blind>>
        /\ planner[p].pc = "rank" /\ Plan!Become(p, q)
    BY <1>6, <2>0 DEF Plan!Rank, Plan!At
  <2>2. r \in Seq(Plan!Titles)
    BY CycleTyped, RankedTitles
  <2> HIDE DEF r
  <2>3. q \in PlanCycle /\ CycleCounts(q)
    <3>1. planner[p] \in PlanCycle /\ CycleCounts(planner[p]) /\ 0 \in 0..MaxPlanned
      BY CycleTyped DEF BoundsSound
    <3>2. /\ q \in PlanCycle /\ q.pc = "propose" /\ q.cycle = planner[p].cycle
          /\ q.row = planner[p].row
      BY <2>2, <3>1 DEF PlanCycle
    <3> HIDE DEF q
    <3> QED BY <2>1, <3>1, <3>2 DEF CycleCounts
  <2> HIDE DEF q
  <2> QED BY <1>0, <2>1, <2>3, PlannerGoesOn
<1>7. ASSUME NEW p \in Planners, NEW existing, Plan!ProposeBeside(p, existing),
             blind' \in {blind, blind \cup {planner[p].cycle}}
      PROVE  PlanSets' /\ PlanCounts'
  <2> DEFINE todo == Plan!Proposed(planner[p].todo, planner[p].row.mode, existing)
             pc == IF todo = <<>> THEN "count" ELSE "create"
             q == [planner[p] EXCEPT !.pc = pc, !.todo = todo]
  <2>1. UNCHANGED <<row, numbers, started, streams, planned, gone, editor, overlapped, moved>>
        /\ planner[p].pc = "propose" /\ Plan!Become(p, q)
    BY <1>7 DEF Plan!ProposeBeside, Plan!At
  <2>2. todo \in Seq(Plan!Titles) /\ pc \in {"count", "create"}
    BY CycleTyped, ProposedTitles
  <2> HIDE DEF todo, pc
  <2>3. q \in PlanCycle /\ CycleCounts(q)
    BY <2>1, <2>2, CycleTyped DEF PlanCycle, CycleCounts
  <2> HIDE DEF q
  <2>4. blind' \subseteq 0..started
    <3>1. planner[p].cycle \in 0..started
      BY CycleTyped DEF CycleCounts
    <3> QED BY <1>0, <1>7, <3>1
  <2> QED BY <1>0, <2>1, <2>3, <2>4, PlannerGoesOn
<1>23. ASSUME NEW p \in Planners, Plan!Propose(p) \/ Plan!ProposeBlind(p)
       PROVE  PlanSets' /\ PlanCounts'
  BY <1>7, <1>23 DEF Plan!Propose, Plan!ProposeBlind
<1>8. ASSUME NEW task \in PlanTask, task.cycle <= started, Len(planned) < MaxPlanned,
             planned' = Append(planned, task)
      PROVE  /\ planned' \in Seq(PlanTask) /\ Len(planned') <= MaxPlanned
             /\ \A i \in DOMAIN planned' : planned'[i].cycle <= started
             /\ DOMAIN planned \subseteq DOMAIN planned'
  <2>1. /\ planned' \in Seq(PlanTask) /\ Len(planned) \in Nat
        /\ Len(planned') = Len(planned) + 1 /\ DOMAIN planned' = 1..(Len(planned) + 1)
        /\ planned'[Len(planned) + 1] = task
        /\ \A i \in DOMAIN planned : planned'[i] = planned[i]
        /\ DOMAIN planned = 1..Len(planned)
    BY <1>0, <1>8
  <2>2. \A i \in DOMAIN planned' : i \in DOMAIN planned \/ i = Len(planned) + 1
    BY <2>1
  <2>3. \A i \in DOMAIN planned' : planned'[i].cycle <= started
    BY <1>0, <1>8, <2>1, <2>2
  <2>4. Len(planned') <= MaxPlanned
    BY <1>8, <2>1 DEF BoundsSound
  <2> QED BY <2>1, <2>3, <2>4
<1>24. ASSUME NEW p \in Planners, Plan!NextToCreate(p)
       PROVE  /\ planner' \in [Planners -> PlanCycle]
              /\ \A o \in Planners : CycleCounts(planner'[o])
              /\ UNCHANGED <<row, numbers, started, streams, gone, editor, overlapped, moved,
                             blind>>
              /\ Head(planner[p].todo) \in Plan!Titles
  <2> DEFINE todo == Tail(planner[p].todo)
             pc == IF Len(planner[p].todo) = 1 THEN "count" ELSE "create"
             q == [planner[p] EXCEPT !.pc = pc, !.todo = todo]
  <2>1. UNCHANGED <<row, numbers, started, streams, gone, editor, overlapped, moved, blind>>
        /\ planner[p].pc = "create" /\ Plan!Become(p, q)
    BY <1>24 DEF Plan!NextToCreate, Plan!At
  <2>2. planner[p].todo \in Seq(Plan!Titles) /\ planner[p].todo # <<>>
    BY <2>1, CycleTyped DEF Meaning
  <2>3. todo \in Seq(Plan!Titles) /\ pc \in {"count", "create"}
    BY <2>2
  <2> HIDE DEF todo, pc
  <2>4. q \in PlanCycle /\ q.row = planner[p].row /\ q.cycle = planner[p].cycle
        /\ CycleCounts(q)
    BY <2>1, <2>3, CycleTyped DEF PlanCycle, CycleCounts
  <2> HIDE DEF q
  <2>5. planner' \in [Planners -> PlanCycle]
        /\ \A o \in Planners : planner'[o] = IF o = p THEN q ELSE planner[o]
    BY <2>1, <2>4 DEF PlanSets, Plan!Become
  <2>6. \A o \in Planners : CycleCounts(planner'[o])
    BY <2>4, <2>5 DEF PlanCounts
  <2> QED BY <2>1, <2>2, <2>5, <2>6
<1>9. ASSUME NEW p \in Planners, Plan!NextToCreate(p), planned' \in Seq(PlanTask),
             Len(planned') <= MaxPlanned, DOMAIN planned \subseteq DOMAIN planned',
             \A i \in DOMAIN planned' : planned'[i].cycle <= started
      PROVE  PlanSets' /\ PlanCounts'
  <2>1. PlanSets'
    BY <1>0, <1>9, <1>24 DEF PlanSets
  <2>2. \A o \in Planners : CycleCounts(planner[o])'
    BY <1>9, <1>24 DEF CycleCounts
  <2>3. PlanCounts'
    BY <1>9, <1>24, <2>2 DEF PlanCounts
  <2> QED BY <2>1, <2>3
<1>25. ASSUME NEW p \in Planners, Plan!Create(p) PROVE PlanSets' /\ PlanCounts'
  <2> DEFINE title == Plan!Trimmed(Head(planner[p].todo))
             task == [title |-> title, cycle |-> planner[p].cycle, status |-> "QUEUED"]
  <2>1. Plan!NextToCreate(p) /\ Len(planned) < MaxPlanned /\ planned' = Append(planned, task)
    BY <1>25 DEF Plan!Create
  <2>2. title \in Plan!Titles
    <3>1. Head(planner[p].todo) \in Plan!Titles
      BY <1>24, <2>1
    <3> QED BY <3>1, TitlesAreStored, TitlesOf
  <2> HIDE DEF title
  <2>3. task \in PlanTask /\ task.cycle <= started
    BY <2>2, CycleTyped DEF PlanTask, CycleCounts
  <2> HIDE DEF task
  <2> QED BY <1>8, <1>9, <2>1, <2>3
<1>26. ASSUME NEW p \in Planners, Plan!CreateFails(p) PROVE PlanSets' /\ PlanCounts'
  BY <1>0, <1>9, <1>26 DEF Plan!CreateFails
<1>10. ASSUME NEW p \in Planners, Plan!CountCycle(p) PROVE PlanSets' /\ PlanCounts'
  <2> DEFINE r == planner[p].row
             c == r.count + 1
  <2>1. UNCHANGED <<numbers, started, streams, planned, gone, editor, overlapped, moved, blind>>
        /\ planner[p].pc = "count" /\ Plan!Become(p, Plan!Idle)
        /\ row' \in {Plan!Counted(r), row}
    BY <1>10 DEF Plan!CountCycle, Plan!At
  <2>2. r \in PlanRow /\ c \in Nat /\ c <= started
    BY <2>1, CycleTyped DEF CycleCounts
  <2>3. Plan!Counted(r) = [r EXCEPT !.count = c, !.last = "just now"]
    BY Zenon DEF Plan!Counted
  <2> HIDE DEF r, c
  <2>4. row' \in PlanRow /\ row'.count <= started
    BY <1>0, <2>1, <2>2, <2>3 DEF PlanRow
  <2> QED BY <1>2, <2>1, <2>4
<1>11. ASSUME UNCHANGED <<started, numbers, planner, overlapped, editor, planned, gone, moved,
                          blind>>,
              row' \in PlanRow, row'.count <= started,
              streams' \in [Streams -> Plan!StreamStatuses]
       PROVE  PlanSets' /\ PlanCounts'
  BY <1>0, <1>11, RowGoesOn
<1>12. ASSUME NEW new \in SUBSET Streams, Plan!Seed(new) PROVE PlanSets' /\ PlanCounts'
  <2>1. UNCHANGED <<started, numbers, planner, overlapped, editor, planned, gone, moved,
                    blind>>
        /\ row' = Plan!FreshRow
        /\ streams' = [s \in Streams |-> IF s \in new THEN "active" ELSE streams[s]]
    BY <1>12 DEF Plan!Seed
  <2>2. "active" \in Plan!StreamStatuses
    BY DEF Plan!StreamStatuses
  <2>3. streams' \in [Streams -> Plan!StreamStatuses]
    BY <1>0, <2>1, <2>2
  <2>4. row' \in PlanRow /\ row'.count <= started
    BY <1>0, <2>1, FirstRows
  <2> QED BY <1>11, <2>1, <2>3, <2>4
<1>13. ASSUME UNCHANGED <<started, numbers, planner, overlapped, streams, planned, gone, moved,
                          blind>>,
              row' \in PlanRow, row'.count <= started,
              NEW e \in Editors, NEW r \in PlanRow, r.count <= started,
              editor' = [editor EXCEPT ![e] = r]
       PROVE  PlanSets' /\ PlanCounts'
  <2>1. editor' \in [Editors -> PlanRow]
        /\ \A o \in Editors : editor'[o] = IF o = e THEN r ELSE editor[o]
    BY <1>0, <1>13
  <2>2. \A o \in Editors : editor'[o].count <= started
    BY <1>0, <1>13, <2>1
  <2> QED BY <1>0, <1>13, <2>1, <2>2, RowGoesOn
<1>14. ASSUME NEW e \in Editors, Plan!ReadRow(e) PROVE PlanSets' /\ PlanCounts'
  <2>1. UNCHANGED <<started, numbers, planner, overlapped, streams, planned, gone, moved,
                    blind>>
        /\ row' = Plan!FoundRow /\ editor' = [editor EXCEPT ![e] = Plan!FoundRow]
    BY <1>14 DEF Plan!ReadRow
  <2> QED BY <1>13, <2>1, RowIsFound
<1>15. ASSUME NEW e \in Editors, NEW mode \in Modes, Plan!WriteRow(e, mode)
       PROVE  PlanSets' /\ PlanCounts'
  <2> DEFINE r == [editor[e] EXCEPT !.mode = mode]
  <2>1. UNCHANGED <<started, numbers, planner, overlapped, streams, planned, gone, moved,
                    blind>>
        /\ row' = r /\ editor' = [editor EXCEPT ![e] = Plan!NoRow]
    BY <1>15 DEF Plan!WriteRow
  <2>2. r \in PlanRow /\ r.count <= started
    BY <1>0 DEF PlanRow
  <2>3. Plan!NoRow \in PlanRow /\ Plan!NoRow.count <= started
    BY <1>0, FirstRows
  <2> HIDE DEF r
  <2> QED BY <1>13, <2>1, <2>2, <2>3
<1>16. ASSUME NEW s \in Streams, NEW status \in Statuses \cup {"active", "deleted"},
              Plan!EditStream(s, status)
       PROVE  PlanSets' /\ PlanCounts'
  <2>1. UNCHANGED <<started, numbers, planner, overlapped, editor, planned, gone, moved,
                    blind>>
        /\ row' \in {row, Plan!FoundRow}
        /\ streams' = [streams EXCEPT ![s] = status]
    BY <1>16 DEF Plan!EditStream
  <2>2. status \in Plan!StreamStatuses
    BY DEF Plan!StreamStatuses
  <2>3. streams' \in [Streams -> Plan!StreamStatuses]
    BY <1>0, <2>1, <2>2
  <2>4. row' \in PlanRow /\ row'.count <= started
    BY <1>0, <2>1, RowIsFound
  <2> QED BY <1>11, <2>1, <2>3, <2>4
<1>17. ASSUME UNCHANGED <<row, started, numbers, planner, overlapped, editor, streams, blind>>,
              gone' \subseteq moved', moved' \subseteq DOMAIN planned',
              planned' \in Seq(PlanTask), Len(planned') <= MaxPlanned,
              \A i \in DOMAIN planned' : planned'[i].cycle <= started
       PROVE  PlanSets' /\ PlanCounts'
  BY <1>0, <1>17, RowGoesOn
<1>18. ASSUME Plan!CreateOther PROVE PlanSets' /\ PlanCounts'
  <2> DEFINE task == [title |-> <<"user", 0>>, cycle |-> 0, status |-> "QUEUED"]
  <2>1. UNCHANGED <<row, started, numbers, planner, overlapped, editor, streams, gone, moved,
                    blind>>
        /\ Len(planned) < MaxPlanned /\ planned' = Append(planned, task)
    BY <1>18 DEF Plan!CreateOther
  <2>2. task \in PlanTask /\ task.cycle <= started
    BY <1>0, TitlesOf DEF PlanTask
  <2> HIDE DEF task
  <2>3. /\ planned' \in Seq(PlanTask) /\ Len(planned') <= MaxPlanned
        /\ \A i \in DOMAIN planned' : planned'[i].cycle <= started
        /\ DOMAIN planned \subseteq DOMAIN planned'
    BY <1>8, <2>1, <2>2
  <2> QED BY <1>0, <1>17, <2>1, <2>3
<1>19. ASSUME NEW i \in DOMAIN planned, NEW status \in {"FAILED", "SUCCEEDED"},
              Plan!FinishTask(i, status)
       PROVE  PlanSets' /\ PlanCounts'
  <2> DEFINE task == [planned[i] EXCEPT !.status = status]
  <2>1. UNCHANGED <<row, started, numbers, planner, overlapped, editor, streams, gone, moved,
                    blind>>
        /\ planned' = [planned EXCEPT ![i] = task]
    BY <1>19 DEF Plan!FinishTask
  <2>2. planned[i] \in PlanTask /\ planned[i].cycle <= started
    BY <1>0
  <2>3. task \in PlanTask /\ task.cycle <= started
    BY <2>2 DEF PlanTask
  <2> HIDE DEF task
  <2>4. planned' \in Seq(PlanTask) /\ Len(planned') = Len(planned)
        /\ DOMAIN planned' = DOMAIN planned
        /\ \A k \in DOMAIN planned : planned'[k] = IF k = i THEN task ELSE planned[k]
    BY <1>0, <2>1, <2>3
  <2>5. Len(planned') <= MaxPlanned /\ \A k \in DOMAIN planned' : planned'[k].cycle <= started
    BY <1>0, <2>3, <2>4
  <2> QED BY <1>0, <1>17, <2>1, <2>4, <2>5
<1>27. ASSUME NEW i \in DOMAIN planned, Plan!Move(i) PROVE PlanSets' /\ PlanCounts'
  <2>1. UNCHANGED <<row, started, numbers, planner, overlapped, editor, streams, planned, blind>>
        /\ gone' = (IF i \in gone THEN gone \ {i} ELSE gone \cup {i})
        /\ moved' = moved \cup {i}
    BY <1>27 DEF Plan!Move
  <2>2. gone' \subseteq moved' /\ moved' \subseteq DOMAIN planned'
    BY <1>0, <1>27, <2>1
  <2> QED BY <1>0, <1>17, <2>1, <2>2
<1>20. CASE Plan!Elapse
  <2>1. UNCHANGED <<started, numbers, planner, overlapped, streams, planned, gone, moved,
                    blind>>
        /\ row' = Plan!Older(row) /\ editor' = [e \in Editors |-> Plan!Older(editor[e])]
    BY <1>20 DEF Plan!Elapse
  <2>2. row' \in PlanRow /\ row'.count <= started
    BY <1>0, <2>1, RowAges
  <2>3. \A e \in Editors : Plan!Older(editor[e]) \in PlanRow
                           /\ Plan!Older(editor[e]).count <= started
    BY <1>0, RowAges
  <2>4. editor' \in [Editors -> PlanRow] /\ \A e \in Editors : editor'[e].count <= started
    BY <2>1, <2>3
  <2> QED BY <1>0, <2>1, <2>2, <2>4, RowGoesOn
<1>21. CASE Plan!Crash
  <2>1. UNCHANGED <<row, started, numbers, overlapped, streams, planned, gone, moved, blind>>
        /\ planner' = [p \in Planners |-> Plan!Idle] /\ editor' = [e \in Editors |-> Plan!NoRow]
    BY <1>21 DEF Plan!Crash
  <2>2. editor' \in [Editors -> PlanRow] /\ \A e \in Editors : editor'[e].count <= started
    BY <1>0, <2>1, FirstRows
  <2>3. planner' \in [Planners -> PlanCycle] /\ \A p \in Planners : planner'[p] = Plan!Idle
    BY <1>i, <2>1
  <2>4. PlanSets'
    BY <2>1, <2>2, <2>3 DEF PlanSets
  <2>5. \A p \in Planners : CycleCounts(planner'[p])
    BY <1>i, <2>3
  <2>6. PlanCounts'
    BY <2>1, <2>2, <2>5 DEF PlanCounts, CycleCounts
  <2> QED BY <2>4, <2>6
<1>22. CASE UNCHANGED Plan!vars
  BY <1>0, <1>17, <1>22 DEF Plan!vars
<1> QED
  BY <1>1, <1>3, <1>4, <1>5, <1>6, <1>10, <1>12, <1>14, <1>15, <1>16, <1>18, <1>19, <1>20,
     <1>21, <1>22, <1>23, <1>25, <1>26, <1>27 DEF Plan!Next

\* Every variable of the planning pipeline has its type, for any workstreams, goals and
\* modes: numbers and counts stay within the cycles started, whoever writes old rows
\* back, and what is planned has the titles the cycle may rank.
THEOREM PlansTypeCorrect == Plan!Spec => []Plan!TypeOK
<1> USE EngineAssumption
<1> DEFINE Inv == OnceInv /\ (\E n \in Nat : Numbered(n)) /\ PlanSets /\ PlanCounts
<1>1. Plan!Init => Inv
  <2> SUFFICES ASSUME Plan!Init PROVE PlanSets /\ PlanCounts
    BY OnceInit, PlanningStarts
  <2> DEFINE task == [title |-> <<"user", 0>>, cycle |-> 0, status |-> "QUEUED"]
  <2>1. /\ row = Plan!NoRow /\ numbers = {} /\ started = 0 /\ overlapped = FALSE
        /\ planner = [p \in Planners |-> Plan!Idle] /\ editor = [e \in Editors |-> Plan!NoRow]
        /\ streams = [s \in Streams |-> "none"] /\ planned = <<task>>
        /\ gone = {} /\ moved = {} /\ blind = {}
    BY DEF Plan!Init
  <2>2. task \in PlanTask /\ task.cycle = 0
    BY TitlesOf DEF PlanTask
  <2> HIDE DEF task
  <2>3. planned \in Seq(PlanTask) /\ Len(planned) = 1
        /\ \A i \in DOMAIN planned : planned[i] = task
    BY <2>1, <2>2
  <2>4. "none" \in Plan!StreamStatuses
    BY DEF Plan!StreamStatuses
  <2>5. streams \in [Streams -> Plan!StreamStatuses]
    BY <2>1, <2>4
  <2>6. planner \in [Planners -> PlanCycle] /\ \A p \in Planners : planner[p] = Plan!Idle
    BY <2>1, IdleCycle
  <2>7. 1 <= MaxPlanned /\ 0 <= MaxCycles
    BY DEF BoundsSound
  <2>8. PlanSets
    BY <2>1, <2>3, <2>5, <2>6, <2>7, FirstRows DEF PlanSets
  <2>9. \A p \in Planners : CycleCounts(planner[p])
    BY <2>1, <2>6, FirstRows DEF CycleCounts
  <2>10. PlanCounts
    BY <2>1, <2>2, <2>3, <2>7, <2>9, FirstRows DEF PlanCounts
  <2> QED BY <2>8, <2>10
<1>2. Inv /\ [Plan!Next]_(Plan!vars) => Inv'
  <2> SUFFICES ASSUME Inv, [Plan!Next]_(Plan!vars) PROVE Inv'
    OBVIOUS
  <2>1. PlanTypes' /\ \E m \in Nat : Numbered(m)'
    BY PlanningGoesOn DEF OnceInv
  <2>2. OnceInv'
    BY <2>1, OnceStep
  <2>3. PlanSets' /\ PlanCounts'
    BY PlanStays DEF OnceInv
  <2> QED BY <2>1, <2>2, <2>3
<1>3. Inv => Plan!TypeOK
  <2> SUFFICES ASSUME PlanSets, PlanCounts PROVE Plan!TypeOK
    OBVIOUS
  <2>1. started \in 0..MaxCycles /\ \A n \in Nat : n <= started => n \in 0..MaxCycles
    BY DEF PlanCounts, BoundsSound
  <2>2. ASSUME NEW r \in PlanRow, r.count <= started PROVE r \in Plan!Rows
    <3>1. r.count \in 0..MaxCycles
      BY <2>1, <2>2 DEF PlanRow
    <3> QED BY <3>1 DEF PlanRow, Plan!Rows
  <2>3. row \in Plan!Rows /\ editor \in [Editors -> Plan!Rows]
    <3>1. row \in PlanRow /\ row.count <= started
      BY DEF PlanSets, PlanCounts
    <3>2. \A e \in Editors : editor[e] \in PlanRow /\ editor[e].count <= started
      BY DEF PlanSets, PlanCounts
    <3>3. editor = [e \in Editors |-> editor[e]]
      BY DEF PlanSets
    <3> QED BY <2>2, <3>1, <3>2, <3>3
  <2>4. numbers \subseteq 1..MaxCycles
    BY DEF PlanCounts, BoundsSound
  <2>5. ASSUME NEW i \in DOMAIN planned
        PROVE  planned[i] \in [title : Plan!Titles, cycle : 0..MaxCycles,
                               status : {"QUEUED", "FAILED", "SUCCEEDED"}]
    <3>1. planned[i] \in PlanTask /\ planned[i].cycle <= started
      BY DEF PlanSets, PlanCounts
    <3>2. planned[i].cycle \in 0..MaxCycles
      BY <2>1, <3>1 DEF PlanTask
    <3> QED BY <3>1, <3>2 DEF PlanTask
  <2>6. ASSUME NEW p \in Planners
        PROVE  /\ planner[p].pc \in {"idle", "recon", "scores", "write", "rank", "propose",
                                     "create", "count"}
               /\ planner[p].row \in Plan!Rows
               /\ planner[p].failed \in 0..MaxPlanned
               /\ planner[p].scored \in [Streams -> Plan!StreamStatuses]
               /\ Plan!ToSet(planner[p].todo) \subseteq Plan!Titles
    <3>1. planner[p] \in PlanCycle /\ CycleCounts(planner[p])
      BY DEF PlanSets, PlanCounts
    <3>2. planner[p].row \in Plan!Rows
      BY <2>2, <3>1 DEF PlanCycle, CycleCounts
    <3>3. Plan!ToSet(planner[p].todo) \subseteq Plan!Titles
      <4>1. planner[p].todo \in Seq(Plan!Titles)
        BY <3>1 DEF PlanCycle
      <4> QED BY <4>1 DEF Plan!ToSet
    <3> QED BY <3>1, <3>2, <3>3 DEF PlanCycle
  <2>7. blind \subseteq 0..MaxCycles
    BY DEF PlanCounts, BoundsSound
  <2> QED BY <2>1, <2>3, <2>4, <2>5, <2>6, <2>7 DEF Plan!TypeOK, PlanSets
<1> QED BY <1>1, <1>2, <1>3, PTL DEF Plan!Spec

-----------------------------------------------------------------------------
(* The bounds of the scans and packs, and of all parts.                    *)

\* The rest of the type invariant.
PackTypes ==
    /\ stale \subseteq Packed /\ current \subseteq Packed \cup Workers
    /\ scanEmitted \subseteq Know!Kinds
    /\ clean \in BOOLEAN /\ excused \in BOOLEAN

LEMMA PacksStay ==
    ASSUME ScanTypes, PackTypes, [Know!Next]_(Know!vars)
    PROVE  PackTypes'
<1>0. /\ stale \subseteq Packed /\ current \subseteq Packed \cup Workers
      /\ scanEmitted \subseteq Know!Kinds /\ clean \in BOOLEAN /\ excused \in BOOLEAN
  BY DEF PackTypes
<1>1. scanEmitted' \subseteq Know!Kinds
  <2>1. \/ scanEmitted' = scanEmitted \/ scanEmitted' = {}
        \/ \E kind \in Know!Kinds : scanEmitted' = scanEmitted \cup {kind}
    BY DEF Know!Next, Know!vars, Know!Scan, Know!ScanFails, Know!List, Know!ReadTree, Know!Walk,
       Know!WalkSkipped, Know!Lost, Know!Save, Know!Remember, Know!Invalidate, Know!QueueRefresh,
       Know!InsertPack, Know!RepoChanged, Know!Mark, Know!MarkFails, Know!MakePack,
       Know!PutFile, Know!DropFile, Know!ScanFiles, Know!SyncFiles, Know!Silently,
       Know!EditDisk, Know!RememberQuietly, Know!NextWindow, Know!Crash, Know!Record, Know!Kinds
  <2> QED BY <1>0, <2>1
<1>2. clean' \in BOOLEAN /\ excused' \in BOOLEAN
  BY <1>0
  DEF Know!Next, Know!vars, Know!Scan, Know!ScanFails, Know!List, Know!ReadTree, Know!Walk,
      Know!WalkSkipped, Know!Lost, Know!Save, Know!Remember, Know!Invalidate, Know!QueueRefresh,
      Know!InsertPack, Know!RepoChanged, Know!Mark, Know!MarkFails, Know!MakePack,
      Know!PutFile, Know!DropFile, Know!ScanFiles, Know!SyncFiles, Know!Silently, Know!EditDisk,
      Know!RememberQuietly, Know!NextWindow, Know!Crash, Know!histories, Know!Put, Know!AllIdle
<1>3. stale' \subseteq Packed /\ current' \subseteq Packed \cup Workers
  <2>1. ASSUME NEW w \in Workers, Know!InsertPack(w)
        PROVE  stale' \subseteq Packed /\ current' \subseteq Packed \cup Workers
    <3>1. PICK t \in Packed : Know!Put(w, t)
      BY <2>1 DEF Know!InsertPack, ScanTypes, Chain
    <3> QED BY <1>0, <3>1 DEF Know!Put
  <2>2. ASSUME NEW w \in Workers, \E t \in Packed : Know!MakePack(w, t)
        PROVE  stale' \subseteq Packed /\ current' \subseteq Packed \cup Workers
    BY <1>0, <2>2 DEF Know!MakePack
  <2>3. CASE \E w \in Workers : Know!Mark(w)
    BY <1>0, <2>3 DEF Know!Mark
  <2>4. CASE \/ \E w \in Workers :
                   \/ Know!Scan(w) \/ Know!ScanFails(w) \/ Know!ReadTree(w) \/ Know!Walk(w)
                   \/ Know!WalkSkipped(w) \/ Know!Lost(w) \/ Know!Remember(w)
                   \/ Know!Invalidate(w) \/ Know!MarkFails(w) \/ Know!QueueRefresh(w)
                   \/ \E changed \in SUBSET Paths : Know!RepoChanged(w, changed)
                   \/ \E failed \in SUBSET Paths : Know!List(w, failed) \/ Know!Save(w, failed)
             \/ \E p \in Paths : Know!PutFile(p) \/ Know!DropFile(p)
             \/ \E purge \in BOOLEAN :
                   Know!ScanFiles(purge) \/ \E sent \in SUBSET Paths : Know!SyncFiles(sent, purge)
             \/ \E disk_ \in SUBSET Paths : Know!EditDisk(disk_)
             \/ Know!RememberQuietly \/ Know!NextWindow \/ Know!Crash \/ UNCHANGED Know!vars
    <3>1. stale' = stale /\ (current' = current \/ current' = {} \/ current' = current \ Workers)
      BY <2>4
      DEF Know!vars, Know!packs, Know!Scan, Know!ScanFails, Know!List, Know!ReadTree, Know!Walk,
          Know!WalkSkipped, Know!Lost, Know!Save, Know!Remember, Know!Invalidate,
          Know!MarkFails, Know!QueueRefresh, Know!RepoChanged, Know!PutFile, Know!DropFile,
          Know!ScanFiles, Know!SyncFiles, Know!Silently, Know!EditDisk, Know!RememberQuietly,
          Know!NextWindow, Know!Crash, Know!Learn, Know!LearnIf
    <3> QED BY <1>0, <3>1
  <2> QED BY <2>1, <2>2, <2>3, <2>4 DEF Know!Next
<1> QED BY <1>1, <1>2, <1>3 DEF PackTypes

\* Every variable of the scans and packs has its type, for any files and chains.
THEOREM KnowledgeTypeCorrect == Know!Spec => []Know!TypeOK
<1> DEFINE Inv == ScanTypes /\ Settling /\ PackTypes
<1>1. Know!Init => Inv
  BY IdleChain DEF Know!Init, ScanTypes, Settling, PackTypes
<1>2. Inv /\ [Know!Next]_(Know!vars) => Inv'
  BY SettlingStays, PacksStay
<1>3. Inv => Know!TypeOK
  BY DEF ScanTypes, PackTypes, Chain, Know!TypeOK
<1> QED BY <1>1, <1>2, <1>3, PTL DEF Know!Spec

\* Every variable of all five parts keeps to its type and its bounds: the invariant
\* EngineTypes, for any number of events, requests, cycles, chains and tasks.
THEOREM EngineTypeCorrect == EngineSideBySide => []EngineTypes
BY GatesTypeCorrect, PoliciesTypeCorrect, PlansTypeCorrect, FollowUpsTypeCorrect,
   KnowledgeTypeCorrect, PTL
DEF EngineSideBySide, EngineTypes
=============================================================================

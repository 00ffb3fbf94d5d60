-------------------------- MODULE FollowUpsProofs ---------------------------
(***************************************************************************)
(* Follow-up tasks, for any number of workers, tasks and windows: idle     *)
(* agents get one planner, a task is investigated once in a window, chains *)
(* of follow-ups end, and the variables keep to their types.               *)
(***************************************************************************)
EXTENDS Engine, FiniteSetTheorems, TLAPS

-----------------------------------------------------------------------------
(* Types.                                                                  *)

\* Where a worker may be, and what tasks and workers are made of.
Steps == {"idle", "examine", "emit", "load", "rules", "duplicate", "create", "store"}
Task == [open : BOOLEAN, parent : Nat, purpose : Follow!Purposes, depth : Nat, gen : Nat,
         born : Nat]
Slot == [pc : Steps, task : Nat, depth : Nat, purpose : Follow!Purposes, child : Nat,
         born : Nat]

\* What the rest needs of the type invariant.  A worker has a task of the list,
\* the one that stores a depth has the child too, and what is created is a
\* follow-up of one of two kinds.
Types ==
    /\ tasks \in Seq(Task)
    /\ window \in Nat
    /\ follower \in [Workers -> Slot]
    /\ \A w \in Workers :
          /\ follower[w].pc # "idle" => follower[w].task \in DOMAIN tasks
          /\ follower[w].pc = "store" => follower[w].child \in DOMAIN tasks
          /\ follower[w].pc # "store" => follower[w].child = 0
          /\ follower[w].pc \in {"duplicate", "create", "store"} =>
                follower[w].purpose \in {"investigate", "rule"}

\* An idle worker and a new task are well formed.
LEMMA SlotRecords ==
    /\ Follow!Idle \in Slot
    /\ \A parent, gen, born \in Nat, purpose \in Follow!Purposes :
          Follow!Made(parent, purpose, gen, born) \in Task
  BY DEF Follow!Idle, Slot, Steps, Follow!Made, Task, Follow!Purposes

\* What is known of a worker that is busy, and of its task.
LEMMA SlotTypes ==
    ASSUME Types, NEW w \in Workers, follower[w].pc # "idle"
    PROVE  /\ follower[w] \in Slot
           /\ follower[w].pc \in Steps /\ follower[w].task \in Nat /\ follower[w].depth \in Nat
           /\ follower[w].purpose \in Follow!Purposes
           /\ follower[w].child \in Nat /\ follower[w].born \in Nat
           /\ follower[w].task \in DOMAIN tasks
           /\ tasks[follower[w].task] \in Task
           /\ tasks[follower[w].task].depth \in Nat
           /\ tasks[follower[w].task].gen \in Nat
<1>1. follower[w] \in Slot /\ follower[w].task \in DOMAIN tasks
  BY DEF Types
<1>2. tasks[follower[w].task] \in Task
  BY <1>1 DEF Types
<1>3. tasks[follower[w].task].depth \in Nat /\ tasks[follower[w].task].gen \in Nat
  BY <1>2 DEF Task
<1> QED BY <1>1, <1>2, <1>3 DEF Slot

\* A worker that is in another place, and the others where they were.
MovesTo(w, q) ==
    /\ follower' \in [Workers -> Slot]
    /\ follower'[w] = q
    /\ \A v \in Workers : v # w => follower'[v] = follower[v]

\* Become is a move.
LEMMA SlotsMove ==
    ASSUME Types, NEW w \in Workers, NEW q \in Slot, Follow!Become(w, q)
    PROVE  MovesTo(w, q)
  BY DEF Types, Follow!Become, MovesTo

\* Where a follow-up leads when it is made or given up.
LEMMA AfterFollowUp ==
    ASSUME Types, NEW w \in Workers, follower[w].pc # "idle"
    PROVE  /\ Follow!After(w) \in Slot
           /\ Follow!After(w).pc
                = IF follower[w].purpose = "investigate" THEN "load" ELSE "rules"
           /\ Follow!After(w).task = follower[w].task
           /\ Follow!After(w).purpose = "user"
           /\ Follow!After(w).pc = "rules" => Follow!After(w).depth = follower[w].depth
           /\ Follow!After(w).child = 0
<1> DEFINE pc == IF follower[w].purpose = "investigate" THEN "load" ELSE "rules"
           depth == IF follower[w].purpose = "investigate" THEN 0 ELSE follower[w].depth
<1>1. pc \in Steps /\ depth \in Nat /\ follower[w].task \in Nat /\ Follow!Idle \in Slot
  BY SlotTypes, SlotRecords DEF Steps
<1>2. Follow!After(w) = [Follow!Idle EXCEPT !.pc = pc, !.task = follower[w].task, !.depth = depth]
  BY DEF Follow!After
<1>3. pc = "rules" => depth = follower[w].depth
  OBVIOUS
<1> HIDE DEF pc, depth
<1>4. Follow!After(w) \in Slot
  BY <1>1, <1>2 DEF Slot
<1>5. /\ Follow!After(w).pc = pc
      /\ Follow!After(w).task = follower[w].task
      /\ Follow!After(w).depth = depth
      /\ Follow!After(w).purpose = Follow!Idle.purpose
      /\ Follow!After(w).child = Follow!Idle.child
  BY <1>1, <1>2 DEF Slot
<1>6. Follow!Idle.purpose = "user" /\ Follow!Idle.child = 0
  BY DEF Follow!Idle
<1> QED BY <1>3, <1>4, <1>5, <1>6 DEF pc

-----------------------------------------------------------------------------
(* What each step does.                                                    *)

\* INSERT adds one task at the end.
LEMMA Inserted ==
    ASSUME Types, NEW task \in Task, Follow!Insert(task)
    PROVE  /\ tasks' \in Seq(Task)
           /\ DOMAIN tasks' = DOMAIN tasks \cup {Len(tasks) + 1}
           /\ Len(tasks) + 1 \in Nat \ DOMAIN tasks
           /\ tasks'[Len(tasks) + 1] = task
           /\ \A t \in DOMAIN tasks : tasks'[t] = tasks[t]
  BY DEF Types, Follow!Insert

\* UPDATE changes one task.
LEMMA Updated ==
    ASSUME Types, NEW t \in DOMAIN tasks, NEW task \in Task, tasks' = [tasks EXCEPT ![t] = task]
    PROVE  /\ tasks' \in Seq(Task) /\ DOMAIN tasks' = DOMAIN tasks
           /\ tasks'[t] = task
           /\ \A u \in DOMAIN tasks : u # t => tasks'[u] = tasks[u]
  BY DEF Types

\* The tasks there were, and maybe a question to a human.
Asked ==
    /\ tasks' \in Seq(Task)
    /\ DOMAIN tasks \subseteq DOMAIN tasks'
    /\ \A t \in DOMAIN tasks : tasks'[t] = tasks[t]
    /\ \A t \in DOMAIN tasks' \ DOMAIN tasks :
          tasks'[t].purpose = "human" /\ tasks'[t].gen = 0 /\ tasks'[t].depth = 0

\* The question to a human is asked where there is room for it.
LEMMA HumanAsked == ASSUME Types, Follow!AskHuman \/ UNCHANGED tasks PROVE Asked
<1>1. CASE Follow!AskHuman /\ Follow!Room
  <2> DEFINE task == Follow!Made(0, "human", 0, 0)
  <2>1. Follow!Insert(task) /\ task \in Task
    BY <1>1, SlotRecords DEF Follow!AskHuman, Follow!Purposes
  <2>2. task.purpose = "human" /\ task.gen = 0 /\ task.depth = 0
    BY DEF Follow!Made
  <2> HIDE DEF task
  <2> QED BY <2>1, <2>2, Inserted DEF Asked
<1>2. CASE UNCHANGED tasks
  BY <1>2 DEF Asked, Types
<1> QED BY <1>1, <1>2 DEF Follow!AskHuman

\* An event comes in, or goes out.
LEMMA Received ==
    ASSUME Types, NEW w \in Workers, NEW t \in DOMAIN tasks, NEW failure \in BOOLEAN,
           Follow!Receive(w, t, failure)
    PROVE  \E q \in Slot : /\ MovesTo(w, q) /\ q.pc \in {"examine", "load"} /\ q.task = t
                           /\ q.child = 0 /\ q.purpose = "user"
<1> DEFINE pc == IF failure THEN "examine" ELSE "load"
           q == [Follow!Idle EXCEPT !.pc = pc, !.task = t]
<1>1. pc \in {"examine", "load"} /\ t \in Nat /\ Follow!Idle \in Slot
  BY SlotRecords DEF Types
<1>2. Follow!Become(w, q) /\ Follow!Idle.purpose = "user" /\ Follow!Idle.child = 0
  BY DEF Follow!Receive, Follow!Idle
<1> HIDE DEF pc
<1>3. q \in Slot /\ q.pc = pc /\ q.task = t /\ q.child = Follow!Idle.child
      /\ q.purpose = Follow!Idle.purpose
  BY <1>1 DEF Slot, Steps
<1> HIDE DEF q
<1> QED BY <1>1, <1>2, <1>3, SlotsMove

\* The failed event is examined.
LEMMA Examined ==
    ASSUME Types, NEW w \in Workers, Follow!Examine(w)
    PROVE  \E q \in Slot :
              /\ MovesTo(w, q) /\ q.task = follower[w].task /\ q.child = follower[w].child
              /\ q.depth = tasks[q.task].depth
              /\ \/ q.pc = "load"
                 \/ q.pc = "emit" /\ ~(q.depth >= MaxFollowUps)
<1> DEFINE depth == tasks[follower[w].task].depth
           pc == IF depth >= MaxFollowUps THEN "load" ELSE "emit"
           q == [follower[w] EXCEPT !.pc = pc, !.depth = depth]
<1>1. follower[w].pc = "examine" /\ Follow!Become(w, q)
  BY DEF Follow!Examine, Follow!At, Follow!ReadDepth
<1>2. follower[w] \in Slot /\ depth \in Nat
  BY <1>1, SlotTypes
<1>3. pc \in Steps /\ (pc = "load" \/ (pc = "emit" /\ ~(depth >= MaxFollowUps)))
  BY DEF Steps
<1> HIDE DEF pc, depth
<1>4. q \in Slot /\ q.pc = pc /\ q.depth = depth /\ q.task = follower[w].task
      /\ q.child = follower[w].child
  BY <1>2, <1>3 DEF Slot
<1> HIDE DEF q
<1> QED BY <1>1, <1>3, <1>4, SlotsMove DEF depth

\* The emission is recorded, or was there.
LEMMA Emitted ==
    ASSUME Types, NEW w \in Workers, Follow!Emit(w)
    PROVE  \E q \in Slot :
              /\ MovesTo(w, q) /\ q.task = follower[w].task /\ q.child = follower[w].child
              /\ q.depth = follower[w].depth
              /\ \/ q.pc = "load" /\ emitted' = emitted
                 \/ /\ q.pc = "duplicate" /\ q.purpose = "investigate" /\ q.born = window
                    /\ q.task \notin emitted /\ emitted' = emitted \cup {q.task}
<1>1. follower[w].pc = "emit"
  BY DEF Follow!Emit, Follow!At
<1>2. follower[w] \in Slot /\ window \in Nat
  BY <1>1, SlotTypes DEF Types
<1>3. CASE follower[w].task \in emitted
  <2> DEFINE q == [follower[w] EXCEPT !.pc = "load"]
  <2>1. Follow!Become(w, q) /\ emitted' = emitted
    BY <1>3 DEF Follow!Emit, Follow!Goto
  <2>2. q \in Slot /\ q.pc = "load" /\ q.task = follower[w].task /\ q.depth = follower[w].depth
        /\ q.child = follower[w].child
    BY <1>2 DEF Slot, Steps
  <2> HIDE DEF q
  <2> QED BY <2>1, <2>2, SlotsMove
<1>4. CASE follower[w].task \notin emitted
  <2> DEFINE q == [follower[w] EXCEPT !.pc = "duplicate", !.purpose = "investigate",
                                      !.born = window]
  <2>1. Follow!Become(w, q) /\ emitted' = emitted \cup {follower[w].task}
    BY <1>4 DEF Follow!Emit
  <2>2. q \in Slot /\ q.pc = "duplicate" /\ q.purpose = "investigate" /\ q.born = window
        /\ q.task = follower[w].task /\ q.depth = follower[w].depth
        /\ q.child = follower[w].child
    BY <1>2 DEF Slot, Steps, Follow!Purposes
  <2> HIDE DEF q
  <2> QED BY <1>4, <2>1, <2>2, SlotsMove
<1> QED BY <1>3, <1>4

\* The depth of the task is read for the rules.
LEMMA Loaded ==
    ASSUME Types, NEW w \in Workers, Follow!Load(w)
    PROVE  \/ MovesTo(w, Follow!Idle) /\ Asked /\ misread' = misread
           \/ /\ UNCHANGED tasks
              /\ misread' = (misread \/ \E v \in Workers : follower[v].child = follower[w].task)
              /\ \E q \in Slot :
                    /\ MovesTo(w, q) /\ q.pc = "rules" /\ q.task = follower[w].task
                    /\ q.child = follower[w].child
                    /\ q.depth = tasks[q.task].depth /\ ~(q.depth + 1 > MaxDepth)
<1> DEFINE depth == tasks[follower[w].task].depth
<1>1. follower[w].pc = "load"
  BY DEF Follow!Load, Follow!At
<1>2. follower[w] \in Slot /\ depth \in Nat
  BY <1>1, SlotTypes
<1>3. CASE depth + 1 > MaxDepth
  BY <1>3, SlotRecords, SlotsMove, HumanAsked DEF Follow!Load, Follow!Done
<1>4. CASE ~(depth + 1 > MaxDepth)
  <2> DEFINE q == [follower[w] EXCEPT !.pc = "rules", !.depth = depth]
  <2>1. Follow!Become(w, q) /\ UNCHANGED tasks
        /\ misread' = (misread \/ \E v \in Workers : follower[v].child = follower[w].task)
    BY <1>4 DEF Follow!Load, Follow!ReadDepth
  <2> HIDE DEF depth
  <2>2. q \in Slot /\ q.pc = "rules" /\ q.depth = depth /\ q.task = follower[w].task
        /\ q.child = follower[w].child
    BY <1>2 DEF Slot, Steps
  <2> HIDE DEF q
  <2> QED BY <1>4, <2>1, <2>2, SlotsMove DEF depth
<1> QED BY <1>3, <1>4

\* A rule decides.
LEMMA RuleApplied ==
    ASSUME Types, NEW w \in Workers, Follow!ApplyRule(w)
    PROVE  \/ MovesTo(w, Follow!Idle) /\ Asked
           \/ /\ UNCHANGED tasks
              /\ \E q \in Slot :
                    /\ MovesTo(w, q) /\ q.pc \in {"duplicate", "create"} /\ q.purpose = "rule"
                    /\ q.task = follower[w].task /\ q.depth = follower[w].depth
                    /\ q.child = follower[w].child
<1>1. follower[w].pc = "rules"
  BY DEF Follow!ApplyRule, Follow!At
<1>2. follower[w] \in Slot
  BY <1>1, SlotTypes
<1>3. ASSUME NEW pc \in {"duplicate", "create"},
             Follow!Become(w, [follower[w] EXCEPT !.pc = pc, !.purpose = "rule"]),
             UNCHANGED tasks
      PROVE  \E q \in Slot :
                /\ MovesTo(w, q) /\ q.pc \in {"duplicate", "create"} /\ q.purpose = "rule"
                /\ q.task = follower[w].task /\ q.depth = follower[w].depth
                /\ q.child = follower[w].child
  <2> DEFINE q == [follower[w] EXCEPT !.pc = pc, !.purpose = "rule"]
  <2>1. q \in Slot /\ q.pc = pc /\ q.purpose = "rule" /\ q.task = follower[w].task
        /\ q.depth = follower[w].depth /\ q.child = follower[w].child
    BY <1>2 DEF Slot, Steps, Follow!Purposes
  <2>2. Follow!Become(w, q)
    BY <1>3
  <2> HIDE DEF q
  <2> QED BY <2>1, <2>2, SlotsMove
<1>4. CASE Follow!Done(w) /\ (Follow!AskHuman \/ UNCHANGED tasks)
  BY <1>4, SlotRecords, SlotsMove, HumanAsked DEF Follow!Done
<1> QED BY <1>3, <1>4 DEF Follow!ApplyRule

\* The children there are, are looked at.
LEMMA DuplicateChecked ==
    ASSUME Types, NEW w \in Workers, Follow!CheckDuplicate(w)
    PROVE  \/ MovesTo(w, Follow!After(w))
           \/ \E q \in Slot :
                 /\ MovesTo(w, q) /\ q.pc = "create" /\ q.purpose = follower[w].purpose
                 /\ q.task = follower[w].task /\ q.depth = follower[w].depth
                 /\ q.born = follower[w].born /\ q.child = follower[w].child
<1> DEFINE q == [follower[w] EXCEPT !.pc = "create"]
<1>1. follower[w].pc # "idle" /\ (Follow!Become(w, Follow!After(w)) \/ Follow!Become(w, q))
  BY DEF Follow!CheckDuplicate, Follow!At, Follow!Goto
<1>2. follower[w] \in Slot /\ Follow!After(w) \in Slot
  BY <1>1, SlotTypes, AfterFollowUp
<1>3. q \in Slot /\ q.pc = "create" /\ q.purpose = follower[w].purpose
      /\ q.task = follower[w].task /\ q.depth = follower[w].depth
      /\ q.born = follower[w].born /\ q.child = follower[w].child
  BY <1>2 DEF Slot, Steps
<1> HIDE DEF q
<1> QED BY <1>1, <1>2, <1>3, SlotsMove

\* The follow-up is inserted, one generation further.
LEMMA Created ==
    ASSUME Types, NEW w \in Workers, Follow!Create(w)
    PROVE  /\ tasks' \in Seq(Task)
           /\ DOMAIN tasks' = DOMAIN tasks \cup {Len(tasks) + 1}
           /\ Len(tasks) + 1 \in Nat \ (DOMAIN tasks \cup {0})
           /\ \A t \in DOMAIN tasks : tasks'[t] = tasks[t]
           /\ tasks'[Len(tasks) + 1].parent = follower[w].task
           /\ tasks'[Len(tasks) + 1].purpose = follower[w].purpose
           /\ tasks'[Len(tasks) + 1].gen = tasks[follower[w].task].gen + 1
           /\ tasks'[Len(tasks) + 1].born = follower[w].born
           /\ \E q \in Slot :
                 /\ MovesTo(w, q) /\ q.pc = "store" /\ q.purpose = follower[w].purpose
                 /\ q.task = follower[w].task /\ q.depth = follower[w].depth
                 /\ q.child = Len(tasks) + 1
<1> DEFINE gen == tasks[follower[w].task].gen + 1
           task == Follow!Made(follower[w].task, follower[w].purpose, gen, follower[w].born)
           child == Len(tasks) + 1
           q == [follower[w] EXCEPT !.pc = "store", !.child = child]
<1>1. follower[w].pc # "idle" /\ Follow!Become(w, q) /\ Follow!Insert(task)
  BY DEF Follow!Create, Follow!At
<1>2. follower[w] \in Slot /\ gen \in Nat
  BY <1>1, SlotTypes
<1> HIDE DEF gen
<1>3. task \in Task /\ task.parent = follower[w].task /\ task.purpose = follower[w].purpose
      /\ task.gen = gen /\ task.born = follower[w].born
  BY <1>2 DEF Task, Slot, Follow!Made
<1>4. child \in Nat /\ child # 0
  BY DEF Types
<1> HIDE DEF task, child
<1>5. q \in Slot /\ q.pc = "store" /\ q.purpose = follower[w].purpose
      /\ q.task = follower[w].task /\ q.depth = follower[w].depth /\ q.child = child
  BY <1>2, <1>4 DEF Slot, Steps
<1> HIDE DEF q
<1>6. \E r \in Slot :
         /\ MovesTo(w, r) /\ r.pc = "store" /\ r.purpose = follower[w].purpose
         /\ r.task = follower[w].task /\ r.depth = follower[w].depth /\ r.child = child
  BY <1>1, <1>5, SlotsMove
<1> QED BY <1>1, <1>2, <1>3, <1>4, <1>6, Inserted DEF child, gen

\* Nothing more to do for the follow-up.
LEMMA FollowUpDone ==
    ASSUME Types, NEW w \in Workers,
           Follow!CreateFails(w) \/ Follow!StoreDepth(w) \/ Follow!StoreFails(w)
    PROVE  MovesTo(w, Follow!After(w)) /\ follower[w].pc \in {"create", "store"}
<1>1. follower[w].pc \in {"create", "store"} /\ Follow!Become(w, Follow!After(w))
  BY DEF Follow!CreateFails, Follow!StoreDepth, Follow!StoreFails, Follow!At
<1> QED BY <1>1, AfterFollowUp, SlotsMove

\* The depth the worker had read, and one, is stored.
LEMMA DepthStored ==
    ASSUME Types, NEW w \in Workers, Follow!StoreDepth(w)
    PROVE  /\ tasks' \in Seq(Task) /\ DOMAIN tasks' = DOMAIN tasks
           /\ \A t \in DOMAIN tasks :
                 /\ tasks'[t].open = tasks[t].open
                 /\ tasks'[t].parent = tasks[t].parent
                 /\ tasks'[t].purpose = tasks[t].purpose
                 /\ tasks'[t].gen = tasks[t].gen
                 /\ tasks'[t].born = tasks[t].born
                 /\ tasks'[t].depth = IF t = follower[w].child THEN follower[w].depth + 1
                                                              ELSE tasks[t].depth
<1> DEFINE depth == follower[w].depth + 1
<1>1. follower[w].pc # "idle" /\ tasks' = [tasks EXCEPT ![follower[w].child].depth = depth]
  BY DEF Follow!StoreDepth, Follow!At
<1>2. depth \in Nat /\ follower[w].child \in DOMAIN tasks
  BY <1>1, SlotTypes DEF Types, Follow!StoreDepth, Follow!At
<1> HIDE DEF depth
<1> DEFINE task == [tasks[follower[w].child] EXCEPT !.depth = depth]
<1>3. /\ task \in Task
      /\ task.open = tasks[follower[w].child].open
      /\ task.parent = tasks[follower[w].child].parent
      /\ task.purpose = tasks[follower[w].child].purpose
      /\ task.gen = tasks[follower[w].child].gen
      /\ task.born = tasks[follower[w].child].born
      /\ task.depth = depth
  <2>1. tasks[follower[w].child] \in Task
    BY <1>2 DEF Types
  <2> QED BY <1>2, <2>1 DEF Task
<1>4. tasks' = [tasks EXCEPT ![follower[w].child] = task]
  BY <1>1
<1> HIDE DEF task
<1> QED BY <1>2, <1>3, <1>4, Updated DEF depth

\* A task is closed or opened again.
LEMMA OpenedOrClosed ==
    ASSUME Types, NEW t \in DOMAIN tasks, NEW open \in BOOLEAN,
           tasks' = [tasks EXCEPT ![t].open = open]
    PROVE  /\ tasks' \in Seq(Task) /\ DOMAIN tasks' = DOMAIN tasks
           /\ \A u \in DOMAIN tasks :
                 /\ tasks'[u].open = IF u = t THEN open ELSE tasks[u].open
                 /\ tasks'[u].parent = tasks[u].parent
                 /\ tasks'[u].purpose = tasks[u].purpose
                 /\ tasks'[u].gen = tasks[u].gen
                 /\ tasks'[u].born = tasks[u].born
                 /\ tasks'[u].depth = tasks[u].depth
<1> DEFINE task == [tasks[t] EXCEPT !.open = open]
<1>1. /\ task \in Task
      /\ task.open = open
      /\ task.parent = tasks[t].parent
      /\ task.purpose = tasks[t].purpose
      /\ task.gen = tasks[t].gen
      /\ task.born = tasks[t].born
      /\ task.depth = tasks[t].depth
  <2>1. tasks[t] \in Task
    BY DEF Types
  <2> QED BY <2>1 DEF Task
<1>2. tasks' = [tasks EXCEPT ![t] = task]
  OBVIOUS
<1> HIDE DEF task
<1> QED BY <1>1, <1>2, Updated

\* The stalled-agents job makes a planner.
LEMMA PlannerSpawned ==
    ASSUME Types, Follow!SpawnIdlePlanner
    PROVE  /\ tasks' \in Seq(Task)
           /\ DOMAIN tasks' = DOMAIN tasks \cup {Len(tasks) + 1}
           /\ Len(tasks) + 1 \in Nat \ DOMAIN tasks
           /\ \A t \in DOMAIN tasks : tasks'[t] = tasks[t]
           /\ tasks'[Len(tasks) + 1].purpose = "planner"
           /\ tasks'[Len(tasks) + 1].gen = 0
           /\ tasks'[Len(tasks) + 1].depth = 0
<1> DEFINE task == Follow!Made(0, "planner", 0, 0)
<1>1. Follow!Insert(task) /\ task \in Task
  BY SlotRecords DEF Follow!SpawnIdlePlanner, Follow!Purposes
<1>2. task.purpose = "planner" /\ task.gen = 0 /\ task.depth = 0
  BY DEF Follow!Made
<1> HIDE DEF task
<1> QED BY <1>1, <1>2, Inserted

\* Every step keeps the types.
LEMMA TypesStay == ASSUME Types, [Follow!Next]_(Follow!vars) PROVE Types'
<1>1. ASSUME NEW w \in Workers, NEW q \in Slot, MovesTo(w, q), window' = window,
             tasks' \in Seq(Task), DOMAIN tasks \subseteq DOMAIN tasks',
             q.pc # "idle" => q.task \in DOMAIN tasks,
             q.pc = "store" => q.child \in DOMAIN tasks',
             q.pc # "store" => q.child = 0,
             q.pc \in {"duplicate", "create", "store"} => q.purpose \in {"investigate", "rule"}
      PROVE  Types'
  <2>1. ASSUME NEW v \in Workers, follower'[v].pc # "idle"
        PROVE  follower'[v].task \in DOMAIN tasks'
    BY <1>1, <2>1 DEF Types, MovesTo
  <2>2. ASSUME NEW v \in Workers, follower'[v].pc = "store"
        PROVE  follower'[v].child \in DOMAIN tasks'
    BY <1>1, <2>2 DEF Types, MovesTo
  <2>3. ASSUME NEW v \in Workers, follower'[v].pc # "store"
        PROVE  follower'[v].child = 0
    BY <1>1, <2>3 DEF Types, MovesTo
  <2>4. ASSUME NEW v \in Workers, follower'[v].pc \in {"duplicate", "create", "store"}
        PROVE  follower'[v].purpose \in {"investigate", "rule"}
    BY <1>1, <2>4 DEF Types, MovesTo
  <2> QED BY <1>1, <2>1, <2>2, <2>3, <2>4 DEF Types, MovesTo
<1>2. ASSUME NEW w \in Workers, NEW t \in DOMAIN tasks, NEW failure \in BOOLEAN,
             Follow!Receive(w, t, failure)
      PROVE  Types'
  <2>1. window' = window /\ tasks' = tasks /\ tasks \in Seq(Task)
    BY <1>2 DEF Follow!Receive, Types
  <2> QED BY <1>1, <1>2, <2>1, Received
<1>3. ASSUME NEW w \in Workers, Follow!Examine(w) PROVE Types'
  <2>1. follower[w].task \in DOMAIN tasks /\ follower[w].child = 0
        /\ window' = window /\ tasks' = tasks /\ tasks \in Seq(Task)
    BY <1>3 DEF Follow!Examine, Follow!At, Types
  <2> QED BY <1>1, <1>3, <2>1, Examined
<1>4. ASSUME NEW w \in Workers, Follow!Emit(w) PROVE Types'
  <2>1. follower[w].task \in DOMAIN tasks /\ follower[w].child = 0
        /\ window' = window /\ tasks' = tasks /\ tasks \in Seq(Task)
    BY <1>4 DEF Follow!Emit, Follow!At, Types
  <2>2. PICK q \in Slot : /\ MovesTo(w, q) /\ q.task = follower[w].task
                          /\ q.child = follower[w].child
                          /\ \/ q.pc = "load"
                             \/ q.pc = "duplicate" /\ q.purpose = "investigate"
    BY <1>4, Emitted
  <2> QED BY <1>1, <2>1, <2>2
<1>5. ASSUME NEW w \in Workers, Follow!Load(w) PROVE Types'
  <2>1. follower[w].task \in DOMAIN tasks /\ follower[w].child = 0
        /\ window' = window /\ tasks \in Seq(Task)
    BY <1>5 DEF Follow!Load, Follow!At, Types
  <2>2. Follow!Idle \in Slot /\ Follow!Idle.pc = "idle" /\ Follow!Idle.child = 0
    BY SlotRecords DEF Follow!Idle
  <2>3. CASE MovesTo(w, Follow!Idle) /\ Asked
    BY <1>1, <2>1, <2>2, <2>3 DEF Asked
  <2>4. ASSUME UNCHANGED tasks, NEW q \in Slot, MovesTo(w, q), q.pc = "rules",
               q.task = follower[w].task, q.child = follower[w].child
        PROVE  Types'
    BY <1>1, <2>1, <2>4
  <2> QED BY <1>5, <2>3, <2>4, Loaded
<1>6. ASSUME NEW w \in Workers, Follow!ApplyRule(w) PROVE Types'
  <2>1. follower[w].task \in DOMAIN tasks /\ follower[w].child = 0
        /\ window' = window /\ tasks \in Seq(Task)
    BY <1>6 DEF Follow!ApplyRule, Follow!At, Types
  <2>2. Follow!Idle \in Slot /\ Follow!Idle.pc = "idle" /\ Follow!Idle.child = 0
    BY SlotRecords DEF Follow!Idle
  <2>3. CASE MovesTo(w, Follow!Idle) /\ Asked
    BY <1>1, <2>1, <2>2, <2>3 DEF Asked
  <2>4. ASSUME UNCHANGED tasks, NEW q \in Slot, MovesTo(w, q),
               q.pc \in {"duplicate", "create"}, q.purpose = "rule",
               q.task = follower[w].task, q.child = follower[w].child
        PROVE  Types'
    BY <1>1, <2>1, <2>4
  <2> QED BY <1>6, <2>3, <2>4, RuleApplied
<1>7. ASSUME NEW w \in Workers, Follow!CheckDuplicate(w) PROVE Types'
  <2>1. /\ follower[w].task \in DOMAIN tasks /\ follower[w].child = 0
        /\ follower[w].purpose \in {"investigate", "rule"} /\ follower[w].pc # "idle"
        /\ window' = window /\ tasks' = tasks /\ tasks \in Seq(Task)
    BY <1>7 DEF Follow!CheckDuplicate, Follow!At, Types
  <2>2. CASE MovesTo(w, Follow!After(w))
    BY <1>1, <2>1, <2>2, AfterFollowUp
  <2>3. ASSUME NEW q \in Slot, MovesTo(w, q), q.pc = "create", q.purpose = follower[w].purpose,
               q.task = follower[w].task, q.child = follower[w].child
        PROVE  Types'
    BY <1>1, <2>1, <2>3
  <2> QED BY <1>7, <2>2, <2>3, DuplicateChecked
<1>8. ASSUME NEW w \in Workers, Follow!Create(w) PROVE Types'
  <2>1. /\ follower[w].task \in DOMAIN tasks /\ window' = window
        /\ follower[w].purpose \in {"investigate", "rule"}
    BY <1>8 DEF Follow!Create, Follow!At, Types
  <2> QED BY <1>1, <1>8, <2>1, Created
<1>9. ASSUME NEW w \in Workers,
             Follow!CreateFails(w) \/ Follow!StoreDepth(w) \/ Follow!StoreFails(w)
      PROVE  Types'
  <2>1. tasks' \in Seq(Task) /\ DOMAIN tasks \subseteq DOMAIN tasks' /\ window' = window
    BY <1>9, HumanAsked, DepthStored
    DEF Asked, Follow!CreateFails, Follow!StoreDepth, Follow!StoreFails, Types
  <2> QED BY <1>1, <1>9, <2>1, FollowUpDone, SlotTypes, AfterFollowUp
<1>10. ASSUME tasks' \in Seq(Task), DOMAIN tasks \subseteq DOMAIN tasks', window' = window,
              follower' = follower
       PROVE  Types'
  BY <1>10 DEF Types
<1>11. ASSUME Follow!SpawnIdlePlanner PROVE Types'
  BY <1>10, <1>11, PlannerSpawned DEF Follow!SpawnIdlePlanner
<1>12. ASSUME NEW t \in DOMAIN tasks, Follow!Finish(t) \/ Follow!Reopen(t) PROVE Types'
  BY <1>10, <1>12, OpenedOrClosed DEF Follow!Finish, Follow!Reopen
<1>13. CASE Follow!NextWindow
  BY <1>13 DEF Follow!NextWindow, Types
<1>14. CASE Follow!Crash
  <2>1. Follow!Idle \in Slot /\ Follow!Idle.pc = "idle" /\ Follow!Idle.child = 0
    BY SlotRecords DEF Follow!Idle
  <2> QED BY <1>14, <2>1 DEF Follow!Crash, Types
<1>15. CASE UNCHANGED Follow!vars
  BY <1>15 DEF Follow!vars, Types
<1> QED
  BY <1>2, <1>3, <1>4, <1>5, <1>6, <1>7, <1>8, <1>9, <1>11, <1>12, <1>13, <1>14, <1>15
  DEF Follow!Next

-----------------------------------------------------------------------------
(* One planner.                                                            *)

\* Task t is a planner that is not finished.
Planning(t) == tasks[t].purpose = "planner" /\ tasks[t].open

\* The invariant of OnePlanner.
PlannersApart ==
    ~reopened => \A t, u \in DOMAIN tasks : Planning(t) /\ Planning(u) => t = u

\* Only SpawnIdlePlanner makes a planner, and it finds none.
LEMMA PlannersStayApart ==
    ASSUME Types, PlannersApart, [Follow!Next]_(Follow!vars)
    PROVE  PlannersApart'
<1>1. ASSUME reopened' = reopened, DOMAIN tasks \subseteq DOMAIN tasks',
             \A t \in DOMAIN tasks : Planning(t)' => Planning(t),
             \A t \in DOMAIN tasks' \ DOMAIN tasks : ~Planning(t)'
      PROVE  PlannersApart'
  BY <1>1 DEF PlannersApart
<1>2. ASSUME UNCHANGED <<tasks, reopened>> PROVE PlannersApart'
  BY <1>1, <1>2 DEF Planning
<1>3. ASSUME Asked, reopened' = reopened PROVE PlannersApart'
  BY <1>1, <1>3 DEF Planning, Asked
<1>4. ASSUME NEW w \in Workers, Follow!Load(w) PROVE PlannersApart'
  BY <1>2, <1>3, <1>4, Loaded DEF Follow!Load
<1>5. ASSUME NEW w \in Workers, Follow!ApplyRule(w) PROVE PlannersApart'
  BY <1>2, <1>3, <1>5, RuleApplied DEF Follow!ApplyRule
<1>6. ASSUME NEW w \in Workers, Follow!Create(w) PROVE PlannersApart'
  <2>1. follower[w].purpose # "planner" /\ reopened' = reopened
    BY <1>6 DEF Follow!Create, Follow!At, Types
  <2> QED BY <1>1, <1>6, <2>1, Created DEF Planning
<1>7. ASSUME NEW w \in Workers, Follow!CreateFails(w) PROVE PlannersApart'
  BY <1>3, <1>7, HumanAsked DEF Follow!CreateFails
<1>8. ASSUME NEW w \in Workers, Follow!StoreDepth(w) PROVE PlannersApart'
  <2>1. reopened' = reopened
    BY <1>8 DEF Follow!StoreDepth
  <2> QED BY <1>1, <1>8, <2>1, DepthStored DEF Planning
<1>9. ASSUME Follow!SpawnIdlePlanner PROVE PlannersApart'
  <2>1. reopened' = reopened /\ \A t \in DOMAIN tasks : ~Planning(t)
    BY <1>9 DEF Follow!SpawnIdlePlanner, Follow!PlannerOpen, Planning
  <2>2. DOMAIN tasks' = DOMAIN tasks \cup {Len(tasks) + 1}
        /\ \A t \in DOMAIN tasks : tasks'[t] = tasks[t]
    BY <1>9, PlannerSpawned
  <2>3. \A t \in DOMAIN tasks : ~Planning(t)'
    BY <2>1, <2>2 DEF Planning
  <2> QED BY <2>2, <2>3 DEF PlannersApart
<1>10. ASSUME NEW t \in DOMAIN tasks, Follow!Finish(t) PROVE PlannersApart'
  <2>1. reopened' = reopened /\ tasks' = [tasks EXCEPT ![t].open = FALSE]
    BY <1>10 DEF Follow!Finish
  <2> QED BY <1>1, <2>1, OpenedOrClosed DEF Planning
<1>11. ASSUME NEW t \in DOMAIN tasks, Follow!Reopen(t) PROVE PlannersApart'
  BY <1>11 DEF Follow!Reopen, PlannersApart
<1> QED
  BY <1>2, <1>4, <1>5, <1>6, <1>7, <1>8, <1>9, <1>10, <1>11
  DEF Follow!Next, Follow!vars, Follow!Receive, Follow!Examine, Follow!Emit,
      Follow!CheckDuplicate, Follow!StoreFails, Follow!NextWindow, Follow!Crash

\* The types hold at the start.
LEMMA FollowTypesHold == Follow!Init => Types
<1>1. Follow!Made(0, "user", 0, 0) \in Task
  BY SlotRecords DEF Follow!Purposes
<1>2. Follow!Idle.pc = "idle" /\ Follow!Idle.child = 0 /\ Follow!Idle \in Slot
  BY SlotRecords DEF Follow!Idle
<1> QED BY <1>1, <1>2 DEF Follow!Init, Types

\* The count of the instance is the count of the library.
LEMMA PlannersCount == \A S : Follow!Cardinality(S) = Cardinality(S)
  BY Zenon DEF Follow!Cardinality, Cardinality

\* A set without two members has one at most.
LEMMA AtMostOne ==
    ASSUME NEW S, \A x, y \in S : x = y
    PROVE  Cardinality(S) <= 1
<1>1. CASE S = {}
  BY <1>1, FS_EmptySet
<1>2. ASSUME NEW x \in S PROVE Cardinality(S) <= 1
  <2>1. S = {x}
    BY <1>2
  <2> QED BY <2>1, FS_Singleton
<1> QED BY <1>1, <1>2

\* However workers and the job overlap, idle agents get one planner: property
\* OnePlanner, for any number of workers, tasks and windows.
THEOREM OnePlannerOnly == Follow!Spec => []OnePlanner
<1>1. Follow!Init => Types /\ PlannersApart
  <2>1. Follow!Init => PlannersApart
    BY DEF Follow!Init, PlannersApart
  <2> QED BY <2>1, FollowTypesHold
<1>2. Types /\ PlannersApart /\ [Follow!Next]_(Follow!vars) => (Types /\ PlannersApart)'
  BY TypesStay, PlannersStayApart
<1>3. Types /\ PlannersApart => OnePlanner
  <2> SUFFICES ASSUME PlannersApart, ~reopened
               PROVE  Cardinality({t \in DOMAIN tasks : Planning(t)}) <= 1
    BY PlannersCount DEF OnePlanner, Follow!OnePlanner, Planning
  <2> QED BY AtMostOne DEF PlannersApart
<1> QED BY <1>1, <1>2, <1>3, PTL DEF Follow!Spec

-----------------------------------------------------------------------------
(* Investigations.                                                         *)

\* A worker that has decided on an investigation and has not made it.
Pending(w) ==
    follower[w].pc \in {"duplicate", "create"} /\ follower[w].purpose = "investigate"

\* Task t is an investigation.
Investigates(t) == tasks[t].purpose = "investigate"

\* A decision of this window has its emission, and decisions on a task, made or
\* to be made, are of different windows.
DecisionsEmitted ==
    /\ \A t \in DOMAIN tasks : Investigates(t) =>
          /\ tasks[t].born <= window
          /\ tasks[t].born = window => tasks[t].parent \in emitted
    /\ \A w \in Workers : Pending(w) =>
          /\ follower[w].born <= window
          /\ follower[w].born = window => follower[w].task \in emitted

\* Two investigations of one task, made or decided on, are of different windows.
DecisionsApart ==
    /\ \A t, u \in DOMAIN tasks :
          Investigates(t) /\ Investigates(u) /\ tasks[t].parent = tasks[u].parent /\ t # u
          => tasks[t].born # tasks[u].born
    /\ \A w \in Workers, t \in DOMAIN tasks :
          Pending(w) /\ Investigates(t) /\ tasks[t].parent = follower[w].task
          => tasks[t].born # follower[w].born
    /\ \A v, w \in Workers :
          Pending(v) /\ Pending(w) /\ follower[v].task = follower[w].task /\ v # w
          => follower[v].born # follower[w].born

\* No decision is new, and none is another.
NothingDecided ==
    /\ DOMAIN tasks \subseteq DOMAIN tasks'
    /\ \A t \in DOMAIN tasks : /\ tasks'[t].purpose = tasks[t].purpose
                              /\ tasks'[t].parent = tasks[t].parent
                              /\ tasks'[t].born = tasks[t].born
    /\ \A t \in DOMAIN tasks' \ DOMAIN tasks : tasks'[t].purpose # "investigate"
    /\ \A w \in Workers : Pending(w)' =>
          /\ Pending(w)
          /\ follower'[w].task = follower[w].task
          /\ follower'[w].born = follower[w].born

\* A step that decides on no investigation keeps them apart.
LEMMA NothingDecidedKeeps ==
    ASSUME Types, NothingDecided, DecisionsApart
    PROVE  /\ DecisionsApart'
           /\ DecisionsEmitted /\ window' = window /\ emitted \subseteq emitted'
              => DecisionsEmitted'
<1>1. \A t \in DOMAIN tasks' : Investigates(t)' =>
         t \in DOMAIN tasks /\ Investigates(t) /\ tasks'[t].parent = tasks[t].parent
         /\ tasks'[t].born = tasks[t].born
  BY DEF NothingDecided, Investigates
<1>2. \A w \in Workers : Pending(w)' =>
          Pending(w) /\ follower'[w].task = follower[w].task
          /\ follower'[w].born = follower[w].born
  BY DEF NothingDecided
<1>3. DecisionsApart'
  <2>1. ASSUME NEW t \in DOMAIN tasks', NEW u \in DOMAIN tasks', Investigates(t)',
               Investigates(u)', tasks'[t].parent = tasks'[u].parent, t # u
        PROVE  tasks'[t].born # tasks'[u].born
    BY <1>1, <2>1 DEF DecisionsApart
  <2>2. ASSUME NEW w \in Workers, NEW t \in DOMAIN tasks', Pending(w)', Investigates(t)',
               tasks'[t].parent = follower'[w].task
        PROVE  tasks'[t].born # follower'[w].born
    BY <1>1, <1>2, <2>2 DEF DecisionsApart
  <2>3. ASSUME NEW v \in Workers, NEW w \in Workers, Pending(v)', Pending(w)',
               follower'[v].task = follower'[w].task, v # w
        PROVE  follower'[v].born # follower'[w].born
    BY <1>2, <2>3 DEF DecisionsApart
  <2> QED BY <2>1, <2>2, <2>3 DEF DecisionsApart
<1>4. ASSUME DecisionsEmitted, window' = window, emitted \subseteq emitted'
      PROVE  DecisionsEmitted'
  <2>1. ASSUME NEW t \in DOMAIN tasks', Investigates(t)'
        PROVE  /\ tasks'[t].born <= window'
               /\ tasks'[t].born = window' => tasks'[t].parent \in emitted'
    BY <1>1, <1>4, <2>1 DEF DecisionsEmitted
  <2>2. ASSUME NEW w \in Workers, Pending(w)'
        PROVE  /\ follower'[w].born <= window'
               /\ follower'[w].born = window' => follower'[w].task \in emitted'
    BY <1>2, <1>4, <2>2 DEF DecisionsEmitted
  <2> QED BY <2>1, <2>2 DEF DecisionsEmitted
<1> QED BY <1>3, <1>4

\* A decision is taken with its emission, which is new.
LEMMA DecisionsStayApart ==
    ASSUME Types, DecisionsEmitted, DecisionsApart, [Follow!Next]_(Follow!vars)
    PROVE  (DecisionsEmitted /\ DecisionsApart)'
<1>1. ASSUME NothingDecided, window' = window, emitted \subseteq emitted'
      PROVE  (DecisionsEmitted /\ DecisionsApart)'
  BY <1>1, NothingDecidedKeeps
<1>2. ASSUME NEW w \in Workers, NEW q \in Slot, MovesTo(w, q), UNCHANGED tasks \/ Asked,
             q.pc \in {"duplicate", "create"} /\ q.purpose = "investigate" =>
                 Pending(w) /\ q.task = follower[w].task /\ q.born = follower[w].born
      PROVE  NothingDecided
  <2>1. \A v \in Workers : Pending(v)' =>
          /\ Pending(v)
          /\ follower'[v].task = follower[v].task
          /\ follower'[v].born = follower[v].born
    BY <1>2 DEF Pending, MovesTo
  <2> QED BY <1>2, <2>1 DEF NothingDecided, Asked
<1>3. ASSUME UNCHANGED follower, DOMAIN tasks \subseteq DOMAIN tasks',
             \A t \in DOMAIN tasks : /\ tasks'[t].purpose = tasks[t].purpose
                                    /\ tasks'[t].parent = tasks[t].parent
                                    /\ tasks'[t].born = tasks[t].born,
             \A t \in DOMAIN tasks' \ DOMAIN tasks : tasks'[t].purpose # "investigate"
      PROVE  NothingDecided
  BY <1>3 DEF NothingDecided, Pending
<1>4. ASSUME NEW w \in Workers, NEW t \in DOMAIN tasks, NEW failure \in BOOLEAN,
             Follow!Receive(w, t, failure)
      PROVE  NothingDecided
  BY <1>2, <1>4, Received DEF Follow!Receive
<1>5. ASSUME NEW w \in Workers, Follow!Examine(w) PROVE NothingDecided
  BY <1>2, <1>5, Examined DEF Follow!Examine
<1>6. ASSUME NEW w \in Workers, Follow!Emit(w)
      PROVE  (DecisionsEmitted /\ DecisionsApart)'
  <2>1. tasks' = tasks /\ window' = window /\ window \in Nat
    BY <1>6 DEF Follow!Emit, Types
  <2>2. PICK q \in Slot :
              /\ MovesTo(w, q)
              /\ \/ q.pc = "load" /\ emitted' = emitted
                 \/ /\ q.pc = "duplicate" /\ q.purpose = "investigate" /\ q.born = window
                    /\ q.task \notin emitted /\ emitted' = emitted \cup {q.task}
    BY <1>6, Emitted
  <2>3. CASE q.pc = "load" /\ emitted' = emitted
    BY <1>1, <1>2, <2>1, <2>2, <2>3
  <2>4. CASE /\ q.pc = "duplicate" /\ q.purpose = "investigate" /\ q.born = window
             /\ q.task \notin emitted /\ emitted' = emitted \cup {q.task}
    <3>1. /\ Pending(w)' /\ follower'[w].born = window /\ follower'[w].task \notin emitted
          /\ follower'[w].task \in emitted' /\ emitted \subseteq emitted'
      BY <2>2, <2>4 DEF Pending, MovesTo
    <3>2. \A v \in Workers : v # w =>
             /\ Pending(v)' <=> Pending(v)
             /\ follower'[v].task = follower[v].task
             /\ follower'[v].born = follower[v].born
      BY <2>2 DEF Pending, MovesTo
    <3>3. \A t : Investigates(t)' <=> Investigates(t)
      BY <2>1 DEF Investigates
    <3>4. DecisionsEmitted'
      BY <2>1, <3>1, <3>2, <3>3 DEF DecisionsEmitted
    <3>5. ASSUME NEW t \in DOMAIN tasks, Investigates(t), tasks[t].parent = follower'[w].task
          PROVE  tasks[t].born # follower'[w].born
      BY <3>1, <3>5 DEF DecisionsEmitted
    <3>6. ASSUME NEW v \in Workers, v # w, Pending(v), follower[v].task = follower'[w].task
          PROVE  follower[v].born # follower'[w].born
      BY <3>1, <3>6 DEF DecisionsEmitted
    <3> QED BY <2>1, <3>2, <3>3, <3>4, <3>5, <3>6 DEF DecisionsApart
  <2> QED BY <2>2, <2>3, <2>4
<1>7. ASSUME NEW w \in Workers, Follow!Load(w) PROVE NothingDecided
  <2>1. Follow!Idle \in Slot /\ Follow!Idle.pc = "idle"
    BY SlotRecords DEF Follow!Idle
  <2> QED BY <1>2, <1>7, <2>1, Loaded
<1>8. ASSUME NEW w \in Workers, Follow!ApplyRule(w) PROVE NothingDecided
  <2>1. Follow!Idle \in Slot /\ Follow!Idle.pc = "idle"
    BY SlotRecords DEF Follow!Idle
  <2> QED BY <1>2, <1>8, <2>1, RuleApplied
<1>9. ASSUME NEW w \in Workers, Follow!CheckDuplicate(w) PROVE NothingDecided
  <2>1. follower[w].pc = "duplicate" /\ UNCHANGED tasks
    BY <1>9 DEF Follow!CheckDuplicate, Follow!At
  <2> QED BY <1>2, <1>9, <2>1, DuplicateChecked, AfterFollowUp DEF Pending
<1>10. ASSUME NEW w \in Workers, Follow!Create(w)
       PROVE  (DecisionsEmitted /\ DecisionsApart)'
  <2>1. follower[w].pc = "create" /\ window' = window /\ emitted' = emitted
    BY <1>10 DEF Follow!Create, Follow!At
  <2>2. PICK new :
        /\ DOMAIN tasks' = DOMAIN tasks \cup {new}
        /\ new \notin DOMAIN tasks
        /\ \A t \in DOMAIN tasks : tasks'[t] = tasks[t]
        /\ tasks'[new].parent = follower[w].task
        /\ tasks'[new].purpose = follower[w].purpose
        /\ tasks'[new].born = follower[w].born
        /\ \E q \in Slot : MovesTo(w, q) /\ q.pc = "store"
    BY <1>10, Created
  <2>3. /\ ~Pending(w)'
        /\ \A v \in Workers : v # w =>
              /\ Pending(v)' <=> Pending(v)
              /\ follower'[v].task = follower[v].task
              /\ follower'[v].born = follower[v].born
    BY <2>2 DEF Pending, MovesTo
  <2>4. /\ Investigates(new)' => Pending(w)
        /\ \A t \in DOMAIN tasks : Investigates(t)' <=> Investigates(t)
    BY <2>1, <2>2 DEF Investigates, Pending
  <2>5. DecisionsEmitted'
    <3>1. ASSUME NEW t \in DOMAIN tasks', Investigates(t)'
          PROVE  /\ tasks'[t].born <= window
                 /\ tasks'[t].born = window => tasks'[t].parent \in emitted
      BY <2>2, <2>4, <3>1 DEF DecisionsEmitted
    <3>2. ASSUME NEW v \in Workers, Pending(v)'
          PROVE  /\ follower'[v].born <= window
                 /\ follower'[v].born = window => follower'[v].task \in emitted
      BY <2>3, <3>2 DEF DecisionsEmitted
    <3> QED BY <2>1, <3>1, <3>2 DEF DecisionsEmitted
  <2>6. DecisionsApart'
    <3>1. ASSUME NEW t \in DOMAIN tasks', NEW u \in DOMAIN tasks', Investigates(t)',
                 Investigates(u)', tasks'[t].parent = tasks'[u].parent, t # u
          PROVE  tasks'[t].born # tasks'[u].born
      BY <2>2, <2>4, <3>1 DEF DecisionsApart
    <3>2. ASSUME NEW v \in Workers, NEW t \in DOMAIN tasks', Pending(v)', Investigates(t)',
                 tasks'[t].parent = follower'[v].task
          PROVE  tasks'[t].born # follower'[v].born
      BY <2>2, <2>3, <2>4, <3>2 DEF DecisionsApart
    <3>3. ASSUME NEW u \in Workers, NEW v \in Workers, Pending(u)', Pending(v)',
                 follower'[u].task = follower'[v].task, u # v
          PROVE  follower'[u].born # follower'[v].born
      BY <2>3, <3>3 DEF DecisionsApart
    <3> QED BY <3>1, <3>2, <3>3 DEF DecisionsApart
  <2> QED BY <2>5, <2>6
<1>11. ASSUME NEW w \in Workers,
              Follow!CreateFails(w) \/ Follow!StoreFails(w)
       PROVE  NothingDecided
  <2>1. MovesTo(w, Follow!After(w)) /\ Follow!After(w) \in Slot
        /\ Follow!After(w).pc \in {"load", "rules"}
    BY <1>11, FollowUpDone, AfterFollowUp
  <2>2. UNCHANGED tasks \/ Asked
    BY <1>11, HumanAsked DEF Follow!CreateFails, Follow!StoreFails
  <2> QED BY <1>2, <2>1, <2>2
<1>12. ASSUME NEW w \in Workers, Follow!StoreDepth(w) PROVE NothingDecided
  <2>1. MovesTo(w, Follow!After(w)) /\ Follow!After(w).pc \in {"load", "rules"}
    BY <1>12, FollowUpDone, AfterFollowUp
  <2>2. \A v \in Workers : Pending(v)' =>
          /\ Pending(v)
          /\ follower'[v].task = follower[v].task
          /\ follower'[v].born = follower[v].born
    BY <2>1 DEF Pending, MovesTo
  <2> QED BY <1>12, <2>2, DepthStored DEF NothingDecided
<1>13. ASSUME Follow!SpawnIdlePlanner PROVE NothingDecided
  BY <1>3, <1>13, PlannerSpawned DEF Follow!SpawnIdlePlanner
<1>14. ASSUME NEW t \in DOMAIN tasks, Follow!Finish(t) \/ Follow!Reopen(t)
       PROVE  NothingDecided
  BY <1>3, <1>14, OpenedOrClosed DEF Follow!Finish, Follow!Reopen
<1>15. CASE Follow!NextWindow
  <2>1. tasks' = tasks /\ follower' = follower /\ window' = window + 1 /\ window \in Nat
    BY <1>15 DEF Follow!NextWindow, Types
  <2>2. NothingDecided
    BY <2>1 DEF NothingDecided, Pending
  <2>3. ASSUME NEW t \in DOMAIN tasks', Investigates(t)'
        PROVE  tasks'[t].born \in Nat /\ tasks'[t].born < window'
    <3>1. tasks[t].born \in Nat
      <4>1. tasks[t] \in Task
        BY <2>1 DEF Types
      <4> QED BY <4>1 DEF Task
    <3>2. tasks'[t].born = tasks[t].born /\ tasks[t].born <= window
      BY <2>1, <2>3 DEF DecisionsEmitted, Investigates
    <3> QED BY <2>1, <3>1, <3>2
  <2>4. \A w \in Workers : Pending(w)' => follower'[w].born \in Nat /\ follower'[w].born < window'
    BY <2>1 DEF DecisionsEmitted, Types, Slot, Pending
  <2> QED BY <2>1, <2>2, <2>3, <2>4, NothingDecidedKeeps DEF DecisionsEmitted
<1>16. CASE Follow!Crash
  <2>1. \A w \in Workers : ~Pending(w)'
    BY <1>16 DEF Follow!Crash, Pending, Follow!Idle
  <2> QED BY <1>1, <1>16, <2>1 DEF Follow!Crash, NothingDecided
<1>17. CASE UNCHANGED Follow!vars
  BY <1>1, <1>3, <1>17 DEF Follow!vars
<1>18. ASSUME NothingDecided,
              \/ \E w \in Workers :
                    \/ \E t \in DOMAIN tasks, failure \in BOOLEAN : Follow!Receive(w, t, failure)
                    \/ Follow!Examine(w) \/ Follow!Load(w) \/ Follow!ApplyRule(w)
                    \/ Follow!CheckDuplicate(w) \/ Follow!CreateFails(w)
                    \/ Follow!StoreDepth(w) \/ Follow!StoreFails(w)
              \/ \E t \in DOMAIN tasks : Follow!Finish(t) \/ Follow!Reopen(t)
              \/ Follow!SpawnIdlePlanner
       PROVE  (DecisionsEmitted /\ DecisionsApart)'
  <2>1. window' = window /\ emitted \subseteq emitted'
    BY <1>18 DEF Follow!Receive, Follow!Examine, Follow!Load, Follow!ApplyRule,
         Follow!CheckDuplicate, Follow!CreateFails, Follow!StoreDepth, Follow!StoreFails,
         Follow!Finish, Follow!Reopen, Follow!SpawnIdlePlanner
  <2> QED BY <1>1, <1>18, <2>1
<1> QED
  BY <1>4, <1>5, <1>6, <1>7, <1>8, <1>9, <1>10, <1>11, <1>12, <1>13, <1>14, <1>15, <1>16,
     <1>17, <1>18
  DEF Follow!Next

\* However failures, retries and restarts fall, a task is investigated once in a
\* window: property InvestigationsApart, for any number of workers and tasks.
THEOREM InvestigationsStayApart == Follow!Spec => []InvestigationsApart
<1>1. Follow!Init => Types /\ DecisionsEmitted /\ DecisionsApart
  <2> SUFFICES ASSUME Follow!Init PROVE DecisionsEmitted /\ DecisionsApart
    BY FollowTypesHold
  <2>1. \A t \in DOMAIN tasks : ~Investigates(t)
    BY DEF Follow!Init, Investigates, Follow!Made
  <2>2. \A w \in Workers : ~Pending(w)
    BY DEF Follow!Init, Pending, Follow!Idle
  <2> QED BY <2>1, <2>2 DEF DecisionsEmitted, DecisionsApart
<1>2. Types /\ DecisionsEmitted /\ DecisionsApart /\ [Follow!Next]_(Follow!vars)
      => (Types /\ DecisionsEmitted /\ DecisionsApart)'
  BY TypesStay, DecisionsStayApart
<1>3. Types /\ DecisionsEmitted /\ DecisionsApart => InvestigationsApart
  BY DEF DecisionsApart, Investigates, InvestigationsApart, Follow!InvestigationsApart, Types
<1> QED BY <1>1, <1>2, <1>3, PTL DEF Follow!Spec

-----------------------------------------------------------------------------
(* Chains of follow-ups.                                                   *)

\* A worker that acts on the depth it has read, and one whose follow-up is for a
\* rule or for an investigation.
Counting(w) == follower[w].pc \in {"emit", "rules", "duplicate", "create", "store"}
\* Of those, one whose follow-up has the given purpose.
MakesFor(w, purpose) ==
    follower[w].pc \in {"duplicate", "create", "store"} /\ follower[w].purpose = purpose

\* What a worker has read is how far its task is from a user's, and leaves room for
\* one more; the child it has made is its own, and one further.
CountsRight ==
    \A w \in Workers :
        /\ Counting(w) => follower[w].depth = tasks[follower[w].task].gen
        /\ follower[w].pc = "rules" \/ MakesFor(w, "rule") => follower[w].depth + 1 <= MaxDepth
        /\ follower[w].pc = "emit" \/ MakesFor(w, "investigate") =>
              follower[w].depth + 1 <= MaxFollowUps

\* A child that waits for its depth is one further than the depth its worker has
\* read, and no other worker waits for it.
ChildrenRight ==
    \A w \in Workers : follower[w].pc = "store" =>
        /\ tasks[follower[w].child].gen = follower[w].depth + 1
        /\ \A v \in Workers : follower[v].child = follower[w].child => v = w

\* The depth of a task is right once it is stored.
DepthsRight ==
    \A t \in DOMAIN tasks :
        tasks[t].depth # tasks[t].gen => \E w \in Workers : follower[w].child = t

\* All of it, as long as no depth was read before it was stored.
ChainInv == ~misread => CountsRight /\ ChildrenRight /\ DepthsRight /\ ChainsEnd

\* Tasks as they were, except for the depths of some.
SameChains ==
    /\ DOMAIN tasks \subseteq DOMAIN tasks'
    /\ \A t \in DOMAIN tasks : /\ tasks'[t].purpose = tasks[t].purpose
                              /\ tasks'[t].gen = tasks[t].gen
    /\ \A t \in DOMAIN tasks' \ DOMAIN tasks :
          /\ tasks'[t].purpose \notin {"rule", "investigate"}
          /\ tasks'[t].gen = tasks'[t].depth

\* A worker moves on: what it reads and what it decides fits its task.
LEMMA ChainsKeep ==
    ASSUME Types, ChainInv, SameChains, misread' = misread, NEW w \in Workers, NEW q \in Slot,
           MovesTo(w, q), q.pc # "store", q.child = 0,
           \A t \in DOMAIN tasks : tasks'[t].depth =
               IF t = follower[w].child THEN tasks[t].gen ELSE tasks[t].depth,
           ~misread /\ q.pc \in {"emit", "rules", "duplicate", "create"} =>
               q.task \in DOMAIN tasks /\ q.depth = tasks[q.task].gen,
           ~misread /\ (q.pc = "rules" \/ (q.pc \in {"duplicate", "create"} /\ q.purpose = "rule"))
               => q.depth + 1 <= MaxDepth,
           ~misread /\ \/ q.pc = "emit"
                       \/ q.pc \in {"duplicate", "create"} /\ q.purpose = "investigate"
               => q.depth + 1 <= MaxFollowUps
    PROVE  ChainInv'
<1> SUFFICES ASSUME ~misread PROVE (CountsRight /\ ChildrenRight /\ DepthsRight /\ ChainsEnd)'
  BY DEF ChainInv
<1> USE DEF ChainInv
<1>1. ASSUME NEW v \in Workers, v # w
      PROVE  /\ Counting(v)' => follower'[v].depth = tasks'[follower'[v].task].gen
             /\ follower'[v].pc = "rules" \/ MakesFor(v, "rule")'
                  => follower'[v].depth + 1 <= MaxDepth
             /\ follower'[v].pc = "emit" \/ MakesFor(v, "investigate")'
                  => follower'[v].depth + 1 <= MaxFollowUps
  BY <1>1 DEF CountsRight, MovesTo, Counting, MakesFor, SameChains, Types
<1>2. /\ Counting(w)' => follower'[w].depth = tasks'[follower'[w].task].gen
      /\ follower'[w].pc = "rules" \/ MakesFor(w, "rule")' => follower'[w].depth + 1 <= MaxDepth
      /\ follower'[w].pc = "emit" \/ MakesFor(w, "investigate")'
           => follower'[w].depth + 1 <= MaxFollowUps
  BY DEF MovesTo, Counting, MakesFor, SameChains
<1>3. CountsRight'
  BY <1>1, <1>2 DEF CountsRight
<1>4. ChildrenRight'
  <2> SUFFICES ASSUME NEW v \in Workers, follower'[v].pc = "store"
               PROVE  /\ tasks'[follower'[v].child].gen = follower'[v].depth + 1
                      /\ \A u \in Workers : follower'[u].child = follower'[v].child => u = v
    BY DEF ChildrenRight
  <2>1. v # w /\ follower'[v] = follower[v]
    BY DEF MovesTo
  <2>2. follower[v].child \in DOMAIN tasks /\ follower[v].child # 0
    BY <2>1 DEF Types
  <2> QED BY <2>1, <2>2 DEF ChildrenRight, MovesTo, SameChains
<1>5. DepthsRight'
  <2> SUFFICES ASSUME NEW t \in DOMAIN tasks', tasks'[t].depth # tasks'[t].gen
               PROVE  \E v \in Workers : follower'[v].child = t
    BY DEF DepthsRight
  <2>1. t \in DOMAIN tasks /\ tasks'[t].gen = tasks[t].gen
    BY DEF SameChains
  <2>2. t # follower[w].child /\ tasks[t].depth # tasks[t].gen
    BY <2>1
  <2> QED BY <2>1, <2>2 DEF DepthsRight, MovesTo
<1>6. ChainsEnd'
  BY DEF ChainsEnd, Follow!ChainsEnd, SameChains
<1> QED BY <1>3, <1>4, <1>5, <1>6

\* No worker moves, and no depth.
LEMMA ChainsIdle ==
    ASSUME Types, ChainInv, SameChains, misread' = misread, follower' = follower,
           \A t \in DOMAIN tasks : tasks'[t].depth = tasks[t].depth
    PROVE  ChainInv'
<1> SUFFICES ASSUME ~misread PROVE (CountsRight /\ ChildrenRight /\ DepthsRight /\ ChainsEnd)'
  BY DEF ChainInv
<1> USE DEF ChainInv
<1>1. CountsRight'
  BY DEF CountsRight, Counting, MakesFor, SameChains, Types
<1>2. ChildrenRight'
  BY DEF ChildrenRight, SameChains, Types
<1>3. DepthsRight'
  BY DEF DepthsRight, SameChains
<1>4. ChainsEnd'
  BY DEF ChainsEnd, Follow!ChainsEnd, SameChains
<1> QED BY <1>1, <1>2, <1>3, <1>4

\* Every step keeps the chains short.
LEMMA ChainsStayShort ==
    ASSUME LimitsSound, Types, misread \in BOOLEAN, ChainInv, [Follow!Next]_(Follow!vars)
    PROVE  ChainInv'
<1>1. ASSUME misread' PROVE ChainInv'
  BY <1>1 DEF ChainInv
<1>2. UNCHANGED tasks => SameChains /\ \A t \in DOMAIN tasks : tasks'[t].depth = tasks[t].depth
  BY DEF SameChains
<1>3. Asked => SameChains /\ \A t \in DOMAIN tasks : tasks'[t].depth = tasks[t].depth
  BY DEF SameChains, Asked
<1>4. Follow!Idle \in Slot /\ Follow!Idle.pc = "idle" /\ Follow!Idle.child = 0
  BY SlotRecords DEF Follow!Idle
<1>5. \A w \in Workers : follower[w].pc # "store" => follower[w].child = 0 /\ 0 \notin DOMAIN tasks
  BY DEF Types
<1>6. ASSUME NEW w \in Workers, NEW t \in DOMAIN tasks, NEW failure \in BOOLEAN,
             Follow!Receive(w, t, failure)
      PROVE  ChainInv'
  <2>1. follower[w].pc = "idle" /\ UNCHANGED <<tasks, misread>>
    BY <1>6 DEF Follow!Receive, Follow!At
  <2>2. PICK q \in Slot : MovesTo(w, q) /\ q.pc \in {"examine", "load"} /\ q.child = 0
    BY <1>6, Received
  <2> QED BY <1>2, <1>5, <2>1, <2>2, ChainsKeep
<1>7. ASSUME NEW w \in Workers, Follow!Examine(w) PROVE ChainInv'
  <2>1. follower[w].pc = "examine" /\ UNCHANGED tasks /\ follower[w].task \in DOMAIN tasks
        /\ misread' = (misread \/ \E v \in Workers : follower[v].child = follower[w].task)
    BY <1>7 DEF Follow!Examine, Follow!At, Follow!ReadDepth, Types
  <2>2. PICK q \in Slot :
              /\ MovesTo(w, q) /\ q.task = follower[w].task /\ q.child = follower[w].child
              /\ q.depth = tasks[q.task].depth
              /\ \/ q.pc = "load"
                 \/ q.pc = "emit" /\ ~(q.depth >= MaxFollowUps)
    BY <1>7, Examined
  <2>3. CASE misread'
    BY <1>1, <2>3
  <2>4. CASE ~misread'
    <3>1. misread' = misread /\ q.depth = tasks[q.task].gen
      BY <2>1, <2>2, <2>4 DEF ChainInv, DepthsRight
    <3>2. q.pc = "emit" => q.depth + 1 <= MaxFollowUps
      <4>1. q.depth \in Nat /\ MaxFollowUps \in Nat
        <5>1. q.depth \in Nat
          BY DEF Slot
        <5> QED BY <5>1 DEF LimitsSound
      <4>2. q.pc = "emit" => ~(q.depth >= MaxFollowUps)
        BY <2>2
      <4> QED BY <4>1, <4>2
    <3> QED BY <1>2, <1>5, <2>1, <2>2, <3>1, <3>2, ChainsKeep
  <2> QED BY <2>3, <2>4
<1>8. ASSUME NEW w \in Workers, Follow!Emit(w) PROVE ChainInv'
  <2>1. follower[w].pc = "emit" /\ UNCHANGED <<tasks, misread>> /\ follower[w].task \in DOMAIN tasks
    BY <1>8 DEF Follow!Emit, Follow!At, Types
  <2>2. PICK q \in Slot :
              /\ MovesTo(w, q) /\ q.task = follower[w].task /\ q.child = follower[w].child
              /\ q.depth = follower[w].depth
              /\ q.pc = "load" \/ (q.pc = "duplicate" /\ q.purpose = "investigate")
    BY <1>8, Emitted
  <2>3. ~misread => q.depth = tasks[q.task].gen /\ q.depth + 1 <= MaxFollowUps
    BY <2>1, <2>2 DEF ChainInv, CountsRight, Counting
  <2> QED BY <1>2, <1>5, <2>1, <2>2, <2>3, ChainsKeep
<1>9. ASSUME NEW w \in Workers, Follow!Load(w) PROVE ChainInv'
  <2>1. follower[w].pc = "load" /\ follower[w].task \in DOMAIN tasks
    BY <1>9 DEF Follow!Load, Follow!At, Types
  <2>2. CASE MovesTo(w, Follow!Idle) /\ Asked /\ misread' = misread
    BY <1>3, <1>4, <1>5, <2>1, <2>2, ChainsKeep
  <2>3. CASE misread'
    BY <1>1, <2>3
  <2>4. ASSUME UNCHANGED tasks, ~misread',
               misread' = (misread \/ \E v \in Workers : follower[v].child = follower[w].task),
               NEW q \in Slot,
               MovesTo(w, q) /\ q.pc = "rules" /\ q.task = follower[w].task
               /\ q.child = follower[w].child
               /\ q.depth = tasks[q.task].depth /\ ~(q.depth + 1 > MaxDepth)
        PROVE  ChainInv'
    <3>1. misread' = misread /\ q.depth = tasks[q.task].gen
      BY <2>1, <2>4 DEF ChainInv, DepthsRight
    <3>2. q.depth + 1 <= MaxDepth
      <4>1. q.depth \in Nat /\ MaxDepth \in Nat
        <5>1. q.depth \in Nat
          BY DEF Slot
        <5> QED BY <5>1 DEF LimitsSound
      <4>2. ~(q.depth + 1 > MaxDepth)
        BY <2>4
      <4> QED BY <4>1, <4>2
    <3> QED BY <1>2, <1>5, <2>1, <2>4, <3>1, <3>2, ChainsKeep
  <2> QED BY <1>9, <2>2, <2>3, <2>4, Loaded
<1>10. ASSUME NEW w \in Workers, Follow!ApplyRule(w) PROVE ChainInv'
  <2>1. follower[w].pc = "rules" /\ follower[w].task \in DOMAIN tasks /\ misread' = misread
    BY <1>10 DEF Follow!ApplyRule, Follow!At, Types
  <2>2. CASE MovesTo(w, Follow!Idle) /\ Asked
    BY <1>3, <1>4, <1>5, <2>1, <2>2, ChainsKeep
  <2>3. ASSUME UNCHANGED tasks, NEW q \in Slot, MovesTo(w, q), q.pc \in {"duplicate", "create"},
               q.purpose = "rule", q.task = follower[w].task, q.depth = follower[w].depth,
               q.child = follower[w].child
        PROVE  ChainInv'
    <3>1. ~misread => q.depth = tasks[q.task].gen /\ q.depth + 1 <= MaxDepth
      BY <2>1, <2>3 DEF ChainInv, CountsRight, Counting
    <3> QED BY <1>2, <1>5, <2>1, <2>3, <3>1, ChainsKeep
  <2> QED BY <1>10, <2>2, <2>3, RuleApplied
<1>11. ASSUME NEW w \in Workers, Follow!CheckDuplicate(w) \/ Follow!CreateFails(w)
       PROVE  ChainInv'
  <2>1. /\ follower[w].pc \in {"duplicate", "create"} /\ follower[w].task \in DOMAIN tasks
        /\ misread' = misread /\ (UNCHANGED tasks \/ Follow!AskHuman)
        /\ follower[w].purpose \in {"investigate", "rule"}
    BY <1>11 DEF Follow!CheckDuplicate, Follow!CreateFails, Follow!At, Types
  <2>2. SameChains /\ \A t \in DOMAIN tasks : tasks'[t].depth = tasks[t].depth
    BY <1>2, <1>3, <2>1, HumanAsked
  <2>3. ~misread =>
           /\ follower[w].depth = tasks[follower[w].task].gen
           /\ follower[w].purpose = "rule" => follower[w].depth + 1 <= MaxDepth
           /\ follower[w].purpose = "investigate" => follower[w].depth + 1 <= MaxFollowUps
    BY <2>1 DEF ChainInv, CountsRight, Counting, MakesFor
  <2>4. CASE MovesTo(w, Follow!After(w))
    BY <1>5, <2>1, <2>2, <2>3, <2>4, AfterFollowUp, ChainsKeep
  <2>5. ASSUME NEW q \in Slot, MovesTo(w, q), q.pc = "create", q.purpose = follower[w].purpose,
               q.task = follower[w].task, q.depth = follower[w].depth,
               q.child = follower[w].child
        PROVE  ChainInv'
    BY <1>5, <2>1, <2>2, <2>3, <2>5, ChainsKeep
  <2> QED BY <1>11, <2>4, <2>5, DuplicateChecked, FollowUpDone
<1>12. ASSUME NEW w \in Workers, Follow!Create(w) PROVE ChainInv'
  <2>1. follower[w].pc = "create" /\ misread' = misread /\ follower[w].task \in DOMAIN tasks
        /\ follower[w].purpose \in {"investigate", "rule"}
    BY <1>12 DEF Follow!Create, Follow!At, Types
  <2> SUFFICES ASSUME ~misread PROVE (CountsRight /\ ChildrenRight /\ DepthsRight /\ ChainsEnd)'
    BY <2>1 DEF ChainInv
  <2>2. PICK new :
        /\ DOMAIN tasks' = DOMAIN tasks \cup {new}
        /\ new \notin DOMAIN tasks \cup {0}
        /\ \A t \in DOMAIN tasks : tasks'[t] = tasks[t]
        /\ tasks'[new].purpose = follower[w].purpose
        /\ tasks'[new].gen = tasks[follower[w].task].gen + 1
        /\ \E q \in Slot :
              /\ MovesTo(w, q) /\ q.pc = "store" /\ q.purpose = follower[w].purpose
              /\ q.task = follower[w].task /\ q.depth = follower[w].depth
              /\ q.child = new
    BY <1>12, Created
  <2>3. /\ follower[w].depth = tasks[follower[w].task].gen
        /\ follower[w].purpose = "rule" => follower[w].depth + 1 <= MaxDepth
        /\ follower[w].purpose = "investigate" => follower[w].depth + 1 <= MaxFollowUps
    BY <2>1 DEF ChainInv, CountsRight, Counting, MakesFor
  <2>4. /\ follower'[w].pc = "store" /\ follower'[w].purpose = follower[w].purpose
        /\ follower'[w].task = follower[w].task /\ follower'[w].depth = follower[w].depth
        /\ follower'[w].child = new
        /\ \A v \in Workers : v # w => follower'[v] = follower[v]
    BY <2>2 DEF MovesTo
  <2>5. \A v \in Workers : follower[v].child # new
    BY <2>2 DEF Types
  <2>6. CountsRight'
    <3>1. ASSUME NEW v \in Workers, v # w
          PROVE  /\ Counting(v)' => follower'[v].depth = tasks'[follower'[v].task].gen
                 /\ follower'[v].pc = "rules" \/ MakesFor(v, "rule")'
                      => follower'[v].depth + 1 <= MaxDepth
                 /\ follower'[v].pc = "emit" \/ MakesFor(v, "investigate")'
                      => follower'[v].depth + 1 <= MaxFollowUps
      BY <2>2, <2>4, <3>1 DEF ChainInv, CountsRight, Counting, MakesFor, Types
    <3>2. /\ Counting(w)' => follower'[w].depth = tasks'[follower'[w].task].gen
          /\ follower'[w].pc = "rules" \/ MakesFor(w, "rule")'
               => follower'[w].depth + 1 <= MaxDepth
          /\ follower'[w].pc = "emit" \/ MakesFor(w, "investigate")'
               => follower'[w].depth + 1 <= MaxFollowUps
      BY <2>1, <2>2, <2>3, <2>4 DEF MakesFor
    <3> QED BY <3>1, <3>2 DEF CountsRight
  <2>7. ChildrenRight'
    <3>1. ASSUME NEW v \in Workers, v # w, follower'[v].pc = "store"
          PROVE  /\ tasks'[follower'[v].child].gen = follower'[v].depth + 1
                 /\ \A u \in Workers : follower'[u].child = follower'[v].child => u = v
      BY <2>2, <2>4, <2>5, <3>1 DEF ChainInv, ChildrenRight, Types
    <3>2. /\ tasks'[follower'[w].child].gen = follower'[w].depth + 1
          /\ \A u \in Workers : follower'[u].child = follower'[w].child => u = w
      BY <2>2, <2>3, <2>4, <2>5
    <3> QED BY <3>1, <3>2 DEF ChildrenRight
  <2>8. DepthsRight'
    <3> SUFFICES ASSUME NEW t \in DOMAIN tasks', tasks'[t].depth # tasks'[t].gen
                 PROVE  \E v \in Workers : follower'[v].child = t
      BY DEF DepthsRight
    <3>1. CASE t = new
      BY <2>4, <3>1
    <3>2. CASE t \in DOMAIN tasks
      <4>1. PICK v \in Workers : follower[v].child = t
        BY <2>2, <3>2 DEF ChainInv, DepthsRight
      <4>2. v # w
        BY <2>1, <3>2, <4>1, <1>5
      <4> QED BY <2>4, <4>1, <4>2
    <3> QED BY <2>2, <3>1, <3>2
  <2>9. ChainsEnd'
    BY <2>2, <2>3 DEF ChainInv, ChainsEnd, Follow!ChainsEnd
  <2> QED BY <2>6, <2>7, <2>8, <2>9
<1>13. ASSUME NEW w \in Workers, Follow!StoreDepth(w) PROVE ChainInv'
  <2>1. follower[w].pc = "store" /\ follower[w].task \in DOMAIN tasks /\ misread' = misread
        /\ follower[w].purpose \in {"investigate", "rule"}
    BY <1>13 DEF Follow!StoreDepth, Follow!At, Types
  <2> SUFFICES ASSUME ~misread PROVE ChainInv'
    BY <2>1 DEF ChainInv
  <2>2. MovesTo(w, Follow!After(w)) /\ Follow!After(w) \in Slot
        /\ Follow!After(w).pc \in {"load", "rules"}
        /\ Follow!After(w).task = follower[w].task /\ Follow!After(w).child = 0
        /\ (Follow!After(w).pc = "rules" =>
               follower[w].purpose = "rule" /\ Follow!After(w).depth = follower[w].depth)
    BY <1>13, <2>1, FollowUpDone, AfterFollowUp
  <2>3. /\ follower[w].depth = tasks[follower[w].task].gen
        /\ follower[w].purpose = "rule" => follower[w].depth + 1 <= MaxDepth
        /\ tasks[follower[w].child].gen = follower[w].depth + 1
    BY <2>1 DEF ChainInv, CountsRight, ChildrenRight, Counting, MakesFor
  <2>4. SameChains /\ \A t \in DOMAIN tasks : tasks'[t].depth =
               IF t = follower[w].child THEN tasks[t].gen ELSE tasks[t].depth
    BY <1>13, <2>3, DepthStored DEF SameChains
  <2> DEFINE q == Follow!After(w)
  <2> HIDE DEF q
  <2>5. q \in Slot /\ MovesTo(w, q) /\ q.pc \in {"load", "rules"} /\ q.child = 0
        /\ (q.pc = "rules" => q.task \in DOMAIN tasks /\ q.depth = tasks[q.task].gen
                              /\ q.depth + 1 <= MaxDepth)
    BY <2>1, <2>2, <2>3 DEF q
  <2> QED BY <2>1, <2>4, <2>5, ChainsKeep
<1>14. ASSUME NEW w \in Workers, Follow!StoreFails(w) PROVE ChainInv'
  BY <1>1, <1>14 DEF Follow!StoreFails
<1>15. ASSUME Follow!SpawnIdlePlanner PROVE ChainInv'
  <2>1. SameChains /\ \A t \in DOMAIN tasks : tasks'[t].depth = tasks[t].depth
    BY <1>15, PlannerSpawned DEF SameChains
  <2> QED BY <1>15, <2>1, ChainsIdle DEF Follow!SpawnIdlePlanner
<1>16. ASSUME NEW t \in DOMAIN tasks, Follow!Finish(t) \/ Follow!Reopen(t) PROVE ChainInv'
  <2>1. SameChains /\ \A u \in DOMAIN tasks : tasks'[u].depth = tasks[u].depth
    BY <1>16, OpenedOrClosed DEF SameChains, Follow!Finish, Follow!Reopen
  <2> QED BY <1>16, <2>1, ChainsIdle DEF Follow!Finish, Follow!Reopen
<1>17. CASE Follow!NextWindow \/ UNCHANGED Follow!vars
  BY <1>2, <1>17, ChainsIdle DEF Follow!NextWindow, Follow!vars
<1>18. CASE Follow!Crash
  <2> SUFFICES ASSUME ~misread' PROVE ChainInv'
    BY <1>1
  <2>1. ~misread /\ misread' = misread /\ tasks' = tasks
        /\ (\A w \in Workers : follower[w].child = 0)
        /\ (\A w \in Workers : follower'[w].pc = "idle" /\ follower'[w].child = 0)
    <3>1. misread' = (misread \/ \E w \in Workers : follower[w].child # 0) /\ tasks' = tasks
      BY <1>18 DEF Follow!Crash
    <3>2. \A w \in Workers : follower'[w] = Follow!Idle
      BY <1>18 DEF Follow!Crash
    <3>3. ~misread /\ misread' = misread /\ \A w \in Workers : follower[w].child = 0
      BY <3>1
    <3> QED BY <1>4, <3>1, <3>2, <3>3
  <2>2. CountsRight' /\ ChildrenRight'
    BY <2>1 DEF CountsRight, ChildrenRight, Counting, MakesFor
  <2>3. DepthsRight' /\ ChainsEnd'
    BY <2>1 DEF ChainInv, DepthsRight, ChainsEnd, Follow!ChainsEnd
  <2> QED BY <2>2, <2>3 DEF ChainInv
<1> QED
  BY <1>6, <1>7, <1>8, <1>9, <1>10, <1>11, <1>12, <1>13, <1>14, <1>15, <1>16, <1>17, <1>18
  DEF Follow!Next

\* Chains of automatic follow-ups end at the limits, however far apart INSERT and
\* the storing of depths fall, unless a depth was read before it was stored:
\* property ChainsEnd, for any limits and any number of workers.
THEOREM ChainsAreShort == Follow!Spec => []ChainsEnd
<1> USE EngineAssumption
<1>1. Follow!Init => Types /\ misread \in BOOLEAN /\ ChainInv
  <2> SUFFICES ASSUME Follow!Init PROVE ChainInv
    BY FollowTypesHold DEF Follow!Init
  <2>1. DOMAIN tasks = {1} /\ tasks[1] = Follow!Made(0, "user", 0, 0)
    <3>1. tasks = <<Follow!Made(0, "user", 0, 0)>>
      BY DEF Follow!Init
    <3> QED BY <3>1
  <2>2. /\ tasks[1].depth = tasks[1].gen
        /\ tasks[1].purpose = "user"
    BY <2>1 DEF Follow!Made
  <2>3. \A w \in Workers : follower[w].pc = "idle"
    BY DEF Follow!Init, Follow!Idle
  <2>4. CountsRight /\ ChildrenRight
    BY <2>3 DEF CountsRight, ChildrenRight, Counting, MakesFor
  <2>5. DepthsRight /\ ChainsEnd
    BY <2>1, <2>2 DEF DepthsRight, ChainsEnd, Follow!ChainsEnd
  <2> QED BY <2>4, <2>5 DEF ChainInv
<1>2. Types /\ misread \in BOOLEAN /\ ChainInv /\ [Follow!Next]_(Follow!vars)
      => (Types /\ misread \in BOOLEAN /\ ChainInv)'
  <2>1. misread \in BOOLEAN /\ [Follow!Next]_(Follow!vars) => misread' \in BOOLEAN
    BY DEF Follow!Next, Follow!vars, Follow!Receive, Follow!Examine, Follow!ReadDepth,
       Follow!Emit, Follow!Load, Follow!ApplyRule, Follow!CheckDuplicate, Follow!Create,
       Follow!CreateFails, Follow!StoreDepth, Follow!StoreFails, Follow!Finish, Follow!Reopen,
       Follow!SpawnIdlePlanner, Follow!NextWindow, Follow!Crash
  <2> QED BY <2>1, TypesStay, ChainsStayShort
<1>3. ChainInv => ChainsEnd
  BY DEF ChainInv, ChainsEnd, Follow!ChainsEnd
<1> QED BY <1>1, <1>2, <1>3, PTL DEF Follow!Spec

-----------------------------------------------------------------------------
(* Bounds.                                                                 *)

\* A follow-up comes after its parent, and so is neither deeper nor of a later
\* generation than there were tasks before it.
TaskFits(t, task) ==
    task.parent < t /\ task.depth < t /\ task.gen < t /\ task.born <= window

TasksFit == Len(tasks) <= MaxMade /\ \A t \in DOMAIN tasks : TaskFits(t, tasks[t])

\* A worker stores a depth it has read of an earlier task.
SlotFits(q) ==
    /\ q.born <= window
    /\ IF q.pc = "idle" THEN q.task = 0 /\ q.depth = 0 ELSE q.depth < q.task
    /\ q.pc = "store" => q.task < q.child

SlotsFit == \A w \in Workers : SlotFits(follower[w])

MarksFit == /\ emitted \subseteq 0..MaxMade /\ window <= MaxWindow
            /\ misread \in BOOLEAN /\ reopened \in BOOLEAN

Bounded == TasksFit /\ SlotsFit /\ MarksFit

\* With the types that is the type invariant.
LEMMA BoundedIsTyped == ASSUME Types, Bounded, BoundsSound PROVE Follow!TypeOK
<1>1. ASSUME NEW t \in DOMAIN tasks
      PROVE  tasks[t] \in [open : BOOLEAN, parent : 0..MaxMade, purpose : Follow!Purposes,
                           depth : 0..MaxMade, gen : 0..MaxMade, born : 0..MaxWindow]
  <2>1. /\ tasks[t] \in Task /\ TaskFits(t, tasks[t])
        /\ t \in Nat /\ t <= MaxMade /\ MaxMade \in Nat
        /\ window \in Nat /\ window <= MaxWindow /\ MaxWindow \in Nat
    BY DEF Types, Bounded, TasksFit, MarksFit, BoundsSound
  <2>2. tasks[t].parent \in 0..MaxMade
    BY <2>1 DEF Task, TaskFits
  <2>3. tasks[t].depth \in 0..MaxMade
    BY <2>1 DEF Task, TaskFits
  <2>4. tasks[t].gen \in 0..MaxMade
    BY <2>1 DEF Task, TaskFits
  <2>5. tasks[t].born \in 0..MaxWindow
    BY <2>1 DEF Task, TaskFits
  <2> QED BY <2>1, <2>2, <2>3, <2>4, <2>5 DEF Task
<1>2. ASSUME NEW w \in Workers
      PROVE  follower[w] \in [pc : Steps, task : 0..MaxMade, depth : 0..MaxMade,
                              purpose : Follow!Purposes, child : 0..MaxMade,
                              born : 0..MaxWindow]
  <2> DEFINE q == follower[w]
  <2>1. /\ q \in Slot /\ SlotFits(q)
        /\ MaxMade \in Nat /\ Len(tasks) \in Nat /\ Len(tasks) <= MaxMade
        /\ window \in Nat /\ window <= MaxWindow /\ MaxWindow \in Nat
        /\ q.pc # "idle" => q.task \in 1..Len(tasks)
        /\ q.pc = "store" => q.child \in 1..Len(tasks)
        /\ q.pc # "store" => q.child = 0
    BY DEF Types, Bounded, TasksFit, SlotsFit, MarksFit, BoundsSound
  <2>2. q.depth <= q.task /\ q.task <= Len(tasks) /\ q.child <= Len(tasks)
        /\ q.born <= window
    BY <2>1 DEF Slot, SlotFits
  <2> QED BY <2>1, <2>2 DEF Slot
<1> QED
  BY <1>1, <1>2 DEF Follow!TypeOK, Types, Bounded, TasksFit, MarksFit, BoundsSound, Steps

\* A task is added, further from a user's task than those before it by one at most.
LEMMA InsertFits ==
    ASSUME Types, TasksFit, BoundsSound,
           NEW task \in Task, Follow!Insert(task), window' = window,
           task.parent <= Len(tasks), task.gen <= Len(tasks), task.depth = 0,
           task.born <= window
    PROVE  TasksFit'
<1>1. /\ Len(tasks) < MaxMade /\ tasks' = Append(tasks, task)
      /\ tasks \in Seq(Task) /\ MaxMade = MaxMade'
  BY DEF Follow!Insert, Follow!Room, Types
<1>2. /\ Len(tasks) \in Nat /\ Len(tasks') = Len(tasks) + 1
      /\ DOMAIN tasks' = 1..(Len(tasks) + 1) /\ DOMAIN tasks = 1..Len(tasks)
      /\ tasks'[Len(tasks) + 1] = task
      /\ \A t \in DOMAIN tasks : tasks'[t] = tasks[t]
  BY <1>1
<1>3. ASSUME NEW t \in DOMAIN tasks' PROVE TaskFits(t, tasks'[t])
  <2>1. CASE t \in DOMAIN tasks
    BY <1>2, <2>1 DEF TasksFit
  <2>2. CASE t = Len(tasks) + 1
    <3>1. task.parent \in Nat /\ task.gen \in Nat
      BY DEF Task
    <3> QED BY <1>2, <2>2, <3>1 DEF TaskFits
  <2> QED BY <1>2, <2>1, <2>2
<1>4. Len(tasks') <= MaxMade
  BY <1>1, <1>2 DEF BoundsSound
<1> QED BY <1>3, <1>4 DEF TasksFit, TaskFits

\* A question to a human fits.
LEMMA AskingFits ==
    ASSUME Types, TasksFit, BoundsSound, window' = window,
           Follow!AskHuman \/ UNCHANGED tasks
    PROVE  TasksFit'
<1>1. CASE UNCHANGED tasks
  BY <1>1 DEF TasksFit, TaskFits
<1>2. ASSUME Follow!Insert(Follow!Made(0, "human", 0, 0)) PROVE TasksFit'
  <2> DEFINE task == Follow!Made(0, "human", 0, 0)
  <2>1. /\ task \in Task /\ task.parent = 0 /\ task.gen = 0 /\ task.depth = 0
        /\ task.born = 0 /\ 0 <= window /\ 0 <= Len(tasks)
    <3>1. task \in Task
      BY SlotRecords DEF Follow!Purposes
    <3>2. task.parent = 0 /\ task.gen = 0 /\ task.depth = 0 /\ task.born = 0
      BY DEF Follow!Made
    <3>3. 0 <= window /\ 0 <= Len(tasks)
      BY DEF Types
    <3> QED BY <3>1, <3>2, <3>3
  <2>2. Follow!Insert(task)
    BY <1>2
  <2> HIDE DEF task
  <2> QED BY <2>1, <2>2, InsertFits
<1> QED BY <1>1, <1>2 DEF Follow!AskHuman

\* A worker goes on, with what it had, with what it had read, or idle.
LEMMA GoingFits ==
    ASSUME Types, Bounded, NEW w \in Workers, NEW q, Follow!Become(w, q), SlotFits(q),
           window' = window, TasksFit', MarksFit'
    PROVE  Bounded'
<1>1. \A v \in Workers : follower'[v] = IF v = w THEN q ELSE follower[v]
  BY DEF Types, Follow!Become
<1>2. \A v \in Workers : SlotFits(follower'[v])
  BY <1>1 DEF Bounded, SlotsFit
<1>3. SlotsFit'
  BY <1>2 DEF SlotsFit, SlotFits
<1> QED BY <1>3 DEF Bounded

\* What is known of a busy worker and its task.
LEMMA BusyFits ==
    ASSUME Types, Bounded, NEW w \in Workers, follower[w].pc # "idle"
    PROVE  /\ follower[w] \in Slot /\ SlotFits(follower[w])
           /\ follower[w].depth < follower[w].task
           /\ follower[w].task \in Nat /\ follower[w].task # 0
           /\ follower[w].task <= Len(tasks) /\ Len(tasks) \in Nat
           /\ TaskFits(follower[w].task, tasks[follower[w].task])
           /\ 0 <= window
           /\ SlotFits(Follow!Idle) /\ SlotFits(Follow!After(w))
<1>1. /\ follower[w] \in Slot /\ SlotFits(follower[w]) /\ follower[w].task \in DOMAIN tasks
      /\ tasks \in Seq(Task) /\ window \in Nat
  BY DEF Types, Bounded, SlotsFit
<1>2. /\ follower[w].depth < follower[w].task /\ follower[w].depth \in Nat
      /\ follower[w].task \in 1..Len(tasks) /\ Len(tasks) \in Nat
      /\ TaskFits(follower[w].task, tasks[follower[w].task])
  BY <1>1 DEF SlotFits, Slot, Bounded, TasksFit
<1>3. SlotFits(Follow!Idle)
  BY <1>1 DEF SlotFits, Follow!Idle
<1>4. SlotFits(Follow!After(w))
  <2> DEFINE a == Follow!After(w)
  <2>1. /\ a.pc \in {"load", "rules"} /\ a.task = follower[w].task
        /\ a.depth \in {0, follower[w].depth} /\ a.born = 0
    BY DEF Follow!After, Follow!Idle
  <2> HIDE DEF a
  <2> QED BY <1>1, <1>2, <2>1 DEF SlotFits, a
<1> QED BY <1>1, <1>2, <1>3, <1>4

LEMMA BoundedStay ==
    ASSUME Types, Bounded, BoundsSound, [Follow!Next]_(Follow!vars)
    PROVE  Bounded'
<1>0. TasksFit /\ MarksFit /\ window \in Nat
  BY DEF Bounded, Types
<1>a. ASSUME UNCHANGED <<tasks, window>> PROVE TasksFit'
  BY <1>0, <1>a DEF TasksFit, TaskFits
<1>b. ASSUME UNCHANGED <<emitted, window, reopened>>, misread' \in BOOLEAN PROVE MarksFit'
  BY <1>0, <1>b DEF MarksFit
<1>c. ASSUME NEW w \in Workers, follower[w].pc # "idle", NEW pc \in Steps \ {"idle", "store"}
      PROVE  /\ SlotFits([follower[w] EXCEPT !.pc = pc])
             /\ \A depth \in {tasks[follower[w].task].depth} :
                   SlotFits([follower[w] EXCEPT !.pc = pc, !.depth = depth])
             /\ \A purpose \in Follow!Purposes :
                   /\ SlotFits([follower[w] EXCEPT !.pc = pc, !.purpose = purpose])
                   /\ SlotFits([follower[w] EXCEPT !.pc = pc, !.purpose = purpose,
                                                   !.born = window])
  <2>1. /\ follower[w] \in Slot /\ follower[w].born <= window
        /\ follower[w].depth < follower[w].task
        /\ tasks[follower[w].task].depth < follower[w].task
    BY <1>c, BusyFits DEF SlotFits, TaskFits
  <2> QED BY <1>0, <1>c, <2>1 DEF SlotFits, Slot
<1>1. ASSUME NEW w \in Workers, NEW t \in DOMAIN tasks, NEW failure \in BOOLEAN,
             Follow!Receive(w, t, failure)
      PROVE  Bounded'
  <2> DEFINE q == [Follow!Idle EXCEPT !.pc = IF failure THEN "examine" ELSE "load", !.task = t]
  <2>1. Follow!Become(w, q) /\ UNCHANGED <<tasks, emitted, window, misread, reopened>>
    BY <1>1 DEF Follow!Receive
  <2>2. t \in Nat /\ 0 < t
    BY DEF Types
  <2>3. SlotFits(q)
    BY <1>0, <2>2 DEF SlotFits, Follow!Idle
  <2> HIDE DEF q
  <2> QED BY <1>0, <1>a, <1>b, <2>1, <2>3, GoingFits DEF MarksFit
<1>2. ASSUME NEW w \in Workers, Follow!Examine(w) PROVE Bounded'
  <2> DEFINE pc == IF tasks[follower[w].task].depth >= MaxFollowUps THEN "load" ELSE "emit"
  <2>1. /\ follower[w].pc # "idle"
        /\ Follow!Become(w, [follower[w] EXCEPT !.pc = pc,
                                               !.depth = tasks[follower[w].task].depth])
        /\ UNCHANGED <<tasks, emitted, window, reopened>> /\ misread' \in BOOLEAN
    BY <1>2 DEF Follow!Examine, Follow!At, Follow!ReadDepth
  <2>2. pc \in Steps \ {"idle", "store"}
    BY DEF Steps
  <2> HIDE DEF pc
  <2> QED BY <1>a, <1>b, <1>c, <2>1, <2>2, GoingFits
<1>3. ASSUME NEW w \in Workers, Follow!Emit(w) PROVE Bounded'
  <2>1. /\ follower[w].pc # "idle" /\ UNCHANGED <<tasks, window, misread, reopened>>
        /\ \/ /\ Follow!Become(w, [follower[w] EXCEPT !.pc = "load"])
              /\ UNCHANGED emitted
           \/ /\ Follow!Become(w, [follower[w] EXCEPT !.pc = "duplicate",
                                     !.purpose = "investigate", !.born = window])
              /\ emitted' = emitted \cup {follower[w].task}
    BY <1>3 DEF Follow!Emit, Follow!At, Follow!Goto
  <2>2. emitted' \subseteq 0..MaxMade
    <3>1. follower[w].task \in 0..MaxMade
      BY <1>0, <2>1, BusyFits DEF TasksFit, BoundsSound
    <3> QED BY <1>0, <2>1, <3>1 DEF MarksFit
  <2>3. MarksFit'
    BY <1>0, <2>1, <2>2 DEF MarksFit
  <2>4. {"load", "duplicate"} \subseteq Steps \ {"idle", "store"}
        /\ "investigate" \in Follow!Purposes
    BY DEF Steps, Follow!Purposes
  <2>5. CASE Follow!Become(w, [follower[w] EXCEPT !.pc = "load"])
    BY <1>a, <1>c, <2>1, <2>3, <2>4, <2>5, GoingFits
  <2>6. CASE Follow!Become(w, [follower[w] EXCEPT !.pc = "duplicate",
                                !.purpose = "investigate", !.born = window])
    BY <1>a, <1>c, <2>1, <2>3, <2>4, <2>6, GoingFits
  <2> QED BY <2>1, <2>5, <2>6
<1>4. ASSUME NEW w \in Workers, Follow!Load(w) PROVE Bounded'
  <2>1. /\ follower[w].pc # "idle"
        /\ UNCHANGED <<emitted, window, reopened>>
        /\ \/ Follow!AskHuman /\ Follow!Become(w, Follow!Idle) /\ UNCHANGED misread
           \/ /\ Follow!Become(w, [follower[w] EXCEPT !.pc = "rules",
                                     !.depth = tasks[follower[w].task].depth])
              /\ UNCHANGED tasks /\ misread' \in BOOLEAN
    BY <1>4 DEF Follow!Load, Follow!At, Follow!Done, Follow!ReadDepth
  <2>2. CASE Follow!AskHuman /\ Follow!Become(w, Follow!Idle) /\ UNCHANGED misread
    BY <1>0, <1>b, <2>1, <2>2, AskingFits, BusyFits, GoingFits DEF MarksFit
  <2>3. CASE /\ Follow!Become(w, [follower[w] EXCEPT !.pc = "rules",
                                    !.depth = tasks[follower[w].task].depth])
             /\ UNCHANGED tasks /\ misread' \in BOOLEAN
    <3>1. "rules" \in Steps \ {"idle", "store"}
      BY DEF Steps
    <3> QED BY <1>a, <1>b, <1>c, <2>1, <2>3, <3>1, GoingFits
  <2> QED BY <2>1, <2>2, <2>3
<1>5. ASSUME NEW w \in Workers, Follow!ApplyRule(w) PROVE Bounded'
  <2>1. /\ follower[w].pc # "idle" /\ UNCHANGED <<emitted, window, misread, reopened>>
        /\ \/ Follow!Become(w, Follow!Idle) /\ (Follow!AskHuman \/ UNCHANGED tasks)
           \/ /\ \E pc \in {"duplicate", "create"} :
                    Follow!Become(w, [follower[w] EXCEPT !.pc = pc, !.purpose = "rule"])
              /\ UNCHANGED tasks
    BY <1>5 DEF Follow!ApplyRule, Follow!At, Follow!Done
  <2>2. MarksFit'
    BY <1>0, <1>b, <2>1 DEF MarksFit
  <2>3. CASE Follow!Become(w, Follow!Idle) /\ (Follow!AskHuman \/ UNCHANGED tasks)
    BY <1>0, <2>1, <2>2, <2>3, AskingFits, BusyFits, GoingFits
  <2>4. ASSUME NEW pc \in {"duplicate", "create"}, UNCHANGED tasks,
               Follow!Become(w, [follower[w] EXCEPT !.pc = pc, !.purpose = "rule"])
        PROVE  Bounded'
    <3>1. pc \in Steps \ {"idle", "store"} /\ "rule" \in Follow!Purposes
      BY DEF Steps, Follow!Purposes
    <3> QED BY <1>a, <1>c, <2>1, <2>2, <2>4, <3>1, GoingFits
  <2> QED BY <2>1, <2>3, <2>4
<1>6. ASSUME NEW w \in Workers, Follow!CheckDuplicate(w) PROVE Bounded'
  <2>1. /\ follower[w].pc # "idle" /\ UNCHANGED <<tasks, emitted, window, misread, reopened>>
        /\ \/ Follow!Become(w, Follow!After(w))
           \/ Follow!Become(w, [follower[w] EXCEPT !.pc = "create"])
    BY <1>6 DEF Follow!CheckDuplicate, Follow!At, Follow!Goto
  <2>2. MarksFit' /\ TasksFit' /\ "create" \in Steps \ {"idle", "store"}
    BY <1>0, <1>a, <1>b, <2>1 DEF MarksFit, Steps
  <2> QED BY <1>c, <2>1, <2>2, BusyFits, GoingFits
<1>7. ASSUME NEW w \in Workers, Follow!Create(w) PROVE Bounded'
  <2> DEFINE gen == tasks[follower[w].task].gen + 1
             task == Follow!Made(follower[w].task, follower[w].purpose, gen, follower[w].born)
             child == Len(tasks) + 1
             q == [follower[w] EXCEPT !.pc = "store", !.child = child]
  <2>1. /\ follower[w].pc # "idle" /\ Follow!Become(w, q) /\ Follow!Insert(task)
        /\ UNCHANGED <<emitted, window, misread, reopened>>
    BY <1>7 DEF Follow!Create, Follow!At
  <2>2. /\ follower[w] \in Slot /\ follower[w].task <= Len(tasks) /\ Len(tasks) \in Nat
        /\ follower[w].born <= window /\ follower[w].depth < follower[w].task
        /\ follower[w].task \in Nat /\ follower[w].depth \in Nat
        /\ tasks[follower[w].task].gen < follower[w].task
        /\ tasks[follower[w].task].gen \in Nat
    BY <2>1, BusyFits, SlotTypes DEF SlotFits, TaskFits
  <2>3. SlotFits(q)
    <3>1. follower[w].task < child
      BY <2>2
    <3> HIDE DEF child
    <3> QED BY <2>2, <3>1 DEF SlotFits, Slot
  <2>4. gen \in Nat /\ gen <= Len(tasks)
    BY <2>2
  <2> HIDE DEF gen, q, child
  <2>5. /\ task \in Task /\ task.parent <= Len(tasks) /\ task.gen <= Len(tasks)
        /\ task.depth = 0 /\ task.born <= window
    <3>1. task \in Task
      BY <2>2, <2>4, SlotRecords DEF Slot
    <3>2. /\ task.parent = follower[w].task /\ task.gen = gen /\ task.depth = 0
          /\ task.born = follower[w].born
      BY DEF Follow!Made
    <3> QED BY <2>2, <2>4, <3>1, <3>2
  <2> HIDE DEF task
  <2>6. TasksFit' /\ MarksFit'
    BY <1>0, <1>b, <2>1, <2>5, InsertFits DEF MarksFit
  <2> QED BY <2>1, <2>3, <2>6, GoingFits
<1>8. ASSUME NEW w \in Workers, Follow!CreateFails(w) PROVE Bounded'
  <2>1. /\ follower[w].pc # "idle" /\ UNCHANGED <<emitted, window, misread, reopened>>
        /\ Follow!Become(w, Follow!After(w)) /\ (Follow!AskHuman \/ UNCHANGED tasks)
    BY <1>8 DEF Follow!CreateFails, Follow!At
  <2>2. TasksFit' /\ MarksFit'
    BY <1>0, <1>b, <2>1, AskingFits DEF MarksFit
  <2> QED BY <2>1, <2>2, BusyFits, GoingFits
<1>9. ASSUME NEW w \in Workers, Follow!StoreDepth(w) PROVE Bounded'
  <2>1. /\ follower[w].pc = "store" /\ UNCHANGED <<emitted, window, misread, reopened>>
        /\ Follow!Become(w, Follow!After(w))
    BY <1>9 DEF Follow!StoreDepth, Follow!At
  <2>2. /\ follower[w].depth \in Nat /\ follower[w].task \in Nat /\ follower[w].child \in Nat
        /\ follower[w].depth < follower[w].task /\ follower[w].task < follower[w].child
    BY <2>1, BusyFits, SlotTypes DEF SlotFits
  <2>3. follower[w].depth + 1 < follower[w].child
    BY <2>2
  <2>4. ASSUME NEW t \in DOMAIN tasks PROVE TaskFits(t, tasks'[t])
    BY <1>0, <1>9, <2>3, DepthStored DEF TasksFit, TaskFits
  <2>5. Len(tasks') = Len(tasks) /\ DOMAIN tasks' = DOMAIN tasks
    BY <1>9, DepthStored DEF Types
  <2>6. TasksFit' /\ MarksFit'
    BY <1>0, <1>b, <2>1, <2>4, <2>5 DEF MarksFit, TasksFit, TaskFits
  <2> QED BY <2>1, <2>6, BusyFits, GoingFits
<1>10. ASSUME NEW w \in Workers, Follow!StoreFails(w) PROVE Bounded'
  <2>1. /\ follower[w].pc # "idle" /\ UNCHANGED <<tasks, emitted, window, reopened>>
        /\ Follow!Become(w, Follow!After(w)) /\ misread' \in BOOLEAN
    BY <1>10 DEF Follow!StoreFails, Follow!At
  <2> QED BY <1>a, <1>b, <2>1, BusyFits, GoingFits
<1>d. ASSUME UNCHANGED <<follower, window>>, TasksFit', MarksFit' PROVE Bounded'
  <2>1. SlotsFit'
    BY <1>d DEF Bounded, SlotsFit, SlotFits
  <2> QED BY <1>d, <2>1 DEF Bounded
<1>11. ASSUME NEW t \in DOMAIN tasks, Follow!Finish(t) \/ Follow!Reopen(t) PROVE Bounded'
  <2>1. PICK open \in BOOLEAN : tasks' = [tasks EXCEPT ![t].open = open]
    BY <1>11 DEF Follow!Finish, Follow!Reopen
  <2>2. UNCHANGED <<follower, window, emitted, misread>> /\ reopened' \in {reopened, TRUE}
    BY <1>11 DEF Follow!Finish, Follow!Reopen
  <2>3. ASSUME NEW u \in DOMAIN tasks PROVE TaskFits(u, tasks'[u])
    BY <1>0, <2>1, OpenedOrClosed DEF TasksFit, TaskFits
  <2>4. Len(tasks') = Len(tasks) /\ DOMAIN tasks' = DOMAIN tasks
    BY <2>1, OpenedOrClosed DEF Types
  <2>5. TasksFit'
    BY <1>0, <2>2, <2>3, <2>4 DEF TasksFit, TaskFits
  <2>6. MarksFit'
    BY <1>0, <2>2 DEF MarksFit
  <2> QED BY <1>d, <2>2, <2>5, <2>6
<1>12. ASSUME Follow!SpawnIdlePlanner PROVE Bounded'
  <2> DEFINE task == Follow!Made(0, "planner", 0, 0)
  <2>1. /\ Follow!Insert(task) /\ UNCHANGED <<follower, window, misread, reopened>>
        /\ emitted' = emitted \cup {0}
    BY <1>12 DEF Follow!SpawnIdlePlanner
  <2>2. /\ task \in Task /\ task.parent = 0 /\ task.gen = 0 /\ task.depth = 0
        /\ task.born = 0 /\ 0 <= window /\ 0 <= Len(tasks)
    <3>1. task \in Task
      BY SlotRecords DEF Follow!Purposes
    <3>2. task.parent = 0 /\ task.gen = 0 /\ task.depth = 0 /\ task.born = 0
      BY DEF Follow!Made
    <3>3. 0 <= window /\ 0 <= Len(tasks)
      BY DEF Types
    <3> QED BY <3>1, <3>2, <3>3
  <2> HIDE DEF task
  <2>3. TasksFit'
    BY <1>0, <2>1, <2>2, InsertFits
  <2>4. 0 \in 0..MaxMade
    BY DEF BoundsSound
  <2>5. MarksFit'
    BY <1>0, <2>1, <2>4 DEF MarksFit
  <2> QED BY <1>d, <2>1, <2>3, <2>5
<1>13. CASE Follow!NextWindow
  <2>1. /\ window' = window + 1 /\ window < MaxWindow /\ emitted' = {}
        /\ UNCHANGED <<tasks, follower, misread, reopened>>
    BY <1>13 DEF Follow!NextWindow
  <2>2. ASSUME NEW n, n \in Nat, n <= window PROVE n <= window'
    BY <1>0, <2>1, <2>2
  <2>3. ASSUME NEW t \in DOMAIN tasks PROVE TaskFits(t, tasks[t])'
    <3>1. TaskFits(t, tasks[t]) /\ tasks[t] \in Task
      BY <1>0 DEF TasksFit, Types
    <3>2. tasks[t].born \in Nat
      BY <3>1 DEF Task
    <3> QED BY <2>1, <2>2, <3>1, <3>2 DEF TaskFits
  <2>4. ASSUME NEW w \in Workers PROVE SlotFits(follower[w])'
    <3>1. SlotFits(follower[w]) /\ follower[w].born \in Nat
      BY DEF Bounded, SlotsFit, Types, Slot
    <3> QED BY <2>1, <2>2, <3>1 DEF SlotFits
  <2>5. window' <= MaxWindow
    BY <1>0, <2>1 DEF BoundsSound
  <2>6. TasksFit' /\ SlotsFit' /\ MarksFit'
    BY <1>0, <2>1, <2>3, <2>4, <2>5 DEF TasksFit, SlotsFit, MarksFit
  <2> QED BY <2>6 DEF Bounded
<1>14. CASE Follow!Crash
  <2>1. /\ \A w \in Workers : follower'[w] = Follow!Idle
        /\ UNCHANGED <<tasks, emitted, window, reopened>> /\ misread' \in BOOLEAN
    BY <1>14 DEF Follow!Crash
  <2>2. SlotFits(Follow!Idle)'
    BY <1>0, <2>1 DEF SlotFits, Follow!Idle
  <2>3. SlotsFit'
    BY <2>1, <2>2 DEF SlotsFit
  <2> QED BY <1>a, <1>b, <2>1, <2>3 DEF Bounded
<1>15. CASE UNCHANGED Follow!vars
  BY <1>0, <1>a, <1>b, <1>d, <1>15 DEF Follow!vars, MarksFit
<1> QED
  BY <1>1, <1>2, <1>3, <1>4, <1>5, <1>6, <1>7, <1>8, <1>9, <1>10, <1>11, <1>12, <1>13, <1>14,
     <1>15 DEF Follow!Next

\* Every variable of the follow-ups has its type, for any bounds: depths and
\* generations never exceed the number of tasks before, however they are read and
\* stored.
THEOREM FollowUpsTypeCorrect == Follow!Spec => []Follow!TypeOK
<1> USE EngineAssumption
<1>1. Follow!Init => Types /\ Bounded
  <2> SUFFICES ASSUME Follow!Init PROVE Bounded
    BY FollowTypesHold
  <2> DEFINE task == Follow!Made(0, "user", 0, 0)
  <2>1. /\ tasks = <<task>> /\ window = 0 /\ emitted = {} /\ misread = FALSE
        /\ reopened = FALSE /\ \A w \in Workers : follower[w] = Follow!Idle
    BY DEF Follow!Init
  <2>2. task.parent = 0 /\ task.depth = 0 /\ task.gen = 0 /\ task.born = 0
    BY DEF Follow!Made
  <2> HIDE DEF task
  <2>3. Len(tasks) = 1 /\ DOMAIN tasks = {1} /\ tasks[1] = task
    BY <2>1
  <2>4. 1 <= MaxMade /\ 0 <= MaxWindow
    BY DEF BoundsSound
  <2>5. TasksFit
    <3>1. \A t \in DOMAIN tasks : t = 1 /\ tasks[t] = task
      BY <2>3
    <3>2. TaskFits(1, task)
      BY <2>1, <2>2 DEF TaskFits
    <3> QED BY <2>3, <2>4, <3>1, <3>2 DEF TasksFit
  <2>7. MarksFit
    BY <2>1, <2>4 DEF MarksFit
  <2>6. SlotsFit
    BY <2>1 DEF SlotsFit, SlotFits, Follow!Idle
  <2> QED BY <2>5, <2>6, <2>7 DEF Bounded
<1>2. Types /\ Bounded /\ [Follow!Next]_(Follow!vars) => (Types /\ Bounded)'
  BY TypesStay, BoundedStay
<1>3. Types /\ Bounded => Follow!TypeOK
  BY BoundedIsTyped
<1> QED BY <1>1, <1>2, <1>3, PTL DEF Follow!Spec
=============================================================================

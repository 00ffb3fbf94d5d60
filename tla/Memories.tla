------------------------------ MODULE Memories -------------------------------
(***************************************************************************)
(* What a project remembers of its tasks, and what an agent that claims a  *)
(* task is told of it.  A completion makes candidates, one in each scope   *)
(* its summary speaks of, and writes those whose content no row of their   *)
(* scope has and whose key has no row of the last day; a failure writes    *)
(* one under the kind of its error.  Each look and each write is a         *)
(* statement of its own, and completions of several tasks overlap; a look  *)
(* that fails finds nothing, and the error of a write is only reported.    *)
(*                                                                         *)
(* A summary is known by its content hash; redaction, scores and the order *)
(* they give are left out.  A memory, a file, a run and an artifact count  *)
(* one towards the size of what is told.                                   *)
(***************************************************************************)
EXTENDS Naturals, Sequences, FiniteSets, SequencesExt

CONSTANTS
    Tasks,          \* tasks that may be completed
    Summaries,      \* what their summaries may be, up to the hash
    Errors,         \* kinds of errors
    UserKeys,       \* scopes and keys users write
    MaxMemories,    \* memories an agent is told at most
    MaxItems        \* bound: files, artifacts and runs there are to tell

NoHash == "no hash"     \* rows of failures have none, and most of users
NoRow == [hash |-> NoHash, by |-> "none", recent |-> FALSE]

\* Scopes by falling confidence; every summary has the last.  Three
\* that are treated like the last, but for its being certain, are left out.
Scopes == <<"constraint", "completion">>
Keys == (ToSet(Scopes) \X Tasks) \cup ({"failure_pattern"} \X Errors) \cup UserKeys

VARIABLES
    memory,     \* the row of each scope and key, or NoRow
    finisher,   \* the completion of each task: where it is, candidates to come
    together,   \* history: pairs of tasks whose completions were once under way together
    unread      \* history: tasks whose completion once could not look for its hash

vars == <<memory, finisher, together, unread>>

Idle == [pc |-> "idle", hash |-> NoHash, todo |-> <<>>]

TypeOK ==
    /\ memory \in [Keys -> [hash : Summaries \cup {NoHash}, recent : BOOLEAN,
                            by : Tasks \cup {"none", "user", "failure"}]]
    /\ \A t \in Tasks :
          /\ finisher[t].pc \in {"idle", "hash", "key", "write"}
          /\ finisher[t].hash \in Summaries \cup {NoHash}
          /\ finisher[t].todo \in BoundedSeq(ToSet(Scopes), Len(Scopes))
    /\ together \subseteq SUBSET Tasks
    /\ unread \subseteq Tasks

Init ==
    /\ memory = [k \in Keys |-> NoRow]
    /\ finisher = [t \in Tasks |-> Idle]
    /\ together = {}
    /\ unread = {}

At(t, pc) == finisher[t].pc = pc
UnderWay(t) == ~At(t, "idle")
Become(t, q) == finisher' = [finisher EXCEPT ![t] = q]
Scope(t) == Head(finisher[t].todo)

\* On to the next candidate, to look for its hash.
NextCandidate(t) ==
    Become(t, IF Len(finisher[t].todo) = 1 THEN Idle
              ELSE [finisher[t] EXCEPT !.pc = "hash", !.todo = Tail(@)])

-----------------------------------------------------------------------------
(* Learning.                                                               *)

\* createMemoryFromSummary with extractMemoryCandidates: `spoken` are the scopes
\* the summary's words call for; the last is appended in any case.  A task that was
\* opened again is completed again.
Complete(t, hash, spoken) ==
    /\ At(t, "idle")
    /\ LET candidates == IF "constraint" \in spoken THEN Scopes ELSE <<"completion">>
       IN Become(t, [pc |-> "hash", hash |-> hash, todo |-> candidates])
    /\ together' = together \cup {{t, u} : u \in {u \in Tasks : UnderWay(u)}}
    /\ UNCHANGED <<memory, unread>>

\* Slip: only recent rows are looked through.
IsDuplicateOfRecent(s, hash) ==
    \E k \in Keys : k[1] = s /\ memory[k].recent /\ memory[k].hash = hash

\* isDuplicateMemory looks through the rows of the scope, if they can be read.
IsDuplicate(s, hash) == \E k \in Keys : k[1] = s /\ memory[k].hash = hash

LookForHash(t, read) ==
    /\ At(t, "hash")
    /\ IF read /\ IsDuplicate(Scope(t), finisher[t].hash)
       THEN NextCandidate(t)
       ELSE Become(t, [finisher[t] EXCEPT !.pc = "key"])
    /\ unread' = IF read THEN unread ELSE unread \cup {t}
    /\ UNCHANGED <<memory, together>>

\* GetMemory: a row that was updated within a day stays, if it can be read.
LookForKey(t, read) ==
    /\ At(t, "key")
    /\ IF read /\ memory[<<Scope(t), t>>].recent
       THEN NextCandidate(t)
       ELSE Become(t, [finisher[t] EXCEPT !.pc = "write"])
    /\ UNCHANGED <<memory, together, unread>>

\* CreateMemory, which updates the row if there is one now ...
Write(t) ==
    /\ At(t, "write")
    /\ memory' = [memory EXCEPT ![<<Scope(t), t>>] =
                     [hash |-> finisher[t].hash, by |-> t, recent |-> TRUE]]
    /\ NextCandidate(t)
    /\ UNCHANGED <<together, unread>>

\* ... or fails; the other candidates are still written.
WriteFails(t) ==
    /\ At(t, "write")
    /\ NextCandidate(t)
    /\ UNCHANGED <<memory, together, unread>>

\* createMemoryFromFailure, and the worker of run.failed, which reads no row before.
Fail(e, read) ==
    /\ read => ~memory[<<"failure_pattern", e>>].recent
    /\ memory' = [memory EXCEPT ![<<"failure_pattern", e>>] =
                     [hash |-> NoHash, by |-> "failure", recent |-> TRUE]]
    /\ UNCHANGED <<finisher, together, unread>>

\* A user writes any key and any value, which may bring a hash along.
Put(k, hash) ==
    /\ memory' = [memory EXCEPT ![k] = [hash |-> hash, by |-> "user", recent |-> TRUE]]
    /\ UNCHANGED <<finisher, together, unread>>

Elapse ==
    /\ memory' = [k \in Keys |-> [memory[k] EXCEPT !.recent = FALSE]]
    /\ UNCHANGED <<finisher, together, unread>>

Next ==
    \/ \E t \in Tasks :
          \/ \E hash \in Summaries, spoken \in SUBSET ToSet(Scopes) : Complete(t, hash, spoken)
          \/ \E read \in BOOLEAN : LookForHash(t, read) \/ LookForKey(t, read)
          \/ Write(t) \/ WriteFails(t)
    \/ \E e \in Errors, read \in BOOLEAN : Fail(e, read)
    \/ \E k \in UserKeys, hash \in Summaries \cup {NoHash} : Put(k, hash)
    \/ Elapse

Spec == Init /\ [][Next]_vars

-----------------------------------------------------------------------------
(* Telling.                                                                *)

Rows == {k \in Keys : memory[k] # NoRow}
Mandatory(k) == k[1] = "constraint"

\* Of rows with one hash only the first that is read is a candidate.
Candidates(ks) ==
    {ks[i] : i \in {i \in DOMAIN ks : \A j \in 1..(i - 1) :
                       memory[ks[j]].hash = memory[ks[i]].hash => memory[ks[i]].hash = NoHash}}

\* assembleFilteredMemories: the mandatory rows, and candidates up to the limit,
\* which assembleContext sets for all of them.
FilteredMemories ==
    LET must == SetToSeq({k \in Rows : Mandatory(k)})
        may == SetToSeq(Candidates(SetToSeq({k \in Rows : ~Mandatory(k)})))
        all == must \o may
    IN SubSeq(all, 1, IF Len(all) < MaxMemories THEN Len(all) ELSE MaxMemories)

Size(ctx) == ctx.files + ctx.artifacts + ctx.runs + Len(ctx.memories)

\* Slip: the second half of the memories is kept.
LastHalf(seq) == SubSeq(seq, Len(seq) - Len(seq) \div 2 + 1, Len(seq))

FirstHalf(seq) == SubSeq(seq, 1, Len(seq) \div 2)

\* One round of enforceContextBudget.
Trimmed(ctx) ==
    IF ctx.files > 0 THEN [ctx EXCEPT !.files = @ \div 2]
    ELSE IF ctx.artifacts > 0 THEN [ctx EXCEPT !.artifacts = @ \div 2]
    ELSE IF ctx.runs > 0 THEN [ctx EXCEPT !.runs = @ \div 2]
    ELSE IF Len(ctx.memories) > 2 THEN [ctx EXCEPT !.memories = FirstHalf(@)]
    ELSE ctx

\* All of them, until it fits or stays as it is: a round that changes anything
\* makes it smaller.
WithinBudget(ctx, budget) ==
    LET after[n \in 0..Size(ctx)] ==
          IF n = 0 THEN ctx
          ELSE LET c == after[n - 1] IN IF Size(c) <= budget THEN c ELSE Trimmed(c)
    IN after[Size(ctx)]

-----------------------------------------------------------------------------
(* Properties.                                                             *)

\* Two rows of a scope that completions wrote say the same only if completions of the
\* two tasks overlapped, or if one of them could not read the rows when it looked for its
\* hash; whatever users, who may repeat any row, and failures wrote in between.
TwinsOverlapped ==
    \A j, k \in Rows :
        LET writers == {memory[j].by, memory[k].by} IN
        /\ j # k /\ j[1] = k[1] /\ "user" \notin writers
        /\ memory[j].hash = memory[k].hash /\ memory[j].hash # NoHash
        => writers \in together \/ writers \cap unread # {}

\* Whatever budget it exceeds, what is told loses a mandatory memory only when nothing
\* else is left to take, and exceeds it still only when two memories or fewer are left.
MandatoryGoLast ==
    (\A t \in Tasks : ~UnderWay(t)) =>
        LET memories == FilteredMemories IN
        \A files, artifacts, runs \in 0..MaxItems :
            LET whole == [files |-> files, artifacts |-> artifacts, runs |-> runs,
                          memories |-> memories]
                must(ctx) == {k \in ToSet(ctx.memories) : Mandatory(k)}
            IN \A budget \in 1..(Size(whole) - 1) :
                  LET told == WithinBudget(whole, budget)
                  IN /\ must(told) # must(whole) =>
                            told.files + told.artifacts + told.runs = 0
                              /\ ToSet(told.memories) = must(told)
                     /\ Size(told) > budget => Size(told) = Len(told.memories) /\ Size(told) <= 2
=============================================================================

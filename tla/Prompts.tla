------------------------------- MODULE Prompts -------------------------------
(***************************************************************************)
(* The versions of the prompts of one role in one project.  Creating one   *)
(* is three statements outside a transaction: the largest version is read, *)
(* the row is inserted as active, and the versions below it are set        *)
(* inactive; the table has at most one row of a version.  Activating one   *)
(* is a transaction.  What a planning stage uses is any active row.        *)
(*                                                                         *)
(* Names, texts and schemas are a content that stays or is edited.         *)
(***************************************************************************)
EXTENDS Naturals, FiniteSets, FiniteSetsExt

CONSTANTS
    Creators,       \* requests that create or seed
    Editors,        \* requests that edit a row
    Contents,
    MaxVersions     \* bound: the largest version

Versions == 1..MaxVersions

VARIABLES
    rows,       \* the rows of the role, by version: [active, content]
    creator,    \* what each creation has got to
    editor,     \* the version each edit has read
    used,       \* the version the last stage used, 0 if heuristics alone
    excused     \* history: a creation cut short, or of a version that was not
                \* the largest any more

vars == <<rows, creator, editor, used, excused>>

Idle == [pc |-> "idle", version |-> 0]

TypeOK ==
    /\ DOMAIN rows \subseteq Versions
    /\ \A v \in DOMAIN rows : rows[v] \in [active : BOOLEAN, content : Contents]
    /\ creator \in [Creators -> [pc : {"idle", "read", "insert", "deactivate"},
                                 version : 0..MaxVersions]]
    /\ editor \in [Editors -> 0..MaxVersions]
    /\ used \in 0..MaxVersions
    /\ excused \in BOOLEAN

Init ==
    /\ rows = [v \in {} |-> 0]
    /\ creator = [c \in Creators |-> Idle]
    /\ editor = [e \in Editors |-> 0]
    /\ used = 0
    /\ excused = FALSE

At(c, pc) == creator[c].pc = pc
Become(c, q) == creator' = [creator EXCEPT ![c] = q]

Active == {v \in DOMAIN rows : rows[v].active}
Inactive(vs) == [v \in DOMAIN rows |-> [rows[v] EXCEPT !.active = @ /\ v \notin vs]]

-----------------------------------------------------------------------------

\* POST, and SeedBuiltInPrompts where it has found no prompt.
Begin(c, seed) ==
    /\ At(c, "idle")
    /\ seed => DOMAIN rows = {}
    /\ Become(c, [Idle EXCEPT !.pc = "read"])
    /\ UNCHANGED <<rows, editor, used, excused>>

\* CreatePromptTemplate reads the largest version ...
ReadMax(c) ==
    /\ At(c, "read")
    /\ Max(DOMAIN rows \cup {0}) < MaxVersions
    /\ Become(c, [pc |-> "insert", version |-> Max(DOMAIN rows \cup {0}) + 1])
    /\ UNCHANGED <<rows, editor, used, excused>>

\* ... inserts the next, which fails if another request has done so ...
Insert(c, content) ==
    /\ At(c, "insert")
    /\ LET v == creator[c].version IN
         IF v \in DOMAIN rows
         THEN Become(c, Idle) /\ UNCHANGED <<rows, excused>>
         ELSE /\ rows' = [w \in DOMAIN rows \cup {v} |->
                            IF w = v THEN [active |-> TRUE, content |-> content] ELSE rows[w]]
              /\ excused' = (excused \/ \E w \in DOMAIN rows : w > v)
              /\ Become(c, [creator[c] EXCEPT !.pc = "deactivate"])
    /\ UNCHANGED <<editor, used>>

\* Slip: only the version before is set inactive.
DeactivatePrevious(c) ==
    /\ At(c, "deactivate")
    /\ rows' = Inactive({creator[c].version - 1})
    /\ Become(c, Idle)
    /\ UNCHANGED <<editor, used, excused>>

\* ... and sets those below inactive.  Its error is not looked at.
Deactivate(c) ==
    /\ At(c, "deactivate")
    /\ rows' = Inactive(1..(creator[c].version - 1))
    /\ Become(c, Idle)
    /\ UNCHANGED <<editor, used, excused>>

\* The last statement fails, or the server stops before any of them.
CutShort(c) ==
    /\ ~At(c, "idle")
    /\ excused' = (excused \/ At(c, "deactivate"))
    /\ Become(c, Idle)
    /\ UNCHANGED <<rows, editor, used>>

\* ActivatePromptVersion; of a version that is not there it changes nothing.
Activate(v) ==
    /\ v \in DOMAIN rows
    /\ rows' = [w \in DOMAIN rows |-> [rows[w] EXCEPT !.active = (w = v)]]
    /\ UNCHANGED <<creator, editor, used, excused>>

\* PUT reads the row ...
ReadPrompt(e, v) ==
    /\ editor[e] = 0
    /\ v \in DOMAIN rows
    /\ editor' = [editor EXCEPT ![e] = v]
    /\ UNCHANGED <<rows, creator, used, excused>>

\* ... and writes its content where it still is, whether it is active or not; a
\* row made under the number since has an id of its own, and is spared.
WritePrompt(e, content) ==
    /\ editor[e] # 0
    /\ \/ /\ editor[e] \in DOMAIN rows
          /\ rows' = [rows EXCEPT ![editor[e]].content = content]
       \/ UNCHANGED rows
    /\ editor' = [editor EXCEPT ![e] = 0]
    /\ UNCHANGED <<creator, used, excused>>

DeletePrompt(v) ==
    /\ v \in DOMAIN rows
    /\ rows' = [w \in DOMAIN rows \ {v} |-> rows[w]]
    /\ UNCHANGED <<creator, editor, used, excused>>

\* GetActivePromptByRole takes the first active row the query yields, whichever
\* that is; without one, and without an executor, the stage runs on heuristics.
RunStage ==
    /\ \/ used' \in Active
       \/ Active = {} /\ used' = 0
    /\ UNCHANGED <<rows, creator, editor, excused>>

Next ==
    \/ \E c \in Creators :
          \/ \E seed \in BOOLEAN : Begin(c, seed)
          \/ ReadMax(c) \/ \E content \in Contents : Insert(c, content)
          \/ Deactivate(c) \/ CutShort(c)
    \/ \E v \in Versions : Activate(v) \/ DeletePrompt(v)
    \/ \E e \in Editors : \/ \E v \in Versions : ReadPrompt(e, v)
                          \/ \E content \in Contents : WritePrompt(e, content)
    \/ RunStage

Spec == Init /\ [][Next]_vars

-----------------------------------------------------------------------------
(* Properties.                                                             *)

\* Between creations at most one version is active, whatever was created at the
\* same time, edited, activated or deleted, unless a creation was cut short or
\* overtaken by a larger version: then stages use either of two.
OneActive ==
    (\A c \in Creators : ~At(c, "deactivate")) /\ ~excused => Cardinality(Active) <= 1
=============================================================================

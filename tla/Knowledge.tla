------------------------------ MODULE Knowledge ------------------------------
(***************************************************************************)
(* What the server knows of a project: the files it lists, the memories,   *)
(* and the context packs made from both; and the workers that carry a      *)
(* change of the repository through a scan to the packs.                   *)
(*                                                                         *)
(* CreateEvent runs the worker of an event on the caller's goroutine, so   *)
(* repo.changed, repo.scanned and context.invalidated, each emitted by the *)
(* worker of the one before, are one chain of steps.  Chains of different  *)
(* requests overlap.  An emission is recorded at most once per kind and    *)
(* window; a chain whose emission is a duplicate, or fails, ends.          *)
(*                                                                         *)
(* Two different walks list files: ScanProjectFiles leaves out what        *)
(* .gitignore names, the walk of the repo.scanned worker leaves out hidden *)
(* files and stops after MaxFiles.  Files are numbered as they are walked, *)
(* and as the rows are ordered.  What a scan cannot read or write, it      *)
(* leaves as it is, and goes on.                                           *)
(***************************************************************************)
EXTENDS Naturals, FiniteSets

CONSTANTS
    Workers,    \* chains of events that may run at the same time
    Paths,      \* files that may be on disk
    Hidden,     \* those whose name starts with a dot
    Ignored,    \* those .gitignore names
    MaxFiles,   \* files the repo.scanned worker looks at (1000 in the code)
    MaxRows,    \* rows it reads before (10000 in the code)
    Tasks       \* the tasks packs are for

VARIABLES
    disk,       \* the files of the project's workdir that can be read
    listed,     \* repo_files
    stale,      \* tasks without a pack, or whose newest pack is marked stale
    current,    \* the packs, and the workers about to write one, that hold what
                \* repo_files and memory say now
    emitted,    \* automation_emissions of this window
    worker,     \* the chains under way
    clean,      \* history: a scan began after the last change on disk, and since then
                \* every walk was made, read the rows it had to drop, and wrote its own
    excused     \* history: something has gone past the packs since they were marked

vars == <<disk, listed, stale, current, emitted, worker, clean, excused>>
files == <<disk, listed>>
packs == <<stale, current>>
histories == <<clean, excused>>

Kinds == {"repo.scanned", "context.invalidated", "context.refresh.queued"}
Idle == [pc |-> "idle", seen |-> {}, before |-> {}, todo |-> {}]

TypeOK ==
    /\ disk \subseteq Paths
    /\ listed \subseteq Paths
    /\ stale \subseteq Tasks
    /\ current \subseteq Tasks \cup Workers
    /\ emitted \subseteq Kinds
    /\ worker \in [Workers -> [pc : {"idle", "scan", "list", "walk", "save", "invalidate",
                                     "mark", "queue", "pack"},
                               seen : SUBSET Paths, before : SUBSET Paths,
                               todo : SUBSET Tasks]]
    /\ clean \in BOOLEAN
    /\ excused \in BOOLEAN

Init ==
    /\ disk \in SUBSET Paths
    /\ listed = {}
    /\ stale = Tasks
    /\ current = {}
    /\ emitted = {}
    /\ worker = [w \in Workers |-> Idle]
    /\ clean = FALSE
    /\ excused = FALSE

At(w, pc) == worker[w].pc = pc
Become(w, q) == worker' = [worker EXCEPT ![w] = q]
Goto(w, pc) == Become(w, [Idle EXCEPT !.pc = pc])
Done(w) == Become(w, Idle)
AllIdle == \A w \in Workers : At(w, "idle")

\* What is known changes: nothing made from it before is current.
LearnIf(changed) == current' = IF changed THEN {} ELSE current
Learn == LearnIf(TRUE)

\* TryRecordEmission: INSERT OR IGNORE under the key of kind and window.
Record(kind) == emitted' = emitted \cup {kind}
New(kind) == kind \notin emitted

-----------------------------------------------------------------------------
(* Scans.                                                                  *)

\* ScanProjectFiles.
Scannable == disk \ Ignored

\* The walk of the repo.scanned worker.
Walkable ==
    LET open == disk \ Hidden
    IN {p \in open : Cardinality({q \in open : q < p}) < MaxFiles}

\* ListRepoFiles with a limit, by path.
FirstRows == {p \in listed : Cardinality({q \in listed : q < p}) < MaxRows}

\* A worker reports files as changed: they are listed as they are named, there or not,
\* and their rows lose size and language.  One scan per project and window, and none
\* when the emission fails.
RepoChanged(w, changed) ==
    /\ At(w, "idle")
    /\ listed' = listed \cup changed
    /\ LearnIf(changed # {})
    /\ \/ /\ New("repo.scanned") /\ Record("repo.scanned")
          /\ Goto(w, "scan") /\ clean' = (clean \/ AllIdle) /\ UNCHANGED excused
       \/ /\ clean' = (clean /\ listed' = listed)
          /\ excused' = (excused \/ changed # {})
          /\ UNCHANGED <<emitted, worker>>
    /\ UNCHANGED <<disk, stale>>

\* The files on disk and then the rows are read, none when that fails, ...
Scan(w) ==
    /\ At(w, "scan")
    /\ \E before \in {listed, {}} :
          Become(w, [worker[w] EXCEPT !.pc = "list", !.seen = Scannable, !.before = before])
    /\ UNCHANGED <<files, packs, emitted, histories>>

\* Without a project or workdir, or when a file cannot be read, nothing is scanned and
\* repo.scanned is emitted all the same.
ScanFails(w) ==
    /\ At(w, "scan")
    /\ Goto(w, "walk")
    /\ UNCHANGED <<files, packs, emitted, histories>>

\* Slip: rows that were not seen stay.
AddSeen(w, failed) == listed \cup (worker[w].seen \ failed)

\* What was seen is listed, what was listed before and not seen is dropped, but for the
\* rows whose write failed, which is at most logged.
Synced(w, failed) ==
    (listed \cup (worker[w].seen \ failed)) \ ((worker[w].before \ worker[w].seen) \ failed)

\* ... the rows brought up to date, what they say included, and repo.scanned emitted.
List(w, failed) ==
    /\ At(w, "list")
    /\ listed' = Synced(w, failed)
    /\ LearnIf(listed' # listed \/ worker[w].seen \ failed # {})
    /\ Goto(w, "walk")
    /\ UNCHANGED <<disk, stale, emitted, histories>>

\* GET of the project's tree emits repo.scanned as well.
ReadTree(w) ==
    /\ At(w, "idle")
    /\ Goto(w, "walk")
    /\ UNCHANGED <<files, packs, emitted, histories>>

\* The repo.scanned worker reads rows and files again, its own way: the first MaxRows, or
\* none when that fails, ...
Walk(w) ==
    /\ At(w, "walk")
    /\ \E before \in {FirstRows, {}} :
          /\ Become(w, [worker[w] EXCEPT !.pc = "save", !.before = before, !.seen = Walkable])
          /\ clean' = (clean /\ listed \ before \subseteq Walkable)
    /\ UNCHANGED <<files, packs, emitted, excused>>

\* ... writes what it saw, and keeps a summary as a memory.
Save(w, failed) ==
    /\ At(w, "save")
    /\ listed' = Synced(w, failed)
    /\ clean' = (clean /\ listed' = Synced(w, {}))
    /\ Learn
    /\ Goto(w, "invalidate")
    /\ UNCHANGED <<disk, stale, emitted, excused>>

\* Without a workdir, or with one that is not there, it walks nothing and goes on.
WalkSkipped(w) ==
    /\ At(w, "walk")
    /\ Goto(w, "invalidate")
    /\ clean' = FALSE
    /\ UNCHANGED <<files, packs, emitted, excused>>

\* The event a chain was to go on with is not written, or its project cannot be read,
\* although the emission is recorded.
Lost(w) ==
    /\ worker[w].pc \in {"walk", "mark"}
    /\ Done(w)
    /\ clean' = (clean /\ ~At(w, "walk"))
    /\ excused' = TRUE
    /\ UNCHANGED <<files, packs, emitted>>

\* Requests that write rows and emit nothing.
Silently(rows) ==
    /\ listed' = rows
    /\ Learn
    /\ clean' = FALSE
    /\ excused' = TRUE
    /\ UNCHANGED <<disk, stale, emitted, worker>>

\* PUT of a file: its row may be there already, with other contents.
PutFile(p) == Silently(listed \cup {p})

\* DELETE of a file.
DropFile(p) == p \in listed /\ Silently(listed \ {p})

\* POST files/sync: what a client sent; `purge` drops the rest.  PutFile and
\* DropFile are what is seen of it when it overlaps with others.
SyncFiles(sent, purge) ==
    /\ sent # {} \/ purge
    /\ Silently(IF purge THEN sent ELSE listed \cup sent)

\* POST files/scan: what the scanner finds.
ScanFiles(purge) == SyncFiles(Scannable, purge)

EditDisk(now) ==
    /\ disk' = now
    /\ clean' = FALSE
    /\ UNCHANGED <<listed, packs, emitted, worker, excused>>

-----------------------------------------------------------------------------
(* Memories and packs.                                                     *)

\* PUT of a memory that is new and of a scope the worker takes for relevant.
Remember(w) ==
    /\ At(w, "idle")
    /\ Learn
    /\ Goto(w, "invalidate")
    /\ UNCHANGED <<files, stale, emitted, histories>>

\* Any other: memory.updated, a scope nobody asks for, or an event that is not written.
RememberQuietly ==
    /\ Learn
    /\ excused' = TRUE
    /\ UNCHANGED <<files, stale, emitted, worker, clean>>

\* context.invalidated: once per window, and not when the emission fails.
Invalidate(w) ==
    /\ At(w, "invalidate")
    /\ \/ /\ New("context.invalidated") /\ Record("context.invalidated")
          /\ Goto(w, "mark") /\ UNCHANGED excused
       \/ Done(w) /\ excused' = TRUE /\ UNCHANGED emitted
    /\ UNCHANGED <<files, packs, clean>>

\* Slip: the newest pack is marked in place of all.
MarkOne(w) ==
    /\ At(w, "mark")
    /\ \E t \in Tasks : stale' = stale \cup {t}
    /\ excused' = FALSE
    /\ Goto(w, "queue")
    /\ UNCHANGED <<files, current, emitted, clean>>

\* MarkContextPacksStale.  The worker would now make the packs of five queued tasks
\* again, but it asks for them in the order of "priority", which ListTasksV2 refuses:
\* the list is always an error, and no pack is made.
Mark(w) ==
    /\ At(w, "mark")
    /\ stale' = Tasks
    /\ excused' = FALSE
    /\ Goto(w, "queue")
    /\ UNCHANGED <<files, current, emitted, clean>>

\* When it fails, that is logged, and the worker goes on.
MarkFails(w) ==
    /\ At(w, "mark")
    /\ excused' = TRUE
    /\ Goto(w, "queue")
    /\ UNCHANGED <<files, packs, emitted, clean>>

\* A task to refresh them, once per window, and not when the emission fails.
QueueRefresh(w) ==
    /\ At(w, "queue")
    /\ \/ Record("context.refresh.queued")
       \/ UNCHANGED emitted
    /\ Done(w)
    /\ UNCHANGED <<files, packs, histories>>

\* POST of a context pack: it is put together, without the files when they cannot be
\* read, and then inserted.
MakePack(w, t) ==
    /\ At(w, "idle")
    /\ Become(w, [Idle EXCEPT !.pc = "pack", !.todo = {t}])
    /\ \/ current' = current \cup {w}
       \/ UNCHANGED current
    /\ UNCHANGED <<files, stale, emitted, histories>>

\* A pack is written; one made from what was known before the last change has
\* been overtaken by it, and one that lacks the files never was current.
Put(w, t) ==
    /\ stale' = stale \ {t}
    /\ current' = (IF w \in current THEN current \cup {t} ELSE current \ {t}) \ {w}
    /\ excused' = (excused \/ w \notin current)

InsertPack(w) ==
    /\ At(w, "pack")
    /\ \E t \in worker[w].todo : Put(w, t)
    /\ Done(w)
    /\ UNCHANGED <<files, emitted, clean>>

NextWindow ==
    /\ emitted' = {}
    /\ UNCHANGED <<files, packs, worker, histories>>

\* The server stops: the chains end where they are, the emissions stay.
Crash ==
    /\ ~AllIdle
    /\ worker' = [w \in Workers |-> Idle]
    /\ current' = current \ Workers
    /\ clean' = FALSE
    /\ excused' = TRUE
    /\ UNCHANGED <<files, stale, emitted>>

Next ==
    \/ \E w \in Workers :
          \/ Scan(w) \/ ScanFails(w) \/ ReadTree(w) \/ Walk(w) \/ WalkSkipped(w) \/ Lost(w)
          \/ Remember(w) \/ Invalidate(w) \/ Mark(w) \/ MarkFails(w) \/ QueueRefresh(w)
          \/ InsertPack(w)
          \/ \E changed \in SUBSET Paths : RepoChanged(w, changed)
          \/ \E failed \in SUBSET Paths : List(w, failed) \/ Save(w, failed)
          \/ \E t \in Tasks : MakePack(w, t)
    \/ \E p \in Paths : PutFile(p) \/ DropFile(p)
    \/ \E purge \in BOOLEAN : ScanFiles(purge) \/ \E sent \in SUBSET Paths : SyncFiles(sent, purge)
    \/ \E now \in SUBSET Paths : EditDisk(now)
    \/ RememberQuietly \/ NextWindow \/ Crash

Spec == Init /\ [][Next]_vars

-----------------------------------------------------------------------------
(* Properties.                                                             *)

\* When every chain has ended and one of them began after the last change on
\* disk, the rows are what the last walk may see, although the two walks undo
\* each other's work, chains overlap in any order, and the first of the two fails
\* in part or altogether; unless since then a walk had no workdir, had more rows to
\* drop than it reads, failed to write one, or was lost.
ScansSettle == AllIdle /\ clean => listed = Walkable

\* A chain that may still come to the marking.
Announcing ==
    \E w \in Workers : worker[w].pc \in {"scan", "list", "walk", "save", "invalidate", "mark"}

\* A pack that passes for fresh was made from what is known now, or a worker is on
\* its way to mark it, unless since the last marking a change was silent, was a second
\* one in its window, was overtaken by a pack made before it, or lost its worker to a
\* crash or a failed write, or a pack was made of files that could not be read.
FreshPacksAreCurrent ==
    ~excused /\ ~Announcing => Tasks \ stale \subseteq current
=============================================================================

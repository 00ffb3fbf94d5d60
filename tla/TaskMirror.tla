------------------------------ MODULE TaskMirror ------------------------------
(***************************************************************************)
(* What the v1 task stream promises: a client that is connected is shown   *)
(* the tasks as they are, or as they were not before the last change that  *)
(* was announced, and each announced change is followed by such a view.    *)
(***************************************************************************)
EXTENDS Naturals

CONSTANTS Clients

VARIABLES
    version,    \* changes of the tasks so far
    told,       \* the last change that was announced
    watching,   \* the clients connected
    view,       \* the version each client was last shown
    excused     \* clients whose last view could not be read

vars == <<version, told, watching, view, excused>>

Init ==
    /\ version = 0
    /\ told = 0
    /\ watching = {}
    /\ view = [c \in Clients |-> 0]
    /\ excused = {}

Change ==
    /\ version' = version + 1
    /\ told' \in {told, version'}
    /\ UNCHANGED <<watching, view, excused>>

Come(c) ==
    /\ c \notin watching
    /\ watching' = watching \cup {c}
    /\ view' = [view EXCEPT ![c] = 0]
    /\ excused' = excused \ {c}
    /\ UNCHANGED <<version, told>>

Show(c) ==
    /\ c \in watching
    /\ view' = [view EXCEPT ![c] = version]
    /\ excused' = excused \ {c}
    /\ UNCHANGED <<version, told, watching>>

Excuse(c) ==
    /\ c \in watching
    /\ excused' = excused \cup {c}
    /\ UNCHANGED <<version, told, watching, view>>

Go(c) ==
    /\ c \in watching
    /\ watching' = watching \ {c}
    /\ UNCHANGED <<version, told, view, excused>>

Behind(c) == view[c] < told /\ c \notin excused

Next == Change \/ \E c \in Clients : Come(c) \/ Show(c) \/ Excuse(c) \/ Go(c)

Spec ==
    /\ Init /\ [][Next]_vars
    /\ \A c \in Clients : WF_vars(Behind(c) /\ Show(c))
=============================================================================

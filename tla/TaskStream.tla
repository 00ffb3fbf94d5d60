------------------------------ MODULE TaskStream ------------------------------
(***************************************************************************)
(* The v1 stream of tasks (GET /events).  A change of the tasks is         *)
(* announced by broadcastUpdate, mostly on a goroutine of its own, which   *)
(* drops a token into the channel of each client; a token makes the client's *)
(* handler read the whole list and send it.                                *)
(*                                                                         *)
(* A list is the version of the tasks it shows.  Some handlers change      *)
(* tasks without an announcement (a v2 claim, the planning pipeline).  The *)
(* clients are those that ask for tasks and name no `since`, and the       *)
(* filter on a project is left out: broadcastUpdate does not look at it.   *)
(***************************************************************************)
EXTENDS Naturals

CONSTANTS
    Clients,    \* connections of the stream
    Buffer,     \* tokens a client's channel holds (10 in the code)
    MaxChanges  \* bound: changes of the tasks

ASSUME BufferAssumption == Buffer \in Nat \ {0}
ASSUME ChangesAssumption == MaxChanges \in Nat

VARIABLES
    version,    \* changes of the tasks so far
    told,       \* the last change with an announcement
    casts,      \* calls of broadcastUpdate under way
    conn,       \* the client's handler: "off", reading and sending a list, or in its loop
    tokens,     \* tokens in the client's channel
    view,       \* the version of the list last read for the client
    blind       \* clients whose last list could not be read

vars == <<version, told, casts, conn, tokens, view, blind>>

TypeOK ==
    /\ version \in 0..MaxChanges
    /\ told \in 0..version
    /\ casts \in 0..MaxChanges
    /\ conn \in [Clients -> {"off", "reading", "sending", "live"}]
    /\ tokens \in [Clients -> 0..Buffer]
    /\ view \in [Clients -> 0..MaxChanges]
    /\ blind \subseteq Clients

Init ==
    /\ version = 0
    /\ told = 0
    /\ casts = 0
    /\ conn = [c \in Clients |-> "off"]
    /\ tokens = [c \in Clients |-> 0]
    /\ view = [c \in Clients |-> 0]
    /\ blind = {}

\* Slip: the client is in the list only once it has its first data.
SubscribedLate(c) == conn[c] = "live"

\* The handler subscribes before it reads the first list.
Subscribed(c) == conn[c] # "off"

Change ==
    /\ version < MaxChanges
    /\ version' = version + 1

\* A handler that ends in `go broadcastUpdate(...)`, ...
ChangeTasks ==
    /\ Change
    /\ told' = version + 1
    /\ casts' = casts + 1
    /\ UNCHANGED <<conn, tokens, view, blind>>

\* ... and one that does not.
ChangeQuietly ==
    /\ Change
    /\ UNCHANGED <<told, casts, conn, tokens, view, blind>>

\* A full channel already holds a token, so another one is not needed.
Broadcast ==
    /\ casts > 0
    /\ casts' = casts - 1
    /\ tokens' = [c \in Clients |-> IF Subscribed(c) /\ tokens[c] < Buffer
                                    THEN tokens[c] + 1 ELSE tokens[c]]
    /\ UNCHANGED <<version, told, conn, view, blind>>

Join(c) ==
    /\ conn[c] = "off"
    /\ conn' = [conn EXCEPT ![c] = "reading"]
    /\ view' = [view EXCEPT ![c] = 0]
    /\ blind' = blind \ {c}
    /\ UNCHANGED <<version, told, casts, tokens>>

\* The list is read, ...
List(c) ==
    /\ conn[c] = "reading"
    /\ conn' = [conn EXCEPT ![c] = "sending"]
    /\ view' = [view EXCEPT ![c] = version]
    /\ blind' = blind \ {c}
    /\ UNCHANGED <<version, told, casts, tokens>>

\* ... and sent; ...
Send(c) ==
    /\ conn[c] = "sending"
    /\ conn' = [conn EXCEPT ![c] = "live"]
    /\ UNCHANGED <<version, told, casts, tokens, view, blind>>

\* ... when the query fails nothing is sent, and the token is gone.
ListFails(c) ==
    /\ conn[c] = "reading"
    /\ conn' = [conn EXCEPT ![c] = "live"]
    /\ blind' = blind \cup {c}
    /\ UNCHANGED <<version, told, casts, tokens, view>>

Take(c) ==
    /\ conn[c] = "live"
    /\ tokens[c] > 0
    /\ tokens' = [tokens EXCEPT ![c] = @ - 1]
    /\ conn' = [conn EXCEPT ![c] = "reading"]
    /\ UNCHANGED <<version, told, casts, view, blind>>

\* The loop notices that the client is gone; the channel is thrown away.
Leave(c) ==
    /\ conn[c] = "live"
    /\ conn' = [conn EXCEPT ![c] = "off"]
    /\ tokens' = [tokens EXCEPT ![c] = 0]
    /\ UNCHANGED <<version, told, casts, view, blind>>

ClientStep(c) == Join(c) \/ List(c) \/ ListFails(c) \/ Send(c) \/ Take(c) \/ Leave(c)

Next == ChangeTasks \/ ChangeQuietly \/ Broadcast \/ \E c \in Clients : ClientStep(c)

\* A goroutine that was started runs, a query and a write return, and a select with a
\* token in its channel takes it unless it finds its client gone.
Fairness ==
    /\ WF_vars(Broadcast)
    /\ \A c \in Clients :
          WF_vars(List(c) \/ ListFails(c)) /\ WF_vars(Send(c)) /\ WF_vars(Take(c))

Spec == Init /\ [][Next]_vars /\ Fairness

-----------------------------------------------------------------------------
(* Properties.                                                             *)

Sent(c) == conn[c] = "live" /\ c \notin blind

\* A client in its loop that has not seen the last announced change is about to
\* read the list: it has a token, or the announcement is still under way.  No
\* token may be lost that another one in the channel does not stand for.
StaleViewsAreDue ==
    \A c \in Clients : Sent(c) /\ view[c] < told => tokens[c] > 0 \/ casts > 0

\* The stream implements what TaskMirror promises: with the fairness above every
\* announced change reaches each client that stays.
Mirror == INSTANCE TaskMirror WITH watching <- {c \in Clients : conn[c] # "off"},
                                   excused <- blind

MirrorsTasks == Mirror!Spec
=============================================================================

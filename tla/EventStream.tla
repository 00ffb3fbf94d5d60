----------------------------- MODULE EventStream -----------------------------
(***************************************************************************)
(* The event log and its v2 stream: how events are written, announced and  *)
(* pruned, and what a client that replays the log and then follows the     *)
(* live events receives.                                                   *)
(*                                                                         *)
(* An event is its created_at: NowISO is read before the INSERT, so events *)
(* reach the table in any order.  CreateEvent announces an event after it  *)
(* was inserted; CreateEventTx announces it inside a transaction that may  *)
(* still be rolled back.  A client that loses its connection comes back    *)
(* with the newest event it has as `since`.                                *)
(*                                                                         *)
(* The filters on project and kind are left out: a client sees the events  *)
(* of its filter as if there were no others.                               *)
(***************************************************************************)
EXTENDS Naturals, Sequences, FiniteSets

CONSTANTS
    MaxEvents,  \* bound: events ever created
    Streams,    \* clients of the stream
    Buffer,     \* events a subscriber's channel holds (10 in the code)
    Limit,      \* events a replay returns at most
    MaxRows     \* rows the retention job leaves in the table

Events == 1..MaxEvents

VARIABLES
    event,      \* where an event is: see Stages
    announced,  \* events publishV2Event has been called for
    subs,       \* v2EventSubscribers
    conn,       \* where the handler of a client's connection is
    channel,    \* the subscriber's channel: "none", "open" or "closed"
    queue,      \* the events in the channel
    anchor,     \* the `since` of the connection, 0 when it has none
    first,      \* history: the `since` the client began with
    got,        \* the events the client has received
    missed      \* history: events the client was not sent, for a reason given below

vars == <<event, announced, subs, conn, channel, queue, anchor, first, got, missed>>
logVars == <<event, announced>>
clientVars == <<subs, conn, channel, queue, anchor, first, got, missed>>

\* Stamped: created_at is read.  Written: inserted by an open transaction.
\* Gone: pruned, or rolled back.
Stages == {"none", "stamped", "stampedTx", "written", "stored", "gone"}

TypeOK ==
    /\ event \in [Events -> Stages]
    /\ announced \subseteq Events
    /\ subs \subseteq Streams
    /\ conn \in [Streams -> {"off", "replay", "subscribe", "live", "leaving"}]
    /\ channel \in [Streams -> {"none", "open", "closed"}]
    /\ queue \in [Streams -> Seq(Events)]
    /\ anchor \in [Streams -> 0..MaxEvents]
    /\ first \in [Streams -> 0..MaxEvents]
    /\ got \in [Streams -> SUBSET Events]
    /\ missed \in [Streams -> SUBSET Events]

Init ==
    /\ event = [e \in Events |-> "none"]
    /\ announced = {}
    /\ subs = {}
    /\ conn = [s \in Streams |-> "off"]
    /\ channel = [s \in Streams |-> "none"]
    /\ queue = [s \in Streams |-> <<>>]
    /\ anchor = [s \in Streams |-> 0]
    /\ first = [s \in Streams |-> 0]
    /\ got = [s \in Streams |-> {}]
    /\ missed = [s \in Streams |-> {}]

Stored == {e \in Events : event[e] = "stored"}
Locked == \E e \in Events : event[e] = "written"
Queued(s) == {queue[s][i] : i \in 1..Len(queue[s])}

\* Slip: the oldest rows instead of the newest.
Oldest(n, S) == {e \in S : Cardinality({f \in S : f < e}) < n}

\* ORDER BY created_at DESC LIMIT n.
Newest(n, S) == {e \in S : Cardinality({f \in S : f > e}) < n}

-----------------------------------------------------------------------------
(* Writing.                                                                *)

Stamp(e, stage) ==
    /\ event[e] = "none"
    /\ \A d \in Events : d < e => event[d] # "none"
    /\ event' = [event EXCEPT ![e] = stage]
    /\ UNCHANGED <<announced, clientVars>>

\* The database has one writer at a time.
Insert(e) ==
    /\ ~Locked
    /\ \/ event[e] = "stamped" /\ event' = [event EXCEPT ![e] = "stored"]
       \/ event[e] = "stampedTx" /\ event' = [event EXCEPT ![e] = "written"]
    /\ UNCHANGED <<announced, clientVars>>

Full(s) == Len(queue[s]) >= Buffer

\* What e means for a client: the channel takes it or has no room, or the client
\* is between its replay and its subscription, or before both.
Lost(s, e) ==
    /\ e \notin got[s]
    /\ (s \in subs /\ Full(s)) \/ conn[s] = "subscribe"

\* publishV2Event holds the read lock for its whole loop.
Announce(e) ==
    /\ event[e] \in {"stored", "written", "gone"}
    /\ e \notin announced
    /\ announced' = announced \cup {e}
    /\ queue' = [s \in Streams |-> IF s \in subs /\ ~Full(s) THEN Append(queue[s], e)
                                                             ELSE queue[s]]
    /\ missed' = [s \in Streams |-> IF Lost(s, e) THEN missed[s] \cup {e} ELSE missed[s]]
    /\ UNCHANGED <<event, subs, conn, channel, anchor, first, got>>

\* The transaction of CreateEventTx ends after the announcement, either way.
EndTx(e, stage) ==
    /\ event[e] = "written"
    /\ e \in announced
    /\ event' = [event EXCEPT ![e] = stage]
    /\ UNCHANGED <<announced, clientVars>>

\* PruneEvents: what is older than the retention goes, then what is in excess.
Kept(cutoff) == Newest(MaxRows, {e \in Stored : e >= cutoff})

Prune(cutoff) ==
    /\ ~Locked
    /\ event' = [e \in Events |-> IF e \in Stored \ Kept(cutoff) THEN "gone" ELSE event[e]]
    /\ UNCHANGED <<announced, clientVars>>

-----------------------------------------------------------------------------
(* Streaming.                                                              *)

\* A client's first connection: `since` is a time, or absent (0).
Connect(s, a) ==
    /\ conn[s] = "off"
    /\ got[s] = {} /\ missed[s] = {} /\ first[s] = 0
    /\ first' = [first EXCEPT ![s] = a]
    /\ anchor' = [anchor EXCEPT ![s] = a]
    /\ conn' = [conn EXCEPT ![s] = IF a = 0 THEN "subscribe" ELSE "replay"]
    /\ UNCHANGED <<logVars, subs, channel, queue, got, missed>>

\* A later one: `since` is the id of the newest event received, which must still
\* be in the table.
Resume(s, a) ==
    /\ conn[s] = "off"
    /\ first[s] # 0
    /\ a \in got[s] \cap Stored
    /\ \A e \in got[s] : e <= a
    /\ anchor' = [anchor EXCEPT ![s] = a]
    /\ conn' = [conn EXCEPT ![s] = "replay"]
    /\ UNCHANGED <<logVars, subs, channel, queue, first, got, missed>>

Asked(s) == {e \in Stored : e >= anchor[s]}
Page(s) == Newest(Limit, Asked(s))

\* What this replay cannot return: rows before a full page, events that are
\* announced and not committed yet, and events older than the anchor that came
\* while the client was away.
Unreachable(s) ==
    {e \in Events \ (got[s] \cup Page(s)) :
        \/ e \in Asked(s) /\ \A d \in Page(s) : e < d
        \/ event[e] = "written" /\ e \in announced
        \/ event[e] \in {"stored", "written"} /\ e < anchor[s]
        \/ event[e] = "gone"}

\* The rows are read at once and sent in their order before anything else.
Replay(s) ==
    /\ conn[s] = "replay"
    /\ got' = [got EXCEPT ![s] = @ \cup Page(s)]
    /\ missed' = [missed EXCEPT ![s] = @ \cup Unreachable(s)]
    /\ conn' = [conn EXCEPT ![s] = "subscribe"]
    /\ UNCHANGED <<logVars, subs, channel, queue, anchor, first>>

\* The replay is over before the handler subscribes.
Subscribe(s) ==
    /\ conn[s] = "subscribe"
    /\ subs' = subs \cup {s}
    /\ channel' = [channel EXCEPT ![s] = "open"]
    /\ conn' = [conn EXCEPT ![s] = "live"]
    /\ UNCHANGED <<logVars, queue, anchor, first, got, missed>>

\* GET events/replay: a page from an event the client has, and no subscription.
Poll(s, a) ==
    /\ conn[s] = "off"
    /\ a \in got[s] \cap Stored
    /\ got' = [got EXCEPT ![s] = @ \cup Newest(Limit, {e \in Stored : e >= a})]
    /\ UNCHANGED <<logVars, subs, conn, channel, queue, anchor, first, missed>>

Deliver(s) ==
    /\ conn[s] = "live"
    /\ queue[s] # <<>>
    /\ got' = [got EXCEPT ![s] = @ \cup {Head(queue[s])}]
    /\ queue' = [queue EXCEPT ![s] = Tail(@)]
    /\ UNCHANGED <<logVars, subs, conn, channel, anchor, first, missed>>

\* Slip: the channel is closed while it is still in the list.
LeaveClosing(s) ==
    /\ conn[s] = "live"
    /\ channel' = [channel EXCEPT ![s] = "closed"]
    /\ conn' = [conn EXCEPT ![s] = "leaving"]
    /\ UNCHANGED <<logVars, subs, queue, anchor, first, got, missed>>

\* The deferred function takes the subscriber off the list under the lock, ...
Leave(s) ==
    /\ conn[s] = "live"
    /\ subs' = subs \ {s}
    /\ conn' = [conn EXCEPT ![s] = "leaving"]
    /\ UNCHANGED <<logVars, channel, queue, anchor, first, got, missed>>

\* ... and closes the channel after it; what is still in it is lost, and what
\* happens until the client is back is for its replay.
Close(s) ==
    /\ conn[s] = "leaving"
    /\ channel' = [channel EXCEPT ![s] = "closed"]
    /\ queue' = [queue EXCEPT ![s] = <<>>]
    /\ missed' = [missed EXCEPT ![s] = @ \cup (Queued(s) \ got[s])]
    /\ conn' = [conn EXCEPT ![s] = "off"]
    /\ UNCHANGED <<logVars, subs, anchor, first, got>>

Next ==
    \/ \E e \in Events, stage \in {"stamped", "stampedTx"} : Stamp(e, stage)
    \/ \E e \in Events : Insert(e) \/ Announce(e)
    \/ \E e \in Events, stage \in {"stored", "gone"} : EndTx(e, stage)
    \/ \E cutoff \in Events : Prune(cutoff)
    \/ \E s \in Streams, a \in 0..MaxEvents : Connect(s, a) \/ Resume(s, a) \/ Poll(s, a)
    \/ \E s \in Streams : Replay(s) \/ Subscribe(s) \/ Deliver(s) \/ Leave(s) \/ Close(s)

Spec == Init /\ [][Next]_vars

-----------------------------------------------------------------------------
(* Properties.                                                             *)

\* publishV2Event sends to every subscriber in the list, and a send to a closed
\* channel would bring the server down: the list holds open channels only.
SubscribersAreOpen == \A s \in subs : channel[s] = "open"

\* A client that began with a time and follows the stream has, or is about to be
\* sent, every announced event of the log from that time on, across any number
\* of disconnections; what it lacks it lost in one of the ways `missed` counts:
\* between the replay and the subscription, to a full channel or one that was
\* closed, behind a full page, to a transaction that was still open when it
\* replayed, or because the event was stamped before the one it resumed from.
NothingElseMissed ==
    \A s \in Streams : conn[s] = "live" /\ first[s] # 0 =>
        \A e \in Stored \cap announced :
            e >= first[s] => e \in got[s] \cup Queued(s) \cup missed[s]
=============================================================================

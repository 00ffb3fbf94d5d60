-------------------------- MODULE ComponentsProofs --------------------------
(***************************************************************************)
(* What the parts of Components keep to, each for any number of clients,   *)
(* tasks, events, versions and rows: the v1 stream, the event streams, the *)
(* graph of tasks, the worker, the agents, the prompts, the migrations and *)
(* the memories, in this order, and then the types of all of them.         *)
(***************************************************************************)
EXTENDS Components, Counting, FiniteSetTheorems, TLAPS

-----------------------------------------------------------------------------
(* The v1 stream: a stale view is always due to be replaced, and every     *)
(* step of the stream is a step, or a stutter, of TaskMirror.              *)

\* The announcements under way are at most the changes made, so that the bound
\* on casts is one on changes; this makes TypeOK inductive.
CastsBounded == casts <= version

\* A list may turn stale before it is sent: what StaleViewsAreDue says of a
\* client in its loop holds from the moment its list was read.
DueOnceRead ==
    \A c \in Clients : conn[c] \in {"sending", "live"} /\ c \notin blind /\ view[c] < told
                       => tokens[c] > 0 \/ casts > 0

MirrorInv == TypeOK /\ CastsBounded /\ DueOnceRead

LEMMA MirrorInit == Init => MirrorInv
  BY BufferAssumption, ChangesAssumption
  DEF Init, MirrorInv, TypeOK, CastsBounded, DueOnceRead

\* Each step preserves the invariant.
LEMMA MirrorStep == MirrorInv /\ [Next]_vars => MirrorInv'
<1> SUFFICES ASSUME MirrorInv, [Next]_vars PROVE MirrorInv'
  OBVIOUS
<1> USE BufferAssumption, ChangesAssumption
<1>1. CASE ChangeTasks
  BY <1>1 DEF MirrorInv, TypeOK, CastsBounded, DueOnceRead, ChangeTasks, Change
<1>2. CASE ChangeQuietly
  BY <1>2 DEF MirrorInv, TypeOK, CastsBounded, DueOnceRead, ChangeQuietly, Change
<1>3. CASE Broadcast
  <2>1. TypeOK' /\ CastsBounded'
    BY <1>3 DEF MirrorInv, TypeOK, CastsBounded, Broadcast
  <2>2. DueOnceRead'
    <3> SUFFICES ASSUME NEW c \in Clients, conn'[c] \in {"sending", "live"}
                 PROVE  tokens'[c] > 0
      BY DEF DueOnceRead
    <3>1. Subscribed(c)
      BY <1>3 DEF Broadcast, Subscribed
    <3>2. CASE tokens[c] < Buffer
      BY <1>3, <3>1, <3>2 DEF MirrorInv, TypeOK, Broadcast
    <3>3. CASE ~(tokens[c] < Buffer)
      BY <1>3, <3>3 DEF MirrorInv, TypeOK, Broadcast
    <3> QED BY <3>2, <3>3
  <2> QED BY <2>1, <2>2 DEF MirrorInv
<1>4. CASE \E c \in Clients : ClientStep(c)
  <2> PICK c \in Clients : ClientStep(c)
    BY <1>4
  <2>1. CASE Join(c)
    BY <2>1 DEF MirrorInv, TypeOK, CastsBounded, DueOnceRead, Join
  <2>2. CASE List(c)
    BY <2>2 DEF MirrorInv, TypeOK, CastsBounded, DueOnceRead, List
  <2>3. CASE ListFails(c)
    BY <2>3 DEF MirrorInv, TypeOK, CastsBounded, DueOnceRead, ListFails
  <2>4. CASE Send(c)
    BY <2>4 DEF MirrorInv, TypeOK, CastsBounded, DueOnceRead, Send
  <2>5. CASE Take(c)
    BY <2>5 DEF MirrorInv, TypeOK, CastsBounded, DueOnceRead, Take
  <2>6. CASE Leave(c)
    BY <2>6 DEF MirrorInv, TypeOK, CastsBounded, DueOnceRead, Leave
  <2> QED BY <2>1, <2>2, <2>3, <2>4, <2>5, <2>6 DEF ClientStep
<1>5. CASE UNCHANGED vars
  BY <1>5 DEF MirrorInv, TypeOK, CastsBounded, DueOnceRead, vars
<1> QED BY <1>1, <1>2, <1>3, <1>4, <1>5 DEF Next

\* The variables of the v1 stream keep their types.
THEOREM StreamTypeCorrect == Spec => []TypeOK
<1>1. MirrorInv => TypeOK
  BY DEF MirrorInv
<1> QED BY MirrorInit, MirrorStep, <1>1, PTL DEF Spec

\* A client of the v1 stream whose view is stale has a token or an announcement
\* on its way, whatever the number of clients and the size of the channels.
THEOREM StaleIsDue == Spec => []StaleViewsAreDue
<1>1. MirrorInv => StaleViewsAreDue
  BY DEF MirrorInv, DueOnceRead, StaleViewsAreDue, Sent
<1> QED BY MirrorInit, MirrorStep, <1>1, PTL DEF Spec

\* Fairness apart, the v1 stream implements TaskMirror: nothing but the current
\* list is ever shown, and only to a client that is connected.
THEOREM StreamMirrors == Spec => Mirror!Init /\ [][Mirror!Next]_(Mirror!vars)
<1>1. Init => Mirror!Init
  BY DEF Init, Mirror!Init
<1>2. MirrorInv /\ [Next]_vars => [Mirror!Next]_(Mirror!vars)
  <2> SUFFICES ASSUME MirrorInv, [Next]_vars PROVE Mirror!Next \/ UNCHANGED Mirror!vars
    OBVIOUS
  <2>1. CASE ChangeTasks
    BY <2>1 DEF ChangeTasks, Change, Mirror!Next, Mirror!Change
  <2>2. CASE ChangeQuietly
    BY <2>2 DEF ChangeQuietly, Change, Mirror!Next, Mirror!Change
  <2>3. CASE Broadcast
    BY <2>3 DEF Broadcast, Mirror!vars
  <2>4. ASSUME NEW c \in Clients, ClientStep(c)
        PROVE  Mirror!Next \/ UNCHANGED Mirror!vars
    <3>1. CASE Join(c)
      BY <3>1 DEF Join, MirrorInv, TypeOK, Mirror!Next, Mirror!Come
    <3>2. CASE List(c)
      BY <3>2 DEF List, MirrorInv, TypeOK, Mirror!Next, Mirror!Show
    <3>3. CASE ListFails(c)
      BY <3>3 DEF ListFails, MirrorInv, TypeOK, Mirror!Next, Mirror!Excuse
    <3>4. CASE Send(c)
      BY <3>4 DEF Send, MirrorInv, TypeOK, Mirror!vars
    <3>5. CASE Take(c)
      BY <3>5 DEF Take, MirrorInv, TypeOK, Mirror!vars
    <3>6. CASE Leave(c)
      BY <3>6 DEF Leave, MirrorInv, TypeOK, Mirror!Next, Mirror!Go
    <3> QED BY <2>4, <3>1, <3>2, <3>3, <3>4, <3>5, <3>6 DEF ClientStep
  <2>5. CASE UNCHANGED vars
    BY <2>5 DEF vars, Mirror!vars
  <2> QED BY <2>1, <2>2, <2>3, <2>4, <2>5 DEF Next
<1> QED BY MirrorInit, MirrorStep, <1>1, <1>2, PTL DEF Spec

-----------------------------------------------------------------------------
(* The event streams: subscribers have open channels, and what is neither  *)
(* sent nor queued is accounted for.                                       *)

\* Clients that are live are those on the list, with open channels.
LiveAreListed ==
    /\ link \in [Streams -> {"off", "replay", "subscribe", "live", "leaving"}]
    /\ channel \in [Streams -> {"none", "open", "closed"}]
    /\ subs = {s \in Streams : link[s] = "live"}
    /\ \A s \in subs : channel[s] = "open"

LEMMA SubscribersInit == Events!Init => LiveAreListed
  BY DEF Events!Init, LiveAreListed

LEMMA SubscribersStep == LiveAreListed /\ [Events!Next]_(Events!vars) => LiveAreListed'
<1> SUFFICES ASSUME LiveAreListed, [Events!Next]_(Events!vars) PROVE LiveAreListed'
  OBVIOUS
<1> USE DEF LiveAreListed
<1>1. CASE UNCHANGED <<subs, link, channel>>
  BY <1>1
<1>2. ASSUME NEW s \in Streams, Events!Subscribe(s) PROVE LiveAreListed'
  BY <1>2 DEF Events!Subscribe
<1>3. ASSUME NEW s \in Streams, Events!Leave(s) PROVE LiveAreListed'
  BY <1>3 DEF Events!Leave
<1>4. ASSUME NEW s \in Streams, Events!Close(s) PROVE LiveAreListed'
  BY <1>4 DEF Events!Close
<1>5. ASSUME NEW s \in Streams, NEW a \in 0..MaxEvents,
             Events!Connect(s, a) \/ Events!Resume(s, a)
      PROVE  LiveAreListed'
  BY <1>5 DEF Events!Connect, Events!Resume
<1>6. ASSUME NEW s \in Streams, Events!Replay(s) PROVE LiveAreListed'
  BY <1>6 DEF Events!Replay
<1>7. ASSUME NEW s \in Streams, Events!Deliver(s) PROVE LiveAreListed'
  BY <1>7 DEF Events!Deliver
<1>8. ASSUME NEW s \in Streams, NEW a \in 0..MaxEvents, Events!Poll(s, a) PROVE LiveAreListed'
  BY <1>8 DEF Events!Poll
<1>9. ASSUME NEW e \in Events!Events, NEW stage \in {"stamped", "stampedTx", "stored", "gone"},
             Events!Stamp(e, stage) \/ Events!Insert(e) \/ Events!EndTx(e, stage)
               \/ Events!Prune(e) \/ Events!Announce(e)
      PROVE  UNCHANGED <<subs, link, channel>>
  BY <1>9 DEF Events!Stamp, Events!Insert, Events!EndTx, Events!Prune, Events!Announce,
        Events!clientVars
<1> QED BY <1>1, <1>2, <1>3, <1>4, <1>5, <1>6, <1>7, <1>8, <1>9 DEF Events!Next, Events!vars

THEOREM ChannelsAreOpen == Events!Spec => []SubscribersAreOpen
<1>1. LiveAreListed => SubscribersAreOpen
  BY DEF LiveAreListed, SubscribersAreOpen, Events!SubscribersAreOpen
<1> QED BY <1>1, SubscribersInit, SubscribersStep, PTL DEF Events!Spec

-----------------------------------------------------------------------------

EventsTyped ==
    /\ event \in [Events!Events -> Events!Stages]
    /\ announced \subseteq {e \in Events!Events : event[e] \in {"stored", "written", "gone"}}
    /\ anchor \in [Streams -> Nat]
    /\ first \in [Streams -> Nat]
    /\ queue \in [Streams -> Seq(Events!Events)]
    /\ got \in [Streams -> SUBSET Events!Events]
    /\ missed \in [Streams -> SUBSET Events!Events]

Has(s) == got[s] \cup Events!Queued(s) \cup missed[s]

\* From its replay on, a client that began with a time has, or is about to be sent,
\* or misses, every event that was ever announced.
AllAccounted ==
    \A s \in Streams :
        link[s] \in {"subscribe", "live"} /\ first[s] # 0 => announced \subseteq Has(s)

StreamInv == LiveAreListed /\ EventsTyped /\ AllAccounted

LEMMA StreamInit == Events!Init => StreamInv
  BY SubscribersInit DEF Events!Init, StreamInv, EventsTyped, AllAccounted, Events!Stages

LEMMA EventsCardinality == \A S : Events!Cardinality(S) = Cardinality(S)
  BY Zenon DEF Events!Cardinality, Cardinality

\* The newest of a set come after the rest.
LEMMA NewestComeLast ==
    ASSUME NumbersSound, NEW S \in SUBSET Events!Events,
           NEW e \in S \ Events!Newest(Limit, S), NEW d \in Events!Newest(Limit, S)
    PROVE  e < d
<1> USE DEF NumbersSound
<1> DEFINE Above(x) == {f \in S : f > x}
<1>1. S \subseteq Nat /\ IsFiniteSet(S)
  <2>1. Events!Events = 1..MaxEvents /\ IsFiniteSet(1..MaxEvents)
    BY FS_Interval DEF Events!Events
  <2>2. S \in SUBSET (1..MaxEvents) /\ S \subseteq Nat
    BY <2>1
  <2> QED BY <2>1, <2>2, FS_Subset
<1>2. d \in S /\ Cardinality(Above(d)) < Limit /\ ~(Cardinality(Above(e)) < Limit)
  BY EventsCardinality DEF Events!Newest
<1>3. ASSUME ~(e < d) PROVE FALSE
  <2>1. Above(e) \subseteq Above(d)
    <3>1. d \in Nat /\ e \in Nat /\ d <= e
      BY <1>1, <1>2, <1>3
    <3>2. ASSUME NEW f \in S, f > e PROVE f > d
      <4>1. f \in Nat
        BY <1>1
      <4> QED BY <3>1, <3>2, <4>1
    <3> QED BY <3>2
  <2>2. Above(d) \in SUBSET S
    OBVIOUS
  <2> HIDE DEF Above
  <2>3. IsFiniteSet(Above(d))
    BY <1>1, <2>2, FS_Subset
  <2>4. Cardinality(Above(e)) <= Cardinality(Above(d)) /\ Cardinality(Above(e)) \in Nat
           /\ Cardinality(Above(d)) \in Nat
    BY <2>1, <2>3, FS_Subset, FS_CardinalityType
  <2> QED BY <1>2, <2>4
<1> QED BY <1>3

\* A replay accounts for every event announced so far.
LEMMA ReplayAccounts ==
    ASSUME NumbersSound, EventsTyped, NEW s \in Streams,
           anchor[s] \in Nat, NEW e \in announced
    PROVE  e \in got[s] \cup Events!Page(s) \cup Events!Unreachable(s)
<1>1. e \in Events!Events /\ event[e] \in {"stored", "written", "gone"} /\ e \in Nat
  BY DEF EventsTyped, Events!Events
<1>2. CASE event[e] = "stored" /\ e >= anchor[s]
  <2>1. Events!Asked(s) \in SUBSET Events!Events /\ e \in Events!Asked(s)
    BY <1>1, <1>2 DEF Events!Asked, Events!Stored
  <2>2. e \notin Events!Page(s) => \A d \in Events!Page(s) : e < d
    BY <2>1, NewestComeLast DEF Events!Page
  <2> QED BY <1>1, <2>1, <2>2 DEF Events!Unreachable
<1>3. CASE event[e] = "stored" /\ ~(e >= anchor[s])
  BY <1>1, <1>3 DEF Events!Unreachable
<1> QED BY <1>1, <1>2, <1>3 DEF Events!Unreachable

LEMMA Queues ==
    /\ \A q \in Seq(Events!Events), e \in Events!Events :
          /\ Append(q, e) \in Seq(Events!Events)
          /\ {Append(q, e)[i] : i \in 1..Len(Append(q, e))} = {q[i] : i \in 1..Len(q)} \cup {e}
    /\ \A q \in Seq(Events!Events) : q # <<>> =>
          /\ Tail(q) \in Seq(Events!Events) /\ Head(q) \in Events!Events
          /\ {q[i] : i \in 1..Len(q)} \subseteq {Tail(q)[i] : i \in 1..Len(Tail(q))} \cup {Head(q)}
<1>1. ASSUME NEW q \in Seq(Events!Events), NEW e \in Events!Events
      PROVE  /\ Append(q, e) \in Seq(Events!Events)
             /\ {Append(q, e)[i] : i \in 1..Len(Append(q, e))} = {q[i] : i \in 1..Len(q)} \cup {e}
  <2>1. Append(q, e) \in Seq(Events!Events) /\ Len(Append(q, e)) = Len(q) + 1 /\ Len(q) \in Nat
        /\ Append(q, e)[Len(q) + 1] = e /\ \A i \in 1..Len(q) : Append(q, e)[i] = q[i]
    OBVIOUS
  <2> QED BY <2>1
<1>2. ASSUME NEW q \in Seq(Events!Events), q # <<>>
      PROVE  /\ Tail(q) \in Seq(Events!Events) /\ Head(q) \in Events!Events
             /\ {q[i] : i \in 1..Len(q)} \subseteq {Tail(q)[i] : i \in 1..Len(Tail(q))} \cup {Head(q)}
  <2>1. /\ Tail(q) \in Seq(Events!Events) /\ Len(Tail(q)) = Len(q) - 1
        /\ Len(q) \in Nat /\ Head(q) = q[1] /\ Head(q) \in Events!Events
        /\ \A i \in 1..Len(Tail(q)) : Tail(q)[i] = q[i + 1]
    BY <1>2
  <2>2. ASSUME NEW i \in 1..Len(q)
        PROVE  q[i] \in {Tail(q)[j] : j \in 1..Len(Tail(q))} \cup {Head(q)}
    <3>1. CASE i = 1
      BY <2>1, <3>1
    <3>2. CASE i # 1
      <4>1. i - 1 \in 1..Len(Tail(q)) /\ Tail(q)[i - 1] = q[i]
        BY <2>1, <3>2
      <4> QED BY <4>1
    <3> QED BY <3>1, <3>2
  <2> QED BY <2>1, <2>2
<1> QED BY <1>1, <1>2

\* Events that are written, announced, committed or pruned, except an announcement.
LEMMA WritingInv ==
    ASSUME StreamInv, LiveAreListed', event' \in [Events!Events -> Events!Stages],
           \A e \in Events!Events : event[e] \in {"stored", "written", "gone"} =>
                                      event'[e] \in {"stored", "written", "gone"},
           UNCHANGED <<announced, Events!clientVars>>
    PROVE  StreamInv'
  BY DEF StreamInv, EventsTyped, AllAccounted, Has, Events!Queued, Events!clientVars

LEMMA AnnounceInv ==
    ASSUME StreamInv, LiveAreListed', NEW e \in Events!Events, Events!Announce(e)
    PROVE  StreamInv'
<1>1. /\ announced' = announced \cup {e} /\ event[e] \in {"stored", "written", "gone"}
      /\ UNCHANGED <<event, subs, link, channel, anchor, first, got>>
  BY DEF Events!Announce
<1>2. ASSUME NEW s \in Streams
      PROVE  /\ queue'[s] = IF s \in subs /\ ~Events!Full(s) THEN Append(queue[s], e) ELSE queue[s]
             /\ missed'[s] = IF Events!Lost(s, e) THEN missed[s] \cup {e} ELSE missed[s]
             /\ queue[s] \in Seq(Events!Events) /\ missed[s] \in SUBSET Events!Events
  BY DEF Events!Announce, StreamInv, EventsTyped
<1>3. ASSUME NEW s \in Streams
      PROVE  /\ queue'[s] \in Seq(Events!Events)
             /\ missed'[s] \in SUBSET Events!Events
             /\ Has(s) \subseteq Has(s)'
             /\ link[s] \in {"subscribe", "live"} => e \in Has(s)'
  <2> USE <1>2
  <2>1. CASE s \in subs /\ ~Events!Full(s)
    <3>1. /\ queue'[s] = Append(queue[s], e) /\ queue'[s] \in Seq(Events!Events)
          /\ Events!Queued(s)' = Events!Queued(s) \cup {e}
      <4>1. queue'[s] = Append(queue[s], e) /\ queue[s] \in Seq(Events!Events)
        BY <2>1
      <4> QED BY <4>1, Queues DEF Events!Queued
    <3>2. missed'[s] \in SUBSET Events!Events /\ missed[s] \subseteq missed'[s]
      OBVIOUS
    <3> QED BY <1>1, <3>1, <3>2 DEF Has
  <2>2. CASE ~(s \in subs /\ ~Events!Full(s))
    <3>1. link[s] = "live" => s \in subs
      BY DEF StreamInv, LiveAreListed
    <3> QED BY <1>1, <2>2, <3>1 DEF Has, Events!Queued, Events!Lost
  <2> QED BY <2>1, <2>2
<1>4. EventsTyped'
  <2>1. queue' \in [Streams -> Seq(Events!Events)] /\ missed' \in [Streams -> SUBSET Events!Events]
    BY <1>3 DEF Events!Announce
  <2> QED BY <1>1, <2>1 DEF StreamInv, EventsTyped
<1>5. AllAccounted'
  BY <1>1, <1>3 DEF StreamInv, AllAccounted
<1> QED BY <1>4, <1>5 DEF StreamInv

\* A connection that opens: nothing is asked of a client until its replay is over.
LEMMA ConnectInv ==
    ASSUME NumbersSound, StreamInv, LiveAreListed', NEW s \in Streams, NEW a \in 0..MaxEvents,
           Events!Connect(s, a) \/ Events!Resume(s, a)
    PROVE  StreamInv'
<1>1. /\ UNCHANGED <<event, announced, subs, channel, queue, got, missed>>
      /\ anchor' = [anchor EXCEPT ![s] = a]
      /\ first' = [first EXCEPT ![s] = a] \/ first' = first
      /\ \A u \in Streams : u # s => first'[u] = first[u] /\ link'[u] = link[u]
      /\ link'[s] \in {"subscribe", "live"} => first'[s] = 0
  <2>1. first \in [Streams -> Nat] /\ DOMAIN link = Streams
    BY DEF StreamInv, EventsTyped, LiveAreListed
  <2>2. CASE Events!Connect(s, a)
    <3> DEFINE pc == IF a = 0 THEN "subscribe" ELSE "replay"
    <3>1. /\ UNCHANGED <<event, announced, subs, channel, queue, got, missed>>
          /\ anchor' = [anchor EXCEPT ![s] = a]
          /\ first' = [first EXCEPT ![s] = a]
          /\ link' = [link EXCEPT ![s] = pc]
      BY <2>2 DEF Events!Connect, Events!logVars
    <3>2. pc = "subscribe" => a = 0
      OBVIOUS
    <3>3. pc # "live"
      OBVIOUS
    <3> HIDE DEF pc
    <3> QED BY <2>1, <3>1, <3>2, <3>3
  <2>3. CASE Events!Resume(s, a)
    BY <2>1, <2>3 DEF Events!Resume, Events!logVars
  <2> QED BY <2>2, <2>3
<1>2. EventsTyped'
  <2>1. a \in Nat
    BY DEF NumbersSound
  <2>2. anchor' \in [Streams -> Nat] /\ first' \in [Streams -> Nat]
    BY <1>1, <2>1 DEF StreamInv, EventsTyped
  <2> QED BY <1>1, <2>2 DEF StreamInv, EventsTyped
<1>3. AllAccounted'
  BY <1>1 DEF StreamInv, AllAccounted, Has, Events!Queued
<1> QED BY <1>2, <1>3 DEF StreamInv

LEMMA ReplayInv ==
    ASSUME NumbersSound, StreamInv, LiveAreListed', NEW s \in Streams, Events!Replay(s)
    PROVE  StreamInv'
<1>1. /\ UNCHANGED <<event, announced, queue, anchor, first>>
      /\ got' = [got EXCEPT ![s] = got[s] \cup Events!Page(s)]
      /\ missed' = [missed EXCEPT ![s] = missed[s] \cup Events!Unreachable(s)]
      /\ link' = [link EXCEPT ![s] = "subscribe"]
  BY DEF Events!Replay, Events!logVars
<1>2. Events!Page(s) \subseteq Events!Events /\ Events!Unreachable(s) \subseteq Events!Events
  BY DEF Events!Page, Events!Newest, Events!Asked, Events!Stored, Events!Unreachable
<1>3. /\ got' \in [Streams -> SUBSET Events!Events]
      /\ missed' \in [Streams -> SUBSET Events!Events]
      /\ got'[s] = got[s] \cup Events!Page(s)
      /\ missed'[s] = missed[s] \cup Events!Unreachable(s)
      /\ \A u \in Streams \ {s} : got'[u] = got[u] /\ missed'[u] = missed[u] /\ link'[u] = link[u]
  BY <1>1, <1>2 DEF StreamInv, EventsTyped, LiveAreListed
<1>4. EventsTyped'
  BY <1>1, <1>3 DEF StreamInv, EventsTyped
<1>5. announced \subseteq got'[s] \cup missed'[s]
  BY <1>3, ReplayAccounts DEF StreamInv, EventsTyped
<1>6. AllAccounted'
  BY <1>1, <1>3, <1>5 DEF StreamInv, AllAccounted, Has, Events!Queued
<1> QED BY <1>4, <1>6 DEF StreamInv

\* What else a connection does: it receives from the queue, or from a page.
LEMMA ReceiveInv ==
    ASSUME StreamInv, LiveAreListed', NEW s \in Streams, NEW a,
           Events!Subscribe(s) \/ Events!Leave(s) \/ Events!Deliver(s) \/ Events!Close(s)
             \/ Events!Poll(s, a)
    PROVE  StreamInv'
<1> USE DEF StreamInv
<1>1. CASE Events!Subscribe(s)
  <2>1. /\ UNCHANGED <<event, announced, queue, anchor, first, got, missed>>
        /\ link[s] = "subscribe" /\ link' = [link EXCEPT ![s] = "live"]
    BY <1>1 DEF Events!Subscribe, Events!logVars
  <2>2. EventsTyped'
    BY <2>1 DEF EventsTyped
  <2>3. AllAccounted'
    BY <2>1 DEF LiveAreListed, AllAccounted, Has, Events!Queued
  <2> QED BY <2>2, <2>3
<1>2. CASE Events!Leave(s)
  BY <1>2 DEF Events!Leave, Events!logVars, EventsTyped, AllAccounted, Has, Events!Queued,
       LiveAreListed
<1>3. CASE Events!Close(s)
  <2>1. Events!Queued(s) \subseteq Events!Events
    BY DEF EventsTyped, Events!Queued
  <2>2. EventsTyped'
    BY <1>3, <2>1 DEF Events!Close, Events!logVars, EventsTyped
  <2>3. AllAccounted'
    BY <1>3 DEF Events!Close, Events!logVars, EventsTyped, AllAccounted, Has, Events!Queued,
          LiveAreListed
  <2> QED BY <2>2, <2>3
<1>4. CASE Events!Poll(s, a)
  <2> DEFINE page == Events!Newest(Limit, {e \in Events!Stored : e >= a})
  <2>1. page \subseteq Events!Events
    BY DEF Events!Newest, Events!Stored
  <2>2. got' = [got EXCEPT ![s] = got[s] \cup page]
        /\ UNCHANGED <<event, announced, link, queue, anchor, first, missed>>
    BY <1>4 DEF Events!Poll, Events!logVars
  <2> HIDE DEF page
  <2>3. EventsTyped'
    BY <2>1, <2>2 DEF EventsTyped
  <2>4. AllAccounted'
    BY <2>1, <2>2 DEF EventsTyped, AllAccounted, Has, Events!Queued
  <2> QED BY <2>3, <2>4
<1>5. CASE Events!Deliver(s)
  <2> DEFINE e == Head(queue[s])
             q == Tail(queue[s])
  <2>1. /\ UNCHANGED <<event, announced, link, anchor, first, missed>>
        /\ got' = [got EXCEPT ![s] = got[s] \cup {e}]
        /\ queue' = [queue EXCEPT ![s] = q]
    BY <1>5 DEF Events!Deliver, Events!logVars
  <2>2. queue[s] \in Seq(Events!Events) /\ queue[s] # <<>>
    BY <1>5 DEF Events!Deliver, EventsTyped
  <2>3. /\ q \in Seq(Events!Events) /\ e \in Events!Events
        /\ Events!Queued(s) \subseteq {q[i] : i \in 1..Len(q)} \cup {e}
    BY <2>2, Queues DEF Events!Queued
  <2> HIDE DEF e, q
  <2>4. EventsTyped'
    BY <2>1, <2>3 DEF EventsTyped
  <2>5. \A u \in Streams : Has(u) \subseteq Has(u)'
    <3> TAKE u \in Streams
    <3>1. CASE u = s
      <4>1. queue'[s] = q /\ got'[s] = got[s] \cup {e}
        BY <2>1 DEF EventsTyped
      <4> QED BY <2>1, <2>3, <3>1, <4>1 DEF Has, Events!Queued
    <3>2. CASE u # s
      BY <2>1, <3>2 DEF EventsTyped, Has, Events!Queued
    <3> QED BY <3>1, <3>2
  <2>6. AllAccounted'
    BY <2>1, <2>5 DEF AllAccounted
  <2> QED BY <2>4, <2>6
<1> QED BY <1>1, <1>2, <1>3, <1>4, <1>5

LEMMA StreamStep ==
    ASSUME NumbersSound PROVE StreamInv /\ [Events!Next]_(Events!vars) => StreamInv'
<1> SUFFICES ASSUME StreamInv, [Events!Next]_(Events!vars) PROVE StreamInv'
  OBVIOUS
<1>1. LiveAreListed'
  BY SubscribersStep DEF StreamInv
<1>2. ASSUME NEW e \in Events!Events, NEW stage \in {"stamped", "stampedTx"},
             Events!Stamp(e, stage)
      PROVE  StreamInv'
  BY <1>1, <1>2, WritingInv DEF Events!Stamp, Events!Stages, StreamInv, EventsTyped
<1>3. ASSUME NEW e \in Events!Events, Events!Insert(e) PROVE StreamInv'
  BY <1>1, <1>3, WritingInv DEF Events!Insert, Events!Stages, StreamInv, EventsTyped
<1>4. ASSUME NEW e \in Events!Events, NEW stage \in {"stored", "gone"}, Events!EndTx(e, stage)
      PROVE  StreamInv'
  BY <1>1, <1>4, WritingInv DEF Events!EndTx, Events!Stages, StreamInv, EventsTyped
<1>5. ASSUME NEW cutoff \in Events!Events, Events!Prune(cutoff) PROVE StreamInv'
  <2>1. event' \in [Events!Events -> Events!Stages] /\
        \A e \in Events!Events : event[e] \in {"stored", "written", "gone"} =>
                                      event'[e] \in {"stored", "written", "gone"}
    BY <1>5 DEF Events!Prune, Events!Stages, StreamInv, EventsTyped
  <2> QED BY <1>1, <1>5, <2>1, WritingInv DEF Events!Prune
<1>6. CASE UNCHANGED Events!vars
  BY <1>1, <1>6 DEF Events!vars, StreamInv, EventsTyped, AllAccounted, Has, Events!Queued
<1>7. ASSUME NEW e \in Events!Events, Events!Announce(e) PROVE StreamInv'
  BY <1>1, <1>7, AnnounceInv
<1>8. ASSUME NEW s \in Streams, NEW a \in 0..MaxEvents,
             Events!Connect(s, a) \/ Events!Resume(s, a) \/ Events!Poll(s, a)
      PROVE  StreamInv'
  BY <1>1, <1>8, ConnectInv, ReceiveInv
<1>9. ASSUME NEW s \in Streams,
             Events!Replay(s) \/ Events!Subscribe(s) \/ Events!Deliver(s) \/ Events!Leave(s)
               \/ Events!Close(s)
      PROVE  StreamInv'
  BY <1>1, <1>9, ReplayInv, ReceiveInv
<1> QED BY <1>2, <1>3, <1>4, <1>5, <1>6, <1>7, <1>8, <1>9 DEF Events!Next

THEOREM NothingIsLostUnseen == Events!Spec => []NothingElseMissed
<1> USE ComponentsAssumption
<1>1. StreamInv => NothingElseMissed
  BY DEF StreamInv, AllAccounted, Has, NothingElseMissed, Events!NothingElseMissed
<1>2. StreamInv /\ [Events!Next]_(Events!vars) => StreamInv'
  BY StreamStep
<1> QED BY <1>1, <1>2, StreamInit, PTL DEF Events!Spec

-----------------------------------------------------------------------------
(* The graph of tasks: checked edges close no cycle, and no task begins    *)
(* with the dependencies of another.                                       *)

EdgesAreOfTasks == deps \subseteq Graph!Tasks \X Graph!Tasks

\* The recursive query computes what it is meant to: what t depends on is closed.
LEMMA ReachesIsClosed ==
    ASSUME MaxTasks \in Nat, EdgesAreOfTasks, NEW u
    PROVE  /\ Graph!Reaches(u) \subseteq Graph!Tasks
           /\ Graph!DepsOf({u}) \subseteq Graph!Reaches(u)
           /\ Graph!DepsOf(Graph!Reaches(u)) \subseteq Graph!Reaches(u)
<1> DEFINE V == SUBSET Graph!Tasks
           start == Graph!DepsOf({u})
           step == [n \in Nat |-> [S \in V |-> S \cup Graph!DepsOf(S)]]
           round[n \in 0..MaxTasks] ==
             IF n = 0 THEN Graph!DepsOf({u}) ELSE round[n - 1] \cup Graph!DepsOf(round[n - 1])
           Is(f) == f = [n \in 0..MaxTasks |->
                          IF n = 0 THEN Graph!DepsOf({u}) ELSE f[n - 1] \cup Graph!DepsOf(f[n - 1])]
<1>1. Graph!Reaches(u) = round[MaxTasks]
  BY DEF Graph!Reaches
<1>2. round = CHOOSE f : Is(f)
  OBVIOUS
<1> HIDE DEF round
<1>3. start \in V /\ step \in [Nat -> [V -> V]]
  BY DEF Graph!DepsOf, EdgesAreOfTasks
<1>4. PICK g : Takes(g, MaxTasks, V, start, step)
  <2> HIDE DEF V, start, step
  <2> QED BY <1>3, StepsExist
<1>5. ASSUME NEW n \in 0..MaxTasks, n # 0
      PROVE  step[n][g[n - 1]] = g[n - 1] \cup Graph!DepsOf(g[n - 1])
  <2>1. n \in Nat /\ g[n - 1] \in V
    BY <1>4, <1>5 DEF Takes
  <2> HIDE DEF V
  <2> QED BY <2>1
<1>6. Is(g)
  <2> HIDE DEF V, step
  <2> QED BY <1>4, <1>5 DEF Takes
<1>7. Is(round)
  BY <1>2, <1>6
<1>8. /\ round[0] = start
      /\ \A n \in 0..MaxTasks :
            n # 0 => round[n] = round[n - 1] \cup Graph!DepsOf(round[n - 1])
  <2> HIDE DEF start
  <2>1. 0 \in 0..MaxTasks
    OBVIOUS
  <2>2. \A n \in 0..MaxTasks : round[n] =
           IF n = 0 THEN Graph!DepsOf({u}) ELSE round[n - 1] \cup Graph!DepsOf(round[n - 1])
    BY <1>7, Zenon
  <2> HIDE DEF Is
  <2> QED BY <2>1, <2>2 DEF start
<1> HIDE DEF Is, step, start, V
<1> DEFINE Closed(S) == Graph!DepsOf(S) \subseteq S
           Far == {n \in Nat : n \in 0..MaxTasks =>
                     /\ round[n] \in SUBSET Graph!Tasks
                     /\ start \subseteq round[n]
                     /\ Closed(round[n]) \/ Cardinality(round[n]) >= n}
<1>9. /\ IsFiniteSet(Graph!Tasks) /\ Cardinality(Graph!Tasks) = MaxTasks
      /\ \A S \in SUBSET Graph!Tasks : IsFiniteSet(S) /\ Cardinality(S) \in Nat
  <2>1. IsFiniteSet(1..MaxTasks) /\ Cardinality(1..MaxTasks) = MaxTasks
    BY FS_Interval
  <2> QED BY <2>1, FS_Subset, FS_CardinalityType DEF Graph!Tasks
<1>10. 0 \in Far
  BY <1>3, <1>8, <1>9 DEF V
<1>11. ASSUME NEW n \in Far PROVE n + 1 \in Far
  <2> SUFFICES ASSUME n + 1 \in 0..MaxTasks
               PROVE  /\ round[n + 1] \in SUBSET Graph!Tasks
                      /\ start \subseteq round[n + 1]
                      /\ Closed(round[n + 1]) \/ Cardinality(round[n + 1]) >= n + 1
    OBVIOUS
  <2> DEFINE S == round[n]
             S1 == round[n + 1]
  <2>1. n \in Nat /\ n \in 0..MaxTasks /\ n + 1 # 0 /\ (n + 1) - 1 = n
    OBVIOUS
  <2>2. S1 = S \cup Graph!DepsOf(S)
    BY <1>8, <2>1
  <2>3. S \in SUBSET Graph!Tasks /\ start \subseteq S /\ (Closed(S) \/ Cardinality(S) >= n)
    BY <2>1
  <2> HIDE DEF S, S1
  <2>4. S1 \in SUBSET Graph!Tasks
    BY <2>2, <2>3 DEF EdgesAreOfTasks, Graph!DepsOf
  <2>5. CASE Closed(S)
    <3>1. S1 = S
      BY <2>2, <2>5
    <3> QED BY <2>3, <2>5, <3>1 DEF S, S1
  <2>6. CASE ~Closed(S)
    <3>1. PICK x \in S1 : x \notin S
      BY <2>2, <2>6
    <3>2. Cardinality(S \cup {x}) = Cardinality(S) + 1
      BY <1>9, <2>3, <3>1, FS_AddElement
    <3>3. Cardinality(S \cup {x}) <= Cardinality(S1)
      <4>1. S \cup {x} \in SUBSET S1 /\ IsFiniteSet(S1)
        BY <1>9, <2>2, <2>4, <3>1
      <4> QED BY <4>1, FS_Subset
    <3>4. Cardinality(S) >= n /\ Cardinality(S) \in Nat /\ Cardinality(S1) \in Nat
      BY <1>9, <2>3, <2>4, <2>6
    <3>5. Cardinality(S1) >= n + 1
      BY <2>1, <3>2, <3>3, <3>4
    <3> QED BY <2>2, <2>3, <2>4, <3>5 DEF S, S1
  <2> QED BY <2>5, <2>6
<1>12. MaxTasks \in Far
  <2>1. Far \in SUBSET Nat
    OBVIOUS
  <2> HIDE DEF Far
  <2> QED BY <1>10, <1>11, <2>1, CountingUp
<1> DEFINE S == round[MaxTasks]
<1>13. S \in SUBSET Graph!Tasks /\ start \subseteq S /\ (Closed(S) \/ Cardinality(S) >= MaxTasks)
  BY <1>12
<1> HIDE DEF S
<1>14. Closed(S)
  <2>1. CASE Cardinality(S) >= MaxTasks
    <3>1. Cardinality(S) <= MaxTasks /\ (S # Graph!Tasks => Cardinality(S) < MaxTasks)
      BY <1>9, <1>13, FS_Subset
    <3>2. S = Graph!Tasks
      BY <1>9, <1>13, <2>1, <3>1
    <3> QED BY <3>2 DEF EdgesAreOfTasks, Graph!DepsOf
  <2> QED BY <1>13, <2>1
<1> QED BY <1>1, <1>13, <1>14 DEF S, start

\* A set of tasks each of which waits for another one of the set, by these edges.
Ring(S, edges) == S # {} /\ \A v \in S : \E w \in S : <<v, w>> \in edges

NoRing(edges) == \A S \in SUBSET Graph!Tasks : ~Ring(S, edges)

\* An edge that passes the check closes no cycle: in a cycle it is part of, the tasks
\* its end reaches would make one without it.
LEMMA CheckedEdgeIsSafe ==
    ASSUME MaxTasks \in Nat, EdgesAreOfTasks, NEW t, NEW u \in Graph!Tasks,
           ~Graph!CreatesCycle(t, u), NoRing(deps)
    PROVE  NoRing(deps \cup {<<t, u>>})
<1> DEFINE more == deps \cup {<<t, u>>}
<1> SUFFICES ASSUME NEW S \in SUBSET Graph!Tasks, Ring(S, more) PROVE FALSE
  BY DEF NoRing
<1> DEFINE R == S \cap (Graph!Reaches(u) \cup {u})
<1>1. t # u /\ t \notin Graph!Reaches(u)
  BY DEF Graph!CreatesCycle
<1>2. ASSUME NEW v \in R PROVE \E w \in R : <<v, w>> \in deps
  <2>1. PICK w \in S : <<v, w>> \in more
    BY DEF Ring
  <2>2. v # t
    BY <1>1
  <2>3. <<v, w>> \in deps
    BY <2>1, <2>2
  <2>4. w \in Graph!DepsOf({v})
    <3>1. <<v, w>>[1] = v /\ <<v, w>>[2] = w
      OBVIOUS
    <3> QED BY <2>3, <3>1 DEF Graph!DepsOf
  <2>5. w \in Graph!Reaches(u)
    BY <2>4, ReachesIsClosed DEF Graph!DepsOf
  <2> QED BY <2>3, <2>5
<1>3. R = {}
  BY <1>2 DEF Ring, NoRing
<1>4. Ring(S, deps)
  <2>1. u \notin S
    BY <1>3
  <2>2. ASSUME NEW v \in S PROVE \E w \in S : <<v, w>> \in deps
    <3>1. PICK w \in S : <<v, w>> \in more
      BY DEF Ring
    <3> QED BY <2>1, <3>1
  <2> QED BY <2>2 DEF Ring
<1> QED BY <1>4 DEF NoRing

\* An edge from a task nothing depends on closes none either.
LEMMA EdgeOfNewTaskIsSafe ==
    ASSUME NEW t \in Graph!Tasks, NEW u \in Graph!Tasks, t # u,
           \A v \in Graph!Tasks : <<v, t>> \notin deps, NoRing(deps)
    PROVE  NoRing(deps \cup {<<t, u>>})
<1> DEFINE more == deps \cup {<<t, u>>}
<1> SUFFICES ASSUME NEW S \in SUBSET Graph!Tasks, Ring(S, more) PROVE FALSE
  BY DEF NoRing
<1>1. \A v \in S : \E w \in S \ {t} : <<v, w>> \in more
  BY DEF Ring
<1>2. Ring(S \ {t}, deps)
  <2>1. S \ {t} # {}
    BY <1>1 DEF Ring
  <2>2. \A v \in S \ {t} : \E w \in S \ {t} : <<v, w>> \in deps
    BY <1>1
  <2> QED BY <2>1, <2>2 DEF Ring
<1> QED BY <1>2 DEF NoRing

-----------------------------------------------------------------------------

Request ==
    [pc : {"idle", "edges", "insert", "write", "remove", "worker", "next"},
     task : Nat, other : Nat, todo : SUBSET Graph!Tasks, status : Graph!Statuses]

\* What a request has at hand that is going to add edges, to write a row back, or to
\* create tasks.
Apt(q, of) ==
    /\ q.pc \in {"edges", "insert"} => q.task \in Graph!Tasks /\ of[q.task] # "ABSENT"
    /\ q.pc = "insert" => q.other \in Graph!Tasks
    /\ q.pc = "write" => q.status # "ABSENT"
    /\ q.pc = "next" => q.other # 0

\* Edges start at tasks that have been created.
GraphTypes ==
    /\ status \in [Graph!Tasks -> Graph!Statuses]
    /\ deps \subseteq Graph!Tasks \X Graph!Tasks
    /\ \A t, u \in Graph!Tasks : <<t, u>> \in deps => status[t] # "ABSENT"
    /\ client \in [Clients -> Request]
    /\ \A c \in Clients : Apt(client[c], status)

\* The edges a request is about to add close no cycle: the one that was checked still
\* would not, and nothing depends on a task that gets its first ones.
Covered(q, edges) ==
    /\ q.pc = "insert" => NoRing(edges \cup {<<q.task, q.other>>})
    /\ q.pc = "edges" => \A v \in Graph!Tasks : <<v, q.task>> \notin edges

\* Why the dependencies form a DAG: they do, none names a task to come, and so it will
\* be after the edges that are under way.
AcyclicAhead ==
    ~loose => /\ NoRing(deps)
              /\ \A t, u \in Graph!Tasks : <<t, u>> \in deps => status[u] # "ABSENT"
              /\ \A c \in Clients : Covered(client[c], deps)

GraphInv == GraphTypes /\ AcyclicAhead

LEMMA IdleRequest ==
    /\ Graph!Idle \in Request
    /\ \A of : Apt(Graph!Idle, of)
    /\ \A edges : Covered(Graph!Idle, edges)
  BY DEF Graph!Idle, Request, Apt, Covered, Graph!Statuses

\* With fewer edges there are fewer cycles.
LEMMA FewerEdges ==
    ASSUME NEW few, NEW many, few \subseteq many
    PROVE  /\ NoRing(many) => NoRing(few)
           /\ \A q : Covered(q, many) => Covered(q, few)
<1>1. \A S : Ring(S, few) => Ring(S, many)
  BY DEF Ring
<1>2. \A e, S : Ring(S, few \cup {e}) => Ring(S, many \cup {e})
  BY DEF Ring
<1> QED BY <1>1, <1>2 DEF NoRing, Covered

LEMMA GraphInit == Graph!Init => GraphInv
<1> SUFFICES ASSUME Graph!Init PROVE GraphInv
  OBVIOUS
<1>1. GraphTypes
  BY IdleRequest DEF Graph!Init, GraphTypes, Graph!Statuses
<1>2. AcyclicAhead
  BY IdleRequest DEF Graph!Init, AcyclicAhead, NoRing, Ring
<1> QED BY <1>1, <1>2 DEF GraphInv

\* What a step may do to the rows: a task that was created stays so.
RowsGoOn ==
    /\ status' \in [Graph!Tasks -> Graph!Statuses]
    /\ \A t \in Graph!Tasks : status[t] # "ABSENT" => status'[t] # "ABSENT"

\* A step that adds no edge.
LEMMA NoEdgeAdded ==
    ASSUME GraphInv, RowsGoOn, deps' \subseteq deps, loose' = loose,
           \/ UNCHANGED client
           \/ \E c \in Clients, q \in Request :
                 /\ Apt(q, status')
                 /\ ~loose => Covered(q, deps)
                 /\ client' = [client EXCEPT ![c] = q]
    PROVE  GraphInv'
<1>1. client' \in [Clients -> Request] /\ \A c \in Clients : Apt(client'[c], status')
  BY DEF GraphInv, GraphTypes, RowsGoOn, Apt
<1>2. GraphTypes'
  BY <1>1 DEF GraphInv, GraphTypes, RowsGoOn
<1>3. ASSUME ~loose PROVE \A c \in Clients : Covered(client'[c], deps)
  BY <1>3 DEF GraphInv, GraphTypes, AcyclicAhead
<1>4. AcyclicAhead'
  BY <1>3, FewerEdges DEF GraphInv, GraphTypes, RowsGoOn, AcyclicAhead
<1> QED BY <1>2, <1>4 DEF GraphInv

\* A step that adds one.
LEMMA EdgeAdded ==
    ASSUME GraphInv, status' = status, NEW c \in Clients, NEW u \in Graph!Tasks,
           client[c].pc = "edges" \/ (client[c].pc = "insert" /\ u = client[c].other),
           deps' = Graph!With(client[c].task, u), loose' = (loose \/ Graph!Uncovered(c, u)),
           NEW q \in Request, Apt(q, status), client' = [client EXCEPT ![c] = q],
           \/ q = Graph!Idle
           \/ (client[c].pc = "edges" /\ q.pc = "edges" /\ q.task = client[c].task)
    PROVE  GraphInv'
<1> DEFINE t == client[c].task
<1>1. client' \in [Clients -> Request] /\ \A d \in Clients : Apt(client'[d], status)
  BY DEF GraphInv, GraphTypes
<1>2. t \in Graph!Tasks /\ status[t] # "ABSENT"
  BY DEF GraphInv, GraphTypes, Apt
<1> HIDE DEF t
<1>3. deps' = Graph!With(t, u)
  BY DEF t
<1>4. GraphTypes'
  BY <1>1, <1>2, <1>3 DEF GraphInv, GraphTypes, Graph!With
<1>5. ASSUME ~loose' PROVE AcyclicAhead'
  <2>1. ~loose /\ status[u] # "ABSENT"
    BY <1>5 DEF Graph!Uncovered
  <2>2. ASSUME NEW d \in Clients \ {c} PROVE Covered(client'[d], deps')
    <3>1. client'[d] = client[d] /\ client[d].pc \notin {"insert", "edges"}
      BY <1>5 DEF Graph!Uncovered, Graph!At, GraphInv, GraphTypes
    <3> QED BY <3>1 DEF Covered
  <2>3. NoRing(deps) /\ Covered(client[c], deps)
    BY <2>1 DEF GraphInv, AcyclicAhead
  <2>4. NoRing(deps')
    <3>1. CASE t = u
      BY <1>3, <2>3, <3>1 DEF Graph!With
    <3>2. CASE t # u /\ client[c].pc = "insert"
      BY <1>3, <2>3, <3>2 DEF Graph!With, Covered, t
    <3>3. CASE t # u /\ client[c].pc = "edges"
      <4>1. \A v \in Graph!Tasks : <<v, t>> \notin deps
        BY <2>3, <3>3 DEF Covered, t
      <4> QED BY <1>2, <1>3, <2>3, <3>3, <4>1, EdgeOfNewTaskIsSafe DEF Graph!With
    <3> QED BY <3>1, <3>2, <3>3
  <2>5. Covered(q, deps')
    <3>1. CASE client[c].pc = "edges" /\ q.pc = "edges" /\ q.task = t
      <4>1. \A v \in Graph!Tasks : <<v, t>> \notin deps
        BY <2>3, <3>1 DEF Covered, t
      <4>2. \A v \in Graph!Tasks : <<v, t>> \notin deps'
        BY <1>2, <1>3, <4>1 DEF Graph!With
      <4> QED BY <3>1, <4>2 DEF Covered
    <3> QED BY <3>1, IdleRequest DEF t
  <2>6. \A d \in Clients : Covered(client'[d], deps')
    BY <2>2, <2>5 DEF GraphInv, GraphTypes
  <2>7. \A v, w \in Graph!Tasks : <<v, w>> \in deps' => status'[w] # "ABSENT"
    BY <1>3, <2>1 DEF Graph!With, GraphInv, AcyclicAhead
  <2> QED BY <2>4, <2>6, <2>7 DEF AcyclicAhead
<1> QED BY <1>4, <1>5 DEF GraphInv, AcyclicAhead

LEMMA EdgeStepInv ==
    ASSUME NumbersSound, GraphInv, NEW c \in Clients,
           (\E u \in Graph!Tasks : Graph!CreateEdge(c, u)) \/ Graph!InsertEdge(c)
    PROVE  GraphInv'
<1>1. client[c] \in Request /\ Apt(client[c], status)
  BY DEF GraphInv, GraphTypes
<1>2. CASE \E u \in Graph!Tasks : Graph!CreateEdge(c, u)
  <2> PICK u \in Graph!Tasks : Graph!CreateEdge(c, u)
    BY <1>2
  <2> DEFINE less == [client[c] EXCEPT !.todo = client[c].todo \ {u}]
             q == IF client[c].todo = {u} THEN Graph!Idle ELSE less
  <2>1. client[c].pc = "edges"
    BY DEF Graph!CreateEdge, Graph!At
  <2>2. less \in Request /\ Apt(less, status) /\ less.pc = "edges" /\ less.task = client[c].task
    BY <1>1, <2>1 DEF Request, Apt
  <2>3. client' = [client EXCEPT ![c] = q]
    BY Zenon DEF Graph!CreateEdge, Graph!Done, Graph!Become
  <2>4. /\ status' = status /\ deps' = Graph!With(client[c].task, u)
        /\ loose' = (loose \/ Graph!Uncovered(c, u))
    BY Zenon DEF Graph!CreateEdge, Graph!rows
  <2> HIDE DEF less
  <2>5. /\ q \in Request /\ Apt(q, status)
        /\ q = Graph!Idle \/ (q.pc = "edges" /\ q.task = client[c].task)
    BY <2>2, IdleRequest
  <2> HIDE DEF q
  <2> QED BY <2>1, <2>3, <2>4, <2>5, EdgeAdded
<1>3. CASE Graph!InsertEdge(c)
  <2> DEFINE u == client[c].other
  <2>1. client[c].pc = "insert" /\ u \in Graph!Tasks
    BY <1>1, <1>3 DEF Graph!InsertEdge, Graph!At, Apt
  <2>2. /\ status' = status /\ deps' = Graph!With(client[c].task, u)
        /\ loose' = (loose \/ Graph!Uncovered(c, u))
        /\ client' = [client EXCEPT ![c] = Graph!Idle]
    BY <1>3, Zenon DEF Graph!InsertEdge, Graph!rows, Graph!Done, Graph!Become
  <2> QED BY <2>1, <2>2, IdleRequest, EdgeAdded
<1> QED BY <1>2, <1>3

LEMMA RowStepInv ==
    ASSUME NumbersSound, GraphInv, NEW t \in Graph!Tasks, NEW u \in Graph!Tasks,
           Graph!DeleteV1(t) \/ Graph!Claim(t) \/ Graph!Fail(t) \/ Graph!DeleteEdge(t, u)
    PROVE  GraphInv'
<1>1. RowsGoOn
  BY DEF GraphInv, GraphTypes, RowsGoOn, Graph!DeleteV1, Graph!RemoveRow, Graph!Claim, Graph!Fail,
       Graph!DeleteEdge, Graph!rows, Graph!Statuses, Graph!Exists
<1>2. deps' \subseteq deps /\ UNCHANGED <<client, loose>>
  BY DEF Graph!DeleteV1, Graph!Claim, Graph!Fail, Graph!DeleteEdge
<1> QED BY <1>1, <1>2, NoEdgeAdded

LEMMA CreateStepInv ==
    ASSUME NumbersSound, GraphInv, NEW c \in Clients, NEW t \in Graph!Tasks,
           (\E up \in 0..MaxTasks, on \in SUBSET Graph!Tasks : Graph!CreateTask(c, t, up, on))
             \/ Graph!CreateNext(c, t)
    PROVE  GraphInv'
<1>1. client[c] \in Request /\ Apt(client[c], status)
  BY DEF GraphInv, GraphTypes
<1>2. status' = [status EXCEPT ![t] = "QUEUED"] /\ UNCHANGED <<deps, loose>>
  BY DEF Graph!CreateTask, Graph!CreateNext
<1>3. RowsGoOn
  BY <1>2 DEF GraphInv, GraphTypes, RowsGoOn, Graph!Statuses
<1>4. ASSUME NEW on \in SUBSET Graph!Tasks, NEW up \in 0..MaxTasks, Graph!CreateTask(c, t, up, on)
      PROVE  GraphInv'
  <2> DEFINE q == [Graph!Idle EXCEPT !.pc = "edges", !.task = t, !.todo = on]
  <2>1. UNCHANGED client \/ client' = [client EXCEPT ![c] = q]
    <3>1. CASE on = {}
      BY <1>4, <3>1 DEF Graph!CreateTask
    <3>2. CASE on # {}
      BY <1>4, <3>2, Zenon DEF Graph!CreateTask, Graph!Become
    <3> QED BY <3>1, <3>2
  <2>2. q \in Request /\ q.pc = "edges" /\ q.task = t
    <3>1. t \in Nat
      BY DEF Graph!Tasks
    <3> QED BY <3>1 DEF Graph!Idle, Request, Graph!Statuses
  <2> HIDE DEF q
  <2>3. Apt(q, status')
    BY <1>2, <2>2 DEF Apt, GraphInv, GraphTypes
  <2>4. ~loose => Covered(q, deps)
    <3>1. status[t] = "ABSENT"
      BY <1>4 DEF Graph!CreateTask, Graph!NextId
    <3> QED BY <2>2, <3>1 DEF Covered, GraphInv, AcyclicAhead
  <2> QED BY <1>2, <1>3, <2>1, <2>2, <2>3, <2>4, NoEdgeAdded
<1>5. ASSUME Graph!CreateNext(c, t) PROVE GraphInv'
  <2> DEFINE q == IF client[c].other = 1 THEN Graph!Idle
                  ELSE [client[c] EXCEPT !.other = client[c].other - 1]
  <2>1. client' = [client EXCEPT ![c] = q]
    BY <1>5, Zenon DEF Graph!CreateNext, Graph!Done, Graph!Become
  <2>2. q \in Request /\ Apt(q, status') /\ Covered(q, deps)
    <3>1. CASE client[c].other = 1
      BY <3>1, IdleRequest
    <3>2. CASE client[c].other # 1
      <4>1. client[c].pc = "next"
        BY <1>5 DEF Graph!CreateNext, Graph!At
      <4> QED BY <1>1, <3>2, <4>1 DEF Request, Apt, Covered
    <3> QED BY <3>1, <3>2
  <2> QED BY <1>2, <1>3, <2>1, <2>2, NoEdgeAdded
<1> QED BY <1>4, <1>5

LEMMA CheckStepInv ==
    ASSUME NumbersSound, GraphInv, NEW c \in Clients, NEW t \in Graph!Tasks, NEW u \in Graph!Tasks,
           NEW up \in 0..MaxTasks, NEW n \in Graph!NextTasks,
           \/ Graph!CheckEdge(c, t, u) \/ Graph!PatchRead(c, t, up) \/ Graph!DetachChildren(c, t)
           \/ Graph!Complete(c, t, n)
    PROVE  GraphInv'
<1>1. t \in Nat /\ u \in Nat /\ up \in Nat /\ n \in Nat
  BY DEF Graph!Tasks, Graph!NextTasks
<1>2. RowsGoOn
  BY DEF GraphInv, GraphTypes, RowsGoOn, Graph!CheckEdge, Graph!PatchRead, Graph!DetachChildren,
       Graph!Complete, Graph!rows, Graph!Statuses
<1>3. UNCHANGED <<deps, loose>>
  BY DEF Graph!CheckEdge, Graph!PatchRead, Graph!DetachChildren, Graph!Complete
<1>4. Graph!Exists(t) => status[t] # "ABSENT" /\ status[t] \in Graph!Statuses
  BY DEF Graph!Exists, GraphInv, GraphTypes
<1> DEFINE check == [Graph!Idle EXCEPT !.pc = "insert", !.task = t, !.other = u]
           patch == [Graph!Idle EXCEPT !.pc = "write", !.task = t, !.other = up, !.status = status[t]]
           detach == [Graph!Idle EXCEPT !.pc = "remove", !.task = t]
           work == [Graph!Idle EXCEPT !.pc = "worker", !.task = t, !.other = n]
<1>5. CASE Graph!CheckEdge(c, t, u)
  <2>1. check \in Request /\ check.pc = "insert" /\ check.task = t /\ check.other = u
    BY <1>1 DEF Graph!Idle, Request, Graph!Statuses
  <2>2. client' = [client EXCEPT ![c] = check] /\ status' = status /\ Graph!Exists(t)
    BY <1>5 DEF Graph!CheckEdge, Graph!Become, Graph!rows
  <2> HIDE DEF check
  <2>3. Apt(check, status')
    BY <1>4, <2>1, <2>2 DEF Apt
  <2>4. ~loose => Covered(check, deps)
    <3>1. ~Graph!CreatesCycle(t, u)
      BY <1>5 DEF Graph!CheckEdge
    <3> QED BY <2>1, <3>1, CheckedEdgeIsSafe
            DEF Covered, GraphInv, GraphTypes, AcyclicAhead, EdgesAreOfTasks, NumbersSound
  <2> QED BY <1>2, <1>3, <2>1, <2>2, <2>3, <2>4, NoEdgeAdded
<1>6. CASE Graph!PatchRead(c, t, up)
  <2>1. client' = [client EXCEPT ![c] = patch] /\ Graph!Exists(t)
    BY <1>6 DEF Graph!PatchRead, Graph!Become
  <2>2. patch \in Request /\ patch.pc = "write" /\ patch.status = status[t]
    BY <1>1, <1>4, <2>1 DEF Graph!Idle, Request
  <2> HIDE DEF patch
  <2>3. Apt(patch, status') /\ Covered(patch, deps)
    BY <1>4, <2>1, <2>2 DEF Apt, Covered
  <2> QED BY <1>2, <1>3, <2>1, <2>2, <2>3, NoEdgeAdded
<1>7. CASE Graph!DetachChildren(c, t)
  <2>1. client' = [client EXCEPT ![c] = detach]
    BY <1>7 DEF Graph!DetachChildren, Graph!Become
  <2>2. detach \in Request /\ detach.pc = "remove"
    BY <1>1 DEF Graph!Idle, Request, Graph!Statuses
  <2> HIDE DEF detach
  <2>3. Apt(detach, status') /\ Covered(detach, deps)
    BY <2>2 DEF Apt, Covered
  <2> QED BY <1>2, <1>3, <2>1, <2>2, <2>3, NoEdgeAdded
<1>8. CASE Graph!Complete(c, t, n)
  <2>1. client' = [client EXCEPT ![c] = work]
    BY <1>8 DEF Graph!Complete, Graph!Become
  <2>2. work \in Request /\ work.pc = "worker"
    BY <1>1 DEF Graph!Idle, Request, Graph!Statuses
  <2> HIDE DEF work
  <2>3. Apt(work, status') /\ Covered(work, deps)
    BY <2>2 DEF Apt, Covered
  <2> QED BY <1>2, <1>3, <2>1, <2>2, <2>3, NoEdgeAdded
<1> QED BY <1>5, <1>6, <1>7, <1>8

LEMMA FinishStepInv ==
    ASSUME NumbersSound, GraphInv, NEW c \in Clients,
           \/ Graph!PatchWrite(c) \/ Graph!DeleteRow(c) \/ Graph!ReportUnblocked(c)
           \/ Graph!CreateNextFails(c)
    PROVE  GraphInv'
<1>1. client[c] \in Request /\ Apt(client[c], status)
  BY DEF GraphInv, GraphTypes
<1>2. RowsGoOn
  <2>1. CASE Graph!PatchWrite(c)
    BY <1>1, <2>1 DEF Graph!PatchWrite, Graph!At, Graph!rows, Apt, Request, GraphInv, GraphTypes,
         RowsGoOn
  <2>2. CASE ~Graph!PatchWrite(c)
    BY <2>2 DEF Graph!DeleteRow, Graph!RemoveRow, Graph!ReportUnblocked, Graph!CreateNextFails,
         Graph!rows, Graph!Statuses, Graph!Exists, GraphInv, GraphTypes, RowsGoOn
  <2> QED BY <2>1, <2>2
<1>3. UNCHANGED <<deps, loose>>
  BY DEF Graph!PatchWrite, Graph!DeleteRow, Graph!ReportUnblocked, Graph!CreateNextFails
<1>4. \E q \in Request : Apt(q, status') /\ Covered(q, deps) /\ client' = [client EXCEPT ![c] = q]
  <2> DEFINE q == [client[c] EXCEPT !.pc = "next"]
  <2>1. q \in Request /\ q.pc = "next" /\ q.other = client[c].other
    BY <1>1 DEF Request
  <2>2. \/ client' = [client EXCEPT ![c] = Graph!Idle]
        \/ client' = [client EXCEPT ![c] = q] /\ client[c].other # 0
    <3>1. CASE Graph!ReportUnblocked(c) /\ client[c].other # 0
      BY <3>1, Zenon DEF Graph!ReportUnblocked, Graph!Become
    <3>2. CASE Graph!ReportUnblocked(c) /\ client[c].other = 0
      BY <3>2, Zenon DEF Graph!ReportUnblocked, Graph!Done, Graph!Become
    <3>3. CASE ~Graph!ReportUnblocked(c)
      BY <3>3 DEF Graph!PatchWrite, Graph!DeleteRow, Graph!CreateNextFails, Graph!Done,
           Graph!Become
    <3> QED BY <3>1, <3>2, <3>3
  <2> HIDE DEF q
  <2>3. client[c].other # 0 => Apt(q, status') /\ Covered(q, deps)
    BY <2>1 DEF Apt, Covered
  <2> QED BY <2>1, <2>2, <2>3, IdleRequest
<1> QED BY <1>2, <1>3, <1>4, NoEdgeAdded

LEMMA GraphStep == ASSUME NumbersSound PROVE GraphInv /\ [Graph!Next]_(Graph!vars) => GraphInv'
<1> SUFFICES ASSUME GraphInv, [Graph!Next]_(Graph!vars) PROVE GraphInv'
  OBVIOUS
<1>1. ASSUME NEW t \in Graph!Tasks, Graph!DeleteV1(t) \/ Graph!Claim(t) \/ Graph!Fail(t)
      PROVE  GraphInv'
  BY <1>1, RowStepInv
<1>2. ASSUME NEW t \in Graph!Tasks, NEW u \in Graph!Tasks, Graph!DeleteEdge(t, u) PROVE GraphInv'
  BY <1>2, RowStepInv
<1>3. ASSUME NEW c \in Clients, NEW t \in Graph!Tasks, NEW up \in 0..MaxTasks,
             \/ \E on \in SUBSET Graph!Tasks : Graph!CreateTask(c, t, up, on)
             \/ Graph!CreateNext(c, t)
      PROVE  GraphInv'
  BY <1>3, CreateStepInv
<1>4. ASSUME NEW c \in Clients, NEW t \in Graph!Tasks, NEW u \in Graph!Tasks, NEW up \in 0..MaxTasks,
             NEW n \in Graph!NextTasks,
             \/ Graph!CheckEdge(c, t, u) \/ Graph!PatchRead(c, t, up) \/ Graph!DetachChildren(c, t)
             \/ Graph!Complete(c, t, n)
      PROVE  GraphInv'
  BY <1>4, CheckStepInv
<1>5. ASSUME NEW c \in Clients,
             \/ Graph!PatchWrite(c) \/ Graph!DeleteRow(c) \/ Graph!ReportUnblocked(c)
             \/ Graph!CreateNextFails(c)
      PROVE  GraphInv'
  BY <1>5, FinishStepInv
<1>6. ASSUME NEW c \in Clients, (\E u \in Graph!Tasks : Graph!CreateEdge(c, u)) \/ Graph!InsertEdge(c)
      PROVE  GraphInv'
  BY <1>6, EdgeStepInv
<1>7. CASE UNCHANGED Graph!vars
  BY <1>7, NoEdgeAdded DEF Graph!vars, GraphInv, GraphTypes, RowsGoOn
<1>8. 0 \in 0..MaxTasks /\ 0 \in Graph!NextTasks
  BY DEF NumbersSound, Graph!NextTasks
<1> QED BY <1>1, <1>2, <1>3, <1>4, <1>5, <1>6, <1>7, <1>8 DEF Graph!Next

THEOREM CheckedGraphsAreAcyclic == Graph!Spec => []AcyclicUnlessLoose
<1> USE ComponentsAssumption
<1>1. GraphInv /\ [Graph!Next]_(Graph!vars) => GraphInv'
  BY GraphStep
<1>2. GraphInv => AcyclicUnlessLoose
  BY DEF GraphInv, AcyclicAhead, NoRing, Ring, AcyclicUnlessLoose, Graph!AcyclicUnlessLoose,
     Graph!Cycle
<1> QED BY <1>1, <1>2, GraphInit, PTL DEF Graph!Spec

\* An id is given out once.
LEMMA DeletedForever ==
    ASSUME GraphInv, [Graph!Next]_(Graph!vars), NEW t \in Graph!Tasks, status[t] = "DELETED"
    PROVE  status'[t] = "DELETED"
<1> SUFFICES ASSUME Graph!Next PROVE status'[t] = "DELETED"
  BY DEF Graph!vars
<1>1. status \in [Graph!Tasks -> Graph!Statuses] /\ ~Graph!Exists(t)
  BY DEF GraphInv, GraphTypes, Graph!Exists
<1>2. ASSUME NEW u \in Graph!Tasks, Graph!DeleteV1(u) \/ Graph!Claim(u) \/ Graph!Fail(u)
      PROVE  status'[t] = "DELETED"
  BY <1>1, <1>2 DEF Graph!DeleteV1, Graph!RemoveRow, Graph!Claim, Graph!Fail
<1>3. ASSUME NEW c \in Clients, NEW u \in Graph!Tasks, NEW up, NEW on,
             Graph!CreateTask(c, u, up, on) \/ Graph!CreateNext(c, u)
      PROVE  status'[t] = "DELETED"
  BY <1>1, <1>3 DEF Graph!CreateTask, Graph!CreateNext, Graph!NextId
<1>4. ASSUME NEW c \in Clients, Graph!PatchWrite(c) PROVE status'[t] = "DELETED"
  BY <1>1, <1>4 DEF Graph!PatchWrite, Graph!rows
<1>5. ASSUME NEW c \in Clients, Graph!DeleteRow(c) PROVE status'[t] = "DELETED"
  BY <1>1, <1>5 DEF Graph!DeleteRow, Graph!RemoveRow
<1>6. ASSUME NEW c \in Clients, NEW u \in Graph!Tasks, NEW n, Graph!Complete(c, u, n)
      PROVE  status'[t] = "DELETED"
  BY <1>1, <1>6 DEF Graph!Complete
<1>7. ASSUME NEW c \in Clients, NEW u, NEW v,
             \/ Graph!DeleteEdge(u, v) \/ Graph!CreateEdge(c, u) \/ Graph!CheckEdge(c, u, v)
             \/ Graph!InsertEdge(c) \/ Graph!PatchRead(c, u, v) \/ Graph!DetachChildren(c, u)
             \/ Graph!ReportUnblocked(c) \/ Graph!CreateNextFails(c)
      PROVE  status' = status
  BY <1>7 DEF Graph!DeleteEdge, Graph!CreateEdge, Graph!CheckEdge, Graph!InsertEdge,
       Graph!PatchRead, Graph!DetachChildren, Graph!ReportUnblocked, Graph!CreateNextFails, Graph!rows
<1>8. ASSUME NEW u, NEW v, Graph!DeleteEdge(u, v) PROVE status' = status
  BY <1>8 DEF Graph!DeleteEdge, Graph!rows
<1> QED BY <1>2, <1>3, <1>4, <1>5, <1>6, <1>7, <1>8 DEF Graph!Next

THEOREM NewTasksAreFree == Graph!Spec => NoInheritedDependencies
<1> USE ComponentsAssumption
<1>1. GraphInv /\ [Graph!Next]_(Graph!vars) => GraphInv'
  BY GraphStep
<1>2. GraphInv /\ [Graph!Next]_(Graph!vars) =>
        [\A t \in DOMAIN status : ~Graph!Exists(t) /\ Graph!Exists(t)' => Graph!DepsOf({t}) = {}
        ]_(Graph!vars)
  <2> SUFFICES ASSUME GraphInv, [Graph!Next]_(Graph!vars), NEW t \in DOMAIN status,
                      ~Graph!Exists(t), Graph!Exists(t)'
               PROVE  Graph!DepsOf({t}) = {}
    OBVIOUS
  <2>1. t \in Graph!Tasks
    BY DEF GraphInv, GraphTypes
  <2>2. status[t] = "ABSENT"
    BY <2>1, DeletedForever DEF Graph!Exists
  <2> QED BY <2>1, <2>2 DEF GraphInv, GraphTypes, Graph!DepsOf
<1> QED
  BY <1>1, <1>2, GraphInit, PTL
  DEF Graph!Spec, NoInheritedDependencies, Graph!NoInheritedDependencies

-----------------------------------------------------------------------------
(* The chain of parents.                                                   *)

\* Where the walk from t goes on, and that it does not.
Up(t, c) == IF c = <<>> THEN parent[t] ELSE parent[c[Len(c)]]
Stops(t, c) == Up(t, c) = 0 \/ (\E i \in 1..Len(c) : c[i] = Up(t, c)) \/ ~Graph!Exists(Up(t, c))

\* What it has passed: existing tasks, each the parent of the one before.
Passed(t, c) ==
    /\ c \in Seq(Graph!Tasks)
    /\ \A i, j \in 1..Len(c) : c[i] = c[j] => i = j
    /\ \A i \in 1..Len(c) : Graph!Exists(c[i])
    /\ c # <<>> => c[1] = parent[t]
    /\ \A i \in 1..Len(c) : i # 1 => c[i] = parent[c[i - 1]]

LEMMA WalkGoesOn ==
    ASSUME NEW t, NEW c \in Seq(Graph!Tasks)
    PROVE  /\ Graph!Walk(c, Up(t, c)) = IF Stops(t, c) THEN c ELSE Append(c, Up(t, c))
           /\ Graph!Walk(c, Up(t, c)) \in Seq(Graph!Tasks)
<1>1. DOMAIN c = 1..Len(c)
  OBVIOUS
<1>2. Up(t, c) \in Graph!Range(c) <=> \E i \in 1..Len(c) : c[i] = Up(t, c)
  BY <1>1 DEF Graph!Range
<1>3. Graph!Walk(c, Up(t, c)) = IF Stops(t, c) THEN c ELSE Append(c, Up(t, c))
  BY <1>2, Zenon DEF Graph!Walk, Stops
<1>4. ~Stops(t, c) => Up(t, c) \in Graph!Tasks
  BY DEF Stops, Graph!Exists
<1> QED BY <1>3, <1>4

LEMMA PassedGoesOn ==
    ASSUME MaxTasks \in Nat, NEW t, NEW c, Passed(t, c), ~Stops(t, c)
    PROVE  Passed(t, Append(c, Up(t, c))) /\ Len(Append(c, Up(t, c))) = Len(c) + 1
<1> DEFINE u == Up(t, c)
           d == Append(c, u)
<1>1. c \in Seq(Graph!Tasks) /\ Len(c) \in Nat /\ DOMAIN c = 1..Len(c)
  BY DEF Passed
<1>2. u \in Graph!Tasks /\ Graph!Exists(u) /\ \A i \in 1..Len(c) : c[i] # u
  BY DEF Stops, Graph!Exists
<1>3. u = IF c = <<>> THEN parent[t] ELSE parent[c[Len(c)]]
  BY DEF Up
<1> HIDE DEF u
<1>4. /\ d \in Seq(Graph!Tasks) /\ Len(d) = Len(c) + 1 /\ d[Len(c) + 1] = u
      /\ \A i \in 1..Len(c) : d[i] = c[i]
  BY <1>1, <1>2
<1>5. \A i \in 1..(Len(c) + 1) : i \in 1..Len(c) \/ i = Len(c) + 1
  BY <1>1
<1> HIDE DEF d
<1>6. \A i, j \in 1..Len(d) : d[i] = d[j] => i = j
  BY <1>1, <1>2, <1>4, <1>5 DEF Passed
<1>7. \A i \in 1..Len(d) : Graph!Exists(d[i])
  BY <1>2, <1>4, <1>5 DEF Passed
<1>8. d[1] = parent[t]
  <2>1. CASE c = <<>>
    BY <1>3, <1>4, <2>1
  <2>2. CASE c # <<>>
    <3>1. 1 \in 1..Len(c)
      BY <1>1, <2>2
    <3> QED BY <1>4, <2>2, <3>1 DEF Passed
  <2> QED BY <2>1, <2>2
<1>9. ASSUME NEW i \in 1..Len(d), i # 1 PROVE d[i] = parent[d[i - 1]]
  <2>1. i - 1 \in 1..Len(c)
    BY <1>1, <1>4, <1>9
  <2>2. d[i - 1] = c[i - 1]
    BY <1>4, <2>1
  <2>3. CASE i \in 1..Len(c)
    BY <1>4, <1>9, <2>2, <2>3 DEF Passed
  <2>4. CASE i = Len(c) + 1
    <3>1. i - 1 = Len(c) /\ c # <<>>
      BY <1>1, <2>1, <2>4
    <3> QED BY <1>3, <1>4, <2>2, <2>4, <3>1
  <2> QED BY <1>4, <1>5, <2>3, <2>4
<1>10. Passed(t, d)
  BY <1>4, <1>6, <1>7, <1>8, <1>9 DEF Passed
<1> QED BY <1>4, <1>10 DEF d, u

\* There are only so many tasks to pass.
LEMMA PassedIsShort ==
    ASSUME MaxTasks \in Nat, NEW t, NEW c, Passed(t, c)
    PROVE  Len(c) <= MaxTasks
<1>1. c \in [1..Len(c) -> Graph!Tasks] /\ Len(c) \in Nat
  BY DEF Passed
<1>2. c \in Injection(1..Len(c), Graph!Tasks)
  BY <1>1 DEF Passed, Injection, IsInjective
<1>3. IsFiniteSet(Graph!Tasks) /\ Cardinality(Graph!Tasks) = MaxTasks
  BY FS_Interval DEF Graph!Tasks
<1>4. Cardinality(1..Len(c)) <= Cardinality(Graph!Tasks)
  BY <1>2, <1>3, FS_Injection
<1>5. Cardinality(1..Len(c)) = Len(c)
  <2>1. \A n \in Nat : Cardinality(1..n) = n
    BY FS_Interval
  <2> QED BY <1>1, <2>1
<1> QED BY <1>3, <1>4, <1>5

\* The chain is what was passed when the walk stopped.
LEMMA ChainStops ==
    ASSUME MaxTasks \in Nat, NEW t
    PROVE  \E c : Passed(t, c) /\ Stops(t, c) /\ Graph!ParentChain(t) = Graph!Reverse(c)
<1> DEFINE V == Seq(Graph!Tasks)
           m == MaxTasks + 1
           step == [n \in Nat |-> [c \in V |-> Graph!Walk(c, Up(t, c))]]
           chain[n \in 0..m] ==
             IF n = 0 THEN <<>>
             ELSE LET c == chain[n - 1]
                  IN Graph!Walk(c, IF c = <<>> THEN parent[t] ELSE parent[Graph!Last(c)])
           Is(f) == f = [n \in 0..m |->
             IF n = 0 THEN <<>>
             ELSE LET c == f[n - 1]
                  IN Graph!Walk(c, IF c = <<>> THEN parent[t] ELSE parent[Graph!Last(c)])]
<1>1. Graph!ParentChain(t) = Graph!Reverse(chain[m])
  BY DEF Graph!ParentChain
<1>2. chain = CHOOSE f : Is(f)
  OBVIOUS
<1> HIDE DEF chain
<1>3. <<>> \in V /\ step \in [Nat -> [V -> V]] /\ m \in Nat
  BY WalkGoesOn
<1>4. PICK g : Takes(g, m, V, <<>>, step)
  <2> HIDE DEF V, step, m
  <2> QED BY <1>3, StepsExist
<1>5. ASSUME NEW n \in 0..m, n # 0 PROVE step[n][g[n - 1]] = Graph!Walk(g[n - 1], Up(t, g[n - 1]))
  <2>1. n \in Nat /\ g[n - 1] \in V
    BY <1>4, <1>5 DEF Takes
  <2> HIDE DEF V
  <2> QED BY <2>1
<1>6. \A c : Up(t, c) = IF c = <<>> THEN parent[t] ELSE parent[Graph!Last(c)]
  BY DEF Up, Graph!Last
<1>7. Is(g)
  <2> HIDE DEF V, step
  <2> QED BY <1>4, <1>5, <1>6 DEF Takes
<1>8. Is(chain)
  BY <1>2, <1>7
<1>9. /\ chain[0] = <<>>
      /\ \A n \in 0..m : n # 0 => chain[n] = Graph!Walk(chain[n - 1], Up(t, chain[n - 1]))
  <2>1. 0 \in 0..m
    BY <1>3
  <2>2. \A n \in 0..m : chain[n] =
           IF n = 0 THEN <<>>
           ELSE Graph!Walk(chain[n - 1], IF chain[n - 1] = <<>> THEN parent[t]
                                         ELSE parent[Graph!Last(chain[n - 1])])
    <3> HIDE DEF m
    <3> QED BY <1>8, Zenon
  <2> HIDE DEF Is
  <2> QED BY <1>6, <2>1, <2>2
<1> HIDE DEF Is, step, V
<1> DEFINE Far == {n \in Nat : n \in 0..m =>
                     Passed(t, chain[n]) /\ (Stops(t, chain[n]) \/ Len(chain[n]) = n)}
<1>10. 0 \in Far
  <2>1. <<>> \in Seq(Graph!Tasks) /\ Len(<<>>) = 0 /\ 1..0 = {}
    OBVIOUS
  <2>2. Passed(t, <<>>)
    BY <2>1 DEF Passed
  <2> QED BY <1>9, <2>1, <2>2
<1>11. ASSUME NEW n \in Far PROVE n + 1 \in Far
  <2> SUFFICES ASSUME n + 1 \in 0..m
               PROVE  /\ Passed(t, chain[n + 1])
                      /\ Stops(t, chain[n + 1]) \/ Len(chain[n + 1]) = n + 1
    OBVIOUS
  <2>1. n \in 0..m /\ n + 1 # 0 /\ (n + 1) - 1 = n
    BY <1>3
  <2>2. Passed(t, chain[n]) /\ (Stops(t, chain[n]) \/ Len(chain[n]) = n)
    BY <2>1
  <2>3. chain[n + 1] = Graph!Walk(chain[n], Up(t, chain[n]))
    BY <1>9, <2>1
  <2> HIDE DEF Far
  <2>4. chain[n] \in Seq(Graph!Tasks)
    BY <2>2 DEF Passed
  <2>5. chain[n + 1] = IF Stops(t, chain[n]) THEN chain[n] ELSE Append(chain[n], Up(t, chain[n]))
    BY <2>3, <2>4, WalkGoesOn
  <2>6. CASE Stops(t, chain[n])
    BY <2>2, <2>5, <2>6
  <2>7. CASE ~Stops(t, chain[n])
    BY <2>2, <2>5, <2>7, PassedGoesOn
  <2> QED BY <2>6, <2>7
<1> HIDE DEF Far
<1>12. Far = Nat
  <2>1. Far \subseteq Nat
    BY DEF Far
  <2> QED BY <2>1, <1>10, <1>11, CountingUp
<1>13. Passed(t, chain[m]) /\ (Stops(t, chain[m]) \/ Len(chain[m]) = m)
  BY <1>3, <1>12 DEF Far
<1>14. Len(chain[m]) <= MaxTasks
  BY <1>13, PassedIsShort
<1>15. Stops(t, chain[m])
  BY <1>13, <1>14
<1> QED BY <1>1, <1>13, <1>15

LEMMA PassedAreAncestors ==
    ASSUME MaxTasks \in Nat, DOMAIN status = Graph!Tasks,
           NEW t, NEW c, Passed(t, c), Stops(t, c)
    PROVE  {c[i] : i \in 1..Len(c)} = Graph!Ancestors(t)
<1> DEFINE P == {c[i] : i \in 1..Len(c)}
           Leads(S) == /\ \A b \in S : Graph!Exists(b)
                       /\ \A R \in SUBSET S : R # {} /\ parent[t] \notin R
                             => \E b \in R : \E d \in S \ R : parent[d] = b
<1>0. Graph!Ancestors(t) = {a \in Graph!Tasks : \E S \in SUBSET Graph!Tasks : a \in S /\ Leads(S)}
  BY DEF Graph!Ancestors
<1>1. c \in Seq(Graph!Tasks) /\ Len(c) \in Nat /\ P \subseteq Graph!Tasks
  BY DEF Passed
<1>2. ASSUME NEW R \in SUBSET P, R # {}, parent[t] \notin R
      PROVE  \E b \in R : \E d \in P \ R : parent[d] = b
  <2> DEFINE I == {i \in 1..Len(c) : c[i] \in R}
  <2>1. I \in SUBSET Nat /\ I # {}
    BY <1>2
  <2>2. PICK i \in I : \A j \in I : i <= j
    <3> HIDE DEF I
    <3> QED BY <2>1, LeastExists
  <2>3. i # 1
    BY <1>1, <1>2, <2>2 DEF Passed
  <2>4. i - 1 \in 1..Len(c) /\ i - 1 \notin I
    BY <1>1, <2>2, <2>3
  <2>5. c[i] \in R /\ c[i - 1] \in P \ R /\ parent[c[i - 1]] = c[i]
    BY <1>1, <2>2, <2>3, <2>4 DEF Passed
  <2> QED BY <2>5
<1>3. Leads(P)
  <2>1. ASSUME NEW b \in P PROVE Graph!Exists(b)
    <3>1. PICK i \in 1..Len(c) : b = c[i]
      OBVIOUS
    <3> QED BY <3>1 DEF Passed
  <2> HIDE DEF P
  <2> QED BY <1>2, <2>1
<1>4. ASSUME NEW S \in SUBSET Graph!Tasks, Leads(S) PROVE S \subseteq P
  <2> DEFINE R == S \ P
  <2>1. ASSUME parent[t] \in S PROVE parent[t] \in P
    <3>1. Graph!Exists(parent[t])
      BY <1>4, <2>1
    <3>2. parent[t] # 0
      BY <2>1 DEF Graph!Tasks
    <3>3. CASE c = <<>>
      <4>1. Up(t, c) = parent[t] /\ 1..Len(c) = {}
        BY <3>3 DEF Up
      <4> QED BY <3>1, <3>2, <4>1 DEF Stops
    <3>4. CASE c # <<>>
      <4>1. 1 \in 1..Len(c) /\ c[1] = parent[t]
        BY <1>1, <3>4 DEF Passed
      <4> QED BY <4>1
    <3> QED BY <3>3, <3>4
  <2>2. ASSUME R # {} PROVE FALSE
    <3>1. PICK b \in R, d \in S \ R : parent[d] = b
      BY <1>4, <2>1, <2>2
    <3>2. PICK i \in 1..Len(c) : d = c[i]
      BY <3>1
    <3>3. CASE i = Len(c)
      <4>1. c # <<>> /\ Up(t, c) = b
        BY <1>1, <3>1, <3>2, <3>3 DEF Up
      <4>2. b # 0 /\ Graph!Exists(b)
        BY <1>4, <3>1 DEF Graph!Tasks
      <4> QED BY <3>1, <4>1, <4>2 DEF Stops
    <3>4. CASE i # Len(c)
      <4>1. i + 1 \in 1..Len(c) /\ i + 1 # 1 /\ (i + 1) - 1 = i
        BY <1>1, <3>2, <3>4
      <4>2. c[i + 1] = b
        BY <3>1, <3>2, <4>1 DEF Passed
      <4> QED BY <3>1, <4>1, <4>2
    <3> QED BY <3>3, <3>4
  <2> QED BY <2>2
<1> HIDE DEF Leads, P
<1>5. P = Graph!Ancestors(t)
  BY <1>0, <1>1, <1>3, <1>4
<1> QED BY <1>5 DEF P

LEMMA ReversedIsTheSame ==
    ASSUME NEW c \in Seq(Graph!Tasks), \A i, j \in 1..Len(c) : c[i] = c[j] => i = j
    PROVE  /\ Graph!Range(Graph!Reverse(c)) = {c[i] : i \in 1..Len(c)}
           /\ Graph!IsInjective(Graph!Reverse(c))
<1> DEFINE r == Graph!Reverse(c)
<1>1. Len(c) \in Nat /\ r = [i \in 1..Len(c) |-> c[(Len(c) - i) + 1]]
  BY DEF Graph!Reverse
<1> HIDE DEF r
<1>2. \A i \in 1..Len(c) : (Len(c) - i) + 1 \in 1..Len(c) /\ Len(c) - ((Len(c) - i) + 1) + 1 = i
  BY <1>1
<1>3. DOMAIN r = 1..Len(c) /\ \A i \in 1..Len(c) : r[i] = c[(Len(c) - i) + 1]
  BY <1>1
<1>4. \A i \in 1..Len(c) : c[i] = r[(Len(c) - i) + 1]
  BY <1>2, <1>3
<1>5. Graph!Range(r) = {c[i] : i \in 1..Len(c)}
  <2>1. \A x : x \in Graph!Range(r) <=> \E i \in 1..Len(c) : x = r[i]
    BY <1>3 DEF Graph!Range
  <2>2. ASSUME NEW i \in 1..Len(c)
        PROVE  r[i] \in {c[j] : j \in 1..Len(c)} /\ c[i] \in Graph!Range(r)
    BY <1>2, <1>3, <1>4, <2>1
  <2> QED BY <2>1, <2>2
<1>6. ASSUME NEW i \in 1..Len(c), NEW j \in 1..Len(c), r[i] = r[j] PROVE i = j
  <2>1. c[(Len(c) - i) + 1] = c[(Len(c) - j) + 1]
    BY <1>3, <1>6
  <2>2. (Len(c) - i) + 1 = (Len(c) - j) + 1
    BY <1>2, <2>1
  <2> QED BY <1>1, <2>2
<1>7. Graph!IsInjective(r)
  BY <1>3, <1>6 DEF Graph!IsInjective
<1> QED BY <1>5, <1>7 DEF r

LEMMA ChainIsRight ==
    ASSUME NumbersSound, DOMAIN status = Graph!Tasks
    PROVE  ChainIsTheAncestry
<1> SUFFICES ASSUME NEW t
             PROVE  /\ Graph!Range(Graph!ParentChain(t)) = Graph!Ancestors(t)
                    /\ Graph!IsInjective(Graph!ParentChain(t))
  BY DEF ChainIsTheAncestry, Graph!ChainIsTheAncestry
<1>1. MaxTasks \in Nat
  BY DEF NumbersSound
<1>2. PICK c : Passed(t, c) /\ Stops(t, c) /\ Graph!ParentChain(t) = Graph!Reverse(c)
  BY <1>1, ChainStops
<1>3. {c[i] : i \in 1..Len(c)} = Graph!Ancestors(t)
  BY <1>1, <1>2, PassedAreAncestors
<1> QED BY <1>2, <1>3, ReversedIsTheSame DEF Passed

\* GetTaskParentChain returns the ancestors of a task, each once, whatever the parents
\* of tasks are: a loop of them, a missing row, or one that was deleted.
THEOREM ChainsAreRight == Graph!Spec => []ChainIsTheAncestry
<1> USE ComponentsAssumption
<1>1. GraphInv => ChainIsTheAncestry
  BY ChainIsRight DEF GraphInv, GraphTypes
<1>2. GraphInv /\ [Graph!Next]_(Graph!vars) => GraphInv'
  BY GraphStep
<1> QED BY <1>1, <1>2, GraphInit, PTL DEF Graph!Spec

-----------------------------------------------------------------------------
(* The bundled worker: no task is executed or reported on twice without a  *)
(* reason.                                                                 *)

\* A task with no excuse that a worker has is open, under that worker's lease, and
\* every tick the worker was quiet is a tick taken from the lease at most: it
\* cannot be free before the worker is late.  Two workers never have one, and
\* nobody else holds its lease.
WorkIsHeld ==
    \A t \in Jobs \ excused :
        /\ \A w \in Clients : worker[w].task = t =>
               /\ t \in open
               /\ lease[t].holder = w
               /\ quiet[w] < Ttl
               /\ lease[t].left + quiet[w] >= Ttl
        /\ lease[t].holder # Work!Nobody
        /\ \A w \in Clients : lease[t].holder = w => worker[w].task = t

\* A lease with no holder is none.
NobodysLeaseIsOver == \A t \in Jobs : lease[t].holder = "none" => lease[t] = Work!NoLease

\* A worker has a task from its claim to its report, and polls only while it may
\* fail once more.
Fits(q) ==
    /\ q.task = Work!NoTask <=> q.pc \in {"poll", "stopped"}
    /\ q.pc = "poll" => q.failures < MaxFailures

SlotsFit == \A w \in Clients : Fits(worker[w])

WorkInv == Work!TypeOK /\ WorkIsHeld /\ NobodysLeaseIsOver /\ SlotsFit /\ NoWorkIsWasted

Leases == [holder : Clients \cup {"none", Work!Nobody}, left : 0..MaxLeft]
WorkSlot == [pc : {"poll", "execute", "succeeded", "failed", "stopped"},
         task : Jobs \cup {Work!NoTask}, failures : 0..MaxFailures]

LEMMA WorkRecords ==
    ASSUME LeasesSound
    PROVE  Work!NoLease \in Leases /\ Work!Polling \in WorkSlot /\ Fits(Work!Polling)
  BY DEF LeasesSound, Leases, WorkSlot, Work!NoLease, Work!Polling, Fits

LEMMA WorkInit == ASSUME LeasesSound PROVE Work!Init => WorkInv
<1> SUFFICES ASSUME Work!Init PROVE WorkInv
  OBVIOUS
<1>1. Work!TypeOK
  BY WorkRecords DEF LeasesSound, Work!Init, Work!TypeOK, Leases, WorkSlot
<1>2. WorkIsHeld
  BY DEF LeasesSound, Work!Init, WorkIsHeld, Work!NoLease, Work!Polling, Work!Nobody
<1>3. NobodysLeaseIsOver /\ SlotsFit /\ NoWorkIsWasted
  BY WorkRecords DEF Work!Init, NobodysLeaseIsOver, SlotsFit, NoWorkIsWasted, Work!NoWorkIsWasted
<1> QED BY <1>1, <1>2, <1>3 DEF WorkInv

\* What is free and has no excuse is nobody's.
LEMMA FreeIsNew ==
    ASSUME LeasesSound, WorkInv, NEW t \in Jobs \ excused, Work!Free(t)
    PROVE  lease[t] = Work!NoLease /\ \A w \in Clients : worker[w].task # t
<1>1. \A w \in Clients : worker[w].task # t
  BY DEF LeasesSound, WorkInv, Work!TypeOK, WorkIsHeld, Work!Free
<1>2. lease[t].holder \in Clients \cup {"none", Work!Nobody}
  BY DEF WorkInv, Work!TypeOK
<1> QED BY <1>1, <1>2 DEF WorkInv, WorkIsHeld, NobodysLeaseIsOver

\* A step of one worker.
LEMMA WorkSlotsStay ==
    ASSUME WorkInv, NEW w \in Clients, NEW q \in WorkSlot, Fits(q), Work!Become(w, q)
    PROVE  /\ worker' \in [Clients -> WorkSlot]
           /\ worker'[w] = q
           /\ \A v \in Clients \ {w} : worker'[v] = worker[v]
           /\ SlotsFit'
<1>1. /\ worker' \in [Clients -> WorkSlot]
      /\ worker'[w] = q
      /\ \A v \in Clients \ {w} : worker'[v] = worker[v]
  BY DEF WorkInv, Work!TypeOK, Work!Become, WorkSlot
<1>2. SlotsFit'
  BY <1>1 DEF WorkInv, SlotsFit, Fits
<1> QED BY <1>1, <1>2

\* What a worker becomes when a claim of it came to nothing.
LEMMA FailedFits ==
    ASSUME LeasesSound, WorkInv, NEW w \in Clients, Work!At(w, "poll")
    PROVE  Work!Failed(w) \in WorkSlot /\ Fits(Work!Failed(w)) /\ Work!Failed(w).task = Work!NoTask
<1> DEFINE n == worker[w].failures + 1
           p == IF n >= MaxFailures THEN "stopped" ELSE "poll"
<1>1. worker[w].failures \in Nat /\ n \in 0..MaxFailures
  BY DEF WorkInv, Work!TypeOK, SlotsFit, Fits, Work!At, LeasesSound
<1>2. Work!Failed(w) = [pc |-> p, task |-> Work!NoTask, failures |-> n]
  <2>1. Work!Failed(w) = [Work!Polling EXCEPT !.failures = n, !.pc = p]
    BY DEF Work!Failed
  <2> HIDE DEF n, p
  <2> QED BY <2>1 DEF Work!Polling
<1>3. p \in {"poll", "stopped"} /\ (p = "poll" => n < MaxFailures)
  BY <1>1 DEF LeasesSound
<1> HIDE DEF n, p
<1> QED BY <1>1, <1>2, <1>3 DEF WorkSlot, Fits

\* A worker keeps its task, or leaves it with an excuse; nothing else moves.
LEMMA LettingGoHolds ==
    ASSUME LeasesSound, WorkInv, NEW w \in Clients, NEW q \in WorkSlot, Fits(q), Work!Become(w, q),
           UNCHANGED <<open, lease, quiet>>, excused \subseteq excused',
           \/ q.task = worker[w].task
           \/ q.task = Work!NoTask /\ (worker[w].task \in Jobs => worker[w].task \in excused')
    PROVE  WorkIsHeld'
<1> SUFFICES ASSUME NEW u \in Jobs, u \notin excused'
             PROVE  /\ \A v \in Clients : worker'[v].task = u => worker[v].task = u
                    /\ \A v \in Clients : worker[v].task = u => worker'[v].task = u
  BY DEF WorkInv, WorkIsHeld
<1> QED BY WorkSlotsStay DEF LeasesSound

LEMMA GivenOut ==
    ASSUME LeasesSound, WorkInv, NEW t \in Jobs, NEW holder \in Clients \cup {Work!Nobody},
          Work!GiveOut(t, holder)
    PROVE  /\ Work!Free(t)
           /\ lease' \in [Jobs -> Leases]
           /\ lease'[t] = [holder |-> holder, left |-> Ttl]
           /\ \A u \in Jobs \ {t} : lease'[u] = lease[u]
           /\ NobodysLeaseIsOver'
           /\ wasted' \subseteq excused /\ wasted' \subseteq Jobs
<1>1. [holder |-> holder, left |-> Ttl] \in Leases
  BY DEF Leases, LeasesSound
<1>2. /\ lease' \in [Jobs -> Leases]
      /\ lease'[t] = [holder |-> holder, left |-> Ttl]
      /\ \A u \in Jobs \ {t} : lease'[u] = lease[u]
  BY <1>1 DEF Work!GiveOut, WorkInv, Work!TypeOK, Leases
<1>3. holder # "none"
  BY DEF LeasesSound, Work!Nobody
<1>4. NobodysLeaseIsOver'
  BY <1>2, <1>3 DEF WorkInv, NobodysLeaseIsOver
<1>5. Work!Free(t)
  BY DEF Work!GiveOut
<1>6. wasted' \subseteq excused
  <2>1. CASE t \in excused
    BY <2>1 DEF Work!GiveOut, WorkInv, NoWorkIsWasted, Work!NoWorkIsWasted
  <2>2. CASE t \notin excused
    BY <1>5, <2>2, FreeIsNew DEF Work!GiveOut, WorkInv, NoWorkIsWasted, Work!NoWorkIsWasted
  <2> QED BY <2>1, <2>2
<1>7. excused \subseteq Jobs
  BY DEF WorkInv, Work!TypeOK
<1> QED BY <1>2, <1>4, <1>5, <1>6, <1>7

LEMMA ClaimNextInv ==
    ASSUME LeasesSound, WorkInv, NEW w \in Clients, NEW t \in Jobs, Work!ClaimNext(w, t)
    PROVE  WorkInv'
<1> DEFINE q == [pc |-> "execute", task |-> t, failures |-> 0]
<1>1. q \in WorkSlot /\ Fits(q)
  BY DEF WorkSlot, LeasesSound, Fits
<1>2. Work!Become(w, q) /\ Work!GiveOut(t, w) /\ UNCHANGED <<open, excused, answered>>
  BY DEF Work!ClaimNext
<1>3. /\ worker' \in [Clients -> WorkSlot]
      /\ worker'[w] = q
      /\ \A v \in Clients \ {w} : worker'[v] = worker[v]
      /\ SlotsFit'
  BY <1>1, <1>2, WorkSlotsStay
<1>4. quiet' \in [Clients -> 0..Ttl] /\ quiet'[w] = 0
      /\ \A v \in Clients \ {w} : quiet'[v] = quiet[v]
  BY DEF Work!ClaimNext, WorkInv, Work!TypeOK, LeasesSound
<1>5. Work!TypeOK'
  BY <1>2, <1>3, <1>4, GivenOut DEF WorkInv, Work!TypeOK, Leases, WorkSlot
<1>6. worker[w].task = Work!NoTask
  BY DEF Work!ClaimNext, Work!At, WorkInv, SlotsFit, Fits
<1>7. WorkIsHeld'
  <2> SUFFICES ASSUME NEW u \in Jobs \ excused
               PROVE  /\ \A v \in Clients : worker'[v].task = u =>
                            /\ u \in open
                            /\ lease'[u].holder = v
                            /\ quiet'[v] < Ttl
                            /\ lease'[u].left + quiet'[v] >= Ttl
                      /\ lease'[u].holder # Work!Nobody
                      /\ \A v \in Clients : lease'[u].holder = v => worker'[v].task = u
    BY <1>2 DEF WorkIsHeld
  <2>1. CASE u = t
    <3>1. u \in open /\ \A v \in Clients \ {w} : worker'[v].task # u
      BY <1>2, <1>3, <2>1, GivenOut, FreeIsNew DEF Work!Free
    <3>2. lease'[u] = [holder |-> w, left |-> Ttl] /\ worker'[w].task = u
      BY <1>2, <1>3, <2>1, GivenOut
    <3> QED BY <1>4, <3>1, <3>2 DEF LeasesSound
  <2>2. CASE u # t
    <3>1. lease'[u] = lease[u]
      BY <1>2, <2>2, GivenOut
    <3>2. \A v \in Clients : worker'[v].task = u => v # w /\ worker[v].task = u
      BY <1>3, <2>2
    <3>3. \A v \in Clients : lease[u].holder = v => v # w
      BY <1>6 DEF WorkInv, WorkIsHeld, LeasesSound
    <3> QED BY <1>3, <1>4, <3>1, <3>2, <3>3 DEF WorkInv, WorkIsHeld
  <2> QED BY <2>1, <2>2
<1> QED BY <1>2, <1>3, <1>5, <1>7, GivenOut DEF WorkInv, NoWorkIsWasted, Work!NoWorkIsWasted

LEMMA ClaimUnheardInv ==
    ASSUME LeasesSound, WorkInv, NEW w \in Clients, NEW t \in Jobs, Work!ClaimUnheard(w, t)
    PROVE  WorkInv'
<1>1. Work!Failed(w) \in WorkSlot /\ Fits(Work!Failed(w)) /\ Work!Failed(w).task = Work!NoTask
  BY FailedFits DEF Work!ClaimUnheard
<1>2. /\ Work!Become(w, Work!Failed(w)) /\ Work!GiveOut(t, Work!Nobody)
      /\ excused' = excused \cup {t} /\ UNCHANGED <<open, quiet, answered>>
  BY DEF Work!ClaimUnheard
<1>3. /\ worker' \in [Clients -> WorkSlot]
      /\ worker'[w] = Work!Failed(w)
      /\ \A v \in Clients \ {w} : worker'[v] = worker[v]
      /\ SlotsFit'
  BY <1>1, <1>2, WorkSlotsStay
<1>4. Work!TypeOK'
  BY <1>2, <1>3, GivenOut DEF WorkInv, Work!TypeOK, Leases, WorkSlot
<1>5. worker[w].task = Work!NoTask
  BY DEF Work!ClaimUnheard, Work!At, WorkInv, SlotsFit, Fits
<1>6. WorkIsHeld'
  <2> SUFFICES ASSUME NEW u \in Jobs, u \notin excused'
               PROVE  /\ lease'[u] = lease[u] /\ u \notin excused
                      /\ \A v \in Clients : worker'[v].task = u <=> worker[v].task = u
    BY <1>2 DEF WorkInv, WorkIsHeld
  <2> QED BY <1>1, <1>2, <1>3, <1>5, GivenOut DEF LeasesSound
<1> QED BY <1>2, <1>3, <1>4, <1>6, GivenOut DEF WorkInv, NoWorkIsWasted, Work!NoWorkIsWasted

\* A worker that keeps its task or leaves it with an excuse.
LEMMA LettingGoInv ==
    ASSUME LeasesSound, WorkInv, NEW w \in Clients, NEW q \in WorkSlot, Fits(q), Work!Become(w, q),
           UNCHANGED <<open, lease, quiet, wasted, answered>>,
           excused \subseteq excused', excused' \subseteq Jobs,
           \/ q.task = worker[w].task
           \/ q.task = Work!NoTask /\ (worker[w].task \in Jobs => worker[w].task \in excused')
    PROVE  WorkInv'
<1>1. worker' \in [Clients -> WorkSlot] /\ SlotsFit'
  BY WorkSlotsStay
<1>2. Work!TypeOK'
  BY <1>1 DEF WorkInv, Work!TypeOK, WorkSlot
<1>3. WorkIsHeld'
  BY LettingGoHolds
<1>4. NobodysLeaseIsOver' /\ NoWorkIsWasted'
  BY DEF WorkInv, NobodysLeaseIsOver, NoWorkIsWasted, Work!NoWorkIsWasted
<1> QED BY <1>1, <1>2, <1>3, <1>4 DEF WorkInv

\* A heartbeat adds to what is left of a lease, and ends the silence.
LEMMA HeartbeatInv ==
    ASSUME LeasesSound, WorkInv, NEW w \in Clients, NEW t \in Jobs, Work!Heartbeat(w, t)
    PROVE  WorkInv'
<1> DEFINE n == IF lease[t].left + Ttl < MaxLeft THEN lease[t].left + Ttl ELSE MaxLeft
<1>1. lease[t] \in Leases /\ lease \in [Jobs -> Leases]
  BY DEF WorkInv, Work!TypeOK, Leases
<1>2. n \in 0..MaxLeft /\ n >= Ttl
  BY <1>1 DEF Leases, LeasesSound
<1>3. lease' = [lease EXCEPT ![t].left = n]
  BY DEF Work!Heartbeat
<1> HIDE DEF n
<1>4. /\ lease' \in [Jobs -> Leases]
      /\ lease'[t].holder = lease[t].holder /\ lease'[t].left = n
      /\ \A u \in Jobs \ {t} : lease'[u] = lease[u]
  BY <1>1, <1>2, <1>3 DEF Leases
<1>5. quiet' \in [Clients -> 0..Ttl] /\ quiet'[w] = 0
      /\ \A v \in Clients \ {w} : quiet'[v] = quiet[v]
  BY DEF Work!Heartbeat, WorkInv, Work!TypeOK, LeasesSound
<1>6. UNCHANGED <<open, worker, excused, wasted, answered>> /\ worker[w].task = t
      /\ lease[t].holder = w
  BY DEF Work!Heartbeat
<1>7. Work!TypeOK'
  BY <1>4, <1>5, <1>6 DEF WorkInv, Work!TypeOK, Leases
<1>8. WorkIsHeld'
  <2> SUFFICES ASSUME NEW u \in Jobs \ excused
               PROVE  /\ \A v \in Clients : worker[v].task = u =>
                            /\ u \in open
                            /\ lease'[u].holder = v
                            /\ quiet'[v] < Ttl
                            /\ lease'[u].left + quiet'[v] >= Ttl
                      /\ lease'[u].holder # Work!Nobody
                      /\ \A v \in Clients : lease'[u].holder = v => worker[v].task = u
    BY <1>6 DEF WorkIsHeld
  <2>1. CASE u = t
    <3>1. \A v \in Clients : worker[v].task = u => v = w
      BY <1>6, <2>1 DEF WorkInv, WorkIsHeld
    <3> QED BY <1>2, <1>4, <1>5, <1>6, <2>1, <3>1 DEF WorkInv, WorkIsHeld, LeasesSound
  <2>2. CASE u # t
    BY <1>4, <1>5, <1>6, <2>2 DEF WorkInv, WorkIsHeld
  <2> QED BY <2>1, <2>2
<1>9. NobodysLeaseIsOver'
  BY <1>4, <1>6 DEF WorkInv, NobodysLeaseIsOver, LeasesSound
<1> QED BY <1>6, <1>7, <1>8, <1>9 DEF WorkInv, SlotsFit, NoWorkIsWasted, Work!NoWorkIsWasted

\* A report closes the task, or changes nothing but the worker.
LEMMA ReportInv ==
    ASSUME LeasesSound, WorkInv, NEW w \in Clients, NEW t \in Jobs, Work!Report(w, t)
    PROVE  WorkInv'
<1>1. Work!Become(w, Work!Polling) /\ worker[w].task = t /\ quiet' = quiet
  BY DEF Work!Report
<1>2. /\ worker' \in [Clients -> WorkSlot]
      /\ worker'[w] = Work!Polling
      /\ \A v \in Clients \ {w} : worker'[v] = worker[v]
      /\ SlotsFit'
  BY <1>1, WorkRecords, WorkSlotsStay
<1>3. excused \subseteq excused' /\ excused' \subseteq Jobs /\ wasted' \subseteq Jobs
      /\ answered' \subseteq Jobs
  BY DEF Work!Report, WorkInv, Work!TypeOK
<1>4. wasted' \subseteq excused'
  <2>1. t \in open \/ t \in excused
    BY <1>1 DEF WorkInv, WorkIsHeld
  <2> QED BY <1>3, <2>1 DEF Work!Report, WorkInv, NoWorkIsWasted, Work!NoWorkIsWasted
<1>5. CASE t \in open /\ Work!ContractMet(w, t)
  <2>1. open' = open \ {t} /\ lease' = [lease EXCEPT ![t] = Work!NoLease]
    BY <1>5 DEF Work!Report
  <2>2. /\ lease' \in [Jobs -> Leases] /\ lease'[t] = Work!NoLease
        /\ \A u \in Jobs \ {t} : lease'[u] = lease[u]
    BY <2>1, WorkRecords DEF WorkInv, Work!TypeOK, Leases
  <2>3. Work!TypeOK'
    BY <1>1, <1>2, <1>3, <2>1, <2>2 DEF WorkInv, Work!TypeOK, Leases, WorkSlot
  <2>4. NobodysLeaseIsOver'
    BY <2>2 DEF WorkInv, NobodysLeaseIsOver
  <2>5. WorkIsHeld'
    <3> SUFFICES ASSUME NEW u \in Jobs, u \notin excused'
                 PROVE  /\ \A v \in Clients : worker'[v].task = u =>
                              /\ u \in open'
                              /\ lease'[u].holder = v
                              /\ quiet[v] < Ttl
                              /\ lease'[u].left + quiet[v] >= Ttl
                        /\ lease'[u].holder # Work!Nobody
                        /\ \A v \in Clients : lease'[u].holder = v => worker'[v].task = u
      BY <1>1 DEF WorkIsHeld
    <3>1. CASE u = t
      <4>1. \A v \in Clients : worker'[v].task # t
        BY <1>1, <1>2, <1>3, <3>1 DEF WorkInv, WorkIsHeld, Work!Polling, LeasesSound
      <4>2. lease'[t].holder = "none" /\ "none" # Work!Nobody
        BY <2>2 DEF Work!NoLease, Work!Nobody
      <4> QED BY <3>1, <4>1, <4>2 DEF LeasesSound
    <3>2. CASE u # t
      <4>1. \A v \in Clients : worker'[v].task = u <=> worker[v].task = u
        BY <1>1, <1>2, <3>2 DEF Work!Polling, LeasesSound
      <4> QED BY <1>3, <2>1, <2>2, <3>2, <4>1 DEF WorkInv, WorkIsHeld
    <3> QED BY <3>1, <3>2
  <2> QED BY <1>2, <1>4, <2>3, <2>4, <2>5 DEF WorkInv, NoWorkIsWasted, Work!NoWorkIsWasted
<1>6. CASE ~(t \in open /\ Work!ContractMet(w, t))
  <2>1. UNCHANGED <<open, lease, quiet>>
    BY <1>6 DEF Work!Report
  <2>2. t \in excused'
    BY <1>1, <1>3, <1>6 DEF Work!Report, WorkInv, WorkIsHeld
  <2>3. WorkIsHeld'
    BY <1>1, <1>3, <2>1, <2>2, WorkRecords, LettingGoHolds DEF Work!Polling
  <2>4. Work!TypeOK'
    BY <1>2, <1>3, <2>1 DEF WorkInv, Work!TypeOK, WorkSlot
  <2> QED BY <1>2, <1>4, <2>1, <2>3, <2>4 DEF WorkInv, NobodysLeaseIsOver, NoWorkIsWasted,
        Work!NoWorkIsWasted
<1> QED BY <1>5, <1>6

\* A tick takes from the lease what it adds to the silence, or makes an excuse.
LEMMA TickInv == ASSUME LeasesSound, WorkInv, Work!Tick PROVE WorkInv'
<1>1. /\ UNCHANGED <<open, worker, wasted, answered>>
      /\ excused' = excused \cup {t \in Jobs : \E w \in Clients :
                                      worker[w].task = t /\ quiet'[w] = Ttl}
  BY DEF Work!Tick
<1>2. ASSUME NEW t \in Jobs
      PROVE  lease[t] \in Leases /\ lease[t].left \in Nat /\ lease[t].left <= MaxLeft
  BY DEF WorkInv, Work!TypeOK, Leases, LeasesSound
<1>3. ASSUME NEW t \in Jobs
      PROVE  /\ lease'[t] \in Leases
             /\ lease'[t].holder = lease[t].holder
             /\ lease'[t].left = IF lease[t].left > 0 THEN lease[t].left - 1 ELSE 0
  <2> DEFINE n == IF lease[t].left > 0 THEN lease[t].left - 1 ELSE 0
  <2>1. n \in 0..MaxLeft
    BY <1>2 DEF LeasesSound
  <2>2. lease[t] \in Leases /\ lease'[t] = [lease[t] EXCEPT !.left = n]
    BY <1>2 DEF Work!Tick
  <2> HIDE DEF n
  <2>3. lease'[t] \in Leases /\ lease'[t].holder = lease[t].holder /\ lease'[t].left = n
    BY <2>1, <2>2 DEF Leases
  <2> QED BY <2>3 DEF n
<1>4. lease' \in [Jobs -> Leases]
  BY <1>3 DEF Work!Tick
<1>5. \A w \in Clients : quiet[w] \in 0..Ttl /\ quiet'[w] \in 0..Ttl
  BY DEF Work!Tick, WorkInv, Work!TypeOK, LeasesSound
<1>6. quiet' \in [Clients -> 0..Ttl]
  BY <1>5 DEF Work!Tick
<1>7. Work!TypeOK'
  BY <1>1, <1>4, <1>6 DEF WorkInv, Work!TypeOK, Leases
<1>8. WorkIsHeld'
  <2> SUFFICES ASSUME NEW u \in Jobs, u \notin excused'
               PROVE  /\ \A v \in Clients : worker[v].task = u =>
                            /\ u \in open
                            /\ lease'[u].holder = v
                            /\ quiet'[v] < Ttl
                            /\ lease'[u].left + quiet'[v] >= Ttl
                      /\ lease'[u].holder # Work!Nobody
                      /\ \A v \in Clients : lease'[u].holder = v => worker[v].task = u
    BY <1>1 DEF WorkIsHeld
  <2>1. u \in Jobs \ excused /\ lease'[u].holder = lease[u].holder
    BY <1>1, <1>3
  <2>2. ASSUME NEW v \in Clients, worker[v].task = u
        PROVE  quiet'[v] < Ttl /\ lease'[u].left + quiet'[v] >= Ttl
    <3>1. quiet'[v] # Ttl
      BY <1>1, <2>2
    <3>2. lease[u].left + quiet[v] >= Ttl /\ quiet[v] < Ttl
      BY <2>1, <2>2 DEF WorkInv, WorkIsHeld
    <3>3. worker[v].task # Work!NoTask
      BY <2>2 DEF LeasesSound
    <3>4. quiet'[v] = quiet[v] + 1
      BY <3>2, <3>3 DEF Work!Tick
    <3>5. lease[u].left \in Nat
      BY <1>2
    <3> QED BY <1>3, <1>5, <3>1, <3>2, <3>4, <3>5 DEF LeasesSound
  <2> QED BY <2>1, <2>2 DEF WorkInv, WorkIsHeld
<1>9. NobodysLeaseIsOver'
  <2> SUFFICES ASSUME NEW t \in Jobs, lease'[t].holder = "none" PROVE lease'[t] = Work!NoLease
    BY DEF NobodysLeaseIsOver
  <2>1. lease[t] = Work!NoLease
    BY <1>3 DEF WorkInv, NobodysLeaseIsOver
  <2> QED BY <1>3, <2>1 DEF Work!NoLease, Leases
<1> QED BY <1>1, <1>7, <1>8, <1>9 DEF WorkInv, SlotsFit, NoWorkIsWasted, Work!NoWorkIsWasted

LEMMA SweepInv == ASSUME LeasesSound, WorkInv, Work!Sweep PROVE WorkInv'
<1>1. /\ UNCHANGED <<open, worker, quiet, excused, wasted, answered>>
      /\ lease' = [t \in Jobs |-> IF lease[t].left = 0 THEN Work!NoLease ELSE lease[t]]
  BY DEF Work!Sweep
<1>2. lease' \in [Jobs -> Leases]
  BY <1>1, WorkRecords DEF WorkInv, Work!TypeOK, Leases
<1>3. Work!TypeOK'
  BY <1>1, <1>2 DEF WorkInv, Work!TypeOK, Leases
<1>4. WorkIsHeld'
  <2> SUFFICES ASSUME NEW u \in Jobs \ excused
               PROVE  /\ \A v \in Clients : worker[v].task = u =>
                            /\ u \in open
                            /\ lease'[u].holder = v
                            /\ quiet[v] < Ttl
                            /\ lease'[u].left + quiet[v] >= Ttl
                      /\ lease'[u].holder # Work!Nobody
                      /\ \A v \in Clients : lease'[u].holder = v => worker[v].task = u
    BY <1>1 DEF WorkIsHeld
  <2>1. CASE lease[u].left = 0
    <3>1. \A v \in Clients : worker[v].task # u
      BY <2>1 DEF WorkInv, Work!TypeOK, WorkIsHeld, LeasesSound
    <3>2. lease'[u].holder = "none" /\ "none" # Work!Nobody
      BY <1>1, <2>1 DEF Work!NoLease, Work!Nobody
    <3> QED BY <3>1, <3>2 DEF LeasesSound
  <2>2. CASE lease[u].left # 0
    BY <1>1, <2>2 DEF WorkInv, WorkIsHeld
  <2> QED BY <2>1, <2>2
<1>5. NobodysLeaseIsOver'
  BY <1>1 DEF WorkInv, NobodysLeaseIsOver
<1> QED BY <1>1, <1>3, <1>4, <1>5 DEF WorkInv, SlotsFit, NoWorkIsWasted, Work!NoWorkIsWasted

LEMMA WorkStep == ASSUME LeasesSound PROVE WorkInv /\ [Work!Next]_(Work!vars) => WorkInv'
<1> SUFFICES ASSUME WorkInv, [Work!Next]_(Work!vars) PROVE WorkInv'
  OBVIOUS
<1>1. ASSUME NEW w \in Clients, NEW t \in Jobs,
             Work!ClaimNext(w, t) \/ Work!ClaimUnheard(w, t) \/ Work!Heartbeat(w, t)
                   \/ Work!Report(w, t)
      PROVE  WorkInv'
  BY <1>1, ClaimNextInv, ClaimUnheardInv, HeartbeatInv, ReportInv
<1>2. ASSUME NEW w \in Clients, Work!ClaimFails(w) PROVE WorkInv'
  <2>1. Work!Failed(w) \in WorkSlot /\ Fits(Work!Failed(w)) /\ Work!Failed(w).task = Work!NoTask
    BY <1>2, FailedFits DEF Work!ClaimFails
  <2>2. worker[w].task = Work!NoTask /\ Work!NoTask \notin Jobs
    BY <1>2 DEF Work!ClaimFails, Work!At, WorkInv, SlotsFit, Fits, LeasesSound
  <2> QED BY <1>2, <2>1, <2>2, LettingGoInv DEF Work!ClaimFails, WorkInv, Work!TypeOK
<1>3. ASSUME NEW w \in Clients, Work!NothingToDo(w) PROVE WorkInv'
  <2>1. worker[w].task = Work!NoTask /\ Work!NoTask \notin Jobs
    BY <1>3 DEF Work!NothingToDo, Work!At, WorkInv, SlotsFit, Fits, LeasesSound
  <2> QED BY <1>3, <2>1, WorkRecords, LettingGoInv DEF Work!NothingToDo, Work!Polling, WorkInv,
        Work!TypeOK
<1>4. ASSUME NEW w \in Clients, Work!Executed(w) PROVE WorkInv'
  <2>1. PICK outcome \in {"succeeded", "failed"} : Work!Become(w, [worker[w] EXCEPT !.pc = outcome])
    BY <1>4 DEF Work!Executed
  <2> DEFINE q == [worker[w] EXCEPT !.pc = outcome]
  <2>2. worker[w] \in WorkSlot /\ worker[w].task # Work!NoTask
    BY <1>4 DEF Work!Executed, Work!At, WorkInv, Work!TypeOK, WorkSlot, SlotsFit, Fits
  <2>3. q \in WorkSlot /\ Fits(q) /\ q.task = worker[w].task
    BY <2>2 DEF WorkSlot, Fits
  <2> HIDE DEF q
  <2>4. Work!Become(w, q)
    BY <2>1 DEF q
  <2> QED BY <1>4, <2>3, <2>4, LettingGoInv DEF Work!Executed, WorkInv, Work!TypeOK
<1>5. ASSUME NEW w \in Clients, Work!ReportLost(w) PROVE WorkInv'
  <2>1. worker[w].task \in Jobs
    BY <1>5 DEF Work!ReportLost, Work!Reporting, Work!At, WorkInv, Work!TypeOK, SlotsFit, Fits
  <2> QED BY <1>5, <2>1, WorkRecords, LettingGoInv DEF Work!ReportLost, Work!Polling, WorkInv,
        Work!TypeOK
<1>6. ASSUME NEW w \in Clients, Work!Restart(w) PROVE WorkInv'
  BY <1>6, WorkRecords, LettingGoInv DEF Work!Restart, Work!Polling, WorkInv, Work!TypeOK
<1>7. CASE Work!Tick \/ Work!Sweep
  BY <1>7, TickInv, SweepInv
<1>8. CASE UNCHANGED Work!vars
  BY <1>8 DEF Work!vars, WorkInv, Work!TypeOK, WorkIsHeld, NobodysLeaseIsOver, SlotsFit,
        NoWorkIsWasted, Work!NoWorkIsWasted
<1> QED BY <1>1, <1>2, <1>3, <1>4, <1>5, <1>6, <1>7, <1>8 DEF Work!Next

\* A task is given out again, or a report on it refused, only after a message about
\* it was lost, the report was refused for the contract, a worker of it was killed,
\* or was silent for a whole lease (worker.go:180-199, leases.go:206-232), for any
\* number of workers and any life of a lease.
THEOREM WastesNothing == Work!Spec => []NoWorkIsWasted
<1> USE ComponentsAssumption
<1>1. Work!Init => WorkInv
  BY WorkInit
<1>2. WorkInv /\ [Work!Next]_(Work!vars) => WorkInv'
  BY WorkStep
<1>3. WorkInv => NoWorkIsWasted
  BY DEF WorkInv
<1> QED BY <1>1, <1>2, <1>3, PTL DEF Work!Spec

\* The lock of the lifecycle, as the worker sees it: a task is held while its lease has
\* ticks left, under the name of the holder and its own.
HeldByNone == <<"none", Work!NoTask>>

WorkHolder ==
    [t \in Jobs |-> IF lease[t].left > 0 THEN <<lease[t].holder, t>> ELSE HeldByNone]

WorkLock == INSTANCE LeaseLock WITH Tasks <- Jobs,
                                    LeaseIds <- (Clients \cup {Work!Nobody}) \X Jobs,
                                    Free <- HeldByNone,
                                    holder <- WorkHolder

\* Who gets hold of a free task holds nothing under that name.
LEMMA FreeIsGranted ==
    ASSUME LeasesSound, NEW t \in Jobs, NEW h \in Clients \cup {Work!Nobody},
           ~(lease[t].left > 0), WorkHolder' = [WorkHolder EXCEPT ![t] = <<h, t>>]
    PROVE  WorkLock!Next
<1>1. WorkHolder[t] = HeldByNone
  BY DEF WorkHolder
<1>2. HeldByNone # <<h, t>>
  <2>1. h # "none"
    BY DEF LeasesSound, Work!Nobody
  <2> QED BY <2>1 DEF HeldByNone
<1>3. ASSUME NEW u \in Jobs PROVE WorkHolder[u] # <<h, t>>
  <2>1. CASE u = t
    BY <1>1, <1>2, <2>1
  <2>2. CASE u # t
    BY <1>2, <2>2 DEF WorkHolder
  <2> QED BY <2>1, <2>2
<1>4. WorkLock!Grant(t, <<h, t>>)
  BY <1>1, <1>3 DEF WorkLock!Grant
<1>5. <<h, t>> \in (Clients \cup {Work!Nobody}) \X Jobs
  OBVIOUS
<1> QED BY <1>4, <1>5 DEF WorkLock!Next

LEMMA GivingOutGrants ==
    ASSUME LeasesSound, Work!TypeOK, NEW t \in Jobs, NEW h \in Clients \cup {Work!Nobody},
           Work!GiveOut(t, h)
    PROVE  WorkLock!Next
<1> DEFINE new == [holder |-> h, left |-> Ttl]
<1>1. lease' = [lease EXCEPT ![t] = new] /\ ~(lease[t].left > 0)
  BY DEF Work!GiveOut, Work!Free
<1>2. new.holder = h /\ new.left > 0
  BY DEF LeasesSound
<1> HIDE DEF new
<1>3. lease \in [Jobs -> Leases]
  BY DEF Work!TypeOK, Leases
<1>4. WorkHolder' = [WorkHolder EXCEPT ![t] = <<h, t>>]
  BY <1>1, <1>2, <1>3 DEF WorkHolder
<1> QED BY <1>1, <1>4, FreeIsGranted

\* A step that keeps every holder, or lets go of some tasks.
LEMMA LettingGoLapses ==
    ASSUME NEW S \in SUBSET Jobs,
           \A t \in Jobs : WorkHolder'[t] = IF t \in S THEN HeldByNone ELSE WorkHolder[t]
    PROVE  WorkLock!Next
<1>1. WorkHolder' = [t \in Jobs |-> IF t \in S THEN HeldByNone ELSE WorkHolder[t]]
  BY DEF WorkHolder
<1> QED BY <1>1 DEF WorkLock!Next, WorkLock!Lapse

LEMMA WorkLockStep ==
    ASSUME LeasesSound, Work!TypeOK, [Work!Next]_(Work!vars)
    PROVE  [WorkLock!Next]_WorkHolder
<1>1. lease \in [Jobs -> Leases]
  BY DEF Work!TypeOK, Leases
<1>2. CASE UNCHANGED lease
  BY <1>2 DEF WorkHolder
<1>3. ASSUME NEW w \in Clients, NEW t \in Jobs, Work!ClaimNext(w, t) \/ Work!ClaimUnheard(w, t)
      PROVE  WorkLock!Next
  BY <1>3, GivingOutGrants DEF Work!ClaimNext, Work!ClaimUnheard
<1>4. ASSUME NEW w \in Clients, NEW t \in Jobs, Work!Heartbeat(w, t)
      PROVE  [WorkLock!Next]_WorkHolder
  <2> DEFINE n == IF lease[t].left + Ttl < MaxLeft THEN lease[t].left + Ttl ELSE MaxLeft
  <2>1. n > 0
    BY <1>1 DEF LeasesSound, Leases
  <2>2. lease[t].holder = w /\ lease' = [lease EXCEPT ![t].left = n]
    BY <1>4 DEF Work!Heartbeat
  <2> HIDE DEF n
  <2>3. lease'[t].holder = w /\ lease'[t].left = n /\ \A u \in Jobs \ {t} : lease'[u] = lease[u]
    BY <1>1, <2>2 DEF Leases
  <2>4. CASE lease[t].left > 0
    <3>1. \A u \in Jobs : WorkHolder'[u] = WorkHolder[u]
      BY <2>1, <2>2, <2>3, <2>4 DEF WorkHolder
    <3>2. WorkHolder' = WorkHolder
      BY <3>1 DEF WorkHolder
    <3> QED BY <3>2
  <2>5. CASE ~(lease[t].left > 0)
    <3> DEFINE now == [WorkHolder EXCEPT ![t] = <<w, t>>]
    <3>1. WorkHolder' = now
      <4>1. ASSUME NEW u \in Jobs PROVE WorkHolder'[u] = now[u]
        BY <2>1, <2>3, <2>5 DEF WorkHolder
      <4>2. now = [u \in Jobs |-> now[u]] /\ WorkHolder' = [u \in Jobs |-> WorkHolder'[u]]
        BY DEF WorkHolder
      <4> HIDE DEF now
      <4> QED BY <4>1, <4>2
    <3> QED BY <2>5, <3>1, FreeIsGranted
  <2> QED BY <2>4, <2>5
<1>5. ASSUME NEW w \in Clients, NEW t \in Jobs, Work!Report(w, t)
      PROVE  [WorkLock!Next]_WorkHolder
  <2>1. CASE lease' = [lease EXCEPT ![t] = Work!NoLease]
    <3>1. \A u \in Jobs : WorkHolder'[u] = IF u \in {t} THEN HeldByNone ELSE WorkHolder[u]
      BY <1>1, <2>1 DEF WorkHolder, Work!NoLease
    <3> QED BY <3>1, LettingGoLapses
  <2> QED BY <1>2, <1>5, <2>1 DEF Work!Report
<1>6. CASE Work!Tick
  <2> DEFINE S == {t \in Jobs : lease[t].left \in {0, 1}}
  <2>1. \A t \in Jobs : lease'[t].holder = lease[t].holder
           /\ lease'[t].left = IF lease[t].left > 0 THEN lease[t].left - 1 ELSE 0
    BY <1>1, <1>6 DEF Work!Tick, Leases
  <2>2. \A t \in Jobs : lease[t].left \in Nat
    BY <1>1 DEF Leases
  <2>3. \A t \in Jobs : WorkHolder'[t] = IF t \in S THEN HeldByNone ELSE WorkHolder[t]
    BY <2>1, <2>2 DEF WorkHolder
  <2> QED BY <2>3, LettingGoLapses
<1>7. CASE Work!Sweep
  <2>1. \A t \in Jobs : WorkHolder'[t] = WorkHolder[t]
    BY <1>1, <1>7 DEF Work!Sweep, Work!NoLease, WorkHolder
  <2>2. WorkHolder' = WorkHolder
    BY <2>1 DEF WorkHolder
  <2> QED BY <2>2
<1>8. ASSUME NEW w \in Clients,
             \/ Work!ClaimFails(w) \/ Work!NothingToDo(w) \/ Work!Executed(w)
             \/ Work!ReportLost(w) \/ Work!Restart(w)
      PROVE  UNCHANGED lease
  BY <1>8 DEF Work!ClaimFails, Work!NothingToDo, Work!Executed, Work!ReportLost, Work!Restart
<1> QED BY <1>2, <1>3, <1>4, <1>5, <1>6, <1>7, <1>8 DEF Work!Next, Work!vars

\* The server the worker talks to is a lock too: whatever messages are lost and whichever
\* workers stop, a task whose lease has ticks left is not given to anybody else before
\* it is reported on or the ticks are over.
THEOREM WorkersShareALock == Work!Spec => WorkLock!Spec
<1> USE ComponentsAssumption
<1>1. WorkInv /\ [Work!Next]_(Work!vars) => WorkInv'
  BY WorkStep
<1>2. Work!Init => WorkInv /\ WorkLock!Init
  BY WorkInit DEF Work!Init, Work!NoLease, WorkLock!Init, WorkHolder
<1>3. WorkInv /\ [Work!Next]_(Work!vars) => [WorkLock!Next]_WorkHolder
  BY WorkLockStep DEF WorkInv
<1> QED BY <1>1, <1>2, <1>3, PTL DEF Work!Spec, WorkLock!Spec

-----------------------------------------------------------------------------
(* The rows of agents: the two lists tell who was silent.                  *)

\* A row never says that an agent was heard of later than it was, and says when it was
\* unless that left no mark; an agent is OFFLINE only if its row is too old, and if it
\* was silent for too long the job has found it so or is due.  The lists alone say
\* nothing of a row between two ticks.
RowsTellSilence ==
    \A a \in Agency!Ids : Agency!Exists(a) =>
        /\ heard[a] <= agents[a].seen
        /\ a \notin unseen => agents[a].seen = heard[a]
        /\ agents[a].status = "OFFLINE" => agents[a].seen > Threshold
        /\ agents[a].status = "ONLINE" /\ heard[a] > Threshold => due

SilenceInv == Agency!TypeOK /\ RowsTellSilence

LEMMA SilenceInit == ASSUME Threshold \in Nat PROVE Agency!Init => SilenceInv
<1>1. 0 \in 0..Agency!Never /\ Agency!Never \in 0..Agency!Never
  BY DEF Agency!Never
<1>2. Agency!NoRow \in [status : {"none", "ONLINE", "OFFLINE"}, seen : 0..Agency!Never]
  BY <1>1 DEF Agency!NoRow
<1>3. Agency!Init => Agency!TypeOK
  BY <1>1, <1>2 DEF Agency!Init, Agency!TypeOK
<1>4. Agency!Init => RowsTellSilence
  BY DEF Agency!Init, RowsTellSilence, Agency!Exists, Agency!Ids
<1> QED BY <1>3, <1>4 DEF SilenceInv

LEMMA LaterInRange ==
    ASSUME Threshold \in Nat, NEW n \in 0..Agency!Never
    PROVE  /\ Agency!Later(n) \in 0..Agency!Never
           /\ \A m \in 0..Agency!Never : m <= n => Agency!Later(m) <= Agency!Later(n)
           /\ n > Threshold => Agency!Later(n) > Threshold
  BY DEF Agency!Later, Agency!Never

LEMMA SilenceStep ==
    ASSUME Threshold \in Nat
    PROVE  SilenceInv /\ [Agency!Next]_(Agency!vars) => SilenceInv'
<1> SUFFICES ASSUME SilenceInv, [Agency!Next]_(Agency!vars) PROVE SilenceInv'
  OBVIOUS
<1> USE DEF SilenceInv, Agency!TypeOK, RowsTellSilence, Agency!Exists, Agency!NoRow,
      Agency!Hear, Agency!See, Agency!Overlook
<1>0. Agency!Never \in Nat /\ Agency!Never > Threshold /\ Agency!Ids = Registered \cup Named
  BY DEF Agency!Never, Agency!Ids
<1>1. ASSUME NEW a \in Agency!Ids \ unused, Agency!Ensure(a) PROVE SilenceInv'
  BY <1>0, <1>1 DEF Agency!Ensure, Agency!Online
<1>9. ASSUME NEW a \in Agency!Ids \ unused, Agency!PassBy(a) PROVE SilenceInv'
  BY <1>0, <1>9 DEF Agency!PassBy
<1>2. ASSUME NEW a \in Agency!Ids \ unused, Agency!FindBeat(a) PROVE SilenceInv'
  BY <1>0, <1>2 DEF Agency!FindBeat
<1>3. ASSUME NEW a \in Agency!Ids \ unused, Agency!WriteBeat(a) PROVE SilenceInv'
  BY <1>0, <1>3 DEF Agency!WriteBeat, Agency!Online
<1>4. ASSUME NEW a \in Agency!Ids \ unused, Agency!Delete(a) PROVE SilenceInv'
  BY <1>0, <1>4 DEF Agency!Delete
<1>5. ASSUME NEW a \in unused, Agency!Register(a) PROVE SilenceInv'
  BY <1>0, <1>5 DEF Agency!Register, Agency!Online
<1>6. CASE Agency!MarkStale
  <2>1. ASSUME NEW a \in Agency!Ids
        PROVE  /\ agents'[a] \in [status : {"none", "ONLINE", "OFFLINE"}, seen : 0..Agency!Never]
               /\ agents'[a].seen = agents[a].seen
               /\ Agency!Exists(a)' => Agency!Exists(a)
               /\ agents[a].status # "ONLINE" => agents'[a] = agents[a]
               /\ agents'[a].status = "OFFLINE" =>
                      agents[a].status = "OFFLINE" \/ agents[a].seen > Threshold
               /\ agents'[a].status = "ONLINE" => ~(agents[a].seen > Threshold)
               /\ heard[a] \in Nat /\ agents[a].seen \in Nat
    BY <1>0, <1>6 DEF Agency!MarkStale, Agency!Stale
  <2>2. Agency!TypeOK'
    BY <1>6, <2>1 DEF Agency!MarkStale
  <2>3. RowsTellSilence'
    BY <1>6, <2>1 DEF Agency!MarkStale
  <2> QED BY <2>2, <2>3
<1>7. CASE Agency!Tick
  BY <1>0, <1>7, LaterInRange DEF Agency!Tick
<1>8. CASE UNCHANGED Agency!vars
  BY <1>8 DEF Agency!vars
<1> QED BY <1>1, <1>2, <1>3, <1>4, <1>5, <1>6, <1>7, <1>8, <1>9 DEF Agency!Next

\* For any number of agents and any threshold, whatever requests are answered, a
\* registration among them: no agent is listed as stale that was heard of within the
\* threshold, unless that left no mark in its row, as a registration does not; and once
\* the job has done its work none is listed as active that was silent for longer.
THEOREM ListsAreRight == Agency!Spec => []ListsTellSilence
<1> USE ComponentsAssumption
<1>1. Agency!Init => SilenceInv
  BY SilenceInit
<1>2. SilenceInv /\ [Agency!Next]_(Agency!vars) => SilenceInv'
  BY SilenceStep
<1>3. SilenceInv => ListsTellSilence
  BY DEF SilenceInv, RowsTellSilence, ListsTellSilence, Agency!ListsTellSilence, Agency!Listed,
     Agency!TypeOK
<1> QED BY <1>1, <1>2, <1>3, PTL DEF Agency!Spec

-----------------------------------------------------------------------------
(* The migrations: the table says what was done.                           *)

\* The row of a version and the removals of it account for what was committed.
Accounted == \A v \in Schema!Versions : done[v] = rolledBack[v] + (IF v \in recorded THEN 1 ELSE 0)

Known(v) == v \in recorded \/ rolledBack[v] > 0

\* What a process holds for recorded, and what it has passed, is recorded or was
\* removed since; without this nothing is known of the process when it ends.
PassedAreKnown ==
    \A p \in Clients :
        /\ \A v \in process[p].applied : Known(v)
        /\ Schema!At(p, "apply") => \A v \in Schema!Versions : v < process[p].next => Known(v)
        /\ Schema!At(p, "ready") => \A v \in Schema!Versions : Known(v)

SchemaInv == Schema!TypeOK /\ Accounted /\ PassedAreKnown

LEMMA SchemaInit == ASSUME NumbersSound PROVE Schema!Init => SchemaInv
  BY DEF NumbersSound, Schema!Init, SchemaInv, Schema!TypeOK, Accounted, PassedAreKnown,
        Known, Schema!At, Schema!Idle, Schema!Versions

\* Versions stay known: only a rollback takes a row away, and the removal is counted.
LEMMA KnownStays ==
    ASSUME NumbersSound, SchemaInv, [Schema!Next]_(Schema!vars), NEW v \in Schema!Versions,
          Known(v)
    PROVE  Known(v)'
<1>1. CASE \E p \in Clients : Schema!Apply(p)
  BY <1>1 DEF Known, Schema!Apply
<1>2. ASSUME NEW p \in Clients, Schema!Remove(p) PROVE Known(v)'
  <2> DEFINE w == process[p].next
  <2>1. /\ recorded' = recorded \ {w}
        /\ rolledBack' = [rolledBack EXCEPT ![w] = IF w \in recorded THEN @ + 1 ELSE @]
    BY <1>2 DEF Schema!Remove
  <2> HIDE DEF w
  <2> QED BY <2>1 DEF Known, SchemaInv, Schema!TypeOK, NumbersSound
<1>3. CASE UNCHANGED <<recorded, rolledBack>>
  BY <1>3 DEF Known
<1> QED BY <1>1, <1>2, <1>3 DEF Schema!Next, Schema!vars, Schema!Start, Schema!Skip,
      Schema!ApplyFails, Schema!Finish, Schema!ReadLargest, Schema!Crash

RunSlot == [pc : {"idle", "apply", "ready", "failed", "rollback"},
         applied : SUBSET Schema!Versions, next : 1..MaxVersion + 1]

LEMMA RunSlotsStay ==
    ASSUME SchemaInv, NEW p \in Clients, NEW q \in RunSlot, Schema!Become(p, q)
    PROVE  process' \in [Clients -> RunSlot]
  BY DEF SchemaInv, Schema!TypeOK, Schema!Become, RunSlot

LEMMA NextInSlot ==
    ASSUME NumbersSound, SchemaInv, NEW p \in Clients, process[p].next \in Schema!Versions
    PROVE  [process[p] EXCEPT !.next = @ + 1] \in RunSlot
<1>1. process[p] \in RunSlot
  BY DEF SchemaInv, Schema!TypeOK, RunSlot
<1>2. process[p].next + 1 \in 1..MaxVersion + 1
  BY DEF NumbersSound, Schema!Versions
<1> QED BY <1>1, <1>2 DEF RunSlot

LEMMA SchemaTypesStay ==
    ASSUME NumbersSound, SchemaInv, [Schema!Next]_(Schema!vars)
    PROVE  Schema!TypeOK'
<1>1. ASSUME NEW p \in Clients, Schema!Start(p) PROVE Schema!TypeOK'
  <2>1. [pc |-> "apply", applied |-> recorded, next |-> 1] \in RunSlot
    BY DEF RunSlot, SchemaInv, Schema!TypeOK, NumbersSound
  <2>2. process' \in [Clients -> RunSlot]
    BY <1>1, <2>1, RunSlotsStay DEF Schema!Start
  <2> QED BY <1>1, <2>2 DEF Schema!Start, SchemaInv, Schema!TypeOK, RunSlot, Schema!Versions
<1>2. ASSUME NEW p \in Clients, Schema!Skip(p) PROVE Schema!TypeOK'
  <2>1. process[p].next \in Schema!Versions
    BY <1>2 DEF Schema!Skip, SchemaInv, Schema!TypeOK
  <2>2. process' \in [Clients -> RunSlot]
    BY <1>2, <2>1, NextInSlot, RunSlotsStay DEF Schema!Skip
  <2> QED BY <1>2, <2>2 DEF Schema!Skip, SchemaInv, Schema!TypeOK, RunSlot, Schema!Versions
<1>3. ASSUME NEW p \in Clients, Schema!Apply(p) PROVE Schema!TypeOK'
  <2>1. process[p].next \in Schema!Versions /\ process[p].next \notin recorded
    BY <1>3 DEF Schema!Apply, Schema!Applies
  <2>2. process' \in [Clients -> RunSlot]
    BY <1>3, <2>1, NextInSlot, RunSlotsStay DEF Schema!Apply
  <2>3. done[process[p].next] + 1 \in 0..MaxRollbacks + 1
    BY <2>1 DEF SchemaInv, Accounted, Schema!TypeOK, NumbersSound
  <2> QED BY <1>3, <2>1, <2>2, <2>3 DEF Schema!Apply, SchemaInv, Schema!TypeOK, RunSlot
<1>4. ASSUME NEW p \in Clients, Schema!ApplyFails(p) \/ Schema!Finish(p)
      \/ Schema!Crash(p) PROVE Schema!TypeOK'
  <2>1. Schema!Idle \in RunSlot /\ [Schema!Idle EXCEPT !.pc = "failed"] \in RunSlot
        /\ [Schema!Idle EXCEPT !.pc = "ready"] \in RunSlot
    BY DEF RunSlot, Schema!Idle, NumbersSound
  <2>2. process' \in [Clients -> RunSlot]
    BY <1>4, <2>1, RunSlotsStay DEF Schema!ApplyFails, Schema!Finish, Schema!Crash
  <2> QED BY <1>4, <2>2 DEF Schema!ApplyFails, Schema!Finish, Schema!Crash, SchemaInv,
        Schema!TypeOK, RunSlot, Schema!Versions
<1>5. ASSUME NEW p \in Clients, Schema!ReadLargest(p) PROVE Schema!TypeOK'
  <2>1. PICK v \in Schema!Versions :
          Schema!Become(p, [Schema!Idle EXCEPT !.pc = "rollback", !.next = v])
    BY <1>5 DEF Schema!ReadLargest, SchemaInv, Schema!TypeOK
  <2>2. [Schema!Idle EXCEPT !.pc = "rollback", !.next = v] \in RunSlot
    <3>1. Schema!Idle \in RunSlot
      BY DEF RunSlot, Schema!Idle, NumbersSound
    <3>2. v \in 1..MaxVersion + 1
      BY DEF Schema!Versions, NumbersSound
    <3> QED BY <3>1, <3>2 DEF RunSlot
  <2>3. process' \in [Clients -> RunSlot]
    BY <2>1, <2>2, RunSlotsStay
  <2> QED BY <1>5, <2>3 DEF Schema!ReadLargest, SchemaInv, Schema!TypeOK, RunSlot, Schema!Versions
<1>7. ASSUME NEW p \in Clients, Schema!Remove(p) PROVE Schema!TypeOK'
  <2> DEFINE v == process[p].next
             n == IF v \in recorded THEN rolledBack[v] + 1 ELSE rolledBack[v]
  <2>1. /\ rolledBack[v] < MaxRollbacks /\ recorded' = recorded \ {v}
        /\ rolledBack' = [rolledBack EXCEPT ![v] = n]
        /\ Schema!Become(p, Schema!Idle) /\ done' = done
    BY <1>7 DEF Schema!Remove
  <2>2. v \in Schema!Versions => n \in 0..MaxRollbacks
    BY <2>1 DEF SchemaInv, Schema!TypeOK, NumbersSound
  <2> HIDE DEF n, v
  <2>3. rolledBack' \in [Schema!Versions -> 0..MaxRollbacks] /\ recorded' \subseteq Schema!Versions
    BY <2>1, <2>2 DEF SchemaInv, Schema!TypeOK
  <2>4. Schema!Idle \in RunSlot
    BY DEF RunSlot, Schema!Idle, NumbersSound
  <2>5. process' \in [Clients -> RunSlot]
    BY <2>1, <2>4, RunSlotsStay
  <2> QED BY <2>1, <2>3, <2>5 DEF SchemaInv, Schema!TypeOK, RunSlot, Schema!Versions
<1>6. CASE UNCHANGED Schema!vars
  BY <1>6 DEF Schema!vars, SchemaInv, Schema!TypeOK, Schema!Versions
<1> QED BY <1>1, <1>2, <1>3, <1>4, <1>5, <1>6, <1>7 DEF Schema!Next

LEMMA AccountsStay ==
    ASSUME NumbersSound, SchemaInv, [Schema!Next]_(Schema!vars)
    PROVE  Accounted'
<1> USE DEF SchemaInv, Schema!TypeOK, NumbersSound, Accounted
<1>1. ASSUME NEW p \in Clients, Schema!Apply(p) PROVE Accounted'
  BY <1>1 DEF Schema!Apply, Schema!Applies
<1>2. ASSUME NEW p \in Clients, Schema!Remove(p) PROVE Accounted'
  <2> DEFINE v == process[p].next
  <2>1. /\ recorded' = recorded \ {v} /\ done' = done
        /\ rolledBack' = [rolledBack EXCEPT ![v] = IF v \in recorded THEN @ + 1 ELSE @]
    BY <1>2 DEF Schema!Remove
  <2> HIDE DEF v
  <2> QED BY <2>1
<1>3. CASE UNCHANGED <<recorded, done, rolledBack>>
  BY <1>3
<1> QED BY <1>1, <1>2, <1>3 DEF Schema!Next, Schema!vars, Schema!Start, Schema!Skip,
      Schema!ApplyFails, Schema!Finish, Schema!ReadLargest, Schema!Crash

LEMMA PassedStay ==
    ASSUME NumbersSound, SchemaInv, [Schema!Next]_(Schema!vars)
    PROVE  PassedAreKnown'
<1> SUFFICES ASSUME NEW p \in Clients
             PROVE  /\ \A v \in process'[p].applied : Known(v)'
                    /\ process'[p].pc = "apply" =>
                         \A v \in Schema!Versions : v < process'[p].next => Known(v)'
                    /\ process'[p].pc = "ready" => \A v \in Schema!Versions : Known(v)'
  BY DEF PassedAreKnown, Schema!At
<1>1. \A v \in Schema!Versions : Known(v) => Known(v)'
  BY KnownStays
<1>2. process[p] \in [pc : {"idle", "apply", "ready", "failed", "rollback"},
                      applied : SUBSET Schema!Versions, next : 1..MaxVersion + 1]
  BY DEF SchemaInv, Schema!TypeOK
<1>3. CASE Schema!Start(p)
  <2>1. process'[p] = [pc |-> "apply", applied |-> recorded, next |-> 1] /\ recorded' = recorded
    BY <1>3 DEF Schema!Start, Schema!Become, SchemaInv, Schema!TypeOK
  <2> QED BY <2>1 DEF Known, Schema!Versions, NumbersSound
<1>4. CASE Schema!Skip(p)
  <2>1. process'[p] = [process[p] EXCEPT !.next = @ + 1] /\ Schema!At(p, "apply")
    BY <1>4 DEF Schema!Skip, Schema!Become, SchemaInv, Schema!TypeOK
  <2>2. \A v \in Schema!Versions : v < process[p].next + 1 => Known(v)
    BY <1>4, <1>2, <2>1 DEF Schema!Skip, SchemaInv, PassedAreKnown, Schema!Versions, NumbersSound
  <2> QED BY <1>1, <1>2, <2>1, <2>2 DEF SchemaInv, PassedAreKnown, Schema!At
<1>5. CASE Schema!Apply(p)
  <2>1. process'[p] = [process[p] EXCEPT !.next = @ + 1] /\ Schema!At(p, "apply")
    BY <1>5 DEF Schema!Apply, Schema!Become, SchemaInv, Schema!TypeOK
  <2>2. \A v \in Schema!Versions : v < process[p].next => Known(v)
    BY <2>1 DEF SchemaInv, PassedAreKnown
  <2>3. \A v \in Schema!Versions : v = process[p].next => Known(v)'
    BY <1>5 DEF Schema!Apply, Known
  <2>4. \A v \in Schema!Versions : v < process[p].next + 1 => v < process[p].next
        \/ v = process[p].next
    BY <1>2 DEF Schema!Versions, NumbersSound
  <2> QED BY <1>1, <1>2, <2>1, <2>2, <2>3, <2>4 DEF SchemaInv, PassedAreKnown, Schema!At
<1>6. CASE Schema!ApplyFails(p) \/ Schema!Crash(p) \/ Schema!Remove(p)
  BY <1>6 DEF Schema!ApplyFails, Schema!Crash, Schema!Remove, Schema!Become, Schema!Idle, SchemaInv,
     Schema!TypeOK
<1>9. CASE Schema!ReadLargest(p)
  BY <1>9 DEF Schema!ReadLargest, Schema!Become, Schema!Idle, SchemaInv, Schema!TypeOK
<1>7. CASE Schema!Finish(p)
  <2>1. process'[p] = [Schema!Idle EXCEPT !.pc = "ready"] /\ Schema!At(p, "apply")
    BY <1>7 DEF Schema!Finish, Schema!Become, SchemaInv, Schema!TypeOK
  <2>2. \A v \in Schema!Versions : Known(v)
    BY <1>7, <2>1 DEF Schema!Finish, SchemaInv, PassedAreKnown, Schema!Versions, NumbersSound
  <2> QED BY <1>1, <2>1, <2>2 DEF Schema!Idle
<1>8. CASE process'[p] = process[p]
  BY <1>1, <1>2, <1>8 DEF SchemaInv, PassedAreKnown, Schema!At
<1> QED
  <2>1. ASSUME NEW q \in Clients, q # p, NEW r, Schema!Become(q, r)
        PROVE  process'[p] = process[p]
    BY <2>1 DEF Schema!Become, SchemaInv, Schema!TypeOK
  <2>2. ASSUME NEW q \in Clients, q # p,
               Schema!Start(q) \/ Schema!Skip(q) \/ Schema!Apply(q) \/ Schema!ApplyFails(q)
                     \/ Schema!Finish(q) \/ Schema!ReadLargest(q) \/ Schema!Remove(q)
                     \/ Schema!Crash(q)
        PROVE  process'[p] = process[p]
    BY <2>1, <2>2 DEF Schema!Start, Schema!Skip, Schema!Apply, Schema!ApplyFails, Schema!Finish,
          Schema!ReadLargest, Schema!Remove, Schema!Crash
  <2> QED BY <1>3, <1>4, <1>5, <1>6, <1>7, <1>8, <1>9, <2>2 DEF Schema!Next, Schema!vars

\* However many processes start on one file, stop, and roll back what they read to be
\* the largest version, one beside the other: the statements of a version were committed
\* once for its row and once for every removal of it, and a server that is ready has
\* every version whose row was not removed.
THEOREM TableTellsWhatWasDone == Schema!Spec => []RecordedIsDone
<1> USE ComponentsAssumption
<1>1. Schema!Init => SchemaInv
  BY SchemaInit
<1>2. SchemaInv /\ [Schema!Next]_(Schema!vars) => SchemaInv'
  BY SchemaTypesStay, AccountsStay, PassedStay DEF SchemaInv
<1>3. SchemaInv => RecordedIsDone
  BY DEF SchemaInv, Accounted, PassedAreKnown, Known, RecordedIsDone, Schema!RecordedIsDone
<1> QED BY <1>1, <1>2, <1>3, PTL DEF Schema!Spec

-----------------------------------------------------------------------------
(* The prompts: at most one version of a prompt is active, overtaken       *)
(* creations apart.                                                        *)

Version == 1..MaxVersions
Row == [active : BOOLEAN, content : Contents]
Creation == [pc : {"idle", "read", "insert", "deactivate"}, version : Nat]

RowsAreVersions ==
    /\ DOMAIN rows \subseteq Version
    /\ rows \in [DOMAIN rows -> Row]
    /\ creator \in [Clients -> Creation]
    /\ \A c \in Clients : creator[c].pc = "insert" => creator[c].version \in Version
    /\ overtaken \in BOOLEAN

\* Of two active versions the smaller is about to be set inactive.
SmallerIsDoomed ==
    ~overtaken => \A u, v \in Prompt!Active : u < v =>
        \E c \in Clients : creator[c].pc = "deactivate" /\ creator[c].version > u

PromptInv == RowsAreVersions /\ SmallerIsDoomed

LEMMA IdleCreation == Prompt!Idle \in Creation /\ Prompt!Idle.pc = "idle"
  BY DEF Prompt!Idle, Creation

LEMMA PromptInit == Prompt!Init => PromptInv
<1> SUFFICES ASSUME Prompt!Init PROVE PromptInv
  OBVIOUS
<1>1. DOMAIN rows = {} /\ rows = [v \in {} |-> 0]
  BY DEF Prompt!Init
<1>2. rows \in [DOMAIN rows -> Row]
  BY <1>1
<1>3. creator \in [Clients -> Creation] /\ \A c \in Clients : creator[c].pc = "idle"
  BY IdleCreation DEF Prompt!Init
<1> QED BY <1>1, <1>2, <1>3 DEF Prompt!Init, PromptInv, RowsAreVersions, SmallerIsDoomed, Prompt!Active

LEMMA LargestVersion ==
    ASSUME NumbersSound, RowsAreVersions
    PROVE  LET m == Prompt!Max(DOMAIN rows \cup {0}) IN
             /\ m \in Nat
             /\ \A v \in DOMAIN rows : m >= v
<1> DEFINE S == DOMAIN rows \cup {0}
<1>1. S \in SUBSET (0..MaxVersions) /\ S # {} /\ MaxVersions \in Nat
  BY DEF RowsAreVersions, Version, NumbersSound
<1> HIDE DEF S
<1>2. \E x \in S : \A y \in S : x >= y
  BY <1>1, GreatestExists
<1>3. Prompt!Max(S) \in S /\ \A y \in S : Prompt!Max(S) >= y
  BY <1>2 DEF Prompt!Max
<1> QED BY <1>1, <1>3 DEF S

\* Steps that leave the rows, but for their content, and drop no creation that is to
\* set versions inactive.
LEMMA FewerActive ==
    ASSUME PromptInv, RowsAreVersions', overtaken' = overtaken,
           Prompt!Active' \subseteq Prompt!Active,
           \A c \in Clients : creator[c].pc = "deactivate" => creator'[c] = creator[c]
    PROVE  PromptInv'
  BY DEF PromptInv, RowsAreVersions, SmallerIsDoomed, Prompt!Active

LEMMA CreatorMoves ==
    ASSUME PromptInv, NEW c \in Clients, NEW q \in Creation, creator' = [creator EXCEPT ![c] = q],
           q.pc = "insert" => q.version \in Version, UNCHANGED <<rows, overtaken>>,
           creator[c].pc # "deactivate"
    PROVE  PromptInv'
<1>1. RowsAreVersions'
  BY DEF PromptInv, RowsAreVersions
<1>2. \A d \in Clients : creator[d].pc = "deactivate" => creator'[d] = creator[d]
  BY DEF PromptInv, RowsAreVersions
<1>3. Prompt!Active' = Prompt!Active
  BY DEF Prompt!Active
<1> QED BY <1>1, <1>2, <1>3, FewerActive

LEMMA BeginInv ==
    ASSUME NumbersSound, PromptInv, NEW c \in Clients, NEW seed \in BOOLEAN,
           Prompt!Begin(c, seed) \/ Prompt!ReadMax(c)
    PROVE  PromptInv'
<1> DEFINE begin == [Prompt!Idle EXCEPT !.pc = "read"]
           m == Prompt!Max(DOMAIN rows \cup {0})
           read == [pc |-> "insert", version |-> m + 1]
<1>1. CASE Prompt!Begin(c, seed)
  <2>1. begin \in Creation /\ begin.pc = "read"
    BY DEF Prompt!Idle, Creation
  <2>2. creator' = [creator EXCEPT ![c] = begin] /\ UNCHANGED <<rows, overtaken>>
        /\ creator[c].pc # "deactivate"
    BY <1>1 DEF Prompt!Begin, Prompt!Become, Prompt!At
  <2> HIDE DEF begin
  <2> QED BY <2>1, <2>2, CreatorMoves
<1>2. CASE Prompt!ReadMax(c)
  <2>1. m \in Nat /\ m < MaxVersions /\ MaxVersions \in Nat
    BY <1>2, LargestVersion DEF Prompt!ReadMax, PromptInv, NumbersSound
  <2>2. creator' = [creator EXCEPT ![c] = read] /\ UNCHANGED <<rows, overtaken>>
        /\ creator[c].pc # "deactivate"
    BY <1>2 DEF Prompt!ReadMax, Prompt!Become, Prompt!At
  <2> HIDE DEF m
  <2>3. read \in Creation /\ read.pc = "insert" /\ read.version \in Version
    BY <2>1 DEF Creation, Version
  <2> HIDE DEF read
  <2> QED BY <2>2, <2>3, CreatorMoves
<1> QED BY <1>1, <1>2

LEMMA InsertInv ==
    ASSUME PromptInv, NEW c \in Clients, NEW content \in Contents, Prompt!Insert(c, content)
    PROVE  PromptInv'
<1> DEFINE v == creator[c].version
           row == [active |-> TRUE, content |-> content]
           q == [creator[c] EXCEPT !.pc = "deactivate"]
<1>1. creator[c] \in Creation /\ creator[c].pc = "insert" /\ v \in Version
  BY DEF Prompt!Insert, Prompt!At, PromptInv, RowsAreVersions
<1>2. CASE v \in DOMAIN rows
  <2>1. creator' = [creator EXCEPT ![c] = Prompt!Idle] /\ UNCHANGED <<rows, overtaken>>
    BY <1>2 DEF Prompt!Insert, Prompt!Become
  <2> QED BY <1>1, <2>1, IdleCreation, CreatorMoves
<1>3. CASE v \notin DOMAIN rows
  <2>1. /\ rows' = [w \in DOMAIN rows \cup {v} |-> IF w = v THEN row ELSE rows[w]]
        /\ overtaken' = (overtaken \/ \E w \in DOMAIN rows : w > v)
        /\ creator' = [creator EXCEPT ![c] = q]
    BY <1>3, Zenon DEF Prompt!Insert, Prompt!Become
  <2>2. /\ row \in Row /\ row.active
        /\ q \in Creation /\ q.pc = "deactivate" /\ q.version = v
    BY <1>1 DEF Row, Creation
  <2> HIDE DEF row, q, v
  <2>3. DOMAIN rows \subseteq Version /\ rows \in [DOMAIN rows -> Row]
        /\ creator \in [Clients -> Creation] /\ overtaken \in BOOLEAN
    BY DEF PromptInv, RowsAreVersions
  <2>4. /\ DOMAIN rows' = DOMAIN rows \cup {v} /\ rows' \in [DOMAIN rows' -> Row]
        /\ rows'[v] = row /\ \A w \in DOMAIN rows : rows'[w] = rows[w]
    BY <1>3, <2>1, <2>2, <2>3
  <2>5. /\ creator' \in [Clients -> Creation] /\ creator'[c] = q
        /\ \A d \in Clients \ {c} : creator'[d] = creator[d]
    BY <2>1, <2>2, <2>3
  <2>6. RowsAreVersions'
    BY <1>1, <2>1, <2>2, <2>3, <2>4, <2>5 DEF PromptInv, RowsAreVersions
  <2>7. ASSUME ~overtaken', NEW a \in Prompt!Active', NEW b \in Prompt!Active', a < b
        PROVE  \E d \in Clients : creator'[d].pc = "deactivate" /\ creator'[d].version > a
    <3>1. a \in DOMAIN rows \cup {v} /\ b \in DOMAIN rows \cup {v}
      BY <2>4 DEF Prompt!Active
    <3>2. ~overtaken /\ \A w \in DOMAIN rows : ~(w > v)
      BY <2>1, <2>7
    <3>3. CASE b = v
      BY <2>2, <2>5, <2>7, <3>3, <1>1 DEF Version
    <3>4. CASE b # v
      <4>1. b \in DOMAIN rows /\ ~(b > v)
        BY <3>1, <3>2, <3>4
      <4>2. a # v
        BY <1>1, <2>3, <2>7, <4>1 DEF Version
      <4>3. a \in Prompt!Active /\ b \in Prompt!Active
        BY <2>4, <3>1, <3>4, <4>2 DEF Prompt!Active
      <4>4. PICK d \in Clients : creator[d].pc = "deactivate" /\ creator[d].version > a
        BY <2>7, <3>2, <4>3 DEF PromptInv, SmallerIsDoomed
      <4>5. d # c
        BY <1>1, <4>4
      <4> QED BY <2>5, <4>4, <4>5
    <3> QED BY <3>3, <3>4
  <2> QED BY <2>6, <2>7 DEF PromptInv, SmallerIsDoomed
<1> QED BY <1>2, <1>3

LEMMA DeactivateInv ==
    ASSUME PromptInv, NEW c \in Clients, Prompt!Deactivate(c)
    PROVE  PromptInv'
<1> DEFINE below == 1..(creator[c].version - 1)
<1>1. /\ DOMAIN rows \subseteq Version /\ rows \in [DOMAIN rows -> Row]
      /\ creator \in [Clients -> Creation] /\ overtaken \in BOOLEAN
  BY DEF PromptInv, RowsAreVersions
<1>2. /\ rows' = Prompt!Inactive(below) /\ overtaken' = overtaken
      /\ creator' = [creator EXCEPT ![c] = Prompt!Idle] /\ creator[c].pc = "deactivate"
  BY DEF Prompt!Deactivate, Prompt!Become, Prompt!At
<1>3. ASSUME NEW w \in DOMAIN rows
      PROVE  rows'[w] \in Row /\ (rows'[w].active <=> rows[w].active /\ w \notin below)
  <2> DEFINE a == rows[w].active /\ w \notin below
  <2>1. rows'[w] = [rows[w] EXCEPT !.active = a] /\ rows[w] \in Row /\ a \in BOOLEAN
    BY <1>1, <1>2, Zenon DEF Prompt!Inactive
  <2> HIDE DEF a
  <2>2. rows'[w] \in Row /\ rows'[w].active = a
    BY <2>1 DEF Row
  <2> QED BY <2>2 DEF a
<1>4. DOMAIN rows' = DOMAIN rows /\ rows' \in [DOMAIN rows -> Row]
  BY <1>2, <1>3 DEF Prompt!Inactive
<1>5. RowsAreVersions'
  BY <1>1, <1>2, <1>4, IdleCreation DEF PromptInv, RowsAreVersions
<1>6. ASSUME ~overtaken', NEW a \in Prompt!Active', NEW b \in Prompt!Active', a < b
      PROVE  \E d \in Clients : creator'[d].pc = "deactivate" /\ creator'[d].version > a
  <2>1. a \in Prompt!Active /\ b \in Prompt!Active /\ a \notin below /\ a \in Version
    BY <1>1, <1>3, <1>4 DEF Prompt!Active
  <2>2. PICK d \in Clients : creator[d].pc = "deactivate" /\ creator[d].version > a
    BY <1>2, <1>6, <2>1 DEF PromptInv, SmallerIsDoomed
  <2>3. ~(creator[c].version > a) /\ creator[c].version \in Nat
    BY <1>1, <2>1 DEF Version, Creation
  <2> QED BY <1>1, <1>2, <2>2, <2>3
<1> QED BY <1>5, <1>6 DEF PromptInv, SmallerIsDoomed

LEMMA CutShortInv ==
    ASSUME PromptInv, NEW c \in Clients, Prompt!CutShort(c)
    PROVE  PromptInv'
<1>1. CASE creator[c].pc = "deactivate"
  <2>1. overtaken' /\ overtaken' \in BOOLEAN /\ rows' = rows
        /\ creator' = [creator EXCEPT ![c] = Prompt!Idle]
    BY <1>1 DEF Prompt!CutShort, Prompt!At, Prompt!Become
  <2> QED BY <2>1, IdleCreation DEF PromptInv, RowsAreVersions, SmallerIsDoomed
<1>2. CASE creator[c].pc # "deactivate"
  <2>1. overtaken' = overtaken /\ rows' = rows /\ creator' = [creator EXCEPT ![c] = Prompt!Idle]
    BY <1>2 DEF Prompt!CutShort, Prompt!At, Prompt!Become, PromptInv, RowsAreVersions
  <2> QED BY <1>2, <2>1, IdleCreation, CreatorMoves
<1> QED BY <1>1, <1>2

LEMMA EditInv ==
    ASSUME PromptInv, NEW v \in Prompt!Versions, NEW e, NEW content \in Contents,
           Prompt!Activate(v) \/ Prompt!DeletePrompt(v) \/ Prompt!WritePrompt(e, content)
    PROVE  PromptInv'
<1>1. /\ DOMAIN rows \subseteq Version /\ rows \in [DOMAIN rows -> Row]
      /\ UNCHANGED <<creator, overtaken>>
  BY DEF PromptInv, RowsAreVersions, Prompt!Activate, Prompt!DeletePrompt, Prompt!WritePrompt
<1>2. CASE Prompt!Activate(v)
  <2>1. ASSUME NEW w \in DOMAIN rows PROVE rows'[w] \in Row /\ (rows'[w].active <=> w = v)
    <3> DEFINE a == w = v
    <3>1. rows'[w] = [rows[w] EXCEPT !.active = a] /\ rows[w] \in Row /\ a \in BOOLEAN
      BY <1>1, <1>2, Zenon DEF Prompt!Activate
    <3> HIDE DEF a
    <3>2. rows'[w] \in Row /\ rows'[w].active = a
      BY <3>1 DEF Row
    <3> QED BY <3>2 DEF a
  <2>2. DOMAIN rows' = DOMAIN rows /\ rows' \in [DOMAIN rows -> Row]
    BY <1>2, <2>1 DEF Prompt!Activate
  <2>3. RowsAreVersions'
    BY <1>1, <2>2 DEF PromptInv, RowsAreVersions
  <2>4. \A a, b \in Prompt!Active' : a = b
    BY <2>1, <2>2 DEF Prompt!Active
  <2>5. Prompt!Active' \subseteq Version
    BY <1>1, <2>2 DEF Prompt!Active
  <2> QED BY <2>3, <2>4, <2>5 DEF PromptInv, SmallerIsDoomed, Version
<1>3. CASE Prompt!DeletePrompt(v)
  <2>1. /\ DOMAIN rows' = DOMAIN rows \ {v} /\ \A w \in DOMAIN rows' : rows'[w] = rows[w]
        /\ rows' \in [DOMAIN rows' -> Row]
    <3>1. rows' = [w \in DOMAIN rows \ {v} |-> rows[w]]
      BY <1>3 DEF Prompt!DeletePrompt
    <3>2. \A w \in DOMAIN rows \ {v} : rows[w] \in Row
      BY <1>1
    <3> QED BY <3>1, <3>2
  <2>2. DOMAIN rows' \subseteq Version
    BY <1>1, <2>1
  <2>3. RowsAreVersions'
    BY <1>1, <2>1, <2>2 DEF PromptInv, RowsAreVersions
  <2>4. Prompt!Active' \subseteq Prompt!Active
    BY <1>1, <2>1 DEF Prompt!Active
  <2> QED BY <1>1, <2>3, <2>4, FewerActive
<1>4. CASE Prompt!WritePrompt(e, content)
  <2>1. CASE rows' = rows
    BY <1>1, <2>1, FewerActive DEF PromptInv, RowsAreVersions, Prompt!Active
  <2>2. CASE rows' # rows
    <3> DEFINE w == editor[e]
               row == [rows[w] EXCEPT !.content = content]
    <3>1. w \in DOMAIN rows /\ rows' = [rows EXCEPT ![w] = row]
      BY <1>4, <2>2 DEF Prompt!WritePrompt
    <3>2. row \in Row /\ row.active = rows[w].active
      BY <1>1, <3>1 DEF Row
    <3> HIDE DEF row, w
    <3>3. DOMAIN rows' = DOMAIN rows /\ rows' \in [DOMAIN rows' -> Row]
          /\ \A x \in DOMAIN rows : rows'[x].active = rows[x].active
      BY <1>1, <3>1, <3>2
    <3>4. RowsAreVersions' /\ Prompt!Active' \subseteq Prompt!Active
      BY <1>1, <3>3 DEF PromptInv, RowsAreVersions, Prompt!Active
    <3> QED BY <1>1, <3>4, FewerActive
  <2> QED BY <2>1, <2>2
<1> QED BY <1>2, <1>3, <1>4

LEMMA PromptStep ==
    ASSUME NumbersSound PROVE PromptInv /\ [Prompt!Next]_(Prompt!vars) => PromptInv'
<1> SUFFICES ASSUME PromptInv, [Prompt!Next]_(Prompt!vars) PROVE PromptInv'
  OBVIOUS
<1>1. ASSUME NEW c \in Clients, NEW seed \in BOOLEAN, Prompt!Begin(c, seed) PROVE PromptInv'
  BY <1>1, BeginInv
<1>2. ASSUME NEW c \in Clients, Prompt!ReadMax(c) PROVE PromptInv'
  BY <1>2, BeginInv
<1>3. ASSUME NEW c \in Clients, NEW content \in Contents, Prompt!Insert(c, content) PROVE PromptInv'
  BY <1>3, InsertInv
<1>4. ASSUME NEW c \in Clients, Prompt!Deactivate(c) \/ Prompt!CutShort(c) PROVE PromptInv'
  BY <1>4, DeactivateInv, CutShortInv
<1>5. ASSUME NEW v \in Prompt!Versions, Prompt!Activate(v) \/ Prompt!DeletePrompt(v)
      PROVE  PromptInv'
  <2>1. v \in DOMAIN rows
    BY <1>5 DEF Prompt!Activate, Prompt!DeletePrompt
  <2>2. rows[v].content \in Contents
    BY <2>1 DEF PromptInv, RowsAreVersions, Row
  <2> QED BY <1>5, <2>2, EditInv
<1>6. ASSUME NEW e \in Editors, NEW content \in Contents, Prompt!WritePrompt(e, content)
      PROVE  PromptInv'
  <2>1. CASE rows' = rows
    BY <1>6, <2>1, FewerActive DEF Prompt!WritePrompt, PromptInv, RowsAreVersions, Prompt!Active
  <2>2. CASE rows' # rows
    <3>1. editor[e] \in Prompt!Versions
      BY <1>6, <2>2 DEF Prompt!WritePrompt, PromptInv, RowsAreVersions, Version, Prompt!Versions
    <3> QED BY <1>6, <3>1, EditInv
  <2> QED BY <2>1, <2>2
<1>7. ASSUME UNCHANGED <<rows, creator, overtaken>> PROVE PromptInv'
  BY <1>7 DEF PromptInv, RowsAreVersions, SmallerIsDoomed, Prompt!Active
<1>8. ASSUME NEW e \in Editors, NEW v \in Prompt!Versions, Prompt!ReadPrompt(e, v) PROVE PromptInv'
  BY <1>7, <1>8 DEF Prompt!ReadPrompt
<1>9. CASE Prompt!RunStage
  BY <1>7, <1>9 DEF Prompt!RunStage
<1>10. CASE UNCHANGED Prompt!vars
  BY <1>7, <1>10 DEF Prompt!vars
<1> QED BY <1>1, <1>2, <1>3, <1>4, <1>5, <1>6, <1>8, <1>9, <1>10 DEF Prompt!Next

LEMMA PromptCardinality == \A S : Prompt!Cardinality(S) = Cardinality(S)
  BY Zenon DEF Prompt!Cardinality, Cardinality

THEOREM OneVersionIsActive == Prompt!Spec => []OneActive
<1> USE ComponentsAssumption
<1>1. PromptInv /\ [Prompt!Next]_(Prompt!vars) => PromptInv'
  BY PromptStep
<1>2. PromptInv => OneActive
  <2> SUFFICES ASSUME PromptInv, \A c \in Clients : ~Prompt!At(c, "deactivate"), ~overtaken
               PROVE  Prompt!Cardinality(Prompt!Active) <= 1
    BY DEF OneActive, Prompt!OneActive
  <2>1. Prompt!Active \subseteq Version /\ \A u, v \in Prompt!Active : ~(u < v)
    BY DEF PromptInv, RowsAreVersions, SmallerIsDoomed, Prompt!At, Prompt!Active
  <2>2. \A u, v \in Prompt!Active : u = v
    BY <2>1 DEF Version
  <2>3. CASE Prompt!Active = {}
    BY <2>3, FS_EmptySet, PromptCardinality
  <2>4. ASSUME NEW u \in Prompt!Active PROVE Prompt!Cardinality(Prompt!Active) <= 1
    <3>1. Prompt!Active = {u}
      BY <2>2
    <3>2. Cardinality({u}) = 1
      BY FS_Singleton
    <3> QED BY <3>1, <3>2, PromptCardinality
  <2> QED BY <2>3, <2>4
<1> QED BY <1>1, <1>2, PromptInit, PTL DEF Prompt!Spec

-----------------------------------------------------------------------------
(* The memories: two rows of completions say the same only if these        *)
(* overlapped, or one could not look for its hash.                         *)

\* Records with the fields they should have, whatever is in them.
RowFormed(r) == r \in [hash : {r.hash}, by : {r.by}, recent : {r.recent}]
SlotFormed(q) == q \in [pc : {q.pc}, hash : {q.hash}, todo : {q.todo}]

Going(q) == q.pc \in {"hash", "key", "write"}
Deciding(q) == q.pc \in {"key", "write"}

MemoryFormed ==
    /\ DOMAIN memory = Memo!Keys
    /\ \A k \in Memo!Keys : RowFormed(memory[k])
    /\ DOMAIN finisher = Clients
    /\ \A t \in Clients : /\ SlotFormed(finisher[t])
                          /\ finisher[t].pc \in {"idle", "hash", "key", "write"}

\* Completions that are under way have overlapped.
UnderWayTogether ==
    \A t, u \in Clients : t # u /\ Going(finisher[t]) /\ Going(finisher[u]) => {t, u} \in together

\* A row with a hash is a user's, or a completion's under the task's key.
HashedByTask ==
    \A k \in Memo!Keys : memory[k].hash # Memo!NoHash /\ memory[k].by # "user" =>
        memory[k].by \in Clients /\ k = <<k[1], memory[k].by>>

\* A completion that has looked for its hash finds it again only in rows of users, and of
\* completions that overlap with it.
LookIsGood ==
    \A t \in Clients, k \in Memo!Keys :
        /\ Deciding(finisher[t]) /\ t \notin unread
        /\ k[1] = Head(finisher[t].todo)
        /\ memory[k].hash = finisher[t].hash
        /\ memory[k].hash # Memo!NoHash /\ memory[k].by # "user"
        => memory[k].by = t \/ {memory[k].by, t} \in together

\* TwinsOverlapped, over keys instead of rows.
TwinsTogether ==
    \A j, k \in Memo!Keys :
        /\ j # k /\ j[1] = k[1] /\ memory[j].by # "user" /\ memory[k].by # "user"
        /\ memory[j].hash = memory[k].hash /\ memory[j].hash # Memo!NoHash
        => \/ {memory[j].by, memory[k].by} \in together
           \/ memory[j].by \in unread \/ memory[k].by \in unread

MemoInv == MemoryFormed /\ UnderWayTogether /\ HashedByTask /\ LookIsGood /\ TwinsTogether

LEMMA FreshRecords ==
    /\ RowFormed(Memo!NoRow) /\ Memo!NoRow.hash = Memo!NoHash
    /\ SlotFormed(Memo!Idle) /\ Memo!Idle.pc = "idle"
  BY DEF RowFormed, SlotFormed, Memo!NoRow, Memo!Idle

LEMMA MemoInit == Memo!Init => MemoInv
  BY FreshRecords DEF Memo!Init, MemoInv, MemoryFormed, UnderWayTogether, HashedByTask, LookIsGood,
     TwinsTogether, Going, Deciding

\* A step of one completion that writes nothing.
LEMMA FinisherMoves ==
    ASSUME MemoInv, NEW t \in Clients, NEW q, SlotFormed(q), finisher' = [finisher EXCEPT ![t] = q],
           memory' = memory, together \subseteq together', unread \subseteq unread',
           q.pc \in {"idle", "hash", "key", "write"},
           \A u \in Clients : u # t /\ Going(q) /\ Going(finisher[u]) => {t, u} \in together',
           Deciding(q) /\ t \notin unread' => \A k \in Memo!Keys :
               /\ k[1] = Head(q.todo) /\ memory[k].hash = q.hash /\ memory[k].hash # Memo!NoHash
               /\ memory[k].by # "user"
               => memory[k].by = t \/ {memory[k].by, t} \in together
    PROVE  MemoInv'
<1>1. /\ DOMAIN finisher' = Clients /\ finisher'[t] = q
      /\ \A u \in Clients : u # t => finisher'[u] = finisher[u]
  BY DEF MemoInv, MemoryFormed
<1>2. MemoryFormed' /\ HashedByTask' /\ TwinsTogether'
  BY <1>1 DEF MemoInv, MemoryFormed, HashedByTask, TwinsTogether
<1>3. UnderWayTogether'
  <2> SUFFICES ASSUME NEW u \in Clients, NEW v \in Clients, u # v,
                      Going(finisher'[u]), Going(finisher'[v])
               PROVE  {u, v} \in together'
    BY DEF UnderWayTogether
  <2>1. {u, v} = {v, u}
    OBVIOUS
  <2> QED BY <1>1, <2>1 DEF MemoInv, UnderWayTogether
<1>4. LookIsGood'
  BY <1>1 DEF MemoInv, LookIsGood
<1> QED BY <1>2, <1>3, <1>4 DEF MemoInv

\* Where a completion goes from a candidate.
LEMMA NextCandidateMoves ==
    ASSUME MemoInv, NEW t \in Clients, Going(finisher[t]), Memo!NextCandidate(t)
    PROVE  \E q : /\ SlotFormed(q) /\ q.pc \in {"hash", "idle"}
                  /\ finisher' = [finisher EXCEPT ![t] = q]
<1> DEFINE over == Memo!Idle
           on == [finisher[t] EXCEPT !.pc = "hash", !.todo = Tail(finisher[t].todo)]
<1>1. SlotFormed(over) /\ over.pc = "idle"
  BY DEF Memo!Idle, SlotFormed
<1>2. SlotFormed(on) /\ on.pc = "hash"
  <2>1. SlotFormed(finisher[t])
    BY DEF MemoInv, MemoryFormed
  <2> QED BY <2>1 DEF SlotFormed
<1>3. CASE Len(finisher[t].todo) = 1
  <2>1. finisher' = [finisher EXCEPT ![t] = over]
    BY <1>3, Zenon DEF Memo!NextCandidate, Memo!Become
  <2> QED BY <1>1, <2>1
<1>4. CASE Len(finisher[t].todo) # 1
  <2>1. finisher' = [finisher EXCEPT ![t] = on]
    BY <1>4, Zenon DEF Memo!NextCandidate, Memo!Become
  <2> QED BY <1>2, <2>1
<1> QED BY <1>3, <1>4

LEMMA CompleteInv ==
    ASSUME MemoInv, NEW t \in Clients, NEW hash, NEW spoken, Memo!Complete(t, hash, spoken)
    PROVE  MemoInv'
<1> DEFINE todo == IF "constraint" \in spoken THEN Memo!Scopes ELSE <<"completion">>
           q == [pc |-> "hash", hash |-> hash, todo |-> todo]
<1>1. finisher' = [finisher EXCEPT ![t] = q]
  BY Zenon DEF Memo!Complete, Memo!Become
<1> HIDE DEF todo
<1>2. SlotFormed(q) /\ q.pc = "hash" /\ ~Deciding(q)
  BY DEF SlotFormed, Deciding
<1> HIDE DEF q
<1>3. /\ memory' = memory /\ unread' = unread
      /\ together' = together \cup {{t, u} : u \in {u \in Clients : Memo!UnderWay(u)}}
  BY DEF Memo!Complete
<1>4. \A u \in Clients : Going(finisher[u]) => Memo!UnderWay(u)
  BY DEF Memo!UnderWay, Memo!At, Going
<1>5. \A u \in Clients : Going(finisher[u]) => {t, u} \in together'
  BY <1>3, <1>4
<1> QED BY <1>1, <1>2, <1>3, <1>5, FinisherMoves

LEMMA LookInv ==
    ASSUME MemoInv, NEW t \in Clients, NEW read,
           Memo!LookForHash(t, read) \/ Memo!LookForKey(t, read) \/ Memo!WriteFails(t)
    PROVE  MemoInv'
<1>1. memory' = memory /\ together' = together /\ SlotFormed(finisher[t]) /\ Going(finisher[t])
      /\ unread \subseteq unread'
  BY DEF Memo!LookForHash, Memo!LookForKey, Memo!WriteFails, Memo!At, Going, MemoInv, MemoryFormed
<1>2. \A u \in Clients : u # t /\ Going(finisher[u]) => {t, u} \in together'
  BY <1>1 DEF MemoInv, UnderWayTogether
<1>3. CASE Memo!NextCandidate(t)
  <2> PICK q : /\ SlotFormed(q) /\ q.pc \in {"hash", "idle"}
               /\ finisher' = [finisher EXCEPT ![t] = q]
    BY <1>1, <1>3, NextCandidateMoves
  <2> QED BY <1>1, <1>2, FinisherMoves DEF Deciding
<1>4. CASE Memo!LookForHash(t, read) /\ ~Memo!NextCandidate(t)
  <2> DEFINE q == [finisher[t] EXCEPT !.pc = "key"]
  <2>1. /\ finisher' = [finisher EXCEPT ![t] = q]
        /\ ~Memo!IsDuplicate(Memo!Scope(t), finisher[t].hash) \/ t \in unread'
    BY <1>4 DEF Memo!LookForHash, Memo!Become
  <2>2. SlotFormed(q) /\ q.pc = "key" /\ q.hash = finisher[t].hash /\ q.todo = finisher[t].todo
    BY <1>1 DEF SlotFormed
  <2> HIDE DEF q
  <2>3. t \in unread' \/ \A k \in Memo!Keys : ~(k[1] = Head(q.todo) /\ memory[k].hash = q.hash)
    BY <2>1, <2>2 DEF Memo!IsDuplicate, Memo!Scope
  <2> QED BY <1>1, <1>2, <2>1, <2>2, <2>3, FinisherMoves
<1>5. CASE Memo!LookForKey(t, read) /\ ~Memo!NextCandidate(t)
  <2> DEFINE q == [finisher[t] EXCEPT !.pc = "write"]
  <2>1. finisher' = [finisher EXCEPT ![t] = q] /\ Deciding(finisher[t]) /\ unread' = unread
    BY <1>5 DEF Memo!LookForKey, Memo!Become, Memo!At, Deciding
  <2>2. SlotFormed(q) /\ q.pc = "write" /\ q.hash = finisher[t].hash /\ q.todo = finisher[t].todo
    BY <1>1 DEF SlotFormed
  <2> HIDE DEF q
  <2>3. t \notin unread' => \A k \in Memo!Keys :
            /\ k[1] = Head(q.todo) /\ memory[k].hash = q.hash /\ memory[k].hash # Memo!NoHash
            /\ memory[k].by # "user"
            => memory[k].by = t \/ {memory[k].by, t} \in together
    BY <2>1, <2>2 DEF MemoInv, LookIsGood
  <2> QED BY <1>1, <1>2, <2>1, <2>2, <2>3, FinisherMoves
<1> QED BY <1>3, <1>4, <1>5 DEF Memo!WriteFails

\* A row that is written without a hash or by a user, or loses nothing but its being
\* recent.
LEMMA RowFades ==
    ASSUME MemoInv, UNCHANGED <<finisher, together, unread>>, DOMAIN memory' = Memo!Keys,
           \A k \in Memo!Keys : /\ RowFormed(memory'[k])
                                /\ \/ memory'[k].hash = Memo!NoHash \/ memory'[k].by = "user"
                                   \/ memory'[k].hash = memory[k].hash /\ memory'[k].by = memory[k].by
    PROVE  MemoInv'
<1>1. MemoryFormed' /\ UnderWayTogether' /\ HashedByTask'
  BY DEF MemoInv, MemoryFormed, UnderWayTogether, HashedByTask
<1>2. LookIsGood'
  BY DEF MemoInv, LookIsGood
<1>3. TwinsTogether'
  BY DEF MemoInv, TwinsTogether
<1> QED BY <1>1, <1>2, <1>3 DEF MemoInv

LEMMA FadeInv ==
    ASSUME MemoInv, NEW e, NEW read, NEW k, NEW hash,
           Memo!Fail(e, read) \/ Memo!Put(k, hash) \/ Memo!Elapse
    PROVE  MemoInv'
<1> DEFINE failed == [hash |-> Memo!NoHash, by |-> "failure", recent |-> TRUE]
           put == [hash |-> hash, by |-> "user", recent |-> TRUE]
<1>1. /\ RowFormed(failed) /\ failed.hash = Memo!NoHash
      /\ RowFormed(put) /\ put.by = "user"
  BY DEF RowFormed
<1>2. DOMAIN memory = Memo!Keys /\ \A j \in Memo!Keys : RowFormed(memory[j])
  BY DEF MemoInv, MemoryFormed
<1>3. CASE Memo!Fail(e, read)
  <2>1. memory' = [memory EXCEPT ![<<"failure_pattern", e>>] = failed]
        /\ UNCHANGED <<finisher, together, unread>>
    BY <1>3 DEF Memo!Fail
  <2> HIDE DEF failed
  <2> QED BY <1>1, <1>2, <2>1, RowFades
<1>4. CASE Memo!Put(k, hash)
  <2>1. memory' = [memory EXCEPT ![k] = put] /\ UNCHANGED <<finisher, together, unread>>
    BY <1>4 DEF Memo!Put
  <2> HIDE DEF put
  <2> QED BY <1>1, <1>2, <2>1, RowFades
<1>5. CASE Memo!Elapse
  <2>1. memory' = [j \in Memo!Keys |-> [memory[j] EXCEPT !.recent = FALSE]]
        /\ UNCHANGED <<finisher, together, unread>>
    BY <1>5 DEF Memo!Elapse
  <2>2. ASSUME NEW j \in Memo!Keys
        PROVE  RowFormed(memory'[j]) /\ memory'[j].hash = memory[j].hash
               /\ memory'[j].by = memory[j].by
    <3>1. memory'[j] = [memory[j] EXCEPT !.recent = FALSE] /\ RowFormed(memory[j])
      BY <1>2, <2>1
    <3> QED BY <3>1 DEF RowFormed
  <2> QED BY <2>1, <2>2, RowFades
<1> QED BY <1>3, <1>4, <1>5

LEMMA WriteInv ==
    ASSUME MemoInv, NEW t \in Clients, Memo!Write(t)
    PROVE  MemoInv'
<1> DEFINE w == <<Memo!Scope(t), t>>
           row == [hash |-> finisher[t].hash, by |-> t, recent |-> TRUE]
<1>1. /\ memory' = [memory EXCEPT ![w] = row] /\ together' = together /\ unread' = unread
      /\ Memo!NextCandidate(t) /\ finisher[t].pc = "write"
  BY DEF Memo!Write, Memo!At
<1>2. RowFormed(row) /\ row.hash = finisher[t].hash /\ row.by = t
  BY DEF RowFormed
<1>3. w[1] = Head(finisher[t].todo) /\ w = <<w[1], t>>
  BY DEF Memo!Scope
<1> HIDE DEF w, row
<1>4. PICK q : /\ SlotFormed(q) /\ q.pc \in {"hash", "idle"}
               /\ finisher' = [finisher EXCEPT ![t] = q]
  BY <1>1, NextCandidateMoves DEF Going
<1>5. /\ DOMAIN finisher' = Clients /\ finisher'[t] = q
      /\ \A u \in Clients : u # t => finisher'[u] = finisher[u]
  BY <1>4 DEF MemoInv, MemoryFormed
<1>6. /\ DOMAIN memory' = Memo!Keys
      /\ w \in Memo!Keys => memory'[w] = row
      /\ \A k \in Memo!Keys : k # w => memory'[k] = memory[k]
  BY <1>1 DEF MemoInv, MemoryFormed
<1>7. MemoryFormed' /\ HashedByTask'
  BY <1>2, <1>3, <1>4, <1>5, <1>6 DEF MemoInv, MemoryFormed, HashedByTask
<1>8. \A u \in Clients : Going(finisher'[u]) => Going(finisher[u])
  BY <1>1, <1>5 DEF Going
<1>9. UnderWayTogether'
  BY <1>1, <1>8 DEF MemoInv, UnderWayTogether
<1>10. LookIsGood'
  <2> SUFFICES ASSUME NEW u \in Clients, NEW k \in Memo!Keys, Deciding(finisher'[u]),
                      u \notin unread, memory'[k].by # "user",
                      k[1] = Head(finisher'[u].todo), memory'[k].hash = finisher'[u].hash,
                      memory'[k].hash # Memo!NoHash
               PROVE  memory'[k].by = u \/ {memory'[k].by, u} \in together
    BY <1>1 DEF LookIsGood
  <2>1. u # t /\ finisher'[u] = finisher[u]
    BY <1>4, <1>5 DEF Deciding
  <2>2. {t, u} \in together
    BY <1>1, <2>1 DEF Going, Deciding, MemoInv, UnderWayTogether
  <2> QED BY <1>2, <1>6, <2>1, <2>2 DEF MemoInv, LookIsGood
<1>11. TwinsTogether'
  <2>1. ASSUME NEW k \in Memo!Keys, w \in Memo!Keys, k # w, k[1] = w[1],
               memory[k].hash = finisher[t].hash, memory[k].hash # Memo!NoHash,
               memory[k].by # "user", t \notin unread
        PROVE  {memory[k].by, t} \in together
    <3>1. memory[k].by # t
      BY <1>3, <2>1 DEF MemoInv, HashedByTask
    <3>2. Deciding(finisher[t])
      BY <1>1 DEF Deciding
    <3> QED BY <1>3, <2>1, <3>1, <3>2 DEF MemoInv, LookIsGood
  <2> SUFFICES ASSUME NEW j \in Memo!Keys, NEW k \in Memo!Keys, j # k, j[1] = k[1],
                      memory'[j].by # "user", memory'[k].by # "user",
                      memory'[j].by \notin unread, memory'[k].by \notin unread,
                      memory'[j].hash = memory'[k].hash, memory'[j].hash # Memo!NoHash
               PROVE  {memory'[j].by, memory'[k].by} \in together
    BY <1>1 DEF TwinsTogether
  <2>2. CASE j = w
    <3>1. memory'[j] = row /\ memory'[k] = memory[k]
      BY <1>6, <2>2
    <3>2. {memory[k].by, t} \in together
      BY <1>2, <2>1, <2>2, <3>1
    <3>3. {memory[k].by, t} = {t, memory[k].by}
      OBVIOUS
    <3> QED BY <1>2, <3>1, <3>2, <3>3
  <2>3. CASE k = w
    <3>1. memory'[k] = row /\ memory'[j] = memory[j]
      BY <1>6, <2>3
    <3> QED BY <1>2, <2>1, <2>3, <3>1
  <2>4. CASE j # w /\ k # w
    BY <1>6, <2>4 DEF MemoInv, TwinsTogether
  <2> QED BY <2>2, <2>3, <2>4
<1> QED BY <1>7, <1>9, <1>10, <1>11 DEF MemoInv

LEMMA MemoStep == MemoInv /\ [Memo!Next]_(Memo!vars) => MemoInv'
<1> SUFFICES ASSUME MemoInv, [Memo!Next]_(Memo!vars) PROVE MemoInv'
  OBVIOUS
<1>1. ASSUME NEW t \in Clients, NEW hash, NEW spoken, Memo!Complete(t, hash, spoken) PROVE MemoInv'
  BY <1>1, CompleteInv
<1>2. ASSUME NEW t \in Clients, NEW read,
             \/ Memo!LookForHash(t, read) \/ Memo!LookForKey(t, read)
             \/ Memo!Write(t) \/ Memo!WriteFails(t)
      PROVE  MemoInv'
  BY <1>2, LookInv, WriteInv
<1>3. ASSUME NEW e, NEW read, NEW k, NEW hash,
             Memo!Fail(e, read) \/ Memo!Put(k, hash) \/ Memo!Elapse
      PROVE  MemoInv'
  BY <1>3, FadeInv
<1>4. CASE UNCHANGED Memo!vars
  BY <1>4, RowFades DEF Memo!vars, MemoInv, MemoryFormed
<1> QED BY <1>1, <1>2, <1>3, <1>4 DEF Memo!Next

\* Rows of completions, of any number of tasks, say the same only if these overlapped or
\* one of them could not look: whatever a user writes, whatever looks and writes fail,
\* and however much time passes in between.
THEOREM OnlyOverlapsRepeat == Memo!Spec => []TwinsOverlapped
<1>1. MemoInv => TwinsOverlapped
  BY DEF MemoInv, TwinsTogether, TwinsOverlapped, Memo!TwinsOverlapped, Memo!Rows
<1> QED BY <1>1, MemoInit, MemoStep, PTL DEF Memo!Spec

-----------------------------------------------------------------------------
(* What an agent is told.                                                  *)

\* The count of the instance is the count of the library.
LEMMA MemoCardinality == \A S : Memo!Cardinality(S) = Cardinality(S)
  BY Zenon DEF Memo!Cardinality, Cardinality

\* A finite set is listed in a sequence of its elements.
LEMMA Listing ==
    ASSUME NEW S, IsFiniteSet(S)
    PROVE  Memo!SetToSeq(S) \in Seq(S)
<1> DEFINE n == Cardinality(S)
<1>1. n \in Nat /\ \E f : f \in [1..n -> S] /\ Memo!IsInjective(f)
  BY FS_CardinalityType DEF ExistsBijection, Bijection, Injection, IsInjective, Memo!IsInjective
<1>2. Memo!SetToSeq(S) = CHOOSE f \in [1..n -> S] : Memo!IsInjective(f)
  BY MemoCardinality DEF Memo!SetToSeq
<1> HIDE DEF n
<1>3. Memo!SetToSeq(S) \in [1..n -> S]
  BY <1>1, <1>2
<1> QED BY <1>1, <1>3

\* Mandatory memories come first.
MustFirst(ms) ==
    \A i, j \in 1..Len(ms) : i < j /\ Memo!Mandatory(ms[j]) => Memo!Mandatory(ms[i])

\* They do in what an agent is shown before the budget is looked at.
LEMMA FilteredFirst ==
    ASSUME KeysFinite, MaxMemories \in Nat
    PROVE  Memo!FilteredMemories \in Seq(Memo!Keys) /\ MustFirst(Memo!FilteredMemories)
<1> DEFINE M == {k \in Memo!Rows : Memo!Mandatory(k)}
           O == {k \in Memo!Rows : ~Memo!Mandatory(k)}
           must == Memo!SetToSeq(M)
           others == Memo!SetToSeq(O)
           C == Memo!Candidates(others)
           may == Memo!SetToSeq(C)
           all == must \o may
           n == IF Len(all) < MaxMemories THEN Len(all) ELSE MaxMemories
<1>1. Memo!FilteredMemories = SubSeq(all, 1, n)
  BY DEF Memo!FilteredMemories
<1>2. /\ M \subseteq Memo!Keys /\ O \subseteq Memo!Keys /\ IsFiniteSet(M) /\ IsFiniteSet(O)
      /\ \A k \in M : Memo!Mandatory(k)
      /\ \A k \in O : ~Memo!Mandatory(k)
  <2>1. M \subseteq Memo!Keys /\ O \subseteq Memo!Keys
    BY DEF Memo!Rows
  <2> QED BY <2>1, FS_Subset DEF KeysFinite
<1> HIDE DEF M, O
<1>3. must \in Seq(M) /\ others \in Seq(O)
  BY <1>2, Listing
<1>4. C \subseteq O
  <2>1. \A i \in DOMAIN others : others[i] \in O
    BY <1>3
  <2> HIDE DEF others
  <2> QED BY <2>1 DEF Memo!Candidates
<1> HIDE DEF must, others, C
<1>5. may \in Seq(C)
  <2>1. IsFiniteSet(C)
    BY <1>2, <1>4, FS_Subset
  <2> QED BY <2>1, Listing
<1> HIDE DEF may
<1>6. /\ Len(must) \in Nat /\ Len(may) \in Nat
      /\ all \in Seq(Memo!Keys) /\ Len(all) = Len(must) + Len(may)
      /\ \A i \in 1..Len(all) : /\ i <= Len(must) => all[i] \in M
                                /\ ~(i <= Len(must)) => all[i] \in O
  <2>1. must \in Seq(Memo!Keys) /\ may \in Seq(Memo!Keys)
    BY <1>2, <1>3, <1>4, <1>5
  <2>2. all \in Seq(Memo!Keys) /\ Len(all) = Len(must) + Len(may)
        /\ Len(must) \in Nat /\ Len(may) \in Nat
    BY <2>1
  <2>3. ASSUME NEW i \in 1..Len(all), i <= Len(must) PROVE all[i] \in M
    <3>1. i \in 1..Len(must) /\ all[i] = must[i]
      BY <2>1, <2>2, <2>3
    <3> QED BY <1>3, <3>1
  <2>4. ASSUME NEW i \in 1..Len(all), ~(i <= Len(must)) PROVE all[i] \in O
    <3>1. i - Len(must) \in 1..Len(may) /\ all[i] = may[i - Len(must)]
      BY <2>1, <2>2, <2>4
    <3>2. may[i - Len(must)] \in C
      BY <1>5, <3>1
    <3> QED BY <1>4, <3>1, <3>2
  <2> QED BY <2>2, <2>3, <2>4
<1> HIDE DEF all
<1>7. n \in 0..Len(all)
  BY <1>6
<1> HIDE DEF n
<1> DEFINE shown == SubSeq(all, 1, n)
<1>8. shown \in Seq(Memo!Keys) /\ Len(shown) = n /\ \A i \in 1..n : shown[i] = all[i]
  BY <1>6, <1>7
<1> HIDE DEF shown
<1>9. ASSUME NEW i \in 1..n, NEW j \in 1..n, i < j, Memo!Mandatory(shown[j])
      PROVE  Memo!Mandatory(shown[i])
  <2>1. i \in 1..Len(all) /\ j \in 1..Len(all) /\ shown[i] = all[i] /\ shown[j] = all[j]
    BY <1>6, <1>7, <1>8
  <2>2. j <= Len(must)
    BY <1>2, <1>6, <1>9, <2>1
  <2>3. i <= Len(must)
    BY <1>6, <1>9, <2>1, <2>2
  <2> QED BY <1>2, <1>6, <2>1, <2>3
<1> QED BY <1>1, <1>8, <1>9 DEF MustFirst, shown

\* A context that has the first of the memories ms; it has them all as long as there
\* is something else.
Cut(c, ms) ==
    /\ c.files \in Nat /\ c.artifacts \in Nat /\ c.runs \in Nat
    /\ \E m \in 0..Len(ms) : c.memories = SubSeq(ms, 1, m)
    /\ c.memories # ms => c.files = 0 /\ c.artifacts = 0 /\ c.runs = 0

\* Nothing can be taken from it any more.
Stuck(c) == c.files = 0 /\ c.artifacts = 0 /\ c.runs = 0 /\ Len(c.memories) <= 2

Contexts(ms) ==
    {c \in [files : Nat, artifacts : Nat, runs : Nat, memories : Seq(Memo!Keys)] : Cut(c, ms)}

\* A half is less.
LEMMA Halves == \A n \in Nat : n > 0 => n \div 2 \in Nat /\ n \div 2 < n
  OBVIOUS

\* A round of the budget takes something, unless nothing is left.
LEMMA Trims ==
    ASSUME NEW ms \in Seq(Memo!Keys), NEW c \in Contexts(ms)
    PROVE  /\ Memo!Trimmed(c) \in Contexts(ms)
           /\ Memo!Size(c) \in Nat /\ Memo!Size(Memo!Trimmed(c)) \in Nat
           /\ (Stuck(c) /\ Memo!Trimmed(c) = c) \/ Memo!Size(Memo!Trimmed(c)) < Memo!Size(c)
<1>1. /\ c \in [files : Nat, artifacts : Nat, runs : Nat, memories : Seq(Memo!Keys)]
      /\ Cut(c, ms)
  BY DEF Contexts
<1>2. c.files \in Nat /\ c.artifacts \in Nat /\ c.runs \in Nat /\ c.memories \in Seq(Memo!Keys)
      /\ Len(c.memories) \in Nat
  BY <1>1
<1>3. Memo!Size(c) \in Nat
  BY <1>2 DEF Memo!Size
<1> DEFINE next == Memo!Trimmed(c)
<1>4. CASE c.files > 0
  <2> DEFINE half == c.files \div 2
  <2>1. next = [c EXCEPT !.files = half]
    BY <1>4 DEF Memo!Trimmed
  <2>2. half \in Nat /\ half < c.files
    BY <1>2, <1>4, Halves
  <2> HIDE DEF half
  <2>3. /\ next \in [files : Nat, artifacts : Nat, runs : Nat, memories : Seq(Memo!Keys)]
        /\ next.files = half /\ next.artifacts = c.artifacts /\ next.runs = c.runs
        /\ next.memories = c.memories
    BY <1>1, <2>1, <2>2
  <2>4. c.memories = ms
    BY <1>1, <1>2, <1>4 DEF Cut
  <2> HIDE DEF next
  <2>5. next \in Contexts(ms)
    BY <1>1, <2>2, <2>3, <2>4 DEF Contexts, Cut
  <2>6. Memo!Size(next) \in Nat /\ Memo!Size(next) < Memo!Size(c)
    <3> DEFINE rest == c.artifacts + c.runs + Len(c.memories)
    <3>1. rest \in Nat
      BY <1>2
    <3>2. Memo!Size(c) = c.files + rest
      BY <1>2 DEF Memo!Size
    <3>3. Memo!Size(next) = half + rest
      BY <1>2, <2>2, <2>3 DEF Memo!Size
    <3> HIDE DEF rest
    <3> QED BY <1>2, <2>2, <3>1, <3>2, <3>3
  <2> QED BY <1>3, <2>5, <2>6 DEF next
<1>5. CASE ~(c.files > 0) /\ c.artifacts > 0
  <2> DEFINE half == c.artifacts \div 2
  <2>1. next = [c EXCEPT !.artifacts = half]
    BY <1>5 DEF Memo!Trimmed
  <2>2. half \in Nat /\ half < c.artifacts
    BY <1>2, <1>5, Halves
  <2> HIDE DEF half
  <2>3. /\ next \in [files : Nat, artifacts : Nat, runs : Nat, memories : Seq(Memo!Keys)]
        /\ next.artifacts = half /\ next.files = c.files /\ next.runs = c.runs
        /\ next.memories = c.memories
    BY <1>1, <2>1, <2>2
  <2>4. c.memories = ms
    BY <1>1, <1>2, <1>5 DEF Cut
  <2> HIDE DEF next
  <2>5. next \in Contexts(ms)
    BY <1>1, <2>2, <2>3, <2>4 DEF Contexts, Cut
  <2>6. Memo!Size(next) \in Nat /\ Memo!Size(next) < Memo!Size(c)
    <3> DEFINE rest == c.files + c.runs + Len(c.memories)
    <3>1. rest \in Nat
      BY <1>2
    <3>2. Memo!Size(c) = c.artifacts + rest
      BY <1>2 DEF Memo!Size
    <3>3. Memo!Size(next) = half + rest
      BY <1>2, <2>2, <2>3 DEF Memo!Size
    <3> HIDE DEF rest
    <3> QED BY <1>2, <2>2, <3>1, <3>2, <3>3
  <2> QED BY <1>3, <2>5, <2>6 DEF next
<1>6. CASE ~(c.files > 0) /\ ~(c.artifacts > 0) /\ c.runs > 0
  <2> DEFINE half == c.runs \div 2
  <2>1. next = [c EXCEPT !.runs = half]
    BY <1>6 DEF Memo!Trimmed
  <2>2. half \in Nat /\ half < c.runs
    BY <1>2, <1>6, Halves
  <2> HIDE DEF half
  <2>3. /\ next \in [files : Nat, artifacts : Nat, runs : Nat, memories : Seq(Memo!Keys)]
        /\ next.runs = half /\ next.files = c.files /\ next.artifacts = c.artifacts
        /\ next.memories = c.memories
    BY <1>1, <2>1, <2>2
  <2>4. c.memories = ms
    BY <1>1, <1>2, <1>6 DEF Cut
  <2> HIDE DEF next
  <2>5. next \in Contexts(ms)
    BY <1>1, <2>2, <2>3, <2>4 DEF Contexts, Cut
  <2>6. Memo!Size(next) \in Nat /\ Memo!Size(next) < Memo!Size(c)
    <3> DEFINE rest == c.files + c.artifacts + Len(c.memories)
    <3>1. rest \in Nat
      BY <1>2
    <3>2. Memo!Size(c) = c.runs + rest
      BY <1>2 DEF Memo!Size
    <3>3. Memo!Size(next) = half + rest
      BY <1>2, <2>2, <2>3 DEF Memo!Size
    <3> HIDE DEF rest
    <3> QED BY <1>2, <2>2, <3>1, <3>2, <3>3
  <2> QED BY <1>3, <2>5, <2>6 DEF next
<1>7. CASE ~(c.files > 0) /\ ~(c.artifacts > 0) /\ ~(c.runs > 0) /\ Len(c.memories) > 2
  <2> DEFINE half == Len(c.memories) \div 2
             front == SubSeq(c.memories, 1, half)
  <2>1. next = [c EXCEPT !.memories = front]
    BY <1>7 DEF Memo!Trimmed, Memo!FirstHalf
  <2>2. half \in Nat /\ half < Len(c.memories)
    <3> DEFINE l == Len(c.memories)
    <3>1. l \in Nat /\ l > 0
      BY <1>2, <1>7
    <3> HIDE DEF l
    <3>2. l \div 2 \in Nat /\ l \div 2 < l
      BY <3>1, Halves
    <3> QED BY <3>2 DEF l
  <2>3. PICK m \in 0..Len(ms) : c.memories = SubSeq(ms, 1, m)
    BY <1>1 DEF Cut
  <2>4. m \in Nat /\ Len(ms) \in Nat /\ Len(c.memories) = m /\ half \in 0..Len(ms)
    <3> HIDE DEF half
    <3> QED BY <2>2, <2>3
  <2> HIDE DEF half
  <2>5. front = SubSeq(ms, 1, half) /\ front \in Seq(Memo!Keys) /\ Len(front) = half
    BY <1>2, <2>2, <2>3, <2>4
  <2> HIDE DEF front
  <2>6. /\ next \in [files : Nat, artifacts : Nat, runs : Nat, memories : Seq(Memo!Keys)]
        /\ next.files = c.files /\ next.artifacts = c.artifacts /\ next.runs = c.runs
        /\ next.memories = front
    BY <1>1, <2>1, <2>5
  <2> HIDE DEF next
  <2>7. next \in Contexts(ms)
    BY <1>2, <1>7, <2>4, <2>5, <2>6 DEF Contexts, Cut
  <2>8. Memo!Size(next) \in Nat /\ Memo!Size(next) < Memo!Size(c)
    <3> DEFINE rest == c.files + c.artifacts + c.runs
    <3>1. rest \in Nat
      BY <1>2
    <3>2. Memo!Size(c) = Len(c.memories) + rest
      BY <1>2 DEF Memo!Size
    <3>3. Memo!Size(next) = half + rest
      BY <1>2, <2>2, <2>5, <2>6 DEF Memo!Size
    <3> HIDE DEF rest
    <3> QED BY <1>2, <2>2, <3>1, <3>2, <3>3
  <2> QED BY <1>3, <2>7, <2>8 DEF next
<1>8. CASE ~(c.files > 0) /\ ~(c.artifacts > 0) /\ ~(c.runs > 0) /\ ~(Len(c.memories) > 2)
  <2>1. next = c
    BY <1>8 DEF Memo!Trimmed
  <2>2. Stuck(c)
    BY <1>2, <1>8 DEF Stuck
  <2> QED BY <1>3, <2>1, <2>2
<1> QED BY <1>4, <1>5, <1>6, <1>7, <1>8

\* As many rounds as there are things to take are enough.
LEMMA BudgetCuts ==
    ASSUME NEW ms \in Seq(Memo!Keys), NEW ctx \in Contexts(ms), NEW budget \in Nat \ {0}
    PROVE  /\ Memo!WithinBudget(ctx, budget) \in Contexts(ms)
           /\ \/ Memo!Size(Memo!WithinBudget(ctx, budget)) <= budget
              \/ Stuck(Memo!WithinBudget(ctx, budget))
<1> DEFINE size == Memo!Size(ctx)
           V == Contexts(ms)
           round == [c \in V |-> IF Memo!Size(c) <= budget THEN c ELSE Memo!Trimmed(c)]
           step == [n \in Nat |-> round]
           after[n \in 0..Memo!Size(ctx)] ==
              IF n = 0 THEN ctx
              ELSE LET c == after[n - 1] IN IF Memo!Size(c) <= budget THEN c ELSE Memo!Trimmed(c)
           Is(g) == g = [n \in 0..Memo!Size(ctx) |->
                            IF n = 0 THEN ctx
                            ELSE LET c == g[n - 1]
                                 IN IF Memo!Size(c) <= budget THEN c ELSE Memo!Trimmed(c)]
<1>1. Memo!WithinBudget(ctx, budget) = after[size]
  BY DEF Memo!WithinBudget
<1>2. after = CHOOSE g : Is(g)
  OBVIOUS
<1> HIDE DEF after
<1>3. size \in Nat /\ \A c \in V : Memo!Trimmed(c) \in V /\ Memo!Size(c) \in Nat
  BY Trims
<1>4. round \in [V -> V]
  <2> HIDE DEF V
  <2> QED BY <1>3
<1>5. step \in [Nat -> [V -> V]]
  <2> HIDE DEF round, V
  <2> QED BY <1>4
<1>6. PICK g : Takes(g, size, V, ctx, step)
  <2> HIDE DEF step, size
  <2> QED BY <1>3, <1>5, StepsExist
<1>7. g \in [0..size -> V]
  <2> HIDE DEF step, size, V
  <2> QED BY <1>6 DEF Takes
<1>8. ASSUME NEW n \in 0..size
      PROVE  g[n] = IF n = 0 THEN ctx ELSE round[g[n - 1]]
  <2>1. g[n] = IF n = 0 THEN ctx ELSE step[n][g[n - 1]]
    <3> HIDE DEF step, size, V
    <3> QED BY <1>6 DEF Takes
  <2>2. step[n] = round
    <3> HIDE DEF round, size
    <3> QED BY <1>3
  <2> HIDE DEF step, round, size
  <2> QED BY <2>1, <2>2
<1>9. ASSUME NEW n \in 0..size, n # 0
      PROVE  /\ n - 1 \in 0..size /\ g[n - 1] \in V
             /\ g[n] = LET c == g[n - 1]
                       IN IF Memo!Size(c) <= budget THEN c ELSE Memo!Trimmed(c)
  <2>1. n - 1 \in 0..size
    <3> HIDE DEF size
    <3> QED BY <1>3, <1>9
  <2>2. g[n - 1] \in V
    <3> HIDE DEF V, size
    <3> QED BY <1>7, <2>1
  <2>3. g[n] = round[g[n - 1]]
    <3> HIDE DEF V, size, round
    <3> QED BY <1>8, <1>9
  <2> HIDE DEF V, size
  <2> QED BY <2>1, <2>2, <2>3
<1>10. Is(g)
  <2> HIDE DEF V, round, step
  <2> QED BY <1>7, <1>8, <1>9
<1>11. Is(after)
  <2> HIDE DEF Is
  <2> QED BY <1>2, <1>10
<1> DEFINE Near(h, n) == /\ h \in V
                         /\ Memo!Size(h) <= budget \/ Stuck(h) \/ Memo!Size(h) <= size - n
           Good == {n \in Nat : n \in 0..size => Near(after[n], n)}
<1>12. 0 \in Good
  <2>1. after[0] = ctx
    BY <1>3, <1>11
  <2>2. Memo!Size(ctx) <= size - 0
    BY <1>3
  <2>3. Near(ctx, 0)
    BY <2>2
  <2> QED BY <2>1, <2>3
<1>13. ASSUME NEW n \in Good PROVE n + 1 \in Good
  <2> SUFFICES ASSUME n + 1 \in 0..size PROVE Near(after[n + 1], n + 1)
    BY DEF Good
  <2>1. n \in Nat /\ n \in 0..size /\ n + 1 # 0 /\ (n + 1) - 1 = n
    BY <1>3
  <2> DEFINE c == after[n]
             d == after[n + 1]
  <2>2. Near(c, n)
    BY <2>1
  <2>3. d = IF Memo!Size(c) <= budget THEN c ELSE Memo!Trimmed(c)
    BY <1>11, <2>1
  <2> HIDE DEF c, d, Is, Good
  <2>4. CASE Memo!Size(c) <= budget
    <3>1. Near(d, n + 1)
      BY <2>2, <2>3, <2>4
    <3> QED BY <3>1 DEF d
  <2>5. CASE ~(Memo!Size(c) <= budget)
    <3>1. d = Memo!Trimmed(c) /\ c \in Contexts(ms) /\ d \in V /\ Memo!Size(d) \in Nat
          /\ Memo!Size(c) \in Nat
      BY <1>3, <2>2, <2>3, <2>5
    <3>2. (Stuck(c) /\ d = c) \/ Memo!Size(d) < Memo!Size(c)
      BY <3>1, Trims
    <3>3. CASE Stuck(c) /\ d = c
      <4>1. Near(d, n + 1)
        BY <2>2, <3>3
      <4> QED BY <4>1 DEF d
    <3>4. CASE Memo!Size(d) < Memo!Size(c) /\ ~Stuck(c)
      <4>1. Memo!Size(c) <= size - n
        BY <2>2, <2>5, <3>4
      <4> HIDE DEF size
      <4>2. Memo!Size(d) <= size - (n + 1)
        BY <1>3, <2>1, <3>1, <3>4, <4>1
      <4>3. Near(d, n + 1)
        BY <3>1, <4>2
      <4> QED BY <4>3 DEF d
    <3>5. CASE Stuck(c) /\ d # c
      <4>1. Memo!Trimmed(c) = c
        <5>1. /\ ~(c.files > 0) /\ ~(c.artifacts > 0) /\ ~(c.runs > 0)
              /\ ~(Len(c.memories) > 2)
          <6>1. c.memories \in Seq(Memo!Keys)
            BY <3>1 DEF Contexts
          <6>2. Len(c.memories) \in Nat
            BY <6>1
          <6> QED BY <3>5, <6>2 DEF Stuck
        <5> QED BY <5>1 DEF Memo!Trimmed
      <4> QED BY <3>1, <3>5, <4>1
    <3> QED BY <3>2, <3>3, <3>4, <3>5
  <2> QED BY <2>4, <2>5
<1> HIDE DEF Good
<1>14. Good = Nat
  <2>1. Good \subseteq Nat
    BY DEF Good
  <2> QED BY <1>12, <1>13, <2>1, CountingUp
<1>15. Near(after[size], size)
  BY <1>3, <1>14 DEF Good
<1> DEFINE end == after[size]
<1>16. end \in V /\ Memo!Size(end) \in Nat
  BY <1>3, <1>15
<1>17. Memo!Size(end) <= budget \/ Stuck(end)
  <2>1. Memo!Size(end) <= budget \/ Stuck(end) \/ Memo!Size(end) <= size - size
    BY <1>15
  <2> HIDE DEF end, size
  <2> QED BY <1>3, <1>16, <2>1
<1> QED BY <1>1, <1>16, <1>17

\* What must be told goes last, and a budget stays exceeded only where nothing but two
\* memories is left: property MandatoryGoLast, for any memories, any limit and any
\* budget.
THEOREM MandatoryStay == Memo!Spec => []MandatoryGoLast
<1>1. MandatoryGoLast
  <2> DEFINE ms == Memo!FilteredMemories
  <2>1. ms \in Seq(Memo!Keys) /\ MustFirst(ms)
    BY ComponentsAssumption, FilteredFirst DEF NumbersSound
  <2>2. MaxItems \in Nat /\ MaxMemories \in Nat
    BY ComponentsAssumption DEF NumbersSound
  <2> HIDE DEF ms
  <2> DEFINE Whole(files, artifacts, runs) ==
               [files |-> files, artifacts |-> artifacts, runs |-> runs, memories |-> ms]
             must(ctx) == {k \in Memo!ToSet(ctx.memories) : Memo!Mandatory(k)}
  <2> SUFFICES ASSUME NEW files \in 0..MaxItems, NEW artifacts \in 0..MaxItems,
                      NEW runs \in 0..MaxItems,
                      NEW budget \in 1..(Memo!Size(Whole(files, artifacts, runs)) - 1)
               PROVE  LET shown == Memo!WithinBudget(Whole(files, artifacts, runs), budget)
                      IN /\ must(shown) # must(Whole(files, artifacts, runs)) =>
                                shown.files + shown.artifacts + shown.runs = 0
                                  /\ Memo!ToSet(shown.memories) = must(shown)
                         /\ Memo!Size(shown) > budget =>
                                Memo!Size(shown) = Len(shown.memories) /\ Memo!Size(shown) <= 2
    BY DEF MandatoryGoLast, Memo!MandatoryGoLast, ms
  <2> DEFINE whole == Whole(files, artifacts, runs)
             shown == Memo!WithinBudget(whole, budget)
  <2>3. whole \in Contexts(ms) /\ whole.memories = ms
    <3>1. files \in Nat /\ artifacts \in Nat /\ runs \in Nat
      BY <2>2
    <3>2. ms = SubSeq(ms, 1, Len(ms)) /\ Len(ms) \in 0..Len(ms)
      BY <2>1
    <3> QED BY <2>1, <3>1, <3>2 DEF Contexts, Cut
  <2>4. /\ budget \in Nat \ {0}
        /\ shown \in Contexts(ms) /\ (Memo!Size(shown) <= budget \/ Stuck(shown))
    <3>1. budget \in 1..(Memo!Size(whole) - 1)
      OBVIOUS
    <3> HIDE DEF whole
    <3>2. Memo!Size(whole) \in Nat
      BY <2>1, <2>3, Trims
    <3>3. budget \in Nat \ {0}
      BY <3>1, <3>2
    <3> QED BY <2>1, <2>3, <3>3, BudgetCuts
  <2> HIDE DEF whole, shown
  <2>5. /\ shown.files \in Nat /\ shown.artifacts \in Nat /\ shown.runs \in Nat
        /\ shown.memories \in Seq(Memo!Keys) /\ Len(shown.memories) \in Nat
        /\ Memo!Size(shown) \in Nat
        /\ Cut(shown, ms)
    <3>1. Memo!Size(shown) \in Nat
      BY <2>1, <2>4, Trims
    <3>2. /\ shown \in [files : Nat, artifacts : Nat, runs : Nat, memories : Seq(Memo!Keys)]
          /\ Cut(shown, ms)
      BY <2>4 DEF Contexts
    <3>3. shown.memories \in Seq(Memo!Keys)
      BY <3>2
    <3>4. Len(shown.memories) \in Nat
      BY <3>3
    <3> QED BY <3>1, <3>2, <3>3, <3>4
  <2>6. ASSUME must(shown) # must(whole)
        PROVE  /\ shown.files + shown.artifacts + shown.runs = 0
               /\ Memo!ToSet(shown.memories) = must(shown)
    <3>1. shown.memories # ms
      BY <2>3, <2>6
    <3>2. PICK m \in 0..Len(ms) : shown.memories = SubSeq(ms, 1, m)
      BY <2>5 DEF Cut
    <3>3. /\ m \in Nat /\ Len(ms) \in Nat /\ Len(shown.memories) = m
          /\ \A i \in 1..m : i \in 1..Len(ms) /\ shown.memories[i] = ms[i]
      BY <2>1, <3>2
    <3>4. Memo!ToSet(shown.memories) = {ms[i] : i \in 1..m}
          /\ Memo!ToSet(ms) = {ms[i] : i \in 1..Len(ms)}
      <4>1. DOMAIN shown.memories = 1..m /\ DOMAIN ms = 1..Len(ms)
        BY <2>1, <2>5, <3>3
      <4> QED BY <3>3, <4>1 DEF Memo!ToSet
    <3>5. PICK k \in 1..Len(ms) : Memo!Mandatory(ms[k]) /\ k \notin 1..m
      BY <2>3, <2>6, <3>3, <3>4
    <3>6. \A i \in 1..m : Memo!Mandatory(ms[i])
      <4>1. \A i \in 1..m : i \in 1..Len(ms) /\ i < k
        BY <3>3, <3>5
      <4> QED BY <2>1, <3>5, <4>1 DEF MustFirst
    <3>7. Memo!ToSet(shown.memories) = must(shown)
      BY <3>4, <3>6
    <3>8. shown.files = 0 /\ shown.artifacts = 0 /\ shown.runs = 0
      BY <2>5, <3>1 DEF Cut
    <3> QED BY <3>7, <3>8
  <2>7. ASSUME Memo!Size(shown) > budget
        PROVE  Memo!Size(shown) = Len(shown.memories) /\ Memo!Size(shown) <= 2
    <3>1. budget \in Nat
      BY <2>4
    <3>2. Stuck(shown)
      BY <2>4, <2>5, <2>7, <3>1
    <3> QED BY <2>5, <3>2 DEF Stuck, Memo!Size
  <2> QED BY <2>6, <2>7 DEF whole, shown, Whole
<1> QED BY <1>1, PTL
-----------------------------------------------------------------------------
(* The types of all parts.  What the proofs above did not need of them are *)
(* the bounds: ids, versions and events that requests carry with them are  *)
(* of those there can be.                                                  *)

\* Requests of the graph name a task, or 0 for none.
BoundedRequest ==
    [pc : {"idle", "edges", "insert", "write", "remove", "worker", "next"},
     task : 0..MaxTasks, other : 0..MaxTasks, todo : SUBSET Graph!Tasks, status : Graph!Statuses]

GraphBounds ==
    /\ parent \in [Graph!Tasks -> 0..MaxTasks]
    /\ deps \subseteq {e \in Graph!Tasks \X Graph!Tasks : e[1] # e[2]}
    /\ unblocked \subseteq Graph!Tasks
    /\ loose \in BOOLEAN
    /\ client \in [Clients -> BoundedRequest]

LEMMA IdleIsBounded == ASSUME NumbersSound PROVE Graph!Idle \in BoundedRequest
  BY DEF NumbersSound, Graph!Idle, BoundedRequest, Graph!Statuses

LEMMA BoundsAreTypes == ASSUME GraphInv, GraphBounds PROVE Graph!TypeOK
  BY DEF GraphInv, GraphTypes, GraphBounds, BoundedRequest, Graph!TypeOK

LEMMA GraphBoundsInit == ASSUME NumbersSound, Graph!Init PROVE GraphBounds
<1>1. client \in [Clients -> BoundedRequest]
  BY IdleIsBounded DEF Graph!Init
<1>2. parent \in [Graph!Tasks -> 0..MaxTasks]
  BY DEF Graph!Init, NumbersSound
<1> QED BY <1>1, <1>2 DEF Graph!Init, GraphBounds

\* A request that gets to another place.
LEMMA RequestMoves ==
    ASSUME GraphBounds, NEW c \in Clients, NEW q \in BoundedRequest,
           client' = [client EXCEPT ![c] = q],
           parent' \in [Graph!Tasks -> 0..MaxTasks], UNCHANGED <<deps, unblocked, loose>>
    PROVE  GraphBounds'
  BY DEF GraphBounds

LEMMA RowBounds ==
    ASSUME NumbersSound, GraphBounds, NEW t \in Graph!Tasks, NEW u \in Graph!Tasks,
           Graph!DeleteV1(t) \/ Graph!Claim(t) \/ Graph!Fail(t) \/ Graph!DeleteEdge(t, u)
    PROVE  GraphBounds'
<1>1. parent' \in [Graph!Tasks -> 0..MaxTasks]
  BY DEF NumbersSound, GraphBounds, Graph!DeleteV1, Graph!RemoveRow, Graph!Claim, Graph!Fail,
       Graph!DeleteEdge, Graph!rows
<1>2. deps' \subseteq deps /\ UNCHANGED <<unblocked, client, loose>>
  BY DEF Graph!DeleteV1, Graph!Claim, Graph!Fail, Graph!DeleteEdge
<1> QED BY <1>1, <1>2 DEF GraphBounds

LEMMA EdgeBounds ==
    ASSUME NumbersSound, GraphInv, GraphBounds, NEW c \in Clients, NEW u \in Graph!Tasks,
           Graph!CreateEdge(c, u) \/ Graph!InsertEdge(c)
    PROVE  GraphBounds'
<1> DEFINE t == client[c].task
           d == IF client[c].pc = "edges" THEN u ELSE client[c].other
           q == [client[c] EXCEPT !.todo = client[c].todo \ {u}]
<1>1. client[c] \in BoundedRequest /\ Apt(client[c], status)
  BY DEF GraphInv, GraphTypes, GraphBounds
<1>2. t \in Graph!Tasks /\ d \in Graph!Tasks
  BY <1>1 DEF Apt, Graph!CreateEdge, Graph!InsertEdge, Graph!At
<1>3. deps' = Graph!With(t, d) /\ loose' = (loose \/ Graph!Uncovered(c, d))
  BY DEF Graph!CreateEdge, Graph!InsertEdge, Graph!At
<1>4. UNCHANGED <<status, parent, unblocked>>
  BY DEF Graph!CreateEdge, Graph!InsertEdge, Graph!rows
<1>5. q \in BoundedRequest
  BY <1>1 DEF BoundedRequest
<1>6. client' = [client EXCEPT ![c] = Graph!Idle] \/ client' = [client EXCEPT ![c] = q]
  <2>1. CASE Graph!CreateEdge(c, u) /\ client[c].todo # {u}
    BY <2>1, Zenon DEF Graph!CreateEdge, Graph!Become
  <2>2. CASE ~(Graph!CreateEdge(c, u) /\ client[c].todo # {u})
    BY <2>2 DEF Graph!CreateEdge, Graph!InsertEdge, Graph!Done, Graph!Become
  <2> QED BY <2>1, <2>2
<1> HIDE DEF t, d, q
<1>7. deps' \subseteq {e \in Graph!Tasks \X Graph!Tasks : e[1] # e[2]}
  BY <1>2, <1>3 DEF GraphBounds, Graph!With
<1>8. loose' \in BOOLEAN
  BY <1>3, Zenon DEF GraphBounds
<1>9. client' \in [Clients -> BoundedRequest]
  BY <1>5, <1>6, IdleIsBounded DEF GraphBounds
<1> QED BY <1>4, <1>7, <1>8, <1>9 DEF GraphBounds

LEMMA CreateBounds ==
    ASSUME NumbersSound, GraphInv, GraphBounds, NEW c \in Clients, NEW t \in Graph!Tasks,
           NEW up \in 0..MaxTasks, NEW on \in SUBSET Graph!Tasks,
           Graph!CreateTask(c, t, up, on) \/ Graph!CreateNext(c, t)
    PROVE  GraphBounds'
<1> DEFINE edges == [Graph!Idle EXCEPT !.pc = "edges", !.task = t, !.todo = on]
           less == [client[c] EXCEPT !.other = client[c].other - 1]
<1>1. client[c] \in BoundedRequest /\ Apt(client[c], status)
  BY DEF GraphInv, GraphTypes, GraphBounds
<1>2. edges \in BoundedRequest
  <2>1. t \in 0..MaxTasks /\ 0 \in 0..MaxTasks
    BY DEF NumbersSound, Graph!Tasks
  <2> QED BY <2>1 DEF BoundedRequest, Graph!Idle, Graph!Statuses
<1>3. client[c].pc = "next" => less \in BoundedRequest
  BY <1>1 DEF NumbersSound, Apt, BoundedRequest
<1>4. parent' \in [Graph!Tasks -> 0..MaxTasks]
  BY <1>1 DEF GraphBounds, BoundedRequest, Graph!CreateTask, Graph!CreateNext
<1>5. UNCHANGED <<deps, unblocked, loose>>
  BY DEF Graph!CreateTask, Graph!CreateNext
<1>6. \/ UNCHANGED client
      \/ client' = [client EXCEPT ![c] = Graph!Idle]
      \/ client' = [client EXCEPT ![c] = edges]
      \/ client[c].pc = "next" /\ client' = [client EXCEPT ![c] = less]
  <2>1. CASE Graph!CreateTask(c, t, up, on)
    BY <2>1, Zenon DEF Graph!CreateTask, Graph!Become
  <2>2. CASE Graph!CreateNext(c, t)
    BY <2>2, Zenon DEF Graph!CreateNext, Graph!At, Graph!Done, Graph!Become
  <2> QED BY <2>1, <2>2
<1> HIDE DEF edges, less
<1>7. CASE UNCHANGED client
  BY <1>4, <1>5, <1>7 DEF GraphBounds
<1>8. CASE ~UNCHANGED client
  BY <1>2, <1>3, <1>4, <1>5, <1>6, <1>8, IdleIsBounded, RequestMoves
<1> QED BY <1>7, <1>8

LEMMA CheckBounds ==
    ASSUME NumbersSound, GraphInv, GraphBounds, NEW c \in Clients, NEW t \in Graph!Tasks,
           NEW u \in Graph!Tasks, NEW up \in 0..MaxTasks, NEW n \in Graph!NextTasks,
           \/ Graph!CheckEdge(c, t, u) \/ Graph!PatchRead(c, t, up) \/ Graph!DetachChildren(c, t)
           \/ Graph!Complete(c, t, n)
    PROVE  GraphBounds'
<1> DEFINE check == [Graph!Idle EXCEPT !.pc = "insert", !.task = t, !.other = u]
           patch == [Graph!Idle EXCEPT !.pc = "write", !.task = t, !.other = up, !.status = status[t]]
           detach == [Graph!Idle EXCEPT !.pc = "remove", !.task = t]
           work == [Graph!Idle EXCEPT !.pc = "worker", !.task = t, !.other = n]
<1>1. status[t] \in Graph!Statuses
  BY DEF GraphInv, GraphTypes
<1>2. t \in 0..MaxTasks /\ u \in 0..MaxTasks /\ n \in 0..MaxTasks /\ 0 \in 0..MaxTasks
  BY DEF NumbersSound, Graph!Tasks, Graph!NextTasks
<1>3. /\ check \in BoundedRequest
      /\ patch \in BoundedRequest
      /\ detach \in BoundedRequest
      /\ work \in BoundedRequest
  <2>1. check \in BoundedRequest
    BY <1>2 DEF BoundedRequest, Graph!Idle, Graph!Statuses
  <2>2. patch \in BoundedRequest
    BY <1>1, <1>2 DEF BoundedRequest, Graph!Idle
  <2>3. detach \in BoundedRequest
    BY <1>2 DEF BoundedRequest, Graph!Idle, Graph!Statuses
  <2>4. work \in BoundedRequest
    BY <1>2 DEF BoundedRequest, Graph!Idle, Graph!Statuses
  <2> QED BY <2>1, <2>2, <2>3, <2>4
<1>4. parent' \in [Graph!Tasks -> 0..MaxTasks]
  BY DEF NumbersSound, GraphBounds, Graph!CheckEdge, Graph!PatchRead, Graph!DetachChildren,
       Graph!Complete, Graph!rows
<1>5. UNCHANGED <<deps, unblocked, loose>>
  BY DEF Graph!CheckEdge, Graph!PatchRead, Graph!DetachChildren, Graph!Complete
<1>6. \/ client' = [client EXCEPT ![c] = check] \/ client' = [client EXCEPT ![c] = patch]
      \/ client' = [client EXCEPT ![c] = detach] \/ client' = [client EXCEPT ![c] = work]
  BY Zenon DEF Graph!CheckEdge, Graph!PatchRead, Graph!DetachChildren, Graph!Complete,
       Graph!Become
<1> HIDE DEF check, patch, detach, work
<1> QED BY <1>3, <1>4, <1>5, <1>6, RequestMoves

LEMMA FinishBounds ==
    ASSUME NumbersSound, GraphInv, GraphBounds, NEW c \in Clients,
           \/ Graph!PatchWrite(c) \/ Graph!DeleteRow(c) \/ Graph!ReportUnblocked(c)
           \/ Graph!CreateNextFails(c)
    PROVE  GraphBounds'
<1> DEFINE q == [client[c] EXCEPT !.pc = "next"]
<1>1. client[c] \in BoundedRequest
  BY DEF GraphBounds
<1>2. q \in BoundedRequest
  BY <1>1 DEF BoundedRequest
<1>3. client' = [client EXCEPT ![c] = Graph!Idle] \/ client' = [client EXCEPT ![c] = q]
  BY Zenon DEF Graph!PatchWrite, Graph!DeleteRow, Graph!ReportUnblocked, Graph!CreateNextFails,
       Graph!Done, Graph!Become
<1> HIDE DEF q
<1>4. client' \in [Clients -> BoundedRequest]
  BY <1>2, <1>3, IdleIsBounded DEF GraphBounds
<1>5. parent' \in [Graph!Tasks -> 0..MaxTasks]
  <2>1. client[c].other \in 0..MaxTasks /\ 0 \in 0..MaxTasks
    BY <1>1 DEF BoundedRequest, NumbersSound
  <2> QED BY <2>1 DEF GraphBounds, Graph!PatchWrite, Graph!DeleteRow, Graph!RemoveRow,
            Graph!ReportUnblocked, Graph!CreateNextFails, Graph!rows
<1>6. unblocked' \subseteq Graph!Tasks
  <2>1. Graph!TasksDependingOn(client[c].task) \subseteq Graph!Tasks
    BY DEF GraphBounds, Graph!TasksDependingOn
  <2> QED BY <2>1 DEF GraphBounds, Graph!PatchWrite, Graph!DeleteRow, Graph!ReportUnblocked,
            Graph!CreateNextFails
<1>7. UNCHANGED <<deps, loose>>
  BY DEF Graph!PatchWrite, Graph!DeleteRow, Graph!ReportUnblocked, Graph!CreateNextFails
<1> QED BY <1>4, <1>5, <1>6, <1>7 DEF GraphBounds

\* Every variable of the task graph keeps to its type: edges join two different tasks.
THEOREM GraphTypeCorrect == Graph!Spec => []Graph!TypeOK
<1> USE ComponentsAssumption
<1>1. Graph!Init => GraphInv /\ GraphBounds
  BY GraphInit, GraphBoundsInit
<1>2. GraphInv /\ GraphBounds /\ [Graph!Next]_(Graph!vars) => GraphInv' /\ GraphBounds'
  <2> SUFFICES ASSUME GraphInv, GraphBounds, [Graph!Next]_(Graph!vars) PROVE GraphBounds'
    BY GraphStep
  <2>1. CASE UNCHANGED Graph!vars
    BY <2>1 DEF Graph!vars, GraphBounds
  <2>2. ASSUME NEW t \in Graph!Tasks, NEW u \in Graph!Tasks,
               Graph!DeleteV1(t) \/ Graph!Claim(t) \/ Graph!Fail(t) \/ Graph!DeleteEdge(t, u)
        PROVE  GraphBounds'
    BY <2>2, RowBounds
  <2>3. ASSUME NEW c \in Clients, NEW u \in Graph!Tasks,
               Graph!CreateEdge(c, u) \/ Graph!InsertEdge(c)
        PROVE  GraphBounds'
    BY <2>3, EdgeBounds
  <2>4. ASSUME NEW c \in Clients, NEW t \in Graph!Tasks, NEW up \in 0..MaxTasks,
               NEW on \in SUBSET Graph!Tasks,
               Graph!CreateTask(c, t, up, on) \/ Graph!CreateNext(c, t)
        PROVE  GraphBounds'
    BY <2>4, CreateBounds
  <2>5. ASSUME NEW c \in Clients, NEW t \in Graph!Tasks, NEW u \in Graph!Tasks,
               NEW up \in 0..MaxTasks, NEW n \in Graph!NextTasks,
               \/ Graph!CheckEdge(c, t, u) \/ Graph!PatchRead(c, t, up)
               \/ Graph!DetachChildren(c, t) \/ Graph!Complete(c, t, n)
        PROVE  GraphBounds'
    BY <2>5, CheckBounds
  <2>6. ASSUME NEW c \in Clients,
               \/ Graph!PatchWrite(c) \/ Graph!DeleteRow(c) \/ Graph!ReportUnblocked(c)
               \/ Graph!CreateNextFails(c)
        PROVE  GraphBounds'
    BY <2>6, FinishBounds
  <2>7. ASSUME NEW c \in Clients, Graph!InsertEdge(c) PROVE Graph!Tasks # {}
    <3>1. Apt(client[c], status) /\ client[c].pc = "insert"
      BY <2>7 DEF GraphInv, GraphTypes, Graph!InsertEdge, Graph!At
    <3> QED BY <3>1 DEF Apt
  <2>8. 0 \in 0..MaxTasks /\ 0 \in Graph!NextTasks /\ {} \in SUBSET Graph!Tasks
    BY DEF NumbersSound, Graph!NextTasks
  <2> QED BY <2>1, <2>2, <2>3, <2>4, <2>5, <2>6, <2>7, <2>8 DEF Graph!Next
<1>3. GraphInv /\ GraphBounds => Graph!TypeOK
  BY BoundsAreTypes
<1> QED BY <1>1, <1>2, <1>3, PTL DEF Graph!Spec

-----------------------------------------------------------------------------

\* A client asks for events from one of those there can be.
AnchorsBounded ==
    /\ anchor \in [Streams -> 0..MaxEvents]
    /\ first \in [Streams -> 0..MaxEvents]

LEMMA AnchorsStep ==
    ASSUME NumbersSound, AnchorsBounded, StreamInv, [Events!Next]_(Events!vars)
    PROVE  AnchorsBounded'
<1>1. CASE UNCHANGED <<anchor, first>>
  BY <1>1 DEF AnchorsBounded
<1>2. ASSUME NEW s \in Streams, NEW a \in 0..MaxEvents, Events!Connect(s, a) \/ Events!Resume(s, a)
      PROVE  AnchorsBounded'
  BY <1>2 DEF AnchorsBounded, Events!Connect, Events!Resume
<1>3. ASSUME NEW s \in Streams, NEW a \in 0..MaxEvents,
             \/ Events!Poll(s, a) \/ Events!Replay(s) \/ Events!Subscribe(s)
             \/ Events!Deliver(s) \/ Events!Leave(s) \/ Events!Close(s)
      PROVE  UNCHANGED <<anchor, first>>
  BY <1>3 DEF Events!Poll, Events!Replay, Events!Subscribe, Events!Deliver, Events!Leave,
       Events!Close
<1>4. ASSUME NEW e \in Events!Events, NEW stage,
             Events!Stamp(e, stage) \/ Events!Insert(e) \/ Events!EndTx(e, stage)
               \/ Events!Prune(e) \/ Events!Announce(e)
      PROVE  UNCHANGED <<anchor, first>>
  BY <1>4 DEF Events!Stamp, Events!Insert, Events!EndTx, Events!Prune, Events!Announce,
        Events!clientVars
<1>5. 0 \in 0..MaxEvents
  BY DEF NumbersSound
<1> QED BY <1>1, <1>2, <1>3, <1>4, <1>5 DEF Events!Next, Events!vars

\* Every variable of the event streams keeps to its type: channels hold events of the
\* log.
THEOREM EventsTypeCorrect == Events!Spec => []Events!TypeOK
<1> USE ComponentsAssumption
<1>1. Events!Init => StreamInv /\ AnchorsBounded
  BY StreamInit DEF Events!Init, AnchorsBounded, NumbersSound
<1>2. StreamInv /\ AnchorsBounded /\ [Events!Next]_(Events!vars) => StreamInv' /\ AnchorsBounded'
  BY StreamStep, AnchorsStep
<1>3. StreamInv /\ AnchorsBounded => Events!TypeOK
  BY DEF StreamInv, LiveAreListed, EventsTyped, AnchorsBounded, Events!TypeOK
<1> QED BY <1>1, <1>2, <1>3, PTL DEF Events!Spec

-----------------------------------------------------------------------------

\* Creations and edits have read versions there can be.
VersionsBounded ==
    /\ creator \in [Clients -> [pc : {"idle", "read", "insert", "deactivate"},
                                version : 0..MaxVersions]]
    /\ editor \in [Editors -> 0..MaxVersions]
    /\ used \in 0..MaxVersions

LEMMA CreationBounds ==
    ASSUME NumbersSound, PromptInv, VersionsBounded, NEW c \in Clients,
           \/ \E seed \in BOOLEAN : Prompt!Begin(c, seed)
           \/ Prompt!ReadMax(c)
           \/ \E content \in Contents : Prompt!Insert(c, content)
           \/ Prompt!Deactivate(c)
           \/ Prompt!CutShort(c)
    PROVE  VersionsBounded'
<1> DEFINE Bounded == [pc : {"idle", "read", "insert", "deactivate"}, version : 0..MaxVersions]
           begin == [Prompt!Idle EXCEPT !.pc = "read"]
           m == Prompt!Max(DOMAIN rows \cup {0})
           read == [pc |-> "insert", version |-> m + 1]
           insert == [creator[c] EXCEPT !.pc = "deactivate"]
<1>1. begin \in Bounded /\ Prompt!Idle \in Bounded /\ insert \in Bounded
  BY DEF VersionsBounded, NumbersSound, Prompt!Idle
<1>2. \/ creator' = [creator EXCEPT ![c] = begin]
      \/ creator' = [creator EXCEPT ![c] = read] /\ read \in Bounded
      \/ creator' = [creator EXCEPT ![c] = insert]
      \/ creator' = [creator EXCEPT ![c] = Prompt!Idle]
  <2>1. CASE Prompt!ReadMax(c)
    <3>1. m \in Nat /\ m < MaxVersions /\ MaxVersions \in Nat
      BY <2>1, LargestVersion DEF Prompt!ReadMax, PromptInv, NumbersSound
    <3>2. creator' = [creator EXCEPT ![c] = read]
      BY <2>1, Zenon DEF Prompt!ReadMax, Prompt!Become
    <3> HIDE DEF m
    <3>3. read \in Bounded
      BY <3>1
    <3> QED BY <3>2, <3>3
  <2>2. CASE ~Prompt!ReadMax(c)
    BY <2>2, Zenon DEF Prompt!Begin, Prompt!Insert, Prompt!Deactivate, Prompt!CutShort,
         Prompt!Become
  <2> QED BY <2>1, <2>2
<1>3. UNCHANGED <<editor, used>>
  BY DEF Prompt!Begin, Prompt!ReadMax, Prompt!Insert, Prompt!Deactivate, Prompt!CutShort
<1> HIDE DEF begin, read, insert
<1> QED BY <1>1, <1>2, <1>3 DEF VersionsBounded

LEMMA VersionsStep ==
    ASSUME NumbersSound, PromptInv, VersionsBounded, [Prompt!Next]_(Prompt!vars)
    PROVE  VersionsBounded'
<1>1. CASE UNCHANGED <<creator, editor, used>>
  BY <1>1 DEF VersionsBounded
<1>2. ASSUME NEW v \in Prompt!Versions, Prompt!Activate(v) \/ Prompt!DeletePrompt(v)
      PROVE  UNCHANGED <<creator, editor, used>>
  BY <1>2 DEF Prompt!Activate, Prompt!DeletePrompt
<1>3. ASSUME NEW e \in Editors, NEW v \in Prompt!Versions, NEW content,
             Prompt!ReadPrompt(e, v) \/ Prompt!WritePrompt(e, content)
      PROVE  VersionsBounded'
  BY <1>3 DEF NumbersSound, VersionsBounded, Prompt!Versions, Prompt!ReadPrompt, Prompt!WritePrompt
<1>4. CASE Prompt!RunStage
  <2>1. used' \in 0..MaxVersions
    BY <1>4 DEF NumbersSound, PromptInv, RowsAreVersions, Version, Prompt!RunStage, Prompt!Active
  <2> QED BY <1>4, <2>1 DEF VersionsBounded, Prompt!RunStage
<1>5. ASSUME NEW e \in Editors, NEW content, Prompt!WritePrompt(e, content) PROVE VersionsBounded'
  BY <1>5 DEF NumbersSound, VersionsBounded, Prompt!WritePrompt
<1> QED BY <1>1, <1>2, <1>3, <1>4, <1>5, CreationBounds DEF Prompt!Next, Prompt!vars

\* Every variable of the prompts keeps to its type: the rows are of versions there can be.
THEOREM PromptsTypeCorrect == Prompt!Spec => []Prompt!TypeOK
<1> USE ComponentsAssumption
<1>1. Prompt!Init => PromptInv /\ VersionsBounded
  BY PromptInit DEF Prompt!Init, Prompt!Idle, VersionsBounded, NumbersSound
<1>2. PromptInv /\ VersionsBounded /\ [Prompt!Next]_(Prompt!vars) => PromptInv' /\ VersionsBounded'
  BY PromptStep, VersionsStep
<1>3. PromptInv /\ VersionsBounded => Prompt!TypeOK
  BY DEF PromptInv, RowsAreVersions, VersionsBounded, Version, Row, Prompt!Versions, Prompt!TypeOK
<1> QED BY <1>1, <1>2, <1>3, PTL DEF Prompt!Spec

-----------------------------------------------------------------------------

\* What a row of a memory is, and where a completion is: while it is under way it
\* has a candidate to deal with.
Remembered ==
    [hash : Summaries \cup {Memo!NoHash}, recent : BOOLEAN,
     by : Clients \cup {"none", "user", "failure"}]

CandidateLists == {<<>>, <<"completion">>, <<"constraint", "completion">>}

Listed(q) ==
    /\ q.hash \in Summaries \cup {Memo!NoHash}
    /\ q.todo \in CandidateLists
    /\ Going(q) => q.todo # <<>>

MemoTypes ==
    /\ memory \in [Memo!Keys -> Remembered]
    /\ \A t \in Clients : Listed(finisher[t])
    /\ together \subseteq SUBSET Clients /\ unread \subseteq Clients

LEMMA CandidatesAreScopes ==
    CandidateLists \subseteq Memo!BoundedSeq(Memo!ToSet(Memo!Scopes), Len(Memo!Scopes))
<1> DEFINE S == {"constraint", "completion"}
<1>1. Memo!ToSet(Memo!Scopes) = S /\ Len(Memo!Scopes) = 2
  <2>1. DOMAIN Memo!Scopes = {1, 2} /\ Memo!Scopes[1] = "constraint" /\ Memo!Scopes[2] = "completion"
          /\ Len(Memo!Scopes) = 2
    BY DEF Memo!Scopes
  <2> QED BY <2>1 DEF Memo!ToSet
<1>2. <<>> \in [1..0 -> S] /\ <<"completion">> \in [1..1 -> S]
        /\ <<"constraint", "completion">> \in [1..2 -> S]
  OBVIOUS
<1>3. 0 \in 0..2 /\ 1 \in 0..2 /\ 2 \in 0..2
  OBVIOUS
<1> QED BY <1>1, <1>2, <1>3 DEF CandidateLists, Memo!BoundedSeq, Memo!SeqOf

LEMMA MemoTypesInit == Memo!Init => MemoTypes
<1>1. Memo!NoRow \in Remembered
  BY DEF Memo!NoRow, Remembered
<1>2. Listed(Memo!Idle)
  BY DEF Listed, Going, CandidateLists, Memo!Idle
<1> QED BY <1>1, <1>2 DEF Memo!Init, MemoTypes

\* A completion that gets to another place.
LEMMA FinisherListed ==
    ASSUME MemoInv, MemoTypes, NEW t \in Clients, NEW q, Listed(q),
           finisher' = [finisher EXCEPT ![t] = q]
    PROVE  \A u \in Clients : Listed(finisher'[u])
<1>1. finisher'[t] = q /\ \A u \in Clients : u # t => finisher'[u] = finisher[u]
  BY DEF MemoInv, MemoryFormed
<1> QED BY <1>1 DEF MemoTypes

LEMMA NextListed ==
    ASSUME MemoInv, MemoTypes, NEW t \in Clients, Going(finisher[t]), Memo!NextCandidate(t)
    PROVE  \A u \in Clients : Listed(finisher'[u])
<1> DEFINE over == Memo!Idle
           on == [finisher[t] EXCEPT !.pc = "hash", !.todo = Tail(finisher[t].todo)]
<1>1. Listed(over)
  BY DEF Listed, Going, CandidateLists, Memo!Idle
<1>2. CASE Len(finisher[t].todo) = 1
  <2>1. finisher' = [finisher EXCEPT ![t] = over]
    BY <1>2, Zenon DEF Memo!NextCandidate, Memo!Become
  <2> HIDE DEF over
  <2> QED BY <1>1, <2>1, FinisherListed
<1>3. CASE Len(finisher[t].todo) # 1
  <2>1. finisher' = [finisher EXCEPT ![t] = on]
    BY <1>3, Zenon DEF Memo!NextCandidate, Memo!Become
  <2>2. SlotFormed(finisher[t]) /\ Listed(finisher[t])
    BY DEF MemoInv, MemoryFormed, MemoTypes
  <2>3. on.pc = "hash" /\ on.hash = finisher[t].hash /\ on.todo = Tail(finisher[t].todo)
    BY <2>2 DEF SlotFormed
  <2> HIDE DEF on
  <2>4. Listed(on)
    <3>1. finisher[t].todo = <<"constraint", "completion">>
      BY <1>3, <2>2 DEF Listed, CandidateLists
    <3>2. Tail(finisher[t].todo) = <<"completion">>
      BY <3>1
    <3> QED BY <2>2, <2>3, <3>2 DEF Listed, CandidateLists
  <2> QED BY <2>1, <2>4, FinisherListed
<1> QED BY <1>2, <1>3

LEMMA CompleteTypes ==
    ASSUME MemoInv, MemoTypes, NEW t \in Clients, NEW hash \in Summaries, NEW spoken,
           Memo!Complete(t, hash, spoken)
    PROVE  MemoTypes'
<1> DEFINE todo == IF "constraint" \in spoken THEN Memo!Scopes ELSE <<"completion">>
           q == [pc |-> "hash", hash |-> hash, todo |-> todo]
<1>1. finisher' = [finisher EXCEPT ![t] = q]
  BY Zenon DEF Memo!Complete, Memo!Become
<1>2. todo \in CandidateLists /\ todo # <<>>
  BY DEF CandidateLists, Memo!Scopes
<1> HIDE DEF todo
<1>3. Listed(q)
  <2>1. q.hash = hash /\ q.todo = todo
    OBVIOUS
  <2> HIDE DEF q
  <2> QED BY <1>2, <2>1 DEF Listed
<1> HIDE DEF q
<1>4. \A u \in Clients : Listed(finisher'[u])
  BY <1>1, <1>3, FinisherListed
<1> QED BY <1>4 DEF Memo!Complete, MemoTypes

LEMMA LookTypes ==
    ASSUME MemoInv, MemoTypes, NEW t \in Clients, NEW read,
           \/ Memo!LookForHash(t, read) \/ Memo!LookForKey(t, read)
           \/ Memo!Write(t) \/ Memo!WriteFails(t)
    PROVE  MemoTypes'
<1>1. Going(finisher[t]) /\ SlotFormed(finisher[t]) /\ Listed(finisher[t])
  BY DEF Memo!LookForHash, Memo!LookForKey, Memo!Write, Memo!WriteFails, Memo!At, Going, MemoInv,
     MemoryFormed, MemoTypes
<1>2. \A u \in Clients : Listed(finisher'[u])
  <2>1. CASE Memo!NextCandidate(t)
    BY <1>1, <2>1, NextListed
  <2>2. CASE ~Memo!NextCandidate(t)
    <3>1. PICK pc \in {"key", "write"} : finisher' = [finisher EXCEPT ![t] =
                                                        [finisher[t] EXCEPT !.pc = pc]]
      BY <2>2 DEF Memo!LookForHash, Memo!LookForKey, Memo!Write, Memo!WriteFails, Memo!Become
    <3> DEFINE q == [finisher[t] EXCEPT !.pc = pc]
    <3>2. q.pc = pc /\ q.hash = finisher[t].hash /\ q.todo = finisher[t].todo
      BY <1>1 DEF SlotFormed
    <3> HIDE DEF q
    <3>3. Listed(q)
      BY <1>1, <3>2 DEF Listed
    <3> QED BY <3>1, <3>3, FinisherListed DEF q
  <2> QED BY <2>1, <2>2
<1>3. memory' \in [Memo!Keys -> Remembered]
  <2> DEFINE row == [hash |-> finisher[t].hash, by |-> t, recent |-> TRUE]
  <2>1. memory' = memory \/ memory' = [memory EXCEPT ![<<Memo!Scope(t), t>>] = row]
    BY DEF Memo!LookForHash, Memo!LookForKey, Memo!Write, Memo!WriteFails
  <2>2. row \in Remembered
    BY <1>1 DEF Remembered, Listed
  <2> HIDE DEF row
  <2> QED BY <2>1, <2>2 DEF MemoTypes
<1>4. together' = together /\ unread' \subseteq Clients
  BY DEF Memo!LookForHash, Memo!LookForKey, Memo!Write, Memo!WriteFails, MemoTypes
<1> QED BY <1>2, <1>3, <1>4 DEF MemoTypes

LEMMA FadeTypes ==
    ASSUME MemoInv, MemoTypes, NEW e, NEW read, NEW k, NEW hash \in Summaries \cup {Memo!NoHash},
           Memo!Fail(e, read) \/ Memo!Put(k, hash) \/ Memo!Elapse
    PROVE  MemoTypes'
<1> DEFINE failed == [hash |-> Memo!NoHash, by |-> "failure", recent |-> TRUE]
           put == [hash |-> hash, by |-> "user", recent |-> TRUE]
<1>1. failed \in Remembered /\ put \in Remembered
  BY DEF Remembered
<1>2. ASSUME NEW j \in Memo!Keys PROVE [memory[j] EXCEPT !.recent = FALSE] \in Remembered
  <2>1. memory[j] \in Remembered
    BY DEF MemoTypes
  <2> QED BY <2>1 DEF Remembered
<1>3. \/ memory' = [memory EXCEPT ![<<"failure_pattern", e>>] = failed]
      \/ memory' = [memory EXCEPT ![k] = put]
      \/ memory' = [j \in Memo!Keys |-> [memory[j] EXCEPT !.recent = FALSE]]
  BY DEF Memo!Fail, Memo!Put, Memo!Elapse
<1> HIDE DEF failed, put
<1>4. memory' \in [Memo!Keys -> Remembered]
  BY <1>1, <1>2, <1>3 DEF MemoTypes
<1>5. UNCHANGED <<finisher, together, unread>>
  BY DEF Memo!Fail, Memo!Put, Memo!Elapse
<1> QED BY <1>4, <1>5 DEF MemoTypes

\* Every variable of the memories keeps to its type: the candidates of a completion are
\* of the scopes there are, and a row is a completion's, a failure's or a user's.
THEOREM MemoriesTypeCorrect == Memo!Spec => []Memo!TypeOK
<1>1. MemoInv /\ MemoTypes /\ [Memo!Next]_(Memo!vars) => MemoInv' /\ MemoTypes'
  <2> SUFFICES ASSUME MemoInv, MemoTypes, [Memo!Next]_(Memo!vars) PROVE MemoTypes'
    BY MemoStep
  <2>1. ASSUME NEW t \in Clients, NEW hash \in Summaries, NEW spoken, Memo!Complete(t, hash, spoken)
        PROVE  MemoTypes'
    BY <2>1, CompleteTypes
  <2>2. ASSUME NEW t \in Clients, NEW read,
               \/ Memo!LookForHash(t, read) \/ Memo!LookForKey(t, read)
               \/ Memo!Write(t) \/ Memo!WriteFails(t)
        PROVE  MemoTypes'
    BY <2>2, LookTypes
  <2>3. ASSUME NEW e, NEW read, NEW k, NEW hash \in Summaries \cup {Memo!NoHash},
               Memo!Fail(e, read) \/ Memo!Put(k, hash) \/ Memo!Elapse
        PROVE  MemoTypes'
    BY <2>3, FadeTypes
  <2>4. CASE UNCHANGED Memo!vars
    BY <2>4 DEF Memo!vars, MemoTypes
  <2> QED BY <2>1, <2>2, <2>3, <2>4 DEF Memo!Next
<1>2. MemoInv /\ MemoTypes => Memo!TypeOK
  <2> SUFFICES ASSUME MemoInv, MemoTypes PROVE Memo!TypeOK
    OBVIOUS
  <2>1. ASSUME NEW t \in Clients
        PROVE  /\ finisher[t].pc \in {"idle", "hash", "key", "write"}
               /\ finisher[t].hash \in Summaries \cup {Memo!NoHash}
               /\ finisher[t].todo \in Memo!BoundedSeq(Memo!ToSet(Memo!Scopes), Len(Memo!Scopes))
    BY CandidatesAreScopes DEF MemoInv, MemoryFormed, MemoTypes, Listed
  <2> QED BY <2>1 DEF MemoTypes, Remembered, Memo!TypeOK
<1> QED BY <1>1, <1>2, MemoInit, MemoTypesInit, PTL DEF Memo!Spec

-----------------------------------------------------------------------------

\* Every variable of every part keeps to its type while the parts run side by side.
THEOREM ComponentsTypeCorrect == ComponentsSideBySide => []AllTypes
<1> USE ComponentsAssumption
<1>1. Work!Spec => []Work!TypeOK
  <2>1. WorkInv /\ [Work!Next]_(Work!vars) => WorkInv'
    BY WorkStep
  <2>2. Work!Init => WorkInv
    BY WorkInit
  <2>3. WorkInv => Work!TypeOK
    BY DEF WorkInv
  <2> QED BY <2>1, <2>2, <2>3, PTL DEF Work!Spec
<1>2. Agency!Spec => []Agency!TypeOK
  <2>1. SilenceInv /\ [Agency!Next]_(Agency!vars) => SilenceInv'
    BY SilenceStep
  <2>2. Agency!Init => SilenceInv
    BY SilenceInit
  <2>3. SilenceInv => Agency!TypeOK
    BY DEF SilenceInv
  <2> QED BY <2>1, <2>2, <2>3, PTL DEF Agency!Spec
<1>3. Schema!Spec => []Schema!TypeOK
  <2>1. SchemaInv /\ [Schema!Next]_(Schema!vars) => SchemaInv'
    BY SchemaTypesStay, AccountsStay, PassedStay DEF SchemaInv
  <2>2. Schema!Init => SchemaInv
    BY SchemaInit
  <2>3. SchemaInv => Schema!TypeOK
    BY DEF SchemaInv
  <2> QED BY <2>1, <2>2, <2>3, PTL DEF Schema!Spec
<1>4. TypeOK /\ Graph!TypeOK /\ Events!TypeOK /\ Work!TypeOK /\ Agency!TypeOK
        /\ Prompt!TypeOK /\ Schema!TypeOK /\ Memo!TypeOK => AllTypes
  BY DEF AllTypes
<1> QED BY <1>1, <1>2, <1>3, <1>4, StreamTypeCorrect, GraphTypeCorrect, EventsTypeCorrect,
       PromptsTypeCorrect, MemoriesTypeCorrect, PTL DEF ComponentsSideBySide

=============================================================================

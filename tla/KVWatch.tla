------------------------------ MODULE KVWatch ------------------------------
(***************************************************************************)
(* A key watch of distconf, end to end: the event ring and the live        *)
(* channels of the state machine (internal/store), the server's watchLoop  *)
(* (internal/server/watch.go) and the SDK's watchLoop (client/client.go),  *)
(* which resumes on any node from its last cursor.                         *)
(*                                                                         *)
(* Of a log entry only the keys it emits events for matter here: none (a   *)
(* CAS conflict, a delete of nothing, a registry operation), one (Put,     *)
(* Delete) or several (ExpireKeys).  Every node applies the same log, each *)
(* at its own pace (module Replication).  A step is one critical section   *)
(* of Store.mu, or one send or receive on a channel or a stream.           *)
(***************************************************************************)
EXTENDS Integers, Sequences, FiniteSets, SequencesExt

CONSTANTS
    Nodes,
    Leader,          \* the node that never restores a snapshot
    Keys,
    AllKeys,         \* a watch of the whole namespace (key == "")
    SubLimit,        \* subLimit: cursor positions per log index
    HistoryCapacity, \* historyCapacity: events the ring retains
    WatcherBuffer,   \* watcherBuffer: capacity of a live channel
    Window,          \* bound: messages in flight on the Watch stream
    MaxIndex,        \* bound: log entries
    MaxBatch,        \* bound: events of one log entry
    MaxBreaks,       \* bound: failures of the stream, by the transport or by
                     \* the restart of a follower
    MaxRestores      \* bound: snapshots restored

ASSUME NodesAssumption == Leader \in Nodes
ASSUME KeysAssumption == AllKeys \notin Keys
ASSUME SizesAssumption ==
    /\ SubLimit \in Nat \ {0}
    /\ HistoryCapacity \in Nat \ {0}
    /\ WatcherBuffer \in Nat \ {0}
    /\ Window \in Nat \ {0}
    /\ MaxIndex \in Nat
    /\ MaxBatch \in Nat
    /\ MaxBreaks \in Nat
    /\ MaxRestores \in Nat

VARIABLES
    entries,         \* entries[i]: the keys index i emits events for
    \* Store of each node
    rev,             \* applied index
    hist,            \* the ring, oldest event first
    baselineSeq,     \* cursor of the last restored snapshot
    panicked,        \* emitKVLocked ran out of cursors
    \* watchLoop of the server the client is connected to, and its kvWatcher
    node,            \* that server
    pc,
    cursor,          \* last event it sent
    backlog,         \* history still to be sent
    ch,              \* the live channel's buffer
    registered,      \* the watcher is in kvWatchers (its channel is open)
    wire,            \* the stream
    \* watchLoop of the client
    filter,          \* the watched key
    ccursor,         \* cursor of the last event handed to the application
    received,        \* the events handed to the application
    client,
    \* failure budgets used up
    breaks, restores

storeVars == <<rev, hist, baselineSeq, panicked>>
serverVars == <<node, pc, cursor, backlog, ch, registered, wire>>
clientVars == <<filter, ccursor, received, client>>
budgetVars == <<breaks, restores>>
vars == <<entries, storeVars, serverVars, clientVars, budgetVars>>

-----------------------------------------------------------------------------
(* Events and their cursors *)

Event == [seq : Nat, key : Keys]

\* The first cursor of index i, the one a Put or a Delete gets.
EventSeq(i) == i * SubLimit

\* The events of index i: emitKVLocked numbers them within the index.
EventsOf(i) ==
    [k \in 1..Len(entries[i]) |->
        [seq |-> EventSeq(i) + k - 1, key |-> entries[i][k]]]

\* Whether the watch wants event e (matchKV, fanoutKVLocked).
Matches(e) == filter \in {AllKeys, e.key}

\* The elements of s at the positions I, in their order.
Picked(s, I) ==
    [k \in 1..Cardinality(I) |->
        s[CHOOSE i \in I : Cardinality(I \cap 1..i) = k]]

\* The events of evs that the watch wants.
Wanted(evs) == Picked(evs, {k \in DOMAIN evs : Matches(evs[k])})

\* Every event of the log.
Events == UNION {Range(EventsOf(i)) : i \in DOMAIN entries}

\* What one log entry may emit: ExpireKeys lists a key once.
Batches == {b \in SeqOf(Keys, MaxBatch) : IsInjective(b)}

-----------------------------------------------------------------------------
TypeOK ==
    /\ entries \in Seq(Batches)
    /\ rev \in [Nodes -> Nat]
    /\ hist \in [Nodes -> Seq(Event)]
    /\ baselineSeq \in [Nodes -> Nat]
    /\ panicked \in BOOLEAN
    /\ node \in Nodes
    /\ pc \in {"off", "backlog", "live", "compacted"}
    /\ cursor \in Nat
    /\ backlog \in Seq(Event)
    /\ ch \in Seq(Event) /\ Len(ch) <= WatcherBuffer
    /\ registered \in BOOLEAN
    /\ wire \in Seq(Event)
    /\ filter \in Keys \cup {AllKeys}
    /\ ccursor \in Nat
    /\ received \in Seq(Event)
    /\ client \in {"connecting", "streaming", "compacted"}
    /\ breaks \in Nat
    /\ restores \in Nat

\* The application starts from nothing, or from the cursor it kept of an
\* earlier watch (the event of index 1).
Init ==
    /\ entries = <<>>
    /\ rev = [n \in Nodes |-> 0]
    /\ hist = [n \in Nodes |-> <<>>]
    /\ baselineSeq = [n \in Nodes |-> 0]
    /\ panicked = FALSE
    /\ node = Leader
    /\ pc = "off"
    /\ cursor = 0
    /\ backlog = <<>>
    /\ ch = <<>>
    /\ registered = FALSE
    /\ wire = <<>>
    /\ filter \in Keys \cup {AllKeys}
    /\ ccursor \in {0, EventSeq(1)}
    /\ received = <<>>
    /\ client = "connecting"
    /\ breaks = 0
    /\ restores = 0

-----------------------------------------------------------------------------
(* The state machine *)

\* An entry enters the replicated log.
AppendEntry(b) ==
    /\ Len(entries) < MaxIndex
    /\ entries' = Append(entries, b)
    /\ UNCHANGED <<storeVars, serverVars, clientVars, budgetVars>>

\* appendEventLocked: the ring overwrites its oldest events.
Ring(h) ==
    IF Len(h) <= HistoryCapacity THEN h
    ELSE SubSeq(h, Len(h) - HistoryCapacity + 1, Len(h))

\* Mutant: a full channel drops the event and keeps the subscriber.
FanoutDropping(evs) ==
    LET room == WatcherBuffer - Len(ch)
    IN  /\ ch' = ch \o SubSeq(evs, 1, IF room < Len(evs) THEN room
                                      ELSE Len(evs))
        /\ UNCHANGED registered

\* Mutant: the channel grows without bound.
FanoutUnbounded(evs) == ch' = ch \o evs /\ UNCHANGED registered

\* fanoutKVLocked, for the events evs of one entry: a subscriber whose channel
\* is full is closed and removed, what is buffered stays readable.
Fanout(evs) ==
    LET room == WatcherBuffer - Len(ch)
    IN  IF Len(evs) <= room
        THEN /\ ch' = ch \o evs
             /\ UNCHANGED registered
        ELSE /\ ch' = ch \o SubSeq(evs, 1, room)
             /\ registered' = FALSE

\* A node applies its next entry: ApplyPut, ApplyDelete, ApplyExpireKeys.
ApplyEntry(n) ==
    LET i == rev[n] + 1
        evs == EventsOf(i)
    IN  /\ i <= Len(entries)
        /\ IF Len(evs) >= SubLimit
           THEN panicked' = TRUE /\ UNCHANGED <<rev, hist, ch, registered>>
           ELSE /\ rev' = [rev EXCEPT ![n] = i]
                /\ hist' = [hist EXCEPT ![n] = Ring(@ \o evs)]
                /\ IF registered /\ node = n
                   THEN Fanout(Wanted(evs))
                   ELSE UNCHANGED <<ch, registered>>
                /\ UNCHANGED panicked
        /\ UNCHANGED <<entries, baselineSeq, node, pc, cursor, backlog, wire,
                       clientVars, budgetVars>>

\* Mutant: the first cursor of the snapshot's index.
BaselineFirst(r) == EventSeq(r)

\* The last cursor that index r could have used.
Baseline(r) == EventSeq(r) + SubLimit - 1

\* RestoreSnapshot on a follower, of what the leader had applied when it
\* exported: the ring is emptied, the subscribers stay.
RestoreSnapshot(n, r) ==
    /\ n # Leader
    /\ restores < MaxRestores
    /\ restores' = restores + 1
    /\ r \in rev[n]..rev[Leader] /\ r > 0
    /\ rev' = [rev EXCEPT ![n] = r]
    /\ hist' = [hist EXCEPT ![n] = <<>>]
    /\ baselineSeq' = [baselineSeq EXCEPT ![n] = Baseline(r)]
    /\ UNCHANGED <<entries, panicked, serverVars, clientVars, breaks>>

-----------------------------------------------------------------------------
(* The server's watchLoop *)

\* The oldest cursor WatchKV accepts.
Horizon(n) ==
    IF hist[n] = <<>> THEN baselineSeq[n] ELSE hist[n][1].seq - 1

\* The history WatchKV replays after cursor from.
Backlog(n, from) ==
    Picked(hist[n],
           {k \in DOMAIN hist[n] :
               hist[n][k].seq > from /\ Matches(hist[n][k])})

\* Mutant: the subscription is registered but never replays history.
WatchKVLiveOnly(n, from) ==
    /\ cursor' = from
    /\ ch' = <<>>
    /\ backlog' = <<>>
    /\ pc' = "backlog"
    /\ registered' = TRUE

\* WatchKV: in one critical section, copy the history and register.  Cursor 0
\* is never too old.
WatchKV(n, from) ==
    /\ cursor' = from
    /\ ch' = <<>>
    /\ IF from > 0 /\ from < Horizon(n)
       THEN pc' = "compacted" /\ backlog' = <<>> /\ registered' = FALSE
       ELSE pc' = "backlog" /\ backlog' = Backlog(n, from)
                /\ registered' = TRUE

\* Mutant: the loop forgets what it has sent.
SendBacklogStuck ==
    /\ pc = "backlog"
    /\ backlog # <<>>
    /\ Len(wire) < Window
    /\ wire' = Append(wire, Head(backlog))
    /\ backlog' = Tail(backlog)
    /\ UNCHANGED <<entries, storeVars, node, pc, cursor, ch, registered,
                   clientVars, budgetVars>>

\* Send the next event of the history.
SendBacklog ==
    /\ pc = "backlog"
    /\ backlog # <<>>
    /\ Len(wire) < Window
    /\ wire' = Append(wire, Head(backlog))
    /\ cursor' = Head(backlog).seq
    /\ backlog' = Tail(backlog)
    /\ UNCHANGED <<entries, storeVars, node, pc, ch, registered, clientVars,
                   budgetVars>>

\* KVWatcherChan finds the watcher still registered.
GoLive ==
    /\ pc = "backlog"
    /\ backlog = <<>>
    /\ registered
    /\ pc' = "live"
    /\ UNCHANGED <<entries, storeVars, node, cursor, backlog, ch, registered,
                   wire, clientVars, budgetVars>>

\* Send the next event of the channel.
SendLive ==
    /\ pc = "live"
    /\ ch # <<>>
    /\ Len(wire) < Window
    /\ wire' = Append(wire, Head(ch))
    /\ cursor' = Head(ch).seq
    /\ ch' = Tail(ch)
    /\ UNCHANGED <<entries, storeVars, node, pc, backlog, registered,
                   clientVars, budgetVars>>

\* The subscription was removed: KVWatcherChan returns nil, whatever the
\* channel still holds, or the channel is drained.  Resume from the cursor.
Resubscribe ==
    /\ ~registered
    /\ \/ pc = "backlog" /\ backlog = <<>>
       \/ pc = "live" /\ ch = <<>>
    /\ WatchKV(node, cursor)
    /\ UNCHANGED <<entries, storeVars, node, wire, clientVars, budgetVars>>

-----------------------------------------------------------------------------
(* The client's watchLoop *)

\* Open a Watch stream on some node, from the last cursor.
Connect(n) ==
    /\ client = "connecting"
    /\ client' = "streaming"
    /\ node' = n
    /\ wire' = <<>>
    /\ WatchKV(n, ccursor)
    /\ UNCHANGED <<entries, storeVars, filter, ccursor, received, budgetVars>>

\* pumpWatch
Receive ==
    /\ client = "streaming"
    /\ wire # <<>>
    /\ wire' = Tail(wire)
    /\ received' = Append(received, Head(wire))
    /\ ccursor' = Head(wire).seq
    /\ UNCHANGED <<entries, storeVars, node, pc, cursor, backlog, ch,
                   registered, filter, client, budgetVars>>

\* The stream ends with OutOfRange: ErrHistoryCompacted.
ReceiveCompacted ==
    /\ client = "streaming"
    /\ pc = "compacted"
    /\ wire = <<>>
    /\ client' = "compacted"
    /\ pc' = "off"
    /\ UNCHANGED <<entries, storeVars, node, cursor, backlog, ch, registered,
                   wire, filter, ccursor, received, budgetVars>>

\* Both ends drop the stream: the server closes its watcher, the client will
\* connect again.
Disconnected ==
    /\ client' = "connecting"
    /\ pc' = "off"
    /\ registered' = FALSE
    /\ backlog' = <<>>
    /\ ch' = <<>>
    /\ wire' = <<>>

StreamBreak ==
    /\ client = "streaming"
    /\ breaks < MaxBreaks
    /\ breaks' = breaks + 1
    /\ Disconnected
    /\ UNCHANGED <<entries, storeVars, node, cursor, filter, ccursor,
                   received, restores>>

\* A follower restarts with nothing, its streams end.
NodeRestart(n) ==
    /\ n # Leader
    /\ breaks < MaxBreaks
    /\ breaks' = breaks + 1
    /\ rev' = [rev EXCEPT ![n] = 0]
    /\ hist' = [hist EXCEPT ![n] = <<>>]
    /\ baselineSeq' = [baselineSeq EXCEPT ![n] = 0]
    /\ IF client = "streaming" /\ node = n THEN Disconnected
       ELSE UNCHANGED <<client, pc, registered, backlog, ch, wire>>
    /\ UNCHANGED <<entries, panicked, node, cursor, filter, ccursor, received,
                   restores>>

-----------------------------------------------------------------------------
Server == SendBacklog \/ GoLive \/ SendLive \/ Resubscribe

Client == (\E n \in Nodes : Connect(n)) \/ Receive \/ ReceiveCompacted

Next ==
    /\ ~panicked
    /\ \/ \E b \in Batches : AppendEntry(b)
       \/ \E n \in Nodes : ApplyEntry(n)
       \/ \E n \in Nodes, r \in 1..MaxIndex : RestoreSnapshot(n, r)
       \/ \E n \in Nodes : NodeRestart(n)
       \/ Server
       \/ Client
       \/ StreamBreak

Spec == Init /\ [][Next]_vars

\* Nodes apply what is replicated to them, both loops run, the application
\* reads its channel; nothing obliges writers to write or streams to break.
FairSpec ==
    /\ Spec
    /\ \A n \in Nodes : WF_vars(~panicked /\ ApplyEntry(n))
    /\ WF_vars(~panicked /\ Server)
    /\ WF_vars(~panicked /\ Client)

-----------------------------------------------------------------------------
(* Properties *)

\* No event is lost silently: between the first event of a watch and its
\* cursor the application has every matching event, whatever mixture of ring,
\* channel, removal, reconnection and change of node delivered them.
NoGap ==
    received # <<>> =>
        \A e \in Events :
            (Matches(e) /\ received[1].seq <= e.seq /\ e.seq <= ccursor)
                => e \in Range(received)

\* The same while no follower has restored a snapshot under its watchers.
GapFree == restores = 0 => NoGap

\* Within one stream the events of ring and channel follow each other in
\* strictly increasing order, however often watchLoop subscribes again.
StreamOrdered ==
    LET pending == wire \o backlog \o ch
    IN  \A i, j \in DOMAIN pending : i < j => pending[i].seq < pending[j].seq

\* A subscription that is accepted replays every matching event its node has
\* applied after the cursor, also when the ring has wrapped or a snapshot has
\* emptied it; a cursor for which that is impossible is refused.
ReplayComplete ==
    [][(registered' /\ ~registered /\ cursor' > 0) =>
        \A e \in Events :
            (Matches(e) /\ cursor' < e.seq
                /\ e.seq < EventSeq(rev[node'] + 1))
                => e \in Range(backlog')]_vars

\* Every matching event after a client's cursor reaches the application, or
\* the client is told that history is gone.  (Cursor 0 promises nothing.)
Delivered ==
    \A q \in SubLimit..(MaxIndex * SubLimit + SubLimit - 1) :
        (0 < ccursor /\ ccursor < q
            /\ \E e \in Events : e.seq = q /\ Matches(e))
            ~> (client = "compacted" \/ \E e \in Range(received) : e.seq = q)

=============================================================================

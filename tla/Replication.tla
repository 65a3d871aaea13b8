---------------------------- MODULE Replication ----------------------------
(***************************************************************************)
(* The replication core of distconf (internal/repl): a static leader       *)
(* appends proposals to its log, pushes them over one gRPC stream per      *)
(* follower, and commits an index once a majority has acknowledged it.     *)
(*                                                                         *)
(* A step is one critical section of a goroutine, or one send or receive   *)
(* on a channel or a stream.  An operation is an element of Ops and a      *)
(* replica's state is the sequence of operations it has applied, so that   *)
(* its revision is the length of that sequence (store.go: "rev == applied  *)
(* log index").  A stream of follower f occupies one of its Slots: the old *)
(* stream's goroutines may still be winding down while the new one runs.   *)
(***************************************************************************)
EXTENDS Integers, Sequences, FiniteSets, SequencesExt

CONSTANTS
    Followers,       \* the nodes other than the leader
    Slots,           \* how many streams of one follower may overlap
    NoSlot,          \* "no stream"
    Ops,             \* what a log entry may do
    RetainEntries,   \* retainEntries: log length that triggers compaction
    MaxIndex,        \* bound: proposals
    MaxBreaks,       \* bound: network failures of a stream
    MaxRestarts,     \* bound: process restarts (state is in memory only)
    MaxTimeouts,     \* bound: proposals whose caller gives up
    MayStop          \* whether the leader node may be shut down

ASSUME FollowersAssumption == IsFiniteSet(Followers)
ASSUME SlotsAssumption == NoSlot \notin Slots
ASSUME BoundsAssumption ==
    /\ RetainEntries \in Nat
    /\ MaxIndex \in Nat
    /\ MaxBreaks \in Nat
    /\ MaxRestarts \in Nat
    /\ MaxTimeouts \in Nat
    /\ MayStop \in BOOLEAN

VARIABLES
    \* Leader, under Leader.mu
    log,             \* the window of entries above compactIndex
    compactIndex,    \* last index covered by savedSnap
    savedSnap,       \* the state exported at compactIndex
    lstate,          \* the leader's applied operations; commit == its length
    match,           \* match[f]: last index acked by f
    waiters,         \* indexes whose proposer is registered for the result
    \* channels and flags of the leader
    wake,            \* wakeCh (capacity 1)
    results,         \* indexes whose waiter channel holds a result
    stopped,         \* stopCh closed
    panicked,        \* a slice expression was out of range
    \* Propose calls, by index
    proposer,
    \* PeerManager and the goroutines of each stream
    peers,           \* peers[f]: the slot registered for f
    srv,             \* the AppendEntries handler
    rcv,             \* the receiving goroutine
    push,            \* control state of the pushing goroutine
    last,            \* its "sent up to" variable
    li,              \* its copy of LastIndex(); 0 outside its scope
    sub,             \* its broadcaster subscription and pending signal
    down, up,        \* messages in flight to the follower and to the leader
    \* Followers
    conn,            \* conn[f]: the slot of f's open stream
    fstate,          \* f's applied operations
    \* failure budgets used up
    breaks, restarts, timeouts

leaderVars == <<log, compactIndex, savedSnap, lstate, match, waiters>>
signalVars == <<wake, results, stopped, panicked>>
streamVars == <<peers, srv, rcv, push, last, li, sub, down, up>>
followerVars == <<conn, fstate>>
budgetVars == <<breaks, restarts, timeouts>>
vars == <<leaderVars, signalVars, proposer, streamVars, followerVars,
          budgetVars>>

-----------------------------------------------------------------------------
(* Derived state *)

commit == Len(lstate)
LastIndex == compactIndex + Len(log)
AppliedIndex(f) == Len(fstate[f])

\* Quorum(len(NodeAddrs)), with the leader among the nodes.
Quorum == ((Cardinality(Followers) + 1) \div 2) + 1

\* Mutant: an ack for the predecessor counts.
VotesOffByOne(i) == 1 + Cardinality({f \in Followers : match[f] + 1 >= i})

\* The acks counted for index i, the leader's own vote included.
Votes(i) == 1 + Cardinality({f \in Followers : match[f] >= i})

\* The wire messages.
EntryMsg(i, op) == [type |-> "entry", index |-> i, op |-> op]
SnapshotMsg(state) == [type |-> "snapshot", state |-> state]
Messages == [type : {"entry"}, index : Nat, op : Ops]
                \cup [type : {"snapshot"}, state : Seq(Ops)]

\* The entries above index n; n is at least compactIndex.
EntriesAfter(n) ==
    [k \in 1..(LastIndex - n) |-> EntryMsg(n + k, log[n + k - compactIndex])]

\* Leader.Catchup: what a follower that has applied n is sent first.
Catchup(n) ==
    IF n >= compactIndex + 1 THEN EntriesAfter(n)
    ELSE IF compactIndex = 0 THEN EntriesAfter(0)
    ELSE <<SnapshotMsg(savedSnap)>> \o EntriesAfter(compactIndex)

\* Both Catchup and EntriesAfter slice the log from n - compactIndex.
SliceOutOfRange(n) == n > LastIndex

ProposerStates == {"none", "appended", "waiting", "ok", "timeout", "stopped"}
PushStates ==
    {"off", "catchup", "mark", "subscribe", "wait", "check", "send"}

TypeOK ==
    /\ log \in Seq(Ops)
    /\ compactIndex \in Nat
    /\ savedSnap \in Seq(Ops)
    /\ lstate \in Seq(Ops)
    /\ match \in [Followers -> Nat]
    /\ waiters \in SUBSET (1..MaxIndex)
    /\ wake \in BOOLEAN
    /\ results \in SUBSET (1..MaxIndex)
    /\ stopped \in BOOLEAN
    /\ panicked \in BOOLEAN
    /\ proposer \in [1..MaxIndex -> ProposerStates]
    /\ peers \in [Followers -> Slots \cup {NoSlot}]
    /\ srv \in [Followers -> [Slots ->
                    {"ended", "accept", "serving", "resetting"}]]
    /\ rcv \in [Followers -> [Slots -> {"on", "off"}]]
    /\ push \in [Followers -> [Slots -> PushStates]]
    /\ last \in [Followers -> [Slots -> Nat]]
    /\ li \in [Followers -> [Slots -> Nat]]
    /\ sub \in [Followers -> [Slots -> {"none", "idle", "signal"}]]
    /\ down \in [Followers -> [Slots -> Seq(Messages)]]
    /\ up \in [Followers -> [Slots -> Seq(Nat)]]
    /\ conn \in [Followers -> Slots \cup {NoSlot}]
    /\ fstate \in [Followers -> Seq(Ops)]
    /\ breaks \in Nat
    /\ restarts \in Nat
    /\ timeouts \in Nat

Init ==
    /\ log = <<>>
    /\ compactIndex = 0
    /\ savedSnap = <<>>
    /\ lstate = <<>>
    /\ match = [f \in Followers |-> 0]
    /\ waiters = {}
    /\ wake = FALSE
    /\ results = {}
    /\ stopped = FALSE
    /\ panicked = FALSE
    /\ proposer = [i \in 1..MaxIndex |-> "none"]
    /\ peers = [f \in Followers |-> NoSlot]
    /\ srv = [f \in Followers |-> [s \in Slots |-> "ended"]]
    /\ rcv = [f \in Followers |-> [s \in Slots |-> "off"]]
    /\ push = [f \in Followers |-> [s \in Slots |-> "off"]]
    /\ last = [f \in Followers |-> [s \in Slots |-> 0]]
    /\ li = [f \in Followers |-> [s \in Slots |-> 0]]
    /\ sub = [f \in Followers |-> [s \in Slots |-> "none"]]
    /\ down = [f \in Followers |-> [s \in Slots |-> <<>>]]
    /\ up = [f \in Followers |-> [s \in Slots |-> <<>>]]
    /\ conn = [f \in Followers |-> NoSlot]
    /\ fstate = [f \in Followers |-> <<>>]
    /\ breaks = 0
    /\ restarts = 0
    /\ timeouts = 0

-----------------------------------------------------------------------------
(* Leader.Propose, one call per index *)

\* Append under Leader.mu, registering the caller as the index's waiter.
ProposeAppend(op) ==
    /\ ~stopped
    /\ LastIndex < MaxIndex
    /\ log' = Append(log, op)
    /\ waiters' = waiters \cup {LastIndex + 1}
    /\ proposer' = [proposer EXCEPT ![LastIndex + 1] = "appended"]
    /\ UNCHANGED <<compactIndex, savedSnap, lstate, match, signalVars,
                   streamVars, followerVars, budgetVars>>

\* broadcaster.notify: a signal for every subscriber that has none pending.
Notified ==
    [f \in Followers |-> [s \in Slots |->
        IF sub[f][s] = "idle" THEN "signal" ELSE sub[f][s]]]

\* wake() and notifyReplicators(), after the lock is released.
ProposeNotify(i) ==
    /\ proposer[i] = "appended"
    /\ proposer' = [proposer EXCEPT ![i] = "waiting"]
    /\ wake' = TRUE
    /\ sub' = Notified
    /\ UNCHANGED <<leaderVars, results, stopped, panicked, peers, srv, rcv,
                   push, last, li, down, up, followerVars, budgetVars>>

\* The result arrives on the waiter's channel.
ProposeReply(i) ==
    /\ proposer[i] = "waiting"
    /\ i \in results
    /\ proposer' = [proposer EXCEPT ![i] = "ok"]
    /\ results' = results \ {i}
    /\ UNCHANGED <<leaderVars, wake, stopped, panicked, streamVars,
                   followerVars, budgetVars>>

\* ctx.Done(): the caller gives up, the entry stays in the log.
ProposeTimeout(i) ==
    /\ proposer[i] = "waiting"
    /\ timeouts < MaxTimeouts
    /\ timeouts' = timeouts + 1
    /\ proposer' = [proposer EXCEPT ![i] = "timeout"]
    /\ waiters' = waiters \ {i}
    /\ UNCHANGED <<log, compactIndex, savedSnap, lstate, match, signalVars,
                   streamVars, followerVars, breaks, restarts>>

\* stopCh: ErrNotLeader, the waiter stays registered.
ProposeStopped(i) ==
    /\ stopped
    /\ proposer[i] = "waiting"
    /\ proposer' = [proposer EXCEPT ![i] = "stopped"]
    /\ UNCHANGED <<leaderVars, signalVars, streamVars, followerVars,
                   budgetVars>>

-----------------------------------------------------------------------------
(* Leader.commitLoop *)

\* Mutant: the last index committed is left out.
AnsweredButLast(n) == {i \in waiters : commit < i /\ i < n}

\* The waiters that committing up to n answers.
Answered(n) == {i \in waiters : commit < i /\ i <= n}

\* Mutant: the snapshot is exported before the entries are applied.
CompactLockedEarly(n) ==
    IF n > commit /\ Len(log) > RetainEntries
    THEN /\ savedSnap' = lstate
         /\ log' = SubSeq(log, n - compactIndex + 1, Len(log))
         /\ compactIndex' = n
    ELSE UNCHANGED <<savedSnap, log, compactIndex>>

\* Mutant: the uncommitted tail is cut off as well.
CompactLockedAll(n) ==
    IF n > commit /\ Len(log) > RetainEntries
    THEN /\ savedSnap' = lstate'
         /\ log' = <<>>
         /\ compactIndex' = n
    ELSE UNCHANGED <<savedSnap, log, compactIndex>>

\* compactLocked, after a commit up to n.
CompactLocked(n) ==
    IF n > commit /\ Len(log) > RetainEntries
    THEN /\ savedSnap' = lstate'
         /\ log' = SubSeq(log, n - compactIndex + 1, Len(log))
         /\ compactIndex' = n
    ELSE UNCHANGED <<savedSnap, log, compactIndex>>

\* The locked section after a wake-up: find the largest index a majority has
\* acked, apply up to it, take the waiters it answers, compact the log.  The
\* loop's other case, stopCh, needs no step: with both ready Go picks either,
\* and nothing obliges Commit to happen once stopped.  The results are sent
\* after the lock is released, but to buffered channels, so a proposer cannot
\* tell that from sending them here.
Commit ==
    /\ wake
    /\ wake' = FALSE
    /\ \E n \in commit..LastIndex :
        /\ n > commit => Votes(n) >= Quorum
        /\ \A i \in (n + 1)..LastIndex : Votes(i) < Quorum
        /\ lstate' = [i \in 1..n |-> IF i <= commit THEN lstate[i]
                                     ELSE log[i - compactIndex]]
        /\ results' = results \cup Answered(n)
        /\ waiters' = waiters \ Answered(n)
        /\ CompactLocked(n)
    /\ UNCHANGED <<match, stopped, panicked, proposer, streamVars,
                   followerVars, budgetVars>>

\* Leader.Stop
Stop ==
    /\ MayStop
    /\ ~stopped
    /\ stopped' = TRUE
    /\ UNCHANGED <<leaderVars, wake, results, panicked, proposer,
                   streamVars, followerVars, budgetVars>>

-----------------------------------------------------------------------------
(* Node.AppendEntries and PeerManager.HandleStreamWithInitial: stream s of f *)

\* The stream is no longer the follower's: its end is gone or replaced.
Broken(f, s) == conn[f] # s

\* The handler reads the first ack, takes over peers[f] from any older stream
\* and starts the receiving and the pushing goroutine.
Accept(f, s) ==
    /\ srv[f][s] = "accept"
    /\ up[f][s] # <<>>
    /\ srv' = [srv EXCEPT ![f][s] = "serving"]
    /\ up' = [up EXCEPT ![f][s] = Tail(@)]
    /\ peers' = [peers EXCEPT ![f] = s]
    /\ rcv' = [rcv EXCEPT ![f][s] = "on"]
    /\ push' = [push EXCEPT ![f][s] = "catchup"]
    /\ last' = [last EXCEPT ![f][s] = Head(up[f][s])]
    /\ UNCHANGED <<leaderVars, signalVars, proposer, li, sub, down,
                   followerVars, budgetVars>>

\* The first Recv fails.
AcceptFail(f, s) ==
    /\ srv[f][s] = "accept"
    /\ Broken(f, s)
    /\ srv' = [srv EXCEPT ![f][s] = "ended"]
    /\ up' = [up EXCEPT ![f][s] = <<>>]
    /\ UNCHANGED <<leaderVars, signalVars, proposer, peers, rcv, push, last,
                   li, sub, down, followerVars, budgetVars>>

\* Mutant: the ack is recorded but commitLoop is not woken.
RecvAckSilent(f, s) ==
    /\ rcv[f][s] = "on"
    /\ up[f][s] # <<>>
    /\ up' = [up EXCEPT ![f][s] = Tail(@)]
    /\ match' = [match EXCEPT ![f] =
                    IF Head(up[f][s]) > @ THEN Head(up[f][s]) ELSE @]
    /\ UNCHANGED <<log, compactIndex, savedSnap, lstate, waiters, signalVars,
                   proposer, peers, srv, rcv, push, last, li, sub, down,
                   followerVars, budgetVars>>

\* Receiving goroutine: FollowerAck, then wake.  It may still read acks that
\* had arrived when the stream broke or the handler returned.
RecvAck(f, s) ==
    /\ rcv[f][s] = "on"
    /\ up[f][s] # <<>>
    /\ up' = [up EXCEPT ![f][s] = Tail(@)]
    /\ match' = [match EXCEPT ![f] =
                    IF Head(up[f][s]) > @ THEN Head(up[f][s]) ELSE @]
    /\ wake' = TRUE
    /\ UNCHANGED <<log, compactIndex, savedSnap, lstate, waiters, results,
                   stopped, panicked, proposer, peers, srv, rcv, push, last,
                   li, sub, down, followerVars, budgetVars>>

\* Receiving goroutine: Recv fails.
RecvErr(f, s) ==
    /\ rcv[f][s] = "on"
    /\ Broken(f, s) \/ srv[f][s] = "ended"
    /\ rcv' = [rcv EXCEPT ![f][s] = "off"]
    /\ up' = [up EXCEPT ![f][s] = <<>>]
    /\ UNCHANGED <<leaderVars, signalVars, proposer, peers, srv, push, last,
                   li, sub, down, followerVars, budgetVars>>

\* What reaches the follower's end of a stream: nothing once it is broken or
\* the handler has returned.
Sent(f, s, msgs) ==
    [down EXCEPT ![f][s] = IF Broken(f, s) \/ srv[f][s] = "ended" THEN @
                           ELSE @ \o msgs]

\* Pushing goroutine: sendCatchup(last).
PushCatchup(f, s) ==
    /\ push[f][s] = "catchup"
    /\ IF SliceOutOfRange(last[f][s])
       THEN /\ panicked' = TRUE
            /\ UNCHANGED <<push, down>>
       ELSE /\ down' = Sent(f, s, Catchup(last[f][s]))
            /\ push' = [push EXCEPT ![f][s] = "mark"]
            /\ UNCHANGED panicked
    /\ UNCHANGED <<leaderVars, wake, results, stopped, proposer,
                   peers, srv, rcv, last, li, sub, up, followerVars,
                   budgetVars>>

\* last = LastIndex(), read in a critical section of its own.
PushMark(f, s) ==
    /\ push[f][s] = "mark"
    /\ last' = [last EXCEPT ![f][s] = LastIndex]
    /\ push' = [push EXCEPT ![f][s] =
                    IF sub[f][s] = "none" THEN "subscribe" ELSE "check"]
    /\ UNCHANGED <<leaderVars, signalVars, proposer, peers, srv, rcv, li, sub,
                   down, up, followerVars, budgetVars>>

\* SubscribeEntries
PushSubscribe(f, s) ==
    /\ push[f][s] = "subscribe"
    /\ sub' = [sub EXCEPT ![f][s] = "idle"]
    /\ push' = [push EXCEPT ![f][s] = "wait"]
    /\ UNCHANGED <<leaderVars, signalVars, proposer, peers, srv, rcv, last,
                   li, down, up, followerVars, budgetVars>>

\* <-subCh
PushWake(f, s) ==
    /\ push[f][s] = "wait"
    /\ sub[f][s] = "signal"
    /\ sub' = [sub EXCEPT ![f][s] = "idle"]
    /\ push' = [push EXCEPT ![f][s] = "check"]
    /\ UNCHANGED <<leaderVars, signalVars, proposer, peers, srv, rcv, last,
                   li, down, up, followerVars, budgetVars>>

\* li := LastIndex(); there is nothing new: back to waiting ...
PushIdle(f, s) ==
    /\ push[f][s] = "check"
    /\ last[f][s] >= LastIndex
    /\ push' = [push EXCEPT ![f][s] = "wait"]
    /\ UNCHANGED <<leaderVars, signalVars, proposer, peers, srv, rcv, last,
                   li, sub, down, up, followerVars, budgetVars>>

\* ... or there is.
PushCheck(f, s) ==
    /\ push[f][s] = "check"
    /\ last[f][s] < LastIndex
    /\ push' = [push EXCEPT ![f][s] = "send"]
    /\ li' = [li EXCEPT ![f][s] = LastIndex]
    /\ UNCHANGED <<leaderVars, signalVars, proposer, peers, srv, rcv, last,
                   sub, down, up, followerVars, budgetVars>>

\* EntriesAfter(last) and the sends.  The entries are those of now, but last
\* advances to li only.
PushSend(f, s) ==
    /\ push[f][s] = "send"
    /\ last[f][s] >= compactIndex
    /\ IF SliceOutOfRange(last[f][s])
       THEN /\ panicked' = TRUE
            /\ UNCHANGED <<push, last, down>>
       ELSE /\ down' = Sent(f, s, EntriesAfter(last[f][s]))
            /\ last' = [last EXCEPT ![f][s] = li[f][s]]
            /\ push' = [push EXCEPT ![f][s] = "check"]
            /\ UNCHANGED panicked
    /\ li' = [li EXCEPT ![f][s] = 0]
    /\ UNCHANGED <<leaderVars, wake, results, stopped, proposer, peers, srv,
                   rcv, sub, up, followerVars, budgetVars>>

\* EntriesAfter reports that last is outside the window: sendCatchup again.
PushResync(f, s) ==
    /\ push[f][s] = "send"
    /\ last[f][s] < compactIndex
    /\ push' = [push EXCEPT ![f][s] = "catchup"]
    /\ li' = [li EXCEPT ![f][s] = 0]
    /\ UNCHANGED <<leaderVars, signalVars, proposer, peers, srv, rcv, last,
                   sub, down, up, followerVars, budgetVars>>

\* A send fails, or stopCh is closed where the goroutine selects on it (before
\* the first catch-up and between signals): it returns, UnsubscribeEntries
\* deferred.
PushExit(f, s) ==
    /\ \/ /\ \/ push[f][s] = "catchup" /\ Catchup(last[f][s]) # <<>>
             \/ push[f][s] = "send" /\ last[f][s] >= compactIndex
          /\ Broken(f, s) \/ srv[f][s] = "ended"
       \/ /\ stopped
          /\ \/ push[f][s] = "catchup" /\ sub[f][s] = "none"
             \/ push[f][s] = "wait"
    /\ push' = [push EXCEPT ![f][s] = "off"]
    /\ sub' = [sub EXCEPT ![f][s] = "none"]
    /\ last' = [last EXCEPT ![f][s] = 0]
    /\ li' = [li EXCEPT ![f][s] = 0]
    /\ UNCHANGED <<leaderVars, signalVars, proposer, peers, srv, rcv, down,
                   up, followerVars, budgetVars>>

\* recvDone, pushDone or stopCh.
HandlerDone(f, s) ==
    /\ srv[f][s] = "serving"
    /\ rcv[f][s] = "off" \/ push[f][s] = "off" \/ stopped

\* The deferred function: another stream has replaced this one, or ...
HandlerReplaced(f, s) ==
    /\ HandlerDone(f, s)
    /\ peers[f] # s
    /\ srv' = [srv EXCEPT ![f][s] = "ended"]
    /\ UNCHANGED <<leaderVars, signalVars, proposer, peers, rcv, push, last,
                   li, sub, down, up, followerVars, budgetVars>>

\* ... this one is still registered: delete it, ...
HandlerExit(f, s) ==
    /\ HandlerDone(f, s)
    /\ peers[f] = s
    /\ peers' = [peers EXCEPT ![f] = NoSlot]
    /\ srv' = [srv EXCEPT ![f][s] = "resetting"]
    /\ UNCHANGED <<leaderVars, signalVars, proposer, rcv, push, last, li, sub,
                   down, up, followerVars, budgetVars>>

\* Mutant: -1 marks a follower that is away.
HandlerResetUnknown(f, s) ==
    /\ srv[f][s] = "resetting"
    /\ match' = [match EXCEPT ![f] = -1]
    /\ wake' = TRUE
    /\ srv' = [srv EXCEPT ![f][s] = "ended"]
    /\ UNCHANGED <<log, compactIndex, savedSnap, lstate, waiters, results,
                   stopped, panicked, proposer, peers, rcv, push, last, li,
                   sub, down, up, followerVars, budgetVars>>

\* ... and, having released pm.mu, calls FollowerReset.
HandlerReset(f, s) ==
    /\ srv[f][s] = "resetting"
    /\ match' = [match EXCEPT ![f] = 0]
    /\ wake' = TRUE
    /\ srv' = [srv EXCEPT ![f][s] = "ended"]
    /\ UNCHANGED <<log, compactIndex, savedSnap, lstate, waiters, results,
                   stopped, panicked, proposer, peers, rcv, push, last, li,
                   sub, down, up, followerVars, budgetVars>>

-----------------------------------------------------------------------------
(* FollowerRunner.once and ApplyStream *)

\* A slot can carry a new stream once the old one's handler and receiver are
\* gone; a pusher left waiting for a signal has a dead stream to send on.
Free(f, s) ==
    /\ srv[f][s] = "ended"
    /\ rcv[f][s] = "off"
    /\ push[f][s] \in {"off", "wait"}

\* (Re)connect and report the applied index.
Connect(f, s) ==
    /\ conn[f] = NoSlot
    /\ Free(f, s)
    /\ conn' = [conn EXCEPT ![f] = s]
    /\ srv' = [srv EXCEPT ![f][s] = "accept"]
    /\ up' = [up EXCEPT ![f][s] = <<AppliedIndex(f)>>]
    /\ down' = [down EXCEPT ![f][s] = <<>>]
    /\ push' = [push EXCEPT ![f][s] = "off"]
    /\ sub' = [sub EXCEPT ![f][s] = "none"]
    /\ last' = [last EXCEPT ![f][s] = 0]
    /\ li' = [li EXCEPT ![f][s] = 0]
    /\ UNCHANGED <<leaderVars, signalVars, proposer, peers, rcv, fstate,
                   budgetVars>>

\* Mutant: whatever snapshot arrives is restored.
RestoredAlways(state, snap) == snap

\* Store.RestoreSnapshot: never towards an older revision.
Restored(state, snap) == IF Len(snap) < Len(state) THEN state ELSE snap

\* ApplySnapshot, then ack.
FollowerSnapshot(f, s) ==
    /\ conn[f] = s
    /\ down[f][s] # <<>>
    /\ Head(down[f][s]).type = "snapshot"
    /\ fstate' = [fstate EXCEPT ![f] = Restored(@, Head(down[f][s]).state)]
    /\ down' = [down EXCEPT ![f][s] = Tail(@)]
    /\ up' = [up EXCEPT ![f][s] = Append(@, Len(fstate'[f]))]
    /\ UNCHANGED <<leaderVars, signalVars, proposer, peers, srv, rcv, push,
                   last, li, sub, conn, budgetVars>>

\* An entry that was applied before is skipped without an ack, ...
FollowerSkip(f, s) ==
    /\ conn[f] = s
    /\ down[f][s] # <<>>
    /\ Head(down[f][s]).type = "entry"
    /\ Head(down[f][s]).index < AppliedIndex(f) + 1
    /\ down' = [down EXCEPT ![f][s] = Tail(@)]
    /\ UNCHANGED <<leaderVars, signalVars, proposer, peers, srv, rcv, push,
                   last, li, sub, up, followerVars, budgetVars>>

\* Mutant: an entry beyond the next one is applied too.
FollowerApplyAny(f, s) ==
    /\ conn[f] = s
    /\ down[f][s] # <<>>
    /\ Head(down[f][s]).type = "entry"
    /\ Head(down[f][s]).index >= AppliedIndex(f) + 1
    /\ fstate' = [fstate EXCEPT ![f] = Append(@, Head(down[f][s]).op)]
    /\ down' = [down EXCEPT ![f][s] = Tail(@)]
    /\ up' = [up EXCEPT ![f][s] = Append(@, Len(fstate'[f]))]
    /\ UNCHANGED <<leaderVars, signalVars, proposer, peers, srv, rcv, push,
                   last, li, sub, conn, budgetVars>>

\* ... the next entry is applied and acked, ...
FollowerApply(f, s) ==
    /\ conn[f] = s
    /\ down[f][s] # <<>>
    /\ Head(down[f][s]).type = "entry"
    /\ Head(down[f][s]).index = AppliedIndex(f) + 1
    /\ fstate' = [fstate EXCEPT ![f] = Append(@, Head(down[f][s]).op)]
    /\ down' = [down EXCEPT ![f][s] = Tail(@)]
    /\ up' = [up EXCEPT ![f][s] = Append(@, Len(fstate'[f]))]
    /\ UNCHANGED <<leaderVars, signalVars, proposer, peers, srv, rcv, push,
                   last, li, sub, conn, budgetVars>>

\* ... and a gap is a ProtocolError that ends the stream.
FollowerGap(f, s) ==
    /\ conn[f] = s
    /\ down[f][s] # <<>>
    /\ Head(down[f][s]).type = "entry"
    /\ Head(down[f][s]).index > AppliedIndex(f) + 1
    /\ conn' = [conn EXCEPT ![f] = NoSlot]
    /\ down' = [down EXCEPT ![f][s] = <<>>]
    /\ UNCHANGED <<leaderVars, signalVars, proposer, peers, srv, rcv, push,
                   last, li, sub, up, fstate, budgetVars>>

\* The handler has returned and everything it sent is read: io.EOF.
FollowerEOF(f, s) ==
    /\ conn[f] = s
    /\ srv[f][s] = "ended"
    /\ down[f][s] = <<>>
    /\ conn' = [conn EXCEPT ![f] = NoSlot]
    /\ UNCHANGED <<leaderVars, signalVars, proposer, streamVars, fstate,
                   budgetVars>>

-----------------------------------------------------------------------------
(* Failures *)

\* What f has not read of its stream is lost with it.
Dropped(f) ==
    IF conn[f] = NoSlot THEN down ELSE [down EXCEPT ![f][conn[f]] = <<>>]

\* The connection of f breaks.
StreamBreak(f) ==
    /\ conn[f] # NoSlot
    /\ breaks < MaxBreaks
    /\ breaks' = breaks + 1
    /\ conn' = [conn EXCEPT ![f] = NoSlot]
    /\ down' = Dropped(f)
    /\ UNCHANGED <<leaderVars, signalVars, proposer, peers, srv, rcv, push,
                   last, li, sub, up, fstate, restarts, timeouts>>

\* A follower process restarts: nothing is persisted.
FollowerRestart(f) ==
    /\ restarts < MaxRestarts
    /\ restarts' = restarts + 1
    /\ fstate' = [fstate EXCEPT ![f] = <<>>]
    /\ conn' = [conn EXCEPT ![f] = NoSlot]
    /\ down' = Dropped(f)
    /\ UNCHANGED <<leaderVars, signalVars, proposer, peers, srv, rcv, push,
                   last, li, sub, up, breaks, timeouts>>

\* The leader process restarts: an empty log, and every stream is gone.
LeaderRestart ==
    /\ restarts < MaxRestarts
    /\ restarts' = restarts + 1
    /\ log' = <<>>
    /\ compactIndex' = 0
    /\ savedSnap' = <<>>
    /\ lstate' = <<>>
    /\ match' = [f \in Followers |-> 0]
    /\ waiters' = {}
    /\ wake' = FALSE
    /\ results' = {}
    /\ stopped' = FALSE
    /\ proposer' = [i \in 1..MaxIndex |-> "none"]
    /\ peers' = [f \in Followers |-> NoSlot]
    /\ srv' = [f \in Followers |-> [s \in Slots |-> "ended"]]
    /\ rcv' = [f \in Followers |-> [s \in Slots |-> "off"]]
    /\ push' = [f \in Followers |-> [s \in Slots |-> "off"]]
    /\ last' = [f \in Followers |-> [s \in Slots |-> 0]]
    /\ li' = [f \in Followers |-> [s \in Slots |-> 0]]
    /\ sub' = [f \in Followers |-> [s \in Slots |-> "none"]]
    /\ down' = [f \in Followers |-> [s \in Slots |-> <<>>]]
    /\ up' = [f \in Followers |-> [s \in Slots |-> <<>>]]
    /\ conn' = [f \in Followers |-> NoSlot]
    /\ UNCHANGED <<panicked, fstate, breaks, timeouts>>

-----------------------------------------------------------------------------
(* The specification *)

Propose ==
    \/ \E op \in Ops : ProposeAppend(op)
    \/ \E i \in 1..MaxIndex :
        ProposeNotify(i) \/ ProposeReply(i) \/ ProposeTimeout(i)
            \/ ProposeStopped(i)

Pusher(f, s) ==
    \/ PushCatchup(f, s) \/ PushMark(f, s) \/ PushSubscribe(f, s)
    \/ PushWake(f, s) \/ PushIdle(f, s) \/ PushCheck(f, s)
    \/ PushSend(f, s) \/ PushResync(f, s) \/ PushExit(f, s)

Receiver(f, s) == RecvAck(f, s) \/ RecvErr(f, s)

Handler(f, s) ==
    \/ Accept(f, s) \/ AcceptFail(f, s)
    \/ HandlerReplaced(f, s) \/ HandlerExit(f, s) \/ HandlerReset(f, s)

ApplyStream(f, s) ==
    \/ FollowerSnapshot(f, s) \/ FollowerSkip(f, s) \/ FollowerApply(f, s)
    \/ FollowerGap(f, s) \/ FollowerEOF(f, s)

StreamStep(f, s) ==
    \/ Pusher(f, s) \/ Receiver(f, s) \/ Handler(f, s)
    \/ Connect(f, s) \/ ApplyStream(f, s)

\* Processes run on; streams break and are rebuilt.
Next ==
    /\ ~panicked
    /\ \/ Propose
       \/ Commit
       \/ Stop
       \/ \E f \in Followers : StreamBreak(f)
       \/ \E f \in Followers, s \in Slots : StreamStep(f, s)

\* The same with follower restarts, and with leader restarts too.
CrashNext ==
    \/ Next
    \/ ~panicked /\ \E f \in Followers : FollowerRestart(f)

LeaderCrashNext ==
    \/ CrashNext
    \/ ~panicked /\ LeaderRestart

Spec == Init /\ [][Next]_vars
CrashSpec == Init /\ [][CrashNext]_vars
LeaderCrashSpec == Init /\ [][LeaderCrashNext]_vars

\* Goroutines that can run do run, a follower keeps reconnecting (Run's loop)
\* and a broken stream is detected.  Nothing obliges clients to propose or to
\* give up, networks to fail, or the leader to be stopped.
Fairness ==
    /\ \A i \in 1..MaxIndex :
        WF_vars(~panicked /\ (ProposeNotify(i) \/ ProposeReply(i)))
    /\ WF_vars(~panicked /\ ~stopped /\ Commit)
    /\ \A f \in Followers :
        /\ WF_vars(~panicked /\ \E s \in Slots : Connect(f, s))
        /\ \A s \in Slots :
            /\ WF_vars(~panicked /\ Pusher(f, s))
            /\ WF_vars(~panicked /\ Receiver(f, s))
            /\ WF_vars(~panicked /\ Handler(f, s))
            /\ WF_vars(~panicked /\ ApplyStream(f, s))

FairSpec == Spec /\ Fairness

-----------------------------------------------------------------------------
(* Safety *)

\* Everything the leader has appended: applied entries, then pending ones.
History ==
    [i \in 1..LastIndex |-> IF i <= commit THEN lstate[i]
                            ELSE log[i - compactIndex]]

\* Whatever mixture of snapshots, replayed windows and live entries a
\* follower was sent, over however many overlapping streams, it has applied
\* exactly the leader's log up to its applied index (ApplyStream).
LogMatching == \A f \in Followers : IsPrefix(fstate[f], History)

\* A committed entry is applied, with the same content, by a majority, the
\* leader included: acks, resets and late acks never let commitLoop count a
\* follower that does not hold the entry.
CommittedOnQuorum ==
    \A i \in 1..commit :
        1 + Cardinality({f \in Followers : /\ AppliedIndex(f) >= i
                                           /\ fstate[f][i] = lstate[i]})
            >= Quorum

\* The window and its snapshot fit together: what compactLocked cuts off is
\* committed, what it keeps begins right after the snapshot.
WindowConsistent ==
    /\ compactIndex <= commit
    /\ commit <= LastIndex
    /\ savedSnap = SubSeq(lstate, 1, compactIndex)
    /\ \A i \in (compactIndex + 1)..commit : log[i - compactIndex] = lstate[i]

\* No stream's "sent up to" variable leaves the leader's log, so neither
\* Catchup nor EntriesAfter slices out of range.
NoPanic == ~panicked

\* A caller that got a result got it for a committed index, and one that
\* still waits for a committed index has its result under way: commitLoop
\* answers every index it passes, whatever timeouts remove from waiters.
WaitersAnswered ==
    \A i \in 1..MaxIndex :
        /\ proposer[i] = "ok" => i <= commit
        /\ proposer[i] \in {"appended", "waiting"} =>
            IF i <= commit THEN i \in results ELSE i \in waiters

\* A follower that does not restart never loses an applied entry: not to the
\* replay of a window, nor to a snapshot older than what it has applied.
NoRegress ==
    [][\A f \in Followers : IsPrefix(fstate[f], fstate'[f])]_vars

\* repl.go: reads return the state of some committed prefix, on every node.
ReadsCommitted ==
    \A f \in Followers : AppliedIndex(f) <= commit

-----------------------------------------------------------------------------
(* Refinement *)

Replies ==
    [i \in 1..MaxIndex |->
        CASE proposer[i] = "ok" -> "ok"
          [] proposer[i] \in {"timeout", "stopped"} -> "unknown"
          [] OTHER -> "none"]

Abstract == INSTANCE ReplicatedLog WITH
    Replicas <- Followers, hist <- History, committed <- commit,
    copy <- fstate, reply <- Replies

\* As long as no process restarts, compaction, snapshots, overlapping streams
\* and broken connections are invisible: the leader, its streams and its
\* followers implement one growing log with prefix copies, majority commit
\* and answers for committed entries only (repl.go:1-9).
ImplementsLog == Abstract!LogSpec

-----------------------------------------------------------------------------
(* The inductive invariants behind LogMatching and CommittedOnQuorum *)

\* m carries a part of the history h.
Genuine(m, h) ==
    \/ /\ m.type = "entry"
       /\ m.index \in 1..Len(h)
       /\ m.op = h[m.index]
    \/ /\ m.type = "snapshot"
       /\ IsPrefix(m.state, h)

MessagesGenuine ==
    \A f \in Followers, s \in Slots :
        \A k \in 1..Len(down[f][s]) : Genuine(down[f][s][k], History)

\* The positions the leader keeps for a stream are positions of its log.
PositionsInLog ==
    \A f \in Followers, s \in Slots :
        /\ last[f][s] <= LastIndex
        /\ li[f][s] <= LastIndex
        /\ \A k \in 1..Len(up[f][s]) : up[f][s][k] <= LastIndex

HistoryInv ==
    /\ TypeOK
    /\ WindowConsistent
    /\ MessagesGenuine
    /\ LogMatching
    /\ PositionsInLog
    /\ NoPanic

\* As long as followers do not restart, what they have acked they hold.
AcksHeld ==
    \A f \in Followers :
        /\ match[f] <= AppliedIndex(f)
        /\ \A s \in Slots :
            \A k \in 1..Len(up[f][s]) : up[f][s][k] <= AppliedIndex(f)

-----------------------------------------------------------------------------
(* Liveness *)

\* No lost wake-up: whatever a majority has acked, commitLoop commits, unless
\* the majority is lost again or the leader stopped (wakeCh holds one signal,
\* wake() drops the others).  So again and again nothing is left to commit.
AckedEntriesCommit ==
    []<>(stopped \/ \A i \in (commit + 1)..LastIndex : Votes(i) < Quorum)

\* DESIGN.md: after catching up, a connected follower is pushed every new
\* entry at once; so with a stream that stays up it reaches the log's end.
CaughtUp ==
    \A f \in Followers, s \in Slots :
        <>[](conn[f] = s /\ ~stopped) => <>[](AppliedIndex(f) = LastIndex)

=============================================================================

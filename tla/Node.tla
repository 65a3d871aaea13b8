-------------------------------- MODULE Node --------------------------------
(***************************************************************************)
(* The life of distconf's node processes: serve (cmd/distconf/main.go),    *)
(* Start and Stop (internal/server/node.go), and the goroutines they start *)
(* and wait for: the sweeper's loop (internal/sweeper), the commit loop    *)
(* (internal/repl/leader.go), the follower's replication loop              *)
(* (internal/repl/follower.go) and the gRPC server with its handlers.      *)
(*                                                                         *)
(* A log is its length and a store the index it has applied; what entries  *)
(* say is in KVStore and Registry, how streams catch up in Replication.    *)
(***************************************************************************)
EXTENDS Integers, FiniteSets

CONSTANTS
    Nodes, Leader,
    Calls,       \* write RPCs
    Streams,     \* Watch and WatchInstances calls of the SDK
    NoNode,      \* the endpoint of a stream that is not connected
    MaxSweeps    \* bound: entries the sweeper proposes

ASSUME NodeAssumption ==
    /\ IsFiniteSet(Nodes)
    /\ Leader \in Nodes
    /\ NoNode \notin Nodes
    /\ MaxSweeps \in Nat

Followers == Nodes \ {Leader}
Quorum == Cardinality(Nodes) \div 2 + 1

VARIABLES
    proc,      \* proc[n]: where the main goroutine of n is, in Stop above all
    sweeper,   \* the sweeper's loop: its pc, the index it waits for
    sweeps,    \* entries it has proposed
    stopped,   \* Leader.stopped, with stopCh closed
    commitLoop,
    log,       \* the length of the leader's log
    applied,   \* applied[n]: the index n's store has applied
    match,     \* match[f]: what the leader knows f to have
    runner,    \* runner[f]: the follower's replication loop
    peer,      \* the followers whose AppendEntries handler runs
    call,      \* call[c]: a write's handler: its pc and index
    at,        \* at[s]: the node whose handler serves the stream s
    sdk        \* sdk[s]: the caller's side of s

leaderVars == <<sweeper, sweeps, stopped, commitLoop, log, match>>
vars == <<proc, leaderVars, applied, runner, peer, call, at, sdk>>

\* Stop, in its order.
StopSteps == {"cancel", "sweeper", "leader", "drain", "wait", "stopped"}
Stopping(n) == proc[n] \in StopSteps
\* The gRPC server accepts calls until GracefulStop.
Serving(n) == proc[n] \in {"up", "cancel", "sweeper", "leader"}

TypeOK ==
    /\ proc \in [Nodes -> StopSteps \cup {"down", "failed", "up", "killed"}]
    /\ sweeper \in [pc : {"off", "idle", "propose", "done"}, index : 0..log,
                    stop : BOOLEAN]
    /\ sweeps \in 0..MaxSweeps
    /\ stopped \in BOOLEAN
    /\ commitLoop \in {"off", "on", "done"}
    /\ log \in Nat
    /\ applied \in [Nodes -> 0..log]
    /\ match \in [Followers -> 0..log]
    /\ runner \in [Followers -> {"off", "retry", "refused", "stream", "done"}]
    /\ peer \subseteq Followers
    /\ call \in [Calls -> [pc : {"new", "checked", "wait", "ok", "error"},
                           index : 0..log]]
    /\ at \in [Streams -> Nodes \cup {NoNode}]
    /\ sdk \in [Streams -> {"open", "closed", "gone"}]

NewSweeper == [pc |-> "off", index |-> 0, stop |-> FALSE]

Init ==
    /\ proc = [n \in Nodes |-> "down"]
    /\ sweeper = NewSweeper /\ sweeps = 0
    /\ stopped = FALSE /\ commitLoop = "off"
    /\ log = 0 /\ applied = [n \in Nodes |-> 0]
    /\ match = [f \in Followers |-> 0]
    /\ runner = [f \in Followers |-> "off"] /\ peer = {}
    /\ call = [c \in Calls |-> [pc |-> "new", index |-> 0]]
    /\ at = [s \in Streams |-> NoNode]
    /\ sdk = [s \in Streams |-> "open"]

-----------------------------------------------------------------------------
(* Start and Stop *)

\* A follower's replication token is the leader's, or every attempt of its
\* loop is refused.
Admission == {"retry", "refused"}

\* NewNode and Start: the leader gets its commit loop and sweeper, a follower
\* its replication loop, both the server.
Start(n) ==
    /\ proc[n] = "down"
    /\ proc' = [proc EXCEPT ![n] = "up"]
    /\ IF n = Leader
       THEN /\ commitLoop' = "on"
            /\ sweeper' = [sweeper EXCEPT !.pc = "idle"]
            /\ UNCHANGED runner
       ELSE /\ \E a \in Admission : runner' = [runner EXCEPT ![n] = a]
            /\ UNCHANGED <<commitLoop, sweeper>>
    /\ UNCHANGED <<sweeps, stopped, log, applied, match, peer, call, at, sdk>>

\* A bad configuration or a port in use: serve returns the error.
StartFails(n) ==
    /\ proc[n] = "down"
    /\ proc' = [proc EXCEPT ![n] = "failed"]
    /\ UNCHANGED <<leaderVars, applied, runner, peer, call, at, sdk>>

\* SIGTERM: the root context is cancelled and serve calls Stop.
Signal(n) ==
    /\ proc[n] = "up"
    /\ proc' = [proc EXCEPT ![n] = IF n = Leader THEN "cancel" ELSE "leader"]
    /\ UNCHANGED <<leaderVars, applied, runner, peer, call, at, sdk>>

\* Sweeper.Stop: ask, then wait for its loop to have ended.
StopSweeper ==
    /\ proc[Leader] = "cancel"
    /\ proc' = [proc EXCEPT ![Leader] = "sweeper"]
    /\ sweeper' = [sweeper EXCEPT !.stop = TRUE]
    /\ UNCHANGED <<sweeps, stopped, commitLoop, log, match, applied, runner,
                   peer, call, at, sdk>>

\* Mutant: the streams are drained before the leader is stopped.
StopLeaderLate ==
    /\ proc[Leader] = "sweeper"
    /\ sweeper.pc = "done"
    /\ proc' = [proc EXCEPT ![Leader] = "leader"]
    /\ UNCHANGED <<leaderVars, applied, runner, peer, call, at, sdk>>

\* Leader.Stop: nobody waits for the commit loop.
StopLeader ==
    /\ proc[Leader] = "sweeper"
    /\ sweeper.pc = "done"
    /\ proc' = [proc EXCEPT ![Leader] = "leader"]
    /\ stopped' = TRUE
    /\ UNCHANGED <<sweeper, sweeps, commitLoop, log, match, applied, runner,
                   peer, call, at, sdk>>

Drain(n) ==
    /\ proc[n] = "leader"
    /\ proc' = [proc EXCEPT ![n] = "drain"]
    /\ UNCHANGED <<leaderVars, applied, runner, peer, call, at, sdk>>

CallsOn(n) == {c \in Calls : n = Leader /\ call[c].pc \in {"checked", "wait"}}
StreamsOn(n) == {s \in Streams : at[s] = n}
PeersOn(n) == IF n = Leader THEN peer ELSE {}
Handlers(n) == CallsOn(n) \cup StreamsOn(n) \cup PeersOn(n)

\* Mutant: the server is stopped without waiting for its handlers.
DrainedAtOnce(n) ==
    /\ proc[n] = "drain"
    /\ proc' = [proc EXCEPT ![n] = "wait"]
    /\ UNCHANGED <<leaderVars, applied, runner, peer, call, at, sdk>>

\* GracefulStop returns when every handler has.
Drained(n) ==
    /\ proc[n] = "drain"
    /\ Handlers(n) = {}
    /\ proc' = [proc EXCEPT ![n] = "wait"]
    /\ UNCHANGED <<leaderVars, applied, runner, peer, call, at, sdk>>

\* Mutant: Stop returns without wg.Wait.
WaitedNot(n) ==
    /\ proc[n] = "wait"
    /\ proc' = [proc EXCEPT ![n] = "stopped"]
    /\ UNCHANGED <<leaderVars, applied, runner, peer, call, at, sdk>>

\* wg.Wait: the replication loop and Serve have returned.
Waited(n) ==
    /\ proc[n] = "wait"
    /\ n \in Followers => runner[n] = "done"
    /\ proc' = [proc EXCEPT ![n] = "stopped"]
    /\ UNCHANGED <<leaderVars, applied, runner, peer, call, at, sdk>>

\* SIGKILL: everything of the process is gone and its peers see it.
Kill(n) ==
    /\ proc[n] \in {"up"} \cup (StopSteps \ {"stopped"})
    /\ proc' = [proc EXCEPT ![n] = "killed"]
    /\ at' = [s \in Streams |-> IF at[s] = n THEN NoNode ELSE at[s]]
    /\ call' = [c \in Calls |-> IF c \in CallsOn(n)
                                THEN [call[c] EXCEPT !.pc = "error"] ELSE call[c]]
    /\ peer' = IF n = Leader THEN {} ELSE peer \ {n}
    /\ match' = [f \in Followers |-> IF n \in {f, Leader} THEN 0 ELSE match[f]]
    /\ commitLoop' = IF n = Leader THEN "done" ELSE commitLoop
    /\ sweeper' = IF n = Leader THEN [sweeper EXCEPT !.pc = "done"] ELSE sweeper
    /\ runner' = IF n \in Followers THEN [runner EXCEPT ![n] = "done"] ELSE runner
    /\ UNCHANGED <<sweeps, stopped, log, applied, sdk>>

-----------------------------------------------------------------------------
(* The leader's goroutines *)

SweepTick ==
    /\ sweeper.pc = "idle"
    /\ sweeps < MaxSweeps
    /\ sweeps' = sweeps + 1
    /\ IF stopped THEN UNCHANGED <<sweeper, log>>
       ELSE /\ log' = log + 1
            /\ sweeper' = [sweeper EXCEPT !.pc = "propose", !.index = log + 1]
    /\ UNCHANGED <<proc, stopped, commitLoop, match, applied, runner, peer,
                   call, at, sdk>>

\* The entry is applied, the proposal times out or the leader is stopped; the
\* loop goes on in each case.
SweepReturns ==
    /\ sweeper.pc = "propose"
    /\ sweeper' = [sweeper EXCEPT !.pc = "idle", !.index = 0]
    /\ UNCHANGED <<proc, sweeps, stopped, commitLoop, log, match, applied,
                   runner, peer, call, at, sdk>>

SweeperExits ==
    /\ sweeper.pc = "idle"
    /\ sweeper.stop
    /\ sweeper' = [sweeper EXCEPT !.pc = "done"]
    /\ UNCHANGED <<proc, sweeps, stopped, commitLoop, log, match, applied,
                   runner, peer, call, at, sdk>>

\* One round of the commit loop; with stopCh closed, a wake-up that is also
\* there may still win.
Commit ==
    /\ commitLoop = "on"
    /\ \E i \in applied[Leader] + 1 .. log :
          /\ Cardinality({f \in Followers : match[f] >= i}) + 1 >= Quorum
          /\ applied' = [applied EXCEPT ![Leader] = i]
    /\ UNCHANGED <<proc, leaderVars, runner, peer, call, at, sdk>>

CommitLoopExits ==
    /\ commitLoop = "on"
    /\ stopped
    /\ commitLoop' = "done"
    /\ UNCHANGED <<proc, sweeper, sweeps, stopped, log, match, applied, runner,
                   peer, call, at, sdk>>

\* Propose checks the flag, and only then takes the lock and appends.
PutArrives(c) ==
    /\ call[c].pc = "new"
    /\ Serving(Leader)
    /\ call' = [call EXCEPT ![c].pc = IF stopped THEN "error" ELSE "checked"]
    /\ UNCHANGED <<proc, leaderVars, applied, runner, peer, at, sdk>>

\* Mutant: the index is computed after the entry has been appended.
PutAppendsOff(c) ==
    /\ call[c].pc = "checked"
    /\ log' = log + 1
    /\ call' = [call EXCEPT ![c] = [pc |-> "wait", index |-> log + 2]]
    /\ UNCHANGED <<proc, sweeper, sweeps, stopped, commitLoop, match, applied,
                   runner, peer, at, sdk>>

PutAppends(c) ==
    /\ call[c].pc = "checked"
    /\ log' = log + 1
    /\ call' = [call EXCEPT ![c] = [pc |-> "wait", index |-> log + 1]]
    /\ UNCHANGED <<proc, sweeper, sweeps, stopped, commitLoop, match, applied,
                   runner, peer, at, sdk>>

PutReturns(c) ==
    /\ call[c].pc = "wait"
    /\ \/ /\ applied[Leader] >= call[c].index
          /\ call' = [call EXCEPT ![c].pc = "ok"]
       \/ call' = [call EXCEPT ![c].pc = "error"]   \* stopCh, or its deadline
    /\ UNCHANGED <<proc, leaderVars, applied, runner, peer, at, sdk>>

-----------------------------------------------------------------------------
(* Replication streams *)

\* The loop dials the leader, whose handler reads the first ack.
Connect(f) ==
    /\ runner[f] = "retry"
    /\ ~Stopping(f)
    /\ Serving(Leader)
    /\ runner' = [runner EXCEPT ![f] = "stream"]
    /\ peer' = peer \cup {f}
    /\ UNCHANGED <<proc, leaderVars, applied, call, at, sdk>>

Replicate(f) ==
    /\ runner[f] = "stream" /\ f \in peer
    /\ applied[f] < log
    /\ applied' = [applied EXCEPT ![f] = @ + 1]
    /\ match' = [match EXCEPT ![f] = applied[f] + 1]
    /\ UNCHANGED <<proc, sweeper, sweeps, stopped, commitLoop, log, runner,
                   peer, call, at, sdk>>

\* HandleStreamWithInitial returns when the leader is stopped, or the follower
\* has left; FollowerReset follows.
PeerReturns(f) ==
    /\ f \in peer
    /\ stopped \/ runner[f] # "stream"
    /\ peer' = peer \ {f}
    /\ match' = [match EXCEPT ![f] = 0]
    /\ UNCHANGED <<proc, sweeper, sweeps, stopped, commitLoop, log, applied,
                   runner, call, at, sdk>>

StreamLost(f) ==
    /\ runner[f] = "stream" /\ f \notin peer
    /\ runner' = [runner EXCEPT ![f] = "retry"]
    /\ UNCHANGED <<proc, leaderVars, applied, peer, call, at, sdk>>

\* The cancelled context ends the stream and the loop.
RunnerExits(f) ==
    /\ runner[f] \in {"retry", "refused", "stream"}
    /\ Stopping(f)
    /\ runner' = [runner EXCEPT ![f] = "done"]
    /\ UNCHANGED <<proc, leaderVars, applied, peer, call, at, sdk>>

-----------------------------------------------------------------------------
(* The SDK's watchers *)

Open(s, n) ==
    /\ sdk[s] = "open"
    /\ at[s] = NoNode
    /\ Serving(n)
    /\ at' = [at EXCEPT ![s] = n]
    /\ UNCHANGED <<proc, leaderVars, applied, runner, peer, call, sdk>>

\* Watcher.Close ends the goroutine at its next event or error; the stream,
\* whose context lives on, stays with the server.
Close(s) ==
    /\ sdk[s] = "open"
    /\ sdk' = [sdk EXCEPT ![s] = "closed"]
    /\ UNCHANGED <<proc, leaderVars, applied, runner, peer, call, at>>

\* The caller's context is cancelled or its Client closed.
Leave(s) ==
    /\ sdk[s] # "gone"
    /\ sdk' = [sdk EXCEPT ![s] = "gone"]
    /\ at' = [at EXCEPT ![s] = NoNode]
    /\ UNCHANGED <<proc, leaderVars, applied, runner, peer, call>>

-----------------------------------------------------------------------------
StopStep(n) ==
    \/ n = Leader /\ (StopSweeper \/ StopLeader)
    \/ Drain(n) \/ Drained(n) \/ Waited(n)

SweeperStep == SweepReturns \/ SweeperExits
CallStep(c) == PutAppends(c) \/ PutReturns(c)
FollowerStep(f) == Connect(f) \/ Replicate(f) \/ StreamLost(f) \/ RunnerExits(f)

Next ==
    \/ \E n \in Nodes : Start(n) \/ StartFails(n) \/ Signal(n) \/ Kill(n)
    \/ \E n \in Nodes : StopStep(n)
    \/ SweepTick \/ SweeperStep \/ Commit \/ CommitLoopExits
    \/ \E c \in Calls : PutArrives(c) \/ CallStep(c)
    \/ \E f \in Followers : FollowerStep(f) \/ PeerReturns(f)
    \/ \E s \in Streams : Close(s) \/ Leave(s) \/ \E n \in Nodes : Open(s, n)

\* Goroutines run; a proposal has its timeout.  Nothing is assumed of the
\* clients and their streams.
Spec ==
    /\ Init /\ [][Next]_vars
    /\ \A n \in Nodes : WF_vars(StopStep(n))
    /\ WF_vars(SweeperStep) /\ SF_vars(SweeperExits)
    /\ WF_vars(CommitLoopExits)
    /\ \A c \in Calls : WF_vars(CallStep(c))
    /\ \A f \in Followers :
          WF_vars(FollowerStep(f)) /\ WF_vars(RunnerExits(f))
          /\ WF_vars(PeerReturns(f))

-----------------------------------------------------------------------------
(* Properties *)

\* Stop returns only when no handler, no sweeper and no replication loop of
\* the node runs, whatever the order in which the nodes, the clients and
\* their calls end (node.go:157-173).  The commit loop is not waited for.
QuietWhenStopped ==
    \A n \in Nodes : proc[n] = "stopped" =>
        /\ Handlers(n) = {}
        /\ n = Leader => sweeper.pc = "done"
        /\ n \in Followers => runner[n] = "done"

\* A follower's store does not change once Stop has returned there
\* (node.go:173): what is read from Store() then is final.
FollowerFrozen ==
    [][\A f \in Followers :
          proc[f] = "stopped" => applied'[f] = applied[f]]_vars

\* If the clients' streams go away in the end, Stop returns: it waits neither
\* for a quorum nor for the other nodes (node.go:150-175).
StopReturns ==
    (<>[](\A s \in Streams : at[s] = NoNode)) =>
        \A n \in Nodes : Stopping(n) ~> (proc[n] \in {"stopped", "killed"})
=============================================================================

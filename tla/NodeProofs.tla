----------------------------- MODULE NodeProofs -----------------------------
(***************************************************************************)
(* Machine-checked proofs about Node, for any number of nodes, write calls *)
(* and streams and any number of sweeper proposals.                        *)
(***************************************************************************)
EXTENDS Node, TLAPS

USE NodeAssumption
USE DEF leaderVars

\* Every step of Start, Stop, the goroutines, the handlers and the clients
\* keeps the state well typed: no store runs ahead of the leader's log.
LEMMA TypeStep ==
    ASSUME TypeOK, [Next]_vars
    PROVE  TypeOK'
<1>1. ASSUME NEW n \in Nodes, Start(n) PROVE TypeOK'
    <2>1. CASE n = Leader
        BY <1>1, <2>1 DEF Start, TypeOK
    <2>2. CASE n # Leader
        <3>1. n \in Followers
            BY <2>2 DEF Followers
        <3> QED BY <1>1, <2>2, <3>1 DEF Start, Admission, TypeOK
    <2> QED BY <2>1, <2>2
<1>2. ASSUME NEW n \in Nodes, StartFails(n) PROVE TypeOK'
    BY <1>2 DEF StartFails, TypeOK
<1>3. ASSUME NEW n \in Nodes, Signal(n) PROVE TypeOK'
    BY <1>3 DEF Signal, TypeOK, StopSteps
<1>4. ASSUME NEW n \in Nodes, Kill(n) PROVE TypeOK'
    <2>1. match' \in [Followers -> 0..log]
        BY <1>4 DEF Kill, TypeOK
    <2>2. call' \in [Calls -> [pc : {"new", "checked", "wait", "ok", "error"},
                               index : 0..log]]
        BY <1>4 DEF Kill, TypeOK
    <2>3. /\ sweeper' \in [pc : {"off", "idle", "propose", "done"},
                           index : 0..log, stop : BOOLEAN]
          /\ runner' \in [Followers -> {"off", "retry", "refused", "stream", "done"}]
          /\ at' \in [Streams -> Nodes \cup {NoNode}]
          /\ peer' \subseteq Followers
        BY <1>4 DEF Kill, TypeOK
    <2> QED BY <1>4, <2>1, <2>2, <2>3 DEF Kill, TypeOK
<1>5. ASSUME NEW n \in Nodes, StopStep(n) PROVE TypeOK'
    BY <1>5 DEF StopStep, StopSweeper, StopLeader, Drain, Drained, Waited,
                TypeOK, StopSteps
<1>6. CASE SweepTick
    <2>1. CASE stopped
        BY <1>6, <2>1 DEF SweepTick, TypeOK
    <2>2. CASE ~stopped
        <3>1. \A i \in 0..log : i \in 0..log'
            BY <1>6, <2>2 DEF SweepTick, TypeOK
        <3>2. log' \in Nat /\ log' \in 0..log'
            BY <1>6, <2>2 DEF SweepTick, TypeOK
        <3>3. sweeper' = [sweeper EXCEPT !.pc = "propose", !.index = log']
            BY <1>6, <2>2 DEF SweepTick
        <3>4. sweeper' \in [pc : {"off", "idle", "propose", "done"},
                            index : 0..log', stop : BOOLEAN]
            BY <3>2, <3>3 DEF TypeOK
        <3> QED BY <1>6, <3>1, <3>2, <3>4 DEF SweepTick, TypeOK
    <2> QED BY <2>1, <2>2
<1>7. CASE SweeperStep
    <2>1. 0 \in 0..log
        BY DEF TypeOK
    <2>2. sweeper' \in [pc : {"off", "idle", "propose", "done"},
                        index : 0..log, stop : BOOLEAN]
        BY <1>7, <2>1 DEF SweeperStep, SweepReturns, SweeperExits, TypeOK
    <2> QED BY <1>7, <2>2 DEF SweeperStep, SweepReturns, SweeperExits, TypeOK
<1>8. CASE Commit
    BY <1>8 DEF Commit, TypeOK
<1>9. CASE CommitLoopExits
    BY <1>9 DEF CommitLoopExits, TypeOK
<1>10. ASSUME NEW c \in Calls, PutArrives(c) PROVE TypeOK'
    BY <1>10 DEF PutArrives, TypeOK
<1>11. ASSUME NEW c \in Calls, PutAppends(c) PROVE TypeOK'
    <2>1. \A i \in 0..log : i \in 0..log'
        BY <1>11 DEF PutAppends, TypeOK
    <2>2. /\ log' \in Nat
          /\ call' \in [Calls -> [pc : {"new", "checked", "wait", "ok", "error"},
                                  index : 0..log']]
        BY <1>11, <2>1 DEF PutAppends, TypeOK
    <2>3. sweeper' \in [pc : {"off", "idle", "propose", "done"},
                        index : 0..log', stop : BOOLEAN]
        BY <1>11, <2>1 DEF PutAppends, TypeOK
    <2> QED BY <1>11, <2>1, <2>2, <2>3 DEF PutAppends, TypeOK
<1>12. ASSUME NEW c \in Calls, PutReturns(c) PROVE TypeOK'
    BY <1>12 DEF PutReturns, TypeOK
<1>13. ASSUME NEW f \in Followers, FollowerStep(f) PROVE TypeOK'
    <2>1. CASE Replicate(f)
        <3>1. f \in Nodes /\ applied[f] + 1 \in 0..log
            BY <2>1 DEF Replicate, TypeOK, Followers
        <3> QED BY <2>1, <3>1 DEF Replicate, TypeOK
    <2>2. CASE Connect(f) \/ StreamLost(f) \/ RunnerExits(f)
        BY <2>2 DEF Connect, StreamLost, RunnerExits, TypeOK
    <2> QED BY <1>13, <2>1, <2>2 DEF FollowerStep
<1>14. ASSUME NEW f \in Followers, PeerReturns(f) PROVE TypeOK'
    BY <1>14 DEF PeerReturns, TypeOK
<1>15. ASSUME NEW s \in Streams, Close(s) \/ Leave(s) PROVE TypeOK'
    BY <1>15 DEF Close, Leave, TypeOK
<1>16. ASSUME NEW s \in Streams, NEW n \in Nodes, Open(s, n) PROVE TypeOK'
    BY <1>16 DEF Open, TypeOK
<1>17. CASE UNCHANGED vars
    BY <1>17 DEF vars, TypeOK
<1> QED
    BY <1>1, <1>2, <1>3, <1>4, <1>5, <1>6, <1>7, <1>8, <1>9, <1>10, <1>11,
       <1>12, <1>13, <1>14, <1>15, <1>16, <1>17 DEF Next, CallStep

\* Whatever starts, stops, is killed or called, the processes' state is well
\* typed (node.go, main.go, sweeper.go, leader.go, follower.go).
THEOREM TypeCorrect == Spec => []TypeOK
<1>1. Init => TypeOK
    <2> SUFFICES ASSUME Init PROVE TypeOK
        OBVIOUS
    <2>1. sweeper \in [pc : {"off", "idle", "propose", "done"},
                       index : 0..log, stop : BOOLEAN]
        BY DEF Init, NewSweeper
    <2>2. call \in [Calls -> [pc : {"new", "checked", "wait", "ok", "error"},
                              index : 0..log]]
        BY DEF Init
    <2>3. sweeps \in 0..MaxSweeps
        BY DEF Init
    <2>4. stopped \in BOOLEAN
        BY DEF Init
    <2>5. applied \in [Nodes -> 0..log]
        BY DEF Init
    <2>6. match \in [Followers -> 0..log]
        BY DEF Init
    <2> QED BY <2>1, <2>2, <2>3, <2>4, <2>5, <2>6 DEF Init, TypeOK
<1> QED BY <1>1, TypeStep, PTL DEF Spec

-----------------------------------------------------------------------------
(* What Stop has waited for stays gone: the facts its order establishes.   *)
StopOrder ==
    /\ proc[Leader] \in {"leader", "drain", "wait", "stopped"} =>
          sweeper.pc = "done"
    /\ \A n \in Nodes : proc[n] \in {"wait", "stopped"} => Handlers(n) = {}
    /\ \A f \in Followers : proc[f] = "stopped" => runner[f] = "done"

\* No step of a node, a peer or a client undoes what Stop has waited for: a
\* handler starts only where the server still accepts calls, and nothing
\* restarts the sweeper or a replication loop (node.go:157-173).
LEMMA StopOrderStep ==
    ASSUME TypeOK, StopOrder, [Next]_vars
    PROVE  StopOrder'
<1> USE DEF StopOrder, Handlers, CallsOn, StreamsOn, PeersOn
<1>1. ASSUME NEW n \in Nodes, Start(n) PROVE StopOrder'
    BY <1>1 DEF Start, TypeOK, Followers
<1>2. ASSUME NEW n \in Nodes, StartFails(n) PROVE StopOrder'
    BY <1>2 DEF StartFails, TypeOK, Followers
<1>3. ASSUME NEW n \in Nodes, Signal(n) PROVE StopOrder'
    BY <1>3 DEF Signal, TypeOK, Followers
<1>4. ASSUME NEW n \in Nodes, Kill(n) PROVE StopOrder'
    BY <1>4 DEF Kill, TypeOK, Followers
<1>5. ASSUME NEW n \in Nodes, StopStep(n) PROVE StopOrder'
    <2>1. CASE n = Leader /\ (StopSweeper \/ StopLeader)
        BY <2>1 DEF StopSweeper, StopLeader, TypeOK, Followers
    <2>2. CASE Drain(n)
        BY <2>2 DEF Drain, TypeOK, Followers
    <2>3. CASE Drained(n)
        BY <2>3 DEF Drained, TypeOK, Followers
    <2>4. CASE Waited(n)
        BY <2>4 DEF Waited, TypeOK, Followers
    <2> QED BY <1>5, <2>1, <2>2, <2>3, <2>4 DEF StopStep
<1>6. CASE SweepTick \/ SweeperStep
    BY <1>6 DEF SweepTick, SweeperStep, SweepReturns, SweeperExits, TypeOK
<1>7. CASE Commit \/ CommitLoopExits
    BY <1>7 DEF Commit, CommitLoopExits
<1>8. ASSUME NEW c \in Calls, PutArrives(c) PROVE StopOrder'
    BY <1>8 DEF PutArrives, Serving, TypeOK
<1>9. ASSUME NEW c \in Calls, CallStep(c) PROVE StopOrder'
    BY <1>9 DEF CallStep, PutAppends, PutReturns, TypeOK
<1>10. ASSUME NEW f \in Followers, FollowerStep(f) PROVE StopOrder'
    BY <1>10 DEF FollowerStep, Connect, Replicate, StreamLost, RunnerExits,
                 Serving, TypeOK, Followers
<1>11. ASSUME NEW f \in Followers, PeerReturns(f) PROVE StopOrder'
    BY <1>11 DEF PeerReturns, TypeOK
<1>12. ASSUME NEW s \in Streams, Close(s) \/ Leave(s) PROVE StopOrder'
    BY <1>12 DEF Close, Leave, TypeOK
<1>13. ASSUME NEW s \in Streams, NEW n \in Nodes, Open(s, n) PROVE StopOrder'
    BY <1>13 DEF Open, Serving, TypeOK
<1>14. CASE UNCHANGED vars
    BY <1>14 DEF vars
<1> QED
    BY <1>1, <1>2, <1>3, <1>4, <1>5, <1>6, <1>7, <1>8, <1>9, <1>10, <1>11,
       <1>12, <1>13, <1>14 DEF Next

\* The order of Stop (node.go:157-173) holds from the start of the processes.
LEMMA StopOrderInvariant == Spec => []StopOrder
<1>1. Init => StopOrder
    BY DEF Init, StopOrder, Followers
<1> QED BY <1>1, StopOrderStep, TypeCorrect, PTL DEF Spec

\* Once Stop has returned, no handler, sweeper or replication loop of the
\* node runs, for any number of nodes, calls and streams that come, end or
\* die around it (Node.Stop, node.go:150-175).
THEOREM QuietStop == Spec => []QuietWhenStopped
<1>1. StopOrder => QuietWhenStopped
    BY DEF StopOrder, QuietWhenStopped
<1> QED BY <1>1, StopOrderInvariant, PTL

\* A follower whose Stop has returned applies nothing more: what its Store()
\* says is final (node.go:173).
THEOREM FollowersFrozen == Spec => FollowerFrozen
<1>1. ASSUME TypeOK, StopOrder, [Next]_vars,
             NEW f \in Followers, proc[f] = "stopped"
      PROVE  applied'[f] = applied[f]
    <2>1. ASSUME NEW g \in Followers, Replicate(g) PROVE applied'[f] = applied[f]
        BY <1>1, <2>1 DEF Replicate, StopOrder, TypeOK, Followers
    <2>2. CASE Commit
        BY <1>1, <2>2 DEF Commit, TypeOK, Followers
    <2>3. CASE UNCHANGED vars
        BY <2>3 DEF vars
    <2>4. CASE Next /\ ~Commit /\ ~\E g \in Followers : Replicate(g)
        BY <2>4 DEF Next, Start, StartFails, Signal, Kill, StopStep,
            StopSweeper, StopLeader, Drain, Drained, Waited, SweepTick,
            SweeperStep, SweepReturns, SweeperExits, CommitLoopExits,
            PutArrives, CallStep, PutAppends, PutReturns, FollowerStep,
            Connect, StreamLost, RunnerExits, PeerReturns, Close, Leave, Open
    <2> QED BY <1>1, <2>1, <2>2, <2>3, <2>4
<1>2. TypeOK /\ StopOrder /\ [Next]_vars =>
        [\A f \in Followers :
            proc[f] = "stopped" => applied'[f] = applied[f]]_vars
    BY <1>1
<1> QED
    BY <1>2, TypeCorrect, StopOrderInvariant, PTL DEF Spec, FollowerFrozen
=============================================================================

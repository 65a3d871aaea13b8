--------------------------- MODULE RegistryProofs ---------------------------
(***************************************************************************)
(* Machine-checked proofs about Registry, for any processes that register  *)
(* the instance, any lease and buffer length and any budget of failures.   *)
(***************************************************************************)
EXTENDS Registry, SequenceTheorems, TLAPS

USE RegistryAssumption
USE DEF storeVars

-----------------------------------------------------------------------------
(* Type correctness                                                        *)

PendingOps == [type : {"register", "heartbeat", "expire"}, owner : Owners,
               guard : 0..rev, expireAt : Nat]
Insts == [owner : Owners, revision : 0..rev, expireAt : Nat]
Sweeps == [pc : {"idle", "scanned", "waiting"}, guard : 0..rev,
           index : 0..LastIndex]
Leases == [pc : LeaseStates, attempt : 0..1, index : 0..LastIndex,
           guard : 0..rev, answer : {"none", "ok", "gone"}, expireAt : Nat,
           beats : 0..MaxBeats, stop : BOOLEAN]
Watches == [pc : {"new", "snapshot", "loop"}, snapshot : Owners,
            ch : Seq(Owners), open : BOOLEAN, lapsed : BOOLEAN]
Requests == [type : {"register", "beat", "heartbeat"}, owner : Owners,
             guard : 0..rev, expireAt : Nat]
Strays == [client : Procs, fault : 0..MaxFaults, request : Requests]

\* TypeOK, with what its parts owe each other: a registration names an owner,
\* and the subscription has all its fields.
Typed ==
    /\ now \in Nat /\ rev \in Nat
    /\ pending \in Seq(PendingOps)
    /\ \A i \in 1..Len(pending) :
          pending[i].type = "register" => pending[i].owner # {}
    /\ inst \in Insts
    /\ Exists(inst) <=> inst.owner # {}
    /\ sweep \in Sweeps
    /\ lease \in [Procs -> Leases]
    /\ watch \in Watches /\ Len(watch.ch) <= WatcherBuffer
    /\ view \in Owners
    /\ faults \in 0..MaxFaults

\* The requests that were given up, and whose handlers still run.
StrayTyped == stray \subseteq Strays

\* A larger set of elements has the larger set of sequences.
LEMMA SeqMono ==
    ASSUME NEW S, NEW T, S \subseteq T, NEW s \in Seq(S)
    PROVE  s \in Seq(T)
<1>1. Len(s) \in Nat /\ s = [i \in 1..Len(s) |-> s[i]]
    OBVIOUS
<1>2. \A i \in 1..Len(s) : s[i] \in T
    OBVIOUS
<1> QED BY <1>1, <1>2, IsASeq

\* With the log and the index where they were, so are the types.
LEMMA SameStore ==
    ASSUME UNCHANGED storeVars
    PROVE  /\ PendingOps' = PendingOps /\ Insts' = Insts
           /\ Sweeps' = Sweeps /\ Leases' = Leases
           /\ LastIndex' = LastIndex /\ Exists(inst)' = Exists(inst)
BY DEF PendingOps, Insts, Sweeps, Leases, LastIndex, Exists

\* A proposal puts one entry at the end of the log.
LEMMA ProposeType ==
    ASSUME Typed, NEW op \in PendingOps,
           op.type = "register" => op.owner # {}, Propose(op)
    PROVE  /\ pending' \in Seq(PendingOps')
           /\ Len(pending) \in Nat /\ Len(pending') = Len(pending) + 1
           /\ pending'[Len(pending) + 1] = op
           /\ \A i \in 1..Len(pending) : pending'[i] = pending[i]
           /\ \A i \in 1..Len(pending') :
                 pending'[i].type = "register" => pending'[i].owner # {}
           /\ LastIndex \in Nat /\ LastIndex' = LastIndex + 1
           /\ Insts' = Insts /\ Exists(inst)' = Exists(inst)
           /\ Sweeps \subseteq Sweeps' /\ Leases \subseteq Leases'
<1>1. pending' = Append(pending, op) /\ rev' = rev /\ inst' = inst
    BY DEF Propose
<1>2. PendingOps' = PendingOps /\ Insts' = Insts /\ Exists(inst)' = Exists(inst)
    BY <1>1 DEF PendingOps, Insts, Exists
<1>3. pending \in Seq(PendingOps) /\ rev \in Nat
    BY DEF Typed
<1>4. /\ pending' \in Seq(PendingOps)
      /\ Len(pending) \in Nat /\ Len(pending') = Len(pending) + 1
      /\ pending'[Len(pending) + 1] = op
      /\ \A i \in 1..Len(pending) : pending'[i] = pending[i]
    BY <1>1, <1>3
<1>5. LastIndex \in Nat /\ LastIndex' = LastIndex + 1
    BY <1>1, <1>3, <1>4 DEF LastIndex
<1>6. \A i \in 0..LastIndex : i \in 0..LastIndex'
    BY <1>5
<1>7. Sweeps \subseteq Sweeps' /\ Leases \subseteq Leases'
    BY <1>1, <1>6 DEF Sweeps, Leases
<1>8. \A i \in 1..Len(pending') :
        pending'[i].type = "register" => pending'[i].owner # {}
    BY <1>4 DEF Typed
<1> QED BY <1>2, <1>4, <1>5, <1>7, <1>8

\* KeepAlive goes to another of its points.
LEMMA GotoType ==
    ASSUME Typed, NEW p \in Procs, NEW pc \in LeaseStates, NEW a \in 0..1,
           NEW i \in 0..LastIndex', rev' = rev, Leases \subseteq Leases',
           Goto(p, pc, a, i)
    PROVE  lease' \in [Procs -> Leases']
<1>1. lease \in [Procs -> Leases] /\ rev \in Nat
    BY DEF Typed
<1>2. ASSUME NEW x \in Leases
      PROVE  [x EXCEPT !.pc = pc, !.attempt = a, !.index = i, !.answer = "none",
                       !.guard = 0, !.expireAt = 0] \in Leases'
    <2>1. PICK y : y = [x EXCEPT !.pc = pc, !.attempt = a, !.index = i]
        OBVIOUS
    <2>2. y \in Leases'
        <3>1. x \in Leases'
            OBVIOUS
        <3> QED BY <2>1, <3>1 DEF Leases
    <2>3. [y EXCEPT !.answer = "none", !.guard = 0, !.expireAt = 0] \in Leases'
        <3>1. 0 \in 0..rev'
            BY <1>1
        <3> QED BY <2>2, <3>1 DEF Leases
    <2> QED BY <2>1, <2>3
<1>3. lease' = [lease EXCEPT ![p] =
                 [lease[p] EXCEPT !.pc = pc, !.attempt = a, !.index = i,
                                  !.answer = "none", !.guard = 0,
                                  !.expireAt = 0]]
    BY DEF Goto
<1> QED BY <1>1, <1>2, <1>3

\* The result of an entry is at most the answer of the one that waits for it.
LEMMA ResolveType ==
    ASSUME Typed, NEW answer \in {"ok", "gone"}, Resolve(answer)
    PROVE  lease' \in [Procs -> Leases]
<1>1. lease \in [Procs -> Leases]
    BY DEF Typed
<1>2. \A x \in Leases : [x EXCEPT !.answer = answer] \in Leases
    BY DEF Leases
<1> QED BY <1>1, <1>2 DEF Resolve

\* A fan-out either queues the change or closes the subscription.
LEMMA FanoutType ==
    ASSUME Typed, NEW change \in Owners, Fanout(change)
    PROVE  /\ watch' \in Watches /\ Len(watch'.ch) <= WatcherBuffer
           /\ watch'.pc = watch.pc /\ watch'.snapshot = watch.snapshot
           /\ watch'.lapsed = watch.lapsed
           /\ watch'.open => /\ watch.open
                             /\ watch'.ch = Append(watch.ch, change)
<1>1. watch \in Watches /\ Len(watch.ch) <= WatcherBuffer
    BY DEF Typed
<1>2. /\ Append(watch.ch, change) \in Seq(Owners)
      /\ Len(Append(watch.ch, change)) = Len(watch.ch) + 1
      /\ Len(watch.ch) \in Nat
    BY <1>1 DEF Watches
<1>3. CASE ~watch.open
    BY <1>1, <1>3 DEF Fanout
<1>4. CASE watch.open /\ Len(watch.ch) < WatcherBuffer
    <2>1. watch' = [watch EXCEPT !.ch = Append(watch.ch, change)]
        BY <1>4 DEF Fanout
    <2>2. watch' = [pc |-> watch.pc, snapshot |-> watch.snapshot,
                    ch |-> Append(watch.ch, change), open |-> watch.open,
                    lapsed |-> watch.lapsed]
        BY <1>1, <2>1 DEF Watches
    <2>3. watch' \in Watches
        BY <1>1, <1>2, <2>2 DEF Watches
    <2> QED BY <1>2, <1>4, <2>2, <2>3
<1>5. CASE watch.open /\ ~(Len(watch.ch) < WatcherBuffer)
    <2>1. watch' = [watch EXCEPT !.open = FALSE]
        BY <1>5 DEF Fanout
    <2> QED BY <1>1, <2>1 DEF Watches
<1> QED BY <1>3, <1>4, <1>5

\* The Lease's steps that leave the log alone.
LEMMA LeaseOnly ==
    ASSUME Typed, UNCHANGED storeVars, lease' \in [Procs -> Leases],
           now' = now, sweep' = sweep, watch' = watch, view' = view,
           faults' \in 0..MaxFaults
    PROVE  Typed'
BY SameStore DEF Typed, Exists

\* Failures stay within their budget.
LEMMA FaultType ==
    ASSUME Typed, Fault
    PROVE  faults' \in 0..MaxFaults
BY DEF Typed, Fault

\* The state machine's entry: types and the registrations' owners.
LEMMA ApplyTyped ==
    ASSUME Typed, Apply
    PROVE  Typed'
<1> DEFINE op == Head(pending)
<1>1. rev \in Nat /\ pending \in Seq(PendingOps) /\ pending # <<>>
    BY DEF Typed, Apply
<1>2. /\ op \in PendingOps /\ op = pending[1] /\ 1 \in 1..Len(pending)
      /\ Tail(pending) \in Seq(PendingOps)
      /\ Len(pending) \in Nat /\ Len(Tail(pending)) = Len(pending) - 1
      /\ \A i \in 1..Len(Tail(pending)) : Tail(pending)[i] = pending[i + 1]
    BY <1>1
<1> HIDE DEF op
<1>3. rev' = rev + 1 /\ pending' = Tail(pending)
    BY DEF Apply
<1>4. LastIndex' = LastIndex /\ LastIndex \in Nat
    BY <1>1, <1>2, <1>3 DEF LastIndex
<1>5. \A i \in 0..rev : i \in 0..rev'
    BY <1>1, <1>3
<1>6. /\ PendingOps \subseteq PendingOps' /\ Insts \subseteq Insts'
      /\ Sweeps \subseteq Sweeps' /\ Leases \subseteq Leases'
    BY <1>4, <1>5 DEF PendingOps, Insts, Sweeps, Leases
<1>7. pending' \in Seq(PendingOps')
    <2>1. Tail(pending) \in Seq(PendingOps')
        BY <1>2, <1>6, SeqMono
    <2> QED BY <1>3, <2>1
<1>8. \A i \in 1..Len(pending') :
        pending'[i].type = "register" => pending'[i].owner # {}
    <2>1. \A i \in 1..Len(pending') :
            i + 1 \in 1..Len(pending) /\ pending'[i] = pending[i + 1]
        BY <1>2, <1>3
    <2> QED BY <2>1 DEF Typed
<1>9. /\ op.type \in {"register", "heartbeat", "expire"}
      /\ op.owner \in Owners /\ op.expireAt \in Nat
      /\ op.type = "register" => op.owner # {}
    BY <1>2 DEF PendingOps, Typed
<1>rest. ASSUME inst' \in Insts', Exists(inst)' <=> inst'.owner # {},
              lease' \in [Procs -> Leases'],
              watch' \in Watches, Len(watch'.ch) <= WatcherBuffer
       PROVE  Typed'
    <2>1. /\ now' = now /\ sweep' = sweep /\ view' = view /\ faults' = faults
        BY DEF Apply
    <2>2. /\ now \in Nat /\ sweep \in Sweeps /\ view \in Owners
          /\ faults \in 0..MaxFaults
        BY DEF Typed
    <2>3. sweep' \in Sweeps' /\ rev' \in Nat
        BY <1>1, <1>3, <1>6, <2>1, <2>2
    <2>4. watch' \in Watches'
        BY <1>rest DEF Watches
    <2> QED BY <1>7, <1>8, <1>rest, <2>1, <2>2, <2>3, <2>4 DEF Typed
<1>10. CASE op.type = "register" /\ ApplyRegister(op)
    <2>1. inst' = [owner |-> op.owner, revision |-> rev + 1,
                   expireAt |-> op.expireAt]
        BY <1>10 DEF ApplyRegister
    <2>2. inst' \in Insts' /\ Exists(inst)' /\ inst'.owner # {}
        BY <1>1, <1>3, <1>9, <1>10, <2>1 DEF Insts, Exists
    <2>3. lease' \in [Procs -> Leases']
        BY <1>6, <1>10, ResolveType DEF ApplyRegister
    <2>4. watch' \in Watches /\ Len(watch'.ch) <= WatcherBuffer
        BY <1>9, <1>10, FanoutType DEF ApplyRegister, Typed
    <2> QED BY <1>rest, <2>2, <2>3, <2>4
<1>11. CASE op.type = "heartbeat" /\ ApplyHeartbeat(op)
    <2>1. inst \in Insts' /\ (Exists(inst) <=> inst.owner # {})
        BY <1>6 DEF Typed
    <2>2. /\ inst' \in Insts'
          /\ Exists(inst)' <=> inst'.owner # {}
        <3>1. CASE Renewable(op)
            <4>1. inst' = [inst EXCEPT !.revision = rev + 1,
                                       !.expireAt = op.expireAt]
                BY <1>11, <3>1 DEF ApplyHeartbeat
            <4>2. Exists(inst)
                BY <3>1 DEF Renewable
            <4>3. inst' = [owner |-> inst.owner, revision |-> rev + 1,
                           expireAt |-> op.expireAt]
                BY <2>1, <4>1 DEF Insts
            <4>4. rev + 1 \in 0..rev' /\ inst.owner \in Owners
                BY <1>1, <1>3, <2>1 DEF Insts
            <4>5. inst' \in Insts'
                BY <1>9, <4>3, <4>4 DEF Insts
            <4>6. Exists(inst)' /\ inst'.owner # {}
                BY <1>1, <2>1, <4>2, <4>3 DEF Exists
            <4> QED BY <4>5, <4>6
        <3>2. CASE ~Renewable(op)
            BY <1>11, <2>1, <3>2 DEF ApplyHeartbeat, Exists
        <3> QED BY <3>1, <3>2
    <2>3. lease' \in [Procs -> Leases']
        BY <1>6, <1>11, ResolveType DEF ApplyHeartbeat
    <2>4. watch' \in Watches /\ Len(watch'.ch) <= WatcherBuffer
        BY <1>11 DEF ApplyHeartbeat, Typed
    <2> QED BY <1>rest, <2>2, <2>3, <2>4
<1>12. CASE op.type = "expire" /\ ApplyExpireServices(op)
    <2>1. inst' \in Insts' /\ (Exists(inst)' <=> inst'.owner # {})
        <3>1. NoInst \in Insts'
            BY <1>1, <1>3 DEF NoInst, Insts, Owners
        <3>2. inst' \in {inst, NoInst}
            BY <1>12 DEF ApplyExpireServices
        <3>3. inst \in Insts' /\ (Exists(inst) <=> inst.owner # {})
            BY <1>6 DEF Typed
        <3> QED BY <3>1, <3>2, <3>3 DEF Exists, NoInst
    <2>2. lease' \in [Procs -> Leases']
        BY <1>6, <1>12, ResolveType DEF ApplyExpireServices
    <2>3. {} \in Owners
        BY DEF Owners
    <2>4. watch' \in Watches /\ Len(watch'.ch) <= WatcherBuffer
        BY <1>12, <2>3, FanoutType DEF ApplyExpireServices, Typed
    <2> QED BY <1>rest, <2>1, <2>2, <2>4
<1> QED BY <1>10, <1>11, <1>12 DEF Apply, op

\* What only the sweeper's guard protects: an entry it has proposed, or is
\* about to, fits an instance only if its lease has run out.
StaleGuard(g) ==
    Exists(inst) /\ inst.revision = g => inst.expireAt # 0 /\ inst.expireAt <= now

GuardsStale ==
    /\ sweep.pc = "scanned" => StaleGuard(sweep.guard)
    /\ \A i \in 1..Len(pending) :
          pending[i].type = "expire" => StaleGuard(pending[i].guard)

\* What is on its way to a subscriber and what is in the table agree, but for
\* an entry that had lapsed when the subscription began.
InView ==
    Subscribed =>
        /\ Final # {} => Exists(inst)
        /\ Final = {} /\ Exists(inst) => watch.lapsed

\* A request that is given up is one of the client's.
LEMMA GiveUpType ==
    ASSUME Typed, StrayTyped, NEW p \in Procs, NEW k \in 0..MaxFaults,
           GiveUp(p, k), UNCHANGED storeVars
    PROVE  StrayTyped'
<1>1. Strays' = Strays
    BY DEF Strays, Requests
<1>2. lease[p] \in Leases /\ rev \in Nat
    BY DEF Typed
<1>3. CASE stray' = stray
    BY <1>1, <1>3 DEF StrayTyped
<1>4. CASE stray' # stray
    <2> DEFINE candidates ==
                CASE lease[p].pc = "register" -> {Unstamped("register", {p})}
                  [] lease[p].pc = "beat" -> {Unstamped("beat", {})}
                  [] lease[p].pc = "beatread" ->
                        {HeartbeatOp(lease[p].guard, lease[p].expireAt)}
                  [] OTHER -> {}
    <2>1. candidates \subseteq Requests
        <3>1. {p} \in Owners /\ {} \in Owners
            BY DEF Owners
        <3>2. /\ Unstamped("register", {p}) \in Requests
              /\ Unstamped("beat", {}) \in Requests
              /\ HeartbeatOp(lease[p].guard, lease[p].expireAt) \in Requests
            BY <1>2, <3>1 DEF Unstamped, HeartbeatOp, Requests, Leases
        <3> QED BY <3>2
    <2>2. \E request \in candidates :
            stray' = stray \cup
                        {[client |-> p, fault |-> k, request |-> request]}
        BY <1>4 DEF GiveUp
    <2> HIDE DEF candidates
    <2>3. PICK request \in Requests :
            stray' = stray \cup
                        {[client |-> p, fault |-> k, request |-> request]}
        BY <2>1, <2>2
    <2>4. [client |-> p, fault |-> k, request |-> request] \in Strays
        BY DEF Strays
    <2> QED BY <1>1, <2>3, <2>4 DEF StrayTyped
<1> QED BY <1>3, <1>4

\* What a handler left to itself does: it puts its entry in the log, or
\* stamps its heartbeat.
LEMMA StrayEffect ==
    ASSUME Typed, StrayTyped, StrayRuns
    PROVE  /\ UNCHANGED <<now, rev, inst, sweep, lease, watch, view, faults>>
           /\ \/ UNCHANGED pending
              \/ \E op \in PendingOps :
                    /\ op.type # "expire"
                    /\ op.type = "register" => op.owner # {}
                    /\ Propose(op)
           /\ StrayTyped'
<1>0. UNCHANGED <<now, sweep, lease, watch, view, faults>>
    BY DEF StrayRuns
<1>1. PICK s \in stray :
          \/ /\ s.request.type = "register"
             /\ Propose(RegisterOp(s.client))
             /\ stray' = stray \ {s}
          \/ /\ s.request.type = "heartbeat"
             /\ Propose(s.request)
             /\ stray' = stray \ {s}
          \/ /\ s.request.type = "beat"
             /\ stray' = (stray \ {s}) \cup
                    IF GetInstance = NoInst THEN {}
                    ELSE {[s EXCEPT !.request =
                              HeartbeatOp(inst.revision, now + Ttl)]}
             /\ UNCHANGED storeVars
    BY DEF StrayRuns
<1>2. /\ s \in Strays /\ stray \subseteq Strays
      /\ now \in Nat /\ rev \in Nat /\ inst \in Insts
    BY DEF StrayTyped, Typed
<1>3. s.client \in Procs /\ s.request \in Requests /\ s.fault \in 0..MaxFaults
    BY <1>2 DEF Strays
<1>4. ASSUME rev' = rev PROVE Strays' = Strays
    BY <1>4 DEF Strays, Requests
<1>5. CASE s.request.type = "register" /\ Propose(RegisterOp(s.client))
           /\ stray' = stray \ {s}
    <2>1. /\ RegisterOp(s.client) \in PendingOps
          /\ RegisterOp(s.client).type # "expire"
          /\ RegisterOp(s.client).owner # {}
        BY <1>2, <1>3 DEF RegisterOp, PendingOps, Owners
    <2> QED BY <1>0, <1>2, <1>4, <1>5, <2>1 DEF Propose, StrayTyped
<1>6. CASE s.request.type = "heartbeat" /\ Propose(s.request)
           /\ stray' = stray \ {s}
    <2>1. s.request \in PendingOps
        BY <1>3, <1>6 DEF Requests, PendingOps
    <2> QED BY <1>0, <1>2, <1>4, <1>6, <2>1 DEF Propose, StrayTyped
<1>7. CASE UNCHANGED storeVars
           /\ stray' = (stray \ {s}) \cup
                    IF GetInstance = NoInst THEN {}
                    ELSE {[s EXCEPT !.request =
                              HeartbeatOp(inst.revision, now + Ttl)]}
    <2>1. HeartbeatOp(inst.revision, now + Ttl) \in Requests
        BY <1>2 DEF HeartbeatOp, Requests, Owners, Insts
    <2>2. [s EXCEPT !.request = HeartbeatOp(inst.revision, now + Ttl)] \in Strays
        BY <1>2, <2>1 DEF Strays
    <2>3. stray' \subseteq Strays
        BY <1>2, <1>7, <2>2
    <2> QED BY <1>0, <1>4, <1>7, <2>3 DEF StrayTyped
<1> QED BY <1>1, <1>5, <1>6, <1>7

\* Every step keeps the requests that were given up well typed.
LEMMA StrayStep ==
    ASSUME Typed, StrayTyped, [Next]_vars
    PROVE  StrayTyped'
<1>1. rev \in Nat /\ faults \in 0..MaxFaults
    BY DEF Typed
<1>2. ASSUME stray' = stray, rev' = rev \/ rev' = rev + 1
      PROVE  StrayTyped'
    <2>1. \A i \in 0..rev : i \in 0..rev'
        BY <1>1, <1>2
    <2>2. Requests \subseteq Requests'
        BY <2>1 DEF Requests
    <2>3. Strays \subseteq Strays'
        BY <2>2 DEF Strays
    <2> QED BY <1>2, <2>3 DEF StrayTyped
<1>3. CASE Apply
    BY <1>2, <1>3 DEF Apply
<1>4. CASE Tick \/ SweepStep \/ SweepTimeout \/ WatchStep \/ StreamBreaks
           \/ UNCHANGED vars
    BY <1>2, <1>4 DEF Tick, SweepStep, SweepScan, SweepPropose, SweepEnd,
        SweepTimeout, WatchStep, Subscribe, SendSnapshot, SendChange,
        Resubscribe, StreamBreaks, Propose, vars
<1>5. ASSUME NEW p \in Procs, LeaseStep(p) \/ Stop(p) \/ StopSeen(p)
      PROVE  StrayTyped'
    BY <1>2, <1>5 DEF LeaseStep, Register, Registered, BackoffEnds, TickerFires,
        HeartbeatRead, HeartbeatPropose, HeartbeatAnswered, Stop, StopSeen,
        Propose
<1>6. ASSUME NEW p \in Procs, RegisterFails(p) \/ HeartbeatFails(p)
      PROVE  StrayTyped'
    <2>1. PICK k \in 0..MaxFaults : k = faults + 1
        BY <1>1, <1>6 DEF RegisterFails, HeartbeatFails, Fault
    <2>2. GiveUp(p, k) /\ UNCHANGED storeVars
        BY <1>6, <2>1 DEF RegisterFails, HeartbeatFails
    <2> QED BY <2>2, GiveUpType
<1>7. ASSUME NEW p \in Procs, Cancel(p)
      PROVE  StrayTyped'
    <2>1. GiveUp(p, 0) /\ UNCHANGED storeVars /\ 0 \in 0..MaxFaults
        BY <1>7 DEF Cancel
    <2> QED BY <2>1, GiveUpType
<1>8. CASE StrayRuns
    BY <1>8, StrayEffect
<1> QED BY <1>3, <1>4, <1>5, <1>6, <1>7, <1>8 DEF Next

\* Every step keeps the registry, its leases and its subscription well typed.
LEMMA TypedStep ==
    ASSUME Typed, StrayTyped, [Next]_vars
    PROVE  Typed'
<1>0. /\ now \in Nat /\ rev \in Nat /\ lease \in [Procs -> Leases]
      /\ LastIndex \in Nat
    BY DEF Typed, LastIndex
<1>1. CASE Apply
    BY <1>1, ApplyTyped
<1>2. CASE Tick
    <2>1. /\ UNCHANGED storeVars /\ UNCHANGED <<sweep, lease, watch, view, faults>>
          /\ now' \in Nat
        BY <1>0, <1>2 DEF Tick
    <2> QED BY <2>1, SameStore DEF Typed, Watches
<1>3. CASE SweepScan
    <2>1. sweep' = [pc |-> "scanned", guard |-> inst.revision, index |-> 0]
        BY <1>3 DEF SweepScan, IdleSweep
    <2>2. sweep' \in Sweeps
        BY <1>0, <2>1 DEF Sweeps, Typed, Insts
    <2> QED BY <1>3, <2>2, SameStore DEF SweepScan, Typed
<1>4. CASE SweepPropose
    <2>1. ExpireOp(sweep.guard) \in PendingOps
        BY DEF ExpireOp, PendingOps, Owners, Typed, Sweeps
    <2>2. ExpireOp(sweep.guard).type # "register"
        BY DEF ExpireOp
    <2>3. Propose(ExpireOp(sweep.guard)) /\ rev' = rev /\ inst' = inst
        BY <1>4 DEF SweepPropose, Propose
    <2>4. sweep' = [pc |-> "waiting", guard |-> 0, index |-> LastIndex + 1]
        BY <1>4 DEF SweepPropose, IdleSweep
    <2>5. LastIndex' = LastIndex + 1
        BY <2>1, <2>2, <2>3, ProposeType
    <2>6. sweep' \in Sweeps'
        BY <1>0, <2>3, <2>4, <2>5 DEF Sweeps
    <2> QED BY <1>4, <2>1, <2>2, <2>3, <2>6, ProposeType DEF SweepPropose, Typed
<1>5. CASE SweepEnd \/ SweepTimeout
    <2>1. IdleSweep \in Sweeps
        BY <1>0 DEF IdleSweep, Sweeps
    <2>2. faults' \in 0..MaxFaults
        BY <1>5, FaultType DEF SweepEnd, SweepTimeout, Typed
    <2> QED BY <1>5, <2>1, <2>2, SameStore DEF SweepEnd, SweepTimeout, Typed
<1>6. ASSUME NEW p \in Procs, Register(p) PROVE Typed'
    <2>1. RegisterOp(p) \in PendingOps
        BY <1>0 DEF RegisterOp, PendingOps, Owners
    <2>2. RegisterOp(p).owner # {}
        BY DEF RegisterOp
    <2>3. Propose(RegisterOp(p)) /\ rev' = rev /\ inst' = inst
        BY <1>6 DEF Register, Propose
    <2>4. PICK i \in Nat : i = LastIndex + 1
        BY <1>0
    <2>5. i \in 0..LastIndex' /\ Leases \subseteq Leases'
        BY <1>0, <2>1, <2>2, <2>3, <2>4, ProposeType
    <2>6. lease[p].attempt \in 0..1
        BY <1>0 DEF Leases
    <2>7. Goto(p, "regwait", lease[p].attempt, i)
        BY <1>6, <2>4 DEF Register
    <2>8. lease' \in [Procs -> Leases']
        BY <2>3, <2>5, <2>6, <2>7, GotoType DEF LeaseStates
    <2> QED BY <1>6, <2>1, <2>2, <2>3, <2>8, ProposeType DEF Register, Typed
<1>7. ASSUME NEW p \in Procs, HeartbeatPropose(p) PROVE Typed'
    <2> DEFINE op == HeartbeatOp(lease[p].guard, lease[p].expireAt)
    <2>1. op \in PendingOps /\ op.type # "register"
        BY <1>0 DEF HeartbeatOp, PendingOps, Owners, Leases
    <2>2. Propose(op) /\ rev' = rev /\ inst' = inst
        BY <1>7 DEF HeartbeatPropose, Propose
    <2> HIDE DEF op
    <2>4. PICK i \in Nat : i = LastIndex + 1
        BY <1>0
    <2>5. i \in 0..LastIndex' /\ Leases \subseteq Leases'
        BY <1>0, <2>1, <2>2, <2>4, ProposeType
    <2>6. lease[p].attempt \in 0..1
        BY <1>0 DEF Leases
    <2>7. Goto(p, "beatwait", lease[p].attempt, i)
        BY <1>7, <2>4 DEF HeartbeatPropose
    <2>8. lease' \in [Procs -> Leases']
        BY <2>2, <2>5, <2>6, <2>7, GotoType DEF LeaseStates
    <2> QED BY <1>7, <2>1, <2>2, <2>8, ProposeType DEF HeartbeatPropose, Typed
<1>8. ASSUME NEW p \in Procs, NEW pc \in LeaseStates, NEW a \in 0..1,
             Goto(p, pc, a, 0), UNCHANGED storeVars
      PROVE  lease' \in [Procs -> Leases]
    <2>1. 0 \in 0..LastIndex'
        BY <1>0, <1>8, SameStore
    <2> QED BY <1>8, <2>1, GotoType, SameStore DEF storeVars
<1>9. ASSUME NEW p \in Procs,
             Registered(p) \/ BackoffEnds(p) \/ HeartbeatAnswered(p)
                \/ StopSeen(p)
      PROVE  Typed'
    <2>1. /\ UNCHANGED storeVars /\ faults' \in 0..MaxFaults
          /\ now' = now /\ sweep' = sweep /\ watch' = watch /\ view' = view
        BY <1>9 DEF Registered, BackoffEnds, HeartbeatAnswered, StopSeen, Typed
    <2>2. PICK pc \in LeaseStates : Goto(p, pc, 0, 0)
        BY <1>9 DEF Registered, BackoffEnds, HeartbeatAnswered, StopSeen,
                    LeaseStates
    <2> QED BY <1>8, <2>1, <2>2, LeaseOnly
<1>10. ASSUME NEW p \in Procs, RegisterFails(p) \/ HeartbeatFails(p)
       PROVE  Typed'
    <2>1. /\ UNCHANGED storeVars /\ Fault
          /\ now' = now /\ sweep' = sweep /\ watch' = watch /\ view' = view
        BY <1>10 DEF RegisterFails, HeartbeatFails
    <2>2. PICK pc \in LeaseStates, a \in 0..1 : Goto(p, pc, a, 0)
        BY <1>10 DEF RegisterFails, HeartbeatFails, LeaseStates
    <2> QED BY <1>8, <2>1, <2>2, LeaseOnly, FaultType
<1>11. ASSUME NEW p \in Procs, TickerFires(p) PROVE Typed'
    <2>1. lease[p].beats + 1 \in 0..MaxBeats
        BY <1>0, <1>11 DEF TickerFires, Leases
    <2>2. lease' = [lease EXCEPT ![p].pc = "beat",
                                 ![p].beats = lease[p].beats + 1]
        BY <1>0, <1>11 DEF TickerFires
    <2>3. lease' = [lease EXCEPT ![p] =
                     [lease[p] EXCEPT !.pc = "beat", !.beats = lease[p].beats + 1]]
        BY <1>0, <2>2
    <2>4. [lease[p] EXCEPT !.pc = "beat", !.beats = lease[p].beats + 1] \in Leases
        BY <1>0, <2>1 DEF Leases, LeaseStates
    <2>5. lease' \in [Procs -> Leases]
        BY <1>0, <2>3, <2>4
    <2> QED BY <1>11, <2>5, LeaseOnly DEF TickerFires, Typed
<1>12. ASSUME NEW p \in Procs, HeartbeatRead(p) PROVE Typed'
    <2>1. CASE GetInstance = NoInst
        <3>1. Goto(p, "register", 0, 0) /\ UNCHANGED storeVars
            BY <1>12, <2>1 DEF HeartbeatRead
        <3>2. lease' \in [Procs -> Leases]
            BY <1>8, <3>1 DEF LeaseStates
        <3> QED BY <1>12, <3>2, LeaseOnly DEF HeartbeatRead, Typed
    <2>2. CASE GetInstance # NoInst
        <3>1. lease' = [lease EXCEPT ![p] =
                         [lease[p] EXCEPT !.pc = "beatread",
                             !.guard = inst.revision, !.expireAt = now + Ttl]]
            BY <1>12, <2>2 DEF HeartbeatRead
        <3>2. inst.revision \in 0..rev /\ now + Ttl \in Nat
            BY <1>0 DEF Typed, Insts
        <3>3. [lease[p] EXCEPT !.pc = "beatread", !.guard = inst.revision,
                               !.expireAt = now + Ttl] \in Leases
            <4>1. lease[p] \in Leases
                BY <1>0
            <4>2. "beatread" \in LeaseStates
                BY DEF LeaseStates
            <4> QED BY <4>1, <4>2, <3>2 DEF Leases
        <3>4. lease' \in [Procs -> Leases]
            BY <1>0, <3>1, <3>3
        <3> QED BY <1>12, <3>4, LeaseOnly DEF HeartbeatRead, Typed
    <2> QED BY <2>1, <2>2
<1>13. ASSUME NEW p \in Procs, Stop(p) PROVE Typed'
    <2>1. lease' = [lease EXCEPT ![p] = [lease[p] EXCEPT !.stop = TRUE]]
        BY <1>13 DEF Stop
    <2>2. [lease[p] EXCEPT !.stop = TRUE] \in Leases
        BY <1>0 DEF Leases
    <2>3. lease' \in [Procs -> Leases]
        BY <1>0, <2>1, <2>2
    <2> QED BY <1>13, <2>3, LeaseOnly DEF Stop, Typed
<1>14. ASSUME NEW p \in Procs, Cancel(p) PROVE Typed'
    <2>1. lease' = [lease EXCEPT ![p] =
            [NewLease EXCEPT !.pc = "done", !.beats = lease[p].beats,
                             !.stop = TRUE]]
        BY <1>14 DEF Cancel
    <2>2. [NewLease EXCEPT !.pc = "done", !.beats = lease[p].beats,
                           !.stop = TRUE] \in Leases
        <3>1. NewLease \in Leases
            BY <1>0 DEF NewLease, Leases, LeaseStates
        <3>2. lease[p].beats \in 0..MaxBeats
            BY <1>0 DEF Leases
        <3> QED BY <3>1, <3>2 DEF Leases, LeaseStates
    <2>3. lease' \in [Procs -> Leases]
        BY <1>0, <2>1, <2>2
    <2> QED BY <1>14, <2>3, LeaseOnly DEF Cancel, Typed
<1>15. NewWatch \in Watches /\ Len(NewWatch.ch) <= WatcherBuffer
    BY DEF NewWatch, Watches, Owners
<1>16. watch \in Watches /\ Len(watch.ch) <= WatcherBuffer /\ inst \in Insts
    BY DEF Typed
<1>17. CASE Subscribe
    <2>1. Discover \in Owners
        BY <1>16 DEF Discover, GetInstance, NoInst, Insts, Owners
    <2>2. watch' = [pc |-> "snapshot", snapshot |-> Discover, ch |-> <<>>,
                    open |-> TRUE, lapsed |-> Exists(inst) /\ ~instAlive(inst)]
        BY <1>17 DEF Subscribe
    <2>3. (Exists(inst) /\ ~instAlive(inst)) \in BOOLEAN
        OBVIOUS
    <2>4. watch' \in Watches /\ Len(watch'.ch) <= WatcherBuffer
        BY <2>1, <2>2, <2>3 DEF Watches
    <2> QED BY <1>17, <2>4, SameStore DEF Subscribe, Typed, Watches
<1>18. CASE SendSnapshot
    <2>1. watch' \in Watches /\ watch'.ch = watch.ch /\ view' \in Owners
        BY <1>16, <1>18 DEF SendSnapshot, Watches
    <2> QED BY <1>16, <1>18, <2>1, SameStore DEF SendSnapshot, Typed, Watches
<1>19. CASE SendChange
    <2>1. /\ Head(watch.ch) \in Owners /\ Tail(watch.ch) \in Seq(Owners)
          /\ Len(Tail(watch.ch)) <= WatcherBuffer
        BY <1>16, <1>19 DEF SendChange, Watches
    <2>2. watch' = [watch EXCEPT !.ch = Tail(watch.ch)] /\ view' \in Owners
        BY <1>19, <2>1 DEF SendChange
    <2>3. watch' \in Watches /\ watch'.ch = Tail(watch.ch)
        BY <1>16, <2>1, <2>2 DEF Watches
    <2> QED BY <1>19, <2>1, <2>2, <2>3, SameStore DEF SendChange, Typed, Watches
<1>20. CASE Resubscribe \/ StreamBreaks
    <2>1. faults' \in 0..MaxFaults
        BY <1>20, FaultType DEF Resubscribe, StreamBreaks, Typed
    <2> QED BY <1>15, <1>20, <2>1, SameStore
            DEF Resubscribe, StreamBreaks, Typed, Watches
<1>21. CASE UNCHANGED vars
    BY <1>21, SameStore DEF vars, Typed, Watches
<1>22. CASE StrayRuns
    <2>1. UNCHANGED <<now, rev, inst, sweep, lease, watch, view, faults>>
        BY <1>22, StrayEffect
    <2>2. CASE UNCHANGED pending
        BY <2>1, <2>2, SameStore DEF Typed, Watches
    <2>3. CASE ~UNCHANGED pending
        <3>1. PICK op \in PendingOps :
                (op.type = "register" => op.owner # {}) /\ Propose(op)
            BY <1>22, <2>3, StrayEffect
        <3>2. sweep \in Sweeps' /\ lease \in [Procs -> Leases']
            BY <1>0, <3>1, ProposeType DEF Typed
        <3> QED BY <2>1, <3>1, <3>2, ProposeType DEF Typed, Watches
    <2> QED BY <2>2, <2>3
<1> QED
    BY <1>1, <1>2, <1>3, <1>4, <1>5, <1>6, <1>7, <1>9, <1>10, <1>11, <1>12,
       <1>13, <1>14, <1>17, <1>18, <1>19, <1>20, <1>21, <1>22
       DEF Next, LeaseStep, WatchStep, SweepStep

\* The stronger typing holds from the start.
LEMMA TypedInvariant == Spec => [](Typed /\ StrayTyped)
<1>1. Init => Typed /\ StrayTyped
    <2> SUFFICES ASSUME Init PROVE Typed /\ StrayTyped
        OBVIOUS
    <2>1. rev = 0 /\ LastIndex = 0
        BY DEF Init, LastIndex
    <2>2. inst \in Insts /\ (Exists(inst) <=> inst.owner # {})
        BY <2>1 DEF Init, NoInst, Insts, Owners, Exists
    <2>3. sweep \in Sweeps
        BY <2>1 DEF Init, IdleSweep, Sweeps
    <2>4. NewLease \in Leases
        BY <2>1 DEF NewLease, Leases, LeaseStates
    <2>5. watch \in Watches /\ Len(watch.ch) <= WatcherBuffer
        BY DEF Init, NewWatch, Watches, Owners
    <2>6. /\ pending \in Seq(PendingOps) /\ Len(pending) = 0
          /\ view \in Owners /\ faults \in 0..MaxFaults
        BY DEF Init, Owners
    <2> QED BY <2>1, <2>2, <2>3, <2>4, <2>5, <2>6 DEF Init, Typed, StrayTyped
<1> QED BY <1>1, TypedStep, StrayStep, PTL DEF Spec

\* Whatever is registered, renewed, lost, stopped or broken off, the state
\* stays well typed: the log, the table, the sweeper, every lease and the
\* subscription, whose channel never holds more than its buffer.
THEOREM TypeCorrect == Spec => []TypeOK
<1>1. Typed /\ StrayTyped => TypeOK
    <2> SUFFICES ASSUME Typed, StrayTyped PROVE TypeOK
        OBVIOUS
    <2>1. Len(watch.ch) \in 0..WatcherBuffer
        BY DEF Typed, Watches
    <2> QED BY <2>1 DEF Typed, StrayTyped, TypeOK, PendingOps, Insts, Sweeps,
                       Leases, Watches, Requests, Strays
<1> QED BY <1>1, TypedInvariant, PTL

-----------------------------------------------------------------------------
(* The steps, as the invariants below tell them apart.                     *)

\* An entry enters the log: a registration, a heartbeat, or the removal of
\* what the sweeper has scanned.
Proposed(op) ==
    /\ op \in PendingOps
    /\ pending' = Append(pending, op)
    /\ op.type = "expire" => sweep.pc = "scanned" /\ op.guard = sweep.guard

\* The sweeper goes on: what it has newly scanned has run out.
Swept ==
    \/ sweep' = sweep
    \/ sweep'.pc # "scanned"
    \/ /\ sweep'.guard = inst.revision
       /\ Exists(inst) /\ inst.expireAt # 0 /\ inst.expireAt <= now

\* No step but an application changes the table, and no step turns back time.
LEMMA TableKeeps ==
    ASSUME Typed, StrayTyped, [Next]_vars, ~Apply
    PROVE  /\ inst' = inst /\ rev' = rev
           /\ now \in Nat /\ now' \in Nat /\ now <= now'
           /\ pending' = pending \/ \E op : Proposed(op)
           /\ Swept
           /\ UNCHANGED <<watch, view>> \/ WatchStep \/ StreamBreaks
<1>0. now \in Nat
    BY DEF Typed
<1>1. CASE Tick
    BY <1>0, <1>1 DEF Tick, Swept
<1>2. CASE SweepScan
    <2>1. sweep' = [pc |-> "scanned", guard |-> inst.revision, index |-> 0]
        BY <1>2 DEF SweepScan, IdleSweep
    <2>2. Swept
        BY <1>2, <2>1 DEF SweepScan, Swept
    <2> QED BY <1>0, <1>2, <2>2 DEF SweepScan
<1>10. CASE SweepEnd \/ SweepTimeout
    BY <1>0, <1>10 DEF SweepEnd, SweepTimeout, IdleSweep, Swept
<1>3. CASE SweepPropose
    <2>1. ExpireOp(sweep.guard) \in PendingOps
        BY DEF ExpireOp, PendingOps, Owners, Typed, Sweeps
    <2>2. Proposed(ExpireOp(sweep.guard))
        BY <1>3, <2>1 DEF SweepPropose, Propose, Proposed, ExpireOp
    <2>3. sweep' = [IdleSweep EXCEPT !.pc = "waiting", !.index = LastIndex + 1]
        BY <1>3 DEF SweepPropose
    <2>4. Swept
        BY <2>3 DEF IdleSweep, Swept
    <2> QED BY <1>0, <1>3, <2>2, <2>4 DEF SweepPropose, Propose
<1>4. ASSUME NEW p \in Procs, Register(p)
      PROVE  /\ \E op : Proposed(op)
             /\ UNCHANGED <<inst, rev, now, sweep, watch, view>>
    <2>1. RegisterOp(p) \in PendingOps
        BY <1>0 DEF RegisterOp, PendingOps, Owners, Typed
    <2>2. Proposed(RegisterOp(p))
        BY <1>4, <2>1 DEF Register, Propose, Proposed, RegisterOp
    <2> QED BY <1>4, <2>2 DEF Register, Propose
<1>5. ASSUME NEW p \in Procs, HeartbeatPropose(p)
      PROVE  /\ \E op : Proposed(op)
             /\ UNCHANGED <<inst, rev, now, sweep, watch, view>>
    <2> DEFINE op == HeartbeatOp(lease[p].guard, lease[p].expireAt)
    <2>1. op \in PendingOps /\ op.type # "expire"
        BY DEF HeartbeatOp, PendingOps, Owners, Typed, Leases
    <2>2. pending' = Append(pending, op)
        BY <1>5 DEF HeartbeatPropose, Propose
    <2> HIDE DEF op
    <2>3. Proposed(op)
        BY <2>1, <2>2 DEF Proposed
    <2> QED BY <1>5, <2>3 DEF HeartbeatPropose, Propose
<1>6. ASSUME NEW p \in Procs,
             \/ Registered(p) \/ BackoffEnds(p) \/ HeartbeatAnswered(p)
             \/ StopSeen(p) \/ RegisterFails(p) \/ HeartbeatFails(p)
             \/ TickerFires(p) \/ HeartbeatRead(p) \/ Stop(p) \/ Cancel(p)
      PROVE  UNCHANGED <<inst, rev, pending, now, sweep, watch, view>>
    BY <1>6 DEF Registered, BackoffEnds, HeartbeatAnswered, StopSeen,
        RegisterFails, HeartbeatFails, TickerFires, HeartbeatRead, Stop, Cancel
<1>7. CASE WatchStep \/ StreamBreaks
    BY <1>0, <1>7 DEF WatchStep, StreamBreaks, Subscribe, SendSnapshot,
        SendChange, Resubscribe, Swept
<1>8. CASE UNCHANGED vars
    BY <1>0, <1>8 DEF vars, Swept
<1>9. CASE \E p \in Procs :
              \/ LeaseStep(p) \/ Stop(p) \/ StopSeen(p)
              \/ Cancel(p) \/ RegisterFails(p) \/ HeartbeatFails(p)
    BY <1>0, <1>4, <1>5, <1>6, <1>9 DEF LeaseStep, Swept
<1>11. CASE StrayRuns
    <2>1. ASSUME NEW op \in PendingOps, op.type # "expire", Propose(op)
          PROVE  Proposed(op)
        BY <2>1 DEF Propose, Proposed
    <2> QED BY <1>0, <1>11, <2>1, StrayEffect DEF Swept
<1> QED BY <1>1, <1>2, <1>3, <1>7, <1>8, <1>9, <1>10, <1>11 DEF Next, SweepStep

\* What an application does to the table and the log.
LEMMA ApplyEffect ==
    ASSUME Typed, Apply
    PROVE  /\ rev \in Nat /\ rev' = rev + 1
           /\ now' = now /\ sweep' = sweep /\ view' = view
           /\ Len(pending) \in Nat /\ 1 \in 1..Len(pending)
           /\ Head(pending) = pending[1] /\ Head(pending) \in PendingOps
           /\ Len(pending') = Len(pending) - 1
           /\ \A i \in 1..Len(pending') :
                 i + 1 \in 1..Len(pending) /\ pending'[i] = pending[i + 1]
           /\ \/ inst' = inst
              \/ inst' = NoInst
              \/ inst'.revision = rev + 1
<1>1. rev \in Nat /\ pending \in Seq(PendingOps) /\ pending # <<>> /\ inst \in Insts
    BY DEF Typed, Apply
<1>2. /\ Len(pending) \in Nat /\ 1 \in 1..Len(pending)
      /\ Head(pending) = pending[1] /\ Head(pending) \in PendingOps
      /\ Len(Tail(pending)) = Len(pending) - 1
      /\ \A i \in 1..Len(Tail(pending)) :
            i + 1 \in 1..Len(pending) /\ Tail(pending)[i] = pending[i + 1]
    BY <1>1
<1>3. \/ inst' = inst
      \/ inst' = NoInst
      \/ inst'.revision = rev + 1
    <2>1. ASSUME NEW op, ApplyRegister(op)
          PROVE  inst'.revision = rev + 1
        BY <2>1 DEF ApplyRegister
    <2>2. ASSUME NEW op, ApplyHeartbeat(op)
          PROVE  inst' = inst \/ inst'.revision = rev + 1
        <3>1. [inst EXCEPT !.revision = rev + 1,
                           !.expireAt = op.expireAt].revision = rev + 1
            BY <1>1 DEF Insts
        <3> QED BY <2>2, <3>1 DEF ApplyHeartbeat
    <2>3. ASSUME NEW op, ApplyExpireServices(op)
          PROVE  inst' = inst \/ inst' = NoInst
        BY <2>3 DEF ApplyExpireServices
    <2> QED BY <2>1, <2>2, <2>3 DEF Apply
<1> QED BY <1>1, <1>2, <1>3 DEF Apply

-----------------------------------------------------------------------------
(* The sweeper's guard                                                     *)

\* Renewals and registrations since the scan have taken the instance to a
\* revision that no earlier guard fits; without one, its lease stays expired.
LEMMA GuardsStaleStep ==
    ASSUME Typed, StrayTyped, GuardsStale, [Next]_vars
    PROVE  GuardsStale'
<1>0. inst \in Insts /\ rev \in Nat /\ sweep.guard \in 0..rev
    BY DEF Typed, Sweeps
<1>1. CASE Apply
    <2>1. ASSUME NEW g \in 0..rev, StaleGuard(g) PROVE StaleGuard(g)'
        BY <1>1, <2>1, ApplyEffect DEF StaleGuard, Exists, NoInst
    <2>2. ASSUME NEW i \in 1..Len(pending'), pending'[i].type = "expire"
          PROVE  StaleGuard(pending[i].guard)'
        <3>1. i + 1 \in 1..Len(pending) /\ pending'[i] = pending[i + 1]
            BY <1>1, ApplyEffect
        <3>2. PICK g : g = pending[i + 1].guard
            OBVIOUS
        <3>3. g \in 0..rev
            <4>1. pending \in Seq(PendingOps)
                BY DEF Typed
            <4>2. pending[i + 1] \in PendingOps
                BY <3>1, <4>1
            <4> QED BY <3>2, <4>2 DEF PendingOps
        <3>4. StaleGuard(g)
            BY <2>2, <3>1, <3>2 DEF GuardsStale
        <3>5. StaleGuard(g)'
            BY <2>1, <3>3, <3>4
        <3> QED BY <3>1, <3>2, <3>5 DEF StaleGuard, Exists
    <2>3. sweep'.pc = "scanned" => StaleGuard(sweep.guard)'
        <3>1. sweep' = sweep
            BY <1>1, ApplyEffect
        <3>2. PICK g \in 0..rev : g = sweep.guard
            BY <1>0
        <3> QED BY <2>1, <3>1, <3>2 DEF GuardsStale, StaleGuard, Exists
    <2> QED BY <2>2, <2>3 DEF GuardsStale
<1>2. CASE ~Apply
    <2>1. /\ inst' = inst /\ now \in Nat /\ now' \in Nat /\ now <= now'
          /\ pending' = pending \/ \E op : Proposed(op)
          /\ Swept
        BY <1>2, TableKeeps
    <2>2. ASSUME NEW g, StaleGuard(g) PROVE StaleGuard(g)'
        BY <1>0, <2>1, <2>2 DEF StaleGuard, Exists, Insts
    <2>3. sweep'.pc = "scanned" => StaleGuard(sweep.guard)'
        <3>1. CASE sweep' = sweep
            <4>1. PICK g : g = sweep.guard
                OBVIOUS
            <4> QED BY <2>1, <2>2, <3>1, <4>1 DEF GuardsStale, StaleGuard, Exists
        <3>2. CASE sweep'.guard = inst.revision /\ Exists(inst)
                   /\ inst.expireAt # 0 /\ inst.expireAt <= now
            BY <1>0, <2>1, <3>2 DEF StaleGuard, Exists, Insts
        <3> QED BY <2>1, <3>1, <3>2 DEF Swept
    <2>4. ASSUME NEW i \in 1..Len(pending'), pending'[i].type = "expire"
          PROVE  StaleGuard(pending[i].guard)'
        <3>0. pending \in Seq(PendingOps)
            BY DEF Typed
        <3>1. CASE i \in 1..Len(pending) /\ pending'[i] = pending[i]
            <4>1. PICK g : g = pending[i].guard
                OBVIOUS
            <4>2. StaleGuard(g)
                BY <2>4, <3>1, <4>1 DEF GuardsStale
            <4> QED BY <2>2, <3>1, <4>1, <4>2 DEF StaleGuard, Exists
        <3>2. CASE ~(i \in 1..Len(pending) /\ pending'[i] = pending[i])
            <4>1. PICK op : Proposed(op)
                BY <2>1, <2>4, <3>2
            <4>2. pending'[i] = op
                BY <2>4, <3>0, <3>2, <4>1 DEF Proposed
            <4>3. PICK g : g = sweep.guard
                OBVIOUS
            <4>4. op.guard = g /\ StaleGuard(g)
                BY <2>4, <4>1, <4>2, <4>3 DEF Proposed, GuardsStale
            <4> QED BY <2>2, <4>2, <4>4 DEF StaleGuard, Exists
        <3> QED BY <3>1, <3>2
    <2> QED BY <2>3, <2>4 DEF GuardsStale
<1> QED BY <1>1, <1>2

\* The sweeper's entry removes no instance whose lease is still running,
\* whatever registered or renewed it since the scan and however long the
\* entry took to be applied (ApplyExpireServices, sweeper.go:8-9).
THEOREM ExpirySpares == Spec => []ExpirySparesRenewed
<1>1. Init => GuardsStale
    BY DEF Init, GuardsStale, IdleSweep
<1>2. Typed /\ GuardsStale => ExpirySparesRenewed
    <2> SUFFICES ASSUME Typed, GuardsStale, pending # <<>>,
                        Head(pending).type = "expire", RemovedBy(Head(pending))
                 PROVE  ~instAlive(inst)
        BY DEF ExpirySparesRenewed
    <2>1. Head(pending) = pending[1] /\ 1 \in 1..Len(pending)
        BY DEF Typed
    <2>2. inst.expireAt # 0 /\ inst.expireAt <= now
        BY <2>1 DEF GuardsStale, StaleGuard, RemovedBy
    <2>3. inst.expireAt \in Nat /\ now \in Nat
        BY DEF Typed, Insts
    <2> QED BY <2>2, <2>3 DEF instAlive
<1> QED BY <1>1, <1>2, GuardsStaleStep, TypedInvariant, PTL DEF Spec

\* A lapsed instance comes back by a registration only: neither a heartbeat
\* that was under way, nor the sweeper, nor time revives it
\* (ApplyHeartbeat, store.go:261-263).
THEOREM NeverRevived == Spec => NoRevival
<1>1. ASSUME Typed, StrayTyped, [Next]_vars, Discover = {}, Discover' # {}
      PROVE  rev' = rev + 1 /\ Head(pending).type = "register"
    <2>0. /\ inst \in Insts /\ (Exists(inst) <=> inst.owner # {})
          /\ (Exists(inst)' <=> inst'.owner # {})
        BY <1>1, TypedStep DEF Typed
    <2>1. ~(Exists(inst) /\ instAlive(inst))
        BY <1>1, <2>0 DEF Discover, GetInstance
    <2>2. Exists(inst)' /\ instAlive(inst)'
        BY <1>1 DEF Discover, GetInstance, NoInst
    <2>3. CASE Apply
        <3>1. now' = now
            BY <1>1, <2>3, ApplyEffect
        <3>2. inst' # inst
            BY <2>1, <2>2, <3>1 DEF Exists, instAlive
        <3>3. CASE Head(pending).type = "heartbeat" /\ ApplyHeartbeat(Head(pending))
            BY <2>1, <3>2, <3>3 DEF ApplyHeartbeat, Renewable
        <3>4. CASE Head(pending).type = "expire"
                   /\ ApplyExpireServices(Head(pending))
            BY <2>2, <3>2, <3>4 DEF ApplyExpireServices, Exists, NoInst
        <3> QED BY <1>1, <2>3, <3>3, <3>4 DEF Apply
    <2>4. CASE ~Apply
        <3>1. inst' = inst /\ now \in Nat /\ now' \in Nat /\ now <= now'
            BY <1>1, <2>4, TableKeeps
        <3>2. inst.expireAt \in Nat
            BY <2>0 DEF Insts
        <3> QED BY <2>1, <2>2, <3>1, <3>2 DEF Exists, instAlive
    <2> QED BY <2>3, <2>4
<1>2. Typed /\ StrayTyped /\ [Next]_vars =>
        [Discover = {} /\ Discover' # {} =>
            rev' = rev + 1 /\ Head(pending).type = "register"]_vars
    BY <1>1
<1> QED BY <1>2, TypedInvariant, PTL DEF Spec, NoRevival

-----------------------------------------------------------------------------
(* The subscription                                                        *)

\* What is under way to a subscriber only changes hands when the handler
\* sends it.
LEMMA FinalKept ==
    ASSUME Typed,
           \/ UNCHANGED <<watch, view>>
           \/ SendSnapshot
           \/ SendChange
    PROVE  Subscribed' = Subscribed /\ (Subscribed => Final' = Final)
           /\ watch'.lapsed = watch.lapsed
<1>0. watch \in Watches
    BY DEF Typed
<1>1. CASE UNCHANGED <<watch, view>>
    BY <1>1 DEF Subscribed, Final, Last
<1>2. CASE SendSnapshot
    <2>1. watch' = [pc |-> "loop", snapshot |-> watch.snapshot, ch |-> watch.ch,
                    open |-> watch.open, lapsed |-> watch.lapsed]
        BY <1>0, <1>2 DEF SendSnapshot, Watches
    <2> QED BY <1>0, <1>2, <2>1 DEF SendSnapshot, Subscribed, Final, Last, Watches
<1>3. CASE SendChange
    <2>1. watch' = [pc |-> watch.pc, snapshot |-> watch.snapshot,
                    ch |-> Tail(watch.ch), open |-> watch.open,
                    lapsed |-> watch.lapsed]
        BY <1>0, <1>3 DEF SendChange, Watches
    <2>2. PICK c \in Seq(Owners) : c = watch.ch /\ c # <<>>
        BY <1>0, <1>3 DEF SendChange, Watches
    <2>3. /\ Tail(c) = <<>> => Head(c) = c[Len(c)]
          /\ Tail(c) # <<>> => Tail(c)[Len(Tail(c))] = c[Len(c)]
        <3>1. Tail(c) \in Seq(Owners) /\ Len(Tail(c)) = Len(c) - 1 /\ Head(c) = c[1]
            BY <2>2
        <3>2. Tail(c) = <<>> => Len(c) = 1
            <4>0. PICK t : t = Tail(c)
                OBVIOUS
            <4>1. t = <<>> => Len(t) = 0
                OBVIOUS
            <4>2. Len(c) \in Nat
                BY <2>2
            <4> QED BY <3>1, <4>0, <4>1, <4>2
        <3>3. Tail(c) # <<>> =>
                /\ Len(Tail(c)) \in 1..Len(Tail(c))
                /\ Len(Tail(c)) + 1 = Len(c)
            BY <2>2, <3>1
        <3>4. \A i \in 1..Len(Tail(c)) : Tail(c)[i] = c[i + 1]
            BY <2>2
        <3> QED BY <3>1, <3>2, <3>3, <3>4
    <2>4. view' = Head(c) /\ watch.pc = "loop"
        BY <1>3, <2>2 DEF SendChange
    <2>5. Final = c[Len(c)]
        BY <2>2 DEF Final, Last
    <2>6. Final' = IF Tail(c) # <<>> THEN Tail(c)[Len(Tail(c))] ELSE Head(c)
        BY <2>1, <2>2, <2>4 DEF Final, Last
    <2> QED BY <2>1, <2>3, <2>5, <2>6 DEF Subscribed
<1> QED BY <1>1, <1>2, <1>3

\* A change that is fanned out is the last the subscriber will hear of, if it
\* is still subscribed.
LEMMA FanoutFinal ==
    ASSUME Typed, NEW change \in Owners, Fanout(change)
    PROVE  Subscribed' => Final' = change
<1>1. watch \in Watches
    BY DEF Typed
<1>2. CASE ~watch'.open
    BY <1>2 DEF Subscribed
<1>3. CASE watch'.open
    <2>1. watch'.ch = Append(watch.ch, change) /\ watch.ch \in Seq(Owners)
        BY <1>1, <1>3, FanoutType DEF Watches
    <2>2. /\ Append(watch.ch, change) # <<>>
          /\ Append(watch.ch, change)[Len(Append(watch.ch, change))] = change
        BY <2>1
    <2> QED BY <2>1, <2>2 DEF Final, Last
<1> QED BY <1>2, <1>3

\* An instance enters and leaves the table together with the change that says
\* so, and a snapshot tells what the table held when the subscription began.
LEMMA InViewStep ==
    ASSUME Typed, StrayTyped, InView, [Next]_vars
    PROVE  InView'
<1>1. CASE Apply
    <2> DEFINE op == Head(pending)
    <2>1. /\ rev \in Nat /\ view' = view /\ op = pending[1]
          /\ 1 \in 1..Len(pending) /\ op \in PendingOps
        BY <1>1, ApplyEffect
    <2>2. op.owner \in Owners /\ (op.type = "register" => op.owner # {})
        BY <2>1 DEF PendingOps, Typed
    <2> HIDE DEF op
    <2>3. ASSUME watch' = watch, Exists(inst)' = Exists(inst)
          PROVE  InView'
        BY <2>1, <2>3 DEF InView, Subscribed, Final, Last
    <2>4. CASE op.type = "register" /\ ApplyRegister(op)
        <3>1. inst'.revision = rev + 1
            BY <2>4 DEF ApplyRegister
        <3>2. Exists(inst)'
            BY <2>1, <3>1 DEF Exists
        <3>3. CASE Exists(inst)
            BY <2>3, <2>4, <3>2, <3>3 DEF ApplyRegister
        <3>4. CASE ~Exists(inst)
            <4>1. Subscribed' => Final' = op.owner
                BY <2>2, <2>4, <3>4, FanoutFinal DEF ApplyRegister
            <4> QED BY <2>2, <2>4, <3>2, <4>1 DEF InView
        <3> QED BY <3>3, <3>4
    <2>5. CASE op.type = "heartbeat" /\ ApplyHeartbeat(op)
        <3>1. Exists(inst)' = Exists(inst)
            <4>1. inst \in Insts
                BY DEF Typed
            <4>2. CASE Renewable(op)
                <5>1. inst'.revision = rev + 1
                    BY <2>5, <4>1, <4>2 DEF ApplyHeartbeat, Insts
                <5> QED BY <2>1, <4>2, <5>1 DEF Exists, Renewable
            <4>3. CASE ~Renewable(op)
                BY <2>5, <4>3 DEF ApplyHeartbeat, Exists
            <4> QED BY <4>2, <4>3
        <3> QED BY <2>3, <2>5, <3>1 DEF ApplyHeartbeat
    <2>6. CASE op.type = "expire" /\ ApplyExpireServices(op)
        <3>1. CASE RemovedBy(op)
            <4>1. {} \in Owners /\ ~Exists(inst)'
                BY <2>6, <3>1 DEF Owners, ApplyExpireServices, Exists, NoInst
            <4>2. Subscribed' => Final' = {}
                BY <2>6, <3>1, <4>1, FanoutFinal DEF ApplyExpireServices
            <4> QED BY <4>1, <4>2 DEF InView
        <3>2. CASE ~RemovedBy(op)
            BY <2>3, <2>6, <3>2 DEF ApplyExpireServices, Exists
        <3> QED BY <3>1, <3>2
    <2> QED BY <1>1, <2>4, <2>5, <2>6 DEF Apply, op
<1>2. CASE ~Apply
    <2>1. inst' = inst /\ Exists(inst)' = Exists(inst)
        BY <1>2, TableKeeps DEF Exists
    <2>2. CASE UNCHANGED <<watch, view>> \/ SendSnapshot \/ SendChange
        BY <2>1, <2>2, FinalKept DEF InView
    <2>3. CASE Subscribe
        <3>1. watch' = [pc |-> "snapshot", snapshot |-> Discover, ch |-> <<>>,
                open |-> TRUE, lapsed |-> Exists(inst) /\ ~instAlive(inst)]
            BY <2>3 DEF Subscribe
        <3>2. Final' = Discover /\ watch'.lapsed = (Exists(inst) /\ ~instAlive(inst))
            BY <3>1 DEF Final
        <3>3. Exists(inst) <=> inst.owner # {}
            BY DEF Typed
        <3>4. Discover # {} => Exists(inst)
            BY DEF Discover, GetInstance, NoInst
        <3>5. Discover = {} /\ Exists(inst) => ~instAlive(inst)
            BY <3>3 DEF Discover, GetInstance
        <3> QED BY <2>1, <3>2, <3>4, <3>5 DEF InView
    <2>4. CASE Resubscribe \/ StreamBreaks
        BY <2>4 DEF Resubscribe, StreamBreaks, NewWatch, InView, Subscribed
    <2> QED BY <1>2, <2>2, <2>3, <2>4, TableKeeps DEF WatchStep
<1> QED BY <1>1, <1>2

\* The view is in keeping with the table in every reachable state.
LEMMA InViewInvariant == Spec => []InView
<1>1. Init => InView
    BY DEF Init, NewWatch, InView, Subscribed
<1> QED BY <1>1, InViewStep, TypedInvariant, PTL DEF Spec

\* However slow a subscriber is, whatever is removed while its channel is
\* full, it is not left believing in an instance that is gone: either the
\* removal is under way to it or its channel is closed (fanoutSvcLocked,
\* registry.go:83-86).
THEOREM GhostFree == Spec => []NoGhost
<1>1. InView => NoGhost
    BY DEF InView, NoGhost
<1> QED BY <1>1, InViewInvariant, PTL

\* The one thing a subscriber never hears of is the registration of an
\* instance whose lapsed entry was still in the table when it subscribed
\* (ApplyRegister, store.go:245,254).
THEOREM OnlyLapsedMissed == Spec => []MissesOnlyLapsed
<1>1. Discover # {} => Exists(inst)
    BY DEF Discover, GetInstance, NoInst
<1>2. InView => MissesOnlyLapsed
    BY <1>1 DEF InView, MissesOnlyLapsed
<1> QED BY <1>2, InViewInvariant, PTL
=============================================================================

------------------------------ MODULE Registry ------------------------------
(***************************************************************************)
(* One service instance of distconf's registry on the leader: the table    *)
(* entry (internal/store), the Register, Heartbeat and WatchInstances      *)
(* handlers (internal/server/registry.go), the sweeper that removes it     *)
(* when its lease runs out (internal/sweeper), and the SDK's Lease and     *)
(* WatchInstances on the other side (client/lease.go, client/client.go).   *)
(*                                                                         *)
(* Several processes may hold a lease on the same instance id, as when a   *)
(* service is restarted at another address.  An RPC may fail before or     *)
(* after it has put its entry in the log, and the handler of one that its  *)
(* client has given up may yet put it there.                               *)
(***************************************************************************)
EXTENDS Integers, Sequences, FiniteSets, SequencesExt

CONSTANTS
    Procs,           \* the processes that register the instance
    Ttl,             \* LeaseTtlMs
    WatcherBuffer,   \* watcherBuffer
    MaxTime,         \* bound: the clock, while a lease is kept alive
    MaxBeats,        \* bound: ticks of a lease's ticker
    MaxFaults        \* bound: failed RPCs, timeouts and broken streams

ASSUME RegistryAssumption ==
    /\ Ttl \in Nat \ {0}
    /\ WatcherBuffer \in Nat \ {0}
    /\ {MaxTime, MaxBeats, MaxFaults} \subseteq Nat

VARIABLES
    now,       \* the leader's clock
    pending,   \* the log entries not yet applied
    rev,       \* the index of the last applied one
    inst,      \* the instance's entry; NoInst when there is none
    sweep,     \* the sweeper's goroutine
    lease,     \* lease[p]: the KeepAlive goroutine of p
    stray,     \* the requests given up whose handlers have not proposed yet
    watch,     \* a WatchInstances handler with its subscription
    view,      \* what the watching client believes: nobody, or the owner
    faults

storeVars == <<pending, rev, inst>>
vars == <<now, storeVars, sweep, lease, stray, watch, view, faults>>

-----------------------------------------------------------------------------
NoInst == [owner |-> {}, revision |-> 0, expireAt |-> 0]
Exists(e) == e.revision > 0
instAlive(e) == e.expireAt = 0 \/ e.expireAt > now

GetInstance == IF Exists(inst) /\ instAlive(inst) THEN inst ELSE NoInst

\* Discover: the owner of the instance, if it is alive.
Discover == GetInstance.owner

RegisterOp(p) ==
    [type |-> "register", owner |-> {p}, guard |-> 0, expireAt |-> now + Ttl]
HeartbeatOp(guard, expireAt) ==
    [type |-> "heartbeat", owner |-> {}, guard |-> guard, expireAt |-> expireAt]
ExpireOp(guard) ==
    [type |-> "expire", owner |-> {}, guard |-> guard, expireAt |-> 0]

IdleSweep == [pc |-> "idle", guard |-> 0, index |-> 0]
NewLease == [pc |-> "register", attempt |-> 0, index |-> 0, answer |-> "none",
             guard |-> 0, expireAt |-> 0, beats |-> 0, stop |-> FALSE]
NewWatch == [pc |-> "new", snapshot |-> {}, ch |-> <<>>, open |-> FALSE,
             lapsed |-> FALSE]

\* A request whose handler has neither stamped it nor read the instance yet.
Unstamped(type, owner) ==
    [type |-> type, owner |-> owner, guard |-> 0, expireAt |-> 0]

\* The index of the newest log entry.
LastIndex == rev + Len(pending)

LeaseStates ==
    {"register", "regwait", "backoff", "ticking", "beat", "beatread",
     "beatwait", "done"}
Owners == {{}} \cup {{p} : p \in Procs}

TypeOK ==
    /\ now \in Nat
    /\ rev \in Nat
    /\ pending \in Seq([type : {"register", "heartbeat", "expire"},
                        owner : Owners, guard : 0..rev, expireAt : Nat])
    /\ inst \in [owner : Owners, revision : 0..rev, expireAt : Nat]
    /\ Exists(inst) <=> inst.owner # {}
    /\ sweep \in [pc : {"idle", "scanned", "waiting"}, guard : 0..rev,
                  index : 0..LastIndex]
    /\ lease \in [Procs -> [pc : LeaseStates, attempt : 0..1,
                            index : 0..LastIndex, guard : 0..rev,
                            answer : {"none", "ok", "gone"}, expireAt : Nat, beats : 0..MaxBeats,
                            stop : BOOLEAN]]
    /\ stray \subseteq [client : Procs, fault : 0..MaxFaults,
                        request : [type : {"register", "beat", "heartbeat"},
                                   owner : Owners, guard : 0..rev,
                                   expireAt : Nat]]
    /\ watch.pc \in {"new", "snapshot", "loop"}
    /\ watch.snapshot \in Owners
    /\ watch.ch \in Seq(Owners) /\ Len(watch.ch) \in 0..WatcherBuffer
    /\ view \in Owners
    /\ faults \in 0..MaxFaults

Init ==
    /\ now = 0
    /\ pending = <<>> /\ rev = 0 /\ inst = NoInst
    /\ sweep = IdleSweep
    /\ lease = [p \in Procs |-> NewLease]
    /\ stray = {}
    /\ watch = NewWatch
    /\ view = {}
    /\ faults = 0

Fault == faults < MaxFaults /\ faults' = faults + 1
Propose(op) == pending' = Append(pending, op) /\ UNCHANGED <<rev, inst>>

-----------------------------------------------------------------------------
(* The state machine *)

\* The commit loop hands the result to the one that waits for this index.
Resolve(answer) ==
    lease' = [p \in Procs |->
                 IF lease[p].index = rev + 1
                 THEN [lease[p] EXCEPT !.answer = answer] ELSE lease[p]]

\* Mutant: a change that does not fit is dropped, the subscription kept.
FanoutDropping(change) ==
    watch' = IF watch.open /\ Len(watch.ch) < WatcherBuffer
             THEN [watch EXCEPT !.ch = Append(@, change)] ELSE watch

\* Mutant: a slow subscriber's queue grows.
FanoutUnbounded(change) ==
    watch' = IF watch.open THEN [watch EXCEPT !.ch = Append(@, change)] ELSE watch

\* fanoutSvcLocked: a subscriber whose channel is full is closed.
Fanout(change) ==
    watch' = IF ~watch.open THEN watch
             ELSE IF Len(watch.ch) < WatcherBuffer
             THEN [watch EXCEPT !.ch = Append(@, change)]
             ELSE [watch EXCEPT !.open = FALSE]

\* Mutant: a new registration over an old entry is not announced, and one
\* that finds none is not either.
ApplyRegisterSilent(op) ==
    /\ inst' = [owner |-> op.owner, revision |-> rev + 1,
                expireAt |-> op.expireAt]
    /\ UNCHANGED watch
    /\ Resolve("ok")

\* Only an instance that had no entry is announced, expired or not.
ApplyRegister(op) ==
    /\ inst' = [owner |-> op.owner, revision |-> rev + 1,
                expireAt |-> op.expireAt]
    /\ IF Exists(inst) THEN UNCHANGED watch ELSE Fanout(op.owner)
    /\ Resolve("ok")

\* Mutant: a lapsed lease can still be renewed.
RenewableLapsed(op) == Exists(inst) /\ inst.revision = op.guard

Renewable(op) == Exists(inst) /\ inst.revision = op.guard /\ instAlive(inst)

ApplyHeartbeat(op) ==
    /\ inst' = IF Renewable(op)
               THEN [inst EXCEPT !.revision = rev + 1, !.expireAt = op.expireAt]
               ELSE inst
    /\ Resolve(IF Renewable(op) THEN "ok" ELSE "gone")
    /\ UNCHANGED watch

\* Mutant: whatever is registered now is removed.
RemovedByAny(op) == Exists(inst)

\* The guard: no heartbeat or registration since the sweeper's scan.
RemovedBy(op) == Exists(inst) /\ inst.revision = op.guard

ApplyExpireServices(op) ==
    /\ inst' = IF RemovedBy(op) THEN NoInst ELSE inst
    /\ IF RemovedBy(op) THEN Fanout({}) ELSE UNCHANGED watch
    /\ Resolve("ok")

Apply ==
    /\ pending # <<>>
    /\ rev' = rev + 1
    /\ pending' = Tail(pending)
    /\ LET op == Head(pending)
       IN  \/ op.type = "register" /\ ApplyRegister(op)
           \/ op.type = "heartbeat" /\ ApplyHeartbeat(op)
           \/ op.type = "expire" /\ ApplyExpireServices(op)
    /\ UNCHANGED <<now, sweep, stray, view, faults>>

-----------------------------------------------------------------------------
(* The sweeper: ScanExpiredInstances, propose, wait.                       *)

SweepScan ==
    /\ sweep.pc = "idle"
    /\ Exists(inst) /\ inst.expireAt # 0 /\ inst.expireAt <= now
    /\ sweep' = [IdleSweep EXCEPT !.pc = "scanned", !.guard = inst.revision]
    /\ UNCHANGED <<now, storeVars, lease, stray, watch, view, faults>>

SweepPropose ==
    /\ sweep.pc = "scanned"
    /\ Propose(ExpireOp(sweep.guard))
    /\ sweep' = [IdleSweep EXCEPT !.pc = "waiting", !.index = LastIndex + 1]
    /\ UNCHANGED <<now, lease, stray, watch, view, faults>>

SweepEnd ==
    /\ sweep.pc = "waiting"
    /\ rev >= sweep.index
    /\ sweep' = IdleSweep
    /\ UNCHANGED <<now, storeVars, lease, stray, watch, view, faults>>

SweepTimeout ==
    /\ sweep.pc = "waiting"
    /\ rev < sweep.index
    /\ Fault
    /\ sweep' = IdleSweep
    /\ UNCHANGED <<now, storeVars, lease, stray, watch, view>>

-----------------------------------------------------------------------------
(* Lease.KeepAlive, with the retry loops of Client.Register and Heartbeat. *)

Goto(p, pc, attempt, index) ==
    lease' = [lease EXCEPT ![p] =
                 [@ EXCEPT !.pc = pc, !.attempt = attempt, !.index = index,
                           !.answer = "none", !.guard = 0, !.expireAt = 0]]

\* p gives up its request, at the number k of failures: it never arrived, its
\* handler has already proposed, or the handler runs on without its client.
GiveUp(p, k) ==
    \/ UNCHANGED stray
    \/ \E request \in
            CASE lease[p].pc = "register" -> {Unstamped("register", {p})}
              [] lease[p].pc = "beat" -> {Unstamped("beat", {})}
              [] lease[p].pc = "beatread" ->
                    {HeartbeatOp(lease[p].guard, lease[p].expireAt)}
              [] OTHER -> {} :
          stray' = stray \cup
                      {[client |-> p, fault |-> k, request |-> request]}

Register(p) ==
    /\ lease[p].pc = "register"
    /\ Propose(RegisterOp(p))
    /\ Goto(p, "regwait", lease[p].attempt, LastIndex + 1)
    /\ UNCHANGED <<now, sweep, stray, watch, view, faults>>

\* The request or its answer is lost, or the proposal times out: once more,
\* unless the deadline has passed; then registerWithRetry waits an interval.
RegisterFails(p) ==
    /\ lease[p].pc \in {"register", "regwait"}
    /\ Fault
    /\ \/ lease[p].attempt = 0 /\ Goto(p, "register", 1, 0)
       \/ Goto(p, "backoff", 0, 0)
    /\ GiveUp(p, faults + 1)
    /\ UNCHANGED <<now, storeVars, sweep, watch, view>>

Registered(p) ==
    /\ lease[p].pc = "regwait"
    /\ lease[p].answer # "none"
    /\ Goto(p, "ticking", 0, 0)
    /\ UNCHANGED <<now, storeVars, sweep, stray, watch, view, faults>>

\* After the interval: again; or Stop was called, and the caller's loop goes on.
BackoffEnds(p) ==
    /\ lease[p].pc = "backoff"
    /\ \/ Goto(p, "register", 0, 0)
       \/ lease[p].stop /\ Goto(p, "ticking", 0, 0)
    /\ UNCHANGED <<now, storeVars, sweep, stray, watch, view, faults>>

TickerFires(p) ==
    /\ lease[p].pc = "ticking"
    /\ lease[p].beats < MaxBeats
    /\ lease' = [lease EXCEPT ![p].pc = "beat", ![p].beats = @ + 1]
    /\ UNCHANGED <<now, storeVars, sweep, stray, watch, view, faults>>

\* Mutant: the renewal is stamped without the lease's TTL.
HeartbeatReadNoTtl(p) ==
    /\ lease[p].pc = "beat"
    /\ IF GetInstance = NoInst
       THEN Goto(p, "register", 0, 0)
       ELSE lease' = [lease EXCEPT ![p] =
                         [@ EXCEPT !.pc = "beatread", !.guard = inst.revision]]
    /\ UNCHANGED <<now, storeVars, sweep, stray, watch, view, faults>>

\* The handler reads the instance for its guard and stamps the new expiry; a
\* lapsed instance is refused at once and registered anew.
HeartbeatRead(p) ==
    /\ lease[p].pc = "beat"
    /\ IF GetInstance = NoInst
       THEN Goto(p, "register", 0, 0)
       ELSE lease' = [lease EXCEPT ![p] =
                         [@ EXCEPT !.pc = "beatread", !.guard = inst.revision,
                                   !.expireAt = now + Ttl]]
    /\ UNCHANGED <<now, storeVars, sweep, stray, watch, view, faults>>

HeartbeatPropose(p) ==
    /\ lease[p].pc = "beatread"
    /\ Propose(HeartbeatOp(lease[p].guard, lease[p].expireAt))
    /\ Goto(p, "beatwait", lease[p].attempt, LastIndex + 1)
    /\ UNCHANGED <<now, sweep, stray, watch, view, faults>>

\* The same, and at its deadline or the second time: registered anew.
HeartbeatFails(p) ==
    /\ lease[p].pc \in {"beat", "beatread", "beatwait"}
    /\ Fault
    /\ \/ lease[p].attempt = 0 /\ Goto(p, "beat", 1, 0)
       \/ Goto(p, "register", 0, 0)
    /\ GiveUp(p, faults + 1)
    /\ UNCHANGED <<now, storeVars, sweep, watch, view>>

\* Mutant: "not found" is taken for a renewal.
HeartbeatAnsweredOk(p) ==
    /\ lease[p].pc = "beatwait"
    /\ lease[p].answer # "none"
    /\ Goto(p, "ticking", 0, 0)
    /\ UNCHANGED <<now, storeVars, sweep, stray, watch, view, faults>>

HeartbeatAnswered(p) ==
    /\ lease[p].pc = "beatwait"
    /\ lease[p].answer # "none"
    /\ Goto(p, IF lease[p].answer = "ok" THEN "ticking" ELSE "register", 0, 0)
    /\ UNCHANGED <<now, storeVars, sweep, stray, watch, view, faults>>

\* Stop closes stopCh and waits; the instance is not deregistered.
Stop(p) ==
    /\ ~lease[p].stop
    /\ lease' = [lease EXCEPT ![p].stop = TRUE]
    /\ UNCHANGED <<now, storeVars, sweep, stray, watch, view, faults>>

\* The caller's context is cancelled, or its process dies: KeepAlive is gone,
\* at any point; what it has proposed remains, and what it has asked for may
\* yet be.
Cancel(p) ==
    /\ lease[p].pc # "done"
    /\ lease' = [lease EXCEPT ![p] = [NewLease EXCEPT
                    !.pc = "done", !.beats = lease[p].beats, !.stop = TRUE]]
    /\ GiveUp(p, 0)
    /\ UNCHANGED <<now, storeVars, sweep, watch, view, faults>>

StopSeen(p) ==
    /\ lease[p].pc = "ticking"
    /\ lease[p].stop
    /\ Goto(p, "done", 0, 0)
    /\ UNCHANGED <<now, storeVars, sweep, stray, watch, view, faults>>

\* The handler of a request that was given up: it proposes, or reads the
\* instance first.  Nobody waits for the result.
StrayRuns ==
    /\ \E s \in stray :
          \/ /\ s.request.type = "register"
             /\ Propose(RegisterOp(s.client))
             /\ stray' = stray \ {s}
          \/ /\ s.request.type = "heartbeat"
             /\ Propose(s.request)
             /\ stray' = stray \ {s}
          \/ /\ s.request.type = "beat"
             /\ stray' = (stray \ {s}) \cup
                    IF GetInstance = NoInst THEN {}
                    ELSE {[s EXCEPT !.request =
                              HeartbeatOp(inst.revision, now + Ttl)]}
             /\ UNCHANGED storeVars
    /\ UNCHANGED <<now, sweep, lease, watch, view, faults>>

-----------------------------------------------------------------------------
(* WatchInstances: snapshot, then changes; a closed channel starts it over.*)

Subscribe ==
    /\ watch.pc = "new"
    /\ watch' = [pc |-> "snapshot", snapshot |-> Discover, ch |-> <<>>,
                 open |-> TRUE, lapsed |-> Exists(inst) /\ ~instAlive(inst)]
    /\ UNCHANGED <<now, storeVars, sweep, lease, stray, view, faults>>

SendSnapshot ==
    /\ watch.pc = "snapshot"
    /\ view' = watch.snapshot
    /\ watch' = [watch EXCEPT !.pc = "loop"]
    /\ UNCHANGED <<now, storeVars, sweep, lease, stray, faults>>

SendChange ==
    /\ watch.pc = "loop"
    /\ watch.ch # <<>>
    /\ view' = Head(watch.ch)
    /\ watch' = [watch EXCEPT !.ch = Tail(@)]
    /\ UNCHANGED <<now, storeVars, sweep, lease, stray, faults>>

Resubscribe ==
    /\ watch.pc = "loop"
    /\ watch.ch = <<>> /\ ~watch.open
    /\ watch' = NewWatch
    /\ UNCHANGED <<now, storeVars, sweep, lease, stray, view, faults>>

\* The stream ends; the SDK opens another one.
StreamBreaks ==
    /\ watch.pc # "new"
    /\ Fault
    /\ watch' = NewWatch
    /\ UNCHANGED <<now, storeVars, sweep, lease, stray, view>>

\* Time is bounded while a lease lives or a request is under way; then it runs
\* until all have lapsed.
Tick ==
    /\ \/ now < MaxTime
       \/ stray = {} /\ \A p \in Procs : lease[p].pc = "done"
    /\ now < MaxTime + Ttl
    /\ now' = now + 1
    /\ UNCHANGED <<storeVars, sweep, lease, stray, watch, view, faults>>

LeaseStep(p) ==
    \/ Register(p) \/ Registered(p) \/ BackoffEnds(p)
    \/ TickerFires(p)
    \/ HeartbeatRead(p) \/ HeartbeatPropose(p) \/ HeartbeatAnswered(p)

WatchStep == Subscribe \/ SendSnapshot \/ SendChange \/ Resubscribe

SweepStep == SweepScan \/ SweepPropose \/ SweepEnd

Next ==
    \/ Apply \/ Tick
    \/ SweepStep \/ SweepTimeout
    \/ \E p \in Procs :
          \/ LeaseStep(p) \/ Stop(p) \/ StopSeen(p)
          \/ Cancel(p) \/ RegisterFails(p) \/ HeartbeatFails(p)
    \/ StrayRuns
    \/ WatchStep \/ StreamBreaks

\* The commit loop, the sweeper, every handler and every KeepAlive run, and
\* time passes.
Spec ==
    /\ Init /\ [][Next]_vars
    /\ WF_vars(Apply) /\ WF_vars(Tick)
    /\ WF_vars(SweepStep) /\ WF_vars(WatchStep) /\ WF_vars(StrayRuns)
    /\ \A p \in Procs : WF_vars(LeaseStep(p)) /\ SF_vars(StopSeen(p))

-----------------------------------------------------------------------------
(* Properties *)

\* What the client will believe once it has all that is under way to it.
Final ==
    IF watch.ch # <<>> THEN Last(watch.ch)
    ELSE IF watch.pc = "snapshot" THEN watch.snapshot ELSE view

Subscribed == watch.open /\ watch.pc # "new"

\* A subscriber is not left with an instance that has been removed, however
\* slow it is (registry.go:83-86).
NoGhost == Subscribed /\ Final # {} => Exists(inst)

\* A live instance that a subscriber will not hear of is one whose lapsed
\* entry was still in the table when the subscription began (store.go:245,254;
\* against registry.go:85, which knows no exception).
MissesOnlyLapsed ==
    Subscribed /\ Final = {} /\ Discover # {} => watch.lapsed

\* Whatever happened since the sweeper's scan, its entry removes no instance
\* whose lease is still running (ApplyExpireServices, sweeper.go:8-9).
ExpirySparesRenewed ==
    pending # <<>> /\ Head(pending).type = "expire" =>
        (RemovedBy(Head(pending)) => ~instAlive(inst))

\* A lapsed instance comes back by a registration only: a heartbeat that was
\* under way when the lease ran out does not revive it (store.go:261-263).
NoRevival ==
    [][Discover = {} /\ Discover' # {} =>
          rev' = rev + 1 /\ Head(pending).type = "register"]_vars

\* A renewal or registration that is under way and has not succeeded ends
\* with the instance in the table, whatever is lost or removed meanwhile
\* (lease.go:64-67, 89-106).
LeaseRecovers ==
    \A p \in Procs :
        (lease[p].pc \notin {"ticking", "done"} /\ lease[p].answer # "ok"
            /\ ~Exists(inst))
        ~> (Exists(inst) \/ lease[p].pc = "done")

\* Once every lease has been stopped, the instance leaves the table for good,
\* although nothing deregisters it (lease.go:72, sweeper.go:110-129).
StoppedLapses ==
    (\A p \in Procs : lease[p].stop) ~> [](~Exists(inst))

\* A subscriber ends up with the set Discover returns (registry.go:83-86).
ViewConverges ==
    Subscribed /\ Discover # {} => Final = Discover
=============================================================================

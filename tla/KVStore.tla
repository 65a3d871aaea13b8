------------------------------ MODULE KVStore ------------------------------
(***************************************************************************)
(* The key-value half of distconf's state machine (internal/store) on every*)
(* node of a cluster, with the leader's write handlers (internal/server/   *)
(* kv.go) and the TTL sweeper (internal/sweeper).                          *)
(*                                                                         *)
(* The nodes apply one log in order, each at its own pace and by its own   *)
(* clock; module Replication shows that this is what the log delivers.  A  *)
(* value is identified by the revision that wrote it.  A follower may start*)
(* again with an empty store, or be given the leader's snapshot.           *)
(***************************************************************************)
EXTENDS Integers, Sequences, FiniteSets

CONSTANTS
    Nodes,         \* the cluster
    Leader,        \* its static leader
    Keys,
    Ttls,          \* TtlMs of a Put; 0: the value never expires
    Versions,      \* the versions a request may expect, besides -1
    MaxWrites,     \* bound: Put and Delete requests
    MaxTime,       \* bound: the leader's clock
    MaxSkew,       \* bound: how far a follower's clock may be ahead
    MaxTimeouts,   \* bound: sweeper proposals that time out
    MaxRestarts    \* bound: follower restarts

ASSUME LeaderAssumption == Leader \in Nodes
ASSUME RequestAssumption == Ttls \subseteq Nat /\ Versions \subseteq Nat
ASSUME BoundsAssumption ==
    {MaxWrites, MaxTime, MaxSkew, MaxTimeouts, MaxRestarts} \subseteq Nat

VARIABLES
    now,        \* the leader's clock
    skew,       \* skew[n]: how far n's clock is ahead of it
    log,        \* the replicated log
    rev,        \* rev[n]: n has applied log[1..rev[n]]
    kvs,        \* kvs[n][k]: n's entry of k, Absent when there is none
    result,     \* result[i]: what the leader's state machine said of log[i]
    sweep,      \* the sweeper's goroutine
    timeouts, restarts

storeVars == <<rev, kvs, result>>
budgetVars == <<timeouts, restarts>>
vars == <<now, skew, log, storeVars, sweep, budgetVars>>

-----------------------------------------------------------------------------
(* kvEntry: its version is at least 1, so version 0 stands for no entry.   *)

Entries == [version : Nat, revision : Nat, expireAt : Nat]
Absent == [version |-> 0, revision |-> 0, expireAt |-> 0]
Exists(e) == e.version > 0

nowMs(n) == now + skew[n]

aliveKV(n, e) == e.expireAt = 0 \/ e.expireAt > nowMs(n)

\* The entry a node takes to be there: an expired one counts as none.
Get(n, k) == IF aliveKV(n, kvs[n][k]) THEN kvs[n][k] ELSE Absent

\* Mutant: a version that is too new passes.
checkVersionAtLeast(expected, e) ==
    \/ expected = -1
    \/ expected = 0 /\ ~Exists(e)
    \/ expected > 0 /\ e.version >= expected

\* -1: no check; 0: there must be no entry; otherwise the version must match.
checkVersion(expected, e) ==
    \/ expected = -1
    \/ expected = 0 /\ ~Exists(e)
    \/ expected > 0 /\ e.version = expected

-----------------------------------------------------------------------------
(* Log entries and their application: the new state and the answer.        *)

PutOp(k, expected, expireAt) ==
    [type |-> "put", key |-> k, expected |-> expected, expireAt |-> expireAt]
DeleteOp(k, expected) ==
    [type |-> "delete", key |-> k, expected |-> expected]
ExpireOp(items) == [type |-> "expire", items |-> items]

Outcome(state, answer) == [state |-> state, answer |-> answer]

ApplyPut(n, op) ==
    LET cur == Get(n, op.key)
        new == [version |-> cur.version + 1, revision |-> rev[n] + 1,
                expireAt |-> op.expireAt]
    IN  IF checkVersion(op.expected, cur)
        THEN Outcome([kvs[n] EXCEPT ![op.key] = new], "ok")
        ELSE Outcome(kvs[n], "conflict")

ApplyDelete(n, op) ==
    LET cur == Get(n, op.key)
    IN  IF ~Exists(cur)
        THEN Outcome(kvs[n], IF op.expected > 0 THEN "conflict" ELSE "missing")
        ELSE IF checkVersion(op.expected, cur)
        THEN Outcome([kvs[n] EXCEPT ![op.key] = Absent], "ok")
        ELSE Outcome(kvs[n], "conflict")

\* Mutant: the guard is not compared.
ApplyExpireKeysUnguarded(n, op) ==
    Outcome([k \in Keys |-> IF \E it \in op.items : it.key = k
                            THEN Absent ELSE kvs[n][k]], "ok")

\* Only the value the sweeper saw is removed, not one put since.
ApplyExpireKeys(n, op) ==
    Outcome([k \in Keys |->
                IF \E it \in op.items :
                      it.key = k /\ it.guard = kvs[n][k].revision
                THEN Absent ELSE kvs[n][k]], "ok")

applyOne(n, op) ==
    CASE op.type = "put"    -> ApplyPut(n, op)
      [] op.type = "delete" -> ApplyDelete(n, op)
      [] op.type = "expire" -> ApplyExpireKeys(n, op)

-----------------------------------------------------------------------------
Idle == [pc |-> "idle", items |-> {}, index |-> 0]
Items == [key : Keys, guard : Nat]
Ops == [type : {"put"}, key : Keys, expected : Int, expireAt : Nat]
          \cup [type : {"delete"}, key : Keys, expected : Int]
          \cup [type : {"expire"}, items : SUBSET Items]

TypeOK ==
    /\ now \in Nat
    /\ skew \in [Nodes -> Nat]
    /\ log \in Seq(Ops)
    /\ rev \in [Nodes -> 0..Len(log)]
    /\ kvs \in [Nodes -> [Keys -> Entries]]
    /\ result \in Seq({"ok", "conflict", "missing"})
    /\ Len(result) = rev[Leader]
    /\ sweep \in [pc : {"idle", "scanned", "waiting"}, items : SUBSET Items,
                  index : 0..Len(log)]
    /\ timeouts \in 0..MaxTimeouts
    /\ restarts \in 0..MaxRestarts

Empty == [k \in Keys |-> Absent]

\* New: every store is empty; the clocks differ by at most MaxSkew.
Init ==
    /\ now = 0
    /\ skew \in {f \in [Nodes -> 0..MaxSkew] : f[Leader] = 0}
    /\ log = <<>>
    /\ rev = [n \in Nodes |-> 0]
    /\ kvs = [n \in Nodes |-> Empty]
    /\ result = <<>>
    /\ sweep = Idle
    /\ timeouts = 0
    /\ restarts = 0

-----------------------------------------------------------------------------
(* The leader's handlers stamp the request and propose it.                 *)

Propose(op) ==
    /\ log' = Append(log, op)
    /\ UNCHANGED <<now, skew, storeVars, budgetVars>>

Writes == Cardinality({i \in DOMAIN log : log[i].type # "expire"})

\* The absolute expiry is stamped once, by the leader's clock.
Put(k, ttl, expected) ==
    /\ Writes < MaxWrites
    /\ Propose(PutOp(k, expected,
                     IF ttl > 0 THEN nowMs(Leader) + ttl ELSE 0))
    /\ UNCHANGED sweep

\* An expected version of 0 means "not given" here.
Delete(k, expected) ==
    /\ Writes < MaxWrites
    /\ Propose(DeleteOp(k, IF expected = 0 THEN -1 ELSE expected))
    /\ UNCHANGED sweep

\* Mutant: a conflict leaves its proposer without an answer.
ApplyConflictSilent(n) ==
    /\ rev[n] < Len(log)
    /\ LET out == applyOne(n, log[rev[n] + 1])
       IN  /\ kvs' = [kvs EXCEPT ![n] = out.state]
           /\ result' = IF n = Leader /\ out.answer # "conflict"
                        THEN Append(result, out.answer) ELSE result
    /\ rev' = [rev EXCEPT ![n] = @ + 1]
    /\ UNCHANGED <<now, skew, log, sweep, budgetVars>>

\* A node applies its next log entry; the leader keeps the answer for Propose.
Apply(n) ==
    /\ rev[n] < Len(log)
    /\ LET out == applyOne(n, log[rev[n] + 1])
       IN  /\ kvs' = [kvs EXCEPT ![n] = out.state]
           /\ result' = IF n = Leader THEN Append(result, out.answer)
                        ELSE result
    /\ rev' = [rev EXCEPT ![n] = @ + 1]
    /\ UNCHANGED <<now, skew, log, sweep, budgetVars>>

-----------------------------------------------------------------------------
(* The sweeper, on the leader: scan, propose, wait for the result.         *)

ScanExpiredKVs ==
    {it \in [key : Keys, guard : {kvs[Leader][k].revision : k \in Keys}] :
        LET e == kvs[Leader][it.key]
        IN  it.guard = e.revision /\ e.expireAt # 0
                /\ e.expireAt <= nowMs(Leader)}

\* Mutant: the goroutine gives up once a proposal has timed out.
SweepScanNoRetry ==
    /\ sweep.pc = "idle"
    /\ timeouts = 0
    /\ ScanExpiredKVs # {}
    /\ sweep' = [Idle EXCEPT !.pc = "scanned", !.items = ScanExpiredKVs]
    /\ UNCHANGED <<now, skew, log, storeVars, budgetVars>>

SweepScan ==
    /\ sweep.pc = "idle"
    /\ ScanExpiredKVs # {}
    /\ sweep' = [Idle EXCEPT !.pc = "scanned", !.items = ScanExpiredKVs]
    /\ UNCHANGED <<now, skew, log, storeVars, budgetVars>>

SweepPropose ==
    /\ sweep.pc = "scanned"
    /\ Propose(ExpireOp(sweep.items))
    /\ sweep' = [Idle EXCEPT !.pc = "waiting", !.index = Len(log) + 1]

SweepDone ==
    /\ sweep.pc = "waiting"
    /\ rev[Leader] >= sweep.index
    /\ sweep' = Idle
    /\ UNCHANGED <<now, skew, log, storeVars, budgetVars>>

\* The entry stays in the log; the next tick scans again.
SweepTimeout ==
    /\ sweep.pc = "waiting"
    /\ rev[Leader] < sweep.index
    /\ timeouts < MaxTimeouts
    /\ timeouts' = timeouts + 1
    /\ sweep' = Idle
    /\ UNCHANGED <<now, skew, log, storeVars, restarts>>

-----------------------------------------------------------------------------
(* Snapshots, restarts, time.                                              *)

\* What is expired but not yet swept is part of a snapshot.
ExportSnapshot == [revision |-> rev[Leader], kvs |-> kvs[Leader]]

\* Mutant: entries the snapshot does not have survive it.
RestoreSnapshotMerging(n) ==
    /\ n # Leader
    /\ rev[Leader] >= rev[n]
    /\ kvs' = [kvs EXCEPT ![n] =
                  [k \in Keys |-> IF Exists(kvs[Leader][k]) THEN kvs[Leader][k]
                                  ELSE kvs[n][k]]]
    /\ rev' = [rev EXCEPT ![n] = rev[Leader]]
    /\ UNCHANGED <<now, skew, log, result, sweep, budgetVars>>

\* The leader exports, n restores, unless the snapshot is older than its store.
\* One step: what n applies in between, the restore overwrites.
RestoreSnapshot(n) ==
    /\ n # Leader
    /\ ExportSnapshot.revision >= rev[n]
    /\ kvs' = [kvs EXCEPT ![n] = ExportSnapshot.kvs]
    /\ rev' = [rev EXCEPT ![n] = ExportSnapshot.revision]
    /\ UNCHANGED <<now, skew, log, result, sweep, budgetVars>>

\* Nothing is kept on disk.
Restart(n) ==
    /\ n # Leader
    /\ restarts < MaxRestarts
    /\ restarts' = restarts + 1
    /\ rev' = [rev EXCEPT ![n] = 0]
    /\ kvs' = [kvs EXCEPT ![n] = Empty]
    /\ UNCHANGED <<now, skew, log, result, sweep, timeouts>>

Tick ==
    /\ now < MaxTime
    /\ now' = now + 1
    /\ UNCHANGED <<skew, log, storeVars, sweep, budgetVars>>

-----------------------------------------------------------------------------
\* What goes on without requests.
Background ==
    \/ \E n \in Nodes : Apply(n) \/ RestoreSnapshot(n)
    \/ SweepScan \/ SweepPropose \/ SweepDone \/ SweepTimeout
    \/ Tick

Next ==
    \/ \E k \in Keys, ttl \in Ttls, e \in Versions \cup {-1} : Put(k, ttl, e)
    \/ \E k \in Keys, e \in Versions \cup {-1} : Delete(k, e)
    \/ Background
    \/ \E n \in Nodes : Restart(n)

Spec == Init /\ [][Next]_vars

-----------------------------------------------------------------------------
(* Properties *)

\* Up to index i, no Put of k carried a TTL.
TtlFree(k, i) ==
    \A m \in 1..i : log[m].type = "put" /\ log[m].key = k
                        => log[m].expireAt = 0

\* Nodes that have applied the same prefix hold the same versions of every
\* key that was never given a TTL, whether they applied the log, replayed it
\* after a restart or were given a snapshot (store.go:152-154).
TtlFreeAgree ==
    \A m, n \in Nodes : rev[m] = rev[n] =>
        \A k \in Keys : TtlFree(k, rev[n]) => kvs[m][k] = kvs[n][k]

\* Nodes that have applied the same prefix hold the same entries: what
\* DESIGN.md and the comments of ApplyPut say of every key.
StoresAgree ==
    \A m, n \in Nodes : rev[m] = rev[n] => kvs[m] = kvs[n]

\* Whatever happened between the sweeper's scan and the application of its
\* entry, on whichever node: it removes no value that is still alive by the
\* leader's clock (ApplyExpireKeys' guard, sweeper.go:8-9).
ExpirySparesFresh ==
    \A n \in Nodes :
        rev[n] < Len(log) /\ log[rev[n] + 1].type = "expire" =>
            \A k \in Keys :
                /\ Exists(kvs[n][k])
                /\ applyOne(n, log[rev[n] + 1]).state[k] = Absent
                => ~aliveKV(Leader, kvs[n][k])

Wins(i, k) == log[i].type = "put" /\ log[i].key = k /\ result[i] = "ok"

\* Between i and j the value of k went away: deleted, or expired by now.
Removed(i, j, k) ==
    \E m \in i..(j - 1) :
        \/ log[m].type = "delete" /\ log[m].key = k /\ result[m] = "ok"
        \/ /\ Wins(m, k)
           /\ log[m].expireAt # 0
           /\ log[m].expireAt <= nowMs(Leader)

\* Of the Puts that expect one and the same version of a key, one wins,
\* unless the key was removed in between (kv.go:25-26).
CasOnce ==
    \A i, j \in 1..Len(result), k \in Keys :
        /\ i < j
        /\ Wins(i, k) /\ Wins(j, k)
        /\ log[i].expected = log[j].expected
        /\ log[i].expected # -1
        => Removed(i, j, k)

\* The leader does not keep an expired value: the sweeper removes it or a Put
\* replaces it, although proposals of the sweeper time out, their entries are
\* applied late and the value they were about may be another by then
\* (sweeper.go:89-108).
Swept ==
    \A k \in Keys : []<>aliveKV(Leader, kvs[Leader][k])
=============================================================================

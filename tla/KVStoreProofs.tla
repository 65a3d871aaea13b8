--------------------------- MODULE KVStoreProofs ---------------------------
(***************************************************************************)
(* Machine-checked proofs about KVStore, for any cluster, keys, TTLs and   *)
(* versions, and any number of requests, ticks, timeouts and restarts.     *)
(***************************************************************************)
EXTENDS KVStore, SequenceTheorems, TLAPS

USE LeaderAssumption
USE DEF storeVars, budgetVars

-----------------------------------------------------------------------------
(* What one entry of the log does to one key.                              *)

\* The entry of k once op, at index i, is applied where the entry was e and
\* counted as cur (e, or Absent when e has expired there).
StepEntry(cur, e, op, k, i) ==
    IF op.type = "put" /\ op.key = k /\ checkVersion(op.expected, cur)
    THEN [version |-> cur.version + 1, revision |-> i,
          expireAt |-> op.expireAt]
    ELSE IF \/ /\ op.type = "delete" /\ op.key = k
               /\ Exists(cur) /\ checkVersion(op.expected, cur)
            \/ /\ op.type = "expire"
               /\ \E it \in op.items : it.key = k /\ it.guard = e.revision
    THEN Absent
    ELSE e

\* The kinds of log entries and their fields (log.proto's oneof).
LEMMA OpKinds ==
    ASSUME NEW op \in Ops
    PROVE  \/ /\ op.type = "put" /\ op.key \in Keys
              /\ op.expected \in Int /\ op.expireAt \in Nat
           \/ op.type = "delete" /\ op.key \in Keys /\ op.expected \in Int
           \/ op.type = "expire" /\ op.items \in SUBSET Items
BY DEF Ops

\* The entry a node takes to be there is an entry.
LEMMA GetType ==
    ASSUME TypeOK, NEW n \in Nodes, NEW k \in Keys
    PROVE  /\ kvs[n][k] \in Entries
           /\ Get(n, k) \in Entries
           /\ Get(n, k) \in {kvs[n][k], Absent}
BY DEF TypeOK, Get, Entries, Absent

\* applyOne (store.go) works key by key, as StepEntry says.
LEMMA ApplyEffect ==
    ASSUME TypeOK, NEW n \in Nodes, NEW op \in Ops
    PROVE  applyOne(n, op).state =
               [k \in Keys |->
                   StepEntry(Get(n, k), kvs[n][k], op, k, rev[n] + 1)]
<1> DEFINE Stepped == [k \in Keys |->
                        StepEntry(Get(n, k), kvs[n][k], op, k, rev[n] + 1)]
<1>0. kvs[n] \in [Keys -> Entries]
    BY DEF TypeOK
<1>1. CASE op.type = "put" /\ op.key \in Keys
    <2>1. applyOne(n, op) = ApplyPut(n, op)
        BY <1>1 DEF applyOne
    <2>2. CASE checkVersion(op.expected, Get(n, op.key))
        <3>1. ApplyPut(n, op).state =
                [kvs[n] EXCEPT ![op.key] =
                    [version |-> Get(n, op.key).version + 1,
                     revision |-> rev[n] + 1, expireAt |-> op.expireAt]]
            BY <2>2 DEF ApplyPut, Outcome
        <3>2. ASSUME NEW k \in Keys
              PROVE  ApplyPut(n, op).state[k] = Stepped[k]
            BY <1>0, <1>1, <2>2, <3>1 DEF StepEntry
        <3> QED BY <1>0, <1>1, <2>1, <3>1, <3>2
    <2>3. CASE ~checkVersion(op.expected, Get(n, op.key))
        <3>1. ApplyPut(n, op).state = kvs[n]
            BY <2>3 DEF ApplyPut, Outcome
        <3>2. ASSUME NEW k \in Keys PROVE kvs[n][k] = Stepped[k]
            BY <1>1, <2>3 DEF StepEntry
        <3> QED BY <1>0, <2>1, <3>1, <3>2
    <2> QED BY <2>2, <2>3
<1>2. CASE op.type = "delete" /\ op.key \in Keys
    <2>1. applyOne(n, op) = ApplyDelete(n, op)
        BY <1>2 DEF applyOne
    <2>2. CASE /\ Exists(Get(n, op.key))
               /\ checkVersion(op.expected, Get(n, op.key))
        <3>1. ApplyDelete(n, op).state = [kvs[n] EXCEPT ![op.key] = Absent]
            BY <2>2 DEF ApplyDelete, Outcome
        <3>2. ASSUME NEW k \in Keys
              PROVE  ApplyDelete(n, op).state[k] = Stepped[k]
            BY <1>0, <1>2, <2>2, <3>1 DEF StepEntry
        <3> QED BY <1>0, <1>2, <2>1, <3>1, <3>2
    <2>3. CASE ~(/\ Exists(Get(n, op.key))
                 /\ checkVersion(op.expected, Get(n, op.key)))
        <3>1. ApplyDelete(n, op).state = kvs[n]
            BY <2>3 DEF ApplyDelete, Outcome
        <3>2. ASSUME NEW k \in Keys PROVE kvs[n][k] = Stepped[k]
            BY <1>2, <2>3 DEF StepEntry
        <3> QED BY <1>0, <2>1, <3>1, <3>2
    <2> QED BY <2>2, <2>3
<1>3. CASE op.type = "expire"
    <2>1. applyOne(n, op) = ApplyExpireKeys(n, op)
        BY <1>3 DEF applyOne
    <2> QED BY <1>3, <2>1 DEF ApplyExpireKeys, Outcome, StepEntry
<1> QED BY <1>1, <1>2, <1>3, OpKinds

\* What it answers: "ok" exactly when the version check lets the write pass.
LEMMA ApplyAnswer ==
    ASSUME TypeOK, NEW n \in Nodes, NEW op \in Ops
    PROVE  /\ applyOne(n, op).answer \in {"ok", "conflict", "missing"}
           /\ op.type = "put" =>
                (applyOne(n, op).answer = "ok"
                    <=> checkVersion(op.expected, Get(n, op.key)))
           /\ op.type = "delete" =>
                (applyOne(n, op).answer = "ok"
                    <=> /\ Exists(Get(n, op.key))
                        /\ checkVersion(op.expected, Get(n, op.key)))
<1>1. CASE op.type = "put"
    BY <1>1 DEF applyOne, ApplyPut, Outcome
<1>2. CASE op.type = "delete"
    BY <1>2 DEF applyOne, ApplyDelete, Outcome
<1>3. CASE op.type = "expire"
    BY <1>3 DEF applyOne, ApplyExpireKeys, Outcome
<1> QED BY <1>1, <1>2, <1>3, OpKinds

\* Applying an entry leaves entries.
LEMMA StepEntryType ==
    ASSUME NEW cur \in Entries, NEW e \in Entries, NEW op \in Ops,
           NEW k \in Keys, NEW i \in Nat
    PROVE  StepEntry(cur, e, op, k, i) \in Entries
BY OpKinds DEF StepEntry, Entries, Absent

-----------------------------------------------------------------------------
(* Type correctness                                                        *)

SweepStates == [pc : {"idle", "scanned", "waiting"}, items : SUBSET Items,
                index : 0..Len(log)]

\* A proposal appends one operation and leaves the stores alone.
LEMMA ProposeType ==
    ASSUME TypeOK, NEW op \in Ops, Propose(op)
    PROVE  /\ log' \in Seq(Ops)
           /\ Len(log') = Len(log) + 1
           /\ log'[Len(log) + 1] = op
           /\ \A i \in 1..Len(log) : log'[i] = log[i]
           /\ rev' \in [Nodes -> 0..Len(log')]
           /\ SweepStates \subseteq SweepStates'
<1>1. log' = Append(log, op) /\ rev' = rev
    BY DEF Propose
<1>2. /\ log' \in Seq(Ops)
      /\ Len(log') = Len(log) + 1
      /\ log'[Len(log) + 1] = op
      /\ \A i \in 1..Len(log) : log'[i] = log[i]
    BY <1>1 DEF TypeOK
<1>3. \A i \in 0..Len(log) : i \in 0..Len(log')
    BY <1>2 DEF TypeOK
<1> QED BY <1>1, <1>2, <1>3 DEF TypeOK, SweepStates

\* An applied entry is one of the log, and moves the node one index on.
LEMMA ApplyType ==
    ASSUME TypeOK, NEW n \in Nodes, Apply(n)
    PROVE  /\ rev[n] \in Nat /\ rev[n] + 1 \in 1..Len(log)
           /\ log[rev[n] + 1] \in Ops
           /\ rev' = [rev EXCEPT ![n] = rev[n] + 1]
           /\ kvs' = [kvs EXCEPT ![n] = applyOne(n, log[rev[n] + 1]).state]
           /\ n = Leader =>
                 result' = Append(result, applyOne(n, log[rev[n] + 1]).answer)
           /\ n # Leader => result' = result
           /\ UNCHANGED <<now, skew, log, sweep, timeouts, restarts>>
<1>1. rev[n] \in Nat /\ rev[n] + 1 \in 1..Len(log)
    BY DEF TypeOK, Apply
<1>2. log[rev[n] + 1] \in Ops
    BY <1>1 DEF TypeOK
<1> QED BY <1>1, <1>2 DEF Apply, TypeOK

\* Every request, application, sweep, snapshot and restart keeps the stores,
\* the log and the sweeper well typed.
LEMMA TypeStep ==
    ASSUME TypeOK, [Next]_vars
    PROVE  TypeOK'
<1>1. ASSUME NEW k \in Keys, NEW ttl \in Ttls, NEW e \in Versions \cup {-1},
             Put(k, ttl, e)
      PROVE  TypeOK'
    <2>1. nowMs(Leader) \in Nat /\ ttl \in Nat /\ e \in Int
        BY RequestAssumption DEF nowMs, TypeOK
    <2>2. PICK x \in Nat : Propose(PutOp(k, e, x))
        BY <1>1, <2>1 DEF Put
    <2>3. PutOp(k, e, x) \in Ops
        BY <2>1 DEF PutOp, Ops
    <2> QED BY <1>1, <2>2, <2>3, ProposeType DEF Put, Propose, TypeOK, SweepStates
<1>2. ASSUME NEW k \in Keys, NEW e \in Versions \cup {-1}, Delete(k, e)
      PROVE  TypeOK'
    <2>1. PICK x \in Int : Propose(DeleteOp(k, x))
        BY <1>2, RequestAssumption DEF Delete
    <2>2. DeleteOp(k, x) \in Ops
        BY DEF DeleteOp, Ops
    <2> QED BY <1>2, <2>1, <2>2, ProposeType
            DEF Delete, Propose, TypeOK, SweepStates
<1>3. ASSUME NEW n \in Nodes, Apply(n) PROVE TypeOK'
    <2> DEFINE op == log[rev[n] + 1]
    <2>1. applyOne(n, op).state \in [Keys -> Entries]
        <3>1. \A k \in Keys :
                StepEntry(Get(n, k), kvs[n][k], op, k, rev[n] + 1) \in Entries
            BY <1>3, ApplyType, GetType, StepEntryType
        <3>2. applyOne(n, op).state =
                [k \in Keys |->
                    StepEntry(Get(n, k), kvs[n][k], op, k, rev[n] + 1)]
            BY <1>3, ApplyType, ApplyEffect
        <3> HIDE DEF op
        <3> QED BY <3>1, <3>2
    <2>2. kvs' \in [Nodes -> [Keys -> Entries]]
        <3>1. kvs' = [kvs EXCEPT ![n] = applyOne(n, op).state]
            BY <1>3, ApplyType
        <3>2. kvs \in [Nodes -> [Keys -> Entries]]
            BY DEF TypeOK
        <3> HIDE DEF op
        <3> QED BY <2>1, <3>1, <3>2
    <2>3. rev' \in [Nodes -> 0..Len(log)]
        <3>1. rev[n] + 1 \in 0..Len(log)
            BY <1>3, ApplyType DEF TypeOK
        <3>2. rev' = [rev EXCEPT ![n] = rev[n] + 1]
            BY <1>3, ApplyType
        <3>3. rev \in [Nodes -> 0..Len(log)]
            BY DEF TypeOK
        <3> QED BY <3>1, <3>2, <3>3
    <2>4. result' \in Seq({"ok", "conflict", "missing"})
        <3>1. applyOne(n, op).answer \in {"ok", "conflict", "missing"}
            BY <1>3, ApplyType, ApplyAnswer
        <3>2. \/ result' = Append(result, applyOne(n, op).answer)
              \/ result' = result
            BY <1>3, ApplyType
        <3>3. result \in Seq({"ok", "conflict", "missing"})
            BY DEF TypeOK
        <3> HIDE DEF op
        <3> QED BY <3>1, <3>2, <3>3, AppendProperties
    <2>5. Len(result') = rev'[Leader]
        <3>1. /\ rev' = [rev EXCEPT ![n] = rev[n] + 1]
              /\ n = Leader => result' = Append(result, applyOne(n, op).answer)
              /\ n # Leader => result' = result
            BY <1>3, ApplyType
        <3>2. applyOne(n, op).answer \in {"ok", "conflict", "missing"}
            BY <1>3, ApplyType, ApplyAnswer
        <3>3. /\ result \in Seq({"ok", "conflict", "missing"})
              /\ Len(result) = rev[Leader]
              /\ rev \in [Nodes -> 0..Len(log)]
            BY DEF TypeOK
        <3> HIDE DEF op
        <3>4. rev'[Leader] = IF n = Leader THEN rev[Leader] + 1 ELSE rev[Leader]
            BY <3>1, <3>3
        <3> QED BY <3>1, <3>2, <3>3, <3>4
    <2> QED BY <1>3, <2>2, <2>3, <2>4, <2>5, ApplyType DEF TypeOK
<1>4. ASSUME NEW n \in Nodes, RestoreSnapshot(n) PROVE TypeOK'
    BY <1>4 DEF RestoreSnapshot, ExportSnapshot, TypeOK
<1>5. CASE SweepScan
    <2>1. ScanExpiredKVs \in SUBSET Items
        <3>1. \A k \in Keys : kvs[Leader][k].revision \in Nat
            BY GetType DEF Entries
        <3> QED BY <3>1 DEF ScanExpiredKVs, Items
    <2>2. sweep' = [pc |-> "scanned", items |-> ScanExpiredKVs, index |-> 0]
        BY <1>5 DEF SweepScan, Idle
    <2>3. sweep' \in SweepStates
        BY <2>1, <2>2 DEF SweepStates, TypeOK
    <2> QED BY <1>5, <2>3 DEF SweepScan, TypeOK, SweepStates
<1>6. CASE SweepPropose
    <2>1. ExpireOp(sweep.items) \in Ops
        BY DEF ExpireOp, Ops, TypeOK
    <2>2. Propose(ExpireOp(sweep.items))
        BY <1>6 DEF SweepPropose
    <2>3. sweep' = [pc |-> "waiting", items |-> {}, index |-> Len(log) + 1]
        BY <1>6 DEF SweepPropose, Idle
    <2>4. Len(log) \in Nat /\ Len(log') = Len(log) + 1
        BY <2>1, <2>2, ProposeType DEF TypeOK
    <2>5. sweep' \in SweepStates'
        BY <2>3, <2>4 DEF SweepStates
    <2> QED BY <2>1, <2>2, <2>5, ProposeType DEF Propose, TypeOK, SweepStates
<1>7. CASE SweepDone \/ SweepTimeout
    <2>1. sweep' \in SweepStates
        BY <1>7 DEF SweepDone, SweepTimeout, Idle, SweepStates, TypeOK
    <2>2. UNCHANGED <<now, skew, log, rev, kvs, result, restarts>>
        BY <1>7 DEF SweepDone, SweepTimeout
    <2>3. timeouts' \in 0..MaxTimeouts
        <3>1. timeouts \in 0..MaxTimeouts
            BY DEF TypeOK
        <3>2. \/ timeouts' = timeouts
              \/ timeouts < MaxTimeouts /\ timeouts' = timeouts + 1
            BY <1>7 DEF SweepDone, SweepTimeout
        <3> QED BY <3>1, <3>2, BoundsAssumption
    <2> QED BY <2>1, <2>2, <2>3 DEF TypeOK, SweepStates
<1>8. CASE Tick
    BY <1>8 DEF Tick, TypeOK
<1>9. ASSUME NEW n \in Nodes, Restart(n) PROVE TypeOK'
    <2>1. Empty \in [Keys -> Entries]
        BY DEF Empty, Absent, Entries
    <2>2. 0 \in 0..Len(log)
        BY DEF TypeOK
    <2>3. rev' \in [Nodes -> 0..Len(log)] /\ kvs' \in [Nodes -> [Keys -> Entries]]
        BY <1>9, <2>1, <2>2 DEF Restart, TypeOK
    <2>4. restarts' \in 0..MaxRestarts
        BY <1>9, BoundsAssumption DEF Restart, TypeOK
    <2>5. rev'[Leader] = rev[Leader]
        BY <1>9 DEF Restart, TypeOK
    <2> QED BY <1>9, <2>3, <2>4, <2>5 DEF Restart, TypeOK
<1>10. CASE UNCHANGED vars
    BY <1>10 DEF vars, TypeOK
<1> QED
    BY <1>1, <1>2, <1>3, <1>4, <1>5, <1>6, <1>7, <1>8, <1>9, <1>10
       DEF Next, Background

\* A new cluster is well typed.
LEMMA InitType ==
    ASSUME Init
    PROVE  TypeOK
<1>1. kvs \in [Nodes -> [Keys -> Entries]]
    BY DEF Init, Empty, Absent, Entries
<1>2. sweep \in SweepStates
    BY DEF Init, Idle, SweepStates
<1>3. log \in Seq(Ops) /\ result \in Seq({"ok", "conflict", "missing"})
    BY DEF Init
<1>4. rev \in [Nodes -> 0..Len(log)] /\ Len(result) = rev[Leader]
    BY DEF Init
<1>5. timeouts \in 0..MaxTimeouts /\ restarts \in 0..MaxRestarts
    BY BoundsAssumption DEF Init
<1>6. skew \in [Nodes -> Nat]
    BY DEF Init
<1> QED BY <1>1, <1>2, <1>3, <1>4, <1>5, <1>6 DEF Init, TypeOK, SweepStates

\* The stores, the log, the leader's answers and the sweeper stay well typed:
\* no node applies what the log does not have, and the leader has answered
\* exactly what it has applied.
THEOREM TypeCorrect == Spec => []TypeOK
BY InitType, TypeStep, PTL DEF Spec

-----------------------------------------------------------------------------
(* The steps, as the invariants below tell them apart.                     *)

\* A request, or what the sweeper has scanned, enters the log.
Proposed(op) ==
    /\ Propose(op)
    /\ \/ op.type # "expire" /\ sweep' = sweep
       \/ op = ExpireOp(sweep.items) /\ sweep'.items = {}

\* A follower's store is replaced: by the leader's, or by an empty one.
Replaced(n) ==
    /\ n # Leader
    /\ \/ /\ kvs' = [kvs EXCEPT ![n] = kvs[Leader]]
          /\ rev' = [rev EXCEPT ![n] = rev[Leader]]
       \/ /\ kvs' = [kvs EXCEPT ![n] = Empty]
          /\ rev' = [rev EXCEPT ![n] = 0]
    /\ UNCHANGED <<now, skew, log, result, sweep>>

\* At most the leader's clock goes on and the sweeper drops its items.
Quiet ==
    /\ UNCHANGED <<skew, log, rev, kvs, result>>
    /\ now' >= now
    /\ sweep' = sweep \/ sweep'.items = {}

\* Every step of the cluster is one of these.
LEMMA StepCases ==
    ASSUME TypeOK, [Next]_vars
    PROVE  \/ \E op \in Ops : Proposed(op)
           \/ \E n \in Nodes : Apply(n) \/ Replaced(n)
           \/ SweepScan
           \/ Quiet
<1>1. ASSUME NEW k \in Keys, NEW ttl \in Ttls, NEW e \in Versions \cup {-1},
             Put(k, ttl, e)
      PROVE  \E op \in Ops : Proposed(op)
    <2>1. nowMs(Leader) \in Nat /\ ttl \in Nat /\ e \in Int
        BY RequestAssumption DEF nowMs, TypeOK
    <2>2. PICK x \in Nat : Propose(PutOp(k, e, x))
        BY <1>1, <2>1 DEF Put
    <2>3. PutOp(k, e, x) \in Ops /\ PutOp(k, e, x).type # "expire"
        BY <2>1 DEF PutOp, Ops
    <2> QED BY <1>1, <2>2, <2>3 DEF Put, Proposed
<1>2. ASSUME NEW k \in Keys, NEW e \in Versions \cup {-1}, Delete(k, e)
      PROVE  \E op \in Ops : Proposed(op)
    <2>1. PICK x \in Int : Propose(DeleteOp(k, x))
        BY <1>2, RequestAssumption DEF Delete
    <2>2. DeleteOp(k, x) \in Ops /\ DeleteOp(k, x).type # "expire"
        BY DEF DeleteOp, Ops
    <2> QED BY <1>2, <2>1, <2>2 DEF Delete, Proposed
<1>3. ASSUME NEW n \in Nodes, RestoreSnapshot(n) PROVE Replaced(n)
    BY <1>3 DEF RestoreSnapshot, ExportSnapshot, Replaced
<1>4. CASE SweepPropose
    <2>1. ExpireOp(sweep.items) \in Ops
        BY DEF ExpireOp, Ops, TypeOK
    <2>2. sweep' = [pc |-> "waiting", items |-> {}, index |-> Len(log) + 1]
        BY <1>4 DEF SweepPropose, Idle
    <2>3. Propose(ExpireOp(sweep.items))
        BY <1>4 DEF SweepPropose
    <2>4. sweep'.items = {}
        BY <2>2
    <2>5. Proposed(ExpireOp(sweep.items))
        BY <2>3, <2>4 DEF Proposed
    <2> QED BY <2>1, <2>5
<1>5. CASE SweepDone \/ SweepTimeout
    BY <1>5 DEF SweepDone, SweepTimeout, Idle, Quiet, TypeOK
<1>6. CASE Tick
    BY <1>6 DEF Tick, Quiet, TypeOK
<1>7. ASSUME NEW n \in Nodes, Restart(n) PROVE Replaced(n)
    BY <1>7 DEF Restart, Replaced
<1>8. CASE UNCHANGED vars
    BY <1>8 DEF vars, Quiet, TypeOK
<1> QED
    BY <1>1, <1>2, <1>3, <1>4, <1>5, <1>6, <1>7, <1>8 DEF Next, Background

\* An applied entry changes each key of its node as StepEntry says, and no
\* other node.
LEMMA ApplyKeys ==
    ASSUME TypeOK, NEW n \in Nodes, Apply(n)
    PROVE  /\ \A k \in Keys : kvs'[n][k] =
                StepEntry(Get(n, k), kvs[n][k], log[rev[n] + 1], k, rev[n] + 1)
           /\ \A m \in Nodes \ {n} : kvs'[m] = kvs[m] /\ rev'[m] = rev[m]
           /\ rev'[n] = rev[n] + 1
<1> DEFINE op == log[rev[n] + 1]
<1>1. op \in Ops
    BY ApplyType
<1>2. kvs' = [kvs EXCEPT ![n] = applyOne(n, op).state]
    BY ApplyType
<1>3. rev' = [rev EXCEPT ![n] = rev[n] + 1]
    BY ApplyType
<1>4. applyOne(n, op).state =
        [k \in Keys |-> StepEntry(Get(n, k), kvs[n][k], op, k, rev[n] + 1)]
    BY <1>1, ApplyEffect
<1> HIDE DEF op
<1>5. /\ \A k \in Keys : kvs'[n][k] =
            StepEntry(Get(n, k), kvs[n][k], op, k, rev[n] + 1)
      /\ \A m \in Nodes \ {n} : kvs'[m] = kvs[m] /\ rev'[m] = rev[m]
      /\ rev'[n] = rev[n] + 1
    BY <1>2, <1>3, <1>4 DEF TypeOK
<1> QED BY <1>5 DEF op

-----------------------------------------------------------------------------
(* Where entries and the sweeper's items come from                         *)

\* op is a Put of k that gave it the expiry x.
Wrote(op, k, x) == op.type = "put" /\ op.key = k /\ op.expireAt = x

\* What a node holds for a key was put by the log entry of its revision.
EntriesFromLog ==
    \A n \in Nodes, k \in Keys : kvs[n][k] # Absent =>
        /\ Exists(kvs[n][k])
        /\ kvs[n][k].revision \in 1..rev[n]
        /\ Wrote(log[kvs[n][k].revision], k, kvs[n][k].expireAt)

\* The value an item of the sweeper stands for has expired on the leader.
ItemExpired(it) ==
    /\ it.guard \in 1..Len(log)
    /\ log[it.guard].type = "put" /\ log[it.guard].key = it.key
    /\ log[it.guard].expireAt # 0
    /\ log[it.guard].expireAt <= nowMs(Leader)

SweptExpired ==
    /\ \A it \in sweep.items : ItemExpired(it)
    /\ \A i \in 1..Len(log) : log[i].type = "expire" =>
          \A it \in log[i].items : ItemExpired(it)

\* A store gains an entry only by applying the Put that writes it.
LEMMA EntriesFromLogStep ==
    ASSUME TypeOK, EntriesFromLog, [Next]_vars
    PROVE  EntriesFromLog'
<1>0. \A n \in Nodes : rev[n] \in Nat /\ rev[n] <= Len(log)
    BY DEF TypeOK
<1>1. ASSUME NEW op \in Ops, Proposed(op) PROVE EntriesFromLog'
    <2>1. /\ \A i \in 1..Len(log) : log'[i] = log[i]
          /\ rev' = rev /\ kvs' = kvs
        BY <1>1, ProposeType DEF Proposed, Propose
    <2>2. SUFFICES ASSUME NEW n \in Nodes, NEW k \in Keys, kvs[n][k] # Absent
                   PROVE  /\ Exists(kvs[n][k])
                          /\ kvs[n][k].revision \in 1..rev[n]
                          /\ Wrote(log'[kvs[n][k].revision], k,
                                   kvs[n][k].expireAt)
        BY <2>1 DEF EntriesFromLog
    <2>3. kvs[n][k].revision \in 1..rev[n]
        BY <2>2 DEF EntriesFromLog
    <2>4. kvs[n][k].revision \in 1..Len(log)
        BY <1>0, <2>3 DEF TypeOK
    <2> QED BY <2>1, <2>2, <2>4 DEF EntriesFromLog
<1>2. ASSUME NEW n \in Nodes, Apply(n) PROVE EntriesFromLog'
    <2> DEFINE op == log[rev[n] + 1]
    <2>1. log' = log /\ op \in Ops
        BY <1>2, ApplyType
    <2>2. SUFFICES ASSUME NEW k \in Keys, kvs'[n][k] # Absent
                   PROVE  /\ Exists(kvs'[n][k])
                          /\ kvs'[n][k].revision \in 1..(rev[n] + 1)
                          /\ Wrote(log[kvs'[n][k].revision], k,
                                   kvs'[n][k].expireAt)
        <3>1. ASSUME NEW m \in Nodes \ {n}, NEW k \in Keys, kvs'[m][k] # Absent
              PROVE  /\ Exists(kvs'[m][k])
                     /\ kvs'[m][k].revision \in 1..rev'[m]
                     /\ Wrote(log[kvs'[m][k].revision], k, kvs'[m][k].expireAt)
            BY <1>2, <3>1, ApplyKeys DEF EntriesFromLog
        <3> QED BY <1>2, <2>1, <3>1, ApplyKeys DEF EntriesFromLog
    <2>3. kvs'[n][k] =
            StepEntry(Get(n, k), kvs[n][k], op, k, rev[n] + 1)
        BY <1>2, ApplyKeys
    <2>4. CASE /\ op.type = "put" /\ op.key = k
               /\ checkVersion(op.expected, Get(n, k))
        <3>1. kvs'[n][k] = [version |-> Get(n, k).version + 1,
                            revision |-> rev[n] + 1, expireAt |-> op.expireAt]
            BY <2>3, <2>4 DEF StepEntry
        <3>2. Get(n, k).version \in Nat
            BY GetType DEF Entries
        <3> QED BY <1>0, <2>4, <3>1, <3>2 DEF Wrote, Exists
    <2>5. CASE kvs'[n][k] = kvs[n][k]
        BY <1>0, <2>2, <2>5 DEF EntriesFromLog
    <2> QED BY <2>2, <2>3, <2>4, <2>5 DEF StepEntry
<1>3. ASSUME NEW n \in Nodes, Replaced(n) PROVE EntriesFromLog'
    <2>1. \A k \in Keys : Empty[k] = Absent
        BY DEF Empty
    <2> QED BY <1>3, <2>1 DEF Replaced, EntriesFromLog, TypeOK
<1>4. CASE SweepScan \/ Quiet
    BY <1>4 DEF SweepScan, Quiet, EntriesFromLog
<1> QED BY <1>1, <1>2, <1>3, <1>4, StepCases

\* What the sweeper scans has expired by the leader's clock, and stays so:
\* the clock does not go back and the log is append-only.
LEMMA SweptExpiredStep ==
    ASSUME TypeOK, EntriesFromLog, SweptExpired, [Next]_vars
    PROVE  SweptExpired'
<1>0. now \in Nat /\ skew[Leader] \in Nat /\ Len(log) \in Nat
    BY DEF TypeOK
<1>1. ASSUME NEW op \in Ops, Proposed(op) PROVE SweptExpired'
    <2>1. /\ \A i \in 1..Len(log) : log'[i] = log[i]
          /\ Len(log') = Len(log) + 1
          /\ log'[Len(log) + 1] = op
          /\ UNCHANGED <<now, skew>>
        BY <1>1, ProposeType DEF Proposed, Propose
    <2>2. ASSUME NEW it, ItemExpired(it) PROVE ItemExpired(it)'
        BY <1>0, <2>1, <2>2 DEF ItemExpired, nowMs
    <2>3. \A it \in sweep'.items : ItemExpired(it)
        BY <1>1 DEF Proposed, SweptExpired
    <2>4. op.type = "expire" => \A it \in op.items : ItemExpired(it)
        BY <1>1 DEF Proposed, ExpireOp, SweptExpired
    <2> QED BY <1>0, <2>1, <2>2, <2>3, <2>4 DEF SweptExpired
<1>2. CASE SweepScan
    <2>1. sweep'.items = ScanExpiredKVs
        BY <1>2 DEF SweepScan, Idle
    <2>2. UNCHANGED <<now, skew, log>>
        BY <1>2 DEF SweepScan
    <2>3. ASSUME NEW it \in ScanExpiredKVs PROVE ItemExpired(it)
        <3>1. /\ it.key \in Keys
              /\ it.guard = kvs[Leader][it.key].revision
              /\ kvs[Leader][it.key].expireAt # 0
              /\ kvs[Leader][it.key].expireAt <= nowMs(Leader)
            BY <2>3 DEF ScanExpiredKVs
        <3>2. kvs[Leader][it.key] # Absent
            BY <3>1 DEF Absent
        <3>3. rev[Leader] \in 0..Len(log)
            BY DEF TypeOK
        <3>4. /\ it.guard \in 1..rev[Leader]
              /\ Wrote(log[it.guard], it.key, kvs[Leader][it.key].expireAt)
            BY <3>1, <3>2 DEF EntriesFromLog
        <3> QED BY <1>0, <3>1, <3>3, <3>4 DEF Wrote, ItemExpired
    <2> QED BY <2>1, <2>2, <2>3 DEF SweptExpired, ItemExpired, nowMs
<1>3. CASE Quiet
    <2>1. ASSUME NEW it, ItemExpired(it), it.guard \in 1..Len(log)
          PROVE  ItemExpired(it)'
        <3>1. log[it.guard] \in Ops
            BY <2>1 DEF TypeOK
        <3>2. log[it.guard].expireAt \in Nat
            BY <2>1, <3>1, OpKinds DEF ItemExpired
        <3>3. now' >= now /\ skew' = skew /\ log' = log /\ now' \in Nat
            BY <1>3, TypeStep DEF Quiet, TypeOK
        <3>4. now \in Nat /\ skew[Leader] \in Nat
            BY DEF TypeOK
        <3>5. nowMs(Leader) \in Nat /\ nowMs(Leader)' \in Nat
              /\ nowMs(Leader) <= nowMs(Leader)'
            BY <3>3, <3>4 DEF nowMs
        <3>6. log[it.guard].expireAt <= nowMs(Leader)'
            BY <2>1, <3>2, <3>5 DEF ItemExpired
        <3> QED BY <2>1, <3>3, <3>6 DEF ItemExpired
    <2>2. log' = log /\ (sweep' = sweep \/ sweep'.items = {})
        BY <1>3 DEF Quiet
    <2> QED BY <2>1, <2>2 DEF SweptExpired, ItemExpired
<1>4. ASSUME NEW n \in Nodes, Apply(n) \/ Replaced(n) PROVE SweptExpired'
    BY <1>4, ApplyType DEF Replaced, SweptExpired, ItemExpired, nowMs
<1> QED BY <1>1, <1>2, <1>3, <1>4, StepCases

\* Entries and scanned items have these origins in every reachable state.
LEMMA OriginsInvariant == Spec => [](EntriesFromLog /\ SweptExpired)
<1>1. Init => EntriesFromLog /\ SweptExpired
    <2> SUFFICES ASSUME Init PROVE EntriesFromLog /\ SweptExpired
        OBVIOUS
    <2>1. \A n \in Nodes, k \in Keys : kvs[n][k] = Absent
        BY DEF Init, Empty
    <2>2. log = <<>> /\ sweep.items = {}
        BY DEF Init, Idle
    <2> QED BY <2>1, <2>2 DEF EntriesFromLog, SweptExpired
<1> QED
    BY <1>1, EntriesFromLogStep, SweptExpiredStep, TypeCorrect, PTL DEF Spec

\* The entry the sweeper proposed removes no value that is still alive by the
\* leader's clock, whichever node applies it and whatever was put, restored
\* or restarted since the scan (ApplyExpireKeys, sweeper.go:8-9).
THEOREM ExpirySpares == Spec => []ExpirySparesFresh
<1>1. ASSUME TypeOK, EntriesFromLog, SweptExpired
      PROVE  ExpirySparesFresh
    <2> SUFFICES ASSUME NEW n \in Nodes, rev[n] < Len(log),
                        log[rev[n] + 1].type = "expire",
                        NEW k \in Keys, Exists(kvs[n][k]),
                        applyOne(n, log[rev[n] + 1]).state[k] = Absent
                 PROVE  ~aliveKV(Leader, kvs[n][k])
        BY DEF ExpirySparesFresh
    <2> DEFINE op == log[rev[n] + 1]
    <2>1. rev[n] + 1 \in 1..Len(log) /\ op \in Ops
        <3>1. log \in Seq(Ops) /\ rev \in [Nodes -> 0..Len(log)]
            BY <1>1 DEF TypeOK
        <3>2. rev[n] + 1 \in 1..Len(log)
            BY <1>1, <3>1
        <3> QED BY <3>1, <3>2
    <2>2. kvs[n][k] # Absent
        BY DEF Exists, Absent
    <2>3. applyOne(n, op).state[k] =
            StepEntry(Get(n, k), kvs[n][k], op, k, rev[n] + 1)
        <3>1. applyOne(n, op).state =
                [q \in Keys |->
                    StepEntry(Get(n, q), kvs[n][q], op, q, rev[n] + 1)]
            BY <1>1, <2>1, ApplyEffect
        <3> HIDE DEF op
        <3> QED BY <3>1
    <2>4. PICK it \in op.items : it.key = k /\ it.guard = kvs[n][k].revision
        BY <2>2, <2>3 DEF StepEntry
    <2>5. ItemExpired(it)
        BY <1>1, <2>1, <2>4 DEF SweptExpired
    <2>6. Wrote(log[it.guard], k, kvs[n][k].expireAt)
        BY <1>1, <2>2, <2>4 DEF EntriesFromLog
    <2>7. /\ kvs[n][k].expireAt # 0
          /\ kvs[n][k].expireAt <= nowMs(Leader)
        BY <2>5, <2>6 DEF ItemExpired, Wrote
    <2>8. kvs[n][k].expireAt \in Nat /\ nowMs(Leader) \in Nat
        <3>1. kvs[n][k] \in Entries
            BY <1>1, GetType
        <3>2. now \in Nat /\ skew[Leader] \in Nat
            BY <1>1 DEF TypeOK
        <3> QED BY <3>1, <3>2 DEF Entries, nowMs
    <2> QED BY <2>7, <2>8 DEF aliveKV
<1> QED BY <1>1, TypeCorrect, OriginsInvariant, PTL

-----------------------------------------------------------------------------
(* The leader's answers                                                    *)

\* A Put that has won is the leader's entry, has been followed by one that
\* is, or its value went away.
WinnersStand ==
    /\ \A k \in Keys : kvs[Leader][k] # Absent =>
          Wins(kvs[Leader][k].revision, k)
    /\ \A i \in 1..Len(result), k \in Keys : Wins(i, k) =>
          \/ Removed(i, Len(result) + 1, k)
          \/ /\ kvs[Leader][k] # Absent
             /\ kvs[Leader][k].revision >= i
             /\ kvs[Leader][k].version > log[i].expected

\* The log, the answers and the leader's clock only grow.
LEMMA Grows ==
    ASSUME TypeOK, [Next]_vars
    PROVE  /\ Len(log) \in Nat /\ Len(log') \in Nat /\ Len(log) <= Len(log')
           /\ \A i \in 1..Len(log) : log'[i] = log[i]
           /\ Len(result) \in Nat /\ Len(result) <= Len(log)
           /\ Len(result') \in Nat /\ Len(result) <= Len(result')
           /\ \A i \in 1..Len(result) : result'[i] = result[i]
           /\ nowMs(Leader) \in Nat /\ nowMs(Leader)' \in Nat
           /\ nowMs(Leader) <= nowMs(Leader)'
<1>0. /\ Len(log) \in Nat /\ Len(result) \in Nat
      /\ Len(result) = rev[Leader] /\ rev[Leader] <= Len(log)
      /\ now \in Nat /\ skew[Leader] \in Nat
    BY DEF TypeOK
<1>1. ASSUME NEW op \in Ops, Proposed(op)
      PROVE  /\ Len(log') = Len(log) + 1 /\ \A i \in 1..Len(log) : log'[i] = log[i]
             /\ UNCHANGED <<result, now, skew>>
    BY <1>1, ProposeType DEF Proposed, Propose
<1>2. ASSUME NEW n \in Nodes, Apply(n)
      PROVE  /\ log' = log /\ now' = now /\ skew' = skew
             /\ Len(result) <= Len(result')
             /\ Len(result') \in Nat
             /\ \A i \in 1..Len(result) : result'[i] = result[i]
    <2>1. /\ log' = log /\ now' = now /\ skew' = skew
          /\ log[rev[n] + 1] \in Ops
          /\ \/ result' = Append(result, applyOne(n, log[rev[n] + 1]).answer)
             \/ result' = result
        BY <1>2, ApplyType
    <2>2. applyOne(n, log[rev[n] + 1]).answer \in {"ok", "conflict", "missing"}
        BY <2>1, ApplyAnswer
    <2>3. result \in Seq({"ok", "conflict", "missing"})
        BY DEF TypeOK
    <2> QED BY <2>1, <2>2, <2>3
<1>3. ASSUME NEW n \in Nodes, Replaced(n)
      PROVE  UNCHANGED <<log, result, now, skew>>
    BY <1>3 DEF Replaced
<1>4. ASSUME SweepScan \/ Quiet
      PROVE  UNCHANGED <<log, result, skew>> /\ now' >= now
    BY <1>0, <1>4 DEF SweepScan, Quiet
<1>5. /\ Len(log') \in Nat /\ Len(log) <= Len(log')
      /\ \A i \in 1..Len(log) : log'[i] = log[i]
    BY <1>0, <1>1, <1>2, <1>3, <1>4, StepCases
<1>6. /\ Len(result') \in Nat /\ Len(result) <= Len(result')
      /\ \A i \in 1..Len(result) : result'[i] = result[i]
    BY <1>0, <1>1, <1>2, <1>3, <1>4, StepCases
<1>7. now' >= now /\ skew' = skew
    BY <1>0, <1>1, <1>2, <1>3, <1>4, StepCases
<1>8. now' \in Nat
    BY TypeStep DEF TypeOK
<1>9. /\ nowMs(Leader) = now + skew[Leader]
      /\ nowMs(Leader)' = now' + skew[Leader]
    BY <1>7 DEF nowMs
<1>10. /\ nowMs(Leader) \in Nat /\ nowMs(Leader)' \in Nat
       /\ nowMs(Leader) <= nowMs(Leader)'
    BY <1>0, <1>7, <1>8, <1>9
<1> QED BY <1>0, <1>5, <1>6, <1>10

\* The part of it that most steps need: what is logged and answered stays.
LEMMA Kept ==
    ASSUME TypeOK, [Next]_vars, NEW m \in 1..Len(result)
    PROVE  m \in 1..Len(log) /\ log'[m] = log[m] /\ result'[m] = result[m]
<1>1. /\ Len(log) \in Nat /\ Len(result) \in Nat /\ Len(result) <= Len(log)
      /\ \A i \in 1..Len(log) : log'[i] = log[i]
      /\ \A i \in 1..Len(result) : result'[i] = result[i]
    BY Grows
<1>2. m \in 1..Len(log)
    BY <1>1
<1> QED BY <1>1, <1>2

\* The entry at m ended k's life on the leader: a Delete that was let
\* through, or a Put whose value has expired by now.
WentAway(m, k) ==
    \/ log[m].type = "delete" /\ log[m].key = k /\ result[m] = "ok"
    \/ /\ Wins(m, k)
       /\ log[m].expireAt # 0
       /\ log[m].expireAt <= nowMs(Leader)

\* What went away stays away: its answer is kept and the clock goes on.
LEMMA WentAwayStays ==
    ASSUME TypeOK, [Next]_vars, NEW k \in Keys, NEW m \in 1..Len(result),
           WentAway(m, k)
    PROVE  WentAway(m, k)'
<1>1. m \in 1..Len(log) /\ log'[m] = log[m] /\ result'[m] = result[m]
    BY Kept
<1>2. CASE log[m].type = "delete" /\ log[m].key = k /\ result[m] = "ok"
    BY <1>1, <1>2 DEF WentAway
<1>3. CASE /\ Wins(m, k)
           /\ log[m].expireAt # 0
           /\ log[m].expireAt <= nowMs(Leader)
    <2>1. log[m] \in Ops
        BY <1>1 DEF TypeOK
    <2>2. log[m].expireAt \in Nat
        BY <1>3, <2>1, OpKinds DEF Wins
    <2>3. log'[m].expireAt <= nowMs(Leader)'
        BY <1>1, <1>3, <2>2, Grows
    <2> QED BY <1>1, <1>3, <2>3 DEF WentAway, Wins
<1> QED BY <1>2, <1>3 DEF WentAway

\* An entry of the leader's that has expired went away at its revision.
LEMMA ExpiredWentAway ==
    ASSUME TypeOK, EntriesFromLog, WinnersStand,
           NEW k \in Keys, kvs[Leader][k] # Absent,
           kvs[Leader][k].expireAt # 0,
           kvs[Leader][k].expireAt <= nowMs(Leader)
    PROVE  /\ kvs[Leader][k].revision \in 1..Len(result)
           /\ WentAway(kvs[Leader][k].revision, k)
<1> DEFINE m == kvs[Leader][k].revision
<1>1. Len(result) = rev[Leader]
    BY DEF TypeOK
<1>2. m \in 1..rev[Leader] /\ Wrote(log[m], k, kvs[Leader][k].expireAt)
    BY DEF EntriesFromLog
<1>3. Wins(m, k)
    BY DEF WinnersStand
<1> QED BY <1>1, <1>2, <1>3 DEF WentAway, Wrote

\* What the leader's next entry does to its record.
LEMMA LeaderApplies ==
    ASSUME TypeOK, Apply(Leader)
    PROVE  /\ Len(result) \in Nat /\ rev[Leader] + 1 = Len(result) + 1
           /\ Len(result) + 1 \in 1..Len(log)
           /\ log[rev[Leader] + 1] \in Ops
           /\ log' = log /\ UNCHANGED <<now, skew>>
           /\ Len(result') = Len(result) + 1
           /\ result'[Len(result) + 1] =
                 applyOne(Leader, log[rev[Leader] + 1]).answer
           /\ \A i \in 1..Len(result) : result'[i] = result[i]
<1> DEFINE answer == applyOne(Leader, log[rev[Leader] + 1]).answer
<1>1. /\ log[rev[Leader] + 1] \in Ops
      /\ rev[Leader] + 1 \in 1..Len(log)
      /\ log' = log /\ now' = now /\ skew' = skew
      /\ result' = Append(result, answer)
    BY ApplyType
<1>2. result \in Seq({"ok", "conflict", "missing"}) /\ Len(result) = rev[Leader]
    BY DEF TypeOK
<1>3. answer \in {"ok", "conflict", "missing"}
    BY <1>1, ApplyAnswer
<1>4. /\ Len(result') = Len(result) + 1
      /\ result'[Len(result) + 1] = answer
      /\ \A i \in 1..Len(result) : result'[i] = result[i]
    <2> HIDE DEF answer
    <2> QED BY <1>1, <1>2, <1>3
<1> QED BY <1>1, <1>2, <1>4

\* The leader applies an entry: what that does to a Put that won before.
LEMMA WinnerStands ==
    ASSUME TypeOK, EntriesFromLog, SweptExpired, WinnersStand, [Next]_vars,
           Apply(Leader),
           NEW k \in Keys, NEW i \in 1..Len(result), Wins(i, k)
    PROVE  \/ \E m \in i..Len(result') : WentAway(m, k)'
           \/ /\ kvs'[Leader][k] # Absent
              /\ kvs'[Leader][k].revision >= i
              /\ kvs'[Leader][k].version > log[i].expected
<1>j. PICK j \in Nat : j = rev[Leader] + 1
    BY ApplyType
<1> DEFINE op == log[j]
           e == kvs[Leader][k]
           cur == Get(Leader, k)
<1>0. /\ Len(result) \in Nat /\ j = Len(result) + 1 /\ j \in Nat
      /\ op \in Ops /\ i \in Nat /\ j \in 1..Len(log)
      /\ log' = log /\ UNCHANGED <<now, skew>>
      /\ Len(result') = j
      /\ result'[j] = applyOne(Leader, op).answer
    BY <1>j, LeaderApplies
<1>1. e \in Entries /\ cur \in Entries /\ cur \in {e, Absent}
    BY GetType
<1>2. kvs'[Leader][k] = StepEntry(cur, e, op, k, j)
    BY <1>j, ApplyKeys
<1> HIDE DEF op
<1>3. CASE Removed(i, Len(result) + 1, k)
    <2>1. PICK m \in i..Len(result) : WentAway(m, k)
        BY <1>0, <1>3 DEF Removed, WentAway
    <2>2. m \in 1..Len(result) /\ m \in i..Len(result')
        BY <1>0, <2>1
    <2> QED BY <2>1, <2>2, WentAwayStays
<1>4. ASSUME e # Absent, e.revision >= i, e.expireAt # 0,
             e.expireAt <= nowMs(Leader)
      PROVE  \E m \in i..Len(result') : WentAway(m, k)'
    <2>1. e.revision \in 1..Len(result) /\ WentAway(e.revision, k)
        BY <1>4, ExpiredWentAway
    <2>2. PICK m \in 1..Len(result) : m = e.revision /\ WentAway(m, k)
        BY <2>1
    <2>3. m \in i..Len(result')
        BY <1>0, <1>4, <2>2
    <2> QED BY <2>2, <2>3, WentAwayStays
<1>5. CASE e # Absent /\ e.revision >= i /\ e.version > log[i].expected
    <2>0. log[i].expected \in Int
        <3>1. i \in 1..Len(log)
            BY Grows
        <3>2. log[i] \in Ops
            BY <3>1 DEF TypeOK
        <3> QED BY <3>2, OpKinds DEF Wins
    <2>1. CASE op.type = "put" /\ op.key = k /\ checkVersion(op.expected, cur)
        <3>1. kvs'[Leader][k] = [version |-> cur.version + 1, revision |-> j,
                                 expireAt |-> op.expireAt]
            BY <1>2, <2>1 DEF StepEntry
        <3>2. CASE cur = e
            <4>1. e.version \in Nat /\ e.revision \in Nat
                BY <1>1 DEF Entries
            <4>2. i <= j
                BY <1>0
            <4>3. kvs'[Leader][k].revision = j
                BY <3>1
            <4>4. kvs'[Leader][k].version = e.version + 1
                BY <3>1, <3>2
            <4>5. kvs'[Leader][k] # Absent
                BY <4>1, <4>4 DEF Absent
            <4> QED BY <1>0, <1>5, <2>0, <4>1, <4>2, <4>3, <4>4, <4>5
        <3>3. CASE cur # e
            <4>1. ~aliveKV(Leader, e)
                BY <3>3 DEF Get
            <4>2. nowMs(Leader) \in Nat /\ e.expireAt \in Nat
                BY <1>1, Grows DEF Entries
            <4>3. e.expireAt # 0 /\ e.expireAt <= nowMs(Leader)
                BY <4>1, <4>2 DEF aliveKV
            <4> QED BY <1>4, <1>5, <4>3
        <3> QED BY <3>2, <3>3
    <2>2. CASE /\ op.type = "delete" /\ op.key = k
               /\ Exists(cur) /\ checkVersion(op.expected, cur)
        <3>1. result'[j] = "ok"
            BY <1>0, <2>2, ApplyAnswer
        <3>2. log'[j] = op
            BY <1>0 DEF op
        <3>3. WentAway(j, k)'
            BY <2>2, <3>1, <3>2 DEF WentAway
        <3>4. j \in i..Len(result')
            BY <1>0
        <3> QED BY <3>3, <3>4
    <2>3. CASE /\ op.type = "expire"
               /\ \E it \in op.items : it.key = k /\ it.guard = e.revision
        <3>1. PICK it \in op.items : it.key = k /\ it.guard = e.revision
            BY <2>3
        <3>2. ItemExpired(it)
            BY <1>0, <2>3, <3>1 DEF SweptExpired, op
        <3>3. Wrote(log[it.guard], k, e.expireAt)
            BY <1>5, <3>1 DEF EntriesFromLog
        <3> QED BY <1>4, <1>5, <3>2, <3>3 DEF ItemExpired, Wrote
    <2>4. CASE kvs'[Leader][k] = e
        BY <1>5, <2>4
    <2> QED BY <1>2, <2>1, <2>2, <2>3, <2>4 DEF StepEntry
<1> QED BY <1>3, <1>5 DEF WinnersStand

\* Only applying an entry changes the leader's store and answers.
LEMMA LeaderKeeps ==
    ASSUME TypeOK, [Next]_vars, ~Apply(Leader)
    PROVE  kvs'[Leader] = kvs[Leader] /\ result' = result
<1>1. ASSUME NEW op \in Ops, Proposed(op)
      PROVE  kvs'[Leader] = kvs[Leader] /\ result' = result
    BY <1>1 DEF Proposed, Propose
<1>2. ASSUME NEW n \in Nodes, Apply(n)
      PROVE  kvs'[Leader] = kvs[Leader] /\ result' = result
    <2>1. n # Leader
        BY <1>2
    <2> QED BY <1>2, <2>1, ApplyType, ApplyKeys
<1>3. ASSUME NEW n \in Nodes, Replaced(n)
      PROVE  kvs'[Leader] = kvs[Leader] /\ result' = result
    BY <1>3 DEF Replaced, TypeOK
<1>4. CASE SweepScan \/ Quiet
    BY <1>4 DEF SweepScan, Quiet
<1> QED BY <1>1, <1>2, <1>3, <1>4, StepCases

\* The leader's store and its answers stay in step: a Put that has won is
\* there, overtaken by a later winner, deleted or expired.
LEMMA WinnersStandStep ==
    ASSUME TypeOK, EntriesFromLog, SweptExpired, WinnersStand, [Next]_vars
    PROVE  WinnersStand'
<1>1. CASE ~Apply(Leader)
    <2>1. kvs'[Leader] = kvs[Leader] /\ result' = result
        BY <1>1, LeaderKeeps
    <2>2. \A i \in 1..Len(result) : i \in 1..Len(log) /\ log'[i] = log[i]
        BY Grows
    <2>3. ASSUME NEW k \in Keys, kvs[Leader][k] # Absent
          PROVE  Wins(kvs[Leader][k].revision, k)'
        <3>1. kvs[Leader][k].revision \in 1..Len(result)
            BY <2>3 DEF EntriesFromLog, TypeOK
        <3>2. Wins(kvs[Leader][k].revision, k)
            BY <2>3 DEF WinnersStand
        <3> QED BY <2>1, <2>2, <3>1, <3>2 DEF Wins
    <2>4. ASSUME NEW k \in Keys, NEW i \in 1..Len(result), Wins(i, k)'
          PROVE  \/ Removed(i, Len(result) + 1, k)'
                 \/ /\ kvs[Leader][k] # Absent
                    /\ kvs[Leader][k].revision >= i
                    /\ kvs[Leader][k].version > log'[i].expected
        <3>1. Wins(i, k)
            BY <2>1, <2>2, <2>4 DEF Wins
        <3>2. ASSUME Removed(i, Len(result) + 1, k)
              PROVE  Removed(i, Len(result) + 1, k)'
            <4>1. PICK m \in i..(Len(result) + 1 - 1) : WentAway(m, k)
                BY <3>2 DEF Removed, WentAway
            <4>2. m \in 1..Len(result)
                BY <4>1, Grows
            <4>3. WentAway(m, k)'
                BY <4>1, <4>2, WentAwayStays
            <4> QED BY <2>1, <4>1, <4>3 DEF Removed, WentAway
        <3> QED BY <2>2, <3>1, <3>2 DEF WinnersStand
    <2> QED BY <2>1, <2>3, <2>4 DEF WinnersStand
<1>2. CASE Apply(Leader)
    <2>j. PICK j \in Nat : j = rev[Leader] + 1
        BY <1>2, ApplyType
    <2> DEFINE op == log[j]
    <2>0. /\ Len(result) \in Nat /\ j = Len(result) + 1 /\ op \in Ops
          /\ log' = log /\ Len(result') = j
          /\ result'[j] = applyOne(Leader, op).answer
          /\ \A i \in 1..Len(result) : result'[i] = result[i]
        BY <1>2, <2>j, LeaderApplies
    <2>1. \A k \in Keys : kvs'[Leader][k] =
            StepEntry(Get(Leader, k), kvs[Leader][k], op, k, j)
        BY <1>2, <2>j, ApplyKeys
    <2>2. op.type = "put" =>
            (result'[j] = "ok" <=> checkVersion(op.expected, Get(Leader, op.key)))
        BY <2>0, ApplyAnswer
    <2>3. log'[j] = op
        BY <2>0
    <2> HIDE DEF op
    <2>4. ASSUME NEW k \in Keys, kvs'[Leader][k] # Absent
          PROVE  Wins(kvs[Leader][k].revision, k)'
        <3> DEFINE e == kvs[Leader][k]
        <3>1. CASE /\ op.type = "put" /\ op.key = k
                   /\ checkVersion(op.expected, Get(Leader, k))
            <4>1. kvs'[Leader][k] = [version |-> Get(Leader, k).version + 1,
                                     revision |-> j, expireAt |-> op.expireAt]
                BY <2>1, <3>1 DEF StepEntry
            <4>2. log'[j].type = "put" /\ log'[j].key = k /\ result'[j] = "ok"
                BY <2>2, <2>3, <3>1
            <4> QED BY <4>1, <4>2 DEF Wins
        <3>2. CASE kvs'[Leader][k] = e
            <4>1. Wins(e.revision, k)
                BY <2>4, <3>2 DEF WinnersStand
            <4>2. e.revision \in 1..Len(result)
                BY <2>4, <3>2 DEF EntriesFromLog, TypeOK
            <4>3. PICK m \in 1..Len(result) : m = e.revision
                BY <4>2
            <4> QED BY <2>0, <3>2, <4>1, <4>3 DEF Wins
        <3> QED BY <2>1, <2>4, <3>1, <3>2 DEF StepEntry
    <2>5. ASSUME NEW k \in Keys, NEW i \in 1..j, Wins(i, k)'
          PROVE  \/ \E m \in i..Len(result') : WentAway(m, k)'
                 \/ /\ kvs'[Leader][k] # Absent
                    /\ kvs'[Leader][k].revision >= i
                    /\ kvs'[Leader][k].version > log'[i].expected
        <3>1. CASE i = j
            <4>1. /\ op.type = "put" /\ op.key = k
                  /\ checkVersion(op.expected, Get(Leader, k))
                BY <2>2, <2>3, <2>5, <3>1 DEF Wins
            <4>2. kvs'[Leader][k] = [version |-> Get(Leader, k).version + 1,
                                     revision |-> j, expireAt |-> op.expireAt]
                BY <2>1, <4>1 DEF StepEntry
            <4>3. Get(Leader, k).version \in Nat
                BY GetType DEF Entries
            <4>4. kvs'[Leader][k].version > op.expected
                BY <2>0, <4>1, <4>2, <4>3, OpKinds DEF checkVersion
            <4>5. kvs'[Leader][k].version # 0
                BY <4>2, <4>3
            <4> QED BY <2>3, <3>1, <4>2, <4>4, <4>5 DEF Absent
        <3>2. CASE i # j
            <4>1. i \in 1..Len(result)
                BY <2>0, <3>2
            <4>2. Wins(i, k)
                BY <2>0, <2>5, <4>1 DEF Wins
            <4> QED BY <1>2, <2>0, <4>1, <4>2, WinnerStands
        <3> QED BY <3>1, <3>2
    <2>6. ASSUME NEW k \in Keys, NEW i \in 1..j,
                 \E m \in i..Len(result') : WentAway(m, k)'
          PROVE  Removed(i, Len(result) + 1, k)'
        <3>1. PICK m \in i..Len(result') : WentAway(m, k)'
            BY <2>6
        <3>2. m \in i..(Len(result') + 1 - 1)
            BY <2>0, <3>1
        <3> QED BY <3>1, <3>2 DEF Removed, WentAway
    <2> QED BY <2>0, <2>4, <2>5, <2>6 DEF WinnersStand
<1> QED BY <1>1, <1>2

\* One more entry applied by the leader does not make a second winner.
LEMMA CasOnceStep ==
    ASSUME TypeOK, EntriesFromLog, SweptExpired, WinnersStand, CasOnce,
           [Next]_vars
    PROVE  CasOnce'
<1> SUFFICES ASSUME NEW i \in Nat, NEW j \in Nat, NEW k \in Keys,
                    i \in 1..Len(result'), j \in 1..Len(result'), i < j,
                    Wins(i, k)', Wins(j, k)',
                    log'[i].expected = log'[j].expected,
                    log'[i].expected # -1
             PROVE  \E m \in i..(j - 1) : WentAway(m, k)'
    <2>1. \A i \in 1..Len(result') : i \in Nat
        BY Grows
    <2> QED BY <2>1 DEF CasOnce, Removed, WentAway
<1>0. \A m \in 1..Len(result) :
        log'[m] = log[m] /\ result'[m] = result[m]
    BY Kept
<1>1. ASSUME NEW n \in Nat, n <= Len(result) + 1, n = j, Removed(i, n, k)
      PROVE  \E m \in i..(j - 1) : WentAway(m, k)'
    <2>1. PICK m \in i..(j - 1) : WentAway(m, k)
        BY <1>1 DEF Removed, WentAway
    <2>2. m \in 1..Len(result)
        BY <1>1, <2>1, Grows
    <2> QED BY <2>1, <2>2, WentAwayStays
<1>2. CASE j <= Len(result)
    <2>1. i \in 1..Len(result) /\ j \in 1..Len(result)
        BY <1>2, Grows
    <2>2. Wins(i, k) /\ Wins(j, k)
        BY <1>0, <2>1 DEF Wins
    <2>3. Removed(i, j, k)
        BY <1>0, <2>1, <2>2 DEF CasOnce
    <2> QED BY <1>1, <1>2, <2>3, Grows
<1>3. CASE j > Len(result)
    <2>1. Apply(Leader)
        BY <1>3, LeaderKeeps, Grows
    <2> DEFINE op == log[j]
               e == kvs[Leader][k]
               cur == Get(Leader, k)
    <2>2. /\ Len(result) \in Nat /\ Len(result') = Len(result) + 1
          /\ j = Len(result) + 1 /\ j = rev[Leader] + 1
          /\ log' = log /\ op \in Ops
          /\ result'[j] = applyOne(Leader, op).answer
        <3>1. /\ Len(result) \in Nat /\ Len(result') = Len(result) + 1
              /\ rev[Leader] + 1 = Len(result) + 1
            BY <2>1, LeaderApplies
        <3>2. j = Len(result) + 1 /\ j = rev[Leader] + 1
            BY <1>3, <3>1
        <3> QED BY <2>1, <3>1, <3>2, LeaderApplies
    <2>3. checkVersion(op.expected, cur)
        BY <2>2, ApplyAnswer DEF Wins
    <2>4. i \in 1..Len(result) /\ Wins(i, k) /\ log[i].expected = op.expected
        BY <1>0, <2>2 DEF Wins
    <2>5. CASE Removed(i, Len(result) + 1, k)
        BY <1>1, <2>2, <2>5
    <2>6. CASE e # Absent /\ e.revision >= i /\ e.version > log[i].expected
        <3>1. cur # e
            <4> SUFFICES ASSUME cur = e PROVE FALSE
                OBVIOUS
            <4>1. e.version \in Nat /\ op.expected \in Int
                BY <2>2, GetType, OpKinds DEF Entries, Wins
            <4>2. checkVersion(op.expected, e)
                BY <2>3
            <4>3. e.version > op.expected /\ op.expected # -1
                BY <2>2, <2>4, <2>6
            <4> QED BY <4>1, <4>2, <4>3 DEF checkVersion, Exists
        <3>2. ~aliveKV(Leader, e)
            BY <3>1 DEF Get
        <3>3. nowMs(Leader) \in Nat /\ e.expireAt \in Nat
            BY GetType, Grows DEF Entries
        <3>4. e.expireAt # 0 /\ e.expireAt <= nowMs(Leader)
            BY <3>2, <3>3 DEF aliveKV
        <3>5. e.revision \in 1..Len(result) /\ WentAway(e.revision, k)
            BY <2>6, <3>4, ExpiredWentAway
        <3>6. PICK m \in 1..Len(result) : m = e.revision /\ WentAway(m, k)
            BY <3>5
        <3>7. m \in i..(j - 1)
            BY <2>2, <2>6, <3>6
        <3> QED BY <3>6, <3>7, WentAwayStays
    <2> QED BY <2>4, <2>5, <2>6 DEF WinnersStand
<1> QED BY <1>2, <1>3, Grows

\* Compare-and-set works once: of the Puts that expect one and the same
\* version of a key, the leader lets one through, unless the key was deleted
\* or had expired in between (kv.go:25-26, checkVersion).
THEOREM CasWinsOnce == Spec => []CasOnce
<1>1. Init => WinnersStand /\ CasOnce
    <2> SUFFICES ASSUME Init PROVE WinnersStand /\ CasOnce
        OBVIOUS
    <2>1. \A k \in Keys : kvs[Leader][k] = Absent
        BY DEF Init, Empty
    <2>2. Len(result) = 0
        BY DEF Init
    <2> QED BY <2>1, <2>2 DEF WinnersStand, CasOnce
<1>2. Spec => [](WinnersStand /\ CasOnce)
    BY <1>1, WinnersStandStep, CasOnceStep, TypeCorrect, OriginsInvariant, PTL
       DEF Spec
<1> QED BY <1>2, PTL

-----------------------------------------------------------------------------
(* Replicas of keys without a TTL                                          *)

\* h[i] is a store that has applied log[1..i] and on which nothing expires.
Replay(h) ==
    /\ h \in [0..Len(log) -> [Keys -> Entries]]
    /\ h[0] = Empty
    /\ \A i \in 1..Len(log), k \in Keys :
          h[i][k] = StepEntry(h[i - 1][k], h[i - 1][k], log[i], k, i)

\* Where no Put gave k a TTL, every node holds what the log's prefix says.
HoldsReplay(h) ==
    \A n \in Nodes, k \in Keys :
        TtlFree(k, rev[n]) => kvs[n][k] = h[rev[n]][k]

OneHistory == \E h : Replay(h) /\ HoldsReplay(h)

\* Whatever a node applies, is restored from or restarts with, there is one
\* history that all of them follow in their keys without a TTL.
LEMMA OneHistoryStep ==
    ASSUME TypeOK, EntriesFromLog, OneHistory, [Next]_vars
    PROVE  OneHistory'
<1>0. PICK h : Replay(h) /\ HoldsReplay(h)
    BY DEF OneHistory
<1>r. \A n \in Nodes : rev[n] \in Nat /\ rev[n] <= Len(log)
    BY DEF TypeOK
<1>l. Len(log) \in Nat
    BY DEF TypeOK
<1>1. ASSUME NEW op \in Ops, Proposed(op) PROVE OneHistory'
    <2>1. /\ \A i \in 1..Len(log) : log'[i] = log[i]
          /\ Len(log') = Len(log) + 1
          /\ log'[Len(log) + 1] = op
          /\ kvs' = kvs /\ rev' = rev
        BY <1>1, ProposeType DEF Proposed, Propose
    <2>n. PICK n \in Nat : n = Len(log)
        BY <1>l
    <2> DEFINE last == [k \in Keys |-> StepEntry(h[n][k], h[n][k], op, k, n + 1)]
               g == [i \in 0..(n + 1) |-> IF i <= n THEN h[i] ELSE last]
    <2>2. last \in [Keys -> Entries]
        <3>1. \A k \in Keys : h[n][k] \in Entries
            BY <1>0, <2>n DEF Replay
        <3> QED BY <3>1, StepEntryType
    <2>3. /\ g \in [0..(n + 1) -> [Keys -> Entries]]
          /\ \A i \in 0..n : g[i] = h[i]
          /\ g[n + 1] = last
        BY <1>0, <2>2, <2>n DEF Replay
    <2>4. ASSUME NEW i \in 1..(n + 1), NEW k \in Keys
          PROVE  g[i][k] = StepEntry(g[i - 1][k], g[i - 1][k], log'[i], k, i)
        <3>1. CASE i <= n
            <4>1. i \in 1..n /\ i \in 0..n /\ i - 1 \in 0..n
                BY <3>1
            <4>2. log'[i] = log[i] /\ g[i] = h[i] /\ g[i - 1] = h[i - 1]
                BY <2>1, <2>3, <2>n, <4>1
            <4> HIDE DEF g
            <4> QED BY <1>0, <2>n, <4>1, <4>2 DEF Replay
        <3>2. CASE i = n + 1
            <4>1. g[i] = last /\ g[i - 1] = h[n] /\ log'[i] = op
                BY <2>1, <2>3, <2>n, <3>2
            <4> HIDE DEF g
            <4> QED BY <3>2, <4>1
        <3> QED BY <3>1, <3>2
    <2> HIDE DEF g
    <2>5. Replay(g)'
        BY <1>0, <2>1, <2>3, <2>4, <2>n DEF Replay, Empty, Absent
    <2>6. HoldsReplay(g)'
        <3> SUFFICES ASSUME NEW m \in Nodes, NEW k \in Keys,
                            TtlFree(k, rev[m])'
                     PROVE  kvs[m][k] = g[rev[m]][k]
            BY <2>1 DEF HoldsReplay
        <3>1. TtlFree(k, rev[m])
            BY <1>r, <2>1 DEF TtlFree
        <3>2. g[rev[m]] = h[rev[m]]
            BY <1>r, <2>3, <2>n
        <3> QED BY <1>0, <3>1, <3>2 DEF HoldsReplay
    <2> QED BY <2>5, <2>6 DEF OneHistory
<1>2. ASSUME NEW n \in Nodes, Apply(n) PROVE OneHistory'
    <2>1. log' = log /\ rev[n] + 1 \in 1..Len(log) /\ rev[n] \in Nat
        BY <1>2, ApplyType
    <2>2. Replay(h)'
        BY <1>0, <2>1 DEF Replay, Empty, Absent
    <2>3. ASSUME NEW k \in Keys, TtlFree(k, rev[n] + 1)
          PROVE  kvs'[n][k] = h[rev[n] + 1][k]
        <3>1. TtlFree(k, rev[n])
            BY <2>1, <2>3 DEF TtlFree
        <3>2. kvs[n][k] = h[rev[n]][k]
            BY <1>0, <3>1 DEF HoldsReplay
        <3>3. kvs[n][k].expireAt = 0
            <4>1. CASE kvs[n][k] = Absent
                BY <4>1 DEF Absent
            <4>2. CASE kvs[n][k] # Absent
                BY <3>1, <4>2 DEF EntriesFromLog, Wrote, TtlFree
            <4> QED BY <4>1, <4>2
        <3>4. Get(n, k) = kvs[n][k]
            BY <3>3 DEF Get, aliveKV
        <3>5. kvs'[n][k] = StepEntry(kvs[n][k], kvs[n][k], log[rev[n] + 1], k,
                                     rev[n] + 1)
            BY <1>2, <3>4, ApplyKeys
        <3>6. h[rev[n] + 1][k] =
                StepEntry(h[rev[n]][k], h[rev[n]][k], log[rev[n] + 1], k,
                          rev[n] + 1)
            <4>1. (rev[n] + 1) - 1 = rev[n]
                BY <2>1
            <4>2. h[rev[n] + 1][k] =
                    StepEntry(h[(rev[n] + 1) - 1][k], h[(rev[n] + 1) - 1][k],
                              log[rev[n] + 1], k, rev[n] + 1)
                BY <1>0, <2>1 DEF Replay
            <4> QED BY <4>1, <4>2
        <3> QED BY <3>2, <3>5, <3>6
    <2>4. HoldsReplay(h)'
        <3> SUFFICES ASSUME NEW m \in Nodes, NEW k \in Keys,
                            TtlFree(k, rev[m])'
                     PROVE  kvs'[m][k] = h[rev'[m]][k]
            BY DEF HoldsReplay
        <3>1. TtlFree(k, rev'[m])
            BY <2>1 DEF TtlFree
        <3>2. CASE m = n
            BY <1>2, <2>3, <3>1, <3>2, ApplyKeys
        <3>3. CASE m # n
            <4>1. kvs'[m] = kvs[m] /\ rev'[m] = rev[m]
                BY <1>2, <3>3, ApplyKeys
            <4> QED BY <1>0, <3>1, <4>1 DEF HoldsReplay
        <3> QED BY <3>2, <3>3
    <2> QED BY <2>2, <2>4 DEF OneHistory
<1>3. ASSUME NEW n \in Nodes, Replaced(n) PROVE OneHistory'
    <2>1. log' = log
        BY <1>3 DEF Replaced
    <2>2. Replay(h)'
        BY <1>0, <2>1 DEF Replay, Empty, Absent
    <2>3. HoldsReplay(h)'
        <3> SUFFICES ASSUME NEW m \in Nodes, NEW k \in Keys,
                            TtlFree(k, rev[m])'
                     PROVE  kvs'[m][k] = h[rev'[m]][k]
            BY DEF HoldsReplay
        <3>1. TtlFree(k, rev'[m])
            BY <2>1 DEF TtlFree
        <3>2. \/ kvs'[m] = kvs[m] /\ rev'[m] = rev[m]
              \/ kvs'[m] = kvs[Leader] /\ rev'[m] = rev[Leader]
              \/ kvs'[m] = Empty /\ rev'[m] = 0
            BY <1>3 DEF Replaced, TypeOK
        <3> QED BY <1>0, <3>1, <3>2 DEF HoldsReplay, Replay
    <2> QED BY <2>2, <2>3 DEF OneHistory
<1>4. CASE SweepScan \/ Quiet
    <2>1. UNCHANGED <<log, rev, kvs>>
        BY <1>4 DEF SweepScan, Quiet
    <2>2. Replay(h)' /\ HoldsReplay(h)'
        BY <1>0, <2>1 DEF Replay, HoldsReplay, TtlFree, Empty, Absent
    <2> QED BY <2>2 DEF OneHistory
<1> QED BY <1>1, <1>2, <1>3, <1>4, StepCases

\* Nodes that have applied the same prefix agree on every key that was never
\* given a TTL, however far their clocks are apart and whether they applied
\* the log, replayed it or were given a snapshot (store.go:152-154).
THEOREM ReplicasAgree == Spec => []TtlFreeAgree
<1>1. Init => OneHistory
    <2> SUFFICES ASSUME Init PROVE OneHistory
        OBVIOUS
    <2> DEFINE h == [i \in 0..0 |-> Empty]
    <2>1. Empty \in [Keys -> Entries]
        BY DEF Empty, Absent, Entries
    <2>2. Len(log) = 0
        BY DEF Init
    <2>3. Replay(h)
        BY <2>1, <2>2 DEF Replay
    <2>4. HoldsReplay(h)
        BY DEF HoldsReplay, Init
    <2> QED BY <2>3, <2>4 DEF OneHistory
<1>2. OneHistory => TtlFreeAgree
    BY DEF OneHistory, HoldsReplay, TtlFreeAgree
<1> QED
    BY <1>1, <1>2, OneHistoryStep, TypeCorrect, OriginsInvariant, PTL DEF Spec
=============================================================================

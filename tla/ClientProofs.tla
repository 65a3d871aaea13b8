---------------------------- MODULE ClientProofs ----------------------------
(***************************************************************************)
(* Machine-checked proofs about Client, for any cluster and any number of  *)
(* clients, calls, broken connections and timeouts.                        *)
(*                                                                         *)
(* Clients move the cluster by steps of KVStore only, so what              *)
(* KVStoreProofs says of the stores holds under them.  What they are told  *)
(* follows from one invariant of each client: InCall of the call it has    *)
(* open, Told of its last write and Consistent of its last Get.            *)
(***************************************************************************)
EXTENDS Client, KVStoreProofs, FiniteSetTheorems

USE LeaderAssumption
USE DEF storeVars, budgetVars

-----------------------------------------------------------------------------
(* The states of a client                                                  *)

WriteCalls == [pc : {"call", "wait"}, req : Requests, attempt : 0..1,
               sent : SUBSET Nat, index : Nat, clean : BOOLEAN,
               broken : BOOLEAN]
GetCalls == [pc : {"get"}, node : Nodes, kv : Entries]
Outcomes == [status : Statuses \cup {"none"}, sent : SUBSET Nat,
             clean : BOOLEAN, broken : BOOLEAN]

ClientTyped ==
    /\ leader \in [Clients -> Nodes \cup {NoAddr}]
    /\ call \in [Clients -> {IdleCall} \cup GetCalls \cup WriteCalls]
    /\ calls \in [Clients -> 0..MaxCalls]
    /\ outcome \in [Clients -> Outcomes]
    /\ read \in [Clients -> [kv : Entries, applied : Nat]]
    /\ stray \in SUBSET Requests
    /\ faults \in 0..MaxFaults

\* An open write has put at most one entry in the log per attempt, the last
\* one at its index; while nothing has failed, a second attempt knows the
\* leader.  An open Get holds a value its node has applied.
InCall(c) ==
    /\ call[c].pc \in {"call", "wait"} =>
          /\ call[c].sent \subseteq 1..Len(log)
          /\ Cardinality(call[c].sent)
                <= IF call[c].pc = "wait" THEN call[c].attempt + 1
                                          ELSE call[c].attempt
          /\ call[c].clean /\ call[c].attempt = 1 => leader[c] = Leader
    /\ call[c].pc = "wait" =>
          /\ call[c].index \in 1..Len(log)
          /\ \A i \in call[c].sent : i <= call[c].index
    /\ call[c].pc = "get" => call[c].kv.revision <= rev[call[c].node]

\* The last write either failed on the way, or has the state machine's
\* answer and all its attempts are applied.
Told(c) ==
    /\ outcome[c].clean => outcome[c].status \in Settled \cup {"none"}
    /\ outcome[c].status \in Settled =>
          \A i \in outcome[c].sent : i <= rev[Leader]

Consistent(c) == read[c].kv.revision <= read[c].applied

Tracked == \A c \in Clients : InCall(c) /\ Told(c) /\ Consistent(c)

-----------------------------------------------------------------------------
(* Clients and the stores                                                  *)

\* The kinds of open calls, by their pc.
LEMMA CallKinds ==
    ASSUME ClientTyped, NEW c \in Clients
    PROVE  /\ call[c].pc \in {"call", "wait"} => call[c] \in WriteCalls
           /\ call[c].pc = "get" => call[c] \in GetCalls
           /\ call[c].pc \notin {"call", "wait", "get"} => call[c] = IdleCall
BY DEF ClientTyped, IdleCall, GetCalls, WriteCalls

\* A request that reaches the leader is a Put or a Delete of KVStore.
LEMMA ExecuteIsNext ==
    ASSUME NEW req \in Requests, Execute(req)
    PROVE  /\ Next
           /\ \E op : Propose(op)
<1>1. CASE req.type = "put" /\ Put(req.key, req.ttl, req.expected)
    <2>1. req.key \in Keys /\ req.ttl \in Ttls
          /\ req.expected \in Versions \cup {-1}
        BY <1>1 DEF Requests
    <2>2. Next
        BY <1>1, <2>1 DEF Next
    <2> QED BY <1>1, <2>2 DEF Put
<1>2. CASE req.type = "delete" /\ Delete(req.key, req.expected)
    <2>1. req.key \in Keys /\ req.expected \in Versions \cup {-1}
        BY <1>2 DEF Requests
    <2>2. Next
        BY <1>2, <2>1 DEF Next
    <2> QED BY <1>2, <2>2 DEF Delete
<1> QED BY <1>1, <1>2 DEF Execute

\* How the client's steps look to the cluster: a step of KVStore that takes
\* nothing back, neither from the log nor from a node.
StoreGrows ==
    /\ [Next]_vars
    /\ Len(log) <= Len(log')
    /\ \A n \in Nodes : rev[n] <= rev'[n]

\* A proposal takes nothing back.
LEMMA ExecuteGrows ==
    ASSUME TypeOK, NEW req \in Requests, Execute(req)
    PROVE  StoreGrows /\ Len(log') = Len(log) + 1
<1>1. PICK op : Propose(op)
    BY ExecuteIsNext
<1>2. Len(log') = Len(log) + 1 /\ rev' = rev
    BY <1>1 DEF Propose, TypeOK
<1> QED BY <1>2, ExecuteIsNext DEF StoreGrows, TypeOK

\* What goes on without requests takes nothing back either: without a restart
\* a node's revision only grows.
LEMMA BackgroundGrows ==
    ASSUME TypeOK, Background
    PROVE  StoreGrows
<1>0. Next
    BY DEF Next
<1>1. ASSUME NEW n \in Nodes, Apply(n) PROVE StoreGrows
    <2>1. rev' = [rev EXCEPT ![n] = rev[n] + 1] /\ log' = log
        BY <1>1, ApplyType
    <2>2. \A m \in Nodes : rev[m] <= rev'[m]
        BY <2>1 DEF TypeOK
    <2>3. Len(log) <= Len(log')
        BY <2>1 DEF TypeOK
    <2> QED BY <1>0, <2>2, <2>3 DEF StoreGrows
<1>2. ASSUME NEW n \in Nodes, RestoreSnapshot(n) PROVE StoreGrows
    BY <1>0, <1>2 DEF RestoreSnapshot, ExportSnapshot, TypeOK, StoreGrows
<1>3. CASE SweepPropose
    BY <1>0, <1>3 DEF SweepPropose, Propose, TypeOK, StoreGrows
<1>4. CASE SweepScan \/ SweepDone \/ SweepTimeout \/ Tick
    BY <1>0, <1>4
       DEF SweepScan, SweepDone, SweepTimeout, Tick, TypeOK, StoreGrows
<1> QED BY <1>1, <1>2, <1>3, <1>4 DEF Background

\* A step that leaves the cluster alone takes nothing back.
LEMMA StillGrows ==
    ASSUME TypeOK, UNCHANGED vars
    PROVE  StoreGrows
BY DEF vars, TypeOK, StoreGrows

-----------------------------------------------------------------------------
(* The steps of one client, as the invariants tell them apart.             *)

\* Nothing of client d changes.
Unmoved(d) ==
    UNCHANGED <<leader[d], call[d], outcome[d], read[d]>>

\* A call begins.
Opens(c) ==
    /\ call'[c].pc = "call" /\ call'[c].attempt = 0 /\ call'[c].sent = {}
    /\ UNCHANGED <<outcome[c], read[c]>>

\* The client, which knew no leader, is told of it.
Learns(c) ==
    /\ leader[c] = NoAddr /\ leader'[c] = Leader
    /\ UNCHANGED <<call[c], outcome[c], read[c]>>

\* The leader has put the request in its log.
Submitted(c) ==
    /\ call[c].pc = "call"
    /\ Len(log') = Len(log) + 1
    /\ call'[c] = [call[c] EXCEPT !.pc = "wait", !.index = Len(log) + 1,
                                  !.sent = call[c].sent
                                             \cup {Len(log) + 1}]
    /\ UNCHANGED <<leader[c], outcome[c], read[c]>>

\* The second round begins, without the first having failed only when the
\* client has been sent to the leader.
Retries(c) ==
    /\ call[c].pc \in {"call", "wait"} /\ call[c].attempt = 0
    /\ call'[c].pc = "call" /\ call'[c].attempt = 1
    /\ call'[c].sent = call[c].sent
    /\ call'[c].clean => leader'[c] = Leader
    /\ UNCHANGED <<outcome[c], read[c]>>

\* The call ends: by the state machine's answer, or by a failure.
Ends(c) ==
    /\ call'[c] = IdleCall
    /\ outcome'[c].sent = call[c].sent
    /\ \/ /\ outcome'[c].status \in Settled
          /\ call[c].pc = "wait" /\ call[c].index <= rev[Leader]
       \/ outcome'[c].status \notin Settled /\ ~outcome'[c].clean
    /\ UNCHANGED read[c]

\* The handler has looked the entry up on node n.
Fetches(c) ==
    /\ \E n \in Nodes, k \in Keys : call'[c] = GetCall(n, Get(n, k))
    /\ UNCHANGED <<rev, outcome[c], read[c]>>

\* It answers with its revision.
Replies(c) ==
    /\ call[c].pc = "get"
    /\ call'[c] = IdleCall
    /\ read'[c] = [kv |-> call[c].kv, applied |-> rev[call[c].node]]
    /\ UNCHANGED outcome[c]

Moves(c) ==
    \/ Unmoved(c) \/ Opens(c) \/ Learns(c) \/ Submitted(c) \/ Retries(c)
    \/ Ends(c) \/ Fetches(c) \/ Replies(c)

\* Revisions and the length of the log are numbers, before a step and after.
LEMMA Numbers ==
    ASSUME TypeOK, TypeOK'
    PROVE  /\ Len(log) \in Nat /\ Len(log') \in Nat
           /\ \A n \in Nodes : rev[n] \in 0..Len(log) /\ rev'[n] \in 0..Len(log')
<1>1. log \in Seq(Ops) /\ rev \in [Nodes -> 0..Len(log)]
    BY DEF TypeOK
<1>2. log' \in Seq(Ops) /\ rev' \in [Nodes -> 0..Len(log')]
    BY DEF TypeOK
<1>3. Len(log) \in Nat /\ Len(log') \in Nat
    BY <1>1, <1>2, LenProperties
<1> QED BY <1>1, <1>2, <1>3

\* What a client holds stays true while the stores only grow.
LEMMA UnmovedKeeps ==
    ASSUME TypeOK, TypeOK', ClientTyped, StoreGrows,
           NEW d \in Clients, Unmoved(d), InCall(d), Told(d), Consistent(d)
    PROVE  InCall(d)' /\ Told(d)' /\ Consistent(d)'
<1>0. /\ Len(log) \in Nat /\ Len(log') \in Nat /\ Len(log) <= Len(log')
      /\ rev[Leader] \in Nat /\ rev'[Leader] \in Nat
      /\ rev[Leader] <= rev'[Leader]
    BY Numbers DEF StoreGrows
<1>1. Told(d)'
    <2>1. outcome[d] \in Outcomes
        BY DEF ClientTyped
    <2> QED BY <1>0, <2>1 DEF Told, Unmoved, Outcomes
<1>2. Consistent(d)'
    BY DEF Consistent, Unmoved
<1>3. InCall(d)'
    <2>1. CASE call[d].pc \in {"call", "wait"}
        <3>1. call[d] \in WriteCalls
            BY <2>1, CallKinds
        <3>2. 1..Len(log) \subseteq 1..Len(log')
            BY <1>0
        <3> QED BY <2>1, <3>1, <3>2 DEF InCall, Unmoved
    <2>2. CASE call[d].pc = "get"
        <3>1. call[d].node \in Nodes /\ call[d].kv.revision \in Nat
            BY <2>2, CallKinds DEF GetCalls, Entries
        <3>2. rev[call[d].node] <= rev'[call[d].node]
            BY <3>1 DEF StoreGrows
        <3>3. rev[call[d].node] \in Nat /\ rev'[call[d].node] \in Nat
            BY <3>1, Numbers
        <3>4. call[d].kv.revision <= rev'[call[d].node]
            BY <2>2, <3>1, <3>2, <3>3 DEF InCall
        <3> QED BY <2>2, <3>4 DEF InCall, Unmoved
    <2>3. CASE call[d].pc \notin {"call", "wait", "get"}
        BY <2>3 DEF InCall, Unmoved
    <2> QED BY <2>1, <2>2, <2>3
<1> QED BY <1>1, <1>2, <1>3

\* A node's entry of a key is no younger than the node's revision.
LEMMA GetIsApplied ==
    ASSUME TypeOK, EntriesFromLog, NEW n \in Nodes, NEW k \in Keys
    PROVE  Get(n, k).revision <= rev[n]
<1>1. rev[n] \in Nat /\ Get(n, k) \in {kvs[n][k], Absent}
    BY GetType DEF TypeOK
<1>2. Absent.revision = 0
    BY DEF Absent
<1>3. kvs[n][k] # Absent => kvs[n][k].revision <= rev[n]
    BY <1>1 DEF EntriesFromLog
<1> QED BY <1>1, <1>2, <1>3

\* A set of log indexes has a size.
LEMMA IndexesFinite ==
    ASSUME NEW n \in Nat, NEW S \in SUBSET (1..n)
    PROVE  IsFiniteSet(S) /\ Cardinality(S) \in Nat
<1>1. 1 \in Int /\ n \in Int
    OBVIOUS
<1>2. IsFiniteSet(1..n)
    BY <1>1, FS_Interval
<1> QED BY <1>2, FS_Subset, FS_CardinalityType

\* Every step of a client keeps what is known of it.
LEMMA MovesKeep ==
    ASSUME TypeOK, TypeOK', ClientTyped, StoreGrows, EntriesFromLog,
           NEW c \in Clients, Moves(c), InCall(c), Told(c), Consistent(c)
    PROVE  InCall(c)' /\ Told(c)' /\ Consistent(c)'
<1>0. /\ Len(log) \in Nat /\ Len(log') \in Nat /\ Len(log) <= Len(log')
      /\ rev[Leader] \in Nat /\ rev'[Leader] \in Nat
      /\ rev[Leader] <= rev'[Leader]
    BY Numbers DEF StoreGrows
<1>1. ASSUME UNCHANGED outcome[c] PROVE Told(c)'
    <2>1. outcome[c] \in Outcomes
        BY DEF ClientTyped
    <2> QED BY <1>0, <1>1, <2>1 DEF Told, Outcomes
<1>2. ASSUME UNCHANGED read[c] PROVE Consistent(c)'
    BY <1>2 DEF Consistent
<1>3. CASE Unmoved(c)
    BY <1>3, UnmovedKeeps
<1>4. CASE Opens(c)
    <2>1. Cardinality({}) = 0
        BY FS_EmptySet
    <2>2. InCall(c)'
        BY <1>4, <2>1 DEF Opens, InCall
    <2> QED BY <1>1, <1>2, <1>4, <2>2 DEF Opens
<1>5. CASE Learns(c)
    <2>1. /\ leader'[c] = Leader /\ call'[c] = call[c]
          /\ outcome'[c] = outcome[c] /\ read'[c] = read[c]
        BY <1>5 DEF Learns
    <2>2. InCall(c)'
        <3>1. CASE call[c].pc \in {"call", "wait"}
            <4>1. call[c] \in WriteCalls
                BY <3>1, CallKinds
            <4>2. 1..Len(log) \subseteq 1..Len(log')
                BY <1>0
            <4> QED BY <2>1, <3>1, <4>1, <4>2 DEF InCall
        <3>2. CASE call[c].pc = "get"
            <4>1. call[c].node \in Nodes /\ call[c].kv.revision \in Nat
                BY <3>2, CallKinds DEF GetCalls, Entries
            <4>2. rev[call[c].node] <= rev'[call[c].node]
                BY <4>1 DEF StoreGrows
            <4>3. rev[call[c].node] \in Nat /\ rev'[call[c].node] \in Nat
                BY <4>1, Numbers
            <4>4. call[c].kv.revision <= rev'[call[c].node]
                BY <3>2, <4>1, <4>2, <4>3 DEF InCall
            <4> QED BY <2>1, <3>2, <4>4 DEF InCall
        <3>3. CASE call[c].pc \notin {"call", "wait", "get"}
            BY <2>1, <3>3 DEF InCall
        <3> QED BY <3>1, <3>2, <3>3
    <2> QED BY <1>1, <1>2, <2>1, <2>2
<1>6. CASE Submitted(c)
    <2> DEFINE S == call[c].sent
               i == Len(log) + 1
    <2>1. /\ call[c] \in WriteCalls /\ call[c].pc = "call"
          /\ Len(log') = i /\ UNCHANGED <<leader[c], outcome[c], read[c]>>
        BY <1>6, CallKinds DEF Submitted
    <2>2. call'[c] = [call[c] EXCEPT !.pc = "wait", !.index = i,
                                     !.sent = S \cup {i}]
        BY <1>6 DEF Submitted
    <2>3. /\ call'[c].pc = "wait" /\ call'[c].index = i
          /\ call'[c].sent = S \cup {i}
          /\ call'[c].attempt = call[c].attempt
          /\ call'[c].clean = call[c].clean
        BY <2>1, <2>2 DEF WriteCalls
    <2>4. S \in SUBSET (1..Len(log)) /\ Cardinality(S) <= call[c].attempt
          /\ (call[c].clean /\ call[c].attempt = 1 => leader[c] = Leader)
        BY <2>1 DEF InCall
    <2>5. /\ Cardinality(S) \in Nat
          /\ Cardinality(S \cup {i}) = Cardinality(S) + 1
        <3>1. IsFiniteSet(S) /\ Cardinality(S) \in Nat
            BY <1>0, <2>4, IndexesFinite
        <3>2. i \notin S
            BY <1>0, <2>4
        <3> QED BY <3>1, <3>2, FS_AddElement
    <2>6. call[c].attempt \in 0..1
        BY <2>1 DEF WriteCalls
    <2>7. Cardinality(S \cup {i}) <= call[c].attempt + 1
        BY <2>4, <2>5, <2>6
    <2>8. /\ S \cup {i} \subseteq 1..Len(log')
          /\ \A j \in S \cup {i} : j <= i
          /\ i \in 1..Len(log')
        BY <1>0, <2>1, <2>4
    <2>9. InCall(c)'
        <3> HIDE DEF S, i
        <3> QED BY <2>1, <2>3, <2>4, <2>7, <2>8 DEF InCall
    <2> QED BY <1>1, <1>2, <2>1, <2>9
<1>7. CASE Retries(c)
    <2>1. call[c] \in WriteCalls /\ call[c].attempt = 0
        BY <1>7, CallKinds DEF Retries
    <2>2. /\ call'[c].pc = "call" /\ call'[c].attempt = 1
          /\ call'[c].sent = call[c].sent
          /\ call'[c].clean => leader'[c] = Leader
          /\ UNCHANGED <<outcome[c], read[c]>>
        BY <1>7 DEF Retries
    <2>3. /\ call[c].sent \in SUBSET (1..Len(log))
          /\ Cardinality(call[c].sent) <= 1
        <3>1. /\ call[c].sent \in SUBSET (1..Len(log))
              /\ Cardinality(call[c].sent)
                    <= IF call[c].pc = "wait" THEN 1 ELSE 0
            BY <1>7, <2>1 DEF InCall, Retries
        <3>2. Cardinality(call[c].sent) \in Nat
            BY <1>0, <3>1, IndexesFinite
        <3> QED BY <3>1, <3>2
    <2>4. 1..Len(log) \subseteq 1..Len(log')
        BY <1>0
    <2>5. InCall(c)'
        BY <2>2, <2>3, <2>4 DEF InCall
    <2> QED BY <1>1, <1>2, <2>2, <2>5
<1>8. CASE Ends(c)
    <2>1. InCall(c)'
        BY <1>8 DEF Ends, IdleCall, InCall
    <2>2. Told(c)'
        <3>1. CASE /\ outcome'[c].status \in Settled
                   /\ call[c].pc = "wait" /\ call[c].index <= rev[Leader]
            <4>1. call[c] \in WriteCalls
                BY <3>1, CallKinds
            <4>2. \A i \in call[c].sent : i <= call[c].index /\ i \in Nat
                BY <3>1, <4>1 DEF InCall, WriteCalls
            <4>3. \A i \in call[c].sent : i <= rev'[Leader]
                BY <1>0, <3>1, <4>1, <4>2 DEF WriteCalls
            <4> QED BY <1>8, <3>1, <4>3 DEF Ends, Told
        <3>2. CASE outcome'[c].status \notin Settled /\ ~outcome'[c].clean
            BY <3>2 DEF Told
        <3> QED BY <1>8, <3>1, <3>2 DEF Ends
    <2> QED BY <1>2, <1>8, <2>1, <2>2 DEF Ends
<1>9. CASE Fetches(c)
    <2>1. PICK n \in Nodes, k \in Keys : call'[c] = GetCall(n, Get(n, k))
        BY <1>9 DEF Fetches
    <2>2. PICK kv : kv = Get(n, k)
        OBVIOUS
    <2>3. call'[c] = [pc |-> "get", node |-> n, kv |-> kv]
        BY <2>1, <2>2 DEF GetCall
    <2>4. kv.revision <= rev'[n]
        BY <1>9, <2>2, GetIsApplied DEF Fetches
    <2>5. InCall(c)'
        BY <2>3, <2>4 DEF InCall
    <2> QED BY <1>1, <1>2, <1>9, <2>5 DEF Fetches
<1>10. CASE Replies(c)
    <2>1. InCall(c)'
        BY <1>10 DEF Replies, IdleCall, InCall
    <2>2. Consistent(c)'
        BY <1>10 DEF Replies, InCall, Consistent
    <2> QED BY <1>1, <1>10, <2>1, <2>2 DEF Replies
<1> QED
    BY <1>3, <1>4, <1>5, <1>6, <1>7, <1>8, <1>9, <1>10 DEF Moves

-----------------------------------------------------------------------------
(* The actions of Client are moves                                         *)

\* The end of a call: the client is idle and keeps the outcome.
LEMMA ReturnEffect ==
    ASSUME ClientTyped, NEW c \in Clients, call[c] \in WriteCalls,
           NEW clean \in BOOLEAN, NEW broken \in BOOLEAN,
           NEW status \in Statuses, Return(c, status, clean, broken)
    PROVE  /\ call' \in [Clients -> {IdleCall} \cup GetCalls \cup WriteCalls]
           /\ outcome' \in [Clients -> Outcomes]
           /\ \A d \in Clients \ {c} :
                 call'[d] = call[d] /\ outcome'[d] = outcome[d]
           /\ call'[c] = IdleCall
           /\ outcome'[c] = [status |-> status, sent |-> call[c].sent,
                             clean |-> clean, broken |-> broken]
<1>1. /\ call \in [Clients -> {IdleCall} \cup GetCalls \cup WriteCalls]
      /\ outcome \in [Clients -> Outcomes]
    BY DEF ClientTyped
<1>2. PICK o : o = [status |-> status, sent |-> call[c].sent,
                    clean |-> clean, broken |-> broken]
    OBVIOUS
<1>3. call' = [call EXCEPT ![c] = IdleCall]
      /\ outcome' = [outcome EXCEPT ![c] = o]
    BY <1>2 DEF Return
<1>4. o \in Outcomes
    BY <1>2 DEF Outcomes, WriteCalls
<1> QED BY <1>1, <1>2, <1>3, <1>4

\* The end of an attempt: another round when it was the first (Put and
\* Delete, client.go), otherwise the end of the call.
LEMMA AgainEffect ==
    ASSUME ClientTyped, NEW c \in Clients, call[c] \in WriteCalls,
           NEW clean \in BOOLEAN, NEW broken \in BOOLEAN,
           NEW last \in Statuses, Again(c, clean, broken, last)
    PROVE  /\ call' \in [Clients -> {IdleCall} \cup GetCalls \cup WriteCalls]
           /\ outcome' \in [Clients -> Outcomes]
           /\ \A d \in Clients \ {c} :
                 call'[d] = call[d] /\ outcome'[d] = outcome[d]
           /\ call[c].attempt = 0 =>
                 /\ call'[c].pc = "call" /\ call'[c].attempt = 1
                 /\ call'[c].sent = call[c].sent
                 /\ call'[c].clean = clean
                 /\ outcome'[c] = outcome[c]
           /\ call[c].attempt # 0 =>
                 /\ call'[c] = IdleCall
                 /\ outcome'[c] = [status |-> last, sent |-> call[c].sent,
                                   clean |-> clean, broken |-> broken]
<1>1. /\ call \in [Clients -> {IdleCall} \cup GetCalls \cup WriteCalls]
      /\ outcome \in [Clients -> Outcomes]
    BY DEF ClientTyped
<1>2. CASE call[c].attempt = 0
    <2>0. PICK w \in WriteCalls : w = call[c]
        OBVIOUS
    <2>1. PICK x : x = [w EXCEPT !.pc = "call", !.attempt = 1,
                                 !.clean = clean, !.broken = broken]
        OBVIOUS
    <2>2. call' = [call EXCEPT ![c] = x] /\ outcome' = outcome
        BY <1>2, <2>0, <2>1 DEF Again
    <2>3. x = [pc |-> "call", req |-> w.req, attempt |-> 1, sent |-> w.sent,
               index |-> w.index, clean |-> clean, broken |-> broken]
        BY <2>1 DEF WriteCalls
    <2>4. w.req \in Requests /\ w.sent \in SUBSET Nat /\ w.index \in Nat
        BY DEF WriteCalls
    <2>5. x \in WriteCalls
        BY <2>3, <2>4 DEF WriteCalls
    <2>6. /\ x.pc = "call" /\ x.attempt = 1 /\ x.sent = call[c].sent
          /\ x.clean = clean
        BY <2>0, <2>3
    <2> QED BY <1>1, <1>2, <2>2, <2>5, <2>6
<1>3. CASE call[c].attempt # 0
    <2>1. Return(c, last, clean, broken)
        BY <1>3 DEF Again
    <2> QED BY <1>3, <2>1, ReturnEffect
<1> QED BY <1>2, <1>3

\* A failed attempt (isRetryableTransport): the next round, or the end
\* without an answer.
LEMMA UnavailableMoves ==
    ASSUME ClientTyped, NEW c \in Clients, call[c] \in WriteCalls,
           NEW broken \in BOOLEAN, Unavailable(c, broken), UNCHANGED read
    PROVE  /\ leader' \in [Clients -> Nodes \cup {NoAddr}]
           /\ call' \in [Clients -> {IdleCall} \cup GetCalls \cup WriteCalls]
           /\ outcome' \in [Clients -> Outcomes]
           /\ \A d \in Clients : Moves(d)
<1>1. call[c].broken \in BOOLEAN
    BY DEF WriteCalls
<1>2. PICK b \in BOOLEAN : b = (call[c].broken \/ broken)
    OBVIOUS
<1>3. Again(c, FALSE, b, "unavailable") /\ "unavailable" \in Statuses
    BY <1>2 DEF Unavailable, Statuses
<1>4. /\ leader' \in [Clients -> Nodes \cup {NoAddr}]
      /\ \A d \in Clients \ {c} : leader'[d] = leader[d]
    BY DEF Unavailable, ClientTyped
<1>5. /\ call' \in [Clients -> {IdleCall} \cup GetCalls \cup WriteCalls]
      /\ outcome' \in [Clients -> Outcomes]
      /\ \A d \in Clients \ {c} :
            call'[d] = call[d] /\ outcome'[d] = outcome[d]
    BY <1>3, AgainEffect
<1>6. \A d \in Clients \ {c} : Moves(d)
    BY <1>4, <1>5 DEF Moves, Unmoved
<1>7. Moves(c)
    <2>1. CASE call[c].attempt = 0
        <3>1. /\ call'[c].pc = "call" /\ call'[c].attempt = 1
              /\ call'[c].sent = call[c].sent
              /\ call'[c].clean = FALSE
              /\ outcome'[c] = outcome[c]
            BY <1>3, <2>1, AgainEffect
        <3>2. call[c].pc \in {"call", "wait"}
            BY DEF WriteCalls
        <3>3. Retries(c)
            BY <2>1, <3>1, <3>2 DEF Retries
        <3> QED BY <3>3 DEF Moves
    <2>2. CASE call[c].attempt # 0
        <3>1. /\ call'[c] = IdleCall
              /\ outcome'[c] = [status |-> "unavailable",
                                sent |-> call[c].sent,
                                clean |-> FALSE, broken |-> b]
            BY <1>3, <2>2, AgainEffect
        <3>2. Ends(c)
            BY <3>1 DEF Ends, Settled
        <3> QED BY <3>2 DEF Moves
    <2> QED BY <2>1, <2>2
<1> QED BY <1>4, <1>5, <1>6, <1>7

\* A broken connection may leave its request with the leader, nothing else.
LEMMA AbandonedType ==
    ASSUME ClientTyped, NEW c \in Clients, Abandoned(c),
           call[c] \in WriteCalls
    PROVE  stray' \in SUBSET Requests
<1>1. call[c].req \in Requests
    BY DEF WriteCalls
<1> QED BY <1>1 DEF Abandoned, ClientTyped

\* The actions whose faults are counted stay within their budget.
LEMMA FaultType ==
    ASSUME ClientTyped, Fault
    PROVE  faults' \in 0..MaxFaults
BY ClientAssumption DEF Fault, ClientTyped

\* Which calls the guards of the actions pick out, and their clients' types.
LEMMA OpenWrite ==
    ASSUME ClientTyped, NEW c \in Clients, call[c].pc \in {"call", "wait"}
    PROVE  /\ call[c] \in WriteCalls /\ call[c].req \in Requests
           /\ call[c].attempt \in 0..1
           /\ call[c].clean \in BOOLEAN
           /\ call[c].broken \in BOOLEAN
<1>1. call[c] \in WriteCalls
    BY CallKinds
<1>2. call[c].clean \in BOOLEAN
    BY <1>1 DEF WriteCalls
<1>3. call[c].broken \in BOOLEAN
    BY <1>1 DEF WriteCalls
<1>4. call[c].req \in Requests /\ call[c].attempt \in 0..1
    BY <1>1 DEF WriteCalls
<1> QED BY <1>1, <1>2, <1>3, <1>4

\* Every step moves the clients as above and the cluster by its own steps.
LEMMA ClientStep ==
    ASSUME TypeOK, ClientTyped, Tracked, [ClientNext]_allVars
    PROVE  ClientTyped' /\ StoreGrows /\ \A d \in Clients : Moves(d)
<1> DEFINE Goal == ClientTyped' /\ StoreGrows /\ \A d \in Clients : Moves(d)
<1>0. /\ leader \in [Clients -> Nodes \cup {NoAddr}]
      /\ call \in [Clients -> {IdleCall} \cup GetCalls \cup WriteCalls]
      /\ calls \in [Clients -> 0..MaxCalls]
      /\ outcome \in [Clients -> Outcomes]
      /\ read \in [Clients -> [kv : Entries, applied : Nat]]
      /\ stray \in SUBSET Requests
      /\ faults \in 0..MaxFaults
    BY DEF ClientTyped
<1>1. ASSUME NEW c \in Clients, NEW req \in Requests, Begin(c, req)
      PROVE  Goal
    <2>1. PICK x : x = NewCall(req)
        OBVIOUS
    <2>2. /\ x \in WriteCalls
          /\ x.pc = "call" /\ x.attempt = 0 /\ x.sent = {}
        BY <2>1 DEF NewCall, WriteCalls
    <2>3. call' = [call EXCEPT ![c] = x]
        BY <1>1, <2>1 DEF Begin
    <2>4. calls' \in [Clients -> 0..MaxCalls]
        BY <1>0, <1>1, ClientAssumption DEF Begin
    <2>5. UNCHANGED <<leader, outcome, read, stray, faults>>
        BY <1>1 DEF Begin
    <2>6. call' \in [Clients -> {IdleCall} \cup GetCalls \cup WriteCalls]
        BY <1>0, <2>2, <2>3
    <2>7. \A d \in Clients : Moves(d)
        BY <1>0, <2>2, <2>3, <2>5 DEF Moves, Opens, Unmoved
    <2>8. StoreGrows
        BY <1>1, StillGrows DEF Begin
    <2> QED BY <1>0, <2>4, <2>5, <2>6, <2>7, <2>8 DEF ClientTyped
<1>2. ASSUME NEW c \in Clients, Discover(c) PROVE Goal
    <2>1. leader' = [leader EXCEPT ![c] = Leader]
        BY <1>2 DEF Discover, Info
    <2>2. /\ leader[c] = NoAddr
          /\ UNCHANGED <<call, calls, outcome, read, stray, faults>>
        BY <1>2 DEF Discover
    <2>3. \A d \in Clients : Moves(d)
        BY <1>0, <2>1, <2>2 DEF Moves, Learns, Unmoved
    <2>4. StoreGrows
        BY <1>2, StillGrows DEF Discover
    <2> QED BY <1>0, <2>1, <2>2, <2>3, <2>4 DEF ClientTyped
<1>3. ASSUME NEW c \in Clients, DiscoverFails(c) PROVE Goal
    <2>1. /\ call[c] \in WriteCalls /\ call[c].broken \in BOOLEAN
          /\ "unavailable" \in Statuses
        BY <1>3, OpenWrite DEF DiscoverFails, Statuses
    <2>2. /\ Return(c, "unavailable", FALSE, call[c].broken)
          /\ Fault
          /\ UNCHANGED <<leader, calls, read, stray>>
        BY <1>3 DEF DiscoverFails
    <2>3. PICK b \in BOOLEAN : b = call[c].broken
        BY <2>1
    <2>4. /\ call' \in [Clients -> {IdleCall} \cup GetCalls \cup WriteCalls]
          /\ outcome' \in [Clients -> Outcomes]
          /\ \A d \in Clients \ {c} :
                call'[d] = call[d] /\ outcome'[d] = outcome[d]
          /\ call'[c] = IdleCall
          /\ outcome'[c] = [status |-> "unavailable", sent |-> call[c].sent,
                            clean |-> FALSE, broken |-> b]
        BY <2>1, <2>2, <2>3, ReturnEffect
    <2>5. Ends(c)
        BY <2>2, <2>4 DEF Ends, Settled
    <2>6. \A d \in Clients : Moves(d)
        BY <2>2, <2>4, <2>5 DEF Moves, Unmoved
    <2>7. StoreGrows
        BY <1>3, StillGrows DEF DiscoverFails
    <2> QED BY <1>0, <2>2, <2>4, <2>6, <2>7, FaultType DEF ClientTyped
<1>4. ASSUME NEW c \in Clients, Submit(c) PROVE Goal
    <2>1. call[c] \in WriteCalls /\ call[c].pc = "call"
          /\ call[c].req \in Requests
        BY <1>4, OpenWrite DEF Submit
    <2>2. PICK w \in WriteCalls : w = call[c]
        BY <2>1
    <2>3. PICK i \in Nat : i = Len(log) + 1
        BY DEF TypeOK
    <2>4. PICK x : x = [w EXCEPT !.pc = "wait", !.index = i,
                                 !.sent = w.sent \cup {i}]
        OBVIOUS
    <2>5. /\ call' = [call EXCEPT ![c] = x]
          /\ Execute(call[c].req)
          /\ UNCHANGED <<leader, calls, outcome, read, stray, faults>>
        BY <1>4, <2>2, <2>3, <2>4 DEF Submit
    <2>6. x = [pc |-> "wait", req |-> w.req, attempt |-> w.attempt,
               sent |-> w.sent \cup {i}, index |-> i, clean |-> w.clean,
               broken |-> w.broken]
        BY <2>4 DEF WriteCalls
    <2>7. x \in WriteCalls
        <3>1. w.clean \in BOOLEAN
            BY DEF WriteCalls
        <3>2. w.broken \in BOOLEAN
            BY DEF WriteCalls
        <3>3. /\ w.req \in Requests /\ w.attempt \in 0..1
              /\ w.sent \cup {i} \in SUBSET Nat
            BY DEF WriteCalls
        <3> QED BY <2>6, <3>1, <3>2, <3>3 DEF WriteCalls
    <2>8. StoreGrows /\ Len(log') = Len(log) + 1
        BY <2>1, <2>5, ExecuteGrows
    <2>9. call'[c] = x /\ \A d \in Clients \ {c} : call'[d] = call[d]
        BY <1>0, <2>5
    <2>10. Submitted(c)
        BY <2>1, <2>2, <2>3, <2>4, <2>5, <2>8, <2>9 DEF Submitted
    <2>11. \A d \in Clients : Moves(d)
        BY <2>5, <2>9, <2>10 DEF Moves, Unmoved
    <2> QED BY <1>0, <2>5, <2>7, <2>8, <2>11 DEF ClientTyped
<1>5. ASSUME NEW c \in Clients, NotLeader(c) PROVE Goal
    <2>1. /\ call[c].pc = "call" /\ leader[c] # Leader
          /\ call[c] \in WriteCalls /\ call[c].attempt \in 0..1
          /\ call[c].clean \in BOOLEAN /\ call[c].broken \in BOOLEAN
          /\ "noquorum" \in Statuses
        BY <1>5, OpenWrite DEF NotLeader, Statuses
    <2>2. /\ leader' = [leader EXCEPT ![c] = Leader]
          /\ Again(c, call[c].clean, call[c].broken, "noquorum")
          /\ UNCHANGED <<calls, read, stray, faults>>
        BY <1>5 DEF NotLeader, withLeaderHint
    <2>3. PICK cl \in BOOLEAN : cl = call[c].clean
        BY <2>1
    <2>4. PICK b \in BOOLEAN : b = call[c].broken
        BY <2>1
    <2>5. Again(c, cl, b, "noquorum")
        BY <2>2, <2>3, <2>4
    <2>6. /\ call' \in [Clients -> {IdleCall} \cup GetCalls \cup WriteCalls]
          /\ outcome' \in [Clients -> Outcomes]
          /\ \A d \in Clients \ {c} :
                call'[d] = call[d] /\ outcome'[d] = outcome[d]
        BY <2>1, <2>5, AgainEffect
    <2>7. leader'[c] = Leader
          /\ \A d \in Clients \ {c} : leader'[d] = leader[d]
        BY <1>0, <2>2
    <2>8. Moves(c)
        <3>1. CASE call[c].attempt = 0
            <4>1. /\ call[c].attempt = 0 =>
                        /\ call'[c].pc = "call" /\ call'[c].attempt = 1
                        /\ call'[c].sent = call[c].sent
                        /\ call'[c].clean = cl
                        /\ outcome'[c] = outcome[c]
                BY <2>1, <2>5, AgainEffect
            <4>2. Retries(c)
                BY <2>1, <2>2, <2>7, <3>1, <4>1 DEF Retries
            <4> QED BY <4>2 DEF Moves
        <3>2. CASE call[c].attempt # 0
            <4>1. ~cl
                BY <2>1, <2>3, <3>2 DEF Tracked, InCall
            <4>2. /\ call'[c] = IdleCall
                  /\ outcome'[c] = [status |-> "noquorum",
                                    sent |-> call[c].sent,
                                    clean |-> cl, broken |-> b]
                BY <2>1, <2>5, <3>2, AgainEffect
            <4>3. Ends(c)
                BY <2>2, <4>1, <4>2 DEF Ends, Settled
            <4> QED BY <4>3 DEF Moves
        <3> QED BY <3>1, <3>2
    <2>9. \A d \in Clients : Moves(d)
        BY <2>2, <2>6, <2>7, <2>8 DEF Moves, Unmoved
    <2>10. StoreGrows
        BY <1>5, StillGrows DEF NotLeader
    <2> QED BY <1>0, <2>2, <2>6, <2>9, <2>10 DEF ClientTyped
<1>6. ASSUME NEW c \in Clients, Break(c) PROVE Goal
    <2>1. call[c] \in WriteCalls
        BY <1>6, OpenWrite DEF Break
    <2>2. /\ Unavailable(c, TRUE) /\ Fault /\ Abandoned(c)
          /\ UNCHANGED <<calls, read>>
        BY <1>6 DEF Break
    <2>3. StoreGrows
        BY <1>6, StillGrows DEF Break
    <2> QED BY <1>0, <2>1, <2>2, <2>3, UnavailableMoves, AbandonedType,
               FaultType DEF ClientTyped
<1>7. ASSUME NEW c \in Clients, ProposeTimeout(c) PROVE Goal
    <2>1. call[c] \in WriteCalls
        BY <1>7, OpenWrite DEF ProposeTimeout
    <2>2. /\ Unavailable(c, FALSE) /\ Fault
          /\ UNCHANGED <<calls, read, stray>>
        BY <1>7 DEF ProposeTimeout
    <2>3. StoreGrows
        BY <1>7, StillGrows DEF ProposeTimeout
    <2> QED BY <1>0, <2>1, <2>2, <2>3, UnavailableMoves, FaultType
            DEF ClientTyped
<1>8. ASSUME NEW c \in Clients, CallDeadline(c) PROVE Goal
    <2>1. /\ call[c] \in WriteCalls /\ call[c].broken \in BOOLEAN
          /\ "deadline" \in Statuses
        BY <1>8, OpenWrite DEF CallDeadline, Statuses
    <2>2. /\ Return(c, "deadline", FALSE, call[c].broken)
          /\ Fault /\ Abandoned(c)
          /\ UNCHANGED <<leader, calls, read>>
        BY <1>8 DEF CallDeadline
    <2>3. PICK b \in BOOLEAN : b = call[c].broken
        BY <2>1
    <2>4. /\ call' \in [Clients -> {IdleCall} \cup GetCalls \cup WriteCalls]
          /\ outcome' \in [Clients -> Outcomes]
          /\ \A d \in Clients \ {c} :
                call'[d] = call[d] /\ outcome'[d] = outcome[d]
          /\ call'[c] = IdleCall
          /\ outcome'[c] = [status |-> "deadline", sent |-> call[c].sent,
                            clean |-> FALSE, broken |-> b]
        BY <2>1, <2>2, <2>3, ReturnEffect
    <2>5. Ends(c)
        BY <2>2, <2>4 DEF Ends, Settled
    <2>6. \A d \in Clients : Moves(d)
        BY <2>2, <2>4, <2>5 DEF Moves, Unmoved
    <2>7. StoreGrows
        BY <1>8, StillGrows DEF CallDeadline
    <2> QED BY <1>0, <2>1, <2>2, <2>4, <2>6, <2>7, FaultType, AbandonedType
            DEF ClientTyped
<1>9. ASSUME NEW c \in Clients, Answer(c) PROVE Goal
    <2>1. /\ call[c] \in WriteCalls /\ call[c].pc = "wait"
          /\ call[c].clean \in BOOLEAN /\ call[c].broken \in BOOLEAN
        BY <1>9, OpenWrite DEF Answer
    <2>2. /\ Return(c, result[call[c].index], call[c].clean, call[c].broken)
          /\ call[c].index <= rev[Leader]
          /\ UNCHANGED <<leader, calls, read, stray, faults>>
        BY <1>9, <2>1 DEF Answer, WriteCalls, TypeOK
    <2>3. PICK cl \in BOOLEAN : cl = call[c].clean
        BY <2>1
    <2>4. PICK b \in BOOLEAN : b = call[c].broken
        BY <2>1
    <2>5. PICK s \in Settled : s = result[call[c].index]
        <3>1. call[c].index \in 1..Len(log)
            BY <2>1 DEF Tracked, InCall
        <3>2. call[c].index \in 1..Len(result)
            BY <2>2, <3>1 DEF TypeOK
        <3> QED BY <3>2 DEF TypeOK, Settled
    <2>6. Return(c, s, cl, b) /\ s \in Statuses
        BY <2>2, <2>3, <2>4, <2>5 DEF Settled, Statuses
    <2>7. /\ call' \in [Clients -> {IdleCall} \cup GetCalls \cup WriteCalls]
          /\ outcome' \in [Clients -> Outcomes]
          /\ \A d \in Clients \ {c} :
                call'[d] = call[d] /\ outcome'[d] = outcome[d]
          /\ call'[c] = IdleCall
          /\ outcome'[c] = [status |-> s, sent |-> call[c].sent,
                            clean |-> cl, broken |-> b]
        BY <2>1, <2>6, ReturnEffect
    <2>8. Ends(c)
        BY <2>1, <2>2, <2>5, <2>7 DEF Ends
    <2>9. \A d \in Clients : Moves(d)
        BY <2>2, <2>7, <2>8 DEF Moves, Unmoved
    <2>10. StoreGrows
        BY <1>9, StillGrows DEF Answer
    <2> QED BY <1>0, <2>2, <2>7, <2>9, <2>10 DEF ClientTyped
<1>10. ASSUME NEW c \in Clients, NEW n \in Nodes, NEW k \in Keys,
              GetRead(c, n, k)
       PROVE  Goal
    <2>1. PICK kv \in Entries : kv = Get(n, k)
        BY GetType
    <2>2. PICK x : x = GetCall(n, kv)
        OBVIOUS
    <2>3. /\ call' = [call EXCEPT ![c] = x]
          /\ UNCHANGED <<vars, leader, calls, outcome, read, stray, faults>>
        BY <1>10, <2>1, <2>2 DEF GetRead
    <2>4. x \in GetCalls
        BY <2>2 DEF GetCall, GetCalls
    <2>5. call'[c] = GetCall(n, Get(n, k)) /\ UNCHANGED rev
        BY <1>0, <2>1, <2>2, <2>3 DEF vars
    <2>6. Fetches(c)
        BY <2>3, <2>5 DEF Fetches
    <2>7. \A d \in Clients : Moves(d)
        BY <1>0, <2>3, <2>6 DEF Moves, Unmoved
    <2>8. StoreGrows
        BY <2>3, StillGrows
    <2> QED BY <1>0, <2>3, <2>4, <2>7, <2>8 DEF ClientTyped
<1>11. ASSUME NEW c \in Clients, GetReply(c) PROVE Goal
    <2>1. call[c] \in GetCalls /\ call[c].pc = "get"
        BY <1>11, CallKinds DEF GetReply
    <2>2. PICK x : x = [kv |-> call[c].kv, applied |-> rev[call[c].node]]
        OBVIOUS
    <2>3. /\ read' = [read EXCEPT ![c] = x]
          /\ call' = [call EXCEPT ![c] = IdleCall]
          /\ UNCHANGED <<vars, leader, calls, outcome, stray, faults>>
        BY <1>11, <2>2 DEF GetReply
    <2>4. x \in [kv : Entries, applied : Nat]
        <3>1. call[c].kv \in Entries /\ call[c].node \in Nodes
            BY <2>1 DEF GetCalls
        <3>2. rev[call[c].node] \in Nat
            BY <3>1 DEF TypeOK
        <3> QED BY <2>2, <3>1, <3>2
    <2>5. Replies(c)
        BY <1>0, <2>1, <2>2, <2>3 DEF Replies
    <2>6. \A d \in Clients : Moves(d)
        BY <1>0, <2>3, <2>5 DEF Moves, Unmoved
    <2>7. StoreGrows
        BY <2>3, StillGrows
    <2> QED BY <1>0, <2>3, <2>4, <2>6, <2>7 DEF ClientTyped
<1>12. ASSUME NEW req \in stray, StrayExecutes(req) PROVE Goal
    <2>1. req \in Requests /\ Execute(req) /\ stray' = stray \ {req}
          /\ UNCHANGED <<leader, call, calls, outcome, read, faults>>
        BY <1>0, <1>12 DEF StrayExecutes
    <2>2. \A d \in Clients : Moves(d)
        BY <2>1 DEF Moves, Unmoved
    <2>3. StoreGrows
        BY <2>1, ExecuteGrows
    <2> QED BY <1>0, <2>1, <2>2, <2>3 DEF ClientTyped
<1>13. ASSUME UNCHANGED clientVars, StoreGrows PROVE Goal
    <2>1. UNCHANGED <<leader, call, calls, outcome, read, stray, faults>>
        BY <1>13 DEF clientVars
    <2>2. \A d \in Clients : Moves(d)
        BY <2>1 DEF Moves, Unmoved
    <2> QED BY <1>0, <1>13, <2>1, <2>2 DEF ClientTyped
<1>14. ASSUME UNCHANGED allVars PROVE Goal
    BY <1>13, <1>14, StillGrows DEF allVars
<1>15. ASSUME Background, UNCHANGED clientVars PROVE Goal
    BY <1>13, <1>15, BackgroundGrows
<1> HIDE DEF Goal
<1>16. Goal
    BY <1>1, <1>2, <1>3, <1>4, <1>5, <1>6, <1>7, <1>8, <1>9, <1>10, <1>11,
       <1>12, <1>14, <1>15 DEF ClientNext, Progress
<1> QED BY <1>16 DEF Goal

-----------------------------------------------------------------------------
(* What the clients can rely on                                            *)

\* Both at once: the clients' invariant needs that of the stores, and the
\* clients' requests must be well typed to be steps of the cluster.
IInv == TypeOK /\ EntriesFromLog /\ ClientTyped /\ Tracked

\* Every state of a run satisfies it, and no step of a run, whether a
\* client's or the cluster's, takes anything back from the log.
LEMMA InvariantHolds == ClientSpec => []IInv /\ [][StoreGrows]_allVars
<1>1. ClientInit => IInv
    <2> SUFFICES ASSUME ClientInit PROVE IInv
        OBVIOUS
    <2>0. Init
        BY DEF ClientInit
    <2>1. TypeOK
        BY <2>0, InitType
    <2>2. EntriesFromLog
        BY <2>0 DEF Init, EntriesFromLog, Empty
    <2>3. ClientTyped
        <3>1. [kv |-> Absent, applied |-> 0] \in [kv : Entries, applied : Nat]
            BY DEF Absent, Entries
        <3>2. NoOutcome \in Outcomes
            BY DEF NoOutcome, Outcomes
        <3> QED BY <3>1, <3>2, ClientAssumption DEF ClientInit, ClientTyped
    <2>4. ASSUME NEW c \in Clients
          PROVE  InCall(c) /\ Told(c) /\ Consistent(c)
        <3>1. InCall(c)
            BY DEF ClientInit, InCall, IdleCall
        <3>2. Told(c)
            BY DEF ClientInit, Told, NoOutcome, Settled
        <3>3. Consistent(c)
            BY DEF ClientInit, Consistent, Absent
        <3> QED BY <3>1, <3>2, <3>3
    <2> QED BY <2>1, <2>2, <2>3, <2>4 DEF IInv, Tracked
<1>2. IInv /\ [ClientNext]_allVars => IInv' /\ StoreGrows
    <2> SUFFICES ASSUME IInv, [ClientNext]_allVars PROVE IInv' /\ StoreGrows
        OBVIOUS
    <2>1. ClientTyped' /\ StoreGrows /\ \A d \in Clients : Moves(d)
        BY ClientStep DEF IInv
    <2>2. [Next]_vars
        BY <2>1 DEF StoreGrows
    <2>3. TypeOK'
        BY <2>2, TypeStep DEF IInv
    <2>4. EntriesFromLog'
        BY <2>2, EntriesFromLogStep DEF IInv
    <2>5. ASSUME NEW c \in Clients
          PROVE  InCall(c)' /\ Told(c)' /\ Consistent(c)'
        BY <2>1, <2>3, MovesKeep DEF IInv, Tracked
    <2>6. Tracked'
        BY <2>5 DEF Tracked
    <2> QED BY <2>1, <2>3, <2>4, <2>6 DEF IInv
<1> QED BY <1>1, <1>2, PTL DEF ClientSpec

\* Clients reach the cluster through its own operations only: what
\* KVStoreProofs proves of Spec (CasWinsOnce, ReplicasAgree, ExpirySpares)
\* holds whatever the clients do.
THEOREM ClientsUseTheStore == ClientSpec => Spec
<1>1. ClientInit => Init
    BY DEF ClientInit
<1>2. StoreGrows => [Next]_vars
    BY DEF StoreGrows
<1>3. UNCHANGED allVars => UNCHANGED vars
    BY DEF allVars
<1> QED BY <1>1, <1>2, <1>3, InvariantHolds, PTL DEF ClientSpec, Spec

\* Calls, outcomes and cached addresses stay well typed, and a call is never
\* in the log more often than it has made attempts (client.go:212-244).
THEOREM ClientTypeCorrect == ClientSpec => []ClientTypeOK
<1>1. IInv => ClientTypeOK
    <2> SUFFICES ASSUME IInv PROVE ClientTypeOK
        OBVIOUS
    <2>0. TypeOK /\ ClientTyped /\ Tracked
        BY DEF IInv
    <2>1. ASSUME NEW c \in Clients
          PROVE  \/ call[c] = IdleCall
                 \/ call[c].pc = "get" /\ call[c].node \in Nodes
                 \/ /\ call[c].pc \in {"call", "wait"}
                    /\ call[c].req \in Requests
                    /\ call[c].attempt \in 0..1
                    /\ call[c].sent \subseteq DOMAIN log
                    /\ Cardinality(call[c].sent) <= call[c].attempt + 1
        <3>1. CASE call[c].pc \in {"call", "wait"}
            <4>1. call[c].req \in Requests /\ call[c].attempt \in 0..1
                BY <2>0, <3>1, OpenWrite
            <4>2. /\ call[c].sent \in SUBSET (1..Len(log))
                  /\ Cardinality(call[c].sent)
                        <= IF call[c].pc = "wait" THEN call[c].attempt + 1
                                                  ELSE call[c].attempt
                BY <2>0, <3>1 DEF Tracked, InCall
            <4>3. DOMAIN log = 1..Len(log) /\ Len(log) \in Nat
                BY <2>0 DEF TypeOK
            <4>4. Cardinality(call[c].sent) \in Nat
                BY <4>2, <4>3, IndexesFinite
            <4>5. Cardinality(call[c].sent) <= call[c].attempt + 1
                BY <4>1, <4>2, <4>4
            <4> QED BY <3>1, <4>1, <4>2, <4>3, <4>5
        <3>2. CASE call[c].pc = "get"
            BY <2>0, <3>2, CallKinds DEF GetCalls
        <3>3. CASE call[c].pc \notin {"call", "wait", "get"}
            BY <2>0, <3>3, CallKinds
        <3> QED BY <3>1, <3>2, <3>3
    <2>2. \A c \in Clients : outcome[c].status \in Statuses \cup {"none"}
        BY <2>0 DEF ClientTyped, Outcomes
    <2> QED BY <2>0, <2>1, <2>2 DEF ClientTypeOK, ClientTyped
<1> QED BY <1>1, InvariantHolds, PTL

\* Two rounds are enough: a write during which nothing fails gets the state
\* machine's answer, from whatever address the client starts.
THEOREM RedirectsReach == ClientSpec => []RedirectReaches
<1>1. IInv => RedirectReaches
    BY DEF IInv, Tracked, Told, RedirectReaches
<1> QED BY <1>1, InvariantHolds, PTL

\* An answered write has no attempt left that could still be applied
\* (client.go:236-241).
THEOREM NothingLate == ClientSpec => []NoLateEffect
<1>1. IInv => NoLateEffect
    BY DEF IInv, Tracked, Told, NoLateEffect
<1> QED BY <1>1, InvariantHolds, PTL

\* A Get never reports a revision before that of its value, although the
\* handler reads the two under separate locks (kv.go:13-16).
THEOREM GetsAreCovered == ClientSpec => []GetCoversValue
<1>1. IInv => GetCoversValue
    BY DEF IInv, Tracked, Consistent, GetCoversValue
<1> QED BY <1>1, InvariantHolds, PTL

=============================================================================

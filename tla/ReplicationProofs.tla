------------------------- MODULE ReplicationProofs -------------------------
(***************************************************************************)
(* Machine-checked proofs about Replication, for any number of followers,  *)
(* overlapping streams, operations, and any failure budgets.               *)
(***************************************************************************)
EXTENDS Replication, FiniteSetTheorems, SequenceTheorems,
        TLAPS

USE FollowersAssumption, SlotsAssumption, BoundsAssumption
USE DEF leaderVars, signalVars, streamVars, followerVars, budgetVars

(* What the leader may send is well typed. *)
LEMMA EntriesAfterType ==
    ASSUME TypeOK, NEW n \in Nat, compactIndex <= n
    PROVE  EntriesAfter(n) \in Seq(Messages)
<1>1. \A k \in 1..(LastIndex - n) : n + k - compactIndex \in 1..Len(log)
    BY DEF LastIndex, TypeOK
<1>2. \A k \in 1..(LastIndex - n) :
        EntryMsg(n + k, log[n + k - compactIndex]) \in Messages
    BY <1>1 DEF EntryMsg, Messages, TypeOK
<1>3. CASE n <= LastIndex
    <2>1. LastIndex - n \in Nat BY <1>3 DEF LastIndex, TypeOK
    <2> QED BY <1>2, <2>1 DEF EntriesAfter
<1>4. CASE ~(n <= LastIndex)
    <2>1. 1..(LastIndex - n) = 1..0 BY <1>4 DEF LastIndex, TypeOK
    <2>2. EntriesAfter(n) \in [1..0 -> Messages]
        BY <2>1, <1>2 DEF EntriesAfter
    <2>3. \A g \in [1..0 -> Messages] : g \in Seq(Messages)
        OBVIOUS
    <2> QED BY <2>2, <2>3
<1> QED BY <1>3, <1>4

\* What StreamReplicate sends first (snapshot, entries or both) is well typed.
LEMMA CatchupType ==
    ASSUME TypeOK, NEW n \in Nat
    PROVE  Catchup(n) \in Seq(Messages)
<1>1. CASE n >= compactIndex + 1
    BY <1>1, EntriesAfterType DEF Catchup, TypeOK
<1>2. CASE n < compactIndex + 1 /\ compactIndex = 0
    BY <1>2, EntriesAfterType DEF Catchup, TypeOK
<1>3. CASE n < compactIndex + 1 /\ compactIndex # 0
    <2>1. EntriesAfter(compactIndex) \in Seq(Messages)
        BY EntriesAfterType DEF TypeOK
    <2>2. <<SnapshotMsg(savedSnap)>> \in Seq(Messages)
        BY DEF SnapshotMsg, Messages, TypeOK
    <2> QED BY <1>3, <2>1, <2>2 DEF Catchup, TypeOK
<1> QED BY <1>1, <1>2, <1>3 DEF TypeOK

\* Every handler, loop iteration and failure keeps the state well typed.
LEMMA TypeStep ==
    ASSUME TypeOK, WindowConsistent, CrashNext
    PROVE  TypeOK'
<1>1. ASSUME NEW op \in Ops, ProposeAppend(op) PROVE TypeOK'
    <2>1. LastIndex + 1 \in 1..MaxIndex
        BY <1>1 DEF ProposeAppend, LastIndex, TypeOK
    <2>2. log' \in Seq(Ops)
        BY <1>1 DEF ProposeAppend, TypeOK
    <2>3. waiters' \in SUBSET (1..MaxIndex)
        BY <1>1, <2>1 DEF ProposeAppend, TypeOK
    <2>4. proposer' \in [1..MaxIndex -> ProposerStates]
        BY <1>1, <2>1 DEF ProposeAppend, TypeOK, ProposerStates
    <2> QED BY <1>1, <2>2, <2>3, <2>4 DEF TypeOK, ProposeAppend
<1>2. ASSUME NEW i \in 1..MaxIndex, ProposeNotify(i) PROVE TypeOK'
    BY <1>2 DEF TypeOK, ProposeNotify, Notified, ProposerStates
<1>3. ASSUME NEW i \in 1..MaxIndex, ProposeReply(i) PROVE TypeOK'
    BY <1>3 DEF TypeOK, ProposeReply, ProposerStates
<1>4. ASSUME NEW i \in 1..MaxIndex, ProposeTimeout(i) PROVE TypeOK'
    BY <1>4 DEF TypeOK, ProposeTimeout, ProposerStates
<1>5. ASSUME NEW i \in 1..MaxIndex, ProposeStopped(i) PROVE TypeOK'
    BY <1>5 DEF TypeOK, ProposeStopped, ProposerStates
<1>6. CASE Commit
    <2>1. PICK n \in commit..LastIndex :
            /\ lstate' = [i \in 1..n |-> IF i <= commit THEN lstate[i]
                                         ELSE log[i - compactIndex]]
            /\ results' = results \cup {i \in waiters : commit < i /\ i <= n}
            /\ waiters' = waiters \ {i \in waiters : commit < i /\ i <= n}
            /\ \/ /\ savedSnap' = lstate'
                  /\ log' = SubSeq(log, n - compactIndex + 1, Len(log))
                  /\ compactIndex' = n
               \/ UNCHANGED <<savedSnap, log, compactIndex>>
        BY <1>6 DEF Commit, Answered, CompactLocked
    <2>2. n \in Nat
        BY DEF commit, LastIndex, TypeOK
    <2>3. \A i \in 1..n : ~(i <= commit) => i - compactIndex \in 1..Len(log)
        BY <2>2 DEF WindowConsistent, commit, LastIndex, TypeOK
    <2>4. lstate' \in Seq(Ops)
        <3>1. lstate' \in [1..n -> Ops]
            BY <2>1, <2>2, <2>3 DEF commit, TypeOK
        <3> QED BY <2>2, <3>1
    <2>5. SubSeq(log, n - compactIndex + 1, Len(log)) \in Seq(Ops)
        <3>1. n - compactIndex + 1 \in 1..(Len(log) + 1)
            BY <2>2 DEF WindowConsistent, commit, LastIndex, TypeOK
        <3> QED BY <3>1 DEF TypeOK
    <2>6. /\ log' \in Seq(Ops)
          /\ compactIndex' \in Nat
          /\ savedSnap' \in Seq(Ops)
        BY <2>1, <2>2, <2>4, <2>5 DEF TypeOK
    <2>7. /\ waiters' \in SUBSET (1..MaxIndex)
          /\ results' \in SUBSET (1..MaxIndex)
        BY <2>1 DEF TypeOK
    <2> QED BY <1>6, <2>4, <2>6, <2>7 DEF TypeOK, Commit, Answered, CompactLocked
<1>7. CASE Stop
    BY <1>7 DEF TypeOK, Stop
<1>8. ASSUME NEW f \in Followers, NEW s \in Slots, Accept(f, s)
      PROVE  TypeOK'
    <2>1. Head(up[f][s]) \in Nat /\ Tail(up[f][s]) \in Seq(Nat)
        BY <1>8 DEF Accept, TypeOK
    <2>2. /\ up' \in [Followers -> [Slots -> Seq(Nat)]]
          /\ last' \in [Followers -> [Slots -> Nat]]
        BY <1>8, <2>1 DEF Accept, TypeOK
    <2>3. push' \in [Followers -> [Slots -> PushStates]]
        BY <1>8 DEF Accept, TypeOK, PushStates
    <2> QED BY <1>8, <2>2, <2>3 DEF TypeOK, Accept
<1>9. ASSUME NEW f \in Followers, NEW s \in Slots, AcceptFail(f, s)
      PROVE  TypeOK'
    <2>1. up' \in [Followers -> [Slots -> Seq(Nat)]]
        BY <1>9 DEF AcceptFail, TypeOK
    <2> QED BY <1>9, <2>1 DEF TypeOK, AcceptFail
<1>10. ASSUME NEW f \in Followers, NEW s \in Slots, RecvAck(f, s)
      PROVE  TypeOK'
    <2>1. Head(up[f][s]) \in Nat /\ Tail(up[f][s]) \in Seq(Nat)
        BY <1>10 DEF RecvAck, TypeOK
    <2>2. match' \in [Followers -> Nat]
        BY <1>10, <2>1 DEF RecvAck, TypeOK
    <2> QED BY <1>10, <2>1, <2>2 DEF TypeOK, RecvAck
<1>11. ASSUME NEW f \in Followers, NEW s \in Slots, RecvErr(f, s)
      PROVE  TypeOK'
    BY <1>11 DEF TypeOK, RecvErr
<1>12. ASSUME NEW f \in Followers, NEW s \in Slots, PushCatchup(f, s)
      PROVE  TypeOK'
    <2>1. CASE SliceOutOfRange(last[f][s])
        <3>1. panicked' = TRUE /\ UNCHANGED <<push, down>>
            BY <1>12, <2>1 DEF PushCatchup
        <3>2. panicked' \in BOOLEAN
            BY <3>1
        <3> QED BY <1>12, <3>1, <3>2 DEF TypeOK, PushCatchup
    <2>2. CASE ~SliceOutOfRange(last[f][s])
        <3>1. Catchup(last[f][s]) \in Seq(Messages)
            BY <1>12, CatchupType DEF TypeOK
        <3>2. Sent(f, s, Catchup(last[f][s]))
                \in [Followers -> [Slots -> Seq(Messages)]]
            BY <3>1 DEF Sent, TypeOK
        <3>3. /\ down' = Sent(f, s, Catchup(last[f][s]))
              /\ push' = [push EXCEPT ![f][s] = "mark"]
              /\ UNCHANGED panicked
            BY <1>12, <2>2 DEF PushCatchup
        <3>4. push' \in [Followers -> [Slots -> PushStates]]
            BY <3>3 DEF TypeOK, PushStates
        <3> QED BY <1>12, <3>2, <3>3, <3>4 DEF TypeOK, PushCatchup
    <2> QED BY <2>1, <2>2
<1>13. ASSUME NEW f \in Followers, NEW s \in Slots, PushSend(f, s)
      PROVE  TypeOK'
    <2>1. CASE SliceOutOfRange(last[f][s])
        <3>1. panicked' = TRUE /\ UNCHANGED <<push, last, down>>
            BY <1>13, <2>1 DEF PushSend
        <3>2. panicked' \in BOOLEAN
            BY <3>1
        <3> QED BY <1>13, <3>1, <3>2 DEF TypeOK, PushSend
    <2>2. CASE ~SliceOutOfRange(last[f][s])
        <3>1. EntriesAfter(last[f][s]) \in Seq(Messages)
            BY <1>13, EntriesAfterType DEF TypeOK, PushSend
        <3>2. Sent(f, s, EntriesAfter(last[f][s]))
                \in [Followers -> [Slots -> Seq(Messages)]]
            BY <3>1 DEF Sent, TypeOK
        <3>3. /\ down' = Sent(f, s, EntriesAfter(last[f][s]))
              /\ push' = [push EXCEPT ![f][s] = "check"]
              /\ last' = [last EXCEPT ![f][s] = li[f][s]]
              /\ UNCHANGED panicked
            BY <1>13, <2>2 DEF PushSend
        <3>4. push' \in [Followers -> [Slots -> PushStates]]
            BY <3>3 DEF TypeOK, PushStates
        <3>5. last' \in [Followers -> [Slots -> Nat]]
            BY <3>3 DEF TypeOK
        <3> QED BY <1>13, <3>2, <3>3, <3>4, <3>5 DEF TypeOK, PushSend
    <2> QED BY <2>1, <2>2
<1>14. ASSUME NEW f \in Followers, NEW s \in Slots, PushMark(f, s)
      PROVE  TypeOK'
    <2>1. last' \in [Followers -> [Slots -> Nat]]
        BY <1>14 DEF TypeOK, PushMark, LastIndex
    <2>2. push' \in [Followers -> [Slots -> PushStates]]
        BY <1>14 DEF TypeOK, PushMark, PushStates
    <2> QED BY <1>14, <2>1, <2>2 DEF TypeOK, PushMark
<1>15. ASSUME NEW f \in Followers, NEW s \in Slots, PushSubscribe(f, s)
      PROVE  TypeOK'
    <2>1. push' \in [Followers -> [Slots -> PushStates]]
        BY <1>15 DEF TypeOK, PushSubscribe, PushStates
    <2> QED BY <1>15, <2>1 DEF TypeOK, PushSubscribe
<1>16. ASSUME NEW f \in Followers, NEW s \in Slots, PushWake(f, s)
      PROVE  TypeOK'
    <2>1. push' \in [Followers -> [Slots -> PushStates]]
        BY <1>16 DEF TypeOK, PushWake, PushStates
    <2> QED BY <1>16, <2>1 DEF TypeOK, PushWake
<1>17. ASSUME NEW f \in Followers, NEW s \in Slots, PushIdle(f, s)
      PROVE  TypeOK'
    <2>1. push' \in [Followers -> [Slots -> PushStates]]
        BY <1>17 DEF TypeOK, PushIdle, PushStates
    <2> QED BY <1>17, <2>1 DEF TypeOK, PushIdle
<1>18. ASSUME NEW f \in Followers, NEW s \in Slots, PushCheck(f, s)
      PROVE  TypeOK'
    <2>1. li' \in [Followers -> [Slots -> Nat]]
        BY <1>18 DEF TypeOK, PushCheck, LastIndex
    <2>2. push' \in [Followers -> [Slots -> PushStates]]
        BY <1>18 DEF TypeOK, PushCheck, PushStates
    <2> QED BY <1>18, <2>1, <2>2 DEF TypeOK, PushCheck
<1>19. ASSUME NEW f \in Followers, NEW s \in Slots, PushResync(f, s)
      PROVE  TypeOK'
    <2>1. push' \in [Followers -> [Slots -> PushStates]]
        BY <1>19 DEF TypeOK, PushResync, PushStates
    <2> QED BY <1>19, <2>1 DEF TypeOK, PushResync
<1>20. ASSUME NEW f \in Followers, NEW s \in Slots, PushExit(f, s)
      PROVE  TypeOK'
    <2>1. push' \in [Followers -> [Slots -> PushStates]]
        BY <1>20 DEF TypeOK, PushExit, PushStates
    <2> QED BY <1>20, <2>1 DEF TypeOK, PushExit
<1>21. ASSUME NEW f \in Followers, NEW s \in Slots, HandlerReplaced(f, s)
      PROVE  TypeOK'
    BY <1>21 DEF TypeOK, HandlerReplaced
<1>22. ASSUME NEW f \in Followers, NEW s \in Slots, HandlerExit(f, s)
      PROVE  TypeOK'
    BY <1>22 DEF TypeOK, HandlerExit
<1>23. ASSUME NEW f \in Followers, NEW s \in Slots, HandlerReset(f, s)
      PROVE  TypeOK'
    BY <1>23 DEF TypeOK, HandlerReset
<1>24. ASSUME NEW f \in Followers, NEW s \in Slots, Connect(f, s)
      PROVE  TypeOK'
    <2>1. up' \in [Followers -> [Slots -> Seq(Nat)]]
        BY <1>24 DEF Connect, AppliedIndex, TypeOK
    <2>2. down' \in [Followers -> [Slots -> Seq(Messages)]]
        BY <1>24 DEF Connect, TypeOK
    <2>3. /\ last' \in [Followers -> [Slots -> Nat]]
          /\ li' \in [Followers -> [Slots -> Nat]]
        BY <1>24 DEF Connect, TypeOK
    <2>4. push' \in [Followers -> [Slots -> PushStates]]
        BY <1>24 DEF Connect, TypeOK, PushStates
    <2> QED BY <1>24, <2>1, <2>2, <2>3, <2>4 DEF TypeOK, Connect
<1>25. ASSUME NEW f \in Followers, NEW s \in Slots, FollowerSnapshot(f, s)
      PROVE  TypeOK'
    <2>1. /\ Head(down[f][s]) \in Messages
          /\ Tail(down[f][s]) \in Seq(Messages)
        BY <1>25 DEF FollowerSnapshot, TypeOK
    <2>2. Head(down[f][s]).state \in Seq(Ops)
        BY <1>25, <2>1 DEF FollowerSnapshot, Messages
    <2>3. fstate' \in [Followers -> Seq(Ops)]
        BY <1>25, <2>2 DEF FollowerSnapshot, Restored, TypeOK
    <2>4. Len(fstate'[f]) \in Nat
        BY <2>3
    <2>5. up' \in [Followers -> [Slots -> Seq(Nat)]]
        BY <1>25, <2>4 DEF FollowerSnapshot, TypeOK
    <2> QED BY <1>25, <2>1, <2>3, <2>5 DEF TypeOK, FollowerSnapshot
<1>26. ASSUME NEW f \in Followers, NEW s \in Slots, FollowerApply(f, s)
      PROVE  TypeOK'
    <2>1. /\ Head(down[f][s]) \in Messages
          /\ Tail(down[f][s]) \in Seq(Messages)
        BY <1>26 DEF FollowerApply, TypeOK
    <2>2. Head(down[f][s]).op \in Ops
        BY <1>26, <2>1 DEF FollowerApply, Messages
    <2>3. fstate' \in [Followers -> Seq(Ops)]
        BY <1>26, <2>2 DEF FollowerApply, Restored, TypeOK
    <2>4. Len(fstate'[f]) \in Nat
        BY <2>3
    <2>5. up' \in [Followers -> [Slots -> Seq(Nat)]]
        BY <1>26, <2>4 DEF FollowerApply, TypeOK
    <2> QED BY <1>26, <2>1, <2>3, <2>5 DEF TypeOK, FollowerApply
<1>27. ASSUME NEW f \in Followers, NEW s \in Slots, FollowerSkip(f, s)
      PROVE  TypeOK'
    <2>1. Tail(down[f][s]) \in Seq(Messages)
        BY <1>27 DEF FollowerSkip, TypeOK
    <2> QED BY <1>27, <2>1 DEF TypeOK, FollowerSkip
<1>28. ASSUME NEW f \in Followers, NEW s \in Slots, FollowerGap(f, s)
      PROVE  TypeOK'
    <2>1. down' \in [Followers -> [Slots -> Seq(Messages)]]
        BY <1>28 DEF FollowerGap, TypeOK
    <2>2. conn' \in [Followers -> Slots \cup {NoSlot}]
        BY <1>28 DEF FollowerGap, TypeOK
    <2> QED BY <1>28, <2>1, <2>2 DEF TypeOK, FollowerGap
<1>29. ASSUME NEW f \in Followers, NEW s \in Slots, FollowerEOF(f, s)
      PROVE  TypeOK'
    BY <1>29 DEF TypeOK, FollowerEOF
<1>30. ASSUME NEW f \in Followers, StreamBreak(f) PROVE TypeOK'
    BY <1>30 DEF TypeOK, StreamBreak, Dropped
<1>31. ASSUME NEW f \in Followers, FollowerRestart(f) PROVE TypeOK'
    <2>1. down' \in [Followers -> [Slots -> Seq(Messages)]]
        BY <1>31 DEF FollowerRestart, Dropped, TypeOK
    <2>2. fstate' \in [Followers -> Seq(Ops)]
        BY <1>31 DEF FollowerRestart, TypeOK
    <2> QED BY <1>31, <2>1, <2>2 DEF TypeOK, FollowerRestart
<1> QED
    BY <1>1, <1>2, <1>3, <1>4, <1>5, <1>6, <1>7, <1>8, <1>9, <1>10, <1>11,
       <1>12, <1>13, <1>14, <1>15, <1>16, <1>17, <1>18, <1>19, <1>20, <1>21,
       <1>22, <1>23, <1>24, <1>25, <1>26, <1>27, <1>28, <1>29, <1>30, <1>31
    DEF CrashNext, Next, Propose, StreamStep, Pusher, Receiver, Handler,
        ApplyStream

-----------------------------------------------------------------------------
(* Sequences *)

\* A prefix is a shorter sequence that agrees at each of its positions.
LEMMA PrefixPointwise ==
    ASSUME NEW S, NEW p \in Seq(S), NEW q \in Seq(S)
    PROVE  IsPrefix(p, q) <=>
             Len(p) <= Len(q) /\ \A i \in 1..Len(p) : p[i] = q[i]
<1>1. SubSeq(p, 1, Len(p)) = p
    OBVIOUS
<1>2. ASSUME Len(p) <= Len(q)
      PROVE  /\ SubSeq(q, 1, Len(p)) \in Seq(S)
             /\ Len(SubSeq(q, 1, Len(p))) = Len(p)
             /\ \A i \in 1..Len(p) : SubSeq(q, 1, Len(p))[i] = q[i]
    BY <1>2
<1>3. ASSUME Len(p) <= Len(q), \A i \in 1..Len(p) : p[i] = q[i]
      PROVE  SubSeq(q, 1, Len(p)) = p
    BY <1>2, <1>3
<1> QED BY <1>1, <1>2, <1>3 DEF IsPrefix

\* A prefix of a prefix is a prefix.
LEMMA PrefixTransitive ==
    ASSUME NEW S, NEW p \in Seq(S), NEW q \in Seq(S), NEW r \in Seq(S),
           IsPrefix(p, q), IsPrefix(q, r)
    PROVE  IsPrefix(p, r)
<1>1. Len(p) <= Len(q) /\ \A i \in 1..Len(p) : p[i] = q[i]
    BY PrefixPointwise
<1>2. Len(q) <= Len(r) /\ \A i \in 1..Len(q) : q[i] = r[i]
    BY PrefixPointwise
<1>3. Len(p) <= Len(r) /\ \A i \in 1..Len(p) : p[i] = r[i]
    BY <1>1, <1>2
<1> QED BY <1>3, PrefixPointwise

\* A restarted follower's empty state is a prefix of any history.
LEMMA PrefixEmpty ==
    ASSUME NEW S, NEW q \in Seq(S)
    PROVE  IsPrefix(<<>>, q)
<1>1. SubSeq(<<>>, 1, 0) = <<>> /\ SubSeq(q, 1, 0) = <<>>
    BY SubSeqEmpty
<1>2. Len(<<>>) = 0 /\ 0 <= Len(q)
    OBVIOUS
<1> QED BY <1>1, <1>2 DEF IsPrefix

(* A replica that applies the next entry of the history stays a prefix. *)
LEMMA PrefixAppend ==
    ASSUME NEW S, NEW p \in Seq(S), NEW q \in Seq(S), NEW x \in S,
           IsPrefix(p, q), Len(p) + 1 <= Len(q), x = q[Len(p) + 1]
    PROVE  IsPrefix(Append(p, x), q)
<1>1. \A i \in 1..Len(p) : p[i] = q[i]
    BY PrefixPointwise
<1>2. /\ Append(p, x) \in Seq(S)
      /\ Len(Append(p, x)) = Len(p) + 1
      /\ \A i \in 1..(Len(p) + 1) : Append(p, x)[i] = q[i]
    BY <1>1
<1> QED BY <1>2, PrefixPointwise

-----------------------------------------------------------------------------
(* The leader's history only grows *)

HistoryTyped ==
    /\ LastIndex \in Nat
    /\ History \in Seq(Ops)
    /\ Len(History) = LastIndex
    /\ commit \in Nat
    /\ commit <= LastIndex

\* The compacted part and the log make up one sequence of LastIndex ops.
LEMMA HistoryType == TypeOK /\ WindowConsistent => HistoryTyped
<1> SUFFICES ASSUME TypeOK, WindowConsistent PROVE HistoryTyped
    OBVIOUS
<1>1. LastIndex \in Nat /\ commit \in Nat /\ commit <= LastIndex
    BY DEF LastIndex, commit, TypeOK, WindowConsistent
<1>2. \A i \in 1..LastIndex :
        (IF i <= commit THEN lstate[i] ELSE log[i - compactIndex]) \in Ops
    BY DEF LastIndex, commit, TypeOK, WindowConsistent
<1>3. History \in [1..LastIndex -> Ops]
    BY <1>2 DEF History
<1> QED BY <1>1, <1>3 DEF HistoryTyped

(* Only Propose and commitLoop touch the log, its snapshot and the state. *)
LEMMA LeaderStep ==
    ASSUME CrashNext
    PROVE  \/ \E op \in Ops : ProposeAppend(op)
           \/ Commit
           \/ UNCHANGED <<log, compactIndex, savedSnap, lstate>>
<1> DEFINE Same == UNCHANGED <<log, compactIndex, savedSnap, lstate>>
<1>1. ASSUME NEW i \in 1..MaxIndex,
             \/ ProposeNotify(i) \/ ProposeReply(i)
             \/ ProposeTimeout(i) \/ ProposeStopped(i)
      PROVE  Same
    BY <1>1 DEF ProposeNotify, ProposeReply, ProposeTimeout, ProposeStopped
<1>2. ASSUME NEW f \in Followers, NEW s \in Slots, Pusher(f, s)
      PROVE  Same
    BY <1>2 DEF Pusher, PushCatchup, PushMark, PushSubscribe, PushWake,
                PushIdle, PushCheck, PushSend, PushResync, PushExit
<1>3. ASSUME NEW f \in Followers, NEW s \in Slots,
             Receiver(f, s) \/ Handler(f, s)
      PROVE  Same
    BY <1>3 DEF Receiver, Handler, RecvAck, RecvErr, Accept, AcceptFail,
                HandlerReplaced, HandlerExit, HandlerReset
<1>4. ASSUME NEW f \in Followers, NEW s \in Slots,
             Connect(f, s) \/ ApplyStream(f, s)
      PROVE  Same
    BY <1>4 DEF Connect, ApplyStream, FollowerSnapshot, FollowerSkip,
                FollowerApply, FollowerGap, FollowerEOF
<1>5. ASSUME NEW f \in Followers, StreamBreak(f) \/ FollowerRestart(f)
      PROVE  Same
    BY <1>5 DEF StreamBreak, FollowerRestart
<1>6. Stop => Same
    BY DEF Stop
<1> HIDE DEF Same
<1>7. \/ \E op \in Ops : ProposeAppend(op)
      \/ Commit
      \/ Same
    BY <1>1, <1>2, <1>3, <1>4, <1>5, <1>6
       DEF CrashNext, Next, Propose, StreamStep
<1> QED BY <1>7 DEF Same

\* Propose, commitLoop and compaction only ever extend the history.
LEMMA HistoryGrows ==
    ASSUME TypeOK, WindowConsistent, CrashNext
    PROVE  /\ WindowConsistent'
           /\ IsPrefix(History, History')
           /\ IsPrefix(lstate, lstate')
<1>0. TypeOK'
    BY TypeStep
<1>1. ASSUME NEW op \in Ops, ProposeAppend(op)
      PROVE  /\ WindowConsistent'
             /\ IsPrefix(History, History')
             /\ IsPrefix(lstate, lstate')
    <2>1. /\ log' = Append(log, op)
          /\ UNCHANGED <<compactIndex, savedSnap, lstate>>
        BY <1>1 DEF ProposeAppend
    <2>2. /\ Len(log') = Len(log) + 1
          /\ \A j \in 1..Len(log) : log'[j] = log[j]
        BY <2>1 DEF TypeOK
    <2>3. WindowConsistent'
        BY <2>1, <2>2 DEF WindowConsistent, commit, LastIndex, TypeOK
    <2>4. LastIndex' = LastIndex + 1
        BY <2>1, <2>2 DEF LastIndex, TypeOK
    <2>5. \A i \in 1..LastIndex : History'[i] = History[i]
        BY <2>1, <2>2, <2>4
           DEF History, WindowConsistent, commit, LastIndex, TypeOK
    <2>6. HistoryTyped /\ HistoryTyped'
        BY <1>0, <2>3, HistoryType, PTL
    <2>7. IsPrefix(History, History')
        BY <2>4, <2>5, <2>6, PrefixPointwise DEF HistoryTyped
    <2>8. IsPrefix(lstate, lstate')
        BY <2>1, PrefixPointwise DEF TypeOK
    <2> QED BY <2>3, <2>7, <2>8
<1>2. ASSUME Commit
      PROVE  /\ WindowConsistent'
             /\ IsPrefix(History, History')
             /\ IsPrefix(lstate, lstate')
    <2>1. PICK n \in commit..LastIndex :
            /\ lstate' = [i \in 1..n |-> IF i <= commit THEN lstate[i]
                                         ELSE log[i - compactIndex]]
            /\ \/ /\ savedSnap' = lstate'
                  /\ log' = SubSeq(log, n - compactIndex + 1, Len(log))
                  /\ compactIndex' = n
               \/ UNCHANGED <<savedSnap, log, compactIndex>>
        BY <1>2 DEF Commit, CompactLocked
    <2>2. /\ n \in Nat /\ commit \in Nat /\ compactIndex \in Nat
          /\ compactIndex <= commit /\ commit <= n /\ n <= LastIndex
          /\ commit = Len(lstate)
          /\ LastIndex = compactIndex + Len(log)
          /\ Len(log) \in Nat
        BY DEF commit, LastIndex, TypeOK, WindowConsistent
    <2>3. /\ lstate' \in Seq(Ops)
          /\ Len(lstate') = n
          /\ \A i \in 1..n : lstate'[i] = History[i]
          /\ \A i \in 1..commit : lstate'[i] = lstate[i]
        <3>1. lstate' \in Seq(Ops) BY <1>0 DEF TypeOK
        <3>2. Len(lstate') = n BY <2>1, <2>2, <3>1
        <3> QED BY <2>1, <2>2, <3>1, <3>2 DEF History
    <2>4. IsPrefix(lstate, lstate')
        BY <2>2, <2>3, PrefixPointwise DEF TypeOK
    <2> DEFINE Kept == /\ WindowConsistent'
                       /\ LastIndex' = LastIndex
                       /\ \A i \in 1..LastIndex : History'[i] = History[i]
    <2>5. ASSUME UNCHANGED <<savedSnap, log, compactIndex>> PROVE Kept
        <3>1. SubSeq(lstate', 1, compactIndex) = SubSeq(lstate, 1, compactIndex)
            <4>1. \A i \in 1..compactIndex : lstate'[i] = lstate[i]
                BY <2>2, <2>3
            <4>2. SubSeq(lstate', 1, compactIndex)
                    = [i \in 1..compactIndex |-> lstate'[i]]
                BY <2>2, <2>3
            <4>3. SubSeq(lstate, 1, compactIndex)
                    = [i \in 1..compactIndex |-> lstate[i]]
                BY <2>2 DEF TypeOK
            <4> QED BY <4>1, <4>2, <4>3
        <3>2. \A i \in (compactIndex + 1)..n :
                log[i - compactIndex] = lstate'[i]
            BY <2>1, <2>2, <2>3 DEF WindowConsistent
        <3>3. LastIndex' = LastIndex /\ commit' = n
            BY <2>3, <2>5 DEF LastIndex, commit
        <3>4. WindowConsistent'
            BY <2>2, <2>5, <3>1, <3>2, <3>3 DEF WindowConsistent
        <3>5. \A i \in 1..n : History'[i] = History[i]
            <4>1. \A i \in 1..n : History'[i] = lstate'[i]
                BY <2>2, <3>3 DEF History
            <4> QED BY <2>3, <4>1
        <3>6. \A i \in (n + 1)..LastIndex : History'[i] = History[i]
            BY <2>2, <2>5, <3>3 DEF History
        <3> QED BY <2>2, <3>3, <3>4, <3>5, <3>6
    <2>6. ASSUME savedSnap' = lstate',
                 log' = SubSeq(log, n - compactIndex + 1, Len(log)),
                 compactIndex' = n
          PROVE  Kept
        <3>1. n - compactIndex + 1 \in 1..(Len(log) + 1)
            BY <2>2
        <3>2. /\ Len(log') = LastIndex - n
              /\ \A j \in 1..(LastIndex - n) :
                    log'[j] = log[n - compactIndex + j]
            <4>1. log' = [j \in 1..(Len(log) - (n - compactIndex + 1) + 1) |->
                            log[j + (n - compactIndex + 1) - 1]]
                BY <2>2, <2>6, <3>1 DEF TypeOK
            <4>2. Len(log) - (n - compactIndex + 1) + 1 = LastIndex - n
                BY <2>2
            <4>3. log' = [j \in 1..(LastIndex - n) |->
                            log[j + (n - compactIndex + 1) - 1]]
                BY <4>1, <4>2
            <4>4. \A j \in 1..(LastIndex - n) :
                    j + (n - compactIndex + 1) - 1 = n - compactIndex + j
                BY <2>2
            <4>5. LastIndex - n \in Nat
                BY <2>2
            <4>6. Len(log') = LastIndex - n
                BY <4>3, <4>5
            <4> QED BY <4>3, <4>4, <4>6
        <3>3. LastIndex' = LastIndex /\ commit' = n
            BY <2>2, <2>3, <2>6, <3>2 DEF LastIndex, commit
        <3>4. SubSeq(lstate', 1, n) = lstate'
            BY <2>2, <2>3
        <3>5. WindowConsistent'
            BY <2>2, <2>6, <3>3, <3>4 DEF WindowConsistent
        <3>6. \A i \in (n + 1)..LastIndex : History'[i] = History[i]
            <4> SUFFICES ASSUME NEW i \in (n + 1)..LastIndex
                         PROVE  History'[i] = History[i]
                OBVIOUS
            <4>1. i - n \in 1..(LastIndex - n)
                BY <2>2
            <4>2. log'[i - n] = log[i - compactIndex]
                BY <2>2, <3>2, <4>1
            <4> QED BY <2>2, <2>6, <3>3, <4>2 DEF History
        <3>7. \A i \in 1..n : History'[i] = History[i]
            <4>1. \A i \in 1..n : History'[i] = lstate'[i]
                BY <2>2, <3>3 DEF History
            <4> QED BY <2>3, <4>1
        <3> QED BY <2>2, <3>3, <3>5, <3>6, <3>7
    <2> HIDE DEF Kept
    <2>7. Kept
        BY <2>1, <2>5, <2>6
    <2>8. HistoryTyped /\ HistoryTyped'
        <3>1. WindowConsistent' BY <2>7 DEF Kept
        <3> QED BY <1>0, <3>1, HistoryType, PTL
    <2>9. IsPrefix(History, History')
        BY <2>7, <2>8, PrefixPointwise DEF HistoryTyped, Kept
    <2> QED BY <2>4, <2>7, <2>9 DEF Kept
<1>3. ASSUME UNCHANGED <<log, compactIndex, savedSnap, lstate>>
      PROVE  /\ WindowConsistent'
             /\ IsPrefix(History, History')
             /\ IsPrefix(lstate, lstate')
    <2>1. WindowConsistent' /\ History' = History /\ lstate' = lstate
        BY <1>3 DEF WindowConsistent, History, LastIndex, commit
    <2>2. History \in Seq(Ops) /\ lstate \in Seq(Ops)
        BY HistoryType DEF HistoryTyped, TypeOK
    <2> QED BY <2>1, <2>2, PrefixPointwise
<1> QED BY <1>1, <1>2, <1>3, LeaderStep

-----------------------------------------------------------------------------
(* What a step puts into messages, replicas and positions is already part   *)
(* of the history *before* the step.                                        *)

SentGenuine ==
    \A f \in Followers, s \in Slots :
        \A k \in 1..Len(down'[f][s]) : Genuine(down'[f][s][k], History)

StatesMatch == \A f \in Followers : IsPrefix(fstate'[f], History)

PositionsKnown ==
    \A f \in Followers, s \in Slots :
        /\ last'[f][s] <= LastIndex
        /\ li'[f][s] <= LastIndex
        /\ \A k \in 1..Len(up'[f][s]) : up'[f][s][k] <= LastIndex

(* Only one stream's acknowledgements and the start of its pusher changed,   *)
(* and both stayed within the log: every position is still within it.       *)
LEMMA StreamPositions ==
    ASSUME PositionsInLog, NEW f \in Followers, NEW s \in Slots,
           li' = li,
           \A g \in Followers, t \in Slots :
              last'[g][t] = last[g][t] \/ last'[g][t] <= LastIndex,
           \A g \in Followers, t \in Slots :
              g # f \/ t # s => up'[g][t] = up[g][t],
           \A k \in 1..Len(up'[f][s]) : up'[f][s][k] <= LastIndex
    PROVE  PositionsKnown
<1>1. \A g \in Followers, t \in Slots :
        last'[g][t] <= LastIndex /\ li'[g][t] <= LastIndex
    BY DEF PositionsInLog
<1>2. \A g \in Followers, t \in Slots :
        \A k \in 1..Len(up'[g][t]) : up'[g][t][k] <= LastIndex
    BY DEF PositionsInLog
<1> QED BY <1>1, <1>2 DEF PositionsKnown

(* A message that is part of a history is part of every longer one.         *)
LEMMA GenuineStable ==
    ASSUME NEW h \in Seq(Ops), NEW g \in Seq(Ops), IsPrefix(h, g),
           NEW m \in Messages, Genuine(m, h)
    PROVE  Genuine(m, g)
<1>1. Len(h) <= Len(g) /\ \A i \in 1..Len(h) : h[i] = g[i]
    BY PrefixPointwise
<1>2. CASE m.type = "entry" /\ m.index \in 1..Len(h) /\ m.op = h[m.index]
    BY <1>1, <1>2 DEF Genuine
<1>3. CASE m.type = "snapshot" /\ IsPrefix(m.state, h)
    <2>1. m.state \in Seq(Ops)
        BY <1>3 DEF Messages
    <2> QED BY <1>3, <2>1, PrefixTransitive DEF Genuine
<1> QED BY <1>2, <1>3 DEF Genuine

\* The log slice past n holds the history's entries n+1 .. LastIndex.
LEMMA EntriesGenuine ==
    ASSUME TypeOK, WindowConsistent, NEW n \in Nat, compactIndex <= n,
           n <= LastIndex
    PROVE  /\ Len(EntriesAfter(n)) = LastIndex - n
           /\ \A k \in 1..(LastIndex - n) : Genuine(EntriesAfter(n)[k], History)
<1>1. LastIndex - n \in Nat /\ LastIndex \in Nat /\ Len(History) = LastIndex
    BY HistoryType DEF HistoryTyped
<1>2. Len(EntriesAfter(n)) = LastIndex - n
    BY <1>1 DEF EntriesAfter
<1>3. \A k \in 1..(LastIndex - n) : log[n + k - compactIndex] = History[n + k]
    BY <1>1 DEF History, WindowConsistent, commit, LastIndex, TypeOK
<1>4. \A k \in 1..(LastIndex - n) :
        Genuine(EntryMsg(n + k, log[n + k - compactIndex]), History)
    BY <1>1, <1>3 DEF Genuine, EntryMsg
<1> QED BY <1>1, <1>2, <1>4 DEF EntriesAfter

\* What catches a follower up is part of the history.
LEMMA CatchupGenuine ==
    ASSUME TypeOK, WindowConsistent, NEW n \in Nat, n <= LastIndex
    PROVE  \A k \in 1..Len(Catchup(n)) : Genuine(Catchup(n)[k], History)
<1>0. compactIndex \in Nat /\ compactIndex <= LastIndex
    BY DEF TypeOK, WindowConsistent, commit, LastIndex
<1>1. CASE n >= compactIndex + 1
    BY <1>0, <1>1, EntriesGenuine DEF Catchup
<1>2. CASE n < compactIndex + 1 /\ compactIndex = 0
    <2>1. Catchup(n) = EntriesAfter(0)
        BY <1>0, <1>2 DEF Catchup
    <2> QED BY <1>0, <1>2, <2>1, EntriesGenuine
<1>3. CASE n < compactIndex + 1 /\ compactIndex # 0
    <2> DEFINE E == EntriesAfter(compactIndex)
               S == <<SnapshotMsg(savedSnap)>>
    <2>1. Catchup(n) = S \o E
        BY <1>0, <1>3 DEF Catchup
    <2>2. E \in Seq(Messages) /\ \A k \in 1..Len(E) : Genuine(E[k], History)
        BY <1>0, EntriesGenuine, EntriesAfterType
    <2>3. IsPrefix(savedSnap, History)
        <3>1. /\ savedSnap \in Seq(Ops)
              /\ Len(savedSnap) = compactIndex
              /\ \A i \in 1..compactIndex : savedSnap[i] = lstate[i]
            BY <1>0 DEF WindowConsistent, TypeOK, commit
        <3>2. \A i \in 1..compactIndex : History[i] = lstate[i]
            BY <1>0 DEF History, WindowConsistent, TypeOK, commit, LastIndex
        <3>3. History \in Seq(Ops) /\ Len(History) = LastIndex
            BY HistoryType DEF HistoryTyped
        <3> QED BY <1>0, <3>1, <3>2, <3>3, PrefixPointwise
    <2>4. S \in Seq(Messages) /\ Len(S) = 1 /\ Genuine(S[1], History)
        BY <2>3 DEF Genuine, SnapshotMsg, Messages, TypeOK
    <2> HIDE DEF E, S
    <2>5. /\ Len(S \o E) = 1 + Len(E)
          /\ (S \o E)[1] = S[1]
          /\ \A k \in 2..Len(S \o E) : (S \o E)[k] = E[k - 1]
        <3>1. /\ Len(S \o E) = Len(S) + Len(E)
              /\ \A k \in 1..(Len(S) + Len(E)) :
                    (S \o E)[k] = IF k <= Len(S) THEN S[k] ELSE E[k - Len(S)]
            BY <2>2, <2>4, ConcatProperties
        <3>2. Len(E) \in Nat
            BY <2>2
        <3> QED BY <2>4, <3>1, <3>2
    <2>6. \A k \in 2..Len(S \o E) : k - 1 \in 1..Len(E)
        BY <2>2, <2>5
    <2>7. \A k \in 1..Len(S \o E) : k = 1 \/ k \in 2..Len(S \o E)
        BY <2>2, <2>5
    <2> QED BY <2>1, <2>2, <2>4, <2>5, <2>6, <2>7
<1> QED BY <1>0, <1>1, <1>2, <1>3

(* Appending genuine messages to a stream keeps all of them genuine. *)
LEMMA SentGenuineBatch ==
    ASSUME TypeOK, MessagesGenuine, NEW f \in Followers, NEW s \in Slots,
           NEW msgs \in Seq(Messages),
           \A k \in 1..Len(msgs) : Genuine(msgs[k], History)
    PROVE  \A g \in Followers, t \in Slots :
             \A k \in 1..Len(Sent(f, s, msgs)[g][t]) :
                Genuine(Sent(f, s, msgs)[g][t][k], History)
<1> SUFFICES ASSUME NEW g \in Followers, NEW t \in Slots,
                    NEW k \in 1..Len(Sent(f, s, msgs)[g][t])
             PROVE  Genuine(Sent(f, s, msgs)[g][t][k], History)
    OBVIOUS
<1>1. CASE Sent(f, s, msgs)[g][t] = down[g][t]
    BY <1>1 DEF MessagesGenuine
<1>2. CASE Sent(f, s, msgs)[g][t] = down[g][t] \o msgs
    <2> DEFINE D == down[g][t]
    <2>1. D \in Seq(Messages) BY DEF TypeOK
    <2>2. \A j \in 1..Len(D) : Genuine(D[j], History) BY DEF MessagesGenuine
    <2> HIDE DEF D
    <2>3. k \in 1..(Len(D) + Len(msgs)) BY <1>2, <2>1 DEF D
    <2>4. CASE k \in 1..Len(D)
        <3>1. (D \o msgs)[k] = D[k] BY <2>1, <2>4
        <3> QED BY <1>2, <2>2, <2>4, <3>1 DEF D
    <2>5. CASE k \in (Len(D) + 1)..(Len(D) + Len(msgs))
        <3>1. (D \o msgs)[k] = msgs[k - Len(D)] BY <2>1, <2>5
        <3>2. k - Len(D) \in 1..Len(msgs) BY <2>1, <2>5
        <3> QED BY <1>2, <3>1, <3>2 DEF D
    <2> QED BY <2>1, <2>3, <2>4, <2>5
<1> QED BY <1>1, <1>2 DEF Sent, TypeOK

\* Receiving one ack leaves acks within the same bound.
LEMMA TailBound ==
    ASSUME NEW q \in Seq(Nat), q # <<>>, NEW b \in Nat,
           \A k \in 1..Len(q) : q[k] <= b
    PROVE  \A k \in 1..Len(Tail(q)) : Tail(q)[k] <= b
OBVIOUS

\* Receiving one message leaves genuine messages.
LEMMA TailGenuine ==
    ASSUME NEW q \in Seq(Messages), q # <<>>, NEW h,
           \A k \in 1..Len(q) : Genuine(q[k], h)
    PROVE  \A k \in 1..Len(Tail(q)) : Genuine(Tail(q)[k], h)
OBVIOUS

\* No step sends, applies or records anything outside the history, or panics.
LEMMA HistoryStep ==
    ASSUME HistoryInv, CrashNext
    PROVE  SentGenuine /\ StatesMatch /\ PositionsKnown /\ NoPanic'
<1> DEFINE Good == SentGenuine /\ StatesMatch /\ PositionsKnown /\ NoPanic'
<1> USE DEF HistoryInv
<1>0. /\ last \in [Followers -> [Slots -> Nat]]
      /\ li \in [Followers -> [Slots -> Nat]]
      /\ up \in [Followers -> [Slots -> Seq(Nat)]]
      /\ down \in [Followers -> [Slots -> Seq(Messages)]]
    BY DEF TypeOK
<1>1. LastIndex \in Nat /\ History \in Seq(Ops) /\ Len(History) = LastIndex
    BY HistoryType DEF HistoryTyped
<1>2. ASSUME UNCHANGED down PROVE SentGenuine
    BY <1>2 DEF SentGenuine, MessagesGenuine
<1>3. ASSUME UNCHANGED fstate PROVE StatesMatch
    BY <1>3 DEF StatesMatch, LogMatching
<1>4. ASSUME UNCHANGED <<last, li, up>> PROVE PositionsKnown
    BY <1>4 DEF PositionsKnown, PositionsInLog
<1>5. ASSUME UNCHANGED panicked PROVE NoPanic'
    BY <1>5 DEF NoPanic
<1>6. CASE Propose \/ Commit \/ Stop
    <2>1. UNCHANGED <<down, fstate, last, li, up, panicked>>
        BY <1>6 DEF Propose, ProposeAppend, ProposeNotify, ProposeReply,
                    ProposeTimeout, ProposeStopped, Commit, Stop
    <2> QED BY <2>1, <1>2, <1>3, <1>4, <1>5
<1>7. ASSUME NEW f \in Followers, NEW s \in Slots,
             \/ PushSubscribe(f, s) \/ PushWake(f, s) \/ PushIdle(f, s)
             \/ HandlerReplaced(f, s) \/ HandlerExit(f, s)
             \/ HandlerReset(f, s) \/ FollowerEOF(f, s)
      PROVE  Good
    <2>1. UNCHANGED <<down, fstate, last, li, up, panicked>>
        BY <1>7 DEF PushSubscribe, PushWake, PushIdle, HandlerReplaced,
                    HandlerExit, HandlerReset, FollowerEOF
    <2> QED BY <2>1, <1>2, <1>3, <1>4, <1>5
<1>8. ASSUME NEW f \in Followers, NEW s \in Slots, Accept(f, s)
      PROVE  Good
    <2>1. \A k \in 1..Len(Tail(up[f][s])) : Tail(up[f][s])[k] <= LastIndex
        BY <1>8, TailBound DEF Accept, TypeOK, PositionsInLog
    <2>2. Head(up[f][s]) <= LastIndex
        BY <1>8 DEF Accept, TypeOK, PositionsInLog
    <2>3. PositionsKnown
        <3>1. \A g \in Followers, t \in Slots :
                last'[g][t] = last[g][t] \/ last'[g][t] <= LastIndex
            BY <1>8, <1>0, <2>2 DEF Accept
        <3>2. /\ li' = li
              /\ up'[f][s] = Tail(up[f][s])
              /\ \A g \in Followers, t \in Slots :
                    g # f \/ t # s => up'[g][t] = up[g][t]
            BY <1>8, <1>0 DEF Accept
        <3> QED BY <2>1, <3>1, <3>2, <1>0, StreamPositions
    <2>4. UNCHANGED <<down, fstate, panicked>>
        BY <1>8 DEF Accept
    <2> QED BY <2>3, <2>4, <1>2, <1>3, <1>5
<1>9. ASSUME NEW f \in Followers, NEW s \in Slots, RecvAck(f, s)
      PROVE  Good
    <2>1. \A k \in 1..Len(Tail(up[f][s])) : Tail(up[f][s])[k] <= LastIndex
        BY <1>9, TailBound DEF RecvAck, TypeOK, PositionsInLog
    <2>2. Head(up[f][s]) <= LastIndex
        BY <1>9 DEF RecvAck, TypeOK, PositionsInLog
    <2>3. PositionsKnown
        <3>1. last' = last
            BY <1>9 DEF RecvAck
        <3>2. /\ li' = li
              /\ up'[f][s] = Tail(up[f][s])
              /\ \A g \in Followers, t \in Slots :
                    g # f \/ t # s => up'[g][t] = up[g][t]
            BY <1>9, <1>0 DEF RecvAck
        <3> QED BY <2>1, <3>1, <3>2, <1>0, StreamPositions
    <2>4. UNCHANGED <<down, fstate, panicked>>
        BY <1>9 DEF RecvAck
    <2> QED BY <2>3, <2>4, <1>2, <1>3, <1>5
<1>10. ASSUME NEW f \in Followers, NEW s \in Slots, AcceptFail(f, s)
      PROVE  Good
    <2>1. PositionsKnown
        <3>1. /\ last' = last
              /\ li' = li
              /\ up'[f][s] = <<>>
              /\ \A g \in Followers, t \in Slots :
                    g # f \/ t # s => up'[g][t] = up[g][t]
            BY <1>10, <1>0 DEF AcceptFail
        <3>2. 1..Len(up'[f][s]) = {}
            BY <3>1
        <3> QED BY <3>1, <3>2, <1>0, StreamPositions
    <2>2. UNCHANGED <<down, fstate, panicked>>
        BY <1>10 DEF AcceptFail
    <2> QED BY <2>1, <2>2, <1>2, <1>3, <1>5
<1>11. ASSUME NEW f \in Followers, NEW s \in Slots, RecvErr(f, s)
      PROVE  Good
    <2>1. PositionsKnown
        <3>1. \A g \in Followers, t \in Slots : last'[g][t] <= LastIndex
            BY <1>11, <1>0, <1>1 DEF PositionsInLog, RecvErr
        <3>2. \A g \in Followers, t \in Slots : li'[g][t] <= LastIndex
            BY <1>11, <1>0, <1>1 DEF PositionsInLog, RecvErr
        <3>3. \A g \in Followers, t \in Slots :
                \A k \in 1..Len(up'[g][t]) : up'[g][t][k] <= LastIndex
            <4>1. /\ up'[f][s] = <<>>
                  /\ \A g \in Followers, t \in Slots :
                        g # f \/ t # s => up'[g][t] = up[g][t]
                BY <1>11, <1>0 DEF RecvErr
            <4>2. 1..Len(up'[f][s]) = {}
                BY <4>1
            <4> QED BY <4>1, <4>2 DEF PositionsInLog
        <3> QED BY <3>1, <3>2, <3>3 DEF PositionsKnown
    <2>2. UNCHANGED <<down, fstate, panicked>>
        BY <1>11 DEF RecvErr
    <2> QED BY <2>1, <2>2, <1>2, <1>3, <1>5
<1>12. ASSUME NEW f \in Followers, NEW s \in Slots, PushMark(f, s)
      PROVE  Good
    <2>1. PositionsKnown
        <3>1. \A g \in Followers, t \in Slots : last'[g][t] <= LastIndex
            BY <1>12, <1>0, <1>1 DEF PositionsInLog, PushMark
        <3>2. \A g \in Followers, t \in Slots : li'[g][t] <= LastIndex
            BY <1>12, <1>0, <1>1 DEF PositionsInLog, PushMark
        <3>3. \A g \in Followers, t \in Slots :
                \A k \in 1..Len(up'[g][t]) : up'[g][t][k] <= LastIndex
            BY <1>12, <1>0, <1>1 DEF PositionsInLog, PushMark
        <3> QED BY <3>1, <3>2, <3>3 DEF PositionsKnown
    <2>2. UNCHANGED <<down, fstate, panicked>>
        BY <1>12 DEF PushMark
    <2> QED BY <2>1, <2>2, <1>2, <1>3, <1>5
<1>13. ASSUME NEW f \in Followers, NEW s \in Slots, PushCheck(f, s)
      PROVE  Good
    <2>1. PositionsKnown
        <3>1. \A g \in Followers, t \in Slots : last'[g][t] <= LastIndex
            BY <1>13, <1>0, <1>1 DEF PositionsInLog, PushCheck
        <3>2. \A g \in Followers, t \in Slots : li'[g][t] <= LastIndex
            BY <1>13, <1>0, <1>1 DEF PositionsInLog, PushCheck
        <3>3. \A g \in Followers, t \in Slots :
                \A k \in 1..Len(up'[g][t]) : up'[g][t][k] <= LastIndex
            BY <1>13, <1>0, <1>1 DEF PositionsInLog, PushCheck
        <3> QED BY <3>1, <3>2, <3>3 DEF PositionsKnown
    <2>2. UNCHANGED <<down, fstate, panicked>>
        BY <1>13 DEF PushCheck
    <2> QED BY <2>1, <2>2, <1>2, <1>3, <1>5
<1>14. ASSUME NEW f \in Followers, NEW s \in Slots, PushResync(f, s)
      PROVE  Good
    <2>1. PositionsKnown
        <3>1. \A g \in Followers, t \in Slots : last'[g][t] <= LastIndex
            BY <1>14, <1>0, <1>1 DEF PositionsInLog, PushResync
        <3>2. \A g \in Followers, t \in Slots : li'[g][t] <= LastIndex
            BY <1>14, <1>0, <1>1 DEF PositionsInLog, PushResync
        <3>3. \A g \in Followers, t \in Slots :
                \A k \in 1..Len(up'[g][t]) : up'[g][t][k] <= LastIndex
            BY <1>14, <1>0, <1>1 DEF PositionsInLog, PushResync
        <3> QED BY <3>1, <3>2, <3>3 DEF PositionsKnown
    <2>2. UNCHANGED <<down, fstate, panicked>>
        BY <1>14 DEF PushResync
    <2> QED BY <2>1, <2>2, <1>2, <1>3, <1>5
<1>15. ASSUME NEW f \in Followers, NEW s \in Slots, PushExit(f, s)
      PROVE  Good
    <2>1. PositionsKnown
        <3>1. \A g \in Followers, t \in Slots : last'[g][t] <= LastIndex
            BY <1>15, <1>0, <1>1 DEF PositionsInLog, PushExit
        <3>2. \A g \in Followers, t \in Slots : li'[g][t] <= LastIndex
            BY <1>15, <1>0, <1>1 DEF PositionsInLog, PushExit
        <3>3. \A g \in Followers, t \in Slots :
                \A k \in 1..Len(up'[g][t]) : up'[g][t][k] <= LastIndex
            BY <1>15, <1>0, <1>1 DEF PositionsInLog, PushExit
        <3> QED BY <3>1, <3>2, <3>3 DEF PositionsKnown
    <2>2. UNCHANGED <<down, fstate, panicked>>
        BY <1>15 DEF PushExit
    <2> QED BY <2>1, <2>2, <1>2, <1>3, <1>5
<1>16. ASSUME NEW f \in Followers, NEW s \in Slots, PushCatchup(f, s)
      PROVE  Good
    <2> DEFINE B == Catchup(last[f][s])
    <2>1. last[f][s] \in Nat /\ last[f][s] <= LastIndex
        BY DEF TypeOK, PositionsInLog
    <2>2. B \in Seq(Messages) /\ \A k \in 1..Len(B) : Genuine(B[k], History)
        BY <1>16, <2>1, CatchupType, CatchupGenuine DEF PushCatchup
    <2>3. ~SliceOutOfRange(last[f][s])
        BY <1>1, <2>1 DEF SliceOutOfRange
    <2>4. down' = Sent(f, s, B) /\ UNCHANGED <<fstate, panicked>>
        BY <1>16, <2>3 DEF PushCatchup
    <2> HIDE DEF B
    <2>5. SentGenuine
        BY <2>2, <2>4, SentGenuineBatch DEF SentGenuine
    <2>6. PositionsKnown
        <3>1. \A g \in Followers, t \in Slots : last'[g][t] <= LastIndex
            BY <1>16, <1>0, <1>1, <2>3 DEF PositionsInLog, PushCatchup
        <3>2. \A g \in Followers, t \in Slots : li'[g][t] <= LastIndex
            BY <1>16, <1>0, <1>1, <2>3 DEF PositionsInLog, PushCatchup
        <3>3. \A g \in Followers, t \in Slots :
                \A k \in 1..Len(up'[g][t]) : up'[g][t][k] <= LastIndex
            BY <1>16, <1>0, <1>1, <2>3 DEF PositionsInLog, PushCatchup
        <3> QED BY <3>1, <3>2, <3>3 DEF PositionsKnown
    <2> QED BY <2>4, <2>5, <2>6, <1>3, <1>5
<1>17. ASSUME NEW f \in Followers, NEW s \in Slots, PushSend(f, s)
      PROVE  Good
    <2> DEFINE B == EntriesAfter(last[f][s])
    <2>1. last[f][s] \in Nat /\ last[f][s] <= LastIndex
        BY DEF TypeOK, PositionsInLog
    <2>2. B \in Seq(Messages) /\ \A k \in 1..Len(B) : Genuine(B[k], History)
        BY <1>17, <2>1, EntriesAfterType, EntriesGenuine DEF PushSend
    <2>3. ~SliceOutOfRange(last[f][s])
        BY <1>1, <2>1 DEF SliceOutOfRange
    <2>4. down' = Sent(f, s, B) /\ UNCHANGED <<fstate, panicked>>
        BY <1>17, <2>3 DEF PushSend
    <2> HIDE DEF B
    <2>5. SentGenuine
        BY <2>2, <2>4, SentGenuineBatch DEF SentGenuine
    <2>6. PositionsKnown
        <3>1. \A g \in Followers, t \in Slots : last'[g][t] <= LastIndex
            <4>1. last' = [last EXCEPT ![f][s] = li[f][s]]
                BY <1>17, <2>3 DEF PushSend
            <4> QED BY <1>0, <1>1, <4>1 DEF PositionsInLog
        <3>2. \A g \in Followers, t \in Slots : li'[g][t] <= LastIndex
            BY <1>17, <1>0, <1>1, <2>3 DEF PositionsInLog, PushSend
        <3>3. \A g \in Followers, t \in Slots :
                \A k \in 1..Len(up'[g][t]) : up'[g][t][k] <= LastIndex
            BY <1>17, <1>0, <1>1, <2>3 DEF PositionsInLog, PushSend
        <3> QED BY <3>1, <3>2, <3>3 DEF PositionsKnown
    <2> QED BY <2>4, <2>5, <2>6, <1>3, <1>5
<1>18. ASSUME NEW f \in Followers, NEW s \in Slots, Connect(f, s)
      PROVE  Good
    <2>1. AppliedIndex(f) \in Nat /\ AppliedIndex(f) <= LastIndex
        BY <1>1, PrefixPointwise DEF LogMatching, AppliedIndex, TypeOK
    <2>2. PositionsKnown
        <3>1. \A g \in Followers, t \in Slots : last'[g][t] <= LastIndex
            BY <1>18, <1>0, <1>1, <2>1 DEF PositionsInLog, Connect
        <3>2. \A g \in Followers, t \in Slots : li'[g][t] <= LastIndex
            BY <1>18, <1>0, <1>1, <2>1 DEF PositionsInLog, Connect
        <3>3. \A g \in Followers, t \in Slots :
                \A k \in 1..Len(up'[g][t]) : up'[g][t][k] <= LastIndex
            <4>1. /\ up'[f][s] = <<AppliedIndex(f)>>
                  /\ \A g \in Followers, t \in Slots :
                        g # f \/ t # s => up'[g][t] = up[g][t]
                BY <1>18, <1>0 DEF Connect
            <4>2. \A k \in 1..Len(up'[f][s]) : up'[f][s][k] <= LastIndex
                BY <2>1, <4>1
            <4> QED BY <4>1, <4>2 DEF PositionsInLog
        <3> QED BY <3>1, <3>2, <3>3 DEF PositionsKnown
    <2>3. SentGenuine
        <3>1. /\ down'[f][s] = <<>>
              /\ \A g \in Followers, t \in Slots :
                    g # f \/ t # s => down'[g][t] = down[g][t]
            BY <1>18, <1>0 DEF Connect
        <3>2. 1..Len(down'[f][s]) = {}
            BY <3>1
        <3> QED BY <3>1, <3>2 DEF SentGenuine, MessagesGenuine
    <2>4. UNCHANGED <<fstate, panicked>>
        BY <1>18 DEF Connect
    <2> QED BY <2>2, <2>3, <2>4, <1>3, <1>5
<1>19. ASSUME NEW f \in Followers, NEW s \in Slots, FollowerSkip(f, s)
      PROVE  Good
    <2>1. \A k \in 1..Len(Tail(down[f][s])) :
            Genuine(Tail(down[f][s])[k], History)
        BY <1>19, TailGenuine DEF FollowerSkip, TypeOK, MessagesGenuine
    <2>2. SentGenuine
        BY <1>19, <2>1 DEF SentGenuine, MessagesGenuine, FollowerSkip, TypeOK
    <2>3. UNCHANGED <<fstate, last, li, up, panicked>>
        BY <1>19 DEF FollowerSkip
    <2> QED BY <2>2, <2>3, <1>3, <1>4, <1>5
<1>20. ASSUME NEW f \in Followers, NEW s \in Slots, FollowerSnapshot(f, s)
      PROVE  Good
    <2> DEFINE m == Head(down[f][s])
    <2>1. \A k \in 1..Len(Tail(down[f][s])) :
            Genuine(Tail(down[f][s])[k], History)
        BY <1>20, TailGenuine DEF FollowerSnapshot, TypeOK, MessagesGenuine
    <2>2. SentGenuine
        BY <1>20, <2>1 DEF SentGenuine, MessagesGenuine, FollowerSnapshot, TypeOK
    <2>3. m \in Messages /\ Genuine(m, History)
        <3>1. m = down[f][s][1] /\ 1 \in 1..Len(down[f][s])
            BY <1>20, <1>0 DEF FollowerSnapshot
        <3> QED BY <1>0, <3>1 DEF MessagesGenuine
    <2> HIDE DEF m
    <2>4. m.state \in Seq(Ops) /\ IsPrefix(m.state, History)
        BY <1>20, <2>3 DEF m, FollowerSnapshot, Genuine, Messages
    <2>5. fstate'[f] \in Seq(Ops) /\ IsPrefix(fstate'[f], History)
        BY <1>20, <2>4 DEF m, FollowerSnapshot, Restored, LogMatching, TypeOK
    <2>6. StatesMatch
        BY <1>20, <2>5 DEF StatesMatch, LogMatching, FollowerSnapshot, TypeOK
    <2>7. Len(fstate'[f]) \in Nat /\ Len(fstate'[f]) <= LastIndex
        BY <1>1, <2>5, PrefixPointwise
    <2>8. \A k \in 1..Len(Append(up[f][s], Len(fstate'[f]))) :
            Append(up[f][s], Len(fstate'[f]))[k] <= LastIndex
        BY <2>7 DEF PositionsInLog, TypeOK
    <2>9. PositionsKnown
        <3>1. /\ last' = last
              /\ li' = li
              /\ up'[f][s] = Append(up[f][s], Len(fstate'[f]))
              /\ \A g \in Followers, t \in Slots :
                    g # f \/ t # s => up'[g][t] = up[g][t]
            BY <1>20, <1>0 DEF FollowerSnapshot
        <3> QED BY <2>8, <3>1, <1>0, StreamPositions
    <2>10. UNCHANGED panicked
        BY <1>20 DEF FollowerSnapshot
    <2> QED BY <2>2, <2>6, <2>9, <2>10, <1>5
<1>21. ASSUME NEW f \in Followers, NEW s \in Slots, FollowerApply(f, s)
      PROVE  Good
    <2> DEFINE m == Head(down[f][s])
    <2>1. \A k \in 1..Len(Tail(down[f][s])) :
            Genuine(Tail(down[f][s])[k], History)
        BY <1>21, TailGenuine DEF FollowerApply, TypeOK, MessagesGenuine
    <2>2. SentGenuine
        BY <1>21, <2>1 DEF SentGenuine, MessagesGenuine, FollowerApply, TypeOK
    <2>3. m \in Messages /\ Genuine(m, History)
        <3>1. m = down[f][s][1] /\ 1 \in 1..Len(down[f][s])
            BY <1>21, <1>0 DEF FollowerApply
        <3> QED BY <1>0, <3>1 DEF MessagesGenuine
    <2> HIDE DEF m
    <2>4. /\ m.op \in Ops
          /\ m.index \in 1..Len(History)
          /\ m.op = History[m.index]
          /\ m.index = Len(fstate[f]) + 1
        BY <1>21, <2>3 DEF m, FollowerApply, Genuine, Messages, AppliedIndex
    <2>5. fstate'[f] \in Seq(Ops) /\ IsPrefix(fstate'[f], History)
        <3>1. fstate[f] \in Seq(Ops) /\ IsPrefix(fstate[f], History)
            BY DEF LogMatching, TypeOK
        <3>2. Len(fstate[f]) + 1 <= Len(History)
            BY <1>1, <2>4, <3>1
        <3>3. IsPrefix(Append(fstate[f], m.op), History)
            BY <1>1, <2>4, <3>1, <3>2, PrefixAppend
        <3>4. fstate'[f] = Append(fstate[f], m.op)
            BY <1>21 DEF m, FollowerApply, TypeOK
        <3> QED BY <2>4, <3>1, <3>3, <3>4
    <2>6. StatesMatch
        BY <1>21, <2>5 DEF StatesMatch, LogMatching, FollowerApply, TypeOK
    <2>7. Len(fstate'[f]) \in Nat /\ Len(fstate'[f]) <= LastIndex
        BY <1>1, <2>5, PrefixPointwise
    <2>8. \A k \in 1..Len(Append(up[f][s], Len(fstate'[f]))) :
            Append(up[f][s], Len(fstate'[f]))[k] <= LastIndex
        BY <2>7 DEF PositionsInLog, TypeOK
    <2>9. PositionsKnown
        <3>1. /\ last' = last
              /\ li' = li
              /\ up'[f][s] = Append(up[f][s], Len(fstate'[f]))
              /\ \A g \in Followers, t \in Slots :
                    g # f \/ t # s => up'[g][t] = up[g][t]
            BY <1>21, <1>0 DEF FollowerApply
        <3> QED BY <2>8, <3>1, <1>0, StreamPositions
    <2>10. UNCHANGED panicked
        BY <1>21 DEF FollowerApply
    <2> QED BY <2>2, <2>6, <2>9, <2>10, <1>5
<1>22. ASSUME NEW f \in Followers, NEW s \in Slots, FollowerGap(f, s)
      PROVE  Good
    <2>1. SentGenuine
        <3>1. down' = [down EXCEPT ![f][s] = <<>>]
            BY <1>22 DEF FollowerGap
        <3> QED BY <3>1, <1>0 DEF SentGenuine, MessagesGenuine
    <2>2. UNCHANGED <<fstate, last, li, up, panicked>>
        BY <1>22 DEF FollowerGap
    <2> QED BY <2>1, <2>2, <1>3, <1>4, <1>5
<1>23. ASSUME NEW f \in Followers, StreamBreak(f) PROVE Good
    <2>1. SentGenuine
        BY <1>23, <1>0 DEF StreamBreak, Dropped, SentGenuine, MessagesGenuine
    <2>2. UNCHANGED <<last, li, up, panicked>>
        BY <1>23 DEF StreamBreak
    <2>3. StatesMatch
        BY <1>23, <1>3 DEF StreamBreak
    <2> QED BY <2>1, <2>2, <2>3, <1>4, <1>5
<1>24. ASSUME NEW f \in Followers, FollowerRestart(f) PROVE Good
    <2>1. SentGenuine
        BY <1>24, <1>0 DEF FollowerRestart, Dropped, SentGenuine, MessagesGenuine
    <2>2. UNCHANGED <<last, li, up, panicked>>
        BY <1>24 DEF FollowerRestart
    <2>3. StatesMatch
        <3>1. IsPrefix(<<>>, History)
            BY <1>1, PrefixEmpty
        <3> QED BY <1>24, <3>1 DEF FollowerRestart, StatesMatch, LogMatching,
                    TypeOK
    <2> QED BY <2>1, <2>2, <2>3, <1>4, <1>5
<1> QED
    BY <1>6, <1>7, <1>8, <1>9, <1>10, <1>11, <1>12, <1>13, <1>14, <1>15,
       <1>16, <1>17, <1>18, <1>19, <1>20, <1>21, <1>22, <1>23, <1>24
    DEF CrashNext, Next, StreamStep, Pusher, Receiver, Handler, ApplyStream

\* HistoryInv is inductive, follower restarts included.
LEMMA HistoryInvInductive == HistoryInv /\ [CrashNext]_vars => HistoryInv'
<1>1. ASSUME HistoryInv, CrashNext PROVE HistoryInv'
    <2>1. TypeOK' /\ WindowConsistent' /\ IsPrefix(History, History')
        BY <1>1, TypeStep, HistoryGrows DEF HistoryInv
    <2>2. HistoryTyped /\ HistoryTyped'
        BY <1>1, <2>1, HistoryType, PTL DEF HistoryInv
    <2>3. LastIndex <= LastIndex'
        BY <2>1, <2>2, PrefixPointwise DEF HistoryTyped
    <2>4. SentGenuine /\ StatesMatch /\ PositionsKnown /\ NoPanic'
        BY <1>1, HistoryStep
    <2>5. MessagesGenuine'
        <3> SUFFICES ASSUME NEW f \in Followers, NEW s \in Slots,
                            NEW k \in 1..Len(down'[f][s])
                     PROVE  Genuine(down'[f][s][k], History')
            BY DEF MessagesGenuine
        <3>1. down'[f][s][k] \in Messages
            BY <2>1 DEF TypeOK
        <3>2. Genuine(down'[f][s][k], History)
            BY <2>4 DEF SentGenuine
        <3> QED BY <2>1, <2>2, <3>1, <3>2, GenuineStable DEF HistoryTyped
    <2>6. LogMatching'
        <3> SUFFICES ASSUME NEW f \in Followers
                     PROVE  IsPrefix(fstate'[f], History')
            BY DEF LogMatching
        <3>1. fstate'[f] \in Seq(Ops) /\ IsPrefix(fstate'[f], History)
            BY <2>1, <2>4 DEF StatesMatch, TypeOK
        <3> QED BY <2>1, <2>2, <3>1, PrefixTransitive DEF HistoryTyped
    <2>7. PositionsInLog'
        <3> SUFFICES ASSUME NEW f \in Followers, NEW s \in Slots
                     PROVE  /\ last'[f][s] <= LastIndex'
                            /\ li'[f][s] <= LastIndex'
                            /\ \A k \in 1..Len(up'[f][s]) :
                                    up'[f][s][k] <= LastIndex'
            BY DEF PositionsInLog
        <3>1. last'[f][s] \in Nat /\ li'[f][s] \in Nat /\ up'[f][s] \in Seq(Nat)
            BY <2>1 DEF TypeOK
        <3>2. LastIndex \in Nat /\ LastIndex' \in Nat
            BY <2>2 DEF HistoryTyped
        <3> QED BY <2>3, <2>4, <3>1, <3>2 DEF PositionsKnown
    <2> QED BY <2>1, <2>4, <2>5, <2>6, <2>7 DEF HistoryInv
<1>2. ASSUME HistoryInv, UNCHANGED vars PROVE HistoryInv'
    BY <1>2 DEF HistoryInv, vars, TypeOK, WindowConsistent, MessagesGenuine,
                LogMatching, PositionsInLog, NoPanic, History, LastIndex, commit
<1> QED BY <1>1, <1>2

\* The empty cluster satisfies HistoryInv.
LEMMA HistoryInvInit == Init => HistoryInv
<1> SUFFICES ASSUME Init PROVE HistoryInv
    OBVIOUS
<1>1. TypeOK
    <2>1. <<>> \in Seq(Ops) /\ <<>> \in Seq(Nat) /\ <<>> \in Seq(Messages)
        OBVIOUS
    <2>2. /\ log \in Seq(Ops) /\ savedSnap \in Seq(Ops) /\ lstate \in Seq(Ops)
          /\ fstate \in [Followers -> Seq(Ops)]
          /\ down \in [Followers -> [Slots -> Seq(Messages)]]
          /\ up \in [Followers -> [Slots -> Seq(Nat)]]
        BY <2>1 DEF Init
    <2>3. /\ proposer \in [1..MaxIndex -> ProposerStates]
          /\ push \in [Followers -> [Slots -> PushStates]]
        BY DEF Init, ProposerStates, PushStates
    <2> QED BY <2>2, <2>3 DEF Init, TypeOK
<1>2. LastIndex = 0 /\ commit = 0
    BY DEF Init, LastIndex, commit
<1>3. WindowConsistent
    BY <1>2 DEF Init, WindowConsistent
<1>4. MessagesGenuine
    BY DEF Init, MessagesGenuine
<1>5. LogMatching
    <2>1. History \in Seq(Ops)
        BY <1>1, <1>3, HistoryType DEF HistoryTyped
    <2>2. IsPrefix(<<>>, History)
        BY <2>1, PrefixEmpty
    <2> QED BY <2>2 DEF Init, LogMatching
<1>6. PositionsInLog
    BY <1>2 DEF Init, PositionsInLog
<1> QED BY <1>1, <1>3, <1>4, <1>5, <1>6 DEF HistoryInv, Init, NoPanic

(* Followers may restart; the leader may not. *)
LEMMA HistoryInvariant == CrashSpec => []HistoryInv
BY HistoryInvInit, HistoryInvInductive, PTL DEF CrashSpec

\* Type correctness of the whole replication layer, restarts of followers
\* included.
THEOREM TypeCorrect == CrashSpec => []TypeOK
<1>1. HistoryInv => TypeOK
    BY DEF HistoryInv
<1> QED BY <1>1, HistoryInvariant, PTL

\* Log matching (ApplyStream, sendCatchup, compactLocked): every follower's
\* state is a prefix of the leader's log, for any number of followers,
\* overlapping streams, breaks and follower restarts.
THEOREM LogsMatch == CrashSpec => []LogMatching
<1>1. HistoryInv => LogMatching
    BY DEF HistoryInv
<1> QED BY <1>1, HistoryInvariant, PTL

\* Catchup and EntriesAfter never slice out of range while the leader process
\* keeps its log.
THEOREM LeaderNeverPanics == CrashSpec => []NoPanic
<1>1. HistoryInv => NoPanic
    BY DEF HistoryInv
<1> QED BY <1>1, HistoryInvariant, PTL

\* compactLocked cuts the log at a committed index and keeps the state there.
THEOREM WindowAlwaysConsistent == CrashSpec => []WindowConsistent
<1>1. HistoryInv => WindowConsistent
    BY DEF HistoryInv
<1> QED BY <1>1, HistoryInvariant, PTL

-----------------------------------------------------------------------------
(* Without process restarts replicas only grow, and acks are kept *)

\* Short of a restart no handler removes or changes an applied entry.
LEMMA ReplicasGrow ==
    ASSUME HistoryInv, Next
    PROVE  \A f \in Followers : IsPrefix(fstate[f], fstate'[f])
<1> USE DEF HistoryInv
<1> DEFINE Grown == \A g \in Followers : IsPrefix(fstate[g], fstate'[g])
<1>1. fstate \in [Followers -> Seq(Ops)]
    BY DEF TypeOK
<1>2. ASSUME UNCHANGED fstate PROVE Grown
    BY <1>1, <1>2, PrefixPointwise
<1>3. ASSUME NEW f \in Followers, NEW s \in Slots, FollowerSnapshot(f, s)
      PROVE  Grown
    <2> DEFINE m == Head(down[f][s])
    <2>1. m \in Messages /\ Genuine(m, History)
        <3>1. m = down[f][s][1] /\ 1 \in 1..Len(down[f][s])
            BY <1>3 DEF FollowerSnapshot, TypeOK
        <3> QED BY <3>1 DEF MessagesGenuine, TypeOK
    <2> HIDE DEF m
    <2>2. m.state \in Seq(Ops) /\ IsPrefix(m.state, History)
        BY <1>3, <2>1 DEF m, FollowerSnapshot, Genuine, Messages
    <2>3. History \in Seq(Ops) /\ IsPrefix(fstate[f], History)
        BY HistoryType DEF HistoryTyped, LogMatching
    <2>4. fstate' = [fstate EXCEPT ![f] = Restored(fstate[f], m.state)]
        BY <1>3 DEF FollowerSnapshot, m
    <2>5. IsPrefix(fstate[f], Restored(fstate[f], m.state))
        <3>1. CASE Len(m.state) < Len(fstate[f])
            BY <1>1, <3>1, PrefixPointwise DEF Restored
        <3>2. CASE ~(Len(m.state) < Len(fstate[f]))
            <4>1. /\ Len(fstate[f]) <= Len(m.state)
                  /\ \A i \in 1..Len(fstate[f]) : fstate[f][i] = History[i]
                  /\ \A i \in 1..Len(m.state) : m.state[i] = History[i]
                BY <1>1, <2>2, <2>3, <3>2, PrefixPointwise
            <4>2. \A i \in 1..Len(fstate[f]) : fstate[f][i] = m.state[i]
                BY <1>1, <2>2, <4>1
            <4> QED BY <1>1, <2>2, <3>2, <4>1, <4>2, PrefixPointwise
                    DEF Restored
        <3> QED BY <3>1, <3>2
    <2> QED BY <1>1, <2>4, <2>5, PrefixPointwise
<1>4. ASSUME NEW f \in Followers, NEW s \in Slots, FollowerApply(f, s)
      PROVE  Grown
    <2> DEFINE x == Head(down[f][s]).op
    <2>1. x \in Ops
        <3>1. Head(down[f][s]) \in Messages
            BY <1>4 DEF FollowerApply, TypeOK
        <3> QED BY <1>4, <3>1 DEF FollowerApply, Messages
    <2>2. fstate' = [fstate EXCEPT ![f] = Append(fstate[f], x)]
        BY <1>4 DEF FollowerApply
    <2> HIDE DEF x
    <2>3. /\ Append(fstate[f], x) \in Seq(Ops)
          /\ Len(fstate[f]) <= Len(Append(fstate[f], x))
          /\ \A i \in 1..Len(fstate[f]) : fstate[f][i] = Append(fstate[f], x)[i]
        BY <1>1, <2>1
    <2>4. IsPrefix(fstate[f], Append(fstate[f], x))
        BY <1>1, <2>3, PrefixPointwise
    <2> QED BY <1>1, <2>2, <2>4, PrefixPointwise
<1>5. ASSUME Propose \/ Commit \/ Stop PROVE Grown
    <2>1. UNCHANGED fstate
        BY <1>5 DEF Propose, ProposeAppend, ProposeNotify, ProposeReply,
                    ProposeTimeout, ProposeStopped, Commit, Stop
    <2> QED BY <2>1, <1>2
<1>6. ASSUME NEW f \in Followers, StreamBreak(f) PROVE Grown
    BY <1>2, <1>6 DEF StreamBreak
<1>7. ASSUME NEW f \in Followers, NEW s \in Slots,
             Pusher(f, s) \/ Receiver(f, s) \/ Handler(f, s) \/ Connect(f, s)
      PROVE  Grown
    <2>1. UNCHANGED fstate
        BY <1>7 DEF Pusher, PushCatchup, PushMark, PushSubscribe, PushWake,
                    PushIdle, PushCheck, PushSend, PushResync, PushExit,
                    Receiver, RecvAck, RecvErr, Handler, Accept, AcceptFail,
                    HandlerReplaced, HandlerExit, HandlerReset, Connect
    <2> QED BY <2>1, <1>2
<1>8. ASSUME NEW f \in Followers, NEW s \in Slots,
             FollowerSkip(f, s) \/ FollowerGap(f, s) \/ FollowerEOF(f, s)
      PROVE  Grown
    <2>1. UNCHANGED fstate
        BY <1>8 DEF FollowerSkip, FollowerGap, FollowerEOF
    <2> QED BY <2>1, <1>2
<1> HIDE DEF Grown
<1>9. Grown
    BY <1>3, <1>4, <1>5, <1>6, <1>7, <1>8 DEF Next, StreamStep, ApplyStream
<1> QED BY <1>9 DEF Grown

(* Every ack on its way, and every ack recorded, is for entries its sender   *)
(* holds.                                                                    *)
LEMMA AcksStayHeld ==
    ASSUME HistoryInv, AcksHeld, Next
    PROVE  AcksHeld'
<1> USE DEF HistoryInv
<1>0. /\ fstate \in [Followers -> Seq(Ops)]
      /\ match \in [Followers -> Nat]
      /\ up \in [Followers -> [Slots -> Seq(Nat)]]
    BY DEF TypeOK
<1>1. /\ fstate' \in [Followers -> Seq(Ops)]
      /\ match' \in [Followers -> Nat]
      /\ up' \in [Followers -> [Slots -> Seq(Nat)]]
    BY TypeStep DEF TypeOK, CrashNext
<1>2. \A f \in Followers : /\ Len(fstate[f]) <= Len(fstate'[f])
                           /\ Len(fstate[f]) \in Nat
                           /\ Len(fstate'[f]) \in Nat
    BY <1>0, <1>1, ReplicasGrow, PrefixPointwise
<1> DEFINE MatchHeld == \A g \in Followers : match'[g] <= Len(fstate'[g])
           UpHeld == \A g \in Followers, t \in Slots :
                        \A k \in 1..Len(up'[g][t]) :
                            up'[g][t][k] <= Len(fstate'[g])
<1>3. ASSUME UNCHANGED match PROVE MatchHeld
    BY <1>0, <1>2, <1>3 DEF AcksHeld, AppliedIndex
<1>4. ASSUME UNCHANGED up PROVE UpHeld
    BY <1>0, <1>2, <1>4 DEF AcksHeld, AppliedIndex
(* Stream s of f has its acks replaced by q; the others keep theirs. *)
<1>5. ASSUME NEW f \in Followers, NEW s \in Slots, NEW q \in Seq(Nat),
             up' = [up EXCEPT ![f][s] = q],
             \A k \in 1..Len(q) : q[k] <= Len(fstate'[f])
      PROVE  UpHeld
    <2> SUFFICES ASSUME NEW g \in Followers, NEW t \in Slots,
                        NEW k \in 1..Len(up'[g][t])
                 PROVE  up'[g][t][k] <= Len(fstate'[g])
        OBVIOUS
    <2>1. CASE g = f /\ t = s
        BY <1>0, <1>5, <2>1
    <2>2. CASE g # f \/ t # s
        <3>1. up'[g][t] = up[g][t]
            BY <1>0, <1>5, <2>2
        <3>2. up[g][t][k] \in Nat /\ up[g][t][k] <= Len(fstate[g])
            BY <1>0, <3>1 DEF AcksHeld, AppliedIndex
        <3> QED BY <1>2, <3>1, <3>2
    <2> QED BY <2>1, <2>2
<1> HIDE DEF MatchHeld, UpHeld
<1>6. ASSUME NEW f \in Followers, NEW s \in Slots, up[f][s] # <<>>
      PROVE  /\ Head(up[f][s]) \in Nat
             /\ Head(up[f][s]) <= Len(fstate'[f])
             /\ Tail(up[f][s]) \in Seq(Nat)
             /\ \A k \in 1..Len(Tail(up[f][s])) :
                    Tail(up[f][s])[k] <= Len(fstate'[f])
    <2>1. \A k \in 1..Len(up[f][s]) : up[f][s][k] <= Len(fstate'[f])
        BY <1>0, <1>2 DEF AcksHeld, AppliedIndex
    <2>2. up[f][s] \in Seq(Nat) /\ Len(fstate'[f]) \in Nat
        BY <1>0, <1>2
    <2>3. \A k \in 1..Len(Tail(up[f][s])) :
            Tail(up[f][s])[k] <= Len(fstate'[f])
        BY <1>6, <2>1, <2>2, TailBound
    <2> QED BY <1>6, <2>1, <2>2, <2>3
<1>7. ASSUME Propose \/ Commit \/ Stop PROVE MatchHeld /\ UpHeld
    <2>1. UNCHANGED <<match, up>>
        BY <1>7 DEF Propose, ProposeAppend, ProposeNotify, ProposeReply,
                    ProposeTimeout, ProposeStopped, Commit, Stop
    <2> QED BY <2>1, <1>3, <1>4
<1>8. ASSUME NEW f \in Followers, StreamBreak(f) PROVE MatchHeld /\ UpHeld
    BY <1>3, <1>4, <1>8 DEF StreamBreak
<1>9. ASSUME NEW f \in Followers, NEW s \in Slots,
             \/ Pusher(f, s) \/ HandlerReplaced(f, s) \/ HandlerExit(f, s)
             \/ FollowerSkip(f, s) \/ FollowerGap(f, s) \/ FollowerEOF(f, s)
      PROVE  MatchHeld /\ UpHeld
    <2>1. UNCHANGED <<match, up>>
        BY <1>9 DEF Pusher, PushCatchup, PushMark, PushSubscribe, PushWake,
                    PushIdle, PushCheck, PushSend, PushResync, PushExit,
                    HandlerReplaced, HandlerExit, FollowerSkip, FollowerGap,
                    FollowerEOF
    <2> QED BY <2>1, <1>3, <1>4
<1>10. ASSUME NEW f \in Followers, NEW s \in Slots, HandlerReset(f, s)
       PROVE  MatchHeld /\ UpHeld
    <2>1. UpHeld
        BY <1>4, <1>10 DEF HandlerReset
    <2>2. match' = [match EXCEPT ![f] = 0] /\ UNCHANGED fstate
        BY <1>10 DEF HandlerReset
    <2> QED BY <1>0, <1>2, <2>1, <2>2 DEF MatchHeld, AcksHeld, AppliedIndex
<1>11. ASSUME NEW f \in Followers, NEW s \in Slots, RecvAck(f, s)
       PROVE  MatchHeld /\ UpHeld
    <2>1. /\ up' = [up EXCEPT ![f][s] = Tail(up[f][s])]
          /\ up[f][s] # <<>>
          /\ match' = [match EXCEPT ![f] =
                        IF Head(up[f][s]) > match[f] THEN Head(up[f][s])
                        ELSE match[f]]
          /\ UNCHANGED fstate
        BY <1>11 DEF RecvAck
    <2>2. UpHeld
        BY <1>5, <1>6, <2>1
    <2>3. Head(up[f][s]) <= Len(fstate[f])
        BY <1>6, <2>1
    <2>4. MatchHeld
        BY <1>0, <2>1, <2>3 DEF MatchHeld, AcksHeld, AppliedIndex
    <2> QED BY <2>2, <2>4
<1>12. ASSUME NEW f \in Followers, NEW s \in Slots, Accept(f, s)
       PROVE  MatchHeld /\ UpHeld
    BY <1>3, <1>5, <1>6, <1>12 DEF Accept
<1>13. ASSUME NEW f \in Followers, NEW s \in Slots,
              AcceptFail(f, s) \/ RecvErr(f, s)
       PROVE  MatchHeld /\ UpHeld
    <2>1. up' = [up EXCEPT ![f][s] = <<>>] /\ UNCHANGED match
        BY <1>13 DEF AcceptFail, RecvErr
    <2>2. <<>> \in Seq(Nat) /\ \A k \in 1..Len(<<>>) : <<>>[k] <= Len(fstate'[f])
        OBVIOUS
    <2> QED BY <1>3, <1>5, <2>1, <2>2
<1>14. ASSUME NEW f \in Followers, NEW s \in Slots, Connect(f, s)
       PROVE  MatchHeld /\ UpHeld
    <2> DEFINE q == <<Len(fstate[f])>>
    <2>1. up' = [up EXCEPT ![f][s] = q] /\ UNCHANGED match
        BY <1>14 DEF Connect, AppliedIndex
    <2>2. q \in Seq(Nat) /\ \A k \in 1..Len(q) : q[k] <= Len(fstate'[f])
        BY <1>2
    <2> QED BY <1>3, <1>5, <2>1, <2>2
<1>15. ASSUME NEW f \in Followers, NEW s \in Slots,
              FollowerSnapshot(f, s) \/ FollowerApply(f, s)
       PROVE  MatchHeld /\ UpHeld
    <2> DEFINE q == Append(up[f][s], Len(fstate'[f]))
    <2>1. up' = [up EXCEPT ![f][s] = q] /\ UNCHANGED match
        BY <1>15 DEF FollowerSnapshot, FollowerApply
    <2>2. \A k \in 1..Len(up[f][s]) :
            up[f][s][k] \in Nat /\ up[f][s][k] <= Len(fstate'[f])
        BY <1>0, <1>2 DEF AcksHeld, AppliedIndex
    <2>3. q \in Seq(Nat) /\ \A k \in 1..Len(q) : q[k] <= Len(fstate'[f])
        BY <1>0, <1>2, <2>2
    <2> QED BY <1>3, <1>5, <2>1, <2>3
<1>16. MatchHeld /\ UpHeld
    BY <1>7, <1>8, <1>9, <1>10, <1>11, <1>12, <1>13, <1>14, <1>15, <1>3, <1>4
       DEF Next, StreamStep, Receiver, Handler, ApplyStream
<1> QED BY <1>16 DEF MatchHeld, UpHeld, AcksHeld, AppliedIndex

-----------------------------------------------------------------------------
(* Committed entries are held by a majority *)

HeldByQuorum ==
    \A i \in 1..commit :
        1 + Cardinality({f \in Followers : AppliedIndex(f) >= i}) >= Quorum

QuorumInv == HistoryInv /\ AcksHeld /\ HeldByQuorum

\* More followers holding an entry is no fewer votes.
LEMMA CardinalityMonotone ==
    ASSUME NEW A \in SUBSET Followers, NEW B \in SUBSET A
    PROVE  /\ Cardinality(A) \in Nat
           /\ Cardinality(B) \in Nat
           /\ Cardinality(B) <= Cardinality(A)
<1>1. IsFiniteSet(A)
    BY FS_Subset
<1> QED BY <1>1, FS_Subset, FS_CardinalityType

\* commitLoop advances only onto a quorum, and no step takes it away.
LEMMA QuorumStep ==
    ASSUME QuorumInv, Next
    PROVE  HeldByQuorum'
<1> USE DEF QuorumInv, HistoryInv
<1> DEFINE Holds(i) == {f \in Followers : Len(fstate[f]) >= i}
           HoldsNext(i) == {f \in Followers : Len(fstate'[f]) >= i}
<1>1. \A f \in Followers : /\ Len(fstate[f]) <= Len(fstate'[f])
                           /\ Len(fstate[f]) \in Nat
                           /\ Len(fstate'[f]) \in Nat
                           /\ match[f] \in Nat
                           /\ match[f] <= Len(fstate[f])
    <2>1. TypeOK' BY TypeStep DEF CrashNext
    <2>2. /\ fstate \in [Followers -> Seq(Ops)]
          /\ fstate' \in [Followers -> Seq(Ops)]
          /\ match \in [Followers -> Nat]
        BY <2>1 DEF TypeOK
    <2>3. \A f \in Followers : Len(fstate[f]) <= Len(fstate'[f])
        BY <2>2, ReplicasGrow, PrefixPointwise
    <2> QED BY <2>2, <2>3 DEF AcksHeld, AppliedIndex
<1>2. Quorum \in Int /\ commit \in Nat /\ LastIndex \in Nat
    <2>1. Cardinality(Followers) \in Nat
        BY FS_CardinalityType
    <2> QED BY <2>1, HistoryType DEF Quorum, HistoryTyped
<1>3. ASSUME NEW i \in 1..commit
      PROVE  1 + Cardinality(HoldsNext(i)) >= Quorum
    <2>1. Holds(i) \in SUBSET HoldsNext(i) /\ HoldsNext(i) \in SUBSET Followers
        BY <1>1, <1>2
    <2>2. 1 + Cardinality(Holds(i)) >= Quorum
        BY DEF HeldByQuorum, AppliedIndex
    <2> HIDE DEF Holds, HoldsNext
    <2>3. /\ Cardinality(Holds(i)) <= Cardinality(HoldsNext(i))
          /\ Cardinality(Holds(i)) \in Nat
          /\ Cardinality(HoldsNext(i)) \in Nat
        BY <2>1, CardinalityMonotone
    <2> QED BY <1>2, <2>2, <2>3
<1>4. CASE Commit
    <2>1. PICK n \in commit..LastIndex :
            /\ n > commit => Votes(n) >= Quorum
            /\ lstate' = [i \in 1..n |-> IF i <= commit THEN lstate[i]
                                         ELSE log[i - compactIndex]]
        BY <1>4 DEF Commit, CompactLocked
    <2>2. n \in Nat /\ commit <= n
        BY <1>2
    <2>3. commit' = n
        BY <2>1, <2>2 DEF commit
    <2>4. ASSUME NEW i \in (commit + 1)..n
          PROVE  1 + Cardinality(HoldsNext(i)) >= Quorum
        <3> DEFINE Acked == {f \in Followers : match[f] >= n}
        <3>1. i \in Nat /\ i <= n /\ n > commit
            BY <1>2, <2>2
        <3>2. Acked \in SUBSET HoldsNext(i) /\ HoldsNext(i) \in SUBSET Followers
            BY <1>1, <2>2, <3>1
        <3>3. 1 + Cardinality(Acked) >= Quorum
            BY <2>1, <3>1 DEF Votes
        <3> HIDE DEF Acked, HoldsNext
        <3>4. /\ Cardinality(Acked) <= Cardinality(HoldsNext(i))
              /\ Cardinality(Acked) \in Nat
              /\ Cardinality(HoldsNext(i)) \in Nat
            BY <3>2, CardinalityMonotone
        <3> QED BY <1>2, <3>3, <3>4
    <2>5. \A i \in 1..n : i \in 1..commit \/ i \in (commit + 1)..n
        BY <1>2, <2>2
    <2>6. \A i \in 1..n : 1 + Cardinality(HoldsNext(i)) >= Quorum
        BY <1>3, <2>4, <2>5
    <2> QED BY <2>3, <2>6 DEF HeldByQuorum, AppliedIndex, Quorum
<1>5. CASE UNCHANGED lstate
    <2>1. commit' = commit
        BY <1>5 DEF commit
    <2> QED BY <1>3, <2>1 DEF HeldByQuorum, AppliedIndex, Quorum
<1>6. ASSUME NEW op \in Ops, ProposeAppend(op) PROVE HeldByQuorum'
    BY <1>5, <1>6 DEF ProposeAppend
<1> QED BY <1>4, <1>5, <1>6, LeaderStep DEF CrashNext

\* QuorumInv holds as long as no process restarts.
LEMMA QuorumInvariant == Spec => []QuorumInv
<1>1. Init => QuorumInv
    <2> SUFFICES ASSUME Init PROVE QuorumInv
        OBVIOUS
    <2>1. HistoryInv
        BY HistoryInvInit
    <2>2. AcksHeld
        BY DEF Init, AcksHeld, AppliedIndex
    <2>3. 1..commit = {}
        BY DEF Init, commit
    <2> QED BY <2>1, <2>2, <2>3 DEF QuorumInv, HeldByQuorum
<1>2. QuorumInv /\ [Next]_vars => QuorumInv'
    <2>1. ASSUME QuorumInv, Next PROVE QuorumInv'
        <3>1. HistoryInv'
            BY <2>1, HistoryInvInductive DEF QuorumInv, CrashNext
        <3> QED BY <2>1, <3>1, AcksStayHeld, QuorumStep DEF QuorumInv
    <2>2. ASSUME QuorumInv, UNCHANGED vars PROVE QuorumInv'
        <3>1. HistoryInv'
            BY <2>2, HistoryInvInductive DEF QuorumInv
        <3>2. AcksHeld' /\ HeldByQuorum'
            BY <2>2 DEF QuorumInv, vars, AcksHeld, HeldByQuorum, AppliedIndex,
                        commit, Quorum
        <3> QED BY <3>1, <3>2 DEF QuorumInv
    <2> QED BY <2>1, <2>2
<1> QED BY <1>1, <1>2, PTL DEF Spec

\* Quorum commit (commitLoop, FollowerAck, FollowerReset): an entry is
\* committed only if a majority has applied it, and a majority holds it from
\* then on, as long as no process restarts.
THEOREM CommittedStaysOnQuorum == Spec => []CommittedOnQuorum
<1>1. QuorumInv => CommittedOnQuorum
    <2> SUFFICES ASSUME QuorumInv, NEW i \in 1..commit
                 PROVE  1 + Cardinality({f \in Followers :
                                /\ AppliedIndex(f) >= i
                                /\ fstate[f][i] = lstate[i]}) >= Quorum
        BY DEF CommittedOnQuorum
    <2>1. 1 + Cardinality({f \in Followers : AppliedIndex(f) >= i}) >= Quorum
        BY DEF QuorumInv, HeldByQuorum
    <2>2. /\ History \in Seq(Ops) /\ Len(History) = LastIndex
          /\ commit \in Nat /\ LastIndex \in Nat /\ commit <= LastIndex
        BY HistoryType DEF QuorumInv, HistoryInv, HistoryTyped
    <2>3. i \in 1..LastIndex /\ History[i] = lstate[i]
        BY <2>2 DEF History
    <2>4. ASSUME NEW f \in Followers, AppliedIndex(f) >= i
          PROVE  fstate[f][i] = lstate[i]
        <3>1. fstate[f] \in Seq(Ops) /\ IsPrefix(fstate[f], History)
            BY DEF QuorumInv, HistoryInv, TypeOK, LogMatching
        <3>2. \A j \in 1..Len(fstate[f]) : fstate[f][j] = History[j]
            BY <2>2, <3>1, PrefixPointwise
        <3>3. i \in 1..Len(fstate[f])
            BY <2>2, <2>4, <3>1 DEF AppliedIndex
        <3> QED BY <2>3, <3>2, <3>3
    <2>5. {f \in Followers : AppliedIndex(f) >= i}
            = {f \in Followers : /\ AppliedIndex(f) >= i
                                 /\ fstate[f][i] = lstate[i]}
        BY <2>4
    <2> QED BY <2>1, <2>5
<1> QED BY <1>1, QuorumInvariant, PTL

\* RestoreSnapshot's revision check and the contiguity check of ApplyStream:
\* a follower that does not restart never loses or changes an applied entry.
THEOREM ReplicasNeverRegress == Spec => NoRegress
<1>1. QuorumInv /\ [Next]_vars =>
        [\A f \in Followers : IsPrefix(fstate[f], fstate'[f])]_vars
    BY ReplicasGrow DEF QuorumInv
<1> QED BY <1>1, QuorumInvariant, PTL DEF Spec, NoRegress

=============================================================================

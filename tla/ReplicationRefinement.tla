----------------------- MODULE ReplicationRefinement -----------------------
(***************************************************************************)
(* Machine-checked proofs about what Replication promises to its users:    *)
(* the callers of Propose are answered, and the leader, its streams and    *)
(* its followers implement ReplicatedLog.                                  *)
(***************************************************************************)
EXTENDS ReplicationProofs

USE FollowersAssumption, SlotsAssumption, BoundsAssumption
USE DEF leaderVars, signalVars, streamVars, followerVars, budgetVars

-----------------------------------------------------------------------------
(* The callers of Propose                                                  *)

\* A caller that waits is registered, or its result is under way; results are
\* for committed indexes and callers for indexes of the log.
ProposersInv ==
    /\ WaitersAnswered
    /\ \A i \in results : i <= commit
    /\ \A i \in 1..MaxIndex : proposer[i] # "none" => i <= LastIndex

\* The steps that neither propose nor commit leave the callers alone.
LEMMA CallersKept ==
    ASSUME CrashNext, ~Propose, ~Commit
    PROVE  UNCHANGED <<log, compactIndex, lstate, waiters, results, proposer>>
<1> DEFINE Same ==
        UNCHANGED <<log, compactIndex, lstate, waiters, results, proposer>>
<1>1. ASSUME NEW f \in Followers, NEW s \in Slots, Pusher(f, s)
      PROVE  Same
    BY <1>1 DEF Pusher, PushCatchup, PushMark, PushSubscribe, PushWake,
                PushIdle, PushCheck, PushSend, PushResync, PushExit
<1>2. ASSUME NEW f \in Followers, NEW s \in Slots,
             Receiver(f, s) \/ Handler(f, s)
      PROVE  Same
    BY <1>2 DEF Receiver, Handler, RecvAck, RecvErr, Accept, AcceptFail,
                HandlerReplaced, HandlerExit, HandlerReset
<1>3. ASSUME NEW f \in Followers, NEW s \in Slots,
             Connect(f, s) \/ ApplyStream(f, s)
      PROVE  Same
    BY <1>3 DEF Connect, ApplyStream, FollowerSnapshot, FollowerSkip,
                FollowerApply, FollowerGap, FollowerEOF
<1>4. ASSUME NEW f \in Followers, StreamBreak(f) \/ FollowerRestart(f)
      PROVE  Same
    BY <1>4 DEF StreamBreak, FollowerRestart
<1>5. Stop => Same
    BY DEF Stop
<1> HIDE DEF Same
<1>6. Same
    BY <1>1, <1>2, <1>3, <1>4, <1>5 DEF CrashNext, Next, StreamStep
<1> QED BY <1>6 DEF Same

\* What a commit does to the log: nothing, whatever it compacts.
LEMMA CommitEffect ==
    ASSUME HistoryInv, Commit
    PROVE  \E n \in Nat :
              /\ commit <= n /\ n <= LastIndex
              /\ n > commit => Votes(n) >= Quorum
              /\ commit' = n /\ LastIndex' = LastIndex
              /\ results' = results \cup Answered(n)
              /\ waiters' = waiters \ Answered(n)
<1>1. /\ commit \in Nat /\ LastIndex \in Nat /\ compactIndex \in Nat
      /\ compactIndex <= commit /\ log \in Seq(Ops)
      /\ LastIndex = compactIndex + Len(log)
    BY HistoryType DEF HistoryInv, HistoryTyped, WindowConsistent, TypeOK, LastIndex
<1>2. PICK n \in commit..LastIndex :
        /\ n > commit => Votes(n) >= Quorum
        /\ lstate' = [i \in 1..n |-> IF i <= commit THEN lstate[i]
                                     ELSE log[i - compactIndex]]
        /\ results' = results \cup Answered(n)
        /\ waiters' = waiters \ Answered(n)
        /\ CompactLocked(n)
    BY DEF Commit
<1>3. n \in Nat /\ commit <= n /\ n <= LastIndex
    BY <1>1
<1>4. commit' = n
    BY <1>2, <1>3 DEF commit
<1>5. LastIndex' = LastIndex
    <2>1. CASE UNCHANGED <<log, compactIndex>>
        BY <2>1 DEF LastIndex
    <2>2. CASE /\ log' = SubSeq(log, n - compactIndex + 1, Len(log))
               /\ compactIndex' = n
        <3>1. n - compactIndex + 1 \in 1..(Len(log) + 1)
            BY <1>1, <1>3
        <3>2. Len(SubSeq(log, n - compactIndex + 1, Len(log)))
                = Len(log) - (n - compactIndex + 1) + 1
            BY <1>1, <3>1
        <3> QED BY <1>1, <1>3, <2>2, <3>2 DEF LastIndex
    <2> QED BY <1>2, <2>1, <2>2 DEF CompactLocked
<1> QED BY <1>2, <1>3, <1>4, <1>5

\* A proposal is registered before anything can answer it, a commit answers
\* all it passes, and nobody else touches the callers.
LEMMA ProposersStep ==
    ASSUME HistoryInv, ProposersInv, [CrashNext]_vars
    PROVE  ProposersInv'
<1>0. /\ commit \in Nat /\ LastIndex \in Nat /\ commit <= LastIndex
      /\ proposer \in [1..MaxIndex -> ProposerStates]
      /\ results \in SUBSET (1..MaxIndex) /\ waiters \in SUBSET (1..MaxIndex)
    BY HistoryType DEF HistoryInv, HistoryTyped, TypeOK
<1>1. ASSUME NEW op \in Ops, ProposeAppend(op) PROVE ProposersInv'
    <2>1. commit' = commit /\ results' = results
        BY <1>1 DEF ProposeAppend, commit
    <2>2. LastIndex' = LastIndex + 1
        BY <1>1 DEF ProposeAppend, LastIndex, HistoryInv, TypeOK
    <2>3. /\ proposer' = [proposer EXCEPT ![LastIndex + 1] = "appended"]
          /\ waiters' = waiters \cup {LastIndex + 1}
        BY <1>1 DEF ProposeAppend
    <2>4. PICK j \in Nat : j = LastIndex + 1
        BY <1>0
    <2>5. ASSUME NEW i \in 1..MaxIndex
          PROVE  /\ proposer'[i] = "ok" => i <= commit
                 /\ proposer'[i] \in {"appended", "waiting"} =>
                        IF i <= commit THEN i \in results ELSE i \in waiters'
                 /\ proposer'[i] # "none" => i <= j
        <3>1. CASE i = j
            BY <1>0, <2>3, <2>4, <3>1
        <3>2. CASE i # j
            <4>1. proposer'[i] = proposer[i]
                BY <1>0, <2>3, <2>4, <3>2
            <4> QED BY <1>0, <2>3, <2>4, <4>1 DEF ProposersInv, WaitersAnswered
        <3> QED BY <3>1, <3>2
    <2> QED BY <2>1, <2>2, <2>4, <2>5 DEF ProposersInv, WaitersAnswered
<1>2. ASSUME NEW i \in 1..MaxIndex,
             \/ ProposeNotify(i) \/ ProposeReply(i)
             \/ ProposeTimeout(i) \/ ProposeStopped(i)
      PROVE  ProposersInv'
    <2>1. commit' = commit /\ LastIndex' = LastIndex
        BY <1>2 DEF ProposeNotify, ProposeReply, ProposeTimeout,
                    ProposeStopped, commit, LastIndex
    <2>2. CASE ProposeNotify(i)
        <3>1. /\ proposer' = [proposer EXCEPT ![i] = "waiting"]
              /\ proposer[i] = "appended"
              /\ UNCHANGED <<results, waiters>>
            BY <2>2 DEF ProposeNotify
        <3> QED BY <1>0, <2>1, <3>1 DEF ProposersInv, WaitersAnswered
    <2>3. CASE ProposeReply(i)
        <3>1. /\ proposer' = [proposer EXCEPT ![i] = "ok"]
              /\ proposer[i] = "waiting" /\ i \in results
              /\ results' = results \ {i} /\ waiters' = waiters
            BY <2>3 DEF ProposeReply
        <3> QED BY <1>0, <2>1, <3>1 DEF ProposersInv, WaitersAnswered
    <2>4. CASE ProposeTimeout(i)
        <3>1. /\ proposer' = [proposer EXCEPT ![i] = "timeout"]
              /\ proposer[i] = "waiting"
              /\ results' = results /\ waiters' = waiters \ {i}
            BY <2>4 DEF ProposeTimeout
        <3> QED BY <1>0, <2>1, <3>1 DEF ProposersInv, WaitersAnswered
    <2>5. CASE ProposeStopped(i)
        <3>1. /\ proposer' = [proposer EXCEPT ![i] = "stopped"]
              /\ proposer[i] = "waiting"
              /\ UNCHANGED <<results, waiters>>
            BY <2>5 DEF ProposeStopped
        <3> QED BY <1>0, <2>1, <3>1 DEF ProposersInv, WaitersAnswered
    <2> QED BY <1>2, <2>2, <2>3, <2>4, <2>5
<1>3. CASE Commit
    <2>1. proposer' = proposer
        BY <1>3 DEF Commit
    <2>2. PICK n \in Nat :
            /\ commit <= n /\ n <= LastIndex
            /\ commit' = n /\ LastIndex' = LastIndex
            /\ results' = results \cup Answered(n)
            /\ waiters' = waiters \ Answered(n)
        BY <1>3, CommitEffect
    <2>3. ASSUME NEW i \in 1..MaxIndex
          PROVE  /\ proposer[i] = "ok" => i <= n
                 /\ proposer[i] \in {"appended", "waiting"} =>
                        IF i <= n THEN i \in results' ELSE i \in waiters'
        BY <1>0, <2>2, <2>3 DEF ProposersInv, WaitersAnswered, Answered
    <2>4. \A i \in results' : i <= n
        BY <1>0, <2>2 DEF ProposersInv, Answered
    <2> QED BY <2>1, <2>2, <2>3, <2>4 DEF ProposersInv, WaitersAnswered
<1>4. CASE UNCHANGED <<log, compactIndex, lstate, waiters, results, proposer>>
    BY <1>4 DEF ProposersInv, WaitersAnswered, commit, LastIndex
<1>5. CASE UNCHANGED vars
    BY <1>4, <1>5 DEF vars
<1> QED BY <1>1, <1>2, <1>3, <1>4, <1>5, CallersKept DEF Propose

\* No caller is forgotten, in whatever order timeouts, commits and stopping
\* happen, and follower restarts included.
LEMMA ProposersInvariant == CrashSpec => []ProposersInv
<1>1. Init => ProposersInv
    BY DEF Init, ProposersInv, WaitersAnswered
<1> QED BY <1>1, ProposersStep, HistoryInvariant, PTL DEF CrashSpec

\* A caller that got a result got it for a committed index, and one that still
\* waits for a committed index has its result under way (Propose, commitLoop).
THEOREM CallersAnswered == CrashSpec => []WaitersAnswered
<1>1. ProposersInv => WaitersAnswered
    BY DEF ProposersInv
<1> QED BY <1>1, ProposersInvariant, PTL

-----------------------------------------------------------------------------
(* The refinement                                                          *)

\* A prefix is a beginning of the longer sequence.
LEMMA PrefixIsBeginning ==
    ASSUME NEW S, NEW p \in Seq(S), NEW q \in Seq(S), IsPrefix(p, q)
    PROVE  p = SubSeq(q, 1, Len(p)) /\ Len(p) \in Nat /\ Len(p) <= Len(q)
<1>1. SubSeq(p, 1, Len(p)) = p /\ Len(p) \in Nat
    OBVIOUS
<1> QED BY <1>1 DEF IsPrefix

\* The history's length, after a step.
LEMMA HistoryTypeNext ==
    ASSUME HistoryInv'
    PROVE  History' \in Seq(Ops) /\ Len(History') = LastIndex'
<1>1. TypeOK' /\ WindowConsistent'
    BY DEF HistoryInv
<1>2. HistoryTyped'
    BY <1>1, HistoryType, PTL
<1> QED BY <1>2 DEF HistoryTyped

\* The abstract log counts its replicas as the code counts its followers.
LEMMA SameCount == \A S : Abstract!Cardinality(S) = Cardinality(S)
BY DEF Abstract!Cardinality, Cardinality

\* With the log, the callers and the replicas where they were, nothing is
\* visible.
LEMMA Invisible ==
    ASSUME UNCHANGED <<log, compactIndex, lstate, proposer, fstate>>
    PROVE  UNCHANGED Abstract!logVars
<1>1. History' = History /\ commit' = commit
    BY DEF History, LastIndex, commit
<1>2. Replies' = Replies
    BY DEF Replies
<1> QED BY <1>1, <1>2 DEF Abstract!logVars

\* A proposal extends the log by its operation and tells its caller nothing.
LEMMA ProposalExtends ==
    ASSUME HistoryInv, HistoryInv', ProposersInv, NEW op \in Ops,
           ProposeAppend(op)
    PROVE  Abstract!Extend
<1>0. /\ commit \in Nat /\ LastIndex \in Nat /\ commit <= LastIndex
      /\ History \in Seq(Ops) /\ Len(History) = LastIndex
      /\ compactIndex \in Nat /\ compactIndex <= commit
      /\ log \in Seq(Ops) /\ LastIndex = compactIndex + Len(log)
      /\ proposer \in [1..MaxIndex -> ProposerStates]
    BY HistoryType DEF HistoryInv, HistoryTyped, TypeOK, WindowConsistent,
                       LastIndex
<1>1. /\ History' \in Seq(Ops) /\ Len(History') = LastIndex'
    BY HistoryTypeNext
<1>2. /\ log' = Append(log, op) /\ lstate' = lstate
      /\ compactIndex' = compactIndex /\ fstate' = fstate
      /\ LastIndex < MaxIndex
      /\ proposer' = [proposer EXCEPT ![LastIndex + 1] = "appended"]
    BY DEF ProposeAppend
<1>3. /\ commit' = commit /\ LastIndex' = LastIndex + 1
      /\ \A i \in 1..Len(log) : log'[i] = log[i]
      /\ log'[Len(log) + 1] = op
    BY <1>0, <1>2 DEF commit, LastIndex
<1>4. History' = Append(History, op)
    <2>1. \A i \in 1..LastIndex : History'[i] = History[i]
        BY <1>0, <1>2, <1>3 DEF History
    <2>2. History'[LastIndex + 1] = op
        BY <1>0, <1>2, <1>3 DEF History
    <2>3. PICK h : h = History'
        OBVIOUS
    <2>4. /\ h \in Seq(Ops) /\ Len(h) = Len(History) + 1
          /\ \A i \in 1..Len(History) : h[i] = History[i]
          /\ h[Len(History) + 1] = op
        BY <1>0, <1>1, <1>3, <2>1, <2>2, <2>3
    <2>5. PICK g \in Seq(Ops) : g = History
        BY <1>0
    <2>6. h = Append(g, op)
        BY <2>4, <2>5
    <2> QED BY <2>3, <2>5, <2>6
<1>5. Replies' = Replies
    <2>1. PICK j \in Nat : j = LastIndex + 1
        BY <1>0
    <2>2. j \in 1..MaxIndex => proposer[j] = "none"
        BY <1>0, <2>1 DEF ProposersInv, ProposerStates
    <2>3. ASSUME NEW i \in 1..MaxIndex
          PROVE  /\ proposer'[i] = "ok" <=> proposer[i] = "ok"
                 /\ proposer'[i] \in {"timeout", "stopped"}
                        <=> proposer[i] \in {"timeout", "stopped"}
        BY <1>0, <1>2, <2>1, <2>2
    <2> QED BY <2>3 DEF Replies
<1> QED BY <1>2, <1>3, <1>4, <1>5 DEF Abstract!Extend

\* What the caller of index i is told.
LEMMA CallerTold ==
    ASSUME HistoryInv, ProposersInv, NEW i \in 1..MaxIndex,
           \/ ProposeReply(i) \/ ProposeTimeout(i) \/ ProposeStopped(i)
    PROVE  Abstract!Reply(i)
<1>0. /\ proposer \in [1..MaxIndex -> ProposerStates]
      /\ Len(History) = LastIndex
    BY HistoryType DEF HistoryInv, HistoryTyped, TypeOK
<1>1. /\ UNCHANGED <<log, compactIndex, lstate, fstate>>
      /\ proposer[i] = "waiting"
    BY DEF ProposeReply, ProposeTimeout, ProposeStopped
<1>2. History' = History /\ commit' = commit
    BY <1>1 DEF History, LastIndex, commit
<1>3. Replies[i] = "none" /\ i <= Len(History)
    BY <1>0, <1>1 DEF Replies, ProposersInv
<1>4. PICK told \in {"ok", "timeout", "stopped"} :
        /\ proposer' = [proposer EXCEPT ![i] = told]
        /\ told = "ok" => i \in results
    BY DEF ProposeReply, ProposeTimeout, ProposeStopped
<1>5. Replies' = [Replies EXCEPT ![i] = IF told = "ok" THEN "ok" ELSE "unknown"]
    BY <1>0, <1>4 DEF Replies
<1>6. told = "ok" => i <= commit
    BY <1>4 DEF ProposersInv
<1> QED BY <1>1, <1>2, <1>3, <1>5, <1>6 DEF Abstract!Reply

\* A commit is a decision of the abstract log: whoever acked an index holds
\* the history up to it.
LEMMA CommitDecides ==
    ASSUME HistoryInv, HistoryInv', AcksHeld, Commit
    PROVE  Abstract!Decide \/ UNCHANGED Abstract!logVars
<1>0. /\ commit \in Nat /\ LastIndex \in Nat /\ commit <= LastIndex
      /\ History \in Seq(Ops) /\ Len(History) = LastIndex
      /\ match \in [Followers -> Nat] /\ fstate \in [Followers -> Seq(Ops)]
    BY HistoryType DEF HistoryInv, HistoryTyped, TypeOK
<1>1. PICK n \in Nat :
        /\ commit <= n /\ n <= LastIndex
        /\ n > commit => Votes(n) >= Quorum
        /\ commit' = n /\ LastIndex' = LastIndex
    BY CommitEffect
<1>2. fstate' = fstate /\ proposer' = proposer
    BY DEF Commit
<1>3. Replies' = Replies
    BY <1>2 DEF Replies
<1>4. History' = History
    <2>1. /\ History' \in Seq(Ops) /\ Len(History') = LastIndex'
        BY HistoryTypeNext
    <2>2. IsPrefix(History, History')
        BY HistoryGrows DEF HistoryInv, CrashNext, Next, NoPanic
    <2>3. \A i \in 1..Len(History) : History[i] = History'[i]
        BY <1>0, <2>1, <2>2, PrefixPointwise
    <2>4. PICK h : h = History'
        OBVIOUS
    <2>5. h \in Seq(Ops) /\ Len(h) = Len(History)
          /\ \A i \in 1..Len(h) : h[i] = History[i]
        BY <1>0, <1>1, <2>1, <2>3, <2>4
    <2>6. PICK g \in Seq(Ops) : g = History
        BY <1>0
    <2> QED BY <2>4, <2>5, <2>6
<1>5. CASE n = commit
    BY <1>1, <1>2, <1>3, <1>4, <1>5 DEF Abstract!logVars
<1>6. CASE n # commit
    <2> DEFINE Acked == {f \in Followers : match[f] >= n}
               Holding == {f \in Followers : Abstract!Holds(f, n)}
    <2>1. ASSUME NEW f \in Followers, match[f] >= n
          PROVE  Abstract!Holds(f, n)
        <3>1. fstate[f] \in Seq(Ops) /\ IsPrefix(fstate[f], History)
            BY <1>0 DEF HistoryInv, LogMatching
        <3>2. Len(fstate[f]) >= n /\ Len(fstate[f]) \in Nat
            BY <1>0, <2>1, <3>1 DEF AcksHeld, AppliedIndex
        <3>3. \A i \in 1..n : fstate[f][i] = History[i]
            <4>1. \A i \in 1..Len(fstate[f]) : fstate[f][i] = History[i]
                BY <1>0, <3>1, PrefixPointwise
            <4> QED BY <3>2, <4>1
        <3>4. SubSeq(fstate[f], 1, n) = [i \in 1..n |-> fstate[f][i]]
            BY <3>1, <3>2
        <3>5. SubSeq(History, 1, n) = [i \in 1..n |-> History[i]]
            BY <1>0, <1>1
        <3> QED BY <3>2, <3>3, <3>4, <3>5 DEF Abstract!Holds, Abstract!Prefix
    <2>2. Acked \in SUBSET Holding /\ Holding \in SUBSET Followers
        BY <2>1
    <2>3. 1 + Cardinality(Acked) >= Quorum
        BY <1>1, <1>6, <1>0 DEF Votes
    <2> HIDE DEF Acked, Holding
    <2>4. /\ Cardinality(Acked) <= Cardinality(Holding)
          /\ Cardinality(Acked) \in Nat /\ Cardinality(Holding) \in Nat
        BY <2>2, CardinalityMonotone
    <2>5. 2 * (1 + Cardinality(Holding)) > Cardinality(Followers) + 1
        <3>1. PICK c \in Nat : c = Cardinality(Followers)
            BY FS_CardinalityType
        <3>2. 2 * (((c + 1) \div 2) + 1) > c + 1 /\ (c + 1) \div 2 \in Nat
            BY <3>1
        <3> QED BY <2>3, <2>4, <3>1, <3>2 DEF Quorum
    <2>6. Abstract!Majority(n)
        BY <2>5, SameCount DEF Abstract!Majority, Holding
    <2>7. n \in (commit + 1)..Len(History)
        BY <1>0, <1>1, <1>6
    <2> QED BY <1>1, <1>2, <1>3, <1>4, <2>6, <2>7 DEF Abstract!Decide
<1> QED BY <1>5, <1>6

\* What a follower applies, an entry or a snapshot, is a longer beginning of
\* the log, or nothing new.
LEMMA FollowerLearns ==
    ASSUME HistoryInv, HistoryInv', Next, NEW f \in Followers, NEW s \in Slots,
           FollowerSnapshot(f, s) \/ FollowerApply(f, s)
    PROVE  Abstract!Learn(f) \/ UNCHANGED Abstract!logVars
<1>1. /\ fstate \in [Followers -> Seq(Ops)] /\ fstate' \in [Followers -> Seq(Ops)]
      /\ History \in Seq(Ops) /\ Len(History) \in Nat
    BY HistoryType DEF HistoryInv, HistoryTyped, TypeOK
<1>2. /\ UNCHANGED <<log, compactIndex, lstate, proposer>>
      /\ \E x : fstate' = [fstate EXCEPT ![f] = x]
    BY DEF FollowerSnapshot, FollowerApply
<1>3. History' = History /\ commit' = commit /\ Replies' = Replies
    BY <1>2 DEF History, LastIndex, commit, Replies
<1>4. PICK y : y = fstate'[f]
    OBVIOUS
<1>5. fstate' = [fstate EXCEPT ![f] = y] /\ y \in Seq(Ops)
    BY <1>1, <1>2, <1>4
<1>6. IsPrefix(fstate[f], y)
    BY <1>4, ReplicasGrow
<1>7. IsPrefix(y, History)
    BY <1>3, <1>4 DEF HistoryInv, LogMatching
<1>8. y = SubSeq(History, 1, Len(y)) /\ Len(y) \in Nat /\ Len(y) <= Len(History)
    BY <1>1, <1>5, <1>7, PrefixIsBeginning
<1>9. /\ fstate[f] = SubSeq(y, 1, Len(fstate[f]))
      /\ Len(fstate[f]) \in Nat /\ Len(fstate[f]) <= Len(y)
    BY <1>1, <1>5, <1>6, PrefixIsBeginning
<1>10. CASE Len(fstate[f]) = Len(y)
    <2>1. SubSeq(y, 1, Len(y)) = y
        BY <1>5
    <2>2. fstate' = fstate
        BY <1>1, <1>5, <1>9, <1>10, <2>1
    <2> QED BY <1>3, <2>2 DEF Abstract!logVars
<1>11. CASE Len(fstate[f]) # Len(y)
    <2>1. Len(y) \in (Len(fstate[f]) + 1)..Len(History)
        <3>1. PICK m, n, k : m = Len(fstate[f]) /\ n = Len(y) /\ k = Len(History)
            OBVIOUS
        <3>2. m \in Nat /\ n \in Nat /\ k \in Nat /\ m <= n /\ n <= k /\ m # n
            BY <1>1, <1>8, <1>9, <1>11, <3>1
        <3>3. n \in (m + 1)..k
            BY <3>2
        <3> QED BY <3>1, <3>3
    <2> QED BY <1>3, <1>5, <1>8, <2>1 DEF Abstract!Learn, Abstract!Prefix
<1> QED BY <1>10, <1>11

\* Every step of the implementation is a step of the abstract log or none.
LEMMA RefinementStep ==
    ASSUME HistoryInv, HistoryInv', AcksHeld, ProposersInv, [Next]_vars
    PROVE  [Abstract!LogNext]_(Abstract!logVars)
<1>1. ASSUME NEW op \in Ops, ProposeAppend(op)
      PROVE  Abstract!LogNext
    BY <1>1, ProposalExtends DEF Abstract!LogNext
<1>2. ASSUME NEW i \in 1..MaxIndex, ProposeNotify(i)
      PROVE  UNCHANGED Abstract!logVars
    <2>1. /\ UNCHANGED <<log, compactIndex, lstate, fstate>>
          /\ proposer' = [proposer EXCEPT ![i] = "waiting"]
          /\ proposer[i] = "appended"
        BY <1>2 DEF ProposeNotify
    <2>2. proposer \in [1..MaxIndex -> ProposerStates]
        BY DEF HistoryInv, TypeOK
    <2>3. Replies' = Replies
        BY <2>1, <2>2 DEF Replies
    <2>4. History' = History /\ commit' = commit
        BY <2>1 DEF History, LastIndex, commit
    <2> QED BY <2>1, <2>3, <2>4 DEF Abstract!logVars
<1>3. ASSUME NEW i \in 1..MaxIndex,
             ProposeReply(i) \/ ProposeTimeout(i) \/ ProposeStopped(i)
      PROVE  Abstract!LogNext
    BY <1>3, CallerTold DEF Abstract!LogNext
<1>4. CASE Commit
    BY <1>4, CommitDecides DEF Abstract!LogNext
<1>5. ASSUME Next, NEW f \in Followers, NEW s \in Slots,
             FollowerSnapshot(f, s) \/ FollowerApply(f, s)
      PROVE  Abstract!LogNext \/ UNCHANGED Abstract!logVars
    BY <1>5, FollowerLearns DEF Abstract!LogNext
<1>6. ASSUME NEW f \in Followers, NEW s \in Slots,
             \/ Pusher(f, s) \/ Receiver(f, s) \/ Handler(f, s)
             \/ Connect(f, s)
             \/ FollowerSkip(f, s) \/ FollowerGap(f, s) \/ FollowerEOF(f, s)
      PROVE  UNCHANGED Abstract!logVars
    <2>1. UNCHANGED <<log, compactIndex, lstate, proposer, fstate>>
        BY <1>6
        DEF Pusher, PushCatchup, PushMark, PushSubscribe, PushWake, PushIdle,
            PushCheck, PushSend, PushResync, PushExit, Receiver, RecvAck,
            RecvErr, Handler, Accept, AcceptFail, HandlerReplaced,
            HandlerExit, HandlerReset, Connect, FollowerSkip, FollowerGap,
            FollowerEOF
    <2> QED BY <2>1, Invisible
<1>7. ASSUME NEW f \in Followers, StreamBreak(f)
      PROVE  UNCHANGED Abstract!logVars
    BY <1>7, Invisible DEF StreamBreak
<1>8. CASE Stop
    BY <1>8, Invisible DEF Stop
<1>9. CASE UNCHANGED vars
    BY <1>9, Invisible DEF vars
<1> QED BY <1>1, <1>2, <1>3, <1>4, <1>5, <1>6, <1>7, <1>8, <1>9
        DEF Next, Propose, StreamStep, ApplyStream

\* The empty cluster is the empty log.
LEMMA RefinementInit == Init => Abstract!LogInit
<1> SUFFICES ASSUME Init PROVE Abstract!LogInit
    OBVIOUS
<1>1. commit = 0 /\ LastIndex = 0
    BY DEF Init, commit, LastIndex
<1>2. History = <<>>
    <2>1. History \in Seq(Ops) /\ Len(History) = 0
        BY <1>1, HistoryInvInit, HistoryType DEF HistoryInv, HistoryTyped
    <2> QED BY <2>1
<1>3. Replies = [i \in 1..MaxIndex |-> "none"]
    BY DEF Init, Replies
<1> QED BY <1>1, <1>2, <1>3 DEF Init, Abstract!LogInit

\* As long as no process restarts, the leader, its streams and its followers
\* implement one growing log with prefix copies, majority commit and answers
\* for committed entries only (repl.go:1-9), for any number of followers and
\* overlapping streams.
THEOREM Refinement == Spec => ImplementsLog
<1>1. Spec => []HistoryInv /\ []AcksHeld
    <2>1. QuorumInv => HistoryInv /\ AcksHeld
        BY DEF QuorumInv
    <2> QED BY <2>1, QuorumInvariant, PTL
<1>2. Init => ProposersInv
    BY DEF Init, ProposersInv, WaitersAnswered
<1>3. HistoryInv /\ ProposersInv /\ [Next]_vars => ProposersInv'
    BY ProposersStep DEF CrashNext
<1>4. Spec => []ProposersInv
    BY <1>1, <1>2, <1>3, PTL DEF Spec
<1>5. HistoryInv /\ HistoryInv' /\ AcksHeld /\ ProposersInv /\ [Next]_vars
        => [Abstract!LogNext]_(Abstract!logVars)
    BY RefinementStep
<1> QED BY <1>1, <1>4, <1>5, RefinementInit, PTL
        DEF Spec, ImplementsLog, Abstract!LogSpec
=============================================================================

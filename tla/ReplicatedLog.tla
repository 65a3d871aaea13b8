--------------------------- MODULE ReplicatedLog ---------------------------
(***************************************************************************)
(* What distconf's replication promises to the state machines and to the   *)
(* callers of Propose, without leader, streams or messages: one log that   *)
(* only grows, copies that are prefixes of it and only grow, an index that *)
(* is committed when a majority holds it, and answers for committed        *)
(* indexes only.                                                           *)
(***************************************************************************)
EXTENDS Integers, Sequences, FiniteSets

CONSTANTS
    Replicas,   \* the nodes other than the one that numbers the entries
    Ops,
    MaxIndex

VARIABLES
    hist,       \* the log
    committed,  \* how much of it is committed
    copy,       \* copy[r]: what r has applied
    reply       \* reply[i]: what the caller that proposed entry i was told

logVars == <<hist, committed, copy, reply>>

Prefix(n) == SubSeq(hist, 1, n)

\* r holds the first n entries, as they are in the log.
Holds(r, n) == Len(copy[r]) >= n /\ SubSeq(copy[r], 1, n) = Prefix(n)
Majority(n) ==
    2 * (1 + Cardinality({r \in Replicas : Holds(r, n)}))
        > Cardinality(Replicas) + 1

LogInit ==
    /\ hist = <<>>
    /\ committed = 0
    /\ copy = [r \in Replicas |-> <<>>]
    /\ reply = [i \in 1..MaxIndex |-> "none"]

Extend ==
    /\ \E op \in Ops : hist' = Append(hist, op)
    /\ UNCHANGED <<committed, copy, reply>>

\* By one entry, or to a snapshot.
Learn(r) ==
    /\ \E n \in (Len(copy[r]) + 1)..Len(hist) :
          copy' = [copy EXCEPT ![r] = Prefix(n)]
    /\ UNCHANGED <<hist, committed, reply>>

Decide ==
    /\ \E n \in (committed + 1)..Len(hist) : Majority(n) /\ committed' = n
    /\ UNCHANGED <<hist, copy, reply>>

Reply(i) ==
    /\ reply[i] = "none"
    /\ i <= Len(hist)
    /\ \/ i <= committed /\ reply' = [reply EXCEPT ![i] = "ok"]
       \/ reply' = [reply EXCEPT ![i] = "unknown"]
    /\ UNCHANGED <<hist, committed, copy>>

LogNext ==
    \/ Extend \/ Decide
    \/ \E r \in Replicas : Learn(r)
    \/ \E i \in 1..MaxIndex : Reply(i)

LogSpec == LogInit /\ [][LogNext]_logVars
=============================================================================

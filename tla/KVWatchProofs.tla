--------------------------- MODULE KVWatchProofs ---------------------------
(***************************************************************************)
(* Machine-checked proofs about KVWatch, for any cluster, keys, ring,      *)
(* buffer and window, and any number of entries, breaks and snapshots.     *)
(*                                                                         *)
(* Three invariants, each resting on the one before: what a ring holds     *)
(* (Stored), the order of what is on its way to the client (Flowing), and  *)
(* that nothing is missing from it (Covered).                              *)
(***************************************************************************)
EXTENDS KVWatch, SequenceTheorems, FiniteSetTheorems, TLAPS

USE NodesAssumption
USE DEF storeVars, serverVars, clientVars, budgetVars

-----------------------------------------------------------------------------
(* The invariants                                                          *)

\* The first cursor that node n has not come to.
NextSeq(n) == EventSeq(rev[n] + 1)

Ascending(s) ==
    \A i, j \in 1..Len(s) : i < j => s[i].seq < s[j].seq

\* All of s is between the first cursor there is and the bound.
Within(s, bound) ==
    \A i \in 1..Len(s) : s[i].seq > 0 /\ s[i].seq < bound

\* No node applies what the log does not have, nor a batch too large for its
\* index.  A ring holds, in order, every event between its horizon and what
\* the node has applied.
StoredOn(n) ==
    /\ rev[n] <= Len(entries)
    /\ \A i \in 1..rev[n] : Len(entries[i]) < SubLimit
    /\ Ascending(hist[n]) /\ Within(hist[n], NextSeq(n))
    /\ \A e \in Events :
          Horizon(n) < e.seq /\ e.seq < NextSeq(n) => e \in Range(hist[n])

Stored == \A n \in Nodes : StoredOn(n)

\* The events that will still be sent.
Pending == backlog \o ch

\* The states of the two loops agree.
Paired ==
    /\ client # "streaming" => pc = "off" /\ wire = <<>>
    /\ pc \in {"off", "compacted"} =>
          backlog = <<>> /\ ch = <<>> /\ ~registered
    /\ pc = "live" => backlog = <<>>

\* The server's cursor is the last one on the stream, or the client's.
Positioned ==
    client = "streaming" =>
        cursor = IF wire = <<>> THEN ccursor ELSE wire[Len(wire)].seq

\* What is on the stream and what will be sent on it follow each other.
Ordered ==
    /\ Ascending(wire) /\ Ascending(Pending)
    /\ wire # <<>> /\ Pending # <<>> => cursor < Pending[1].seq

\* All of it, and what the client has received, comes from applied entries.
Bounded ==
    /\ Within(wire, NextSeq(node)) /\ Within(Pending, NextSeq(node))
    /\ received # <<>> => 0 < ccursor /\ ccursor < EventSeq(Len(entries) + 1)

Flowing == Paired /\ Positioned /\ Ordered /\ Bounded

\* Nothing is missing on the stream, between the client's cursor and the
\* server's.
WireCovers ==
    \A e \in Events :
        /\ Matches(e) /\ wire # <<>> /\ e.seq <= cursor
        /\ \/ received # <<>> /\ ccursor < e.seq
           \/ wire[1].seq <= e.seq
        => e \in Range(wire)

\* Nothing is missing in what is pending, from the server's cursor up to what
\* the node has applied, or up to where the subscriber was removed.
PendingCovers ==
    \A e \in Events :
        /\ Matches(e)
        /\ \/ registered /\ e.seq < NextSeq(node)
           \/ Pending # <<>> /\ e.seq <= Pending[Len(Pending)].seq
        /\ \/ (received # <<>> \/ wire # <<>>) /\ cursor < e.seq
           \/ Pending # <<>> /\ Pending[1].seq <= e.seq
        => e \in Range(Pending)

Covered == NoGap /\ WireCovers /\ PendingCovers

IInv ==
    /\ TypeOK
    /\ Stored
    /\ Flowing
    /\ restores = 0 => Covered

-----------------------------------------------------------------------------
(* Selections, cursors and events                                          *)

\* Picked keeps the order of the positions and skips none of them.
LEMMA PickedPositions ==
    ASSUME NEW S, NEW s \in Seq(S), NEW I \in SUBSET (1..Len(s))
    PROVE  /\ Picked(s, I) \in Seq(S)
           /\ \E h \in [1..Len(Picked(s, I)) -> I] :
                 /\ \A k \in 1..Len(Picked(s, I)) : Picked(s, I)[k] = s[h[k]]
                 /\ \A a, b \in 1..Len(Picked(s, I)) : a < b => h[a] < h[b]
                 /\ \A i \in I : \E k \in 1..Len(Picked(s, I)) : h[k] = i
<1> DEFINE below(i) == I \cap 1..i
           n == Cardinality(I)
           rank == [i \in I |-> Cardinality(below(i))]
           h == [k \in 1..n |-> CHOOSE i \in I : Cardinality(I \cap 1..i) = k]
<1>1. IsFiniteSet(I) /\ n \in Nat
    <2>1. IsFiniteSet(1..Len(s))
        BY FS_Interval
    <2> QED BY <2>1, FS_Subset, FS_CardinalityType
<1>2. ASSUME NEW i \in I
      PROVE  IsFiniteSet(below(i)) /\ rank[i] \in 1..n
    <2>1. below(i) \in SUBSET I /\ i \in below(i)
        OBVIOUS
    <2>2. IsFiniteSet(below(i)) /\ Cardinality(below(i)) <= n
        BY <1>1, <2>1, FS_Subset
    <2>3. Cardinality(below(i)) \in Nat
        BY <2>2, FS_CardinalityType
    <2>4. Cardinality(below(i)) # 0
        BY <2>1, <2>2, FS_EmptySet
    <2> QED BY <1>1, <2>2, <2>3, <2>4
<1>3. ASSUME NEW i \in I, NEW j \in I, i < j PROVE rank[i] < rank[j]
    <2>1. below(i) \in SUBSET below(j) /\ below(i) # below(j)
        <3>1. \A m \in 1..i : m \in 1..j
            BY <1>3
        <3>2. j \in below(j) /\ j \notin below(i)
            BY <1>3
        <3> QED BY <3>1, <3>2
    <2>2. /\ Cardinality(below(i)) <= Cardinality(below(j))
          /\ Cardinality(below(i)) # Cardinality(below(j))
        BY <1>2, <2>1, FS_Subset
    <2>3. Cardinality(below(i)) \in Nat /\ Cardinality(below(j)) \in Nat
        BY <1>2, FS_CardinalityType
    <2> QED BY <2>2, <2>3
<1>4. \A k \in 1..n : \E i \in I : rank[i] = k
    <2>1. rank \in [I -> 1..n]
        BY <1>2
    <2>2. \A i, j \in I : rank[i] = rank[j] => i = j
        <3> SUFFICES ASSUME NEW i \in I, NEW j \in I, rank[i] = rank[j], i # j
                     PROVE  FALSE
            OBVIOUS
        <3>1. rank[i] \in 1..n
            BY <1>2
        <3>2. i < j \/ j < i
            OBVIOUS
        <3> HIDE DEF rank
        <3> QED BY <1>3, <3>1, <3>2
    <2>3. rank \in Injection(I, 1..n)
        BY <2>1, <2>2 DEF Injection, IsInjective
    <2>4. IsFiniteSet(1..n) /\ Cardinality(1..n) = n
        BY <1>1, FS_Interval
    <2>5. rank \in Surjection(I, 1..n)
        BY <2>3, <2>4, FS_Injection
    <2> QED BY <2>5 DEF Surjection
<1>5. ASSUME NEW k \in 1..n PROVE h[k] \in I /\ rank[h[k]] = k
    <2>1. \E i \in I : Cardinality(I \cap 1..i) = k
        BY <1>4
    <2> QED BY <2>1
<1>6. Picked(s, I) = [k \in 1..n |-> s[h[k]]]
    BY DEF Picked
<1>7. Picked(s, I) \in Seq(S) /\ Len(Picked(s, I)) = n
    <2>1. \A k \in 1..n : h[k] \in 1..Len(s)
        BY <1>5
    <2> HIDE DEF h
    <2>2. \A k \in 1..n : s[h[k]] \in S
        BY <2>1
    <2> QED BY <1>1, <1>6, <2>2
<1>8. h \in [1..n -> I]
    BY <1>5
<1>9. ASSUME NEW a \in 1..n, NEW b \in 1..n, a < b PROVE h[a] < h[b]
    <2>1. h[a] \in I /\ h[b] \in I /\ rank[h[a]] = a /\ rank[h[b]] = b
        BY <1>5
    <2>2. PICK x \in I, y \in I : x = h[a] /\ y = h[b]
        BY <2>1
    <2>3. rank[x] = a /\ rank[y] = b
        BY <2>1, <2>2
    <2> HIDE DEF h, rank
    <2>4. ~(y < x) /\ x # y
        BY <1>3, <1>9, <2>3
    <2> QED BY <2>2, <2>4
<1>10. ASSUME NEW i \in I PROVE \E k \in 1..n : h[k] = i
    <2>1. PICK k \in 1..n : k = rank[i]
        BY <1>2
    <2>2. PICK x \in I : x = h[k] /\ rank[x] = k
        BY <1>5
    <2> HIDE DEF h, rank
    <2>3. ~(i < x) /\ ~(x < i)
        BY <1>3, <2>1, <2>2
    <2> QED BY <2>2, <2>3
<1> HIDE DEF h
<1> QED BY <1>6, <1>7, <1>8, <1>9, <1>10

\* The cursors of an index come after those of the index before it.
LEMMA Cursors ==
    ASSUME NEW i \in Nat
    PROVE  /\ EventSeq(i) \in Nat
           /\ EventSeq(i + 1) = EventSeq(i) + SubLimit
           /\ EventSeq(i + 1) > 0
           /\ \A j \in Nat : i <= j => EventSeq(i) <= EventSeq(j)
<1> USE SizesAssumption DEF EventSeq
<1>1. SubLimit \in Nat /\ SubLimit > 0
    OBVIOUS
<1> DEFINE L == SubLimit
<1>2. i * L \in Nat
    BY <1>1
<1>3. (i + 1) * L = i * L + L
    BY <1>1
<1>4. ASSUME NEW j \in Nat, i <= j PROVE i * L <= j * L
    <2>1. PICK d \in Nat : j = i + d
        <3>1. j - i \in Nat /\ j = i + (j - i)
            BY <1>4
        <3> QED BY <3>1
    <2>2. j * L = i * L + d * L /\ d * L \in Nat
        BY <1>1, <2>1
    <2> QED BY <1>2, <2>2
<1> QED BY <1>1, <1>2, <1>3, <1>4

\* The events of an index, in order.
LEMMA EventsOfType ==
    ASSUME TypeOK, NEW i \in 1..Len(entries)
    PROVE  /\ EventsOf(i) \in Seq(Event)
           /\ Len(EventsOf(i)) = Len(entries[i])
           /\ Ascending(EventsOf(i))
           /\ \A k \in 1..Len(EventsOf(i)) :
                 /\ EventsOf(i)[k].seq = EventSeq(i) + k - 1
                 /\ EventsOf(i)[k].seq >= EventSeq(i)
<1>1. entries[i] \in Seq(Keys) /\ Len(entries[i]) \in Nat
    <2>1. entries[i] \in Batches
        BY DEF TypeOK
    <2> QED BY <2>1 DEF Batches, SeqOf
<1>2. EventSeq(i) \in Nat
    BY Cursors DEF TypeOK
<1>3. \A k \in 1..Len(entries[i]) :
        [seq |-> EventSeq(i) + k - 1, key |-> entries[i][k]] \in Event
    BY <1>1, <1>2 DEF Event
<1> QED BY <1>1, <1>2, <1>3 DEF EventsOf, Ascending

\* Where the events of the log come from.
LEMMA EventOrigin ==
    ASSUME TypeOK, NEW e \in Events
    PROVE  /\ e \in Event
           /\ \E i \in 1..Len(entries) :
                 /\ EventSeq(i) <= e.seq
                 /\ \E k \in 1..Len(EventsOf(i)) : e = EventsOf(i)[k]
<1>1. PICK i \in DOMAIN entries : e \in Range(EventsOf(i))
    BY DEF Events
<1>2. i \in 1..Len(entries)
    BY <1>1 DEF TypeOK
<1>3. PICK k \in 1..Len(EventsOf(i)) : e = EventsOf(i)[k]
    BY <1>1, <1>2, EventsOfType DEF Range
<1>4. EventsOf(i) \in Seq(Event) /\ EventSeq(i) <= EventsOf(i)[k].seq
    BY <1>2, EventsOfType
<1> QED BY <1>2, <1>3, <1>4

\* An event whose cursor is below those of index r + 1 is of an earlier index,
\* and one of a later index is not below them.
LEMMA EventIndex ==
    ASSUME TypeOK, NEW e \in Events, NEW r \in Nat,
           e.seq < EventSeq(r + 1)
    PROVE  \E i \in 1..Len(entries) :
              /\ i <= r
              /\ \E k \in 1..Len(EventsOf(i)) : e = EventsOf(i)[k]
<1>1. PICK i \in 1..Len(entries) :
        /\ EventSeq(i) <= e.seq
        /\ \E k \in 1..Len(EventsOf(i)) : e = EventsOf(i)[k]
    BY EventOrigin
<1>2. /\ i \in Nat /\ EventSeq(i) \in Nat
      /\ EventSeq(r + 1) \in Nat /\ e.seq \in Nat
    BY EventOrigin, Cursors DEF Event
<1>3. r + 1 <= i => EventSeq(r + 1) <= EventSeq(i)
    BY <1>2, Cursors
<1> QED BY <1>1, <1>2, <1>3

\* The events of a batch that fits are below the cursors of the next index.
LEMMA BatchFits ==
    ASSUME TypeOK, NEW i \in 1..Len(entries), Len(entries[i]) < SubLimit
    PROVE  Within(EventsOf(i), EventSeq(i + 1))
<1>1. i \in Nat /\ i - 1 \in Nat /\ Len(entries[i]) \in Nat
    BY EventsOfType DEF TypeOK
<1>2. /\ EventSeq(i) \in Nat /\ EventSeq(i) > 0
      /\ EventSeq(i + 1) = EventSeq(i) + SubLimit
    <2>1. EventSeq((i - 1) + 1) > 0
        BY <1>1, Cursors
    <2>2. (i - 1) + 1 = i
        BY <1>1
    <2> QED BY <1>1, <2>1, <2>2, Cursors
<1>3. SubLimit \in Nat
    BY SizesAssumption
<1> QED BY <1>1, <1>2, <1>3, EventsOfType DEF Within

-----------------------------------------------------------------------------
(* Ascending sequences of events                                           *)

\* An element of a sequence is at one of its positions.
LEMMA InRange ==
    ASSUME NEW S, NEW s \in Seq(S), NEW x
    PROVE  x \in Range(s) <=> \E i \in 1..Len(s) : s[i] = x
BY DEF Range

\* The events of a sequence have cursors.
LEMMA CursorType ==
    ASSUME NEW s \in Seq(Event), NEW i \in 1..Len(s)
    PROVE  s[i] \in Event /\ s[i].seq \in Nat
<1>1. s[i] \in Event
    OBVIOUS
<1> QED BY <1>1 DEF Event

\* What is below one bound is below a larger one.
LEMMA WithinGrows ==
    ASSUME NEW s \in Seq(Event), NEW b \in Nat, NEW c \in Nat, b <= c,
           Within(s, b)
    PROVE  Within(s, c)
<1>1. ASSUME NEW i \in 1..Len(s) PROVE s[i].seq > 0 /\ s[i].seq < c
    <2>1. s[i].seq \in Nat /\ s[i].seq > 0 /\ s[i].seq < b
        BY CursorType DEF Within
    <2> QED BY <2>1
<1> QED BY <1>1 DEF Within

\* In an ascending sequence the cursor says which event it is, and which of
\* two comes first.
LEMMA SeqDecides ==
    ASSUME NEW s \in Seq(Event), Ascending(s),
           NEW i \in 1..Len(s), NEW j \in 1..Len(s)
    PROVE  /\ s[i].seq \in Nat
           /\ s[i].seq < s[j].seq => i < j
           /\ s[i].seq = s[j].seq => i = j
           /\ i <= j => s[i].seq <= s[j].seq
<1>0. s[i] \in Event /\ s[j] \in Event
    OBVIOUS
<1>1. s[i].seq \in Nat /\ s[j].seq \in Nat
    BY <1>0 DEF Event
<1>2. i < j \/ i = j \/ j < i
    OBVIOUS
<1> QED BY <1>1, <1>2 DEF Ascending

\* A selection of an ascending sequence ascends, and has the events at the
\* chosen positions and no others.
LEMMA PickedAscends ==
    ASSUME NEW s \in Seq(Event), Ascending(s), NEW I \in SUBSET (1..Len(s))
    PROVE  /\ Picked(s, I) \in Seq(Event)
           /\ Ascending(Picked(s, I))
           /\ \A x : x \in Range(Picked(s, I)) <=> \E i \in I : x = s[i]
<1> DEFINE p == Picked(s, I)
<1>1. p \in Seq(Event)
    BY PickedPositions
<1>2. PICK h \in [1..Len(p) -> I] :
        /\ \A k \in 1..Len(p) : p[k] = s[h[k]]
        /\ \A a, b \in 1..Len(p) : a < b => h[a] < h[b]
        /\ \A i \in I : \E k \in 1..Len(p) : h[k] = i
    BY PickedPositions
<1> HIDE DEF p
<1>3. Ascending(p)
    <2> SUFFICES ASSUME NEW a \in 1..Len(p), NEW b \in 1..Len(p), a < b
                 PROVE  p[a].seq < p[b].seq
        BY DEF Ascending
    <2>1. /\ p[a] = s[h[a]] /\ p[b] = s[h[b]] /\ h[a] < h[b]
          /\ h[a] \in 1..Len(s) /\ h[b] \in 1..Len(s)
        BY <1>2
    <2> QED BY <2>1 DEF Ascending
<1>4. ASSUME NEW x PROVE x \in Range(p) <=> \E i \in I : x = s[i]
    <2>1. ASSUME x \in Range(p) PROVE \E i \in I : x = s[i]
        <3>1. PICK k \in 1..Len(p) : p[k] = x
            BY <1>1, <2>1, InRange
        <3>2. h[k] \in I /\ x = s[h[k]]
            BY <1>2, <3>1
        <3> QED BY <3>2
    <2>2. ASSUME NEW i \in I, x = s[i] PROVE x \in Range(p)
        <3>1. PICK k \in 1..Len(p) : h[k] = i
            BY <1>2
        <3>2. p[k] = x
            BY <1>2, <2>2, <3>1
        <3> QED BY <1>1, <3>2, InRange
    <2> QED BY <2>1, <2>2
<1> QED BY <1>1, <1>3, <1>4 DEF p

\* A concatenation has the elements of both parts.
LEMMA JoinedRange ==
    ASSUME NEW S, NEW s \in Seq(S), NEW t \in Seq(S)
    PROVE  /\ s \o t \in Seq(S)
           /\ \A x : x \in Range(s \o t) <=> x \in Range(s) \/ x \in Range(t)
<1>1. /\ s \o t \in Seq(S) /\ Len(s \o t) = Len(s) + Len(t)
      /\ Len(s) \in Nat /\ Len(t) \in Nat
      /\ \A i \in 1..(Len(s) + Len(t)) :
            (s \o t)[i] = IF i <= Len(s) THEN s[i] ELSE t[i - Len(s)]
    OBVIOUS
<1>2. ASSUME NEW x, x \in Range(s \o t) PROVE x \in Range(s) \/ x \in Range(t)
    <2>1. PICK i \in 1..(Len(s) + Len(t)) : (s \o t)[i] = x
        BY <1>1, <1>2, InRange
    <2>2. CASE i <= Len(s)
        BY <1>1, <2>1, <2>2, InRange
    <2>3. CASE i > Len(s)
        <3>1. i - Len(s) \in 1..Len(t)
            BY <1>1, <2>3
        <3> QED BY <1>1, <2>1, <2>3, <3>1, InRange
    <2> QED BY <1>1, <2>2, <2>3
<1>3. ASSUME NEW x, x \in Range(s) PROVE x \in Range(s \o t)
    <2>1. PICK i \in 1..Len(s) : s[i] = x
        BY <1>3, InRange
    <2>2. i \in 1..(Len(s) + Len(t)) /\ (s \o t)[i] = x
        BY <1>1, <2>1
    <2> QED BY <1>1, <2>2, InRange
<1>4. ASSUME NEW x, x \in Range(t) PROVE x \in Range(s \o t)
    <2>1. PICK i \in 1..Len(t) : t[i] = x
        BY <1>4, InRange
    <2>2. Len(s) + i \in 1..(Len(s) + Len(t)) /\ (s \o t)[Len(s) + i] = x
        BY <1>1, <2>1
    <2> QED BY <1>1, <2>2, InRange
<1> QED BY <1>1, <1>2, <1>3, <1>4

\* What follows in order may be joined, and what is joined follows in order.
LEMMA JoinedAscends ==
    ASSUME NEW s \in Seq(Event), NEW t \in Seq(Event)
    PROVE  Ascending(s \o t) <=>
              /\ Ascending(s) /\ Ascending(t)
              /\ \A i \in 1..Len(s), j \in 1..Len(t) : s[i].seq < t[j].seq
<1>1. /\ s \o t \in Seq(Event) /\ Len(s \o t) = Len(s) + Len(t)
      /\ Len(s) \in Nat /\ Len(t) \in Nat
      /\ \A i \in 1..(Len(s) + Len(t)) :
            (s \o t)[i] = IF i <= Len(s) THEN s[i] ELSE t[i - Len(s)]
    OBVIOUS
<1>2. \A i \in 1..Len(s) :
        i \in 1..(Len(s) + Len(t)) /\ (s \o t)[i] = s[i]
    BY <1>1
<1>3. \A j \in 1..Len(t) :
        /\ Len(s) + j \in 1..(Len(s) + Len(t))
        /\ (s \o t)[Len(s) + j] = t[j]
    BY <1>1
<1>4. ASSUME Ascending(s \o t)
      PROVE  /\ Ascending(s) /\ Ascending(t)
             /\ \A i \in 1..Len(s), j \in 1..Len(t) : s[i].seq < t[j].seq
    <2>1. \A i, j \in 1..(Len(s) + Len(t)) :
            i < j => (s \o t)[i].seq < (s \o t)[j].seq
        BY <1>1, <1>4 DEF Ascending
    <2>2. Ascending(s)
        BY <1>2, <2>1 DEF Ascending
    <2>3. Ascending(t)
        <3>1. ASSUME NEW i \in 1..Len(t), NEW j \in 1..Len(t), i < j
              PROVE  t[i].seq < t[j].seq
            <4>1. Len(s) + i < Len(s) + j
                BY <1>1, <3>1
            <4> QED BY <1>3, <2>1, <4>1
        <3> QED BY <3>1 DEF Ascending
    <2>4. ASSUME NEW i \in 1..Len(s), NEW j \in 1..Len(t)
          PROVE  s[i].seq < t[j].seq
        <3>1. i < Len(s) + j
            BY <1>1
        <3> QED BY <1>2, <1>3, <2>1, <3>1
    <2> QED BY <2>2, <2>3, <2>4
<1>5. ASSUME Ascending(s), Ascending(t),
             \A i \in 1..Len(s), j \in 1..Len(t) : s[i].seq < t[j].seq
      PROVE  Ascending(s \o t)
    <2> SUFFICES ASSUME NEW i \in 1..(Len(s) + Len(t)),
                        NEW j \in 1..(Len(s) + Len(t)), i < j
                 PROVE  (s \o t)[i].seq < (s \o t)[j].seq
        BY <1>1 DEF Ascending
    <2>1. CASE j <= Len(s)
        <3>1. i \in 1..Len(s) /\ j \in 1..Len(s)
            BY <1>1, <2>1
        <3> QED BY <1>2, <1>5, <3>1 DEF Ascending
    <2>2. CASE i > Len(s)
        <3>1. /\ i - Len(s) \in 1..Len(t) /\ j - Len(s) \in 1..Len(t)
              /\ i - Len(s) < j - Len(s) /\ ~(i <= Len(s)) /\ ~(j <= Len(s))
            BY <1>1, <2>2
        <3>2. t[i - Len(s)].seq < t[j - Len(s)].seq
            BY <1>5, <3>1 DEF Ascending
        <3> QED BY <1>1, <3>1, <3>2
    <2>3. CASE i <= Len(s) /\ j > Len(s)
        <3>1. i \in 1..Len(s) /\ j - Len(s) \in 1..Len(t) /\ ~(j <= Len(s))
            BY <1>1, <2>3
        <3>2. s[i].seq < t[j - Len(s)].seq
            BY <1>5, <3>1
        <3> QED BY <1>1, <2>3, <3>1, <3>2
    <2> QED BY <1>1, <2>1, <2>2, <2>3
<1> QED BY <1>4, <1>5

\* A concatenation is within a bound when both parts are.
LEMMA JoinedWithin ==
    ASSUME NEW s \in Seq(Event), NEW t \in Seq(Event), NEW bound \in Nat
    PROVE  Within(s \o t, bound) <=> Within(s, bound) /\ Within(t, bound)
<1>1. \A u \in Seq(Event) :
        Within(u, bound) <=> \A x \in Range(u) : x.seq > 0 /\ x.seq < bound
    BY InRange DEF Within
<1> QED BY <1>1, JoinedRange

\* The first event and the rest.
LEMMA HeadAndTail ==
    ASSUME NEW s \in Seq(Event), s # <<>>, Ascending(s)
    PROVE  /\ Len(s) \in Nat /\ Len(s) >= 1
           /\ Head(s) = s[1] /\ s[1] \in Event /\ s[1] \in Range(s)
           /\ Tail(s) \in Seq(Event) /\ Len(Tail(s)) = Len(s) - 1
           /\ Ascending(Tail(s))
           /\ \A i \in 1..Len(Tail(s)) :
                 Tail(s)[i] = s[i + 1] /\ s[1].seq < Tail(s)[i].seq
           /\ \A x : x \in Range(s) <=> x = s[1] \/ x \in Range(Tail(s))
           /\ \A bound : Within(s, bound) => Within(Tail(s), bound)
           /\ Tail(s) # <<>> => Tail(s)[Len(Tail(s))] = s[Len(s)]
<1>1. /\ Len(s) \in Nat /\ Len(s) >= 1 /\ Head(s) = s[1] /\ s[1] \in Event
      /\ Tail(s) \in Seq(Event) /\ Len(Tail(s)) = Len(s) - 1
      /\ \A i \in 1..Len(Tail(s)) :
            Tail(s)[i] = s[i + 1] /\ i + 1 \in 1..Len(s)
    OBVIOUS
<1>2. \A i \in 1..Len(Tail(s)) : s[1].seq < Tail(s)[i].seq
    BY <1>1 DEF Ascending
<1>3. Ascending(Tail(s))
    <2> SUFFICES ASSUME NEW i \in 1..Len(Tail(s)), NEW j \in 1..Len(Tail(s)),
                        i < j
                 PROVE  Tail(s)[i].seq < Tail(s)[j].seq
        BY DEF Ascending
    <2>1. i + 1 < j + 1
        BY <1>1
    <2> QED BY <1>1, <2>1 DEF Ascending
<1>4. ASSUME NEW x
      PROVE  x \in Range(s) <=> x = s[1] \/ x \in Range(Tail(s))
    <2>1. \A i \in 2..Len(s) :
            i - 1 \in 1..Len(Tail(s)) /\ Tail(s)[i - 1] = s[i]
        BY <1>1
    <2>2. \A i \in 1..Len(s) : i = 1 \/ i \in 2..Len(s)
        BY <1>1
    <2>3. ASSUME x \in Range(s) PROVE x = s[1] \/ x \in Range(Tail(s))
        <3>1. PICK i \in 1..Len(s) : s[i] = x
            BY <2>3, InRange
        <3>2. CASE i \in 2..Len(s)
            <4>1. i - 1 \in 1..Len(Tail(s)) /\ Tail(s)[i - 1] = x
                BY <2>1, <3>1, <3>2
            <4> QED BY <1>1, <4>1, InRange
        <3> QED BY <2>2, <3>1, <3>2
    <2>4. ASSUME x \in Range(Tail(s)) PROVE x \in Range(s)
        <3>0. Tail(s) \in Seq(Event)
            BY <1>1
        <3>1. PICK i \in 1..Len(Tail(s)) : Tail(s)[i] = x
            BY <2>4, <3>0, InRange
        <3>2. i + 1 \in 1..Len(s) /\ s[i + 1] = x
            BY <1>1, <3>1
        <3> QED BY <3>2, InRange
    <2>5. s[1] \in Range(s)
        BY <1>1, InRange
    <2> QED BY <2>3, <2>4, <2>5
<1>5. \A bound : Within(s, bound) => Within(Tail(s), bound)
    BY <1>1 DEF Within
<1>6. Tail(s) # <<>> => Tail(s)[Len(Tail(s))] = s[Len(s)]
    BY <1>1
<1> QED BY <1>1, <1>2, <1>3, <1>4, <1>5, <1>6

\* The first m events are those up to the m-th cursor.
LEMMA PrefixAscends ==
    ASSUME NEW s \in Seq(Event), Ascending(s), NEW m \in 0..Len(s)
    PROVE  /\ SubSeq(s, 1, m) \in Seq(Event) /\ Len(SubSeq(s, 1, m)) = m
           /\ Ascending(SubSeq(s, 1, m))
           /\ \A i \in 1..m : SubSeq(s, 1, m)[i] = s[i]
           /\ \A bound : Within(s, bound) => Within(SubSeq(s, 1, m), bound)
           /\ \A x \in Range(s), i \in 1..m :
                 x.seq <= s[i].seq => x \in Range(SubSeq(s, 1, m))
<1> DEFINE p == SubSeq(s, 1, m)
<1>1. /\ p \in Seq(Event) /\ Len(p) = m /\ m \in Nat
      /\ \A i \in 1..m : p[i] = s[i] /\ i \in 1..Len(s)
    OBVIOUS
<1> HIDE DEF p
<1>2. Ascending(p) /\ \A bound : Within(s, bound) => Within(p, bound)
    BY <1>1 DEF Ascending, Within
<1>3. ASSUME NEW x \in Range(s), NEW i \in 1..m, x.seq <= s[i].seq
      PROVE  x \in Range(p)
    <2>1. PICK j \in 1..Len(s) : s[j] = x
        BY InRange
    <2>2. i \in 1..Len(s)
        BY <1>1
    <2>3. j <= i
        BY <1>3, <2>1, <2>2, SeqDecides
    <2>4. j \in 1..m
        BY <1>1, <2>3
    <2> QED BY <1>1, <2>1, <2>4, InRange
<1> QED BY <1>1, <1>2, <1>3 DEF p

\* The events from position m on are those from the m-th cursor on.
LEMMA SuffixAscends ==
    ASSUME NEW s \in Seq(Event), Ascending(s), NEW m \in 1..Len(s)
    PROVE  /\ SubSeq(s, m, Len(s)) \in Seq(Event)
           /\ Len(SubSeq(s, m, Len(s))) = Len(s) - m + 1
           /\ SubSeq(s, m, Len(s))[1] = s[m]
           /\ Ascending(SubSeq(s, m, Len(s)))
           /\ \A bound : Within(s, bound) => Within(SubSeq(s, m, Len(s)), bound)
           /\ \A x \in Range(s) :
                 x.seq >= s[m].seq => x \in Range(SubSeq(s, m, Len(s)))
<1> DEFINE p == SubSeq(s, m, Len(s))
<1>1. /\ Len(s) \in Nat /\ m \in Nat /\ Len(p) = Len(s) - m + 1
      /\ p \in Seq(Event)
      /\ \A i \in 1..Len(p) : p[i] = s[m + i - 1] /\ m + i - 1 \in 1..Len(s)
    OBVIOUS
<1> HIDE DEF p
<1>2. p[1] = s[m]
    BY <1>1
<1>3. \A bound : Within(s, bound) => Within(p, bound)
    BY <1>1 DEF Within
<1>4. Ascending(p)
    <2> SUFFICES ASSUME NEW i \in 1..Len(p), NEW j \in 1..Len(p), i < j
                 PROVE  p[i].seq < p[j].seq
        BY DEF Ascending
    <2>1. m + i - 1 < m + j - 1
        BY <1>1
    <2> QED BY <1>1, <2>1 DEF Ascending
<1>5. ASSUME NEW x \in Range(s), x.seq >= s[m].seq
      PROVE  x \in Range(p)
    <2>1. PICK j \in 1..Len(s) : s[j] = x
        BY InRange
    <2>2. m <= j
        <3>1. j < m => s[j].seq < s[m].seq
            BY DEF Ascending
        <3>2. s[j].seq \in Nat /\ s[m].seq \in Nat
            BY SeqDecides
        <3> QED BY <1>1, <1>5, <2>1, <3>1, <3>2
    <2>3. j - m + 1 \in 1..Len(p) /\ m + (j - m + 1) - 1 = j
        BY <1>1, <2>2
    <2>4. p[j - m + 1] = x
        BY <1>1, <2>1, <2>3
    <2> QED BY <1>1, <2>3, <2>4, InRange
<1> QED BY <1>1, <1>2, <1>3, <1>4, <1>5 DEF p

-----------------------------------------------------------------------------
(* Type correctness                                                        *)

\* What fanoutKVLocked sends of an entry: its matching events, in order.
LEMMA WantedEvents ==
    ASSUME NEW evs \in Seq(Event), Ascending(evs)
    PROVE  /\ Wanted(evs) \in Seq(Event)
           /\ Ascending(Wanted(evs))
           /\ \A x : x \in Range(Wanted(evs)) <=> x \in Range(evs) /\ Matches(x)
<1> DEFINE I == {k \in DOMAIN evs : Matches(evs[k])}
<1>1. I \in SUBSET (1..Len(evs))
    OBVIOUS
<1>2. \A x : (\E i \in I : x = evs[i]) <=> x \in Range(evs) /\ Matches(x)
    BY DEF Range
<1>3. Wanted(evs) = Picked(evs, I)
    BY DEF Wanted
<1> HIDE DEF I
<1> QED BY <1>1, <1>2, <1>3, PickedAscends

\* What WatchKV replays: the matching events of the ring after the cursor.
LEMMA BacklogEvents ==
    ASSUME NEW n \in Nodes, hist[n] \in Seq(Event), Ascending(hist[n]), NEW from
    PROVE  /\ Backlog(n, from) \in Seq(Event)
           /\ Ascending(Backlog(n, from))
           /\ \A x : x \in Range(Backlog(n, from)) <=>
                        x \in Range(hist[n]) /\ x.seq > from /\ Matches(x)
<1> DEFINE I == {k \in DOMAIN hist[n] :
                    hist[n][k].seq > from /\ Matches(hist[n][k])}
<1>1. I \in SUBSET (1..Len(hist[n]))
    OBVIOUS
<1>2. \A x : (\E i \in I : x = hist[n][i]) <=>
                x \in Range(hist[n]) /\ x.seq > from /\ Matches(x)
    BY DEF Range
<1>3. Backlog(n, from) = Picked(hist[n], I)
    BY DEF Backlog
<1> HIDE DEF I
<1> QED BY <1>1, <1>2, <1>3, PickedAscends

\* A subscriber gets all the events, or the first of them and is removed.
LEMMA FanoutEffect ==
    ASSUME TypeOK, NEW evs \in Seq(Event), Ascending(evs), Fanout(evs)
    PROVE  /\ Len(ch') <= WatcherBuffer
           /\ registered' \in BOOLEAN /\ (registered' => registered)
           /\ \E m \in 0..Len(evs) :
                 /\ ch' = ch \o SubSeq(evs, 1, m)
                 /\ registered' => SubSeq(evs, 1, m) = evs
<1>1. /\ ch \in Seq(Event) /\ Len(ch) \in Nat /\ Len(evs) \in Nat
      /\ Len(ch) <= WatcherBuffer /\ WatcherBuffer \in Nat
      /\ registered \in BOOLEAN
    BY SizesAssumption DEF TypeOK
<1> DEFINE room == WatcherBuffer - Len(ch)
<1>2. CASE Len(evs) <= room
    <2>1. ch' = ch \o evs /\ registered' = registered
        BY <1>2 DEF Fanout
    <2>2. Len(evs) \in 0..Len(evs) /\ SubSeq(evs, 1, Len(evs)) = evs
        BY <1>1
    <2>3. Len(ch \o evs) = Len(ch) + Len(evs)
        BY <1>1
    <2>4. Len(ch') <= WatcherBuffer
        BY <1>1, <1>2, <2>1, <2>3
    <2> QED BY <1>1, <2>1, <2>2, <2>4
<1>3. CASE ~(Len(evs) <= room)
    <2>1. ch' = ch \o SubSeq(evs, 1, room) /\ registered' = FALSE
        BY <1>3 DEF Fanout
    <2>2. room \in 0..Len(evs)
        BY <1>1, <1>3
    <2>3. SubSeq(evs, 1, room) \in Seq(Event) /\ Len(SubSeq(evs, 1, room)) = room
        BY <2>2, PrefixAscends
    <2>4. Len(ch \o SubSeq(evs, 1, room)) = Len(ch) + room
        BY <1>1, <2>3
    <2>5. Len(ch') <= WatcherBuffer
        BY <1>1, <2>1, <2>4
    <2> QED BY <2>1, <2>2, <2>5
<1> QED BY <1>2, <1>3

\* WatchKV leaves the server's loop with a well-typed subscription.
LEMMA WatchKVType ==
    ASSUME TypeOK, Stored, NEW n \in Nodes, NEW from \in Nat, WatchKV(n, from)
    PROVE  /\ cursor' \in Nat /\ ch' = <<>> /\ backlog' \in Seq(Event)
           /\ pc' \in {"backlog", "compacted"} /\ registered' \in BOOLEAN
<1>1. Backlog(n, from) \in Seq(Event)
    BY BacklogEvents DEF TypeOK, Stored, StoredOn
<1>2. <<>> \in Seq(Event)
    OBVIOUS
<1> QED BY <1>1, <1>2 DEF WatchKV

\* The ring after h.
LEMMA RingSuffix ==
    ASSUME NEW h \in Seq(Event), h # <<>>
    PROVE  \E m \in 1..Len(h) : Ring(h) = SubSeq(h, m, Len(h))
<1>1. /\ Len(h) \in Nat /\ Len(h) >= 1
      /\ HistoryCapacity \in Nat /\ HistoryCapacity >= 1
    BY SizesAssumption
<1>2. CASE Len(h) <= HistoryCapacity
    <2>1. Ring(h) = h /\ h = SubSeq(h, 1, Len(h)) /\ 1 \in 1..Len(h)
        BY <1>1, <1>2 DEF Ring
    <2> QED BY <2>1
<1>3. CASE ~(Len(h) <= HistoryCapacity)
    <2>1. /\ Ring(h) = SubSeq(h, Len(h) - HistoryCapacity + 1, Len(h))
          /\ Len(h) - HistoryCapacity + 1 \in 1..Len(h)
        BY <1>1, <1>3 DEF Ring
    <2> QED BY <2>1
<1> QED BY <1>2, <1>3

\* Every step keeps the types and the capacity of the channel.
LEMMA TypeStep ==
    ASSUME TypeOK, Stored, [Next]_vars
    PROVE  TypeOK'
<1>0. /\ <<>> \in Seq(Event) /\ Len(<<>>) <= WatcherBuffer
      /\ \A e \in Event : e.seq \in Nat
    BY SizesAssumption DEF Event
<1>1. ASSUME NEW b \in Batches, AppendEntry(b) PROVE TypeOK'
    <2>1. entries' \in Seq(Batches)
        BY <1>1 DEF AppendEntry, TypeOK
    <2> QED BY <1>1, <2>1 DEF AppendEntry, TypeOK
<1>2. ASSUME NEW n \in Nodes, ApplyEntry(n) PROVE TypeOK'
    <2> DEFINE i == rev[n] + 1
               evs == EventsOf(i)
    <2>1. i \in 1..Len(entries)
        <3>1. rev[n] \in Nat /\ Len(entries) \in Nat
            BY DEF TypeOK
        <3>2. i <= Len(entries)
            BY <1>2 DEF ApplyEntry
        <3> QED BY <3>1, <3>2
    <2>2. evs \in Seq(Event) /\ Ascending(evs)
        BY <2>1, EventsOfType
    <2>3. UNCHANGED <<entries, baselineSeq, node, pc, cursor, backlog, wire,
                      clientVars, budgetVars>>
        BY <1>2 DEF ApplyEntry
    <2>4. CASE Len(evs) >= SubLimit
        <3>1. panicked' = TRUE /\ UNCHANGED <<rev, hist, ch, registered>>
            BY <1>2, <2>4 DEF ApplyEntry
        <3> QED BY <2>3, <3>1 DEF TypeOK
    <2>5. CASE ~(Len(evs) >= SubLimit)
        <3>1. /\ rev' = [rev EXCEPT ![n] = i]
              /\ hist' = [hist EXCEPT ![n] = Ring(hist[n] \o evs)]
              /\ IF registered /\ node = n THEN Fanout(Wanted(evs))
                 ELSE UNCHANGED <<ch, registered>>
              /\ UNCHANGED panicked
            BY <1>2, <2>5 DEF ApplyEntry, TypeOK
        <3> HIDE DEF evs, i
        <3>2. rev' \in [Nodes -> Nat]
            BY <2>1, <3>1 DEF TypeOK
        <3>3. Ring(hist[n] \o evs) \in Seq(Event)
            <4>1. hist[n] \o evs \in Seq(Event)
                BY <2>2 DEF TypeOK
            <4>2. \A m \in 1..Len(hist[n] \o evs) :
                    SubSeq(hist[n] \o evs, m, Len(hist[n] \o evs)) \in Seq(Event)
                BY <4>1
            <4>3. CASE hist[n] \o evs = <<>>
                BY <4>1, <4>3, SizesAssumption DEF Ring
            <4> QED BY <4>1, <4>2, <4>3, RingSuffix
        <3>4. hist' \in [Nodes -> Seq(Event)]
            BY <3>1, <3>3 DEF TypeOK
        <3>5. ch' \in Seq(Event) /\ Len(ch') <= WatcherBuffer
            <4>1. CASE registered /\ node = n
                <5>1. Wanted(evs) \in Seq(Event) /\ Ascending(Wanted(evs))
                    BY <2>2, WantedEvents
                <5>2. Fanout(Wanted(evs))
                    BY <3>1, <4>1
                <5>3. Len(ch') <= WatcherBuffer
                    BY <5>1, <5>2, FanoutEffect
                <5>4. PICK m \in 0..Len(Wanted(evs)) :
                        ch' = ch \o SubSeq(Wanted(evs), 1, m)
                    BY <5>1, <5>2, FanoutEffect
                <5>5. SubSeq(Wanted(evs), 1, m) \in Seq(Event)
                    BY <5>1, PrefixAscends
                <5>6. ch' \in Seq(Event)
                    BY <5>4, <5>5 DEF TypeOK
                <5> QED BY <5>3, <5>6
            <4>2. CASE ~(registered /\ node = n)
                BY <3>1, <4>2 DEF TypeOK
            <4> QED BY <4>1, <4>2
        <3>6. registered' \in BOOLEAN
            BY <3>1 DEF Fanout, TypeOK
        <3> QED BY <2>3, <3>1, <3>2, <3>4, <3>5, <3>6 DEF TypeOK
    <2> QED BY <2>4, <2>5
<1>3. ASSUME NEW n \in Nodes, NEW r \in 1..MaxIndex, RestoreSnapshot(n, r)
      PROVE  TypeOK'
    <2>1. r \in Nat /\ Baseline(r) \in Nat
        <3>1. EventSeq(r) \in Nat /\ SubLimit \in Nat /\ SubLimit > 0
            BY Cursors, SizesAssumption
        <3> QED BY <3>1 DEF Baseline
    <2>2. rev' \in [Nodes -> Nat] /\ hist' \in [Nodes -> Seq(Event)]
        BY <1>0, <1>3, <2>1 DEF RestoreSnapshot, TypeOK
    <2>3. baselineSeq' \in [Nodes -> Nat]
        BY <1>3, <2>1 DEF RestoreSnapshot, TypeOK
    <2>4. UNCHANGED <<entries, panicked, serverVars, clientVars, breaks>>
        BY <1>3 DEF RestoreSnapshot
    <2>5. restores' \in Nat
        BY <1>3 DEF RestoreSnapshot, TypeOK
    <2> QED BY <2>2, <2>3, <2>4, <2>5 DEF TypeOK
<1>4. ASSUME NEW n \in Nodes, NodeRestart(n) PROVE TypeOK'
    <2>1. rev' \in [Nodes -> Nat] /\ hist' \in [Nodes -> Seq(Event)]
        BY <1>0, <1>4 DEF NodeRestart, TypeOK
    <2>2. baselineSeq' \in [Nodes -> Nat]
        BY <1>4 DEF NodeRestart, TypeOK
    <2>3. CASE client = "streaming" /\ node = n
        <3>1. /\ client' = "connecting" /\ pc' = "off" /\ registered' = FALSE
              /\ backlog' = <<>> /\ ch' = <<>> /\ wire' = <<>>
            BY <1>4, <2>3 DEF NodeRestart, Disconnected
        <3>2. /\ backlog' \in Seq(Event) /\ wire' \in Seq(Event)
              /\ ch' \in Seq(Event) /\ Len(ch') <= WatcherBuffer
            BY <1>0, <3>1
        <3>3. /\ UNCHANGED <<entries, panicked, node, cursor, filter, ccursor,
                             received, restores>>
              /\ breaks' = breaks + 1
            BY <1>4 DEF NodeRestart
        <3>4. client' = "connecting" /\ pc' = "off" /\ registered' \in BOOLEAN
            BY <3>1
        <3>5. panicked' \in BOOLEAN /\ breaks' \in Nat
            BY <3>3 DEF TypeOK
        <3>6. UNCHANGED <<entries, node, cursor, filter, ccursor, received,
                          restores>>
            BY <3>3
        <3> QED BY <2>1, <2>2, <3>2, <3>4, <3>5, <3>6 DEF TypeOK
    <2>4. CASE ~(client = "streaming" /\ node = n)
        <3>1. UNCHANGED <<client, pc, registered, backlog, ch, wire>>
            BY <1>4, <2>4 DEF NodeRestart
        <3> QED BY <1>4, <2>1, <2>2, <3>1 DEF NodeRestart, TypeOK
    <2> QED BY <2>3, <2>4
<1>5. CASE SendBacklog
    <2>0. Head(backlog) \in Event /\ Tail(backlog) \in Seq(Event)
        BY <1>5 DEF SendBacklog, TypeOK
    <2>1. /\ wire' \in Seq(Event) /\ backlog' \in Seq(Event) /\ cursor' \in Nat
        BY <1>0, <1>5, <2>0 DEF SendBacklog, TypeOK
    <2> QED BY <1>5, <2>1 DEF SendBacklog, TypeOK
<1>6. CASE SendLive
    <2>0. /\ Head(ch) \in Event /\ Tail(ch) \in Seq(Event)
          /\ Len(Tail(ch)) = Len(ch) - 1
        BY <1>6 DEF SendLive, TypeOK
    <2>1. /\ wire' \in Seq(Event) /\ cursor' \in Nat
          /\ ch' \in Seq(Event) /\ Len(ch') = Len(ch) - 1
        BY <1>0, <1>6, <2>0 DEF SendLive, TypeOK
    <2>2. Len(ch') <= WatcherBuffer
        <3>1. Len(ch) \in Nat /\ Len(ch') \in Nat /\ Len(ch) <= WatcherBuffer
            BY <2>1 DEF TypeOK
        <3> QED BY <2>1, <3>1, SizesAssumption
    <2> QED BY <1>6, <2>1, <2>2 DEF SendLive, TypeOK
<1>7. CASE GoLive
    BY <1>7 DEF GoLive, TypeOK
<1>8. CASE Resubscribe
    <2>1. /\ cursor' \in Nat /\ ch' = <<>> /\ backlog' \in Seq(Event)
          /\ pc' \in {"backlog", "compacted"} /\ registered' \in BOOLEAN
        BY <1>8, WatchKVType DEF Resubscribe, TypeOK
    <2> QED BY <1>0, <1>8, <2>1 DEF Resubscribe, TypeOK
<1>9. ASSUME NEW n \in Nodes, Connect(n) PROVE TypeOK'
    <2>1. /\ cursor' \in Nat /\ ch' = <<>> /\ backlog' \in Seq(Event)
          /\ pc' \in {"backlog", "compacted"} /\ registered' \in BOOLEAN
        <3>1. ccursor \in Nat /\ WatchKV(n, ccursor)
            BY <1>9 DEF Connect, TypeOK
        <3> QED BY <3>1, WatchKVType
    <2> QED BY <1>0, <1>9, <2>1 DEF Connect, TypeOK
<1>10. CASE Receive
    <2>1. Head(wire) \in Event /\ Tail(wire) \in Seq(Event)
        BY <1>10 DEF Receive, TypeOK
    <2>2. /\ wire' \in Seq(Event) /\ received' \in Seq(Event) /\ ccursor' \in Nat
        BY <1>0, <1>10, <2>1 DEF Receive, TypeOK
    <2> QED BY <1>10, <2>2 DEF Receive, TypeOK
<1>11. CASE ReceiveCompacted
    BY <1>11 DEF ReceiveCompacted, TypeOK
<1>12. CASE StreamBreak
    <2>1. /\ client' = "connecting" /\ pc' = "off" /\ registered' = FALSE
          /\ backlog' = <<>> /\ ch' = <<>> /\ wire' = <<>>
        BY <1>12 DEF StreamBreak, Disconnected
    <2>2. /\ backlog' \in Seq(Event) /\ wire' \in Seq(Event)
          /\ ch' \in Seq(Event) /\ Len(ch') <= WatcherBuffer
        BY <1>0, <2>1
    <2>3. /\ UNCHANGED <<entries, storeVars, node, cursor, filter, ccursor,
                         received, restores>>
          /\ breaks' = breaks + 1
        BY <1>12 DEF StreamBreak
    <2>4. client' = "connecting" /\ pc' = "off" /\ registered' \in BOOLEAN
        BY <2>1
    <2> QED BY <2>2, <2>3, <2>4 DEF TypeOK
<1>13. CASE UNCHANGED vars
    BY <1>13 DEF vars, TypeOK
<1> QED
    BY <1>1, <1>2, <1>3, <1>4, <1>5, <1>6, <1>7, <1>8, <1>9, <1>10, <1>11,
       <1>12, <1>13 DEF Next, Server, Client

-----------------------------------------------------------------------------
(* What the rings hold                                                     *)

\* What an entry adds to the log's events comes after all the log has.
LEMMA EventsAppended ==
    ASSUME TypeOK, NEW b \in Batches, AppendEntry(b)
    PROVE  /\ Len(entries') = Len(entries) + 1
           /\ \A i \in 1..Len(entries) : entries'[i] = entries[i]
           /\ Events \subseteq Events'
           /\ \A e \in Events' \ Events :
                 e.seq \in Nat /\ EventSeq(Len(entries) + 1) <= e.seq
<1>1. /\ entries' = Append(entries, b) /\ entries \in Seq(Batches)
      /\ Len(entries) \in Nat
    BY DEF AppendEntry, TypeOK
<1>2. /\ Len(entries') = Len(entries) + 1
      /\ DOMAIN entries' = 1..(Len(entries) + 1)
      /\ DOMAIN entries = 1..Len(entries)
      /\ \A i \in 1..Len(entries) : entries'[i] = entries[i]
      /\ entries'[Len(entries) + 1] = b
    BY <1>1
<1>3. \A i \in 1..Len(entries) :
        i \in DOMAIN entries' /\ EventsOf(i)' = EventsOf(i)
    BY <1>1, <1>2 DEF EventsOf, EventSeq
<1>4. Events \subseteq Events'
    BY <1>2, <1>3 DEF Events
<1>5. ASSUME NEW e \in Events', e \notin Events
      PROVE  e.seq \in Nat /\ EventSeq(Len(entries) + 1) <= e.seq
    <2>1. PICK i \in 1..(Len(entries) + 1) : e \in Range(EventsOf(i)')
        BY <1>2 DEF Events, Range
    <2>2. i \notin 1..Len(entries)
        BY <1>2, <1>3, <1>5, <2>1 DEF Events
    <2>3. i = Len(entries) + 1
        BY <1>1, <2>1, <2>2
    <2>4. b \in Seq(Keys)
        BY DEF Batches, SeqOf
    <2>5. EventsOf(i)' = [k \in 1..Len(b) |->
                            [seq |-> EventSeq(i) + k - 1, key |-> b[k]]]
        BY <1>2, <2>3 DEF EventsOf, EventSeq
    <2>6. PICK k \in 1..Len(b) : e.seq = EventSeq(i) + k - 1
        BY <2>1, <2>5 DEF Range
    <2>7. EventSeq(i) \in Nat /\ Len(b) \in Nat
        BY <1>1, <2>3, <2>4, Cursors
    <2> QED BY <2>3, <2>6, <2>7
<1> QED BY <1>2, <1>4, <1>5

\* With the log where it was, so are its events.
LEMMA SameEvents ==
    ASSUME entries' = entries
    PROVE  Events' = Events /\ \A i : EventsOf(i)' = EventsOf(i)
BY DEF Events, EventsOf, EventSeq

\* The step a node takes from index r to index r + 1 uncovers the events of
\* that index and no others.
LEMMA EventsUncovered ==
    ASSUME TypeOK, NEW r \in Nat, r + 1 <= Len(entries),
           \A i \in 1..(r + 1) : Len(entries[i]) < SubLimit,
           NEW e \in Events, e.seq < EventSeq(r + 2)
    PROVE  e \in Range(EventsOf(r + 1)) \/ e.seq < EventSeq(r + 1)
<1>1. r + 1 \in Nat /\ (r + 1) + 1 = r + 2
    OBVIOUS
<1>2. PICK i \in 1..Len(entries) :
        /\ i <= r + 1
        /\ \E k \in 1..Len(EventsOf(i)) : e = EventsOf(i)[k]
    BY <1>1, EventIndex
<1>3. PICK k \in 1..Len(EventsOf(i)) : e = EventsOf(i)[k]
    BY <1>2
<1>4. EventsOf(i) \in Seq(Event)
    BY EventsOfType
<1>5. CASE i = r + 1
    BY <1>3, <1>4, <1>5, InRange
<1>6. CASE i # r + 1
    <2>1. i \in Nat /\ i + 1 \in Nat /\ i + 1 <= r + 1 /\ i \in 1..(r + 1)
        BY <1>2, <1>6
    <2>2. e.seq < EventSeq(i + 1)
        BY <1>3, <2>1, BatchFits DEF Within
    <2>3. EventSeq(i + 1) <= EventSeq(r + 1)
        BY <2>1, <1>1, Cursors
    <2>4. e.seq \in Nat /\ EventSeq(i + 1) \in Nat /\ EventSeq(r + 1) \in Nat
        BY <1>1, <2>1, Cursors, EventOrigin DEF Event
    <2> QED BY <2>2, <2>3, <2>4
<1> QED BY <1>5, <1>6

\* Applying the next entry keeps the ring in order and complete from its new
\* horizon on (appendEventLocked).
LEMMA RingKept ==
    ASSUME TypeOK, NEW n \in Nodes, StoredOn(n), NEW r \in Nat, r = rev[n],
           r + 1 <= Len(entries), Len(entries[r + 1]) < SubLimit,
           NEW ring, ring = Ring(hist[n] \o EventsOf(r + 1))
    PROVE  /\ Ascending(ring) /\ Within(ring, EventSeq(r + 2))
           /\ \A e \in Events :
                 /\ (IF ring = <<>> THEN baselineSeq[n] ELSE ring[1].seq - 1)
                       < e.seq
                 /\ e.seq < EventSeq(r + 2)
                 => e \in Range(ring)
<1> DEFINE evs == EventsOf(r + 1)
           all == hist[n] \o evs
<1>0. /\ r + 1 \in 1..Len(entries) /\ r + 1 \in Nat /\ (r + 1) + 1 = r + 2
      /\ r + 2 \in Nat
    <2>1. Len(entries) \in Nat
        BY DEF TypeOK
    <2> QED BY <2>1
<1>1. /\ EventSeq(r + 1) \in Nat /\ EventSeq(r + 2) \in Nat
      /\ EventSeq(r + 1) <= EventSeq(r + 2)
    <2>1. r + 1 <= r + 2
        OBVIOUS
    <2> QED BY <1>0, <2>1, Cursors
<1>2. /\ hist[n] \in Seq(Event) /\ Ascending(hist[n])
      /\ Within(hist[n], EventSeq(r + 1))
    BY DEF TypeOK, StoredOn, NextSeq
<1>3. /\ evs \in Seq(Event) /\ Ascending(evs)
      /\ \A k \in 1..Len(evs) : evs[k].seq >= EventSeq(r + 1)
    BY <1>0, EventsOfType
<1>4. Within(evs, EventSeq(r + 2))
    BY <1>0, BatchFits
<1>5. Within(hist[n], EventSeq(r + 2))
    BY <1>1, <1>2, WithinGrows
<1>6. ASSUME NEW e \in Events, e.seq < EventSeq(r + 2)
      PROVE  e \in Range(evs) \/ e.seq < EventSeq(r + 1)
    <2>1. \A i \in 1..(r + 1) : Len(entries[i]) < SubLimit
        <3>1. \A i \in 1..(r + 1) : i \in 1..r \/ i = r + 1
            OBVIOUS
        <3> QED BY <3>1 DEF StoredOn
    <2> QED BY <1>6, <2>1, EventsUncovered
<1> HIDE DEF evs
<1>7. /\ all \in Seq(Event) /\ Ascending(all) /\ Within(all, EventSeq(r + 2))
      /\ \A x : x \in Range(all) <=> x \in Range(hist[n]) \/ x \in Range(evs)
    <2>1. ASSUME NEW i \in 1..Len(hist[n]), NEW j \in 1..Len(evs)
          PROVE  hist[n][i].seq < evs[j].seq
        <3>1. hist[n][i].seq \in Nat /\ evs[j].seq \in Nat
            BY <1>2, <1>3, CursorType
        <3>2. hist[n][i].seq < EventSeq(r + 1)
            BY <1>2 DEF Within
        <3>3. evs[j].seq >= EventSeq(r + 1)
            BY <1>3
        <3> DEFINE x == hist[n][i].seq
                   y == evs[j].seq
                   z == EventSeq(r + 1)
        <3>4. x \in Nat /\ y \in Nat /\ z \in Nat /\ x < z /\ y >= z
            BY <1>1, <3>1, <3>2, <3>3
        <3> HIDE DEF x, y, z
        <3>5. x < y
            BY <3>4
        <3> QED BY <3>5 DEF x, y
    <2> QED BY <1>1, <1>2, <1>3, <1>4, <1>5, <2>1, JoinedAscends,
               JoinedWithin, JoinedRange
<1>8. CASE all = <<>>
    <2>1. ring = <<>>
        <3>1. ring = Ring(<<>>)
            BY <1>8 DEF evs
        <3>2. Len(<<>>) <= HistoryCapacity
            BY SizesAssumption
        <3> QED BY <3>1, <3>2 DEF Ring
    <2>2. hist[n] = <<>> /\ evs = <<>>
        BY <1>2, <1>3, <1>8
    <2>3. Ascending(ring) /\ Within(ring, EventSeq(r + 2))
        BY <2>1 DEF Ascending, Within
    <2>4. \A x : x \notin Range(evs)
        BY <2>2 DEF Range
    <2>5. \A e \in Events :
            baselineSeq[n] < e.seq /\ e.seq < EventSeq(r + 2)
                => e \in Range(ring)
        BY <1>6, <2>1, <2>2, <2>4 DEF StoredOn, Horizon, NextSeq
    <2> QED BY <2>1, <2>3, <2>5
<1>9. CASE all # <<>>
    <2>1. PICK m \in 1..Len(all) : ring = SubSeq(all, m, Len(all))
        BY <1>7, <1>9, RingSuffix DEF evs
    <2> HIDE DEF all
    <2>2. /\ ring \in Seq(Event) /\ Ascending(ring) /\ ring[1] = all[m]
          /\ Within(ring, EventSeq(r + 2)) /\ Len(ring) = Len(all) - m + 1
          /\ \A x \in Range(all) : x.seq >= all[m].seq => x \in Range(ring)
        BY <1>7, <2>1, SuffixAscends
    <2>3. ring # <<>>
        BY <1>7, <2>2
    <2>4. ASSUME NEW e \in Events, ring[1].seq - 1 < e.seq,
                 e.seq < EventSeq(r + 2)
          PROVE  e \in Range(ring)
        <3>1. /\ e.seq \in Nat /\ all[m].seq \in Nat
              /\ e.seq >= all[m].seq
            <4>1. e.seq \in Nat
                BY EventOrigin DEF Event
            <4>2. all[m].seq \in Nat
                BY <1>7, SeqDecides
            <4> QED BY <2>2, <2>4, <4>1, <4>2
        <3>2. CASE e.seq < EventSeq(r + 1)
            <4>1. all[m] \in Range(hist[n]) \/ all[m] \in Range(evs)
                BY <1>7, InRange
            <4>2. all[m] \notin Range(evs)
                <5> SUFFICES ASSUME all[m] \in Range(evs) PROVE FALSE
                    OBVIOUS
                <5>1. PICK k \in 1..Len(evs) : evs[k] = all[m]
                    BY <1>3, InRange
                <5> QED BY <1>1, <1>3, <3>1, <3>2, <5>1
            <4>3. PICK k \in 1..Len(hist[n]) : hist[n][k] = all[m]
                BY <1>2, <4>1, <4>2, InRange
            <4>4. /\ hist[n] # <<>> /\ 1 \in 1..Len(hist[n])
                  /\ hist[n][1].seq <= all[m].seq
                <5>1. hist[n] # <<>> /\ 1 \in 1..Len(hist[n]) /\ 1 <= k
                    BY <1>2, <4>3
                <5> QED BY <1>2, <4>3, <5>1, SeqDecides
            <4>5. hist[n][1].seq \in Nat
                BY <1>2, <4>4, SeqDecides
            <4>6. Horizon(n) < e.seq
                <5>1. Horizon(n) = hist[n][1].seq - 1
                    BY <4>4 DEF Horizon
                <5>2. PICK x \in Nat, y \in Nat, z \in Nat :
                        x = hist[n][1].seq /\ y = all[m].seq /\ z = e.seq
                    BY <3>1, <4>5
                <5>3. x <= y /\ z >= y
                    BY <3>1, <4>4, <5>2
                <5>4. x - 1 < z
                    BY <5>3
                <5> QED BY <5>1, <5>2, <5>4
            <4>7. e \in Range(hist[n])
                BY <3>2, <4>6 DEF StoredOn, NextSeq
            <4> QED BY <1>7, <2>2, <3>1, <4>7
        <3>3. CASE e \in Range(evs)
            BY <1>7, <2>2, <3>1, <3>3
        <3> QED BY <1>6, <2>4, <3>2, <3>3
    <2> QED BY <2>2, <2>3, <2>4
<1> QED BY <1>8, <1>9

\* Every step leaves each ring complete between its horizon and what its node
\* has applied.
LEMMA StoredStep ==
    ASSUME TypeOK, Stored, [Next]_vars
    PROVE  Stored'
<1> DEFINE Same(m) ==
        /\ rev'[m] = rev[m] /\ hist'[m] = hist[m]
        /\ baselineSeq'[m] = baselineSeq[m]
<1>0. ASSUME entries' = entries, NEW m \in Nodes, Same(m)
      PROVE  StoredOn(m)'
    <2>1. StoredOn(m) /\ Events' = Events
        BY <1>0, SameEvents DEF Stored
    <2> QED BY <1>0, <2>1 DEF StoredOn, Horizon, NextSeq, EventSeq, Ascending,
                              Within
<1>1. ASSUME NEW b \in Batches, AppendEntry(b) PROVE Stored'
    <2> SUFFICES ASSUME NEW n \in Nodes PROVE StoredOn(n)'
        BY DEF Stored
    <2>1. /\ UNCHANGED <<rev, hist, baselineSeq>> /\ StoredOn(n)
          /\ Len(entries) \in Nat /\ rev[n] \in Nat /\ rev[n] <= Len(entries)
          /\ hist[n] \in Seq(Event)
        <3>1. UNCHANGED <<rev, hist, baselineSeq>>
            BY <1>1 DEF AppendEntry
        <3>2. StoredOn(n) /\ rev[n] <= Len(entries)
            BY DEF Stored, StoredOn
        <3>3. Len(entries) \in Nat /\ rev[n] \in Nat /\ hist[n] \in Seq(Event)
            BY DEF TypeOK
        <3> QED BY <3>1, <3>2, <3>3
    <2>2. rev'[n] <= Len(entries') /\ rev'[n] = rev[n]
        BY <1>1, <2>1, EventsAppended
    <2>3. \A i \in 1..rev'[n] : Len(entries'[i]) < SubLimit
        <3> SUFFICES ASSUME NEW i \in 1..rev[n]
                     PROVE  Len(entries'[i]) < SubLimit
            BY <2>2
        <3>1. i \in 1..Len(entries) /\ Len(entries[i]) < SubLimit
            BY <2>1 DEF StoredOn
        <3> QED BY <1>1, <3>1, EventsAppended
    <2>4. NextSeq(n)' = NextSeq(n) /\ Horizon(n)' = Horizon(n)
        BY <2>1 DEF NextSeq, Horizon, EventSeq
    <2>5. Ascending(hist'[n]) /\ Within(hist'[n], NextSeq(n)')
        BY <2>1, <2>4 DEF StoredOn
    <2>6. ASSUME NEW e \in Events', Horizon(n) < e.seq, e.seq < NextSeq(n)
          PROVE  e \in Range(hist[n])
        <3>1. CASE e \in Events
            BY <2>1, <2>6, <3>1 DEF StoredOn
        <3>2. CASE e \notin Events
            <4>1. e.seq \in Nat /\ EventSeq(Len(entries) + 1) <= e.seq
                BY <1>1, <2>6, <3>2, EventsAppended
            <4>2. PICK a \in Nat, z \in Nat :
                    a = rev[n] + 1 /\ z = Len(entries) + 1 /\ a <= z
                BY <2>1
            <4>3. /\ EventSeq(a) <= EventSeq(z)
                  /\ EventSeq(a) \in Nat /\ EventSeq(z) \in Nat
                BY <4>2, Cursors
            <4> QED BY <2>6, <4>1, <4>2, <4>3 DEF NextSeq
        <3> QED BY <3>1, <3>2
    <2> QED BY <2>1, <2>2, <2>3, <2>4, <2>5, <2>6 DEF StoredOn
<1>2. ASSUME NEW n \in Nodes, ApplyEntry(n) PROVE Stored'
    <2>0. /\ rev[n] \in Nat /\ rev[n] + 1 <= Len(entries) /\ entries' = entries
          /\ baselineSeq' = baselineSeq /\ StoredOn(n)
          /\ Len(entries) \in Nat
        BY <1>2 DEF ApplyEntry, TypeOK, Stored
    <2>1. PICK r \in Nat : r = rev[n]
        BY <2>0
    <2>2. r + 1 \in 1..Len(entries) /\ r + 1 \in Nat /\ (r + 1) + 1 = r + 2
        BY <2>0, <2>1
    <2>3. Len(EventsOf(r + 1)) = Len(entries[r + 1])
        BY <2>2, EventsOfType
    <2>4. CASE Len(EventsOf(r + 1)) >= SubLimit
        <3>1. UNCHANGED <<rev, hist>>
            BY <1>2, <2>1, <2>4 DEF ApplyEntry
        <3> QED BY <1>0, <2>0, <3>1 DEF Stored
    <2>5. CASE ~(Len(EventsOf(r + 1)) >= SubLimit)
        <3>1. /\ rev' = [rev EXCEPT ![n] = r + 1]
              /\ hist' = [hist EXCEPT ![n] = Ring(@ \o EventsOf(r + 1))]
            BY <1>2, <2>1, <2>5 DEF ApplyEntry
        <3>2. \A m \in Nodes : m # n => Same(m)
            BY <2>0, <3>1 DEF TypeOK
        <3>3. rev'[n] = r + 1 /\ hist'[n] = Ring(hist[n] \o EventsOf(r + 1))
            BY <3>1 DEF TypeOK
        <3>4. Len(entries[r + 1]) < SubLimit
            <4>1. EventsOf(r + 1) \in Seq(Event)
                BY <2>2, EventsOfType
            <4>2. Len(entries[r + 1]) \in Nat
                BY <2>3, <4>1
            <4> QED BY <2>3, <2>5, <4>2, SizesAssumption
        <3>5. \A i \in 1..(r + 1) : Len(entries[i]) < SubLimit
            <4>1. \A i \in 1..(r + 1) : i \in 1..r \/ i = r + 1
                OBVIOUS
            <4> QED BY <2>0, <2>1, <3>4, <4>1 DEF StoredOn
        <3>6. PICK ring : ring = Ring(hist[n] \o EventsOf(r + 1))
            OBVIOUS
        <3>7. /\ Ascending(ring) /\ Within(ring, EventSeq(r + 2))
              /\ \A e \in Events :
                    /\ (IF ring = <<>> THEN baselineSeq[n] ELSE ring[1].seq - 1)
                          < e.seq
                    /\ e.seq < EventSeq(r + 2)
                    => e \in Range(ring)
            BY <2>0, <2>1, <3>4, <3>6, RingKept
        <3>8. /\ hist'[n] = ring /\ NextSeq(n)' = EventSeq(r + 2)
              /\ Horizon(n)' = IF ring = <<>> THEN baselineSeq[n]
                               ELSE ring[1].seq - 1
            BY <2>0, <2>2, <3>3, <3>6 DEF NextSeq, Horizon, EventSeq
        <3>9. Events' = Events
            BY <2>0, SameEvents
        <3>10. rev'[n] <= Len(entries') /\ entries' = entries
            BY <2>0, <2>1, <3>3
        <3>11. StoredOn(n)'
            BY <3>3, <3>5, <3>7, <3>8, <3>9, <3>10 DEF StoredOn
        <3> QED BY <1>0, <2>0, <3>2, <3>11 DEF Stored
    <2> QED BY <2>4, <2>5
<1>3. ASSUME NEW n \in Nodes, NEW r \in 1..MaxIndex, RestoreSnapshot(n, r)
      PROVE  Stored'
    <2>1. /\ rev' = [rev EXCEPT ![n] = r] /\ hist' = [hist EXCEPT ![n] = <<>>]
          /\ baselineSeq' = [baselineSeq EXCEPT ![n] = Baseline(r)]
          /\ entries' = entries /\ r <= rev[Leader] /\ r \in Nat
        BY <1>3 DEF RestoreSnapshot, TypeOK
    <2>2. \A m \in Nodes : m # n => Same(m)
        BY <2>1 DEF TypeOK
    <2>3. /\ rev'[n] = r /\ hist'[n] = <<>> /\ baselineSeq'[n] = Baseline(r)
          /\ Events' = Events
        BY <2>1, SameEvents DEF TypeOK
    <2>4. /\ StoredOn(Leader) /\ rev[Leader] \in Nat /\ Len(entries) \in Nat
        BY DEF Stored, TypeOK
    <2>5. r <= Len(entries) /\ \A i \in 1..r : Len(entries[i]) < SubLimit
        <3>1. \A i \in 1..r : i \in 1..rev[Leader]
            BY <2>1, <2>4
        <3> QED BY <2>1, <2>4, <3>1 DEF StoredOn
    <2>6. Ascending(hist'[n]) /\ Within(hist'[n], NextSeq(n)')
        BY <2>3 DEF Ascending, Within
    <2>7. ASSUME NEW e \in Events, Baseline(r) < e.seq, e.seq < EventSeq(r + 1)
          PROVE  FALSE
        <3>1. e.seq \in Nat
            BY EventOrigin DEF Event
        <3>2. EventSeq(r) \in Nat /\ EventSeq(r + 1) = EventSeq(r) + SubLimit
            BY <2>1, Cursors
        <3> QED BY <2>7, <3>1, <3>2, SizesAssumption DEF Baseline
    <2>8. NextSeq(n)' = EventSeq(r + 1) /\ Horizon(n)' = Baseline(r)
        BY <2>3 DEF NextSeq, Horizon, EventSeq
    <2>9. StoredOn(n)'
        BY <2>1, <2>3, <2>5, <2>6, <2>7, <2>8 DEF StoredOn
    <2> QED BY <1>0, <2>1, <2>2, <2>9 DEF Stored
<1>4. ASSUME NEW n \in Nodes, NodeRestart(n) PROVE Stored'
    <2>1. /\ rev' = [rev EXCEPT ![n] = 0] /\ hist' = [hist EXCEPT ![n] = <<>>]
          /\ baselineSeq' = [baselineSeq EXCEPT ![n] = 0]
          /\ entries' = entries
        BY <1>4 DEF NodeRestart
    <2>2. \A m \in Nodes : m # n => Same(m)
        BY <2>1 DEF TypeOK
    <2>3. /\ rev'[n] = 0 /\ hist'[n] = <<>> /\ baselineSeq'[n] = 0
          /\ Events' = Events
        BY <2>1, SameEvents DEF TypeOK
    <2>4. Ascending(hist'[n]) /\ Within(hist'[n], NextSeq(n)')
        BY <2>3 DEF Ascending, Within
    <2>5. ASSUME NEW e \in Events, e.seq < EventSeq(0 + 1) PROVE FALSE
        <3>1. \E i \in 1..Len(entries) : i <= 0
            BY <2>5, EventIndex
        <3> QED BY <3>1
    <2>6. NextSeq(n)' = EventSeq(0 + 1)
        BY <2>3 DEF NextSeq, EventSeq
    <2>7. rev'[n] <= Len(entries') /\ 1..rev'[n] = {}
        <3>1. Len(entries') \in Nat
            BY <2>1 DEF TypeOK
        <3> QED BY <2>3, <3>1
    <2>8. StoredOn(n)'
        BY <2>3, <2>4, <2>5, <2>6, <2>7 DEF StoredOn
    <2> QED BY <1>0, <2>1, <2>2, <2>8 DEF Stored
<1>5. ASSUME UNCHANGED <<entries, storeVars>> PROVE Stored'
    BY <1>0, <1>5 DEF Stored
<1>6. CASE Server
    BY <1>5, <1>6 DEF Server, SendBacklog, GoLive, SendLive, Resubscribe
<1>7. CASE Client
    BY <1>5, <1>7 DEF Client, Connect, Receive, ReceiveCompacted
<1>8. CASE StreamBreak \/ UNCHANGED vars
    BY <1>5, <1>8 DEF StreamBreak, vars
<1> QED BY <1>1, <1>2, <1>3, <1>4, <1>6, <1>7, <1>8 DEF Next

-----------------------------------------------------------------------------
(* The steps, as a stream sees them                                        *)

\* Nothing moves on the stream; the log or the node may go on.
Rests ==
    /\ UNCHANGED <<filter, node, cursor, backlog, ch, registered, wire, client,
                   ccursor, received>>
    /\ \/ pc' = pc
       \/ pc = "backlog" /\ pc' = "live" /\ backlog = <<>>
    /\ Len(entries) <= Len(entries')
    /\ Events \subseteq Events'
    /\ \A e \in Events' \ Events :
          e.seq \in Nat /\ EventSeq(Len(entries) + 1) <= e.seq
    /\ client = "streaming" => NextSeq(node) <= NextSeq(node)'
    /\ restores' = 0 =>
          restores = 0 /\ (registered => NextSeq(node)' = NextSeq(node))

\* The node fans the events q of its next entry out to the subscriber.
Fans ==
    /\ registered
    /\ UNCHANGED <<entries, filter, node, pc, cursor, backlog, wire, client,
                   ccursor, received, restores>>
    /\ registered' => registered
    /\ \E r \in Nat, q \in Seq(Event) :
          /\ r = rev[node] /\ r + 1 <= Len(entries)
          /\ \A i \in 1..(r + 1) : Len(entries[i]) < SubLimit
          /\ NextSeq(node)' = EventSeq(r + 2)
          /\ Pending' = Pending \o q
          /\ Ascending(q) /\ Within(q, EventSeq(r + 2))
          /\ \A i \in 1..Len(q) : EventSeq(r + 1) <= q[i].seq
          /\ \A e \in Range(EventsOf(r + 1)) :
                /\ Matches(e)
                /\ registered' \/ (q # <<>> /\ e.seq <= q[Len(q)].seq)
                => e \in Range(q)

\* The server sends the next event.
Sends ==
    /\ pc \in {"backlog", "live"}
    /\ Pending # <<>>
    /\ wire' = Append(wire, Pending[1])
    /\ cursor' = Pending[1].seq
    /\ Pending' = Tail(Pending)
    /\ pc = "live" => backlog' = <<>>
    /\ UNCHANGED <<entries, rev, filter, node, pc, registered, client, ccursor,
                   received, restores>>

\* The client opens a stream, or the server subscribes again under it.
Subscribes(n, from) ==
    /\ WatchKV(n, from)
    /\ node' = n /\ client' = "streaming"
    /\ \/ from = ccursor /\ wire' = <<>>
       \/ from = cursor /\ wire' = wire /\ node = n /\ client = "streaming"
    /\ UNCHANGED <<entries, rev, hist, baselineSeq, filter, ccursor, received,
                   restores>>

\* The stream ends.
Drops ==
    /\ client' # "streaming" /\ pc' = "off" /\ ~registered'
    /\ backlog' = <<>> /\ ch' = <<>> /\ wire' = <<>>
    /\ UNCHANGED <<entries, filter, ccursor, received, restores>>

Kinds ==
    \/ Rests \/ Fans \/ Sends \/ Receive \/ Drops
    \/ \E n \in Nodes, from \in Nat : Subscribes(n, from)

\* A subscriber is fanned out to in the critical section of the entry.
LEMMA FansStep ==
    ASSUME TypeOK, Stored, NEW n \in Nodes, ApplyEntry(n), registered, node = n,
           Len(EventsOf(rev[n] + 1)) < SubLimit
    PROVE  Fans
<1>1. PICK r \in Nat : r = rev[n]
    BY DEF TypeOK
<1>2. /\ r + 1 \in 1..Len(entries) /\ r + 1 \in Nat /\ (r + 1) + 1 = r + 2
      /\ r + 1 <= Len(entries) /\ StoredOn(n)
    <2>1. Len(entries) \in Nat
        BY DEF TypeOK
    <2>2. r + 1 <= Len(entries)
        BY <1>1 DEF ApplyEntry
    <2> QED BY <1>1, <2>1, <2>2 DEF Stored
<1> DEFINE evs == EventsOf(r + 1)
           w == Wanted(evs)
<1>3. /\ rev' = [rev EXCEPT ![n] = r + 1] /\ Fanout(w)
      /\ UNCHANGED <<entries, filter, node, pc, cursor, backlog, wire, client,
                     ccursor, received, restores>>
    <2>1. Len(EventsOf(r + 1)) \in Nat
        BY <1>2, EventsOfType
    <2>2. ~(Len(EventsOf(r + 1)) >= SubLimit)
        BY <1>1, <2>1, SizesAssumption
    <2>3. rev' = [rev EXCEPT ![n] = r + 1] /\ Fanout(w)
        BY <1>1, <2>2 DEF ApplyEntry
    <2> QED BY <2>3 DEF ApplyEntry
<1>4. /\ evs \in Seq(Event) /\ Ascending(evs) /\ Len(evs) = Len(entries[r + 1])
      /\ \A k \in 1..Len(evs) : evs[k].seq >= EventSeq(r + 1)
    BY <1>2, EventsOfType
<1>5. Len(entries[r + 1]) < SubLimit
    BY <1>1, <1>4
<1>6. \A i \in 1..(r + 1) : Len(entries[i]) < SubLimit
    <2>1. \A i \in 1..(r + 1) : i \in 1..r \/ i = r + 1
        OBVIOUS
    <2> QED BY <1>1, <1>2, <1>5, <2>1 DEF StoredOn
<1>7. Within(evs, EventSeq(r + 2))
    BY <1>2, <1>5, BatchFits
<1>8. NextSeq(node)' = EventSeq(r + 2)
    <2>1. rev'[node'] = r + 1
        BY <1>3 DEF TypeOK
    <2> QED BY <1>2, <2>1 DEF NextSeq, EventSeq
<1> HIDE DEF evs
<1>9. /\ w \in Seq(Event) /\ Ascending(w)
      /\ \A x : x \in Range(w) <=> x \in Range(evs) /\ Matches(x)
    BY <1>4, WantedEvents
<1>10. /\ \A i \in 1..Len(w) : w[i].seq >= EventSeq(r + 1)
       /\ Within(w, EventSeq(r + 2))
    <2>1. ASSUME NEW i \in 1..Len(w)
          PROVE  /\ w[i].seq >= EventSeq(r + 1) /\ w[i].seq > 0
                 /\ w[i].seq < EventSeq(r + 2)
        <3>1. w[i] \in Range(w)
            BY <1>9, InRange
        <3>2. PICK k \in 1..Len(evs) : evs[k] = w[i]
            BY <1>4, <1>9, <3>1, InRange
        <3> QED BY <1>4, <1>7, <3>2 DEF Within
    <2> QED BY <2>1 DEF Within
<1> HIDE DEF w
<1>11. PICK m \in 0..Len(w) :
        /\ ch' = ch \o SubSeq(w, 1, m)
        /\ registered' => SubSeq(w, 1, m) = w
    BY <1>3, <1>9, FanoutEffect
<1>12. PICK q \in Seq(Event) : q = SubSeq(w, 1, m)
    BY <1>9, <1>11, PrefixAscends
<1>13. /\ Ascending(q) /\ Within(q, EventSeq(r + 2)) /\ Len(q) = m
       /\ \A i \in 1..m : q[i] = w[i]
       /\ \A x \in Range(w), i \in 1..m : x.seq <= w[i].seq => x \in Range(q)
    BY <1>9, <1>10, <1>12, PrefixAscends
<1>14. \A i \in 1..Len(q) : EventSeq(r + 1) <= q[i].seq
    <2>1. \A i \in 1..m : i \in 1..Len(w) /\ w[i].seq >= EventSeq(r + 1)
        BY <1>9, <1>10, <1>11
    <2>2. ASSUME NEW i \in 1..m PROVE EventSeq(r + 1) <= q[i].seq
        <3>1. q[i] = w[i] /\ w[i].seq >= EventSeq(r + 1) /\ i \in 1..Len(w)
            BY <1>13, <2>1
        <3>2. w[i].seq \in Nat /\ EventSeq(r + 1) \in Nat
            BY <1>2, <1>9, <3>1, CursorType, Cursors
        <3> QED BY <3>1, <3>2
    <2> QED BY <1>13, <2>2
<1>15. Pending' = Pending \o q
    <2>1. backlog \in Seq(Event) /\ ch \in Seq(Event)
        BY DEF TypeOK
    <2>2. (backlog \o ch) \o q = backlog \o (ch \o q)
        BY <2>1, ConcatAssociative
    <2> QED BY <1>3, <1>11, <1>12, <2>2 DEF Pending
<1>16. ASSUME NEW e \in Range(evs), Matches(e),
              registered' \/ (q # <<>> /\ e.seq <= q[Len(q)].seq)
       PROVE  e \in Range(q)
    <2>1. e \in Range(w)
        BY <1>9, <1>16
    <2>2. CASE registered'
        BY <1>11, <1>12, <2>1, <2>2
    <2>3. CASE q # <<>> /\ e.seq <= q[Len(q)].seq
        <3>1. m \in 1..m
            BY <1>13, <2>3
        <3>2. q[Len(q)] = w[m]
            BY <1>13, <3>1
        <3> QED BY <1>13, <2>1, <2>3, <3>1, <3>2
    <2> QED BY <1>16, <2>2, <2>3
<1>17. registered' => registered
    OBVIOUS
<1>18. r = rev[node]
    BY <1>1
<1> QED
    BY <1>2, <1>3, <1>6, <1>8, <1>13, <1>14, <1>15, <1>16, <1>17, <1>18
       DEF Fans, evs

\* The next event to be sent is the first one of what is pending.
LEMMA NextPending ==
    ASSUME TypeOK
    PROVE  /\ Pending \in Seq(Event)
           /\ backlog # <<>> =>
                 /\ Pending # <<>> /\ Pending[1] = Head(backlog)
                 /\ Tail(Pending) = Tail(backlog) \o ch
           /\ backlog = <<>> => Pending = ch
<1>1. backlog \in Seq(Event) /\ ch \in Seq(Event)
    BY DEF TypeOK
<1>2. ASSUME backlog = <<>> PROVE Pending = ch
    BY <1>1, <1>2, ConcatEmptySeq DEF Pending
<1>3. ASSUME backlog # <<>>
      PROVE  /\ Pending # <<>> /\ Pending[1] = Head(backlog)
             /\ Tail(Pending) = Tail(backlog) \o ch
    <2> DEFINE b == backlog  c == ch  t == Tail(backlog)
    <2>1. /\ Len(b) \in Nat /\ Len(b) >= 1 /\ Len(c) \in Nat
          /\ t \in Seq(Event) /\ Len(t) = Len(b) - 1
          /\ \A i \in 1..Len(t) : t[i] = b[i + 1]
        BY <1>1, <1>3
    <2>2. /\ b \o c \in Seq(Event) /\ Len(b \o c) = Len(b) + Len(c)
          /\ \A i \in 1..(Len(b) + Len(c)) :
                (b \o c)[i] = IF i <= Len(b) THEN b[i] ELSE c[i - Len(b)]
        BY <1>1, ConcatProperties
    <2>3. /\ t \o c \in Seq(Event) /\ Len(t \o c) = Len(t) + Len(c)
          /\ \A i \in 1..(Len(t) + Len(c)) :
                (t \o c)[i] = IF i <= Len(t) THEN t[i] ELSE c[i - Len(t)]
        BY <1>1, <2>1, ConcatProperties
    <2>4. b \o c # <<>> /\ (b \o c)[1] = b[1]
        BY <2>1, <2>2
    <2>5. /\ Tail(b \o c) \in Seq(Event)
          /\ Len(Tail(b \o c)) = Len(b) + Len(c) - 1
          /\ \A i \in 1..Len(Tail(b \o c)) : Tail(b \o c)[i] = (b \o c)[i + 1]
        BY <2>2, <2>4, HeadTailProperties
    <2> HIDE DEF b, c, t
    <2>6. ASSUME NEW i \in 1..(Len(b) + Len(c) - 1)
          PROVE  Tail(b \o c)[i] = (t \o c)[i]
        <3>1. /\ i + 1 \in 1..(Len(b) + Len(c)) /\ i \in 1..(Len(t) + Len(c))
              /\ i \in 1..Len(Tail(b \o c))
              /\ (i + 1) - Len(b) = i - Len(t)
              /\ i + 1 <= Len(b) <=> i <= Len(t)
            BY <2>1, <2>5
        <3>2. i <= Len(t) => i \in 1..Len(t)
            BY <2>1
        <3>3. (b \o c)[i + 1] = IF i + 1 <= Len(b) THEN b[i + 1]
                                ELSE c[(i + 1) - Len(b)]
            BY <2>2, <3>1
        <3>4. (t \o c)[i] = IF i <= Len(t) THEN t[i] ELSE c[i - Len(t)]
            BY <2>3, <3>1
        <3>5. Tail(b \o c)[i] = (b \o c)[i + 1]
            BY <2>5, <3>1
        <3> QED BY <2>1, <3>1, <3>2, <3>3, <3>4, <3>5
    <2>7. Len(Tail(b \o c)) = Len(t \o c)
        BY <2>1, <2>3, <2>5
    <2>8. Tail(b \o c) = t \o c
        BY <2>3, <2>5, <2>6, <2>7, SeqEqual
    <2> QED BY <1>1, <1>3, <2>4, <2>8 DEF Pending, b, c, t
<1> QED BY <1>1, <1>2, <1>3 DEF Pending

\* The cursors of a node move only with what it has applied.
LEMMA SameNext ==
    ASSUME TypeOK
    PROVE  /\ \A n \in Nodes : NextSeq(n) \in Nat
           /\ node' = node /\ rev'[node] = rev[node] =>
                 /\ NextSeq(node)' = NextSeq(node)
                 /\ NextSeq(node) <= NextSeq(node)'
<1>1. ASSUME NEW n \in Nodes PROVE NextSeq(n) \in Nat
    <2>1. PICK x \in Nat : x = rev[n] + 1
        BY DEF TypeOK
    <2> QED BY <2>1, Cursors DEF NextSeq
<1>2. NextSeq(node) \in Nat
    BY <1>1 DEF TypeOK
<1>3. ASSUME node' = node, rev'[node] = rev[node]
      PROVE  NextSeq(node)' = NextSeq(node)
    BY <1>3 DEF NextSeq, EventSeq
<1> QED BY <1>1, <1>2, <1>3

\* Every step is of one of these kinds.
LEMMA KindsCover ==
    ASSUME TypeOK, Stored, Flowing, [Next]_vars
    PROVE  Kinds
<1>0. registered => client = "streaming"
    BY DEF Flowing, Paired
<1>a. ASSUME entries' = entries, UNCHANGED <<node, rev>>
      PROVE  /\ Len(entries) <= Len(entries') /\ Events' = Events
             /\ NextSeq(node)' = NextSeq(node)
             /\ NextSeq(node) <= NextSeq(node)'
    <2>1. Len(entries) \in Nat
        BY DEF TypeOK
    <2> QED BY <1>a, <2>1, SameNext, SameEvents
<1>1. ASSUME NEW b \in Batches, AppendEntry(b) PROVE Kinds
    <2>1. UNCHANGED <<storeVars, serverVars, clientVars, budgetVars>>
        BY <1>1 DEF AppendEntry
    <2>2. Len(entries) \in Nat
        BY DEF TypeOK
    <2>3. NextSeq(node)' = NextSeq(node) /\ NextSeq(node) <= NextSeq(node)'
        BY <2>1, SameNext
    <2>4. Len(entries) <= Len(entries')
        BY <1>1, <2>2, EventsAppended
    <2> QED BY <1>1, <2>1, <2>3, <2>4, EventsAppended DEF Kinds, Rests
<1>2. ASSUME NEW n \in Nodes, ApplyEntry(n) PROVE Kinds
    <2>1. CASE registered /\ node = n /\ Len(EventsOf(rev[n] + 1)) < SubLimit
        BY <1>2, <2>1, FansStep DEF Kinds
    <2>2. CASE ~(registered /\ node = n
                 /\ Len(EventsOf(rev[n] + 1)) < SubLimit)
        <3>1. UNCHANGED <<entries, filter, node, pc, cursor, backlog, wire,
                          client, ccursor, received, restores>>
            BY <1>2 DEF ApplyEntry
        <3>2. /\ Len(EventsOf(rev[n] + 1)) \in Nat /\ rev[n] \in Nat
              /\ Len(entries) \in Nat
            <4>1. rev[n] \in Nat /\ Len(entries) \in Nat
                BY DEF TypeOK
            <4>2. rev[n] + 1 \in 1..Len(entries)
                BY <1>2, <4>1 DEF ApplyEntry
            <4>3. EventsOf(rev[n] + 1) \in Seq(Event)
                BY <4>2, EventsOfType
            <4> QED BY <4>1, <4>3
        <3>3. UNCHANGED <<ch, registered>>
            BY <1>2, <2>2, <3>2, SizesAssumption DEF ApplyEntry
        <3>4. \/ rev' = rev
              \/ /\ rev' = [rev EXCEPT ![n] = rev[n] + 1]
                 /\ ~(Len(EventsOf(rev[n] + 1)) >= SubLimit)
            BY <1>2 DEF ApplyEntry
        <3>5. /\ rev[node] \in Nat /\ rev'[node] \in Nat
              /\ rev[node] <= rev'[node]
              /\ registered => rev'[node] = rev[node]
            <4>0. rev[node] \in Nat /\ node \in Nodes /\ rev \in [Nodes -> Nat]
                BY DEF TypeOK
            <4>1. CASE rev' = rev
                BY <4>0, <4>1
            <4>2. CASE /\ rev' = [rev EXCEPT ![n] = rev[n] + 1]
                       /\ ~(Len(EventsOf(rev[n] + 1)) >= SubLimit)
                <5>1. registered => node # n
                    BY <2>2, <3>2, <4>2, SizesAssumption
                <5>2. rev'[node] = IF node = n THEN rev[n] + 1 ELSE rev[node]
                    BY <4>0, <4>2
                <5> QED BY <3>2, <4>0, <5>1, <5>2
            <4> QED BY <3>4, <4>1, <4>2
        <3>6. PICK x \in Nat, y \in Nat :
                /\ x = rev[node] + 1 /\ y = rev'[node] + 1 /\ x <= y
                /\ registered => x = y
            BY <3>5
        <3>7. NextSeq(node) = EventSeq(x) /\ NextSeq(node)' = EventSeq(y)
            BY <3>1, <3>6 DEF NextSeq, EventSeq
        <3>8. EventSeq(x) <= EventSeq(y)
            BY <3>6, Cursors
        <3>9. Events' = Events /\ Len(entries) <= Len(entries')
            BY <3>1, <3>2, SameEvents
        <3> QED BY <3>1, <3>3, <3>6, <3>7, <3>8, <3>9 DEF Kinds, Rests
    <2> QED BY <2>1, <2>2
<1>3. ASSUME NEW n \in Nodes, NEW s \in 1..MaxIndex, RestoreSnapshot(n, s)
      PROVE  Kinds
    <2>1. UNCHANGED <<entries, serverVars, clientVars>>
        BY <1>3 DEF RestoreSnapshot
    <2>2. rev' = [rev EXCEPT ![n] = s] /\ rev[n] <= s /\ s \in Nat
        BY <1>3 DEF RestoreSnapshot, TypeOK
    <2>3. restores' = restores + 1 /\ restores \in Nat
        BY <1>3 DEF RestoreSnapshot, TypeOK
    <2>4. PICK x \in Nat, y \in Nat :
            x = rev[node] + 1 /\ y = rev'[node] + 1 /\ x <= y
        <3>1. rev[node] \in Nat /\ node \in Nodes /\ rev \in [Nodes -> Nat]
            BY DEF TypeOK
        <3>2. rev'[node] = IF node = n THEN s ELSE rev[node]
            BY <2>2, <3>1
        <3>3. rev'[node] \in Nat /\ rev[node] <= rev'[node]
            BY <2>2, <3>1, <3>2
        <3> QED BY <3>1, <3>3
    <2>5. NextSeq(node) = EventSeq(x) /\ NextSeq(node)' = EventSeq(y)
        BY <2>1, <2>4 DEF NextSeq, EventSeq
    <2>6. EventSeq(x) <= EventSeq(y)
        BY <2>4, Cursors
    <2>7. Events' = Events /\ Len(entries) <= Len(entries')
        BY <2>1, SameEvents DEF TypeOK
    <2>8. restores' # 0
        BY <2>3
    <2> QED BY <2>1, <2>5, <2>6, <2>7, <2>8 DEF Kinds, Rests
<1>4. ASSUME NEW n \in Nodes, NodeRestart(n) PROVE Kinds
    <2>1. CASE client = "streaming" /\ node = n
        BY <1>4, <2>1 DEF NodeRestart, Disconnected, Kinds, Drops
    <2>2. CASE ~(client = "streaming" /\ node = n)
        <3>1. UNCHANGED <<entries, serverVars, clientVars, restores>>
            BY <1>4, <2>2 DEF NodeRestart
        <3>2. client = "streaming" => rev'[node] = rev[node]
            BY <1>4, <2>2 DEF NodeRestart, TypeOK
        <3>3. client = "streaming" =>
                 /\ NextSeq(node)' = NextSeq(node)
                 /\ NextSeq(node) <= NextSeq(node)'
            BY <3>1, <3>2, SameNext
        <3>4. Events' = Events /\ Len(entries) <= Len(entries')
            BY <3>1, SameEvents DEF TypeOK
        <3> QED BY <1>0, <3>1, <3>3, <3>4 DEF Kinds, Rests
    <2> QED BY <2>1, <2>2
<1>5. ASSUME SendBacklog PROVE Kinds
    <2>1. /\ Pending # <<>> /\ Pending[1] = Head(backlog)
          /\ Tail(Pending) = Tail(backlog) \o ch
        BY <1>5, NextPending DEF SendBacklog
    <2>2. Pending' = Tail(Pending)
        BY <1>5, <2>1 DEF SendBacklog, Pending
    <2>3. Sends
        BY <1>5, <2>1, <2>2 DEF SendBacklog, Sends
    <2> QED BY <2>3 DEF Kinds
<1>6. ASSUME SendLive PROVE Kinds
    <2>1. backlog = <<>> /\ Pending = ch
        BY <1>6, NextPending DEF SendLive, Flowing, Paired
    <2>2. ch \in Seq(Event) /\ ch # <<>>
        BY <1>6 DEF SendLive, TypeOK
    <2>3. Tail(ch) \in Seq(Event) /\ Head(ch) = ch[1]
        BY <2>2
    <2>4. Pending' = Tail(Pending)
        <3>1. <<>> \o Tail(ch) = Tail(ch)
            BY <2>3, ConcatEmptySeq
        <3>2. backlog' = <<>> /\ ch' = Tail(ch)
            BY <1>6, <2>1 DEF SendLive
        <3> QED BY <2>1, <3>1, <3>2 DEF Pending
    <2>5. Sends
        BY <1>6, <2>1, <2>2, <2>3, <2>4 DEF SendLive, Sends
    <2> QED BY <2>5 DEF Kinds
<1>7. ASSUME GoLive PROVE Kinds
    BY <1>7, <1>a DEF GoLive, Kinds, Rests
<1>8. ASSUME Resubscribe PROVE Kinds
    <2>1. client = "streaming"
        BY <1>8 DEF Resubscribe, Flowing, Paired
    <2>2. node \in Nodes /\ cursor \in Nat
        BY DEF TypeOK
    <2>3. Subscribes(node, cursor)
        BY <1>8, <2>1 DEF Resubscribe, Subscribes
    <2> QED BY <2>2, <2>3 DEF Kinds
<1>9. ASSUME NEW n \in Nodes, Connect(n) PROVE Kinds
    <2>1. Subscribes(n, ccursor)
        BY <1>9 DEF Connect, Subscribes
    <2>2. ccursor \in Nat
        BY DEF TypeOK
    <2> QED BY <2>1, <2>2 DEF Kinds
<1>10. ASSUME Receive PROVE Kinds
    BY <1>10 DEF Kinds
<1>11. ASSUME ReceiveCompacted PROVE Kinds
    BY <1>11 DEF ReceiveCompacted, Flowing, Paired, Kinds, Drops
<1>12. ASSUME StreamBreak PROVE Kinds
    BY <1>12 DEF StreamBreak, Disconnected, Kinds, Drops
<1>13. ASSUME UNCHANGED vars PROVE Kinds
    <2>1. UNCHANGED <<entries, rev, filter, node, pc, cursor, backlog, ch,
                      registered, wire, client, ccursor, received, restores>>
        BY <1>13 DEF vars
    <2> QED BY <1>a, <2>1 DEF Kinds, Rests
<1> QED
    BY <1>1, <1>2, <1>3, <1>4, <1>5, <1>6, <1>7, <1>8, <1>9, <1>10, <1>11,
       <1>12, <1>13 DEF Next, Server, Client

-----------------------------------------------------------------------------
(* The order on a stream                                                   *)

\* Appending a later event keeps a stream ascending.
LEMMA AppendAscends ==
    ASSUME NEW s \in Seq(Event), Ascending(s), NEW e \in Event,
           s # <<>> => s[Len(s)].seq < e.seq
    PROVE  /\ Append(s, e) \in Seq(Event) /\ Append(s, e) # <<>>
           /\ Ascending(Append(s, e))
           /\ Append(s, e)[Len(Append(s, e))] = e
           /\ Append(s, e)[1] = IF s = <<>> THEN e ELSE s[1]
           /\ \A x : x \in Range(Append(s, e)) <=> x \in Range(s) \/ x = e
           /\ \A bound : Within(s, bound) /\ 0 < e.seq /\ e.seq < bound
                            => Within(Append(s, e), bound)
<1> DEFINE a == Append(s, e)  n == Len(s)
<1>1. /\ n \in Nat /\ a \in Seq(Event) /\ Len(a) = n + 1 /\ a[n + 1] = e
      /\ \A i \in 1..n : a[i] = s[i]
    OBVIOUS
<1>2. /\ \A i \in 1..n : s[i].seq \in Nat
      /\ e.seq \in Nat
    BY CursorType DEF Event
<1>3. ASSUME NEW i \in 1..n PROVE s[i].seq < e.seq
    <2>1. s # <<>> /\ n \in 1..n /\ i <= n
        BY <1>1
    <2>2. s[i].seq <= s[n].seq /\ s[n].seq < e.seq
        BY <2>1, SeqDecides
    <2> QED BY <1>2, <2>1, <2>2
<1>4. \A i \in 1..(n + 1) : i \in 1..n \/ i = n + 1
    BY <1>1
<1>5. s = <<>> <=> n = 0
    OBVIOUS
<1>6. \A x : x \in Range(s) <=> \E i \in 1..n : s[i] = x
    BY InRange
<1>7. \A x : x \in Range(a) <=> \E i \in 1..(n + 1) : a[i] = x
    <2>1. a \in Seq(Event) /\ Len(a) = n + 1
        BY <1>1
    <2> HIDE DEF a, n
    <2> QED BY <2>1, InRange
<1>8. \A i \in 1..n : i \in 1..(n + 1)
    BY <1>1
<1>9. n + 1 \in 1..(n + 1)
    BY <1>1
<1>10. a # <<>>
    BY <1>1
<1> HIDE DEF a, n
<1>11. Ascending(a)
    <2> SUFFICES ASSUME NEW i \in 1..(n + 1), NEW j \in 1..(n + 1), i < j
                 PROVE  a[i].seq < a[j].seq
        BY <1>1 DEF Ascending
    <2>1. i \in 1..n
        BY <1>1
    <2>2. CASE j = n + 1
        BY <1>1, <1>3, <2>1, <2>2
    <2>3. CASE j \in 1..n
        BY <1>1, <2>1, <2>3 DEF Ascending, n
    <2> QED BY <1>4, <2>2, <2>3
<1>12. a[1] = IF s = <<>> THEN e ELSE s[1]
    BY <1>1, <1>5
<1>13. \A x : x \in Range(a) <=> x \in Range(s) \/ x = e
    BY <1>1, <1>4, <1>6, <1>7, <1>8, <1>9
<1>14. ASSUME NEW bound, Within(s, bound), 0 < e.seq, e.seq < bound
       PROVE  Within(a, bound)
    <2>1. ASSUME NEW i \in 1..(n + 1) PROVE a[i].seq > 0 /\ a[i].seq < bound
        <3>1. CASE i \in 1..n
            BY <1>1, <1>14, <3>1 DEF Within, n
        <3>2. CASE i = n + 1
            BY <1>1, <1>2, <1>14, <3>2
        <3> QED BY <1>4, <3>1, <3>2
    <2> QED BY <1>1, <2>1 DEF Within
<1> QED BY <1>1, <1>10, <1>11, <1>12, <1>13, <1>14 DEF a, n

\* What a subscription is given.
LEMMA SubscribesEffect ==
    ASSUME TypeOK, Stored, NEW n \in Nodes, NEW from \in Nat,
           Subscribes(n, from)
    PROVE  /\ Pending' = backlog' /\ cursor' = from /\ ch' = <<>>
           /\ backlog' \in Seq(Event) /\ Ascending(backlog')
           /\ \A i \in 1..Len(backlog') : from < backlog'[i].seq
           /\ Within(backlog', NextSeq(n))
           /\ NextSeq(node)' = NextSeq(n)
           /\ pc' \in {"backlog", "compacted"}
           /\ pc' = "compacted" => backlog' = <<>> /\ ~registered'
           /\ backlog' # <<>> => registered'
           /\ registered' =>
                 /\ backlog' = Backlog(n, from)
                 /\ from = 0 \/ from >= Horizon(n)
<1>1. /\ cursor' = from /\ ch' = <<>> /\ node' = n /\ rev' = rev
      /\ WatchKV(n, from)
    BY DEF Subscribes, WatchKV
<1>2. hist[n] \in Seq(Event) /\ Ascending(hist[n]) /\ Within(hist[n], NextSeq(n))
    BY DEF TypeOK, Stored, StoredOn
<1>3. PICK b \in Seq(Event) : b = Backlog(n, from)
    BY <1>2, BacklogEvents
<1>4. /\ Ascending(b)
      /\ \A x : x \in Range(b) <=> x \in Range(hist[n]) /\ x.seq > from
                                      /\ Matches(x)
    BY <1>2, <1>3, BacklogEvents
<1>5. \A i \in 1..Len(b) : b[i] \in Range(b)
    BY <1>3, InRange
<1>6. \A i \in 1..Len(b) : from < b[i].seq
    <2> TAKE i \in 1..Len(b)
    <2>1. b[i].seq > from /\ b[i].seq \in Nat
        BY <1>4, <1>5, CursorType
    <2> QED BY <2>1
<1>7. Within(b, NextSeq(n))
    <2> SUFFICES ASSUME NEW i \in 1..Len(b)
                 PROVE  b[i].seq > 0 /\ b[i].seq < NextSeq(n)
        BY DEF Within
    <2>1. b[i] \in Range(hist[n])
        BY <1>4, <1>5
    <2>2. PICK k \in 1..Len(hist[n]) : hist[n][k] = b[i]
        BY <1>2, <2>1, InRange
    <2> QED BY <1>2, <2>2 DEF Within
<1>8. /\ <<>> \in Seq(Event) /\ Ascending(<<>>) /\ Within(<<>>, NextSeq(n))
      /\ Len(<<>>) = 0
    BY DEF Ascending, Within
<1>9. \/ pc' = "compacted" /\ backlog' = <<>> /\ registered' = FALSE
      \/ /\ pc' = "backlog" /\ backlog' = b /\ registered' = TRUE
         /\ ~(from > 0 /\ from < Horizon(n))
    BY <1>1, <1>3 DEF WatchKV
<1>10. /\ backlog' \in Seq(Event) /\ Ascending(backlog')
       /\ \A i \in 1..Len(backlog') : from < backlog'[i].seq
       /\ Within(backlog', NextSeq(n))
    <2>1. CASE backlog' = b
        BY <1>4, <1>6, <1>7, <2>1
    <2>2. CASE backlog' = <<>>
        <3>1. \A i \in 1..Len(<<>>) : FALSE
            BY <1>8
        <3> QED BY <1>8, <2>2, <3>1
    <2> QED BY <1>9, <2>1, <2>2
<1>11. Pending' = backlog'
    BY <1>1, <1>10, ConcatEmptySeq DEF Pending
<1>12. NextSeq(node)' = NextSeq(n)
    BY <1>1 DEF NextSeq, EventSeq
<1>13. ~(from > 0 /\ from < Horizon(n)) => from = 0 \/ from >= Horizon(n)
    <2>1. Horizon(n) \in Int
        <3>1. hist[n] # <<>> => hist[n][1].seq \in Nat
            BY <1>2, CursorType
        <3>2. baselineSeq[n] \in Nat
            BY DEF TypeOK
        <3> QED BY <3>1, <3>2 DEF Horizon
    <2> QED BY <2>1
<1>14. registered' =>
          /\ backlog' = Backlog(n, from)
          /\ from = 0 \/ from >= Horizon(n)
    BY <1>3, <1>9, <1>13
<1>15. /\ pc' \in {"backlog", "compacted"}
       /\ pc' = "compacted" => backlog' = <<>> /\ ~registered'
       /\ backlog' # <<>> => registered'
    BY <1>9
<1> QED BY <1>1, <1>10, <1>11, <1>12, <1>14, <1>15

\* The same in the next state.
LEMMA NextAfter ==
    ASSUME TypeOK'
    PROVE  NextSeq(node)' \in Nat
<1>1. rev'[node'] \in Nat
    BY DEF TypeOK
<1>2. PICK x \in Nat : x = rev'[node'] + 1
    BY <1>1
<1>3. NextSeq(node)' = EventSeq(x)
    BY <1>2 DEF NextSeq, EventSeq
<1> QED BY <1>2, <1>3, Cursors

\* What a stream carries keeps its order, and its bounds.
LEMMA FlowingRests ==
    ASSUME TypeOK, TypeOK', Flowing, Rests
    PROVE  Flowing'
<1>1. Pending' = Pending /\ wire' = wire /\ cursor' = cursor
      /\ client' = client /\ received' = received /\ ccursor' = ccursor
    BY DEF Rests, Pending
<1>2. Paired'
    BY DEF Flowing, Paired, Rests
<1>3. Positioned' /\ Ordered'
    BY <1>1 DEF Flowing, Positioned, Ordered, Ascending
<1>4. Within(wire, NextSeq(node)') /\ Within(Pending, NextSeq(node)')
    <2>1. CASE client = "streaming"
        <3>1. wire \in Seq(Event) /\ Pending \in Seq(Event)
            BY NextPending DEF TypeOK
        <3>2. PICK b \in Nat : b = NextSeq(node)
            BY SameNext DEF TypeOK
        <3>3. PICK c \in Nat : c = NextSeq(node)'
            BY NextAfter
        <3>4. b <= c
            BY <2>1, <3>2, <3>3 DEF Rests
        <3> QED BY <3>1, <3>2, <3>3, <3>4, WithinGrows DEF Flowing, Bounded
    <2>2. CASE client # "streaming"
        <3>1. wire = <<>> /\ backlog = <<>> /\ ch = <<>>
            BY <2>2 DEF Flowing, Paired
        <3>2. Pending = <<>>
            BY <3>1 DEF Pending
        <3>3. \A i \in 1..Len(<<>>) : FALSE
            OBVIOUS
        <3> QED BY <3>1, <3>2, <3>3 DEF Within
    <2> QED BY <2>1, <2>2
<1>5. received # <<>> => 0 < ccursor /\ ccursor < EventSeq(Len(entries') + 1)
    <2>1. Len(entries) <= Len(entries') /\ Len(entries) \in Nat
          /\ ccursor \in Nat
        BY DEF Rests, TypeOK
    <2>2. PICK x \in Nat, y \in Nat :
            x = Len(entries) + 1 /\ y = Len(entries') + 1 /\ x <= y
        <3>1. Len(entries') \in Nat
            BY DEF TypeOK
        <3> QED BY <2>1, <3>1
    <2>3. EventSeq(x) <= EventSeq(y) /\ EventSeq(x) \in Nat /\ EventSeq(y) \in Nat
        BY <2>2, Cursors
    <2>4. received # <<>> => 0 < ccursor /\ ccursor < EventSeq(x)
        BY <2>2 DEF Flowing, Bounded
    <2> QED BY <2>1, <2>2, <2>3, <2>4
<1>6. Bounded'
    BY <1>1, <1>4, <1>5 DEF Bounded, Within, EventSeq
<1> QED BY <1>2, <1>3, <1>6 DEF Flowing

\* The events of the next entry come after everything that is under way.
LEMMA FlowingFans ==
    ASSUME TypeOK, Flowing, Fans
    PROVE  Flowing'
<1>1. PICK r \in Nat, q \in Seq(Event) :
        /\ r = rev[node]
        /\ NextSeq(node)' = EventSeq(r + 2)
        /\ Pending' = Pending \o q
        /\ Ascending(q) /\ Within(q, EventSeq(r + 2))
        /\ \A i \in 1..Len(q) : EventSeq(r + 1) <= q[i].seq
    BY DEF Fans
<1>2. UNCHANGED <<entries, node, pc, cursor, backlog, wire, client, ccursor,
                  received>>
    BY DEF Fans
<1>3. Pending \in Seq(Event) /\ wire \in Seq(Event) /\ cursor \in Nat
    BY NextPending DEF TypeOK
<1>4. /\ Ascending(wire) /\ Ascending(Pending)
      /\ wire # <<>> /\ Pending # <<>> => cursor < Pending[1].seq
      /\ Within(wire, EventSeq(r + 1)) /\ Within(Pending, EventSeq(r + 1))
    BY <1>1 DEF Flowing, Ordered, Bounded, NextSeq
<1>5. /\ EventSeq(r + 1) \in Nat /\ EventSeq(r + 2) \in Nat
      /\ EventSeq(r + 1) <= EventSeq(r + 2)
    <2>1. r + 1 \in Nat /\ r + 2 \in Nat /\ r + 1 <= r + 2
        OBVIOUS
    <2> QED BY <2>1, Cursors
<1>6. client = "streaming" /\ pc \notin {"off", "compacted"}
    BY DEF Fans, Flowing, Paired
<1>7. Paired'
    BY <1>2, <1>6 DEF Flowing, Paired
<1>8. Positioned'
    BY <1>2 DEF Flowing, Positioned
<1>9. ASSUME NEW i \in 1..Len(Pending), NEW j \in 1..Len(q)
      PROVE  Pending[i].seq < q[j].seq
    <2>1. Pending[i].seq < EventSeq(r + 1) /\ EventSeq(r + 1) <= q[j].seq
        BY <1>1, <1>4 DEF Within
    <2>2. Pending[i].seq \in Nat /\ q[j].seq \in Nat
        BY <1>3, CursorType
    <2> QED BY <1>5, <2>1, <2>2
<1>10. Ascending(Pending \o q)
    BY <1>1, <1>3, <1>4, <1>9, JoinedAscends
<1>11. Within(Pending \o q, EventSeq(r + 2)) /\ Within(wire, EventSeq(r + 2))
    <2>1. Within(Pending, EventSeq(r + 2)) /\ Within(wire, EventSeq(r + 2))
        BY <1>3, <1>4, <1>5, WithinGrows
    <2> QED BY <1>1, <1>3, <1>5, <2>1, JoinedWithin
<1>12. ASSUME wire # <<>>, Pending \o q # <<>>
       PROVE  cursor < (Pending \o q)[1].seq
    <2>1. CASE Pending # <<>>
        <3>1. (Pending \o q)[1] = Pending[1]
            BY <1>3, <2>1
        <3> QED BY <1>4, <1>12, <2>1, <3>1
    <2>2. CASE Pending = <<>>
        <3>1. Pending \o q = q /\ q # <<>>
            BY <1>12, <2>2, ConcatEmptySeq
        <3>2. 1 \in 1..Len(q) /\ Len(wire) \in 1..Len(wire)
            BY <1>3, <1>12, <3>1
        <3>3. /\ cursor = wire[Len(wire)].seq
              /\ wire[Len(wire)].seq < EventSeq(r + 1)
            BY <1>4, <1>6, <1>12, <3>2 DEF Flowing, Positioned, Within
        <3>4. EventSeq(r + 1) <= q[1].seq /\ q[1].seq \in Nat
            BY <1>1, <3>2, CursorType
        <3>5. cursor < q[1].seq
            <4>1. PICK b \in Nat : b = EventSeq(r + 1)
                BY <1>5
            <4>2. cursor < b /\ b <= q[1].seq
                BY <3>3, <3>4, <4>1
            <4> QED BY <1>3, <3>4, <4>2
        <3> QED BY <3>1, <3>5
    <2> QED BY <2>1, <2>2
<1>13. Ordered'
    BY <1>1, <1>2, <1>4, <1>10, <1>12 DEF Ordered, Ascending
<1>14. Bounded'
    <2>1. received' # <<>> => 0 < ccursor' /\ ccursor' < EventSeq(Len(entries') + 1)
        BY <1>2 DEF Flowing, Bounded
    <2> QED BY <1>1, <1>2, <1>11, <2>1 DEF Bounded, Within, EventSeq
<1> QED BY <1>7, <1>8, <1>13, <1>14 DEF Flowing

\* The first pending event goes to the end of the stream.
LEMMA FlowingSends ==
    ASSUME TypeOK, Flowing, Sends
    PROVE  Flowing'
<1>1. /\ Pending # <<>> /\ wire' = Append(wire, Pending[1])
      /\ cursor' = Pending[1].seq /\ Pending' = Tail(Pending)
      /\ UNCHANGED <<entries, rev, node, pc, registered, client, ccursor,
                     received>>
      /\ pc \in {"backlog", "live"}
    BY DEF Sends
<1>2. Pending \in Seq(Event) /\ wire \in Seq(Event)
    BY NextPending DEF TypeOK
<1>3. /\ Ascending(wire) /\ Ascending(Pending)
      /\ wire # <<>> => cursor < Pending[1].seq
      /\ Within(wire, NextSeq(node)) /\ Within(Pending, NextSeq(node))
    BY <1>1 DEF Flowing, Ordered, Bounded
<1>4. client = "streaming"
    BY <1>1 DEF Flowing, Paired
<1>5. wire # <<>> => wire[Len(wire)].seq < Pending[1].seq
    BY <1>3, <1>4 DEF Flowing, Positioned
<1>6. /\ Pending[1] \in Event /\ 1 \in 1..Len(Pending)
      /\ Pending[1].seq > 0 /\ Pending[1].seq < NextSeq(node)
    <2>1. 1 \in 1..Len(Pending)
        BY <1>1, <1>2
    <2> QED BY <1>2, <1>3, <2>1 DEF Within
<1>7. /\ Append(wire, Pending[1]) # <<>>
      /\ Ascending(Append(wire, Pending[1]))
      /\ Within(Append(wire, Pending[1]), NextSeq(node))
      /\ Append(wire, Pending[1])[Len(Append(wire, Pending[1]))] = Pending[1]
    <2>1. 0 < Pending[1].seq
        BY <1>6 DEF Event
    <2> QED BY <1>2, <1>3, <1>5, <1>6, <2>1, AppendAscends
<1>8. /\ Tail(Pending) \in Seq(Event) /\ Ascending(Tail(Pending))
      /\ Within(Tail(Pending), NextSeq(node))
      /\ \A i \in 1..Len(Tail(Pending)) : Pending[1].seq < Tail(Pending)[i].seq
    BY <1>1, <1>2, <1>3, HeadAndTail
<1>9. Tail(Pending) # <<>> => Pending[1].seq < Tail(Pending)[1].seq
    <2>1. Tail(Pending) # <<>> => 1 \in 1..Len(Tail(Pending))
        BY <1>8
    <2> QED BY <1>8, <2>1
<1>10. Paired'
    BY <1>1, <1>4 DEF Sends, Paired
<1>11. Positioned'
    BY <1>1, <1>7 DEF Positioned
<1>12. Ordered'
    BY <1>1, <1>7, <1>8, <1>9 DEF Ordered, Ascending
<1>13. Bounded'
    <2>1. NextSeq(node)' = NextSeq(node)
        BY <1>1 DEF NextSeq, EventSeq
    <2>2. received' # <<>> => 0 < ccursor' /\ ccursor' < EventSeq(Len(entries') + 1)
        BY <1>1 DEF Flowing, Bounded
    <2> QED BY <1>1, <1>7, <1>8, <2>1, <2>2 DEF Bounded, Within, EventSeq
<1> QED BY <1>10, <1>11, <1>12, <1>13 DEF Flowing

\* The client takes the first event of the stream, and its cursor.
LEMMA FlowingReceive ==
    ASSUME TypeOK, Stored, Flowing, Receive
    PROVE  Flowing'
<1>1. /\ client = "streaming" /\ wire # <<>> /\ wire' = Tail(wire)
      /\ received' = Append(received, Head(wire)) /\ ccursor' = Head(wire).seq
      /\ UNCHANGED <<entries, rev, node, pc, cursor, backlog, ch, registered,
                     client>>
    BY DEF Receive
<1>2. /\ wire \in Seq(Event) /\ Ascending(wire) /\ Within(wire, NextSeq(node))
      /\ cursor = wire[Len(wire)].seq
    BY <1>1 DEF TypeOK, Flowing, Ordered, Bounded, Positioned
<1>3. /\ Head(wire) = wire[1] /\ 1 \in 1..Len(wire)
      /\ Tail(wire) \in Seq(Event) /\ Ascending(Tail(wire))
      /\ Within(Tail(wire), NextSeq(node))
      /\ Tail(wire) # <<>> => Tail(wire)[Len(Tail(wire))] = wire[Len(wire)]
      /\ Len(Tail(wire)) = Len(wire) - 1 /\ Len(wire) \in Nat
    BY <1>1, <1>2, HeadAndTail
<1>4. ASSUME Tail(wire) = <<>> PROVE wire[Len(wire)] = wire[1]
    <2>1. PICK t \in Seq(Event), k \in Nat :
            t = Tail(wire) /\ k = Len(wire) /\ Len(t) = k - 1
        BY <1>3
    <2>2. t = <<>>
        BY <1>4, <2>1
    <2>3. Len(t) = 0
        BY <2>2
    <2>4. k = 1
        BY <2>1, <2>3
    <2> QED BY <2>1, <2>4
<1>5. Paired'
    BY <1>1 DEF Flowing, Paired
<1>6. Positioned'
    BY <1>1, <1>2, <1>3, <1>4 DEF Positioned
<1>7. Ordered'
    <2>1. Pending' = Pending
        BY <1>1 DEF Pending
    <2> QED BY <1>1, <1>3, <2>1 DEF Flowing, Ordered, Ascending
<1>8. 0 < wire[1].seq /\ wire[1].seq < EventSeq(Len(entries) + 1)
    <2>1. PICK x \in Nat, y \in Nat :
            x = rev[node] + 1 /\ y = Len(entries) + 1 /\ x <= y
        <3>1. /\ rev[node] \in Nat /\ Len(entries) \in Nat
              /\ rev[node] <= Len(entries)
            BY DEF TypeOK, Stored, StoredOn
        <3> QED BY <3>1
    <2>2. EventSeq(x) <= EventSeq(y) /\ EventSeq(x) \in Nat /\ EventSeq(y) \in Nat
        BY <2>1, Cursors
    <2>3. wire[1].seq > 0 /\ wire[1].seq < EventSeq(x) /\ wire[1].seq \in Nat
        BY <1>2, <1>3, <2>1, CursorType DEF Within, NextSeq
    <2> QED BY <2>1, <2>2, <2>3
<1>9. Bounded'
    <2>1. NextSeq(node)' = NextSeq(node) /\ Pending' = Pending
          /\ EventSeq(Len(entries) + 1)' = EventSeq(Len(entries) + 1)
        BY <1>1 DEF NextSeq, EventSeq, Pending
    <2>2. 0 < ccursor' /\ ccursor' < EventSeq(Len(entries) + 1)'
        BY <1>1, <1>3, <1>8, <2>1
    <2> QED BY <1>1, <1>3, <2>1, <2>2 DEF Flowing, Bounded, Within
<1> QED BY <1>5, <1>6, <1>7, <1>9 DEF Flowing

\* A subscription starts behind the cursor it was asked for.
LEMMA FlowingSubscribes ==
    ASSUME TypeOK, Stored, Flowing, NEW n \in Nodes, NEW from \in Nat,
           Subscribes(n, from)
    PROVE  Flowing'
<1>1. /\ Pending' = backlog' /\ cursor' = from /\ ch' = <<>>
      /\ backlog' \in Seq(Event) /\ Ascending(backlog')
      /\ \A i \in 1..Len(backlog') : from < backlog'[i].seq
      /\ Within(backlog', NextSeq(n)) /\ NextSeq(node)' = NextSeq(n)
      /\ pc' \in {"backlog", "compacted"}
      /\ pc' = "compacted" => backlog' = <<>> /\ ~registered'
    BY SubscribesEffect
<1>2. /\ node' = n /\ client' = "streaming"
      /\ \/ from = ccursor /\ wire' = <<>>
         \/ from = cursor /\ wire' = wire /\ node = n /\ client = "streaming"
      /\ UNCHANGED <<entries, ccursor, received>>
    BY DEF Subscribes
<1>3. Ascending(<<>>) /\ Within(<<>>, NextSeq(n))
    <2>1. \A i \in 1..Len(<<>>) : FALSE
        OBVIOUS
    <2> QED BY <2>1 DEF Ascending, Within
<1>4. Ascending(wire') /\ Within(wire', NextSeq(n))
    <2>1. CASE wire' = <<>>
        BY <1>3, <2>1
    <2>2. CASE wire' = wire /\ node = n
        BY <2>2 DEF Flowing, Ordered, Bounded
    <2> QED BY <1>2, <2>1, <2>2
<1>5. Paired'
    BY <1>1, <1>2 DEF Paired
<1>6. Positioned'
    BY <1>1, <1>2 DEF Flowing, Positioned
<1>7. backlog' # <<>> => cursor' < backlog'[1].seq
    <2>1. backlog' # <<>> => 1 \in 1..Len(backlog')
        BY <1>1
    <2> QED BY <1>1, <2>1
<1>8. Ordered'
    BY <1>1, <1>4, <1>7 DEF Ordered, Ascending
<1>9. Bounded'
    <2>1. EventSeq(Len(entries) + 1)' = EventSeq(Len(entries) + 1)
        BY <1>2 DEF EventSeq
    <2> QED BY <1>1, <1>2, <1>4, <2>1 DEF Flowing, Bounded, Within
<1> QED BY <1>5, <1>6, <1>8, <1>9 DEF Flowing

\* A stream that ended carries nothing.
LEMMA FlowingDrops ==
    ASSUME TypeOK, Flowing, Drops
    PROVE  Flowing'
<1>1. Pending' = <<>> /\ wire' = <<>>
    BY DEF Drops, Pending
<1>2. \A i \in 1..Len(<<>>) : FALSE
    OBVIOUS
<1>3. Paired' /\ Positioned'
    BY DEF Drops, Paired, Positioned
<1>4. Ordered'
    BY <1>1, <1>2 DEF Ordered, Ascending
<1>5. Bounded'
    <2>1. /\ EventSeq(Len(entries) + 1)' = EventSeq(Len(entries) + 1)
          /\ received' = received /\ ccursor' = ccursor
        BY DEF Drops, EventSeq
    <2> QED BY <1>1, <1>2, <2>1 DEF Flowing, Bounded, Within
<1> QED BY <1>3, <1>4, <1>5 DEF Flowing

\* Every step keeps the order on the stream.
LEMMA FlowingStep ==
    ASSUME TypeOK, TypeOK', Stored, Flowing, Kinds
    PROVE  Flowing'
BY FlowingRests, FlowingFans, FlowingSends, FlowingReceive, FlowingSubscribes,
   FlowingDrops DEF Kinds

-----------------------------------------------------------------------------
(* Nothing is missing on a stream                                          *)

\* A node is never ahead of the log.
LEMMA NextBound ==
    ASSUME TypeOK, Stored
    PROVE  /\ NextSeq(node) \in Nat /\ EventSeq(Len(entries) + 1) \in Nat
           /\ NextSeq(node) <= EventSeq(Len(entries) + 1)
<1>1. PICK x \in Nat, y \in Nat :
        x = rev[node] + 1 /\ y = Len(entries) + 1 /\ x <= y
    <2>1. /\ rev[node] \in Nat /\ Len(entries) \in Nat
          /\ rev[node] <= Len(entries)
        BY DEF TypeOK, Stored, StoredOn
    <2> QED BY <2>1
<1> QED BY <1>1, Cursors DEF NextSeq

\* The last of what is on the stream, and of what is pending.
LEMMA LastOnes ==
    ASSUME TypeOK, Flowing
    PROVE  /\ wire # <<>> =>
                 /\ client = "streaming" /\ Len(wire) \in 1..Len(wire)
                 /\ 1 \in 1..Len(wire) /\ cursor = wire[Len(wire)].seq
                 /\ 0 < cursor /\ cursor < NextSeq(node)
           /\ Pending # <<>> =>
                 /\ Len(Pending) \in 1..Len(Pending) /\ 1 \in 1..Len(Pending)
                 /\ Pending[Len(Pending)].seq \in Nat
                 /\ Pending[1].seq \in Nat
                 /\ Pending[Len(Pending)].seq < NextSeq(node)
<1>1. ASSUME wire # <<>>
      PROVE  /\ client = "streaming" /\ Len(wire) \in 1..Len(wire)
             /\ 1 \in 1..Len(wire) /\ cursor = wire[Len(wire)].seq
             /\ 0 < cursor /\ cursor < NextSeq(node)
    <2>1. wire \in Seq(Event)
        BY DEF TypeOK
    <2>2. Len(wire) \in 1..Len(wire) /\ 1 \in 1..Len(wire)
        BY <1>1, <2>1
    <2>3. client = "streaming" /\ cursor = wire[Len(wire)].seq
        BY <1>1 DEF Flowing, Paired, Positioned
    <2>4. cursor > 0 /\ cursor < NextSeq(node) /\ cursor \in Nat
        BY <2>2, <2>3 DEF Flowing, Bounded, Within, TypeOK
    <2> QED BY <2>2, <2>3, <2>4
<1>2. ASSUME Pending # <<>>
      PROVE  /\ Len(Pending) \in 1..Len(Pending) /\ 1 \in 1..Len(Pending)
             /\ Pending[Len(Pending)].seq \in Nat
             /\ Pending[1].seq \in Nat
             /\ Pending[Len(Pending)].seq < NextSeq(node)
    <2>1. Pending \in Seq(Event)
        BY NextPending
    <2>2. Len(Pending) \in 1..Len(Pending) /\ 1 \in 1..Len(Pending)
        BY <1>2, <2>1
    <2> QED BY <2>1, <2>2, CursorType DEF Flowing, Bounded, Within
<1> QED BY <1>1, <1>2

\* New entries lie beyond every cursor; an old gap cannot appear.
LEMMA CoveredRests ==
    ASSUME TypeOK, Stored, Flowing, Covered, Rests, restores' = 0
    PROVE  Covered'
<1>1. /\ UNCHANGED <<filter, node, cursor, backlog, ch, registered, wire,
                     client, ccursor, received>>
      /\ registered => NextSeq(node)' = NextSeq(node)
      /\ Pending' = Pending
    BY DEF Rests, Pending
<1>2. ASSUME NEW e \in Events', e \notin Events
      PROVE  /\ e.seq \in Nat /\ EventSeq(Len(entries) + 1) <= e.seq
             /\ NextSeq(node) <= e.seq
    <2>1. e.seq \in Nat /\ EventSeq(Len(entries) + 1) <= e.seq
        BY <1>2 DEF Rests
    <2> QED BY <2>1, NextBound
<1>3. NoGap'
    <2> SUFFICES ASSUME received # <<>>, NEW e \in Events', Matches(e),
                        received[1].seq <= e.seq, e.seq <= ccursor
                 PROVE  e \in Range(received)
        BY <1>1 DEF NoGap, Matches
    <2>1. CASE e \in Events
        BY <2>1 DEF Covered, NoGap
    <2>2. CASE e \notin Events
        <3>1. ccursor < EventSeq(Len(entries) + 1) /\ ccursor \in Nat
            BY DEF Flowing, Bounded, TypeOK
        <3> QED BY <1>2, <2>2, <3>1, NextBound
    <2> QED BY <2>1, <2>2
<1>4. WireCovers'
    <2> SUFFICES ASSUME NEW e \in Events', Matches(e), wire # <<>>,
                        e.seq <= cursor,
                        \/ received # <<>> /\ ccursor < e.seq
                        \/ wire[1].seq <= e.seq
                 PROVE  e \in Range(wire)
        BY <1>1 DEF WireCovers, Matches
    <2>1. CASE e \in Events
        BY <2>1 DEF Covered, WireCovers
    <2>2. CASE e \notin Events
        <3>1. cursor < NextSeq(node) /\ cursor \in Nat
            BY LastOnes DEF TypeOK
        <3> QED BY <1>2, <2>2, <3>1, NextBound
    <2> QED BY <2>1, <2>2
<1>5. PendingCovers'
    <2> SUFFICES ASSUME NEW e \in Events', Matches(e),
                        \/ registered /\ e.seq < NextSeq(node)
                        \/ Pending # <<>> /\ e.seq <= Pending[Len(Pending)].seq,
                        \/ (received # <<>> \/ wire # <<>>) /\ cursor < e.seq
                        \/ Pending # <<>> /\ Pending[1].seq <= e.seq
                 PROVE  e \in Range(Pending)
        BY <1>1 DEF PendingCovers, Matches
    <2>1. CASE e \in Events
        BY <2>1 DEF Covered, PendingCovers
    <2>2. CASE e \notin Events
        <3>1. CASE registered /\ e.seq < NextSeq(node)
            BY <1>2, <2>2, <3>1, NextBound
        <3>2. CASE Pending # <<>> /\ e.seq <= Pending[Len(Pending)].seq
            BY <1>2, <2>2, <3>2, NextBound, LastOnes
        <3> QED BY <3>1, <3>2
    <2> QED BY <2>1, <2>2
<1> QED BY <1>3, <1>4, <1>5 DEF Covered

\* A subscriber misses nothing of an entry, or is removed and what it has is
\* complete up to its last event.
LEMMA CoveredFans ==
    ASSUME TypeOK, Stored, Flowing, Covered, Fans
    PROVE  Covered'
<1>1. PICK r \in Nat, q \in Seq(Event) :
        /\ r = rev[node] /\ r + 1 <= Len(entries)
        /\ \A i \in 1..(r + 1) : Len(entries[i]) < SubLimit
        /\ NextSeq(node)' = EventSeq(r + 2)
        /\ Pending' = Pending \o q
        /\ Ascending(q) /\ Within(q, EventSeq(r + 2))
        /\ \A i \in 1..Len(q) : EventSeq(r + 1) <= q[i].seq
        /\ \A e \in Range(EventsOf(r + 1)) :
              /\ Matches(e)
              /\ registered' \/ (q # <<>> /\ e.seq <= q[Len(q)].seq)
              => e \in Range(q)
    BY DEF Fans
<1>2. /\ UNCHANGED <<entries, filter, node, cursor, wire, ccursor, received>>
      /\ registered
    BY DEF Fans
<1>3. Events' = Events
    BY <1>2, SameEvents
<1>4. NoGap' /\ WireCovers'
    BY <1>2, <1>3 DEF Covered, NoGap, WireCovers, Matches
<1>5. /\ Pending \in Seq(Event)
      /\ EventSeq(r + 1) \in Nat /\ EventSeq(r + 2) \in Nat
      /\ EventSeq(r + 1) <= EventSeq(r + 2) /\ NextSeq(node) = EventSeq(r + 1)
    <2>1. r + 1 \in Nat /\ r + 2 \in Nat /\ r + 1 <= r + 2
        OBVIOUS
    <2> QED BY <1>1, <2>1, Cursors, NextPending DEF NextSeq
<1> DEFINE p == Pending \o q
<1>6. /\ p \in Seq(Event) /\ Len(p) = Len(Pending) + Len(q)
      /\ \A x : x \in Range(p) <=> x \in Range(Pending) \/ x \in Range(q)
      /\ Pending # <<>> => p[1] = Pending[1]
      /\ Pending = <<>> => p = q
      /\ q = <<>> => p = Pending
      /\ q # <<>> => p[Len(p)] = q[Len(q)]
    <2>1. q = <<>> => p = Pending
        BY <1>5, ConcatEmptySeq
    <2>2. Pending = <<>> => p = q
        BY <1>5, ConcatEmptySeq
    <2>3. Pending # <<>> => p[1] = Pending[1]
        BY <1>5
    <2>4. ASSUME q # <<>> PROVE p[Len(p)] = q[Len(q)]
        <3>1. /\ Len(p) = Len(Pending) + Len(q) /\ Len(q) >= 1
              /\ Len(q) \in Nat /\ Len(Pending) \in Nat
            BY <1>5, <2>4
        <3>2. /\ Len(p) \in 1..(Len(Pending) + Len(q))
              /\ ~(Len(p) <= Len(Pending)) /\ Len(p) - Len(Pending) = Len(q)
            BY <3>1
        <3>3. p[Len(p)] = q[Len(p) - Len(Pending)]
            BY <1>5, <3>2, ConcatProperties
        <3> QED BY <3>2, <3>3
    <2>5. p \in Seq(Event) /\ Len(p) = Len(Pending) + Len(q)
        BY <1>5, ConcatProperties
    <2>6. \A x : x \in Range(p) <=> x \in Range(Pending) \/ x \in Range(q)
        BY <1>5, JoinedRange
    <2> QED BY <2>1, <2>2, <2>3, <2>4, <2>5, <2>6
<1> HIDE DEF p
<1>7. ASSUME NEW e \in Events, Matches(e),
             \/ registered' /\ e.seq < EventSeq(r + 2)
             \/ p # <<>> /\ e.seq <= p[Len(p)].seq,
             \/ (received # <<>> \/ wire # <<>>) /\ cursor < e.seq
             \/ p # <<>> /\ p[1].seq <= e.seq
      PROVE  e \in Range(p)
    <2>1. e.seq \in Nat
        BY EventOrigin DEF Event
    <2>2. q # <<>> => /\ Len(q) \in 1..Len(q) /\ 1 \in 1..Len(q)
                      /\ q[Len(q)].seq \in Nat /\ q[1].seq \in Nat
                      /\ q[Len(q)].seq < EventSeq(r + 2)
                      /\ EventSeq(r + 1) <= q[1].seq
        <3>1. q # <<>> => Len(q) \in 1..Len(q) /\ 1 \in 1..Len(q)
            OBVIOUS
        <3> QED BY <1>1, <3>1, CursorType DEF Within
    <2>3. p # <<>> /\ e.seq <= p[Len(p)].seq => e.seq < EventSeq(r + 2)
        <3>1. CASE q # <<>>
            BY <1>5, <1>6, <2>1, <2>2, <3>1
        <3>2. CASE q = <<>>
            <4>1. p = Pending
                BY <1>6, <3>2
            <4> QED BY <1>5, <2>1, <4>1, LastOnes
        <3> QED BY <3>1, <3>2
    <2>4. e.seq < EventSeq(r + 2)
        BY <1>7, <2>3
    <2>5. e \in Range(EventsOf(r + 1)) \/ e.seq < EventSeq(r + 1)
        BY <1>1, <2>4, EventsUncovered
    <2>6. CASE e.seq < EventSeq(r + 1)
        <3>1. \/ (received # <<>> \/ wire # <<>>) /\ cursor < e.seq
              \/ Pending # <<>> /\ Pending[1].seq <= e.seq
            <4>1. CASE p # <<>> /\ p[1].seq <= e.seq
                <5>1. CASE Pending = <<>>
                    BY <1>5, <1>6, <2>1, <2>2, <2>6, <4>1, <5>1
                <5>2. CASE Pending # <<>>
                    BY <1>6, <4>1, <5>2
                <5> QED BY <5>1, <5>2
            <4> QED BY <1>7, <4>1
        <3>2. e \in Range(Pending)
            BY <1>2, <1>5, <1>7, <2>6, <3>1 DEF Covered, PendingCovers
        <3> QED BY <1>6, <3>2
    <2>7. CASE e \in Range(EventsOf(r + 1)) /\ ~(e.seq < EventSeq(r + 1))
        <3>1. registered' \/ (q # <<>> /\ e.seq <= q[Len(q)].seq)
            <4>1. CASE p # <<>> /\ e.seq <= p[Len(p)].seq
                <5>1. CASE q = <<>>
                    <6>1. p = Pending
                        BY <1>6, <5>1
                    <6> QED BY <1>5, <2>1, <2>7, <4>1, <6>1, LastOnes
                <5>2. CASE q # <<>>
                    BY <1>6, <4>1, <5>2
                <5> QED BY <5>1, <5>2
            <4> QED BY <1>7, <4>1
        <3> QED BY <1>1, <1>6, <1>7, <2>7, <3>1
    <2> QED BY <2>5, <2>6, <2>7
<1>8. PendingCovers'
    <2>1. Pending' = p
        BY <1>1 DEF p
    <2> QED BY <1>1, <1>2, <1>3, <1>7, <2>1 DEF PendingCovers, Matches
<1> QED BY <1>4, <1>8 DEF Covered

\* An event at most the next one sent is on the stream or is that one.
LEMMA CoveredSends ==
    ASSUME TypeOK, Flowing, Covered, Sends
    PROVE  Covered'
<1>1. /\ Pending # <<>> /\ wire' = Append(wire, Pending[1])
      /\ cursor' = Pending[1].seq /\ Pending' = Tail(Pending)
      /\ UNCHANGED <<entries, rev, filter, node, registered, client, ccursor,
                     received>>
      /\ pc \in {"backlog", "live"}
    BY DEF Sends
<1>2. Events' = Events /\ NextSeq(node)' = NextSeq(node)
    BY <1>1, SameEvents DEF NextSeq, EventSeq
<1>3. NoGap'
    BY <1>1, <1>2 DEF Covered, NoGap, Matches
<1>4. /\ Pending \in Seq(Event) /\ Ascending(Pending)
      /\ wire \in Seq(Event) /\ Ascending(wire)
      /\ wire # <<>> => cursor < Pending[1].seq
    BY <1>1, NextPending DEF TypeOK, Flowing, Ordered
<1>5. PICK p \in Event : p = Pending[1]
    BY <1>1, <1>4, HeadAndTail
<1>6. PICK t \in Seq(Event) :
        /\ t = Tail(Pending)
        /\ \A i \in 1..Len(t) : p.seq < t[i].seq
        /\ \A x : x \in Range(Pending) <=> x = p \/ x \in Range(t)
        /\ t # <<>> => t[Len(t)] = Pending[Len(Pending)]
    BY <1>1, <1>4, <1>5, HeadAndTail
<1>7. p.seq \in Nat /\ p.seq <= Pending[Len(Pending)].seq
    <2>1. 1 \in 1..Len(Pending) /\ Len(Pending) \in 1..Len(Pending)
          /\ 1 <= Len(Pending)
        BY <1>1, <1>4
    <2> QED BY <1>4, <1>5, <2>1, SeqDecides
<1>8. ASSUME NEW e \in Events, Matches(e), e.seq <= p.seq,
             \/ (received # <<>> \/ wire # <<>>) /\ cursor < e.seq
             \/ p.seq <= e.seq
      PROVE  e = p
    <2>1. e.seq \in Nat /\ e.seq <= Pending[Len(Pending)].seq
        <3>1. e.seq \in Nat
            BY EventOrigin DEF Event
        <3> QED BY <1>1, <1>7, <1>8, <3>1, LastOnes
    <2>2. e \in Range(Pending)
        BY <1>1, <1>5, <1>8, <2>1 DEF Covered, PendingCovers
    <2>3. CASE e \in Range(t)
        <3>1. PICK i \in 1..Len(t) : t[i] = e
            BY <2>3, InRange
        <3>2. p.seq < e.seq
            BY <1>6, <3>1
        <3> QED BY <1>7, <1>8, <2>1, <3>2
    <2> QED BY <1>6, <2>2, <2>3
<1>9. PICK w : w = Append(wire, p)
    OBVIOUS
<1>10. /\ w[1] = IF wire = <<>> THEN p ELSE wire[1]
       /\ \A x : x \in Range(w) <=> x \in Range(wire) \/ x = p
    <2>1. wire # <<>> => wire[Len(wire)].seq < p.seq
        BY <1>4, <1>5, LastOnes
    <2> QED BY <1>4, <1>9, <2>1, AppendAscends
<1>11. ASSUME NEW e \in Events, Matches(e), e.seq <= p.seq,
              \/ received # <<>> /\ ccursor < e.seq
              \/ w[1].seq <= e.seq
       PROVE  e \in Range(w)
    <2>1. e.seq \in Nat /\ cursor \in Nat
        BY EventOrigin DEF Event, TypeOK
    <2>2. CASE wire = <<>>
        <3>1. cursor = ccursor
            BY <1>1, <2>2 DEF Flowing, Paired, Positioned
        <3>2. e = p
            BY <1>8, <1>10, <1>11, <2>2, <3>1
        <3> QED BY <1>10, <3>2
    <2>3. CASE wire # <<>> /\ e.seq <= cursor
        <3>1. e \in Range(wire)
            BY <1>10, <1>11, <2>3 DEF Covered, WireCovers
        <3> QED BY <1>10, <3>1
    <2>4. CASE wire # <<>> /\ cursor < e.seq
        BY <1>8, <1>10, <1>11, <2>4
    <2> QED BY <2>1, <2>2, <2>3, <2>4
<1>12. WireCovers'
    <2>1. wire' = w /\ cursor' = p.seq
        BY <1>1, <1>5, <1>9
    <2> QED BY <1>1, <1>2, <1>11, <2>1 DEF WireCovers, Matches
<1>13. ASSUME NEW e \in Events, Matches(e),
              \/ registered /\ e.seq < NextSeq(node)
              \/ t # <<>> /\ e.seq <= t[Len(t)].seq,
              \/ p.seq < e.seq
              \/ t # <<>> /\ t[1].seq <= e.seq
       PROVE  e \in Range(t)
    <2>1. e.seq \in Nat
        BY EventOrigin DEF Event
    <2>2. p.seq < e.seq
        <3>1. CASE t # <<>> /\ t[1].seq <= e.seq
            <4>1. 1 \in 1..Len(t)
                BY <3>1
            <4>2. p.seq < t[1].seq /\ t[1].seq \in Nat
                BY <1>6, <4>1, CursorType
            <4> QED BY <1>7, <2>1, <3>1, <4>2
        <3> QED BY <1>13, <3>1
    <2>3. p.seq <= e.seq /\ e # p
        BY <1>7, <2>1, <2>2
    <2>4. e \in Range(Pending)
        BY <1>1, <1>5, <1>6, <1>13, <2>3 DEF Covered, PendingCovers
    <2> QED BY <1>6, <2>3, <2>4
<1>14. PendingCovers'
    <2>1. Pending' = t /\ cursor' = p.seq
        BY <1>1, <1>5, <1>6
    <2> QED BY <1>1, <1>2, <1>13, <2>1 DEF PendingCovers, Matches
<1> QED BY <1>3, <1>12, <1>14 DEF Covered

\* An event at most the next one received was received or is that one.
LEMMA CoveredReceive ==
    ASSUME TypeOK, Flowing, Covered, Receive
    PROVE  Covered'
<1>1. /\ wire # <<>> /\ wire' = Tail(wire)
      /\ received' = Append(received, Head(wire)) /\ ccursor' = Head(wire).seq
      /\ UNCHANGED <<entries, rev, filter, node, cursor, backlog, ch,
                     registered>>
    BY DEF Receive
<1>2. /\ Events' = Events /\ NextSeq(node)' = NextSeq(node)
      /\ Pending' = Pending
    BY <1>1, SameEvents DEF NextSeq, EventSeq, Pending
<1>3. wire \in Seq(Event) /\ Ascending(wire) /\ received \in Seq(Event)
    BY DEF TypeOK, Flowing, Ordered
<1>4. PICK h \in Event : h = wire[1] /\ Head(wire) = h
    BY <1>1, <1>3, HeadAndTail
<1>5. PICK t \in Seq(Event) :
        /\ t = Tail(wire)
        /\ \A i \in 1..Len(t) : h.seq < t[i].seq
        /\ \A x : x \in Range(wire) <=> x = h \/ x \in Range(t)
    BY <1>1, <1>3, <1>4, HeadAndTail
<1>6. h.seq \in Nat /\ h.seq <= cursor /\ cursor \in Nat
    <2>1. 1 <= Len(wire)
        BY <1>1, <1>3
    <2>2. h.seq <= wire[Len(wire)].seq
        BY <1>1, <1>3, <1>4, <2>1, LastOnes, SeqDecides
    <2> QED BY <1>1, <2>2, LastOnes DEF Event, TypeOK
<1>7. ASSUME NEW e \in Range(wire), e.seq \in Nat
      PROVE  e = h \/ (e \in Range(t) /\ h.seq < e.seq)
    <2>1. ASSUME e \in Range(t) PROVE h.seq < e.seq
        <3>1. PICK i \in 1..Len(t) : t[i] = e
            BY <2>1, InRange
        <3> QED BY <1>5, <3>1
    <2> QED BY <1>5, <2>1
<1>8. PICK s : s = Append(received, h)
    OBVIOUS
<1>9. /\ s # <<>> /\ s[1] = IF received = <<>> THEN h ELSE received[1]
      /\ \A x : x \in Range(s) <=> x \in Range(received) \/ x = h
    <2>1. /\ s \in Seq(Event) /\ Len(s) = Len(received) + 1
          /\ s[Len(received) + 1] = h /\ Len(received) \in Nat
          /\ \A i \in 1..Len(received) : s[i] = received[i]
        BY <1>3, <1>8
    <2>2. s # <<>>
        BY <2>1
    <2>3. s[1] = IF received = <<>> THEN h ELSE received[1]
        <3>1. received = <<>> => Len(received) = 0
            BY <1>3
        <3>2. received # <<>> => 1 \in 1..Len(received)
            BY <1>3
        <3> QED BY <2>1, <3>1, <3>2
    <2>4. ASSUME NEW x PROVE x \in Range(s) <=> x \in Range(received) \/ x = h
        <3>1. x \in Range(s) <=> \E i \in 1..(Len(received) + 1) : s[i] = x
            BY <2>1, InRange
        <3>2. x \in Range(received) <=> \E i \in 1..Len(received) : received[i] = x
            BY <1>3, InRange
        <3>3. \A i \in 1..(Len(received) + 1) :
                 i \in 1..Len(received) \/ i = Len(received) + 1
            BY <2>1
        <3>4. \A i \in 1..Len(received) : i \in 1..(Len(received) + 1)
            BY <2>1
        <3>5. Len(received) + 1 \in 1..(Len(received) + 1)
            BY <2>1
        <3> QED BY <2>1, <3>1, <3>2, <3>3, <3>4, <3>5
    <2> QED BY <2>2, <2>3, <2>4
<1>10. ASSUME NEW e \in Events, Matches(e), s[1].seq <= e.seq, e.seq <= h.seq
       PROVE  e \in Range(s)
    <2>1. e.seq \in Nat /\ e.seq <= cursor /\ ccursor \in Nat
        <3>1. e.seq \in Nat /\ ccursor \in Nat
            BY EventOrigin DEF Event, TypeOK
        <3> QED BY <1>6, <1>10, <3>1
    <2>2. CASE received # <<>> /\ e.seq <= ccursor
        BY <1>9, <1>10, <2>2 DEF Covered, NoGap
    <2>3. CASE received = <<>> \/ ccursor < e.seq
        <3>1. (received # <<>> /\ ccursor < e.seq) \/ wire[1].seq <= e.seq
            BY <1>4, <1>9, <1>10, <2>3
        <3>2. e \in Range(wire)
            BY <1>1, <1>10, <2>1, <3>1 DEF Covered, WireCovers
        <3>3. e = h
            BY <1>6, <1>7, <1>10, <2>1, <3>2
        <3> QED BY <1>9, <3>3
    <2> QED BY <2>1, <2>2, <2>3
<1>11. NoGap'
    <2>1. received' = s /\ ccursor' = h.seq
        BY <1>1, <1>4, <1>8
    <2> QED BY <1>1, <1>2, <1>10, <2>1 DEF NoGap, Matches
<1>12. ASSUME NEW e \in Events, Matches(e), t # <<>>, e.seq <= cursor,
              h.seq < e.seq \/ t[1].seq <= e.seq
       PROVE  e \in Range(t)
    <2>1. e.seq \in Nat
        BY EventOrigin DEF Event
    <2>2. h.seq < e.seq
        <3>1. 1 \in 1..Len(t)
            BY <1>12
        <3>2. h.seq < t[1].seq /\ t[1].seq \in Nat
            BY <1>5, <3>1, CursorType
        <3> QED BY <1>6, <1>12, <2>1, <3>2
    <2>3. wire[1].seq <= e.seq /\ e # h
        BY <1>4, <1>6, <2>1, <2>2
    <2>4. e \in Range(wire)
        BY <1>1, <1>12, <2>3 DEF Covered, WireCovers
    <2> QED BY <1>5, <2>3, <2>4
<1>13. WireCovers'
    <2>1. wire' = t /\ ccursor' = h.seq /\ cursor' = cursor
        BY <1>1, <1>4, <1>5
    <2> QED BY <1>1, <1>2, <1>12, <2>1 DEF WireCovers, Matches
<1>14. PendingCovers'
    <2> SUFFICES ASSUME NEW e \in Events, Matches(e),
                        \/ registered /\ e.seq < NextSeq(node)
                        \/ Pending # <<>> /\ e.seq <= Pending[Len(Pending)].seq,
                        \/ cursor < e.seq
                        \/ Pending # <<>> /\ Pending[1].seq <= e.seq
                 PROVE  e \in Range(Pending)
        BY <1>1, <1>2 DEF PendingCovers, Matches
    <2> QED BY <1>1 DEF Covered, PendingCovers
<1> QED BY <1>11, <1>13, <1>14 DEF Covered

\* An accepted cursor is not below the horizon, so the ring has what follows.
LEMMA CoveredSubscribes ==
    ASSUME TypeOK, Stored, Flowing, Covered, NEW n \in Nodes, NEW from \in Nat,
           Subscribes(n, from)
    PROVE  Covered'
<1>1. /\ Pending' = backlog' /\ cursor' = from
      /\ backlog' \in Seq(Event)
      /\ \A i \in 1..Len(backlog') : from < backlog'[i].seq
      /\ Within(backlog', NextSeq(n)) /\ NextSeq(node)' = NextSeq(n)
      /\ backlog' # <<>> => registered'
      /\ registered' =>
            /\ backlog' = Backlog(n, from)
            /\ from = 0 \/ from >= Horizon(n)
    BY SubscribesEffect
<1>2. /\ \/ from = ccursor /\ wire' = <<>>
         \/ from = cursor /\ wire' = wire /\ client = "streaming"
      /\ UNCHANGED <<entries, filter, ccursor, received>>
    BY DEF Subscribes
<1>3. Events' = Events
    BY <1>2, SameEvents
<1>4. NoGap'
    BY <1>2, <1>3 DEF Covered, NoGap, Matches
<1>5. WireCovers'
    <2>1. CASE wire' = <<>>
        BY <2>1 DEF WireCovers
    <2>2. CASE wire' = wire /\ cursor' = cursor
        BY <1>2, <1>3, <2>2 DEF Covered, WireCovers, Matches
    <2> QED BY <1>1, <1>2, <2>1, <2>2
<1>6. PICK b \in Seq(Event) : b = backlog'
    BY <1>1
<1>7. /\ hist[n] \in Seq(Event) /\ Ascending(hist[n])
      /\ NextSeq(n) \in Nat
    BY SameNext DEF TypeOK, Stored, StoredOn
<1>8. received # <<>> \/ wire' # <<>> => from > 0
    <2>1. received # <<>> => ccursor > 0
        BY DEF Flowing, Bounded, TypeOK
    <2>2. wire # <<>> => cursor > 0
        BY LastOnes DEF TypeOK
    <2>3. client = "streaming" /\ wire = <<>> => cursor = ccursor
        BY DEF Flowing, Positioned
    <2> QED BY <1>2, <2>1, <2>2, <2>3
<1>9. ASSUME NEW e \in Events, Matches(e),
             \/ registered' /\ e.seq < NextSeq(n)
             \/ b # <<>> /\ e.seq <= b[Len(b)].seq,
             \/ (received # <<>> \/ wire' # <<>>) /\ from < e.seq
             \/ b # <<>> /\ b[1].seq <= e.seq
      PROVE  e \in Range(b)
    <2>1. e.seq \in Nat
        BY EventOrigin DEF Event
    <2>2. b # <<>> => /\ 1 \in 1..Len(b) /\ Len(b) \in 1..Len(b)
                      /\ b[1].seq \in Nat /\ b[Len(b)].seq \in Nat
                      /\ b[Len(b)].seq < NextSeq(n) /\ from < b[1].seq
        <3>1. b # <<>> => 1 \in 1..Len(b) /\ Len(b) \in 1..Len(b)
            OBVIOUS
        <3> QED BY <1>1, <1>6, <3>1, CursorType DEF Within
    <2>3. registered' /\ e.seq < NextSeq(n)
        <3>1. CASE b # <<>> /\ e.seq <= b[Len(b)].seq
            BY <1>1, <1>6, <1>7, <2>1, <2>2, <3>1
        <3> QED BY <1>9, <3>1
    <2>4. /\ \A x : x \in Range(b) <=>
                       x \in Range(hist[n]) /\ x.seq > from /\ Matches(x)
          /\ from = 0 \/ from >= Horizon(n)
        BY <1>1, <1>6, <1>7, <2>3, BacklogEvents
    <2>5. e.seq > from
        BY <1>9, <2>1, <2>2
    <2>6. Horizon(n) \in Int
        <3>1. hist[n] # <<>> => hist[n][1].seq \in Nat
            BY <1>7, CursorType
        <3>2. baselineSeq[n] \in Nat
            BY DEF TypeOK
        <3> QED BY <3>1, <3>2 DEF Horizon
    <2>7. Horizon(n) < e.seq
        <3>1. CASE received # <<>> \/ wire' # <<>>
            BY <1>8, <2>1, <2>4, <2>5, <2>6, <3>1
        <3>2. CASE b # <<>> /\ b[1].seq <= e.seq
            <4>1. b[1] \in Range(hist[n])
                BY <2>2, <2>4, <3>2, InRange
            <4>2. PICK k \in 1..Len(hist[n]) : hist[n][k] = b[1]
                BY <1>7, <4>1, InRange
            <4>3. hist[n] # <<>> /\ 1 \in 1..Len(hist[n]) /\ 1 <= k
                BY <1>7, <4>2
            <4>4. hist[n][1].seq <= hist[n][k].seq /\ hist[n][1].seq \in Nat
                BY <1>7, <4>3, SeqDecides
            <4>5. Horizon(n) = hist[n][1].seq - 1
                BY <4>3 DEF Horizon
            <4>6. b[1].seq <= e.seq /\ hist[n][k].seq = b[1].seq
                BY <3>2, <4>2
            <4>7. PICK x \in Nat, y \in Nat, z \in Nat :
                    x = hist[n][1].seq /\ y = b[1].seq /\ z = e.seq
                BY <2>1, <2>2, <3>2, <4>4
            <4>8. x <= y /\ y <= z /\ Horizon(n) = x - 1
                BY <4>4, <4>5, <4>6, <4>7
            <4>9. x - 1 < z
                BY <4>8
            <4> QED BY <4>7, <4>8, <4>9
        <3> QED BY <1>9, <3>1, <3>2
    <2>8. e \in Range(hist[n])
        BY <2>3, <2>7 DEF Stored, StoredOn
    <2> QED BY <1>9, <2>4, <2>5, <2>8
<1>10. PendingCovers'
    <2>1. Pending' = b /\ NextSeq(node)' = NextSeq(n) /\ cursor' = from
        BY <1>1, <1>6
    <2> QED BY <1>2, <1>3, <1>9, <2>1 DEF PendingCovers, Matches
<1> QED BY <1>4, <1>5, <1>10 DEF Covered

\* A stream that ended promises nothing.
LEMMA CoveredDrops ==
    ASSUME Covered, Drops
    PROVE  Covered'
<1>1. /\ UNCHANGED <<entries, filter, ccursor, received>>
      /\ wire' = <<>> /\ Pending' = <<>> /\ ~registered'
    BY DEF Drops, Pending
<1>2. Events' = Events
    BY <1>1, SameEvents
<1>3. NoGap'
    BY <1>1, <1>2 DEF Covered, NoGap, Matches
<1> QED BY <1>1, <1>3 DEF Covered, WireCovers, PendingCovers

\* Every step but a restored snapshot keeps the events covered.
LEMMA CoveredStep ==
    ASSUME TypeOK, Stored, Flowing, restores = 0 => Covered, Kinds
    PROVE  restores' = 0 => Covered'
<1> SUFFICES ASSUME restores' = 0 PROVE Covered'
    OBVIOUS
<1>1. restores = 0
    BY DEF Kinds, Rests, Fans, Sends, Receive, Drops, Subscribes
<1> QED BY <1>1, CoveredRests, CoveredFans, CoveredSends, CoveredReceive,
           CoveredSubscribes, CoveredDrops DEF Kinds

-----------------------------------------------------------------------------
(* Theorems                                                                *)

\* Nothing is stored and nothing is under way at first.
LEMMA InitHolds == Init => IInv
<1> SUFFICES ASSUME Init PROVE IInv
    OBVIOUS
<1>1. TypeOK
    <2>1. EventSeq(1) \in Nat
        BY Cursors
    <2>2. entries \in Seq(Batches) /\ hist \in [Nodes -> Seq(Event)]
          /\ rev \in [Nodes -> Nat] /\ baselineSeq \in [Nodes -> Nat]
        BY DEF Init
    <2>3. /\ backlog \in Seq(Event) /\ ch \in Seq(Event)
          /\ wire \in Seq(Event) /\ received \in Seq(Event)
        BY DEF Init
    <2>4. Len(ch) <= WatcherBuffer
        BY SizesAssumption DEF Init
    <2>5. panicked \in BOOLEAN /\ registered \in BOOLEAN
        BY DEF Init
    <2>6. /\ cursor \in Nat /\ ccursor \in Nat /\ breaks \in Nat
          /\ restores \in Nat /\ node \in Nodes
        BY <2>1 DEF Init
    <2>7. /\ pc = "off" /\ client = "connecting"
          /\ filter \in Keys \cup {AllKeys}
        BY DEF Init
    <2> QED BY <2>2, <2>3, <2>4, <2>5, <2>6, <2>7 DEF TypeOK
<1>2. \A i \in 1..Len(<<>>) : FALSE
    OBVIOUS
<1>3. Pending = <<>>
    BY DEF Init, Pending
<1>4. Events = {}
    BY DEF Init, Events
<1>5. Stored
    <2> SUFFICES ASSUME NEW n \in Nodes PROVE StoredOn(n)
        BY DEF Stored
    <2>1. rev[n] = 0 /\ hist[n] = <<>> /\ entries = <<>>
        BY DEF Init
    <2>2. Ascending(hist[n]) /\ Within(hist[n], NextSeq(n))
        BY <1>2, <2>1 DEF Ascending, Within
    <2>3. rev[n] <= Len(entries) /\ \A i \in 1..rev[n] : FALSE
        BY <2>1
    <2> QED BY <1>4, <2>2, <2>3 DEF StoredOn
<1>6. Paired /\ Positioned
    BY DEF Init, Paired, Positioned
<1>7. Ordered /\ Bounded
    <2>1. wire = <<>> /\ received = <<>>
        BY DEF Init
    <2> QED BY <1>2, <1>3, <2>1 DEF Ordered, Bounded, Ascending, Within
<1>8. Covered
    BY <1>4 DEF Init, Covered, NoGap, WireCovers, PendingCovers
<1> QED BY <1>1, <1>5, <1>6, <1>7, <1>8 DEF IInv, Flowing

\* The invariant is inductive.
LEMMA Step == IInv /\ [Next]_vars => IInv'
<1> SUFFICES ASSUME IInv, [Next]_vars PROVE IInv'
    OBVIOUS
<1>1. TypeOK /\ Stored /\ Flowing /\ (restores = 0 => Covered)
    BY DEF IInv
<1>2. Kinds
    BY <1>1, KindsCover
<1>3. TypeOK' /\ Stored'
    BY <1>1, TypeStep, StoredStep
<1>4. Flowing'
    BY <1>1, <1>2, <1>3, FlowingStep
<1>5. restores' = 0 => Covered'
    BY <1>1, <1>2, CoveredStep
<1> QED BY <1>3, <1>4, <1>5 DEF IInv

\* The three invariants hold in every reachable state.
THEOREM Invariance == Spec => []IInv
BY InitHolds, Step, PTL DEF Spec

\* The variables of store, server and client keep the types the code gives
\* them, and a live channel never holds more than its capacity
\* (fanoutKVLocked).
THEOREM TypeCorrect == Spec => []TypeOK
<1>1. IInv => TypeOK
    BY DEF IInv
<1> QED BY <1>1, Invariance, PTL

\* No matching event between the first one a watch received and the client's
\* cursor is missing, through ring, channel, removal of the subscriber, resumed
\* streams and restarted followers, as long as no follower has restored a
\* snapshot (watchLoop of server and client over WatchKV and fanoutKVLocked).
THEOREM NothingMissed == Spec => []GapFree
<1>1. IInv => GapFree
    BY DEF IInv, Covered, GapFree
<1> QED BY <1>1, Invariance, PTL

\* What one stream has in flight, in its backlog and in its channel is in
\* strictly increasing order of cursors: watchLoop sends no event twice and
\* none out of order, however often it subscribes again.
THEOREM InOrder == Spec => []StreamOrdered
<1>1. ASSUME IInv PROVE StreamOrdered
    <2>1. /\ wire \in Seq(Event) /\ backlog \in Seq(Event) /\ ch \in Seq(Event)
          /\ Pending \in Seq(Event)
        BY <1>1, NextPending DEF IInv, TypeOK
    <2>2. (wire \o backlog) \o ch = wire \o Pending
        BY <2>1, ConcatAssociative DEF Pending
    <2>3. /\ Ascending(wire) /\ Ascending(Pending)
          /\ wire # <<>> /\ Pending # <<>> => cursor < Pending[1].seq
        BY <1>1 DEF IInv, Flowing, Ordered
    <2>4. ASSUME NEW i \in 1..Len(wire), NEW j \in 1..Len(Pending)
          PROVE  wire[i].seq < Pending[j].seq
        <3>1. /\ wire # <<>> /\ Pending # <<>>
              /\ Len(wire) \in 1..Len(wire) /\ i <= Len(wire)
              /\ 1 \in 1..Len(Pending) /\ 1 <= j
            BY <2>1
        <3>2. wire[i].seq <= wire[Len(wire)].seq
            BY <2>1, <2>3, <3>1, SeqDecides
        <3>3. Pending[1].seq <= Pending[j].seq
            BY <2>1, <2>3, <3>1, SeqDecides
        <3>4. cursor = wire[Len(wire)].seq /\ cursor < Pending[1].seq
            BY <1>1, <2>3, <3>1, LastOnes DEF IInv
        <3>5. /\ wire[i].seq \in Nat /\ wire[Len(wire)].seq \in Nat
              /\ Pending[1].seq \in Nat /\ Pending[j].seq \in Nat
            BY <2>1, <3>1, CursorType
        <3> QED BY <3>2, <3>3, <3>4, <3>5
    <2>5. Ascending(wire \o Pending) /\ wire \o Pending \in Seq(Event)
        BY <2>1, <2>3, <2>4, JoinedAscends
    <2> QED BY <2>2, <2>5 DEF StreamOrdered, Ascending
<1> QED BY <1>1, Invariance, PTL

\* A subscription WatchKV accepts is given every matching event its node has
\* applied after the cursor; a cursor for which the ring no longer reaches back
\* far enough, or a snapshot has emptied it, is refused.
THEOREM ReplaysAll == Spec => ReplayComplete
<1> DEFINE Accepted ==
        (registered' /\ ~registered /\ cursor' > 0) =>
            \A e \in Events :
                (Matches(e) /\ cursor' < e.seq
                    /\ e.seq < EventSeq(rev[node'] + 1))
                    => e \in Range(backlog')
<1>1. ASSUME IInv, [Next]_vars PROVE Accepted
    <2> SUFFICES ASSUME registered', ~registered, cursor' > 0,
                        NEW e \in Events, Matches(e), cursor' < e.seq,
                        e.seq < EventSeq(rev[node'] + 1)
                 PROVE  e \in Range(backlog')
        OBVIOUS
    <2>1. TypeOK /\ Stored /\ Flowing
        BY <1>1 DEF IInv
    <2>2. Kinds
        BY <1>1, <2>1, KindsCover
    <2>3. PICK n \in Nodes, from \in Nat : Subscribes(n, from)
        BY <2>2 DEF Kinds, Rests, Fans, Sends, Receive, Drops
    <2>4. /\ cursor' = from /\ backlog' = Backlog(n, from)
          /\ from = 0 \/ from >= Horizon(n)
        BY <2>1, <2>3, SubscribesEffect
    <2>5. node' = n /\ e.seq < NextSeq(n)
        BY <2>3 DEF Subscribes, NextSeq
    <2>6. hist[n] \in Seq(Event) /\ Ascending(hist[n]) /\ e.seq \in Nat
        BY <2>1, EventOrigin DEF TypeOK, Stored, StoredOn, Event
    <2>7. Horizon(n) < e.seq
        <3>1. Horizon(n) \in Int
            <4>1. hist[n] # <<>> => hist[n][1].seq \in Nat
                BY <2>6, CursorType
            <4>2. baselineSeq[n] \in Nat
                BY <2>1 DEF TypeOK
            <4> QED BY <4>1, <4>2 DEF Horizon
        <3> QED BY <2>4, <2>6, <3>1
    <2>8. e \in Range(hist[n])
        BY <2>1, <2>5, <2>7 DEF Stored, StoredOn
    <2>9. e.seq > from
        BY <2>4, <2>6
    <2> QED BY <2>4, <2>6, <2>8, <2>9, BacklogEvents
<1>2. IInv /\ [Next]_vars => [Accepted]_vars
    BY <1>1
<1> QED BY <1>2, Invariance, PTL DEF Spec, ReplayComplete

=============================================================================

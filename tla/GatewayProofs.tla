---------------------------- MODULE GatewayProofs ----------------------------
(***************************************************************************)
(* Machine-checked proofs about Gateway, for any set of requests, any      *)
(* number of upstreams and any limits the configuration accepts.           *)
(***************************************************************************)
EXTENDS Gateway, FiniteSetTheorems, SequenceTheorems, TLAPS

USE GatewayAssumption
USE DEF breakerVars, lbVars, requestVars, runtimeVars, None

-----------------------------------------------------------------------------
(* The breaker and the balancer                                            *)

States == {"closed", "open", "half_open"}
Points == {"idle", "reading", "sending", "errbody", "backoff", "streaming",
           "done"}

BreakersTyped ==
    /\ state \in [Upstreams -> States]
    /\ cooled \in [Upstreams -> BOOLEAN]
    /\ events \in [Upstreams -> Seq(BOOLEAN)]
    /\ probes \in [Upstreams -> 0..HalfOpenMax]

BalancerTyped ==
    /\ active \in [Upstreams -> Nat]
    /\ strategy \in {"round_robin", "least_connections"}
    /\ rr \in Upstreams

\* A handler that has an upstream to answer for knows it, and one that backs
\* off has an attempt left.
RequestsTyped ==
    /\ pc \in [Requests -> Points]
    /\ at \in [Requests -> Upstreams \cup {None}]
    /\ attempt \in [Requests -> 0..MaxAttempts]
    /\ tried \in [Requests -> SUBSET Upstreams]
    /\ \A r \in Requests :
          /\ pc[r] \in {"sending", "errbody", "streaming"} => at[r] \in Upstreams
          /\ pc[r] = "backoff" => attempt[r] < MaxAttempts

RuntimeTyped ==
    /\ inflight \in Nat /\ inflightZero \in BOOLEAN /\ drain \in BOOLEAN
    /\ phase \in {"serving", "draining", "drained", "forced", "closed",
                  "aborted"}

Typed == BreakersTyped /\ BalancerTyped /\ RequestsTyped /\ RuntimeTyped

\* Letting go of one unit never goes below zero.
LEMMA OneLess ==
    ASSUME NEW n \in Nat
    PROVE  /\ Max({0, n - 1}) \in Nat /\ Max({0, n - 1}) <= n
           /\ n > 0 => Max({0, n - 1}) = n - 1
<1>1. \E x \in {0, n - 1} : \A y \in {0, n - 1} : x >= y
    <2>1. CASE n = 0
        BY <2>1
    <2>2. CASE n > 0
        <3>1. n - 1 >= 0 /\ n - 1 >= n - 1
            BY <2>2
        <3> QED BY <3>1
    <2> QED BY <2>1, <2>2
<1>2. /\ Max({0, n - 1}) \in {0, n - 1}
      /\ \A y \in {0, n - 1} : Max({0, n - 1}) >= y
    BY <1>1 DEF Max
<1> QED BY <1>2

\* An upstream that is let go of: `active` stays a count.
LEMMA ReleaseType ==
    ASSUME BalancerTyped, NEW u \in Upstreams, release(u)
    PROVE  /\ active' \in [Upstreams -> Nat]
           /\ active[u] > 0 => active'[u] = active[u] - 1
           /\ \A v \in Upstreams \ {u} : active'[v] = active[v]
<1>1. active \in [Upstreams -> Nat]
    BY DEF BalancerTyped
<1>2. PICK n \in Nat : n = active[u]
    BY <1>1
<1>3. active' = [active EXCEPT ![u] = Max({0, n - 1})]
    BY <1>2 DEF release
<1> QED BY <1>1, <1>2, <1>3, OneLess

\* An upstream that is admitted: the breaker counts the trial, within its
\* limit.
LEMMA AllowType ==
    ASSUME BreakersTyped, NEW u \in Upstreams, Admits(u), allow(u)
    PROVE  BreakersTyped'
<1>1. probes[u] \in 0..HalfOpenMax /\ state[u] \in States
    BY DEF BreakersTyped
<1>2. (IF state[u] = "closed" THEN probes[u]
       ELSE IF state[u] = "open" THEN 1 ELSE probes[u] + 1) \in 0..HalfOpenMax
    BY <1>1 DEF Admits, States
<1> QED BY <1>2 DEF BreakersTyped, allow, States

\* A trial that reports back makes room for another.
LEMMA ReturnProbeType ==
    ASSUME BreakersTyped, NEW u \in Upstreams, ReturnProbe(u)
    PROVE  probes' \in [Upstreams -> 0..HalfOpenMax]
<1>1. probes \in [Upstreams -> 0..HalfOpenMax]
    BY DEF BreakersTyped
<1>2. PICK n \in Nat : n = probes[u] /\ n <= HalfOpenMax
    BY <1>1
<1>3. probes' = [probes EXCEPT ![u] = Max({0, n - 1})]
    BY <1>2 DEF ReturnProbe
<1> QED BY <1>1, <1>2, <1>3, OneLess

\* A sample joins the window, old ones leave it.
LEMMA WindowType ==
    ASSUME BreakersTyped, NEW u \in Upstreams, NEW ok \in BOOLEAN,
           NEW w \in Windows(u, ok)
    PROVE  w \in Seq(BOOLEAN)
<1>1. events[u] \in Seq(BOOLEAN)
    BY DEF BreakersTyped
<1>2. PICK e \in Seq(BOOLEAN) : e = events[u]
    BY <1>1
<1>3. PICK k \in 1..Len(e) + 1 : w = Append(SubSeq(e, k, Len(e)), ok)
    BY <1>2 DEF Windows
<1>4. SubSeq(e, k, Len(e)) \in Seq(BOOLEAN)
    BY <1>2, <1>3
<1> QED BY <1>3, <1>4

\* A result that is recorded, in whichever state the breaker is by then.
LEMMA RecordType ==
    ASSUME BreakersTyped, NEW u \in Upstreams,
           record_success(u) \/ record_failure(u)
    PROVE  BreakersTyped'
<1>1. probes' \in [Upstreams -> 0..HalfOpenMax]
    BY ReturnProbeType DEF record_success, record_failure
<1>2. CASE record_success(u)
    <2>1. CASE /\ state' = [state EXCEPT ![u] = "closed"]
               /\ events' = [events EXCEPT ![u] = <<>>]
        <3>1. events' \in [Upstreams -> Seq(BOOLEAN)]
            BY <2>1 DEF BreakersTyped
        <3> QED BY <1>1, <1>2, <2>1, <3>1 DEF BreakersTyped, record_success, States
    <2>2. CASE /\ \E w \in Windows(u, TRUE) : events' = [events EXCEPT ![u] = w]
               /\ UNCHANGED state
        <3>1. events' \in [Upstreams -> Seq(BOOLEAN)]
            BY <2>2, WindowType DEF BreakersTyped
        <3> QED BY <1>1, <1>2, <2>2, <3>1 DEF BreakersTyped, record_success
    <2> QED BY <1>2, <2>1, <2>2 DEF record_success
<1>3. CASE record_failure(u)
    <2>1. CASE state[u] = "half_open"
        BY <1>1, <1>3, <2>1 DEF BreakersTyped, record_failure, States
    <2>2. CASE state[u] # "half_open"
        <3>1. PICK w \in Windows(u, FALSE), trips \in BOOLEAN :
                /\ events' = [events EXCEPT ![u] = w]
                /\ state' = [state EXCEPT ![u] = IF trips THEN "open" ELSE @]
                /\ cooled' = [cooled EXCEPT ![u] = IF trips THEN FALSE ELSE @]
            <4>1. PICK w \in Windows(u, FALSE) :
                    /\ events' = [events EXCEPT ![u] = w]
                    /\ state' = [state EXCEPT ![u] =
                            IF state[u] = "closed" /\ Tripping(w)
                            THEN "open" ELSE @]
                    /\ cooled' = [cooled EXCEPT ![u] =
                            IF state[u] = "closed" /\ Tripping(w)
                            THEN FALSE ELSE @]
                BY <1>3, <2>2 DEF record_failure
            <4>2. CASE state[u] = "closed" /\ Tripping(w)
                BY <4>1, <4>2
            <4>3. CASE ~(state[u] = "closed" /\ Tripping(w))
                BY <4>1, <4>3
            <4> QED BY <4>2, <4>3
        <3>2. events' \in [Upstreams -> Seq(BOOLEAN)]
            BY <3>1, WindowType DEF BreakersTyped
        <3>3. /\ state' \in [Upstreams -> States]
              /\ cooled' \in [Upstreams -> BOOLEAN]
            BY <3>1 DEF BreakersTyped, States
        <3> QED BY <1>1, <3>2, <3>3 DEF BreakersTyped
    <2> QED BY <2>1, <2>2
<1> QED BY <1>2, <1>3

-----------------------------------------------------------------------------
(* The handlers at work and their count                                    *)

Busy == {r \in Requests : InFlight(r)}

\* The runtime's count is the number of handlers at work, and drain_event is
\* set from the moment the process no longer serves.
Counted ==
    /\ inflight = Cardinality(Busy)
    /\ inflightZero <=> inflight = 0
    /\ drain <=> phase # "serving"

\* What an upstream may be picked for.
LEMMA CandidatesAdmit ==
    ASSUME NEW t, NEW u \in Candidates(t)
    PROVE  u \in Upstreams /\ Admits(u)
BY DEF Candidates

\* A request's set, one more and one less.
LEMMA CountOne ==
    ASSUME NEW A \in SUBSET Requests, NEW r \in Requests
    PROVE  /\ Cardinality(A) \in Nat
           /\ r \notin A => Cardinality(A \cup {r}) = Cardinality(A) + 1
           /\ r \in A => /\ Cardinality(A \ {r}) = Cardinality(A) - 1
                         /\ Cardinality(A) > 0
<1>1. IsFiniteSet(A)
    BY FS_Subset
<1>2. Cardinality(A) \in Nat
    BY <1>1, FS_CardinalityType
<1>3. r \notin A => Cardinality(A \cup {r}) = Cardinality(A) + 1
    BY <1>1, FS_AddElement
<1>4. r \in A => Cardinality(A \ {r}) = Cardinality(A) - 1
    BY <1>1, FS_RemoveElement
<1>5. r \in A => Cardinality(A) # 0
    BY <1>1, FS_EmptySet
<1> QED BY <1>2, <1>3, <1>4, <1>5

\* A handler that returns or raises is counted out, once.
LEMMA LeaveEffect ==
    ASSUME Typed, Counted, NEW r \in Requests, InFlight(r), Leave(r)
    PROVE  /\ RequestsTyped' /\ RuntimeTyped' /\ Counted'
           /\ Busy' = Busy \ {r}
<1>1. pc \in [Requests -> Points] /\ inflight \in Nat /\ r \in Busy
    BY DEF Typed, RequestsTyped, RuntimeTyped, Busy
<1>2. /\ pc' = [pc EXCEPT ![r] = "done"]
      /\ at' = [at EXCEPT ![r] = None]
      /\ attempt' = [attempt EXCEPT ![r] = 0]
      /\ tried' = [tried EXCEPT ![r] = {}]
      /\ inflight' = inflight - 1
      /\ inflightZero' = (IF inflight = 1 THEN TRUE ELSE inflightZero)
      /\ UNCHANGED <<drain, phase>>
    BY DEF Leave, leave_inflight
<1>3. Busy' = Busy \ {r}
    BY <1>1, <1>2 DEF Busy, InFlight
<1>4. /\ Cardinality(Busy) = inflight /\ inflight > 0
      /\ Cardinality(Busy \ {r}) = inflight - 1
    <2>1. Busy \in SUBSET Requests
        BY DEF Busy
    <2> QED BY <1>1, <2>1, CountOne DEF Counted
<1>5. inflightZero' \in BOOLEAN /\ (inflightZero' <=> inflight' = 0)
    <2>1. inflightZero \in BOOLEAN /\ (inflightZero <=> inflight = 0)
        BY DEF Typed, RuntimeTyped, Counted
    <2>2. CASE inflight = 1
        BY <1>2, <2>2
    <2>3. CASE inflight # 1
        BY <1>1, <1>2, <1>4, <2>1, <2>3
    <2> QED BY <2>2, <2>3
<1>6. RequestsTyped'
    <2>1. /\ pc' \in [Requests -> Points]
          /\ at' \in [Requests -> Upstreams \cup {None}]
          /\ attempt' \in [Requests -> 0..MaxAttempts]
          /\ tried' \in [Requests -> SUBSET Upstreams]
        BY <1>2 DEF Typed, RequestsTyped, Points
    <2> QED BY <1>2, <2>1 DEF Typed, RequestsTyped
<1>7. RuntimeTyped' /\ Counted'
    <2>1. inflight' \in Nat /\ inflight' = Cardinality(Busy')
        BY <1>2, <1>3, <1>4, <1>1
    <2>2. RuntimeTyped'
        BY <1>2, <1>5, <2>1 DEF Typed, RuntimeTyped
    <2>3. drain' <=> phase' # "serving"
        BY <1>2, Zenon DEF Counted
    <2> QED BY <1>5, <2>1, <2>2, <2>3 DEF Counted
<1> QED BY <1>3, <1>6, <1>7

\* A handler that goes on to another point of its way.
LEMMA GoOnEffect ==
    ASSUME Typed, Counted, NEW r \in Requests, InFlight(r),
           NEW p \in Points \ {"idle", "done"}, pc' = [pc EXCEPT ![r] = p],
           UNCHANGED runtimeVars
    PROVE  /\ pc' \in [Requests -> Points] /\ RuntimeTyped' /\ Counted'
           /\ Busy' = Busy
<1>1. pc \in [Requests -> Points]
    BY DEF Typed, RequestsTyped
<1>2. Busy' = Busy
    BY <1>1 DEF Busy, InFlight
<1> QED BY <1>1, <1>2 DEF Typed, RuntimeTyped, Counted

\* One round of the attempt loop: the request is given up, or an upstream that
\* admits it is called.
LEMMA AttemptEffect ==
    ASSUME Typed, Counted, NEW r \in Requests, InFlight(r),
           NEW n \in 1..MaxAttempts, NEW t \in SUBSET Upstreams,
           Attempt(r, n, t)
    PROVE  /\ Typed' /\ Counted' /\ Busy' \subseteq Busy
           /\ \/ Leave(r) /\ UNCHANGED <<state, cooled, active>>
              \/ \E u \in Upstreams :
                    /\ Admits(u)
                    /\ active' = [active EXCEPT ![u] = @ + 1]
                    /\ at' = [at EXCEPT ![r] = u]
                    /\ pc' = [pc EXCEPT ![r] = "sending"]
<1>1. CASE drain /\ Leave(r) /\ UNCHANGED <<breakerVars, lbVars>>
    BY <1>1, LeaveEffect DEF Typed, BreakersTyped, BalancerTyped
<1>2. ASSUME NextCursor
      PROVE  /\ strategy' \in {"round_robin", "least_connections"}
             /\ rr' \in Upstreams
    <2>1. rr \in Upstreams /\ strategy \in {"round_robin", "least_connections"}
        BY DEF Typed, BalancerTyped
    <2>2. (rr % NumUpstreams) + 1 \in Upstreams
        BY <2>1 DEF Upstreams
    <2> QED BY <1>2, <2>1, <2>2 DEF NextCursor
<1>3. CASE NextCursor /\ Leave(r) /\ UNCHANGED <<breakerVars, active>>
    BY <1>2, <1>3, LeaveEffect DEF Typed, BreakersTyped, BalancerTyped
<1>4. CASE /\ NextCursor
           /\ \E u \in Candidates(t) :
                /\ allow(u)
                /\ active' = [active EXCEPT ![u] = @ + 1]
                /\ at' = [at EXCEPT ![r] = u]
           /\ pc' = [pc EXCEPT ![r] = "sending"]
           /\ attempt' = [attempt EXCEPT ![r] = n]
           /\ tried' = [tried EXCEPT ![r] = t]
           /\ UNCHANGED runtimeVars
    <2>1. PICK u \in Candidates(t) :
            /\ allow(u)
            /\ active' = [active EXCEPT ![u] = @ + 1]
            /\ at' = [at EXCEPT ![r] = u]
        BY <1>4
    <2>2. u \in Upstreams /\ Admits(u)
        BY CandidatesAdmit
    <2>3. BreakersTyped'
        BY <2>1, <2>2, AllowType DEF Typed
    <2>4. active' \in [Upstreams -> Nat]
        BY <2>1, <2>2 DEF Typed, BalancerTyped
    <2>5. pc' \in [Requests -> Points] /\ RuntimeTyped' /\ Counted' /\ Busy' = Busy
        BY <1>4, GoOnEffect DEF Points
    <2>6. n \in 0..MaxAttempts
        OBVIOUS
    <2>7. /\ at' \in [Requests -> Upstreams \cup {None}]
          /\ attempt' \in [Requests -> 0..MaxAttempts]
          /\ tried' \in [Requests -> SUBSET Upstreams]
        BY <1>4, <2>1, <2>2, <2>6 DEF Typed, RequestsTyped
    <2>8. RequestsTyped'
        BY <1>4, <2>1, <2>2, <2>5, <2>7 DEF Typed, RequestsTyped
    <2> QED BY <1>2, <1>4, <2>1, <2>2, <2>3, <2>4, <2>5, <2>8
            DEF Typed, BalancerTyped
<1> QED BY <1>1, <1>3, <1>4 DEF Attempt, PickAndSend

\* UpstreamAttemptError: the failure is recorded, the unit given back, and the
\* request leaves or waits for its next attempt.
LEMMA FailedEffect ==
    ASSUME Typed, Counted, NEW r \in Requests,
           pc[r] \in {"sending", "errbody"}, Failed(r)
    PROVE  /\ Typed' /\ Counted' /\ Busy' \subseteq Busy
           /\ at[r] \in Upstreams /\ release(at[r])
           /\ pc' = [pc EXCEPT ![r] = "done"] \/ pc' = [pc EXCEPT ![r] = "backoff"]
           /\ at' = [at EXCEPT ![r] = None]
<1>1. PICK u \in Upstreams : u = at[r]
    BY DEF Typed, RequestsTyped
<1>2. InFlight(r)
    BY DEF InFlight
<1>3. record_failure(u) /\ release(u) /\ UNCHANGED <<strategy, rr>>
    BY <1>1 DEF Failed
<1>4. BreakersTyped' /\ BalancerTyped'
    BY <1>3, RecordType, ReleaseType DEF Typed, BalancerTyped
<1>5. CASE Leave(r)
    <2>1. /\ pc' = [pc EXCEPT ![r] = "done"]
          /\ at' = [at EXCEPT ![r] = None]
        BY <1>5 DEF Leave
    <2> QED BY <1>1, <1>2, <1>3, <1>4, <1>5, <2>1, LeaveEffect DEF Typed
<1>6. CASE /\ attempt[r] < MaxAttempts
           /\ pc' = [pc EXCEPT ![r] = "backoff"]
           /\ at' = [at EXCEPT ![r] = None]
           /\ tried' = [tried EXCEPT ![r] = @ \cup {at[r]}]
           /\ UNCHANGED <<attempt, runtimeVars>>
    <2>1. pc' \in [Requests -> Points] /\ RuntimeTyped' /\ Counted' /\ Busy' = Busy
        BY <1>2, <1>6, GoOnEffect DEF Points
    <2>2. /\ at' \in [Requests -> Upstreams \cup {None}]
          /\ attempt' \in [Requests -> 0..MaxAttempts]
          /\ tried' \in [Requests -> SUBSET Upstreams]
        BY <1>1, <1>6 DEF Typed, RequestsTyped
    <2>3. RequestsTyped'
        BY <1>6, <2>1, <2>2 DEF Typed, RequestsTyped
    <2> QED BY <1>1, <1>3, <1>4, <1>6, <2>1, <2>3 DEF Typed
<1> QED BY <1>5, <1>6 DEF Failed

-----------------------------------------------------------------------------
(* The steps, as the properties tell them apart                            *)

\* No attempt begins, and no unit is taken or given back.
Quiet == active' = active /\ \A u \in Upstreams : Attempting(u)' \subseteq Attempting(u)

\* The attempt of r ends and its unit is given back.
LetsGo(r) ==
    /\ pc[r] \in {"sending", "errbody"} /\ at[r] \in Upstreams
    /\ release(at[r])
    /\ \E p \in Points \ {"sending", "errbody"} : pc' = [pc EXCEPT ![r] = p]
    /\ at' = at \/ at' = [at EXCEPT ![r] = None]

\* r begins an attempt at u.
PicksUp(r, u) ==
    /\ Admits(u)
    /\ active' = [active EXCEPT ![u] = @ + 1]
    /\ at' = [at EXCEPT ![r] = u]
    /\ pc' = [pc EXCEPT ![r] = "sending"]

Kinds ==
    \/ Quiet
    \/ \E r \in Requests : LetsGo(r)
    \/ \E r \in Requests, u \in Upstreams : PicksUp(r, u)

\* A handler that is somewhere else than in an attempt afterwards attempts
\* nothing more.
LEMMA ElsewhereQuiet ==
    ASSUME Typed, NEW r \in Requests, NEW p \in Points, active' = active,
           pc' = [pc EXCEPT ![r] = p],
           at' = at \/ at' = [at EXCEPT ![r] = None],
           p \in {"sending", "errbody"} => pc[r] \in {"sending", "errbody"} /\ at' = at
    PROVE  Quiet
<1>1. pc \in [Requests -> Points] /\ at \in [Requests -> Upstreams \cup {None}]
    BY DEF Typed, RequestsTyped
<1>2. ASSUME NEW u \in Upstreams, NEW q \in Requests,
             pc'[q] \in {"sending", "errbody"}, at'[q] = u
      PROVE  pc[q] \in {"sending", "errbody"} /\ at[q] = u
    <2>1. CASE q = r
        <3>1. pc'[q] = p
            BY <1>1, <2>1
        <3> QED BY <1>2, <2>1, <3>1
    <2>2. CASE q # r
        BY <1>1, <1>2, <2>2
    <2> QED BY <2>1, <2>2
<1> QED BY <1>2 DEF Quiet, Attempting

\* Every step keeps the types and the count, is one of three kinds, and lets
\* no handler start while draining.
LEMMA StepKinds ==
    ASSUME Typed, Counted, [Next]_vars
    PROVE  Typed' /\ Counted' /\ (Busy' \subseteq Busy \/ ~drain) /\ Kinds
<1> DEFINE Goal == Typed' /\ Counted' /\ (Busy' \subseteq Busy \/ ~drain) /\ Kinds
<1>0. /\ pc \in [Requests -> Points] /\ attempt \in [Requests -> 0..MaxAttempts]
      /\ tried \in [Requests -> SUBSET Upstreams]
    BY DEF Typed, RequestsTyped
<1>1. ASSUME UNCHANGED <<active, strategy, rr>>, UNCHANGED requestVars,
             UNCHANGED <<inflight, inflightZero>>,
             BreakersTyped', RuntimeTyped', drain' <=> phase' # "serving"
      PROVE  Goal
    <2>1. Busy' = Busy
        BY <1>1 DEF Busy, InFlight
    <2>2. Typed'
        BY <1>1 DEF Typed, BalancerTyped, RequestsTyped
    <2>3. Counted'
        BY <1>1, <2>1 DEF Counted
    <2>4. Quiet
        BY <1>1 DEF Quiet, Attempting
    <2> QED BY <2>1, <2>2, <2>3, <2>4 DEF Kinds
<1>2. ASSUME NEW r \in Requests, InFlight(r), Leave(r), UNCHANGED lbVars,
             BreakersTyped'
      PROVE  Goal
    <2>1. Typed' /\ Counted' /\ Busy' \subseteq Busy
        BY <1>2, LeaveEffect DEF Typed, BalancerTyped
    <2>2. Quiet
        BY <1>2, ElsewhereQuiet DEF Leave, Points
    <2> QED BY <2>1, <2>2 DEF Kinds
<1>3. BreakersTyped /\ RuntimeTyped /\ (drain <=> phase # "serving")
    BY DEF Typed, Counted
<1>4. ASSUME NEW u \in Upstreams, Cool(u) PROVE Goal
    <2>1. BreakersTyped'
        BY <1>3, <1>4 DEF Cool, BreakersTyped
    <2>2. RuntimeTyped' /\ (drain' <=> phase' # "serving")
        BY <1>3, <1>4, Zenon DEF Cool, RuntimeTyped
    <2> QED BY <1>1, <1>4, <2>1, <2>2 DEF Cool
<1>5. ASSUME Shutdown \/ Drained \/ DrainTimeout \/ Cleanup PROVE Goal
    <2>1. BreakersTyped' /\ RuntimeTyped'
        BY <1>3, <1>5 DEF Shutdown, Drained, DrainTimeout, Cleanup,
                          BreakersTyped, RuntimeTyped
    <2>2. drain' <=> phase' # "serving"
        BY <1>3, <1>5 DEF Shutdown, Drained, DrainTimeout, Cleanup
    <2> QED BY <1>1, <1>5, <2>1, <2>2
            DEF Shutdown, Drained, DrainTimeout, Cleanup
<1>6. ASSUME NEW r \in Requests, Enter(r) PROVE Goal
    <2>1. /\ pc[r] = "idle" /\ UNCHANGED <<breakerVars, lbVars, at, attempt, tried>>
          /\ UNCHANGED <<drain, phase>>
        BY <1>6 DEF Enter
    <2>2. CASE drain /\ pc' = [pc EXCEPT ![r] = "done"]
               /\ UNCHANGED <<inflight, inflightZero>>
        <3>1. Busy' = Busy
            BY <1>0, <2>1, <2>2 DEF Busy, InFlight
        <3>2. pc' \in [Requests -> Points]
            BY <1>0, <2>2 DEF Points
        <3>3. RequestsTyped'
            BY <1>0, <2>1, <2>2, <3>2 DEF Typed, RequestsTyped
        <3>4. Typed' /\ Counted'
            BY <2>1, <2>2, <3>1, <3>3 DEF Typed, Counted, BreakersTyped,
                                          BalancerTyped, RuntimeTyped
        <3>5. Quiet
            BY <2>1, <2>2, ElsewhereQuiet DEF Points
        <3> QED BY <3>1, <3>4, <3>5 DEF Kinds
    <2>3. CASE ~drain /\ pc' = [pc EXCEPT ![r] = "reading"] /\ enter_inflight
        <3>1. Busy' = Busy \cup {r} /\ r \notin Busy /\ Busy \in SUBSET Requests
            BY <1>0, <2>1, <2>3 DEF Busy, InFlight
        <3>2. pc' \in [Requests -> Points]
            BY <1>0, <2>3 DEF Points
        <3>3. RequestsTyped'
            BY <1>0, <2>1, <2>3, <3>2 DEF Typed, RequestsTyped
        <3>4. inflight' = inflight + 1 /\ inflightZero' = FALSE /\ inflight \in Nat
            BY <1>3, <2>3 DEF enter_inflight, RuntimeTyped
        <3>5. inflight' = Cardinality(Busy')
            BY <3>1, <3>4, CountOne DEF Counted
        <3>6. Counted'
            BY <1>3, <2>1, <3>4, <3>5 DEF Counted
        <3>7. Typed'
            <4>1. BreakersTyped' /\ BalancerTyped'
                BY <2>1 DEF Typed, BreakersTyped, BalancerTyped
            <4>2. RuntimeTyped'
                <5>1. inflight' \in Nat
                    BY <3>4
                <5>2. inflightZero' \in BOOLEAN
                    BY <3>4
                <5>3. /\ drain' \in BOOLEAN
                      /\ phase' \in {"serving", "draining", "drained",
                                     "forced", "aborted", "closed"}
                    BY <1>3, <2>1, Zenon DEF RuntimeTyped
                <5> QED BY <5>1, <5>2, <5>3 DEF RuntimeTyped
            <4> QED BY <3>3, <4>1, <4>2 DEF Typed
        <3>8. Quiet
            BY <2>1, <2>3, ElsewhereQuiet DEF Points
        <3> QED BY <2>3, <3>6, <3>7, <3>8 DEF Kinds
    <2> QED BY <1>6, <2>2, <2>3 DEF Enter
<1>7. ASSUME NEW r \in Requests,
             \/ Reject(r) \/ ErrorBodyBroken(r) \/ ClientGone(r)
             \/ BudgetExpires(r) \/ Cancel(r)
      PROVE  Goal
    <2>1. InFlight(r) /\ Leave(r) /\ UNCHANGED <<breakerVars, lbVars>>
        BY <1>7 DEF Reject, ErrorBodyBroken, ClientGone, BudgetExpires,
                    Cancel, InFlight
    <2>2. BreakersTyped'
        BY <1>3, <2>1 DEF BreakersTyped
    <2> QED BY <1>2, <2>1, <2>2
<1>8. ASSUME NEW r \in Requests, StreamEnds(r) \/ StreamBroken(r) PROVE Goal
    <2>1. PICK u \in Upstreams : u = at[r]
        BY <1>8 DEF StreamEnds, StreamBroken, Typed, RequestsTyped
    <2>2. InFlight(r) /\ Leave(r) /\ UNCHANGED lbVars
          /\ (record_success(u) \/ record_failure(u))
        BY <1>8, <2>1 DEF StreamEnds, StreamBroken, InFlight
    <2>3. BreakersTyped'
        BY <1>3, <2>2, RecordType
    <2> QED BY <1>2, <2>2, <2>3
<1>9. ASSUME NEW r \in Requests, SendFails(r) \/ ErrorBodyRead(r) PROVE Goal
    <2>1. pc[r] \in {"sending", "errbody"} /\ Failed(r)
        BY <1>9 DEF SendFails, ErrorBodyRead
    <2>2. LetsGo(r)
        BY <2>1, FailedEffect DEF LetsGo, Points
    <2> QED BY <2>1, <2>2, FailedEffect DEF Kinds
<1>10. ASSUME NEW r \in Requests, RetryStatus(r) \/ Headers(r) PROVE Goal
    <2>1. PICK p \in {"errbody", "streaming"} : pc' = [pc EXCEPT ![r] = p]
        BY <1>10 DEF RetryStatus, Headers
    <2>2. /\ pc[r] = "sending" /\ InFlight(r) /\ at[r] \in Upstreams
          /\ UNCHANGED <<breakerVars, strategy, rr, at, attempt, tried>>
          /\ UNCHANGED runtimeVars
        BY <1>10 DEF RetryStatus, Headers, InFlight, Typed, RequestsTyped
    <2>3. pc' \in [Requests -> Points] /\ RuntimeTyped' /\ Counted' /\ Busy' = Busy
        BY <2>1, <2>2, GoOnEffect DEF Points
    <2>4. RequestsTyped'
        BY <1>0, <2>1, <2>2, <2>3 DEF Typed, RequestsTyped
    <2>5. BalancerTyped'
        <3>1. CASE RetryStatus(r)
            BY <3>1 DEF RetryStatus, Typed, BalancerTyped
        <3>2. CASE Headers(r)
            <4>1. PICK u \in Upstreams : u = at[r]
                BY <2>2
            <4> QED BY <2>2, <3>2, <4>1, ReleaseType
                    DEF Headers, Typed, BalancerTyped
        <3> QED BY <1>10, <3>1, <3>2
    <2>6. Typed'
        BY <2>2, <2>3, <2>4, <2>5 DEF Typed, BreakersTyped
    <2>7. Kinds
        <3>1. CASE RetryStatus(r)
            <4>1. active' = active /\ pc' = [pc EXCEPT ![r] = "errbody"]
                BY <3>1 DEF RetryStatus
            <4>2. Quiet
                BY <2>2, <4>1, ElsewhereQuiet DEF Points
            <4> QED BY <4>2 DEF Kinds
        <3>2. CASE Headers(r)
            <4>1. release(at[r]) /\ pc' = [pc EXCEPT ![r] = "streaming"]
                BY <3>2 DEF Headers
            <4>2. LetsGo(r)
                BY <2>2, <4>1 DEF LetsGo, Points
            <4> QED BY <4>2 DEF Kinds
        <3> QED BY <1>10, <3>1, <3>2
    <2> QED BY <2>3, <2>6, <2>7
<1>11. ASSUME NEW r \in Requests, Begin(r) \/ Retry(r) PROVE Goal
    <2>1. PICK n \in 1..MaxAttempts, t \in SUBSET Upstreams : Attempt(r, n, t)
        <3>1. CASE Begin(r)
            BY <3>1 DEF Begin
        <3>2. CASE Retry(r)
            <4>1. PICK n \in Nat : n = attempt[r] + 1 /\ n <= MaxAttempts /\ n >= 1
                BY <1>0, <3>2 DEF Retry, Typed, RequestsTyped
            <4> QED BY <1>0, <3>2, <4>1 DEF Retry
        <3> QED BY <1>11, <3>1, <3>2
    <2>2. InFlight(r)
        BY <1>11 DEF Begin, Retry, InFlight
    <2>3. Typed' /\ Counted' /\ Busy' \subseteq Busy
        BY <2>1, <2>2, AttemptEffect
    <2>4. CASE Leave(r) /\ UNCHANGED <<state, cooled, active>>
        <3>1. Quiet
            BY <2>4, ElsewhereQuiet DEF Leave, Points
        <3> QED BY <2>3, <3>1 DEF Kinds
    <2>5. ASSUME NEW u \in Upstreams, PicksUp(r, u) PROVE Goal
        BY <2>3, <2>5 DEF Kinds
    <2> QED BY <2>1, <2>2, <2>4, <2>5, AttemptEffect DEF PicksUp
<1>12. ASSUME UNCHANGED vars PROVE Goal
    <2>1. BreakersTyped' /\ RuntimeTyped'
        BY <1>3, <1>12 DEF vars, BreakersTyped, RuntimeTyped
    <2>2. drain' <=> phase' # "serving"
        BY <1>3, <1>12, Zenon DEF vars
    <2>3. /\ UNCHANGED <<active, strategy, rr>> /\ UNCHANGED requestVars
          /\ UNCHANGED <<inflight, inflightZero>>
        BY <1>12 DEF vars
    <2> QED BY <1>1, <2>1, <2>2, <2>3
<1> HIDE DEF Goal
<1>13. Goal
    <2>1. ASSUME NEW r \in Requests, HandlerStep(r) PROVE Goal
        BY <1>7, <1>8, <1>9, <1>10, <1>11, <2>1 DEF HandlerStep
    <2> QED BY <1>4, <1>5, <1>6, <1>7, <1>12, <2>1 DEF Next
<1> QED BY <1>13 DEF Goal

\* The types and the count of handlers hold from the start.
LEMMA CountedInvariant == Spec => [](Typed /\ Counted)
<1>1. Init => Typed
    <2> SUFFICES ASSUME Init PROVE Typed
        OBVIOUS
    <2>1. 1 \in Upstreams
        BY DEF Upstreams
    <2>2. BreakersTyped /\ BalancerTyped
        BY <2>1 DEF Init, BreakersTyped, BalancerTyped, States
    <2>3. RequestsTyped
        BY DEF Init, RequestsTyped, Points
    <2>4. RuntimeTyped
        BY DEF Init, RuntimeTyped
    <2> QED BY <2>2, <2>3, <2>4 DEF Typed
<1>2. Init => Counted
    <2> SUFFICES ASSUME Init PROVE Counted
        OBVIOUS
    <2>1. Busy = {}
        BY DEF Init, Busy, InFlight
    <2> QED BY <2>1, FS_EmptySet DEF Init, Counted
<1> QED BY <1>1, <1>2, StepKinds, PTL DEF Spec

\* Whatever fails, is cancelled or runs out of time, the state stays well
\* typed: the breaker's counter of trials stays between 0 and
\* half_open_max_calls, although results of earlier requests return trials that
\* are not theirs, and no request makes more than max_attempts.  The trials
\* under way may be more than the counter says (circuitbreaker.py:10,86).
THEOREM TypeCorrect == Spec => []TypeOK
<1>1. Typed => TypeOK
    BY DEF Typed, BreakersTyped, BalancerTyped, RequestsTyped, RuntimeTyped,
           TypeOK, States, Points
<1> QED BY <1>1, CountedInvariant, PTL

-----------------------------------------------------------------------------
(* The balancer                                                            *)

\* An attempt in progress holds a unit of `active`, which no other releases.
LEMMA CoversStep ==
    ASSUME Typed, Counted, ActiveCovers, [Next]_vars
    PROVE  ActiveCovers'
<1>0. /\ active \in [Upstreams -> Nat] /\ active' \in [Upstreams -> Nat]
      /\ pc \in [Requests -> Points] /\ at \in [Requests -> Upstreams \cup {None}]
    BY StepKinds DEF Typed, BalancerTyped, RequestsTyped
<1>1. ASSUME NEW u \in Upstreams, Attempting(u)' \subseteq Attempting(u),
             active'[u] = active[u]
      PROVE  active'[u] >= Cardinality(Attempting(u)')
    <2>1. /\ IsFiniteSet(Attempting(u)) /\ IsFiniteSet(Attempting(u)')
        BY FS_Subset DEF Attempting
    <2>2. /\ Cardinality(Attempting(u)') <= Cardinality(Attempting(u))
          /\ Cardinality(Attempting(u)') \in Nat
          /\ Cardinality(Attempting(u)) \in Nat
        BY <1>1, <2>1, FS_Subset, FS_CardinalityType
    <2> QED BY <1>0, <1>1, <2>2 DEF ActiveCovers
<1>2. CASE Quiet
    BY <1>1, <1>2 DEF Quiet, ActiveCovers
<1>3. ASSUME NEW r \in Requests, LetsGo(r) PROVE ActiveCovers'
    <2>1. PICK p \in Points \ {"sending", "errbody"} : pc' = [pc EXCEPT ![r] = p]
        BY <1>3 DEF LetsGo
    <2>2. at' = at \/ at' = [at EXCEPT ![r] = None]
        BY <1>3 DEF LetsGo
    <2>3. \A u \in Upstreams : Attempting(u)' \subseteq Attempting(u) \ {r}
        BY <1>0, <2>1, <2>2 DEF Attempting
    <2>4. PICK v \in Upstreams : v = at[r]
        BY <1>3 DEF LetsGo
    <2>5. /\ active[v] > 0 => active'[v] = active[v] - 1
          /\ \A u \in Upstreams \ {v} : active'[u] = active[u]
        BY <1>3, <2>4, ReleaseType DEF LetsGo, Typed
    <2>6. active'[v] >= Cardinality(Attempting(v)')
        <3>1. r \in Attempting(v) /\ Attempting(v) \in SUBSET Requests
            BY <1>3, <2>4 DEF LetsGo, Attempting
        <3>2. IsFiniteSet(Attempting(v) \ {r})
            BY <3>1, FS_Subset
        <3>3. /\ Cardinality(Attempting(v)') <= Cardinality(Attempting(v) \ {r})
              /\ Cardinality(Attempting(v)') \in Nat
            BY <2>3, <3>2, FS_Subset, FS_CardinalityType
        <3>4. /\ Cardinality(Attempting(v)) \in Nat
              /\ Cardinality(Attempting(v)) > 0
              /\ Cardinality(Attempting(v) \ {r}) = Cardinality(Attempting(v)) - 1
            BY <3>1, CountOne
        <3>5. active[v] \in Nat /\ active[v] >= Cardinality(Attempting(v))
            BY <1>0 DEF ActiveCovers
        <3>6. active'[v] = active[v] - 1
            BY <2>5, <3>4, <3>5
        <3> QED BY <3>3, <3>4, <3>5, <3>6
    <2>7. ASSUME NEW u \in Upstreams \ {v}
          PROVE  active'[u] >= Cardinality(Attempting(u)')
        BY <1>1, <2>3, <2>5
    <2> QED BY <2>6, <2>7 DEF ActiveCovers
<1>4. ASSUME NEW r \in Requests, NEW v \in Upstreams, PicksUp(r, v)
      PROVE  ActiveCovers'
    <2>1. /\ active' = [active EXCEPT ![v] = @ + 1]
          /\ at' = [at EXCEPT ![r] = v]
          /\ pc' = [pc EXCEPT ![r] = "sending"]
        BY <1>4 DEF PicksUp
    <2>2. \A u \in Upstreams \ {v} : /\ Attempting(u)' \subseteq Attempting(u)
                                     /\ active'[u] = active[u]
        BY <1>0, <2>1 DEF Attempting
    <2>3. Attempting(v)' \subseteq Attempting(v) \cup {r}
        BY <1>0, <2>1 DEF Attempting
    <2>4. active'[v] >= Cardinality(Attempting(v)')
        <3>1. Attempting(v) \in SUBSET Requests
            BY DEF Attempting
        <3>2. /\ Cardinality(Attempting(v)) \in Nat
              /\ Cardinality(Attempting(v) \cup {r}) <= Cardinality(Attempting(v)) + 1
            <4>1. CASE r \in Attempting(v)
                <5>1. Attempting(v) \cup {r} = Attempting(v)
                    BY <4>1
                <5>2. Cardinality(Attempting(v)) \in Nat
                    BY <3>1, <4>1, CountOne
                <5>3. Cardinality(Attempting(v) \cup {r})
                         = Cardinality(Attempting(v))
                    BY <5>1
                <5>4. \A n, m \in Nat : m = n => m <= n + 1
                    OBVIOUS
                <5> QED BY <5>2, <5>3, <5>4
            <4>2. CASE r \notin Attempting(v)
                BY <3>1, <4>2, CountOne
            <4> QED BY <4>1, <4>2
        <3>3. IsFiniteSet(Attempting(v) \cup {r})
            BY <3>1, FS_Subset
        <3>4. /\ Cardinality(Attempting(v)') <= Cardinality(Attempting(v) \cup {r})
              /\ Cardinality(Attempting(v)') \in Nat
              /\ Cardinality(Attempting(v) \cup {r}) \in Nat
            BY <2>3, <3>3, FS_Subset, FS_CardinalityType
        <3>5. /\ active[v] \in Nat /\ active[v] >= Cardinality(Attempting(v))
              /\ active'[v] = active[v] + 1
            BY <1>0, <2>1 DEF ActiveCovers
        <3> QED BY <3>2, <3>4, <3>5
    <2>5. ASSUME NEW u \in Upstreams \ {v}
          PROVE  active'[u] >= Cardinality(Attempting(u)')
        BY <1>1, <2>2
    <2> QED BY <2>4, <2>5 DEF ActiveCovers
<1> QED BY <1>2, <1>3, <1>4, StepKinds DEF Kinds

\* No release takes the unit of an attempt in progress (pick, release and the
\* handlers' error paths): least_connections may overrate an upstream whose
\* units were not released, but never takes a busy one for idle.
THEOREM ActiveAlwaysCovers == Spec => []ActiveCovers
<1>1. Init => ActiveCovers
    <2> SUFFICES ASSUME Init, NEW u \in Upstreams
                 PROVE  active[u] >= Cardinality(Attempting(u))
        BY DEF ActiveCovers
    <2>1. Attempting(u) = {}
        BY DEF Init, Attempting
    <2> QED BY <2>1, FS_EmptySet DEF Init
<1> QED BY <1>1, CoversStep, CountedInvariant, PTL DEF Spec

\* A breaker that opened keeps new attempts away from its upstream until
\* open_seconds have passed (allow, pick): whoever picks it asks it first.
THEOREM OpenKeepsAwayAlways == Spec => OpenKeepsAway
<1>1. ASSUME Typed, Counted, [Next]_vars, NEW u \in Upstreams,
             state[u] = "open", ~cooled[u]
      PROVE  Attempting(u)' \subseteq Attempting(u)
    <2>0. pc \in [Requests -> Points] /\ at \in [Requests -> Upstreams \cup {None}]
        BY <1>1 DEF Typed, RequestsTyped
    <2>1. CASE Quiet
        BY <2>1 DEF Quiet
    <2>2. ASSUME NEW r \in Requests, LetsGo(r)
          PROVE  Attempting(u)' \subseteq Attempting(u)
        <3>1. PICK p \in Points \ {"sending", "errbody"} :
                pc' = [pc EXCEPT ![r] = p]
            BY <2>2 DEF LetsGo
        <3>2. at' = at \/ at' = [at EXCEPT ![r] = None]
            BY <2>2 DEF LetsGo
        <3> QED BY <2>0, <3>1, <3>2 DEF Attempting
    <2>3. ASSUME NEW r \in Requests, NEW v \in Upstreams, PicksUp(r, v)
          PROVE  Attempting(u)' \subseteq Attempting(u)
        <3>1. v # u
            BY <1>1, <2>3 DEF PicksUp, Admits
        <3> QED BY <2>0, <2>3, <3>1 DEF PicksUp, Attempting
    <2> QED BY <1>1, <2>1, <2>2, <2>3, StepKinds DEF Kinds
<1>2. Typed /\ Counted /\ [Next]_vars =>
        [\A u \in Upstreams :
           state[u] = "open" /\ ~cooled[u]
              => Attempting(u)' \subseteq Attempting(u)]_vars
    BY <1>1
<1> QED BY <1>2, CountedInvariant, PTL DEF Spec, OpenKeepsAway

-----------------------------------------------------------------------------
(* Shutdown                                                                *)

\* Once draining has ended cleanly nobody is at work, and nobody starts.
LEMMA CleanStep ==
    ASSUME Typed, Counted, CleanShutdown, [Next]_vars
    PROVE  CleanShutdown'
<1>0. Counted' /\ (Busy' \subseteq Busy \/ ~drain)
    BY StepKinds
<1>1. CleanShutdown <=> (phase \in {"drained", "closed"} => Busy = {})
    BY DEF CleanShutdown, Busy
<1>2. CleanShutdown' <=> (phase' \in {"drained", "closed"} => Busy' = {})
    BY DEF CleanShutdown, Busy
<1>3. CASE phase \in {"drained", "closed"}
    BY <1>0, <1>1, <1>2, <1>3 DEF Counted
<1>4. CASE Drained
    <2>1. Busy' = Busy
        BY <1>4 DEF Drained, Busy, InFlight
    <2>2. inflight = 0
        BY <1>4 DEF Drained, Counted
    <2>3. Busy = {}
        <3>1. IsFiniteSet(Busy)
            BY FS_Subset DEF Busy
        <3> QED BY <2>2, <3>1, FS_EmptySet DEF Counted
    <2> QED BY <1>2, <2>1, <2>3
<1>5. CASE Cleanup
    <2>1. CASE phase = "drained"
        BY <1>3, <2>1
    <2>2. CASE phase' = "aborted"
        BY <2>2 DEF CleanShutdown
    <2> QED BY <1>5, <2>1, <2>2 DEF Cleanup
<1>6. CASE Shutdown \/ DrainTimeout
    BY <1>6 DEF Shutdown, DrainTimeout, CleanShutdown
<1>7. ASSUME phase' = phase PROVE CleanShutdown'
    BY <1>2, <1>3, <1>7
<1>8. ASSUME NEW r \in Requests, Enter(r) \/ HandlerStep(r) \/ Cancel(r)
      PROVE  phase' = phase
    BY <1>8 DEF Enter, HandlerStep, Begin, Retry, Attempt, PickAndSend,
                SendFails, RetryStatus, ErrorBodyRead, ErrorBodyBroken,
                Headers, StreamEnds, StreamBroken, ClientGone, Reject,
                BudgetExpires, Failed, Cancel, Leave, leave_inflight
<1>9. ASSUME NEW u \in Upstreams, Cool(u) PROVE phase' = phase
    BY <1>9 DEF Cool
<1>10. CASE UNCHANGED vars
    BY <1>7, <1>10 DEF vars
<1> QED BY <1>4, <1>5, <1>6, <1>7, <1>8, <1>9, <1>10 DEF Next

\* Once _on_shutdown's wait has returned in time, and when the session is closed
\* after that, no handler is at work and none starts (inflight_middleware,
\* wait_drained).
THEOREM ShutdownIsClean == Spec => []CleanShutdown
<1>1. Init => CleanShutdown
    BY DEF Init, CleanShutdown
<1> QED BY <1>1, CleanStep, CountedInvariant, PTL DEF Spec

\* The wake-up of wait_drained is not lost: when the last handler has left,
\* however it left, the count is zero and the event set (leave_inflight).
THEOREM DrainCanAlwaysEnd == Spec => []DrainCanEnd
<1>1. Counted => DrainCanEnd
    <2> SUFFICES ASSUME Counted, \A r \in Requests : ~InFlight(r)
                 PROVE  inflight = 0 /\ inflightZero
        BY DEF DrainCanEnd
    <2>1. Busy = {}
        BY DEF Busy
    <2> QED BY <2>1, FS_EmptySet DEF Counted
<1> QED BY <1>1, CountedInvariant, PTL
=============================================================================

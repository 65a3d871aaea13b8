------------------------------ MODULE Gateway ------------------------------
(***************************************************************************)
(* The gateway's request path: the handlers of concurrent requests         *)
(* (gateway/proxy.py), the load balancer of their route, the circuit       *)
(* breakers of its upstreams, and the draining of the process              *)
(* (gateway/app.py).                                                       *)
(*                                                                         *)
(* The handlers are tasks of one event loop, so a step is what a handler   *)
(* does from one suspension to the next.  The locks of the balancer and of *)
(* the breakers never suspend a task: nothing is awaited while one is held *)
(* except another of them, so none is ever found taken.  What does suspend *)
(* is reading the request, waiting for response headers, for the body of a *)
(* retryable error, for the back-off, and streaming.  A task is cancelled  *)
(* only where it is suspended: by the request's time budget, or by the     *)
(* server when it forces the shutdown.                                     *)
(*                                                                         *)
(* Time is what it does to the code: cooled[u] says open_seconds have      *)
(* passed since opened_at, and a breaker that records a result drops       *)
(* however many of its oldest samples have left the window.                *)
(***************************************************************************)
EXTENDS Integers, Sequences, FiniteSets, SequencesExt, FiniteSetsExt

CONSTANTS
    Requests,
    NumUpstreams,      \* upstreams of the route, numbered as configured and
                       \* with names in that order
    MaxAttempts,       \* retries.max_attempts
    MinRequests,       \* circuit_breaker.min_requests
    RateNum, RateDen,  \* circuit_breaker.failure_rate
    HalfOpenMax        \* circuit_breaker.half_open_max_calls

Upstreams == 1..NumUpstreams

\* What _build_retry and _build_cb accept (config.py).
ASSUME GatewayAssumption ==
    /\ IsFiniteSet(Requests)
    /\ NumUpstreams \in Nat \ {0}
    /\ MaxAttempts \in Nat \ {0}
    /\ MinRequests \in Nat
    /\ RateNum \in Nat \ {0}
    /\ RateDen \in Nat \ {0}
    /\ RateNum <= RateDen
    /\ HalfOpenMax \in Nat \ {0}

VARIABLES
    \* CircuitBreaker of each upstream
    state, cooled, events, probes,
    \* LoadBalancer
    strategy, active, rr,
    \* handler of each request
    pc, at, attempt, tried,
    \* ProxyRuntime and shutdown
    inflight, inflightZero, drain, phase

breakerVars == <<state, cooled, events, probes>>
lbVars == <<strategy, active, rr>>
requestVars == <<pc, at, attempt, tried>>
runtimeVars == <<inflight, inflightZero, drain, phase>>
vars == <<breakerVars, lbVars, requestVars, runtimeVars>>

\* at = None: the handler is not busy with an upstream.
None == 0

Init ==
    /\ state = [u \in Upstreams |-> "closed"]
    /\ cooled = [u \in Upstreams |-> FALSE]
    /\ events = [u \in Upstreams |-> <<>>]
    /\ probes = [u \in Upstreams |-> 0]
    /\ active = [u \in Upstreams |-> 0]
    /\ strategy \in {"round_robin", "least_connections"}
    /\ rr = 1
    /\ pc = [r \in Requests |-> "idle"]
    /\ at = [r \in Requests |-> None]
    /\ attempt = [r \in Requests |-> 0]
    /\ tried = [r \in Requests |-> {}]
    /\ inflight = 0
    /\ inflightZero = TRUE
    /\ drain = FALSE
    /\ phase = "serving"

-----------------------------------------------------------------------------
(* CircuitBreaker *)

\* Mutant: one trial too many.
AdmitsOneMore(u) ==
    \/ state[u] = "closed"
    \/ state[u] = "open" /\ cooled[u]
    \/ state[u] = "half_open" /\ probes[u] <= HalfOpenMax

\* Mutant: the breaker is not asked.
AdmitsAlways(u) == TRUE

\* allow() raises unless this holds.
Admits(u) ==
    \/ state[u] = "closed"
    \/ state[u] = "open" /\ cooled[u]
    \/ state[u] = "half_open" /\ probes[u] < HalfOpenMax

allow(u) ==
    /\ state' = [state EXCEPT ![u] = IF @ = "open" THEN "half_open" ELSE @]
    /\ probes' = [probes EXCEPT ![u] = IF state[u] = "closed" THEN @
                                       ELSE IF state[u] = "open" THEN 1
                                       ELSE @ + 1]
    /\ UNCHANGED <<cooled, events>>

ReturnProbe(u) == probes' = [probes EXCEPT ![u] = Max({0, @ - 1})]

\* The window with a new sample and without its expired oldest ones.
Windows(u, ok) ==
    {Append(SubSeq(events[u], k, Len(events[u])), ok) :
        k \in 1..Len(events[u]) + 1}

\* min_requests and failure_rate are both reached.
Tripping(w) ==
    /\ Len(w) >= MinRequests
    /\ Cardinality({i \in DOMAIN w : ~w[i]}) * RateDen >= RateNum * Len(w)

record_success(u) ==
    /\ \/ /\ state[u] = "half_open"
          /\ state' = [state EXCEPT ![u] = "closed"]
          /\ events' = [events EXCEPT ![u] = <<>>]
       \/ /\ state[u] # "half_open"
          /\ \E w \in Windows(u, TRUE) : events' = [events EXCEPT ![u] = w]
          /\ UNCHANGED state
    /\ ReturnProbe(u)
    /\ UNCHANGED cooled

record_failure(u) ==
    /\ \/ /\ state[u] = "half_open"
          /\ state' = [state EXCEPT ![u] = "open"]
          /\ cooled' = [cooled EXCEPT ![u] = FALSE]
          /\ UNCHANGED events
       \/ /\ state[u] # "half_open"
          /\ \E w \in Windows(u, FALSE) :
                LET trips == state[u] = "closed" /\ Tripping(w) IN
                /\ events' = [events EXCEPT ![u] = w]
                /\ state' = [state EXCEPT ![u] = IF trips THEN "open" ELSE @]
                /\ cooled' = [cooled EXCEPT ![u] = IF trips THEN FALSE ELSE @]
    /\ ReturnProbe(u)

\* open_seconds have passed since opened_at.
Cool(u) ==
    /\ state[u] = "open"
    /\ ~cooled[u]
    /\ cooled' = [cooled EXCEPT ![u] = TRUE]
    /\ UNCHANGED <<state, events, probes, lbVars, requestVars, runtimeVars>>

-----------------------------------------------------------------------------
(* LoadBalancer *)

\* _ordered_candidates: the position of u in the order of this pick.
Rank(u) ==
    IF strategy = "least_connections"
    THEN Cardinality({v \in Upstreams :
                        \/ active[v] < active[u]
                        \/ active[v] = active[u] /\ v < u})
    ELSE (u - rr) % NumUpstreams

\* pick: the first candidate not tried yet whose breaker admits the request,
\* else the first of all.
Candidates(t) ==
    LET admitting == {u \in Upstreams : Admits(u)}
        eligible == IF admitting \ t # {} THEN admitting \ t ELSE admitting
    IN  {u \in eligible : \A v \in eligible : Rank(u) <= Rank(v)}

\* itertools.cycle: the cursor moves on with every pick.
NextCursor ==
    /\ rr' = IF strategy = "round_robin" THEN (rr % NumUpstreams) + 1 ELSE rr
    /\ UNCHANGED strategy

release(u) == active' = [active EXCEPT ![u] = Max({0, @ - 1})]

-----------------------------------------------------------------------------
(* In-flight requests *)

enter_inflight ==
    /\ inflight' = inflight + 1
    /\ inflightZero' = FALSE

\* Mutant: nobody is woken.
leave_inflightSilently ==
    /\ inflight' = inflight - 1
    /\ UNCHANGED <<inflightZero, drain, phase>>

leave_inflight ==
    /\ inflight' = inflight - 1
    /\ inflightZero' = (IF inflight = 1 THEN TRUE ELSE inflightZero)
    /\ UNCHANGED <<drain, phase>>

InFlight(r) == pc[r] \notin {"idle", "done"}

\* The handler returns or raises: the middleware's finally clause.
Leave(r) ==
    /\ pc' = [pc EXCEPT ![r] = "done"]
    /\ at' = [at EXCEPT ![r] = None]
    /\ attempt' = [attempt EXCEPT ![r] = 0]
    /\ tried' = [tried EXCEPT ![r] = {}]
    /\ leave_inflight

-----------------------------------------------------------------------------
(* The handler of a request *)

\* Mutant: requests are accepted while draining.
EnterAnyTime(r) ==
    /\ pc[r] = "idle"
    /\ pc' = [pc EXCEPT ![r] = "reading"]
    /\ enter_inflight
    /\ UNCHANGED <<breakerVars, lbVars, at, attempt, tried, drain, phase>>

\* inflight_middleware
Enter(r) ==
    /\ pc[r] = "idle"
    /\ \/ /\ drain
          /\ pc' = [pc EXCEPT ![r] = "done"]
          /\ UNCHANGED <<inflight, inflightZero>>
       \/ /\ ~drain
          /\ pc' = [pc EXCEPT ![r] = "reading"]
          /\ enter_inflight
    /\ UNCHANGED <<breakerVars, lbVars, at, attempt, tried, drain, phase>>

\* dispatch: no route matches, the rate limiter refuses, or the client goes
\* away before its body is read.
Reject(r) ==
    /\ pc[r] = "reading"
    /\ Leave(r)
    /\ UNCHANGED <<breakerVars, lbVars>>

\* pick for attempt n of request r, and the upstream called or, if there is
\* none (NoHealthyUpstreamError), the request given up.
PickAndSend(r, n, t) ==
    /\ NextCursor
    /\ \/ /\ Candidates(t) = {}
          /\ Leave(r)
          /\ UNCHANGED <<breakerVars, active>>
       \/ /\ \E u \in Candidates(t) :
                /\ allow(u)
                /\ active' = [active EXCEPT ![u] = @ + 1]
                /\ at' = [at EXCEPT ![r] = u]
          /\ pc' = [pc EXCEPT ![r] = "sending"]
          /\ attempt' = [attempt EXCEPT ![r] = n]
          /\ tried' = [tried EXCEPT ![r] = t]
          /\ UNCHANGED runtimeVars

\* One round of the loop of _attempt_loop, up to the request to the upstream.
Attempt(r, n, t) ==
    \/ drain /\ Leave(r) /\ UNCHANGED <<breakerVars, lbVars>>
    \/ ~drain /\ PickAndSend(r, n, t)

\* The body is read: the first attempt, under the time budget from here on.
Begin(r) == pc[r] = "reading" /\ Attempt(r, 1, {})

\* _sleep_or_drain returns, after the delay or because draining began.
Retry(r) == pc[r] = "backoff" /\ Attempt(r, attempt[r] + 1, tried[r])

\* The handler of UpstreamAttemptError.
Failed(r) ==
    /\ record_failure(at[r])
    /\ release(at[r])
    /\ \/ /\ attempt[r] >= MaxAttempts
          /\ Leave(r)
       \/ /\ attempt[r] < MaxAttempts
          /\ pc' = [pc EXCEPT ![r] = "backoff"]
          /\ at' = [at EXCEPT ![r] = None]
          /\ tried' = [tried EXCEPT ![r] = @ \cup {at[r]}]
          /\ UNCHANGED <<attempt, runtimeVars>>
    /\ UNCHANGED <<strategy, rr>>

\* _forward_once: the upstream cannot be reached or its time is up.
SendFails(r) == pc[r] = "sending" /\ Failed(r)

\* The status is in retry_on_status: its body is read first.
RetryStatus(r) ==
    /\ pc[r] = "sending"
    /\ pc' = [pc EXCEPT ![r] = "errbody"]
    /\ UNCHANGED <<breakerVars, lbVars, at, attempt, tried, runtimeVars>>

ErrorBodyRead(r) == pc[r] = "errbody" /\ Failed(r)

\* Reading that body fails: resp.read() is outside the try statement, and
\* _attempt_loop does not catch its exceptions either.
ErrorBodyBroken(r) ==
    /\ pc[r] = "errbody"
    /\ Leave(r)
    /\ UNCHANGED <<breakerVars, lbVars>>

\* Mutant: the balancer is told twice.
HeadersTwice(r) ==
    /\ pc[r] = "sending"
    /\ active' = [active EXCEPT ![at[r]] = Max({0, @ - 2})]
    /\ pc' = [pc EXCEPT ![r] = "streaming"]
    /\ UNCHANGED <<breakerVars, strategy, rr, at, attempt, tried, runtimeVars>>

Headers(r) ==
    /\ pc[r] = "sending"
    /\ release(at[r])
    /\ pc' = [pc EXCEPT ![r] = "streaming"]
    /\ UNCHANGED <<breakerVars, strategy, rr, at, attempt, tried, runtimeVars>>

\* _stream_response: the three ways it ends.
StreamEnds(r) ==
    /\ pc[r] = "streaming"
    /\ record_success(at[r])
    /\ Leave(r)
    /\ UNCHANGED lbVars

StreamBroken(r) ==
    /\ pc[r] = "streaming"
    /\ record_failure(at[r])
    /\ Leave(r)
    /\ UNCHANGED lbVars

ClientGone(r) ==
    /\ pc[r] = "streaming"
    /\ Leave(r)
    /\ UNCHANGED <<breakerVars, lbVars>>

\* asyncio.timeout cancels _attempt_loop where it is suspended.
BudgetExpires(r) ==
    /\ pc[r] \in {"sending", "errbody", "backoff"}
    /\ Leave(r)
    /\ UNCHANGED <<breakerVars, lbVars>>

-----------------------------------------------------------------------------
(* Shutdown *)

\* _on_shutdown
Shutdown ==
    /\ phase = "serving"
    /\ drain' = TRUE
    /\ phase' = "draining"
    /\ UNCHANGED <<breakerVars, lbVars, requestVars, inflight, inflightZero>>

\* wait_drained returns in time.
Drained ==
    /\ phase = "draining"
    /\ inflight = 0 \/ inflightZero
    /\ phase' = "drained"
    /\ UNCHANGED <<breakerVars, lbVars, requestVars, inflight, inflightZero,
                   drain>>

\* drain_timeout is over first.
DrainTimeout ==
    /\ phase = "draining"
    /\ phase' = "forced"
    /\ UNCHANGED <<breakerVars, lbVars, requestVars, inflight, inflightZero,
                   drain>>

\* aiohttp cancels what still runs when shutdown_timeout is over as well; the
\* handler learns of it when it runs next.
Cancel(r) ==
    /\ phase \in {"forced", "aborted"}
    /\ InFlight(r)
    /\ Leave(r)
    /\ UNCHANGED <<breakerVars, lbVars>>

\* _on_cleanup: the session is closed.  aiohttp does not wait for the handlers
\* that it has cancelled.
Cleanup ==
    /\ \/ phase = "drained" /\ phase' = "closed"
       \/ phase = "forced" /\ phase' = "aborted"
    /\ UNCHANGED <<breakerVars, lbVars, requestVars, inflight, inflightZero,
                   drain>>

-----------------------------------------------------------------------------
HandlerStep(r) ==
    \/ Begin(r) \/ Retry(r)
    \/ SendFails(r) \/ RetryStatus(r) \/ ErrorBodyRead(r) \/ ErrorBodyBroken(r)
    \/ Headers(r) \/ StreamEnds(r) \/ StreamBroken(r) \/ ClientGone(r)
    \/ Reject(r) \/ BudgetExpires(r)

\* A handler that is left when cleanup runs has been cancelled.
Next ==
    \/ \E u \in Upstreams : Cool(u)
    \/ \E r \in Requests :
          \/ Enter(r) \/ Cancel(r)
          \/ phase # "aborted" /\ HandlerStep(r)
    \/ Shutdown \/ Drained \/ DrainTimeout \/ Cleanup

Spec == Init /\ [][Next]_vars

-----------------------------------------------------------------------------
(* Properties *)

TypeOK ==
    /\ state \in [Upstreams -> {"closed", "open", "half_open"}]
    /\ cooled \in [Upstreams -> BOOLEAN]
    /\ events \in [Upstreams -> Seq(BOOLEAN)]
    /\ probes \in [Upstreams -> 0..HalfOpenMax]
    /\ active \in [Upstreams -> Nat]
    /\ strategy \in {"round_robin", "least_connections"}
    /\ rr \in Upstreams
    /\ pc \in [Requests -> {"idle", "reading", "sending", "errbody", "backoff",
                            "streaming", "done"}]
    /\ at \in [Requests -> Upstreams \cup {None}]
    /\ attempt \in [Requests -> 0..MaxAttempts]
    /\ tried \in [Requests -> SUBSET Upstreams]
    /\ inflight \in Nat
    /\ inflightZero \in BOOLEAN
    /\ drain \in BOOLEAN
    /\ phase \in {"serving", "draining", "drained", "forced", "closed",
                  "aborted"}

\* Requests waiting for the headers (or the error body) of upstream u.
Attempting(u) ==
    {r \in Requests : pc[r] \in {"sending", "errbody"} /\ at[r] = u}

\* Requests with any business left at upstream u.
Using(u) == {r \in Requests : at[r] = u}

\* The balancer never takes a busy upstream for idle: no attempt that ends, by
\* whichever path, on whichever try, releases the unit another attempt holds
\* (loadbalancer.py:74, proxy.py:235,258).  That every attempt releases its own
\* unit is ReleasedAfterAttempt, which does not hold.
ActiveCovers ==
    \A u \in Upstreams : active[u] >= Cardinality(Attempting(u))

\* Once _on_shutdown's wait has returned in time, and when the session is closed
\* after that, no handler is at work: one that read drain_event before it was
\* set has been counted, and the count reached zero after it left.
CleanShutdown ==
    phase \in {"drained", "closed"} => \A r \in Requests : ~InFlight(r)

\* A breaker that opened, or opened again, keeps new attempts away from the
\* upstream until open_seconds have passed, on the second round of pick too.
OpenKeepsAway ==
    [][\A u \in Upstreams :
         state[u] = "open" /\ ~cooled[u]
            => Attempting(u)' \subseteq Attempting(u)]_vars

\* The wake-up of wait_drained is not lost: when the last handler has left,
\* however it left, the wait that Shutdown began can end, without waiting for
\* drain_timeout.
DrainCanEnd ==
    phase = "draining" /\ (\A r \in Requests : ~InFlight(r))
        => inflight = 0 /\ inflightZero

\* loadbalancer.py:52: pick counts the upstream, and the caller must release it
\* after every attempt.  So the count is that of the attempts in progress.
ReleasedAfterAttempt ==
    \A u \in Upstreams : active[u] = Cardinality(Attempting(u))

\* src/README.md:118: HALF_OPEN admits trial requests, and success restores
\* CLOSED, failure OPEN.  So a half-open breaker with no trial left to admit
\* has one whose result is still to come.
ProbesReportBack ==
    \A u \in Upstreams :
        state[u] = "half_open" /\ probes[u] >= HalfOpenMax => Using(u) # {}

=============================================================================

------------------------------- MODULE Client -------------------------------
(***************************************************************************)
(* The write and read paths of the Go SDK (client/client.go) against the   *)
(* cluster of module KVStore: a cached leader address, redirection by the  *)
(* hint in a "not the leader" error, one automatic retry.  A connection    *)
(* may break before or after the server has taken the request, a proposal  *)
(* may outlive its five seconds, the caller's own deadline may pass, and a *)
(* request whose connection broke may still be executed later.             *)
(*                                                                         *)
(* The static leader may have been another node before: a client that has  *)
(* lived through the change still has the former address.                  *)
(***************************************************************************)
EXTENDS KVStore

CONSTANTS
    Clients,
    NoAddr,        \* "": no leader is known
    MaxCalls,      \* bound: Put and Delete calls of one client
    MaxFaults      \* bound: broken connections and deadlines that pass

ASSUME ClientAssumption ==
    NoAddr \notin Nodes /\ MaxCalls \in Nat /\ MaxFaults \in Nat

VARIABLES
    leader,     \* leader[c]: Client.leader
    call,       \* call[c]: the Put, Delete or Get in progress
    calls,      \* calls[c]: how many writes c has made
    outcome,    \* outcome[c]: how its last write ended
    read,       \* read[c]: its last Get answer
    stray,      \* requests of broken connections that may yet be executed
    faults

clientVars == <<leader, call, calls, outcome, read, stray, faults>>
allVars == <<vars, clientVars>>

Requests ==
    [type : {"put"}, key : Keys, ttl : Ttls, expected : Versions \cup {-1}]
        \cup [type : {"delete"}, key : Keys, expected : Versions \cup {-1}]

IdleCall == [pc |-> "idle"]

\* sent: the log indexes of the attempts so far; clean: nothing has failed;
\* broken: a connection has.
NewCall(req) == [pc |-> "call", req |-> req, attempt |-> 0, sent |-> {},
                 index |-> 0, clean |-> TRUE, broken |-> FALSE]
GetCall(n, kv) == [pc |-> "get", node |-> n, kv |-> kv]

Statuses == {"ok", "missing", "conflict", "noquorum", "unavailable", "deadline"}
NoOutcome == [status |-> "none", sent |-> {}, clean |-> TRUE, broken |-> FALSE]

ClientTypeOK ==
    /\ TypeOK
    /\ leader \in [Clients -> Nodes \cup {NoAddr}]
    /\ \A c \in Clients :
          \/ call[c] = IdleCall
          \/ call[c].pc = "get" /\ call[c].node \in Nodes
          \/ /\ call[c].pc \in {"call", "wait"}
             /\ call[c].req \in Requests
             /\ call[c].attempt \in 0..1
             /\ call[c].sent \subseteq DOMAIN log
             /\ Cardinality(call[c].sent) <= call[c].attempt + 1
    /\ calls \in [Clients -> 0..MaxCalls]
    /\ \A c \in Clients : outcome[c].status \in Statuses \cup {"none"}
    /\ read \in [Clients -> [kv : Entries, applied : Nat]]
    /\ stray \subseteq Requests
    /\ faults \in 0..MaxFaults

\* New, except that the address may be left over from an earlier leader.
ClientInit ==
    /\ Init
    /\ leader \in [Clients -> Nodes \cup {NoAddr}]
    /\ call = [c \in Clients |-> IdleCall]
    /\ calls = [c \in Clients |-> 0]
    /\ outcome = [c \in Clients |-> NoOutcome]
    /\ read = [c \in Clients |-> [kv |-> Absent, applied |-> 0]]
    /\ stray = {}
    /\ faults = 0

-----------------------------------------------------------------------------
(* How an attempt ends *)

Return(c, status, clean, broken) ==
    /\ outcome' = [outcome EXCEPT ![c] =
                      [status |-> status, sent |-> call[c].sent,
                       clean |-> clean, broken |-> broken]]
    /\ call' = [call EXCEPT ![c] = IdleCall]

\* Mutant: the rounds are not counted.
AgainUncounted(c, clean, broken, last) ==
    /\ call' = [call EXCEPT ![c] =
                   [@ EXCEPT !.pc = "call", !.clean = clean, !.broken = broken]]
    /\ UNCHANGED outcome

\* The next round of the loop, if there is one; Put and Delete have the same.
Again(c, clean, broken, last) ==
    IF call[c].attempt = 0
    THEN /\ call' = [call EXCEPT ![c] =
                        [@ EXCEPT !.pc = "call", !.attempt = 1,
                                  !.clean = clean, !.broken = broken]]
         /\ UNCHANGED outcome
    ELSE Return(c, last, clean, broken)

\* isRetryableTransport: forget the leader and try once more.
Unavailable(c, broken) ==
    /\ leader' = [leader EXCEPT ![c] =
                     IF call[c].attempt = 0 THEN NoAddr ELSE @]
    /\ Again(c, FALSE, call[c].broken \/ broken, "unavailable")

Fault == faults < MaxFaults /\ faults' = faults + 1

-----------------------------------------------------------------------------
(* Put and Delete *)

Begin(c, req) ==
    /\ call[c].pc = "idle"
    /\ calls[c] < MaxCalls
    /\ calls' = [calls EXCEPT ![c] = @ + 1]
    /\ call' = [call EXCEPT ![c] = NewCall(req)]
    /\ UNCHANGED <<vars, leader, outcome, read, stray, faults>>

\* Every node is configured with the leader and names it.
Info(n) == Leader
withLeaderHint(n) == Leader

\* discoverLeader: whichever node answers Info first.
Discover(c) ==
    /\ call[c].pc = "call"
    /\ leader[c] = NoAddr
    /\ \E n \in Nodes : leader' = [leader EXCEPT ![c] = Info(n)]
    /\ UNCHANGED <<vars, call, calls, outcome, read, stray, faults>>

\* No node answers: the call fails with the last error.
DiscoverFails(c) ==
    /\ call[c].pc = "call"
    /\ leader[c] = NoAddr
    /\ Fault
    /\ Return(c, "unavailable", FALSE, call[c].broken)
    /\ UNCHANGED <<vars, leader, calls, read, stray>>

Execute(req) ==
    \/ req.type = "put" /\ Put(req.key, req.ttl, req.expected)
    \/ req.type = "delete" /\ Delete(req.key, req.expected)

\* The request reaches the leader, which proposes it.
Submit(c) ==
    /\ call[c].pc = "call"
    /\ leader[c] = Leader
    /\ Execute(call[c].req)
    /\ call' = [call EXCEPT ![c] =
                   [@ EXCEPT !.pc = "wait", !.index = Len(log) + 1,
                             !.sent = call[c].sent \cup {Len(log) + 1}]]
    /\ UNCHANGED <<leader, calls, outcome, read, stray, faults>>

\* Mutant: the hint is not taken over.
NotLeaderUnheeded(c) ==
    /\ call[c].pc = "call"
    /\ leader[c] \notin {NoAddr, Leader}
    /\ Again(c, call[c].clean, call[c].broken, "noquorum")
    /\ UNCHANGED <<vars, leader, calls, read, stray, faults>>

\* Mutant: the same address is tried for ever.
NotLeaderLoops(c) ==
    /\ call[c].pc = "call"
    /\ leader[c] \notin {NoAddr, Leader}
    /\ UNCHANGED allVars

\* Another node refuses, with the leader's address in its error.
NotLeader(c) ==
    /\ call[c].pc = "call"
    /\ leader[c] \notin {NoAddr, Leader}
    /\ leader' = [leader EXCEPT ![c] = withLeaderHint(leader[c])]
    /\ Again(c, call[c].clean, call[c].broken, "noquorum")
    /\ UNCHANGED <<vars, calls, read, stray, faults>>

\* A request that has been given up may be with the leader already; its
\* handler may yet run.
Abandoned(c) ==
    stray' \in {stray} \cup
        (IF call[c].pc = "call" /\ leader[c] = Leader
         THEN {stray \cup {call[c].req}} ELSE {})

\* The connection breaks before the request is answered.
Break(c) ==
    /\ call[c].pc \in {"call", "wait"}
    /\ leader[c] # NoAddr
    /\ Fault
    /\ Unavailable(c, TRUE)
    /\ Abandoned(c)
    /\ UNCHANGED <<vars, calls, read>>

StrayExecutes(req) ==
    /\ req \in stray
    /\ stray' = stray \ {req}
    /\ Execute(req)
    /\ UNCHANGED <<leader, call, calls, outcome, read, faults>>

\* The server gives up waiting for the commit; the entry stays in the log.
ProposeTimeout(c) ==
    /\ call[c].pc = "wait"
    /\ rev[Leader] < call[c].index
    /\ Fault
    /\ Unavailable(c, FALSE)
    /\ UNCHANGED <<vars, calls, read, stray>>

\* The caller's own deadline passes: not a transport error, no retry.
CallDeadline(c) ==
    /\ call[c].pc \in {"call", "wait"}
    /\ Fault
    /\ Return(c, "deadline", FALSE, call[c].broken)
    /\ Abandoned(c)
    /\ UNCHANGED <<vars, leader, calls, read>>

\* Mutant: the handler answers as soon as the entry is in the log.
AnswerEarly(c) ==
    /\ call[c].pc = "wait"
    /\ Return(c, "ok", call[c].clean, call[c].broken)
    /\ UNCHANGED <<vars, leader, calls, read, stray, faults>>

Answer(c) ==
    /\ call[c].pc = "wait"
    /\ rev[Leader] >= call[c].index
    /\ Return(c, result[call[c].index], call[c].clean, call[c].broken)
    /\ UNCHANGED <<vars, leader, calls, read, stray, faults>>

-----------------------------------------------------------------------------
(* Get, from whichever node the rotation reaches.  The handler locks the   *)
(* store twice: for the entry, then for the revision it reports with it.   *)

GetRead(c, n, k) ==
    /\ call[c].pc = "idle"
    /\ call' = [call EXCEPT ![c] = GetCall(n, Get(n, k))]
    /\ UNCHANGED <<vars, leader, calls, outcome, read, stray, faults>>

\* Mutant: the revision of another node is reported.
GetReplyElsewhere(c) ==
    /\ call[c].pc = "get"
    /\ \E n \in Nodes :
          read' = [read EXCEPT ![c] = [kv |-> call[c].kv, applied |-> rev[n]]]
    /\ call' = [call EXCEPT ![c] = IdleCall]
    /\ UNCHANGED <<vars, leader, calls, outcome, stray, faults>>

GetReply(c) ==
    /\ call[c].pc = "get"
    /\ read' = [read EXCEPT ![c] = [kv |-> call[c].kv,
                                    applied |-> rev[call[c].node]]]
    /\ call' = [call EXCEPT ![c] = IdleCall]
    /\ UNCHANGED <<vars, leader, calls, outcome, stray, faults>>

Progress(c) ==
    \/ Discover(c) \/ Submit(c) \/ NotLeader(c) \/ Answer(c) \/ GetReply(c)

ClientNext ==
    \/ \E c \in Clients :
          \/ \E req \in Requests : Begin(c, req)
          \/ Progress(c)
          \/ DiscoverFails(c) \/ Break(c)
          \/ ProposeTimeout(c) \/ CallDeadline(c)
          \/ \E n \in Nodes, k \in Keys : GetRead(c, n, k)
    \/ \E req \in stray : StrayExecutes(req)
    \/ Background /\ UNCHANGED clientVars

\* The leader's commit loop and the sweeper's ticker keep running, and an RPC
\* that nothing disturbs is carried out and answered.
ClientSpec ==
    /\ ClientInit /\ [][ClientNext]_allVars
    /\ WF_allVars(Apply(Leader) /\ UNCHANGED clientVars)
    /\ WF_allVars(SweepScan /\ UNCHANGED clientVars)
    /\ WF_allVars(SweepPropose /\ UNCHANGED clientVars)
    /\ WF_allVars(SweepDone /\ UNCHANGED clientVars)
    /\ \A c \in Clients : WF_allVars(Progress(c))

-----------------------------------------------------------------------------
(* Properties *)

Settled == {"ok", "missing", "conflict"}

\* A call during which nothing fails gets the state machine's answer, even
\* when the client starts from the address of a former leader: two rounds
\* are enough for one redirection (client.go:212-235).
RedirectReaches ==
    \A c \in Clients :
        outcome[c].clean => outcome[c].status \in Settled \cup {"none"}

\* When a retried write has its answer, its earlier attempt has been decided
\* too and cannot overwrite a later value, unless a connection broke under
\* it (client.go:236-241: the retry is a second log entry, behind the first).
NoLateEffect ==
    \A c \in Clients :
        outcome[c].status \in Settled /\ ~outcome[c].broken
            => \A i \in outcome[c].sent : i <= rev[Leader]

\* A Get answer never reports a revision before that of the value it
\* carries, although the two are read under separate locks (kv.go:13-16).
GetCoversValue ==
    \A c \in Clients : read[c].kv.revision <= read[c].applied

\* Every call ends: redirections and retries do not go round in circles
\* (client.go:212-244).
CallsReturn ==
    \A c \in Clients : call[c].pc # "idle" ~> call[c].pc = "idle"

\* "Safe to retry: CAS keeps a write from taking effect twice or from being
\* misreported" (internal/server/errors.go:31-32).
RetrySafe ==
    \A c \in Clients :
        outcome[c].status = "conflict" /\ ~outcome[c].broken
            => \A i \in outcome[c].sent : result[i] = "conflict"
=============================================================================

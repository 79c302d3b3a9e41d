------------------------------ MODULE A2AQueue ------------------------------
(***************************************************************************)
(* The local A2A queue of apps/agent_manager and the goroutines around it: *)
(* couriers that claim a job for an agent, send it to the agent's session  *)
(* and give it back when that fails; agents that report results, and whose *)
(* sessions end; callers that submit; a user who cancels.                  *)
(*                                                                         *)
(* The queue's operations run under managerA2AQueueMu and are two steps    *)
(* each, the read of the rows and the write of those they change: Submit   *)
(* and a cancellation do not take the mutex and come between the two.      *)
(*                                                                         *)
(* A lease is "live", "due" at the very instant it expires, and "over";    *)
(* leases were taken at different times for different durations, so each   *)
(* ends by itself.                                                         *)
(***************************************************************************)
EXTENDS Naturals

CONSTANTS
    Jobs,           \* the rows of manager_a2a_jobs, submitted in any order
    Agents,
    Couriers,       \* the goroutines that deliver jobs
    None

ASSUME NamesApart ==
    /\ None \notin Agents \cup Jobs \cup Couriers
    /\ Agents \cap Couriers = {}
    /\ Agents \cap {"absent", "waiting", "succeeded", "failed"} = {}

VARIABLES
    job,            \* the table
    mutexOp,        \* the operation that holds the mutex, "free" for none
    caller,         \* the courier or agent that called it
    pending,        \* the rows it has changed and not written yet
    errand,         \* where each courier is, with which job for which agent
    up,             \* the agents that have a session
    told,           \* the jobs each session was told to do
    delivered,      \* history: jobs whose present claim reached its agent
    cancelling      \* the row a cancellation has read, with its job

vars == <<job, mutexOp, caller, pending, errand, up,
           told, delivered, cancelling>>
sessions == <<up, told>>

Row == [status : {"absent", "queued", "claimed", "succeeded", "failed"},
        to : Agents \cup {None}, by : Agents \cup {None},
        lease : {"none", "live", "due", "over"}]

Absent == [status |-> "absent", to |-> None, by |-> None, lease |-> "none"]
Queued == [Absent EXCEPT !.status = "queued"]
Idle == [at |-> "idle", to |-> None, job |-> None]
Claimed(a) == [status |-> "claimed", to |-> a, by |-> a, lease |-> "live"]

NothingPending == [j \in Jobs |-> Absent]
Unheld == mutexOp' = "free" /\ caller' = None /\ pending' = NothingPending

\* The operation o of c begins, or goes on, with these rows to write.
Holds(o, c, js, row) ==
    /\ mutexOp' = o /\ caller' = c
    /\ pending' = [j \in Jobs |-> IF j \in js THEN row ELSE Absent]

-----------------------------------------------------------------------------
\* Submit: a queued row for whoever will claim it.  Its look-up of an
\* idempotency key, which one sender uses, belongs to Webhooks.
Submit(j) ==
    /\ job[j] = Absent
    /\ job' = [job EXCEPT ![j] = Queued]
    /\ UNCHANGED <<mutexOp, caller, pending, errand, sessions, delivered, cancelling>>

-----------------------------------------------------------------------------
(***************************************************************************)
(* The operations under the mutex.                                         *)
(***************************************************************************)
LiveClaim(a, j) == job[j].status = "claimed" /\ job[j].by = a /\ job[j].lease # "over"
Busy(a) == \E j \in Jobs : LiveClaim(a, j)
BusyOther(a, j) == \E i \in Jobs \ {j} : LiveClaim(a, i)

Expired == {j \in Jobs : job[j].status = "claimed" /\ job[j].lease \in {"due", "over"}}

\* Fault: a lease that has run out is not looked at.
OwnsClaim(a, j) == job[j].status = "claimed" /\ job[j].by = a

\* The owner may complete or extend at the very instant the lease expires.
OwnsLive(a, j) == LiveClaim(a, j)

\* ClaimJob and ClaimJobs: requeueExpiredClaims first.
ClaimBegin(c) ==
    /\ mutexOp = "free"
    /\ Holds("expire", c, Expired, Queued)

CourierClaims(c) ==
    /\ errand[c].at = "picked" /\ ClaimBegin(c)
    /\ UNCHANGED <<job, errand, sessions, delivered, cancelling>>

\* ClaimJobs: an agent asks for the next job itself.
AgentClaims(a) ==
    /\ a \in up /\ ClaimBegin(a)
    /\ UNCHANGED <<job, errand, sessions, delivered, cancelling>>

\* Fault: nobody asks whether the agent is busy.
MayClaimUnchecked(a, j) == job[j].status = "queued" /\ job[j].to \in {None, a}

\* claimQueuedJobLocked: one job per agent.
MayClaim(a, j) ==
    job[j].status = "queued" /\ job[j].to \in {None, a} /\ ~BusyOther(a, j)

ClaimRefused(c, a, j) ==
    /\ ~MayClaim(a, j)
    /\ errand' = [errand EXCEPT ![c] = IF OwnsLive(a, j) THEN [@ EXCEPT !.at = "claimed"]
                                                        ELSE Idle]
    /\ Unheld

\* ClaimJob reads the row: it claims a queued job, answers with a claim that
\* the agent has already, and refuses everything else.
CourierReads(c) ==
    LET a == errand[c].to  j == errand[c].job
    IN
    /\ mutexOp = "read" /\ caller = c
    /\ IF MayClaim(a, j)
       THEN Holds("claim", c, {j}, Claimed(a)) /\ UNCHANGED errand
       ELSE ClaimRefused(c, a, j)
    /\ UNCHANGED <<job, sessions, delivered, cancelling>>

AgentReads(a) ==
    /\ mutexOp = "read" /\ caller = a
    /\ \/ \E j \in Jobs : MayClaim(a, j) /\ Holds("claim", a, {j}, Claimed(a))
       \/ (\A j \in Jobs : ~MayClaim(a, j)) /\ Unheld
    /\ UNCHANGED <<job, errand, sessions, delivered, cancelling>>

\* CompleteJob, by the session that was told to do the job.
Complete(a, j, outcome) ==
    /\ mutexOp = "free" /\ a \in up /\ j \in told[a] /\ OwnsLive(a, j)
    /\ Holds("complete", a, {j},
             [job[j] EXCEPT !.status = outcome, !.by = a, !.lease = "none"])
    /\ UNCHANGED <<job, errand, sessions, delivered, cancelling>>

ExtendLease(a, j) ==
    /\ mutexOp = "free" /\ a \in up /\ j \in told[a] /\ OwnsLive(a, j)
    /\ Holds("extend", a, {j}, [job[j] EXCEPT !.lease = "live"])
    /\ UNCHANGED <<job, errand, sessions, delivered, cancelling>>

\* RequeueClaimedJob: whoever's claim it is by now, if the agent is the same.
GiveBack(c) ==
    /\ mutexOp = "free" /\ errand[c].at = "return"
    /\ IF job[errand[c].job].status = "claimed" /\ job[errand[c].job].to = errand[c].to
       THEN Holds("return", c, {errand[c].job}, Queued) /\ UNCHANGED errand
       ELSE errand' = [errand EXCEPT ![c] = Idle] /\ UNCHANGED <<mutexOp, caller, pending>>
    /\ UNCHANGED <<job, sessions, delivered, cancelling>>

\* RequeueAgentClaims: when a session has closed, and before an agent that is
\* started, or found running, is given work.
RequeueAgentClaims(a) ==
    /\ mutexOp = "free" /\ a \notin up
    /\ Holds("restart", a, {j \in Jobs : job[j].status = "claimed" /\ job[j].to = a}, Queued)
    /\ UNCHANGED <<job, errand, sessions, delivered, cancelling>>

Overwritten == {j \in Jobs : pending[j] # Absent}
Overlaid == [j \in Jobs |-> IF j \in Overwritten THEN pending[j] ELSE job[j]]

\* The rows are written.  A claim goes on from its requeues to its read; the
\* caller of a claim has the job, and of a return nothing.
Write ==
    /\ mutexOp \in {"expire", "claim", "complete", "extend", "return", "restart"}
    /\ job' = Overlaid
    /\ delivered' = IF mutexOp = "extend" THEN delivered ELSE delivered \ Overwritten
    /\ IF mutexOp = "expire"
       THEN mutexOp' = "read" /\ UNCHANGED caller /\ pending' = NothingPending
       ELSE Unheld
    /\ errand' = [c \in Couriers |->
                    CASE caller = c /\ mutexOp = "claim" -> [errand[c] EXCEPT !.at = "claimed"]
                      [] caller = c /\ mutexOp = "return" -> Idle
                      [] OTHER -> errand[c]]
    /\ told' = [a \in Agents |->
                  IF caller = a /\ a \in up /\ mutexOp = "claim" THEN told[a] \cup Overwritten ELSE told[a]]
    /\ UNCHANGED <<up, cancelling>>

-----------------------------------------------------------------------------
(***************************************************************************)
(* Delivery, sessions and leases.                                          *)
(***************************************************************************)
\* deliverQueuedCompanyMethodJobs: the agent is free, the job is in the queue.
Pick(c, a, j) ==
    /\ errand[c] = Idle /\ mutexOp = "free"
    /\ ~Busy(a) /\ job[j].status = "queued"
    /\ errand' = [errand EXCEPT ![c] = [at |-> "picked", to |-> a, job |-> j]]
    /\ UNCHANGED <<job, mutexOp, caller, pending, sessions, delivered, cancelling>>

\* SendHeartbeat: written to the session.
HeartbeatSent(c) ==
    /\ errand[c].at = "claimed" /\ errand[c].to \in up
    /\ errand' = [errand EXCEPT ![c] = Idle]
    /\ told' = [told EXCEPT ![errand[c].to] = @ \cup {errand[c].job}]
    /\ delivered' = LET j == errand[c].job
                    IN  IF job[j].status = "claimed" /\ job[j].by = errand[c].to
                        THEN delivered \cup {j} ELSE delivered
    /\ UNCHANGED <<job, mutexOp, caller, pending, up, cancelling>>

\* No session, or its input channel is full.
HeartbeatFails(c) ==
    /\ errand[c].at = "claimed" /\ errand' = [errand EXCEPT ![c].at = "return"]
    /\ UNCHANGED <<job, mutexOp, caller, pending, sessions, delivered, cancelling>>

\* GetOrCreateSession, by a heartbeat or by whoever opens the terminal.
SessionBegins(a) ==
    /\ a \notin up /\ up' = up \cup {a}
    /\ UNCHANGED <<job, mutexOp, caller, pending, errand, told, delivered, cancelling>>

SessionEnds(a) ==
    /\ a \in up /\ up' = up \ {a} /\ told' = [told EXCEPT ![a] = {}]
    /\ UNCHANGED <<job, mutexOp, caller, pending, errand, delivered, cancelling>>

LeasePasses(j) ==
    /\ \/ job[j].lease = "live" /\ job' = [job EXCEPT ![j].lease = "due"]
       \/ job[j].lease \in {"live", "due"} /\ job' = [job EXCEPT ![j].lease = "over"]
    /\ UNCHANGED <<mutexOp, caller, pending, errand, sessions, delivered, cancelling>>

(***************************************************************************)
(* cancelPipelineJobByID: reads the row and writes it back, without the    *)
(* mutex.                                                                  *)
(***************************************************************************)
CancelRead(j) ==
    /\ cancelling = Absent /\ job[j].status \in {"queued", "claimed"}
    /\ cancelling' = [job |-> j, row |-> job[j]]
    /\ UNCHANGED <<job, mutexOp, caller, pending, errand, sessions, delivered>>

CancelWrite ==
    /\ cancelling # Absent
    /\ job' = [job EXCEPT ![cancelling.job] =
                 [cancelling.row EXCEPT !.status = "failed", !.lease = "none"]]
    /\ cancelling' = Absent
    /\ UNCHANGED <<mutexOp, caller, pending, errand, sessions, delivered>>

(***************************************************************************)
(* isAgentBusyLocked answers "not busy" when its query fails.              *)
(***************************************************************************)
CourierReadsUnanswered(c) ==
    /\ mutexOp = "read" /\ caller = c /\ job[errand[c].job].status = "queued"
    /\ Holds("claim", c, {errand[c].job}, Claimed(errand[c].to))
    /\ UNCHANGED <<job, errand, sessions, delivered, cancelling>>

-----------------------------------------------------------------------------
Init ==
    /\ job = [j \in Jobs |-> Absent]
    /\ mutexOp = "free" /\ caller = None /\ pending = NothingPending
    /\ errand = [c \in Couriers |-> Idle]
    /\ up = {} /\ told = [a \in Agents |-> {}]
    /\ delivered = {} /\ cancelling = Absent

CourierNext(c) ==
    \/ \E a \in Agents, j \in Jobs : Pick(c, a, j)
    \/ CourierClaims(c) \/ CourierReads(c)
    \/ HeartbeatSent(c) \/ HeartbeatFails(c) \/ GiveBack(c)

AgentNext(a) ==
    \/ AgentClaims(a) \/ AgentReads(a) \/ RequeueAgentClaims(a)
    \/ SessionBegins(a) \/ SessionEnds(a)
    \/ \E j \in Jobs : ExtendLease(a, j)
    \/ \E j \in Jobs, outcome \in {"succeeded", "failed"} : Complete(a, j, outcome)

Next ==
    \/ Write
    \/ \E j \in Jobs : Submit(j)
    \/ \E c \in Couriers : CourierNext(c)
    \/ \E a \in Agents : AgentNext(a)
    \/ \E j \in Jobs : LeasePasses(j)

Spec == Init /\ [][Next]_vars

\* With a user who cancels, and with a busy query that may fail.
CancelNext == Next \/ (\E j \in Jobs : CancelRead(j)) \/ CancelWrite
CancelSpec == Init /\ [][CancelNext]_vars

FailOpenNext == Next \/ \E c \in Couriers : CourierReadsUnanswered(c)
FailOpenSpec == Init /\ [][FailOpenNext]_vars

\* Operations finish, whoever delivers jobs keeps looking for one, and a
\* session that stays closed has its claims requeued.
FairSpec ==
    /\ Spec /\ WF_vars(Write)
    /\ \A c \in Couriers : WF_vars(CourierNext(c))
    /\ \A a \in Agents : WF_vars(AgentReads(a)) /\ WF_vars(RequeueAgentClaims(a))

-----------------------------------------------------------------------------
A2AQueueTypeOK ==
    /\ job \in [Jobs -> Row] /\ pending \in [Jobs -> Row]
    /\ mutexOp \in {"free", "expire", "read", "claim", "complete", "extend", "return", "restart"}
    /\ caller \in Couriers \cup Agents \cup {None}
    /\ errand \in [Couriers -> {Idle} \cup
                     [at : {"picked", "claimed", "return"}, to : Agents, job : Jobs]]
    /\ up \subseteq Agents /\ told \in [Agents -> SUBSET Jobs]
    /\ delivered \subseteq Jobs
    /\ cancelling \in {Absent} \cup [job : Jobs, row : Row]

\* "Enforce single-job-per-agent" (claimQueuedJobLocked): whatever couriers,
\* restarts, late heartbeats and cancellations do, an agent has at most one
\* claim whose lease has not passed.
OneJobPerAgent ==
    \A a \in Agents, i, j \in Jobs : LiveClaim(a, i) /\ LiveClaim(a, j) => i = j

\* Whose job a row says it is.
Whole(row) ==
    /\ row.status \in {"absent", "queued"} => row.to = None /\ row.by = None
    /\ row.status = "claimed" => row.by \in Agents /\ row.to = row.by
    /\ row.status = "claimed" <=> row.lease # "none"

\* A job in the queue belongs to nobody, so any agent may claim it; a claimed
\* one names its agent twice and has a lease; no other has one.  Every path
\* that requeues, and every cancellation that writes back what it once read,
\* leaves the row whole.
RowsWhole == \A j \in Jobs : Whole(job[j])

\* The queue's invariant.
A2AQueueInv == A2AQueueTypeOK /\ OneJobPerAgent /\ RowsWhole

\* The queue as its users see it: a claim whose lease is over no longer
\* counts, except while its owner, who was in time, is being written.
Lapsed(j) ==
    /\ job[j].status = "claimed" /\ job[j].lease = "over"
    /\ ~(mutexOp \in {"complete", "extend"} /\ j \in Overwritten)

Seen(j) ==
    IF job[j].status = "queued" \/ Lapsed(j) THEN "waiting"
    ELSE IF job[j].status = "claimed" THEN job[j].by ELSE job[j].status

Board == INSTANCE JobBoard WITH board <- [j \in Jobs |-> Seen(j)]

\* Without a user who cancels, the rows behave like the board: one job per
\* agent, finished once, by the agent that has it.
IsJobBoard == Board!Spec

\* A job that was sent to an agent stays its job while the lease lasts and
\* the agent's session does: the return of another delivery's failure does
\* not take it away.  "Used when a claimed job cannot be delivered to the
\* agent runtime" (RequeueClaimedJob).
DeliveredStays ==
    [][\A j \in Jobs :
         /\ j \in delivered /\ job[j].lease = "live" /\ job[j].by \in up
         /\ job'[j].status = "queued"
         => mutexOp = "restart"]_vars

\* A result is final: "job is already succeeded" is what a cancellation
\* answers that comes after it (cancelPipelineJob).
ResultIsFinal ==
    [][\A j \in Jobs : job[j].status \in {"succeeded", "failed"} =>
         job'[j].status = job[j].status]_vars

\* "Stuck jobs auto-expire and can be reclaimed" (devdocs/agentified_shop.md):
\* a claim whose lease has passed does not stay.  It is requeueExpiredClaims
\* that takes it back, and only a claim of some job in the queue calls it.
StuckIsReclaimed ==
    \A j \in Jobs : job[j].lease = "over" ~> job[j].lease # "over"
=============================================================================

------------------------------ MODULE Webhooks ------------------------------
(***************************************************************************)
(* Webhook events of apps/agent_manager, from the provider's request to a  *)
(* job in the A2A queue: handlers of requests, of which a provider repeats *)
(* some, that persist an event and answer; and one loop that turns events  *)
(* into jobs, retries them and gives up.  The manager may stop anywhere.   *)
(*                                                                         *)
(* The row of an event is named by the request that persisted it.  Jobs    *)
(* are counted by their idempotency key: the event and the target of the   *)
(* configuration it was matched with.                                      *)
(***************************************************************************)
EXTENDS Integers, FiniteSets

CONSTANTS
    Requests,       \* webhook requests
    Events,         \* the provider's event ids
    EventOf,        \* which event a request is about
    Targets,        \* roles with methods that a configuration may name
    Nowhere,        \* no enabled configuration, or no agent for it
    Limit,          \* events taken in one tick (ten)
    MaxAttempts,    \* processEvent's maxAttempts (five)
    MaxMishaps,     \* bound: stops of the manager, and writes that fail
    MaxEdits        \* bound: changes of the configuration

ASSUME WebhooksAssumption ==
    /\ EventOf \in [Requests -> Events] /\ Nowhere \notin Targets
    /\ Limit \in Nat \ {0} /\ MaxAttempts \in Nat \ {0}
    /\ MaxMishaps \in Nat /\ MaxEdits \in Nat

VARIABLES
    request,        \* how far each request's handler has come
    row,            \* webhook_events
    due,            \* the rows whose next_retry_at has passed
    target,         \* what the configuration says
    jobs,           \* how many jobs each idempotency key has
    taken,          \* the rows the loop has read in this tick
    doing,          \* the row it works on, its target, and what comes next
    mishaps, edits

vars == <<request, row, due, target, jobs, taken, doing, mishaps, edits>>
worker == <<taken, doing>>
bounds == <<mishaps, edits>>

NoRow == [status |-> "absent", attempts |-> 0, wait |-> 0]
Nothing == [at |-> "idle"]
Key(r, t) == <<EventOf[r], t>>
Rows == {r \in Requests : row[r].status # "absent"}
Known(r) == \E q \in Rows : EventOf[q] = EventOf[r]

-----------------------------------------------------------------------------
\* eventExists answers no when its query fails.
LookUp(r) ==
    /\ request[r] = "coming"
    /\ \/ Known(r) /\ request' = [request EXCEPT ![r] = "duplicate"]
       \/ request' = [request EXCEPT ![r] = "new"]
    /\ UNCHANGED <<row, due, target, jobs, worker, bounds>>

\* Fault: no unique index on event_id.
PersistUnchecked(r) ==
    /\ request[r] = "new"
    /\ request' = [request EXCEPT ![r] = "accepted"]
    /\ row' = [row EXCEPT ![r] = [NoRow EXCEPT !.status = "pending"]]
    /\ due' = due \cup {r}
    /\ UNCHANGED <<target, jobs, worker, bounds>>

\* The unique index decides between handlers that both found nothing.
Persist(r) ==
    /\ request[r] = "new"
    /\ IF Known(r)
       THEN request' = [request EXCEPT ![r] = "duplicate"] /\ UNCHANGED <<row, due>>
       ELSE /\ request' = [request EXCEPT ![r] = "accepted"]
            /\ row' = [row EXCEPT ![r] = [NoRow EXCEPT !.status = "pending"]]
            /\ due' = due \cup {r}
    /\ UNCHANGED <<target, jobs, worker, bounds>>

-----------------------------------------------------------------------------
Open(status) == {r \in due : row[r].status = status}

\* Fault: failed events are not asked for.
TickPendingOnly ==
    /\ doing = Nothing /\ taken = {} /\ Open("pending") # {}
    /\ \E S \in SUBSET Open("pending") : S # {} /\ Cardinality(S) <= Limit /\ taken' = S
    /\ UNCHANGED <<request, row, due, target, jobs, doing, bounds>>

\* getPendingEvents: new events before those to be retried.
Tick ==
    /\ doing = Nothing /\ taken = {}
    /\ \E S \in SUBSET (Open("pending") \cup Open("failed")) :
         /\ S # {} /\ Cardinality(S) <= Limit
         /\ S \cap Open("failed") # {} => Open("pending") \subseteq S
         /\ taken' = S
    /\ UNCHANGED <<request, row, due, target, jobs, doing, bounds>>

\* processEvent: the configuration, the agent and the payload's schema.
Match(r) ==
    /\ doing = Nothing /\ r \in taken
    /\ taken' = taken \ {r}
    /\ \/ target # Nowhere /\ doing' = [at |-> "submit", row |-> r, to |-> target]
       \/ doing' = [at |-> "fail", row |-> r, to |-> target]
    /\ UNCHANGED <<request, row, due, target, jobs, bounds>>

\* Submit with an idempotency key: the job that is there, or a new one.
Submit ==
    /\ doing.at = "submit"
    /\ jobs' = [jobs EXCEPT ![Key(doing.row, doing.to)] = IF @ > 0 THEN @ ELSE 1]
    /\ doing' = [doing EXCEPT !.at = "deliver"]
    /\ UNCHANGED <<request, row, due, target, taken, bounds>>

SubmitFails ==
    /\ doing.at = "submit" /\ mishaps < MaxMishaps
    /\ mishaps' = mishaps + 1
    /\ doing' = [doing EXCEPT !.at = "fail"]
    /\ UNCHANGED <<request, row, due, target, jobs, taken, edits>>

MarkDelivered ==
    /\ doing.at = "deliver"
    /\ row' = [row EXCEPT ![doing.row].status = "delivered"]
    /\ doing' = Nothing
    /\ UNCHANGED <<request, due, target, jobs, taken, bounds>>

\* Seconds until the next attempt.
Backoff(attempts) == 30 * 4^attempts

Failed(old) ==
    IF old.attempts + 1 >= MaxAttempts
    THEN [old EXCEPT !.attempts = @ + 1, !.status = "dead_letter"]
    ELSE [status |-> "failed", attempts |-> old.attempts + 1, wait |-> Backoff(old.attempts + 1)]

\* markEventFailed.
MarkFailed ==
    /\ doing.at = "fail"
    /\ row' = [row EXCEPT ![doing.row] = Failed(@)]
    /\ due' = due \ {doing.row}
    /\ doing' = Nothing
    /\ UNCHANGED <<request, target, jobs, taken, bounds>>

\* The result of either update is not looked at.
MarkIsLost ==
    /\ doing.at \in {"deliver", "fail"} /\ mishaps < MaxMishaps
    /\ mishaps' = mishaps + 1
    /\ doing' = Nothing
    /\ UNCHANGED <<request, row, due, target, jobs, taken, edits>>

-----------------------------------------------------------------------------
RetryTimeComes(r) ==
    /\ row[r].status = "failed" /\ r \notin due /\ due' = due \cup {r}
    /\ UNCHANGED <<request, row, target, jobs, worker, bounds>>

\* The operator changes the configuration, or agents lose and gain abilities.
Edit ==
    /\ edits < MaxEdits /\ edits' = edits + 1
    /\ \E t \in Targets \cup {Nowhere} : t # target /\ target' = t
    /\ UNCHANGED <<request, row, due, jobs, worker, mishaps>>

\* The manager stops; requests that were being handled get no answer.
Stop ==
    /\ mishaps < MaxMishaps /\ mishaps' = mishaps + 1
    /\ request' = [r \in Requests |-> IF request[r] = "new" THEN "lost" ELSE request[r]]
    /\ taken' = {} /\ doing' = Nothing
    /\ UNCHANGED <<row, due, target, jobs, edits>>

Init ==
    /\ request = [r \in Requests |-> "coming"]
    /\ row = [r \in Requests |-> NoRow] /\ due = {}
    /\ target \in Targets \cup {Nowhere}
    /\ jobs = [k \in Events \X Targets |-> 0]
    /\ taken = {} /\ doing = Nothing
    /\ mishaps = 0 /\ edits = 0

Works ==
    \/ \E r \in taken : Match(r)
    \/ Submit \/ SubmitFails \/ MarkDelivered \/ MarkFailed \/ MarkIsLost

Next ==
    \/ \E r \in Requests : LookUp(r) \/ Persist(r) \/ RetryTimeComes(r)
    \/ Tick \/ Works \/ Edit \/ Stop

Spec == Init /\ [][Next]_vars

\* The loop's ticker ticks, an event once taken is worked on, time passes.
FairSpec ==
    /\ Spec /\ WF_vars(Tick) /\ WF_vars(Works)
    /\ \A r \in Requests : WF_vars(RetryTimeComes(r))

-----------------------------------------------------------------------------
Waits == {0} \cup {Backoff(n) : n \in 0..MaxAttempts}

WebhooksTypeOK ==
    /\ request \in [Requests -> {"coming", "new", "accepted", "duplicate", "lost"}]
    /\ row \in [Requests -> [status : {"absent", "pending", "failed", "delivered", "dead_letter"},
                             attempts : Nat, wait : Waits]]
    /\ due \subseteq Requests /\ taken \subseteq Requests
    /\ target \in Targets \cup {Nowhere}
    /\ jobs \in [Events \X Targets -> Nat]
    /\ \/ doing = Nothing
       \/ doing \in [at : {"submit", "deliver"}, row : Requests, to : Targets]
       \/ doing \in [at : {"fail"}, row : Requests, to : Targets \cup {Nowhere}]
    /\ mishaps \in Nat /\ edits \in Nat

\* Repeated requests handled at once make one row, and whoever is told
\* "accepted" or "duplicate" can forget the event: there is a row for it.
OneRowPerEvent == \A q, r \in Rows : EventOf[q] = EventOf[r] => q = r
AnsweredIsKept == \A r \in Requests : request[r] \in {"accepted", "duplicate"} => Known(r)

\* Whatever is retried, after a stop between job and mark too, makes no
\* second job for the same target.
OneJobPerTarget == \A k \in Events \X Targets : jobs[k] <= 1

\* An event that counts as delivered has its job.
DeliveredHasJob ==
    \A r \in Requests : row[r].status = "delivered" => \E t \in Targets : jobs[Key(r, t)] > 0

\* What webhooks promise of every state.
EventsInv ==
    /\ WebhooksTypeOK /\ OneRowPerEvent /\ AnsweredIsKept
    /\ OneJobPerTarget /\ DeliveredHasJob

\* What has been accepted is delivered or given up.
Settles ==
    \A r \in Requests :
        row[r].status \in {"pending", "failed"} ~> row[r].status \in {"delivered", "dead_letter"}

-----------------------------------------------------------------------------
\* "retries must not create duplicate A2A jobs" (devdocs/agentified_shop.md).
OneJobPerEvent ==
    \A e \in Events, s, t \in Targets :
        jobs[<<e, s>>] > 0 /\ jobs[<<e, t>>] > 0 => s = t

\* "Exponential backoff: 30s, 2min, 8min, 32min" (markEventFailed).
Announced == <<30, 120, 480, 1920>>
BackoffAsAnnounced ==
    \A r \in Requests : row[r].status = "failed" => row[r].wait = Announced[row[r].attempts]
=============================================================================

------------------------------- MODULE NetJobs -------------------------------
(***************************************************************************)
(* The A2A jobs of the agent network's server (agent_net): senders submit  *)
(* them, the workers of the recipient claim, extend and complete them, a   *)
(* maintenance worker takes back what ran out of time, and a courier posts *)
(* results to the sender's callback URL.                                   *)
(*                                                                         *)
(* Claims, completions, extensions, the maintenance and the courier's      *)
(* records run under a2aMu.  What does not take it inserts a row or reads  *)
(* rows, so an operation under it is one step; a submission is two, its    *)
(* look-up of the idempotency key and its insert, and a delivery is three. *)
(***************************************************************************)
EXTENDS Naturals, FiniteSets

CONSTANTS
    Requests,           \* what is submitted: idempotency key, recipient, callback
    NoKey,              \* a request without a key
    Askers,             \* submissions under way at once
    Workers, Serves,    \* processes that claim, and for which recipient
    Nobody,
    MaxNetJobs,         \* bound: jobs
    MaxRedelivery,      \* A2AMaxRedelivery
    MaxAttempts,        \* A2ACallbackMaxAttempts
    Batch,              \* MaxJobs of a claim
    MaxNetMishaps       \* bound: restarts, failed writes, lost responses

Recipients == {q.to : q \in Requests}

NetJobsAssumption ==
    /\ \A q \in Requests : DOMAIN q = {"key", "to", "callback"} /\ q.callback \in {"none", "pending"}
    /\ Nobody \notin Requests /\ Nobody \notin Recipients
    /\ Serves \in [Workers -> Recipients]
    /\ {MaxNetJobs, MaxRedelivery, MaxNetMishaps} \subseteq Nat
    /\ {MaxAttempts, Batch} \subseteq Nat \ {0}

VARIABLES
    rows,           \* a2a_jobs, in the order of created_at
    submission,     \* what each asker is about to insert
    holds,          \* the jobs a worker was given and has not finished
    tour,          \* the courier's due jobs, as it read them
    posted,         \* the one it has posted and not recorded
    netMishaps,
    handed,         \* history: how often a job was claimed
    accepted,       \* history: the outcomes that were accepted of a worker
    learned           \* history: the outcomes that reached the callback URL

netVars == <<rows, submission, holds, tour, posted, netMishaps, handed, accepted, learned>>
courierVars == <<tour, posted>>
history == <<handed, accepted, learned>>

Ids == 1..MaxNetJobs
Final == {"succeeded", "failed"}
Absent == [status |-> "absent", key |-> NoKey, to |-> Nobody, by |-> Nobody,
           lease |-> "none", ttl |-> "left", redelivery |-> 0,
           callback |-> "none", attempts |-> 0, next |-> "due"]

Mishap == netMishaps < MaxNetMishaps /\ netMishaps' = netMishaps + 1

-----------------------------------------------------------------------------
Newest == Cardinality({j \in Ids : rows[j] # Absent})

\* SubmitA2AJob.  A key that is known is answered with its job.
LookUp(p, q) ==
    /\ submission[p] = Nobody /\ Newest < MaxNetJobs
    /\ q.key = NoKey \/ \A j \in Ids : rows[j].key # q.key
    /\ submission' = [submission EXCEPT ![p] = q]
    /\ UNCHANGED <<rows, holds, courierVars, netMishaps, history>>

Insert(p) ==
    /\ submission[p] # Nobody /\ Newest < MaxNetJobs
    /\ LET s == submission[p]
       IN  rows' = [rows EXCEPT ![Newest + 1] =
                      [Absent EXCEPT !.status = "queued", !.key = s.key, !.to = s.to,
                                     !.callback = s.callback]]
    /\ submission' = [submission EXCEPT ![p] = Nobody]
    /\ UNCHANGED <<holds, courierVars, netMishaps, history>>

-----------------------------------------------------------------------------
(***************************************************************************)
(* cleanupA2ALocked: the maintenance, and the first half of every claim.   *)
(***************************************************************************)
Open(row) == row.status \in {"queued", "claimed"}
\* Fault: a job that nobody claims is never looked at.
StaleLeases == {j \in Ids : rows[j].lease = "over"}

Stale == {j \in Ids : Open(rows[j]) /\ (rows[j].ttl = "over" \/ rows[j].lease = "over")}

Taken(row, status) ==
    [row EXCEPT !.status = status, !.by = Nobody, !.lease = "none", !.ttl = "left"]
Asked(row) == IF row.callback = "none" THEN "none" ELSE "pending"

Cleaned(row) ==
    IF row.ttl = "over" THEN Taken(row, "expired")
    ELSE IF row.redelivery + 1 > MaxRedelivery
    THEN [Taken(row, "failed") EXCEPT !.callback = Asked(row), !.next = "due"]
    ELSE [Taken(row, "queued") EXCEPT !.redelivery = @ + 1]

Swept(js) == [j \in Ids |-> IF j \in js THEN Cleaned(rows[j]) ELSE rows[j]]

Maintain ==
    /\ Stale # {} /\ rows' = Swept(Stale)
    /\ UNCHANGED <<submission, holds, courierVars, netMishaps, history>>

\* A write fails, and the rows after it stay as they are.  A claim that meets
\* this answers with the error.
MaintenanceFails ==
    /\ Mishap
    /\ \E js \in (SUBSET Stale) \ {{}, Stale} : rows' = Swept(js)
    /\ UNCHANGED <<submission, holds, courierVars, history>>

-----------------------------------------------------------------------------
(***************************************************************************)
(* The recipient's workers.                                                *)
(***************************************************************************)
Waiting(r) == {j \in Ids : Swept(Stale)[j].status = "queued" /\ rows[j].to = r}
Oldest(n, js) == {j \in js : Cardinality({i \in js : i < j}) < n}

Gives(js, r) ==
    /\ rows' = [j \in Ids |-> IF j \in js
                  THEN [Swept(Stale)[j] EXCEPT !.status = "claimed", !.by = r, !.lease = "whole"]
                  ELSE Swept(Stale)[j]]
    /\ handed' = [j \in Ids |-> IF j \in js THEN handed[j] + 1 ELSE handed[j]]
    /\ UNCHANGED <<submission, courierVars, accepted, learned>>

\* ClaimA2AJobs.
Claim(w) ==
    LET js == Oldest(Batch, Waiting(Serves[w]))
    IN  /\ js # {} /\ Gives(js, Serves[w])
        /\ holds' = [holds EXCEPT ![w] = @ \cup js]
        /\ UNCHANGED netMishaps

\* A write fails, or the response is lost: some are claimed, no worker knows.
ClaimUnheard(w) ==
    /\ Mishap
    /\ \E n \in 1..Batch :
         LET js == Oldest(n, Waiting(Serves[w])) IN js # {} /\ Gives(js, Serves[w])
    /\ UNCHANGED holds

OwnsLease(w, j) ==
    /\ rows[j].status = "claimed" /\ rows[j].by = Serves[w]
    /\ rows[j].lease # "over"

\* ExtendA2ALease.
Extend(w, j) ==
    /\ j \in holds[w] /\ OwnsLease(w, j)
    /\ rows' = [rows EXCEPT ![j].lease = "whole"]
    /\ UNCHANGED <<submission, holds, courierVars, netMishaps, history>>

\* CompleteA2AJob.
Ended(row, outcome) ==
    [Taken(row, outcome) EXCEPT !.callback = Asked(row), !.next = "due"]

Complete(w, j, outcome) ==
    /\ j \in holds[w] /\ OwnsLease(w, j)
    /\ rows' = [rows EXCEPT ![j] = Ended(@, outcome)]
    /\ accepted' = [accepted EXCEPT ![j] = @ \cup {outcome}]
    \* The worker that does not hear the answer will try again.
    /\ \/ holds' = [holds EXCEPT ![w] = @ \ {j}] /\ UNCHANGED netMishaps
       \/ Mishap /\ UNCHANGED holds
    /\ UNCHANGED <<submission, courierVars, handed, learned>>

CompleteRefused(w, j) ==
    /\ j \in holds[w] /\ ~OwnsLease(w, j)
    /\ holds' = [holds EXCEPT ![w] = @ \ {j}]
    /\ UNCHANGED <<rows, submission, courierVars, netMishaps, history>>

-----------------------------------------------------------------------------
(***************************************************************************)
(* The courier: processA2ACallbacks.                                       *)
(***************************************************************************)
\* GetDueA2ACallbackJobs, fewer than its limit of 25.  A callback is
\* "pending" from the submission on.
Due == {j \in Ids : /\ rows[j].callback \in {"pending", "retrying"}
                    /\ rows[j].status \in Final
                    /\ rows[j].next = "due"}

ReadDue ==
    /\ tour = {} /\ posted = Nobody /\ Due # {}
    /\ tour' = {[job |-> j, says |-> rows[j].status] : j \in Due}
    /\ UNCHANGED <<rows, submission, holds, posted, netMishaps, history>>

\* deliverA2ACallback: the endpoint may have read what it did not confirm.
Post ==
    /\ posted = Nobody
    /\ \E n \in tour, confirmed, read \in BOOLEAN :
         /\ confirmed => read
         /\ tour' = tour \ {n} /\ posted' = [job |-> n.job, delivered |-> confirmed]
         /\ learned' = IF read THEN [learned EXCEPT ![n.job] = @ \cup {n.says}] ELSE learned
    /\ UNCHANGED <<rows, submission, holds, netMishaps, handed, accepted>>

Recorded(row, delivered, windowOver) ==
    LET tries == row.attempts + 1
        status == IF delivered THEN "delivered"
                  ELSE IF tries >= MaxAttempts \/ windowOver THEN "dead"
                  ELSE "retrying"
    IN  [row EXCEPT !.attempts = tries, !.callback = status,
                    !.next = IF status = "retrying" THEN "later" ELSE "due"]

\* RecordA2ACallbackOutcome, within A2ACallbackRetryWindow of the completion
\* or, when the server was down for long, after it.  An outcome whose write fails is forgotten, and
\* the job is due again.
Record ==
    /\ posted # Nobody /\ posted' = Nobody
    /\ \/ /\ \E windowOver \in BOOLEAN :
               rows' = [rows EXCEPT ![posted.job] = Recorded(@, posted.delivered, windowOver)]
          /\ UNCHANGED netMishaps
       \/ Mishap /\ UNCHANGED rows
    /\ UNCHANGED <<submission, holds, tour, history>>

-----------------------------------------------------------------------------
(***************************************************************************)
(* Time, and a restart of the server: its table stays.                     *)
(***************************************************************************)
LeasePasses(j) ==
    /\ \/ rows[j].lease = "whole" /\ rows' = [rows EXCEPT ![j].lease = "ending"]
       \/ rows[j].lease = "ending" /\ rows' = [rows EXCEPT ![j].lease = "over"]
    /\ UNCHANGED <<submission, holds, courierVars, netMishaps, history>>

TTLPasses(j) ==
    /\ Open(rows[j]) /\ rows[j].ttl = "left"
    /\ rows' = [rows EXCEPT ![j].ttl = "over"]
    /\ UNCHANGED <<submission, holds, courierVars, netMishaps, history>>

BackoffPasses(j) ==
    /\ rows[j].next = "later" /\ rows' = [rows EXCEPT ![j].next = "due"]
    /\ UNCHANGED <<submission, holds, courierVars, netMishaps, history>>

Restart ==
    /\ Mishap
    /\ submission' = [p \in Askers |-> Nobody] /\ tour' = {} /\ posted' = Nobody
    /\ UNCHANGED <<rows, holds, history>>

-----------------------------------------------------------------------------
Init ==
    /\ rows = [j \in Ids |-> Absent]
    /\ submission = [p \in Askers |-> Nobody] /\ holds = [w \in Workers |-> {}]
    /\ tour = {} /\ posted = Nobody /\ netMishaps = 0
    /\ handed = [j \in Ids |-> 0]
    /\ accepted = [j \in Ids |-> {}] /\ learned = [j \in Ids |-> {}]

AskerNext(p) ==
    Insert(p) \/ \E q \in Requests : LookUp(p, q)

WorkerNext(w) ==
    \/ Claim(w) \/ ClaimUnheard(w)
    \/ \E j \in Ids : Extend(w, j) \/ CompleteRefused(w, j)
    \/ \E j \in Ids, outcome \in Final : Complete(w, j, outcome)

CourierNext == ReadDue \/ Post \/ Record

ClockNext(j) == TTLPasses(j) \/ BackoffPasses(j)

Next ==
    \/ \E p \in Askers : AskerNext(p)
    \/ \E w \in Workers : WorkerNext(w)
    \/ Maintain \/ MaintenanceFails
    \/ CourierNext \/ Restart
    \/ \E j \in Ids : LeasePasses(j) \/ ClockNext(j)

\* Time passes, and the server's two tickers tick.
Spec ==
    /\ Init /\ [][Next]_netVars
    /\ WF_netVars(Maintain) /\ WF_netVars(CourierNext)
    /\ \A j \in Ids : WF_netVars(ClockNext(j))

-----------------------------------------------------------------------------
NetJobsTypeOK ==
    /\ rows \in [Ids -> [status : {"absent", "queued", "claimed", "expired"} \cup Final,
                         key : {q.key : q \in Requests} \cup {NoKey}, to : Recipients \cup {Nobody},
                         by : Recipients \cup {Nobody},
                         lease : {"none", "whole", "ending", "over"}, ttl : {"left", "over"},
                         redelivery : 0..MaxRedelivery,
                         callback : {"none", "pending", "retrying", "delivered", "dead"},
                         attempts : 0..MaxAttempts, next : {"due", "later"}]]
    /\ submission \in [Askers -> Requests \cup {Nobody}]
    /\ holds \in [Workers -> SUBSET Ids]
    /\ tour \subseteq [job : Ids, says : Final]
    /\ netMishaps \in 0..MaxNetMishaps

\* A claimed job has a recipient and a lease, and no other job has either.
ClaimsWhole ==
    \A j \in Ids :
        /\ rows[j].status = "claimed" <=> rows[j].by # Nobody
        /\ rows[j].status = "claimed" <=> rows[j].lease # "none"
        /\ rows[j].status = "claimed" => rows[j].by = rows[j].to

\* "A2AMaxRedelivery caps lease-expiration retries before hard failure"
\* (a2a.go): claims that nobody heard of and restarts included.
HandedOutSeldom == \A j \in Ids : handed[j] <= MaxRedelivery + 1

\* At most one completion of a job is accepted, and it is the one the job
\* keeps, whatever other workers of the recipient, late ones and the
\* maintenance do.
OneResult ==
    \A j \in Ids : accepted[j] # {} => accepted[j] = {rows[j].status}

\* "Terminal results are POSTed to that URL" (handlers_public_a2a_skill.go):
\* the URL is told the outcome the job ends with and no other, and a callback
\* that counts as delivered was heard.
CallbackTellsTheEnd ==
    \A j \in Ids :
        /\ learned[j] \subseteq {rows[j].status} \cap Final
        /\ rows[j].callback = "delivered" => learned[j] # {}

NetJobsInv ==
    NetJobsTypeOK /\ ClaimsWhole /\ HandedOutSeldom /\ OneResult /\ CallbackTellsTheEnd

\* A job waits for its end, or its result for a callback that is delivered or
\* given up.
JobWaits ==
    \E j \in Ids : \/ Open(rows[j])
                   \/ rows[j].status \in Final /\ rows[j].callback \in {"pending", "retrying"}

\* Jobs end even if no worker ever claims one, and callbacks are settled even
\* if no endpoint ever answers.
JobsSettle == []<>~JobWaits

\* What the documentation says and the code does not do: "idempotency_key
\* deduplicates repeated submits by the same sender".
OneJobPerKey ==
    \A i, j \in Ids : rows[i].key = rows[j].key /\ rows[i].key # NoKey => i = j
=============================================================================

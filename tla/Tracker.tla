------------------------------- MODULE Tracker ------------------------------
(***************************************************************************)
(* The work items of src/projects: the state machine of items.go, the      *)
(* queue of queue.go and tiers.go, rereview.go and the failure count of    *)
(* runs.go, over the roster of module Rotation.                            *)
(*                                                                         *)
(* Every handler of Service holds one mutex from its first read to its     *)
(* last write, so a handler is one step.  Titles, bodies, priorities, URLs *)
(* and the feed decide nothing about an item's state and are left out; a   *)
(* request the code refuses is no step.                                    *)
(***************************************************************************)
EXTENDS Rotation

CONSTANTS
    Items,          \* item ids
    Projects,       \* project ids
    NoProject,      \* the empty project id of a personal task
    Owner,          \* ActorOwner
    NoOne,          \* an empty Assignee, Reviewer or Implementer
    NoRef,          \* an empty After
    Same,           \* a field a patch leaves alone
    LeaseTime,      \* Service.lease
    MaxItemFailures,
    MaxHops,        \* the hop cap of afterChainLoops
    Drafts,         \* what CreateItem is asked for
    Patches,        \* what UpdateItem is asked for
    ProjectStates,  \* what UpdateProject may leave a project as
    FailureCap      \* failed runs counted at most: a bound for model checking

Statuses == {"open", "in_progress", "in_review", "pending_approval",
             "approved", "blocked", "done", "closed", "cancelled"}

\* Features, bugs and chores take the same transitions: "coding".
Types == {"task", "coding", "code_review"}

\* After holds an item's key: KEY-N, or its id while it has no number.
Refs == [id : Items, key : {"number", "id"}]

Settings == {"active", "repository", "automatic"}

ItemDrafts ==
    [type : Types, project : Projects \cup {NoProject},
     assignee : Agents \cup {NoOne}, tier : TierNumbers \cup {0},
     spec : {"raw", "specced"}, hold : {"free", "held"},
     after : Items \cup {NoRef}]

ItemPatches ==
    [project : Projects \cup {Same}, type : Types \cup {Same},
     tier : TierNumbers \cup {Same},
     assignee : Agents \cup {Owner, NoOne, Same},
     after : Items \cup {NoRef, Same}, description : {"new", Same}]

ASSUME PeopleAssumption ==
    /\ Owner \notin Agents /\ NoOne \notin Agents /\ Owner # NoOne
    /\ Same \notin Agents /\ Same # Owner /\ Same # NoOne
    /\ Same \notin Types /\ Same \notin Projects /\ Same \notin TierNumbers
    /\ Same \notin Items /\ Same # NoRef /\ Same # "new"
ASSUME PlaceAssumption ==
    /\ NoProject \notin Projects
    /\ NoRef \notin Refs /\ NoRef \notin Items
ASSUME InputAssumption ==
    /\ Drafts \subseteq ItemDrafts
    /\ Patches \subseteq ItemPatches
    /\ ProjectStates \subseteq SUBSET Settings
ASSUME NumberAssumption ==
    /\ LeaseTime \in Nat \ {0}
    /\ MaxItemFailures \in Nat \ {0}
    /\ MaxHops \in Nat \ {0}
    /\ FailureCap \in Nat

VARIABLES
    item,       \* the item rows
    settings    \* per project: active, has a repository path, merges on a
                \* review's approval alone (MergeApprovalAutomatic)

trackerVars == <<item, settings>>
vars == <<rotationVars, trackerVars>>

\* The row of an id nobody has filed an item under yet.
Blank ==
    [status |-> "absent", type |-> "coding", project |-> NoProject,
     key |-> "id", assignee |-> NoOne, tier |-> 0, implementer |-> NoOne,
     reviewer |-> NoOne, lease |-> 0, branch |-> "none", commit |-> "none",
     verdict |-> "none", after |-> NoRef, hold |-> "free", failures |-> 0,
     spec |-> "specced"]

Ended(r) == r.status \in {"done", "closed", "cancelled"}
Exists(i) == item[i].status # "absent"

-----------------------------------------------------------------------------
(***************************************************************************)
(* Leases, dependencies and what a project allows.                         *)
(***************************************************************************)
LeaseExpired(r) == r.lease # 0 /\ now > r.lease
LeaseLive(r) == r.lease # 0 /\ ~LeaseExpired(r)

\* The worker a live lease belongs to.
HoldsLiveLease(a, r) ==
    /\ LeaseLive(r) /\ r.type # "task" /\ r.assignee # Owner
    /\ \/ r.status = "in_progress" /\ r.assignee = a
       \/ r.status = "in_review" /\ r.reviewer = a
       \/ r.status = "approved" /\ r.implementer = a

LiveLeases(a) == {i \in Items : HoldsLiveLease(a, item[i])}

\* Fault: a full worker takes one more.
HasFreeSlotPlusOne(a) == Cardinality(LiveLeases(a)) <= slots[a]
HasFreeSlot(a) == Cardinality(LiveLeases(a)) < slots[a]

MergeInFlight(p) ==
    \E i \in Items : /\ item[i].status = "approved" /\ item[i].project = p
                     /\ item[i].type # "task" /\ item[i].assignee # Owner
                     /\ LeaseLive(item[i])

Workable(p) == p \in Projects /\ {"active", "repository"} \subseteq settings[p]
Automatic(p) == p \in Projects /\ "automatic" \in settings[p]

AfterSettled(r) == r.after # NoRef => Ended(item[r.after.id])

ItemKey(i) == [id |-> i, key |-> item[i].key]

\* Fault: only the direct dependency is compared.
AfterChainMeets(start, self) == start = self

\* The items met by following After from start, NoRef from the chain's end on.
AfterChain(start) ==
    LET chain[n \in 0..MaxHops] ==
            IF n = 0 THEN start
            ELSE IF chain[n - 1] = NoRef THEN NoRef
            ELSE item[chain[n - 1].id].after
    IN  chain

\* afterChainLoops: following After from start meets the key self.
AfterChainLoops(start, self) ==
    \E n \in 0..(MaxHops - 1) : AfterChain(start)[n] = self

\* The item resolveAfter accepts for an item of project p.
MayFollow(j, p) == Exists(j) /\ item[j].project = p

Pinnable(a) == a \in workers /\ Availability(quota, a, now) # "unavailable"

\* itemTier: the item's own, else its worker's, else the baseline.
ItemTier(r) ==
    IF r.tier > 0 THEN r.tier
    ELSE IF r.assignee \in workers THEN tier[r.assignee]
    ELSE IF r.implementer \in workers THEN tier[r.implementer]
    ELSE DefaultTier

-----------------------------------------------------------------------------
(***************************************************************************)
(* Every transition ends alike: a task stays with the owner, the row is    *)
(* saved and the parked waits are woken.                                   *)
(***************************************************************************)
Settled(r) == IF r.type = "task" THEN [r EXCEPT !.assignee = Owner] ELSE r

Save(i, r) == item' = [item EXCEPT ![i] = Settled(r)]

Transition(i, r) ==
    /\ Save(i, r)
    /\ woke' = "yes"
    /\ UNCHANGED <<rows, now, settings>>

(***************************************************************************)
(* The claim.  q is the quota function: a check-in claims on the report it *)
(* has just recorded.                                                      *)
(***************************************************************************)
MayClaimOpen(q, r, a) ==
    /\ r.status = "open"
    /\ r.assignee = a \/ (r.assignee = NoOne /\ MayPull(q, a, ItemTier(r)))
    /\ AfterSettled(r)

MayClaimInProgress(r, a) ==
    r.status = "in_progress" /\ ~LeaseLive(r) /\ r.assignee = a

MayClaimReview(q, r, a) ==
    /\ r.status = "in_review" /\ ~LeaseLive(r)
    /\ MayReview(q, a, r.implementer)

\* Fault: a merge starts beside another one of its project.
MayClaimMergeBeside(r, a) ==
    r.status = "approved" /\ r.implementer = a /\ ~LeaseLive(r)

MayClaimMerge(r, a) ==
    /\ r.status = "approved" /\ r.implementer = a /\ ~LeaseLive(r)
    /\ ~MergeInFlight(r.project)

CanClaim(q, i, a) ==
    LET r == item[i] IN
    /\ a \in workers /\ r.type # "task" /\ r.assignee # Owner
    /\ HasFreeSlot(a) \/ HoldsLiveLease(a, r)
    /\ r.hold = "free"
    /\ \/ MayClaimOpen(q, r, a)
       \/ MayClaimInProgress(r, a)
       \/ MayClaimReview(q, r, a)
       \/ MayClaimMerge(r, a)

Leased(r) == [r EXCEPT !.lease = now + LeaseTime]

Claimed(r, a) ==
    CASE r.status = "open" ->
            Leased([r EXCEPT !.status = "in_progress", !.assignee = a])
      [] r.status = "in_review" -> Leased([r EXCEPT !.reviewer = a])
      [] OTHER -> Leased(r)

Claim(i, a) == CanClaim(quota, i, a) /\ Transition(i, Claimed(item[i], a))

MayRelease(r, a) ==
    \/ r.status = "in_progress" /\ r.assignee = a
    \/ r.status = "in_review" /\ r.reviewer = a
    \/ r.status = "approved" /\ r.implementer = a

\* A released implementation goes back to open still pinned to its worker.
Released(r) ==
    CASE r.status = "in_progress" ->
            [r EXCEPT !.status = "open", !.lease = 0]
      [] r.status = "in_review" ->
            [r EXCEPT !.reviewer = NoOne, !.lease = 0]
      [] OTHER -> [r EXCEPT !.lease = 0]

Release(i, a) == MayRelease(item[i], a) /\ Transition(i, Released(item[i]))

-----------------------------------------------------------------------------
(***************************************************************************)
(* What a worker hands back.  The code asks only for the actor's name, not *)
(* for a row or a live lease.                                              *)
(***************************************************************************)
HeldInProgress(r, a) == r.status = "in_progress" /\ r.assignee = a

\* Fault: the implementer's lease is left on the review.
SubmittedKeepingLease(r, a) ==
    [r EXCEPT !.status = "in_review", !.branch = "named", !.commit = "none",
              !.implementer = a, !.assignee = NoOne, !.reviewer = NoOne]

Submitted(r, a) ==
    [r EXCEPT !.status = "in_review", !.branch = "named", !.commit = "none",
              !.implementer = a, !.assignee = NoOne, !.reviewer = NoOne,
              !.lease = 0]

Submit(i, a) ==
    /\ HeldInProgress(item[i], a) /\ item[i].type # "code_review"
    /\ Transition(i, Submitted(item[i], a))

\* A code review goes straight to the owner, with or without a verdict.
SubmitCodeReview(i, a, verdict) ==
    LET r == item[i] IN
    /\ HeldInProgress(r, a) /\ r.type = "code_review"
    /\ Transition(i, [r EXCEPT
            !.status = "pending_approval", !.implementer = a,
            !.assignee = Owner, !.reviewer = NoOne, !.lease = 0,
            !.verdict = IF verdict = "none" THEN @ ELSE verdict])

\* Fault: the implementer may review.
MayReviewOwn(r, a) ==
    /\ r.status = "in_review"
    /\ r.reviewer \in {NoOne, a} \/ LeaseExpired(r)

\* Fault: a reviewer whose lease was taken over still gets its verdict in.
MayReviewLate(r, a) == r.status = "in_review" /\ a # r.implementer

\* A verdict: by anyone but the implementer, and past another reviewer only
\* once that one's lease has run out.
MayReviewNow(r, a) ==
    /\ r.status = "in_review" /\ a # r.implementer
    /\ r.reviewer \in {NoOne, a} \/ LeaseExpired(r)

ReviewApprove(i, a, commit) ==
    LET r == item[i] IN
    /\ MayReviewNow(r, a)
    /\ Automatic(r.project) => commit = "recorded"
    /\ Transition(i, [r EXCEPT
            !.status = IF Automatic(r.project)
                       THEN "approved" ELSE "pending_approval",
            !.commit = commit, !.assignee = NoOne, !.reviewer = a,
            !.verdict = "approve", !.lease = 0])

ReviewRequestChanges(i, a) ==
    LET r == item[i] IN
    /\ MayReviewNow(r, a)
    /\ Transition(i, [r EXCEPT
            !.status = "in_progress", !.commit = "none",
            !.assignee = r.implementer, !.reviewer = a,
            !.verdict = "request_changes", !.lease = 0])

Rework(i, a) ==
    LET r == item[i] IN
    /\ Automatic(r.project) /\ r.status = "approved" /\ r.implementer = a
    /\ Transition(i, [r EXCEPT
            !.status = "in_progress", !.assignee = a, !.commit = "none",
            !.verdict = "request_changes", !.lease = 0])

\* The groomer's spec, with a tier (0 keeps it) and a worker to pin it to.
Groom(i, a, t, handTo) ==
    LET r == item[i] IN
    /\ HeldInProgress(r, a) /\ r.spec = "raw"
    /\ t # 0 => TierExists(t)
    /\ handTo # NoOne => Pinnable(handTo)
    /\ Transition(i, [r EXCEPT
            !.status = "open", !.tier = IF t = 0 THEN @ ELSE t,
            !.assignee = handTo, !.spec = "specced", !.lease = 0])

\* Blocked keeps its assignee: reopen returns it to the same worker.
Block(i, a) ==
    /\ HeldInProgress(item[i], a)
    /\ Transition(i, [item[i] EXCEPT !.status = "blocked", !.lease = 0])

\* By the owner or the implementer; a code review completes by approval.
Complete(i, a) ==
    LET r == item[i] IN
    /\ r.type = "coding" /\ r.status = "approved"
    /\ a \in {Owner, r.implementer}
    /\ Transition(i, [r EXCEPT
            !.status = "done", !.assignee = NoOne, !.lease = 0])

-----------------------------------------------------------------------------
(***************************************************************************)
(* The owner's transitions.                                                *)
(***************************************************************************)
Approved(r) ==
    [r EXCEPT !.status = IF r.type = "code_review" THEN "done" ELSE "approved",
              !.assignee = NoOne, !.lease = 0]

Approve(i) ==
    /\ item[i].status = "pending_approval"
    /\ Transition(i, Approved(item[i]))

\* The commit a pending item was reviewed at stays until the next submit.
RequestChanges(i) ==
    LET r == item[i] IN
    /\ r.status = "pending_approval"
    /\ Transition(i, [r EXCEPT
            !.status = "in_progress", !.assignee = r.implementer,
            !.verdict = "request_changes", !.lease = 0])

CompleteTask(i) ==
    LET r == item[i] IN
    /\ Exists(i) /\ r.type = "task" /\ ~Ended(r)
    /\ Transition(i, [r EXCEPT !.status = "done", !.lease = 0])

\* A reopened item without an assignee returns to its implementer, if that
\* worker is still there and in, else to its tier's pool.
Reopened(r) ==
    LET back == /\ r.implementer \in workers
                /\ ~Out(quota, r.implementer)
        to == IF r.assignee = NoOne /\ back THEN r.implementer ELSE r.assignee
    IN  [r EXCEPT !.status = "open", !.assignee = to, !.reviewer = NoOne,
                  !.lease = 0,
                  !.tier = IF r.assignee = NoOne /\ r.tier = 0
                           THEN ItemTier([r EXCEPT !.assignee = to]) ELSE @]

Reopen(i) ==
    /\ item[i].status = "blocked" \/ Ended(item[i])
    /\ Transition(i, Reopened(item[i]))

Hold(i) ==
    LET r == item[i] IN
    /\ r.status \in {"open", "in_review", "approved"}
    /\ ~LeaseLive(r) /\ r.hold = "free"
    /\ Transition(i, [r EXCEPT !.hold = "held"])

Unhold(i) ==
    LET r == item[i] IN
    /\ Exists(i) /\ ~Ended(r) /\ r.hold = "held"
    /\ Transition(i, [r EXCEPT !.hold = "free", !.failures = 0])

Cancel(i) ==
    LET r == item[i] IN
    /\ Exists(i) /\ r.status # "approved" /\ ~Ended(r)
    /\ Transition(i, [r EXCEPT
            !.status = "cancelled", !.assignee = NoOne, !.lease = 0])

Close(i) ==
    /\ item[i].status = "done"
    /\ Transition(i, [item[i] EXCEPT !.status = "closed", !.lease = 0])

(***************************************************************************)
(* Another round of a code review: back to the earlier reviewer while it   *)
(* is in, else to the top tier's pool.                                     *)
(***************************************************************************)
RereviewTier(r) ==
    IF r.implementer \in workers /\ ~Out(quota, r.implementer)
    THEN tier[r.implementer] ELSE TopTier

Rereviewed(r) ==
    [r EXCEPT !.status = "open", !.tier = RereviewTier(r),
              !.assignee = IF /\ r.implementer \in workers
                              /\ ~Out(quota, r.implementer)
                           THEN r.implementer ELSE NoOne,
              !.reviewer = NoOne, !.branch = "none", !.hold = "free",
              !.spec = "specced", !.failures = 0, !.lease = 0]

MayRereview(r) ==
    r.type = "code_review" /\ ~LeaseLive(r) /\ Workable(r.project)
    /\ TierExists(RereviewTier(r))

Rereview(i) ==
    /\ Exists(i) /\ MayRereview(item[i])
    /\ Transition(i, Rereviewed(item[i]))

\* QueueReview: an earlier ticket or personal task becomes the code review
\* of its pull request again, numbered if it had no number.
QueueReview(i) ==
    LET r == item[i]
        requested == [r EXCEPT !.type = "code_review", !.key = "number"]
    IN
    /\ Exists(i) /\ r.type \in {"code_review", "task"}
    /\ ~(/\ r.type = "code_review" /\ r.hold = "free"
         /\ r.status = "open" \/ (r.status = "in_progress" /\ LeaseLive(r)))
    /\ MayRereview(requested)
    /\ Transition(i, Rereviewed(requested))

\* CompleteReview: the owner reviewed on the host; the ticket is done.
CompleteReview(i) ==
    LET r == item[i] IN
    /\ Exists(i) /\ ~LeaseLive(r) /\ r.type = "code_review" /\ ~Ended(r)
    /\ Transition(i, Approved(r))

-----------------------------------------------------------------------------
(***************************************************************************)
(* CreateItem.  Work goes into the pool of the tier named, of the pinned   *)
(* worker, or of the top tier; a task is the owner's.                      *)
(***************************************************************************)
DraftTier(d) ==
    IF d.type = "task" \/ d.tier # 0 THEN d.tier
    ELSE IF d.assignee # NoOne THEN tier[d.assignee]
    ELSE TopTier

CreateItem(i, d) ==
    /\ ~Exists(i)
    /\ IF d.type = "task" THEN d.assignee = NoOne
       ELSE /\ d.project \in Projects
            /\ d.assignee # NoOne => Pinnable(d.assignee)
            /\ TierExists(DraftTier(d))
    /\ d.after # NoRef => MayFollow(d.after, d.project)
    /\ Save(i, [Blank EXCEPT
            !.status = "open", !.type = d.type, !.project = d.project,
            !.key = IF d.project = NoProject THEN "id" ELSE "number",
            !.assignee = d.assignee, !.tier = DraftTier(d), !.hold = d.hold,
            !.after = IF d.after = NoRef THEN NoRef ELSE ItemKey(d.after),
            !.spec = IF d.type = "coding" THEN d.spec ELSE "specced"])
    /\ woke' = "yes"
    /\ UNCHANGED <<rows, now, settings>>

-----------------------------------------------------------------------------
(***************************************************************************)
(* UpdateItem with a patch.  A stale base revision is refused, and a patch *)
(* to code_review brings the URL it needs.                                 *)
(***************************************************************************)
Given(new, old) == IF new = Same THEN old ELSE new

Moves(r, p) == p.project \notin {Same, r.project}

MayMove(i, p) ==
    LET r == item[i] IN
    /\ p.project # Same => Workable(p.project)
    /\ Moves(r, p) =>
          /\ r.branch = "none" /\ r.implementer = NoOne
          /\ ~LeaseLive(r) /\ r.after = NoRef
          /\ \A j \in Items : item[j].after # ItemKey(i)

KeyAfter(r, p) == IF Moves(r, p) THEN "id" ELSE r.key

MayWait(i, p) ==
    p.after \in Items =>
        /\ p.after # i
        /\ MayFollow(p.after, Given(p.project, item[i].project))
        /\ ~AfterChainLoops(ItemKey(p.after),
                            [id |-> i, key |-> KeyAfter(item[i], p)])

AfterAfter(r, p) ==
    IF p.after = Same THEN r.after
    ELSE IF p.after = NoRef THEN NoRef
    ELSE ItemKey(p.after)

Reassigns(r, p) == p.assignee \notin {Same, r.assignee}

\* Work handed to the owner becomes a task, a task handed on a chore.
Delegates(r, p) ==
    Reassigns(r, p) /\ p.assignee # Owner /\ Given(p.type, r.type) = "task"

TypeAfter(r, p) ==
    IF Reassigns(r, p) /\ p.assignee = Owner THEN "task"
    ELSE IF Delegates(r, p) THEN "coding"
    ELSE Given(p.type, r.type)

TierAfter(r, p) ==
    IF ~Delegates(r, p) THEN Given(p.tier, r.tier)
    ELSE IF p.assignee \in workers THEN tier[p.assignee]
    ELSE TopTier

\* Only open work, or work in progress nobody is live on, changes hands.
MayReassign(r, p) ==
    Reassigns(r, p) =>
        /\ \/ r.status = "open"
           \/ r.status = "in_progress" /\ ~LeaseLive(r) /\ p.assignee # NoOne
        /\ p.assignee = Owner => r.branch = "none" /\ r.implementer = NoOne
        /\ p.assignee \in Agents => Pinnable(p.assignee)
        /\ Delegates(r, p) =>
              /\ Given(p.project, r.project) \in Projects
              /\ "repository" \in settings[Given(p.project, r.project)]
              /\ TierExists(TierAfter(r, p))

Updated(r, p) ==
    [r EXCEPT
        !.project = Given(p.project, @), !.key = KeyAfter(r, p),
        !.type = TypeAfter(r, p), !.tier = TierAfter(r, p),
        !.assignee = Given(p.assignee, @), !.after = AfterAfter(r, p),
        !.spec = IF Reassigns(r, p) /\ p.assignee = Owner
                 THEN "specced" ELSE @,
        !.lease = IF Reassigns(r, p) /\ r.status = "in_progress"
                  THEN 0 ELSE @]

\* A task is the owner's and has no coding workflow; the owner is assigned
\* nothing else but a code review to judge.
WellAssigned(r) ==
    IF r.type = "task"
    THEN r.assignee = Owner /\ r.branch = "none" /\ r.implementer = NoOne
    ELSE r.assignee = Owner =>
            r.type = "code_review" /\ r.status = "pending_approval"

MovesWork(r, p) ==
    Reassigns(r, p) \/ AfterAfter(r, p) # r.after \/ p.description # Same

UpdateItem(i, p) ==
    LET r == item[i] IN
    /\ Exists(i)
    /\ MayMove(i, p) /\ MayWait(i, p) /\ MayReassign(r, p)
    /\ p.tier # Same => TierExists(p.tier)
    /\ WellAssigned(Updated(r, p))
    /\ item' = [item EXCEPT ![i] = Updated(r, p)]
    /\ woke' = IF MovesWork(r, p) THEN "yes" ELSE "no"
    /\ UNCHANGED <<rows, now, settings>>

-----------------------------------------------------------------------------
(***************************************************************************)
(* FinishRun of some run on the item, whatever became of the item since:   *)
(* the third failure in a row holds it.  Nobody is woken.                  *)
(***************************************************************************)
\* Fault: one more failure than allowed.
FailedOneLate(r) ==
    [r EXCEPT !.failures = @ + 1,
              !.hold = IF r.failures >= MaxItemFailures THEN "held" ELSE @]

Failed(r) ==
    [r EXCEPT !.failures = @ + 1,
              !.hold = IF r.failures + 1 >= MaxItemFailures
                       THEN "held" ELSE @]

RunFailed(i) ==
    /\ Exists(i) /\ item[i].failures < FailureCap
    /\ item' = [item EXCEPT ![i] = Failed(@)]
    /\ woke' = "no"
    /\ UNCHANGED <<rows, now, settings>>

RunSettled(i) ==
    /\ Exists(i) /\ item[i].failures # 0
    /\ item' = [item EXCEPT ![i] = [@ EXCEPT !.failures = 0]]
    /\ woke' = "no"
    /\ UNCHANGED <<rows, now, settings>>

-----------------------------------------------------------------------------
(***************************************************************************)
(* The queue.  candidates() offers merges first, then reviews, then work   *)
(* of the worker's own to resume, then open work; priority and age order   *)
(* each kind and are left out.                                             *)
(***************************************************************************)
Workflow(r) ==
    r.type # "task" /\ r.assignee # Owner /\ r.hold = "free"
    /\ Workable(r.project)

OfferedMerge(r, a) ==
    /\ r.status = "approved" /\ r.implementer = a /\ ~LeaseLive(r)
    /\ ~MergeInFlight(r.project)

\* Fault: a review whose reviewer is gone is not offered again.
OfferedReviewUntaken(q, r, a) ==
    /\ r.status = "in_review" /\ r.implementer # a /\ r.reviewer = NoOne
    /\ MayReview(q, a, r.implementer)

OfferedReview(q, r, a) ==
    /\ r.status = "in_review" /\ r.implementer # a
    /\ r.reviewer = NoOne \/ LeaseExpired(r)
    /\ MayReview(q, a, r.implementer)

OfferedResume(r, a) ==
    r.status = "in_progress" /\ r.assignee = a /\ ~LeaseLive(r)

OfferedOpen(q, r, a) ==
    /\ r.status = "open"
    /\ \/ r.assignee = a
       \/ /\ r.assignee = NoOne /\ ItemTier(r) = tier[a]
          /\ MayPull(q, a, ItemTier(r))
    /\ AfterSettled(r)

Offered(q, r, a) ==
    \/ OfferedMerge(r, a) \/ OfferedReview(q, r, a)
    \/ OfferedResume(r, a) \/ OfferedOpen(q, r, a)

Candidates(q, a) ==
    IF a \in workers /\ HasFreeSlot(a)
    THEN {i \in Items : Workflow(item[i]) /\ Offered(q, item[i], a)}
    ELSE {}

OfferRank ==
    [approved |-> 1, in_review |-> 2, in_progress |-> 3, open |-> 4]

\* The first candidate whose claim is not refused.
FirstClaimable(q, a) ==
    LET able == {i \in Candidates(q, a) : CanClaim(q, i, a)}
    IN  {i \in able : \A j \in able :
            OfferRank[item[i].status] <= OfferRank[item[j].status]}

\* jobKindFor: a raw ticket is groomed before anything else.
JobKind(r) ==
    IF r.spec = "raw" THEN "groom"
    ELSE IF r.type = "code_review" THEN "code_review" ELSE "implement"

(***************************************************************************)
(* CheckIn on the report q.  It may leave without an item: a preview, a    *)
(* mention to answer, a worker that is not working, an empty queue.  With  *)
(* one it claims it, and gives it back when the job cannot be assembled.   *)
(***************************************************************************)
CheckInIdle(a, q) == Report(a, q) /\ UNCHANGED trackerVars

CheckInClaim(a, q, i) ==
    /\ Report(a, q) /\ Working(q, a)
    /\ i \in FirstClaimable(q, a)
    /\ Save(i, Claimed(item[i], a))
    /\ UNCHANGED settings

CheckInUnassembled(a, q, i) ==
    /\ Report(a, q) /\ Working(q, a)
    /\ i \in FirstClaimable(q, a)
    /\ Save(i, Released(Claimed(item[i], a)))
    /\ UNCHANGED settings

\* What Wait's check answers: a job is there for the worker.
Ready(a) == a \in workers /\ Working(quota, a) /\ Candidates(quota, a) # {}

-----------------------------------------------------------------------------
\* Fault: a project that comes back wakes nobody.
UpdateProjectQuietly(p, s) ==
    /\ settings' = [settings EXCEPT ![p] = s]
    /\ woke' = "no"
    /\ UNCHANGED <<rows, now, item>>

UpdateProject(p, s) ==
    /\ settings' = [settings EXCEPT ![p] = s]
    /\ woke' = IF /\ "active" \in s
                  /\ \/ "active" \notin settings[p]
                     \/ "repository" \in s \ settings[p]
               THEN "yes" ELSE "no"
    /\ UNCHANGED <<rows, now, item>>

\* Fault: what a worker has submitted does not keep it.
MayDeleteSubmitter(a) ==
    /\ LiveLeases(a) = {}
    /\ \A i \in Items : item[i].assignee = a => Ended(item[i])

\* A worker with a live lease, with an item of its own that has not ended,
\* or whose work is past submit, is not deleted.
MayDelete(a) ==
    /\ LiveLeases(a) = {}
    /\ \A i \in Items :
          /\ item[i].assignee = a => Ended(item[i])
          /\ item[i].implementer = a =>
                item[i].status \notin
                    {"in_review", "pending_approval", "approved"}

DeleteAgent(a) == MayDelete(a) /\ RemoveAgent(a) /\ UNCHANGED trackerVars

-----------------------------------------------------------------------------
\* Before the first worker is hired; the projects have been set up.
Init ==
    /\ RotationInit
    /\ item = [i \in Items |-> Blank]
    /\ settings \in [Projects -> ProjectStates]

Verdicts == {"approve", "request_changes", "comment"}

WorkerNext(i, a) ==
    \/ Claim(i, a)
    \/ Release(i, a)
    \/ Submit(i, a)
    \/ \E v \in Verdicts \cup {"none"} : SubmitCodeReview(i, a, v)
    \/ \E c \in {"none", "recorded"} : ReviewApprove(i, a, c)
    \/ ReviewRequestChanges(i, a)
    \/ Rework(i, a)
    \/ \E t \in TierNumbers \cup {0}, h \in Agents \cup {NoOne} :
            Groom(i, a, t, h)
    \/ Block(i, a)
    \/ Complete(i, a)

OwnerNext(i) ==
    \/ Approve(i)
    \/ RequestChanges(i)
    \/ Complete(i, Owner)
    \/ CompleteTask(i)
    \/ Reopen(i)
    \/ Hold(i)
    \/ Unhold(i)
    \/ Cancel(i)
    \/ Close(i)
    \/ Rereview(i)
    \/ QueueReview(i)
    \/ CompleteReview(i)

ItemNext(i) ==
    \/ \E d \in Drafts : CreateItem(i, d)
    \/ \E p \in Patches : UpdateItem(i, p)
    \/ \E a \in Agents : WorkerNext(i, a)
    \/ OwnerNext(i)
    \/ RunFailed(i)
    \/ RunSettled(i)

CheckIn(a, q) ==
    \/ CheckInIdle(a, q)
    \/ \E i \in Items : CheckInClaim(a, q, i)
    \/ \E i \in Items : CheckInUnassembled(a, q, i)

RosterNext(a) ==
    \/ \E t \in TierNumbers, n \in SlotCounts :
            CreateAgent(a, t, n) /\ UNCHANGED trackerVars
    \/ \E on \in BOOLEAN, n \in SlotCounts, t \in TierNumbers,
          makesLead \in BOOLEAN :
            UpdateAgent(a, on, n, t, makesLead) /\ UNCHANGED trackerVars
    \/ DeleteAgent(a)

\* Time passes and nothing is written.
PassTime == Tick /\ UNCHANGED trackerVars

Next ==
    \/ \E i \in Items : ItemNext(i)
    \/ \E a \in Agents : RosterNext(a)
    \/ \E a \in Agents : \E q \in QuotasAfter(a, Reports) : CheckIn(a, q)
    \/ \E p \in Projects, s \in ProjectStates : UpdateProject(p, s)
    \/ PassTime

Spec == Init /\ [][Next]_vars

-----------------------------------------------------------------------------
ItemRows ==
    [status : Statuses \cup {"absent"}, type : Types,
     project : Projects \cup {NoProject}, key : {"number", "id"},
     assignee : Agents \cup {Owner, NoOne}, tier : TierNumbers \cup {0},
     implementer : Agents \cup {NoOne}, reviewer : Agents \cup {NoOne},
     lease : Nat, branch : {"named", "none"}, commit : {"recorded", "none"},
     verdict : Verdicts \cup {"none"}, after : Refs \cup {NoRef},
     hold : {"free", "held"}, failures : Nat, spec : {"raw", "specced"}]

TrackerTypeOK ==
    /\ RotationTypeOK
    /\ item \in [Items -> ItemRows]
    /\ settings \in [Projects -> SUBSET Settings]

\* An item that is not over never names a worker that is not there, neither
\* as its assignee nor, past submit, as the implementer the merge and the
\* changes go back to: "a ghost assignee would park the item forever"
\* (items.go, ActionReopen; the refusals of DeleteAgent).
Staffed(r) ==
    /\ r.assignee \in Agents /\ ~Ended(r) => r.assignee \in workers
    /\ r.status \in {"in_review", "pending_approval", "approved"} =>
          r.implementer \in workers
NoGhostWorker == \A i \in Items : Staffed(item[i])

\* The owner is the assignee of personal tasks and of code reviews to judge
\* and of nothing else, and a task never has a coding workflow, by whatever
\* retypes, hand-offs and re-reviews the item got there.
OwnerAssigned == \A i \in Items : Exists(i) => WellAssigned(item[i])

\* A lease is only ever on work that somebody does, review leases and
\* reviewers come and go together, and work in progress has an assignee:
\* what lets the queue offer every item whose holder is gone.
LeaseFits(r) ==
    /\ r.lease # 0 => r.status \in {"in_progress", "in_review", "approved"}
    /\ r.status = "in_review" => (r.reviewer = NoOne <=> r.lease = 0)
    /\ r.status \in {"in_progress", "blocked"} => r.assignee # NoOne
    /\ r.status \in {"in_review", "approved"} => r.assignee = NoOne
    /\ r.status \in {"done", "closed", "cancelled"} =>
          r.assignee \in {NoOne, Owner}
LeaseMatchesStatus == \A i \in Items : LeaseFits(item[i])

\* What every handler relies on in the rows it finds.
ItemsWellFormed == TrackerTypeOK /\ OwnerAssigned /\ LeaseMatchesStatus

\* Nothing reaches the owner's approval or the merge on its implementer's
\* word: whoever gave the latest verdict is not the implementer and it was
\* an approval.  A code review handed to the owner is judged by the owner.
Seconded(r) ==
    /\ r.status \in {"pending_approval", "approved"} /\ r.assignee # Owner =>
          r.reviewer \in Agents \ {r.implementer} /\ r.verdict = "approve"
    /\ r.status = "in_review" => r.commit = "none"
FourEyes == \A i \in Items : Seconded(item[i])

\* An item whose runs keep failing is out of the queue until the owner lifts
\* the hold, whatever else happens to it in between (runs.go).
FailuresHold ==
    \A i \in Items : item[i].failures >= MaxItemFailures => item[i].hold = "held"

\* "One merge per project at a time: two never race on main" (items.go).
OneMergePerProject ==
    \A i, j \in Items :
        /\ item[i].status = "approved" /\ LeaseLive(item[i])
        /\ item[j].status = "approved" /\ LeaseLive(item[j])
        /\ item[i].project = item[j].project
        => i = j

\* candidates() and the claim, written apart, agree: what a working agent is
\* offered it may claim, and what it may claim in a project that is worked
\* on it is offered.  A disagreement is work nobody is ever handed.
OffersMatchClaims ==
    \A a \in workers : Working(quota, a) /\ HasFreeSlot(a) =>
        \A i \in Items : Workable(item[i].project) =>
            (i \in Candidates(quota, a) <=> CanClaim(quota, i, a))

\* No step takes a worker over its slots: the leases it holds grow only up
\* to them.
SlotsRespected ==
    [][\A a \in Agents :
          Cardinality(LiveLeases(a))' > Cardinality(LiveLeases(a))
            => Cardinality(LiveLeases(a))' <= slots'[a]]_vars

\* A review under a live lease ends by its reviewer's verdict or not at all:
\* no late verdict of an earlier reviewer passes for it.
ReviewBelongsToHolder ==
    [][\A i \in Items :
          /\ item[i].status = "in_review" /\ LeaseLive(item[i])
          /\ item'[i].status \in
                {"in_progress", "pending_approval", "approved"}
          => item'[i].reviewer = item[i].reviewer]_vars

\* "Every write that can create work" wakes (service.go, wake): a worker that
\* had nothing and whose parked Wait would now find a job has been woken.
\* Work that appears by the clock is noticed by the next park instead.
NoMissedWake ==
    [][\A a \in workers :
          ~Ready(a) /\ Ready(a)' /\ now' = now => woke' = "yes"]_vars

\* No item waits, over any number of others, on itself: the items of a loop
\* would never be offered to anyone.
Waits(i) == item[i].after # NoRef
AfterAcyclic ==
    \A loop \in SUBSET Items :
        loop # {} => \E i \in loop : ~Waits(i) \/ item[i].after.id \notin loop

\* "It is never groomed and never merged" (models.go, TypeCodeReview).
CodeReviewNeverGroomed ==
    \A a \in workers : \A i \in Candidates(quota, a) :
        item[i].type = "code_review" => JobKind(item[i]) # "groom"

\* "Until that item is done or closed the queue never offers this one and a
\* claim is refused" (models.go, Item.After).
AfterMeansDone ==
    [][\A i \in Items :
          item[i].status = "open" /\ item'[i].status = "in_progress"
          /\ Waits(i)
          => item[item[i].after.id].status \in {"done", "closed"}]_vars
=============================================================================

------------------------------ MODULE Rotation ------------------------------
(***************************************************************************)
(* The workers of the tracker in src/projects: their tiers, slots, pause   *)
(* switch and quota windows, and who may take a tier's unpinned work or a  *)
(* review (tiers.go, quota.go and the agent half of service.go).           *)
(*                                                                         *)
(* A worker's name is a number: names are only ever compared, and "<" on   *)
(* numbers is the order of the strings.  Label, CLI, model, effort and the *)
(* time stamps of a row decide nothing here and are left out; rows older   *)
(* than tiers, whose Tier or Slots column is zero, are left out too.       *)
(***************************************************************************)
EXTENDS Integers, FiniteSets

CONSTANTS
    Agents,         \* every name a worker can have
    DefaultTier,    \* tier of a worker created without one
    DefaultSlots,   \* slots of a worker created without any
    TierNumbers,    \* tiers the owner gives workers
    SlotCounts,     \* slot counts the owner gives workers
    Reports,        \* quota reports a runner may send
    SessionFloor,   \* QuotaSessionFloor, percent left of the session window
    WeeklyFloor,    \* QuotaWeeklyFloor, percent left of the weekly window
    BreakWindow,    \* QuotaBreakWindow
    MaxNow          \* the clock stops here: a bound for model checking

\* A quota window: percent used, and when it resets (0 is the zero time, a
\* window the account does not have).
Windows == [used : 0..100, resetsAt : Nat]
NoWindow == [used |-> 0, resetsAt |-> 0]
FreshQuota == [session |-> NoWindow, weekly |-> NoWindow]

ASSUME AgentsAssumption == Agents \subseteq Nat
ASSUME TierAssumption ==
    /\ TierNumbers \subseteq Nat \ {0}
    /\ DefaultTier \in TierNumbers
ASSUME SlotAssumption ==
    /\ SlotCounts \subseteq Nat \ {0}
    /\ DefaultSlots \in SlotCounts
ASSUME QuotaAssumption ==
    /\ Reports \subseteq [session : Windows, weekly : Windows,
                          scoped : SUBSET Windows]
    /\ SessionFloor \in Nat
    /\ WeeklyFloor \in Nat
    /\ BreakWindow \in Nat
ASSUME ClockAssumption == MaxNow \in Nat

VARIABLES
    workers,    \* the names that have a row
    tier,       \* Agent.Tier
    slots,      \* Agent.Slots
    lead,       \* the workers whose Lead flag is set
    enabled,    \* the workers whose Enabled flag is set
    quota,      \* the two quota windows kept on a row
    now,        \* the service's clock
    woke        \* did the last handler call Service.wake

rows == <<workers, tier, slots, lead, enabled, quota>>
rotationVars == <<workers, tier, slots, lead, enabled, quota, now, woke>>

-----------------------------------------------------------------------------
(***************************************************************************)
(* Availability at a moment.  Operators that a check-in evaluates after it *)
(* has recorded a report take the quota function as their parameter q.     *)
(***************************************************************************)
Live(w, t) == w.resetsAt # 0 /\ t < w.resetsAt
Spent(w, t, floor) == Live(w, t) /\ 100 - w.used < floor

Availability(q, a, t) ==
    IF Spent(q[a].weekly, t, WeeklyFloor) THEN "unavailable"
    ELSE IF ~Spent(q[a].session, t, SessionFloor) THEN "available"
    ELSE IF q[a].session.resetsAt - t > BreakWindow THEN "unavailable"
    ELSE "break"

\* Fault: a worker on a break counts as out.
OutOnBreak(q, a) == a \notin enabled \/ Availability(q, a, now) # "available"

\* Out of the tier's rotation: paused, or unavailable.  A break is not out.
Out(q, a) == a \notin enabled \/ Availability(q, a, now) = "unavailable"

Working(q, a) == a \in enabled /\ Availability(q, a, now) = "available"

\* The weekly windows applyQuota may keep of a report: the fullest of those
\* the account has, the account-wide one when it ties with a scoped one.
KeptWeekly(r) ==
    LET has == {w \in r.scoped \cup {r.weekly} : w.resetsAt # 0}
        full == {w \in has : \A v \in has : v.used <= w.used}
    IN  IF has = {} THEN {r.weekly}
        ELSE IF r.weekly \in full THEN {r.weekly}
        ELSE full

-----------------------------------------------------------------------------
(***************************************************************************)
(* Pull order: strongest tier first where tiers are mixed, then the lead,  *)
(* then by name.                                                           *)
(***************************************************************************)
\* Fault: the order of names is forgotten.
LeadOnlyBefore(a, b) == a \in lead /\ b \notin lead

Before(a, b) ==
    \/ a \in lead /\ b \notin lead
    \/ (a \in lead <=> b \in lead) /\ a < b

Stronger(a, b) == tier[a] > tier[b] \/ (tier[a] = tier[b] /\ Before(a, b))

TierExists(t) == \E a \in workers : tier[a] = t

\* Fault: only the lead is asked to be out, not every tier-mate ahead.
MayPullPastMates(q, a, t) ==
    /\ a \in workers /\ tier[a] = t /\ ~Out(q, a)
    /\ \A b \in workers \cap lead : tier[b] = t /\ Before(b, a) => Out(q, b)

\* mayPull: a is the first of tier t, in pull order, that is in.
MayPull(q, a, t) ==
    /\ a \in workers /\ tier[a] = t /\ ~Out(q, a)
    /\ \A b \in workers : tier[b] = t /\ Before(b, a) => Out(q, b)

\* Fault: the implementer keeps its place in the order of reviewers.
MayReviewBehindImplementer(q, a, implementer) ==
    /\ a \in workers /\ a # implementer /\ ~Out(q, a)
    /\ \A b \in workers : Stronger(b, a) => Out(q, b)

\* mayReview: a is the first worker of all, other than the implementer, that
\* is in.
MayReview(q, a, implementer) ==
    /\ a \in workers /\ a # implementer /\ ~Out(q, a)
    /\ \A b \in workers : b # implementer /\ Stronger(b, a) => Out(q, b)

\* topTier: the strongest tier with an enabled worker, else the strongest, 0
\* when there is no worker.
Strongest(ws) ==
    IF ws = {} THEN 0
    ELSE CHOOSE t \in {tier[a] : a \in ws} : \A a \in ws : tier[a] <= t
TopTier ==
    IF workers \cap enabled # {} THEN Strongest(workers \cap enabled)
    ELSE Strongest(workers)

-----------------------------------------------------------------------------
TierHasLead(ws, tr, ld, t) == \E a \in ws : a \in ld /\ tr[a] = t

\* ensureLeads: a tier without a lead gets its first worker by name.
WithLeads(ws, tr, ld) ==
    ld \cup {a \in ws : /\ ~TierHasLead(ws, tr, ld, tr[a])
                        /\ \A b \in ws : tr[b] = tr[a] => a <= b}

CreateAgent(a, t, n) ==
    /\ a \notin workers
    /\ workers' = workers \cup {a}
    /\ tier' = [tier EXCEPT ![a] = t]
    /\ slots' = [slots EXCEPT ![a] = n]
    /\ lead' = IF TierHasLead(workers, tier, lead, t)
               THEN lead ELSE lead \cup {a}
    /\ enabled' = enabled \cup {a}
    /\ quota' = [quota EXCEPT ![a] = FreshQuota]
    /\ woke' = "no"
    /\ UNCHANGED now

(***************************************************************************)
(* UpdateAgent with a patch.  A field the patch leaves out is the field's  *)
(* present value, which the code treats alike; makesLead is a patch with   *)
(* Lead true (Lead false is refused).                                      *)
(***************************************************************************)
\* Fault: the flag follows a move into any tier.
LeadFollowsMove(a, t) == lead

LeadAfterMove(a, t) ==
    IF t # tier[a] /\ TierHasLead(workers \ {a}, tier, lead, t)
    THEN lead \ {a} ELSE lead

LeadAfterUpdate(a, t, makesLead) ==
    LET tr == [tier EXCEPT ![a] = t]
        taken == (LeadAfterMove(a, t) \ {b \in workers : tr[b] = t}) \cup {a}
    IN  WithLeads(workers, tr,
                  IF makesLead THEN taken ELSE LeadAfterMove(a, t))

UpdateAgent(a, on, n, t, makesLead) ==
    LET settles == t # tier[a] \/ (makesLead /\ a \notin lead)
    IN
    /\ a \in workers
    /\ enabled' = IF on THEN enabled \cup {a} ELSE enabled \ {a}
    /\ slots' = [slots EXCEPT ![a] = n]
    /\ tier' = [tier EXCEPT ![a] = t]
    /\ lead' = IF settles THEN LeadAfterUpdate(a, t, makesLead) ELSE lead
    /\ woke' = IF settles \/ enabled' # enabled \/ slots' # slots
               THEN "yes" ELSE "no"
    /\ UNCHANGED <<workers, quota, now>>

\* DeleteAgent past its item checks, which Tracker adds.
RemoveAgent(a) ==
    /\ a \in workers
    /\ workers' = workers \ {a}
    /\ enabled' = enabled \ {a}
    /\ lead' = WithLeads(workers \ {a}, tier, lead \ {a})
    /\ tier' = [tier EXCEPT ![a] = DefaultTier]
    /\ slots' = [slots EXCEPT ![a] = DefaultSlots]
    /\ quota' = [quota EXCEPT ![a] = FreshQuota]
    /\ woke' = "yes"
    /\ UNCHANGED now

\* The quota functions a check-in of a may leave: no report, or report r.
QuotasAfter(a, rs) ==
    {quota} \cup
    UNION {{[quota EXCEPT ![a] = [session |-> r.session, weekly |-> w]] :
              w \in KeptWeekly(r)} : r \in rs}

\* The first half of CheckIn: record the report, wake on a change of state.
Report(a, q) ==
    /\ a \in workers
    /\ q \in QuotasAfter(a, Reports)
    /\ quota' = q
    /\ woke' = IF Availability(q, a, now) # Availability(quota, a, now)
               THEN "yes" ELSE "no"
    /\ UNCHANGED <<workers, tier, slots, lead, enabled, now>>

Tick ==
    /\ now < MaxNow
    /\ now' = now + 1
    /\ woke' = "no"
    /\ UNCHANGED rows

-----------------------------------------------------------------------------
RotationInit ==
    /\ workers = {}
    /\ tier = [a \in Agents |-> DefaultTier]
    /\ slots = [a \in Agents |-> DefaultSlots]
    /\ lead = {}
    /\ enabled = {}
    /\ quota = [a \in Agents |-> FreshQuota]
    /\ now = 0
    /\ woke = "no"

RotationNext ==
    \/ \E a \in Agents, t \in TierNumbers, n \in SlotCounts :
            CreateAgent(a, t, n)
    \/ \E a \in Agents, on \in BOOLEAN, n \in SlotCounts, t \in TierNumbers,
          makesLead \in BOOLEAN : UpdateAgent(a, on, n, t, makesLead)
    \/ \E a \in Agents : RemoveAgent(a)
    \/ \E a \in Agents : \E q \in QuotasAfter(a, Reports) : Report(a, q)
    \/ Tick

RotationSpec == RotationInit /\ [][RotationNext]_rotationVars

-----------------------------------------------------------------------------
Quotas == [session : Windows, weekly : Windows]

\* Types, and a flag is only ever set on a row that exists.
RotationTypeOK ==
    /\ workers \subseteq Agents
    /\ tier \in [Agents -> TierNumbers]
    /\ slots \in [Agents -> SlotCounts]
    /\ lead \subseteq workers
    /\ enabled \subseteq workers
    /\ quota \in [Agents -> Quotas]
    /\ now \in Nat
    /\ woke \in {"yes", "no"}

OneLeadEach(ws, tr, ld) ==
    \A a \in ws : \E l \in ld : /\ tr[l] = tr[a]
                                /\ \A m \in ld : tr[m] = tr[a] => m = l

\* "Every non-empty tier has exactly one lead" (models.go, Agent.Lead): no
\* sequence of creations, tier moves, lead moves and deletions leaves a tier
\* with two leads or with none.
ExactlyOneLead == OneLeadEach(workers, tier, lead)

\* A tier's pool is pulled by at most one worker at a time, and by one as
\* soon as any of its workers is in: two runners never race for the pool and
\* it is never left to nobody.
OnePuller ==
    \A a \in workers : ~Out(quota, a) =>
        \E p \in workers :
            /\ MayPull(quota, p, tier[a])
            /\ \A r \in workers : MayPull(quota, r, tier[a]) => r = p

\* The same of a review: whoever implemented the work, exactly one of the
\* other workers that are in may review it.
OneReviewer ==
    \A a, i \in workers : a # i /\ ~Out(quota, a) =>
        \E p \in workers \ {i} :
            /\ MayReview(quota, p, i)
            /\ \A r \in workers : MayReview(quota, r, i) => r = p

\* While a tier's lead is in, on a break included, nobody else pulls the
\* tier's work: a short outage does not hand the pool over (quota.go,
\* AvailabilityBreak: "the pool waits").
LeadKeepsPool ==
    \A l \in lead \cap enabled :
        Availability(quota, l, now) # "unavailable" =>
            \A a \in workers : MayPull(quota, a, tier[l]) => a = l
=============================================================================

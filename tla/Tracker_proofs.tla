---------------------------- MODULE Tracker_proofs ----------------------------
(***************************************************************************)
(* What the roster guarantees for every set of names, tiers and reports:   *)
(* its types, one lead in every tier that has a worker, and from that one  *)
(* worker to pull each tier's pool and one to review: the one to whom the  *)
(* walk of the sorted workers comes first.  And what the tracker, which    *)
(* runs on it, guarantees of its items for every set of items, projects,   *)
(* workers, drafts, patches and reports.                                   *)
(*                                                                         *)
(* Most of the latter is about one row at a time, and none of those facts  *)
(* is inductive alone: that a verdict's author is not the implementer      *)
(* needs the implementer to be a worker, that an ended item names no       *)
(* worker that is gone needs its assignee to be cleared, and so on.        *)
(* Together, as RowOK, they are.  OneMergePerProject is about two rows and *)
(* is kept beside it.                                                      *)
(*                                                                         *)
(* On those rest three facts about many rows: no worker is given more      *)
(* items than it has slots, the After references are followed by nobody in *)
(* a circle, and no worker is left asleep with an item to take.            *)
(***************************************************************************)
EXTENDS Tracker, MCRotation, WellFoundedInduction, FiniteSetTheorems, TLAPS

-----------------------------------------------------------------------------
\* The roster.

(***************************************************************************)
(* A set of numbers that is not empty has a least one: there is a first    *)
(* worker by name to promote.                                              *)
(***************************************************************************)
LEMMA FirstByName ==
    ASSUME NEW S, S \subseteq Nat, S # {}
    PROVE  \E x \in S : \A y \in S : x <= y
<1>1. PICK x \in S : \A y \in S : <<y, x>> \notin OpToRel(<, Nat)
    BY NatLessThanWellFounded, WFMin, Zenon
<1>2. \A y \in S : ~(y < x)
    BY <1>1, Zenon DEF OpToRel
<1> QED
    BY <1>2

(***************************************************************************)
(* ensureLeads turns flags of which no tier has two into flags of which    *)
(* every tier that has a worker has exactly one.                           *)
(***************************************************************************)
AtMostOneLead(tr, ld) == \A l, m \in ld : tr[l] = tr[m] => l = m

LEMMA EnsureLeads ==
    ASSUME NEW ws \in SUBSET Agents, NEW tr, NEW ld \in SUBSET ws,
           AtMostOneLead(tr, ld)
    PROVE  /\ WithLeads(ws, tr, ld) \subseteq ws
           /\ OneLeadEach(ws, tr, WithLeads(ws, tr, ld))
<1> DEFINE new == WithLeads(ws, tr, ld)
<1>1. new \subseteq ws
    BY DEF WithLeads
<1>2. ASSUME NEW a \in ws
      PROVE  \E l \in new : /\ tr[l] = tr[a]
                            /\ \A m \in new : tr[m] = tr[a] => m = l
    <2>1. CASE TierHasLead(ws, tr, ld, tr[a])
        <3>1. PICK l \in ws : l \in ld /\ tr[l] = tr[a]
            BY <2>1 DEF TierHasLead
        <3>2. ASSUME NEW m \in new, tr[m] = tr[a]
              PROVE  m \in ld
            BY <2>1, <3>2 DEF WithLeads
        <3> QED
            BY <3>1, <3>2 DEF WithLeads, AtMostOneLead
    <2>2. CASE ~TierHasLead(ws, tr, ld, tr[a])
        <3> DEFINE mates == {b \in ws : tr[b] = tr[a]}
        <3>1. PICK l \in mates : \A y \in mates : l <= y
            <4>1. mates \subseteq Nat /\ mates # {}
                BY AgentsAssumption
            <4> QED
                BY <4>1, FirstByName
        <3>2. l \in new
            BY <2>2, <3>1 DEF WithLeads
        <3>3. ASSUME NEW m \in new, tr[m] = tr[a]
              PROVE  m = l
            <4>1. m \notin ld
                BY <2>2, <3>3 DEF TierHasLead
            <4>2. m \in mates /\ \A y \in mates : m <= y
                BY <1>1, <3>3, <4>1 DEF WithLeads
            <4> QED
                BY <3>1, <4>2, AgentsAssumption
        <3> QED
            BY <3>1, <3>2, <3>3
    <2> QED
        BY <2>1, <2>2
<1> QED
    BY <1>1, <1>2 DEF OneLeadEach

(***************************************************************************)
(* One lead each is, of flags that sit on workers, at most one each.       *)
(***************************************************************************)
LEMMA OneIsAtMostOne ==
    ASSUME NEW ws, NEW tr, NEW ld \in SUBSET ws, OneLeadEach(ws, tr, ld)
    PROVE  AtMostOneLead(tr, ld)
BY DEF OneLeadEach, AtMostOneLead

(***************************************************************************)
(* Only the tiers of the workers that stay matter to it.                   *)
(***************************************************************************)
LEMMA OneLeadCongruence ==
    ASSUME NEW ws, NEW tr, NEW new, NEW ld \in SUBSET ws,
           \A b \in ws : new[b] = tr[b],
           OneLeadEach(ws, tr, ld)
    PROVE  OneLeadEach(ws, new, ld)
<1> SUFFICES ASSUME NEW a \in ws
             PROVE  \E l \in ld : /\ new[l] = new[a]
                                  /\ \A m \in ld : new[m] = new[a] => m = l
    BY DEF OneLeadEach
<1>1. PICK l \in ld : tr[l] = tr[a] /\ \A m \in ld : tr[m] = tr[a] => m = l
    BY DEF OneLeadEach
<1> QED
    BY <1>1

RInv == RotationTypeOK /\ ExactlyOneLead

LEMMA RInvInit == RotationInit => RInv
BY TierAssumption, SlotAssumption
   DEF RotationInit, RInv, RotationTypeOK, ExactlyOneLead, OneLeadEach,
       FreshQuota, NoWindow, Quotas, Windows

(***************************************************************************)
(* Each handler keeps the types and the leads, whatever the tracker does   *)
(* to its items in the same step.                                          *)
(***************************************************************************)
LEMMA CreateAgentRInv ==
    ASSUME RInv, NEW a \in Agents, NEW t \in TierNumbers, NEW n \in SlotCounts,
           CreateAgent(a, t, n)
    PROVE  RInv'
<1>1. RotationTypeOK'
    BY DEF RInv, RotationTypeOK, CreateAgent, FreshQuota, NoWindow, Quotas,
           Windows
<1>2. ExactlyOneLead'
    <2>0. /\ workers' = workers \cup {a} /\ a \notin workers
          /\ tier'[a] = t /\ lead \subseteq workers
          /\ \A b \in workers : tier'[b] = tier[b]
        BY DEF RInv, RotationTypeOK, CreateAgent
    <2>1. CASE TierHasLead(workers, tier, lead, t)
        <3>1. OneLeadEach(workers, tier', lead)
            BY <2>0, OneLeadCongruence DEF RInv, ExactlyOneLead
        <3>2. PICK l \in lead : tier'[l] = t
            BY <2>0, <2>1 DEF TierHasLead
        <3>3. lead' = lead
            BY <2>1 DEF CreateAgent
        <3> QED
            BY <2>0, <3>1, <3>2, <3>3 DEF ExactlyOneLead, OneLeadEach
    <2>2. CASE ~TierHasLead(workers, tier, lead, t)
        <3>1. \A l \in lead : tier[l] # t
            BY <2>0, <2>2 DEF TierHasLead
        <3>2. \A b \in workers : tier[b] # t
            BY <3>1 DEF RInv, ExactlyOneLead, OneLeadEach
        <3>3. lead' = lead \cup {a}
            BY <2>2 DEF CreateAgent
        <3>4. OneLeadEach(workers, tier', lead)
            BY <2>0, OneLeadCongruence DEF RInv, ExactlyOneLead
        <3> QED
            BY <2>0, <3>1, <3>2, <3>3, <3>4 DEF ExactlyOneLead, OneLeadEach
    <2> QED
        BY <2>1, <2>2
<1> QED
    BY <1>1, <1>2 DEF RInv

LEMMA UpdateAgentRInv ==
    ASSUME RInv, NEW a \in Agents, NEW on \in BOOLEAN, NEW n \in SlotCounts,
           NEW t \in TierNumbers, NEW makesLead \in BOOLEAN,
           UpdateAgent(a, on, n, t, makesLead)
    PROVE  RInv'
<1> DEFINE tr == [tier EXCEPT ![a] = t]
           moved == LeadAfterMove(a, t)
           taken == (moved \ {b \in workers : tr[b] = t}) \cup {a}
           asked == IF makesLead THEN taken ELSE moved
<1> USE DEF RInv
<1>1. a \in workers /\ tr \in [Agents -> TierNumbers] /\ tr[a] = t
      /\ \A b \in Agents : b # a => tr[b] = tier[b]
    BY DEF RotationTypeOK, UpdateAgent
<1>2. AtMostOneLead(tier, lead)
    <2>1. lead \in SUBSET workers /\ OneLeadEach(workers, tier, lead)
        BY DEF RotationTypeOK, ExactlyOneLead
    <2> QED
        BY <2>1, OneIsAtMostOne
<1>3. moved \subseteq workers /\ AtMostOneLead(tr, moved)
    <2>1. moved \subseteq lead /\ moved \subseteq workers
        BY DEF LeadAfterMove, RotationTypeOK
    <2>2. ASSUME NEW l \in moved, NEW m \in moved, tr[l] = tr[m], l # m
          PROVE  FALSE
        <3>1. CASE l # a /\ m # a
            BY <1>1, <1>2, <2>1, <2>2, <3>1 DEF AtMostOneLead, RotationTypeOK
        <3>2. ASSUME NEW x \in moved, x # a, tr[x] = t, a \in moved
              PROVE  FALSE
            <4>1. x \in workers \ {a} /\ x \in lead /\ tier[x] = t
                BY <1>1, <2>1, <3>2 DEF RotationTypeOK
            <4>2. TierHasLead(workers \ {a}, tier, lead, t)
                BY <4>1 DEF TierHasLead
            <4>3. t = tier[a]
                BY <3>2, <4>2 DEF LeadAfterMove
            <4> QED
                BY <1>2, <2>1, <3>2, <4>1, <4>3 DEF AtMostOneLead
        <3> QED
            BY <1>1, <2>2, <3>1, <3>2
    <2> QED
        BY <2>1, <2>2 DEF AtMostOneLead
<1>4. asked \subseteq workers /\ AtMostOneLead(tr, asked)
    <2>1. CASE makesLead
        <3>1. \A l \in taken : l = a \/ (l \in moved /\ tr[l] # t)
            BY <1>3
        <3>2. taken \subseteq workers
            BY <1>1, <1>3
        <3>3. AtMostOneLead(tr, taken)
            BY <1>1, <1>3, <3>1 DEF AtMostOneLead
        <3> QED
            BY <2>1, <3>2, <3>3
    <2>2. CASE ~makesLead
        BY <1>3, <2>2
    <2> QED
        BY <2>1, <2>2
<1>5. LeadAfterUpdate(a, t, makesLead) = WithLeads(workers, tr, asked)
    BY DEF LeadAfterUpdate
<1>6. CASE t # tier[a] \/ (makesLead /\ a \notin lead)
    <2>1. lead' = WithLeads(workers, tr, asked) /\ tier' = tr
          /\ workers' = workers
        BY <1>5, <1>6 DEF UpdateAgent
    <2>2. lead' \subseteq workers /\ OneLeadEach(workers, tr, lead')
        BY <1>4, <2>1, EnsureLeads DEF RotationTypeOK
    <2>3. RotationTypeOK'
        BY <1>1, <2>1, <2>2 DEF RotationTypeOK, UpdateAgent
    <2>4. ExactlyOneLead'
        BY <2>1, <2>2 DEF ExactlyOneLead
    <2> QED
        BY <2>3, <2>4
<1>7. CASE ~(t # tier[a] \/ (makesLead /\ a \notin lead))
    <2>1. lead' = lead /\ tier' = tier /\ workers' = workers
        BY <1>7 DEF UpdateAgent, RotationTypeOK
    <2> QED
        BY <1>1, <2>1 DEF RotationTypeOK, ExactlyOneLead, UpdateAgent
<1> QED
    BY <1>6, <1>7

LEMMA RemoveAgentRInv ==
    ASSUME RInv, NEW a \in Agents, RemoveAgent(a)
    PROVE  RInv'
<1> DEFINE ws == workers \ {a}
           ld == lead \ {a}
<1>1. ws \in SUBSET Agents /\ ld \in SUBSET ws
    BY DEF RInv, RotationTypeOK
<1>2. AtMostOneLead(tier, ld)
    <2>1. lead \in SUBSET workers /\ OneLeadEach(workers, tier, lead)
        BY DEF RInv, RotationTypeOK, ExactlyOneLead
    <2> QED
        BY <2>1, OneIsAtMostOne DEF AtMostOneLead
<1>3. lead' = WithLeads(ws, tier, ld) /\ workers' = ws
    BY DEF RemoveAgent
<1>4. lead' \subseteq ws /\ OneLeadEach(ws, tier, lead')
    BY <1>1, <1>2, <1>3, EnsureLeads
<1>5. \A b \in ws : tier'[b] = tier[b]
    BY DEF RInv, RotationTypeOK, RemoveAgent
<1>6. RotationTypeOK'
    <2>1. FreshQuota \in Quotas
        BY DEF FreshQuota, NoWindow, Quotas, Windows
    <2>2. /\ workers' \subseteq Agents /\ lead' \subseteq workers'
          /\ enabled' \subseteq workers'
        BY <1>1, <1>3, <1>4 DEF RInv, RotationTypeOK, RemoveAgent
    <2>3. /\ tier' \in [Agents -> TierNumbers]
          /\ slots' \in [Agents -> SlotCounts]
          /\ quota' \in [Agents -> Quotas]
        BY <2>1, TierAssumption, SlotAssumption
        DEF RInv, RotationTypeOK, RemoveAgent
    <2>4. now' \in Nat /\ woke' \in {"yes", "no"}
        BY DEF RInv, RotationTypeOK, RemoveAgent
    <2> QED
        BY <2>2, <2>3, <2>4 DEF RotationTypeOK
<1>7. ExactlyOneLead'
    BY <1>3, <1>4, <1>5, OneLeadCongruence DEF ExactlyOneLead
<1> QED
    BY <1>6, <1>7 DEF RInv

(***************************************************************************)
(* What a check-in can leave on the rows are quota windows.                *)
(***************************************************************************)
LEMMA QuotasAfterType ==
    ASSUME RotationTypeOK, NEW a \in Agents, NEW q \in QuotasAfter(a, Reports)
    PROVE  q \in [Agents -> Quotas]
<1>1. CASE q = quota
    BY <1>1 DEF RotationTypeOK
<1>2. ASSUME NEW r \in Reports, NEW w \in KeptWeekly(r),
             q = [quota EXCEPT ![a] = [session |-> r.session, weekly |-> w]]
      PROVE  q \in [Agents -> Quotas]
    <2>1. w \in Windows /\ r.session \in Windows
        BY QuotaAssumption DEF KeptWeekly
    <2> QED
        BY <1>2, <2>1 DEF RotationTypeOK, Quotas
<1> QED
    BY <1>1, <1>2 DEF QuotasAfter

LEMMA ReportRInv ==
    ASSUME RInv, NEW a \in Agents, NEW q, Report(a, q)
    PROVE  RInv'
BY QuotasAfterType DEF RInv, Report, RotationTypeOK, ExactlyOneLead

LEMMA TickRInv ==
    ASSUME RInv, Tick
    PROVE  RInv'
<1>1. now' \in Nat /\ woke' \in {"yes", "no"}
    BY DEF RInv, RotationTypeOK, Tick
<1>2. /\ workers' = workers /\ tier' = tier /\ slots' = slots
      /\ lead' = lead /\ enabled' = enabled /\ quota' = quota
    BY DEF Tick, rows
<1> QED
    BY <1>1, <1>2 DEF RInv, RotationTypeOK, ExactlyOneLead

LEMMA UnchangedRInv == RInv /\ UNCHANGED rotationVars => RInv'
BY DEF RInv, rotationVars, RotationTypeOK, ExactlyOneLead

LEMMA RotationStep == RInv /\ [RotationNext]_rotationVars => RInv'
BY CreateAgentRInv, UpdateAgentRInv, RemoveAgentRInv, ReportRInv, TickRInv,
   UnchangedRInv DEF RotationNext

LEMMA RInvAlways == RotationSpec => []RInv
<1>1. RotationInit => RInv
    BY RInvInit
<1> QED
    BY <1>1, RotationStep, PTL DEF RotationSpec

(***************************************************************************)
(* Whatever the owner does to the roster, every tier that has a worker has *)
(* exactly one lead (models.go, Agent.Lead).                               *)
(***************************************************************************)
THEOREM OneLeadAlways == RotationSpec => [](RotationTypeOK /\ ExactlyOneLead)
<1>1. RInv => RotationTypeOK /\ ExactlyOneLead
    BY DEF RInv
<1> QED
    BY <1>1, RInvAlways, PTL

(***************************************************************************)
(* The walk in pull order stops at one worker: a tier has one lead, and    *)
(* the names behind it have an order.                                      *)
(***************************************************************************)
LEMMA PullerExists ==
    ASSUME RInv, NEW a \in workers, ~Out(quota, a)
    PROVE  \E p \in workers : MayPull(quota, p, tier[a])
<1> DEFINE able == {b \in workers : tier[b] = tier[a] /\ ~Out(quota, b)}
<1>1. able \subseteq Nat /\ able # {}
    BY AgentsAssumption DEF RInv, RotationTypeOK
<1>2. CASE able \cap lead # {}
    <2>1. PICK l \in able : l \in lead
        BY <1>2
    <2>2. ASSUME NEW b \in workers, tier[b] = tier[a], Before(b, l)
          PROVE  Out(quota, b)
        <3>1. b \in lead /\ b < l
            BY <2>1, <2>2 DEF Before
        <3>2. b = l
            BY <2>1, <2>2, <3>1
            DEF RInv, ExactlyOneLead, OneLeadEach, RotationTypeOK
        <3> QED
            BY <1>1, <2>1, <3>1, <3>2
    <2> QED
        BY <2>1, <2>2 DEF MayPull
<1>3. CASE able \cap lead = {}
    <2>1. PICK p \in able : \A b \in able : p <= b
        BY <1>1, FirstByName
    <2>2. ASSUME NEW b \in workers, tier[b] = tier[a], Before(b, p),
                 ~Out(quota, b)
          PROVE  FALSE
        <3>1. b \in able /\ b < p
            BY <1>3, <2>1, <2>2 DEF Before
        <3> QED
            BY <1>1, <2>1, <3>1
    <2> QED
        BY <2>1, <2>2 DEF MayPull
<1> QED
    BY <1>2, <1>3

LEMMA PullerIsOne ==
    ASSUME RInv, NEW p \in workers, NEW r \in workers, NEW t,
           MayPull(quota, p, t), MayPull(quota, r, t)
    PROVE  p = r
<1>1. p \in Nat /\ r \in Nat
    BY AgentsAssumption DEF RInv, RotationTypeOK
<1>2. ~Before(p, r) /\ ~Before(r, p)
    BY DEF MayPull
<1> QED
    BY <1>1, <1>2 DEF Before

(***************************************************************************)
(* Each tier's pool is pulled by one worker at a time, as long as any of   *)
(* its workers is in (tiers.go, mayPull).                                  *)
(***************************************************************************)
THEOREM OnePullerAlways == RotationSpec => []OnePuller
<1>1. RInv => OnePuller
    BY PullerExists, PullerIsOne DEF OnePuller
<1> QED
    BY <1>1, RInvAlways, PTL

(***************************************************************************)
(* A lead that is in keeps its tier's pool, on a break included (quota.go, *)
(* AvailabilityBreak).                                                     *)
(***************************************************************************)
THEOREM LeadKeepsPoolAlways == RotationSpec => []LeadKeepsPool
<1>1. RInv => LeadKeepsPool
    <2> SUFFICES ASSUME RInv, NEW l \in lead \cap enabled,
                        Availability(quota, l, now) # "unavailable",
                        NEW a \in workers, MayPull(quota, a, tier[l])
                 PROVE  a = l
        BY DEF LeadKeepsPool
    <2>1. l \in workers /\ ~Out(quota, l)
        BY DEF RInv, RotationTypeOK, Out
    <2>2. ~Before(l, a) /\ tier[a] = tier[l]
        BY <2>1 DEF MayPull
    <2>3. a \in lead
        BY <2>2 DEF Before
    <2> QED
        BY <2>1, <2>2, <2>3
        DEF RInv, ExactlyOneLead, OneLeadEach, RotationTypeOK
<1> QED
    BY <1>1, RInvAlways, PTL

(***************************************************************************)
(* There is always a strongest tier, so that the walk over all workers has *)
(* a start: no worker is ever above a bound.                               *)
(***************************************************************************)
TiersBounded == \E m \in Nat : \A a \in workers : tier[a] <= m

LEMMA TiersBoundedStep ==
    ASSUME RInv, TiersBounded, [RotationNext]_rotationVars
    PROVE  TiersBounded'
<1>1. PICK m \in Nat : \A a \in workers : tier[a] <= m
    BY DEF TiersBounded
<1>2. /\ \A a \in workers : a \in Agents
      /\ tier \in [Agents -> TierNumbers]
    BY DEF RInv, RotationTypeOK
<1>3. ASSUME NEW a \in Agents, NEW t \in TierNumbers,
             workers' \subseteq workers \cup {a},
             tier' = [tier EXCEPT ![a] = t]
      PROVE  TiersBounded'
    <2>1. t \in Nat
        BY TierAssumption
    <2> DEFINE k == m + t
    <2>2. ASSUME NEW b \in workers' PROVE tier'[b] <= k
        <3>1. b = a \/ b \in workers
            BY <1>3, <2>2
        <3>2. b = a => tier'[b] = t
            BY <1>2, <1>3
        <3>3. b # a => tier'[b] = tier[b] /\ tier[b] \in Nat
            BY <1>2, <1>3, <3>1, TierAssumption
        <3> QED
            BY <1>1, <2>1, <3>1, <3>2, <3>3
    <2>3. k \in Nat
        BY <2>1
    <2> QED
        BY <2>2, <2>3 DEF TiersBounded
<1>4. ASSUME workers' = workers, tier' = tier
      PROVE  TiersBounded'
    BY <1>1, <1>4 DEF TiersBounded
<1>5. ASSUME NEW a \in Agents, NEW t \in TierNumbers, NEW n \in SlotCounts,
             CreateAgent(a, t, n)
      PROVE  TiersBounded'
    BY <1>3, <1>5 DEF CreateAgent
<1>6. ASSUME NEW a \in Agents, NEW on \in BOOLEAN, NEW n \in SlotCounts,
             NEW t \in TierNumbers, NEW makesLead \in BOOLEAN,
             UpdateAgent(a, on, n, t, makesLead)
      PROVE  TiersBounded'
    BY <1>3, <1>6 DEF UpdateAgent
<1>7. ASSUME NEW a \in Agents, RemoveAgent(a)
      PROVE  TiersBounded'
    BY <1>3, <1>7, TierAssumption DEF RemoveAgent
<1>8. ASSUME NEW a \in Agents, NEW q, Report(a, q)
      PROVE  TiersBounded'
    BY <1>4, <1>8 DEF Report
<1>9. CASE Tick \/ UNCHANGED rotationVars
    BY <1>4, <1>9 DEF Tick, rows, rotationVars
<1> QED
    BY <1>5, <1>6, <1>7, <1>8, <1>9 DEF RotationNext

LEMMA ReviewerExists ==
    ASSUME RInv, TiersBounded, NEW i, NEW a \in workers, a # i,
           ~Out(quota, a)
    PROVE  \E p \in workers \ {i} : MayReview(quota, p, i)
<1> DEFINE able == {b \in workers \ {i} : ~Out(quota, b)}
<1>0. able \subseteq Nat /\ a \in able /\ \A b \in able : tier[b] \in Nat
    BY AgentsAssumption, TierAssumption DEF RInv, RotationTypeOK
<1>1. PICK best \in able : \A b \in able : tier[b] <= tier[best]
    <2>1. PICK m \in Nat : \A b \in workers : tier[b] <= m
        BY DEF TiersBounded
    <2> DEFINE below == {m - tier[b] : b \in able}
    <2>2. below \subseteq Nat /\ below # {}
        BY <1>0, <2>1
    <2>3. PICK x \in below : \A y \in below : x <= y
        BY <2>2, FirstByName
    <2>4. PICK b \in able : x = m - tier[b]
        BY <2>3
    <2>5. \A c \in able : m - tier[b] <= m - tier[c]
        BY <2>3, <2>4
    <2> QED
        BY <1>0, <2>4, <2>5
<1> DEFINE mates == {b \in able : tier[b] = tier[best]}
<1>2. mates \subseteq Nat /\ best \in mates
    BY <1>0, <1>1
<1>3. CASE mates \cap lead # {}
    <2>1. PICK l \in mates : l \in lead
        BY <1>3
    <2>2. ASSUME NEW b \in able, Stronger(b, l)
          PROVE  FALSE
        <3>1. tier[b] = tier[l] /\ b \in lead /\ b < l
            BY <1>0, <1>1, <2>1, <2>2 DEF Stronger, Before
        <3>2. b = l
            BY <2>1, <3>1
            DEF RInv, ExactlyOneLead, OneLeadEach, RotationTypeOK
        <3> QED
            BY <1>0, <3>1, <3>2
    <2> QED
        BY <2>1, <2>2 DEF MayReview
<1>4. CASE mates \cap lead = {}
    <2>1. PICK p \in mates : \A b \in mates : p <= b
        BY <1>2, FirstByName
    <2>2. ASSUME NEW b \in able, Stronger(b, p)
          PROVE  FALSE
        <3>1. tier[b] = tier[p] /\ Before(b, p)
            BY <1>0, <1>1, <2>1, <2>2 DEF Stronger
        <3>2. b \in mates /\ b < p
            BY <1>4, <2>1, <3>1 DEF Before
        <3> QED
            BY <1>2, <2>1, <3>2
    <2> QED
        BY <2>1, <2>2 DEF MayReview
<1> QED
    BY <1>3, <1>4

LEMMA ReviewerIsOne ==
    ASSUME RInv, NEW i, NEW p \in workers, NEW r \in workers,
           MayReview(quota, p, i), MayReview(quota, r, i)
    PROVE  p = r
<1>1. p \in Nat /\ r \in Nat /\ tier[p] \in Nat /\ tier[r] \in Nat
    BY AgentsAssumption, TierAssumption DEF RInv, RotationTypeOK
<1>2. ~Stronger(p, r) /\ ~Stronger(r, p)
    BY DEF MayReview
<1> QED
    BY <1>1, <1>2 DEF Stronger, Before

(***************************************************************************)
(* Whoever implemented the work, one of the other workers that are in may  *)
(* review it, and only one (tiers.go, mayReview).                          *)
(***************************************************************************)
THEOREM OneReviewerAlways == RotationSpec => []OneReviewer
<1>1. RotationInit => RInv /\ TiersBounded
    BY RInvInit DEF RotationInit, TiersBounded
<1>2. (RInv /\ TiersBounded) /\ [RotationNext]_rotationVars
      => (RInv /\ TiersBounded)'
    BY RotationStep, TiersBoundedStep
<1>3. RInv /\ TiersBounded => OneReviewer
    BY ReviewerExists, ReviewerIsOne DEF OneReviewer
<1> QED
    BY <1>1, <1>2, <1>3, PTL DEF RotationSpec

-----------------------------------------------------------------------------
(***************************************************************************)
(* The walk.  That finitely many workers can be put in pull order is the   *)
(* work: there would otherwise be a least number of them that cannot, and  *)
(* the strongest of those goes before the others.                          *)
(***************************************************************************)
InOrder(f, ws) ==
    /\ f \in [1..Cardinality(ws) -> ws]
    /\ \A a \in ws : \E i \in DOMAIN f : f[i] = a
    /\ \A i, j \in DOMAIN f : i < j => Stronger(f[i], f[j])

LEMMA StrongerOrders ==
    ASSUME RotationTypeOK, NEW a \in Agents, NEW b \in Agents
    PROVE  /\ ~(Stronger(a, b) /\ Stronger(b, a))
           /\ a # b => Stronger(a, b) \/ Stronger(b, a)
           /\ \A c \in Agents : Stronger(a, b) /\ Stronger(b, c) => Stronger(a, c)
<1>1. /\ a \in Nat /\ b \in Nat /\ tier[a] \in Nat /\ tier[b] \in Nat
      /\ \A c \in Agents : c \in Nat /\ tier[c] \in Nat
    BY AgentsAssumption, TierAssumption DEF RotationTypeOK
<1> QED
    BY <1>1 DEF Stronger, Before

\* A set whose others are in order, and the one before them.
LEMMA GoesFirst ==
    ASSUME RotationTypeOK, NEW ws \in SUBSET Agents, IsFiniteSet(ws),
           NEW x \in ws, \A b \in ws \ {x} : Stronger(x, b),
           NEW g, InOrder(g, ws \ {x})
    PROVE  \E f : InOrder(f, ws)
<1> DEFINE n == Cardinality(ws)
<1>1. n \in Nat /\ n > 0 /\ Cardinality(ws \ {x}) = n - 1
    <2>1. n \in Nat /\ (n = 0 => ws = {})
        BY FS_CardinalityType, FS_EmptySet
    <2>2. Cardinality(ws \ {x}) = n - 1
        BY FS_RemoveElement
    <2> HIDE DEF n
    <2> QED
        BY <2>1, <2>2
<1>2. g \in [1..(n - 1) -> ws \ {x}]
    BY <1>1 DEF InOrder
<1> HIDE DEF n
<1> DEFINE f == [i \in 1..n |-> IF i = 1 THEN x ELSE g[i - 1]]
<1>3. \A i \in 1..n : i # 1 => i - 1 \in 1..(n - 1) /\ f[i] = g[i - 1]
                                /\ f[i] \in ws \ {x}
    BY <1>1, <1>2
<1>4. f[1] = x /\ DOMAIN f = 1..n /\ DOMAIN g = 1..(n - 1)
    BY <1>1, <1>2
<1>5. f \in [1..n -> ws]
    BY <1>3
<1>6. ASSUME NEW a \in ws
      PROVE  \E i \in DOMAIN f : f[i] = a
    <2>1. CASE a = x
        BY <1>1, <1>4, <2>1
    <2>2. CASE a # x
        <3>1. PICK i \in 1..(n - 1) : g[i] = a
            BY <1>4, <2>2 DEF InOrder
        <3>2. i + 1 \in 1..n /\ i + 1 # 1 /\ (i + 1) - 1 = i
            BY <1>1, <3>1
        <3> QED
            BY <1>3, <1>4, <3>1, <3>2
    <2> QED
        BY <2>1, <2>2
<1>7. ASSUME NEW i \in DOMAIN f, NEW j \in DOMAIN f, i < j
      PROVE  Stronger(f[i], f[j])
    <2>1. j # 1 /\ f[j] = g[j - 1] /\ f[j] \in ws \ {x} /\ j - 1 \in DOMAIN g
        BY <1>1, <1>3, <1>4, <1>7
    <2>2. CASE i = 1
        BY <1>4, <2>1, <2>2
    <2>3. CASE i # 1
        <3>1. f[i] = g[i - 1] /\ i - 1 \in DOMAIN g /\ i - 1 < j - 1
            BY <1>1, <1>3, <1>4, <1>7, <2>3
        <3> QED
            BY <2>1, <3>1 DEF InOrder
    <2> QED
        BY <2>2, <2>3
<1> HIDE DEF f
<1> QED
    BY <1>5, <1>6, <1>7 DEF InOrder, n

LEMMA OrderExists ==
    ASSUME RotationTypeOK, NEW ws \in SUBSET Agents, IsFiniteSet(ws)
    PROVE  \E f : InOrder(f, ws)
<1> DEFINE Bad == {k \in Nat : \E s \in SUBSET Agents :
                       IsFiniteSet(s) /\ Cardinality(s) = k /\ ~ \E f : InOrder(f, s)}
<1>1. ASSUME Bad # {}
      PROVE  FALSE
    <2>1. PICK k \in Bad : \A j \in Bad : k <= j
        <3> HIDE DEF Bad
        <3>1. Bad \subseteq Nat
            BY DEF Bad
        <3> QED
            BY <1>1, <3>1, FirstByName
    <2>2. PICK s \in SUBSET Agents : IsFiniteSet(s) /\ Cardinality(s) = k /\ ~ \E f : InOrder(f, s)
        OBVIOUS
    <2>3. ASSUME NEW x \in s
          PROVE  \E g : InOrder(g, s \ {x})
        <3>1. IsFiniteSet(s \ {x}) /\ Cardinality(s \ {x}) = k - 1 /\ k \in Nat /\ k - 1 \in Nat
            <4>1. IsFiniteSet(s \ {x}) /\ Cardinality(s \ {x}) = Cardinality(s) - 1
                BY <2>2, FS_RemoveElement
            <4>2. Cardinality(s) \in Nat /\ Cardinality(s \ {x}) \in Nat
                BY <2>2, <4>1, FS_CardinalityType
            <4> QED
                BY <2>2, <4>1, <4>2
        <3> QED
            BY <2>1, <3>1
    <2>4. s # {}
        <3>1. SUFFICES ASSUME s = {} PROVE FALSE
            OBVIOUS
        <3>2. Cardinality(s) = 0
            BY <3>1, FS_EmptySet
        <3>3. InOrder([i \in {} |-> 0], s)
            BY <3>1, <3>2 DEF InOrder
        <3> QED
            BY <2>2, <3>3
    <2>5. PICK y \in s : TRUE
        BY <2>4
    <2>6. PICK g : InOrder(g, s \ {y})
        BY <2>3
    <2>7. PICK x \in s : \A b \in s \ {x} : Stronger(x, b)
        <3>1. CASE s = {y}
            BY <3>1
        <3>2. CASE s # {y}
            <4>1. PICK z \in s \ {y} : z = g[1] /\ 1 \in DOMAIN g
                <5>1. PICK w \in s \ {y} : TRUE
                    BY <2>5, <3>2
                <5>2. Cardinality(s \ {y}) \in Nat /\ DOMAIN g = 1..Cardinality(s \ {y})
                      /\ g \in [DOMAIN g -> s \ {y}]
                    BY <2>2, <2>6, FS_RemoveElement, FS_CardinalityType DEF InOrder
                <5>3. PICK i \in DOMAIN g : g[i] = w
                    BY <2>6, <5>1 DEF InOrder
                <5>4. PICK n \in Nat : DOMAIN g = 1..n
                    BY <5>2
                <5>5. 1 \in DOMAIN g
                    BY <5>3, <5>4
                <5>6. g[1] \in s \ {y}
                    BY <5>2, <5>5
                <5> QED
                    BY <5>5, <5>6
            <4>2. ASSUME NEW b \in s \ {y}, b # z
                  PROVE  Stronger(z, b)
                <5>1. PICK i \in DOMAIN g : g[i] = b
                    BY <2>6, <4>2 DEF InOrder
                <5>2. Cardinality(s \ {y}) \in Nat /\ DOMAIN g = 1..Cardinality(s \ {y})
                    BY <2>2, <2>6, FS_RemoveElement, FS_CardinalityType DEF InOrder
                <5>3. 1 < i
                    BY <4>1, <4>2, <5>1, <5>2
                <5> QED
                    BY <2>6, <4>1, <5>1, <5>3 DEF InOrder
            <4>3. y \in Agents /\ z \in Agents /\ \A b \in s : b \in Agents
                OBVIOUS
            <4>4. CASE Stronger(y, z)
                <5>1. \A b \in s \ {y} : Stronger(y, b)
                    BY <4>2, <4>3, <4>4, StrongerOrders
                <5> QED
                    BY <2>5, <5>1
            <4>5. CASE Stronger(z, y)
                <5>1. \A b \in s \ {z} : Stronger(z, b)
                    BY <4>2, <4>5
                <5> QED
                    BY <4>1, <5>1
            <4> QED
                BY <4>1, <4>3, <4>4, <4>5, StrongerOrders
        <3> QED
            BY <3>1, <3>2
    <2>8. PICK h : InOrder(h, s \ {x})
        BY <2>3
    <2> QED
        BY <2>2, <2>7, <2>8, GoesFirst
<1>2. Cardinality(ws) \in Nat
    BY FS_CardinalityType
<1> QED
    BY <1>1, <1>2

LEMMA PullOrderOrders ==
    ASSUME RotationTypeOK, NEW ws \in SUBSET Agents, IsFiniteSet(ws)
    PROVE  InOrder(PullOrder(ws), ws)
<1>1. PICK f : InOrder(f, ws)
    BY OrderExists
<1> QED
    BY <1>1 DEF InOrder, PullOrder

\* Along an order the walk comes to a exactly if a is in and all before it out.
LEMMA WalkStops ==
    ASSUME RotationTypeOK, NEW ws \in SUBSET Agents, IsFiniteSet(ws), NEW a
    PROVE  FirstIn(PullOrder(ws), a)
             <=> /\ a \in ws /\ ~Out(quota, a)
                 /\ \A b \in ws : Stronger(b, a) => Out(quota, b)
<1> DEFINE order == PullOrder(ws)
           stops == {i \in DOMAIN order : order[i] = a \/ ~Out(quota, order[i])}
           m == Min(stops)
<1>1. InOrder(order, ws)
    BY PullOrderOrders
<1>2. DOMAIN order \subseteq Nat /\ stops \subseteq Nat
    <2>1. Cardinality(ws) \in Nat
        BY FS_CardinalityType
    <2> QED
        BY <1>1, <2>1 DEF InOrder
<1>3. stops # {} => m \in stops /\ \A i \in stops : m <= i
    BY <1>2, FirstByName DEF Min
<1>4. FirstIn(order, a) <=> stops # {} /\ order[m] = a /\ ~Out(quota, a)
    BY DEF FirstIn
<1>5. \A i \in DOMAIN order : order[i] \in ws
    BY <1>1 DEF InOrder
<1> HIDE DEF order, stops, m
<1>6. ASSUME FirstIn(order, a)
      PROVE  /\ a \in ws /\ ~Out(quota, a)
             /\ \A b \in ws : Stronger(b, a) => Out(quota, b)
    <2>1. m \in DOMAIN order /\ order[m] = a /\ a \in ws /\ ~Out(quota, a)
        BY <1>3, <1>4, <1>5, <1>6 DEF stops
    <2>2. ASSUME NEW b \in ws, Stronger(b, a), ~Out(quota, b)
          PROVE  FALSE
        <3>1. PICK j \in DOMAIN order : order[j] = b
            BY <1>1 DEF InOrder
        <3>2. j \in stops
            BY <2>2, <3>1 DEF stops
        <3>3. m <= j /\ m \in Nat /\ j \in Nat
            BY <1>2, <1>3, <2>1, <3>1, <3>2
        <3>4. ~Stronger(a, b) /\ a # b
            BY <2>1, <2>2, StrongerOrders
        <3> QED
            BY <1>1, <2>1, <3>1, <3>3, <3>4 DEF InOrder
    <2> QED
        BY <2>1, <2>2
<1>7. ASSUME a \in ws, ~Out(quota, a),
             \A b \in ws : Stronger(b, a) => Out(quota, b)
      PROVE  FirstIn(order, a)
    <2>1. PICK i \in DOMAIN order : order[i] = a
        BY <1>1, <1>7 DEF InOrder
    <2>2. i \in stops /\ m \in stops /\ m <= i /\ m \in Nat /\ i \in Nat
        BY <1>2, <1>3, <2>1 DEF stops
    <2>3. m < i => FALSE
        BY <1>1, <1>5, <1>7, <2>1, <2>2, StrongerOrders DEF InOrder, stops
    <2> QED
        BY <1>4, <1>7, <2>1, <2>2, <2>3
<1> QED
    BY <1>6, <1>7 DEF order

\* There are finitely many workers, whatever names there may be.
FiniteWorkers == IsFiniteSet(workers)

LEMMA FiniteWorkersStep ==
    ASSUME FiniteWorkers, [RotationNext]_rotationVars
    PROVE  FiniteWorkers'
<1>1. \/ workers' = workers \/ \E a : workers' = workers \cup {a}
      \/ \E a : workers' = workers \ {a}
    BY DEF RotationNext, CreateAgent, UpdateAgent, RemoveAgent, Report, Tick,
           rows, rotationVars
<1> QED
    BY <1>1, FS_AddElement, FS_RemoveElement DEF FiniteWorkers

(***************************************************************************)
(* mayPull and mayReview, as the tracker uses them, decide what sorting    *)
(* the workers and walking them decides (tiers.go, firstIn).               *)
(***************************************************************************)
THEOREM WalkAgreesAlways == RotationSpec => []WalkAgrees
<1>1. RInv /\ FiniteWorkers => WalkAgrees
    <2> SUFFICES ASSUME RInv, FiniteWorkers, NEW a \in Agents
                 PROVE  /\ \A t \in TierNumbers : MayPull(quota, a, t)
                             <=> FirstIn(PullOrder({b \in workers : tier[b] = t}), a)
                        /\ \A i \in Agents : MayReview(quota, a, i)
                             <=> a # i /\ FirstIn(PullOrder(workers \ {i}), a)
        BY DEF WalkAgrees
    <2>1. RotationTypeOK /\ workers \subseteq Agents
        BY DEF RInv, RotationTypeOK
    <2>2. ASSUME NEW t \in TierNumbers
          PROVE  MayPull(quota, a, t)
                   <=> FirstIn(PullOrder({b \in workers : tier[b] = t}), a)
        <3> DEFINE ws == {b \in workers : tier[b] = t}
        <3>1. ws \in SUBSET Agents /\ IsFiniteSet(ws)
            BY <2>1, FS_Subset DEF FiniteWorkers
        <3>2. \A b \in ws : a \in ws => (Stronger(b, a) <=> Before(b, a))
            BY <2>1, TierAssumption DEF Stronger, RotationTypeOK
        <3>3. MayPull(quota, a, t)
                <=> /\ a \in ws /\ ~Out(quota, a)
                    /\ \A b \in ws : Stronger(b, a) => Out(quota, b)
            BY <3>2 DEF MayPull
        <3> HIDE DEF ws
        <3> QED
            BY <2>1, <3>1, <3>3, WalkStops DEF ws
    <2>3. ASSUME NEW i \in Agents
          PROVE  MayReview(quota, a, i)
                   <=> a # i /\ FirstIn(PullOrder(workers \ {i}), a)
        <3> DEFINE ws == workers \ {i}
        <3>1. ws \in SUBSET Agents /\ IsFiniteSet(ws)
            BY <2>1, FS_Subset DEF FiniteWorkers
        <3>2. MayReview(quota, a, i)
                <=> /\ a # i /\ a \in ws /\ ~Out(quota, a)
                    /\ \A b \in ws : Stronger(b, a) => Out(quota, b)
            BY DEF MayReview
        <3> HIDE DEF ws
        <3> QED
            BY <2>1, <3>1, <3>2, WalkStops DEF ws
    <2> QED
        BY <2>2, <2>3
<1>2. RotationInit => FiniteWorkers
    BY FS_EmptySet DEF RotationInit, FiniteWorkers
<1>3. FiniteWorkers /\ [RotationNext]_rotationVars => FiniteWorkers'
    BY FiniteWorkersStep
<1> QED
    BY <1>1, <1>2, <1>3, RInvAlways, PTL DEF RotationSpec

-----------------------------------------------------------------------------
\* The items.

SoundRow(r) ==
    /\ r.status # "absent" => WellAssigned(r)
    /\ Staffed(r) /\ LeaseFits(r) /\ Seconded(r)
    /\ r.failures >= MaxItemFailures => r.hold = "held"

RowOK(r) == r \in ItemRows /\ SoundRow(r)

TInv ==
    /\ RInv
    /\ settings \in [Projects -> SUBSET Settings]
    /\ item \in [Items -> ItemRows]
    /\ \A i \in Items : RowOK(item[i])
    /\ OneMergePerProject

\* Row n, saved under i, is not a second merge under way in its project.
MergeSafe(i, n) ==
    n.status = "approved" /\ LeaseLive(n) =>
        \A j \in Items \ {i} :
            item[j].status = "approved" /\ LeaseLive(item[j]) =>
                item[j].project # n.project

-----------------------------------------------------------------------------
(***************************************************************************)
(* Rows of the right type stay so when a field takes a value of its type.  *)
(***************************************************************************)
LEMMA FieldType ==
    ASSUME NEW r \in ItemRows
    PROVE  /\ \A x \in Statuses : [r EXCEPT !.status = x] \in ItemRows
           /\ \A x \in Types : [r EXCEPT !.type = x] \in ItemRows
           /\ \A x \in {"number", "id"} : [r EXCEPT !.key = x] \in ItemRows
           /\ \A x \in Agents \cup {Owner, NoOne} :
                [r EXCEPT !.assignee = x] \in ItemRows
           /\ \A x \in TierNumbers \cup {0} : [r EXCEPT !.tier = x] \in ItemRows
           /\ \A x \in Nat : [r EXCEPT !.lease = x] \in ItemRows
BY DEF ItemRows

LEMMA WorkflowFieldType ==
    ASSUME NEW r \in ItemRows
    PROVE  /\ \A x \in Agents \cup {NoOne} : [r EXCEPT !.implementer = x] \in ItemRows
           /\ \A x \in Agents \cup {NoOne} : [r EXCEPT !.reviewer = x] \in ItemRows
           /\ \A x \in {"named", "none"} : [r EXCEPT !.branch = x] \in ItemRows
           /\ \A x \in {"recorded", "none"} : [r EXCEPT !.commit = x] \in ItemRows
           /\ \A x \in {"approve", "request_changes", "comment", "none"} :
                [r EXCEPT !.verdict = x] \in ItemRows
BY DEF ItemRows, Verdicts

LEMMA QueueFieldType ==
    ASSUME NEW r \in ItemRows
    PROVE  /\ \A x \in Projects \cup {NoProject} :
                [r EXCEPT !.project = x] \in ItemRows
           /\ \A x \in Refs \cup {NoRef} : [r EXCEPT !.after = x] \in ItemRows
           /\ \A x \in {"free", "held"} : [r EXCEPT !.hold = x] \in ItemRows
           /\ \A x \in Nat : [r EXCEPT !.failures = x] \in ItemRows
           /\ \A x \in {"raw", "specced"} : [r EXCEPT !.spec = x] \in ItemRows
BY DEF ItemRows

(***************************************************************************)
(* A row past submit is nobody's personal task, because its implementer is *)
(* a worker; work a worker holds is not the owner's.                       *)
(***************************************************************************)
LEMMA NotATask ==
    ASSUME RotationTypeOK, NEW r, RowOK(r),
           \/ r.status \in {"in_review", "pending_approval", "approved"}
           \/ r.status # "absent" /\ r.assignee \in Agents
    PROVE  r.type # "task"
BY PeopleAssumption
DEF RowOK, SoundRow, WellAssigned, Staffed, RotationTypeOK

LEMMA HolderIsWorker ==
    ASSUME RotationTypeOK, NEW r, RowOK(r), NEW a \in Agents,
           HeldInProgress(r, a)
    PROVE  a \in workers /\ a # Owner /\ a # NoOne /\ r.type # "task"
BY NotATask, PeopleAssumption
DEF RowOK, SoundRow, HeldInProgress, Staffed, Ended

LEMMA TierOfItem ==
    ASSUME RotationTypeOK, NEW r
    PROVE  r.tier \in TierNumbers \cup {0} => ItemTier(r) \in TierNumbers
BY TierAssumption DEF ItemTier, RotationTypeOK

LEMMA TierThatExists ==
    ASSUME RotationTypeOK, NEW t, TierExists(t)
    PROVE  t \in TierNumbers
BY DEF TierExists, RotationTypeOK

(***************************************************************************)
(* What a transition leaves is settled: the owner gets the task, whatever  *)
(* its handler did to the assignee.                                        *)
(***************************************************************************)
LEMMA SettledOK ==
    ASSUME NEW n \in ItemRows,
           n.type # "task" => SoundRow(n),
           n.type = "task" =>
              /\ n.branch = "none" /\ n.implementer = NoOne
              /\ n.status \in {"open", "in_progress", "blocked", "done",
                               "closed", "cancelled"}
              /\ n.lease # 0 => n.status = "in_progress"
              /\ n.failures >= MaxItemFailures => n.hold = "held"
    PROVE  /\ RowOK(Settled(n))
           /\ Settled(n).status = n.status /\ Settled(n).lease = n.lease
<1>1. CASE n.type # "task"
    BY <1>1 DEF Settled, RowOK
<1>2. CASE n.type = "task"
    <2> DEFINE m == [n EXCEPT !.assignee = Owner]
    <2>1. Settled(n) = m
        BY <1>2 DEF Settled
    <2>2. m \in ItemRows
        BY FieldType
    <2>3. SoundRow(m) /\ m.status = n.status /\ m.lease = n.lease
        BY <1>2, PeopleAssumption
        DEF ItemRows, SoundRow, WellAssigned, Staffed, LeaseFits, Seconded,
            Ended
    <2> QED
        BY <2>1, <2>2, <2>3 DEF RowOK
<1> QED
    BY <1>1, <1>2

-----------------------------------------------------------------------------
(***************************************************************************)
(* The claim and the release.                                              *)
(***************************************************************************)
LEMMA ClaimedOK ==
    ASSUME RotationTypeOK, NEW q, NEW i \in Items, RowOK(item[i]),
           NEW a \in Agents, CanClaim(q, i, a)
    PROVE  /\ RowOK(Claimed(item[i], a))
           /\ MayRelease(Claimed(item[i], a), a)
           /\ Claimed(item[i], a).type # "task"
<1> DEFINE r == item[i]
           t == now + LeaseTime
<1>1. /\ a \in workers /\ a # Owner /\ a # NoOne
      /\ r.type # "task" /\ r.assignee # Owner
      /\ r.status \in {"open", "in_progress", "in_review", "approved"}
      /\ r.status = "in_progress" => r.assignee = a
      /\ r.status = "approved" => r.implementer = a
    BY PeopleAssumption
    DEF CanClaim, MayClaimOpen, MayClaimInProgress, MayClaimReview,
        MayClaimMerge
<1>2. t \in Nat /\ t # 0
    BY NumberAssumption DEF RotationTypeOK
<1>3. CASE r.status = "open"
    <2> DEFINE n == [[r EXCEPT !.status = "in_progress", !.assignee = a]
                        EXCEPT !.lease = t]
    <2>1. Claimed(r, a) = n
        BY <1>3 DEF Claimed, Leased
    <2>2. n \in ItemRows
        BY <1>2, FieldType DEF RowOK, Statuses
    <2>3. SoundRow(n) /\ MayRelease(n, a) /\ n.type # "task"
        BY <1>1 DEF RowOK, SoundRow, ItemRows, WellAssigned, Staffed,
                    LeaseFits, Seconded, Ended, MayRelease
    <2> QED
        BY <2>1, <2>2, <2>3 DEF RowOK
<1>4. CASE r.status = "in_review"
    <2> DEFINE n == [[r EXCEPT !.reviewer = a] EXCEPT !.lease = t]
    <2>1. Claimed(r, a) = n
        BY <1>4 DEF Claimed, Leased
    <2>2. n \in ItemRows
        BY <1>2, FieldType, WorkflowFieldType DEF RowOK
    <2>3. SoundRow(n) /\ MayRelease(n, a) /\ n.type # "task"
        BY <1>1, <1>2, <1>4
        DEF RowOK, SoundRow, ItemRows, WellAssigned, Staffed, LeaseFits,
            Seconded, Ended, MayRelease
    <2> QED
        BY <2>1, <2>2, <2>3 DEF RowOK
<1>5. CASE r.status \in {"in_progress", "approved"}
    <2> DEFINE n == [r EXCEPT !.lease = t]
    <2>1. Claimed(r, a) = n
        BY <1>5 DEF Claimed, Leased
    <2>2. n \in ItemRows
        BY <1>2, FieldType DEF RowOK
    <2>3. SoundRow(n) /\ MayRelease(n, a) /\ n.type # "task"
        BY <1>1, <1>5
        DEF RowOK, SoundRow, ItemRows, WellAssigned, Staffed, LeaseFits,
            Seconded, Ended, MayRelease
    <2> QED
        BY <2>1, <2>2, <2>3 DEF RowOK
<1> QED
    BY <1>1, <1>3, <1>4, <1>5

LEMMA ReleasedOK ==
    ASSUME RotationTypeOK, NEW r, RowOK(r), NEW a \in Agents, MayRelease(r, a)
    PROVE  /\ RowOK(Released(r)) /\ Released(r).type # "task"
           /\ Released(r).lease = 0
<1>1. r.type # "task"
    BY NotATask DEF MayRelease
<1>2. CASE r.status = "in_progress"
    <2> DEFINE n == [r EXCEPT !.status = "open", !.lease = 0]
    <2>1. Released(r) = n
        BY <1>2 DEF Released
    <2>2. n \in ItemRows
        BY FieldType DEF RowOK, Statuses
    <2>3. SoundRow(n) /\ n.type # "task" /\ n.lease = 0
        BY <1>1, <1>2
        DEF RowOK, SoundRow, ItemRows, WellAssigned, Staffed, LeaseFits,
            Seconded, Ended
    <2> QED
        BY <2>1, <2>2, <2>3 DEF RowOK
<1>3. CASE r.status = "in_review"
    <2> DEFINE n == [r EXCEPT !.reviewer = NoOne, !.lease = 0]
    <2>1. Released(r) = n
        BY <1>3 DEF Released
    <2>2. n \in ItemRows
        BY FieldType, WorkflowFieldType DEF RowOK
    <2>3. SoundRow(n) /\ n.type # "task" /\ n.lease = 0
        BY <1>1, <1>3
        DEF RowOK, SoundRow, ItemRows, WellAssigned, Staffed, LeaseFits,
            Seconded, Ended
    <2> QED
        BY <2>1, <2>2, <2>3 DEF RowOK
<1>4. CASE r.status = "approved"
    <2> DEFINE n == [r EXCEPT !.lease = 0]
    <2>1. Released(r) = n
        BY <1>4 DEF Released
    <2>2. n \in ItemRows
        BY FieldType DEF RowOK
    <2>3. SoundRow(n) /\ n.type # "task" /\ n.lease = 0
        BY <1>1, <1>4
        DEF RowOK, SoundRow, ItemRows, WellAssigned, Staffed, LeaseFits,
            Seconded, Ended
    <2> QED
        BY <2>1, <2>2, <2>3 DEF RowOK
<1> QED
    BY <1>2, <1>3, <1>4 DEF MayRelease
-----------------------------------------------------------------------------
(***************************************************************************)
(* A step that saves one row keeps the invariant when the row it saves is  *)
(* sound and starts no second merge.                                       *)
(***************************************************************************)
LEMMA SaveStep ==
    ASSUME TInv, RInv', NEW i \in Items, NEW n, RowOK(n), MergeSafe(i, n),
           item' = [item EXCEPT ![i] = n], UNCHANGED <<workers, now, settings>>
    PROVE  TInv'
<1>1. \A j \in Items : item'[j] = IF j = i THEN n ELSE item[j]
    BY DEF TInv
<1>2. item' \in [Items -> ItemRows]
    BY DEF TInv, RowOK
<1>3. \A j \in Items : RowOK(item[j])' <=> RowOK(item'[j])
    BY DEF RowOK, SoundRow, WellAssigned, Staffed, LeaseFits, Seconded,
           Ended, ItemRows, Statuses, Types, Refs, Verdicts
<1>4. \A j \in Items : RowOK(item[j])'
    BY <1>1, <1>3 DEF TInv
<1>5. OneMergePerProject'
    BY <1>1 DEF TInv, OneMergePerProject, MergeSafe, LeaseLive, LeaseExpired
<1> QED
    BY <1>2, <1>4, <1>5 DEF TInv

\* Only a live lease on an approved row is a merge under way.
LEMMA NoMerge ==
    ASSUME NEW i, NEW n, n.status # "approved" \/ n.lease = 0
    PROVE  MergeSafe(i, n)
BY DEF MergeSafe, LeaseLive

\* A row that was a merge under way goes on being it.
LEMMA SameMerge ==
    ASSUME TInv, NEW i \in Items, NEW n, n.status = item[i].status,
           n.lease = item[i].lease, n.project = item[i].project
    PROVE  MergeSafe(i, n)
BY DEF TInv, OneMergePerProject, MergeSafe, LeaseLive, LeaseExpired

LEMMA TransitionStep ==
    ASSUME TInv, NEW i \in Items, NEW n, Transition(i, n),
           RowOK(Settled(n)), MergeSafe(i, Settled(n))
    PROVE  TInv'
<1>1. /\ UNCHANGED <<rows, now>> /\ woke' = "yes"
      /\ item' = [item EXCEPT ![i] = Settled(n)]
      /\ UNCHANGED <<workers, now, settings>>
    BY DEF Transition, Save, rows
<1>2. RInv'
    BY <1>1 DEF TInv, RInv, rows, RotationTypeOK, ExactlyOneLead
<1> QED
    BY <1>1, <1>2, SaveStep

\* The usual case: nothing merges under a lease afterwards.
LEMMA PlainTransition ==
    ASSUME TInv, NEW i \in Items, NEW n, Transition(i, n),
           RowOK(Settled(n)),
           Settled(n).status = n.status, Settled(n).lease = n.lease,
           n.status # "approved" \/ n.lease = 0
    PROVE  TInv'
BY TransitionStep, NoMerge

\* A transition that leaves a row which is no task.
LEMMA WorkTransition ==
    ASSUME TInv, NEW i \in Items, NEW n \in ItemRows, Transition(i, n),
           SoundRow(n), n.type # "task", n.status # "approved" \/ n.lease = 0
    PROVE  TInv'
BY PlainTransition, SettledOK

-----------------------------------------------------------------------------
(***************************************************************************)
(* The claim: of an approved item only where no merge of its project is    *)
(* under way.                                                              *)
(***************************************************************************)
LEMMA ClaimIsMergeSafe ==
    ASSUME TInv, NEW q, NEW i \in Items, NEW a \in Agents, CanClaim(q, i, a)
    PROVE  MergeSafe(i, Claimed(item[i], a))
<1> DEFINE r == item[i]
<1>1. CASE r.status = "approved"
    <2>1. ~MergeInFlight(r.project)
        BY <1>1 DEF CanClaim, MayClaimOpen, MayClaimInProgress,
                    MayClaimReview, MayClaimMerge
    <2>2. ASSUME NEW j \in Items, item[j].status = "approved",
                 LeaseLive(item[j])
          PROVE  item[j].project # r.project
        <3>1. item[j].type # "task" /\ item[j].assignee # Owner
            BY <2>2, NotATask, PeopleAssumption
            DEF TInv, RInv, RowOK, SoundRow, LeaseFits
        <3> QED
            BY <2>1, <2>2, <3>1 DEF MergeInFlight
    <2>3. Claimed(r, a).project = r.project
        BY <1>1 DEF Claimed, Leased, TInv, ItemRows
    <2> QED
        BY <2>2, <2>3 DEF MergeSafe
<1>2. CASE r.status # "approved"
    <2>1. Claimed(r, a).status # "approved"
        BY <1>2 DEF Claimed, Leased, TInv, ItemRows
    <2> QED
        BY <2>1, NoMerge
<1> QED
    BY <1>1, <1>2

LEMMA ClaimStep ==
    ASSUME TInv, NEW i \in Items, NEW a \in Agents, Claim(i, a)
    PROVE  TInv'
<1> DEFINE n == Claimed(item[i], a)
<1>1. CanClaim(quota, i, a) /\ Transition(i, n)
    BY DEF Claim
<1>2. RowOK(n) /\ n.type # "task"
    BY <1>1, ClaimedOK DEF TInv, RInv
<1>3. MergeSafe(i, n) /\ Settled(n) = n
    BY <1>1, <1>2, ClaimIsMergeSafe DEF Settled
<1> QED
    BY <1>1, <1>2, <1>3, TransitionStep

LEMMA ReleaseStep ==
    ASSUME TInv, NEW i \in Items, NEW a \in Agents, Release(i, a)
    PROVE  TInv'
<1>1. RowOK(Released(item[i])) /\ Released(item[i]).type # "task"
      /\ Released(item[i]).lease = 0
    BY ReleasedOK DEF Release, TInv, RInv
<1> QED
    BY <1>1, WorkTransition DEF Release, RowOK

-----------------------------------------------------------------------------
(***************************************************************************)
(* What a worker hands back.                                               *)
(***************************************************************************)
LEMMA SubmitStep ==
    ASSUME TInv, NEW i \in Items, NEW a \in Agents, Submit(i, a)
    PROVE  TInv'
<1> DEFINE n == Submitted(item[i], a)
<1>1. a \in workers /\ a # Owner /\ a # NoOne /\ item[i].type # "task"
    BY HolderIsWorker DEF TInv, RInv, Submit
<1>2. n \in ItemRows
    BY FieldType, WorkflowFieldType DEF TInv, Submitted, Statuses
<1>3. SoundRow(n) /\ n.type # "task" /\ n.lease = 0
    BY <1>1, PeopleAssumption
    DEF TInv, Submitted, RowOK, SoundRow, ItemRows, WellAssigned, Staffed,
        LeaseFits, Seconded, Ended
<1> QED
    BY <1>2, <1>3, WorkTransition DEF Submit

LEMMA SubmitCodeReviewStep ==
    ASSUME TInv, NEW i \in Items, NEW a \in Agents,
           NEW v \in Verdicts \cup {"none"}, SubmitCodeReview(i, a, v)
    PROVE  TInv'
<1> DEFINE r == item[i]
           w == IF v = "none" THEN r.verdict ELSE v
           n == [r EXCEPT !.status = "pending_approval", !.implementer = a,
                          !.assignee = Owner, !.reviewer = NoOne,
                          !.lease = 0, !.verdict = w]
<1>1. a \in workers /\ r.type = "code_review" /\ Transition(i, n)
    BY HolderIsWorker DEF TInv, RInv, SubmitCodeReview
<1>2. w \in Verdicts \cup {"none"}
    BY DEF TInv, ItemRows
<1>3. n \in ItemRows
    BY <1>2, FieldType, WorkflowFieldType DEF TInv, Statuses, Verdicts
<1>4. SoundRow(n) /\ n.type # "task" /\ n.lease = 0
    BY <1>1, PeopleAssumption
    DEF TInv, RowOK, SoundRow, ItemRows, WellAssigned, Staffed, LeaseFits,
        Seconded, Ended
<1> QED
    BY <1>1, <1>3, <1>4, WorkTransition

LEMMA ReviewApproveStep ==
    ASSUME TInv, NEW i \in Items, NEW a \in Agents,
           NEW c \in {"none", "recorded"}, ReviewApprove(i, a, c)
    PROVE  TInv'
<1> DEFINE r == item[i]
           s == IF Automatic(r.project) THEN "approved" ELSE "pending_approval"
           n == [r EXCEPT !.status = s, !.commit = c, !.assignee = NoOne,
                          !.reviewer = a, !.verdict = "approve", !.lease = 0]
<1>1. /\ r.status = "in_review" /\ a # r.implementer /\ Transition(i, n)
      /\ s \in {"approved", "pending_approval"}
    BY DEF ReviewApprove, MayReviewNow
<1>2. r.type # "task"
    BY <1>1, NotATask DEF TInv, RInv
<1>3. n \in ItemRows
    BY <1>1, FieldType, WorkflowFieldType DEF TInv, Statuses, Verdicts
<1>4. SoundRow(n) /\ n.type # "task" /\ n.lease = 0
    BY <1>1, <1>2, PeopleAssumption
    DEF TInv, RowOK, SoundRow, ItemRows, WellAssigned, Staffed, LeaseFits,
        Seconded, Ended
<1> QED
    BY <1>1, <1>3, <1>4, WorkTransition

LEMMA ReviewRequestChangesStep ==
    ASSUME TInv, NEW i \in Items, NEW a \in Agents, ReviewRequestChanges(i, a)
    PROVE  TInv'
<1> DEFINE r == item[i]
           n == [r EXCEPT !.status = "in_progress", !.commit = "none",
                          !.assignee = r.implementer, !.reviewer = a,
                          !.verdict = "request_changes", !.lease = 0]
<1>1. r.status = "in_review" /\ Transition(i, n)
    BY DEF ReviewRequestChanges, MayReviewNow
<1>2. /\ r.type # "task" /\ r.implementer \in workers
      /\ r.implementer \in Agents
    BY <1>1, NotATask
    DEF TInv, RInv, RotationTypeOK, RowOK, SoundRow, Staffed
<1>3. n \in ItemRows
    BY <1>2, FieldType, WorkflowFieldType DEF TInv, Statuses, Verdicts
<1>4. SoundRow(n) /\ n.type # "task" /\ n.lease = 0
    BY <1>1, <1>2, PeopleAssumption
    DEF TInv, RowOK, SoundRow, ItemRows, WellAssigned, Staffed, LeaseFits,
        Seconded, Ended
<1> QED
    BY <1>1, <1>3, <1>4, WorkTransition

LEMMA ReworkStep ==
    ASSUME TInv, NEW i \in Items, NEW a \in Agents, Rework(i, a)
    PROVE  TInv'
<1> DEFINE r == item[i]
           n == [r EXCEPT !.status = "in_progress", !.assignee = a,
                          !.commit = "none", !.verdict = "request_changes",
                          !.lease = 0]
<1>1. r.status = "approved" /\ r.implementer = a /\ Transition(i, n)
    BY DEF Rework
<1>2. r.type # "task" /\ a \in workers
    BY <1>1, NotATask DEF TInv, RInv, RowOK, SoundRow, Staffed
<1>3. n \in ItemRows
    BY FieldType, WorkflowFieldType DEF TInv, Statuses, Verdicts
<1>4. SoundRow(n) /\ n.type # "task" /\ n.lease = 0
    BY <1>1, <1>2, PeopleAssumption
    DEF TInv, RowOK, SoundRow, ItemRows, WellAssigned, Staffed, LeaseFits,
        Seconded, Ended
<1> QED
    BY <1>1, <1>3, <1>4, WorkTransition

LEMMA GroomStep ==
    ASSUME TInv, NEW i \in Items, NEW a \in Agents,
           NEW t \in TierNumbers \cup {0}, NEW h \in Agents \cup {NoOne},
           Groom(i, a, t, h)
    PROVE  TInv'
<1> DEFINE r == item[i]
           u == IF t = 0 THEN r.tier ELSE t
           n == [r EXCEPT !.status = "open", !.tier = u, !.assignee = h,
                          !.spec = "specced", !.lease = 0]
<1>1. /\ Transition(i, n) /\ HeldInProgress(r, a)
      /\ h \in workers \cup {NoOne}
    BY DEF Groom, Pinnable
<1>2. r.type # "task"
    BY <1>1, HolderIsWorker DEF TInv, RInv
<1>3. u \in TierNumbers \cup {0}
    BY DEF TInv, ItemRows
<1>4. n \in ItemRows
    BY <1>3, FieldType, QueueFieldType DEF TInv, Statuses
<1>5. SoundRow(n) /\ n.type # "task" /\ n.lease = 0
    BY <1>1, <1>2, PeopleAssumption
    DEF TInv, RowOK, SoundRow, ItemRows, WellAssigned, Staffed, LeaseFits,
        Seconded, Ended
<1> QED
    BY <1>1, <1>4, <1>5, WorkTransition

LEMMA BlockStep ==
    ASSUME TInv, NEW i \in Items, NEW a \in Agents, Block(i, a)
    PROVE  TInv'
<1> DEFINE r == item[i]
           n == [r EXCEPT !.status = "blocked", !.lease = 0]
<1>1. Transition(i, n) /\ HeldInProgress(r, a)
    BY DEF Block
<1>2. a \in workers /\ a # Owner /\ a # NoOne /\ r.type # "task"
    BY <1>1, HolderIsWorker DEF TInv, RInv
<1>3. n \in ItemRows
    BY FieldType DEF TInv, Statuses
<1>4. SoundRow(n) /\ n.type # "task" /\ n.lease = 0
    BY <1>1, <1>2
    DEF TInv, RowOK, SoundRow, ItemRows, WellAssigned, Staffed, LeaseFits,
        Seconded, Ended, HeldInProgress
<1> QED
    BY <1>1, <1>3, <1>4, WorkTransition

LEMMA CompleteStep ==
    ASSUME TInv, NEW i \in Items, NEW a, Complete(i, a)
    PROVE  TInv'
<1> DEFINE r == item[i]
           n == [r EXCEPT !.status = "done", !.assignee = NoOne, !.lease = 0]
<1>1. Transition(i, n) /\ r.type = "coding"
    BY DEF Complete
<1>2. n \in ItemRows
    BY FieldType DEF TInv, Statuses
<1>3. SoundRow(n) /\ n.type # "task" /\ n.lease = 0
    BY <1>1, PeopleAssumption
    DEF TInv, RowOK, SoundRow, ItemRows, WellAssigned, Staffed, LeaseFits,
        Seconded, Ended
<1> QED
    BY <1>1, <1>2, <1>3, WorkTransition

-----------------------------------------------------------------------------
(***************************************************************************)
(* The owner's transitions.                                                *)
(***************************************************************************)
LEMMA ApproveStep ==
    ASSUME TInv, NEW i \in Items, Approve(i)
    PROVE  TInv'
<1> DEFINE r == item[i]
           s == IF r.type = "code_review" THEN "done" ELSE "approved"
           n == [r EXCEPT !.status = s, !.assignee = NoOne, !.lease = 0]
<1>1. Transition(i, n) /\ r.status = "pending_approval"
    BY DEF Approve, Approved
<1>2. r.type # "task"
    BY <1>1, NotATask DEF TInv, RInv
<1>3. n \in ItemRows
    BY FieldType DEF TInv, Statuses
<1>4. SoundRow(n) /\ n.type # "task" /\ n.lease = 0
    BY <1>1, <1>2, PeopleAssumption
    DEF TInv, RowOK, SoundRow, ItemRows, WellAssigned, Staffed, LeaseFits,
        Seconded, Ended
<1> QED
    BY <1>1, <1>3, <1>4, WorkTransition

LEMMA RequestChangesStep ==
    ASSUME TInv, NEW i \in Items, RequestChanges(i)
    PROVE  TInv'
<1> DEFINE r == item[i]
           n == [r EXCEPT !.status = "in_progress",
                          !.assignee = r.implementer,
                          !.verdict = "request_changes", !.lease = 0]
<1>1. Transition(i, n) /\ r.status = "pending_approval"
    BY DEF RequestChanges
<1>2. r.type # "task" /\ r.implementer \in workers \cap Agents
    BY <1>1, NotATask
    DEF TInv, RInv, RotationTypeOK, RowOK, SoundRow, Staffed
<1>3. n \in ItemRows
    BY <1>2, FieldType, WorkflowFieldType DEF TInv, Statuses, Verdicts
<1>4. SoundRow(n) /\ n.type # "task" /\ n.lease = 0
    BY <1>1, <1>2, PeopleAssumption
    DEF TInv, RowOK, SoundRow, ItemRows, WellAssigned, Staffed, LeaseFits,
        Seconded, Ended
<1> QED
    BY <1>1, <1>3, <1>4, WorkTransition

LEMMA CompleteTaskStep ==
    ASSUME TInv, NEW i \in Items, CompleteTask(i)
    PROVE  TInv'
<1> DEFINE r == item[i]
           n == [r EXCEPT !.status = "done", !.lease = 0]
<1>1. Transition(i, n) /\ r.type = "task" /\ r.status # "absent"
    BY DEF CompleteTask, Exists
<1>2. n \in ItemRows
    BY FieldType DEF TInv, Statuses
<1>3. /\ n.type = "task" /\ n.status = "done" /\ n.lease = 0
      /\ n.branch = "none" /\ n.implementer = NoOne
      /\ n.failures >= MaxItemFailures => n.hold = "held"
    BY <1>1 DEF TInv, RowOK, SoundRow, ItemRows, WellAssigned
<1>4. /\ RowOK(Settled(n))
      /\ Settled(n).status = n.status /\ Settled(n).lease = n.lease
    BY <1>2, <1>3, SettledOK
<1> QED
    BY <1>1, <1>3, <1>4, PlainTransition

LEMMA ReopenStep ==
    ASSUME TInv, NEW i \in Items, Reopen(i)
    PROVE  TInv'
<1> DEFINE r == item[i]
           back == /\ r.implementer \in workers
                   /\ ~Out(quota, r.implementer)
           to == IF r.assignee = NoOne /\ back THEN r.implementer
                 ELSE r.assignee
           pinned == [r EXCEPT !.assignee = to]
           u == IF r.assignee = NoOne /\ r.tier = 0
                THEN ItemTier(pinned) ELSE r.tier
           n == [r EXCEPT !.status = "open", !.assignee = to,
                          !.reviewer = NoOne, !.lease = 0, !.tier = u]
<1>1. Transition(i, n)
    BY DEF Reopen, Reopened
<1>2. r.status \in {"blocked", "done", "closed", "cancelled"}
    BY DEF Reopen, Ended
<1>3. to \in Agents \cup {Owner, NoOne} /\ to \in workers \cup {Owner, NoOne}
    BY <1>2 DEF TInv, RInv, RotationTypeOK, RowOK, SoundRow, ItemRows,
                Staffed, LeaseFits, Ended
<1>4. u \in TierNumbers \cup {0}
    <2>1. pinned.tier = r.tier /\ r.tier \in TierNumbers \cup {0}
        BY DEF TInv, ItemRows
    <2> QED
        BY <2>1, TierOfItem DEF TInv, RInv
<1>5. n \in ItemRows
    BY <1>3, <1>4, FieldType, WorkflowFieldType DEF TInv, Statuses
<1>6. CASE r.type # "task"
    <2>1. to # Owner
        BY <1>2, <1>6, PeopleAssumption
        DEF TInv, RowOK, SoundRow, WellAssigned, RInv, RotationTypeOK
    <2>2. SoundRow(n) /\ n.type # "task" /\ n.lease = 0
        BY <1>2, <1>3, <1>6, <2>1, PeopleAssumption
        DEF TInv, RowOK, SoundRow, ItemRows, WellAssigned, Staffed,
            LeaseFits, Seconded, Ended
    <2> QED
        BY <1>1, <1>5, <2>2, WorkTransition
<1>7. CASE r.type = "task"
    <2>1. /\ n.type = "task" /\ n.status = "open" /\ n.lease = 0
          /\ n.branch = "none" /\ n.implementer = NoOne
          /\ n.failures >= MaxItemFailures => n.hold = "held"
        BY <1>2, <1>7 DEF TInv, RowOK, SoundRow, ItemRows, WellAssigned
    <2>2. /\ RowOK(Settled(n))
          /\ Settled(n).status = n.status /\ Settled(n).lease = n.lease
        <3>. HIDE DEF n
        <3>. QED
            BY <1>5, <2>1, SettledOK
    <2> QED
        BY <1>1, <2>1, <2>2, PlainTransition
<1> QED
    BY <1>6, <1>7

(***************************************************************************)
(* The hold and the failure count touch neither status nor lease.          *)
(***************************************************************************)
HoldsOnly(r, n) ==
    \E h \in {"free", "held"}, f \in Nat :
        /\ n = [r EXCEPT !.hold = h, !.failures = f]
        /\ f >= MaxItemFailures => h = "held"

LEMMA HoldsOnlyOK ==
    ASSUME TInv, NEW i \in Items, NEW n, HoldsOnly(item[i], n),
           item[i].status # "absent"
    PROVE  /\ RowOK(n) /\ MergeSafe(i, n)
           /\ Settled(n) = n
<1> DEFINE r == item[i]
<1>1. PICK h \in {"free", "held"}, f \in Nat :
          /\ n = [r EXCEPT !.hold = h, !.failures = f]
          /\ f >= MaxItemFailures => h = "held"
    BY DEF HoldsOnly
<1>2. n \in ItemRows
    BY <1>1, QueueFieldType DEF TInv
<1>3. SoundRow(n)
    BY <1>1 DEF TInv, RowOK, SoundRow, ItemRows, WellAssigned, Staffed, LeaseFits,
        Seconded, Ended
<1>4. n.status = r.status /\ n.lease = r.lease /\ n.project = r.project
    BY <1>1 DEF TInv, ItemRows
<1>5. n.status # "absent" /\ n.type = "task" => n.assignee = Owner
    BY <1>3 DEF SoundRow, WellAssigned
<1>6. n.type = "task" => [n EXCEPT !.assignee = Owner] = n
    BY <1>2, <1>4, <1>5 DEF ItemRows
<1> QED
    BY <1>2, <1>3, <1>4, <1>6, SameMerge DEF RowOK, Settled

LEMMA HoldStep ==
    ASSUME TInv, NEW i \in Items, Hold(i) \/ Unhold(i)
    PROVE  TInv'
<1> DEFINE r == item[i]
<1>1. CASE Hold(i)
    <2> DEFINE n == [r EXCEPT !.hold = "held"]
    <2>1. Transition(i, n) /\ r.status # "absent"
        BY <1>1 DEF Hold
    <2>2. n = [r EXCEPT !.hold = "held", !.failures = r.failures]
          /\ r.failures \in Nat
        BY DEF TInv, ItemRows
    <2>3. HoldsOnly(r, n)
        BY <2>2 DEF HoldsOnly
    <2> QED
        BY <2>1, <2>3, HoldsOnlyOK, TransitionStep
<1>2. CASE Unhold(i)
    <2> DEFINE n == [r EXCEPT !.hold = "free", !.failures = 0]
    <2>1. Transition(i, n) /\ r.status # "absent"
        BY <1>2 DEF Unhold, Exists
    <2>2. 0 \in Nat /\ ~(0 >= MaxItemFailures)
        BY NumberAssumption
    <2>3. HoldsOnly(r, n)
        BY <2>2, Zenon DEF HoldsOnly
    <2> QED
        BY <2>1, <2>3, HoldsOnlyOK, TransitionStep
<1> QED
    BY <1>1, <1>2

LEMMA RunStep ==
    ASSUME TInv, NEW i \in Items, RunFailed(i) \/ RunSettled(i)
    PROVE  TInv'
<1> DEFINE r == item[i]
<1>1. /\ r.status # "absent" /\ woke' = "no"
      /\ UNCHANGED <<rows, now>> /\ UNCHANGED <<workers, now, settings>>
    BY DEF RunFailed, RunSettled, Exists, rows
<1>2. RInv'
    BY <1>1 DEF TInv, RInv, rows, RotationTypeOK, ExactlyOneLead
<1>3. CASE RunFailed(i)
    <2> DEFINE h == IF r.failures + 1 >= MaxItemFailures
                    THEN "held" ELSE r.hold
               n == [r EXCEPT !.failures = r.failures + 1, !.hold = h]
    <2>1. item' = [item EXCEPT ![i] = n]
        BY <1>3 DEF RunFailed, Failed, TInv
    <2>2. h \in {"free", "held"} /\ r.failures + 1 \in Nat
        BY DEF TInv, ItemRows
    <2>3. n = [r EXCEPT !.hold = h, !.failures = r.failures + 1]
        BY DEF TInv, ItemRows
    <2>4. HoldsOnly(r, n)
        BY <2>2, <2>3 DEF HoldsOnly
    <2> QED
        BY <1>1, <1>2, <2>1, <2>4, HoldsOnlyOK, SaveStep
<1>4. CASE RunSettled(i)
    <2> DEFINE n == [r EXCEPT !.failures = 0]
    <2>1. item' = [item EXCEPT ![i] = n]
        BY <1>4 DEF RunSettled, TInv
    <2>2. n = [r EXCEPT !.hold = r.hold, !.failures = 0]
          /\ r.hold \in {"free", "held"}
        BY DEF TInv, ItemRows
    <2>3. 0 \in Nat /\ ~(0 >= MaxItemFailures)
        BY NumberAssumption
    <2>4. HoldsOnly(r, n)
        BY <2>2, <2>3, Zenon DEF HoldsOnly
    <2> QED
        BY <1>1, <1>2, <2>1, <2>4, HoldsOnlyOK, SaveStep
<1> QED
    BY <1>3, <1>4

\* Over, the assignee cleared or left as it was.
LEMMA CancelStep ==
    ASSUME TInv, NEW i \in Items, Cancel(i) \/ Close(i)
    PROVE  TInv'
<1> DEFINE r == item[i]
           s == IF Cancel(i) THEN "cancelled" ELSE "closed"
           to == IF Cancel(i) THEN NoOne ELSE r.assignee
           n == [r EXCEPT !.status = s, !.assignee = to, !.lease = 0]
<1>1. Transition(i, n) /\ r.status # "absent"
    <2>1. CASE Cancel(i)
        BY <2>1 DEF Cancel, Exists
    <2>2. CASE ~Cancel(i)
        <3>1. Close(i)
            BY <2>2
        <3>2. n = [r EXCEPT !.status = "closed", !.lease = 0]
            BY <2>2 DEF TInv, ItemRows
        <3> QED
            BY <3>1, <3>2 DEF Close
    <2> QED
        BY <2>1, <2>2
<1>2. to \in Agents \cup {Owner, NoOne} /\ s \in {"cancelled", "closed"}
      /\ (to = NoOne \/ (to = r.assignee /\ r.status = "done"))
    BY DEF TInv, ItemRows, Close
<1>3. n \in ItemRows
    BY <1>2, FieldType DEF TInv, Statuses
<1>4. n.status = s /\ n.lease = 0 /\ n.type = r.type
    BY DEF TInv, ItemRows
<1>5. ASSUME n.type # "task" PROVE SoundRow(n)
    BY <1>1, <1>2, <1>5, PeopleAssumption
    DEF TInv, RowOK, SoundRow, ItemRows, WellAssigned, Staffed, LeaseFits,
        Seconded, Ended
<1>6. ASSUME n.type = "task"
      PROVE  /\ n.branch = "none" /\ n.implementer = NoOne
             /\ n.failures >= MaxItemFailures => n.hold = "held"
    BY <1>1, <1>6 DEF TInv, RowOK, SoundRow, ItemRows, WellAssigned
<1>7. /\ RowOK(Settled(n))
      /\ Settled(n).status = n.status /\ Settled(n).lease = n.lease
    BY <1>2, <1>3, <1>4, <1>5, <1>6, SettledOK
<1> QED
    BY <1>1, <1>2, <1>4, <1>7, PlainTransition

(***************************************************************************)
(* The rounds of a code review.                                            *)
(***************************************************************************)
LEMMA RereviewedOK ==
    ASSUME RotationTypeOK, NEW r \in ItemRows, MayRereview(r),
           r.type = "code_review"
    PROVE  /\ Rereviewed(r) \in ItemRows /\ SoundRow(Rereviewed(r))
           /\ Rereviewed(r).type # "task" /\ Rereviewed(r).lease = 0
<1> DEFINE u == RereviewTier(r)
           to == IF r.implementer \in workers /\ ~Out(quota, r.implementer)
                 THEN r.implementer ELSE NoOne
           n == [r EXCEPT !.status = "open", !.tier = u, !.assignee = to,
                          !.reviewer = NoOne, !.branch = "none",
                          !.hold = "free", !.spec = "specced",
                          !.failures = 0, !.lease = 0]
<1>1. Rereviewed(r) = n
    BY DEF Rereviewed
<1>2. u \in TierNumbers
    BY TierThatExists DEF MayRereview
<1>3. to \in Agents \cup {NoOne} /\ to \in workers \cup {NoOne}
    BY DEF RotationTypeOK
<1>4. n \in ItemRows
    BY <1>2, <1>3, FieldType, WorkflowFieldType, QueueFieldType DEF Statuses
<1>5. SoundRow(n) /\ n.type # "task" /\ n.lease = 0
    BY <1>3, PeopleAssumption, NumberAssumption
    DEF SoundRow, ItemRows, WellAssigned, Staffed, LeaseFits, Seconded, Ended
<1> QED
    BY <1>1, <1>4, <1>5

LEMMA RereviewStep ==
    ASSUME TInv, NEW i \in Items,
           Rereview(i) \/ QueueReview(i) \/ CompleteReview(i)
    PROVE  TInv'
<1> DEFINE r == item[i]
<1>1. CASE Rereview(i)
    BY <1>1, RereviewedOK, WorkTransition
    DEF Rereview, MayRereview, TInv, RInv
<1>2. CASE QueueReview(i)
    <2> DEFINE requested == [r EXCEPT !.type = "code_review",
                                      !.key = "number"]
    <2>1. MayRereview(requested) /\ Transition(i, Rereviewed(requested))
        BY <1>2 DEF QueueReview
    <2>2. requested \in ItemRows
        BY FieldType DEF TInv, Types
    <2>3. requested.type = "code_review"
        BY <2>1 DEF MayRereview
    <2> QED
        BY <2>1, <2>2, <2>3, RereviewedOK, WorkTransition DEF TInv, RInv
<1>3. CASE CompleteReview(i)
    <2> DEFINE n == [r EXCEPT !.status = "done", !.assignee = NoOne,
                              !.lease = 0]
    <2>1. Transition(i, n) /\ r.type = "code_review"
        BY <1>3 DEF CompleteReview, Approved
    <2>2. n \in ItemRows
        BY FieldType DEF TInv, Statuses
    <2>3. SoundRow(n) /\ n.type # "task" /\ n.lease = 0
        BY <2>1, PeopleAssumption
        DEF TInv, RowOK, SoundRow, ItemRows, WellAssigned, Staffed, LeaseFits,
        Seconded, Ended
    <2> QED
        BY <2>1, <2>2, <2>3, WorkTransition
<1> QED
    BY <1>1, <1>2, <1>3

-----------------------------------------------------------------------------
(***************************************************************************)
(* Items filed and patched.                                                *)
(***************************************************************************)
LEMMA BlankOK == RowOK(Blank)
<1>1. Blank \in ItemRows
    BY DEF Blank, ItemRows, Types
<1>2. SoundRow(Blank)
    BY PeopleAssumption, NumberAssumption
    DEF Blank, SoundRow, Staffed, LeaseFits, Seconded, Ended
<1> QED
    BY <1>1, <1>2 DEF RowOK

LEMMA ItemKeyType ==
    ASSUME TInv, NEW j \in Items
    PROVE  ItemKey(j) \in Refs
BY DEF TInv, ItemKey, Refs, ItemRows

LEMMA CreateItemStep ==
    ASSUME TInv, NEW i \in Items, NEW d \in Drafts, CreateItem(i, d)
    PROVE  TInv'
<1> DEFINE u == DraftTier(d)
           k == IF d.project = NoProject THEN "id" ELSE "number"
           f == IF d.after = NoRef THEN NoRef ELSE ItemKey(d.after)
           s == IF d.type = "coding" THEN d.spec ELSE "specced"
           n == [Blank EXCEPT
                    !.status = "open", !.type = d.type, !.project = d.project,
                    !.key = k, !.assignee = d.assignee, !.tier = u,
                    !.hold = d.hold, !.after = f, !.spec = s]
<1>1. Transition(i, n)
    BY DEF CreateItem, Transition
<1>2. d \in ItemDrafts
    BY InputAssumption
<1>3. u \in TierNumbers \cup {0}
    <2>1. CASE d.type = "task"
        BY <1>2, <2>1 DEF DraftTier, ItemDrafts
    <2>2. CASE d.type # "task"
        BY <2>2, TierThatExists DEF CreateItem, TInv, RInv
    <2> QED
        BY <2>1, <2>2
<1>4. f \in Refs \cup {NoRef}
    BY <1>2, ItemKeyType DEF ItemDrafts
<1>5. d.type = "task" \/ d.assignee \in workers \cup {NoOne}
    BY DEF CreateItem, Pinnable
<1>6. n \in ItemRows
    <2>1. /\ d.type \in Types /\ d.project \in Projects \cup {NoProject}
          /\ d.assignee \in Agents \cup {Owner, NoOne}
          /\ d.hold \in {"free", "held"}
          /\ k \in {"number", "id"} /\ s \in {"raw", "specced"}
        BY <1>2 DEF ItemDrafts
    <2> DEFINE filed == [Blank EXCEPT !.status = "open", !.type = d.type,
                                      !.project = d.project, !.key = k]
    <2>2. filed \in ItemRows
        BY <2>1, BlankOK, FieldType, QueueFieldType DEF RowOK, Statuses
    <2>3. [filed EXCEPT !.assignee = d.assignee, !.tier = u, !.hold = d.hold,
                        !.after = f, !.spec = s] \in ItemRows
        <3> HIDE DEF filed, u, f, s
        <3> QED
            BY <1>3, <1>4, <2>1, <2>2, FieldType, QueueFieldType
    <2> QED
        BY <2>3
<1>7. /\ n.status = "open" /\ n.lease = 0 /\ n.type = d.type
      /\ n.branch = "none" /\ n.implementer = NoOne
      /\ n.failures = 0 /\ n.assignee = d.assignee
    BY DEF Blank
<1>8. ASSUME n.type # "task" PROVE SoundRow(n)
    <2>1. n.assignee \in workers \cup {NoOne} /\ n.assignee # Owner
        BY <1>2, <1>5, <1>7, <1>8, PeopleAssumption DEF ItemDrafts
    <2> QED
        BY <1>7, <1>8, <2>1, PeopleAssumption, NumberAssumption
        DEF SoundRow, WellAssigned, Staffed, LeaseFits, Seconded, Ended
<1>9. /\ RowOK(Settled(n))
      /\ Settled(n).status = n.status /\ Settled(n).lease = n.lease
    <2> HIDE DEF n
    <2>1. ~(n.failures >= MaxItemFailures)
        BY <1>7, NumberAssumption
    <2> QED
        BY <1>6, <1>7, <1>8, <2>1, SettledOK
<1> QED
    BY <1>1, <1>7, <1>9, PlainTransition

LEMMA UpdateItemStep ==
    ASSUME TInv, NEW i \in Items, NEW p \in Patches, UpdateItem(i, p)
    PROVE  TInv'
<1> DEFINE r == item[i]
           n == Updated(r, p)
           project == Given(p.project, r.project)
           assignee == Given(p.assignee, r.assignee)
           s == IF Reassigns(r, p) /\ p.assignee = Owner
                THEN "specced" ELSE r.spec
           lease == IF Reassigns(r, p) /\ r.status = "in_progress"
                    THEN 0 ELSE r.lease
<1>1. /\ r.status # "absent" /\ MayMove(i, p) /\ MayReassign(r, p)
      /\ p.tier # Same => TierExists(p.tier)
      /\ WellAssigned(n) /\ item' = [item EXCEPT ![i] = n]
      /\ UNCHANGED <<rows, now>> /\ UNCHANGED <<workers, now, settings>>
      /\ woke' \in {"yes", "no"}
    BY DEF UpdateItem, Exists, rows
<1>2. p \in ItemPatches /\ r \in ItemRows
    BY InputAssumption DEF TInv
<1>3. RInv'
    BY <1>1 DEF TInv, RInv, rows, RotationTypeOK, ExactlyOneLead
<1>4. n = [r EXCEPT !.project = project, !.key = KeyAfter(r, p),
                    !.type = TypeAfter(r, p), !.tier = TierAfter(r, p),
                    !.assignee = assignee, !.after = AfterAfter(r, p),
                    !.spec = s, !.lease = lease]
    BY <1>2 DEF Updated, ItemRows
<1>5. /\ project \in Projects \cup {NoProject}
      /\ assignee \in Agents \cup {Owner, NoOne}
      /\ s \in {"raw", "specced"} /\ lease \in Nat
    BY <1>2 DEF Given, ItemPatches, ItemRows
<1>6. /\ KeyAfter(r, p) \in {"number", "id"}
      /\ AfterAfter(r, p) \in Refs \cup {NoRef}
      /\ TypeAfter(r, p) \in Types
    BY <1>2, ItemKeyType
    DEF KeyAfter, AfterAfter, TypeAfter, Given, ItemPatches, ItemRows, Types
<1>7. TierAfter(r, p) \in TierNumbers \cup {0}
    <2>1. CASE Delegates(r, p)
        BY <1>1, <2>1, TierThatExists
        DEF MayReassign, Delegates, TInv, RInv
    <2>2. CASE ~Delegates(r, p)
        BY <1>2, <2>2 DEF TierAfter, Given, ItemPatches, ItemRows
    <2> QED
        BY <2>1, <2>2
<1>8. n \in ItemRows
    <2> DEFINE moved == [r EXCEPT !.project = project, !.key = KeyAfter(r, p),
                                  !.type = TypeAfter(r, p),
                                  !.tier = TierAfter(r, p)]
    <2>1. moved \in ItemRows
        BY <1>2, <1>5, <1>6, <1>7, FieldType, QueueFieldType
    <2>2. [moved EXCEPT !.assignee = assignee, !.after = AfterAfter(r, p),
                        !.spec = s, !.lease = lease] \in ItemRows
        <3> HIDE DEF moved
        <3> QED
            BY <1>5, <1>6, <2>1, FieldType, QueueFieldType
    <2> QED
        BY <1>4, <2>2
<1>9. /\ n.status = r.status /\ n.lease = lease /\ n.project = project
      /\ n.assignee = assignee /\ n.implementer = r.implementer
      /\ n.reviewer = r.reviewer /\ n.commit = r.commit
      /\ n.verdict = r.verdict /\ n.hold = r.hold
      /\ n.failures = r.failures
    BY <1>2, <1>4 DEF ItemRows
<1>10. /\ r.status \notin {"open", "in_progress"} => assignee = r.assignee
       /\ r.status = "in_progress" /\ assignee # r.assignee =>
             assignee # NoOne
       /\ assignee # r.assignee /\ assignee \in Agents =>
             assignee \in workers
       /\ r.status # "in_progress" => lease = r.lease
    BY <1>1 DEF MayReassign, Reassigns, Given, Pinnable
<1>11. RowOK(r)
    BY DEF TInv
<1>12. SoundRow(n)
    <2>1. Staffed(n)
        BY <1>9, <1>10, <1>11 DEF RowOK, SoundRow, Staffed, Ended
    <2>2. LeaseFits(n)
        BY <1>9, <1>10, <1>11 DEF RowOK, SoundRow, LeaseFits
    <2>3. Seconded(n)
        BY <1>9, <1>10, <1>11 DEF RowOK, SoundRow, Seconded
    <2> QED
        BY <1>1, <1>9, <1>11, <2>1, <2>2, <2>3 DEF RowOK, SoundRow
<1>13. MergeSafe(i, n)
    <2>1. CASE r.status = "approved"
        <3>1. r.implementer # NoOne
            BY <1>11, <2>1, PeopleAssumption
            DEF TInv, RInv, RotationTypeOK, RowOK, SoundRow, Staffed
        <3>2. project = r.project
            BY <1>1, <3>1 DEF MayMove, Moves, Given
        <3> QED
            BY <1>9, <1>10, <2>1, <3>2, SameMerge
    <2>2. CASE r.status # "approved"
        BY <1>9, <2>2, NoMerge
    <2> QED
        BY <2>1, <2>2
<1> QED
    BY <1>1, <1>3, <1>8, <1>12, <1>13, SaveStep DEF RowOK

-----------------------------------------------------------------------------
(***************************************************************************)
(* A check-in records its report, claims and may give back at once.        *)
(***************************************************************************)
LEMMA SameItems ==
    ASSUME TInv, RInv', UNCHANGED <<workers, now, item>>,
           settings' \in [Projects -> SUBSET Settings]
    PROVE  TInv'
BY DEF TInv, RowOK, SoundRow, WellAssigned, Staffed, LeaseFits, Seconded,
       Ended, ItemRows, Statuses, Types, Refs, Verdicts, OneMergePerProject,
       LeaseLive, LeaseExpired

LEMMA CheckInStep ==
    ASSUME TInv, NEW a \in Agents, NEW q \in QuotasAfter(a, Reports),
           CheckIn(a, q)
    PROVE  TInv'
<1>1. Report(a, q) /\ UNCHANGED <<workers, now, settings>>
    BY DEF CheckIn, CheckInIdle, CheckInClaim, CheckInUnassembled, Report,
           trackerVars
<1>2. RInv'
    BY <1>1, ReportRInv DEF TInv
<1>3. CASE CheckInIdle(a, q)
    BY <1>1, <1>2, <1>3, SameItems DEF CheckInIdle, trackerVars, TInv
<1>4. ASSUME NEW i \in Items, CheckInClaim(a, q, i)
      PROVE  TInv'
    <2> DEFINE n == Claimed(item[i], a)
    <2>1. CanClaim(q, i, a) /\ item' = [item EXCEPT ![i] = Settled(n)]
        BY <1>4 DEF CheckInClaim, FirstClaimable, Save
    <2>2. RowOK(n) /\ Settled(n) = n
        BY <2>1, ClaimedOK DEF TInv, RInv, Settled
    <2>3. MergeSafe(i, n)
        BY <2>1, ClaimIsMergeSafe
    <2> QED
        BY <1>1, <1>2, <2>1, <2>2, <2>3, SaveStep
<1>5. ASSUME NEW i \in Items, CheckInUnassembled(a, q, i)
      PROVE  TInv'
    <2> DEFINE n == Released(Claimed(item[i], a))
    <2>1. CanClaim(q, i, a) /\ item' = [item EXCEPT ![i] = Settled(n)]
        BY <1>5 DEF CheckInUnassembled, FirstClaimable, Save
    <2>2. RowOK(Claimed(item[i], a)) /\ MayRelease(Claimed(item[i], a), a)
        BY <2>1, ClaimedOK DEF TInv, RInv
    <2>3. RowOK(n) /\ n.type # "task" /\ n.lease = 0
        BY <2>2, ReleasedOK DEF TInv, RInv
    <2>4. Settled(n) = n /\ MergeSafe(i, n)
        BY <2>3, NoMerge DEF Settled
    <2> QED
        BY <1>1, <1>2, <2>1, <2>3, <2>4, SaveStep
<1> QED
    BY <1>3, <1>4, <1>5 DEF CheckIn

-----------------------------------------------------------------------------
(***************************************************************************)
(* The roster and the clock.  A worker that leaves is nobody's assignee    *)
(* and nobody's implementer past submit; time only ends leases.            *)
(***************************************************************************)
LEMMA RosterStep ==
    ASSUME TInv, RInv', UNCHANGED <<now, item, settings>>,
           \A i \in Items :
              /\ item[i].assignee \in workers /\ ~Ended(item[i]) =>
                    item[i].assignee \in workers'
              /\ /\ item[i].status \in
                       {"in_review", "pending_approval", "approved"}
                 /\ item[i].implementer \in workers
                 => item[i].implementer \in workers'
    PROVE  TInv'
<1>1. \A i \in Items : RowOK(item[i])'
    BY DEF TInv, RowOK, SoundRow, WellAssigned, Staffed, LeaseFits,
           Seconded, Ended, ItemRows, Statuses, Types, Refs, Verdicts
<1>2. OneMergePerProject'
    BY DEF TInv, OneMergePerProject, LeaseLive, LeaseExpired
<1> QED
    BY <1>1, <1>2 DEF TInv

LEMMA RosterNextStep ==
    ASSUME TInv, NEW a \in Agents, RosterNext(a)
    PROVE  TInv'
<1>1. ASSUME NEW t \in TierNumbers, NEW n \in SlotCounts,
             CreateAgent(a, t, n), UNCHANGED trackerVars
      PROVE  TInv'
    <2>1. RInv'
        BY <1>1, CreateAgentRInv DEF TInv
    <2> QED
        BY <1>1, <2>1, RosterStep DEF CreateAgent, trackerVars
<1>2. ASSUME NEW on \in BOOLEAN, NEW n \in SlotCounts,
             NEW t \in TierNumbers, NEW makesLead \in BOOLEAN,
             UpdateAgent(a, on, n, t, makesLead), UNCHANGED trackerVars
      PROVE  TInv'
    <2>1. RInv'
        BY <1>2, UpdateAgentRInv DEF TInv
    <2>2. UNCHANGED <<workers, now>>
        BY <1>2 DEF UpdateAgent
    <2> QED
        BY <1>2, <2>1, <2>2, RosterStep DEF trackerVars
<1>3. CASE DeleteAgent(a)
    <2>1. RInv'
        BY <1>3, RemoveAgentRInv DEF TInv, DeleteAgent
    <2>2. workers' = workers \ {a} /\ UNCHANGED <<now, item, settings>>
        BY <1>3 DEF DeleteAgent, RemoveAgent, trackerVars
    <2>3. MayDelete(a)
        BY <1>3 DEF DeleteAgent
    <2> QED
        BY <2>1, <2>2, <2>3, RosterStep DEF MayDelete
<1> QED
    BY <1>1, <1>2, <1>3 DEF RosterNext

LEMMA TickStep ==
    ASSUME TInv, Tick, UNCHANGED trackerVars
    PROVE  TInv'
<1>1. RInv' /\ UNCHANGED <<workers, item, settings>> /\ now' = now + 1
    BY TickRInv DEF TInv, Tick, rows, trackerVars
<1>2. now \in Nat /\ \A i \in Items : item[i].lease \in Nat
    BY DEF TInv, RInv, RotationTypeOK, ItemRows
<1>3. \A i \in Items : LeaseLive(item[i])' => LeaseLive(item[i])
    BY <1>1, <1>2 DEF LeaseLive, LeaseExpired
<1>4. OneMergePerProject'
    BY <1>1, <1>3 DEF TInv, OneMergePerProject
<1>5. \A i \in Items : RowOK(item[i])'
    BY <1>1 DEF TInv, RowOK, SoundRow, WellAssigned, Staffed, LeaseFits,
           Seconded, Ended, ItemRows, Statuses, Types, Refs, Verdicts
<1> QED
    BY <1>1, <1>4, <1>5 DEF TInv

-----------------------------------------------------------------------------
LEMMA WorkerNextStep ==
    ASSUME TInv, NEW i \in Items, NEW a \in Agents, WorkerNext(i, a)
    PROVE  TInv'
BY ClaimStep, ReleaseStep, SubmitStep, SubmitCodeReviewStep,
   ReviewApproveStep, ReviewRequestChangesStep, ReworkStep, GroomStep,
   BlockStep, CompleteStep DEF WorkerNext

LEMMA OwnerNextStep ==
    ASSUME TInv, NEW i \in Items, OwnerNext(i)
    PROVE  TInv'
BY ApproveStep, RequestChangesStep, CompleteStep, CompleteTaskStep,
   ReopenStep, HoldStep, CancelStep, RereviewStep DEF OwnerNext

LEMMA TInvInit == Init => TInv
<1> SUFFICES ASSUME Init PROVE TInv
    OBVIOUS
<1>1. RInv /\ item = [i \in Items |-> Blank]
    BY RInvInit DEF Init
<1>2. settings \in [Projects -> SUBSET Settings]
    BY InputAssumption DEF Init
<1>3. OneMergePerProject
    BY <1>1 DEF OneMergePerProject, Blank
<1> QED
    BY <1>1, <1>2, <1>3, BlankOK DEF TInv, RowOK

LEMMA TInvStep == TInv /\ [Next]_vars => TInv'
<1> SUFFICES ASSUME TInv, [Next]_vars PROVE TInv'
    OBVIOUS
<1>1. ASSUME NEW i \in Items, ItemNext(i)
      PROVE  TInv'
    BY <1>1, CreateItemStep, UpdateItemStep, WorkerNextStep, OwnerNextStep,
       RunStep DEF ItemNext
<1>2. ASSUME NEW a \in Agents, RosterNext(a)
      PROVE  TInv'
    BY <1>2, RosterNextStep
<1>3. ASSUME NEW a \in Agents, NEW q \in QuotasAfter(a, Reports),
             CheckIn(a, q)
      PROVE  TInv'
    BY <1>3, CheckInStep
<1>4. ASSUME NEW p \in Projects, NEW s \in ProjectStates,
             UpdateProject(p, s)
      PROVE  TInv'
    <2>1. UNCHANGED <<workers, now, item>> /\ UNCHANGED <<rows, now>>
          /\ woke' \in {"yes", "no"}
        BY <1>4 DEF UpdateProject, rows
    <2>2. RInv'
        BY <2>1 DEF TInv, RInv, rows, RotationTypeOK, ExactlyOneLead
    <2>3. settings' \in [Projects -> SUBSET Settings]
        BY <1>4, InputAssumption DEF UpdateProject, TInv
    <2> QED
        BY <2>1, <2>2, <2>3, SameItems
<1>5. CASE PassTime
    BY <1>5, TickStep DEF PassTime
<1>6. CASE UNCHANGED vars
    <2>1. RInv' /\ UNCHANGED <<workers, now, item, settings>>
        BY <1>6, UnchangedRInv DEF vars, rotationVars, trackerVars, TInv
    <2> QED
        BY <2>1, SameItems DEF TInv
<1> QED
    BY <1>1, <1>2, <1>3, <1>4, <1>5, <1>6 DEF Next

LEMMA TInvAlways == Spec => []TInv
BY TInvInit, TInvStep, PTL DEF Spec

-----------------------------------------------------------------------------
\* Types of every variable, under every sequence of handlers.
THEOREM TypesAlways == Spec => []TrackerTypeOK
<1>1. TInv => TrackerTypeOK
    BY DEF TInv, RInv, TrackerTypeOK
<1> QED
    BY <1>1, TInvAlways, PTL

\* Deleting workers never strands an item (service.go, DeleteAgent).
THEOREM NoGhostWorkerAlways == Spec => []NoGhostWorker
<1>1. TInv => NoGhostWorker
    BY DEF TInv, RowOK, SoundRow, NoGhostWorker
<1> QED
    BY <1>1, TInvAlways, PTL

\* The owner holds tasks and code reviews to judge, nothing else.
THEOREM OwnerAssignedAlways == Spec => []OwnerAssigned
<1>1. TInv => OwnerAssigned
    BY DEF TInv, RowOK, SoundRow, OwnerAssigned, Exists
<1> QED
    BY <1>1, TInvAlways, PTL

\* Lease, reviewer and assignee fit the status of every item.
THEOREM LeaseMatchesStatusAlways == Spec => []LeaseMatchesStatus
<1>1. TInv => LeaseMatchesStatus
    BY DEF TInv, RowOK, SoundRow, LeaseMatchesStatus
<1> QED
    BY <1>1, TInvAlways, PTL

\* What every handler relies on in the rows it finds.
THEOREM ItemsAlways == Spec => []ItemsWellFormed
BY TypesAlways, OwnerAssignedAlways, LeaseMatchesStatusAlways, PTL DEF ItemsWellFormed

\* No work is approved on its implementer's word (items.go, ActionReview).
THEOREM FourEyesAlways == Spec => []FourEyes
<1>1. TInv => FourEyes
    BY DEF TInv, RowOK, SoundRow, FourEyes
<1> QED
    BY <1>1, TInvAlways, PTL

\* Failing work stays held until the owner lifts the hold (runs.go).
THEOREM FailuresHoldAlways == Spec => []FailuresHold
<1>1. TInv => FailuresHold
    BY DEF TInv, RowOK, SoundRow, FailuresHold
<1> QED
    BY <1>1, TInvAlways, PTL

\* Two merges of one project are never under way at once (items.go).
THEOREM OneMergeAlways == Spec => []OneMergePerProject
<1>1. TInv => OneMergePerProject
    BY DEF TInv
<1> QED
    BY <1>1, TInvAlways, PTL

-----------------------------------------------------------------------------
(***************************************************************************)
(* candidates() asks of a review that nobody has taken it or that its      *)
(* lease ran out, the claim that no lease is live: the same because a      *)
(* review has a reviewer exactly while it has a lease.                     *)
(***************************************************************************)
LEMMA OffersMatch == TInv => OffersMatchClaims
<1> SUFFICES ASSUME TInv, NEW a \in workers, Working(quota, a),
                    HasFreeSlot(a), NEW i \in Items,
                    Workable(item[i].project)
             PROVE  i \in Candidates(quota, a) <=> CanClaim(quota, i, a)
    BY DEF OffersMatchClaims
<1> DEFINE r == item[i]
<1>1. i \in Candidates(quota, a) <=>
        r.type # "task" /\ r.assignee # Owner /\ r.hold = "free"
        /\ Offered(quota, r, a)
    BY DEF Candidates, Workflow
<1>2. CanClaim(quota, i, a) <=>
        /\ r.type # "task" /\ r.assignee # Owner /\ r.hold = "free"
        /\ \/ MayClaimOpen(quota, r, a) \/ MayClaimInProgress(r, a)
           \/ MayClaimReview(quota, r, a) \/ MayClaimMerge(r, a)
    BY DEF CanClaim
<1>3. OfferedMerge(r, a) <=> MayClaimMerge(r, a)
    BY DEF OfferedMerge, MayClaimMerge
<1>4. OfferedResume(r, a) <=> MayClaimInProgress(r, a)
    BY DEF OfferedResume, MayClaimInProgress
<1>5. OfferedOpen(quota, r, a) <=> MayClaimOpen(quota, r, a)
    BY DEF OfferedOpen, MayClaimOpen, MayPull
<1>6. OfferedReview(quota, r, a) <=> MayClaimReview(quota, r, a)
    <2>1. r.status = "in_review" => (r.reviewer = NoOne <=> r.lease = 0)
        BY DEF TInv, RowOK, SoundRow, LeaseFits
    <2>2. MayReview(quota, a, r.implementer) => r.implementer # a
        BY DEF MayReview
    <2> QED
        BY <2>1, <2>2 DEF OfferedReview, MayClaimReview, LeaseLive,
                          LeaseExpired
<1> QED
    BY <1>1, <1>2, <1>3, <1>4, <1>5, <1>6 DEF Offered

\* What the queue offers may be claimed, and what may be claimed in a project
\* that is worked on is offered (queue.go, candidates; items.go, claim).
THEOREM OffersMatchClaimsAlways == Spec => []OffersMatchClaims
BY OffersMatch, TInvAlways, PTL

-----------------------------------------------------------------------------
(***************************************************************************)
(* A review under a live lease has a reviewer, so the check of the names   *)
(* leaves nobody else to judge it; no other handler takes a review to a    *)
(* judged status.                                                          *)
(***************************************************************************)
JudgedByHolder(k) ==
    /\ item[k].status = "in_review" /\ LeaseLive(item[k])
    /\ item'[k].status \in {"in_progress", "pending_approval", "approved"}
    => item'[k].reviewer = item[k].reviewer

\* Settling a row changes neither its status nor its reviewer.
LEMMA SettledReview ==
    ASSUME TInv, NEW i \in Items, NEW n \in ItemRows, NEW k \in Items,
           item' = [item EXCEPT ![i] = Settled(n)],
           i = k /\ item[k].status = "in_review" /\ LeaseLive(item[k])
           => \/ n.status \notin {"in_progress", "pending_approval", "approved"}
              \/ n.reviewer = item[k].reviewer
    PROVE  JudgedByHolder(k)
<1>1. /\ Settled(n).status = n.status
      /\ Settled(n).reviewer = n.reviewer
    BY DEF Settled, ItemRows
<1>2. item'[k] = IF i = k THEN Settled(n) ELSE item[k]
    BY DEF TInv
<1> QED
    BY <1>1, <1>2 DEF JudgedByHolder

LEMMA VerdictByHolder ==
    ASSUME TInv, NEW i \in Items, NEW a \in Agents, NEW k \in Items,
           MayReviewNow(item[i], a),
           i = k /\ item[k].status = "in_review" /\ LeaseLive(item[k])
    PROVE  item[k].reviewer = a
BY DEF TInv, RowOK, SoundRow, LeaseFits, MayReviewNow, LeaseLive

LEMMA WorkerJudges ==
    ASSUME TInv, NEW i \in Items, NEW a \in Agents, NEW k \in Items,
           WorkerNext(i, a)
    PROVE  JudgedByHolder(k)
<1> DEFINE r == item[i]
<1> USE DEF Transition, Save
<1>1. r \in ItemRows
    BY DEF TInv
<1>2. CASE Claim(i, a)
    <2>1. ~LeaseLive(r) \/ r.status # "in_review"
        BY <1>2 DEF Claim, CanClaim, MayClaimOpen, MayClaimInProgress,
                    MayClaimReview, MayClaimMerge
    <2>2. Claimed(r, a) \in ItemRows
        BY <1>2, ClaimedOK DEF Claim, TInv, RInv, RowOK
    <2> QED
        BY <1>2, <2>1, <2>2, SettledReview DEF Claim
<1>3. CASE Release(i, a)
    <2>1. Released(r) \in ItemRows
        BY <1>3, ReleasedOK DEF Release, TInv, RInv, RowOK
    <2>2. r.status = "in_review" => Released(r).status = "in_review"
        BY <1>1 DEF Released, ItemRows
    <2> QED
        BY <1>3, <2>1, <2>2, SettledReview DEF Release
<1>4. ASSUME r.status # "in_review"
      PROVE  JudgedByHolder(k)
    <2>1. k = i => item[k].status # "in_review"
        BY <1>4
    <2>2. k # i => item'[k] = item[k]
        BY DEF WorkerNext, Claim, Release, Submit, SubmitCodeReview,
               ReviewApprove, ReviewRequestChanges, Rework, Groom, Block,
               Complete, TInv
    <2> QED
        BY <2>1, <2>2 DEF JudgedByHolder
<1>5. ASSUME NEW c \in {"none", "recorded"}, ReviewApprove(i, a, c)
      PROVE  JudgedByHolder(k)
    <2> DEFINE s == IF Automatic(r.project)
                    THEN "approved" ELSE "pending_approval"
               n == [r EXCEPT !.status = s, !.commit = c, !.assignee = NoOne,
                              !.reviewer = a, !.verdict = "approve",
                              !.lease = 0]
    <2>1. MayReviewNow(r, a) /\ item' = [item EXCEPT ![i] = Settled(n)]
        BY <1>5 DEF ReviewApprove
    <2>2. n \in ItemRows
        BY FieldType, WorkflowFieldType DEF TInv, Statuses, Verdicts
    <2>3. n.reviewer = a
        BY <1>1 DEF ItemRows
    <2> QED
        BY <2>1, <2>2, <2>3, VerdictByHolder, SettledReview
<1>6. CASE ReviewRequestChanges(i, a)
    <2> DEFINE n == [r EXCEPT !.status = "in_progress", !.commit = "none",
                              !.assignee = r.implementer, !.reviewer = a,
                              !.verdict = "request_changes", !.lease = 0]
    <2>1. MayReviewNow(r, a) /\ item' = [item EXCEPT ![i] = Settled(n)]
        BY <1>6 DEF ReviewRequestChanges
    <2>2. n \in ItemRows
        <3>1. r.implementer \in Agents \cup {Owner, NoOne}
            BY <1>1 DEF ItemRows
        <3> QED
            BY <3>1, FieldType, WorkflowFieldType DEF TInv, Statuses, Verdicts
    <2>3. n.reviewer = a
        BY <1>1 DEF ItemRows
    <2> QED
        BY <2>1, <2>2, <2>3, VerdictByHolder, SettledReview
<1>7. Submit(i, a) \/ Rework(i, a) \/ Block(i, a) \/ Complete(i, a)
      \/ (\E v \in Verdicts \cup {"none"} : SubmitCodeReview(i, a, v))
      \/ (\E t \in TierNumbers \cup {0}, h \in Agents \cup {NoOne} :
            Groom(i, a, t, h))
      => r.status # "in_review"
    BY DEF Submit, Rework, Block, Complete, SubmitCodeReview, Groom,
           HeldInProgress
<1> QED
    BY <1>2, <1>3, <1>4, <1>5, <1>6, <1>7 DEF WorkerNext

LEMMA OwnerJudges ==
    ASSUME TInv, NEW i \in Items, NEW k \in Items, OwnerNext(i)
    PROVE  JudgedByHolder(k)
<1> DEFINE r == item[i]
<1> USE DEF Transition, Save
<1>1. r \in ItemRows
    BY DEF TInv
<1>2. k # i => item'[k] = item[k]
    BY DEF OwnerNext, Approve, RequestChanges, Complete, CompleteTask, Reopen,
           Hold, Unhold, Cancel, Close, Rereview, QueueReview,
           CompleteReview, TInv
<1>3. CASE k # i \/ r.status # "in_review" \/ ~LeaseLive(r)
    BY <1>2, <1>3 DEF JudgedByHolder
<1>4. CASE k = i /\ r.status = "in_review" /\ LeaseLive(r)
    <2>1. Unhold(i) \/ Cancel(i)
        <3>1. r.type # "task"
            BY <1>4, NotATask DEF TInv, RInv
        <3>2. ~Rereview(i) /\ ~CompleteReview(i)
            BY <1>4 DEF Rereview, MayRereview, CompleteReview
        <3>3. ~QueueReview(i)
            BY <1>1, <1>4 DEF QueueReview, MayRereview, LeaseLive,
                              LeaseExpired, ItemRows
        <3>4. ~Approve(i) /\ ~RequestChanges(i) /\ ~Complete(i, Owner)
              /\ ~CompleteTask(i) /\ ~Reopen(i) /\ ~Hold(i) /\ ~Close(i)
            BY <1>4, <3>1 DEF Approve, RequestChanges, Complete, CompleteTask,
                              Reopen, Hold, Close, Ended
        <3> QED
            BY <3>2, <3>3, <3>4 DEF OwnerNext
    <2>2. CASE Unhold(i)
        <3> DEFINE n == [r EXCEPT !.hold = "free", !.failures = 0]
        <3>1. n \in ItemRows
            BY <1>1, QueueFieldType
        <3>2. n.reviewer = r.reviewer
            BY <1>1 DEF ItemRows
        <3> QED
            BY <1>4, <2>2, <3>1, <3>2, SettledReview DEF Unhold
    <2>3. CASE Cancel(i)
        <3> DEFINE n == [r EXCEPT !.status = "cancelled", !.assignee = NoOne,
                                  !.lease = 0]
        <3>1. n \in ItemRows
            BY <1>1, FieldType DEF Statuses
        <3>2. n.status = "cancelled"
            BY <1>1 DEF ItemRows
        <3> QED
            BY <1>4, <2>3, <3>1, <3>2, SettledReview DEF Cancel
    <2> QED
        BY <2>1, <2>2, <2>3
<1> QED
    BY <1>3, <1>4

\* A review under a live lease ends by its reviewer's verdict or not at all
\* (items.go, ActionReview).
THEOREM ReviewBelongsAlways == Spec => ReviewBelongsToHolder
<1>1. ASSUME TInv, [Next]_vars, NEW k \in Items
      PROVE  JudgedByHolder(k)
    <2>0. item \in [Items -> ItemRows]
        BY <1>1 DEF TInv
    <2>1. ASSUME item' = item
          PROVE  JudgedByHolder(k)
        BY <2>1 DEF JudgedByHolder
    <2>2. ASSUME NEW i \in Items, ItemNext(i)
          PROVE  JudgedByHolder(k)
        <3>1. ASSUME NEW d \in Drafts, CreateItem(i, d)
              PROVE  JudgedByHolder(k)
            <4>1. item[i].status = "absent"
                BY <3>1 DEF CreateItem, Exists
            <4>2. k # i => item'[k] = item[k]
                BY <2>0, <3>1 DEF CreateItem, Save
            <4> QED
                BY <4>1, <4>2 DEF JudgedByHolder
        <3>2. ASSUME NEW p \in Patches, UpdateItem(i, p)
              PROVE  JudgedByHolder(k)
            <4>1. item' = [item EXCEPT ![i] = Updated(item[i], p)]
                BY <3>2 DEF UpdateItem
            <4>2. Updated(item[i], p).status = item[i].status
                BY <2>0 DEF Updated, ItemRows
            <4>3. item'[k] = IF k = i THEN Updated(item[i], p) ELSE item[k]
                BY <2>0, <4>1
            <4> QED
                BY <4>2, <4>3 DEF JudgedByHolder
        <3>3. CASE RunFailed(i) \/ RunSettled(i)
            <4> DEFINE n == IF RunFailed(i) THEN Failed(item[i])
                            ELSE [item[i] EXCEPT !.failures = 0]
            <4>1. item' = [item EXCEPT ![i] = n]
                BY <3>3 DEF RunFailed, RunSettled
            <4>2. n.reviewer = item[i].reviewer
                BY <2>0 DEF Failed, ItemRows
            <4> HIDE DEF n
            <4>3. item'[k] = IF k = i THEN n ELSE item[k]
                BY <2>0, <4>1
            <4> QED
                BY <4>2, <4>3 DEF JudgedByHolder
        <3> QED
            BY <1>1, <2>2, <3>1, <3>2, <3>3, WorkerJudges, OwnerJudges
            DEF ItemNext
    <2>3. ASSUME NEW a \in Agents, NEW q, CheckIn(a, q)
          PROVE  JudgedByHolder(k)
        <3>1. ASSUME NEW i \in Items, CanClaim(q, i, a),
                     \/ item' = [item EXCEPT ![i] = Settled(Claimed(item[i], a))]
                     \/ item' = [item EXCEPT ![i] =
                                    Settled(Released(Claimed(item[i], a)))]
              PROVE  JudgedByHolder(k)
            <4>1. ~LeaseLive(item[i]) \/ item[i].status # "in_review"
                BY <3>1 DEF CanClaim, MayClaimOpen, MayClaimInProgress,
                            MayClaimReview, MayClaimMerge
            <4>2. k # i => item'[k] = item[k]
                <5>1. CASE item' =
                            [item EXCEPT ![i] = Settled(Claimed(item[i], a))]
                    BY <2>0, <5>1
                <5>2. CASE item' = [item EXCEPT ![i] =
                                        Settled(Released(Claimed(item[i], a)))]
                    BY <2>0, <5>2
                <5> QED
                    BY <3>1, <5>1, <5>2
            <4> QED
                BY <4>1, <4>2 DEF JudgedByHolder
        <3> QED
            BY <2>1, <2>3, <3>1
            DEF CheckIn, CheckInIdle, CheckInClaim, CheckInUnassembled,
                FirstClaimable, Save, trackerVars
    <2> QED
        BY <1>1, <2>1, <2>2, <2>3
        DEF Next, PassTime, RosterNext, DeleteAgent, UpdateProject, trackerVars, vars
<1>2. TInv /\ [Next]_vars =>
        [\A i \in Items :
            /\ item[i].status = "in_review" /\ LeaseLive(item[i])
            /\ item'[i].status \in
                  {"in_progress", "pending_approval", "approved"}
            => item'[i].reviewer = item[i].reviewer]_vars
    BY <1>1 DEF JudgedByHolder
<1> QED
    BY <1>2, TInvAlways, PTL DEF Spec, ReviewBelongsToHolder

-----------------------------------------------------------------------------
(***************************************************************************)
(* Slots.  A handler writes one row at most, and whoever holds that row    *)
(* under a live lease afterwards held it before or had a slot to spare:    *)
(* every other handler leaves no lease, or leaves it with its holder.      *)
(***************************************************************************)
Grants(i) ==
    /\ UNCHANGED <<now, slots>>
    /\ \A k \in Items \ {i} : item'[k] = item[k]
    /\ \A a \in Agents : HoldsLiveLease(a, item'[i]) =>
            HoldsLiveLease(a, item[i]) \/ HasFreeSlot(a)

\* Leases are counted over the rows there are, which are finitely many.
FiniteRows == IsFiniteSet({i \in Items : Exists(i)})

SlotsKept(a) ==
    Cardinality(LiveLeases(a))' > Cardinality(LiveLeases(a))
    => Cardinality(LiveLeases(a))' <= slots'[a]

LEMMA FewLeases ==
    ASSUME FiniteRows, NEW a
    PROVE  IsFiniteSet(LiveLeases(a)) /\ Cardinality(LiveLeases(a)) \in Nat
<1>1. LiveLeases(a) \subseteq {i \in Items : Exists(i)}
    BY DEF LiveLeases, HoldsLiveLease, Exists
<1> QED
    BY <1>1, FS_Subset, FS_CardinalityType DEF FiniteRows

LEMMA GrantedStep ==
    ASSUME TInv, FiniteRows, NEW i \in Items, Grants(i), NEW a
    PROVE  FiniteRows' /\ (a \in Agents => SlotsKept(a))
<1> DEFINE old == LiveLeases(a)
           new == {k \in Items : HoldsLiveLease(a, item'[k])}
<1>1. FiniteRows'
    <2> DEFINE before == {k \in Items : Exists(k)}
               after == {k \in Items : item'[k].status # "absent"}
    <2>1. IsFiniteSet(before \cup {i})
        BY FS_AddElement DEF FiniteRows
    <2>2. after \subseteq before \cup {i}
        BY DEF Grants, Exists
    <2>3. IsFiniteSet(after)
        BY <2>1, <2>2, FS_Subset
    <2> QED
        BY <2>3 DEF FiniteRows, Exists
<1>2. LiveLeases(a)' = new
    BY DEF LiveLeases, HoldsLiveLease, LeaseLive, LeaseExpired, Grants
<1>3. IsFiniteSet(old) /\ Cardinality(old) \in Nat
    BY FewLeases
<1>4. a \in Agents => slots[a] \in Nat /\ slots'[a] = slots[a]
    BY SlotAssumption DEF Grants, TInv, RInv, RotationTypeOK
<1>5. CASE a \in Agents /\ i \in new \ old
    <2>1. Cardinality(old) < slots[a]
        BY <1>5 DEF Grants, HasFreeSlot, LiveLeases
    <2>2. new \subseteq old \cup {i}
        BY DEF Grants, LiveLeases
    <2>3. IsFiniteSet(old \cup {i})
          /\ Cardinality(old \cup {i}) = Cardinality(old) + 1
        BY <1>3, <1>5, FS_AddElement
    <2>4. Cardinality(new) <= Cardinality(old) + 1 /\ Cardinality(new) \in Nat
        BY <2>2, <2>3, FS_Subset, FS_CardinalityType
    <2> QED
        BY <1>1, <1>2, <1>3, <1>4, <2>1, <2>4 DEF SlotsKept
<1>6. CASE a \in Agents /\ i \notin new \ old
    <2>1. new \subseteq old
        BY <1>6 DEF Grants, LiveLeases
    <2>2. Cardinality(new) <= Cardinality(old) /\ Cardinality(new) \in Nat
        BY <1>3, <2>1, FS_Subset, FS_CardinalityType
    <2> QED
        BY <1>1, <1>2, <1>3, <2>2 DEF SlotsKept
<1> QED
    BY <1>1, <1>5, <1>6

-----------------------------------------------------------------------------
(***************************************************************************)
(* Handlers that end the lease, and handlers that leave it as it is.       *)
(***************************************************************************)
LEMMA SavesUnleased ==
    ASSUME TInv, NEW i \in Items, NEW n, n.lease = 0, Settled(n).lease = n.lease,
           Save(i, n), UNCHANGED <<now, slots>>
    PROVE  Grants(i)
<1>1. item'[i] = Settled(n) /\ \A k \in Items \ {i} : item'[k] = item[k]
    BY DEF TInv, Save
<1> QED
    BY <1>1 DEF Grants, HoldsLiveLease, LeaseLive

LEMMA EndsLease ==
    ASSUME TInv, NEW i \in Items, NEW n, n.lease = 0, Settled(n).lease = n.lease,
           Transition(i, n)
    PROVE  Grants(i)
BY SavesUnleased DEF Transition, rows

SameHolder(r, n) ==
    /\ n.lease = r.lease /\ n.status = r.status /\ n.type = r.type
    /\ n.assignee = r.assignee /\ n.reviewer = r.reviewer
    /\ n.implementer = r.implementer

LEMMA KeepsLease ==
    ASSUME TInv, NEW i \in Items, NEW n, SameHolder(item[i], n),
           item' = [item EXCEPT ![i] = n], UNCHANGED <<now, slots>>
    PROVE  Grants(i)
<1>1. item'[i] = n /\ \A k \in Items \ {i} : item'[k] = item[k]
    BY DEF TInv
<1> QED
    BY <1>1 DEF Grants, SameHolder, HoldsLiveLease, LeaseLive, LeaseExpired

LEMMA SettledLease ==
    ASSUME NEW n \in ItemRows
    PROVE  Settled(n).lease = n.lease
BY DEF Settled, ItemRows

\* The row is claimed by a worker that held it or has a slot, and by no other.
LEMMA ClaimGrants ==
    ASSUME TInv, NEW q, NEW i \in Items, NEW a \in Agents, CanClaim(q, i, a),
           item' = [item EXCEPT ![i] = Settled(Claimed(item[i], a))],
           UNCHANGED <<now, slots>>
    PROVE  Grants(i)
<1> DEFINE r == item[i]
           n == Claimed(r, a)
<1>1. RowOK(n) /\ n.type # "task"
    BY ClaimedOK DEF TInv, RInv
<1>2. Settled(n) = n
    BY <1>1 DEF Settled
<1>3. item'[i] = n /\ \A k \in Items \ {i} : item'[k] = item[k]
    BY <1>2 DEF TInv
<1>4. ASSUME NEW b \in Agents, HoldsLiveLease(b, n)
      PROVE  b = a
    <2>1. r \in ItemRows
        BY DEF TInv
    <2>2. r.status \in {"open", "in_progress", "in_review", "approved"}
          /\ (r.status = "in_progress" => r.assignee = a)
          /\ (r.status = "approved" => r.implementer = a)
        BY DEF CanClaim, MayClaimOpen, MayClaimInProgress, MayClaimReview,
               MayClaimMerge
    <2>3. CASE r.status = "open"
        <3>1. n.status = "in_progress" /\ n.assignee = a
            BY <2>1, <2>3 DEF Claimed, Leased, ItemRows
        <3> QED
            BY <1>4, <3>1 DEF HoldsLiveLease
    <2>4. CASE r.status = "in_review"
        <3>1. n.status = "in_review" /\ n.reviewer = a
            BY <2>1, <2>4 DEF Claimed, Leased, ItemRows
        <3> QED
            BY <1>4, <3>1 DEF HoldsLiveLease
    <2>5. CASE r.status \in {"in_progress", "approved"}
        <3>1. n.status = r.status /\ n.assignee = r.assignee
              /\ n.implementer = r.implementer
            BY <2>1, <2>5 DEF Claimed, Leased, ItemRows
        <3> QED
            BY <1>4, <2>2, <2>5, <3>1 DEF HoldsLiveLease
    <2> QED
        BY <2>2, <2>3, <2>4, <2>5
<1>5. HoldsLiveLease(a, r) \/ HasFreeSlot(a)
    BY DEF CanClaim
<1> QED
    BY <1>3, <1>4, <1>5 DEF Grants

LEMMA WorkerGrants ==
    ASSUME TInv, NEW i \in Items, NEW a \in Agents, WorkerNext(i, a)
    PROVE  Grants(i)
<1> DEFINE r == item[i]
<1>0. r \in ItemRows
    BY DEF TInv
<1>1. CASE Claim(i, a)
    BY <1>1, ClaimGrants DEF Claim, Transition, Save, rows
<1>2. CASE Release(i, a)
    <2> DEFINE n == Released(r)
    <2>1. Transition(i, n) /\ MayRelease(r, a)
        BY <1>2 DEF Release
    <2>2. n \in ItemRows /\ n.lease = 0
        BY <2>1, ReleasedOK DEF TInv, RInv, RowOK
    <2> QED
        BY <2>1, <2>2, EndsLease, SettledLease
<1>3. CASE Submit(i, a)
    <2> DEFINE n == Submitted(r, a)
    <2>1. Transition(i, n)
        BY <1>3 DEF Submit
    <2>2. n.lease = 0 /\ Settled(n).lease = n.lease
        BY <1>0 DEF Submitted, Settled, ItemRows
    <2> QED
        BY <2>1, <2>2, EndsLease
<1>4. ASSUME NEW v \in Verdicts \cup {"none"}, SubmitCodeReview(i, a, v)
      PROVE  Grants(i)
    <2> DEFINE w == IF v = "none" THEN r.verdict ELSE v
               n == [r EXCEPT !.status = "pending_approval", !.implementer = a,
                              !.assignee = Owner, !.reviewer = NoOne,
                              !.lease = 0, !.verdict = w]
    <2>1. Transition(i, n)
        BY <1>0, <1>4 DEF SubmitCodeReview
    <2>2. n.lease = 0 /\ Settled(n).lease = n.lease
        BY <1>0 DEF Settled, ItemRows
    <2> QED
        BY <2>1, <2>2, EndsLease
<1>5. ASSUME NEW c \in {"none", "recorded"}, ReviewApprove(i, a, c)
      PROVE  Grants(i)
    <2> DEFINE s == IF Automatic(r.project)
                    THEN "approved" ELSE "pending_approval"
               n == [r EXCEPT !.status = s, !.commit = c, !.assignee = NoOne,
                              !.reviewer = a, !.verdict = "approve",
                              !.lease = 0]
    <2>1. Transition(i, n)
        BY <1>5 DEF ReviewApprove
    <2>2. n.lease = 0 /\ Settled(n).lease = n.lease
        BY <1>0 DEF Settled, ItemRows
    <2> QED
        BY <2>1, <2>2, EndsLease
<1>6. CASE ReviewRequestChanges(i, a)
    <2> DEFINE n == [r EXCEPT !.status = "in_progress", !.commit = "none",
                              !.assignee = r.implementer, !.reviewer = a,
                              !.verdict = "request_changes", !.lease = 0]
    <2>1. Transition(i, n)
        BY <1>6 DEF ReviewRequestChanges
    <2>2. n.lease = 0 /\ Settled(n).lease = n.lease
        BY <1>0 DEF Settled, ItemRows
    <2> QED
        BY <2>1, <2>2, EndsLease
<1>7. CASE Rework(i, a)
    <2> DEFINE n == [r EXCEPT !.status = "in_progress", !.assignee = a,
                              !.commit = "none",
                              !.verdict = "request_changes", !.lease = 0]
    <2>1. Transition(i, n)
        BY <1>7 DEF Rework
    <2>2. n.lease = 0 /\ Settled(n).lease = n.lease
        BY <1>0 DEF Settled, ItemRows
    <2> QED
        BY <2>1, <2>2, EndsLease
<1>8. ASSUME NEW t \in TierNumbers \cup {0}, NEW h \in Agents \cup {NoOne},
             Groom(i, a, t, h)
      PROVE  Grants(i)
    <2> DEFINE u == IF t = 0 THEN r.tier ELSE t
               n == [r EXCEPT !.status = "open", !.tier = u, !.assignee = h,
                              !.spec = "specced", !.lease = 0]
    <2>1. Transition(i, n)
        BY <1>0, <1>8 DEF Groom
    <2>2. n.lease = 0 /\ Settled(n).lease = n.lease
        BY <1>0 DEF Settled, ItemRows
    <2> QED
        BY <2>1, <2>2, EndsLease
<1>9. CASE Block(i, a)
    <2> DEFINE n == [r EXCEPT !.status = "blocked", !.lease = 0]
    <2>1. Transition(i, n)
        BY <1>9 DEF Block
    <2>2. n.lease = 0 /\ Settled(n).lease = n.lease
        BY <1>0 DEF Settled, ItemRows
    <2> QED
        BY <2>1, <2>2, EndsLease
<1>10. CASE Complete(i, a)
    <2> DEFINE n == [r EXCEPT !.status = "done", !.assignee = NoOne,
                              !.lease = 0]
    <2>1. Transition(i, n)
        BY <1>10 DEF Complete
    <2>2. n.lease = 0 /\ Settled(n).lease = n.lease
        BY <1>0 DEF Settled, ItemRows
    <2> QED
        BY <2>1, <2>2, EndsLease
<1> QED
    BY <1>1, <1>2, <1>3, <1>4, <1>5, <1>6, <1>7, <1>8, <1>9, <1>10
    DEF WorkerNext

LEMMA RereviewGrants ==
    ASSUME TInv, NEW i \in Items, NEW r \in ItemRows,
           Transition(i, Rereviewed(r))
    PROVE  Grants(i)
<1> DEFINE n == Rereviewed(r)
<1>1. n.lease = 0 /\ Settled(n).lease = n.lease
    BY DEF Rereviewed, Settled, ItemRows
<1> QED
    BY <1>1, EndsLease

LEMMA HoldGrants ==
    ASSUME TInv, NEW i \in Items, Hold(i) \/ Unhold(i)
    PROVE  Grants(i)
<1> DEFINE r == item[i]
<1>0. r \in ItemRows /\ RowOK(r)
    BY DEF TInv
<1>1. PICK n : Transition(i, n) /\ n \in ItemRows /\ SameHolder(r, n)
    <2>1. CASE Hold(i)
        <3> DEFINE n == [r EXCEPT !.hold = "held"]
        <3>1. n \in ItemRows /\ SameHolder(r, n)
            BY <1>0, QueueFieldType DEF SameHolder, ItemRows
        <3> QED
            BY <2>1, <3>1 DEF Hold
    <2>2. CASE Unhold(i)
        <3> DEFINE n == [r EXCEPT !.hold = "free", !.failures = 0]
        <3>1. n \in ItemRows
            BY <1>0, QueueFieldType
        <3>2. SameHolder(r, n)
            BY <1>0 DEF SameHolder, ItemRows
        <3> QED
            BY <2>2, <3>1, <3>2 DEF Unhold
    <2> QED
        BY <2>1, <2>2
<1>2. SameHolder(r, Settled(n))
    <2>1. CASE r.type = "task"
        <3>1. r.assignee = Owner
            BY <1>0, <2>1 DEF RowOK, SoundRow, WellAssigned, Hold, Unhold,
                              Exists
        <3> QED
            BY <1>1, <2>1, <3>1 DEF SameHolder, Settled, ItemRows
    <2>2. CASE r.type # "task"
        BY <1>1, <2>2 DEF SameHolder, Settled
    <2> QED
        BY <2>1, <2>2
<1> QED
    BY <1>1, <1>2, KeepsLease DEF Transition, Save, rows

LEMMA OwnerGrants ==
    ASSUME TInv, NEW i \in Items, OwnerNext(i)
    PROVE  Grants(i)
<1> DEFINE r == item[i]
<1>0. r \in ItemRows
    BY DEF TInv
<1>1. CASE Approve(i) \/ CompleteReview(i)
    <2> DEFINE n == Approved(r)
    <2>1. Transition(i, n)
        BY <1>1 DEF Approve, CompleteReview
    <2>2. n.lease = 0 /\ Settled(n).lease = n.lease
        BY <1>0 DEF Approved, Settled, ItemRows
    <2> QED
        BY <2>1, <2>2, EndsLease
<1>2. CASE RequestChanges(i)
    <2> DEFINE n == [r EXCEPT !.status = "in_progress",
                              !.assignee = r.implementer,
                              !.verdict = "request_changes", !.lease = 0]
    <2>1. Transition(i, n)
        BY <1>2 DEF RequestChanges
    <2>2. n.lease = 0 /\ Settled(n).lease = n.lease
        BY <1>0 DEF Settled, ItemRows
    <2> QED
        BY <2>1, <2>2, EndsLease
<1>3. CASE Complete(i, Owner) \/ Cancel(i)
    <2> DEFINE s == IF Cancel(i) THEN "cancelled" ELSE "done"
               n == [r EXCEPT !.status = s, !.assignee = NoOne, !.lease = 0]
    <2>1. Transition(i, n)
        BY <1>3 DEF Complete, Cancel
    <2>2. n.lease = 0 /\ Settled(n).lease = n.lease
        BY <1>0 DEF Settled, ItemRows
    <2> QED
        BY <2>1, <2>2, EndsLease
<1>4. CASE CompleteTask(i) \/ Close(i)
    <2> DEFINE s == IF Close(i) THEN "closed" ELSE "done"
               n == [r EXCEPT !.status = s, !.lease = 0]
    <2>1. Transition(i, n)
        BY <1>4 DEF CompleteTask, Close
    <2>2. n.lease = 0 /\ Settled(n).lease = n.lease
        BY <1>0 DEF Settled, ItemRows
    <2> QED
        BY <2>1, <2>2, EndsLease
<1>5. CASE Reopen(i)
    <2> DEFINE n == Reopened(r)
    <2>1. Transition(i, n)
        BY <1>5 DEF Reopen
    <2>2. n.lease = 0 /\ Settled(n).lease = n.lease
        BY <1>0 DEF Reopened, Settled, ItemRows
    <2> QED
        BY <2>1, <2>2, EndsLease
<1>6. CASE Hold(i) \/ Unhold(i)
    BY <1>6, HoldGrants
<1>7. CASE Rereview(i)
    BY <1>0, <1>7, RereviewGrants DEF Rereview
<1>8. CASE QueueReview(i)
    <2> DEFINE requested == [r EXCEPT !.type = "code_review",
                                      !.key = "number"]
    <2>1. requested \in ItemRows
        <3> DEFINE u == [r EXCEPT !.type = "code_review"]
        <3>1. u \in ItemRows /\ [u EXCEPT !.key = "number"] \in ItemRows
            BY <1>0, FieldType DEF Types
        <3> QED
            BY <3>1
    <2>2. Transition(i, Rereviewed(requested))
        BY <1>8 DEF QueueReview
    <2> QED
        BY <2>1, <2>2, RereviewGrants
<1> QED
    BY <1>1, <1>2, <1>3, <1>4, <1>5, <1>6, <1>7, <1>8 DEF OwnerNext

(***************************************************************************)
(* A patch hands on no work somebody is live on, and makes no task into    *)
(* work of a worker without taking it out of the owner's hands.            *)
(***************************************************************************)
LEMMA UpdateGrants ==
    ASSUME TInv, NEW i \in Items, NEW p \in Patches, UpdateItem(i, p)
    PROVE  Grants(i)
<1> DEFINE r == item[i]
           n == Updated(r, p)
<1>1. /\ UNCHANGED <<now, slots>> /\ MayReassign(r, p)
      /\ item'[i] = n /\ \A k \in Items \ {i} : item'[k] = item[k]
    BY DEF UpdateItem, rows, TInv
<1>2. /\ n.status = r.status /\ n.type = TypeAfter(r, p)
      /\ n.assignee = Given(p.assignee, r.assignee)
      /\ n.implementer = r.implementer /\ n.reviewer = r.reviewer
      /\ n.lease = IF Reassigns(r, p) /\ r.status = "in_progress"
                   THEN 0 ELSE r.lease
    BY DEF Updated, ItemRows, TInv
<1>3. r.type = "task" /\ r.status # "absent" => r.assignee = Owner
    BY DEF TInv, RowOK, SoundRow, WellAssigned
<1> HIDE DEF n
<1>4. ASSUME NEW b \in Agents, HoldsLiveLease(b, n)
      PROVE  HoldsLiveLease(b, r)
    <2>1. n.lease # 0 /\ r.status \in {"in_progress", "in_review", "approved"}
        BY <1>2, <1>4 DEF HoldsLiveLease, LeaseLive
    <2>2. ~Reassigns(r, p)
        BY <1>1, <1>2, <2>1 DEF MayReassign
    <2>3. n.assignee = r.assignee /\ n.lease = r.lease
        BY <1>2, <2>2 DEF Reassigns, Given
    <2>4. r.type # "task"
        BY <1>3, <1>4, <2>1, <2>3 DEF HoldsLiveLease
    <2> QED
        BY <1>2, <1>4, <2>3, <2>4
        DEF HoldsLiveLease, LeaseLive, LeaseExpired
<1> QED
    BY <1>1, <1>4 DEF Grants

LEMMA ItemGrants ==
    ASSUME TInv, NEW i \in Items, ItemNext(i)
    PROVE  Grants(i)
<1>1. ASSUME NEW d \in Drafts, CreateItem(i, d)
      PROVE  Grants(i)
    <2> DEFINE n == [Blank EXCEPT
            !.status = "open", !.type = d.type, !.project = d.project,
            !.key = IF d.project = NoProject THEN "id" ELSE "number",
            !.assignee = d.assignee, !.tier = DraftTier(d), !.hold = d.hold,
            !.after = IF d.after = NoRef THEN NoRef ELSE ItemKey(d.after),
            !.spec = IF d.type = "coding" THEN d.spec ELSE "specced"]
    <2>1. Save(i, n) /\ UNCHANGED <<now, slots>>
        BY <1>1 DEF CreateItem, rows
    <2>2. n.lease = 0 /\ Settled(n).lease = n.lease
        BY DEF Blank, Settled
    <2> QED
        BY <2>1, <2>2, SavesUnleased
<1>2. ASSUME RunFailed(i) \/ RunSettled(i)
      PROVE  Grants(i)
    <2> DEFINE h == IF RunFailed(i) /\ item[i].failures + 1 >= MaxItemFailures
                    THEN "held" ELSE item[i].hold
               f == IF RunFailed(i) THEN item[i].failures + 1 ELSE 0
               n == [item[i] EXCEPT !.failures = f, !.hold = h]
    <2>1. item' = [item EXCEPT ![i] = n] /\ UNCHANGED <<now, slots>>
        BY <1>2 DEF RunFailed, RunSettled, Failed, rows, TInv, ItemRows
    <2>2. SameHolder(item[i], n)
        BY DEF SameHolder, TInv, ItemRows
    <2> QED
        BY <2>1, <2>2, KeepsLease
<1> QED
    BY <1>1, <1>2, UpdateGrants, WorkerGrants, OwnerGrants DEF ItemNext

\* Nothing is granted by a step that leaves the rows alone, and time only
\* ends leases.
LEMMA TimeGrants ==
    ASSUME TInv, FiniteRows, NEW a, item' = item,
           now' = now \/ now' = now + 1
    PROVE  FiniteRows' /\ SlotsKept(a)
<1>1. FiniteRows'
    BY DEF FiniteRows, Exists
<1>2. now \in Nat /\ \A i \in Items : item[i].lease \in Nat
    BY DEF TInv, RInv, RotationTypeOK, ItemRows
<1>3. LiveLeases(a)' \subseteq LiveLeases(a)
    BY <1>2 DEF LiveLeases, HoldsLiveLease, LeaseLive, LeaseExpired
<1>4. Cardinality(LiveLeases(a)') <= Cardinality(LiveLeases(a))
      /\ Cardinality(LiveLeases(a)') \in Nat
      /\ Cardinality(LiveLeases(a)) \in Nat
    BY <1>3, FewLeases, FS_Subset, FS_CardinalityType
<1>5. Cardinality(LiveLeases(a))' = Cardinality(LiveLeases(a)')
    OBVIOUS
<1> QED
    BY <1>1, <1>4, <1>5 DEF SlotsKept

LEMMA CheckInGrants ==
    ASSUME TInv, NEW a \in Agents, NEW q, NEW i \in Items,
           CheckInClaim(a, q, i) \/ CheckInUnassembled(a, q, i)
    PROVE  Grants(i)
<1>1. CanClaim(q, i, a) /\ UNCHANGED <<now, slots>>
    BY DEF CheckInClaim, CheckInUnassembled, FirstClaimable, Report
<1>2. CASE CheckInClaim(a, q, i)
    BY <1>1, <1>2, ClaimGrants DEF CheckInClaim, Save
<1>3. CASE CheckInUnassembled(a, q, i)
    <2> DEFINE n == Released(Claimed(item[i], a))
    <2>1. RowOK(Claimed(item[i], a)) /\ MayRelease(Claimed(item[i], a), a)
        BY <1>1, ClaimedOK DEF TInv, RInv
    <2>2. n \in ItemRows /\ n.lease = 0
        BY <2>1, ReleasedOK DEF TInv, RInv, RowOK
    <2> QED
        BY <1>1, <1>3, <2>2, SavesUnleased, SettledLease
        DEF CheckInUnassembled
<1> QED
    BY <1>2, <1>3

LEMMA FiniteRowsInit == Init => FiniteRows
<1> SUFFICES ASSUME Init PROVE FiniteRows
    OBVIOUS
<1>1. {i \in Items : Exists(i)} = {}
    BY DEF Init, Exists, Blank
<1> QED
    BY <1>1, FS_EmptySet DEF FiniteRows

LEMMA SlotsStep ==
    ASSUME TInv, FiniteRows, [Next]_vars, NEW a
    PROVE  FiniteRows' /\ (a \in Agents => SlotsKept(a))
<1>1. ASSUME NEW i \in Items, ItemNext(i)
      PROVE  FiniteRows' /\ (a \in Agents => SlotsKept(a))
    BY <1>1, ItemGrants, GrantedStep
<1>2. ASSUME item' = item, now' = now \/ now' = now + 1
      PROVE  FiniteRows' /\ (a \in Agents => SlotsKept(a))
    BY <1>2, TimeGrants
<1>3. ASSUME NEW b \in Agents, NEW q, CheckIn(b, q)
      PROVE  FiniteRows' /\ (a \in Agents => SlotsKept(a))
    BY <1>2, <1>3, CheckInGrants, GrantedStep
    DEF CheckIn, CheckInIdle, trackerVars, Report
<1>4. ASSUME NEW b \in Agents, RosterNext(b)
      PROVE  item' = item /\ now' = now
    BY <1>4 DEF RosterNext, DeleteAgent, CreateAgent, UpdateAgent,
                RemoveAgent, trackerVars
<1>5. PassTime => item' = item /\ now' = now + 1
    BY DEF PassTime, Tick, trackerVars
<1>6. ASSUME NEW p \in Projects, NEW s \in ProjectStates,
             UpdateProject(p, s)
      PROVE  item' = item /\ now' = now
    BY <1>6 DEF UpdateProject
<1>7. UNCHANGED vars => item' = item /\ now' = now
    BY DEF vars, trackerVars, rotationVars
<1> QED
    BY <1>1, <1>2, <1>3, <1>4, <1>5, <1>6, <1>7 DEF Next

LEMMA FiniteRowsStep == TInv /\ FiniteRows /\ [Next]_vars => FiniteRows'
BY SlotsStep

\* No step takes a worker over its slots (items.go, hasFreeSlot): a claim, a
\* hand-back or a patch of whatever item included.
THEOREM SlotsRespectedAlways == Spec => SlotsRespected
<1>1. TInv /\ FiniteRows /\ [Next]_vars =>
        [\A a \in Agents :
            Cardinality(LiveLeases(a))' > Cardinality(LiveLeases(a))
            => Cardinality(LiveLeases(a))' <= slots'[a]]_vars
    BY SlotsStep DEF SlotsKept
<1> QED
    BY <1>1, FiniteRowsInit, FiniteRowsStep, TInvAlways, PTL
    DEF Spec, SlotsRespected

-----------------------------------------------------------------------------
(***************************************************************************)
(* The chain of afterChainLoops.  A recursive function is whatever         *)
(* satisfies its equation, so something has to: a function on 0..n does    *)
(* for every n, or there would be a first n for which none does.           *)
(***************************************************************************)
Hop(start, g, n) ==
    IF n = 0 THEN start
    ELSE IF g[n - 1] = NoRef THEN NoRef ELSE item[g[n - 1].id].after

LEMMA ChainExists ==
    ASSUME NEW start, NEW m \in Nat
    PROVE  \E g : g = [n \in 0..m |-> Hop(start, g, n)]
<1> DEFINE Bad == {k \in Nat : ~ \E g : g = [n \in 0..k |-> Hop(start, g, n)]}
<1>1. ASSUME Bad # {}
      PROVE  FALSE
    <2>1. PICK k \in Bad : \A j \in Bad : k <= j
        BY <1>1, FirstByName
    <2>2. CASE k = 0
        <3> DEFINE g == [n \in 0..0 |-> start]
        <3>1. g = [n \in 0..k |-> Hop(start, g, n)]
            BY <2>2 DEF Hop
        <3> QED
            BY <2>1, <3>1
    <2>3. CASE k # 0
        <3>1. k - 1 \in Nat /\ k - 1 \notin Bad
            BY <2>1, <2>3
        <3>2. PICK h : h = [n \in 0..(k - 1) |-> Hop(start, h, n)]
            BY <3>1
        <3> DEFINE g == [n \in 0..k |-> Hop(start, h, n)]
        <3>3. \A n \in 0..(k - 1) : g[n] = h[n]
            BY <3>1, <3>2
        <3>4. ASSUME NEW n \in 0..k
              PROVE  Hop(start, g, n) = Hop(start, h, n)
            <4>1. n = 0 \/ n - 1 \in 0..(k - 1)
                BY <3>1
            <4> HIDE DEF g
            <4> QED
                BY <3>3, <4>1 DEF Hop
        <3>5. g = [n \in 0..k |-> Hop(start, g, n)]
            BY <3>4
        <3> QED
            BY <2>1, <3>5
    <2> QED
        BY <2>2, <2>3
<1> QED
    BY <1>1

LEMMA ChainHops ==
    ASSUME NEW start
    PROVE  LET c == AfterChain(start) IN
           \A n \in 0..MaxHops : c[n] = Hop(start, c, n)
<1> DEFINE Is(g) == g = [n \in 0..MaxHops |->
                IF n = 0 THEN start
                ELSE IF g[n - 1] = NoRef THEN NoRef
                ELSE item[g[n - 1].id].after]
<1>1. \E g : Is(g)
    <2>1. PICK g : g = [n \in 0..MaxHops |-> Hop(start, g, n)]
        BY ChainExists, NumberAssumption
    <2>2. Is(g)
        BY <2>1 DEF Hop
    <2> QED
        BY <2>2
<1>2. AfterChain(start) = CHOOSE g : Is(g)
    BY DEF AfterChain
<1>3. Is(AfterChain(start))
    BY <1>1, <1>2
<1> QED
    BY <1>3 DEF Hop

-----------------------------------------------------------------------------
(***************************************************************************)
(* After holds an item's key, and the chain is compared with keys.  That   *)
(* holds a loop off only while every After is the present key of its item: *)
(* an item has its number from the day it is filed in a project, unless it *)
(* is moved there.                                                         *)
(***************************************************************************)
NoMoves == \A p \in Patches : p.project = Same
FewItems == IsFiniteSet(Items) /\ Cardinality(Items) <= MaxHops

KeyTrue(i) ==
    /\ Exists(i) => (item[i].key = "id" <=> item[i].project = NoProject)
    /\ Waits(i) => /\ Exists(item[i].after.id)
                   /\ item[i].after = ItemKey(item[i].after.id)
KeysTrue == \A i \in Items : KeyTrue(i)

\* Only a personal task is left without a tier.
Tiered(r) == r.status # "absent" /\ r.type # "task" => r.tier # 0

\* A step that leaves an item's key, project and After as they are, and takes
\* no tier from it.
Keeps(i) ==
    /\ item'[i].after = item[i].after /\ item'[i].key = item[i].key
    /\ item'[i].project = item[i].project
    /\ item'[i].status = "absent" <=> item[i].status = "absent"
    /\ Tiered(item[i]) => Tiered(item'[i])

LEMMA LinksStep ==
    ASSUME TInv, KeysTrue, AfterAcyclic, \A i \in Items : Keeps(i), TInv'
    PROVE  KeysTrue' /\ AfterAcyclic'
<1>1. \A i \in Items : item[i].after # NoRef => item[i].after.id \in Items
    BY PlaceAssumption DEF TInv, ItemRows, Refs
<1>2. ASSUME NEW i \in Items
      PROVE  KeyTrue(i)'
    <2>1. KeyTrue(i)
        BY DEF KeysTrue
    <2>2. Exists(i)' <=> Exists(i)
        BY DEF Keeps, Exists
    <2>3. Waits(i)' <=> Waits(i)
        BY DEF Keeps, Waits
    <2>4. CASE Waits(i)
        <3>1. PICK j \in Items : j = item[i].after.id
            BY <1>1, <2>4 DEF Waits
        <3>2. item'[i].after = item[i].after /\ item'[j].key = item[j].key
              /\ (item'[j].status = "absent" <=> item[j].status = "absent")
            BY DEF Keeps
        <3> QED
            BY <2>1, <2>2, <2>3, <2>4, <3>1, <3>2
            DEF KeyTrue, Keeps, ItemKey, Exists
    <2> QED
        BY <2>1, <2>2, <2>3, <2>4 DEF KeyTrue, Keeps
<1> QED
    BY <1>2 DEF KeysTrue, AfterAcyclic, Keeps, Waits

KeptRow(r, n) ==
    /\ n.after = r.after /\ n.key = r.key /\ n.project = r.project
    /\ n.status = "absent" <=> r.status = "absent"
    /\ Tiered(r) => Tiered(n)

LEMMA KeptSave ==
    ASSUME TInv, NEW i \in Items, NEW n, KeptRow(item[i], n),
           item' = [item EXCEPT ![i] = n]
    PROVE  \A k \in Items : Keeps(k)
<1>1. \A k \in Items : item'[k] = IF k = i THEN n ELSE item[k]
    BY DEF TInv
<1> QED
    BY <1>1 DEF Keeps, KeptRow, Tiered

LEMMA ClaimedKeeps ==
    ASSUME NEW q, NEW i \in Items, NEW a, item[i] \in ItemRows,
           CanClaim(q, i, a)
    PROVE  /\ KeptRow(item[i], Settled(Claimed(item[i], a)))
           /\ KeptRow(item[i], Settled(Released(Claimed(item[i], a))))
<1> DEFINE r == item[i]
<1>1. r.status # "absent" /\ r.type # "task"
    BY DEF CanClaim, MayClaimOpen, MayClaimInProgress, MayClaimReview,
           MayClaimMerge
<1>2. CASE r.status = "open"
    <2>1. KeptRow(r, Settled(Claimed(r, a)))
        BY <1>1, <1>2 DEF Claimed, Leased, Settled, KeptRow, Tiered, ItemRows
    <2>2. Claimed(r, a).status = "in_progress"
        BY <1>2 DEF Claimed, Leased, ItemRows
    <2>3. KeptRow(r, Settled(Released(Claimed(r, a))))
        BY <1>1, <1>2, <2>2
        DEF Claimed, Released, Leased, Settled, KeptRow, Tiered, ItemRows
    <2> QED
        BY <2>1, <2>3
<1>3. CASE r.status = "in_review"
    <2>1. KeptRow(r, Settled(Claimed(r, a)))
        BY <1>1, <1>3 DEF Claimed, Leased, Settled, KeptRow, Tiered, ItemRows
    <2>2. Claimed(r, a).status = "in_review"
        BY <1>3 DEF Claimed, Leased, ItemRows
    <2>3. KeptRow(r, Settled(Released(Claimed(r, a))))
        BY <1>1, <1>3, <2>2
        DEF Claimed, Released, Leased, Settled, KeptRow, Tiered, ItemRows
    <2> QED
        BY <2>1, <2>3
<1>4. CASE r.status \notin {"open", "in_review"}
    <2>1. KeptRow(r, Settled(Claimed(r, a)))
        BY <1>1, <1>4 DEF Claimed, Leased, Settled, KeptRow, Tiered, ItemRows
    <2>2. Claimed(r, a).status = r.status
        BY <1>4 DEF Claimed, Leased, ItemRows
    <2>3. KeptRow(r, Settled(Released(Claimed(r, a))))
        BY <1>1, <1>4, <2>2
        DEF Claimed, Released, Leased, Settled, KeptRow, Tiered, ItemRows
    <2> QED
        BY <2>1, <2>3
<1> QED
    BY <1>2, <1>3, <1>4

LEMMA WorkerKeeps ==
    ASSUME TInv, NEW i \in Items, NEW a \in Agents, WorkerNext(i, a)
    PROVE  \A k \in Items : Keeps(k)
<1> DEFINE r == item[i]
<1> USE DEF Transition, Save
<1>0. r \in ItemRows
    BY DEF TInv
<1>1. CASE Claim(i, a)
    BY <1>0, <1>1, ClaimedKeeps, KeptSave DEF Claim
<1>2. CASE Release(i, a)
    <2>1. KeptRow(r, Settled(Released(r)))
        BY <1>0, <1>2 DEF Release, MayRelease, Released, Settled, KeptRow, Tiered,
                          ItemRows
    <2> QED
        BY <1>2, <2>1, KeptSave DEF Release
<1>3. CASE Submit(i, a)
    <2>1. KeptRow(r, Settled(Submitted(r, a)))
        BY <1>0, <1>3 DEF Submit, HeldInProgress, Submitted, Settled,
                          KeptRow, Tiered, ItemRows
    <2> QED
        BY <1>3, <2>1, KeptSave DEF Submit
<1>4. ASSUME NEW v \in Verdicts \cup {"none"}, SubmitCodeReview(i, a, v)
      PROVE  \A k \in Items : Keeps(k)
    <2> DEFINE w == IF v = "none" THEN r.verdict ELSE v
               n == [r EXCEPT !.status = "pending_approval", !.implementer = a,
                              !.assignee = Owner, !.reviewer = NoOne,
                              !.lease = 0, !.verdict = w]
    <2>1. item' = [item EXCEPT ![i] = Settled(n)]
        BY <1>0, <1>4 DEF SubmitCodeReview
    <2>2. KeptRow(r, Settled(n))
        BY <1>0, <1>4 DEF SubmitCodeReview, HeldInProgress, Settled, KeptRow, Tiered,
                          ItemRows
    <2> QED
        BY <2>1, <2>2, KeptSave
<1>5. ASSUME NEW c \in {"none", "recorded"}, ReviewApprove(i, a, c)
      PROVE  \A k \in Items : Keeps(k)
    <2> DEFINE s == IF Automatic(r.project)
                    THEN "approved" ELSE "pending_approval"
               n == [r EXCEPT !.status = s, !.commit = c, !.assignee = NoOne,
                              !.reviewer = a, !.verdict = "approve",
                              !.lease = 0]
    <2>1. item' = [item EXCEPT ![i] = Settled(n)] /\ r.status = "in_review"
        BY <1>5 DEF ReviewApprove, MayReviewNow
    <2>2. KeptRow(r, Settled(n))
        BY <1>0, <2>1 DEF Settled, KeptRow, Tiered, ItemRows
    <2> QED
        BY <2>1, <2>2, KeptSave
<1>6. CASE ReviewRequestChanges(i, a)
    <2> DEFINE n == [r EXCEPT !.status = "in_progress", !.commit = "none",
                              !.assignee = r.implementer, !.reviewer = a,
                              !.verdict = "request_changes", !.lease = 0]
    <2>1. item' = [item EXCEPT ![i] = Settled(n)] /\ r.status = "in_review"
        BY <1>6 DEF ReviewRequestChanges, MayReviewNow
    <2>2. KeptRow(r, Settled(n))
        BY <1>0, <2>1 DEF Settled, KeptRow, Tiered, ItemRows
    <2> QED
        BY <2>1, <2>2, KeptSave
<1>7. CASE Rework(i, a)
    <2> DEFINE n == [r EXCEPT !.status = "in_progress", !.assignee = a,
                              !.commit = "none",
                              !.verdict = "request_changes", !.lease = 0]
    <2>1. item' = [item EXCEPT ![i] = Settled(n)] /\ r.status = "approved"
        BY <1>7 DEF Rework
    <2>2. KeptRow(r, Settled(n))
        BY <1>0, <2>1 DEF Settled, KeptRow, Tiered, ItemRows
    <2> QED
        BY <2>1, <2>2, KeptSave
<1>8. ASSUME NEW t \in TierNumbers \cup {0}, NEW h \in Agents \cup {NoOne},
             Groom(i, a, t, h)
      PROVE  \A k \in Items : Keeps(k)
    <2> DEFINE u == IF t = 0 THEN r.tier ELSE t
               n == [r EXCEPT !.status = "open", !.tier = u, !.assignee = h,
                              !.spec = "specced", !.lease = 0]
    <2>1. item' = [item EXCEPT ![i] = Settled(n)] /\ r.status = "in_progress"
        BY <1>0, <1>8 DEF Groom, HeldInProgress
    <2>2. KeptRow(r, Settled(n))
        BY <1>0, <2>1 DEF Settled, KeptRow, Tiered, ItemRows
    <2> QED
        BY <2>1, <2>2, KeptSave
<1>9. CASE Block(i, a)
    <2> DEFINE n == [r EXCEPT !.status = "blocked", !.lease = 0]
    <2>1. item' = [item EXCEPT ![i] = Settled(n)] /\ r.status = "in_progress"
        BY <1>9 DEF Block, HeldInProgress
    <2>2. KeptRow(r, Settled(n))
        BY <1>0, <2>1 DEF Settled, KeptRow, Tiered, ItemRows
    <2> QED
        BY <2>1, <2>2, KeptSave
<1>10. CASE Complete(i, a)
    <2> DEFINE n == [r EXCEPT !.status = "done", !.assignee = NoOne,
                              !.lease = 0]
    <2>1. item' = [item EXCEPT ![i] = Settled(n)] /\ r.status = "approved"
        BY <1>10 DEF Complete
    <2>2. KeptRow(r, Settled(n))
        BY <1>0, <2>1 DEF Settled, KeptRow, Tiered, ItemRows
    <2> QED
        BY <2>1, <2>2, KeptSave
<1> QED
    BY <1>1, <1>2, <1>3, <1>4, <1>5, <1>6, <1>7, <1>8, <1>9, <1>10
    DEF WorkerNext

LEMMA RequestedType ==
    ASSUME NEW r \in ItemRows
    PROVE  [r EXCEPT !.type = "code_review", !.key = "number"] \in ItemRows
<1> DEFINE u == [r EXCEPT !.type = "code_review"]
<1>1. u \in ItemRows /\ [u EXCEPT !.key = "number"] \in ItemRows
    BY FieldType DEF Types
<1> QED
    BY <1>1

LEMMA RereviewedTiered ==
    ASSUME TInv, NEW r \in ItemRows, MayRereview(r)
    PROVE  Tiered(Settled(Rereviewed(r)))
<1>1. RereviewTier(r) # 0
    BY TierThatExists, TierAssumption DEF MayRereview, TInv, RInv
<1> QED
    BY <1>1 DEF Rereviewed, Settled, Tiered, ItemRows

\* A personal task is never queued as a review, so its key is not renumbered
\* under the items that wait on it.
LEMMA QueueReviewKeeps ==
    ASSUME TInv, KeysTrue, NEW i \in Items, QueueReview(i)
    PROVE  \A k \in Items : Keeps(k)
<1> DEFINE r == item[i]
           n == [r EXCEPT !.type = "code_review", !.key = "number"]
<1>0. r \in ItemRows
    BY DEF TInv
<1>1. Exists(i) /\ MayRereview(n) /\ Transition(i, Rereviewed(n))
    BY DEF QueueReview
<1>2. n.project = r.project /\ n.after = r.after /\ n.key = "number"
    BY <1>0 DEF ItemRows
<1>3. r.project # NoProject
    BY <1>1, <1>2, PlaceAssumption DEF MayRereview, Workable
<1>4. r.key = "number"
    BY <1>0, <1>1, <1>3 DEF KeysTrue, KeyTrue, ItemRows
<1>5. Tiered(Settled(Rereviewed(n)))
    BY <1>0, <1>1, RequestedType, RereviewedTiered
<1>6. KeptRow(r, Settled(Rereviewed(n)))
    BY <1>0, <1>1, <1>4, <1>5 DEF Rereviewed, Settled, KeptRow, ItemRows, Exists
<1> QED
    BY <1>1, <1>6, KeptSave DEF Transition, Save

LEMMA OwnerKeeps ==
    ASSUME TInv, NEW i \in Items, OwnerNext(i), ~QueueReview(i)
    PROVE  \A k \in Items : Keeps(k)
<1> DEFINE r == item[i]
<1> USE DEF Transition, Save
<1>0. r \in ItemRows
    BY DEF TInv
<1>1. CASE Approve(i) \/ CompleteReview(i)
    <2>1. item' = [item EXCEPT ![i] = Settled(Approved(r))]
          /\ r.status # "absent"
        BY <1>1 DEF Approve, CompleteReview, Exists
    <2>2. KeptRow(r, Settled(Approved(r)))
        BY <1>0, <2>1 DEF Approved, Settled, KeptRow, Tiered, ItemRows
    <2> QED
        BY <2>1, <2>2, KeptSave
<1>2. CASE RequestChanges(i)
    <2> DEFINE n == [r EXCEPT !.status = "in_progress",
                              !.assignee = r.implementer,
                              !.verdict = "request_changes", !.lease = 0]
    <2>1. item' = [item EXCEPT ![i] = Settled(n)]
          /\ r.status = "pending_approval"
        BY <1>2 DEF RequestChanges
    <2>2. KeptRow(r, Settled(n))
        BY <1>0, <2>1 DEF Settled, KeptRow, Tiered, ItemRows
    <2> QED
        BY <2>1, <2>2, KeptSave
<1>3. CASE Complete(i, Owner) \/ Cancel(i)
    <2> DEFINE s == IF Cancel(i) THEN "cancelled" ELSE "done"
               n == [r EXCEPT !.status = s, !.assignee = NoOne, !.lease = 0]
    <2>1. item' = [item EXCEPT ![i] = Settled(n)] /\ r.status # "absent"
        BY <1>3 DEF Complete, Cancel, Exists
    <2>2. KeptRow(r, Settled(n))
        BY <1>0, <2>1 DEF Settled, KeptRow, Tiered, ItemRows
    <2> QED
        BY <2>1, <2>2, KeptSave
<1>4. CASE CompleteTask(i) \/ Close(i)
    <2> DEFINE s == IF Close(i) THEN "closed" ELSE "done"
               n == [r EXCEPT !.status = s, !.lease = 0]
    <2>1. item' = [item EXCEPT ![i] = Settled(n)] /\ r.status # "absent"
        BY <1>4 DEF CompleteTask, Close, Exists
    <2>2. KeptRow(r, Settled(n))
        BY <1>0, <2>1 DEF Settled, KeptRow, Tiered, ItemRows
    <2> QED
        BY <2>1, <2>2, KeptSave
<1>5. CASE Reopen(i)
    <2>1. item' = [item EXCEPT ![i] = Settled(Reopened(r))]
          /\ r.status # "absent"
        BY <1>5 DEF Reopen, Ended
    <2>2. KeptRow(r, Settled(Reopened(r)))
        BY <1>0, <2>1 DEF Reopened, Settled, KeptRow, Tiered, ItemRows
    <2> QED
        BY <2>1, <2>2, KeptSave
<1>6. CASE Hold(i)
    <2> DEFINE n == [r EXCEPT !.hold = "held"]
    <2>1. item' = [item EXCEPT ![i] = Settled(n)]
        BY <1>6 DEF Hold
    <2>2. KeptRow(r, Settled(n))
        BY <1>0 DEF Settled, KeptRow, Tiered, ItemRows
    <2> QED
        BY <2>1, <2>2, KeptSave
<1>7. CASE Unhold(i)
    <2> DEFINE n == [r EXCEPT !.hold = "free", !.failures = 0]
    <2>1. item' = [item EXCEPT ![i] = Settled(n)]
        BY <1>7 DEF Unhold
    <2>2. KeptRow(r, Settled(n))
        BY <1>0 DEF Settled, KeptRow, Tiered, ItemRows
    <2> QED
        BY <2>1, <2>2, KeptSave
<1>8. CASE Rereview(i)
    <2>1. item' = [item EXCEPT ![i] = Settled(Rereviewed(r))]
          /\ r.status # "absent"
        BY <1>8 DEF Rereview, Exists
    <2>2. Tiered(Settled(Rereviewed(r)))
        BY <1>0, <1>8, RereviewedTiered DEF Rereview
    <2>3. KeptRow(r, Settled(Rereviewed(r)))
        BY <1>0, <2>1, <2>2 DEF Rereviewed, Settled, KeptRow, ItemRows
    <2> QED
        BY <2>1, <2>3, KeptSave
<1> QED
    BY <1>1, <1>2, <1>3, <1>4, <1>5, <1>6, <1>7, <1>8 DEF OwnerNext

LEMMA RunKeeps ==
    ASSUME TInv, NEW i \in Items, RunFailed(i) \/ RunSettled(i)
    PROVE  \A k \in Items : Keeps(k)
<1> DEFINE r == item[i]
           h == IF RunFailed(i) /\ r.failures + 1 >= MaxItemFailures
                THEN "held" ELSE r.hold
           f == IF RunFailed(i) THEN r.failures + 1 ELSE 0
           n == [r EXCEPT !.failures = f, !.hold = h]
<1>0. r \in ItemRows
    BY DEF TInv
<1>1. item' = [item EXCEPT ![i] = n]
    <2>1. CASE RunFailed(i)
        BY <1>0, <2>1 DEF RunFailed, Failed, TInv, ItemRows
    <2>2. CASE RunSettled(i) /\ ~RunFailed(i)
        BY <1>0, <2>2 DEF RunSettled, TInv, ItemRows
    <2> QED
        BY <2>1, <2>2
<1>2. KeptRow(r, n)
    BY <1>0 DEF KeptRow, Tiered, ItemRows
<1> QED
    BY <1>1, <1>2, KeptSave

LEMMA CheckInKeeps ==
    ASSUME TInv, NEW a \in Agents, NEW q, CheckIn(a, q)
    PROVE  \A k \in Items : Keeps(k)
<1>1. ASSUME NEW i \in Items, CanClaim(q, i, a),
             \/ item' = [item EXCEPT ![i] = Settled(Claimed(item[i], a))]
             \/ item' = [item EXCEPT ![i] =
                            Settled(Released(Claimed(item[i], a)))]
      PROVE  \A k \in Items : Keeps(k)
    <2>1. item[i] \in ItemRows
        BY DEF TInv
    <2> QED
        BY <1>1, <2>1, ClaimedKeeps, KeptSave
<1>2. item' = item => \A k \in Items : Keeps(k)
    BY DEF Keeps
<1> QED
    BY <1>1, <1>2
    DEF CheckIn, CheckInIdle, CheckInClaim, CheckInUnassembled,
        FirstClaimable, Save, trackerVars

-----------------------------------------------------------------------------
(***************************************************************************)
(* Were i to close a loop by waiting on j, the chain from j would run      *)
(* through the loop and, within as many hops as there are items, either    *)
(* meet i or come by some item twice: a loop that was there before.        *)
(***************************************************************************)
LEMMA LoopIsMet ==
    ASSUME KeysTrue, AfterAcyclic, FewItems, NEW i \in Items, NEW j \in Items,
           NEW L \in SUBSET Items, i \in L, j \in L, j # i,
           ItemKey(j) # NoRef,
           \A k \in L \ {i} : Waits(k) /\ item[k].after.id \in L
    PROVE  AfterChainLoops(ItemKey(j), ItemKey(i))
<1> SUFFICES ASSUME ~AfterChainLoops(ItemKey(j), ItemKey(i)) PROVE FALSE
    OBVIOUS
<1> DEFINE c == AfterChain(ItemKey(j))
           Inside(n) == c[n] # NoRef /\ c[n].id \in L \ {i}
           hops == 0..(MaxHops - 1)
<1>1. MaxHops \in Nat /\ MaxHops # 0
    BY NumberAssumption
<1>2. \A n \in 0..MaxHops : c[n] = Hop(ItemKey(j), c, n)
    BY ChainHops
<1>3. \A n \in hops : c[n] # ItemKey(i)
    BY DEF AfterChainLoops
<1>4. c[0] = ItemKey(j)
    BY <1>1, <1>2 DEF Hop
<1> HIDE DEF c
<1>5. ASSUME NEW n \in hops, n # 0, Inside(n - 1)
      PROVE  Inside(n) /\ c[n] = item[c[n - 1].id].after
    <2> DEFINE k == c[n - 1].id
    <2>1. n \in 0..MaxHops
        BY <1>1
    <2>2. c[n] = item[k].after
        BY <1>2, <1>5, <2>1 DEF Hop
    <2>3. Waits(k) /\ item[k].after.id \in L
        BY <1>5
    <2>4. item[k].after = ItemKey(item[k].after.id)
        BY <1>5, <2>3 DEF KeysTrue, KeyTrue
    <2>5. item[k].after.id # i
        BY <1>3, <2>2, <2>4
    <2> QED
        BY <2>2, <2>3, <2>5 DEF Waits
<1>6. \A n \in hops : Inside(n)
    <2> DEFINE out == {n \in hops : ~Inside(n)}
    <2>1. ASSUME out # {}
          PROVE  FALSE
        <3>1. out \subseteq Nat
            BY <1>1
        <3>2. PICK n \in out : \A m \in out : n <= m
            BY <2>1, <3>1, FirstByName
        <3>3. n # 0
            <4>1. Inside(0)
                BY <1>4 DEF ItemKey
            <4> QED
                BY <3>2, <4>1
        <3>4. n - 1 \in hops /\ n - 1 \notin out
            BY <1>1, <3>2, <3>3
        <3> QED
            BY <1>5, <3>2, <3>3, <3>4
    <2> QED
        BY <2>1
<1>7. PICK x \in hops, y \in hops : x < y /\ c[x].id = c[y].id
    <2> DEFINE f == [n \in hops |-> c[n].id]
               T == L \ {i}
    <2>1. IsFiniteSet(hops) /\ Cardinality(hops) = MaxHops
        BY <1>1, FS_Interval
    <2>2. IsFiniteSet(L) /\ Cardinality(L) <= MaxHops
          /\ Cardinality(L) \in Nat
        BY <1>1, FS_Subset, FS_CardinalityType DEF FewItems
    <2>3. IsFiniteSet(T) /\ Cardinality(T) = Cardinality(L) - 1
        BY <2>2, FS_RemoveElement
    <2>4. Cardinality(T) < Cardinality(hops)
        BY <1>1, <2>1, <2>2, <2>3
    <2>5. f \in [hops -> T]
        BY <1>6
    <2>6. \E x, y \in hops : x # y /\ f[x] = f[y]
        <3> HIDE DEF f, T, hops
        <3> QED
            BY <2>1, <2>3, <2>4, <2>5, FS_PigeonHole
    <2> QED
        BY <1>1, <2>6
<1> DEFINE round == {c[n].id : n \in x..(y - 1)}
<1>8. round \subseteq Items /\ round # {}
    BY <1>1, <1>6, <1>7
<1>9. ASSUME NEW k \in round
      PROVE  Waits(k) /\ item[k].after.id \in round
    <2>1. PICK n \in x..(y - 1) : k = c[n].id
        OBVIOUS
    <2>2. n + 1 \in hops /\ n \in hops /\ n + 1 # 0 /\ (n + 1) - 1 = n
        BY <1>1, <1>7, <2>1
    <2>3. Inside(n + 1) /\ c[n + 1] = item[k].after
        BY <1>5, <1>6, <2>1, <2>2
    <2>4. c[n + 1].id \in round
        <3>1. CASE n + 1 = y
            BY <1>1, <1>7, <3>1
        <3>2. CASE n + 1 # y
            BY <1>1, <1>7, <2>1, <3>2
        <3> QED
            BY <3>1, <3>2
    <2> QED
        BY <2>3, <2>4 DEF Waits
<1> QED
    BY <1>8, <1>9 DEF AfterAcyclic

LEMMA CreateItemLinks ==
    ASSUME TInv, KeysTrue, AfterAcyclic, NEW i \in Items, NEW d \in Drafts,
           CreateItem(i, d)
    PROVE  KeysTrue' /\ AfterAcyclic'
<1> DEFINE a == IF d.after = NoRef THEN NoRef ELSE ItemKey(d.after)
           n == [Blank EXCEPT
            !.status = "open", !.type = d.type, !.project = d.project,
            !.key = IF d.project = NoProject THEN "id" ELSE "number",
            !.assignee = d.assignee, !.tier = DraftTier(d), !.hold = d.hold,
            !.after = a,
            !.spec = IF d.type = "coding" THEN d.spec ELSE "specced"]
<1>1. /\ ~Exists(i) /\ item' = [item EXCEPT ![i] = Settled(n)]
      /\ d.after # NoRef => Exists(d.after)
    BY DEF CreateItem, Save, MayFollow
<1>2. d.after \in Items \cup {NoRef}
    BY InputAssumption DEF ItemDrafts
<1>3. /\ Settled(n).status = "open" /\ Settled(n).project = d.project
      /\ Settled(n).after = a
      /\ Settled(n).key = IF d.project = NoProject THEN "id" ELSE "number"
    BY DEF Blank, Settled
<1> HIDE DEF n
<1>4. \A k \in Items : item'[k] = IF k = i THEN Settled(n) ELSE item[k]
    BY <1>1 DEF TInv
<1>5. \A k \in Items : Waits(k) => /\ item[k].after.id \in Items
                                   /\ item[k].after.id # i
    BY <1>1, PlaceAssumption DEF KeysTrue, KeyTrue, TInv, ItemRows, Refs, Waits
<1>6. a # NoRef => d.after \in Items \ {i} /\ a = ItemKey(d.after)
                   /\ a.id = d.after /\ Exists(d.after)
    BY <1>1, <1>2 DEF ItemKey
<1> HIDE DEF a
<1>7. ASSUME NEW k \in Items
      PROVE  KeyTrue(k)'
    <2>1. CASE k = i
        <3>1. item'[k].status = "open" /\ item'[k].after = a
              /\ (item'[k].key = "id" <=> item'[k].project = NoProject)
            BY <1>3, <1>4, <2>1
        <3>2. a # NoRef => item'[a.id] = item[a.id]
            BY <1>4, <1>6
        <3> QED
            BY <1>6, <3>1, <3>2 DEF KeyTrue, Exists, Waits, ItemKey
    <2>2. CASE k # i
        <3>1. KeyTrue(k) /\ item'[k] = item[k]
            BY <1>4, <2>2 DEF KeysTrue
        <3>2. Waits(k) => item'[item[k].after.id] = item[item[k].after.id]
            BY <1>4, <1>5
        <3> QED
            BY <3>1, <3>2 DEF KeyTrue, Exists, Waits, ItemKey
    <2> QED
        BY <2>1, <2>2
<1>8. ASSUME NEW L \in SUBSET Items, L # {},
             \A k \in L : Waits(k)' /\ item'[k].after.id \in L
      PROVE  FALSE
    <2>1. \A k \in L \ {i} : Waits(k) /\ item[k].after.id \in L \ {i}
        BY <1>4, <1>5, <1>8 DEF Waits
    <2>2. L \ {i} # {}
        <3>1. CASE i \in L
            <4>1. a # NoRef /\ a.id \in L
                BY <1>3, <1>4, <1>8, <3>1 DEF Waits
            <4> QED
                BY <1>6, <4>1
        <3> QED
            BY <1>8, <3>1
    <2> QED
        BY <2>1, <2>2 DEF AfterAcyclic
<1> QED
    BY <1>7, <1>8 DEF KeysTrue, AfterAcyclic

LEMMA UpdateItemLinks ==
    ASSUME TInv, KeysTrue, AfterAcyclic, FewItems, NEW i \in Items,
           NEW p \in Patches, p.project = Same, UpdateItem(i, p)
    PROVE  KeysTrue' /\ AfterAcyclic'
<1> DEFINE r == item[i]
           n == Updated(r, p)
<1>0. r \in ItemRows
    BY DEF TInv
<1>1. Exists(i) /\ MayWait(i, p) /\ item' = [item EXCEPT ![i] = n]
    BY DEF UpdateItem
<1>2. /\ n.project = r.project /\ n.key = r.key /\ n.status = r.status
      /\ n.after = AfterAfter(r, p)
    BY <1>0, PeopleAssumption
    DEF Updated, KeyAfter, Moves, Given, ItemRows
<1>3. KeyAfter(r, p) = r.key
    BY DEF KeyAfter, Moves
<1> HIDE DEF n
<1>4. \A k \in Items : item'[k] = IF k = i THEN n ELSE item[k]
    BY <1>1 DEF TInv
<1>5. p.after \in Items \cup {NoRef, Same}
    BY InputAssumption DEF ItemPatches
<1>6. \A k \in Items : Waits(k) => item[k].after.id \in Items
    BY PlaceAssumption DEF TInv, ItemRows, Refs, Waits
<1>7. \A k \in Items : /\ item'[k].status = item[k].status
                       /\ item'[k].key = item[k].key
                       /\ item'[k].project = item[k].project
    BY <1>2, <1>4 DEF Exists
<1>8. CASE p.after = Same
    <2>1. \A k \in Items : item'[k].after = item[k].after
        BY <1>2, <1>4, <1>8 DEF AfterAfter
    <2>2. ASSUME NEW k \in Items
          PROVE  KeyTrue(k)'
        <3>1. KeyTrue(k) /\ item'[k].after = item[k].after
            BY <2>1 DEF KeysTrue
        <3>2. Waits(k) => LET j == item[k].after.id IN
                          item'[j].key = item[j].key
                          /\ item'[j].status = item[j].status
            BY <1>6, <1>7
        <3> QED
            BY <1>7, <3>1, <3>2 DEF KeyTrue, Waits, ItemKey, Exists
    <2> QED
        BY <2>1, <2>2 DEF KeysTrue, AfterAcyclic, Waits
<1>9. CASE p.after = NoRef
    <2>1. ~Waits(i)'
        BY <1>2, <1>4, <1>9, PeopleAssumption DEF AfterAfter, Waits
    <2>2. ASSUME NEW k \in Items
          PROVE  KeyTrue(k)'
        <3>1. CASE k = i
            BY <1>7, <2>1, <3>1 DEF KeysTrue, KeyTrue, Exists, Waits
        <3>2. CASE k # i
            <4>1. KeyTrue(k) /\ item'[k] = item[k]
                BY <1>4, <3>2 DEF KeysTrue
            <4>2. Waits(k) => LET j == item[k].after.id IN
                              item'[j].key = item[j].key
                              /\ item'[j].status = item[j].status
                BY <1>6, <1>7
            <4> QED
                BY <4>1, <4>2 DEF KeyTrue, Waits, ItemKey, Exists
        <3> QED
            BY <3>1, <3>2
    <2>3. ASSUME NEW L \in SUBSET Items, L # {},
                 \A k \in L : Waits(k)' /\ item'[k].after.id \in L
          PROVE  FALSE
        <3>1. \A k \in L : Waits(k) /\ item[k].after.id \in L
            BY <1>4, <2>1, <2>3 DEF Waits
        <3> QED
            BY <2>3, <3>1 DEF AfterAcyclic
    <2> QED
        BY <2>2, <2>3 DEF KeysTrue, AfterAcyclic
<1>10. CASE p.after \in Items
    <2> DEFINE j == p.after
    <2>1. /\ j # i /\ Exists(j)
          /\ ~AfterChainLoops(ItemKey(j), ItemKey(i))
        BY <1>1, <1>3, <1>10 DEF MayWait, MayFollow, ItemKey
    <2>2. n.after = ItemKey(j) /\ ItemKey(j).id = j
        BY <1>2, <1>10, PeopleAssumption, PlaceAssumption
        DEF AfterAfter, ItemKey
    <2>3. ItemKey(j) # NoRef
        BY <1>10, PlaceAssumption DEF ItemKey, Refs, TInv, ItemRows
    <2>4. ASSUME NEW k \in Items
          PROVE  KeyTrue(k)'
        <3>1. CASE k = i
            <4>1. item'[k].after = ItemKey(j) /\ item'[j] = item[j]
                BY <1>4, <1>10, <2>1, <2>2, <3>1
            <4>2. Exists(i) => (item'[i].key = "id" <=> item'[i].project = NoProject)
                BY <1>7 DEF KeysTrue, KeyTrue
            <4> QED
                BY <1>1, <2>1, <2>2, <3>1, <4>1, <4>2
                DEF KeyTrue, Exists, Waits, ItemKey
        <3>2. CASE k # i
            <4>1. KeyTrue(k) /\ item'[k] = item[k]
                BY <1>4, <3>2 DEF KeysTrue
            <4>2. Waits(k) => LET m == item[k].after.id IN
                              item'[m].key = item[m].key
                              /\ item'[m].status = item[m].status
                BY <1>6, <1>7
            <4> QED
                BY <4>1, <4>2 DEF KeyTrue, Waits, ItemKey, Exists
        <3> QED
            BY <3>1, <3>2
    <2>5. ASSUME NEW L \in SUBSET Items, L # {},
                 \A k \in L : Waits(k)' /\ item'[k].after.id \in L
          PROVE  FALSE
        <3>1. \A k \in L \ {i} : Waits(k) /\ item[k].after.id \in L
            BY <1>4, <2>5 DEF Waits
        <3>2. CASE i \notin L
            BY <2>5, <3>1, <3>2 DEF AfterAcyclic
        <3>3. CASE i \in L
            <4>1. j \in L
                BY <1>4, <2>2, <2>5, <3>3
            <4> HIDE DEF j
            <4> QED
                BY <2>1, <2>3, <3>1, <3>3, <4>1, LoopIsMet
        <3> QED
            BY <3>2, <3>3
    <2> QED
        BY <2>4, <2>5 DEF KeysTrue, AfterAcyclic
<1> QED
    BY <1>5, <1>8, <1>9, <1>10

\* While nothing is moved between projects, no item waits on itself over any
\* number of others (items.go, afterChainLoops): the hops are enough, since
\* there are no more items than hops.
THEOREM AfterAcyclicAlways == NoMoves /\ FewItems /\ Spec => []AfterAcyclic
<1> SUFFICES ASSUME NoMoves, FewItems PROVE Spec => []AfterAcyclic
    OBVIOUS
<1>1. Init => KeysTrue /\ AfterAcyclic
    BY DEF Init, KeysTrue, KeyTrue, AfterAcyclic, Exists, Waits, Blank
<1>2. ASSUME TInv, KeysTrue, AfterAcyclic, [Next]_vars
      PROVE  KeysTrue' /\ AfterAcyclic'
    <2>0. TInv'
        BY <1>2, TInvStep
    <2>1. ASSUME \A k \in Items : Keeps(k)
          PROVE  KeysTrue' /\ AfterAcyclic'
        BY <1>2, <2>0, <2>1, LinksStep
    <2>2. item' = item => \A k \in Items : Keeps(k)
        BY DEF Keeps
    <2>3. ASSUME NEW i \in Items, ItemNext(i)
          PROVE  KeysTrue' /\ AfterAcyclic'
        BY <1>2, <2>1, <2>3, CreateItemLinks, UpdateItemLinks, WorkerKeeps,
           OwnerKeeps, QueueReviewKeeps, RunKeeps DEF ItemNext, NoMoves
    <2>4. ASSUME NEW a \in Agents, NEW q, CheckIn(a, q)
          PROVE  \A k \in Items : Keeps(k)
        BY <1>2, <2>4, CheckInKeeps
    <2> QED
        BY <1>2, <2>1, <2>2, <2>3, <2>4
        DEF Next, PassTime, RosterNext, DeleteAgent, UpdateProject,
            trackerVars, vars
<1>3. TInv /\ KeysTrue /\ AfterAcyclic /\ [Next]_vars
      => KeysTrue' /\ AfterAcyclic'
    BY <1>2
<1> QED
    BY <1>1, <1>3, TInvAlways, PTL DEF Spec

-----------------------------------------------------------------------------
(***************************************************************************)
(* Wakes.  A step that wakes nobody leaves no worker with a job it did not *)
(* have: it changes nothing the queue looks at, or only takes away.        *)
(*                                                                         *)
(* Patches of project and tier are left out, which make work without a     *)
(* wake, and so is a patch that retypes an item and hands it on at once:   *)
(* the item is left without a tier, and its pool then follows its          *)
(* implementer, who may leave and come back into another tier.             *)
(***************************************************************************)
QuietPatches ==
    \A p \in Patches : /\ p.project = Same /\ p.tier = Same
                       /\ p.type = Same \/ p.assignee = Same

TierSet == \A i \in Items : Tiered(item[i])

-----------------------------------------------------------------------------
\* The queue asks of a quota function only how available it makes everyone.
AlikeQuotas(q, p) ==
    \A a \in Agents : Availability(q, a, now) = Availability(p, a, now)

LEMMA AlikeOffers ==
    ASSUME workers \subseteq Agents, NEW q, NEW p, AlikeQuotas(q, p),
           NEW a \in workers
    PROVE  /\ Working(q, a) <=> Working(p, a)
           /\ \A t : MayPull(q, a, t) <=> MayPull(p, a, t)
           /\ \A i : MayReview(q, a, i) <=> MayReview(p, a, i)
           /\ \A r : Offered(q, r, a) <=> Offered(p, r, a)
           /\ Candidates(q, a) = Candidates(p, a)
<1>1. \A b \in workers : Out(q, b) <=> Out(p, b)
    BY DEF AlikeQuotas, Out
<1>2. Working(q, a) <=> Working(p, a)
    BY DEF AlikeQuotas, Working
<1>3. \A t : MayPull(q, a, t) <=> MayPull(p, a, t)
    BY <1>1 DEF MayPull
<1>4. \A i : MayReview(q, a, i) <=> MayReview(p, a, i)
    BY <1>1 DEF MayReview
<1>5. ASSUME NEW r
      PROVE  Offered(q, r, a) <=> Offered(p, r, a)
    BY <1>3, <1>4 DEF Offered, OfferedReview, OfferedOpen
<1>6. Candidates(q, a) = Candidates(p, a)
    BY <1>5 DEF Candidates
<1> QED
    BY <1>2, <1>3, <1>4, <1>5, <1>6

\* A report that does not wake leaves everyone as available as it was.
LEMMA QuietReport ==
    ASSUME RotationTypeOK, NEW b, NEW q, Report(b, q), woke' # "yes"
    PROVE  quota' = q /\ AlikeQuotas(q, quota)
<1>1. quota' = q /\ q \in QuotasAfter(b, Reports) /\ b \in Agents
      /\ Availability(q, b, now) = Availability(quota, b, now)
    BY DEF Report, RotationTypeOK
<1>2. \A a \in Agents : a # b => q[a] = quota[a]
    BY <1>1 DEF QuotasAfter, RotationTypeOK
<1>3. ASSUME NEW a \in Agents
      PROVE  Availability(q, a, now) = Availability(quota, a, now)
    BY <1>1, <1>2 DEF Availability, Spent, Live
<1> QED
    BY <1>1, <1>3 DEF AlikeQuotas

-----------------------------------------------------------------------------
(***************************************************************************)
(* A step that writes row i, on a roster and in projects that stay as they *)
(* are.  The others' rows are offered afterwards only if they were before, *)
(* as long as row i ends nothing, frees no slot and ends no merge.         *)
(***************************************************************************)
TakesNothing(i, a) ==
    /\ Ended(item'[i]) => Ended(item[i])
    /\ HoldsLiveLease(a, item[i]) => HoldsLiveLease(a, item'[i])
    /\ /\ item[i].status = "approved" /\ item[i].type # "task"
       /\ item[i].assignee # Owner /\ LeaseLive(item[i])
       => /\ item'[i].status = "approved" /\ item'[i].type # "task"
          /\ item'[i].assignee # Owner /\ LeaseLive(item'[i])
          /\ item'[i].project = item[i].project

SameRoster ==
    /\ UNCHANGED <<workers, tier, slots, lead, enabled, now>>
    /\ \A p \in Projects : Workable(p)' => Workable(p)

LEMMA FreeSlotBefore ==
    ASSUME TInv, FiniteRows, FiniteRows', SameRoster, NEW i \in Items,
           NEW a \in workers, TakesNothing(i, a),
           \A k \in Items \ {i} : item'[k] = item[k]
    PROVE  HasFreeSlot(a)' => HasFreeSlot(a)
<1> DEFINE old == LiveLeases(a)
           new == {k \in Items : HoldsLiveLease(a, item'[k])}
<1>1. LiveLeases(a)' = new
    BY DEF LiveLeases, HoldsLiveLease, LeaseLive, LeaseExpired, SameRoster
<1>2. old \subseteq new
    BY DEF LiveLeases, TakesNothing
<1>3. IsFiniteSet(new)
    <2> DEFINE rest == {k \in Items : item'[k].status # "absent"}
    <2>1. IsFiniteSet(rest)
        BY DEF FiniteRows, Exists
    <2>2. new \subseteq rest
        BY DEF HoldsLiveLease
    <2> QED
        BY <2>1, <2>2, FS_Subset
<1>4. Cardinality(old) <= Cardinality(new) /\ Cardinality(new) \in Nat
      /\ Cardinality(old) \in Nat
    BY <1>2, <1>3, FS_Subset, FS_CardinalityType
<1>5. slots[a] \in Nat /\ slots'[a] = slots[a]
    BY SlotAssumption DEF SameRoster, TInv, RInv, RotationTypeOK
<1>6. HasFreeSlot(a)' <=> Cardinality(new) < slots[a]
    BY <1>1, <1>5 DEF HasFreeSlot
<1> HIDE DEF old, new
<1>7. Cardinality(new) < slots[a] => Cardinality(old) < slots[a]
    BY <1>4, <1>5
<1> QED
    BY <1>6, <1>7 DEF HasFreeSlot, old

\* Afterwards the queue sees in the row what it saw before, or it is held.
SameOffer(k) ==
    /\ item'[k].status = item[k].status
    /\ LeaseLive(item'[k]) <=> LeaseLive(item[k])
    /\ LeaseLive(item[k]) => item'[k].reviewer = item[k].reviewer
    /\ item[k].status = "in_review" =>
          ((item'[k].reviewer = NoOne \/ LeaseExpired(item'[k]))
            <=> (item[k].reviewer = NoOne \/ LeaseExpired(item[k])))
    /\ item'[k].assignee = item[k].assignee
    /\ item'[k].implementer = item[k].implementer
    /\ item'[k].project = item[k].project /\ item'[k].tier = item[k].tier
    /\ item'[k].after = item[k].after
    /\ item[k].assignee # Owner =>
          (item'[k].type = "task" <=> item[k].type = "task")
    /\ item'[k].hold = "free" => item[k].hold = "free"

LEMMA OfferedBefore ==
    ASSUME TInv, SameRoster, NEW i \in Items, NEW a \in workers,
           TakesNothing(i, a), \A k \in Items \ {i} : item'[k] = item[k],
           NEW q, q = quota', NEW k \in Items, SameOffer(k),
           (Workflow(item[k]) /\ Offered(quota, item[k], a))'
    PROVE  Workflow(item[k]) /\ Offered(q, item[k], a)
<1> DEFINE r == item[k]
<1>1. r \in ItemRows
    BY DEF TInv
<1>2. Workflow(r)
    BY DEF Workflow, Workable, SameRoster, SameOffer
<1>3. LeaseLive(item[k])' <=> LeaseLive(r)
    BY DEF LeaseLive, LeaseExpired, SameRoster, SameOffer
<1>4. r.status = "in_review" =>
        ((item[k].reviewer = NoOne \/ LeaseExpired(item[k]))'
          <=> (r.reviewer = NoOne \/ LeaseExpired(r)))
    BY DEF LeaseExpired, SameRoster, SameOffer
<1>5. MergeInFlight(r.project) => MergeInFlight(item[k].project)'
    <2>1. SUFFICES ASSUME MergeInFlight(r.project)
                   PROVE  MergeInFlight(item[k].project)'
        OBVIOUS
    <2>2. PICK j \in Items : /\ item[j].status = "approved"
                             /\ item[j].project = r.project
                             /\ item[j].type # "task"
                             /\ item[j].assignee # Owner /\ LeaseLive(item[j])
        BY <2>1 DEF MergeInFlight
    <2>3. /\ item'[j].status = "approved" /\ item'[j].project = r.project
          /\ item'[j].type # "task" /\ item'[j].assignee # Owner
          /\ LeaseLive(item'[j])
        BY <2>2 DEF TakesNothing
    <2> QED
        BY <2>3 DEF MergeInFlight, LeaseLive, LeaseExpired, SameRoster,
                    SameOffer
<1>6. \A t : MayPull(quota, a, t)' <=> MayPull(q, a, t)
    BY DEF MayPull, Out, Availability, Spent, Live, Before, SameRoster
<1>7. \A t : MayReview(quota, a, t)' <=> MayReview(q, a, t)
    BY DEF MayReview, Out, Availability, Spent, Live, Before, Stronger,
           SameRoster
<1>8. ItemTier(item[k])' = ItemTier(r)
    BY DEF ItemTier, SameRoster, SameOffer
<1>9. AfterSettled(item[k])' => AfterSettled(r)
    <2>1. r.after # NoRef => r.after.id \in Items
        BY <1>1, PlaceAssumption DEF ItemRows, Refs
    <2>2. \A j \in Items : Ended(item'[j]) => Ended(item[j])
        BY DEF TakesNothing
    <2> QED
        BY <2>1, <2>2 DEF AfterSettled, SameOffer, Ended
<1>10. OfferedMerge(item[k], a)' => OfferedMerge(r, a)
    BY <1>3, <1>5 DEF OfferedMerge, SameOffer
<1>11. OfferedReview(quota, item[k], a)' => OfferedReview(q, r, a)
    BY <1>4, <1>7 DEF OfferedReview, SameOffer
<1>12. OfferedResume(item[k], a)' => OfferedResume(r, a)
    BY <1>3 DEF OfferedResume, SameOffer
<1>13. OfferedOpen(quota, item[k], a)' => OfferedOpen(q, r, a)
    BY <1>6, <1>8, <1>9 DEF OfferedOpen, SameRoster, SameOffer
<1> QED
    BY <1>2, <1>10, <1>11, <1>12, <1>13 DEF Offered

LEMMA QuietRow ==
    ASSUME TInv, FiniteRows, FiniteRows', SameRoster, NEW i \in Items,
           NEW a \in workers, TakesNothing(i, a),
           \A k \in Items \ {i} : item'[k] = item[k],
           NEW q, q = quota', AlikeQuotas(q, quota),
           SameOffer(i)
           \/ ~(Workflow(item[i]) /\ Offered(quota, item[i], a))'
           \/ Ready(a)
    PROVE  Ready(a)' => Ready(a)
<1> SUFFICES ASSUME Ready(a)' PROVE Ready(a)
    OBVIOUS
<1>1. a \in Agents /\ workers \subseteq Agents
    BY DEF TInv, RInv, RotationTypeOK
<1>2. Working(q, a)
    BY DEF Ready, Working, Availability, Spent, Live, SameRoster
<1>3. HasFreeSlot(a)
    BY FreeSlotBefore DEF Ready, Candidates
<1>4. PICK k \in Items : (Workflow(item[k]) /\ Offered(quota, item[k], a))'
    BY DEF Ready, Candidates
<1>5. \A j \in Items \ {i} : SameOffer(j)
    BY DEF SameOffer
<1>6. CASE SameOffer(k)
    <2>1. Workflow(item[k]) /\ Offered(q, item[k], a)
        BY <1>4, <1>6, OfferedBefore
    <2>2. k \in Candidates(q, a)
        BY <1>3, <2>1 DEF Candidates
    <2> QED
        BY <1>1, <1>2, <2>2, AlikeOffers DEF Ready
<1>7. CASE ~SameOffer(k)
    <2>1. k = i
        BY <1>5, <1>7
    <2> QED
        BY <1>4, <1>7, <2>1
<1> QED
    BY <1>6, <1>7

\* A row that only may have become held takes nothing either.
LEMMA SameOfferTakes ==
    ASSUME NEW i, NEW a, SameOffer(i)
    PROVE  TakesNothing(i, a)
BY DEF SameOffer, TakesNothing, Ended, HoldsLiveLease, LeaseLive, LeaseExpired

-----------------------------------------------------------------------------
\* The steps that write a row and may wake nobody.
LEMMA QuietUpdate ==
    ASSUME TInv, QuietPatches, NEW i \in Items, NEW p \in Patches,
           UpdateItem(i, p), woke' # "yes"
    PROVE  SameRoster /\ SameOffer(i) /\ quota' = quota
           /\ \A k \in Items \ {i} : item'[k] = item[k]
<1> DEFINE r == item[i]
           n == Updated(r, p)
<1>1. /\ Exists(i) /\ WellAssigned(n) /\ ~MovesWork(r, p)
      /\ UNCHANGED <<rows, now, settings>>
      /\ item'[i] = n /\ \A k \in Items \ {i} : item'[k] = item[k]
    BY DEF UpdateItem, TInv
<1>2. ~Reassigns(r, p) /\ AfterAfter(r, p) = r.after
    BY <1>1 DEF MovesWork
<1>3. p.project = Same /\ p.tier = Same
    BY DEF QuietPatches
<1>4. /\ n.status = r.status /\ n.lease = r.lease /\ n.hold = r.hold
      /\ n.assignee = r.assignee /\ n.reviewer = r.reviewer
      /\ n.implementer = r.implementer /\ n.project = r.project
      /\ n.tier = r.tier /\ n.after = r.after
    BY <1>2, <1>3
    DEF Updated, TierAfter, Delegates, Given, Reassigns, ItemRows, TInv
<1> HIDE DEF n
<1>5. r.assignee # Owner => r.type # "task" /\ n.type # "task"
    BY <1>1, <1>4 DEF WellAssigned, TInv, RowOK, SoundRow, Exists
<1> QED
    BY <1>1, <1>4, <1>5
    DEF SameRoster, SameOffer, LeaseLive, LeaseExpired, Workable, rows

LEMMA QuietRun ==
    ASSUME TInv, NEW i \in Items, RunFailed(i) \/ RunSettled(i)
    PROVE  SameRoster /\ SameOffer(i) /\ quota' = quota
           /\ \A k \in Items \ {i} : item'[k] = item[k]
<1>1. item[i] \in ItemRows /\ item[i].hold \in {"free", "held"}
    BY DEF TInv, ItemRows
<1>2. CASE RunFailed(i)
    <2>1. item'[i] = Failed(item[i])
          /\ (\A k \in Items \ {i} : item'[k] = item[k])
          /\ SameRoster /\ quota' = quota
        BY <1>2 DEF RunFailed, SameRoster, Workable, rows, TInv
    <2>2. SameOffer(i)
        BY <1>1, <2>1 DEF Failed, SameOffer, LeaseLive, LeaseExpired, ItemRows
    <2> QED
        BY <2>1, <2>2
<1>3. CASE RunSettled(i)
    <2>1. item'[i] = [item[i] EXCEPT !.failures = 0]
          /\ (\A k \in Items \ {i} : item'[k] = item[k])
          /\ SameRoster /\ quota' = quota
        BY <1>3 DEF RunSettled, SameRoster, Workable, rows, TInv
    <2>2. SameOffer(i)
        BY <1>1, <2>1 DEF SameOffer, LeaseLive, LeaseExpired, ItemRows
    <2> QED
        BY <2>1, <2>2
<1> QED
    BY <1>2, <1>3

\* Nobody is live on what may be claimed, so the claim frees no slot.
LEMMA ClaimTakes ==
    ASSUME TInv, NEW q, NEW i \in Items, NEW b \in Agents, CanClaim(q, i, b),
           ~Ended(item'[i]), NEW a
    PROVE  TakesNothing(i, a) /\ (item[i].status = "open" \/ ~LeaseLive(item[i]))
<1>1. item[i].status = "open" \/ ~LeaseLive(item[i])
    BY DEF CanClaim, MayClaimOpen, MayClaimInProgress, MayClaimReview,
           MayClaimMerge
<1> QED
    BY <1>1 DEF TakesNothing, HoldsLiveLease

LEMMA QuietClaim ==
    ASSUME TInv, NEW b \in Agents, NEW q, NEW i \in Items,
           CheckInClaim(b, q, i), NEW a \in workers
    PROVE  /\ SameRoster /\ \A k \in Items \ {i} : item'[k] = item[k]
           /\ TakesNothing(i, a)
           /\ ~(Workflow(item[i]) /\ Offered(quota, item[i], a))'
<1> DEFINE r == item[i]
           n == Claimed(r, b)
<1>1. CanClaim(q, i, b) /\ SameRoster
    BY DEF CheckInClaim, FirstClaimable, Report, SameRoster, Workable
<1>2. RowOK(n) /\ n.type # "task"
    BY <1>1, ClaimedOK DEF TInv, RInv
<1>3. item'[i] = n /\ \A k \in Items \ {i} : item'[k] = item[k]
    BY <1>2 DEF CheckInClaim, Save, Settled, TInv
<1>4. /\ n.status \in {"in_progress", "in_review", "approved"}
      /\ n.lease = now + LeaseTime
      /\ n.status = "in_review" => n.reviewer = b
    <2>1. r.status \in {"open", "in_progress", "in_review", "approved"}
          /\ r \in ItemRows
        BY <1>1 DEF CanClaim, MayClaimOpen, MayClaimInProgress,
                    MayClaimReview, MayClaimMerge, TInv
    <2>2. CASE r.status = "open"
        BY <2>1, <2>2 DEF Claimed, Leased, ItemRows
    <2>3. CASE r.status = "in_review"
        BY <2>1, <2>3 DEF Claimed, Leased, ItemRows
    <2>4. CASE r.status \in {"in_progress", "approved"}
        BY <2>1, <2>4 DEF Claimed, Leased, ItemRows
    <2> QED
        BY <2>1, <2>2, <2>3, <2>4
<1>5. TakesNothing(i, a)
    BY <1>1, <1>3, <1>4, ClaimTakes DEF Ended
<1>6. LeaseLive(n) /\ ~LeaseExpired(n)
    BY <1>4, NumberAssumption
    DEF LeaseLive, LeaseExpired, TInv, RInv, RotationTypeOK
<1>7. LeaseLive(item[i])' /\ ~LeaseExpired(item[i])'
    BY <1>1, <1>3, <1>6 DEF LeaseLive, LeaseExpired, SameRoster
<1>8. ~Offered(quota, item[i], a)'
    BY <1>3, <1>4, <1>7, PeopleAssumption
    DEF Offered, OfferedMerge, OfferedReview, OfferedResume, OfferedOpen
<1> QED
    BY <1>1, <1>3, <1>5, <1>8

LEMMA QuietUnassembled ==
    ASSUME TInv, NEW b \in Agents, NEW q, NEW i \in Items,
           CheckInUnassembled(b, q, i), AlikeQuotas(q, quota),
           NEW a \in workers
    PROVE  /\ SameRoster /\ \A k \in Items \ {i} : item'[k] = item[k]
           /\ TakesNothing(i, a)
           /\ \/ SameOffer(i)
              \/ ~(Workflow(item[i]) /\ Offered(quota, item[i], a))'
              \/ Ready(a)
<1> DEFINE r == item[i]
           m == Claimed(r, b)
           n == Released(m)
<1>1. CanClaim(q, i, b) /\ SameRoster /\ Working(q, b) /\ i \in Candidates(q, b)
      /\ b \in workers
    BY DEF CheckInUnassembled, FirstClaimable, Report, SameRoster, Workable
<1>2. RowOK(m) /\ MayRelease(m, b)
    BY <1>1, ClaimedOK DEF TInv, RInv
<1>3. RowOK(n) /\ n.type # "task" /\ n.lease = 0
    BY <1>2, ReleasedOK DEF TInv, RInv
<1>4. item'[i] = n /\ \A k \in Items \ {i} : item'[k] = item[k]
    BY <1>3 DEF CheckInUnassembled, Save, Settled, TInv
<1>5. r.status \in {"open", "in_progress", "in_review", "approved"}
      /\ r \in ItemRows /\ r.type # "task" /\ r.hold = "free"
      /\ (r.status = "in_progress" => r.assignee = b)
    BY <1>1 DEF CanClaim, MayClaimOpen, MayClaimInProgress, MayClaimReview,
                MayClaimMerge, TInv
<1>6. workers \subseteq Agents
    BY DEF TInv, RInv, RotationTypeOK
<1>7. CASE r.status \in {"open", "in_progress"}
    <2>1. n.status = "open" /\ n.assignee = b
        <3>1. CASE r.status = "open"
            <4>1. m.status = "in_progress" /\ m.assignee = b /\ m \in ItemRows
                BY <1>2, <1>5, <3>1 DEF Claimed, Leased, ItemRows, RowOK
            <4> HIDE DEF m
            <4> QED
                BY <4>1 DEF Released, ItemRows
        <3>2. CASE r.status = "in_progress"
            <4>1. m.status = "in_progress" /\ m.assignee = b /\ m \in ItemRows
                BY <1>2, <1>5, <3>2 DEF Claimed, Leased, ItemRows, RowOK
            <4> HIDE DEF m
            <4> QED
                BY <4>1 DEF Released, ItemRows
        <3> QED
            BY <1>7, <3>1, <3>2
    <2>2. TakesNothing(i, a)
        BY <1>1, <1>4, <2>1, ClaimTakes DEF Ended
    <2>3. CASE a = b
        <3>1. Ready(a)
            BY <1>1, <1>6, <2>3, AlikeOffers DEF Ready
        <3> QED
            BY <1>1, <1>4, <2>2, <3>1
    <2>4. CASE a # b
        <3>1. ~Offered(quota, item[i], a)'
            BY <1>4, <1>6, <2>1, <2>4, PeopleAssumption
            DEF Offered, OfferedMerge, OfferedReview, OfferedResume,
                OfferedOpen
        <3> QED
            BY <1>1, <1>4, <2>2, <3>1
    <2> QED
        BY <2>3, <2>4
<1>8. CASE r.status \in {"in_review", "approved"}
    <2>1. /\ n.status = r.status /\ n.assignee = r.assignee
          /\ n.implementer = r.implementer /\ n.project = r.project
          /\ n.tier = r.tier /\ n.after = r.after
          /\ r.status = "in_review" => n.reviewer = NoOne
        <3>1. CASE r.status = "in_review"
            <4>1. m = [[r EXCEPT !.reviewer = b] EXCEPT !.lease = now + LeaseTime]
                BY <3>1 DEF Claimed, Leased
            <4>2. m.status = "in_review"
                BY <1>5, <3>1, <4>1 DEF ItemRows
            <4>3. /\ m.assignee = r.assignee /\ m.project = r.project
                  /\ m.implementer = r.implementer /\ m.tier = r.tier
                  /\ m.after = r.after /\ m \in ItemRows
                BY <1>2, <1>5, <4>1 DEF ItemRows, RowOK
            <4> HIDE DEF m
            <4> QED
                BY <3>1, <4>2, <4>3 DEF Released, ItemRows
        <3>2. CASE r.status = "approved"
            <4>1. m = [r EXCEPT !.lease = now + LeaseTime]
                BY <3>2 DEF Claimed, Leased
            <4>2. m.status = "approved"
                BY <1>5, <3>2, <4>1 DEF ItemRows
            <4>3. /\ m.assignee = r.assignee /\ m.project = r.project
                  /\ m.implementer = r.implementer /\ m.tier = r.tier
                  /\ m.after = r.after /\ m \in ItemRows
                BY <1>2, <1>5, <4>1 DEF ItemRows, RowOK
            <4> HIDE DEF m
            <4> QED
                BY <3>2, <4>2, <4>3 DEF Released, ItemRows
        <3> QED
            BY <1>8, <3>1, <3>2
    <2>2. TakesNothing(i, a) /\ ~LeaseLive(r)
        BY <1>1, <1>4, <1>8, <2>1, ClaimTakes DEF Ended
    <2> HIDE DEF n
    <2>3. ~LeaseLive(n) /\ ~LeaseExpired(n)
        BY <1>3 DEF LeaseLive, LeaseExpired
    <2>4. r.status = "in_review" => (r.reviewer = NoOne \/ LeaseExpired(r))
        BY <2>2 DEF TInv, RowOK, SoundRow, LeaseFits, LeaseLive
    <2>5. SameOffer(i)
        BY <1>3, <1>4, <1>5, <2>1, <2>2, <2>3, <2>4 DEF SameOffer
    <2> QED
        BY <1>1, <1>4, <2>2, <2>5
<1> QED
    BY <1>5, <1>7, <1>8

-----------------------------------------------------------------------------
\* Steps that write no row.
LEMMA QuietElsewhere ==
    ASSUME TInv, FiniteRows, SameRoster, item' = item, NEW a \in workers,
           NEW q, q = quota', AlikeQuotas(q, quota)
    PROVE  Ready(a)' => Ready(a)
<1>1. CASE Items = {}
    BY <1>1 DEF Ready, Candidates
<1>2. ASSUME NEW i \in Items
      PROVE  Ready(a)' => Ready(a)
    <2>1. SameOffer(i) /\ TakesNothing(i, a)
        BY SameOfferTakes DEF SameOffer
    <2>2. FiniteRows'
        BY DEF FiniteRows, Exists
    <2> QED
        BY <2>1, <2>2, QuietRow
<1> QED
    BY <1>1, <1>2

\* A new worker only comes before others; the pool of no item follows it.
LEMMA QuietHiring ==
    ASSUME TInv, TierSet, NEW b \in Agents, NEW t \in TierNumbers,
           NEW n \in SlotCounts, CreateAgent(b, t, n), UNCHANGED trackerVars,
           NEW a \in workers
    PROVE  Ready(a)' => Ready(a)
<1> SUFFICES ASSUME Ready(a)' PROVE Ready(a)
    OBVIOUS
<1>1. /\ b \notin workers /\ workers' = workers \cup {b} /\ now' = now
      /\ item' = item /\ settings' = settings
      /\ workers \subseteq Agents /\ a \in Agents
    BY DEF CreateAgent, trackerVars, TInv, RInv, RotationTypeOK
<1>2. \A x \in workers : /\ tier'[x] = tier[x] /\ slots'[x] = slots[x]
                         /\ quota'[x] = quota[x]
                         /\ x \in enabled' <=> x \in enabled
                         /\ x \in lead' <=> x \in lead
    BY <1>1 DEF CreateAgent, TInv, RInv, RotationTypeOK
<1>3. Working(quota, a)' => Working(quota, a)
    BY <1>1, <1>2 DEF Working, Availability, Spent, Live
<1>4. \A x \in workers : Out(quota, x)' <=> Out(quota, x)
    BY <1>1, <1>2 DEF Out, Availability, Spent, Live
<1>5. \A x \in workers : /\ Before(x, a)' <=> Before(x, a)
                         /\ Stronger(x, a)' <=> Stronger(x, a)
    BY <1>2 DEF Before, Stronger
<1>6. \A s : MayPull(quota, a, s)' => MayPull(quota, a, s)
    BY <1>1, <1>2, <1>4, <1>5 DEF MayPull
<1>7. \A i : MayReview(quota, a, i)' => MayReview(quota, a, i)
    BY <1>1, <1>4, <1>5 DEF MayReview
<1>8. HasFreeSlot(a)' => HasFreeSlot(a)
    BY <1>1, <1>2 DEF HasFreeSlot, LiveLeases, HoldsLiveLease, LeaseLive,
                      LeaseExpired
<1>9. PICK k \in Items : (Workflow(item[k]) /\ Offered(quota, item[k], a))'
    BY DEF Ready, Candidates
<1> DEFINE r == item[k]
<1>10. Workflow(r)
    BY <1>1, <1>9 DEF Workflow, Workable
<1>11. OfferedMerge(item[k], a)' => OfferedMerge(r, a)
    BY <1>1 DEF OfferedMerge, MergeInFlight, LeaseLive, LeaseExpired
<1>12. OfferedReview(quota, item[k], a)' => OfferedReview(quota, r, a)
    BY <1>1, <1>7 DEF OfferedReview, LeaseExpired
<1>13. OfferedResume(item[k], a)' => OfferedResume(r, a)
    BY <1>1 DEF OfferedResume, LeaseLive, LeaseExpired
<1>14. OfferedOpen(quota, item[k], a)' => OfferedOpen(quota, r, a)
    <2>1. r.status = "open" => r.tier > 0
        <3>1. r.tier \in Nat
            <4>1. r.tier \in TierNumbers \cup {0}
                BY DEF TInv, ItemRows
            <4>2. \A m \in TierNumbers \cup {0} : m \in Nat
                BY TierAssumption
            <4> HIDE DEF r
            <4> QED
                BY <4>1, <4>2
        <3>2. r.status = "open" => r.tier # 0
            BY <1>10 DEF TierSet, Tiered, Workflow
        <3> QED
            BY <3>1, <3>2
    <2>2. r.status = "open" => ItemTier(item[k])' = ItemTier(r)
        BY <1>1, <2>1 DEF ItemTier
    <2>3. AfterSettled(item[k])' <=> AfterSettled(r)
        BY <1>1 DEF AfterSettled, Ended
    <2> QED
        BY <1>1, <1>2, <1>6, <2>2, <2>3 DEF OfferedOpen
<1> QED
    BY <1>3, <1>8, <1>9, <1>10, <1>11, <1>12, <1>13, <1>14
    DEF Ready, Candidates, Offered

-----------------------------------------------------------------------------
LEMMA TierSetStep ==
    ASSUME TInv, TierSet, QuietPatches, [Next]_vars
    PROVE  TierSet'
<1>1. ASSUME \A k \in Items : Keeps(k)
      PROVE  TierSet'
    BY <1>1 DEF Keeps, TierSet, Tiered
<1>2. ASSUME NEW i \in Items, Tiered(item'[i]),
             \A k \in Items \ {i} : item'[k] = item[k]
      PROVE  TierSet'
    BY <1>2 DEF TierSet, Tiered
<1>3. ASSUME NEW i \in Items, NEW d \in Drafts, CreateItem(i, d)
      PROVE  TierSet'
    <2> DEFINE n == [Blank EXCEPT
            !.status = "open", !.type = d.type, !.project = d.project,
            !.key = IF d.project = NoProject THEN "id" ELSE "number",
            !.assignee = d.assignee, !.tier = DraftTier(d), !.hold = d.hold,
            !.after = IF d.after = NoRef THEN NoRef ELSE ItemKey(d.after),
            !.spec = IF d.type = "coding" THEN d.spec ELSE "specced"]
    <2>1. item'[i] = Settled(n) /\ \A k \in Items \ {i} : item'[k] = item[k]
        BY <1>3 DEF CreateItem, Save, TInv
    <2>2. d.type # "task" => DraftTier(d) # 0
        BY <1>3, TierThatExists, TierAssumption DEF CreateItem, TInv, RInv
    <2>3. Tiered(Settled(n))
        BY <2>2 DEF Settled, Blank, Tiered
    <2> QED
        BY <1>2, <2>1, <2>3
<1>4. ASSUME NEW i \in Items, NEW p \in Patches, UpdateItem(i, p)
      PROVE  TierSet'
    <2> DEFINE r == item[i]
               n == Updated(r, p)
    <2>1. /\ Exists(i) /\ WellAssigned(n) /\ MayReassign(r, p)
          /\ item'[i] = n /\ \A k \in Items \ {i} : item'[k] = item[k]
        BY <1>4 DEF UpdateItem, TInv
    <2>2. /\ n.status = r.status /\ n.type = TypeAfter(r, p)
          /\ n.tier = TierAfter(r, p)
          /\ n.assignee = Given(p.assignee, r.assignee)
        BY DEF Updated, ItemRows, TInv
    <2> HIDE DEF n
    <2>3. p.tier = Same /\ (p.type = Same \/ p.assignee = Same)
        BY DEF QuietPatches
    <2>4. CASE Delegates(r, p)
        <3>1. TierExists(TierAfter(r, p))
            BY <2>1, <2>4 DEF MayReassign, Delegates
        <3> QED
            BY <1>2, <2>1, <2>2, <3>1, TierThatExists, TierAssumption
            DEF Tiered, TInv, RInv
    <2>5. CASE ~Delegates(r, p) /\ r.type # "task"
        <3>1. n.tier = r.tier /\ r.tier # 0
            BY <2>1, <2>2, <2>3, <2>5
            DEF TierAfter, Given, TierSet, Tiered, Exists
        <3> QED
            BY <1>2, <2>1, <3>1 DEF Tiered
    <2>6. CASE ~Delegates(r, p) /\ r.type = "task"
        <3>1. r.assignee = Owner /\ r.status # "pending_approval"
            BY <2>1, <2>6, NotATask
            DEF TInv, RInv, RowOK, SoundRow, WellAssigned, Exists
        <3>2. n.type = "task"
            <4>1. CASE Reassigns(r, p)
                BY <2>2, <2>3, <2>6, <4>1 DEF Delegates, TypeAfter, Given, Reassigns
            <4>2. CASE ~Reassigns(r, p)
                <5>1. n.assignee = Owner
                    BY <2>2, <3>1, <4>2 DEF Reassigns, Given
                <5> QED
                    BY <2>1, <2>2, <3>1, <5>1 DEF WellAssigned
            <4> QED
                BY <4>1, <4>2
        <3> QED
            BY <1>2, <2>1, <3>2 DEF Tiered
    <2> QED
        BY <2>4, <2>5, <2>6
<1>5. ASSUME NEW i \in Items, QueueReview(i)
      PROVE  TierSet'
    <2> DEFINE m == [item[i] EXCEPT !.type = "code_review", !.key = "number"]
    <2>1. MayRereview(m) /\ m \in ItemRows
          /\ item' = [item EXCEPT ![i] = Settled(Rereviewed(m))]
        BY <1>5, RequestedType DEF QueueReview, Transition, Save, TInv
    <2>2. Tiered(Settled(Rereviewed(m)))
        BY <2>1, RereviewedTiered
    <2>3. item'[i] = Settled(Rereviewed(m))
          /\ \A k \in Items \ {i} : item'[k] = item[k]
        BY <2>1 DEF TInv
    <2> QED
        BY <1>2, <2>2, <2>3
<1>6. ASSUME NEW i \in Items, ItemNext(i)
      PROVE  TierSet'
    BY <1>1, <1>3, <1>4, <1>5, <1>6, WorkerKeeps, OwnerKeeps, RunKeeps
    DEF ItemNext, OwnerNext
<1>7. ASSUME NEW a \in Agents, NEW q, CheckIn(a, q)
      PROVE  TierSet'
    BY <1>1, <1>7, CheckInKeeps
<1> QED
    BY <1>1, <1>6, <1>7
    DEF Next, PassTime, RosterNext, DeleteAgent, UpdateProject, Keeps,
        trackerVars, vars

LEMMA QuietStep ==
    ASSUME TInv, FiniteRows, FiniteRows', TierSet, QuietPatches, [Next]_vars,
           woke' # "yes", now' = now, NEW a \in workers
    PROVE  Ready(a)' => Ready(a)
<1>0. RotationTypeOK
    BY DEF TInv, RInv
<1>1. ASSUME NEW i \in Items, SameRoster, SameOffer(i), quota' = quota,
             \A k \in Items \ {i} : item'[k] = item[k]
      PROVE  Ready(a)' => Ready(a)
    <2>1. AlikeQuotas(quota, quota)
        BY DEF AlikeQuotas
    <2> QED
        BY <1>1, <2>1, QuietRow, SameOfferTakes
<1>2. ASSUME SameRoster, item' = item, quota' = quota
      PROVE  Ready(a)' => Ready(a)
    <2>1. AlikeQuotas(quota, quota)
        BY DEF AlikeQuotas
    <2> QED
        BY <1>2, <2>1, QuietElsewhere
<1>3. ASSUME NEW i \in Items, ItemNext(i)
      PROVE  Ready(a)' => Ready(a)
    <2>1. ASSUME NEW n, Transition(i, n)
          PROVE  FALSE
        BY <2>1 DEF Transition
    <2>2. ~(\E d \in Drafts : CreateItem(i, d))
        BY DEF CreateItem
    <2>3. ~(\E b \in Agents : WorkerNext(i, b)) /\ ~OwnerNext(i)
        BY <2>1 DEF WorkerNext, OwnerNext, Claim, Release, Submit,
               SubmitCodeReview, ReviewApprove, ReviewRequestChanges, Rework,
               Groom, Block, Complete, Approve, RequestChanges, CompleteTask,
               Reopen, Hold, Unhold, Cancel, Close, Rereview, QueueReview,
               CompleteReview
    <2> QED
        BY <1>1, <1>3, <2>2, <2>3, QuietUpdate, QuietRun DEF ItemNext
<1>4. ASSUME NEW b \in Agents, NEW q, CheckIn(b, q)
      PROVE  Ready(a)' => Ready(a)
    <2>1. Report(b, q)
        BY <1>4 DEF CheckIn, CheckInIdle, CheckInClaim, CheckInUnassembled
    <2>2. quota' = q /\ AlikeQuotas(q, quota)
        BY <1>0, <2>1, QuietReport
    <2>3. CASE CheckInIdle(b, q)
        <3>1. SameRoster /\ item' = item
            BY <2>3 DEF CheckInIdle, Report, trackerVars, SameRoster, Workable
        <3> QED
            BY <2>2, <3>1, QuietElsewhere
    <2>4. ASSUME NEW i \in Items, CheckInClaim(b, q, i)
          PROVE  Ready(a)' => Ready(a)
        BY <2>2, <2>4, QuietClaim, QuietRow
    <2>5. ASSUME NEW i \in Items, CheckInUnassembled(b, q, i)
          PROVE  Ready(a)' => Ready(a)
        BY <2>2, <2>5, QuietUnassembled, QuietRow
    <2> QED
        BY <1>4, <2>3, <2>4, <2>5 DEF CheckIn
<1>5. ASSUME NEW b \in Agents, RosterNext(b)
      PROVE  Ready(a)' => Ready(a)
    <2>1. ASSUME NEW on \in BOOLEAN, NEW n \in SlotCounts,
                 NEW t \in TierNumbers, NEW makesLead \in BOOLEAN,
                 UpdateAgent(b, on, n, t, makesLead), UNCHANGED trackerVars
          PROVE  Ready(a)' => Ready(a)
        <3>1. t = tier[b] /\ lead' = lead /\ enabled' = enabled
              /\ slots' = slots
            BY <2>1, Zenon DEF UpdateAgent
        <3>2. tier' = tier
            BY <1>0, <2>1, <3>1 DEF UpdateAgent, RotationTypeOK
        <3>3. SameRoster /\ item' = item /\ quota' = quota
            BY <2>1, <3>1, <3>2
            DEF UpdateAgent, trackerVars, SameRoster, Workable
        <3> QED
            BY <1>2, <3>3
    <2>2. ~DeleteAgent(b)
        BY DEF DeleteAgent, RemoveAgent
    <2> QED
        BY <1>5, <2>1, <2>2, QuietHiring DEF RosterNext
<1>6. ASSUME NEW p \in Projects, NEW s \in ProjectStates,
             UpdateProject(p, s)
      PROVE  Ready(a)' => Ready(a)
    <2>1. \A o \in Projects : Workable(o)' => Workable(o)
        BY <1>6 DEF UpdateProject, Workable, TInv
    <2>2. SameRoster /\ item' = item /\ quota' = quota
        BY <1>6, <2>1 DEF UpdateProject, SameRoster, rows
    <2> QED
        BY <1>2, <2>2
<1>7. ~PassTime
    BY <1>0 DEF PassTime, Tick, RotationTypeOK
<1>8. CASE UNCHANGED vars
    BY <1>2, <1>8
    DEF vars, rotationVars, trackerVars, SameRoster, Workable
<1> QED
    BY <1>3, <1>4, <1>5, <1>6, <1>7, <1>8 DEF Next

\* "Every write that can create work" wakes (service.go, wake), patches of
\* project and tier excepted, and retyping on a hand-off.
THEOREM NoMissedWakeAlways == QuietPatches /\ Spec => NoMissedWake
<1> SUFFICES ASSUME QuietPatches PROVE Spec => NoMissedWake
    OBVIOUS
<1>1. Init => FiniteRows /\ TierSet
    BY FiniteRowsInit DEF Init, TierSet, Tiered, Blank
<1>2. TInv /\ FiniteRows /\ TierSet /\ [Next]_vars
      => FiniteRows' /\ TierSet'
    BY FiniteRowsStep, TierSetStep
<1>3. TInv /\ FiniteRows /\ TierSet /\ [Next]_vars =>
        [\A a \in workers :
            ~Ready(a) /\ Ready(a)' /\ now' = now => woke' = "yes"]_vars
    BY FiniteRowsStep, QuietStep
<1> QED
    BY <1>1, <1>2, <1>3, TInvAlways, PTL DEF Spec, NoMissedWake
===============================================================================

----------------------------- MODULE MCTracker ------------------------------
(***************************************************************************)
(* Tracker for TLC: small rosters that the owner has already hired, inputs *)
(* chosen for one question at a time, and a specification that leaves out  *)
(* the handlers the life of one item does not involve.                     *)
(***************************************************************************)
EXTENDS Tracker

-----------------------------------------------------------------------------
\* Inputs.
MCFresh == [session |-> NoWindow, weekly |-> NoWindow, scoped |-> {}]
MCSpent(t) == [MCFresh EXCEPT !.weekly = [used |-> 90, resetsAt |-> t]]
MCShort(t) == [MCFresh EXCEPT !.session = [used |-> 95, resetsAt |-> t]]
MCReports == {MCFresh, MCSpent(2), MCShort(1)}
MCTwoReports == {MCFresh, MCSpent(1)}
MCNoReports == {}

MCDraft ==
    [type |-> "coding", project |-> "p", assignee |-> NoOne, tier |-> 0,
     spec |-> "specced", hold |-> "free", after |-> NoRef]
MCRaw == [MCDraft EXCEPT !.spec = "raw"]
MCReviewDraft == [MCDraft EXCEPT !.type = "code_review"]
MCTask == [MCDraft EXCEPT !.type = "task"]
MCDrafts == {MCDraft, MCRaw, MCReviewDraft, MCTask}
MCWork == {MCDraft, MCReviewDraft}
MCOne == {MCDraft}
MCLinked == {MCReviewDraft, [MCDraft EXCEPT !.after = "i1"]}

MCPatch ==
    [project |-> Same, type |-> Same, tier |-> Same, assignee |-> Same,
     after |-> Same, description |-> Same]
MCReassign == {[MCPatch EXCEPT !.assignee = a] : a \in Agents \cup {Owner, NoOne}}
MCRetype == {[MCPatch EXCEPT !.type = t] : t \in Types}
MCNoPatches == {}
MCRedescribe == {[MCPatch EXCEPT !.description = "new"]}
MCAfters == {[MCPatch EXCEPT !.after = i] : i \in Items \cup {NoRef}}
MCWakePatches == MCReassign \cup MCRedescribe
\* Worker 2 is pinned by the groomer only.
MCPatches == {p \in MCReassign : p.assignee # 2} \cup MCRetype

MCPolicies == {{"active", "repository"}, {"active", "repository", "automatic"}}

MCUnattended == {{"active", "repository", "automatic"}}
MCPaused == {{"active", "repository", "automatic"}, {"repository", "automatic"}}

-----------------------------------------------------------------------------
\* Three workers hired: 1 and 2 of tier 10, 1 its lead, and 3 of tier 11.
StaffedInit ==
    /\ workers = Agents
    /\ tier = [a \in Agents |-> IF a = 3 THEN 11 ELSE 10]
    /\ slots = [a \in Agents |-> DefaultSlots]
    /\ lead = Agents \ {2}
    /\ enabled = Agents
    /\ quota = [a \in Agents |-> FreshQuota]
    /\ now = 0
    /\ woke = "no"
    /\ item = [i \in Items |-> Blank]
    /\ settings \in [Projects -> ProjectStates]

\* The life of an item under a roster that does not change.
LifeNext ==
    \/ \E i \in Items : ItemNext(i)
    \/ \E a \in Agents : \E q \in QuotasAfter(a, Reports) : CheckIn(a, q)
    \/ PassTime
LifeSpec == StaffedInit /\ [][LifeNext]_vars
=============================================================================

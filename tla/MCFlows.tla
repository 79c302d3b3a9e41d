------------------------------- MODULE MCFlows -------------------------------
(***************************************************************************)
(* Tracker for TLC: several items under a roster that does not change, in  *)
(* two scenarios that leave out the handlers they do not involve.          *)
(***************************************************************************)
EXTENDS MCTracker

VARIABLE scenario

FlowsInit ==
    /\ scenario \in {"flow", "wait"} /\ StaffedInit
    /\ settings = [p \in Projects |-> {"active", "repository", "automatic"}]

\* Two items between several workers in a project that merges without the
\* owner: claims, hand-backs, slots taken away, leases running out.
Flows(i, a) ==
    \/ Claim(i, a) \/ Release(i, a) \/ Submit(i, a)
    \/ ReviewApprove(i, a, "recorded") \/ ReviewRequestChanges(i, a)
    \/ Rework(i, a) \/ Complete(i, a)
FlowNext ==
    \/ \E i \in {"i1", "i2"} :
        \/ \E d \in MCWork : CreateItem(i, d)
        \/ \E a \in Agents : Flows(i, a)
        \/ Rereview(i)
    \/ \E a \in Agents, n \in SlotCounts :
            UpdateAgent(a, TRUE, n, tier[a], FALSE) /\ UNCHANGED trackerVars
    \/ PassTime

\* Three items that wait on one another before one worker.
WaitNext ==
    \E i \in Items :
        \/ \E d \in MCLinked : CreateItem(i, d)
        \/ \E p \in MCAfters : UpdateItem(i, p)
        \/ Claim(i, 1) \/ Release(i, 1)
        \/ Cancel(i) \/ Reopen(i) \/ QueueReview(i)

FlowPart == scenario = "flow" /\ FlowNext /\ UNCHANGED scenario
WaitPart == scenario = "wait" /\ WaitNext /\ UNCHANGED scenario

FlowsSpec == FlowsInit /\ [][FlowPart \/ WaitPart]_<<vars, scenario>>
=============================================================================

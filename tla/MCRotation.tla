----------------------------- MODULE MCRotation -----------------------------
(***************************************************************************)
(* Rotation for TLC, and the pull order as the code computes it: sort the  *)
(* workers, then walk them to the first one that is in.                    *)
(***************************************************************************)
EXTENDS Rotation, FiniteSetsExt

MCReports ==
    LET none == [session |-> NoWindow, weekly |-> NoWindow, scoped |-> {}]
        session(t) == [none EXCEPT !.session = [used |-> 91, resetsAt |-> t]]
    IN  {session(2),
         session(3),
         [none EXCEPT !.weekly = [used |-> 80, resetsAt |-> 2],
                      !.scoped = {[used |-> 86, resetsAt |-> 3]}]}

\* sortByPreference over tiersOf, strongest first: the workers in ws.
PullOrder(ws) ==
    CHOOSE order \in [1..Cardinality(ws) -> ws] :
        /\ \A a \in ws : \E i \in DOMAIN order : order[i] = a
        /\ \A i, j \in DOMAIN order : i < j => Stronger(order[i], order[j])

\* firstIn: the walk stops at a, or at the first worker that is in.
FirstIn(order, a) ==
    LET stops == {i \in DOMAIN order :
                    order[i] = a \/ ~Out(quota, order[i])}
    IN  stops # {} /\ order[Min(stops)] = a /\ ~Out(quota, a)

\* The first-order mayPull and mayReview of Rotation decide what the sort
\* and walk of tiers.go decide, for every worker, tier and implementer.
WalkAgrees ==
    \A a \in Agents :
        /\ \A t \in TierNumbers :
              MayPull(quota, a, t)
                <=> FirstIn(PullOrder({b \in workers : tier[b] = t}), a)
        /\ \A i \in Agents :
              MayReview(quota, a, i)
                <=> a # i /\ FirstIn(PullOrder(workers \ {i}), a)
=============================================================================

------------------------------ MODULE JobBoard ------------------------------
(***************************************************************************)
(* What the local A2A queue of apps/agent_manager promises to those that   *)
(* submit jobs and to those that do them: an agent has one job at a time,  *)
(* a job is finished once, by the agent that has it, and a job that is     *)
(* taken from its agent waits again.                                       *)
(***************************************************************************)
CONSTANTS Jobs, Agents

VARIABLE board      \* "absent", "waiting", its agent, "succeeded" or "failed"

Outcomes == {"succeeded", "failed"}

Free(a) == \A j \in Jobs : board[j] # a

Submit(j) ==
    /\ board[j] = "absent"
    /\ board' = [board EXCEPT ![j] = "waiting"]

Take(a, j) ==
    /\ board[j] = "waiting" /\ Free(a)
    /\ board' = [board EXCEPT ![j] = a]

\* Leases that run out, a restart of the agent, a delivery that failed.
Return(js) ==
    /\ \A j \in js : board[j] \in Agents
    /\ board' = [j \in Jobs |-> IF j \in js THEN "waiting" ELSE board[j]]

Finish(a, j, outcome) ==
    /\ board[j] = a
    /\ board' = [board EXCEPT ![j] = outcome]

Init == board = [j \in Jobs |-> "absent"]

Next ==
    \/ \E j \in Jobs : Submit(j)
    \/ \E a \in Agents, j \in Jobs :
          Take(a, j) \/ \E outcome \in Outcomes : Finish(a, j, outcome)
    \/ \E js \in SUBSET Jobs : Return(js)

Spec == Init /\ [][Next]_board
=============================================================================

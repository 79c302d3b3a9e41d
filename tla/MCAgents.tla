------------------------------ MODULE MCAgents ------------------------------
(***************************************************************************)
(* For TLC: what runs agents - the executor of a plan (agent_node), one    *)
(* run of the tool loop (agentic_loop) and the session that begins such    *)
(* runs (apps/agent) - and what their network keeps for them, the jobs and *)
(* the WebSocket hub of agent_net, checked in one run.  A behaviour is of  *)
(* one of them and the others stay as they began.                          *)
(***************************************************************************)
EXTENDS PlanExecutor, AgentLoop, AgentSession

CONSTANTS
    Requests, NoKey, Askers, Workers, Serves, Nobody,
    MaxNetJobs, MaxRedelivery, MaxAttempts, Batch, MaxNetMishaps,
    Connections, OwnerOf, Buffer, Messages, To

VARIABLES
    rows, submission, holds, tour, posted, netMishaps, handed, accepted, learned,
    clients, socket, writer, reader, send, notice, newest,
    part        \* whose behaviour this is

J == INSTANCE NetJobs
H == INSTANCE NetHub

netVars == <<rows, submission, holds, tour, posted, netMishaps, handed, accepted, learned>>
hubVars == <<clients, socket, writer, reader, send, notice, newest>>

\* What a session is sent: heartbeats, commands and interruptions that meet runs.
MCScripts ==
    {<<"prompt", "job", "prompt">>, <<"fresh", "prompt", "job">>,
     <<"worktasks", "job", "restart">>, <<"prompt", "restart", "fresh">>,
     <<"prompt", "clear", "job">>, <<"job", "slash">>, <<"job", "eof", "eof">>,
     <<"note", "status", "exit">>}

\* A job with a callback and one without; an agent's two connections, and a
\* message for it and one for an agent that has none.
MCRequests ==
    {[key |-> "k1", to |-> "bob", callback |-> "pending"],
     [key |-> NoKey, to |-> "bob", callback |-> "none"]}
MCServes == [w \in Workers |-> "bob"]
MCOf == [c \in Connections |-> "bob"]
MCTo == [m1 |-> "bob", m2 |-> "eve"]

ASSUME AgentsAssumption == LoopAssumption /\ SessionAssumption /\ J!NetJobsAssumption /\ H!NetHubAssumption

allVars == <<vars, loopVars, sessionVars, netVars, hubVars, part>>

AgentsInit ==
    /\ part \in {"plan", "loop", "session", "jobs", "hub"} /\ Init /\ J!Init /\ H!Init
    /\ LoopInit /\ (part = "loop" \/ ~streaming)
    /\ SessionInit /\ (part = "session" \/ (lines = (CHOOSE s \in Scripts : TRUE) /\ tasks = 0))

PlanPart == part = "plan" /\ Next /\ UNCHANGED <<loopVars, sessionVars, netVars, hubVars, part>>
LoopPart == part = "loop" /\ LoopNext /\ UNCHANGED <<vars, sessionVars, netVars, hubVars, part>>
SessionPart == part = "session" /\ SessionNext /\ UNCHANGED <<vars, loopVars, netVars, hubVars, part>>
JobsPart == part = "jobs" /\ J!Next /\ UNCHANGED <<vars, loopVars, sessionVars, hubVars, part>>
HubPart == part = "hub" /\ H!Next /\ UNCHANGED <<vars, loopVars, sessionVars, netVars, part>>
\* A run of the loop ends, a session may be over or be sent nothing more, and
\* jobs, connections and messages are bounded.
ComesToRest == part # "plan" /\ UNCHANGED allVars

\* The fairness of each part, where it is its behaviour.
AgentsSpec ==
    /\ AgentsInit /\ [][PlanPart \/ LoopPart \/ SessionPart \/ JobsPart \/ HubPart \/ ComesToRest]_allVars
    /\ WF_vars(part = "plan" /\ (StopPlanning \/ RefusePlan \/ BeginRound \/ CheckResult \/ RoundsOver))
    /\ WF_vars(part = "plan" /\ Dispatch) /\ WF_vars(part = "plan" /\ StartNode)
    /\ WF_vars(part = "plan" /\ Receive) /\ WF_vars(part = "plan" /\ ExecuteReturns)
    /\ \A n \in Node : WF_vars(part = "plan" /\ NodeEnds(n))
    /\ WF_loopVars(part = "loop" /\ Moves) /\ WF_loopVars(part = "loop" /\ Answers)
    /\ WF_loopVars(part = "loop" /\ Receives)
    /\ \A i \in 1..MaxCalls : WF_loopVars(part = "loop" /\ Works(i))
    /\ WF_sessionVars(part = "session" /\ LoopCloses)
    /\ WF_sessionVars(part = "session" /\ Goes)
    /\ SF_sessionVars(part = "session" /\ (TakeLine \/ BusyLine))
    /\ \A l \in 1..MaxLines :
         SF_sessionVars(part = "session" /\ l \in Lines /\ Delivers(l))
    /\ WF_netVars(part = "jobs" /\ J!Maintain)
    /\ WF_netVars(part = "jobs" /\ J!CourierNext)
    /\ \A j \in 1..MaxNetJobs : WF_netVars(part = "jobs" /\ J!ClockNext(j))
    /\ \A c \in Connections :
         /\ WF_hubVars(part = "hub" /\ H!WriterNext(c))
         /\ WF_hubVars(part = "hub" /\ H!ReaderNext(c))

-----------------------------------------------------------------------------
\* The tool loop and the session that runs it.
SittingInv == LoopInv /\ SessionInv

\* A job of the network has one result, which is what its sender hears; of an
\* agent's connections only the latest is in the hub, where a notification looks
\* its client up.
NetInv == J!NetJobsInv /\ H!NetHubInv

\* A plan's execution and a run of the tool loop come to an end whatever fails in
\* whatever order, a claimed job is run and reported, the network's jobs and
\* callbacks are settled, and pumps end with their connection.  One formula: "part"
\* never changes.
AgentsEnd ==
    []<>CASE part = "plan" -> phase = "ended"
          [] part = "loop" -> LoopIsOver
          [] part = "session" -> AllReported
          [] part = "jobs" -> ~J!JobWaits
          [] part = "hub" -> ~H!HubWaits
=============================================================================

------------------------------ MODULE MCKeeper ------------------------------
(***************************************************************************)
(* For TLC: four parts that are closed while others use them - the keeper  *)
(* of a database connection, the relay's sessions, here with browsers and  *)
(* no jobs, an agent's MCP server and the daemon of the screen agent -     *)
(* checked in one run.  A behaviour is of one of them and the others stay  *)
(* as they began.                                                          *)
(***************************************************************************)
EXTENDS Keeper, Integers, Sequences

CONSTANTS
    Sessions, Clients, Jobs, Stoppers, Capacity, None,
    Callers, Disablers, Configs, MaxCalls, MaxMishaps,
    Requesters, MaxJobs

VARIABLES
    hub, stage, queued, clients, client, hungUp, job, courier, stopper,
    row, kept, procs, caller, disabler, calls, mishaps,
    main, cancelled, listening, server, requests, answer, failure,
    requester, jobs, active,
    part        \* whose behaviour this is

R == INSTANCE Relay
M == INSTANCE McpHost WITH client <- kept
D == INSTANCE ScreenDaemon WITH Clients <- Requesters, client <- requester, Nobody <- None

ASSUME ClosingAssumption == R!RelayAssumption /\ M!McpAssumption /\ D!DaemonAssumption

relayVars == <<hub, stage, queued, clients, client, hungUp, job, courier, stopper>>
mcpVars == <<row, kept, procs, caller, disabler, calls, mishaps>>
daemonVars == <<main, cancelled, listening, server, requests, answer, failure,
                requester, jobs, active>>
allVars == <<vars, relayVars, mcpVars, daemonVars, part>>

KeeperPart == part = "keeper" /\ Next /\ UNCHANGED <<relayVars, mcpVars, daemonVars, part>>
RelayPart == part = "relay" /\ R!Next /\ UNCHANGED <<vars, mcpVars, daemonVars, part>>
McpPart == part = "mcp" /\ M!McpNext /\ UNCHANGED <<vars, relayVars, daemonVars, part>>
DaemonPart == part = "daemon" /\ D!DaemonNext /\ UNCHANGED <<vars, relayVars, mcpVars, part>>
\* Sessions, calls, requests and jobs are bounded: no more of them come.
ComesToRest == part # "keeper" /\ UNCHANGED allVars

ClosingInit ==
    /\ part \in {"keeper", "relay", "mcp", "daemon"} /\ Init /\ R!Init /\ D!DaemonInit
    /\ M!McpInit /\ (part = "mcp" \/ row = None)

\* The fairness of each part, where it is its behaviour.
ClosingSpec ==
    /\ ClosingInit
    /\ [][KeeperPart \/ RelayPart \/ McpPart \/ DaemonPart \/ ComesToRest]_allVars
    /\ WF_vars(part = "keeper" /\ LoopNext) /\ SF_vars(part = "keeper" /\ LeaveLoop)
    /\ \A s \in Sessions : WF_relayVars(part = "relay" /\ R!Closes(s))
    /\ \A c \in Clients :
         /\ WF_relayVars(part = "relay" /\ R!WriteMessage(c))
         /\ WF_relayVars(part = "relay" /\ R!PumpMustLeave(c))
    /\ \A c \in Callers : WF_mcpVars(part = "mcp" /\ M!CallerSteps(c))
    /\ \A d \in Disablers : WF_mcpVars(part = "mcp" /\ M!DisablerSteps(d))
    /\ \A i \in 1..MaxCalls : WF_mcpVars(part = "mcp" /\ M!ServerAnswers(i))
    /\ WF_daemonVars(part = "daemon" /\ D!MainSteps)
    /\ WF_daemonVars(part = "daemon" /\ D!TakeDispatch)
    /\ WF_daemonVars(part = "daemon" /\ D!ServerSteps)
    /\ \A j \in 1..MaxJobs : WF_daemonVars(part = "daemon" /\ D!JobEnds(j))

-----------------------------------------------------------------------------
\* The MCP server: a call gets the answer to its own request, from a process
\* of the configuration it read, and no process is left running.  The daemon:
\* only the latest job is not cancelled, who hears "accepted" has a job, and
\* when it has returned nothing of it is left.
ServersInv == M!McpInv /\ D!DaemonInv

\* The keeper's loop ends when it is told to and reconnects when it is not,
\* a closed session does not keep its browsers, CloseClient comes through
\* behind the calls, and the daemon ends behind its connection and its jobs:
\* R!ClientsGo, M!CloseEnds and D!DaemonStops in one formula, for "part" never
\* changes.
ClosingLive ==
    /\ part = "keeper" => LoopEnds /\ Reconnects
    /\ []<>~(R!BrowserStays \/ M!CloseWaits \/ D!StopWaits)
=============================================================================

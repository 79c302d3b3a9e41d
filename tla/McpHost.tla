------------------------------ MODULE McpHost ------------------------------
(***************************************************************************)
(* The MCP server of one agent that the manager runs for it                *)
(* (apps/agent_manager MCPHostManager over agentic_loop/mcp StdioClient):  *)
(* callers that read the configuration, find or start the process it asks  *)
(* for and talk to it over two pipes, one at a time; requests that disable *)
(* the server and close its process; and pages that edit the row.          *)
(*                                                                         *)
(* A configuration is what hashMCPConfig sees of the two rows, a line in a *)
(* pipe the id of its request.                                             *)
(***************************************************************************)
EXTENDS Integers, Sequences

CONSTANTS
    Callers,        \* goroutines in ListTools or CallTool
    Disablers,      \* requests that disable the server for the agent
    Configs,
    MaxCalls,       \* bound: calls that begin
    MaxMishaps,     \* bound: edits of the row, and what servers do amiss
    None

McpAssumption == None \notin Configs \cup Callers /\ {MaxCalls, MaxMishaps} \subseteq Nat

VARIABLES
    row,            \* the configuration of the enabled server, or None
    client,         \* the process in the map of clients, 0 for none
    procs,          \* every process ever started, in order
    caller,         \* what each caller does, for which configuration, with which process
    disabler,       \* what each request that disables does, with which process
    calls, mishaps

mcpVars == <<row, client, procs, caller, disabler, calls, mishaps>>

\* A process that has just been started for the configuration: its state, the
\* holder of its client's mutex, the client's counter and "initialized", the
\* two pipes, and whether it has written a line that answers nothing.
Started(config) ==
    [config |-> config, state |-> "up", holder |-> None, asked |-> 0, ready |-> FALSE,
     requests |-> <<>>, answers |-> <<>>, strayed |-> FALSE]
Stray == 0
Closed(p) == [p EXCEPT !.state = "closed", !.requests = <<>>]

Idle == [at |-> "idle", config |-> None, proc |-> 0, got |-> "nothing"]

McpInit ==
    /\ row \in Configs \cup {None} /\ client = 0 /\ procs = <<>>
    /\ caller = [c \in Callers |-> Idle]
    /\ disabler = [d \in Disablers |-> [at |-> "idle", proc |-> 0]]
    /\ calls = 0 /\ mishaps = 0

counters == <<calls, mishaps>>
Proc(c) == procs[caller[c].proc]

-----------------------------------------------------------------------------
(***************************************************************************)
(* A call.                                                                 *)
(***************************************************************************)
\* resolveConfig, before any lock: a server that is not enabled is an error.
Resolve(c) ==
    /\ caller[c].at = "idle" /\ calls < MaxCalls /\ calls' = calls + 1
    /\ caller' = IF row = None THEN caller
                 ELSE [caller EXCEPT ![c] = [Idle EXCEPT !.at = "resolved", !.config = row]]
    /\ UNCHANGED <<row, client, procs, disabler, mishaps>>

\* Closing a client that is in the way, whoever talks to it: its mutex is not taken.
WithoutOld == IF client = 0 THEN procs ELSE [procs EXCEPT ![client] = Closed(@)]

\* getClient with the manager's mutex held: the process of the same
\* configuration, or a new one in its place, which may fail to start.
GetClient(c) ==
    /\ caller[c].at = "resolved"
    /\ IF client # 0 /\ procs[client].config = caller[c].config
       THEN /\ caller' = [caller EXCEPT ![c].at = "has", ![c].proc = client]
            /\ UNCHANGED <<client, procs>>
       ELSE \/ /\ procs' = Append(WithoutOld, Started(caller[c].config))
               /\ client' = Len(procs')
               /\ caller' = [caller EXCEPT ![c].at = "has", ![c].proc = Len(procs')]
            \/ procs' = WithoutOld /\ client' = 0 /\ caller' = [caller EXCEPT ![c] = Idle]
    /\ UNCHANGED <<row, disabler, counters>>

\* The client's mutex, and then the handshake if there was none.
Lock(c) ==
    /\ caller[c].at = "has" /\ Proc(c).holder = None
    /\ procs' = [procs EXCEPT ![caller[c].proc].holder = c]
    /\ caller' = [caller EXCEPT ![c].at = IF Proc(c).ready THEN "calls" ELSE "greets"]
    /\ UNCHANGED <<row, client, disabler, counters>>

\* A call returns, with a result or an error, and gives the mutex back.
Returns(c, p, got) ==
    /\ procs' = [procs EXCEPT ![caller[c].proc] = [p EXCEPT !.holder = None]]
    /\ caller' = [caller EXCEPT ![c] = [Idle EXCEPT !.proc = caller[c].proc, !.got = got]]

\* Writes a request with the next id; a process that is not there cannot read it.
WriteRequest(c) ==
    /\ caller[c].at \in {"calls", "greets"}
    /\ IF Proc(c).state \in {"up", "hung"}
       THEN /\ procs' = [procs EXCEPT ![caller[c].proc].asked = @ + 1,
                                      ![caller[c].proc].requests = Append(@, Proc(c).asked + 1)]
            /\ caller' = [caller EXCEPT ![c].at = IF @ = "calls" THEN "reads" ELSE "met"]
       ELSE Returns(c, [Proc(c) EXCEPT !.asked = @ + 1], "error")
    /\ UNCHANGED <<row, client, disabler, counters>>

\* The handshake is answered: with its notification written the call goes on.
Greeted(c, p) ==
    IF p.state \in {"up", "hung"}
    THEN /\ procs' = [procs EXCEPT ![caller[c].proc] = [p EXCEPT !.ready = TRUE]]
         /\ caller' = [caller EXCEPT ![c].at = "calls"]
    ELSE Returns(c, p, "error")

\* Takes the next line for the response: its id is not looked at, and a line
\* that is no answer is an error.  The end of the pipe is one, too; of a closed
\* pipe the lines that were buffered may still come.
ReadResponse(c) ==
    /\ caller[c].at \in {"reads", "met"}
    /\ LET p == Proc(c)
           rest == [p EXCEPT !.answers = Tail(@)]
       IN  \/ /\ p.answers = <<>> /\ p.state \in {"dead", "closed"}
              /\ Returns(c, p, "error")
           \/ /\ p.answers # <<>> /\ Head(p.answers) = Stray
              /\ Returns(c, rest, "error")
           \/ /\ p.answers # <<>> /\ Head(p.answers) # Stray
              /\ IF caller[c].at = "met" THEN Greeted(c, rest)
                 ELSE Returns(c, rest, IF Head(p.answers) = p.asked THEN "own" ELSE "foreign")
    /\ UNCHANGED <<row, client, disabler, counters>>

-----------------------------------------------------------------------------
(***************************************************************************)
(* setHostMCPServerEnabled: the row, then the client.                      *)
(***************************************************************************)
Disable(d) ==
    /\ disabler[d].at = "idle" /\ row' = None
    /\ disabler' = [disabler EXCEPT ![d].at = "saved"]
    /\ UNCHANGED <<client, procs, caller, counters>>

\* CloseClient with the manager's mutex held.
TakeClient(d) ==
    /\ disabler[d].at = "saved" /\ client' = 0
    /\ disabler' = [disabler EXCEPT ![d] =
                      [at |-> IF client = 0 THEN "done" ELSE "closing", proc |-> client]]
    /\ UNCHANGED <<row, procs, caller, counters>>

\* Closes it with the client's mutex, behind the call that holds it.
CloseTaken(d) ==
    /\ disabler[d].at = "closing" /\ procs[disabler[d].proc].holder = None
    /\ procs' = [procs EXCEPT ![disabler[d].proc] = Closed(@)]
    /\ disabler' = [disabler EXCEPT ![d].at = "done"]
    /\ UNCHANGED <<row, client, caller, counters>>

\* The pages and the agent's own tool write the row and leave the client alone.
Edit ==
    /\ mishaps < MaxMishaps /\ mishaps' = mishaps + 1
    /\ row' \in (Configs \cup {None}) \ {row}
    /\ UNCHANGED <<client, procs, caller, disabler, calls>>

-----------------------------------------------------------------------------
(***************************************************************************)
(* A server.  It answers in order; it may write a line of its own - a      *)
(* notification, or something it logs -, exit, or hang.                    *)
(***************************************************************************)
ServerAnswers(i) ==
    /\ i \in DOMAIN procs /\ procs[i].state = "up" /\ procs[i].requests # <<>>
    /\ procs' = [procs EXCEPT ![i].requests = Tail(@),
                              ![i].answers = Append(@, Head(procs[i].requests))]
    /\ UNCHANGED <<row, client, caller, disabler, counters>>

ServerErrs(i) ==
    /\ mishaps < MaxMishaps /\ mishaps' = mishaps + 1
    /\ i \in DOMAIN procs /\ procs[i].state = "up"
    /\ \/ procs' = [procs EXCEPT ![i].answers = Append(@, Stray), ![i].strayed = TRUE]
       \/ procs' = [procs EXCEPT ![i].state = "dead", ![i].requests = <<>>]
       \/ procs' = [procs EXCEPT ![i].state = "hung"]
    /\ UNCHANGED <<row, client, caller, disabler, calls>>

-----------------------------------------------------------------------------
CallerSteps(c) == GetClient(c) \/ Lock(c) \/ WriteRequest(c) \/ ReadResponse(c)
DisablerSteps(d) == TakeClient(d) \/ CloseTaken(d)

McpNext ==
    \/ \E c \in Callers : Resolve(c) \/ CallerSteps(c)
    \/ \E d \in Disablers : Disable(d) \/ DisablerSteps(d)
    \/ \E i \in DOMAIN procs : ServerAnswers(i) \/ ServerErrs(i)
    \/ Edit

\* Goroutines run, mutexes are handed on, and servers that do not hang answer.
McpSpec ==
    /\ McpInit /\ [][McpNext]_mcpVars
    /\ \A c \in Callers : WF_mcpVars(CallerSteps(c))
    /\ \A d \in Disablers : WF_mcpVars(DisablerSteps(d))
    /\ \A i \in 1..MaxCalls : WF_mcpVars(ServerAnswers(i))

-----------------------------------------------------------------------------
McpTypeOK ==
    /\ row \in Configs \cup {None} /\ client \in 0..Len(procs)
    /\ \A i \in DOMAIN procs :
         /\ procs[i].config \in Configs /\ procs[i].state \in {"up", "hung", "dead", "closed"}
         /\ procs[i].holder \in Callers \cup {None} /\ procs[i].asked \in Nat
    /\ \A c \in Callers :
         caller[c].at \in {"idle", "resolved", "has", "calls", "greets", "reads", "met"}
    /\ \A d \in Disablers : disabler[d].at \in {"idle", "saved", "closing", "done"}

\* Calls of several agents' tools share the pipes of one process, and nothing
\* compares ids: each caller gets the answer to its own request none the less,
\* until the server writes a line that answers nothing.
OwnAnswer ==
    \A c \in Callers : caller[c].got = "foreign" => procs[caller[c].proc].strayed

\* A process that runs is the one in the map, or someone is about to close it:
\* callers with different configurations, failing starts and CloseClient leave
\* none behind.
NoneLeftRunning ==
    \A i \in DOMAIN procs :
      procs[i].state \in {"up", "hung"} =>
        i = client \/ \E d \in Disablers : disabler[d] = [at |-> "closing", proc |-> i]

\* Nobody talks to a process started from another configuration than the one
\* the caller has read, although the row changes at any time.
AsConfigured ==
    \A c \in Callers :
      caller[c].at \in {"has", "calls", "greets", "reads", "met"} =>
        Proc(c).config = caller[c].config

McpInv == McpTypeOK /\ OwnAnswer /\ NoneLeftRunning /\ AsConfigured

\* "call sends a JSON-RPC request and waits for the response" (stdio.go): that it
\* gets the response to its own request, whatever the server writes, is refuted.
AlwaysOwn == \A c \in Callers : caller[c].got # "foreign"

\* CloseClient, which waits for the call that holds the client, comes through
\* unless the server hangs.
CloseWaits ==
    \E d \in Disablers : disabler[d].at = "closing" /\ procs[disabler[d].proc].state # "hung"
CloseEnds == []<>~CloseWaits
=============================================================================

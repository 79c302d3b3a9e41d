------------------------------- MODULE Relay -------------------------------
(***************************************************************************)
(* The relay sessions of one agent in apps/agent_manager: a hub that finds *)
(* or attaches a session, browsers and couriers of jobs that write to its  *)
(* input channel, the goroutines that carry input and output, and a close  *)
(* of five steps that anyone may begin and one performs, the last of which *)
(* gives the agent's claimed jobs back.                                    *)
(***************************************************************************)
EXTENDS Integers, FiniteSets

CONSTANTS
    Sessions,       \* bound: the sessions that are ever attached
    Clients,        \* browsers
    Jobs,           \* jobs for the agent, each with its courier
    Stoppers,       \* requests that stop or restart the agent
    Capacity,       \* of the input channel (256)
    None

RelayAssumption == None \notin Sessions /\ Capacity \in Nat \ {0}

VARIABLES
    hub,            \* the session in the map
    stage,          \* how far each session has come, from unborn to over
    queued,         \* what its input channel holds
    clients,        \* its registered browsers
    client,         \* what each browser's goroutine does, and with which session
    hungUp,         \* browsers whose connection is closed
    job,            \* status, and the session whose input took the heartbeat
    courier,        \* what each job's courier does, and with which session
    stopper         \* and each request that stops the agent

vars == <<hub, stage, queued, clients, client, hungUp, job, courier, stopper>>
browsers == <<clients, client, hungUp>>
couriers == <<job, courier>>

Stages == {"unborn", "open", "done", "sealed", "cut", "cleared", "over"}
Away == [at |-> "away", of |-> None]
Waiting == [status |-> "queued", via |-> None]

-----------------------------------------------------------------------------
\* GetOrCreateSession, with the hub's mutex held: the open session, or a new
\* one in its place, or an error that leaves a closed one out of the map.
Finds(s) ==
    \/ hub = s /\ s # None /\ stage[s] = "open" /\ UNCHANGED <<hub, stage>>
    \/ /\ hub # None => stage[hub] # "open"
       /\ s # None /\ stage[s] = "unborn"
       /\ hub' = s /\ stage' = [stage EXCEPT ![s] = "open"]
FindsNone == (hub # None => stage[hub] # "open") /\ hub' = None /\ UNCHANGED stage

\* writeToAgent: select chooses among the cases that are ready, and a send on
\* a closed channel is ready and panics.
Answers(s) ==
    CASE stage[s] = "open" -> {IF queued[s] < Capacity THEN "taken" ELSE "refused"}
      [] stage[s] = "done" -> {"refused"} \cup (IF queued[s] < Capacity THEN {"taken"} ELSE {})
      [] OTHER -> {"refused", "panic"}

Puts(s, answer) ==
    queued' = IF answer = "taken" THEN [queued EXCEPT ![s] = @ + 1] ELSE queued

-----------------------------------------------------------------------------
\* A courier claims a job, one at a time for the agent, and nudges it.
Claim(j) ==
    /\ courier[j] = Away /\ \A i \in Jobs : job[i].status = "queued"
    /\ job' = [job EXCEPT ![j] = [status |-> "claimed", via |-> None]]
    /\ courier' = [courier EXCEPT ![j] = [at |-> "claimed", of |-> None]]
    /\ UNCHANGED <<hub, stage, queued, browsers, stopper>>

FindForHeartbeat(j) ==
    /\ courier[j].at = "claimed"
    /\ \/ \E s \in Sessions : Finds(s) /\ courier' = [courier EXCEPT ![j] = [at |-> "found", of |-> s]]
       \/ FindsNone /\ courier' = [courier EXCEPT ![j] = [at |-> "failed", of |-> None]]
    /\ UNCHANGED <<queued, browsers, job, stopper>>

Heartbeat(j) ==
    /\ courier[j].at = "found"
    /\ LET s == courier[j].of IN
       \E answer \in Answers(s) :
         /\ Puts(s, answer)
         /\ job' = IF answer = "taken" /\ job[j].status = "claimed"
                   THEN [job EXCEPT ![j].via = s] ELSE job
         /\ courier' = [courier EXCEPT ![j] =
                          CASE answer = "taken" -> Away
                            [] answer = "refused" -> [at |-> "failed", of |-> None]
                            [] OTHER -> [at |-> "panic", of |-> s]]
    /\ UNCHANGED <<hub, stage, browsers, stopper>>

\* RequeueClaimedJob after a heartbeat that failed.
GiveBack(j) ==
    /\ courier[j].at = "failed"
    /\ job' = [job EXCEPT ![j] = Waiting] /\ courier' = [courier EXCEPT ![j] = Away]
    /\ UNCHANGED <<hub, stage, queued, browsers, stopper>>

-----------------------------------------------------------------------------
Connect(c) ==
    /\ client[c] = Away /\ c \notin hungUp
    /\ \/ \E s \in Sessions : Finds(s) /\ client' = [client EXCEPT ![c] = [at |-> "found", of |-> s]]
       \/ FindsNone /\ client' = [client EXCEPT ![c] = [at |-> "gone", of |-> None]]
    /\ UNCHANGED <<queued, clients, hungUp, couriers, stopper>>

\* AddClient; without a cached status it asks the agent for one.
AddClient(c) ==
    /\ client[c].at = "found"
    /\ LET s == client[c].of IN
       /\ clients' = [clients EXCEPT ![s] = @ \cup {c}]
       /\ \E answer \in {"nothing"} \cup Answers(s) :
            /\ Puts(s, answer)
            /\ client' = [client EXCEPT ![c].at = IF answer = "panic" THEN "panic" ELSE "pumping"]
    /\ UNCHANGED <<hub, stage, hungUp, couriers, stopper>>

\* readPump: a message is read after done was asked for, so it may be written
\* when the session has closed.
ReadMessage(c) ==
    /\ client[c].at = "pumping" /\ c \notin hungUp /\ stage[client[c].of] = "open"
    /\ client' = [client EXCEPT ![c].at = "message"]
    /\ UNCHANGED <<hub, stage, queued, clients, hungUp, couriers, stopper>>

WriteMessage(c) ==
    /\ client[c].at = "message"
    /\ \E answer \in Answers(client[c].of) :
         /\ Puts(client[c].of, answer)
         /\ client' = [client EXCEPT ![c].at = IF answer = "panic" THEN "panic" ELSE "pumping"]
    /\ UNCHANGED <<hub, stage, clients, hungUp, couriers, stopper>>

\* The browser hangs up, or the session is done: RemoveClient.
PumpLeaves(c) ==
    /\ client[c].at = "pumping"
    /\ clients' = [clients EXCEPT ![client[c].of] = @ \ {c}]
    /\ hungUp' = hungUp \cup {c}
    /\ client' = [client EXCEPT ![c].at = "gone"]
    /\ UNCHANGED <<hub, stage, queued, couriers, stopper>>

-----------------------------------------------------------------------------
\* closeOnce: whoever comes first closes done; the others find it closed.
Done(s) == stage' = [stage EXCEPT ![s] = IF @ = "open" THEN "done" ELSE @]

\* relayInput, which may take what is left after done as well.
RelayInput(s) ==
    /\ queued[s] > 0
    /\ queued' = [queued EXCEPT ![s] = @ - 1]
    /\ \/ UNCHANGED stage
       \/ Done(s)
    /\ UNCHANGED <<hub, browsers, couriers, stopper>>

\* relayOutput finds the container's output at its end.
OutputEnds(s) ==
    /\ stage[s] = "open" /\ Done(s)
    /\ UNCHANGED <<hub, queued, browsers, couriers, stopper>>

\* CloseSession: out of the map, with the mutex held, and then closed.
Remove(x) ==
    /\ stopper[x] = Away
    /\ stopper' = [stopper EXCEPT ![x] = IF hub = None THEN [at |-> "gone", of |-> None]
                                         ELSE [at |-> "removed", of |-> hub]]
    /\ hub' = None
    /\ UNCHANGED <<stage, queued, browsers, couriers>>

CloseRemoved(x) ==
    /\ stopper[x].at = "removed"
    /\ Done(stopper[x].of)
    /\ stopper' = [stopper EXCEPT ![x].at = "gone"]
    /\ UNCHANGED <<hub, queued, browsers, couriers>>

Step(s, from, to) == stage[s] = from /\ stage' = [stage EXCEPT ![s] = to]

CloseInput(s) ==
    /\ Step(s, "done", "sealed")
    /\ UNCHANGED <<hub, queued, browsers, couriers, stopper>>

CloseAttach(s) ==
    /\ Step(s, "sealed", "cut")
    /\ UNCHANGED <<hub, queued, browsers, couriers, stopper>>

CloseClients(s) ==
    /\ Step(s, "cut", "cleared")
    /\ hungUp' = hungUp \cup clients[s]
    /\ clients' = [clients EXCEPT ![s] = {}]
    /\ UNCHANGED <<hub, queued, client, couriers, stopper>>

\* Fault: the claims are left to their leases.
RequeueNothing(s) ==
    /\ Step(s, "cleared", "over")
    /\ UNCHANGED <<hub, queued, browsers, couriers, stopper>>

\* RequeueAgentClaims: the agent's, whichever session took the heartbeat.
RequeueClaims(s) ==
    /\ Step(s, "cleared", "over")
    /\ job' = [j \in Jobs |-> Waiting]
    /\ UNCHANGED <<hub, queued, browsers, courier, stopper>>

-----------------------------------------------------------------------------
Init ==
    /\ hub = None
    /\ stage = [s \in Sessions |-> "unborn"] /\ queued = [s \in Sessions |-> 0]
    /\ clients = [s \in Sessions |-> {}] /\ client = [c \in Clients |-> Away] /\ hungUp = {}
    /\ job = [j \in Jobs |-> Waiting] /\ courier = [j \in Jobs |-> Away]
    /\ stopper = [x \in Stoppers |-> Away]

Closes(s) == CloseInput(s) \/ CloseAttach(s) \/ CloseClients(s) \/ RequeueClaims(s)

Next ==
    \/ \E j \in Jobs : Claim(j) \/ FindForHeartbeat(j) \/ Heartbeat(j) \/ GiveBack(j)
    \/ \E c \in Clients :
         Connect(c) \/ AddClient(c) \/ ReadMessage(c) \/ WriteMessage(c) \/ PumpLeaves(c)
    \/ \E s \in Sessions : RelayInput(s) \/ OutputEnds(s) \/ Closes(s)
    \/ \E x \in Stoppers : Remove(x) \/ CloseRemoved(x)

Spec == Init /\ [][Next]_vars

\* A close that has begun goes on, and so does a goroutine; a browser need
\* not hang up, but a pump that finds its session done or hung up leaves.
PumpMustLeave(c) ==
    PumpLeaves(c) /\ (c \in hungUp \/ stage[client[c].of] # "open")
FairSpec ==
    /\ Spec
    /\ \A s \in Sessions : WF_vars(Closes(s))
    /\ \A c \in Clients : WF_vars(WriteMessage(c)) /\ WF_vars(PumpMustLeave(c))

-----------------------------------------------------------------------------
RelayTypeOK ==
    /\ hub \in Sessions \cup {None}
    /\ stage \in [Sessions -> Stages] /\ queued \in [Sessions -> 0..Capacity]
    /\ clients \in [Sessions -> SUBSET Clients] /\ hungUp \subseteq Clients
    /\ client \in [Clients -> [at : {"away", "found", "pumping", "message", "panic", "gone"},
                               of : Sessions \cup {None}]]
    /\ job \in [Jobs -> [status : {"queued", "claimed"}, via : Sessions \cup {None}]]
    /\ courier \in [Jobs -> [at : {"away", "claimed", "found", "failed", "panic"},
                             of : Sessions \cup {None}]]
    /\ stopper \in [Stoppers -> [at : {"away", "removed", "gone"}, of : Sessions \cup {None}]]

\* A heartbeat that a channel took just before it was closed is lost, and its
\* job is not: when the close is over no claim rests on that session.
NoClaimLeftBehind ==
    \A j \in Jobs : job[j].status = "claimed" /\ job[j].via # None => stage[job[j].via] # "over"

\* A closed session does not keep its browsers for ever, nor one that came
\* while it closed.
BrowserStays ==
    \E c \in Clients, s \in Sessions :
        c \in clients[s] /\ stage[s] # "open" /\ client[c].at # "panic"
ClientsGo == []<>~BrowserStays

-----------------------------------------------------------------------------
\* "active relay sessions (one per agent)" (ws_hub.go)
OneOpenSession == Cardinality({s \in Sessions : stage[s] = "open"}) <= 1

\* "session closed" is what a write to a closed session answers (ws_session.go).
NoPanic ==
    (\A j \in Jobs : courier[j].at # "panic") /\ (\A c \in Clients : client[c].at # "panic")

\* "so previously claimed jobs get re-delivered" (RequeueAgentClaims): those
\* a live session has taken are not previous.
LiveClaimStays ==
    [][\A s \in Sessions : RequeueClaims(s) =>
         \A j \in Jobs : job[j].status = "claimed" /\ job[j].via # None => stage[job[j].via] # "open"]_vars
=============================================================================

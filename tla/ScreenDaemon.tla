---------------------------- MODULE ScreenDaemon ----------------------------
(***************************************************************************)
(* The daemon of apps/screen_agent: its loop, the goroutine that serves    *)
(* the control socket one connection at a time, the requests of clients,   *)
(* and the jobs it starts, a new one of which cancels the one before.      *)
(*                                                                         *)
(* What a job does - a screenshot, its analysis, speech - is external.     *)
(***************************************************************************)
EXTENDS Integers, Sequences

CONSTANTS
    Clients,        \* requests over the control socket
    MaxJobs,        \* bound: jobs that are started
    Capacity,       \* of the channel of requests (8)
    Nobody

DaemonAssumption == Nobody \notin Clients /\ MaxJobs \in Nat /\ Capacity \in Nat \ {0}

VARIABLES
    main,           \* where RunDaemon is, and what the job it starts replaces
    cancelled,      \* the daemon's context is done
    listening,      \* the control socket is open
    server,         \* what the serving goroutine does, and for whom
    requests,       \* dispatches in the channel
    answer,         \* what is in each dispatch's response channel
    failure,        \* the serving goroutine has reported that accepting failed
    client,         \* what each client knows
    jobs,           \* every job ever started, in order
    active          \* the job whose cancel function is kept, 0 for none

daemonVars == <<main, cancelled, listening, server, requests, answer, failure,
                client, jobs, active>>
serving == <<server, requests, answer, failure>>

At(where) == [at |-> where, prev |-> 0, for |-> Nobody]
Serves(where, c) == [at |-> where, of |-> c]
Free == Serves("accept", Nobody)

IsDone(j) == cancelled \/ jobs[j].cancelled

DaemonInit ==
    /\ main = At("start") /\ cancelled = FALSE /\ listening = FALSE
    /\ server = Serves("unborn", Nobody) /\ requests = <<>> /\ failure = FALSE
    /\ answer = [c \in Clients |-> "none"] /\ client = [c \in Clients |-> "away"]
    /\ jobs = <<>> /\ active = 0

-----------------------------------------------------------------------------
(***************************************************************************)
(* RunDaemon.                                                              *)
(***************************************************************************)
\* StartControlServer: the path may belong to another daemon.
Listen ==
    /\ main.at = "start"
    /\ \/ listening' = TRUE /\ server' = Free /\ main' = At("preparing")
       \/ main' = At("gone") /\ UNCHANGED <<listening, server>>
    /\ UNCHANGED <<cancelled, requests, answer, failure, client, jobs, active>>

\* The PID file and the hotkey; when either fails the deferred calls run, the
\* first of which closes the socket and waits for its goroutine, with the
\* context not cancelled.
SetUp ==
    /\ main.at = "preparing"
    /\ \/ main' = At("loop") /\ UNCHANGED listening
       \/ main' = At("unwinding") /\ listening' = FALSE
    /\ UNCHANGED <<cancelled, serving, client, jobs, active>>

Unwound ==
    /\ main.at = "unwinding" /\ server.at = "over"
    /\ main' = At("gone") /\ cancelled' = TRUE
    /\ UNCHANGED <<listening, serving, client, jobs, active>>

\* hotkeyJobController.Start up to its Unlock; the one before is cancelled after.
StartJob(c) ==
    /\ Len(jobs) < MaxJobs
    /\ jobs' = Append(jobs, [over |-> FALSE, cancelled |-> FALSE, for |-> c]) /\ active' = Len(jobs')
    /\ main' = [at |-> "starting", prev |-> active, for |-> c]

\* A signal or the hotkey.
Trigger ==
    /\ main.at = "loop" /\ StartJob(Nobody)
    /\ UNCHANGED <<cancelled, listening, serving, client>>

\* A dispatch: the provider may not support its intent, and the daemon's
\* context may be done.
TakeDispatch ==
    /\ main.at = "loop" /\ requests # <<>> /\ requests' = Tail(requests)
    /\ LET c == Head(requests)
       IN  \/ answer' = [answer EXCEPT ![c] = "no"] /\ UNCHANGED <<main, jobs, active>>
           \/ ~cancelled /\ StartJob(c) /\ UNCHANGED answer
    /\ UNCHANGED <<cancelled, listening, server, failure, client>>

\* The cancel function of the job that was active is called outside the mutex.
PreviousCancelled == IF main.prev = 0 THEN jobs ELSE [jobs EXCEPT ![main.prev].cancelled = TRUE]

JobStarted ==
    /\ main.at = "starting" /\ jobs' = PreviousCancelled /\ main' = At("loop")
    /\ answer' = IF main.for = Nobody THEN answer ELSE [answer EXCEPT ![main.for] = "ok"]
    /\ UNCHANGED <<cancelled, listening, server, requests, failure, client, active>>

\* The caller's context is done.
ContextEnds ==
    /\ main.at # "gone" /\ ~cancelled /\ cancelled' = TRUE
    /\ UNCHANGED <<main, listening, serving, client, jobs, active>>

\* A signal to stop, the context, or a socket that failed: cancel, and close.
ShutDown ==
    /\ main.at = "loop" /\ cancelled' = TRUE /\ listening' = FALSE
    /\ main' = At("closing")
    /\ UNCHANGED <<serving, client, jobs, active>>
MustShutDown == (cancelled \/ failure) /\ ShutDown

\* The socket's goroutine is over: CancelAndWait cancels the active job.
CancelActive ==
    /\ main.at = "closing" /\ server.at = "over" /\ main' = At("waiting")
    /\ jobs' = IF active = 0 THEN jobs ELSE [jobs EXCEPT ![active].cancelled = TRUE]
    /\ active' = 0
    /\ UNCHANGED <<cancelled, listening, serving, client>>

JobsOver ==
    /\ main.at = "waiting" /\ \A j \in DOMAIN jobs : jobs[j].over
    /\ main' = At("gone")
    /\ UNCHANGED <<cancelled, listening, serving, client, jobs, active>>

-----------------------------------------------------------------------------
(***************************************************************************)
(* The control socket: ControlServer.serve and handleConnection.           *)
(***************************************************************************)
Accept(c) ==
    /\ server = Free /\ listening /\ client[c] = "connected"
    /\ server' = Serves("decode", c)
    /\ UNCHANGED <<main, cancelled, listening, requests, answer, failure, client, jobs, active>>

AcceptFails ==
    /\ server = Free /\ server' = Serves("over", Nobody)
    /\ failure' \in IF listening /\ ~cancelled THEN {TRUE} ELSE {failure}
    /\ UNCHANGED <<main, cancelled, listening, requests, answer, client, jobs, active>>
MustLeave == ~listening /\ AcceptFails

\* What a client that has not given up is told; the connection is closed.
Tell(c, what) ==
    /\ server' = Free
    /\ client' = IF client[c] = "connected" THEN [client EXCEPT ![c] = what] ELSE client

Decode ==
    /\ server.at = "decode"
    /\ \/ Tell(server.of, "rejected")
       \/ cancelled /\ Tell(server.of, "stopping")
       \/ ~cancelled /\ server' = Serves("send", server.of) /\ UNCHANGED client
    /\ UNCHANGED <<main, cancelled, listening, requests, answer, failure, jobs, active>>

\* Of the cases of select that are ready either is taken.
Dispatch ==
    /\ server.at = "send"
    /\ \/ /\ Len(requests) < Capacity /\ requests' = Append(requests, server.of)
          /\ server' = Serves("wait", server.of) /\ UNCHANGED client
       \/ cancelled /\ Tell(server.of, "stopping") /\ UNCHANGED requests
    /\ UNCHANGED <<main, cancelled, listening, answer, failure, jobs, active>>

Respond ==
    /\ server.at = "wait"
    /\ \/ answer[server.of] = "ok" /\ Tell(server.of, "accepted")
       \/ answer[server.of] = "no" /\ Tell(server.of, "rejected")
       \/ cancelled /\ Tell(server.of, "stopping")
    /\ UNCHANGED <<main, cancelled, listening, requests, answer, failure, jobs, active>>

\* SendAssistIntent dials, and after two seconds waits no longer.
Connect(c) ==
    /\ client[c] = "away" /\ listening /\ client' = [client EXCEPT ![c] = "connected"]
    /\ UNCHANGED <<main, cancelled, listening, serving, jobs, active>>
GivesUp(c) ==
    /\ client[c] = "connected" /\ client' = [client EXCEPT ![c] = "left"]
    /\ UNCHANGED <<main, cancelled, listening, serving, jobs, active>>

-----------------------------------------------------------------------------
(***************************************************************************)
(* The goroutine of a job.  What it waits for is external: it returns with *)
(* a result or an error at any time, its context done or not.              *)
(***************************************************************************)
\* Fault: a job that ends forgets the cancel function, whosever it is.
JobEndsAndForgets(j) ==
    /\ j \in DOMAIN jobs /\ ~jobs[j].over /\ ~(main.at = "starting" /\ j = Len(jobs))
    /\ jobs' = [jobs EXCEPT ![j].over = TRUE] /\ active' = 0
    /\ UNCHANGED <<main, cancelled, listening, serving, client>>

\* Only the latest forgets; it runs when the one before has been cancelled.
JobEnds(j) ==
    /\ j \in DOMAIN jobs /\ ~jobs[j].over /\ ~(main.at = "starting" /\ j = Len(jobs))
    /\ jobs' = [jobs EXCEPT ![j].over = TRUE]
    /\ active' = IF j = Len(jobs) THEN 0 ELSE active
    /\ UNCHANGED <<main, cancelled, listening, serving, client>>

-----------------------------------------------------------------------------
MainSteps == Listen \/ SetUp \/ Unwound \/ JobStarted \/ MustShutDown \/ CancelActive \/ JobsOver
ServerSteps == Decode \/ Dispatch \/ Respond \/ MustLeave

DaemonNext ==
    \/ MainSteps \/ Trigger \/ TakeDispatch \/ ContextEnds \/ ShutDown
    \/ ServerSteps \/ AcceptFails
    \/ \E c \in Clients : Connect(c) \/ GivesUp(c) \/ Accept(c)
    \/ \E j \in DOMAIN jobs : JobEnds(j)

\* Goroutines run, and what a job waits for returns or ends with its context.
DaemonSpec ==
    /\ DaemonInit /\ [][DaemonNext]_daemonVars
    /\ WF_daemonVars(MainSteps) /\ WF_daemonVars(TakeDispatch) /\ WF_daemonVars(ServerSteps)
    /\ \A j \in 1..MaxJobs : WF_daemonVars(JobEnds(j))

-----------------------------------------------------------------------------
DaemonTypeOK ==
    /\ main.at \in {"start", "preparing", "loop", "starting", "unwinding", "closing", "waiting", "gone"}
    /\ main.prev \in 0..MaxJobs /\ main.for \in Clients \cup {Nobody}
    /\ {cancelled, listening, failure} \subseteq BOOLEAN
    /\ server.at \in {"unborn", "accept", "decode", "send", "wait", "over"}
    /\ \A c \in Clients :
         /\ answer[c] \in {"none", "ok", "no"}
         /\ client[c] \in {"away", "connected", "accepted", "rejected", "stopping", "left"}
    /\ active \in 0..Len(jobs) /\ Len(jobs) <= MaxJobs

\* A new request cancels the job in progress, whatever ended in between: of the
\* jobs that are not over only the latest is not cancelled.
LatestOnly ==
    \A j \in DOMAIN jobs :
      ~jobs[j].over /\ ~IsDone(j) =>
        j = Len(jobs) \/ (main.at = "starting" /\ main.prev = j)

\* A client is told that its request is accepted only when a job was started
\* for it, and for each request one at most is.
AcceptedIsStarted ==
    \A c \in Clients :
      LET started == {j \in DOMAIN jobs : jobs[j].for = c}
      IN  /\ client[c] = "accepted" => started # {}
          /\ \A j, k \in started : j = k

\* When the daemon has returned nothing of it is left: no goroutine of its
\* socket and no job, among them one it had cancelled long before.
NothingLeft ==
    main.at = "gone" =>
      /\ ~listening /\ server.at \in {"unborn", "over"}
      /\ \A j \in DOMAIN jobs : jobs[j].over

DaemonInv == DaemonTypeOK /\ LatestOnly /\ AcceptedIsStarted /\ NothingLeft

\* "Registration fails loudly at startup" (README.md:129): that a daemon whose
\* hotkey cannot be had returns is refuted - a request that was accepted in the
\* meantime is answered by nobody, and closing the socket waits for its handler.
FailsLoudly == main.at = "unwinding" ~> main.at = "gone"

\* A daemon that was running and is told to stop comes to its end, behind the
\* connection it serves and every job it has started.
StopWaits == main.at \in {"closing", "waiting"}
DaemonStops == []<>~StopWaits
=============================================================================

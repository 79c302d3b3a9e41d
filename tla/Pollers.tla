------------------------------ MODULE Pollers -------------------------------
(***************************************************************************)
(* pollers: a manager that owns one background loop per registered source. *)
(* Its calls come from several goroutines; Manager.mu is held over one     *)
(* critical section of each, and Register holds it while it waits for the  *)
(* loop it replaces.  Intervals, timestamps and the contents of the sync   *)
(* rows are left out, and so is the end of the context given to Start,     *)
(* which does to the loops what Stop does.                                 *)
(***************************************************************************)
EXTENDS Naturals

CONSTANTS
    Sources,
    Runners,        \* one per registration; used again once nothing holds it
    Threads,        \* the goroutines that call the manager
    NoRunner, NoThread

ASSUME RunnersAssumption == NoRunner \notin Runners
ASSUME ThreadsAssumption == NoThread \notin Threads

VARIABLES
    dbUp,           \* the database handle is there (the environment's)
    mutex,          \* the thread that holds Manager.mu
    started,        \* Manager.started
    running,        \* Manager.running: source -> runner
    source,         \* the source each runner was made for
    loop,           \* where the goroutine of each runner is
    ended,          \* the runners whose context has been cancelled
    call,           \* where each thread is
    arg,            \* the source its call is about
    victims,        \* the runners it has yet to see stopped
    wanted          \* history: registered by a caller, not deregistered since

vars == <<dbUp, mutex, started, running, source, loop, ended, call, arg, victims, wanted>>
manager == <<mutex, started, running, wanted>>
calls == <<call, arg, victims>>

CallGoes(t, from, to) == call[t] = from /\ call' = [call EXCEPT ![t] = to]
LoopGoes(r, from, to) == loop[r] = from /\ loop' = [loop EXCEPT ![r] = to]

Launched(r) == loop[r] # "unlaunched"
Alive(r) == loop[r] \notin {"unlaunched", "done"}

\* A runner nothing refers to any more: its identity may be used again.
Fresh(r) ==
    /\ ~Alive(r)
    /\ \A s \in Sources : running[s] # r
    /\ \A t \in Threads : r \notin victims[t]

-----------------------------------------------------------------------------
(***************************************************************************)
(* The calls.                                                              *)
(***************************************************************************)
\* Start: every runner registered so far is launched.
Start ==
    /\ mutex = NoThread /\ ~started
    /\ started' = TRUE
    /\ loop' = [r \in Runners |->
                  IF \E s \in Sources : running[s] = r THEN "poll" ELSE loop[r]]
    /\ UNCHANGED <<dbUp, mutex, running, source, ended, calls, wanted>>

CallRegister(t, s) ==
    /\ CallGoes(t, "idle", "register") /\ arg' = [arg EXCEPT ![t] = s]
    /\ UNCHANGED <<dbUp, manager, source, loop, ended, victims>>

\* Reschedule reads the runner, unlocks, and registers it anew.
RescheduleRead(t, s) ==
    /\ mutex = NoThread /\ running[s] # NoRunner
    /\ CallGoes(t, "idle", "reregister") /\ arg' = [arg EXCEPT ![t] = s]
    /\ UNCHANGED <<dbUp, manager, source, loop, ended, victims>>

\* Register takes the lock and, where there is an old loop, cancels it.
RegisterEnter(t) ==
    LET old == {r \in Runners : running[arg[t]] = r /\ Launched(r)}
    IN
    /\ mutex = NoThread /\ call[t] \in {"register", "reregister"}
    /\ mutex' = t
    /\ wanted' = IF call[t] = "register" THEN wanted \cup {arg[t]} ELSE wanted
    /\ ended' = ended \cup old
    /\ victims' = [victims EXCEPT ![t] = old]
    /\ call' = [call EXCEPT ![t] = "replace"]
    /\ UNCHANGED <<dbUp, started, running, source, loop, arg>>

\* The old loop has closed done.  The caller still holds the lock.
OldStopped(t) ==
    /\ CallGoes(t, "replace", "install") /\ \A r \in victims[t] : ~Alive(r)
    /\ victims' = [victims EXCEPT ![t] = {}]
    /\ UNCHANGED <<dbUp, manager, source, loop, ended, arg>>

\* A new runner, launched at once in a started manager; the lock is released.
Install(t, r) ==
    /\ CallGoes(t, "install", "idle") /\ Fresh(r)
    /\ mutex' = NoThread
    /\ running' = [running EXCEPT ![arg[t]] = r]
    /\ source' = [source EXCEPT ![r] = arg[t]]
    /\ loop' = [loop EXCEPT ![r] = IF started THEN "poll" ELSE "unlaunched"]
    /\ ended' = ended \ {r}
    /\ UNCHANGED <<dbUp, started, arg, victims, wanted>>

\* Deregister: the entry goes under the lock, the loop is stopped after it.
DeregisterRemove(t, s) ==
    /\ mutex = NoThread /\ running[s] # NoRunner
    /\ CallGoes(t, "idle", "cancel")
    /\ running' = [running EXCEPT ![s] = NoRunner]
    /\ wanted' = wanted \ {s}
    /\ victims' = [victims EXCEPT ![t] = {r \in {running[s]} : Launched(r)}]
    /\ UNCHANGED <<dbUp, mutex, started, source, loop, ended, arg>>

\* Fault: the loop is left to notice that it was cancelled.
DeregisterCancelOnly(t) ==
    /\ CallGoes(t, "cancel", "wait")
    /\ ended' = ended \cup victims[t]
    /\ victims' = [victims EXCEPT ![t] = {}]
    /\ UNCHANGED <<dbUp, manager, source, loop, arg>>

DeregisterCancel(t) ==
    /\ CallGoes(t, "cancel", "wait")
    /\ ended' = ended \cup victims[t]
    /\ UNCHANGED <<dbUp, manager, source, loop, arg, victims>>

\* Stop: the map is emptied and the context of every loop cancelled.
Stop(t) ==
    /\ mutex = NoThread /\ CallGoes(t, "idle", "wait")
    /\ running' = [s \in Sources |-> NoRunner]
    /\ started' = FALSE
    /\ ended' = ended \cup {r \in Runners : Alive(r)}
    /\ victims' = [victims EXCEPT ![t] =
                     {r \in Runners : Launched(r) /\ \E s \in Sources : running[s] = r}]
    /\ wanted' = {}
    /\ UNCHANGED <<dbUp, mutex, source, loop, arg>>

\* Stop and Deregister wait for their loops and return.
StoppedAll(t) ==
    /\ CallGoes(t, "wait", "idle") /\ \A r \in victims[t] : ~Alive(r)
    /\ victims' = [victims EXCEPT ![t] = {}]
    /\ UNCHANGED <<dbUp, manager, source, loop, ended, arg>>

\* stop's five seconds are over before the loop is.
GiveUp(t, r) ==
    /\ call[t] \in {"replace", "wait"} /\ r \in victims[t] /\ r \in ended
    /\ victims' = [victims EXCEPT ![t] = @ \ {r}]
    /\ UNCHANGED <<dbUp, manager, source, loop, ended, call, arg>>

-----------------------------------------------------------------------------
(***************************************************************************)
(* The loops.                                                              *)
(***************************************************************************)
LoopKeeps == UNCHANGED <<dbUp, manager, source, ended, calls>>

\* Fault: a down database ends the loop.
BeginCycleOrEnd(r) ==
    /\ LoopGoes(r, "poll", IF r \in ended THEN "tick"
                           ELSE IF dbUp THEN "run" ELSE "done")
    /\ LoopKeeps

\* The head of cycle: the context, then the database.
BeginCycle(r) ==
    /\ LoopGoes(r, "poll", IF r \in ended THEN "tick"
                           ELSE IF dbUp THEN "run" ELSE "retry")
    /\ LoopKeeps

PollSucceeds(r) == LoopGoes(r, "run", "record") /\ LoopKeeps

\* "The manager shutting down is not a poll failure to record."
PollFails(r) ==
    /\ LoopGoes(r, "run", IF r \in ended THEN "tick" ELSE "record")
    /\ LoopKeeps

\* RecordSuccess, recordFailure.
Record(r) == LoopGoes(r, "record", "tick") /\ LoopKeeps

\* The ticker, or the short timer of a skipped cycle.
TimerFires(r) ==
    /\ loop[r] \in {"tick", "retry"} /\ loop' = [loop EXCEPT ![r] = "poll"]
    /\ LoopKeeps

Leave(r) ==
    /\ loop[r] \in {"tick", "retry"} /\ r \in ended
    /\ loop' = [loop EXCEPT ![r] = "done"]
    /\ LoopKeeps

DatabaseTurns ==
    /\ dbUp' = ~dbUp
    /\ UNCHANGED <<manager, source, loop, ended, calls>>

-----------------------------------------------------------------------------
Init ==
    /\ dbUp \in BOOLEAN
    /\ mutex = NoThread /\ started = FALSE
    /\ running = [s \in Sources |-> NoRunner]
    /\ source \in [Runners -> Sources]
    /\ loop = [r \in Runners |-> "unlaunched"]
    /\ ended = {}
    /\ call = [t \in Threads |-> "idle"]
    /\ arg \in [Threads -> Sources]
    /\ victims = [t \in Threads |-> {}]
    /\ wanted = {}

CallProceeds(t) ==
    \/ OldStopped(t) \/ (\E r \in Runners : Install(t, r))
    \/ DeregisterCancel(t) \/ StoppedAll(t)

CallBegins(t) ==
    \/ \E s \in Sources : CallRegister(t, s) \/ RescheduleRead(t, s) \/ DeregisterRemove(t, s)
    \/ Stop(t)

LoopRuns(r) ==
    \/ BeginCycle(r) \/ PollSucceeds(r) \/ PollFails(r) \/ Record(r) \/ TimerFires(r)

Next ==
    \/ Start
    \/ \E t \in Threads : CallBegins(t) \/ RegisterEnter(t) \/ CallProceeds(t)
    \/ \E r \in Runners : LoopRuns(r) \/ Leave(r)
    \/ DatabaseTurns

Spec == Init /\ [][Next]_vars

\* The same where a loop may take longer than stop waits for it.
SlowNext == Next \/ \E t \in Threads, r \in Runners : GiveUp(t, r)
SlowSpec == Init /\ [][SlowNext]_vars

\* A call that has begun goes on; the mutex is handed to who waits for it.  A
\* loop is scheduled, its poll ends ("every cycle is bounded by a timeout")
\* and its select takes a context that is done time after time.
FairSpec ==
    /\ Spec
    /\ \A t \in Threads : WF_vars(CallProceeds(t)) /\ SF_vars(RegisterEnter(t))
    /\ \A r \in Runners : WF_vars(LoopRuns(r)) /\ SF_vars(Leave(r))

-----------------------------------------------------------------------------
PollersTypeOK ==
    /\ dbUp \in BOOLEAN /\ started \in BOOLEAN
    /\ mutex \in Threads \cup {NoThread}
    /\ running \in [Sources -> Runners \cup {NoRunner}]
    /\ source \in [Runners -> Sources]
    /\ loop \in [Runners -> {"unlaunched", "poll", "run", "record", "retry", "tick", "done"}]
    /\ ended \subseteq Runners
    /\ call \in [Threads -> {"idle", "register", "reregister", "replace", "install",
                             "cancel", "wait"}]
    /\ arg \in [Threads -> Sources]
    /\ victims \in [Threads -> SUBSET Runners]
    /\ wanted \subseteq Sources

Cancelling(r) == \E t \in Threads : call[t] = "cancel" /\ r \in victims[t]
Replacing(s) == \E t \in Threads : mutex = t /\ arg[t] = s /\ call[t] \in {"replace", "install"}

\* A loop nobody has cancelled, or is about to, is the one its source is
\* registered with: "a reschedule never leaves two loops on one source", and
\* no interleaving of Register, Deregister, Stop and Start does (Register,
\* launch).
OneLiveLoop ==
    \A r \in Runners :
        Alive(r) /\ r \notin ended /\ ~Cancelling(r) => running[source[r]] = r

\* Once the manager has started, every registered source has a loop that runs
\* for it, "registered before or after Start" (Start), except while a call
\* is replacing it; and once it has been stopped every loop is told to end.
RegisteredRuns ==
    /\ \A s \in Sources : started /\ running[s] # NoRunner /\ ~Replacing(s) =>
          Alive(running[s]) /\ running[s] \notin ended
    /\ ~started => \A r \in Runners : Alive(r) => r \in ended

\* No loop outlives the call that stopped it: a goroutine that may still poll,
\* and still write its source's row, is registered or a call is waiting for
\* it.  "Its failures would land on a row whose true state is not connected"
\* (Deregister).
NoOrphanLoop ==
    \A r \in Runners :
        Alive(r) => running[source[r]] = r \/ \E t \in Threads : r \in victims[t]

Polling(s) == {r \in Runners : source[r] = s /\ loop[r] = "run"}

\* Cycles of one source overlap in one case only: a Deregister or a Stop is
\* still waiting for one of them.  Register never lets it happen.
OverlapOnlyWhileLeaving ==
    \A s \in Sources : \A r1, r2 \in Polling(s) : r1 # r2 =>
        \E t \in Threads, r \in {r1, r2} : call[t] \in {"cancel", "wait"} /\ r \in victims[t]

\* The manager's invariant.
PollersInv ==
    /\ PollersTypeOK /\ OneLiveLoop /\ RegisteredRuns
    /\ NoOrphanLoop /\ OverlapOnlyWhileLeaving

\* Every call returns: Register waits for a loop while it holds the mutex,
\* and no loop ever needs it.
CallsReturn == \A t \in Threads : (call[t] # "idle") ~> (call[t] = "idle")

\* A source that stays registered goes on being polled once the database is
\* back: neither a skipped cycle nor a failed one ends its loop.
GoesOnPolling ==
    \A s \in Sources, r \in Runners :
        <>[](started /\ running[s] = r /\ ~Replacing(s)) /\ <>[]dbUp => []<>(loop[r] = "run")

\* What fairness gives the callers and the sources.
PollersLive == CallsReturn /\ GoesOnPolling

\* What the package's comment says: "cycles of one source never overlap".
CyclesNeverOverlap == \A s \in Sources : \A r1, r2 \in Polling(s) : r1 = r2

\* What Deregister's comment says: it "stops and removes one source's
\* poller"; no other call but a Register brings it back.
DeregisteredStays == \A s \in Sources : running[s] # NoRunner => s \in wanted
=============================================================================

-------------------------- MODULE EngineLifecycle --------------------------
(***************************************************************************)
(* The admission and the shutdown of apps/agent_manager's pipeline engine: *)
(* triggers that reserve a slot of runWG and hand it to a goroutine, calls *)
(* of Shutdown, of which one closes the engine and one spawns the drainer, *)
(* calls of WaitInFlight, which waits with shutdownMu held, and completed  *)
(* jobs, whose next step the caller of RecordCompletion executes itself.   *)
(***************************************************************************)
EXTENDS Integers, FiniteSets

CONSTANTS
    Triggers,       \* calls of TriggerPipeline
    Completions,    \* calls of RecordCompletion that have a next step
    Closers,        \* calls of Shutdown
    Waiters         \* calls of WaitInFlight

ASSUME EngineAssumption == IsFiniteSet(Triggers)

VARIABLES
    trigger,        \* how far each trigger and its goroutine have come
    completion,     \* and each completion
    closer,         \* and each call of Shutdown
    waiter,         \* and each call of WaitInFlight
    runWG,          \* slots that are reserved
    shutdownClosed,
    cancelled,      \* runCtx is
    drainer         \* "none", "waiting" in runWG.Wait, or "done": shutdownDone is closed

vars == <<trigger, completion, closer, waiter, runWG, shutdownClosed, cancelled, drainer>>

\* Who holds shutdownMu from one step to the next.
MuIsFree == \A w \in Waiters : waiter[w] # "waiting"

-----------------------------------------------------------------------------
\* Fault: the count is raised without the mutex.
TryBeginRunLate(t) ==
    /\ trigger[t] = "calling"
    /\ IF shutdownClosed
       THEN trigger' = [trigger EXCEPT ![t] = "refused"] /\ UNCHANGED runWG
       ELSE trigger' = [trigger EXCEPT ![t] = "reserved"] /\ runWG' = runWG + 1
    /\ UNCHANGED <<completion, closer, waiter, shutdownClosed, cancelled, drainer>>

TryBeginRun(t) ==
    /\ trigger[t] = "calling" /\ MuIsFree
    /\ IF shutdownClosed
       THEN trigger' = [trigger EXCEPT ![t] = "refused"] /\ UNCHANGED runWG
       ELSE trigger' = [trigger EXCEPT ![t] = "reserved"] /\ runWG' = runWG + 1
    /\ UNCHANGED <<completion, closer, waiter, shutdownClosed, cancelled, drainer>>

\* Fault: the slot handed over is released by the deferred call as well.
CreateRunReleases(t) ==
    /\ trigger[t] = "reserved"
    /\ \E next \in {"running", "failed"} : trigger' = [trigger EXCEPT ![t] = next]
    /\ runWG' = runWG - 1
    /\ UNCHANGED <<completion, closer, waiter, shutdownClosed, cancelled, drainer>>

\* The row of the run: with it the slot goes to the goroutine, without it the
\* slot is released.
CreateRun(t) ==
    /\ trigger[t] = "reserved"
    /\ \/ trigger' = [trigger EXCEPT ![t] = "running"] /\ UNCHANGED runWG
       \/ trigger' = [trigger EXCEPT ![t] = "failed"] /\ runWG' = runWG - 1
    /\ UNCHANGED <<completion, closer, waiter, shutdownClosed, cancelled, drainer>>

\* executeStep returns, because it is done or because it sees the context.
StepEnds(t) ==
    /\ trigger[t] = "running"
    /\ trigger' = [trigger EXCEPT ![t] = "done"] /\ runWG' = runWG - 1
    /\ UNCHANGED <<completion, closer, waiter, shutdownClosed, cancelled, drainer>>

\* RecordCompletion executes the next step with context.Background().
RecordCompletion(c) ==
    /\ \/ completion[c] = "coming" /\ completion' = [completion EXCEPT ![c] = "stepping"]
       \/ completion[c] = "stepping" /\ completion' = [completion EXCEPT ![c] = "over"]
    /\ UNCHANGED <<trigger, closer, waiter, runWG, shutdownClosed, cancelled, drainer>>

Close(s) ==
    /\ closer[s] = "calling" /\ MuIsFree
    /\ shutdownClosed' = TRUE
    /\ cancelled' = (cancelled \/ ~shutdownClosed)
    /\ closer' = [closer EXCEPT ![s] = "closed"]
    /\ UNCHANGED <<trigger, completion, waiter, runWG, drainer>>

SpawnDrainer(s) ==
    /\ closer[s] = "closed"
    /\ drainer' = IF drainer = "none" THEN "waiting" ELSE drainer
    /\ closer' = [closer EXCEPT ![s] = "waiting"]
    /\ UNCHANGED <<trigger, completion, waiter, runWG, shutdownClosed, cancelled>>

Drains ==
    /\ drainer = "waiting" /\ runWG = 0 /\ drainer' = "done"
    /\ UNCHANGED <<trigger, completion, closer, waiter, runWG, shutdownClosed, cancelled>>

\* Either the drainer is done or the caller's deadline passes.
ShutdownReturns(s) ==
    /\ closer[s] = "waiting"
    /\ \/ drainer = "done" /\ closer' = [closer EXCEPT ![s] = "drained"]
       \/ closer' = [closer EXCEPT ![s] = "deadline"]
    /\ UNCHANGED <<trigger, completion, waiter, runWG, shutdownClosed, cancelled, drainer>>

WaitBegins(w) ==
    /\ waiter[w] = "calling" /\ MuIsFree
    /\ waiter' = [waiter EXCEPT ![w] = "waiting"]
    /\ UNCHANGED <<trigger, completion, closer, runWG, shutdownClosed, cancelled, drainer>>

WaitEnds(w) ==
    /\ waiter[w] = "waiting" /\ runWG = 0
    /\ waiter' = [waiter EXCEPT ![w] = "returned"]
    /\ UNCHANGED <<trigger, completion, closer, runWG, shutdownClosed, cancelled, drainer>>

-----------------------------------------------------------------------------
Init ==
    /\ trigger = [t \in Triggers |-> "calling"]
    /\ completion = [c \in Completions |-> "coming"]
    /\ closer = [s \in Closers |-> "calling"]
    /\ waiter = [w \in Waiters |-> "calling"]
    /\ runWG = 0 /\ shutdownClosed = FALSE /\ cancelled = FALSE /\ drainer = "none"

Next ==
    \/ \E t \in Triggers : TryBeginRun(t) \/ CreateRun(t) \/ StepEnds(t)
    \/ \E c \in Completions : RecordCompletion(c)
    \/ \E s \in Closers : Close(s) \/ SpawnDrainer(s) \/ ShutdownReturns(s)
    \/ Drains
    \/ \E w \in Waiters : WaitBegins(w) \/ WaitEnds(w)

Spec == Init /\ [][Next]_vars

\* Code that only computes goes on; a step need not end by itself, but one
\* that is cancelled does.
FairSpec ==
    /\ Spec
    /\ \A t \in Triggers : WF_vars(CreateRun(t)) /\ WF_vars(cancelled /\ StepEnds(t))
    /\ \A s \in Closers : WF_vars(SpawnDrainer(s))
    /\ WF_vars(Drains)
    /\ \A w \in Waiters : WF_vars(WaitEnds(w))

-----------------------------------------------------------------------------
Holding == {t \in Triggers : trigger[t] \in {"reserved", "running"}}

EngineLifecycleTypeOK ==
    /\ trigger \in [Triggers -> {"calling", "refused", "reserved", "running", "failed", "done"}]
    /\ completion \in [Completions -> {"coming", "stepping", "over"}]
    /\ closer \in [Closers -> {"calling", "closed", "waiting", "drained", "deadline"}]
    /\ waiter \in [Waiters -> {"calling", "waiting", "returned"}]
    /\ runWG \in Nat
    /\ shutdownClosed \in BOOLEAN /\ cancelled \in BOOLEAN
    /\ drainer \in {"none", "waiting", "done"}

\* Every slot is released exactly once: by the early return or the goroutine.
SlotsCounted == runWG = Cardinality(Holding)

\* "no new runWG.Add arrives after Shutdown starts" and none while
\* WaitInFlight waits: an Add beside a Wait at zero is a misuse that panics.
NoAddBesideWait ==
    [][drainer # "none" \/ ~MuIsFree => runWG' <= runWG]_vars

\* A shutdown that returns nil, then or later, leaves no admitted trigger
\* behind: neither a reserved slot nor a goroutine.
DrainedIsOver == drainer = "done" => Holding = {}

\* The engine's invariant.
EngineInv == EngineLifecycleTypeOK /\ SlotsCounted /\ DrainedIsOver

\* Once the engine is closed, which it stays, every goroutine it admitted ends.
HasDrained == shutdownClosed => drainer = "done"
ClosedDrains == []<>HasDrained

\* "the engine never admits work it cannot wait for" (pipelines_core_test.go).
AdmittedIsAwaited ==
    drainer = "done" => \A c \in Completions : completion[c] # "stepping"
=============================================================================

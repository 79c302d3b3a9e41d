------------------------------ MODULE WakeWait ------------------------------
(***************************************************************************)
(* The parked waits of src/projects: Service.Wait and its check ready run  *)
(* without the service's mutex, beside handlers that write under it and    *)
(* then call wake, which closes the channel of the generation and opens    *)
(* the next.  A generation is a number: its channel is closed once the     *)
(* current number is larger.                                               *)
(*                                                                         *)
(* What ready reads is two things, at two moments: whether the worker is   *)
(* in (its row, its quota) and whether the queue holds a job for it.       *)
(***************************************************************************)
EXTENDS Integers

CONSTANTS
    Waiters,            \* the workers that park, one Wait call each
    Handlers,           \* the concurrent calls of the service's handlers
    NoHandler,
    MaxGeneration       \* wakes counted at most: a bound for model checking

ASSUME HandlersAssumption == NoHandler \notin Handlers
ASSUME GenerationAssumption == MaxGeneration \in Nat

VARIABLES
    rowIn,      \* the workers that are enabled and available
    hasJob,     \* the workers the queue holds a job for
    gen,        \* Service.gen
    mutex,      \* the handler that holds Service.mu
    handler,    \* "idle", "locked", "wrote", "woke"
    wait,       \* "out", "gen", "row", "queue", "parked"
    parkedOn    \* the generation each Wait read last

vars == <<rowIn, hasJob, gen, mutex, handler, wait, parkedOn>>
tables == <<rowIn, hasJob>>
waits == <<wait, parkedOn>>

Ready(w) == w \in rowIn /\ w \in hasJob

-----------------------------------------------------------------------------
(***************************************************************************)
(* The handlers.                                                           *)
(***************************************************************************)
HandlerGoes(h, from, to) ==
    handler[h] = from /\ handler' = [handler EXCEPT ![h] = to]

Lock(h) ==
    /\ mutex = NoHandler /\ HandlerGoes(h, "idle", "locked")
    /\ mutex' = h
    /\ UNCHANGED <<tables, gen, waits>>

\* A write that may put work before a worker, or take it away.
Write(h, ins, jobs) ==
    /\ gen < MaxGeneration /\ HandlerGoes(h, "locked", "wrote")
    /\ rowIn' = ins /\ hasJob' = jobs
    /\ UNCHANGED <<gen, mutex, waits>>

\* Fault: a write that creates work is taken for one that does not.
QuietWriteOfWork(h, ins, jobs) ==
    /\ HandlerGoes(h, "locked", "woke")
    /\ rowIn' = ins /\ hasJob' = jobs
    /\ UNCHANGED <<gen, mutex, waits>>

\* A write the handler knows to create no work: a claim at a check-in, a
\* failed run, a patch of a title.
QuietWrite(h, ins, jobs) ==
    /\ HandlerGoes(h, "locked", "woke")
    /\ ins \cap jobs \subseteq rowIn \cap hasJob
    /\ rowIn' = ins /\ hasJob' = jobs
    /\ UNCHANGED <<gen, mutex, waits>>

\* Fault: a new channel is made and the old one left open.
WakeUnclosed(h) ==
    /\ HandlerGoes(h, "wrote", "woke")
    /\ UNCHANGED <<tables, gen, mutex, waits>>

\* wake: under wakeMu, so one step.
Wake(h) ==
    /\ HandlerGoes(h, "wrote", "woke")
    /\ gen' = gen + 1
    /\ UNCHANGED <<tables, mutex, waits>>

\* The row is saved, the comment on it is not, and the handler returns the
\* error before its wake.
FailHalfway(h) ==
    /\ HandlerGoes(h, "wrote", "woke")
    /\ UNCHANGED <<tables, gen, mutex, waits>>

Unlock(h) ==
    /\ mutex = h /\ handler[h] \in {"locked", "woke"}
    /\ handler' = [handler EXCEPT ![h] = "idle"]
    /\ mutex' = NoHandler
    /\ UNCHANGED <<tables, gen, waits>>

-----------------------------------------------------------------------------
(***************************************************************************)
(* Wait.  The generation is read before the check.                         *)
(***************************************************************************)
WaitGoes(w, from, to) == wait[w] = from /\ wait' = [wait EXCEPT ![w] = to]

Call(w) ==
    /\ WaitGoes(w, "out", "gen")
    /\ UNCHANGED <<tables, gen, mutex, handler, parkedOn>>

ReadGeneration(w) ==
    /\ WaitGoes(w, "gen", "row")
    /\ parkedOn' = [parkedOn EXCEPT ![w] = gen]
    /\ UNCHANGED <<tables, gen, mutex, handler>>

ReadRow(w) ==
    /\ WaitGoes(w, "row", IF w \in rowIn THEN "queue" ELSE "parked")
    /\ UNCHANGED <<tables, gen, mutex, handler, parkedOn>>

ReadQueue(w) ==
    /\ WaitGoes(w, "queue", IF w \in hasJob THEN "out" ELSE "parked")
    /\ UNCHANGED <<tables, gen, mutex, handler, parkedOn>>

\* The channel of the generation it parked on is closed: check again.
Woken(w) ==
    /\ parkedOn[w] < gen /\ WaitGoes(w, "parked", "gen")
    /\ UNCHANGED <<tables, gen, mutex, handler, parkedOn>>

\* The deadline, or the end of the caller's context.
GiveUp(w) ==
    /\ WaitGoes(w, "parked", "out")
    /\ UNCHANGED <<tables, gen, mutex, handler, parkedOn>>

-----------------------------------------------------------------------------
\* The service has just started: no call is under way.
Init ==
    /\ rowIn \in SUBSET Waiters /\ hasJob \in SUBSET Waiters
    /\ gen = 0 /\ mutex = NoHandler
    /\ handler = [h \in Handlers |-> "idle"]
    /\ wait = [w \in Waiters |-> "out"]
    /\ parkedOn = [w \in Waiters |-> 0]

HandlerNext(h) ==
    \/ Lock(h)
    \/ \E ins, jobs \in SUBSET Waiters : Write(h, ins, jobs)
    \/ \E ins, jobs \in SUBSET Waiters : QuietWrite(h, ins, jobs)
    \/ Wake(h)
    \/ Unlock(h)

\* The steps a Wait takes by itself, without its timer.
WaitRuns(w) == ReadGeneration(w) \/ ReadRow(w) \/ ReadQueue(w) \/ Woken(w)

WaitNext(w) == Call(w) \/ WaitRuns(w) \/ GiveUp(w)

Next ==
    \/ \E h \in Handlers : HandlerNext(h)
    \/ \E w \in Waiters : WaitNext(w)

Spec == Init /\ [][Next]_vars

\* The same where the second write of a handler may fail.
FailingNext == Next \/ \E h \in Handlers : FailHalfway(h)
FailingSpec == Init /\ [][FailingNext]_vars

\* Goroutines are scheduled, and a handler that has written goes on to wake
\* and to unlock.  No deadline is relied on.
FairSpec ==
    /\ Spec
    /\ \A w \in Waiters : WF_vars(WaitRuns(w))
    /\ \A h \in Handlers : WF_vars(Wake(h)) /\ WF_vars(Unlock(h))

-----------------------------------------------------------------------------
WakeWaitTypeOK ==
    /\ rowIn \subseteq Waiters /\ hasJob \subseteq Waiters
    /\ gen \in Nat
    /\ mutex \in Handlers \cup {NoHandler}
    /\ handler \in [Handlers -> {"idle", "locked", "wrote", "woke"}]
    /\ wait \in [Waiters -> {"out", "gen", "row", "queue", "parked"}]
    /\ parkedOn \in [Waiters -> Nat]

\* No lost wake: a worker that is parked although its queue holds a job has
\* a closed channel before it, or the handler whose write put the job there
\* is still to wake.  "The generation is read before the check so a wake
\* between the check and the park closes the channel this turn parks on"
\* (queue.go, Wait).
WakePending == \E h \in Handlers : handler[h] = "wrote"
NoLostWake ==
    \A w \in Waiters :
        wait[w] = "parked" /\ Ready(w) => parkedOn[w] < gen \/ WakePending

\* A worker that has a job to take for good does not stay in its Wait until
\* the deadline: "true means check in now" (queue.go, Wait).
WaitAnswered ==
    \A w \in Waiters : <>[]Ready(w) => []<>(wait[w] = "out")
=============================================================================

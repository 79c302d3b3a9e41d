------------------------------- MODULE Keeper -------------------------------
(***************************************************************************)
(* data/keeper: one goroutine connects to the database, watches it and     *)
(* drops it, while other goroutines close the keeper and register hooks.   *)
(* Each critical section of Keeper.mu is one step, and so is each call     *)
(* made outside it: opening, preparing, pinging and closing a handle, and  *)
(* running a hook.                                                         *)
(*                                                                         *)
(* Durations are left out: a timer that has been started may fire at any   *)
(* time.  What wait then does is the choice of Go's select, any of the     *)
(* channels that are ready.                                                *)
(***************************************************************************)
EXTENDS Naturals

CONSTANTS
    Handles,        \* connections; an identity is used again once closed
    Closers,        \* the goroutines that call Close
    Hooks,          \* the functions given to OnUp, one call each
    NoHandle

ASSUME HandlesAssumption == NoHandle \notin Handles

VARIABLES
    reachable,      \* the database answers (the environment's)
    ctxDone,        \* the context given to Open has ended
    stopped,        \* k.stop is closed
    db, err,        \* k.db, and whether k.err holds an error
    upFns,          \* k.upFns
    loop,           \* where the supervising goroutine is
    conn,           \* the handle it is opening, pinging or closing
    todo,           \* the hooks of its snapshot still to run
    closer, hooker, \* where the callers of Close and of OnUp are
    open,           \* the handles opened and not closed since
    closedTwice,    \* a handle was closed that was not open
    ran             \* the hooks run since the last handle was published

vars == <<reachable, ctxDone, stopped, db, err, upFns, loop, conn, todo,
          closer, hooker, open, closedTwice, ran>>
env == <<reachable, ctxDone>>
conns == <<open, closedTwice>>
hooks == <<upFns, hooker, todo, ran>>

CloseHandle(h) ==
    /\ open' = open \ {h}
    /\ closedTwice' = (closedTwice \/ h \notin open)

LoopGoes(from, to) == loop = from /\ loop' = to

Sleeps == {"backoff", "pause"}
Awake == [backoff |-> "look", pause |-> "ping"]

-----------------------------------------------------------------------------
(***************************************************************************)
(* loop and connect.                                                       *)
(***************************************************************************)
\* k.DB() at the head of the loop.
Look ==
    /\ LoopGoes("look", IF db = NoHandle THEN "open" ELSE "pause")
    /\ UNCHANGED <<env, stopped, db, err, conn, closer, conns, hooks>>

\* newDB, which fails for a database that does not answer or an empty DSN.
OpenFails ==
    /\ LoopGoes("open", "failed") /\ ~reachable
    /\ UNCHANGED <<env, stopped, db, err, conn, closer, conns, hooks>>

OpenHandle(h) ==
    /\ LoopGoes("open", "prepare") /\ reachable /\ h \notin open
    /\ conn' = h /\ open' = open \cup {h}
    /\ UNCHANGED <<env, stopped, db, err, closer, closedTwice, hooks>>

\* AddAllTables or OnConnect fails: the handle is closed again.
PrepareFails ==
    /\ LoopGoes("prepare", "failed") /\ (~reachable \/ ctxDone)
    /\ CloseHandle(conn) /\ conn' = NoHandle
    /\ UNCHANGED <<env, stopped, db, err, closer, hooks>>

\* Tables and OnConnect succeeded: the handle is published.
Publish ==
    /\ LoopGoes("prepare", "snapshot")
    /\ db' = conn /\ err' = FALSE /\ conn' = NoHandle
    /\ ran' = {}
    /\ UNCHANGED <<env, stopped, closer, conns, upFns, hooker, todo>>

\* Fault: a failed connect ends the loop.
NoteFailureAndReturn ==
    /\ LoopGoes("failed", "done") /\ err' = TRUE
    /\ UNCHANGED <<env, stopped, db, conn, closer, conns, hooks>>

\* setErr.
NoteFailure ==
    /\ LoopGoes("failed", "backoff") /\ err' = TRUE
    /\ UNCHANGED <<env, stopped, db, conn, closer, conns, hooks>>

\* upCallbacks.
Snapshot ==
    /\ LoopGoes("snapshot", "hooks") /\ todo' = upFns
    /\ UNCHANGED <<env, stopped, db, err, conn, closer, conns, upFns, hooker, ran>>

RunHook(f) ==
    /\ loop = "hooks" /\ f \in todo
    /\ todo' = todo \ {f} /\ ran' = ran \cup {f}
    /\ UNCHANGED <<env, stopped, db, err, loop, conn, closer, conns, upFns, hooker>>

HooksDone ==
    /\ todo = {} /\ LoopGoes("hooks", "pause")
    /\ UNCHANGED <<env, stopped, db, err, conn, closer, conns, hooks>>

\* wait: the timer.  It may have fired before the channel was closed.
TimerFires ==
    /\ loop \in Sleeps /\ loop' = Awake[loop]
    /\ UNCHANGED <<env, stopped, db, err, conn, closer, conns, hooks>>

\* wait: k.stop, or the context.
LeaveLoop ==
    /\ loop \in Sleeps /\ (stopped \/ ctxDone) /\ loop' = "done"
    /\ UNCHANGED <<env, stopped, db, err, conn, closer, conns, hooks>>

\* The ping reads the handle first, and pings it outside the lock.
PingReads ==
    /\ LoopGoes("ping", IF db = NoHandle THEN "look" ELSE "pinging")
    /\ conn' = db
    /\ UNCHANGED <<env, stopped, db, err, closer, conns, hooks>>

PingOK ==
    /\ LoopGoes("pinging", "look") /\ reachable /\ conn \in open
    /\ conn' = NoHandle
    /\ UNCHANGED <<env, stopped, db, err, closer, conns, hooks>>

\* No answer, or Close has closed the handle meanwhile.
PingFails ==
    /\ LoopGoes("pinging", "drop") /\ (~reachable \/ conn \notin open \/ ctxDone)
    /\ conn' = NoHandle
    /\ UNCHANGED <<env, stopped, db, err, closer, conns, hooks>>

\* drop: what it closes is what it took from k.db under the lock.
Drop ==
    /\ LoopGoes("drop", IF db = NoHandle THEN "look" ELSE "closeOld")
    /\ conn' = db /\ db' = NoHandle /\ err' = TRUE
    /\ UNCHANGED <<env, stopped, closer, conns, hooks>>

CloseOld ==
    /\ LoopGoes("closeOld", "look")
    /\ CloseHandle(conn) /\ conn' = NoHandle
    /\ UNCHANGED <<env, stopped, db, err, closer, hooks>>

-----------------------------------------------------------------------------
(***************************************************************************)
(* Close and OnUp.                                                         *)
(***************************************************************************)
\* once.Do: the first call closes the channel, the others find it closed.
CloseStop(c) ==
    /\ closer[c] = "out" /\ closer' = [closer EXCEPT ![c] = "stopped"]
    /\ stopped' = TRUE
    /\ UNCHANGED <<env, db, err, loop, conn, conns, hooks>>

CloseRelease(c) ==
    /\ closer[c] = "stopped" /\ closer' = [closer EXCEPT ![c] = "closed"]
    /\ IF db = NoHandle THEN UNCHANGED conns ELSE CloseHandle(db)
    /\ db' = NoHandle
    /\ UNCHANGED <<env, stopped, err, loop, conn, hooks>>

\* Fault: a keeper that is already up runs nothing.
OnUpRegisterOnly(f) ==
    /\ hooker[f] = "out"
    /\ hooker' = [hooker EXCEPT ![f] = "in"]
    /\ upFns' = upFns \cup {f}
    /\ UNCHANGED <<env, stopped, db, err, loop, conn, closer, conns, todo, ran>>

\* OnUp: append and read up in one critical section, run outside it.
OnUpRegister(f) ==
    /\ hooker[f] = "out"
    /\ hooker' = [hooker EXCEPT ![f] = IF db = NoHandle THEN "in" ELSE "run"]
    /\ upFns' = upFns \cup {f}
    /\ UNCHANGED <<env, stopped, db, err, loop, conn, closer, conns, todo, ran>>

OnUpRun(f) ==
    /\ hooker[f] = "run" /\ hooker' = [hooker EXCEPT ![f] = "in"]
    /\ ran' = ran \cup {f}
    /\ UNCHANGED <<env, stopped, db, err, loop, conn, closer, conns, upFns, todo>>

-----------------------------------------------------------------------------
\* The database goes away and comes back; the process may end the context.
DatabaseTurns ==
    /\ reachable' = ~reachable
    /\ UNCHANGED <<ctxDone, stopped, db, err, loop, conn, closer, conns, hooks>>

ContextEnds ==
    /\ ~ctxDone /\ ctxDone' = TRUE
    /\ UNCHANGED <<reachable, stopped, db, err, loop, conn, closer, conns, hooks>>

Init ==
    /\ reachable \in BOOLEAN /\ ctxDone = FALSE /\ stopped = FALSE
    /\ db = NoHandle /\ err = FALSE /\ upFns = {}
    /\ loop = "look" /\ conn = NoHandle /\ todo = {}
    /\ closer = [c \in Closers |-> "out"]
    /\ hooker = [f \in Hooks |-> "out"]
    /\ open = {} /\ closedTwice = FALSE /\ ran = {}

LoopNext ==
    \/ Look
    \/ OpenFails \/ (\E h \in Handles : OpenHandle(h))
    \/ PrepareFails \/ Publish \/ NoteFailure
    \/ Snapshot \/ (\E f \in Hooks : RunHook(f)) \/ HooksDone
    \/ TimerFires \/ LeaveLoop
    \/ PingReads \/ PingOK \/ PingFails \/ Drop \/ CloseOld

CallNext ==
    \/ \E c \in Closers : CloseStop(c) \/ CloseRelease(c)
    \/ \E f \in Hooks : OnUpRegister(f) \/ OnUpRun(f)

Next == LoopNext \/ CallNext \/ DatabaseTurns \/ ContextEnds

Spec == Init /\ [][Next]_vars

\* The goroutine is scheduled; select chooses among ready channels at random,
\* so a channel that is ready time after time is chosen in the end; a database
\* that answers lets a handle be prepared in the end.  Nobody is obliged to
\* call Close, or to finish a hook's registration.
FairSpec ==
    /\ Spec
    /\ WF_vars(LoopNext) /\ SF_vars(LeaveLoop)

-----------------------------------------------------------------------------
KeeperTypeOK ==
    /\ reachable \in BOOLEAN /\ ctxDone \in BOOLEAN /\ stopped \in BOOLEAN
    /\ db \in Handles \cup {NoHandle} /\ err \in BOOLEAN
    /\ upFns \subseteq Hooks /\ todo \subseteq Hooks /\ ran \subseteq Hooks
    /\ loop \in {"look", "open", "prepare", "failed", "backoff", "snapshot",
                 "hooks", "pause", "ping", "pinging", "drop", "closeOld", "done"}
    /\ conn \in Handles \cup {NoHandle}
    /\ closer \in [Closers -> {"out", "stopped", "closed"}]
    /\ hooker \in [Hooks -> {"out", "run", "in"}]
    /\ open \subseteq Handles /\ closedTwice \in BOOLEAN

\* At any moment the keeper has one connection at most, and it can still
\* reach it: it is the published handle or the one the loop is preparing or
\* about to close.  A reconnect after a drop, a hook that fails and a Close
\* in the middle leave none behind (connect, drop, Close).
OneConnection ==
    \A h \in open :
        /\ open = {h}
        /\ h = db \/ (h = conn /\ loop \in {"prepare", "closeOld"})

\* drop and Close never both close a handle: each closes what it took from
\* k.db under the lock (drop, Close).
NoDoubleClose == ~closedTwice

\* While a handle is published every registered hook has been run since it
\* was, or is about to be: by the loop, which has yet to take its snapshot or
\* to finish it, or by the caller of OnUp.  "The connect can land in that gap
\* and the hook would otherwise be missed" (OnUp).
NoMissedHook ==
    db # NoHandle =>
        \A f \in upFns :
            \/ f \in ran
            \/ loop = "snapshot" \/ (loop = "hooks" /\ f \in todo)
            \/ hooker[f] = "run"

\* A published handle has no error beside it, and a loop that sleeps between
\* two attempts has said why: what a degraded page shows is never "no error,
\* no database" for the whole of a backoff (setErr, connect, drop).
ErrSaysWhy ==
    /\ db # NoHandle => ~err
    /\ loop = "backoff" => err

\* The keeper's invariant.
KeeperInv ==
    /\ KeeperTypeOK /\ OneConnection /\ NoDoubleClose
    /\ NoMissedHook /\ ErrSaysWhy

\* "Close stops the health loop": it ends, whatever it was doing, and so it
\* does when its context ends.
LoopEnds == (stopped \/ ctxDone) ~> (loop = "done")

\* A database that comes back for good is connected again in the end, unless
\* the keeper is closed or its context ended.
Reconnects ==
    [](<>[]reachable => <>(db # NoHandle \/ stopped \/ ctxDone))

\* What Close's comment says: it "releases the connection".
ClosedHoldsNothing ==
    (\E c \in Closers : closer[c] = "closed") => db = NoHandle
=============================================================================

----------------------------- MODULE Schedules -----------------------------
(***************************************************************************)
(* Scheduled pipelines of apps/agent_manager: the poll loop's pass over    *)
(* the definitions it has listed, the map of next runs it shares with      *)
(* requests that save or delete a definition, runs triggered by hand, and  *)
(* runs that end, if they end, and may be running again after that.  Of a  *)
(* next run only the time that is left is kept; it is due at zero.         *)
(***************************************************************************)
EXTENDS Integers, FiniteSets

CONSTANTS
    Pipelines,
    Longest,        \* bound: the longest interval, and of a pass
    NoEntry,        \* the map has no entry
    MaxEdits,       \* bound: definitions saved or deleted
    MaxManual,      \* bound: runs triggered by hand
    MaxMishaps      \* bound: queries that fail

SchedulesAssumption ==
    /\ Longest \in Nat \ {0} /\ NoEntry \notin Nat
    /\ MaxEdits \in Nat /\ MaxManual \in Nat /\ MaxMishaps \in Nat

VARIABLES
    def,            \* pipeline_definitions; an interval of zero is no schedule
    memory,         \* pipelines in the engine's list
    left,           \* schedules: time left to the next run
    editor,         \* the request being served
    pass,           \* the pass over the definitions
    active,         \* runs with status running: by schedule, by hand, and back
    edits, byHand, mishaps

vars == <<def, memory, left, editor, pass, active, edits, byHand, mishaps>>
bounds == <<edits, byHand, mishaps>>

Definition == [there : BOOLEAN, on : BOOLEAN, every : 0..Longest]
Gone == [there |-> FALSE, on |-> FALSE, every |-> 0]
Quiet == [at |-> "quiet"]
Resting == [at |-> "resting"]

\* The pass took its time when it began.
FromNow(every) == IF every > pass.since THEN every - pass.since ELSE 0

Done(p) == pass' = [pass EXCEPT !.todo = @ \ {p}, !.at = "between"]

-----------------------------------------------------------------------------
PassBegins ==
    /\ pass = Resting
    /\ pass' = [at |-> "between", seen |-> def, since |-> 0,
                todo |-> {p \in Pipelines : def[p].there}, of |-> {}]
    /\ UNCHANGED <<def, memory, left, editor, active, bounds>>


Look(p) ==
    /\ pass.at = "between" /\ p \in pass.todo
    /\ LET scheduled == pass.seen[p].on /\ pass.seen[p].every > 0 IN
       \/ ~scheduled /\ Done(p) /\ UNCHANGED left
       \/ /\ scheduled /\ left[p] = NoEntry
          /\ Done(p) /\ left' = [left EXCEPT ![p] = FromNow(pass.seen[p].every)]
       \/ scheduled /\ left[p] # NoEntry /\ left[p] > 0 /\ Done(p) /\ UNCHANGED left
       \/ /\ scheduled /\ left[p] = 0
          /\ pass' = [pass EXCEPT !.at = "check", !.of = {p}] /\ UNCHANGED left
    /\ UNCHANGED <<def, memory, editor, active, bounds>>

IsActive(p) == active[p].scheduled + active[p].manual + active[p].back > 0

\* An error leaves the entry as it is, for the next pass.
Check(p) ==
    /\ pass.at = "check" /\ p \in pass.of
    /\ \/ /\ pass' = [pass EXCEPT !.at = IF IsActive(p) THEN "reset" ELSE "trigger"]
          /\ UNCHANGED mishaps
       \/ mishaps < MaxMishaps /\ mishaps' = mishaps + 1 /\ Done(p)
    /\ UNCHANGED <<def, memory, left, editor, active, edits, byHand>>

\* TriggerPipeline knows the pipelines in memory only; an error is logged.
Trigger(p) ==
    /\ pass.at = "trigger" /\ p \in pass.of
    /\ pass' = [pass EXCEPT !.at = "reset"]
    /\ active' = IF p \in memory THEN [active EXCEPT ![p].scheduled = @ + 1] ELSE active
    /\ UNCHANGED <<def, memory, left, editor, bounds>>

Reset(p) ==
    /\ pass.at = "reset" /\ p \in pass.of
    /\ left' = [left EXCEPT ![p] = FromNow(pass.seen[p].every)]
    /\ Done(p)
    /\ UNCHANGED <<def, memory, editor, active, bounds>>

\* Entries of definitions that were not listed go.
Clean ==
    /\ pass.at = "between" /\ pass.todo = {}
    /\ left' = [p \in Pipelines |-> IF pass.seen[p].there THEN left[p] ELSE NoEntry]
    /\ pass' = Resting
    /\ UNCHANGED <<def, memory, editor, active, bounds>>

-----------------------------------------------------------------------------
\* UpsertPipelineDefinition: the row, then the entry, then memory.
SaveRow(p) ==
    /\ editor = Quiet /\ edits < MaxEdits /\ edits' = edits + 1
    /\ \E on \in BOOLEAN, every \in 0..Longest :
         def' = [def EXCEPT ![p] = [there |-> TRUE, on |-> on, every |-> every]]
    /\ editor' = [at |-> "saved", of |-> p]
    /\ UNCHANGED <<memory, left, pass, active, byHand, mishaps>>

ForgetEntry(p) ==
    /\ editor = [at |-> "saved", of |-> p]
    /\ left' = [left EXCEPT ![p] = NoEntry]
    /\ editor' = [at |-> "memory", of |-> p]
    /\ UNCHANGED <<def, memory, pass, active, bounds>>

DeleteRow(p) ==
    /\ editor = Quiet /\ def[p].there /\ edits < MaxEdits /\ edits' = edits + 1
    /\ def' = [def EXCEPT ![p] = Gone]
    /\ editor' = [at |-> "memory", of |-> p]
    /\ UNCHANGED <<memory, left, pass, active, byHand, mishaps>>

Remember(p) ==
    /\ editor = [at |-> "memory", of |-> p]
    /\ memory' = IF def[p].on THEN memory \cup {p} ELSE memory \ {p}
    /\ editor' = Quiet
    /\ UNCHANGED <<def, left, pass, active, bounds>>

TriggerByHand(p) ==
    /\ p \in memory /\ byHand < MaxManual /\ byHand' = byHand + 1
    /\ active' = [active EXCEPT ![p].manual = @ + 1]
    /\ UNCHANGED <<def, memory, left, editor, pass, edits, mishaps>>

\* A verdict or a failure ends a run; a branch may then be late, and hold the
\* run's row as it read it, running.  Bound: one for each pipeline.
RunEnds(p) ==
    /\ \E late \in {active[p].late, TRUE} :
         \/ /\ active[p].scheduled > 0
            /\ active' = [active EXCEPT ![p].scheduled = @ - 1, ![p].late = late]
         \/ /\ active[p].manual > 0
            /\ active' = [active EXCEPT ![p].manual = @ - 1, ![p].late = late]
         \/ /\ active[p].back > 0
            /\ active' = [active EXCEPT ![p].back = @ - 1, ![p].late = late]
    /\ UNCHANGED <<def, memory, left, editor, pass, bounds>>

\* triggerNextSteps of the late branch writes the row back.
RunComesBack(p) ==
    /\ active[p].late
    /\ active' = [active EXCEPT ![p].back = @ + 1, ![p].late = FALSE]
    /\ UNCHANGED <<def, memory, left, editor, pass, bounds>>

\* One unit; a pass is not longer than the longest interval.
TimePasses ==
    /\ pass # Resting => pass.since < Longest
    /\ \/ pass # Resting
       \/ \E p \in Pipelines : left[p] # NoEntry /\ left[p] > 0
    /\ left' = [p \in Pipelines |->
                  IF left[p] # NoEntry /\ left[p] > 0 THEN left[p] - 1 ELSE left[p]]
    /\ pass' = IF pass = Resting THEN pass ELSE [pass EXCEPT !.since = @ + 1]
    /\ UNCHANGED <<def, memory, editor, active, bounds>>

-----------------------------------------------------------------------------
Init ==
    /\ def \in [Pipelines -> {Gone} \cup {[there |-> TRUE, on |-> TRUE, every |-> e] : e \in 0..Longest}]
    /\ memory = {p \in Pipelines : def[p].on}
    /\ left = [p \in Pipelines |-> NoEntry]
    /\ editor = Quiet /\ pass = Resting
    /\ active = [p \in Pipelines |-> [scheduled |-> 0, manual |-> 0, back |-> 0, late |-> FALSE]]
    /\ edits = 0 /\ byHand = 0 /\ mishaps = 0

Passes ==
    \/ PassBegins \/ Clean
    \/ \E p \in Pipelines : Look(p) \/ Check(p) \/ Trigger(p) \/ Reset(p)

Edits ==
    \E p \in Pipelines : SaveRow(p) \/ ForgetEntry(p) \/ DeleteRow(p) \/ Remember(p)

Next ==
    \/ Passes \/ Edits \/ TimePasses
    \/ \E p \in Pipelines : TriggerByHand(p) \/ RunEnds(p) \/ RunComesBack(p)

Spec == Init /\ [][Next]_vars

\* The ticker ticks, a pass and a request go on, time passes.  A run need not
\* end: it may wait for an agent.
FairSpec ==
    /\ Spec /\ WF_vars(Passes) /\ WF_vars(TimePasses)
    /\ \A p \in Pipelines : WF_vars(ForgetEntry(p)) /\ WF_vars(Remember(p))

-----------------------------------------------------------------------------
SchedulesTypeOK ==
    /\ def \in [Pipelines -> Definition]
    /\ memory \subseteq Pipelines
    /\ left \in [Pipelines -> 0..Longest \cup {NoEntry}]
    /\ editor \in {Quiet} \cup [at : {"saved", "memory"}, of : Pipelines]
    /\ \/ pass = Resting
       \/ pass \in [at : {"between", "check", "trigger", "reset"}, seen : [Pipelines -> Definition],
                    since : 0..Longest, todo : SUBSET Pipelines, of : SUBSET Pipelines]
    /\ active \in [Pipelines -> [scheduled : Nat, manual : 0..MaxManual, back : Nat, late : BOOLEAN]]
    /\ edits \in 0..MaxEdits /\ byHand \in 0..MaxManual /\ mishaps \in 0..MaxMishaps

\* A schedule does not pile up runs, however long one takes: of the scheduled
\* runs one at most has not ended yet.  One that has ended may be back beside it.
OneScheduledRun == \A p \in Pipelines : active[p].scheduled <= 1

\* A schedule that stands is triggered again and again, unless a run of it
\* stays active: entries that are forgotten, failed queries, runs by hand and
\* runs that come back only put it off.
Stands(p) == def[p].on /\ def[p].every > 0 /\ p \in memory
IsServed(p) == Stands(p) /\ ~IsActive(p) => pass.at = "trigger" /\ p \in pass.of
Recurs == \A p \in Pipelines : []<>IsServed(p)

\* The entry of a deleted definition goes.
DeletedIsForgotten == \A p \in Pipelines : []<>(def[p].there \/ left[p] = NoEntry)

-----------------------------------------------------------------------------
\* "skipping any that already have an active run" (processSchedules): without
\* runs by hand a pipeline has one run with status running.
NoSecondRun == \A p \in Pipelines : byHand = 0 => active[p].scheduled + active[p].back <= 1

\* "Clean up map entries for deleted/disabled pipelines." (pipelines.go)
DisabledIsForgotten == \A p \in Pipelines : []<>(def[p].on \/ left[p] = NoEntry)

\* "Reset schedule entry so the next interval starts fresh." (pipelines_store.go)
EntryFits ==
    \A p \in Pipelines :
        editor = Quiet /\ def[p].on /\ def[p].every > 0 /\ left[p] # NoEntry =>
            left[p] <= def[p].every
=============================================================================

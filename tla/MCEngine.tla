------------------------------ MODULE MCEngine ------------------------------
(***************************************************************************)
(* For TLC: three parts of the pipeline engine - its admission and         *)
(* shutdown, its schedules, and the runs it advances - checked in one run. *)
(* A behaviour is of one of them and the others stay as they began.        *)
(***************************************************************************)
EXTENDS EngineLifecycle, Pipelines

CONSTANTS
    Pipelines, Longest, NoEntry, MaxEdits, MaxManual, MaxMishaps

VARIABLES
    def, memory, left, editor, pass, active, edits, byHand, mishaps,
    part        \* whose behaviour this is

S == INSTANCE Schedules

ASSUME EnginePartsAssumption == S!SchedulesAssumption /\ PlansAssumption

scheduleVars == <<def, memory, left, editor, pass, active, edits, byHand, mishaps>>
allVars == <<vars, scheduleVars, runVars, part>>

Step(runner) == [runner |-> runner, fan |-> FALSE]
Fan(runner) == [runner |-> runner, fan |-> TRUE]
EndPlans == {<<Step("agent"), Step("builtin")>>, <<Step("builtin"), Fan("agent")>>, <<Fan("builtin")>>,
             <<Step("cli"), Step("builtin")>>, <<Fan("cli")>>}

EngineInit ==
    /\ part \in {"lifecycle", "schedules", "runs"} /\ Init
    /\ S!Init /\ (part = "schedules" \/ def = [p \in Pipelines |-> S!Gone])
    /\ RunsInit /\ (part = "runs" \/ plan = <<Fan("cli")>>)

LifecyclePart == part = "lifecycle" /\ Next /\ UNCHANGED <<scheduleVars, runVars, part>>
SchedulesPart == part = "schedules" /\ S!Next /\ UNCHANGED <<vars, runVars, part>>
RunsPart == part = "runs" /\ RunsNext /\ UNCHANGED <<vars, scheduleVars, part>>

\* The fairness of each part, where it is its behaviour.
EngineSpec ==
    /\ EngineInit /\ [][LifecyclePart \/ SchedulesPart \/ RunsPart]_allVars
    /\ \A t \in Triggers :
         /\ WF_vars(part = "lifecycle" /\ CreateRun(t))
         /\ WF_vars(part = "lifecycle" /\ cancelled /\ StepEnds(t))
    /\ \A s \in Closers : WF_vars(part = "lifecycle" /\ SpawnDrainer(s))
    /\ WF_vars(part = "lifecycle" /\ Drains)
    /\ \A w \in Waiters : WF_vars(part = "lifecycle" /\ WaitEnds(w))
    /\ WF_scheduleVars(part = "schedules" /\ S!Passes)
    /\ WF_scheduleVars(part = "schedules" /\ S!TimePasses)
    /\ \A p \in Pipelines :
         /\ WF_scheduleVars(part = "schedules" /\ S!ForgetEntry(p))
         /\ WF_scheduleVars(part = "schedules" /\ S!Remember(p))
    /\ WF_runVars(part = "runs" /\ PollBegins)
    /\ WF_runVars(part = "runs" /\ Goes(Poll))
    /\ WF_runVars(part = "runs" /\ \E w \in Hooks \cup Slots : Goes(w))

-----------------------------------------------------------------------------
\* Of a pipeline's scheduled runs one has not ended yet.  In a run steps keep the order
\* of the definition, a completed one has a branch that succeeded to the end,
\* a running program has its goroutine, and what a restart failed stays so.
RunsInv ==
    /\ S!SchedulesTypeOK /\ S!OneScheduledRun
    /\ PipelinesTypeOK /\ StepsInOrder /\ CompletedHasFinal
    /\ RunningIsActive /\ SweptStay
=============================================================================

----------------------------- MODULE Pipelines -----------------------------
(***************************************************************************)
(* The pipeline engine of apps/agent_manager: runs of step runs, advanced  *)
(* by whoever sees that a job has ended - the poll loop, the goroutine of  *)
(* the broker call that completed the job, and the goroutine that executes *)
(* a step in this process - without a lock between them.                   *)
(*                                                                         *)
(* The engine's functions call one another: a goroutine is the sequence of *)
(* the calls it has still to make, each a read or a write of some row.  A  *)
(* call carries what was read before it in "arg", stale by then perhaps.   *)
(*                                                                         *)
(* Jobs of agents are claimed, given back and completed as A2AQueue says:  *)
(* here only their status counts.  A result whose payload says that it     *)
(* failed (effectiveCompletionStatus) is the outcome "failed".             *)
(***************************************************************************)
EXTENDS Integers, Sequences, FiniteSets

CONSTANTS
    Plans,          \* pipeline definitions: sequences of [runner, fan]
    Runs,           \* ids for pipeline runs
    MaxSlots,       \* bound: step runs, with their jobs, ever made
    MinItems,       \* bounds: how many items the array of a fan-out has
    MaxItems,
    MaxRestarts,    \* bound: restarts of the manager
    Hooks,          \* goroutines of the broker that complete jobs or trigger
    Poll            \* the engine's own loop

Slots == 1..MaxSlots
Workers == Hooks \cup {Poll}

PlansAssumption ==
    /\ \A p \in Plans : p # <<>> /\ p \in Seq([runner : {"agent", "builtin", "cli"}, fan : BOOLEAN])
    /\ {MaxSlots, MinItems, MaxItems, MaxRestarts} \subseteq Nat
    /\ Runs # {} /\ Poll \notin Hooks /\ Workers \cap Slots = {}

VARIABLES
    plan,           \* the pipeline's definition
    run,            \* pipeline_runs: the status of each run
    step,           \* pipeline_step_runs
    job,            \* manager_a2a_jobs: the status of each step run's job
    todo,           \* the calls each goroutine has still to make
    swept,          \* history: the runs a restart found running
    restarts

runVars == <<plan, run, step, job, todo, swept, restarts>>

NoStep == [of |-> CHOOSE r \in Runs : TRUE, at |-> 0, from |-> 0, status |-> "absent"]
Active == {"running", "pending", "queued"}
Ended == {"succeeded", "failed"}
StepsOf(r) == {s \in Slots : step[s].status # "absent" /\ step[s].of = r}
Running == {s \in Slots : step[s].status = "running"}

\* Rows are made in the order of their numbers.
Taken == Cardinality({s \in Slots : step[s].status # "absent" \/ job[s] # "absent"})
Room(n) == Taken + n <= MaxSlots

Items(k) == IF plan[k].fan THEN MinItems..MaxItems ELSE {1}

-----------------------------------------------------------------------------
(***************************************************************************)
(* Goroutines.  The branches of a fan-out that run at once in this process *)
(* have one each, named by the branch's step run.                          *)
(***************************************************************************)
Call(do, r, k, s, arg) == [do |-> do, run |-> r, at |-> k, slot |-> s, arg |-> arg]
About(do, s, arg) == Call(do, step[s].of, step[s].at, s, arg)

Idle(w) == todo[w] = <<>>
Now(w) == Head(todo[w])
Calls(w, name) == ~Idle(w) /\ Now(w).do = name
Then(w, calls) == todo' = [todo EXCEPT ![w] = calls \o Tail(@)]
SetStep(s, status) == step' = [step EXCEPT ![s].status = status]

FailRun(r) == <<Call("fail", r, 0, 0, "none")>>
Resolve(r) == <<Call("list", r, 0, 0, "none")>>

-----------------------------------------------------------------------------
(***************************************************************************)
(* A job has ended.                                                        *)
(***************************************************************************)
\* processCompletions lists the running step runs and looks at one after
\* another, as they were when they were listed.
PollBegins ==
    /\ Idle(Poll) /\ Running # {}
    /\ \E ss \in [1..Cardinality(Running) -> Running] :
         /\ \A i, j \in DOMAIN ss : i < j => ss[i] < ss[j]
         /\ todo' = [todo EXCEPT ![Poll] = [i \in DOMAIN ss |-> About("check", ss[i], "none")]]
    /\ UNCHANGED <<plan, run, step, job, swept, restarts>>

\* CompleteJob by the agent; its broker call goes on with RecordCompletion.
Complete(w, s, outcome) ==
    /\ Idle(w) /\ job[s] = "claimed"
    /\ job' = [job EXCEPT ![s] = outcome]
    /\ todo' = [todo EXCEPT ![w] = <<Call("lookup", NoStep.of, 0, s, "none")>>]
    /\ UNCHANGED <<plan, run, step, swept, restarts>>

\* checkCompletedJobAgainstStepRuns: the running step run of the job.
Lookup(w) ==
    /\ Calls(w, "lookup")
    /\ Then(w, IF Now(w).slot \in Running THEN <<About("check", Now(w).slot, "none")>> ELSE <<>>)
    /\ UNCHANGED <<plan, run, step, job, swept, restarts>>

\* checkStepRunCompletion reads the job.  A queued one is delivered again,
\* which A2AQueue models; a running one is let be, see RunningIsActive.
Check(w) ==
    /\ Calls(w, "check")
    /\ LET s == Now(w).slot
       IN  Then(w, CASE job[s] = "absent" -> <<[Now(w) EXCEPT !.do = "miss"]>>
                     [] job[s] \in Ended -> <<[Now(w) EXCEPT !.do = "record", !.arg = job[s]]>>
                     [] OTHER -> <<>>)
    /\ UNCHANGED <<plan, run, step, job, swept, restarts>>

JobMissing(w) ==
    /\ Calls(w, "miss")
    /\ SetStep(Now(w).slot, "failed") /\ Then(w, FailRun(Now(w).run))
    /\ UNCHANGED <<plan, run, job, swept, restarts>>

\* Fault: a failed branch goes on to the next step.
RecordAndGoOn(w) ==
    /\ Calls(w, "record")
    /\ SetStep(Now(w).slot, Now(w).arg)
    /\ Then(w, <<[Now(w) EXCEPT !.do = "advance"]>>)
    /\ UNCHANGED <<plan, run, job, swept, restarts>>

\* The step run takes the job's status.  dispatchFanOutJobs fails the run if
\* no agent has the capability any more, and the branch goes on all the same.
Record(w) ==
    /\ Calls(w, "record")
    /\ SetStep(Now(w).slot, Now(w).arg)
    /\ \E lost \in IF plan[Now(w).at].runner = "agent" THEN BOOLEAN ELSE {FALSE} :
         Then(w, (IF lost THEN FailRun(Now(w).run) ELSE <<>>)
                 \o (IF Now(w).arg = "succeeded" THEN <<[Now(w) EXCEPT !.do = "advance"]>>
                                                 ELSE Resolve(Now(w).run)))
    /\ UNCHANGED <<plan, run, job, swept, restarts>>

-----------------------------------------------------------------------------
(***************************************************************************)
(* The next step.                                                          *)
(***************************************************************************)
\* triggerNextSteps reads the run, which it will write back as it was.
Advance(w) ==
    /\ Calls(w, "advance")
    /\ LET r == Now(w).run
       IN  Then(w, IF Now(w).at = Len(plan) THEN Resolve(r)
                   ELSE <<[Now(w) EXCEPT !.do = "progress", !.arg = run[r]],
                          [Now(w) EXCEPT !.do = "execute", !.at = @ + 1]>>)
    /\ UNCHANGED <<plan, run, step, job, swept, restarts>>

Progress(w) ==
    /\ Calls(w, "progress")
    /\ run' = [run EXCEPT ![Now(w).run] = Now(w).arg] /\ Then(w, <<>>)
    /\ UNCHANGED <<plan, step, job, swept, restarts>>

Executes(w, runner) ==
    /\ Calls(w, "execute")
    /\ plan[Now(w).at].runner = runner

\* No agent has the capability, or the array to fan out over is not there.
CannotExecute(w) ==
    /\ Calls(w, "execute")
    /\ plan[Now(w).at].runner = "agent" \/ plan[Now(w).at].fan
    /\ Then(w, FailRun(Now(w).run))
    /\ UNCHANGED <<plan, run, step, job, swept, restarts>>

\* A job for each item, then the step run that belongs to it.
ExecuteAgent(w) ==
    /\ Executes(w, "agent")
    /\ \E n \in Items(Now(w).at) :
         Room(n) /\ Then(w, [i \in 1..n |-> [Now(w) EXCEPT !.do = "submit"]])
    /\ UNCHANGED <<plan, run, step, job, swept, restarts>>

Submit(w) ==
    /\ Calls(w, "submit") /\ Room(1)
    /\ job' = [job EXCEPT ![Taken + 1] = "queued"]
    /\ Then(w, <<[Now(w) EXCEPT !.do = "create", !.slot = Taken + 1, !.arg = Now(w).slot]>>)
    /\ UNCHANGED <<plan, run, step, swept, restarts>>

Row(c, from, status) == [of |-> c.run, at |-> c.at, from |-> from, status |-> status]

Create(w) ==
    /\ Calls(w, "create")
    /\ step' = [step EXCEPT ![Now(w).slot] = Row(Now(w), Now(w).arg, "running")]
    /\ Then(w, <<>>)
    /\ UNCHANGED <<plan, run, job, swept, restarts>>

\* The step runs of all branches are made before the first begins.
New(n) == (Taken + 1)..(Taken + n)
Precreate(w, n, status) ==
    /\ Room(n)
    /\ step' = [s \in Slots |-> IF s \in New(n) THEN Row(Now(w), Now(w).slot, status) ELSE step[s]]

\* A builtin method runs in the goroutine that calls it: a step run is made
\* when it has ended, or the branches' are made and done one by one.
ExecuteBuiltin(w) ==
    /\ Executes(w, "builtin") /\ ~plan[Now(w).at].fan
    /\ Then(w, <<[Now(w) EXCEPT !.do = "method", !.arg = "new"]>>)
    /\ UNCHANGED <<plan, run, step, job, swept, restarts>>

ExecuteBuiltinFan(w) ==
    /\ Executes(w, "builtin") /\ plan[Now(w).at].fan
    /\ \E n \in Items(Now(w).at) :
         /\ Precreate(w, n, "queued")
         /\ Then(w, [i \in 1..n |-> [Now(w) EXCEPT !.do = "begin", !.slot = Taken + i]]
                    \o Resolve(Now(w).run))
    /\ UNCHANGED <<plan, run, job, swept, restarts>>

BranchBegins(w) ==
    /\ Calls(w, "begin")
    /\ SetStep(Now(w).slot, "running")
    /\ Then(w, <<[Now(w) EXCEPT !.do = "method", !.arg = "made"]>>)
    /\ UNCHANGED <<plan, run, job, swept, restarts>>

MethodEnds(w, outcome) ==
    /\ Calls(w, "method")
    /\ LET new == Now(w).arg = "new"
           s == IF new THEN Taken + 1 ELSE Now(w).slot
       IN  /\ IF new THEN Room(1) /\ step' = [step EXCEPT ![s] = Row(Now(w), Now(w).slot, outcome)]
                     ELSE SetStep(s, outcome)
           /\ Then(w, IF outcome = "succeeded"
                      THEN <<[Now(w) EXCEPT !.do = "advance", !.slot = s]>>
                      ELSE IF new THEN FailRun(Now(w).run) ELSE <<>>)
    /\ UNCHANGED <<plan, run, job, swept, restarts>>

\* A command line program: its job is a row of this process, written after
\* the step run's.
Program(c, s) == <<[c EXCEPT !.do = "jobrow", !.slot = s], [c EXCEPT !.do = "invoke", !.slot = s]>>

ExecuteProgram(w) ==
    /\ Executes(w, "cli") /\ ~plan[Now(w).at].fan
    /\ Precreate(w, 1, "running")
    /\ Then(w, Program(Now(w), Taken + 1))
    /\ UNCHANGED <<plan, run, job, swept, restarts>>

ExecuteProgramFan(w) ==
    /\ Executes(w, "cli") /\ plan[Now(w).at].fan
    /\ \E n \in Items(Now(w).at) :
         /\ Precreate(w, n, "queued")
         /\ todo' = [v \in DOMAIN todo |->
                       CASE v = w -> <<[Now(w) EXCEPT !.do = "join", !.arg = New(n)]>>
                                     \o Resolve(Now(w).run) \o Tail(todo[w])
                         [] v \in New(n) -> <<[Now(w) EXCEPT !.do = "activate", !.slot = v]>>
                         [] OTHER -> todo[v]]
    /\ UNCHANGED <<plan, run, job, swept, restarts>>

Activate(w) ==
    /\ Calls(w, "activate")
    /\ SetStep(Now(w).slot, "running") /\ Then(w, Program(Now(w), Now(w).slot))
    /\ UNCHANGED <<plan, run, job, swept, restarts>>

WriteJobRow(w) ==
    /\ Calls(w, "jobrow")
    /\ job' = [job EXCEPT ![Now(w).slot] = "running"] /\ Then(w, <<>>)
    /\ UNCHANGED <<plan, run, step, swept, restarts>>

ProgramEnds(w, outcome) ==
    /\ Calls(w, "invoke")
    /\ job' = [job EXCEPT ![Now(w).slot] = outcome]
    /\ Then(w, <<[Now(w) EXCEPT !.do = "finish", !.arg = outcome]>>)
    /\ UNCHANGED <<plan, run, step, swept, restarts>>

Finish(w) ==
    /\ Calls(w, "finish")
    /\ SetStep(Now(w).slot, Now(w).arg)
    /\ Then(w, IF Now(w).arg = "succeeded" THEN <<[Now(w) EXCEPT !.do = "advance"]>>
               ELSE IF plan[Now(w).at].fan THEN <<>> ELSE FailRun(Now(w).run))
    /\ UNCHANGED <<plan, run, job, swept, restarts>>

Join(w) ==
    /\ Calls(w, "join") /\ \A s \in Now(w).arg : Idle(s)
    /\ Then(w, <<>>)
    /\ UNCHANGED <<plan, run, step, job, swept, restarts>>

-----------------------------------------------------------------------------
(***************************************************************************)
(* The run's end.                                                          *)
(***************************************************************************)
FinalSucceeded(r) == \E s \in StepsOf(r) : step[s].at = Len(plan) /\ step[s].status = "succeeded"

\* resolveRunStatus lists the step runs, and writes the run later.
List(w) ==
    /\ Calls(w, "list")
    /\ LET r == Now(w).run
       IN  Then(w, IF \E s \in StepsOf(r) : step[s].status \in Active THEN <<>>
                   ELSE <<[Now(w) EXCEPT !.do = "verdict",
                             !.arg = IF FinalSucceeded(r) THEN "completed" ELSE "failed"]>>)
    /\ UNCHANGED <<plan, run, step, job, swept, restarts>>

Verdict(w) ==
    /\ Calls(w, "verdict")
    /\ run' = [run EXCEPT ![Now(w).run] = Now(w).arg] /\ Then(w, <<>>)
    /\ UNCHANGED <<plan, step, job, swept, restarts>>

\* failPipelineRun, whatever the other branches do.
RunFails(w) ==
    /\ Calls(w, "fail")
    /\ run' = [run EXCEPT ![Now(w).run] = "failed"] /\ Then(w, <<>>)
    /\ UNCHANGED <<plan, step, job, swept, restarts>>

-----------------------------------------------------------------------------
(***************************************************************************)
(* Triggers, agents, the user and restarts.                                *)
(***************************************************************************)
\* TriggerPipeline, or startPipelineFromJob in the goroutine of a hook.
Trigger(w, r) ==
    /\ w \in Hooks /\ Idle(w) /\ run[r] = "absent"
    /\ run' = [run EXCEPT ![r] = "running"]
    /\ todo' = [todo EXCEPT ![w] = <<Call("execute", r, 1, 0, "none")>>]
    /\ UNCHANGED <<plan, step, job, swept, restarts>>

SetJob(s, old, new) ==
    /\ job[s] \in old
    /\ job' = [job EXCEPT ![s] = new]
    /\ UNCHANGED <<plan, run, step, todo, swept, restarts>>

Claim(s) == SetJob(s, {"queued"}, "claimed")
GiveBack(s) == SetJob(s, {"claimed"}, "queued")
\* cancelPipelineJobByID does not stop a program that runs.
Cancel(s) == SetJob(s, {"queued", "claimed", "running"}, "failed")

\* The manager stops anywhere; CleanupStaleRuns, before anything else runs,
\* fails running step runs with their jobs, running jobs, and running runs.
Restart ==
    /\ restarts < MaxRestarts
    /\ step' = [s \in Slots |-> IF s \in Running THEN [step[s] EXCEPT !.status = "failed"] ELSE step[s]]
    /\ job' = [s \in Slots |-> IF job[s] = "running" \/ (s \in Running /\ job[s] # "absent")
                               THEN "failed" ELSE job[s]]
    /\ run' = [r \in Runs |-> IF run[r] = "running" THEN "failed" ELSE run[r]]
    /\ swept' = swept \cup {r \in Runs : run[r] = "running"}
    /\ todo' = [w \in DOMAIN todo |-> <<>>] /\ restarts' = restarts + 1
    /\ UNCHANGED plan

-----------------------------------------------------------------------------
RunsInit ==
    /\ plan \in Plans
    /\ run = [r \in Runs |-> "absent"]
    /\ step = [s \in Slots |-> NoStep] /\ job = [s \in Slots |-> "absent"]
    /\ todo = [w \in Workers \cup Slots |-> <<>>]
    /\ swept = {} /\ restarts = 0

\* What a goroutine does next.
Goes(w) ==
    \/ Lookup(w) \/ Check(w) \/ JobMissing(w) \/ Record(w)
    \/ Advance(w) \/ Progress(w) \/ CannotExecute(w)
    \/ ExecuteAgent(w) \/ Submit(w) \/ Create(w)
    \/ ExecuteBuiltin(w) \/ ExecuteBuiltinFan(w) \/ BranchBegins(w)
    \/ ExecuteProgram(w) \/ ExecuteProgramFan(w) \/ Activate(w)
    \/ WriteJobRow(w) \/ Finish(w) \/ Join(w)
    \/ List(w) \/ Verdict(w) \/ RunFails(w)
    \/ \E outcome \in Ended : MethodEnds(w, outcome) \/ ProgramEnds(w, outcome)

RunsNext ==
    \/ PollBegins
    \/ \E w \in Workers \cup Slots : Goes(w)
    \/ \E w \in Hooks, r \in Runs : Trigger(w, r)
    \/ \E w \in Hooks, s \in Slots, outcome \in Ended : Complete(w, s, outcome)
    \/ \E s \in Slots : Claim(s) \/ GiveBack(s) \/ Cancel(s)
    \/ Restart

RunsSpec == RunsInit /\ [][RunsNext]_runVars

\* Goroutines run, methods and programs have timeouts, the loop ticks; agents
\* and users owe nothing.
RunsFairSpec ==
    /\ RunsSpec /\ WF_runVars(PollBegins)
    /\ WF_runVars(Goes(Poll)) /\ WF_runVars(\E w \in Hooks \cup Slots : Goes(w))

-----------------------------------------------------------------------------
PipelinesTypeOK ==
    /\ plan \in Plans
    /\ run \in [Runs -> {"absent", "running", "completed", "failed"}]
    /\ \A s \in Slots :
         /\ step[s].of \in Runs /\ step[s].at \in 0..Len(plan) /\ step[s].from \in 0..MaxSlots
         /\ step[s].status \in {"absent", "queued", "running"} \cup Ended
         /\ job[s] \in {"absent", "queued", "claimed", "running"} \cup Ended
    /\ \A w \in Workers \cup Slots : \A i \in DOMAIN todo[w] : todo[w][i].run \in Runs
    /\ swept \subseteq Runs /\ restarts \in 0..MaxRestarts

\* No step run of this step runs in this process without its job's row: the
\* poll loop may take that row for missing, and write the step run off after
\* it has succeeded.
RowAtOnce(k) == plan[k].runner = "agent" \/ (plan[k].runner = "builtin" /\ ~plan[k].fan)
RowsAtOnce == \A k \in DOMAIN plan : RowAtOnce(k)

\* Whoever advances a branch, and however late: a step run past the first
\* comes from one of the step before it in its run, and that one succeeded,
\* if it cannot have been written off since.
StepsInOrder ==
    \A s \in Slots : step[s].at > 1 =>
        LET f == step[s].from
        IN  /\ f # 0 /\ step[f].of = step[s].of /\ step[f].at = step[s].at - 1
            /\ RowAtOnce(step[f].at) => step[f].status = "succeeded"

\* A run is completed by a branch that succeeded to the end, whichever of
\* several verdicts, some read long before, is written last.
CompletedHasFinal ==
    RowsAtOnce => \A r \in Runs : run[r] = "completed" => FinalSucceeded(r)

\* "their step runs are now all terminal so the run can never advance"
\* (CleanupStaleRuns): a run that a restart has failed stays failed, though
\* agents go on with jobs that were queued without a step run.
SweptStay == \A r \in swept : run[r] = "failed"

\* A job "running" has the goroutine of its program: none is left over for
\* failOrphanedClaudeCodeStepRun to find.
RunningIsActive ==
    \A s \in Slots : job[s] = "running" =>
        \E w \in Workers \cup Slots : \E i \in DOMAIN todo[w] :
            todo[w][i].do = "invoke" /\ todo[w][i].slot = s

\* A run always ends or waits for an agent: no order of the goroutines leaves
\* it running with nothing to come.
Waits(r) == \E s \in StepsOf(r) : step[s].status = "running" /\ job[s] \in {"queued", "claimed"}
AtRest(r) == run[r] # "running" \/ Waits(r)
RunsEndOrWait == \A r \in Runs : []<>AtRest(r)

-----------------------------------------------------------------------------
(***************************************************************************)
(* What comments and tests say, and the code does not do.                  *)
(***************************************************************************)
\* "expected one downstream step for successful branch".
OneDownstreamStep ==
    \A s, t \in Slots : step[s].from # 0 /\ step[s].from = step[t].from => s = t

\* "their step runs are now all terminal" (CleanupStaleRuns).
CleanedIsTerminal == [][Restart => \A s \in Slots : step'[s].status \notin Active]_runVars

\* "If any step runs are still active, the run stays running."
CompletedIsOver == \A r \in Runs : run[r] = "completed" =>
                     \A s \in StepsOf(r) : step[s].status \notin Active

\* "Fan-out branches must not fail the entire pipeline run on individual
\* failure": it does not fail while a branch is still active.
FailsWhenOver ==
    [][\A r \in Runs : run[r] = "running" /\ run'[r] = "failed" /\ restarts' = restarts =>
         \A s \in StepsOf(r) : step[s].status \notin Active]_runVars

\* "cancelled" is what a cancellation of an open job answers: it stays so.
CancelledStays ==
    [][\A s \in Slots : job[s] = "failed" => job'[s] = "failed"]_runVars
=============================================================================

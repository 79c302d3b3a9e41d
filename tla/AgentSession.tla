---------------------------- MODULE AgentSession ----------------------------
(***************************************************************************)
(* The interactive session of the agent process (apps/agent): one loop     *)
(* that waits for a line of its manager or for the heartbeat timer, runs   *)
(* the agent on it, and meanwhile listens for lines that interrupt the run *)
(* or have to wait for its end.                                            *)
(*                                                                         *)
(* Lines are read on goroutines that put them on a channel of one place.   *)
(* A line is its number and what it asks for; the run itself is AgentLoop, *)
(* here only begun, ended and cancelled.  A conversation is the set of the *)
(* lines in it: what the agent says and compaction do not count here.      *)
(***************************************************************************)
EXTENDS Integers, Sequences, FiniteSets, Functions

CONSTANTS
    Scripts,        \* what is sent: sequences of what lines ask for
    MaxLines,       \* bound: lines of a script
    MaxTasks        \* bound: tasks waiting at one time

\* "job" is the heartbeat of a claimed method job and "fresh" that of one with
\* a fresh context, "note" any other heartbeat; "status" stands for everything
\* that a run does not stop for (a blank line, an interrupt, a status request,
\* the smart command), and "slash" is a command without a name.
Beats == {"job", "fresh", "note"}
Commands == {"clear", "stoptasks"}
AllKinds == Beats \cup Commands \cup
            {"prompt", "status", "slash", "restart", "worktasks", "exit", "eof"}

SessionAssumption ==
    /\ Scripts \subseteq Seq(AllKinds) /\ \A s \in Scripts : Len(s) <= MaxLines
    /\ {MaxLines, MaxTasks} \subseteq Nat

VARIABLES
    lines,          \* what is sent, line by line
    read,           \* how many of the lines have been read
    outstanding,    \* the reader's flag: a Readline is
    reading,        \* how many are
    held,           \* lines whose goroutine has still to put them on the channel
    inputCh,
    pc,             \* where the session's loop is
    workMode,       \* workTasksMode
    tasks,          \* workable tasks
    deferred,       \* deferredHeartbeats
    frame,          \* what the run is for
    live,           \* goroutines of agent runs
    spoken,         \* the line that interrupts the run, while it drains
    history,
    talk,           \* the conversation of the run
    handled,        \* history: lines dealt with, or given to a run
    told            \* history: reports of each job that reached the broker, or not

sessionVars == <<lines, read, outstanding, reading, held, inputCh, pc, workMode, tasks,
                 deferred, frame, live, spoken, history, talk, handled, told>>
readerVars == <<lines, read, held>>

Lines == DOMAIN lines
NoLine == 0
Asks(l) == lines[l]
NoFrame == [for |-> "none", line |-> NoLine]

SessionInit ==
    /\ lines \in Scripts /\ read = 0 /\ held = {} /\ inputCh = <<>>
    /\ outstanding = TRUE /\ reading = 1
    /\ pc = "top" /\ workMode = FALSE /\ tasks \in 0..MaxTasks /\ deferred = <<>>
    /\ frame = NoFrame /\ live = 0 /\ spoken = NoLine
    /\ history = {} /\ talk = {} /\ handled = {} /\ told = [l \in 1..MaxLines |-> {}]

-----------------------------------------------------------------------------
(***************************************************************************)
(* The reader.                                                             *)
(***************************************************************************)
Start == outstanding' = TRUE /\ reading' = IF outstanding THEN reading ELSE reading + 1

\* Readline returns: the next one may begin before this line is on the channel.
ReadReturns ==
    /\ reading > 0 /\ pc # "over" /\ read < Len(lines)
    /\ read' = read + 1 /\ held' = held \cup {read'}
    /\ outstanding' = FALSE /\ reading' = reading - 1
    /\ UNCHANGED <<lines, inputCh, pc, workMode, tasks, deferred, frame, live, spoken, history,
                   talk, handled, told>>

Delivers(l) ==
    /\ l \in held /\ inputCh = <<>> /\ pc # "over"
    /\ inputCh' = <<l>> /\ held' = held \ {l}
    /\ UNCHANGED <<lines, read, outstanding, reading, pc, workMode, tasks, deferred, frame,
                   live, spoken, history, talk, handled, told>>

-----------------------------------------------------------------------------
(***************************************************************************)
(* The loop, between runs: heartbeats that had to wait come first, then    *)
(* the tasks, then lines and the timer.                                    *)
(***************************************************************************)
\* Begins a run for what, on a line or none, in a conversation.
Runs(what, l, conversation) ==
    /\ pc' = "run" /\ live' = live + 1
    /\ frame' = [for |-> what, line |-> l] /\ talk' = conversation

\* A run on a heartbeat: historyForClaimedMethodCall.
RunsBeat(l) ==
    /\ Start /\ handled' = handled \cup {l}
    /\ Runs(Asks(l), l, IF Asks(l) = "fresh" THEN {l} ELSE history \cup {l})

TakeDeferred ==
    /\ pc = "top" /\ deferred # <<>> /\ deferred' = Tail(deferred)
    /\ RunsBeat(Head(deferred))
    /\ UNCHANGED <<readerVars, inputCh, workMode, tasks, spoken, history, told>>

\* The next task, with the reader that is running already.
WorkNext ==
    /\ pc = "top" /\ deferred = <<>> /\ workMode
    /\ \/ tasks > 0 /\ Runs("work", NoLine, history) /\ UNCHANGED workMode
       \/ tasks = 0 /\ workMode' = FALSE /\ UNCHANGED <<pc, live, frame, talk>>
    /\ UNCHANGED <<readerVars, outstanding, reading, inputCh, tasks, deferred, spoken, history,
                   handled, told>>

WorkTimeout ==
    /\ pc = "top" /\ deferred = <<>> /\ workMode /\ workMode' = FALSE /\ Start
    /\ UNCHANGED <<readerVars, inputCh, pc, tasks, deferred, frame, live, spoken, history,
                   talk, handled, told>>

Waits == pc = "top" /\ deferred = <<>> /\ ~workMode

\* The line is dealt with where it stands and the session waits for the next.
Handled(l) ==
    \/ /\ Asks(l) \in Commands \cup {"status", "slash"} /\ UNCHANGED workMode
       /\ history' = IF Asks(l) = "clear" THEN {} ELSE history
    \/ Asks(l) = "restart" /\ history = {} /\ UNCHANGED <<history, workMode>>
    \/ Asks(l) = "worktasks" /\ tasks = 0 /\ UNCHANGED <<history, workMode>>

\* Or a run begins on it; before it forgets, a restart lets the agent respond.
RunsLine(l) ==
    \/ /\ Asks(l) = "prompt" /\ Runs("prompt", l, history \cup {l})
       /\ UNCHANGED <<history, workMode>>
    \/ /\ Asks(l) = "worktasks" /\ tasks > 0 /\ workMode' = TRUE
       /\ Runs("prompt", l, history \cup {l}) /\ UNCHANGED history
    \/ /\ Asks(l) = "restart" /\ history # {} /\ history' = history \cup {l}
       /\ Runs("restart", l, history') /\ UNCHANGED workMode

TakeLine ==
    /\ Waits /\ inputCh # <<>> /\ inputCh' = <<>>
    /\ LET l == Head(inputCh)
       IN  \/ /\ Handled(l) /\ Start /\ handled' = handled \cup {l}
              /\ UNCHANGED <<pc, live, frame, talk>>
           \/ RunsLine(l) /\ Start /\ handled' = handled \cup {l}
           \/ Asks(l) \in Beats /\ RunsBeat(l) /\ UNCHANGED <<history, workMode>>
           \/ /\ Asks(l) \in {"exit", "eof"} /\ pc' = "over" /\ handled' = handled \cup {l}
              /\ UNCHANGED <<outstanding, reading, live, frame, talk, history, workMode>>
    /\ UNCHANGED <<readerVars, tasks, deferred, spoken, told>>

\* The timer, with tasks or messages to tell of: tasks that can be worked on
\* switch the work mode on.
TimerFires ==
    /\ Waits /\ workMode' \in {FALSE, tasks > 0}
    /\ Start /\ Runs("timer", NoLine, history)
    /\ UNCHANGED <<readerVars, inputCh, tasks, deferred, spoken, history, handled, told>>

-----------------------------------------------------------------------------
(***************************************************************************)
(* During a run.                                                           *)
(***************************************************************************)
\* The agent's goroutine ends, done or cancelled; its tools may have finished
\* tasks and added some.
LoopCloses ==
    /\ live > 0 /\ live' = live - 1 /\ pc # "over" /\ tasks' \in 0..MaxTasks
    /\ UNCHANGED <<readerVars, outstanding, reading, inputCh, pc, workMode, deferred, frame,
                   spoken, history, talk, handled, told>>

\* A heartbeat waits for the end of the run.
Defer(l) == Asks(l) \in Beats /\ deferred' = Append(deferred, l) /\ Start /\ UNCHANGED handled
Ignore(l) ==
    /\ Asks(l) \in {"status", "eof"} /\ Start /\ handled' = handled \cup {l}
    /\ UNCHANGED deferred

\* Every other line is said to the agent, whatever command it is, but for the
\* one that exits; one without a name ends the process.
Interject(l) ==
    /\ Asks(l) \in Commands \cup {"prompt", "restart", "worktasks"}
    /\ pc' = "drain" /\ spoken' = l /\ UNCHANGED <<handled, deferred, outstanding, reading>>
Die(l) ==
    /\ Asks(l) \in {"exit", "slash"} /\ pc' = "over" /\ handled' = handled \cup {l}
    /\ UNCHANGED <<spoken, deferred, outstanding, reading>>

BusyLine ==
    /\ pc = "run" /\ inputCh # <<>> /\ inputCh' = <<>>
    /\ LET l == Head(inputCh)
       IN  \/ (Defer(l) \/ Ignore(l)) /\ UNCHANGED <<pc, spoken>>
           \/ Interject(l) \/ Die(l)
    /\ UNCHANGED <<readerVars, workMode, tasks, frame, live, history, talk, told>>

\* The cancelled run has closed its events: the next one begins, for the same end.
Drained == pc = "drain" /\ live = 0
Resume ==
    /\ Drained /\ spoken' = NoLine /\ Start /\ handled' = handled \cup {spoken}
    /\ Runs(frame.for, frame.line, talk \cup {spoken})
    /\ UNCHANGED <<readerVars, inputCh, workMode, tasks, deferred, history, told>>

\* What the session keeps of the run: finalizeClaimedMethodCallHistory.
Kept ==
    CASE frame.for = "restart" -> {}
      [] frame.for = "fresh" -> history
      [] OTHER -> talk

RunOver ==
    /\ pc = "run" /\ live = 0 /\ history' = Kept /\ talk' = {}
    /\ IF frame.for \in {"job", "fresh"} THEN pc' = "report" /\ UNCHANGED frame
       ELSE pc' = "top" /\ frame' = NoFrame
    /\ UNCHANGED <<readerVars, outstanding, reading, inputCh, workMode, tasks, deferred, live,
                   spoken, handled, told>>

\* The job is reported, as done or as failed; neither may reach the broker.
Report(outcome) ==
    /\ pc = "report" /\ pc' = "top" /\ frame' = NoFrame
    /\ told' = [told EXCEPT ![frame.line] = @ \cup {outcome}]
    /\ UNCHANGED <<readerVars, outstanding, reading, inputCh, workMode, tasks, deferred, live,
                   spoken, history, talk, handled>>

Goes ==
    \/ TakeDeferred \/ WorkNext \/ Resume \/ RunOver
    \/ \E outcome \in {"reported", "lost"} : Report(outcome)

SessionNext ==
    \/ ReadReturns \/ \E l \in Lines : Delivers(l)
    \/ TakeLine \/ BusyLine \/ TimerFires \/ WorkTimeout \/ LoopCloses \/ Goes

SessionSpec == SessionInit /\ [][SessionNext]_sessionVars

(***************************************************************************)
(* Runs end (AgentLoop), goroutines go on, and a line that is ready is     *)
(* taken sometime: a select takes any of the cases that are ready.  Nobody *)
(* has to send lines, and the timer need not fire.                         *)
(***************************************************************************)
SessionFairSpec ==
    /\ SessionSpec /\ WF_sessionVars(LoopCloses) /\ WF_sessionVars(Goes)
    /\ SF_sessionVars(TakeLine \/ BusyLine)
    /\ \A l \in 1..MaxLines : SF_sessionVars(l \in Lines /\ Delivers(l))

-----------------------------------------------------------------------------
SessionTypeOK ==
    /\ lines \in Scripts /\ read \in 0..Len(lines)
    /\ {outstanding, workMode} \subseteq BOOLEAN /\ reading \in Nat
    /\ held \subseteq 1..read /\ Len(inputCh) <= 1
    /\ pc \in {"top", "run", "drain", "report", "over"}
    /\ tasks \in 0..MaxTasks /\ live \in Nat
    /\ {spoken, frame.line} \subseteq 0..read
    /\ frame.for \in {"none", "work", "timer", "prompt", "restart"} \cup Beats
    /\ history \cup talk \cup handled \subseteq 1..read
    /\ told \in [1..MaxLines -> SUBSET {"reported", "lost"}]

\* There is only ever one outstanding Readline (asyncInputReader), which could
\* otherwise split a message.
OneReadline == reading <= 1

\* Two runs never go on at once: an interjection waits for the run it cancels.
OneRun == live <= 1 /\ (live = 1 => pc \in {"run", "drain", "over"})

\* Wherever the session waits, a line can reach it: every branch that takes one
\* has started the reader again.
NeverDeaf == pc \in {"top", "run", "report"} => reading > 0 \/ held # {} \/ inputCh # <<>>

\* Every line that was read is on its way, deferred, or dealt with, and never two
\* of these: heartbeats that come during a run are neither dropped nor run twice.
Places == <<held, Range(inputCh), Range(deferred), {spoken}, handled>>
EveryLineOnce ==
    \A l \in 1..read :
      \E k \in 1..5 : \A j \in 1..5 : l \in Places[j] <=> j = k

\* A job with a fresh context sees nothing of the conversation and leaves nothing
\* in it; any other run continues it.
FreshApart ==
    /\ \A l \in history : Asks(l) # "fresh"
    /\ pc \in {"run", "drain"} =>
         IF frame.for = "fresh" THEN talk \cap history = {} ELSE history \subseteq talk

\* A job's report follows its run, once.
ReportedOnce == \A l \in Lines : Cardinality(told[l]) <= 1 /\ (told[l] # {} => l \in handled)

SessionInv ==
    /\ SessionTypeOK /\ OneReadline /\ OneRun /\ NeverDeaf /\ EveryLineOnce
    /\ FreshApart /\ ReportedOnce

\* A claimed job that reaches the session is run and reported, whatever comes in
\* between: runs, interruptions, restarts, tasks or the timer.
IsJob(l) == l \in 1..read /\ Asks(l) \in {"job", "fresh"}
AllReported == \A l \in 1..MaxLines : IsJob(l) => pc = "over" \/ told[l] # {}
JobsAreReported == []<>AllReported
=============================================================================

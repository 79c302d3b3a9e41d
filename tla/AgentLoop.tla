----------------------------- MODULE AgentLoop -----------------------------
(***************************************************************************)
(* One run of agentic_loop's loop: a goroutine that alternates generations *)
(* of the model with rounds of tool calls, each call on a goroutine of its *)
(* own, and tells a consumer of it over a bounded channel.                 *)
(*                                                                         *)
(* The main goroutine blocks on the channel at every event it sends: "out" *)
(* holds what it has still to send before it goes on.  What the model says *)
(* is one piece of text and some calls; the tools and the usage it reports *)
(* are any.                                                                *)
(***************************************************************************)
EXTENDS Integers, Sequences, FiniteSets

CONSTANTS
    MaxTurns,               \* maxTurns
    MaxCalls,               \* bound: calls in one response
    MaxToolCalls,           \* DefaultMaxToolCalls
    MaxRetries,             \* the maxRetries every caller passes
    MaxRateLimitRetries,    \* maxRateLimitRetries
    Capacity                \* buffer of the event channel

LoopAssumption ==
    /\ {MaxTurns, Capacity, MaxToolCalls} \subseteq Nat \ {0}
    /\ {MaxCalls, MaxRetries, MaxRateLimitRetries} \subseteq Nat

VARIABLES
    stage,          \* what the main goroutine does once "out" is sent
    asking,         \* which generation it waits for: "turn", "force", "final"
    streaming,      \* streamTokens
    turn,
    tries,          \* failures so far in this generation, by kind
    emitted,        \* this attempt has streamed text
    hadTools,       \* lastTurnHadToolCalls
    worker,         \* the goroutines of this turn's calls
    capped,         \* which of the calls are of a tool with a limit
    count,          \* toolCallCounts of that tool
    executed,       \* history: its calls that were executed
    asked,          \* calls in the conversation, and those with a result
    answered,
    out, channel,
    stopped,        \* the context is cancelled
    heard           \* what the consumer has received

loopVars == <<stage, asking, streaming, turn, tries, emitted, hadTools, worker,
              capped, count, executed, asked, answered, out, channel, stopped, heard>>

Event(kind, t, n) == [kind |-> kind, turn |-> t, n |-> n]
Error == Event("error", turn, 0)
DoneEvent == Event("done", turn, 0)
\* A turn's own text is piece 0, that of the text-only call after it piece 1.
Text == Event("text", turn, IF asking = "turn" THEN 0 ELSE 1)
CallEvents(n) == [i \in 1..n |-> Event("call", turn, i)]
CallIds(n) == {<<turn, i>> : i \in 1..n}

NoTries == [normal |-> 0, rate |-> 0]
HasRoom == Len(channel) < Capacity
At(p) == stage = p /\ out = <<>>

LoopInit ==
    /\ stage = "top" /\ asking = "turn" /\ streaming \in BOOLEAN
    /\ turn = 0 /\ tries = NoTries /\ emitted = FALSE /\ hadTools = FALSE
    /\ worker = <<>> /\ capped = {} /\ count = 0 /\ executed = 0
    /\ asked = {} /\ answered = {}
    /\ out = <<>> /\ channel = <<>> /\ stopped = FALSE
    /\ heard = [announced |-> {}, resulted |-> {}, said |-> {}, last |-> "none"]

toolVars == <<worker, capped, count, executed, asked, answered, hadTools>>
chanVars == <<channel, stopped, heard>>

-----------------------------------------------------------------------------
(***************************************************************************)
(* The main goroutine.                                                     *)
(***************************************************************************)
\* Asks for a generation of the kind, in turn t.
Generate(kind, t) ==
    /\ stage' = "ask" /\ asking' = kind /\ tries' = NoTries /\ emitted' = FALSE
    /\ out' = <<Event("thinking", t, 0)>>

Leave(events) == stage' = "leave" /\ out' = events /\ UNCHANGED <<asking, tries, emitted>>

NextTurn ==
    /\ At("top") /\ turn < MaxTurns /\ turn' = turn + 1
    /\ IF stopped THEN Leave(<<Error>>) ELSE Generate("turn", turn')
    /\ UNCHANGED <<streaming, toolVars, chanVars>>

\* The turns are used up: a last generation without tools.
TurnsOver ==
    /\ At("top") /\ turn = MaxTurns
    /\ IF hadTools THEN Generate("final", turn + 1) ELSE Leave(<<DoneEvent>>)
    /\ UNCHANGED <<turn, streaming, toolVars, chanVars>>

\* The client streams text of the response, through the sink.
Streams ==
    /\ At("ask") /\ streaming /\ ~emitted
    /\ emitted' = TRUE /\ out' = <<Text>>
    /\ UNCHANGED <<stage, asking, streaming, turn, tries, toolVars, chanVars>>

\* A generation that fails ends the run; of the text-only ones the error is dropped.
GiveUp == Leave(IF asking = "turn" THEN <<Error, DoneEvent>> ELSE <<DoneEvent>>)

\* What generateWithRetry retries, and generateStreamingWithRetry: nothing
\* once text has reached the consumer.
Counter(kind) == IF kind = "rate" /\ ~streaming THEN "rate" ELSE "normal"

\* Fault: a stream that broke off in the middle is asked for again.
MayRetryStreamed(kind) ==
    ~stopped /\ (streaming \/ kind # "fatal") /\ tries[Counter(kind)] < MaxRetries

MayRetry(kind) ==
    /\ ~stopped
    /\ IF streaming THEN ~emitted ELSE kind # "fatal"
    /\ tries[Counter(kind)] < IF Counter(kind) = "rate" THEN MaxRateLimitRetries ELSE MaxRetries

AttemptFails(kind) ==
    /\ At("ask")
    /\ IF MayRetry(kind)
       THEN /\ stage' = "backoff" /\ tries' = [tries EXCEPT ![Counter(kind)] = @ + 1]
            /\ UNCHANGED <<asking, emitted, out>>
       ELSE GiveUp
    /\ UNCHANGED <<streaming, turn, toolVars, chanVars>>

\* The delay has passed, or the context is done; of both select takes either.
BackoffEnds ==
    /\ At("backoff")
    /\ \/ /\ stage' = "ask" /\ emitted' = FALSE
          /\ UNCHANGED <<asking, tries, out>>
       \/ stopped /\ GiveUp
    /\ UNCHANGED <<streaming, turn, toolVars, chanVars>>

\* Text that was not streamed is sent with the response.
Unsent(text) == IF text /\ ~streaming THEN <<Text>> ELSE <<>>

\* The response of a turn: its text, n calls of which "of" have a limit; "full"
\* when the prompt has outgrown the context.
Response(text, n, of, full) ==
    /\ At("ask") /\ asking = "turn"
    /\ streaming => text = emitted
    /\ IF full THEN Leave(<<Event("limit", turn, 0), DoneEvent>>)
       ELSE IF n > 0
       THEN /\ stage' = "tools" /\ out' = Unsent(text) \o CallEvents(n)
            /\ UNCHANGED <<asking, tries, emitted>>
       ELSE IF ~text /\ hadTools THEN Generate("force", turn)
       ELSE Leave(Unsent(text) \o <<DoneEvent>>)
    /\ LET calls == IF full THEN 0 ELSE n
       IN  /\ worker' = [i \in 1..calls |-> "new"]
           /\ capped' = of \cap 1..calls
           /\ asked' = asked \cup CallIds(calls)
    /\ UNCHANGED <<streaming, turn, count, executed, answered, hadTools, chanVars>>

\* The response of a text-only generation, the end of the run.
Closing(text) ==
    /\ At("ask") /\ asking # "turn"
    /\ streaming => text = emitted
    /\ Leave(Unsent(text) \o <<DoneEvent>>)
    /\ UNCHANGED <<streaming, turn, toolVars, chanVars>>

\* wg.Wait returns: the results go into the conversation, in the order of the
\* calls, and the conversation is compacted when it has grown past the bound.
Joins ==
    /\ At("tools") /\ \A i \in DOMAIN worker : worker[i] = "sent"
    /\ answered' = answered \cup CallIds(Len(worker))
    /\ hadTools' = TRUE /\ stage' = "top"
    /\ out' \in {<<>>, <<Event("compaction", turn, 0)>>}
    /\ UNCHANGED <<asking, streaming, turn, tries, emitted, worker, capped, count,
                   executed, asked, chanVars>>

Sends ==
    /\ out # <<>> /\ HasRoom
    /\ channel' = Append(channel, Head(out)) /\ out' = Tail(out)
    /\ UNCHANGED <<stage, asking, streaming, turn, tries, emitted, toolVars, stopped, heard>>

Closes ==
    /\ At("leave") /\ stage' = "closed"
    /\ UNCHANGED <<asking, streaming, turn, tries, emitted, toolVars, out, chanVars>>

-----------------------------------------------------------------------------
(***************************************************************************)
(* The goroutines of a turn's calls.                                       *)
(***************************************************************************)
mainVars == <<stage, asking, streaming, turn, tries, emitted, hadTools, out>>

\* Counts the call, under the mutex, and decides from the number it got.
Counts(i) ==
    /\ At("tools") /\ i \in DOMAIN worker /\ worker[i] = "new"
    /\ count' = IF i \in capped THEN count + 1 ELSE count
    /\ LET executes == i \notin capped \/ count' <= MaxToolCalls
       IN  /\ worker' = [worker EXCEPT ![i] = IF executes THEN "executing" ELSE "refused"]
           /\ executed' = IF i \in capped /\ executes THEN executed + 1 ELSE executed
    /\ UNCHANGED <<mainVars, capped, asked, answered, chanVars>>

\* The tool returns, whatever its result or error, or the refusal is the result.
Stores(i) ==
    /\ i \in DOMAIN worker /\ worker[i] \in {"executing", "refused"}
    /\ worker' = [worker EXCEPT ![i] = "stored"]
    /\ UNCHANGED <<mainVars, capped, count, executed, asked, answered, chanVars>>

SendsResult(i) ==
    /\ i \in DOMAIN worker /\ worker[i] = "stored" /\ HasRoom
    /\ worker' = [worker EXCEPT ![i] = "sent"]
    /\ channel' = Append(channel, Event("result", turn, i))
    /\ UNCHANGED <<mainVars, capped, count, executed, asked, answered, stopped, heard>>

-----------------------------------------------------------------------------
(***************************************************************************)
(* The consumer: it reads until the channel is closed, and may cancel the  *)
(* run at any time (runAgentWithInterjection).                             *)
(***************************************************************************)
Receives ==
    /\ channel # <<>> /\ channel' = Tail(channel)
    /\ LET e == Head(channel)
           Ids(kind) == IF e.kind = kind THEN {<<e.turn, e.n>>} ELSE {}
       IN  heard' =
             [announced |-> heard.announced \cup Ids("call"),
              resulted |-> heard.resulted \cup Ids("result"),
              said |-> heard.said \cup Ids("text"),
              last |-> e.kind]
    /\ UNCHANGED <<stage, asking, streaming, turn, tries, emitted, toolVars, out, stopped>>

Cancels ==
    /\ ~stopped /\ stage # "closed" /\ stopped' = TRUE
    /\ UNCHANGED <<stage, asking, streaming, turn, tries, emitted, toolVars, out, channel, heard>>

Answers ==
    \/ \E kind \in {"retryable", "rate", "fatal"} : AttemptFails(kind)
    \/ \E text, full \in BOOLEAN, n \in 0..MaxCalls, of \in SUBSET (1..MaxCalls) :
         Response(text, n, of, full)
    \/ \E text \in BOOLEAN : Closing(text)

Works(i) == Counts(i) \/ Stores(i) \/ SendsResult(i)
Moves == NextTurn \/ TurnsOver \/ BackoffEnds \/ Joins \/ Sends \/ Closes

LoopNext ==
    \/ Moves \/ Streams \/ Answers
    \/ \E i \in 1..MaxCalls : Works(i)
    \/ Receives \/ Cancels

LoopSpec == LoopInit /\ [][LoopNext]_loopVars

(***************************************************************************)
(* Goroutines run, the client and the tools return, timers fire and the    *)
(* consumer reads.  That it cancels is its own affair.                     *)
(***************************************************************************)
LoopFairSpec ==
    /\ LoopSpec /\ WF_loopVars(Moves) /\ WF_loopVars(Answers) /\ WF_loopVars(Receives)
    /\ \A i \in 1..MaxCalls : WF_loopVars(Works(i))

-----------------------------------------------------------------------------
LoopTypeOK ==
    /\ stage \in {"top", "ask", "backoff", "tools", "leave", "closed"}
    /\ asking \in {"turn", "force", "final"}
    /\ {streaming, emitted, hadTools, stopped} \subseteq BOOLEAN
    /\ turn \in 0..MaxTurns
    /\ tries \in [normal : 0..MaxRetries, rate : 0..MaxRateLimitRetries]
    /\ DOMAIN worker \subseteq 1..MaxCalls
    /\ \A i \in DOMAIN worker : worker[i] \in {"new", "executing", "refused", "stored", "sent"}
    /\ capped \subseteq DOMAIN worker /\ {count, executed} \subseteq Nat
    /\ Len(channel) <= Capacity

\* What the consumer has not received yet, in the order in which it is sent.
Stream == channel \o out

Of(kind, k) == {<<Stream[j].turn, Stream[j].n>> : j \in {j \in 1..k : Stream[j].kind = kind}}

\* A tool with a limit is executed that often and no more, although its calls
\* count themselves on goroutines that run at once: executeToolsParallel.
LimitHolds == executed <= MaxToolCalls /\ (executed < MaxToolCalls => executed = count)

\* The model is never asked to continue a conversation in which a call has no
\* result, which providers reject: the results of a turn are in it before the
\* next generation.
CallsAreAnswered == stage \in {"ask", "backoff"} => asked = answered

\* The consumer sees every result once, after its call, and all of them before
\* the loop says that it thinks again or is done.
ResultsInTurn ==
    \A k \in DOMAIN Stream :
      LET announced == heard.announced \cup Of("call", k - 1)
          resulted == heard.resulted \cup Of("result", k - 1)
          id == <<Stream[k].turn, Stream[k].n>>
      IN  /\ Stream[k].kind = "result" => id \in announced \ resulted
          /\ Stream[k].kind \in {"thinking", "done"} => announced = resulted

\* No piece of text reaches the consumer twice: neither a retry nor the
\* assembled response repeats what was streamed.
SaidOnce ==
    \A k \in DOMAIN Stream :
      Stream[k].kind = "text" =>
        <<Stream[k].turn, Stream[k].n>> \notin heard.said \cup Of("text", k - 1)

\* The last event is Done, or the error of a run cancelled between turns, and
\* nothing follows it.
EndsOnce ==
    /\ \A k \in 1..(Len(Stream) - 1) : Stream[k].kind # "done"
    /\ heard.last = "done" => Stream = <<>>
    /\ stage = "closed" =>
         LET last == IF Stream = <<>> THEN heard.last ELSE Stream[Len(Stream)].kind
         IN  last = "done" \/ (last = "error" /\ stopped)

LoopInv ==
    /\ LoopTypeOK /\ LimitHolds /\ CallsAreAnswered /\ ResultsInTurn /\ SaidOnce /\ EndsOnce

\* Whatever the model, the tools and the network do, a run comes to its end and
\* its consumer hears of it.
LoopIsOver == stage = "closed" /\ channel = <<>>
LoopEnds == <>LoopIsOver
=============================================================================

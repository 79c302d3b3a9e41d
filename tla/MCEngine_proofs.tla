-------------------------- MODULE MCEngine_proofs --------------------------
(***************************************************************************)
(* The pipeline engine: its admission and shutdown, for any triggers,      *)
(* shutdowns and waits; the runs it advances, for any definitions,         *)
(* goroutines and rows; and its schedules, for any pipelines and           *)
(* intervals.                                                              *)
(***************************************************************************)
EXTENDS MCEngine, FiniteSetTheorems, SequenceTheorems, TLAPS

\* The drainer waits only in a closed engine, where nothing is added.
LifecycleInv ==
    /\ EngineLifecycleTypeOK /\ SlotsCounted /\ DrainedIsOver
    /\ drainer # "none" => shutdownClosed
    /\ \A s \in Closers : closer[s] # "calling" => shutdownClosed

\* The slots that are held are finitely many, and none when they count zero.
LEMMA HoldingFinite ==
    /\ IsFiniteSet(Holding) /\ Cardinality(Holding) \in Nat
    /\ Cardinality(Holding) = 0 => Holding = {}
  BY EngineAssumption, FS_Subset, FS_CardinalityType, FS_EmptySet DEF Holding

\* Initially no slot is held.
LEMMA InitLifecycle == Init => LifecycleInv
<1> SUFFICES ASSUME Init PROVE LifecycleInv
  OBVIOUS
<1>1. Holding = {}
  BY DEF Init, Holding
<1>2. SlotsCounted
  BY <1>1, FS_EmptySet DEF Init, SlotsCounted
<1> QED
  BY <1>1, <1>2 DEF Init, LifecycleInv, EngineLifecycleTypeOK, DrainedIsOver

\* A trigger that takes a slot in an open engine.
LEMMA TakesSlot ==
    ASSUME LifecycleInv, NEW t \in Triggers \ Holding, ~shutdownClosed,
           trigger' = [trigger EXCEPT ![t] = "reserved"], runWG' = runWG + 1,
           UNCHANGED <<completion, closer, waiter, shutdownClosed, cancelled, drainer>>
    PROVE LifecycleInv'
<1>1. Holding' = Holding \cup {t}
  BY DEF LifecycleInv, EngineLifecycleTypeOK, Holding
<1>2. Cardinality(Holding') = Cardinality(Holding) + 1
  BY <1>1, HoldingFinite, FS_AddElement
<1>3. EngineLifecycleTypeOK' /\ SlotsCounted'
  BY <1>2 DEF LifecycleInv, EngineLifecycleTypeOK, SlotsCounted
<1> QED
  BY <1>3 DEF LifecycleInv, DrainedIsOver

\* A trigger or its goroutine that gives a slot back.
LEMMA GivesSlot ==
    ASSUME LifecycleInv, NEW t \in Holding, NEW to \in {"failed", "done"},
           trigger' = [trigger EXCEPT ![t] = to], runWG' = runWG - 1,
           UNCHANGED <<completion, closer, waiter, shutdownClosed, cancelled, drainer>>
    PROVE LifecycleInv'
<1>1. Holding' = Holding \ {t}
  BY DEF LifecycleInv, EngineLifecycleTypeOK, Holding
<1>2. /\ Cardinality(Holding') = Cardinality(Holding) - 1
      /\ Cardinality(Holding') \in Nat
  BY <1>1, HoldingFinite, FS_RemoveElement, FS_CardinalityType
<1>3. t \in Triggers
  BY DEF Holding
<1>4. EngineLifecycleTypeOK' /\ SlotsCounted'
  BY <1>2, <1>3 DEF LifecycleInv, EngineLifecycleTypeOK, SlotsCounted
<1>5. DrainedIsOver'
  BY <1>1 DEF LifecycleInv, DrainedIsOver
<1> QED
  BY <1>4, <1>5 DEF LifecycleInv

\* A trigger that keeps what it has.
LEMMA KeepsSlot ==
    ASSUME LifecycleInv, UNCHANGED runWG, Holding' = Holding,
           EngineLifecycleTypeOK',
           drainer' = "done" => drainer = "done" \/ runWG = 0,
           drainer' # "none" => shutdownClosed',
           \A s \in Closers : closer'[s] # "calling" => shutdownClosed'
    PROVE LifecycleInv'
<1>1. SlotsCounted'
  BY DEF LifecycleInv, SlotsCounted
<1>2. DrainedIsOver'
  BY HoldingFinite DEF LifecycleInv, DrainedIsOver, SlotsCounted
<1> QED
  BY <1>1, <1>2 DEF LifecycleInv

\* Every step keeps the invariant.
LEMMA NextLifecycle == LifecycleInv /\ [Next]_vars => LifecycleInv'
<1> SUFFICES ASSUME LifecycleInv, [Next]_vars PROVE LifecycleInv'
  OBVIOUS
<1>0. /\ EngineLifecycleTypeOK /\ (drainer # "none" => shutdownClosed)
      /\ \A s \in Closers : closer[s] # "calling" => shutdownClosed
  BY DEF LifecycleInv
<1>1. ASSUME NEW t \in Triggers, TryBeginRun(t) PROVE LifecycleInv'
  <2>1. CASE shutdownClosed
    <3>1. Holding' = Holding /\ EngineLifecycleTypeOK'
      BY <1>0, <1>1, <2>1 DEF TryBeginRun, Holding, EngineLifecycleTypeOK
    <3> QED
      BY <1>0, <1>1, <2>1, <3>1, KeepsSlot DEF TryBeginRun
  <2>2. CASE ~shutdownClosed
    <3>1. t \in Triggers \ Holding
      BY <1>1 DEF TryBeginRun, Holding
    <3> QED
      BY <1>1, <2>2, <3>1, TakesSlot DEF TryBeginRun
  <2> QED
    BY <2>1, <2>2
<1>2. ASSUME NEW t \in Triggers, CreateRun(t) PROVE LifecycleInv'
  <2>1. t \in Holding
    BY <1>2 DEF CreateRun, Holding
  <2>2. CASE trigger' = [trigger EXCEPT ![t] = "running"] /\ UNCHANGED runWG
    <3>1. Holding' = Holding /\ EngineLifecycleTypeOK'
      BY <1>0, <1>2, <2>2 DEF CreateRun, Holding, EngineLifecycleTypeOK
    <3> QED
      BY <1>0, <1>2, <2>2, <3>1, KeepsSlot DEF CreateRun
  <2>3. CASE trigger' = [trigger EXCEPT ![t] = "failed"] /\ runWG' = runWG - 1
    BY <1>2, <2>1, <2>3, GivesSlot DEF CreateRun
  <2> QED
    BY <1>2, <2>2, <2>3 DEF CreateRun
<1>3. ASSUME NEW t \in Triggers, StepEnds(t) PROVE LifecycleInv'
  <2>1. t \in Holding
    BY <1>3 DEF StepEnds, Holding
  <2> QED
    BY <1>3, <2>1, GivesSlot DEF StepEnds
<1>4. ASSUME NEW c \in Completions, RecordCompletion(c) PROVE LifecycleInv'
  <2>1. Holding' = Holding /\ EngineLifecycleTypeOK'
    BY <1>0, <1>4 DEF RecordCompletion, Holding, EngineLifecycleTypeOK
  <2> QED
    BY <1>0, <1>4, <2>1, KeepsSlot DEF RecordCompletion
<1>5. ASSUME NEW s \in Closers, Close(s) PROVE LifecycleInv'
  <2>1. Holding' = Holding /\ EngineLifecycleTypeOK'
    BY <1>0, <1>5 DEF Close, Holding, EngineLifecycleTypeOK
  <2> QED
    BY <1>0, <1>5, <2>1, KeepsSlot DEF Close
<1>6. ASSUME NEW s \in Closers, SpawnDrainer(s) PROVE LifecycleInv'
  <2>1. Holding' = Holding /\ EngineLifecycleTypeOK'
    BY <1>0, <1>6 DEF SpawnDrainer, Holding, EngineLifecycleTypeOK
  <2>2. shutdownClosed' /\ (drainer' = "done" => drainer = "done")
    BY <1>0, <1>6 DEF SpawnDrainer
  <2> QED
    BY <1>6, <2>1, <2>2, KeepsSlot DEF SpawnDrainer
<1>7. ASSUME NEW s \in Closers, ShutdownReturns(s) PROVE LifecycleInv'
  <2>1. Holding' = Holding /\ EngineLifecycleTypeOK'
    BY <1>0, <1>7 DEF ShutdownReturns, Holding, EngineLifecycleTypeOK
  <2>2. shutdownClosed' /\ drainer' = drainer
    BY <1>0, <1>7 DEF ShutdownReturns
  <2> QED
    BY <1>7, <2>1, <2>2, KeepsSlot DEF ShutdownReturns
<1>8. CASE Drains
  <2>1. Holding' = Holding /\ EngineLifecycleTypeOK'
    BY <1>0, <1>8 DEF Drains, Holding, EngineLifecycleTypeOK
  <2> QED
    BY <1>0, <1>8, <2>1, KeepsSlot DEF Drains
<1>9. ASSUME NEW w \in Waiters, WaitBegins(w) \/ WaitEnds(w) PROVE LifecycleInv'
  <2>1. Holding' = Holding /\ EngineLifecycleTypeOK'
    BY <1>0, <1>9 DEF WaitBegins, WaitEnds, Holding, EngineLifecycleTypeOK
  <2> QED
    BY <1>0, <1>9, <2>1, KeepsSlot DEF WaitBegins, WaitEnds
<1>10. CASE UNCHANGED vars
  <2>1. Holding' = Holding /\ EngineLifecycleTypeOK'
    BY <1>0, <1>10 DEF vars, Holding, EngineLifecycleTypeOK
  <2> QED
    BY <1>0, <1>10, <2>1, KeepsSlot DEF vars
<1> QED
  BY <1>1, <1>2, <1>3, <1>4, <1>5, <1>6, <1>7, <1>8, <1>9, <1>10 DEF Next

\* No slot is added beside a wait, of the drainer or of WaitInFlight.
LEMMA NoAdd ==
    LifecycleInv /\ [Next]_vars => (drainer # "none" \/ ~MuIsFree => runWG' <= runWG)
<1> SUFFICES ASSUME LifecycleInv, [Next]_vars, drainer # "none" \/ ~MuIsFree PROVE runWG' <= runWG
  OBVIOUS
<1>1. runWG \in Nat /\ (drainer # "none" => shutdownClosed)
  BY DEF LifecycleInv, EngineLifecycleTypeOK
<1>2. ASSUME NEW t \in Triggers, TryBeginRun(t) PROVE runWG' <= runWG
  BY <1>1, <1>2 DEF TryBeginRun
<1>3. ASSUME NEW t \in Triggers, CreateRun(t) \/ StepEnds(t) PROVE runWG' <= runWG
  BY <1>1, <1>3 DEF CreateRun, StepEnds
<1>4. ASSUME UNCHANGED runWG PROVE runWG' <= runWG
  BY <1>1, <1>4
<1> QED
  BY <1>2, <1>3, <1>4
  DEF Next, vars, RecordCompletion, Close, SpawnDrainer, ShutdownReturns, Drains, WaitBegins, WaitEnds

\* Each slot is released once, and once shutdownDone is closed no slot is
\* reserved and no goroutine of a trigger runs (Shutdown's nil answer).
THEOREM LifecycleSafe == Spec => []EngineInv
<1>1. LifecycleInv => EngineInv
  BY DEF LifecycleInv, EngineInv
<1> QED
  BY <1>1, InitLifecycle, NextLifecycle, PTL DEF Spec

\* runWG.Add never comes beside a Wait, which would panic.
THEOREM AddsApart == Spec => NoAddBesideWait
  BY InitLifecycle, NextLifecycle, NoAdd, PTL DEF Spec, NoAddBesideWait

-----------------------------------------------------------------------------
(***************************************************************************)
(* The runs.                                                               *)
(***************************************************************************)
\* What is known of a call that a goroutine has still to make, of rows st and jb of
\* step runs and their jobs, for a definition p, when a restart has failed the runs sw.
OfAgent(p, k) == p[k].runner = "agent"
AtOnce(p, k) == p[k].runner = "agent" \/ (p[k].runner = "builtin" /\ ~p[k].fan)
Ends(p, st, r) ==
    \E s \in Slots : st[s].status = "succeeded" /\ st[s].of = r /\ st[s].at = Len(p)

\* The branch a step k of run r goes on from.
Origin(p, st, r, k, f) ==
    /\ k \in DOMAIN p /\ f \in 0..MaxSlots
    /\ k > 1 => /\ f # 0 /\ st[f].status # "absent" /\ st[f].of = r /\ st[f].at = k - 1
                /\ AtOnce(p, k - 1) => st[f].status = "succeeded"

AboutStep(c, st) ==
    /\ c.slot \in Slots /\ st[c.slot].status # "absent"
    /\ st[c.slot].of = c.run /\ st[c.slot].at = c.at

StepCalls == {"check", "miss", "record", "advance", "begin", "activate", "jobrow", "invoke", "finish"}
AloneCalls == {"miss", "begin", "activate", "jobrow", "invoke", "finish"}
RunCalls == {"progress", "verdict", "list", "fail", "join", "lookup"}

IsCall(c, do, r, k, s, a) == c = [do |-> do, run |-> r, at |-> k, slot |-> s, arg |-> a]

CallTrue(c, p, st, jb, sw) ==
    /\ IsCall(c, c.do, c.run, c.at, c.slot, c.arg)
    /\ c.run \in Runs /\ c.do \in StepCalls \cup RunCalls \cup {"execute", "submit", "create", "method"}
    /\ c.do # "lookup" => c.run \notin sw
    /\ c.do = "lookup" => c.slot \in Slots
    /\ c.do \in StepCalls => AboutStep(c, st)
    /\ c.do \in AloneCalls => ~AtOnce(p, c.at)
    /\ c.do \in {"check", "record"} => (AtOnce(p, c.at) => OfAgent(p, c.at))
    /\ c.do = "record" => c.arg \in Ended /\ (OfAgent(p, c.at) => c.arg = jb[c.slot])
    /\ c.do = "finish" => c.arg \in Ended
    /\ c.do = "advance" => (AtOnce(p, c.at) => st[c.slot].status = "succeeded")
    /\ c.do \in {"execute", "submit"} => Origin(p, st, c.run, c.at, c.slot)
    /\ c.do \in {"submit", "create"} => OfAgent(p, c.at)
    /\ c.do = "create" => /\ c.slot \in Slots /\ st[c.slot].status = "absent" /\ jb[c.slot] # "absent"
                          /\ Origin(p, st, c.run, c.at, c.arg)
    /\ c.do = "method" =>
         \/ c.arg = "made" /\ AboutStep(c, st) /\ ~AtOnce(p, c.at)
         \/ /\ c.arg = "new" /\ Origin(p, st, c.run, c.at, c.slot)
            /\ p[c.at].runner = "builtin" /\ ~p[c.at].fan
    /\ c.do = "progress" => c.arg \in {"absent", "running", "completed", "failed"}
    /\ c.do = "verdict" => c.arg \in {"completed", "failed"}
    /\ c.do \in {"progress", "verdict"} /\ c.arg = "completed" =>
         ((\A k \in DOMAIN p : AtOnce(p, k)) => Ends(p, st, c.run))

\* What is known of a step run and its job.
StepTrue(s, p, st, jb, sw) ==
    /\ st[s].status = "absent" => st[s].at = 0
    /\ st[s].status # "absent" =>
         /\ Origin(p, st, st[s].of, st[s].at, st[s].from)
         /\ OfAgent(p, st[s].at) => jb[s] # "absent" /\ (st[s].status = "succeeded" => jb[s] = "succeeded")
         /\ st[s].status \notin Ended => (AtOnce(p, st[s].at) => OfAgent(p, st[s].at))
         /\ st[s].status = "running" => st[s].of \notin sw

Used == {s \in Slots : step[s].status # "absent" \/ job[s] # "absent"}
Goers == Workers \cup Slots

IsQueue(q) == q \in Seq({q[i] : i \in DOMAIN q})

StepRow == [of : Runs, at : Nat, from : 0..MaxSlots, status : {"absent", "queued", "running", "succeeded", "failed"}]
RunsTypes ==
    /\ plan \in Plans
    /\ run \in [Runs -> {"absent", "running", "completed", "failed"}]
    /\ step \in [Slots -> StepRow]
    /\ job \in [Slots -> {"absent", "queued", "claimed", "running", "succeeded", "failed"}]
    /\ todo = [w \in Goers |-> todo[w]]
    /\ swept \subseteq Runs /\ restarts \in 0..MaxRestarts

RowsTrue == \A s \in Slots : StepTrue(s, plan, step, job, swept)

\* A call to make a step run comes first in its queue, and a program is run after its
\* job's row is written.
QueueTrue(q, p, st, jb, sw) ==
    /\ IsQueue(q)
    /\ \A i \in DOMAIN q :
         /\ CallTrue(q[i], p, st, jb, sw)
         /\ q[i].do = "create" => i = 1
         /\ q[i].do = "jobrow" =>
              i + 1 \in DOMAIN q /\ q[i + 1].do = "invoke" /\ q[i + 1].slot = q[i].slot
QueuesTrue == \A w \in Goers : QueueTrue(todo[w], plan, step, job, swept)

\* Rows are made in the order of their numbers, and one goroutine has in hand a job
\* that was made and not yet its step run.
RowsInOrder ==
    /\ Used = 1..Taken
    /\ \A s \in Slots : todo[s] # <<>> => s \in Used
Creates(q, s) == q # <<>> /\ q[1].do = "create" /\ q[1].slot = s
CreatesApart ==
    \A w, v \in Goers, s \in Slots : Creates(todo[w], s) /\ Creates(todo[v], s) => w = v

EndTrue(status, p, st, r, sw) ==
    /\ r \in sw => status = "failed"
    /\ status = "completed" => ((\A k \in DOMAIN p : AtOnce(p, k)) => Ends(p, st, r))
RunsTrue == \A r \in Runs : EndTrue(run[r], plan, step, r, swept)

RunsInvariant ==
    /\ RunsTypes /\ RowsTrue /\ QueuesTrue /\ RowsInOrder /\ CreatesApart
    /\ RunsTrue /\ RunningIsActive

-----------------------------------------------------------------------------
\* Queues of calls.
LEMMA QueueFacts ==
    ASSUME NEW q, IsQueue(q)
    PROVE  /\ Len(q) \in Nat /\ DOMAIN q = 1..Len(q)
           /\ q = <<>> <=> Len(q) = 0
           /\ q # <<>> => Len(q) > 0 /\ 1 \in DOMAIN q /\ Head(q) = q[1]
<1>1. PICK Any : q \in Seq(Any)
  BY DEF IsQueue
<1>2. Len(q) \in Nat /\ DOMAIN q = 1..Len(q)
  BY <1>1, LenProperties
<1>3. q = <<>> <=> Len(q) = 0
  BY <1>1, EmptySeq
<1>4. q # <<>> => Head(q) = q[1]
  BY <1>1
<1>. QED
  BY <1>2, <1>3, <1>4

LEMMA SeqIsQueue == ASSUME NEW Any, NEW q \in Seq(Any) PROVE IsQueue(q)
<1>1. Len(q) \in Nat /\ DOMAIN q = 1..Len(q) /\ q \in [1..Len(q) -> Any]
  BY LenProperties
<1>2. PICK T : T = {q[i] : i \in DOMAIN q}
  OBVIOUS
<1>3. q \in [1..Len(q) -> T]
  BY <1>1, <1>2
<1>4. q \in Seq(T)
  BY <1>1, <1>3, SeqDef
<1>. QED
  BY <1>2, <1>4 DEF IsQueue

LEMMA FunctionIsQueue ==
    ASSUME NEW n \in Nat, NEW Any, NEW q \in [1..n -> Any] PROVE IsQueue(q) /\ Len(q) = n /\ DOMAIN q = 1..n
<1>1. q \in Seq(Any)
  BY SeqDef
<1>2. Len(q) = n
  OBVIOUS
<1>. QED
  BY <1>1, <1>2, SeqIsQueue

LEMMA NoCall == IsQueue(<<>>) /\ Len(<<>>) = 0 /\ DOMAIN <<>> = {}
<1>1. <<>> \in Seq({})
  OBVIOUS
<1>2. IsQueue(<<>>) /\ Len(<<>>) = 0
  BY <1>1, SeqIsQueue
<1>. QED
  BY <1>2

LEMMA OneCall == ASSUME NEW c, NEW q, q = <<c>> PROVE IsQueue(q) /\ Len(q) = 1 /\ DOMAIN q = {1} /\ q[1] = c
<1>1. q \in Seq({c})
  OBVIOUS
<1>2. IsQueue(q)
  BY <1>1, SeqIsQueue
<1>. QED
  BY <1>2

LEMMA TwoCalls ==
    ASSUME NEW c, NEW d, NEW q, q = <<c, d>>
    PROVE  IsQueue(q) /\ Len(q) = 2 /\ DOMAIN q = {1, 2} /\ q[1] = c /\ q[2] = d
<1>1. q \in Seq({c, d})
  OBVIOUS
<1>2. IsQueue(q)
  BY <1>1, SeqIsQueue
<1>. QED
  BY <1>2

Joined(a, b, q) ==
    /\ IsQueue(q) /\ Len(q) = Len(a) + Len(b)
    /\ \A i \in 1..Len(a) : q[i] = a[i]
    /\ \A i \in 1..Len(b) : q[Len(a) + i] = b[i]

LEMMA BothQueues ==
    ASSUME NEW a, IsQueue(a), NEW b, IsQueue(b), NEW q, q = a \o b
    PROVE  Joined(a, b, q)
<1>1. PICK Any : a \in Seq(Any)
  BY DEF IsQueue
<1>2. PICK T : b \in Seq(T)
  BY DEF IsQueue
<1>3. PICK U : U = Any \cup T
  OBVIOUS
<1>4. a \in Seq(U) /\ b \in Seq(U)
  BY <1>1, <1>2, <1>3, SeqMonotonic
<1>5. /\ q \in Seq(U) /\ Len(q) = Len(a) + Len(b)
      /\ \A i \in 1 .. Len(a) + Len(b) : q[i] = IF i <= Len(a) THEN a[i] ELSE b[i - Len(a)]
  BY <1>4, ConcatProperties
<1>6. Len(a) \in Nat /\ Len(b) \in Nat
  BY <1>4, LenProperties
<1>7. IsQueue(q)
  BY <1>5, SeqIsQueue
<1>8. ASSUME NEW i \in 1..Len(b) PROVE q[Len(a) + i] = b[i]
  <2>1. Len(a) + i \in 1..Len(a) + Len(b) /\ ~(Len(a) + i <= Len(a)) /\ (Len(a) + i) - Len(a) = i
    BY <1>6
  <2>. QED
    BY <1>5, <2>1
<1>9. ASSUME NEW i \in 1..Len(a) PROVE q[i] = a[i]
  BY <1>5, <1>6
<1>. QED
  BY <1>5, <1>7, <1>8, <1>9 DEF Joined

LEMMA QueueTail ==
    ASSUME NEW q, IsQueue(q), q # <<>>, NEW t, t = Tail(q)
    PROVE  IsQueue(t) /\ Len(t) = Len(q) - 1 /\ \A i \in 1..Len(t) : t[i] = q[i + 1]
<1>1. PICK Any : q \in Seq(Any)
  BY DEF IsQueue
<1>2. t \in Seq(Any) /\ Len(t) = Len(q) - 1 /\ \A i \in 1..Len(t) : t[i] = q[i + 1]
  BY <1>1, HeadTailProperties
<1>. QED
  BY <1>2, SeqIsQueue

\* What Then leaves: the calls it puts in front, and what came after the head.
Pushed(q, cs, p) ==
    /\ IsQueue(p) /\ Len(p) = Len(cs) + Len(q) - 1
    /\ \A i \in DOMAIN p :
         \/ i \in DOMAIN cs /\ p[i] = cs[i]
         \/ i \notin DOMAIN cs /\ \E j \in DOMAIN q : j > 1 /\ i = Len(cs) + j - 1 /\ p[i] = q[j]
    /\ \A i \in DOMAIN cs : i \in DOMAIN p /\ p[i] = cs[i]
    /\ \A j \in DOMAIN q : j > 1 => Len(cs) + j - 1 \in DOMAIN p /\ p[Len(cs) + j - 1] = q[j]

LEMMA PushGives ==
    ASSUME NEW q, IsQueue(q), q # <<>>, NEW cs, IsQueue(cs), NEW p, p = cs \o Tail(q)
    PROVE  Pushed(q, cs, p)
<1>1. PICK t : t = Tail(q)
  OBVIOUS
<1>2. IsQueue(t) /\ Len(t) = Len(q) - 1 /\ \A i \in 1..Len(t) : t[i] = q[i + 1]
  BY <1>1, QueueTail
<1>3. p = cs \o t
  BY <1>1
<1>4. /\ IsQueue(p) /\ Len(p) = Len(cs) + Len(t)
      /\ \A i \in 1..Len(cs) : p[i] = cs[i]
      /\ \A i \in 1..Len(t) : p[Len(cs) + i] = t[i]
  <2>1. Joined(cs, t, p)
    BY <1>2, <1>3, BothQueues
  <2>. QED
    BY <2>1 DEF Joined
<1>5. /\ Len(p) \in Nat /\ DOMAIN p = 1..Len(p) /\ Len(q) \in Nat /\ DOMAIN q = 1..Len(q)
      /\ Len(cs) \in Nat /\ DOMAIN cs = 1..Len(cs) /\ Len(q) > 0
  BY <1>4, QueueFacts
<1>6. ASSUME NEW j \in DOMAIN q, j > 1
      PROVE  Len(cs) + j - 1 \in DOMAIN p /\ p[Len(cs) + j - 1] = q[j]
  <2>1. j - 1 \in 1..Len(t) /\ Len(cs) + (j - 1) = Len(cs) + j - 1 /\ (j - 1) + 1 = j
    BY <1>2, <1>5, <1>6
  <2>2. p[Len(cs) + (j - 1)] = t[j - 1] /\ t[j - 1] = q[(j - 1) + 1]
    BY <1>2, <1>4, <2>1
  <2>3. Len(cs) + j - 1 \in 1..Len(p)
    BY <1>2, <1>4, <1>5, <1>6
  <2>. QED
    BY <1>5, <2>1, <2>2, <2>3
<1>7. ASSUME NEW i \in DOMAIN p
      PROVE  \/ i \in DOMAIN cs /\ p[i] = cs[i]
             \/ i \notin DOMAIN cs /\ \E j \in DOMAIN q : j > 1 /\ i = Len(cs) + j - 1 /\ p[i] = q[j]
  <2>1. CASE i \in DOMAIN cs
    BY <1>4, <1>5, <2>1
  <2>2. CASE i \notin DOMAIN cs
    <3>1. PICK j : j = i - Len(cs) + 1
      OBVIOUS
    <3>2. j \in DOMAIN q /\ j > 1 /\ i = Len(cs) + j - 1
      BY <1>2, <1>4, <1>5, <2>2, <3>1
    <3>3. p[i] = q[j]
      BY <1>6, <3>2
    <3>. QED
      BY <2>2, <3>2, <3>3
  <2>. QED
    BY <2>1, <2>2
<1>8. \A i \in DOMAIN cs : i \in DOMAIN p /\ p[i] = cs[i]
  BY <1>2, <1>4, <1>5
<1>9. Len(p) = Len(cs) + Len(q) - 1
  BY <1>2, <1>4, <1>5
<1>. QED
  BY <1>4, <1>6, <1>7, <1>8, <1>9 DEF Pushed

-----------------------------------------------------------------------------
\* What every step but a restart leaves as it was.
Grows(p, st, jb, st2, jb2) ==
    \A s \in Slots :
        /\ st[s].status # "absent" =>
             st2[s].status # "absent" /\ st2[s].of = st[s].of /\ st2[s].at = st[s].at
        /\ st[s].status = "succeeded" /\ AtOnce(p, st[s].at) => st2[s].status = "succeeded"
        /\ jb[s] # "absent" => jb2[s] # "absent"
        /\ st[s].status # "absent" /\ OfAgent(p, st[s].at) /\ jb[s] \in Ended => jb2[s] = jb[s]

LEMMA BoundsAreNumbers ==
    /\ MaxSlots \in Nat /\ MinItems \in Nat /\ MaxItems \in Nat /\ MaxRestarts \in Nat
    /\ Runs # {} /\ Workers \cap Slots = {}
    /\ \A p \in Plans : p # <<>> /\ IsQueue(p) /\ \A k \in DOMAIN p :
         p[k].runner \in {"agent", "builtin", "cli"} /\ p[k].fan \in BOOLEAN
<1>1. /\ {MaxSlots, MinItems, MaxItems, MaxRestarts} \subseteq Nat
      /\ Runs # {} /\ Workers \cap Slots = {}
      /\ \A p \in Plans : p # <<>> /\ p \in Seq([runner : {"agent", "builtin", "cli"}, fan : BOOLEAN])
  BY EnginePartsAssumption, Zenon DEF EnginePartsAssumption, PlansAssumption
<1>2. ASSUME NEW p \in Plans
      PROVE  p # <<>> /\ IsQueue(p) /\ \A k \in DOMAIN p :
               p[k].runner \in {"agent", "builtin", "cli"} /\ p[k].fan \in BOOLEAN
  <2>1. PICK Any : Any = [runner : {"agent", "builtin", "cli"}, fan : BOOLEAN]
    OBVIOUS
  <2>2. p # <<>> /\ p \in Seq(Any)
    BY <1>1, <2>1, Zenon
  <2>3. IsQueue(p)
    BY <2>2, SeqIsQueue
  <2>4. \A k \in DOMAIN p : p[k] \in Any
    BY <2>2, LenProperties, ElementOfSeq
  <2>5. \A x \in Any : x.runner \in {"agent", "builtin", "cli"} /\ x.fan \in BOOLEAN
    BY <2>1
  <2>. QED
    BY <2>2, <2>3, <2>4, <2>5
<1>. QED
  BY <1>1, <1>2

LEMMA OriginStays ==
    ASSUME NEW p, NEW st, NEW jb, NEW st2, NEW jb2, Grows(p, st, jb, st2, jb2),
           NEW r, NEW k, NEW f, Origin(p, st, r, k, f)
    PROVE  Origin(p, st2, r, k, f)
<1>1. f # 0 => f \in Slots
  BY BoundsAreNumbers DEF Origin, Slots
<1>. QED
  BY <1>1 DEF Origin, Grows

LEMMA EndStays ==
    ASSUME NEW p, NEW st, NEW jb, NEW st2, NEW jb2, Grows(p, st, jb, st2, jb2),
           NEW r, Len(p) \in DOMAIN p, \A k \in DOMAIN p : AtOnce(p, k), Ends(p, st, r)
    PROVE  Ends(p, st2, r)
BY DEF Ends, Grows

LEMMA CallStays ==
    ASSUME NEW p, NEW st, NEW jb, NEW st2, NEW jb2, Grows(p, st, jb, st2, jb2), Len(p) \in DOMAIN p,
           NEW sw, NEW c, CallTrue(c, p, st, jb, sw), c.do = "create" => st2[c.slot].status = "absent"
    PROVE  CallTrue(c, p, st2, jb2, sw)
<1>1. /\ IsCall(c, c.do, c.run, c.at, c.slot, c.arg)
      /\ c.run \in Runs /\ c.do \in StepCalls \cup RunCalls \cup {"execute", "submit", "create", "method"}
      /\ c.do # "lookup" => c.run \notin sw
      /\ c.do = "lookup" => c.slot \in Slots
      /\ c.do \in AloneCalls => ~AtOnce(p, c.at)
      /\ c.do \in {"check", "record"} => (AtOnce(p, c.at) => OfAgent(p, c.at))
      /\ c.do = "finish" => c.arg \in Ended
      /\ c.do \in {"submit", "create"} => OfAgent(p, c.at)
      /\ c.do = "progress" => c.arg \in {"absent", "running", "completed", "failed"}
      /\ c.do = "verdict" => c.arg \in {"completed", "failed"}
  BY DEF CallTrue
<1>2. AboutStep(c, st) => AboutStep(c, st2)
  BY DEF AboutStep, Grows
<1>3. c.do \in StepCalls => AboutStep(c, st2)
  BY <1>2 DEF CallTrue
<1>4. c.do = "record" => c.arg \in Ended /\ (OfAgent(p, c.at) => c.arg = jb2[c.slot])
  BY DEF CallTrue, AboutStep, Grows, StepCalls
<1>5. c.do = "advance" => (AtOnce(p, c.at) => st2[c.slot].status = "succeeded")
  BY DEF CallTrue, AboutStep, Grows, StepCalls
<1>6. c.do \in {"execute", "submit"} => Origin(p, st2, c.run, c.at, c.slot)
  BY OriginStays DEF CallTrue
<1>7. c.do = "create" => /\ c.slot \in Slots /\ st2[c.slot].status = "absent" /\ jb2[c.slot] # "absent"
                         /\ Origin(p, st2, c.run, c.at, c.arg)
  <2>. SUFFICES ASSUME c.do = "create"
                PROVE  /\ c.slot \in Slots /\ st2[c.slot].status = "absent" /\ jb2[c.slot] # "absent"
                       /\ Origin(p, st2, c.run, c.at, c.arg)
    OBVIOUS
  <2>1. c.slot \in Slots /\ jb[c.slot] # "absent" /\ Origin(p, st, c.run, c.at, c.arg)
    BY DEF CallTrue
  <2>2. Origin(p, st2, c.run, c.at, c.arg)
    BY <2>1, OriginStays
  <2>. QED
    BY <2>1, <2>2 DEF Grows
<1>8. c.do = "method" =>
        \/ c.arg = "made" /\ AboutStep(c, st2) /\ ~AtOnce(p, c.at)
        \/ /\ c.arg = "new" /\ Origin(p, st2, c.run, c.at, c.slot)
           /\ p[c.at].runner = "builtin" /\ ~p[c.at].fan
  <2>. SUFFICES ASSUME c.do = "method"
                PROVE  \/ c.arg = "made" /\ AboutStep(c, st2) /\ ~AtOnce(p, c.at)
                       \/ /\ c.arg = "new" /\ Origin(p, st2, c.run, c.at, c.slot)
                          /\ p[c.at].runner = "builtin" /\ ~p[c.at].fan
    OBVIOUS
  <2>1. CASE c.arg = "made" /\ AboutStep(c, st) /\ ~AtOnce(p, c.at)
    BY <1>2, <2>1
  <2>2. CASE /\ c.arg = "new" /\ Origin(p, st, c.run, c.at, c.slot)
             /\ p[c.at].runner = "builtin" /\ ~p[c.at].fan
    <3>1. Origin(p, st2, c.run, c.at, c.slot)
      BY <2>2, OriginStays
    <3>. QED
      BY <2>2, <3>1, Zenon
  <2>. QED
    BY <2>1, <2>2, Zenon DEF CallTrue
<1>9. c.do \in {"progress", "verdict"} /\ c.arg = "completed" =>
        ((\A k \in DOMAIN p : AtOnce(p, k)) => Ends(p, st2, c.run))
  BY EndStays DEF CallTrue
<1>. QED
  BY <1>1, <1>3, <1>4, <1>5, <1>6, <1>7, <1>8, <1>9, Zenon DEF CallTrue

LEMMA RowStays ==
    ASSUME NEW p, NEW st, NEW jb, NEW st2, NEW jb2, Grows(p, st, jb, st2, jb2),
           NEW sw, NEW s \in Slots, StepTrue(s, p, st, jb, sw), st2[s] = st[s]
    PROVE  StepTrue(s, p, st2, jb2, sw)
<1>1. st[s].status # "absent" => Origin(p, st2, st2[s].of, st2[s].at, st2[s].from)
  BY OriginStays DEF StepTrue
<1>. QED
  BY <1>1 DEF StepTrue, Grows, Ended

-----------------------------------------------------------------------------
\* Queues, over a step.
LEMMA QueueStays ==
    ASSUME NEW p, NEW st, NEW jb, NEW st2, NEW jb2, Grows(p, st, jb, st2, jb2), Len(p) \in DOMAIN p,
           NEW sw, NEW q, QueueTrue(q, p, st, jb, sw),
           \A s \in Slots : Creates(q, s) => st2[s].status = "absent"
    PROVE  QueueTrue(q, p, st2, jb2, sw)
<1>1. ASSUME NEW i \in DOMAIN q PROVE CallTrue(q[i], p, st2, jb2, sw)
  <2>1. CallTrue(q[i], p, st, jb, sw) /\ (q[i].do = "create" => i = 1)
    BY DEF QueueTrue
  <2>2. q[i].do = "create" => st2[q[i].slot].status = "absent"
    <3>. SUFFICES ASSUME q[i].do = "create" PROVE st2[q[i].slot].status = "absent"
      OBVIOUS
    <3>1. i = 1 /\ q[i].slot \in Slots /\ q # <<>>
      BY <2>1, NoCall DEF CallTrue
    <3>. QED
      BY <3>1 DEF Creates
  <2>. QED
    BY <2>1, <2>2, CallStays
<1>. QED
  BY <1>1 DEF QueueTrue

NewCalls(cs, p, st, jb, sw) ==
    /\ IsQueue(cs)
    /\ \A i \in DOMAIN cs :
         /\ CallTrue(cs[i], p, st, jb, sw)
         /\ cs[i].do = "create" => i = 1
         /\ cs[i].do = "jobrow" =>
              i + 1 \in DOMAIN cs /\ cs[i + 1].do = "invoke" /\ cs[i + 1].slot = cs[i].slot

LEMMA QueueGoesOn ==
    ASSUME NEW p, NEW st, NEW jb, NEW st2, NEW jb2, Grows(p, st, jb, st2, jb2), Len(p) \in DOMAIN p,
           NEW sw, NEW q, QueueTrue(q, p, st, jb, sw), NEW cs, NewCalls(cs, p, st2, jb2, sw),
           NEW q2, Pushed(q, cs, q2)
    PROVE  QueueTrue(q2, p, st2, jb2, sw)
<1>0. /\ IsQueue(q) /\ IsQueue(cs) /\ IsQueue(q2)
      /\ DOMAIN q = 1..Len(q) /\ DOMAIN cs = 1..Len(cs) /\ DOMAIN q2 = 1..Len(q2)
      /\ Len(q) \in Nat /\ Len(cs) \in Nat /\ Len(q2) \in Nat
  <2>1. IsQueue(q) /\ IsQueue(cs) /\ IsQueue(q2)
    BY DEF QueueTrue, NewCalls, Pushed
  <2>. QED
    BY <2>1, QueueFacts
<1>1. ASSUME NEW j \in DOMAIN q, j > 1 PROVE CallTrue(q[j], p, st2, jb2, sw) /\ q[j].do # "create"
  <2>1. CallTrue(q[j], p, st, jb, sw) /\ q[j].do # "create"
    BY <1>0, <1>1 DEF QueueTrue
  <2>. QED
    BY <2>1, CallStays
<1>2. ASSUME NEW i \in DOMAIN q2
      PROVE  /\ CallTrue(q2[i], p, st2, jb2, sw)
             /\ q2[i].do = "create" => i = 1
             /\ q2[i].do = "jobrow" =>
                  i + 1 \in DOMAIN q2 /\ q2[i + 1].do = "invoke" /\ q2[i + 1].slot = q2[i].slot
  <2>1. CASE i \in DOMAIN cs /\ q2[i] = cs[i]
    <3>1. /\ CallTrue(cs[i], p, st2, jb2, sw)
          /\ cs[i].do = "create" => i = 1
          /\ cs[i].do = "jobrow" =>
               i + 1 \in DOMAIN cs /\ cs[i + 1].do = "invoke" /\ cs[i + 1].slot = cs[i].slot
      BY <2>1 DEF NewCalls
    <3>2. \A k \in DOMAIN cs : k \in DOMAIN q2 /\ q2[k] = cs[k]
      BY DEF Pushed
    <3>3. q2[i].do = "jobrow" =>
            i + 1 \in DOMAIN q2 /\ q2[i + 1].do = "invoke" /\ q2[i + 1].slot = q2[i].slot
      BY <2>1, <3>1, <3>2
    <3>. QED
      BY <2>1, <3>1, <3>3
  <2>2. CASE i \notin DOMAIN cs /\ \E j \in DOMAIN q : j > 1 /\ i = Len(cs) + j - 1 /\ q2[i] = q[j]
    <3>1. PICK j \in DOMAIN q : j > 1 /\ i = Len(cs) + j - 1 /\ q2[i] = q[j]
      BY <2>2
    <3>2. CallTrue(q2[i], p, st2, jb2, sw) /\ q2[i].do # "create"
      BY <1>1, <3>1
    <3>3. q2[i].do = "jobrow" =>
            i + 1 \in DOMAIN q2 /\ q2[i + 1].do = "invoke" /\ q2[i + 1].slot = q2[i].slot
      <4>. SUFFICES ASSUME q2[i].do = "jobrow"
                    PROVE  i + 1 \in DOMAIN q2 /\ q2[i + 1].do = "invoke" /\ q2[i + 1].slot = q2[i].slot
        OBVIOUS
      <4>1. PICK l : l = j + 1
        OBVIOUS
      <4>2. l \in DOMAIN q /\ q[l].do = "invoke" /\ q[l].slot = q[j].slot
        BY <3>1, <4>1 DEF QueueTrue
      <4>3. l > 1 /\ Len(cs) + l - 1 = i + 1
        <5>1. j \in Nat
          BY <1>0
        <5>. QED
          BY <1>0, <3>1, <4>1, <5>1
      <4>4. Len(cs) + l - 1 \in DOMAIN q2 /\ q2[Len(cs) + l - 1] = q[l]
        BY <4>2, <4>3 DEF Pushed
      <4>. QED
        BY <3>1, <4>2, <4>3, <4>4
    <3>. QED
      BY <3>2, <3>3
  <2>. QED
    BY <2>1, <2>2 DEF Pushed
<1>. QED
  BY <1>0, <1>2 DEF QueueTrue

-----------------------------------------------------------------------------
\* A goroutine makes a call, and what comes of it is put before what it had to do.
Touched ==
    /\ UNCHANGED <<plan, swept, restarts>>
    /\ run' \in [Runs -> {"absent", "running", "completed", "failed"}]
    /\ step' \in [Slots -> StepRow]
    /\ job' \in [Slots -> {"absent", "queued", "claimed", "running", "succeeded", "failed"}]
    /\ Grows(plan, step, job, step', job')
    /\ \A s \in Slots : StepTrue(s, plan, step', job', swept)
    /\ Used' = 1..Taken'
    /\ \A r \in Runs : EndTrue(run'[r], plan, step', r, swept)

LEMMA PlanHasEnd ==
    ASSUME RunsTypes
    PROVE  /\ Len(plan) \in DOMAIN plan /\ DOMAIN plan = 1..Len(plan) /\ Len(plan) \in Nat
           /\ \A k \in DOMAIN plan : plan[k].runner \in {"agent", "builtin", "cli"} /\ plan[k].fan \in BOOLEAN
<1>1. IsQueue(plan) /\ plan # <<>>
  BY BoundsAreNumbers DEF RunsTypes
<1>2. Len(plan) \in Nat /\ DOMAIN plan = 1..Len(plan) /\ Len(plan) > 0
  BY <1>1, QueueFacts
<1>3. Len(plan) \in DOMAIN plan
  BY <1>2
<1>4. \A k \in DOMAIN plan : plan[k].runner \in {"agent", "builtin", "cli"} /\ plan[k].fan \in BOOLEAN
  BY BoundsAreNumbers DEF RunsTypes
<1>. QED
  BY <1>2, <1>3, <1>4

LEMMA CreatesWhatIsMade ==
    ASSUME RunsInvariant, NEW w \in Goers, NEW s \in Slots, Creates(todo[w], s)
    PROVE  step[s].status = "absent" /\ job[s] # "absent" /\ s \in Used
<1>1. QueueTrue(todo[w], plan, step, job, swept)
  BY DEF RunsInvariant, QueuesTrue
<1>2. 1 \in DOMAIN todo[w] /\ todo[w][1].do = "create" /\ todo[w][1].slot = s
  BY <1>1, QueueFacts DEF Creates, QueueTrue
<1>3. CallTrue(todo[w][1], plan, step, job, swept)
  BY <1>1, <1>2 DEF QueueTrue
<1>. QED
  BY <1>2, <1>3 DEF CallTrue, Used

LEMMA UsedGrows == ASSUME Grows(plan, step, job, step', job') PROVE Used \subseteq Used'
BY DEF Used, Grows

\* Goroutines begin.
Opens(fresh) ==
    /\ fresh \subseteq Slots
    /\ \A v \in fresh : /\ v \in Used' /\ todo[v] = <<>> /\ NewCalls(todo'[v], plan, step', job', swept)
                        /\ \A s \in Slots : ~Creates(todo'[v], s)

LEMMA GoesOnWith ==
    ASSUME RunsInvariant, NEW w \in Goers, todo[w] # <<>>, Touched,
           NEW cs, NEW fresh, Opens(fresh), todo' = [v \in Goers |-> todo'[v]],
           todo'[w] = cs \o Tail(todo[w]), \A v \in Goers : v # w /\ v \notin fresh => todo'[v] = todo[v],
           NewCalls(cs, plan, step', job', swept),
           \A s \in Slots : Creates(cs, s) => s \notin Used,
           \A s \in Slots : step[s].status = "absent" /\ job[s] # "absent" /\ step'[s].status # "absent"
                              => Creates(todo[w], s),
           \A s \in Slots : job'[s] = "running" =>
                \/ job[s] = "running" /\ ~(todo[w][1].do = "invoke" /\ todo[w][1].slot = s)
                \/ todo[w][1].do = "jobrow" /\ todo[w][1].slot = s
    PROVE  RunsInvariant'
<1>. USE DEF RunsInvariant
<1>0. /\ UNCHANGED <<plan, swept, restarts>> /\ Grows(plan, step, job, step', job')
      /\ todo = [v \in Goers |-> todo[v]] /\ Len(plan) \in DOMAIN plan
  BY PlanHasEnd DEF Touched, RunsTypes
<1>1. /\ \A v \in Goers : v # w /\ v \notin fresh => todo'[v] = todo[v]
      /\ todo'[w] = cs \o Tail(todo[w]) /\ todo' = [v \in Goers |-> todo'[v]]
      /\ fresh \subseteq Slots /\ w \notin fresh
      /\ \A v \in fresh : /\ v \in Used' /\ todo[v] = <<>> /\ NewCalls(todo'[v], plan, step', job', swept)
                          /\ \A s \in Slots : ~Creates(todo'[v], s)
  BY DEF Opens
<1>2. QueueTrue(todo[w], plan, step, job, swept) /\ IsQueue(todo[w]) /\ IsQueue(cs)
  BY DEF QueuesTrue, QueueTrue, NewCalls
<1>3. PICK q, q2 : q = todo[w] /\ q2 = todo'[w]
  OBVIOUS
<1>4. Pushed(q, cs, q2) /\ q # <<>> /\ QueueTrue(q, plan, step, job, swept) /\ IsQueue(q)
  <2>1. q2 = cs \o Tail(q) /\ q # <<>> /\ IsQueue(q)
    BY <1>1, <1>2, <1>3
  <2>. QED
    BY <1>2, <1>3, <2>1, PushGives
<1>5. /\ 1 \in DOMAIN q /\ DOMAIN q = 1..Len(q) /\ Len(q) \in Nat
      /\ DOMAIN cs = 1..Len(cs) /\ Len(cs) \in Nat /\ IsQueue(q2) /\ DOMAIN q2 = 1..Len(q2) /\ Len(q2) \in Nat
  <2>1. IsQueue(q2)
    BY <1>4 DEF Pushed
  <2>. QED
    BY <1>2, <1>4, <2>1, QueueFacts
<1>6. RunsTypes'
  BY <1>0, <1>1 DEF RunsTypes, Touched
<1>7. QueuesTrue'
  <2>1. ASSUME NEW v \in Goers PROVE QueueTrue(todo'[v], plan, step', job', swept)
    <3>1. CASE v = w
      <4>1. QueueTrue(q2, plan, step', job', swept)
        BY <1>0, <1>4, QueueGoesOn
      <4>. QED
        BY <1>3, <3>1, <4>1
    <3>2. CASE v # w /\ v \notin fresh
      <4>1. todo'[v] = todo[v] /\ QueueTrue(todo[v], plan, step, job, swept)
        BY <1>1, <3>2 DEF QueuesTrue
      <4>2. ASSUME NEW s \in Slots, Creates(todo[v], s) PROVE step'[s].status = "absent"
        <5>1. step[s].status = "absent" /\ job[s] # "absent"
          BY <4>2, CreatesWhatIsMade
        <5>2. ~Creates(todo[w], s)
          BY <3>2, <4>2 DEF CreatesApart
        <5>. QED
          BY <5>1, <5>2
      <4>3. PICK qv : qv = todo[v]
        OBVIOUS
      <4>4. QueueTrue(qv, plan, step, job, swept) /\ \A s \in Slots : Creates(qv, s) => step'[s].status = "absent"
        BY <4>1, <4>2, <4>3
      <4>5. QueueTrue(qv, plan, step', job', swept)
        BY <1>0, <4>4, QueueStays
      <4>. QED
        BY <4>1, <4>3, <4>5
    <3>3. CASE v \in fresh
      <4>1. PICK qv : qv = todo'[v]
        OBVIOUS
      <4>2. NewCalls(qv, plan, step', job', swept)
        BY <1>1, <3>3, <4>1
      <4>3. QueueTrue(qv, plan, step', job', swept)
        BY <4>2 DEF NewCalls, QueueTrue
      <4>. QED
        BY <4>1, <4>3
    <3>. QED
      BY <3>1, <3>2, <3>3
  <2>. QED
    BY <1>0, <2>1 DEF QueuesTrue
<1>8. RowsTrue' /\ RunsTrue'
  BY <1>0 DEF RowsTrue, RunsTrue, Touched
<1>9. RowsInOrder'
  <2>1. ASSUME NEW s \in Slots, todo'[s] # <<>> PROVE s \in Used'
    <3>1. CASE s \in fresh
      BY <1>1, <3>1
    <3>2. CASE s \notin fresh
      <4>1. s \in Goers /\ todo[s] # <<>>
        BY <1>1, <2>1, <3>2 DEF Goers
      <4>2. s \in Used
        BY <4>1 DEF RowsInOrder
      <4>. QED
        BY <1>0, <4>2, UsedGrows
    <3>. QED
      BY <3>1, <3>2
  <2>. QED
    BY <2>1 DEF RowsInOrder, Touched
<1>10. CreatesApart'
  <2>1. ASSUME NEW s \in Slots, Creates(q2, s) PROVE s \notin Used
    <3>1. 1 \in DOMAIN q2 /\ q2[1].do = "create" /\ q2[1].slot = s
      BY <1>5, <2>1, QueueFacts DEF Creates
    <3>2. CASE 1 \in DOMAIN cs /\ q2[1] = cs[1]
      <4>1. Creates(cs, s)
        BY <3>1, <3>2, NoCall DEF Creates
      <4>. QED
        BY <4>1
    <3>3. CASE 1 \notin DOMAIN cs /\ \E j \in DOMAIN q : j > 1 /\ 1 = Len(cs) + j - 1 /\ q2[1] = q[j]
      BY <1>4, <3>1, <3>3 DEF QueueTrue
    <3>. QED
      BY <1>4, <3>1, <3>2, <3>3 DEF Pushed
  <2>2. ASSUME NEW v \in Goers, NEW s \in Slots, Creates(todo[v], s) PROVE s \in Used
    BY <2>2, CreatesWhatIsMade
  <2>3. \A v, u \in Goers, s \in Slots : Creates(todo'[v], s) /\ Creates(todo'[u], s) => v = u
    <3>. SUFFICES ASSUME NEW v \in Goers, NEW u \in Goers, NEW s \in Slots,
                         Creates(todo'[v], s), Creates(todo'[u], s), v # u PROVE FALSE
      OBVIOUS
    <3>0. v \notin fresh /\ u \notin fresh
      BY <1>1
    <3>1. CASE v # w /\ u # w
      BY <1>1, <3>0, <3>1 DEF CreatesApart
    <3>2. CASE v = w
      BY <1>1, <1>3, <2>1, <2>2, <3>0, <3>2
    <3>3. CASE u = w
      BY <1>1, <1>3, <2>1, <2>2, <3>0, <3>3
    <3>. QED
      BY <3>1, <3>2, <3>3
  <2>. QED
    BY <2>3 DEF CreatesApart
<1>11. RunningIsActive'
  <2>. SUFFICES ASSUME NEW s \in Slots, job'[s] = "running"
                PROVE  \E v \in Goers : \E i \in DOMAIN todo'[v] :
                          todo'[v][i].do = "invoke" /\ todo'[v][i].slot = s
    BY DEF RunningIsActive, Goers
  <2>1. CASE todo[w][1].do = "jobrow" /\ todo[w][1].slot = s
    <3>1. 2 \in DOMAIN q /\ q[2].do = "invoke" /\ q[2].slot = s
      <4>1. 1 + 1 \in DOMAIN q /\ q[1 + 1].do = "invoke" /\ q[1 + 1].slot = q[1].slot
        BY <1>3, <1>4, <1>5, <2>1 DEF QueueTrue
      <4>. QED
        BY <1>3, <2>1, <4>1
    <3>2. PICK i : i = Len(cs) + 2 - 1
      OBVIOUS
    <3>3. i \in DOMAIN q2 /\ q2[i] = q[2]
      BY <1>4, <3>1, <3>2 DEF Pushed
    <3>. QED
      BY <1>3, <3>1, <3>3
  <2>2. CASE job[s] = "running" /\ ~(todo[w][1].do = "invoke" /\ todo[w][1].slot = s)
    <3>1. PICK v \in Goers : \E i \in DOMAIN todo[v] : todo[v][i].do = "invoke" /\ todo[v][i].slot = s
      BY <2>2 DEF RunningIsActive, Goers
    <3>2. PICK j \in DOMAIN todo[v] : todo[v][j].do = "invoke" /\ todo[v][j].slot = s
      BY <3>1
    <3>3. CASE v # w
      <4>1. todo[v] # <<>>
        BY <3>2, NoCall
      <4>. QED
        BY <1>1, <3>2, <3>3, <4>1
    <3>4. CASE v = w
      <4>1. j \in DOMAIN q /\ q[j].do = "invoke" /\ q[j].slot = s /\ j # 1
        BY <1>3, <2>2, <3>2, <3>4
      <4>2. j > 1
        BY <1>5, <4>1
      <4>3. PICK i : i = Len(cs) + j - 1
        OBVIOUS
      <4>4. i \in DOMAIN q2 /\ q2[i] = q[j]
        BY <1>4, <4>1, <4>2, <4>3 DEF Pushed
      <4>. QED
        BY <1>3, <4>1, <4>4
    <3>. QED
      BY <3>3, <3>4
  <2>. QED
    BY <2>1, <2>2
<1>. QED
  BY <1>6, <1>7, <1>8, <1>9, <1>10, <1>11

LEMMA GoesOn ==
    ASSUME RunsInvariant, NEW w \in Goers, todo[w] # <<>>, Touched,
           NEW cs, todo' = [todo EXCEPT ![w] = cs \o Tail(@)],
           NewCalls(cs, plan, step', job', swept),
           \A s \in Slots : Creates(cs, s) => s \notin Used,
           \A s \in Slots : step[s].status = "absent" /\ job[s] # "absent" /\ step'[s].status # "absent"
                              => Creates(todo[w], s),
           \A s \in Slots : job'[s] = "running" =>
                \/ job[s] = "running" /\ ~(todo[w][1].do = "invoke" /\ todo[w][1].slot = s)
                \/ todo[w][1].do = "jobrow" /\ todo[w][1].slot = s
    PROVE  RunsInvariant'
<1>1. todo = [v \in Goers |-> todo[v]]
  BY DEF RunsInvariant, RunsTypes
<1>2. /\ todo' = [v \in Goers |-> todo'[v]] /\ todo'[w] = cs \o Tail(todo[w])
      /\ \A v \in Goers : v # w => todo'[v] = todo[v]
  BY <1>1
<1>3. PICK fresh : fresh = {}
  OBVIOUS
<1>4. Opens(fresh) /\ \A v \in Goers : v # w /\ v \notin fresh => todo'[v] = todo[v]
  BY <1>2, <1>3 DEF Opens
<1>. QED
  BY <1>2, <1>4, GoesOnWith

-----------------------------------------------------------------------------
\* Calls.
LEMMA CallHas ==
    ASSUME NEW c, NEW do, NEW r, NEW k, NEW s, NEW a, IsCall(c, do, r, k, s, a)
    PROVE  c.do = do /\ c.run = r /\ c.at = k /\ c.slot = s /\ c.arg = a
BY DEF IsCall

LEMMA CallBecomes ==
    ASSUME NEW c, IsCall(c, c.do, c.run, c.at, c.slot, c.arg), NEW d, NEW x, NEW y, NEW z
    PROVE  /\ d = [c EXCEPT !.do = x] => IsCall(d, x, c.run, c.at, c.slot, c.arg)
           /\ d = [c EXCEPT !.do = x, !.arg = y] => IsCall(d, x, c.run, c.at, c.slot, y)
           /\ d = [c EXCEPT !.do = x, !.slot = y] => IsCall(d, x, c.run, c.at, y, c.arg)
           /\ d = [c EXCEPT !.do = x, !.at = y] => IsCall(d, x, c.run, y, c.slot, c.arg)
           /\ d = [c EXCEPT !.do = x, !.slot = y, !.arg = z] => IsCall(d, x, c.run, c.at, y, z)
BY DEF IsCall

LEMMA CallMade ==
    ASSUME RunsInvariant, NEW w \in Goers, NEW name, Calls(w, name)
    PROVE  /\ todo[w] # <<>> /\ todo[w][1] = Now(w) /\ Now(w).do = name
           /\ CallTrue(Now(w), plan, step, job, swept) /\ IsQueue(todo[w])
<1>1. QueueTrue(todo[w], plan, step, job, swept)
  BY DEF RunsInvariant, QueuesTrue
<1>2. IsQueue(todo[w]) /\ todo[w] # <<>> /\ Now(w).do = name
  BY <1>1 DEF QueueTrue, Calls, Idle
<1>3. 1 \in DOMAIN todo[w] /\ todo[w][1] = Now(w)
  BY <1>2, QueueFacts DEF Now
<1>. QED
  BY <1>1, <1>2, <1>3 DEF QueueTrue

LEMMA NoNewCall == ASSUME NEW cs, cs = <<>>, NEW p, NEW st, NEW jb, NEW sw
                   PROVE  NewCalls(cs, p, st, jb, sw) /\ \A s : ~Creates(cs, s)
BY NoCall DEF NewCalls, Creates

LEMMA OneNewCall ==
    ASSUME NEW c, NEW cs, cs = <<c>>, NEW p, NEW st, NEW jb, NEW sw, CallTrue(c, p, st, jb, sw), c.do # "jobrow"
    PROVE  /\ NewCalls(cs, p, st, jb, sw)
           /\ \A s : Creates(cs, s) => c.do = "create" /\ c.slot = s
<1>1. IsQueue(cs) /\ Len(cs) = 1 /\ DOMAIN cs = {1} /\ cs[1] = c
  BY OneCall
<1>. QED
  BY <1>1 DEF NewCalls, Creates

LEMMA TwoNewCalls ==
    ASSUME NEW c, NEW d, NEW cs, cs = <<c, d>>, NEW p, NEW st, NEW jb, NEW sw,
           CallTrue(c, p, st, jb, sw), CallTrue(d, p, st, jb, sw), c.do # "create", d.do # "create",
           d.do # "jobrow", c.do = "jobrow" => d.do = "invoke" /\ d.slot = c.slot
    PROVE  NewCalls(cs, p, st, jb, sw) /\ \A s : ~Creates(cs, s)
<1>1. IsQueue(cs) /\ Len(cs) = 2 /\ DOMAIN cs = {1, 2} /\ cs[1] = c /\ cs[2] = d
  BY TwoCalls
<1>. QED
  BY <1>1 DEF NewCalls, Creates

LEMMA ManyNewCalls ==
    ASSUME NEW a, NEW b, NEW cs, cs = a \o b, NEW p, NEW st, NEW jb, NEW sw,
           NewCalls(a, p, st, jb, sw), NewCalls(b, p, st, jb, sw), \A i \in DOMAIN b : b[i].do # "create",
           \A s : ~Creates(a, s)
    PROVE  NewCalls(cs, p, st, jb, sw) /\ \A s : ~Creates(cs, s)
<1>1. /\ IsQueue(a) /\ IsQueue(b) /\ Len(a) \in Nat /\ Len(b) \in Nat /\ DOMAIN a = 1..Len(a) /\ DOMAIN b = 1..Len(b)
  BY QueueFacts DEF NewCalls
<1>2. Joined(a, b, cs)
  BY <1>1, BothQueues
<1>3. /\ IsQueue(cs) /\ Len(cs) = Len(a) + Len(b) /\ DOMAIN cs = 1..Len(a) + Len(b)
      /\ \A i \in DOMAIN a : cs[i] = a[i] /\ i \in DOMAIN cs
      /\ \A i \in DOMAIN b : cs[Len(a) + i] = b[i] /\ Len(a) + i \in DOMAIN cs
  <2>1. IsQueue(cs) /\ Len(cs) = Len(a) + Len(b)
    BY <1>2 DEF Joined
  <2>2. DOMAIN cs = 1..Len(a) + Len(b)
    BY <2>1, QueueFacts
  <2>. QED
    BY <1>1, <1>2, <2>1, <2>2 DEF Joined
<1>4. ASSUME NEW i \in DOMAIN a, a[i].do = "create" PROVE FALSE
  <2>1. i = 1 /\ a # <<>>
    BY <1>4, NoCall DEF NewCalls
  <2>. QED
    BY <1>4, <2>1 DEF Creates
<1>5. ASSUME NEW i \in DOMAIN cs
      PROVE  /\ CallTrue(cs[i], p, st, jb, sw) /\ cs[i].do # "create"
             /\ cs[i].do = "jobrow" =>
                  i + 1 \in DOMAIN cs /\ cs[i + 1].do = "invoke" /\ cs[i + 1].slot = cs[i].slot
  <2>1. CASE i \in DOMAIN a
    <3>1. /\ CallTrue(a[i], p, st, jb, sw)
          /\ a[i].do = "jobrow" =>
               i + 1 \in DOMAIN a /\ a[i + 1].do = "invoke" /\ a[i + 1].slot = a[i].slot
      BY <2>1 DEF NewCalls
    <3>. QED
      BY <1>3, <1>4, <2>1, <3>1
  <2>2. CASE i \notin DOMAIN a
    <3>1. PICK j : j = i - Len(a)
      OBVIOUS
    <3>2. j \in DOMAIN b /\ i = Len(a) + j /\ i + 1 = Len(a) + (j + 1)
      BY <1>1, <1>3, <2>2, <3>1
    <3>3. /\ CallTrue(b[j], p, st, jb, sw) /\ b[j].do # "create"
          /\ b[j].do = "jobrow" =>
               j + 1 \in DOMAIN b /\ b[j + 1].do = "invoke" /\ b[j + 1].slot = b[j].slot
      BY <3>2 DEF NewCalls
    <3>4. cs[i] = b[j]
      BY <1>3, <3>2
    <3>5. j + 1 \in DOMAIN b => i + 1 \in DOMAIN cs /\ cs[i + 1] = b[j + 1]
      BY <1>3, <3>2
    <3>. QED
      BY <3>3, <3>4, <3>5
  <2>. QED
    BY <2>1, <2>2
<1>6. NewCalls(cs, p, st, jb, sw)
  BY <1>3, <1>5 DEF NewCalls
<1>7. ASSUME NEW s, Creates(cs, s) PROVE FALSE
  <2>1. 1 \in DOMAIN cs /\ cs[1].do = "create"
    BY <1>3, <1>7, QueueFacts DEF Creates
  <2>. QED
    BY <1>5, <2>1
<1>. QED
  BY <1>6, <1>7
-----------------------------------------------------------------------------
\* Steps that touch one thing.
LEMMA TakenIsUsed ==
    /\ Taken = Cardinality(Used) /\ Taken' = Cardinality(Used')
    /\ IsFiniteSet(Slots) /\ Used \subseteq Slots /\ Taken \in Nat
<1>1. Taken = Cardinality(Used) /\ Taken' = Cardinality(Used')
  BY DEF Taken, Used
<1>2. IsFiniteSet(Slots) /\ Used \subseteq Slots
  BY BoundsAreNumbers, FS_Interval DEF Slots, Used
<1>3. IsFiniteSet(Used)
  BY <1>2, FS_Subset
<1>. QED
  BY <1>1, <1>2, <1>3, FS_CardinalityType

LEMMA UsedStays ==
    ASSUME RowsInOrder, Used' = Used PROVE Used' = 1..Taken'
BY TakenIsUsed DEF RowsInOrder

LEMMA RunsStay ==
    ASSUME RunsInvariant, Grows(plan, step, job, step', job')
    PROVE  \A r \in Runs : EndTrue(run[r], plan, step', r, swept)
<1>1. Len(plan) \in DOMAIN plan
  BY PlanHasEnd DEF RunsInvariant
<1>2. ASSUME NEW r \in Runs PROVE EndTrue(run[r], plan, step', r, swept)
  <2>1. EndTrue(run[r], plan, step, r, swept)
    BY DEF RunsInvariant, RunsTrue
  <2>2. ASSUME \A k \in DOMAIN plan : AtOnce(plan, k), Ends(plan, step, r) PROVE Ends(plan, step', r)
    BY <1>1, <2>2, EndStays
  <2>. QED
    BY <2>1, <2>2 DEF EndTrue
<1>. QED
  BY <1>2

LEMMA NothingTouched ==
    ASSUME RunsInvariant, UNCHANGED <<plan, run, step, job, swept, restarts>> PROVE Touched
<1>1. /\ UNCHANGED <<plan, swept, restarts>> /\ run' = run /\ step' = step /\ job' = job
  OBVIOUS
<1>2. Grows(plan, step, job, step', job')
  BY <1>1 DEF Grows
<1>3. Used' = Used
  BY <1>1 DEF Used
<1>4. Used' = 1..Taken'
  BY <1>3, UsedStays DEF RunsInvariant
<1>5. \A r \in Runs : EndTrue(run[r], plan, step', r, swept)
  BY <1>2, RunsStay
<1>6. \A s \in Slots : StepTrue(s, plan, step', job', swept)
  BY <1>1 DEF RunsInvariant, RowsTrue
<1>. QED
  BY <1>1, <1>2, <1>4, <1>5, <1>6 DEF Touched, RunsInvariant, RunsTypes

LEMMA StepTouched ==
    ASSUME RunsInvariant, NEW s \in Slots, step[s].status # "absent",
           NEW x \in {"queued", "running", "succeeded", "failed"},
           step' = [step EXCEPT ![s].status = x], UNCHANGED <<plan, run, job, swept, restarts>>,
           step[s].status = "succeeded" /\ AtOnce(plan, step[s].at) => x = "succeeded",
           OfAgent(plan, step[s].at) /\ x = "succeeded" => job[s] = "succeeded",
           x \notin Ended => ~AtOnce(plan, step[s].at),
           x = "running" => step[s].of \notin swept
    PROVE  /\ Touched /\ \A u \in Slots : step[u].status = "absent" => step'[u].status = "absent"
           /\ step'[s].status = x /\ step'[s].of = step[s].of /\ step'[s].at = step[s].at
<1>1. /\ UNCHANGED <<plan, swept, restarts>> /\ run' = run /\ job' = job
      /\ step \in [Slots -> StepRow] /\ step[s] \in StepRow
  BY DEF RunsInvariant, RunsTypes
<1>2. PICK q : q = [step[s] EXCEPT !.status = x]
  OBVIOUS
<1>3. /\ q.of = step[s].of /\ q.at = step[s].at /\ q.from = step[s].from /\ q.status = x
      /\ q \in StepRow
  BY <1>1, <1>2 DEF StepRow
<1>4. /\ step' = [step EXCEPT ![s] = q] /\ step' \in [Slots -> StepRow] /\ step'[s] = q
      /\ \A u \in Slots : u # s => step'[u] = step[u]
  <2>1. step' = [step EXCEPT ![s] = q]
    BY <1>2
  <2>. QED
    BY <1>1, <1>3, <2>1
<1>5. Grows(plan, step, job, step', job')
  BY <1>1, <1>3, <1>4 DEF Grows
<1>6. ASSUME NEW u \in Slots PROVE StepTrue(u, plan, step', job', swept)
  <2>1. StepTrue(u, plan, step, job, swept)
    BY DEF RunsInvariant, RowsTrue
  <2>2. CASE u # s
    <3>1. step'[u] = step[u]
      BY <1>4, <2>2
    <3>. QED
      BY <1>5, <2>1, <3>1, RowStays
  <2>3. CASE u = s
    <3>1. /\ Origin(plan, step, step[s].of, step[s].at, step[s].from)
          /\ OfAgent(plan, step[s].at) => job[s] # "absent"
      BY <2>1, <2>3 DEF StepTrue
    <3>2. Origin(plan, step', step[s].of, step[s].at, step[s].from)
      BY <1>5, <3>1, OriginStays
    <3>. QED
      BY <1>1, <1>3, <1>4, <2>3, <3>1, <3>2 DEF StepTrue
  <2>. QED
    BY <2>2, <2>3
<1>7. Used' = Used
  BY <1>1, <1>3, <1>4 DEF Used
<1>8. Used' = 1..Taken'
  BY <1>7, UsedStays DEF RunsInvariant
<1>9. \A r \in Runs : EndTrue(run[r], plan, step', r, swept)
  BY <1>5, RunsStay
<1>10. Touched
  BY <1>1, <1>4, <1>5, <1>6, <1>8, <1>9 DEF Touched, RunsInvariant, RunsTypes
<1>. QED
  BY <1>3, <1>4, <1>10

LEMMA JobTouched ==
    ASSUME RunsInvariant, NEW s \in Used, NEW x \in {"queued", "claimed", "running", "succeeded", "failed"},
           job' = [job EXCEPT ![s] = x], UNCHANGED <<plan, run, step, swept, restarts>>,
           step[s].status # "absent" /\ OfAgent(plan, step[s].at) => job[s] \notin Ended
    PROVE  Touched
<1>1. /\ UNCHANGED <<plan, swept, restarts>> /\ run' = run /\ step' = step /\ s \in Slots
      /\ job \in [Slots -> {"absent", "queued", "claimed", "running", "succeeded", "failed"}]
  BY DEF RunsInvariant, RunsTypes, Used
<1>2. /\ job'[s] = x /\ \A u \in Slots : u # s => job'[u] = job[u]
      /\ job' \in [Slots -> {"absent", "queued", "claimed", "running", "succeeded", "failed"}]
  BY <1>1
<1>3. Grows(plan, step, job, step', job')
  BY <1>1, <1>2 DEF Grows
<1>4. ASSUME NEW u \in Slots PROVE StepTrue(u, plan, step', job', swept)
  <2>1. StepTrue(u, plan, step, job, swept)
    BY DEF RunsInvariant, RowsTrue
  <2>. QED
    BY <1>1, <1>2, <2>1 DEF StepTrue, Ended
<1>5. Used' = Used
  BY <1>1, <1>2 DEF Used
<1>6. Used' = 1..Taken'
  BY <1>5, UsedStays DEF RunsInvariant
<1>7. \A r \in Runs : EndTrue(run[r], plan, step', r, swept)
  BY <1>3, RunsStay
<1>. QED
  BY <1>1, <1>2, <1>3, <1>4, <1>6, <1>7 DEF Touched, RunsInvariant, RunsTypes

LEMMA RunTouched ==
    ASSUME RunsInvariant, NEW r \in Runs, NEW x \in {"absent", "running", "completed", "failed"},
           run' = [run EXCEPT ![r] = x], UNCHANGED <<plan, step, job, swept, restarts>>,
           r \in swept => x = "failed",
           x = "completed" => ((\A k \in DOMAIN plan : AtOnce(plan, k)) => Ends(plan, step, r))
    PROVE  Touched
<1>1. /\ UNCHANGED <<plan, swept, restarts>> /\ step' = step /\ job' = job
      /\ run \in [Runs -> {"absent", "running", "completed", "failed"}]
  BY DEF RunsInvariant, RunsTypes
<1>2. /\ run'[r] = x /\ \A u \in Runs : u # r => run'[u] = run[u]
      /\ run' \in [Runs -> {"absent", "running", "completed", "failed"}]
  BY <1>1
<1>3. Grows(plan, step, job, step', job')
  BY <1>1 DEF Grows
<1>4. Used' = Used
  BY <1>1 DEF Used
<1>5. Used' = 1..Taken'
  BY <1>4, UsedStays DEF RunsInvariant
<1>6. \A s \in Slots : StepTrue(s, plan, step', job', swept)
  BY <1>1 DEF RunsInvariant, RowsTrue
<1>7. ASSUME NEW u \in Runs PROVE EndTrue(run'[u], plan, step', u, swept)
  <2>1. EndTrue(run[u], plan, step, u, swept)
    BY DEF RunsInvariant, RunsTrue
  <2>2. CASE u # r
    BY <1>1, <1>2, <2>1, <2>2
  <2>3. CASE u = r
    BY <1>1, <1>2, <2>3 DEF EndTrue
  <2>. QED
    BY <2>2, <2>3
<1>. QED
  BY <1>1, <1>2, <1>3, <1>5, <1>6, <1>7 DEF Touched, RunsInvariant, RunsTypes

\* Rows are made after those that there are.
LEMMA FreshSlots ==
    ASSUME RunsInvariant, NEW n \in Nat, Room(n)
    PROVE  /\ New(n) \subseteq Slots /\ \A s \in New(n) : s \notin Used
           /\ Cardinality(1..(Taken + n)) = Taken + n /\ 1..(Taken + n) = Used \cup New(n)
           /\ \A i \in 1..n : Taken + i \in New(n)
<1>1. Taken \in Nat /\ Used = 1..Taken /\ MaxSlots \in Nat
  BY TakenIsUsed, BoundsAreNumbers DEF RunsInvariant, RowsInOrder
<1>2. Taken + n \in Nat /\ Cardinality(1..(Taken + n)) = Taken + n
  <2>1. Taken + n \in Nat
    BY <1>1
  <2>2. PICK m \in Nat : m = Taken + n
    BY <2>1
  <2>3. Cardinality(1..m) = m
    BY <2>2, FS_Interval
  <2>. QED
    BY <2>2, <2>3
<1>. QED
  BY <1>1, <1>2 DEF New, Room, Slots

LEMMA RowsMade ==
    ASSUME RunsInvariant, NEW n \in Nat, Room(n), NEW c, NEW from,
           NEW x \in {"queued", "running", "succeeded", "failed"},
           step' = [s \in Slots |-> IF s \in New(n) THEN Row(c, from, x) ELSE step[s]],
           UNCHANGED <<plan, run, job, swept, restarts>>,
           Origin(plan, step, c.run, c.at, from), c.run \in Runs, c.run \notin swept,
           ~OfAgent(plan, c.at), x \notin Ended => ~AtOnce(plan, c.at)
    PROVE  /\ Touched
           /\ \A s \in New(n) : /\ s \in Slots /\ s \notin Used
                                /\ step'[s].status = x /\ step'[s].of = c.run /\ step'[s].at = c.at
           /\ \A s \in Slots : s \notin New(n) => step'[s] = step[s]
<1>1. /\ UNCHANGED <<plan, swept, restarts>> /\ run' = run /\ job' = job
      /\ step \in [Slots -> StepRow]
  BY DEF RunsInvariant, RunsTypes
<1>2. PICK q : q = Row(c, from, x)
  OBVIOUS
<1>3. q.of = c.run /\ q.at = c.at /\ q.from = from /\ q.status = x /\ q \in StepRow
  <2>1. c.at \in Nat /\ from \in 0..MaxSlots
    BY PlanHasEnd DEF Origin, RunsInvariant
  <2>. QED
    BY <1>2, <2>1 DEF Row, StepRow
<1>4. /\ step' = [s \in Slots |-> IF s \in New(n) THEN q ELSE step[s]]
      /\ step' \in [Slots -> StepRow]
      /\ \A s \in Slots : s \in New(n) => step'[s] = q
      /\ \A s \in Slots : s \notin New(n) => step'[s] = step[s]
  BY <1>1, <1>2, <1>3
<1>5. /\ New(n) \subseteq Slots /\ \A s \in New(n) : s \notin Used
      /\ Cardinality(1..(Taken + n)) = Taken + n /\ 1..(Taken + n) = Used \cup New(n)
  BY FreshSlots
<1>6. \A s \in New(n) : step[s].status = "absent" /\ job[s] = "absent"
  BY <1>5 DEF Used
<1>7. Grows(plan, step, job, step', job')
  BY <1>1, <1>4, <1>6 DEF Grows
<1>8. Origin(plan, step', c.run, c.at, from)
  BY <1>7, OriginStays
<1>9. ASSUME NEW s \in Slots PROVE StepTrue(s, plan, step', job', swept)
  <2>1. CASE s \in New(n)
    BY <1>1, <1>3, <1>4, <1>8, <2>1 DEF StepTrue
  <2>2. CASE s \notin New(n)
    <3>1. StepTrue(s, plan, step, job, swept) /\ step'[s] = step[s]
      BY <1>4, <2>2 DEF RunsInvariant, RowsTrue
    <3>. QED
      BY <1>7, <3>1, RowStays
  <2>. QED
    BY <2>1, <2>2
<1>10. Used' = Used \cup New(n)
  BY <1>1, <1>3, <1>4, <1>5 DEF Used
<1>11. Used' = 1..Taken'
  BY <1>5, <1>10, TakenIsUsed
<1>12. \A r \in Runs : EndTrue(run[r], plan, step', r, swept)
  BY <1>7, RunsStay
<1>13. Touched
  BY <1>1, <1>4, <1>7, <1>9, <1>11, <1>12 DEF Touched, RunsInvariant, RunsTypes
<1>. QED
  BY <1>3, <1>4, <1>5, <1>13

\* A job is made before its step run.
LEMMA JobIsMade ==
    ASSUME RunsInvariant, Room(1), NEW s, s = Taken + 1, job' = [job EXCEPT ![s] = "queued"],
           UNCHANGED <<plan, run, step, swept, restarts>>
    PROVE  Touched /\ s \in Slots /\ s \notin Used /\ job'[s] = "queued"
<1>1. /\ UNCHANGED <<plan, swept, restarts>> /\ run' = run /\ step' = step
      /\ job \in [Slots -> {"absent", "queued", "claimed", "running", "succeeded", "failed"}]
  BY DEF RunsInvariant, RunsTypes
<1>2. New(1) \subseteq Slots /\ (\A u \in New(1) : u \notin Used) /\ New(1) = {s}
      /\ Cardinality(1..(Taken + 1)) = Taken + 1 /\ 1..(Taken + 1) = Used \cup New(1)
  <2>1. New(1) = {s}
    BY TakenIsUsed DEF New
  <2>2. New(1) \subseteq Slots /\ (\A u \in New(1) : u \notin Used)
        /\ Cardinality(1..(Taken + 1)) = Taken + 1 /\ 1..(Taken + 1) = Used \cup New(1)
    BY FreshSlots
  <2>. QED
    BY <2>1, <2>2
<1>3. s \in Slots /\ s \notin Used /\ step[s].status = "absent" /\ job[s] = "absent"
  BY <1>2 DEF Used
<1>4. /\ job'[s] = "queued" /\ \A u \in Slots : u # s => job'[u] = job[u]
      /\ job' \in [Slots -> {"absent", "queued", "claimed", "running", "succeeded", "failed"}]
  BY <1>1, <1>3
<1>5. Grows(plan, step, job, step', job')
  BY <1>1, <1>3, <1>4 DEF Grows
<1>6. ASSUME NEW u \in Slots PROVE StepTrue(u, plan, step', job', swept)
  <2>1. StepTrue(u, plan, step, job, swept)
    BY DEF RunsInvariant, RowsTrue
  <2>. QED
    BY <1>1, <1>3, <1>4, <2>1 DEF StepTrue
<1>7. Used' = Used \cup New(1)
  BY <1>1, <1>2, <1>3, <1>4 DEF Used
<1>8. Used' = 1..Taken'
  BY <1>2, <1>7, TakenIsUsed
<1>9. \A r \in Runs : EndTrue(run[r], plan, step', r, swept)
  BY <1>5, RunsStay
<1>10. Touched
  BY <1>1, <1>4, <1>5, <1>6, <1>8, <1>9 DEF Touched, RunsInvariant, RunsTypes
<1>. QED
  BY <1>3, <1>4, <1>10

\* The step run is made for its job.
LEMMA RowIsMade ==
    ASSUME RunsInvariant, NEW s \in Slots, step[s].status = "absent", job[s] # "absent", NEW c, NEW from,
           step' = [step EXCEPT ![s] = Row(c, from, "running")],
           UNCHANGED <<plan, run, job, swept, restarts>>,
           Origin(plan, step, c.run, c.at, from), c.run \in Runs, c.run \notin swept, OfAgent(plan, c.at)
    PROVE  Touched /\ \A u \in Slots : u # s => step'[u] = step[u]
<1>1. /\ UNCHANGED <<plan, swept, restarts>> /\ run' = run /\ job' = job
      /\ step \in [Slots -> StepRow]
  BY DEF RunsInvariant, RunsTypes
<1>2. PICK q : q = Row(c, from, "running")
  OBVIOUS
<1>3. q.of = c.run /\ q.at = c.at /\ q.from = from /\ q.status = "running" /\ q \in StepRow
  <2>1. c.at \in Nat /\ from \in 0..MaxSlots
    BY PlanHasEnd DEF Origin, RunsInvariant
  <2>. QED
    BY <1>2, <2>1 DEF Row, StepRow
<1>4. /\ step' = [step EXCEPT ![s] = q] /\ step' \in [Slots -> StepRow] /\ step'[s] = q
      /\ \A u \in Slots : u # s => step'[u] = step[u]
  BY <1>1, <1>2, <1>3
<1>5. Grows(plan, step, job, step', job')
  BY <1>1, <1>4 DEF Grows
<1>6. Origin(plan, step', c.run, c.at, from)
  BY <1>5, OriginStays
<1>7. ASSUME NEW u \in Slots PROVE StepTrue(u, plan, step', job', swept)
  <2>1. CASE u = s
    BY <1>1, <1>3, <1>4, <1>6, <2>1 DEF StepTrue
  <2>2. CASE u # s
    <3>1. StepTrue(u, plan, step, job, swept) /\ step'[u] = step[u]
      BY <1>4, <2>2 DEF RunsInvariant, RowsTrue
    <3>. QED
      BY <1>5, <3>1, RowStays
  <2>. QED
    BY <2>1, <2>2
<1>8. Used' = Used
  BY <1>1, <1>3, <1>4 DEF Used
<1>9. Used' = 1..Taken'
  BY <1>8, UsedStays DEF RunsInvariant
<1>10. \A r \in Runs : EndTrue(run[r], plan, step', r, swept)
  BY <1>5, RunsStay
<1>11. Touched
  BY <1>1, <1>4, <1>5, <1>7, <1>9, <1>10 DEF Touched, RunsInvariant, RunsTypes
<1>. QED
  BY <1>4, <1>11
-----------------------------------------------------------------------------
\* The calls, one after another.
LEMMA GoesOnPlainly ==
    ASSUME RunsInvariant, NEW w \in Goers, NEW name, Calls(w, name), name # "invoke",
           Touched, job' = job, NEW cs, Then(w, cs),
           NewCalls(cs, plan, step', job', swept), \A s : ~Creates(cs, s),
           \A s \in Slots : step[s].status = "absent" /\ job[s] # "absent" => step'[s].status = "absent"
    PROVE  RunsInvariant'
<1>1. todo[w] # <<>> /\ todo[w][1].do = name
  BY CallMade
<1>2. todo' = [todo EXCEPT ![w] = cs \o Tail(@)]
  BY DEF Then
<1>3. /\ \A s \in Slots : Creates(cs, s) => s \notin Used
      /\ \A s \in Slots : step[s].status = "absent" /\ job[s] # "absent" /\ step'[s].status # "absent"
                            => Creates(todo[w], s)
      /\ \A s \in Slots : job'[s] = "running" =>
            \/ job[s] = "running" /\ ~(todo[w][1].do = "invoke" /\ todo[w][1].slot = s)
            \/ todo[w][1].do = "jobrow" /\ todo[w][1].slot = s
  BY <1>1
<1>. QED
  BY <1>1, <1>2, <1>3, GoesOn

LEMMA GoesOnReading ==
    ASSUME RunsInvariant, NEW w \in Goers, NEW name, Calls(w, name), name # "invoke",
           UNCHANGED <<plan, run, step, job, swept, restarts>>, NEW cs, Then(w, cs),
           NewCalls(cs, plan, step, job, swept), \A s : ~Creates(cs, s)
    PROVE  RunsInvariant'
<1>1. step' = step /\ job' = job
  OBVIOUS
<1>2. NewCalls(cs, plan, step', job', swept)
  BY <1>1
<1>3. \A s \in Slots : step[s].status = "absent" /\ job[s] # "absent" => step'[s].status = "absent"
  BY <1>1
<1>4. Touched
  BY NothingTouched
<1>. QED
  BY <1>1, <1>2, <1>3, <1>4, GoesOnPlainly

\* A call about a run needs no row.
LEMMA RunCallTrue ==
    ASSUME NEW r \in Runs, NEW sw, r \notin sw, NEW do \in {"fail", "list"}, NEW c, c = Call(do, r, 0, 0, "none"),
           NEW p, NEW st, NEW jb
    PROVE  CallTrue(c, p, st, jb, sw) /\ c.do # "jobrow" /\ c.do # "create"
<1>1. IsCall(c, do, r, 0, 0, "none") /\ c.do = do /\ c.run = r
  BY DEF Call, IsCall
<1>2. IsCall(c, c.do, c.run, c.at, c.slot, c.arg)
  BY <1>1 DEF IsCall
<1>. QED
  BY <1>1, <1>2 DEF CallTrue, StepCalls, AloneCalls, RunCalls

LEMMA RunCallIsNew ==
    ASSUME NEW r \in Runs, NEW sw, r \notin sw, NEW cs, cs = FailRun(r) \/ cs = Resolve(r),
           NEW p, NEW st, NEW jb
    PROVE  NewCalls(cs, p, st, jb, sw) /\ (\A s : ~Creates(cs, s)) /\ \A i \in DOMAIN cs : cs[i].do # "create"
<1>1. PICK do \in {"fail", "list"} : cs = <<Call(do, r, 0, 0, "none")>>
  BY DEF FailRun, Resolve
<1>2. PICK c : c = Call(do, r, 0, 0, "none")
  OBVIOUS
<1>3. CallTrue(c, p, st, jb, sw) /\ c.do # "jobrow" /\ c.do # "create"
  BY <1>2, RunCallTrue
<1>4. cs = <<c>>
  BY <1>1, <1>2
<1>5. DOMAIN cs = {1} /\ cs[1] = c
  BY <1>4, OneCall
<1>6. NewCalls(cs, p, st, jb, sw) /\ \A s : Creates(cs, s) => c.do = "create" /\ c.slot = s
  BY <1>3, <1>4, OneNewCall
<1>. QED
  BY <1>3, <1>5, <1>6

LEMMA OneCallIsNew ==
    ASSUME NEW c, NEW cs, cs = <<c>>, NEW p, NEW st, NEW jb, NEW sw, CallTrue(c, p, st, jb, sw),
           c.do # "jobrow", c.do # "create"
    PROVE  NewCalls(cs, p, st, jb, sw) /\ (\A s : ~Creates(cs, s)) /\ \A i \in DOMAIN cs : cs[i].do # "create"
<1>5. DOMAIN cs = {1} /\ cs[1] = c
  BY OneCall
<1>6. NewCalls(cs, p, st, jb, sw) /\ \A s : Creates(cs, s) => c.do = "create" /\ c.slot = s
  BY OneNewCall
<1>. QED
  BY <1>5, <1>6

LEMMA CheckTrue ==
    ASSUME RunsInvariant, NEW s \in Running, NEW c, c = About("check", s, "none")
    PROVE  CallTrue(c, plan, step, job, swept) /\ c.do = "check"
<1>1. s \in Slots /\ step[s].status = "running" /\ step[s] \in StepRow /\ step[s].of \in Runs
  BY DEF Running, RunsInvariant, RunsTypes, StepRow
<1>2. StepTrue(s, plan, step, job, swept)
  BY <1>1 DEF RunsInvariant, RowsTrue
<1>3. /\ IsCall(c, "check", step[s].of, step[s].at, s, "none") /\ c.do = "check"
      /\ c.run = step[s].of /\ c.at = step[s].at /\ c.slot = s
  BY DEF IsCall, About, Call
<1>4. IsCall(c, c.do, c.run, c.at, c.slot, c.arg)
  BY <1>3 DEF IsCall
<1>5. AboutStep(c, step)
  BY <1>1, <1>3 DEF AboutStep
<1>6. step[s].of \notin swept /\ (AtOnce(plan, step[s].at) => OfAgent(plan, step[s].at))
  BY <1>1, <1>2 DEF StepTrue, Ended
<1>. QED
  BY <1>1, <1>3, <1>4, <1>5, <1>6 DEF CallTrue, StepCalls, AloneCalls, RunCalls

LEMMA LookupKeeps == ASSUME RunsInvariant, NEW w \in Goers, Lookup(w) PROVE RunsInvariant'
<1>1. /\ Calls(w, "lookup") /\ UNCHANGED <<plan, run, step, job, swept, restarts>>
      /\ Then(w, IF Now(w).slot \in Running THEN <<About("check", Now(w).slot, "none")>> ELSE <<>>)
  BY DEF Lookup
<1>2. CASE Now(w).slot \in Running
  <2>1. PICK c : c = About("check", Now(w).slot, "none")
    OBVIOUS
  <2>2. CallTrue(c, plan, step, job, swept) /\ c.do = "check"
    BY <1>2, <2>1, CheckTrue
  <2>3. PICK cs : cs = <<c>>
    OBVIOUS
  <2>4. NewCalls(cs, plan, step, job, swept) /\ \A s : ~Creates(cs, s)
    BY <2>2, <2>3, OneCallIsNew
  <2>5. Then(w, cs)
    BY <1>1, <1>2, <2>1, <2>3
  <2>. QED
    BY <1>1, <2>4, <2>5, GoesOnReading
<1>3. CASE Now(w).slot \notin Running
  <2>1. PICK cs : cs = <<>>
    OBVIOUS
  <2>2. NewCalls(cs, plan, step, job, swept) /\ \A s : ~Creates(cs, s)
    BY <2>1, NoNewCall
  <2>3. Then(w, cs)
    BY <1>1, <1>3, <2>1
  <2>. QED
    BY <1>1, <2>2, <2>3, GoesOnReading
<1>. QED
  BY <1>2, <1>3

LEMMA CheckKeeps == ASSUME RunsInvariant, NEW w \in Goers, Check(w) PROVE RunsInvariant'
<1>1. PICK c : c = Now(w)
  OBVIOUS
<1>2. PICK cs : cs = CASE job[c.slot] = "absent" -> <<[c EXCEPT !.do = "miss"]>>
                       [] job[c.slot] \in Ended -> <<[c EXCEPT !.do = "record", !.arg = job[c.slot]]>>
                       [] OTHER -> <<>>
  OBVIOUS
<1>3. Calls(w, "check") /\ UNCHANGED <<plan, run, step, job, swept, restarts>> /\ Then(w, cs)
  BY <1>1, <1>2 DEF Check
<1>4. CallTrue(c, plan, step, job, swept) /\ c.do = "check"
  BY <1>1, <1>3, CallMade
<1>5. /\ IsCall(c, c.do, c.run, c.at, c.slot, c.arg) /\ c.run \in Runs /\ c.run \notin swept
      /\ AboutStep(c, step) /\ (AtOnce(plan, c.at) => OfAgent(plan, c.at))
  BY <1>4 DEF CallTrue, StepCalls
<1>6. NewCalls(cs, plan, step, job, swept) /\ \A s : ~Creates(cs, s)
  <2>1. CASE job[c.slot] = "absent"
    <3>1. PICK d : d = [c EXCEPT !.do = "miss"]
      OBVIOUS
    <3>2. IsCall(d, "miss", c.run, c.at, c.slot, c.arg)
      BY <1>5, <3>1, CallBecomes
    <3>3. d.do = "miss" /\ d.run = c.run /\ d.at = c.at /\ d.slot = c.slot /\ d.arg = c.arg
      BY <3>2, CallHas
    <3>4. AboutStep(d, step) /\ c.slot \in Slots
      BY <1>5, <3>3 DEF AboutStep
    <3>5. ~OfAgent(plan, c.at)
      <4>1. StepTrue(c.slot, plan, step, job, swept)
        BY <3>4 DEF RunsInvariant, RowsTrue
      <4>. QED
        BY <1>5, <2>1, <4>1 DEF StepTrue, AboutStep
    <3>6. CallTrue(d, plan, step, job, swept)
      BY <1>5, <3>2, <3>3, <3>4, <3>5 DEF CallTrue, StepCalls, AloneCalls, RunCalls
    <3>7. cs = <<d>>
      BY <1>2, <2>1, <3>1 DEF Ended
    <3>. QED
      BY <3>3, <3>6, <3>7, OneCallIsNew
  <2>2. CASE job[c.slot] \in Ended
    <3>1. PICK d : d = [c EXCEPT !.do = "record", !.arg = job[c.slot]]
      OBVIOUS
    <3>2. IsCall(d, "record", c.run, c.at, c.slot, job[c.slot])
      BY <1>5, <3>1, CallBecomes
    <3>3. d.do = "record" /\ d.run = c.run /\ d.at = c.at /\ d.slot = c.slot /\ d.arg = job[c.slot]
      BY <3>2, CallHas
    <3>4. AboutStep(d, step)
      BY <1>5, <3>3 DEF AboutStep
    <3>5. IsCall(d, d.do, d.run, d.at, d.slot, d.arg)
      BY <3>2, <3>3
    <3>6. CallTrue(d, plan, step, job, swept)
      BY <1>5, <2>2, <3>5, <3>3, <3>4 DEF CallTrue, StepCalls, AloneCalls, RunCalls
    <3>7. cs = <<d>>
      BY <1>2, <2>2, <3>1 DEF Ended
    <3>. QED
      BY <3>3, <3>6, <3>7, OneCallIsNew
  <2>3. CASE job[c.slot] # "absent" /\ job[c.slot] \notin Ended
    BY <1>2, <2>3, NoNewCall
  <2>. QED
    BY <2>1, <2>2, <2>3
<1>. QED
  BY <1>3, <1>6, GoesOnReading

LEMMA JobMissingKeeps == ASSUME RunsInvariant, NEW w \in Goers, JobMissing(w) PROVE RunsInvariant'
<1>1. PICK c : c = Now(w)
  OBVIOUS
<1>2. PICK cs : cs = FailRun(c.run)
  OBVIOUS
<1>3. /\ Calls(w, "miss") /\ UNCHANGED <<plan, run, job, swept, restarts>> /\ Then(w, cs)
      /\ step' = [step EXCEPT ![c.slot].status = "failed"]
  BY <1>1, <1>2 DEF JobMissing, SetStep
<1>4. CallTrue(c, plan, step, job, swept) /\ c.do = "miss"
  BY <1>1, <1>3, CallMade
<1>5. /\ c.run \in Runs /\ c.run \notin swept /\ ~AtOnce(plan, c.at)
      /\ c.slot \in Slots /\ step[c.slot].status # "absent" /\ step[c.slot].at = c.at
  BY <1>4 DEF CallTrue, StepCalls, AloneCalls, AboutStep
<1>6. Touched /\ \A u \in Slots : step[u].status = "absent" => step'[u].status = "absent"
  BY <1>3, <1>5, StepTouched DEF Ended
<1>7. NewCalls(cs, plan, step', job', swept) /\ \A s : ~Creates(cs, s)
  BY <1>2, <1>5, RunCallIsNew
<1>. QED
  BY <1>3, <1>6, <1>7, GoesOnPlainly
LEMMA RecordKeeps == ASSUME RunsInvariant, NEW w \in Goers, Record(w) PROVE RunsInvariant'
<1>1. PICK c : c = Now(w)
  OBVIOUS
<1>2. PICK lost \in BOOLEAN : Then(w, (IF lost THEN FailRun(c.run) ELSE <<>>)
                                        \o (IF c.arg = "succeeded" THEN <<[c EXCEPT !.do = "advance"]>>
                                                                   ELSE Resolve(c.run)))
  BY <1>1, Zenon DEF Record
<1>3. PICK a : a = IF lost THEN FailRun(c.run) ELSE <<>>
  OBVIOUS
<1>4. PICK b : b = IF c.arg = "succeeded" THEN <<[c EXCEPT !.do = "advance"]>> ELSE Resolve(c.run)
  OBVIOUS
<1>5. PICK cs : cs = a \o b
  OBVIOUS
<1>6. /\ Calls(w, "record") /\ UNCHANGED <<plan, run, job, swept, restarts>> /\ Then(w, cs)
      /\ step' = [step EXCEPT ![c.slot].status = c.arg]
  BY <1>1, <1>2, <1>3, <1>4, <1>5 DEF Record, SetStep
<1>7. CallTrue(c, plan, step, job, swept) /\ c.do = "record"
  BY <1>1, <1>6, CallMade
<1>8. /\ IsCall(c, c.do, c.run, c.at, c.slot, c.arg) /\ c.run \in Runs /\ c.run \notin swept
      /\ AboutStep(c, step) /\ (AtOnce(plan, c.at) => OfAgent(plan, c.at))
      /\ c.arg \in Ended /\ (OfAgent(plan, c.at) => c.arg = job[c.slot])
  BY <1>7 DEF CallTrue, StepCalls
<1>9. /\ c.slot \in Slots /\ step[c.slot].status # "absent" /\ step[c.slot].of = c.run /\ step[c.slot].at = c.at
  BY <1>8 DEF AboutStep
<1>10. step[c.slot].status = "succeeded" /\ AtOnce(plan, step[c.slot].at) => c.arg = "succeeded"
  <2>1. StepTrue(c.slot, plan, step, job, swept)
    BY <1>9 DEF RunsInvariant, RowsTrue
  <2>. QED
    BY <1>8, <1>9, <2>1 DEF StepTrue
<1>11. /\ Touched /\ \A u \in Slots : step[u].status = "absent" => step'[u].status = "absent"
       /\ step'[c.slot].status = c.arg /\ step'[c.slot].of = c.run /\ step'[c.slot].at = c.at
  <2>1. /\ c.arg \in {"queued", "running", "succeeded", "failed"} /\ c.arg # "running"
        /\ OfAgent(plan, step[c.slot].at) /\ c.arg = "succeeded" => job[c.slot] = "succeeded"
        /\ c.arg \notin Ended => ~AtOnce(plan, step[c.slot].at)
    BY <1>8, <1>9 DEF Ended
  <2>2. /\ Touched /\ \A u \in Slots : step[u].status = "absent" => step'[u].status = "absent"
        /\ step'[c.slot].status = c.arg /\ step'[c.slot].of = step[c.slot].of
        /\ step'[c.slot].at = step[c.slot].at
    BY <1>6, <1>9, <1>10, <2>1, StepTouched
  <2>. QED
    BY <1>9, <2>2
<1>12. NewCalls(a, plan, step', job', swept) /\ \A s : ~Creates(a, s)
  BY <1>3, <1>8, NoNewCall, RunCallIsNew
<1>13. NewCalls(b, plan, step', job', swept) /\ \A i \in DOMAIN b : b[i].do # "create"
  <2>1. CASE c.arg = "succeeded"
    <3>1. PICK d : d = [c EXCEPT !.do = "advance"]
      OBVIOUS
    <3>2. IsCall(d, "advance", c.run, c.at, c.slot, c.arg)
      BY <1>8, <3>1, CallBecomes
    <3>3. d.do = "advance" /\ d.run = c.run /\ d.at = c.at /\ d.slot = c.slot /\ d.arg = c.arg
      BY <3>2, CallHas
    <3>4. AboutStep(d, step') /\ IsCall(d, d.do, d.run, d.at, d.slot, d.arg)
      BY <1>9, <1>11, <2>1, <3>2, <3>3 DEF AboutStep
    <3>5. CallTrue(d, plan, step', job', swept)
      BY <1>8, <1>11, <2>1, <3>3, <3>4 DEF CallTrue, StepCalls, AloneCalls, RunCalls
    <3>6. b = <<d>>
      BY <1>4, <2>1, <3>1
    <3>. QED
      BY <3>3, <3>5, <3>6, OneCallIsNew
  <2>2. CASE c.arg # "succeeded"
    BY <1>4, <1>8, <2>2, RunCallIsNew
  <2>. QED
    BY <2>1, <2>2
<1>14. NewCalls(cs, plan, step', job', swept) /\ \A s : ~Creates(cs, s)
  BY <1>5, <1>12, <1>13, ManyNewCalls
<1>. QED
  BY <1>6, <1>11, <1>14, GoesOnPlainly

\* The step of a row is one of the definition.
LEMMA RowHasStep ==
    ASSUME RunsInvariant, NEW s \in Slots, step[s].status # "absent"
    PROVE  step[s].at \in DOMAIN plan /\ Origin(plan, step, step[s].of, step[s].at, step[s].from)
<1>1. StepTrue(s, plan, step, job, swept)
  BY DEF RunsInvariant, RowsTrue
<1>. QED
  BY <1>1 DEF StepTrue, Origin

LEMMA AdvanceKeeps == ASSUME RunsInvariant, NEW w \in Goers, Advance(w) PROVE RunsInvariant'
<1>1. PICK c : c = Now(w)
  OBVIOUS
<1>2. PICK d : d = [c EXCEPT !.do = "progress", !.arg = run[c.run]]
  OBVIOUS
<1>3. PICK e : e = [c EXCEPT !.do = "execute", !.at = c.at + 1]
  OBVIOUS
<1>4. PICK cs : cs = IF c.at = Len(plan) THEN Resolve(c.run) ELSE <<d, e>>
  OBVIOUS
<1>5. Calls(w, "advance") /\ UNCHANGED <<plan, run, step, job, swept, restarts>> /\ Then(w, cs)
  BY <1>1, <1>2, <1>3, <1>4 DEF Advance
<1>6. CallTrue(c, plan, step, job, swept) /\ c.do = "advance"
  BY <1>1, <1>5, CallMade
<1>7. /\ IsCall(c, c.do, c.run, c.at, c.slot, c.arg) /\ c.run \in Runs /\ c.run \notin swept
      /\ AboutStep(c, step) /\ (AtOnce(plan, c.at) => step[c.slot].status = "succeeded")
  BY <1>6 DEF CallTrue, StepCalls
<1>8. /\ c.slot \in Slots /\ step[c.slot].status # "absent" /\ step[c.slot].of = c.run /\ step[c.slot].at = c.at
      /\ c.at \in DOMAIN plan
  BY <1>7, RowHasStep DEF AboutStep
<1>9. NewCalls(cs, plan, step, job, swept) /\ \A s : ~Creates(cs, s)
  <2>1. CASE c.at = Len(plan)
    BY <1>4, <1>7, <2>1, RunCallIsNew
  <2>2. CASE c.at # Len(plan)
    <3>1. IsCall(d, "progress", c.run, c.at, c.slot, run[c.run])
      BY <1>2, <1>7, CallBecomes
    <3>2. d.do = "progress" /\ d.run = c.run /\ d.at = c.at /\ d.slot = c.slot /\ d.arg = run[c.run]
      BY <3>1, CallHas
    <3>3. CallTrue(d, plan, step, job, swept)
      <4>1. EndTrue(run[c.run], plan, step, c.run, swept) /\ run[c.run] \in {"absent", "running", "completed", "failed"}
        BY <1>7 DEF RunsInvariant, RunsTrue, RunsTypes
      <4>2. IsCall(d, d.do, d.run, d.at, d.slot, d.arg)
        BY <3>1, <3>2
      <4>. QED
        BY <1>7, <3>2, <4>1, <4>2 DEF CallTrue, EndTrue, StepCalls, AloneCalls, RunCalls
    <3>4. PICK k : k = c.at + 1
      OBVIOUS
    <3>5. IsCall(e, "execute", c.run, k, c.slot, c.arg)
      <4>1. e = [c EXCEPT !.do = "execute", !.at = k]
        BY <1>3, <3>4
      <4>. QED
        BY <1>7, <4>1, CallBecomes
    <3>6. e.do = "execute" /\ e.run = c.run /\ e.at = k /\ e.slot = c.slot /\ e.arg = c.arg
      BY <3>5, CallHas
    <3>7. k \in DOMAIN plan /\ k - 1 = c.at /\ k > 1 /\ c.slot \in 0..MaxSlots /\ c.slot # 0
      <4>1. DOMAIN plan = 1..Len(plan) /\ Len(plan) \in Nat
        BY PlanHasEnd DEF RunsInvariant
      <4>. QED
        BY <1>8, <2>2, <3>4, <4>1 DEF Slots
    <3>8. Origin(plan, step, c.run, k, c.slot)
      BY <1>7, <1>8, <3>7 DEF Origin
    <3>9. CallTrue(e, plan, step, job, swept)
      <4>1. IsCall(e, e.do, e.run, e.at, e.slot, e.arg)
        BY <3>5, <3>6
      <4>. QED
        BY <1>7, <3>6, <3>8, <4>1 DEF CallTrue, StepCalls, AloneCalls, RunCalls
    <3>10. cs = <<d, e>>
      BY <1>4, <2>2
    <3>. QED
      BY <3>2, <3>3, <3>6, <3>9, <3>10, TwoNewCalls
  <2>. QED
    BY <2>1, <2>2
<1>. QED
  BY <1>5, <1>9, GoesOnReading

LEMMA WritesRunKeeps ==
    ASSUME RunsInvariant, NEW w \in Goers, NEW name \in {"progress", "verdict"}, Calls(w, name),
           run' = [run EXCEPT ![Now(w).run] = Now(w).arg], Then(w, <<>>),
           UNCHANGED <<plan, step, job, swept, restarts>>
    PROVE  RunsInvariant'
<1>1. PICK c : c = Now(w)
  OBVIOUS
<1>2. CallTrue(c, plan, step, job, swept) /\ c.do = name
  BY <1>1, CallMade
<1>3. /\ c.run \in Runs /\ c.run \notin swept /\ c.arg \in {"absent", "running", "completed", "failed"}
      /\ c.arg = "completed" => ((\A k \in DOMAIN plan : AtOnce(plan, k)) => Ends(plan, step, c.run))
  BY <1>2 DEF CallTrue
<1>4. run' = [run EXCEPT ![c.run] = c.arg]
  BY <1>1
<1>5. Touched
  BY <1>3, <1>4, RunTouched
<1>6. PICK cs : cs = <<>>
  OBVIOUS
<1>7. NewCalls(cs, plan, step', job', swept) /\ (\A s : ~Creates(cs, s)) /\ Then(w, cs)
  BY <1>6, NoNewCall
<1>8. job' = job /\ \A s \in Slots : step[s].status = "absent" /\ job[s] # "absent" => step'[s].status = "absent"
  OBVIOUS
<1>. QED
  BY <1>5, <1>7, <1>8, GoesOnPlainly

LEMMA CannotExecuteKeeps == ASSUME RunsInvariant, NEW w \in Goers, CannotExecute(w) PROVE RunsInvariant'
<1>1. PICK c : c = Now(w)
  OBVIOUS
<1>2. PICK cs : cs = FailRun(c.run)
  OBVIOUS
<1>3. Calls(w, "execute") /\ UNCHANGED <<plan, run, step, job, swept, restarts>> /\ Then(w, cs)
  BY <1>1, <1>2 DEF CannotExecute
<1>4. CallTrue(c, plan, step, job, swept) /\ c.do = "execute"
  BY <1>1, <1>3, CallMade
<1>5. c.run \in Runs /\ c.run \notin swept
  BY <1>4 DEF CallTrue
<1>6. NewCalls(cs, plan, step, job, swept) /\ \A s : ~Creates(cs, s)
  BY <1>2, <1>5, RunCallIsNew
<1>. QED
  BY <1>3, <1>6, GoesOnReading

LEMMA ItemsAreNumbers == ASSUME NEW k, NEW n \in Items(k) PROVE n \in Nat
<1>1. MinItems \in Nat /\ MaxItems \in Nat
  BY BoundsAreNumbers
<1>. QED
  BY <1>1 DEF Items

LEMMA SameCallIsNew ==
    ASSUME NEW n \in Nat, NEW c, NEW cs, cs = [i \in 1..n |-> c], NEW p, NEW st, NEW jb, NEW sw,
           CallTrue(c, p, st, jb, sw), c.do # "create", c.do # "jobrow"
    PROVE  NewCalls(cs, p, st, jb, sw) /\ (\A s : ~Creates(cs, s)) /\ \A i \in DOMAIN cs : cs[i].do # "create"
<1>1. cs \in [1..n -> {c}]
  OBVIOUS
<1>2. IsQueue(cs) /\ DOMAIN cs = 1..n
  BY <1>1, FunctionIsQueue
<1>3. \A i \in DOMAIN cs : cs[i] = c
  BY <1>2
<1>4. NewCalls(cs, p, st, jb, sw)
  BY <1>2, <1>3 DEF NewCalls
<1>5. ASSUME NEW s, Creates(cs, s) PROVE FALSE
  <2>1. 1 \in DOMAIN cs /\ cs[1].do = "create"
    BY <1>2, <1>5, QueueFacts DEF Creates
  <2>. QED
    BY <1>3, <2>1
<1>. QED
  BY <1>3, <1>4, <1>5

LEMMA ExecuteAgentKeeps == ASSUME RunsInvariant, NEW w \in Goers, ExecuteAgent(w) PROVE RunsInvariant'
<1>1. PICK c : c = Now(w)
  OBVIOUS
<1>2. PICK d : d = [c EXCEPT !.do = "submit"]
  OBVIOUS
<1>3. PICK n \in Items(c.at) : Then(w, [i \in 1..n |-> d])
  BY <1>1, <1>2 DEF ExecuteAgent
<1>4. PICK cs : cs = [i \in 1..n |-> d]
  OBVIOUS
<1>5. /\ Calls(w, "execute") /\ plan[c.at].runner = "agent"
      /\ UNCHANGED <<plan, run, step, job, swept, restarts>> /\ Then(w, cs)
  BY <1>1, <1>3, <1>4 DEF ExecuteAgent, Executes
<1>6. CallTrue(c, plan, step, job, swept) /\ c.do = "execute"
  BY <1>1, <1>5, CallMade
<1>7. /\ IsCall(c, c.do, c.run, c.at, c.slot, c.arg) /\ c.run \in Runs /\ c.run \notin swept
      /\ Origin(plan, step, c.run, c.at, c.slot)
  BY <1>6 DEF CallTrue
<1>8. IsCall(d, "submit", c.run, c.at, c.slot, c.arg)
  BY <1>2, <1>7, CallBecomes
<1>9. d.do = "submit" /\ d.run = c.run /\ d.at = c.at /\ d.slot = c.slot /\ d.arg = c.arg
  BY <1>8, CallHas
<1>10. CallTrue(d, plan, step, job, swept)
  <2>1. IsCall(d, d.do, d.run, d.at, d.slot, d.arg)
    BY <1>8, <1>9
  <2>. QED
    BY <1>5, <1>7, <1>9, <2>1 DEF CallTrue, OfAgent, StepCalls, AloneCalls, RunCalls
<1>11. NewCalls(cs, plan, step, job, swept) /\ \A s : ~Creates(cs, s)
  BY <1>4, <1>9, <1>10, ItemsAreNumbers, SameCallIsNew
<1>. QED
  BY <1>5, <1>11, GoesOnReading

LEMMA SubmitKeeps == ASSUME RunsInvariant, NEW w \in Goers, Submit(w) PROVE RunsInvariant'
<1>1. PICK c : c = Now(w)
  OBVIOUS
<1>2. PICK s : s = Taken + 1
  OBVIOUS
<1>3. PICK d : d = [c EXCEPT !.do = "create", !.slot = s, !.arg = c.slot]
  OBVIOUS
<1>4. PICK cs : cs = <<d>>
  OBVIOUS
<1>5. /\ Calls(w, "submit") /\ Room(1) /\ job' = [job EXCEPT ![s] = "queued"]
      /\ UNCHANGED <<plan, run, step, swept, restarts>> /\ todo' = [todo EXCEPT ![w] = cs \o Tail(@)]
  BY <1>1, <1>2, <1>3, <1>4 DEF Submit, Then
<1>6. CallTrue(c, plan, step, job, swept) /\ c.do = "submit" /\ todo[w] # <<>> /\ todo[w][1] = c
  BY <1>1, <1>5, CallMade
<1>7. /\ IsCall(c, c.do, c.run, c.at, c.slot, c.arg) /\ c.run \in Runs /\ c.run \notin swept
      /\ Origin(plan, step, c.run, c.at, c.slot) /\ OfAgent(plan, c.at)
  BY <1>6 DEF CallTrue
<1>8. Touched /\ s \in Slots /\ s \notin Used /\ job'[s] = "queued"
  BY <1>2, <1>5, JobIsMade
<1>9. IsCall(d, "create", c.run, c.at, s, c.slot)
  BY <1>3, <1>7, CallBecomes
<1>10. d.do = "create" /\ d.run = c.run /\ d.at = c.at /\ d.slot = s /\ d.arg = c.slot
  BY <1>9, CallHas
<1>11. step' = step /\ step[s].status = "absent"
  BY <1>5, <1>8 DEF Used
<1>12. CallTrue(d, plan, step', job', swept)
  <2>1. IsCall(d, d.do, d.run, d.at, d.slot, d.arg)
    BY <1>9, <1>10
  <2>2. Origin(plan, step', c.run, c.at, c.slot)
    BY <1>7, <1>11
  <2>. QED
    BY <1>7, <1>8, <1>10, <1>11, <2>1, <2>2 DEF CallTrue, StepCalls, AloneCalls, RunCalls
<1>13. NewCalls(cs, plan, step', job', swept) /\ \A u : Creates(cs, u) => d.do = "create" /\ d.slot = u
  BY <1>4, <1>10, <1>12, OneNewCall
<1>14. \A u \in Slots : Creates(cs, u) => u \notin Used
  BY <1>8, <1>10, <1>13
<1>15. \A u \in Slots : step[u].status = "absent" /\ job[u] # "absent" /\ step'[u].status # "absent"
                           => Creates(todo[w], u)
  BY <1>11
<1>16. \A u \in Slots : job'[u] = "running" =>
          \/ job[u] = "running" /\ ~(todo[w][1].do = "invoke" /\ todo[w][1].slot = u)
          \/ todo[w][1].do = "jobrow" /\ todo[w][1].slot = u
  <2>1. \A u \in Slots : u # s => job'[u] = job[u]
    BY <1>5 DEF RunsInvariant, RunsTypes
  <2>. QED
    BY <1>6, <1>8, <2>1
<1>. QED
  BY <1>5, <1>6, <1>8, <1>13, <1>14, <1>15, <1>16, GoesOn

LEMMA CreateKeeps == ASSUME RunsInvariant, NEW w \in Goers, Create(w) PROVE RunsInvariant'
<1>1. PICK c : c = Now(w)
  OBVIOUS
<1>2. PICK cs : cs = <<>>
  OBVIOUS
<1>3. /\ Calls(w, "create") /\ step' = [step EXCEPT ![c.slot] = Row(c, c.arg, "running")]
      /\ UNCHANGED <<plan, run, job, swept, restarts>> /\ todo' = [todo EXCEPT ![w] = cs \o Tail(@)]
  BY <1>1, <1>2 DEF Create, Then
<1>4. CallTrue(c, plan, step, job, swept) /\ c.do = "create" /\ todo[w] # <<>> /\ todo[w][1] = c
  BY <1>1, <1>3, CallMade
<1>5. /\ c.run \in Runs /\ c.run \notin swept /\ OfAgent(plan, c.at)
      /\ c.slot \in Slots /\ step[c.slot].status = "absent" /\ job[c.slot] # "absent"
      /\ Origin(plan, step, c.run, c.at, c.arg)
  BY <1>4 DEF CallTrue
<1>6. Touched /\ \A u \in Slots : u # c.slot => step'[u] = step[u]
  BY <1>3, <1>5, RowIsMade
<1>7. NewCalls(cs, plan, step', job', swept) /\ \A s : ~Creates(cs, s)
  BY <1>2, NoNewCall
<1>8. \A u \in Slots : Creates(cs, u) => u \notin Used
  BY <1>7
<1>9. \A u \in Slots : step[u].status = "absent" /\ job[u] # "absent" /\ step'[u].status # "absent"
                          => Creates(todo[w], u)
  BY <1>4, <1>6 DEF Creates
<1>10. \A u \in Slots : job'[u] = "running" =>
          \/ job[u] = "running" /\ ~(todo[w][1].do = "invoke" /\ todo[w][1].slot = u)
          \/ todo[w][1].do = "jobrow" /\ todo[w][1].slot = u
  BY <1>3, <1>4
<1>. QED
  BY <1>3, <1>4, <1>6, <1>7, <1>8, <1>9, <1>10, GoesOn
\* A row made for a call is what the call is about.
LEMMA ExecuteBuiltinKeeps == ASSUME RunsInvariant, NEW w \in Goers, ExecuteBuiltin(w) PROVE RunsInvariant'
<1>1. PICK c : c = Now(w)
  OBVIOUS
<1>2. PICK d : d = [c EXCEPT !.do = "method", !.arg = "new"]
  OBVIOUS
<1>3. PICK cs : cs = <<d>>
  OBVIOUS
<1>4. /\ Calls(w, "execute") /\ plan[c.at].runner = "builtin" /\ ~plan[c.at].fan
      /\ UNCHANGED <<plan, run, step, job, swept, restarts>> /\ Then(w, cs)
  BY <1>1, <1>2, <1>3, Zenon DEF ExecuteBuiltin, Executes
<1>5. CallTrue(c, plan, step, job, swept) /\ c.do = "execute"
  BY <1>1, <1>4, CallMade
<1>6. /\ IsCall(c, c.do, c.run, c.at, c.slot, c.arg) /\ c.run \in Runs /\ c.run \notin swept
      /\ Origin(plan, step, c.run, c.at, c.slot)
  BY <1>5 DEF CallTrue
<1>7. IsCall(d, "method", c.run, c.at, c.slot, "new")
  BY <1>2, <1>6, CallBecomes
<1>8. d.do = "method" /\ d.run = c.run /\ d.at = c.at /\ d.slot = c.slot /\ d.arg = "new"
  BY <1>7, CallHas
<1>9. CallTrue(d, plan, step, job, swept)
  <2>1. IsCall(d, d.do, d.run, d.at, d.slot, d.arg)
    BY <1>7, <1>8
  <2>2. /\ d.arg = "new" /\ Origin(plan, step, d.run, d.at, d.slot)
        /\ plan[d.at].runner = "builtin" /\ ~plan[d.at].fan
    BY <1>4, <1>6, <1>8, Zenon
  <2>3. d.run \in Runs /\ d.run \notin swept
    BY <1>6, <1>8
  <2>. QED
    BY <1>8, <2>1, <2>2, <2>3 DEF CallTrue, StepCalls, AloneCalls, RunCalls
<1>10. NewCalls(cs, plan, step, job, swept) /\ \A s : ~Creates(cs, s)
  BY <1>3, <1>8, <1>9, OneCallIsNew
<1>. QED
  BY <1>4, <1>10, GoesOnReading

\* What a call about a row of a step that is not done at once may be.
LEMMA AloneCallTrue ==
    ASSUME NEW p, NEW st, NEW jb, NEW sw, NEW c, IsCall(c, c.do, c.run, c.at, c.slot, c.arg),
           c.do \in {"begin", "activate", "jobrow", "invoke"}, c.run \in Runs, c.run \notin sw,
           ~AtOnce(p, c.at), AboutStep(c, st)
    PROVE  CallTrue(c, p, st, jb, sw)
BY DEF CallTrue, StepCalls, AloneCalls, RunCalls

LEMMA ExecuteBuiltinFanKeeps == ASSUME RunsInvariant, NEW w \in Goers, ExecuteBuiltinFan(w) PROVE RunsInvariant'
<1>1. PICK c : c = Now(w)
  OBVIOUS
<1>2. PICK n \in Items(c.at) :
         /\ Precreate(w, n, "queued")
         /\ Then(w, [i \in 1..n |-> [c EXCEPT !.do = "begin", !.slot = Taken + i]] \o Resolve(c.run))
  BY <1>1, Zenon DEF ExecuteBuiltinFan
<1>3. n \in Nat
  BY <1>2, ItemsAreNumbers
<1>4. PICK a : a = [i \in 1..n |-> [c EXCEPT !.do = "begin", !.slot = Taken + i]]
  OBVIOUS
<1>5. PICK b : b = Resolve(c.run)
  OBVIOUS
<1>6. PICK cs : cs = a \o b
  OBVIOUS
<1>7. /\ Calls(w, "execute") /\ plan[c.at].runner = "builtin" /\ plan[c.at].fan
      /\ UNCHANGED <<plan, run, job, swept, restarts>> /\ Then(w, cs) /\ Room(n)
      /\ step' = [s \in Slots |-> IF s \in New(n) THEN Row(c, c.slot, "queued") ELSE step[s]]
  BY <1>1, <1>2, <1>4, <1>5, <1>6, Zenon DEF ExecuteBuiltinFan, Executes, Precreate
<1>8. CallTrue(c, plan, step, job, swept) /\ c.do = "execute"
  BY <1>1, <1>7, CallMade
<1>9. /\ IsCall(c, c.do, c.run, c.at, c.slot, c.arg) /\ c.run \in Runs /\ c.run \notin swept
      /\ Origin(plan, step, c.run, c.at, c.slot)
  BY <1>8 DEF CallTrue
<1>10. ~AtOnce(plan, c.at) /\ ~OfAgent(plan, c.at)
  <2>1. plan[c.at].runner # "agent"
    BY <1>7
  <2>. QED
    BY <1>7, <2>1, Zenon DEF AtOnce, OfAgent
<1>11. /\ Touched
       /\ \A s \in New(n) : /\ s \in Slots /\ s \notin Used
                            /\ step'[s].status = "queued" /\ step'[s].of = c.run /\ step'[s].at = c.at
       /\ \A s \in Slots : s \notin New(n) => step'[s] = step[s]
  BY <1>3, <1>7, <1>9, <1>10, RowsMade
<1>12. ASSUME NEW i \in 1..n
       PROVE  CallTrue(a[i], plan, step', job', swept) /\ a[i].do = "begin"
  <2>1. PICK s : s = Taken + i
    OBVIOUS
  <2>2. s \in New(n)
    BY <1>3, <1>7, <2>1, FreshSlots
  <2>3. a[i] = [c EXCEPT !.do = "begin", !.slot = s]
    BY <1>4, <2>1
  <2>4. IsCall(a[i], "begin", c.run, c.at, s, c.arg)
    BY <1>9, <2>3, CallBecomes
  <2>5. s \in Slots /\ step'[s].status # "absent" /\ step'[s].of = c.run /\ step'[s].at = c.at
    BY <1>11, <2>2
  <2>6. PICK d : d = a[i]
    OBVIOUS
  <2>7. d.do = "begin" /\ d.run = c.run /\ d.at = c.at /\ d.slot = s /\ d.arg = c.arg
    BY <2>4, <2>6, CallHas
  <2>8. IsCall(d, d.do, d.run, d.at, d.slot, d.arg) /\ AboutStep(d, step')
    BY <2>4, <2>5, <2>6, <2>7 DEF AboutStep
  <2>9. CallTrue(d, plan, step', job', swept)
    BY <1>9, <1>10, <2>7, <2>8, AloneCallTrue
  <2>. QED
    BY <2>6, <2>7, <2>9
<1>13. NewCalls(a, plan, step', job', swept) /\ \A s : ~Creates(a, s)
  <2>1. PICK Any : Any = {a[i] : i \in 1..n}
    OBVIOUS
  <2>2. a \in [1..n -> Any]
    BY <1>4, <2>1
  <2>3. IsQueue(a) /\ DOMAIN a = 1..n
    BY <1>3, <2>2, FunctionIsQueue
  <2>4. ASSUME NEW s, Creates(a, s) PROVE FALSE
    <3>1. 1 \in DOMAIN a /\ a[1].do = "create"
      BY <2>3, <2>4, QueueFacts DEF Creates
    <3>. QED
      BY <1>12, <2>3, <3>1
  <2>. QED
    BY <1>12, <2>3, <2>4 DEF NewCalls
<1>14. NewCalls(b, plan, step', job', swept) /\ \A i \in DOMAIN b : b[i].do # "create"
  BY <1>5, <1>9, RunCallIsNew
<1>15. NewCalls(cs, plan, step', job', swept) /\ \A s : ~Creates(cs, s)
  BY <1>6, <1>13, <1>14, ManyNewCalls
<1>16. job' = job /\ \A s \in Slots : step[s].status = "absent" /\ job[s] # "absent" => step'[s].status = "absent"
  BY <1>7, <1>11 DEF Used
<1>. QED
  BY <1>7, <1>11, <1>15, <1>16, GoesOnPlainly

LEMMA BranchBeginsKeeps == ASSUME RunsInvariant, NEW w \in Goers, BranchBegins(w) PROVE RunsInvariant'
<1>1. PICK c : c = Now(w)
  OBVIOUS
<1>2. PICK d : d = [c EXCEPT !.do = "method", !.arg = "made"]
  OBVIOUS
<1>3. PICK cs : cs = <<d>>
  OBVIOUS
<1>4. /\ Calls(w, "begin") /\ UNCHANGED <<plan, run, job, swept, restarts>> /\ Then(w, cs)
      /\ step' = [step EXCEPT ![c.slot].status = "running"]
  BY <1>1, <1>2, <1>3 DEF BranchBegins, SetStep
<1>5. CallTrue(c, plan, step, job, swept) /\ c.do = "begin"
  BY <1>1, <1>4, CallMade
<1>6. /\ IsCall(c, c.do, c.run, c.at, c.slot, c.arg) /\ c.run \in Runs /\ c.run \notin swept
      /\ AboutStep(c, step) /\ ~AtOnce(plan, c.at)
  BY <1>5 DEF CallTrue, StepCalls, AloneCalls
<1>7. /\ c.slot \in Slots /\ step[c.slot].status # "absent" /\ step[c.slot].of = c.run /\ step[c.slot].at = c.at
  BY <1>6 DEF AboutStep
<1>8. /\ Touched /\ \A u \in Slots : step[u].status = "absent" => step'[u].status = "absent"
      /\ step'[c.slot].status = "running" /\ step'[c.slot].of = c.run /\ step'[c.slot].at = c.at
  BY <1>4, <1>6, <1>7, StepTouched
<1>9. IsCall(d, "method", c.run, c.at, c.slot, "made")
  BY <1>2, <1>6, CallBecomes
<1>10. d.do = "method" /\ d.run = c.run /\ d.at = c.at /\ d.slot = c.slot /\ d.arg = "made"
  BY <1>9, CallHas
<1>11. CallTrue(d, plan, step', job', swept)
  <2>1. IsCall(d, d.do, d.run, d.at, d.slot, d.arg) /\ AboutStep(d, step')
    BY <1>7, <1>8, <1>9, <1>10 DEF AboutStep
  <2>. QED
    BY <1>6, <1>10, <2>1 DEF CallTrue, StepCalls, AloneCalls, RunCalls
<1>12. NewCalls(cs, plan, step', job', swept) /\ \A s : ~Creates(cs, s)
  BY <1>3, <1>10, <1>11, OneCallIsNew
<1>. QED
  BY <1>4, <1>8, <1>12, GoesOnPlainly
\* What ends well goes on to the next step.
LEMMA AdvanceTrue ==
    ASSUME NEW p, NEW st, NEW jb, NEW sw, NEW c, IsCall(c, c.do, c.run, c.at, c.slot, c.arg),
           c.do = "advance", c.run \in Runs, c.run \notin sw, AboutStep(c, st),
           AtOnce(p, c.at) => st[c.slot].status = "succeeded"
    PROVE  CallTrue(c, p, st, jb, sw)
BY DEF CallTrue, StepCalls, AloneCalls, RunCalls

LEMMA MethodEndsKeeps ==
    ASSUME RunsInvariant, NEW w \in Goers, NEW outcome \in Ended, MethodEnds(w, outcome) PROVE RunsInvariant'
<1>1. PICK c : c = Now(w)
  OBVIOUS
<1>2. Calls(w, "method") /\ UNCHANGED <<plan, run, job, swept, restarts>>
  BY DEF MethodEnds
<1>3. CallTrue(c, plan, step, job, swept) /\ c.do = "method"
  BY <1>1, <1>2, CallMade
<1>4. /\ IsCall(c, c.do, c.run, c.at, c.slot, c.arg) /\ c.run \in Runs /\ c.run \notin swept
  BY <1>3 DEF CallTrue
<1>5. outcome \in {"queued", "running", "succeeded", "failed"} /\ outcome # "running"
  BY DEF Ended
<1>6. CASE c.arg = "made" /\ AboutStep(c, step) /\ ~AtOnce(plan, c.at)
  <2>1. PICK d : d = [c EXCEPT !.do = "advance", !.slot = c.slot]
    OBVIOUS
  <2>2. PICK cs : cs = IF outcome = "succeeded" THEN <<d>> ELSE <<>>
    OBVIOUS
  <2>3. step' = [step EXCEPT ![c.slot].status = outcome] /\ Then(w, cs)
    BY <1>1, <1>6, <2>1, <2>2 DEF MethodEnds, SetStep
  <2>4. /\ c.slot \in Slots /\ step[c.slot].status # "absent" /\ step[c.slot].of = c.run
        /\ step[c.slot].at = c.at /\ ~OfAgent(plan, c.at)
    BY <1>6 DEF AboutStep, OfAgent, AtOnce
  <2>5. /\ Touched /\ \A u \in Slots : step[u].status = "absent" => step'[u].status = "absent"
        /\ step'[c.slot].status = outcome /\ step'[c.slot].of = c.run /\ step'[c.slot].at = c.at
    BY <1>2, <1>5, <1>6, <2>3, <2>4, StepTouched
  <2>6. NewCalls(cs, plan, step', job', swept) /\ \A s : ~Creates(cs, s)
    <3>1. CASE outcome = "succeeded"
      <4>1. IsCall(d, "advance", c.run, c.at, c.slot, c.arg)
        BY <1>4, <2>1, CallBecomes
      <4>2. d.do = "advance" /\ d.run = c.run /\ d.at = c.at /\ d.slot = c.slot /\ d.arg = c.arg
        BY <4>1, CallHas
      <4>3. IsCall(d, d.do, d.run, d.at, d.slot, d.arg) /\ AboutStep(d, step')
        BY <2>4, <2>5, <3>1, <4>1, <4>2 DEF AboutStep
      <4>4. CallTrue(d, plan, step', job', swept)
        BY <1>4, <1>6, <4>2, <4>3, AdvanceTrue
      <4>. QED
        BY <2>2, <3>1, <4>2, <4>4, OneCallIsNew
    <3>2. CASE outcome # "succeeded"
      BY <2>2, <3>2, NoNewCall
    <3>. QED
      BY <3>1, <3>2
  <2>. QED
    BY <1>2, <2>3, <2>5, <2>6, GoesOnPlainly
<1>7. CASE /\ c.arg = "new" /\ Origin(plan, step, c.run, c.at, c.slot)
           /\ plan[c.at].runner = "builtin" /\ ~plan[c.at].fan
  <2>0. PICK s : s = Taken + 1
    OBVIOUS
  <2>1. PICK d : d = [c EXCEPT !.do = "advance", !.slot = s]
    OBVIOUS
  <2>2. PICK cs : cs = IF outcome = "succeeded" THEN <<d>> ELSE FailRun(c.run)
    OBVIOUS
  <2>3. c.arg = "new"
    BY <1>7, Zenon
  <2>4. Room(1) /\ step' = [step EXCEPT ![s] = Row(c, c.slot, outcome)] /\ Then(w, cs)
    BY <1>1, <2>0, <2>1, <2>2, <2>3 DEF MethodEnds
  <2>5. New(1) = {s} /\ s \in Slots
    <3>1. New(1) = {s}
      BY <2>0, TakenIsUsed DEF New
    <3>2. New(1) \subseteq Slots
      BY <2>4, FreshSlots
    <3>. QED
      BY <3>1, <3>2
  <2>6. step' = [u \in Slots |-> IF u \in New(1) THEN Row(c, c.slot, outcome) ELSE step[u]]
    <3>1. step \in [Slots -> StepRow]
      BY DEF RunsInvariant, RunsTypes
    <3>. QED
      BY <2>4, <2>5, <3>1
  <2>7. ~OfAgent(plan, c.at) /\ Origin(plan, step, c.run, c.at, c.slot)
    <3>1. plan[c.at].runner = "builtin" /\ Origin(plan, step, c.run, c.at, c.slot)
      BY <1>7, Zenon
    <3>. QED
      BY <3>1 DEF OfAgent
  <2>8. /\ Touched
        /\ \A u \in New(1) : /\ u \in Slots /\ u \notin Used
                             /\ step'[u].status = outcome /\ step'[u].of = c.run /\ step'[u].at = c.at
        /\ \A u \in Slots : u \notin New(1) => step'[u] = step[u]
    <3>1. /\ outcome \in {"queued", "running", "succeeded", "failed"} /\ 1 \in Nat
          /\ outcome \notin Ended => ~AtOnce(plan, c.at)
      BY <1>5
    <3>2. PICK n \in Nat : n = 1
      OBVIOUS
    <3>3. /\ Room(n) /\ New(n) = New(1)
          /\ step' = [u \in Slots |-> IF u \in New(n) THEN Row(c, c.slot, outcome) ELSE step[u]]
      BY <2>4, <2>6, <3>2
    <3>. QED
      BY <1>2, <1>4, <2>7, <3>1, <3>3, RowsMade
  <2>9. NewCalls(cs, plan, step', job', swept) /\ \A u : ~Creates(cs, u)
    <3>1. CASE outcome = "succeeded"
      <4>1. IsCall(d, "advance", c.run, c.at, s, c.arg)
        BY <1>4, <2>1, CallBecomes
      <4>2. d.do = "advance" /\ d.run = c.run /\ d.at = c.at /\ d.slot = s /\ d.arg = c.arg
        BY <4>1, CallHas
      <4>3. IsCall(d, d.do, d.run, d.at, d.slot, d.arg) /\ AboutStep(d, step')
            /\ step'[d.slot].status = "succeeded"
        BY <2>5, <2>8, <3>1, <4>1, <4>2 DEF AboutStep
      <4>4. CallTrue(d, plan, step', job', swept)
        BY <1>4, <4>2, <4>3, AdvanceTrue
      <4>. QED
        BY <2>2, <3>1, <4>2, <4>4, OneCallIsNew
    <3>2. CASE outcome # "succeeded"
      BY <1>4, <2>2, <3>2, RunCallIsNew
    <3>. QED
      BY <3>1, <3>2
  <2>10. \A u \in Slots : step[u].status = "absent" /\ job[u] # "absent" => step'[u].status = "absent"
    BY <2>8 DEF Used
  <2>11. job' = job
    BY <1>2
  <2>. QED
    BY <1>2, <2>4, <2>8, <2>9, <2>10, <2>11, GoesOnPlainly
<1>. QED
  BY <1>3, <1>6, <1>7, Zenon DEF CallTrue

LEMMA ProgramTrue ==
    ASSUME NEW p, NEW st, NEW jb, NEW sw, NEW c, IsCall(c, c.do, c.run, c.at, c.slot, c.arg),
           c.run \in Runs, c.run \notin sw, ~AtOnce(p, c.at),
           NEW s \in Slots, st[s].status # "absent", st[s].of = c.run, st[s].at = c.at,
           NEW cs, cs = Program(c, s)
    PROVE  NewCalls(cs, p, st, jb, sw) /\ \A u : ~Creates(cs, u)
<1>1. PICK d : d = [c EXCEPT !.do = "jobrow", !.slot = s]
  OBVIOUS
<1>2. PICK e : e = [c EXCEPT !.do = "invoke", !.slot = s]
  OBVIOUS
<1>3. cs = <<d, e>>
  BY <1>1, <1>2 DEF Program
<1>4. IsCall(d, "jobrow", c.run, c.at, s, c.arg) /\ IsCall(e, "invoke", c.run, c.at, s, c.arg)
  BY <1>1, <1>2, CallBecomes
<1>5. /\ d.do = "jobrow" /\ d.run = c.run /\ d.at = c.at /\ d.slot = s /\ d.arg = c.arg
      /\ e.do = "invoke" /\ e.run = c.run /\ e.at = c.at /\ e.slot = s /\ e.arg = c.arg
  BY <1>4, CallHas
<1>6. /\ IsCall(d, d.do, d.run, d.at, d.slot, d.arg) /\ AboutStep(d, st)
      /\ IsCall(e, e.do, e.run, e.at, e.slot, e.arg) /\ AboutStep(e, st)
  BY <1>4, <1>5 DEF AboutStep
<1>7. CallTrue(d, p, st, jb, sw) /\ CallTrue(e, p, st, jb, sw)
  BY <1>5, <1>6, AloneCallTrue
<1>. QED
  BY <1>3, <1>5, <1>7, TwoNewCalls

LEMMA ExecuteProgramKeeps == ASSUME RunsInvariant, NEW w \in Goers, ExecuteProgram(w) PROVE RunsInvariant'
<1>1. PICK c : c = Now(w)
  OBVIOUS
<1>2. PICK s : s = Taken + 1
  OBVIOUS
<1>3. PICK cs : cs = Program(c, s)
  OBVIOUS
<1>4. /\ Calls(w, "execute") /\ plan[c.at].runner = "cli" /\ Room(1)
      /\ step' = [u \in Slots |-> IF u \in New(1) THEN Row(c, c.slot, "running") ELSE step[u]]
      /\ UNCHANGED <<plan, run, job, swept, restarts>> /\ Then(w, cs)
  BY <1>1, <1>2, <1>3, Zenon DEF ExecuteProgram, Executes, Precreate
<1>5. CallTrue(c, plan, step, job, swept) /\ c.do = "execute"
  BY <1>1, <1>4, CallMade
<1>6. /\ IsCall(c, c.do, c.run, c.at, c.slot, c.arg) /\ c.run \in Runs /\ c.run \notin swept
      /\ Origin(plan, step, c.run, c.at, c.slot)
  BY <1>5 DEF CallTrue
<1>7. ~AtOnce(plan, c.at) /\ ~OfAgent(plan, c.at)
  BY <1>4 DEF AtOnce, OfAgent
<1>8. s \in New(1)
  BY <1>2, TakenIsUsed DEF New
<1>9. /\ Touched
      /\ \A u \in New(1) : /\ u \in Slots /\ u \notin Used
                           /\ step'[u].status = "running" /\ step'[u].of = c.run /\ step'[u].at = c.at
      /\ \A u \in Slots : u \notin New(1) => step'[u] = step[u]
  BY <1>4, <1>6, <1>7, RowsMade
<1>10. NewCalls(cs, plan, step', job', swept) /\ \A u : ~Creates(cs, u)
  <2>1. s \in Slots /\ step'[s].status # "absent" /\ step'[s].of = c.run /\ step'[s].at = c.at
    BY <1>8, <1>9
  <2>. QED
    BY <1>3, <1>6, <1>7, <2>1, ProgramTrue
<1>11. job' = job /\ \A u \in Slots : step[u].status = "absent" /\ job[u] # "absent" => step'[u].status = "absent"
  BY <1>4, <1>9 DEF Used
<1>. QED
  BY <1>4, <1>9, <1>10, <1>11, GoesOnPlainly
LEMMA ExecuteProgramFanKeeps == ASSUME RunsInvariant, NEW w \in Goers, ExecuteProgramFan(w) PROVE RunsInvariant'
<1>1. PICK c : c = Now(w)
  OBVIOUS
<1>2. PICK n \in Items(c.at) :
         /\ Precreate(w, n, "queued")
         /\ todo' = [v \in DOMAIN todo |->
                       CASE v = w -> <<[c EXCEPT !.do = "join", !.arg = New(n)]>>
                                     \o Resolve(c.run) \o Tail(todo[w])
                         [] v \in New(n) -> <<[c EXCEPT !.do = "activate", !.slot = v]>>
                         [] OTHER -> todo[v]]
  BY <1>1, Zenon DEF ExecuteProgramFan
<1>3. n \in Nat
  BY <1>2, ItemsAreNumbers
<1>4. PICK d : d = [c EXCEPT !.do = "join", !.arg = New(n)]
  OBVIOUS
<1>5. PICK a : a = <<d>>
  OBVIOUS
<1>6. PICK b : b = Resolve(c.run)
  OBVIOUS
<1>7. PICK cs : cs = a \o b
  OBVIOUS
<1>8. /\ Calls(w, "execute") /\ plan[c.at].runner = "cli"
      /\ UNCHANGED <<plan, run, job, swept, restarts>> /\ Room(n)
      /\ step' = [s \in Slots |-> IF s \in New(n) THEN Row(c, c.slot, "queued") ELSE step[s]]
  BY <1>1, <1>2, Zenon DEF ExecuteProgramFan, Executes, Precreate
<1>9. CallTrue(c, plan, step, job, swept) /\ c.do = "execute" /\ todo[w] # <<>> /\ todo[w][1] = c
  BY <1>1, <1>8, CallMade
<1>10. /\ IsCall(c, c.do, c.run, c.at, c.slot, c.arg) /\ c.run \in Runs /\ c.run \notin swept
       /\ Origin(plan, step, c.run, c.at, c.slot)
  BY <1>9 DEF CallTrue
<1>11. ~AtOnce(plan, c.at) /\ ~OfAgent(plan, c.at)
  BY <1>8 DEF AtOnce, OfAgent
<1>12. /\ Touched
       /\ \A s \in New(n) : /\ s \in Slots /\ s \notin Used
                            /\ step'[s].status = "queued" /\ step'[s].of = c.run /\ step'[s].at = c.at
       /\ \A s \in Slots : s \notin New(n) => step'[s] = step[s]
  BY <1>3, <1>8, <1>10, <1>11, RowsMade
<1>13. DOMAIN todo = Goers /\ w \notin New(n) /\ New(n) \subseteq Slots /\ New(n) \subseteq Goers
  <2>1. w \in Slots => w \in Used
    BY <1>9 DEF RunsInvariant, RowsInOrder
  <2>. QED
    BY <1>12, <2>1 DEF RunsInvariant, RunsTypes, Goers
<1>14. /\ todo' = [v \in Goers |-> todo'[v]]
       /\ todo'[w] = <<d>> \o b \o Tail(todo[w])
       /\ \A v \in New(n) : todo'[v] = <<[c EXCEPT !.do = "activate", !.slot = v]>>
       /\ \A v \in Goers : v # w /\ v \notin New(n) => todo'[v] = todo[v]
  BY <1>2, <1>4, <1>6, <1>13
<1>15. todo'[w] = cs \o Tail(todo[w])
  BY <1>5, <1>7, <1>14
<1>16. NewCalls(cs, plan, step', job', swept) /\ \A s : ~Creates(cs, s)
  <2>1. IsCall(d, "join", c.run, c.at, c.slot, New(n))
    BY <1>4, <1>10, CallBecomes
  <2>2. d.do = "join" /\ d.run = c.run /\ d.at = c.at /\ d.slot = c.slot /\ d.arg = New(n)
    BY <2>1, CallHas
  <2>3. IsCall(d, d.do, d.run, d.at, d.slot, d.arg)
    BY <2>1, <2>2
  <2>4. CallTrue(d, plan, step', job', swept)
    BY <1>10, <2>2, <2>3 DEF CallTrue, StepCalls, AloneCalls, RunCalls
  <2>5. NewCalls(a, plan, step', job', swept) /\ \A s : ~Creates(a, s)
    BY <1>5, <2>2, <2>4, OneCallIsNew
  <2>6. NewCalls(b, plan, step', job', swept) /\ \A i \in DOMAIN b : b[i].do # "create"
    BY <1>6, <1>10, RunCallIsNew
  <2>. QED
    BY <1>7, <2>5, <2>6, ManyNewCalls
<1>17. PICK fresh : fresh = New(n)
  OBVIOUS
<1>18. Opens(fresh)
  <2>1. ASSUME NEW v \in New(n)
        PROVE  /\ v \in Used' /\ todo[v] = <<>> /\ NewCalls(todo'[v], plan, step', job', swept)
               /\ \A s \in Slots : ~Creates(todo'[v], s)
    <3>1. v \in Slots /\ v \notin Used /\ step'[v].status = "queued" /\ step'[v].of = c.run /\ step'[v].at = c.at
      BY <1>12
    <3>2. v \in Used' /\ todo[v] = <<>>
      BY <3>1 DEF Used, RunsInvariant, RowsInOrder
    <3>3. PICK e : e = [c EXCEPT !.do = "activate", !.slot = v]
      OBVIOUS
    <3>4. IsCall(e, "activate", c.run, c.at, v, c.arg)
      BY <1>10, <3>3, CallBecomes
    <3>5. e.do = "activate" /\ e.run = c.run /\ e.at = c.at /\ e.slot = v /\ e.arg = c.arg
      BY <3>4, CallHas
    <3>6. IsCall(e, e.do, e.run, e.at, e.slot, e.arg) /\ AboutStep(e, step')
      BY <3>1, <3>4, <3>5 DEF AboutStep
    <3>7. CallTrue(e, plan, step', job', swept)
      BY <1>10, <1>11, <3>5, <3>6, AloneCallTrue
    <3>8. PICK es : es = <<e>>
      OBVIOUS
    <3>9. NewCalls(es, plan, step', job', swept) /\ \A s : ~Creates(es, s)
      BY <3>5, <3>7, <3>8, OneCallIsNew
    <3>10. todo'[v] = es
      BY <1>14, <3>3, <3>8
    <3>. QED
      BY <3>2, <3>9, <3>10
  <2>. QED
    BY <1>13, <1>17, <2>1 DEF Opens
<1>19. \A s \in Slots : Creates(cs, s) => s \notin Used
  BY <1>16
<1>20. \A s \in Slots : step[s].status = "absent" /\ job[s] # "absent" /\ step'[s].status # "absent"
                          => Creates(todo[w], s)
  BY <1>12 DEF Used
<1>21. \A s \in Slots : job'[s] = "running" =>
          \/ job[s] = "running" /\ ~(todo[w][1].do = "invoke" /\ todo[w][1].slot = s)
          \/ todo[w][1].do = "jobrow" /\ todo[w][1].slot = s
  BY <1>8, <1>9
<1>22. \A v \in Goers : v # w /\ v \notin fresh => todo'[v] = todo[v]
  BY <1>14, <1>17
<1>. QED
  BY <1>9, <1>12, <1>14, <1>15, <1>16, <1>18, <1>19, <1>20, <1>21, <1>22, GoesOnWith

LEMMA ActivateKeeps == ASSUME RunsInvariant, NEW w \in Goers, Activate(w) PROVE RunsInvariant'
<1>1. PICK c : c = Now(w)
  OBVIOUS
<1>2. PICK cs : cs = Program(c, c.slot)
  OBVIOUS
<1>3. /\ Calls(w, "activate") /\ UNCHANGED <<plan, run, job, swept, restarts>> /\ Then(w, cs)
      /\ step' = [step EXCEPT ![c.slot].status = "running"]
  BY <1>1, <1>2 DEF Activate, SetStep
<1>4. CallTrue(c, plan, step, job, swept) /\ c.do = "activate"
  BY <1>1, <1>3, CallMade
<1>5. /\ IsCall(c, c.do, c.run, c.at, c.slot, c.arg) /\ c.run \in Runs /\ c.run \notin swept
      /\ AboutStep(c, step) /\ ~AtOnce(plan, c.at)
  BY <1>4 DEF CallTrue, StepCalls, AloneCalls
<1>6. /\ c.slot \in Slots /\ step[c.slot].status # "absent" /\ step[c.slot].of = c.run /\ step[c.slot].at = c.at
  BY <1>5 DEF AboutStep
<1>7. /\ Touched /\ \A u \in Slots : step[u].status = "absent" => step'[u].status = "absent"
      /\ step'[c.slot].status = "running" /\ step'[c.slot].of = c.run /\ step'[c.slot].at = c.at
  BY <1>3, <1>5, <1>6, StepTouched
<1>8. NewCalls(cs, plan, step', job', swept) /\ \A u : ~Creates(cs, u)
  <2>1. step'[c.slot].status # "absent"
    BY <1>7
  <2>. QED
    BY <1>2, <1>5, <1>6, <1>7, <2>1, ProgramTrue
<1>. QED
  BY <1>3, <1>7, <1>8, GoesOnPlainly

LEMMA WriteJobRowKeeps == ASSUME RunsInvariant, NEW w \in Goers, WriteJobRow(w) PROVE RunsInvariant'
<1>1. PICK c : c = Now(w)
  OBVIOUS
<1>2. PICK cs : cs = <<>>
  OBVIOUS
<1>3. /\ Calls(w, "jobrow") /\ UNCHANGED <<plan, run, step, swept, restarts>>
      /\ todo' = [todo EXCEPT ![w] = cs \o Tail(@)] /\ job' = [job EXCEPT ![c.slot] = "running"]
  BY <1>1, <1>2 DEF WriteJobRow, Then
<1>4. CallTrue(c, plan, step, job, swept) /\ c.do = "jobrow" /\ todo[w] # <<>> /\ todo[w][1] = c
  BY <1>1, <1>3, CallMade
<1>5. /\ c.slot \in Slots /\ step[c.slot].status # "absent" /\ step[c.slot].at = c.at /\ ~AtOnce(plan, c.at)
  BY <1>4 DEF CallTrue, StepCalls, AloneCalls, AboutStep
<1>6. c.slot \in Used /\ ~OfAgent(plan, step[c.slot].at)
  BY <1>5 DEF Used, AtOnce, OfAgent
<1>7. Touched
  BY <1>3, <1>6, JobTouched
<1>8. NewCalls(cs, plan, step', job', swept) /\ \A u : ~Creates(cs, u)
  BY <1>2, NoNewCall
<1>9. \A s \in Slots : step[s].status = "absent" /\ job[s] # "absent" /\ step'[s].status # "absent"
                         => Creates(todo[w], s)
  BY <1>3
<1>10. \A s \in Slots : job'[s] = "running" =>
          \/ job[s] = "running" /\ ~(todo[w][1].do = "invoke" /\ todo[w][1].slot = s)
          \/ todo[w][1].do = "jobrow" /\ todo[w][1].slot = s
  <2>1. \A s \in Slots : s # c.slot => job'[s] = job[s]
    BY <1>3 DEF RunsInvariant, RunsTypes
  <2>. QED
    BY <1>4, <2>1
<1>11. \A s \in Slots : Creates(cs, s) => s \notin Used
  BY <1>8
<1>. QED
  BY <1>3, <1>4, <1>7, <1>8, <1>9, <1>10, <1>11, GoesOn

LEMMA ProgramEndsKeeps ==
    ASSUME RunsInvariant, NEW w \in Goers, NEW outcome \in Ended, ProgramEnds(w, outcome) PROVE RunsInvariant'
<1>1. PICK c : c = Now(w)
  OBVIOUS
<1>2. PICK d : d = [c EXCEPT !.do = "finish", !.arg = outcome]
  OBVIOUS
<1>3. PICK cs : cs = <<d>>
  OBVIOUS
<1>4. /\ Calls(w, "invoke") /\ UNCHANGED <<plan, run, step, swept, restarts>>
      /\ todo' = [todo EXCEPT ![w] = cs \o Tail(@)] /\ job' = [job EXCEPT ![c.slot] = outcome]
  BY <1>1, <1>2, <1>3 DEF ProgramEnds, Then
<1>5. CallTrue(c, plan, step, job, swept) /\ c.do = "invoke" /\ todo[w] # <<>> /\ todo[w][1] = c
  BY <1>1, <1>4, CallMade
<1>6. /\ IsCall(c, c.do, c.run, c.at, c.slot, c.arg) /\ c.run \in Runs /\ c.run \notin swept
      /\ AboutStep(c, step) /\ ~AtOnce(plan, c.at)
  BY <1>5 DEF CallTrue, StepCalls, AloneCalls
<1>7. /\ c.slot \in Slots /\ step[c.slot].status # "absent" /\ step[c.slot].of = c.run /\ step[c.slot].at = c.at
  BY <1>6 DEF AboutStep
<1>8. /\ c.slot \in Used /\ ~OfAgent(plan, step[c.slot].at)
      /\ outcome \in {"queued", "claimed", "running", "succeeded", "failed"} /\ outcome # "running"
  BY <1>6, <1>7 DEF Used, AtOnce, OfAgent, Ended
<1>9. Touched
  BY <1>4, <1>8, JobTouched
<1>10. IsCall(d, "finish", c.run, c.at, c.slot, outcome)
  BY <1>2, <1>6, CallBecomes
<1>11. d.do = "finish" /\ d.run = c.run /\ d.at = c.at /\ d.slot = c.slot /\ d.arg = outcome
  BY <1>10, CallHas
<1>12. step' = step
  BY <1>4
<1>13. CallTrue(d, plan, step', job', swept)
  <2>1. IsCall(d, d.do, d.run, d.at, d.slot, d.arg) /\ AboutStep(d, step')
    BY <1>7, <1>10, <1>11, <1>12 DEF AboutStep
  <2>. QED
    BY <1>6, <1>11, <2>1 DEF CallTrue, StepCalls, AloneCalls, RunCalls
<1>14. NewCalls(cs, plan, step', job', swept) /\ \A s : ~Creates(cs, s)
  BY <1>3, <1>11, <1>13, OneCallIsNew
<1>15. \A s \in Slots : step[s].status = "absent" /\ job[s] # "absent" /\ step'[s].status # "absent"
                          => Creates(todo[w], s)
  BY <1>12
<1>16. \A s \in Slots : job'[s] = "running" =>
          \/ job[s] = "running" /\ ~(todo[w][1].do = "invoke" /\ todo[w][1].slot = s)
          \/ todo[w][1].do = "jobrow" /\ todo[w][1].slot = s
  <2>1. job'[c.slot] = outcome /\ \A s \in Slots : s # c.slot => job'[s] = job[s]
    BY <1>4, <1>7 DEF RunsInvariant, RunsTypes
  <2>. QED
    BY <1>5, <1>8, <2>1
<1>17. \A s \in Slots : Creates(cs, s) => s \notin Used
  BY <1>14
<1>. QED
  BY <1>4, <1>5, <1>9, <1>14, <1>15, <1>16, <1>17, GoesOn

LEMMA FinishKeeps == ASSUME RunsInvariant, NEW w \in Goers, Finish(w) PROVE RunsInvariant'
<1>1. PICK c : c = Now(w)
  OBVIOUS
<1>2. PICK d : d = [c EXCEPT !.do = "advance"]
  OBVIOUS
<1>3. PICK cs : cs = IF c.arg = "succeeded" THEN <<d>> ELSE IF plan[c.at].fan THEN <<>> ELSE FailRun(c.run)
  OBVIOUS
<1>4. /\ Calls(w, "finish") /\ UNCHANGED <<plan, run, job, swept, restarts>> /\ Then(w, cs)
      /\ step' = [step EXCEPT ![c.slot].status = c.arg]
  BY <1>1, <1>2, <1>3 DEF Finish, SetStep
<1>5. CallTrue(c, plan, step, job, swept) /\ c.do = "finish"
  BY <1>1, <1>4, CallMade
<1>6. /\ IsCall(c, c.do, c.run, c.at, c.slot, c.arg) /\ c.run \in Runs /\ c.run \notin swept
      /\ AboutStep(c, step) /\ ~AtOnce(plan, c.at) /\ c.arg \in Ended
  BY <1>5 DEF CallTrue, StepCalls, AloneCalls
<1>7. /\ c.slot \in Slots /\ step[c.slot].status # "absent" /\ step[c.slot].of = c.run /\ step[c.slot].at = c.at
      /\ ~OfAgent(plan, c.at)
  BY <1>6 DEF AboutStep, AtOnce, OfAgent
<1>8. c.arg \in {"queued", "running", "succeeded", "failed"} /\ c.arg # "running"
  BY <1>6 DEF Ended
<1>9. /\ Touched /\ \A u \in Slots : step[u].status = "absent" => step'[u].status = "absent"
      /\ step'[c.slot].status = c.arg /\ step'[c.slot].of = step[c.slot].of /\ step'[c.slot].at = step[c.slot].at
  BY <1>4, <1>6, <1>7, <1>8, StepTouched
<1>10. NewCalls(cs, plan, step', job', swept) /\ \A s : ~Creates(cs, s)
  <2>1. CASE c.arg = "succeeded"
    <3>1. IsCall(d, "advance", c.run, c.at, c.slot, c.arg)
      BY <1>2, <1>6, CallBecomes
    <3>2. d.do = "advance" /\ d.run = c.run /\ d.at = c.at /\ d.slot = c.slot /\ d.arg = c.arg
      BY <3>1, CallHas
    <3>3. IsCall(d, d.do, d.run, d.at, d.slot, d.arg) /\ AboutStep(d, step')
      BY <1>7, <1>9, <2>1, <3>1, <3>2 DEF AboutStep
    <3>4. CallTrue(d, plan, step', job', swept)
      BY <1>6, <3>2, <3>3, AdvanceTrue
    <3>5. cs = <<d>>
      BY <1>3, <2>1
    <3>. QED
      BY <3>2, <3>4, <3>5, OneCallIsNew
  <2>2. CASE c.arg # "succeeded" /\ cs = <<>>
    BY <2>2, NoNewCall
  <2>3. CASE c.arg # "succeeded" /\ cs = FailRun(c.run)
    BY <1>6, <2>3, RunCallIsNew
  <2>. QED
    BY <1>3, <2>1, <2>2, <2>3
<1>. QED
  BY <1>4, <1>9, <1>10, GoesOnPlainly

LEMMA JoinKeeps == ASSUME RunsInvariant, NEW w \in Goers, Join(w) PROVE RunsInvariant'
<1>1. PICK cs : cs = <<>>
  OBVIOUS
<1>2. Calls(w, "join") /\ UNCHANGED <<plan, run, step, job, swept, restarts>> /\ Then(w, cs)
  BY <1>1 DEF Join
<1>3. NewCalls(cs, plan, step, job, swept) /\ \A s : ~Creates(cs, s)
  BY <1>1, NoNewCall
<1>. QED
  BY <1>2, <1>3, GoesOnReading

LEMMA ListKeeps == ASSUME RunsInvariant, NEW w \in Goers, List(w) PROVE RunsInvariant'
<1>1. PICK c : c = Now(w)
  OBVIOUS
<1>2. PICK a : a = IF FinalSucceeded(c.run) THEN "completed" ELSE "failed"
  OBVIOUS
<1>3. PICK d : d = [c EXCEPT !.do = "verdict", !.arg = a]
  OBVIOUS
<1>4. PICK cs : cs = IF \E s \in StepsOf(c.run) : step[s].status \in Active THEN <<>> ELSE <<d>>
  OBVIOUS
<1>5. Calls(w, "list") /\ UNCHANGED <<plan, run, step, job, swept, restarts>> /\ Then(w, cs)
  BY <1>1, <1>2, <1>3, <1>4, Zenon DEF List
<1>6. CallTrue(c, plan, step, job, swept) /\ c.do = "list"
  BY <1>1, <1>5, CallMade
<1>7. IsCall(c, c.do, c.run, c.at, c.slot, c.arg) /\ c.run \in Runs /\ c.run \notin swept
  BY <1>6 DEF CallTrue
<1>8. NewCalls(cs, plan, step, job, swept) /\ \A s : ~Creates(cs, s)
  <2>1. CASE cs = <<>>
    BY <2>1, NoNewCall
  <2>2. CASE cs = <<d>>
    <3>1. IsCall(d, "verdict", c.run, c.at, c.slot, a)
      BY <1>3, <1>7, CallBecomes
    <3>2. d.do = "verdict" /\ d.run = c.run /\ d.at = c.at /\ d.slot = c.slot /\ d.arg = a
      BY <3>1, CallHas
    <3>3. a \in {"completed", "failed"} /\ (a = "completed" => Ends(plan, step, c.run))
      BY <1>2 DEF FinalSucceeded, StepsOf, Ends
    <3>4. IsCall(d, d.do, d.run, d.at, d.slot, d.arg)
      BY <3>1, <3>2
    <3>5. CallTrue(d, plan, step, job, swept)
      BY <1>7, <3>2, <3>3, <3>4 DEF CallTrue, StepCalls, AloneCalls, RunCalls
    <3>. QED
      BY <2>2, <3>2, <3>5, OneCallIsNew
  <2>. QED
    BY <1>4, <2>1, <2>2
<1>. QED
  BY <1>5, <1>8, GoesOnReading

LEMMA RunFailsKeeps == ASSUME RunsInvariant, NEW w \in Goers, RunFails(w) PROVE RunsInvariant'
<1>1. PICK c : c = Now(w)
  OBVIOUS
<1>2. PICK cs : cs = <<>>
  OBVIOUS
<1>3. /\ Calls(w, "fail") /\ UNCHANGED <<plan, step, job, swept, restarts>> /\ Then(w, cs)
      /\ run' = [run EXCEPT ![c.run] = "failed"]
  BY <1>1, <1>2 DEF RunFails
<1>4. CallTrue(c, plan, step, job, swept)
  BY <1>1, <1>3, CallMade
<1>5. c.run \in Runs
  BY <1>4 DEF CallTrue
<1>6. Touched
  BY <1>3, <1>5, RunTouched
<1>7. NewCalls(cs, plan, step', job', swept) /\ \A s : ~Creates(cs, s)
  BY <1>2, NoNewCall
<1>8. job' = job /\ \A s \in Slots : step[s].status = "absent" /\ job[s] # "absent" => step'[s].status = "absent"
  BY <1>3
<1>. QED
  BY <1>3, <1>6, <1>7, <1>8, GoesOnPlainly
-----------------------------------------------------------------------------
\* Goroutines that begin, and steps of others.
Begins(cs) == NewCalls(cs, plan, step', job', swept) /\ \A s \in Slots : ~Creates(cs, s)

LEMMA OthersStay ==
    ASSUME RunsInvariant, Touched, todo' = [v \in Goers |-> todo'[v]],
           \A v \in Goers : todo'[v] = todo[v] \/ (v \in Workers /\ todo[v] = <<>> /\ Begins(todo'[v])),
           \A s \in Slots : step[s].status = "absent" /\ job[s] # "absent" => step'[s].status = "absent",
           \A s \in Slots : job'[s] = "running" => job[s] = "running"
    PROVE  RunsInvariant'
<1>. USE DEF RunsInvariant
<1>1. /\ UNCHANGED <<plan, swept, restarts>> /\ Grows(plan, step, job, step', job') /\ Len(plan) \in DOMAIN plan
  BY PlanHasEnd DEF Touched
<1>2. RunsTypes'
  BY <1>1 DEF RunsTypes, Touched
<1>3. QueuesTrue'
  <2>1. ASSUME NEW v \in Goers PROVE QueueTrue(todo'[v], plan, step', job', swept)
    <3>1. PICK q, q2 : q = todo[v] /\ q2 = todo'[v]
      OBVIOUS
    <3>2. CASE q2 = q
      <4>1. QueueTrue(q, plan, step, job, swept)
        BY <3>1 DEF QueuesTrue
      <4>2. \A s \in Slots : Creates(q, s) => step'[s].status = "absent"
        BY <3>1, CreatesWhatIsMade
      <4>3. QueueTrue(q, plan, step', job', swept)
        BY <1>1, <4>1, <4>2, QueueStays
      <4>. QED
        BY <3>1, <3>2, <4>3
    <3>3. CASE Begins(q2)
      <4>1. QueueTrue(q2, plan, step', job', swept)
        BY <3>3 DEF Begins, NewCalls, QueueTrue
      <4>. QED
        BY <3>1, <4>1
    <3>. QED
      BY <3>1, <3>2, <3>3
  <2>. QED
    BY <1>1, <2>1 DEF QueuesTrue
<1>4. RowsTrue' /\ RunsTrue'
  BY <1>1 DEF RowsTrue, RunsTrue, Touched
<1>5. RowsInOrder'
  <2>1. ASSUME NEW s \in Slots, todo'[s] # <<>> PROVE s \in Used'
    <3>1. s \in Goers /\ s \notin Workers
      BY BoundsAreNumbers DEF Goers
    <3>2. todo[s] # <<>>
      BY <2>1, <3>1
    <3>3. s \in Used
      BY <3>2 DEF RowsInOrder
    <3>. QED
      BY <1>1, <3>3, UsedGrows
  <2>. QED
    BY <2>1 DEF RowsInOrder, Touched
<1>6. CreatesApart'
  <2>1. \A v \in Goers, s \in Slots : Creates(todo'[v], s) => Creates(todo[v], s)
    BY DEF Begins
  <2>2. \A v, u \in Goers, s \in Slots : Creates(todo'[v], s) /\ Creates(todo'[u], s) => v = u
    BY <2>1 DEF CreatesApart
  <2>. QED
    BY <2>2 DEF CreatesApart
<1>7. RunningIsActive'
  <2>. SUFFICES ASSUME NEW s \in Slots, job'[s] = "running"
                PROVE  \E v \in Goers : \E i \in DOMAIN todo'[v] :
                          todo'[v][i].do = "invoke" /\ todo'[v][i].slot = s
    BY DEF RunningIsActive, Goers
  <2>1. PICK v \in Goers : \E i \in DOMAIN todo[v] : todo[v][i].do = "invoke" /\ todo[v][i].slot = s
    BY DEF RunningIsActive, Goers
  <2>2. todo[v] # <<>>
    BY <2>1, NoCall
  <2>. QED
    BY <2>1, <2>2
<1>. QED
  BY <1>2, <1>3, <1>4, <1>5, <1>6, <1>7

LEMMA RunsAtRest == ASSUME RunsInvariant, UNCHANGED runVars PROVE RunsInvariant'
<1>1. UNCHANGED <<plan, run, step, job, swept, restarts>> /\ todo' = todo
  BY DEF runVars
<1>2. Touched
  BY <1>1, NothingTouched
<1>3. todo' = [v \in Goers |-> todo'[v]]
  BY <1>1 DEF RunsInvariant, RunsTypes
<1>. QED
  BY <1>1, <1>2, <1>3, OthersStay

LEMMA BeginsWith ==
    ASSUME RunsInvariant, Touched, NEW w \in Workers, todo[w] = <<>>, NEW cs, todo' = [todo EXCEPT ![w] = cs],
           NewCalls(cs, plan, step', job', swept), \A s : ~Creates(cs, s), step' = step,
           \A s \in Slots : job'[s] = "running" => job[s] = "running"
    PROVE  RunsInvariant'
<1>1. todo = [v \in Goers |-> todo[v]] /\ w \in Goers
  BY DEF RunsInvariant, RunsTypes, Goers
<1>2. todo' = [v \in Goers |-> todo'[v]] /\ todo'[w] = cs /\ \A v \in Goers : v # w => todo'[v] = todo[v]
  BY <1>1
<1>3. \A v \in Goers : todo'[v] = todo[v] \/ (v \in Workers /\ todo[v] = <<>> /\ Begins(todo'[v]))
  BY <1>2 DEF Begins
<1>4. \A s \in Slots : step[s].status = "absent" /\ job[s] # "absent" => step'[s].status = "absent"
  OBVIOUS
<1>. QED
  BY <1>2, <1>3, <1>4, OthersStay

LEMMA PollBeginsKeeps == ASSUME RunsInvariant, PollBegins PROVE RunsInvariant'
<1>1. PICK n : n = Cardinality(Running)
  OBVIOUS
<1>2. PICK ss \in [1..n -> Running] :
        todo' = [todo EXCEPT ![Poll] = [i \in DOMAIN ss |-> About("check", ss[i], "none")]]
  BY <1>1 DEF PollBegins
<1>3. PICK cs : cs = [i \in DOMAIN ss |-> About("check", ss[i], "none")]
  OBVIOUS
<1>4. /\ Poll \in Workers /\ todo[Poll] = <<>> /\ UNCHANGED <<plan, run, step, job, swept, restarts>>
      /\ todo' = [todo EXCEPT ![Poll] = cs]
  BY <1>2, <1>3 DEF PollBegins, Idle, Workers
<1>5. n \in Nat
  <2>1. IsFiniteSet(Running)
    BY TakenIsUsed, FS_Subset DEF Running
  <2>. QED
    BY <1>1, <2>1, FS_CardinalityType
<1>6. \A i \in 1..n : CallTrue(cs[i], plan, step, job, swept) /\ cs[i].do = "check"
  BY <1>2, <1>3, CheckTrue
<1>7. IsQueue(cs) /\ DOMAIN cs = 1..n
  <2>1. PICK Any : Any = {cs[i] : i \in 1..n}
    OBVIOUS
  <2>2. cs \in [1..n -> Any]
    BY <1>2, <1>3, <2>1
  <2>. QED
    BY <1>5, <2>2, FunctionIsQueue
<1>8. NewCalls(cs, plan, step, job, swept)
  BY <1>6, <1>7 DEF NewCalls
<1>9. \A s : ~Creates(cs, s)
  <2>1. ASSUME NEW s, Creates(cs, s) PROVE FALSE
    <3>1. 1 \in DOMAIN cs /\ cs[1].do = "create"
      BY <1>7, <2>1, QueueFacts DEF Creates
    <3>. QED
      BY <1>6, <1>7, <3>1
  <2>. QED
    BY <2>1
<1>10. step' = step /\ job' = job
  BY <1>4
<1>11. NewCalls(cs, plan, step', job', swept) /\ \A s \in Slots : job'[s] = "running" => job[s] = "running"
  BY <1>8, <1>10
<1>12. Touched
  BY <1>4, NothingTouched
<1>. QED
  BY <1>4, <1>9, <1>10, <1>11, <1>12, BeginsWith

LEMMA CompleteKeeps ==
    ASSUME RunsInvariant, NEW w \in Hooks, NEW s \in Slots, NEW outcome \in Ended, Complete(w, s, outcome)
    PROVE  RunsInvariant'
<1>1. PICK c : c = Call("lookup", NoStep.of, 0, s, "none")
  OBVIOUS
<1>2. PICK cs : cs = <<c>>
  OBVIOUS
<1>3. /\ w \in Workers /\ todo[w] = <<>> /\ job[s] = "claimed" /\ job' = [job EXCEPT ![s] = outcome]
      /\ todo' = [todo EXCEPT ![w] = cs] /\ UNCHANGED <<plan, run, step, swept, restarts>>
  BY <1>1, <1>2 DEF Complete, Idle, Workers
<1>4. s \in Used /\ job[s] \notin Ended /\ outcome \in {"queued", "claimed", "running", "succeeded", "failed"}
      /\ outcome # "running"
  BY <1>3 DEF Used, Ended
<1>5. Touched
  BY <1>3, <1>4, JobTouched
<1>6. c.do = "lookup" /\ c.run \in Runs /\ c.slot = s /\ IsCall(c, c.do, c.run, c.at, c.slot, c.arg)
  <2>1. NoStep.of \in Runs
    BY BoundsAreNumbers DEF NoStep
  <2>2. IsCall(c, "lookup", NoStep.of, 0, s, "none")
    BY <1>1 DEF Call, IsCall
  <2>3. c.do = "lookup" /\ c.run = NoStep.of /\ c.at = 0 /\ c.slot = s /\ c.arg = "none"
    BY <2>2, CallHas
  <2>. QED
    BY <2>1, <2>2, <2>3
<1>7. CallTrue(c, plan, step', job', swept)
  BY <1>6 DEF CallTrue, StepCalls, AloneCalls, RunCalls
<1>8. NewCalls(cs, plan, step', job', swept) /\ \A u : ~Creates(cs, u)
  BY <1>2, <1>6, <1>7, OneCallIsNew
<1>9. step' = step /\ \A u \in Slots : job'[u] = "running" => job[u] = "running"
  BY <1>3, <1>4 DEF RunsInvariant, RunsTypes
<1>. QED
  BY <1>3, <1>5, <1>8, <1>9, BeginsWith

LEMMA TriggerKeeps ==
    ASSUME RunsInvariant, NEW w \in Hooks, NEW r \in Runs, Trigger(w, r) PROVE RunsInvariant'
<1>1. PICK c : c = Call("execute", r, 1, 0, "none")
  OBVIOUS
<1>2. PICK cs : cs = <<c>>
  OBVIOUS
<1>3. /\ w \in Workers /\ todo[w] = <<>> /\ run[r] = "absent" /\ run' = [run EXCEPT ![r] = "running"]
      /\ todo' = [todo EXCEPT ![w] = cs] /\ UNCHANGED <<plan, step, job, swept, restarts>>
  BY <1>1, <1>2 DEF Trigger, Idle, Workers
<1>4. r \notin swept
  BY <1>3 DEF RunsInvariant, RunsTrue, EndTrue
<1>5. Touched
  BY <1>3, <1>4, RunTouched
<1>6. /\ c.do = "execute" /\ c.run = r /\ c.at = 1 /\ c.slot = 0 /\ c.arg = "none"
      /\ IsCall(c, c.do, c.run, c.at, c.slot, c.arg)
  <2>1. IsCall(c, "execute", r, 1, 0, "none")
    BY <1>1 DEF Call, IsCall
  <2>2. c.do = "execute" /\ c.run = r /\ c.at = 1 /\ c.slot = 0 /\ c.arg = "none"
    BY <2>1, CallHas
  <2>. QED
    BY <2>1, <2>2
<1>7. Origin(plan, step', r, 1, 0)
  <2>1. 1 \in DOMAIN plan /\ 0 \in 0..MaxSlots
    BY PlanHasEnd, BoundsAreNumbers DEF RunsInvariant
  <2>. QED
    BY <2>1 DEF Origin
<1>8. CallTrue(c, plan, step', job', swept)
  BY <1>4, <1>6, <1>7 DEF CallTrue, StepCalls, AloneCalls, RunCalls
<1>9. NewCalls(cs, plan, step', job', swept) /\ \A u : ~Creates(cs, u)
  BY <1>2, <1>6, <1>8, OneCallIsNew
<1>10. step' = step /\ \A u \in Slots : job'[u] = "running" => job[u] = "running"
  BY <1>3
<1>. QED
  BY <1>3, <1>5, <1>9, <1>10, BeginsWith

LEMMA SetJobKeeps ==
    ASSUME RunsInvariant, NEW s \in Slots, NEW old, old \subseteq {"queued", "claimed", "running"},
           NEW new \in {"queued", "claimed", "failed"}, SetJob(s, old, new)
    PROVE  RunsInvariant'
<1>1. /\ job[s] \in old /\ job' = [job EXCEPT ![s] = new] /\ UNCHANGED <<plan, run, step, todo, swept, restarts>>
  BY DEF SetJob
<1>2. s \in Used /\ job[s] \notin Ended /\ new \in {"queued", "claimed", "running", "succeeded", "failed"}
  BY <1>1 DEF Used, Ended
<1>3. Touched
  BY <1>1, <1>2, JobTouched
<1>4. \A u \in Slots : job'[u] = "running" => job[u] = "running"
  BY <1>1 DEF RunsInvariant, RunsTypes
<1>5. todo' = [v \in Goers |-> todo'[v]]
  BY <1>1 DEF RunsInvariant, RunsTypes
<1>. QED
  BY <1>1, <1>3, <1>4, <1>5, OthersStay

LEMMA RestartKeeps == ASSUME RunsInvariant, Restart PROVE RunsInvariant'
<1>1. /\ restarts < MaxRestarts /\ restarts' = restarts + 1 /\ plan' = plan
      /\ \A s \in Slots : step'[s] = IF s \in Running THEN [step[s] EXCEPT !.status = "failed"] ELSE step[s]
      /\ \A s \in Slots : job'[s] = IF job[s] = "running" \/ (s \in Running /\ job[s] # "absent")
                                    THEN "failed" ELSE job[s]
      /\ step' = [s \in Slots |-> step'[s]] /\ job' = [s \in Slots |-> job'[s]]
      /\ run' = [r \in Runs |-> IF run[r] = "running" THEN "failed" ELSE run[r]]
      /\ swept' = swept \cup {r \in Runs : run[r] = "running"}
      /\ DOMAIN todo = Goers
  BY DEF Restart, RunsInvariant, RunsTypes
<1>2. todo' = [w \in Goers |-> <<>>]
  BY <1>1 DEF Restart
<1>3. /\ plan \in Plans /\ run \in [Runs -> {"absent", "running", "completed", "failed"}]
      /\ step \in [Slots -> StepRow] /\ restarts \in 0..MaxRestarts /\ swept \subseteq Runs
      /\ job \in [Slots -> {"absent", "queued", "claimed", "running", "succeeded", "failed"}]
  BY DEF RunsInvariant, RunsTypes
<1>4. ASSUME NEW s \in Slots
      PROVE  /\ step'[s].of = step[s].of /\ step'[s].at = step[s].at /\ step'[s].from = step[s].from
             /\ step'[s].status = IF step[s].status = "running" THEN "failed" ELSE step[s].status
             /\ step'[s] \in StepRow
  <2>1. step[s] \in StepRow
    BY <1>3
  <2>2. PICK q : q = [step[s] EXCEPT !.status = "failed"]
    OBVIOUS
  <2>3. q.of = step[s].of /\ q.at = step[s].at /\ q.from = step[s].from /\ q.status = "failed" /\ q \in StepRow
    BY <2>1, <2>2 DEF StepRow
  <2>4. step'[s] = IF step[s].status = "running" THEN q ELSE step[s]
    BY <1>1, <2>2 DEF Running
  <2>. QED
    BY <2>1, <2>3, <2>4
<1>5. ASSUME NEW s \in Slots
      PROVE  /\ job'[s] = "absent" <=> job[s] = "absent"
             /\ job'[s] # "running" /\ (step[s].status = "succeeded" /\ job[s] = "succeeded" => job'[s] = "succeeded")
             /\ job'[s] \in {"absent", "queued", "claimed", "running", "succeeded", "failed"}
  BY <1>1, <1>3 DEF Running
<1>6. RunsTypes'
  <2>1. step' \in [Slots -> StepRow]
    BY <1>1, <1>4
  <2>2. job' \in [Slots -> {"absent", "queued", "claimed", "running", "succeeded", "failed"}]
    BY <1>1, <1>5
  <2>3. run' \in [Runs -> {"absent", "running", "completed", "failed"}] /\ swept' \subseteq Runs
    BY <1>1, <1>3
  <2>4. restarts' \in 0..MaxRestarts
    BY <1>1, <1>3, BoundsAreNumbers
  <2>5. todo' = [w \in Goers |-> todo'[w]]
    BY <1>2
  <2>. QED
    BY <1>1, <1>3, <2>1, <2>2, <2>3, <2>4, <2>5 DEF RunsTypes
<1>7. RowsTrue'
  <2>1. ASSUME NEW s \in Slots PROVE StepTrue(s, plan, step', job', swept')
    <3>1. StepTrue(s, plan, step, job, swept)
      BY DEF RunsInvariant, RowsTrue
    <3>2. CASE step[s].status = "absent"
      BY <1>4, <3>1, <3>2 DEF StepTrue
    <3>3. CASE step[s].status # "absent"
      <4>1. Origin(plan, step, step[s].of, step[s].at, step[s].from)
        BY <3>1, <3>3 DEF StepTrue
      <4>2. Origin(plan, step', step[s].of, step[s].at, step[s].from)
        <5>1. step[s].from # 0 => step[s].from \in Slots
          BY <4>1, BoundsAreNumbers DEF Origin, Slots
        <5>. QED
          BY <1>4, <4>1, <5>1 DEF Origin
      <4>3. /\ OfAgent(plan, step[s].at) => job[s] # "absent" /\ (step[s].status = "succeeded" => job[s] = "succeeded")
            /\ step[s].status \notin Ended => (AtOnce(plan, step[s].at) => OfAgent(plan, step[s].at))
        BY <3>1, <3>3 DEF StepTrue
      <4>. QED
        BY <1>4, <1>5, <3>3, <4>2, <4>3 DEF StepTrue, Ended
    <3>. QED
      BY <3>2, <3>3
  <2>. QED
    BY <1>1, <2>1 DEF RowsTrue
<1>8. QueuesTrue'
  <2>1. PICK q : q = <<>>
    OBVIOUS
  <2>2. QueueTrue(q, plan, step', job', swept')
    BY <2>1, NoCall DEF QueueTrue
  <2>3. \A v \in Goers : QueueTrue(todo'[v], plan, step', job', swept')
    BY <1>2, <2>1, <2>2
  <2>. QED
    BY <1>1, <2>3 DEF QueuesTrue
<1>9. RowsInOrder'
  <2>1. \A s \in Slots : step'[s].status = "absent" <=> step[s].status = "absent"
    BY <1>4
  <2>2. Used' = Used
    BY <1>5, <2>1 DEF Used
  <2>3. Used' = 1..Taken'
    BY <2>2, UsedStays DEF RunsInvariant
  <2>. QED
    BY <1>2, <2>3 DEF RowsInOrder, Goers
<1>10. CreatesApart' /\ RunningIsActive'
  BY <1>2, <1>5 DEF CreatesApart, Creates, RunningIsActive
<1>11. RunsTrue'
  <2>1. ASSUME NEW r \in Runs PROVE EndTrue(run'[r], plan, step', r, swept')
    <3>1. EndTrue(run[r], plan, step, r, swept)
      BY DEF RunsInvariant, RunsTrue
    <3>2. run'[r] = IF run[r] = "running" THEN "failed" ELSE run[r]
      BY <1>1
    <3>3. Ends(plan, step, r) => Ends(plan, step', r)
      BY <1>4 DEF Ends
    <3>. QED
      BY <1>1, <3>1, <3>2, <3>3 DEF EndTrue
  <2>. QED
    BY <1>1, <2>1 DEF RunsTrue
<1>. QED
  BY <1>6, <1>7, <1>8, <1>9, <1>10, <1>11 DEF RunsInvariant
-----------------------------------------------------------------------------
(***************************************************************************)
(* Schedules.                                                              *)
(***************************************************************************)
PassRow == [at : {"between", "check", "trigger", "reset"}, seen : [Pipelines -> S!Definition],
            since : 0..Longest, todo : SUBSET Pipelines, of : SUBSET Pipelines]
ActiveRow == [scheduled : Nat, manual : 0..MaxManual, back : Nat, late : BOOLEAN]

EditsTrue ==
    /\ def \in [Pipelines -> S!Definition] /\ memory \subseteq Pipelines
    /\ editor \in {S!Quiet} \cup [at : {"saved", "memory"}, of : Pipelines]
    /\ edits \in 0..MaxEdits /\ mishaps \in 0..MaxMishaps
LeftTrue == left \in [Pipelines -> 0..Longest \cup {NoEntry}]

\* A pass is about one pipeline at a time, and when it is about to trigger one, no
\* scheduled run of it is active: only passes start such runs.
PassTrue ==
    \/ pass = S!Resting
    \/ /\ pass \in PassRow /\ \A p, q \in pass.of : p = q
       /\ pass.at = "trigger" => \A p \in pass.of : active[p].scheduled = 0
ActiveTrue ==
    /\ active \in [Pipelines -> ActiveRow] /\ byHand \in 0..MaxManual
    /\ \A p \in Pipelines : active[p].manual <= byHand /\ active[p].scheduled <= 1

SchedulesInvariant == EditsTrue /\ LeftTrue /\ PassTrue /\ ActiveTrue

LEMMA ScheduleBounds ==
    /\ Longest \in Nat \ {0} /\ NoEntry \notin Nat
    /\ MaxEdits \in Nat /\ MaxManual \in Nat /\ MaxMishaps \in Nat
BY EnginePartsAssumption, Zenon DEF EnginePartsAssumption, S!SchedulesAssumption

LEMMA SchedulesBegin == S!Init => SchedulesInvariant
<1>. SUFFICES ASSUME S!Init PROVE SchedulesInvariant
  OBVIOUS
<1>1. S!Gone \in S!Definition /\ \A e \in 0..Longest : [there |-> TRUE, on |-> TRUE, every |-> e] \in S!Definition
  BY ScheduleBounds DEF S!Gone, S!Definition
<1>2. def \in [Pipelines -> S!Definition]
  BY <1>1 DEF S!Init
<1>3. EditsTrue /\ LeftTrue /\ PassTrue
  BY <1>2, ScheduleBounds DEF S!Init, EditsTrue, LeftTrue, PassTrue
<1>4. ActiveTrue
  BY ScheduleBounds DEF S!Init, ActiveTrue, ActiveRow
<1>. QED
  BY <1>3, <1>4 DEF SchedulesInvariant

LEMMA NowFits ==
    ASSUME LeftTrue, pass \in PassRow, NEW p \in Pipelines,
           left' = [left EXCEPT ![p] = S!FromNow(pass.seen[p].every)]
    PROVE  LeftTrue'
<1>1. pass.since \in 0..Longest /\ pass.seen[p].every \in 0..Longest
  BY DEF PassRow, S!Definition
<1>2. PICK e, m : e = pass.seen[p].every /\ m = pass.since
  OBVIOUS
<1>3. (IF e > m THEN e - m ELSE 0) \in 0..Longest
  BY <1>1, <1>2, ScheduleBounds
<1>4. S!FromNow(e) \in 0..Longest
  BY <1>2, <1>3 DEF S!FromNow
<1>. QED
  BY <1>2, <1>4 DEF LeftTrue

\* A pass that is about a pipeline goes on.
LEMMA PassMoves ==
    ASSUME pass \in PassRow, \A p, q \in pass.of : p = q, NEW to \in {"between", "check", "trigger", "reset"},
           NEW rest \in SUBSET Pipelines, to # "trigger",
           pass' = [pass EXCEPT !.todo = rest, !.at = to] \/ pass' = [pass EXCEPT !.at = to]
    PROVE  PassTrue'
<1>1. PICK q : q = pass'
  OBVIOUS
<1>2. /\ q.at = to /\ q.seen = pass.seen /\ q.since = pass.since /\ q.of = pass.of
      /\ q.todo \in SUBSET Pipelines /\ q \in PassRow
  BY <1>1 DEF PassRow
<1>. QED
  BY <1>1, <1>2 DEF PassTrue

LEMMA PassStays == ASSUME PassTrue, pass' = pass, \A p \in Pipelines : active'[p].scheduled <= active[p].scheduled,
                          active \in [Pipelines -> ActiveRow], active' \in [Pipelines -> ActiveRow]
                   PROVE  PassTrue'
<1>1. CASE pass = S!Resting
  BY <1>1 DEF PassTrue
<1>2. CASE /\ pass \in PassRow /\ \A p, q \in pass.of : p = q
           /\ pass.at = "trigger" => \A p \in pass.of : active[p].scheduled = 0
  <2>1. pass.of \subseteq Pipelines
    BY <1>2 DEF PassRow
  <2>2. \A p \in Pipelines : active'[p].scheduled \in Nat
    BY DEF ActiveRow
  <2>. QED
    BY <1>2, <2>1, <2>2 DEF PassTrue
<1>. QED
  BY <1>1, <1>2 DEF PassTrue

LEMMA SchedulesKeep == SchedulesInvariant /\ [S!Next]_scheduleVars => SchedulesInvariant'
<1>. SUFFICES ASSUME SchedulesInvariant, [S!Next]_scheduleVars PROVE SchedulesInvariant'
  OBVIOUS
<1>. USE DEF SchedulesInvariant
<1>0. /\ active \in [Pipelines -> ActiveRow] /\ \A p \in Pipelines : active[p].scheduled \in Nat
      /\ \A p \in Pipelines : active[p].manual \in 0..MaxManual /\ active[p].back \in Nat
  BY DEF ActiveTrue, ActiveRow
<1>r. ASSUME pass # S!Resting
      PROVE  /\ pass \in PassRow /\ \A p, q \in pass.of : p = q
             /\ pass.at = "trigger" => \A p \in pass.of : active[p].scheduled = 0
  BY <1>r DEF PassTrue
<1>e. S!Resting.at = "resting"
  BY DEF S!Resting
<1>1. CASE S!PassBegins
  <2>1. /\ pass' = [at |-> "between", seen |-> def, since |-> 0,
                     todo |-> {p \in Pipelines : def[p].there}, of |-> {}]
        /\ UNCHANGED <<def, memory, left, editor, active, edits, byHand, mishaps>>
    BY <1>1 DEF S!PassBegins, S!bounds
  <2>2. pass' \in PassRow /\ pass'.of = {} /\ pass'.at = "between"
    BY <2>1, ScheduleBounds DEF PassRow, EditsTrue
  <2>. QED
    BY <2>1, <2>2 DEF EditsTrue, LeftTrue, PassTrue, ActiveTrue
<1>2. CASE S!Clean
  <2>1. /\ left' = [p \in Pipelines |-> IF pass.seen[p].there THEN left[p] ELSE NoEntry]
        /\ pass' = S!Resting /\ UNCHANGED <<def, memory, editor, active, edits, byHand, mishaps>>
    BY <1>2 DEF S!Clean, S!bounds
  <2>. QED
    BY <2>1 DEF EditsTrue, LeftTrue, PassTrue, ActiveTrue
<1>3. ASSUME NEW p \in Pipelines, S!Look(p) PROVE SchedulesInvariant'
  <2>1. pass \in PassRow /\ pass.at = "between" /\ UNCHANGED <<def, memory, editor, active, edits, byHand, mishaps>>
    BY <1>3, <1>r, <1>e DEF S!Look, S!bounds
  <2>2. EditsTrue' /\ ActiveTrue'
    BY <2>1 DEF EditsTrue, ActiveTrue
  <2>3. PICK rest \in SUBSET Pipelines : rest = pass.todo \ {p}
    BY <2>1 DEF PassRow
  <2>4. CASE S!Done(p) /\ UNCHANGED left
    <3>1. pass' = [pass EXCEPT !.todo = rest, !.at = "between"]
      BY <2>3, <2>4 DEF S!Done
    <3>2. PassTrue'
      BY <1>r, <1>e, <2>1, <3>1, PassMoves
    <3>. QED
      BY <2>2, <2>4, <3>2 DEF LeftTrue
  <2>5. CASE S!Done(p) /\ left' = [left EXCEPT ![p] = S!FromNow(pass.seen[p].every)]
    <3>1. pass' = [pass EXCEPT !.todo = rest, !.at = "between"]
      BY <2>3, <2>5 DEF S!Done
    <3>2. PassTrue'
      BY <1>r, <1>e, <2>1, <3>1, PassMoves
    <3>3. LeftTrue'
      BY <2>1, <2>5, NowFits
    <3>. QED
      BY <2>2, <3>2, <3>3
  <2>6. CASE pass' = [pass EXCEPT !.at = "check", !.of = {p}] /\ UNCHANGED left
    <3>1. PICK q : q = pass'
      OBVIOUS
    <3>2. /\ q.at = "check" /\ q.seen = pass.seen /\ q.since = pass.since /\ q.of = {p}
          /\ q.todo = pass.todo /\ q \in PassRow
      BY <2>1, <2>6, <3>1 DEF PassRow
    <3>3. PassTrue'
      BY <3>1, <3>2 DEF PassTrue
    <3>. QED
      BY <2>2, <2>6, <3>3 DEF LeftTrue
  <2>. QED
    BY <1>3, <2>4, <2>5, <2>6, Zenon DEF S!Look
<1>4. ASSUME NEW p \in Pipelines, S!Check(p) PROVE SchedulesInvariant'
  <2>1. /\ pass \in PassRow /\ pass.at = "check" /\ p \in pass.of /\ pass # S!Resting
        /\ UNCHANGED <<def, memory, left, editor, active, edits, byHand>>
    BY <1>4, <1>r, <1>e DEF S!Check
  <2>2. LeftTrue' /\ ActiveTrue'
    BY <2>1 DEF LeftTrue, ActiveTrue
  <2>3. CASE pass' = [pass EXCEPT !.at = IF S!IsActive(p) THEN "reset" ELSE "trigger"] /\ UNCHANGED mishaps
    <3>1. EditsTrue'
      BY <2>1, <2>3 DEF EditsTrue
    <3>2. CASE S!IsActive(p)
      <4>1. pass' = [pass EXCEPT !.at = "reset"]
        BY <2>3, <3>2
      <4>2. PassTrue'
        BY <1>r, <2>1, <4>1, PassMoves
      <4>. QED
        BY <2>2, <3>1, <4>2
    <3>3. CASE ~S!IsActive(p)
      <4>1. pass' = [pass EXCEPT !.at = "trigger"]
        BY <2>3, <3>3
      <4>2. PICK q : q = pass'
        OBVIOUS
      <4>3. /\ q.at = "trigger" /\ q.seen = pass.seen /\ q.since = pass.since /\ q.of = pass.of
            /\ q.todo = pass.todo /\ q \in PassRow
        BY <2>1, <4>1, <4>2 DEF PassRow
      <4>4. active[p].scheduled = 0
        <5>1. PICK i, j, k : i = active[p].scheduled /\ j = active[p].manual /\ k = active[p].back
          OBVIOUS
        <5>2. i \in Nat /\ j \in 0..MaxManual /\ k \in Nat /\ ~(i + j + k > 0)
          BY <1>0, <3>3, <5>1 DEF S!IsActive
        <5>3. i = 0
          BY <5>2, ScheduleBounds
        <5>. QED
          BY <5>1, <5>3
      <4>5. (\A x, y \in q.of : x = y) /\ (\A x \in q.of : active'[x].scheduled = 0)
        BY <1>r, <2>1, <4>3, <4>4
      <4>6. PassTrue'
        BY <4>2, <4>3, <4>5 DEF PassTrue
      <4>. QED
        BY <2>2, <3>1, <4>6
    <3>. QED
      BY <3>2, <3>3
  <2>4. CASE mishaps < MaxMishaps /\ mishaps' = mishaps + 1 /\ S!Done(p)
    <3>1. PICK rest \in SUBSET Pipelines : rest = pass.todo \ {p}
      BY <2>1 DEF PassRow
    <3>2. pass' = [pass EXCEPT !.todo = rest, !.at = "between"]
      BY <2>4, <3>1 DEF S!Done
    <3>3. PassTrue'
      BY <1>r, <2>1, <3>2, PassMoves
    <3>4. EditsTrue'
      BY <2>1, <2>4, ScheduleBounds DEF EditsTrue
    <3>. QED
      BY <2>2, <3>3, <3>4
  <2>. QED
    BY <1>4, <2>3, <2>4, Zenon DEF S!Check
<1>5. ASSUME NEW p \in Pipelines, S!Trigger(p) PROVE SchedulesInvariant'
  <2>1. /\ pass \in PassRow /\ pass.at = "trigger" /\ p \in pass.of /\ active[p].scheduled = 0
        /\ UNCHANGED <<def, memory, left, editor, edits, byHand, mishaps>>
        /\ pass' = [pass EXCEPT !.at = "reset"] /\ pass # S!Resting
        /\ active' = IF p \in memory THEN [active EXCEPT ![p].scheduled = @ + 1] ELSE active
    BY <1>5, <1>r, <1>e DEF S!Trigger, S!bounds
  <2>2. EditsTrue' /\ LeftTrue'
    BY <2>1 DEF EditsTrue, LeftTrue
  <2>3. PassTrue'
    BY <1>r, <2>1, PassMoves
  <2>4. ActiveTrue'
    <3>1. PICK q : q = [active[p] EXCEPT !.scheduled = 1]
      OBVIOUS
    <3>2. q.scheduled = 1 /\ q.manual = active[p].manual /\ q \in ActiveRow
      BY <1>0, <3>1 DEF ActiveRow
    <3>3. active' = [active EXCEPT ![p] = q] \/ active' = active
      <4>1. active[p].scheduled + 1 = 1
        BY <2>1
      <4>. QED
        BY <2>1, <3>1, <4>1
    <3>4. active' \in [Pipelines -> ActiveRow]
      BY <1>0, <3>2, <3>3
    <3>5. \A x \in Pipelines : active'[x].manual = active[x].manual /\ active'[x].scheduled <= 1
      BY <1>0, <3>2, <3>3 DEF ActiveTrue
    <3>. QED
      BY <2>1, <3>4, <3>5 DEF ActiveTrue
  <2>. QED
    BY <2>2, <2>3, <2>4
<1>6. ASSUME NEW p \in Pipelines, S!Reset(p) PROVE SchedulesInvariant'
  <2>1. /\ pass \in PassRow /\ pass # S!Resting
        /\ UNCHANGED <<def, memory, editor, active, edits, byHand, mishaps>>
    BY <1>6, <1>r, <1>e DEF S!Reset, S!bounds
  <2>2. PICK rest \in SUBSET Pipelines : rest = pass.todo \ {p}
    BY <2>1 DEF PassRow
  <2>3. pass' = [pass EXCEPT !.todo = rest, !.at = "between"]
    BY <1>6, <2>2 DEF S!Reset, S!Done
  <2>4. PassTrue'
    BY <1>r, <2>1, <2>3, PassMoves
  <2>5. LeftTrue'
    BY <1>6, <2>1, NowFits DEF S!Reset
  <2>. QED
    BY <2>1, <2>4, <2>5 DEF EditsTrue, ActiveTrue
<1>7. ASSUME NEW p \in Pipelines, S!SaveRow(p) \/ S!DeleteRow(p) \/ S!ForgetEntry(p) \/ S!Remember(p)
      PROVE  SchedulesInvariant'
  <2>1. UNCHANGED <<pass, active, byHand>>
    BY <1>7, Zenon DEF S!SaveRow, S!DeleteRow, S!ForgetEntry, S!Remember, S!bounds
  <2>2. PassTrue' /\ ActiveTrue'
    BY <2>1 DEF PassTrue, ActiveTrue
  <2>3. LeftTrue'
    BY <1>7 DEF S!SaveRow, S!DeleteRow, S!ForgetEntry, S!Remember, LeftTrue
  <2>4. EditsTrue'
    <3>1. CASE S!SaveRow(p)
      <4>1. PICK on \in BOOLEAN, every \in 0..Longest :
              def' = [def EXCEPT ![p] = [there |-> TRUE, on |-> on, every |-> every]]
        BY <3>1 DEF S!SaveRow
      <4>2. [there |-> TRUE, on |-> on, every |-> every] \in S!Definition
        BY DEF S!Definition
      <4>3. def' \in [Pipelines -> S!Definition]
        BY <4>1, <4>2 DEF EditsTrue
      <4>. QED
        BY <3>1, <4>3, ScheduleBounds DEF S!SaveRow, EditsTrue
    <3>2. CASE S!DeleteRow(p)
      <4>1. S!Gone \in S!Definition
        BY ScheduleBounds DEF S!Gone, S!Definition
      <4>. QED
        BY <3>2, <4>1, ScheduleBounds DEF S!DeleteRow, EditsTrue
    <3>3. CASE S!ForgetEntry(p)
      BY <3>3 DEF S!ForgetEntry, S!bounds, EditsTrue
    <3>4. CASE S!Remember(p)
      BY <3>4 DEF S!Remember, S!bounds, EditsTrue
    <3>. QED
      BY <1>7, <3>1, <3>2, <3>3, <3>4
  <2>. QED
    BY <2>2, <2>3, <2>4
<1>8. ASSUME NEW p \in Pipelines, S!TriggerByHand(p) PROVE SchedulesInvariant'
  <2>1. /\ byHand < MaxManual /\ byHand' = byHand + 1
        /\ active' = [active EXCEPT ![p].manual = @ + 1]
        /\ UNCHANGED <<def, memory, left, editor, pass, edits, mishaps>>
    BY <1>8 DEF S!TriggerByHand
  <2>2. active[p].manual + 1 \in 0..MaxManual /\ active[p].manual + 1 <= byHand + 1 /\ byHand + 1 \in 0..MaxManual
    BY <1>0, <2>1, ScheduleBounds DEF ActiveTrue
  <2>3. PICK m \in 0..MaxManual : m = active[p].manual + 1
    BY <2>2
  <2>4. PICK q : q = [active[p] EXCEPT !.manual = m]
    OBVIOUS
  <2>5. q.manual = m /\ q.scheduled = active[p].scheduled /\ q \in ActiveRow
    BY <1>0, <2>4 DEF ActiveRow
  <2>6. active' = [active EXCEPT ![p] = q] /\ active' \in [Pipelines -> ActiveRow]
    BY <1>0, <2>1, <2>3, <2>4, <2>5
  <2>7. /\ \A x \in Pipelines : active'[x].scheduled = active[x].scheduled
        /\ \A x \in Pipelines : x # p => active'[x].manual = active[x].manual
        /\ active'[p].manual = m
    BY <1>0, <2>5, <2>6
  <2>8. ActiveTrue'
    <3>1. \A x \in Pipelines : active[x].manual <= byHand + 1
      BY <1>0, ScheduleBounds DEF ActiveTrue
    <3>. QED
      BY <2>1, <2>2, <2>3, <2>6, <2>7, <3>1 DEF ActiveTrue
  <2>9. PassTrue'
    BY <1>0, <2>1, <2>6, <2>7, PassStays
  <2>. QED
    BY <2>1, <2>8, <2>9 DEF EditsTrue, LeftTrue
<1>9. ASSUME NEW p \in Pipelines, S!RunEnds(p) \/ S!RunComesBack(p) PROVE SchedulesInvariant'
  <2>1. UNCHANGED <<def, memory, left, editor, pass, edits, byHand, mishaps>>
    BY <1>9 DEF S!RunEnds, S!RunComesBack, S!bounds
  <2>2. PICK i, j, k : i = active[p].scheduled /\ j = active[p].manual /\ k = active[p].back
    OBVIOUS
  <2>3. i \in Nat /\ j \in 0..MaxManual /\ k \in Nat
    BY <1>0, <2>2
  <2>4. PICK q : /\ active' = [active EXCEPT ![p] = q] /\ q \in ActiveRow
                 /\ q.scheduled <= i /\ q.manual <= j
    <3>1. ASSUME S!RunEnds(p)
          PROVE  \E q : /\ active' = [active EXCEPT ![p] = q] /\ q \in ActiveRow
                        /\ q.scheduled <= i /\ q.manual <= j
      <4>1. active[p].late \in BOOLEAN
        BY DEF ActiveTrue, ActiveRow
      <4>2. PICK late \in BOOLEAN :
              \/ i > 0 /\ active' = [active EXCEPT ![p].scheduled = i - 1, ![p].late = late]
              \/ j > 0 /\ active' = [active EXCEPT ![p].manual = j - 1, ![p].late = late]
              \/ k > 0 /\ active' = [active EXCEPT ![p].back = k - 1, ![p].late = late]
        <5>1. TRUE \in BOOLEAN
          BY Zenon
        <5>. QED
          BY <2>2, <3>1, <4>1, <5>1 DEF S!RunEnds
      <4>3. CASE i > 0 /\ active' = [active EXCEPT ![p].scheduled = i - 1, ![p].late = late]
        <5>1. PICK m \in Nat : m = i - 1 /\ m <= i /\ j <= j
          BY <2>3, <4>3
        <5>2. PICK q : q = [active[p] EXCEPT !.scheduled = m, !.late = late]
          OBVIOUS
        <5>3. q.scheduled = m /\ q.manual = j /\ q \in ActiveRow
          BY <1>0, <2>2, <5>2 DEF ActiveRow
        <5>4. active' = [active EXCEPT ![p] = q]
          BY <1>0, <4>3, <5>1, <5>2
        <5>. QED
          BY <5>1, <5>3, <5>4
      <4>4. CASE j > 0 /\ active' = [active EXCEPT ![p].manual = j - 1, ![p].late = late]
        <5>1. PICK m \in 0..MaxManual : m = j - 1 /\ m <= j /\ i <= i
          BY <2>3, <4>4, ScheduleBounds
        <5>2. PICK q : q = [active[p] EXCEPT !.manual = m, !.late = late]
          OBVIOUS
        <5>3. q.scheduled = i /\ q.manual = m /\ q \in ActiveRow
          BY <1>0, <2>2, <5>2 DEF ActiveRow
        <5>4. active' = [active EXCEPT ![p] = q]
          BY <1>0, <4>4, <5>1, <5>2
        <5>. QED
          BY <5>1, <5>3, <5>4
      <4>5. CASE k > 0 /\ active' = [active EXCEPT ![p].back = k - 1, ![p].late = late]
        <5>1. PICK m \in Nat : m = k - 1 /\ i <= i /\ j <= j
          BY <2>3, <4>5
        <5>2. PICK q : q = [active[p] EXCEPT !.back = m, !.late = late]
          OBVIOUS
        <5>3. q.scheduled = i /\ q.manual = j /\ q \in ActiveRow
          BY <1>0, <2>2, <5>2 DEF ActiveRow
        <5>4. active' = [active EXCEPT ![p] = q]
          BY <1>0, <4>5, <5>1, <5>2
        <5>. QED
          BY <5>1, <5>3, <5>4
      <4>. QED
        BY <4>2, <4>3, <4>4, <4>5
    <3>2. ASSUME S!RunComesBack(p)
          PROVE  \E q : /\ active' = [active EXCEPT ![p] = q] /\ q \in ActiveRow
                        /\ q.scheduled <= i /\ q.manual <= j
      <4>1. PICK m \in Nat : m = k + 1 /\ i <= i /\ j <= j
        BY <2>3
      <4>2. PICK q : q = [active[p] EXCEPT !.back = m, !.late = FALSE]
        OBVIOUS
      <4>3. q.scheduled = i /\ q.manual = j /\ q \in ActiveRow
        BY <1>0, <2>2, <4>2 DEF ActiveRow
      <4>4. active' = [active EXCEPT ![p] = q]
        BY <1>0, <2>2, <3>2, <4>1, <4>2 DEF S!RunComesBack
      <4>. QED
        BY <4>1, <4>3, <4>4
    <3>. QED
      BY <1>9, <3>1, <3>2
  <2>5. active' \in [Pipelines -> ActiveRow] /\ active'[p] = q /\ \A x \in Pipelines : x # p => active'[x] = active[x]
    BY <1>0, <2>4
  <2>6. ASSUME NEW x \in Pipelines PROVE active'[x].scheduled <= active[x].scheduled /\ active'[x].manual <= active[x].manual
    <3>1. CASE x = p
      BY <2>2, <2>4, <2>5, <3>1
    <3>2. CASE x # p
      BY <1>0, <2>5, <3>2
    <3>. QED
      BY <3>1, <3>2
  <2>7. ActiveTrue'
    <3>1. \A x \in Pipelines : active'[x].scheduled \in Nat /\ active'[x].manual \in 0..MaxManual
      BY <2>5 DEF ActiveRow
    <3>2. byHand \in Nat
      BY ScheduleBounds DEF ActiveTrue
    <3>. QED
      BY <1>0, <2>1, <2>5, <2>6, <3>1, <3>2 DEF ActiveTrue
  <2>8. PassTrue'
    BY <1>0, <2>1, <2>5, <2>6, PassStays
  <2>. QED
    BY <2>1, <2>7, <2>8 DEF EditsTrue, LeftTrue
<1>10. CASE S!TimePasses
  <2>1. /\ UNCHANGED <<def, memory, editor, active, edits, byHand, mishaps>>
        /\ left' = [p \in Pipelines |-> IF left[p] # NoEntry /\ left[p] > 0 THEN left[p] - 1 ELSE left[p]]
        /\ pass' = IF pass = S!Resting THEN pass ELSE [pass EXCEPT !.since = @ + 1]
        /\ pass # S!Resting => pass.since < Longest
    BY <1>10 DEF S!TimePasses, S!bounds
  <2>2. LeftTrue'
    <3>1. ASSUME NEW p \in Pipelines
          PROVE  (IF left[p] # NoEntry /\ left[p] > 0 THEN left[p] - 1 ELSE left[p]) \in 0..Longest \cup {NoEntry}
      <4>1. left[p] \in 0..Longest \/ left[p] = NoEntry
        BY DEF LeftTrue
      <4>. QED
        BY <4>1, ScheduleBounds
    <3>. QED
      BY <2>1, <3>1 DEF LeftTrue
  <2>3. PassTrue'
    <3>1. CASE pass = S!Resting
      BY <2>1, <3>1 DEF PassTrue
    <3>2. CASE pass # S!Resting
      <4>1. pass \in PassRow
        BY <1>r, <3>2
      <4>2. PICK m \in 0..Longest : m = pass.since + 1
        <5>1. pass.since \in 0..Longest
          BY <4>1 DEF PassRow
        <5>. QED
          BY <2>1, <3>2, <5>1, ScheduleBounds
      <4>3. pass' = [pass EXCEPT !.since = m]
        BY <2>1, <3>2, <4>2
      <4>4. PICK q : q = pass'
        OBVIOUS
      <4>5. /\ q.at = pass.at /\ q.seen = pass.seen /\ q.since = m /\ q.of = pass.of
            /\ q.todo = pass.todo /\ q \in PassRow
        BY <4>1, <4>3, <4>4 DEF PassRow
      <4>. QED
        BY <1>r, <2>1, <3>2, <4>4, <4>5 DEF PassTrue
    <3>. QED
      BY <3>1, <3>2
  <2>. QED
    BY <2>1, <2>2, <2>3 DEF EditsTrue, ActiveTrue
<1>11. CASE UNCHANGED scheduleVars
  BY <1>11 DEF scheduleVars, EditsTrue, LeftTrue, PassTrue, ActiveTrue
<1>. QED
  BY <1>1, <1>2, <1>3, <1>4, <1>5, <1>6, <1>7, <1>8, <1>9, <1>10, <1>11 DEF S!Next, S!Passes, S!Edits
-----------------------------------------------------------------------------
(***************************************************************************)
(* The runs, put together.                                                 *)
(***************************************************************************)
LEMMA RunsBegin == RunsInit => RunsInvariant
<1>. SUFFICES ASSUME RunsInit PROVE RunsInvariant
  OBVIOUS
<1>1. /\ plan \in Plans /\ run = [r \in Runs |-> "absent"] /\ step = [s \in Slots |-> NoStep]
      /\ job = [s \in Slots |-> "absent"] /\ todo = [w \in Goers |-> <<>>] /\ swept = {} /\ restarts = 0
  BY DEF RunsInit, Goers
<1>2. NoStep.status = "absent" /\ NoStep.at = 0 /\ NoStep \in StepRow
  BY BoundsAreNumbers DEF NoStep, StepRow
<1>3. RunsTypes
  BY <1>1, <1>2, BoundsAreNumbers DEF RunsTypes
<1>4. RowsTrue
  BY <1>1, <1>2 DEF RowsTrue, StepTrue
<1>5. QueuesTrue
  <2>1. PICK q : q = <<>>
    OBVIOUS
  <2>2. QueueTrue(q, plan, step, job, swept)
    BY <2>1, NoCall DEF QueueTrue
  <2>. QED
    BY <1>1, <2>1, <2>2 DEF QueuesTrue
<1>6. RowsInOrder
  <2>1. Used = {}
    BY <1>1, <1>2 DEF Used
  <2>2. Taken = 0
    BY <2>1, TakenIsUsed, FS_EmptySet
  <2>. QED
    BY <1>1, <2>1, <2>2 DEF RowsInOrder, Goers
<1>7. CreatesApart /\ RunningIsActive
  BY <1>1 DEF CreatesApart, Creates, RunningIsActive
<1>8. RunsTrue
  BY <1>1 DEF RunsTrue, EndTrue
<1>. QED
  BY <1>3, <1>4, <1>5, <1>6, <1>7, <1>8 DEF RunsInvariant

LEMMA GoesKeeps == ASSUME RunsInvariant, NEW w \in Goers, Goes(w) PROVE RunsInvariant'
<1>1. CASE Progress(w)
  BY <1>1, WritesRunKeeps DEF Progress
<1>2. CASE Verdict(w)
  BY <1>2, WritesRunKeeps DEF Verdict
<1>3. ASSUME NEW outcome \in Ended, MethodEnds(w, outcome) \/ ProgramEnds(w, outcome) PROVE RunsInvariant'
  BY <1>3, MethodEndsKeeps, ProgramEndsKeeps
<1>. QED
  BY <1>1, <1>2, <1>3, LookupKeeps, CheckKeeps, JobMissingKeeps, RecordKeeps, AdvanceKeeps, CannotExecuteKeeps,
     ExecuteAgentKeeps, SubmitKeeps, CreateKeeps, ExecuteBuiltinKeeps, ExecuteBuiltinFanKeeps, BranchBeginsKeeps,
     ExecuteProgramKeeps, ExecuteProgramFanKeeps, ActivateKeeps, WriteJobRowKeeps, FinishKeeps, JoinKeeps,
     ListKeeps, RunFailsKeeps DEF Goes

LEMMA RunsKeep == RunsInvariant /\ [RunsNext]_runVars => RunsInvariant'
<1>. SUFFICES ASSUME RunsInvariant, [RunsNext]_runVars PROVE RunsInvariant'
  OBVIOUS
<1>1. ASSUME NEW w \in Workers \cup Slots, Goes(w) PROVE RunsInvariant'
  BY <1>1, GoesKeeps DEF Goers
<1>2. ASSUME NEW s \in Slots, Claim(s) \/ GiveBack(s) \/ Cancel(s) PROVE RunsInvariant'
  <2>1. CASE Claim(s)
    <3>1. PICK old, new : old = {"queued"} /\ new = "claimed"
      OBVIOUS
    <3>. QED
      BY <2>1, <3>1, SetJobKeeps DEF Claim
  <2>2. CASE GiveBack(s)
    <3>1. PICK old, new : old = {"claimed"} /\ new = "queued"
      OBVIOUS
    <3>. QED
      BY <2>2, <3>1, SetJobKeeps DEF GiveBack
  <2>3. CASE Cancel(s)
    <3>1. PICK old, new : old = {"queued", "claimed", "running"} /\ new = "failed"
      OBVIOUS
    <3>. QED
      BY <2>3, <3>1, SetJobKeeps DEF Cancel
  <2>. QED
    BY <1>2, <2>1, <2>2, <2>3
<1>. QED
  BY <1>1, <1>2, PollBeginsKeeps, TriggerKeeps, CompleteKeeps, RestartKeeps, RunsAtRest DEF RunsNext

\* What the invariant says of the rows is what the properties ask.
LEMMA RunsSay ==
    RunsInvariant => PipelinesTypeOK /\ StepsInOrder /\ CompletedHasFinal /\ RunningIsActive /\ SweptStay
<1>. SUFFICES ASSUME RunsInvariant
              PROVE  PipelinesTypeOK /\ StepsInOrder /\ CompletedHasFinal /\ RunningIsActive /\ SweptStay
  OBVIOUS
<1>1. /\ DOMAIN plan = 1..Len(plan) /\ Len(plan) \in Nat
      /\ step \in [Slots -> StepRow] /\ run \in [Runs -> {"absent", "running", "completed", "failed"}]
      /\ job \in [Slots -> {"absent", "queued", "claimed", "running", "succeeded", "failed"}]
  BY PlanHasEnd DEF RunsInvariant, RunsTypes
<1>2. ASSUME NEW s \in Slots, step[s].status # "absent" PROVE Origin(plan, step, step[s].of, step[s].at, step[s].from)
  BY <1>2, RowHasStep
<1>3. ASSUME NEW s \in Slots
      PROVE  /\ step[s].of \in Runs /\ step[s].at \in 0..Len(plan) /\ step[s].from \in 0..MaxSlots
             /\ step[s].status \in {"absent", "queued", "running"} \cup Ended
             /\ job[s] \in {"absent", "queued", "claimed", "running"} \cup Ended
             /\ step[s].status = "absent" => step[s].at = 0
  <2>1. step[s].of \in Runs /\ step[s].from \in 0..MaxSlots
        /\ step[s].status \in {"absent", "queued", "running", "succeeded", "failed"}
    BY <1>1 DEF StepRow
  <2>2. job[s] \in {"absent", "queued", "claimed", "running", "succeeded", "failed"}
    BY <1>1
  <2>3. step[s].status = "absent" => step[s].at = 0
    BY DEF RunsInvariant, RowsTrue, StepTrue
  <2>4. step[s].status # "absent" => step[s].at \in DOMAIN plan
    BY RowHasStep
  <2>5. step[s].at \in 0..Len(plan)
    BY <1>1, <2>3, <2>4
  <2>. QED
    BY <2>1, <2>2, <2>3, <2>5 DEF Ended
<1>4. ASSUME NEW w \in Goers, NEW i \in DOMAIN todo[w] PROVE todo[w][i].run \in Runs
  <2>1. CallTrue(todo[w][i], plan, step, job, swept)
    BY DEF RunsInvariant, QueuesTrue, QueueTrue
  <2>. QED
    BY <2>1 DEF CallTrue
<1>5. PipelinesTypeOK
  BY <1>3, <1>4 DEF PipelinesTypeOK, RunsInvariant, RunsTypes, Goers
<1>6. StepsInOrder
  <2>. SUFFICES ASSUME NEW s \in Slots, step[s].at > 1
                PROVE  /\ step[s].from # 0 /\ step[step[s].from].of = step[s].of
                       /\ step[step[s].from].at = step[s].at - 1
                       /\ RowAtOnce(step[step[s].from].at) => step[step[s].from].status = "succeeded"
    BY DEF StepsInOrder
  <2>1. step[s].status # "absent"
    BY <1>3
  <2>2. Origin(plan, step, step[s].of, step[s].at, step[s].from)
    BY <1>2, <2>1
  <2>3. PICK f, k : f = step[s].from /\ k = step[s].at
    OBVIOUS
  <2>4. /\ f # 0 /\ step[f].of = step[s].of /\ step[f].at = k - 1
        /\ AtOnce(plan, k - 1) => step[f].status = "succeeded"
    BY <2>2, <2>3 DEF Origin
  <2>5. RowAtOnce(k - 1) <=> AtOnce(plan, k - 1)
    BY Zenon DEF RowAtOnce, AtOnce
  <2>. QED
    BY <2>3, <2>4, <2>5
<1>7. CompletedHasFinal
  <2>. SUFFICES ASSUME RowsAtOnce, NEW r \in Runs, run[r] = "completed" PROVE FinalSucceeded(r)
    BY DEF CompletedHasFinal
  <2>1. \A k \in DOMAIN plan : AtOnce(plan, k)
    BY DEF RowsAtOnce, RowAtOnce, AtOnce
  <2>2. Ends(plan, step, r)
    BY <2>1 DEF RunsInvariant, RunsTrue, EndTrue
  <2>. QED
    BY <2>2 DEF Ends, FinalSucceeded, StepsOf
<1>8. SweptStay
  BY DEF SweptStay, RunsInvariant, RunsTypes, RunsTrue, EndTrue
<1>. QED
  BY <1>5, <1>6, <1>7, <1>8 DEF RunsInvariant

LEMMA SchedulesSay == SchedulesInvariant => S!SchedulesTypeOK /\ S!OneScheduledRun
<1>. SUFFICES ASSUME SchedulesInvariant PROVE S!SchedulesTypeOK /\ S!OneScheduledRun
  OBVIOUS
<1>1. /\ pass = S!Resting
         \/ pass \in [at : {"between", "check", "trigger", "reset"}, seen : [Pipelines -> S!Definition],
                      since : 0..Longest, todo : SUBSET Pipelines, of : SUBSET Pipelines]
      /\ active \in [Pipelines -> [scheduled : Nat, manual : 0..MaxManual, back : Nat, late : BOOLEAN]]
  BY DEF SchedulesInvariant, PassTrue, PassRow, ActiveTrue, ActiveRow
<1>2. S!SchedulesTypeOK
  BY <1>1, Zenon DEF SchedulesInvariant, EditsTrue, LeftTrue, ActiveTrue, S!SchedulesTypeOK
<1>. QED
  BY <1>2 DEF SchedulesInvariant, ActiveTrue, S!OneScheduledRun

\* Of the runs of a schedule one at most has not ended yet, whatever is edited,
\* triggered by hand, ends or comes back meanwhile; and of the runs, for every set of definitions, steps keep the order of
\* the definition, a completed run has a branch that succeeded to the end, a running
\* program has its goroutine, and what a restart failed stays failed.
THEOREM RunsHold == EngineSpec => []RunsInv
<1>. DEFINE IInv == SchedulesInvariant /\ RunsInvariant
<1>1. EngineInit => IInv
  BY SchedulesBegin, RunsBegin DEF EngineInit
<1>2. ASSUME IInv, [LifecyclePart \/ SchedulesPart \/ RunsPart]_allVars PROVE IInv'
  <2>1. [S!Next]_scheduleVars /\ [RunsNext]_runVars
    BY <1>2, Zenon DEF LifecyclePart, SchedulesPart, RunsPart, allVars
  <2>. QED
    BY <1>2, <2>1, SchedulesKeep, RunsKeep
<1>3. IInv => RunsInv
  BY SchedulesSay, RunsSay DEF RunsInv
<1>. HIDE DEF IInv
<1>. QED
  BY <1>1, <1>2, <1>3, PTL DEF EngineSpec
=============================================================================

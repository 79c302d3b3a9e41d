-------------------------- MODULE MCKeeper_proofs --------------------------
(***************************************************************************)
(* The safety invariants of the keeper, for any number of closers, hooks   *)
(* and handles; of an agent's MCP server, for any number of callers, of    *)
(* configurations and of processes that die or write what nobody asked     *)
(* for; and of the screen agent's daemon, for any number of requests and   *)
(* jobs.                                                                   *)
(***************************************************************************)
EXTENDS MCKeeper, TLAPS

-----------------------------------------------------------------------------
\* The keeper.

\* Where the loop is decides what it holds: it prepares or closes a handle
\* that is open and published nowhere, and only it publishes one.
HandleFollowsLoop ==
    /\ loop \in {"open", "prepare", "failed", "backoff", "closeOld"} => db = NoHandle
    /\ loop \in {"prepare", "closeOld"} => conn \in open
    /\ db # NoHandle => db \in open

KeeperIInv ==
    /\ KeeperTypeOK
    /\ HandleFollowsLoop
    /\ OneConnection
    /\ NoDoubleClose
    /\ NoMissedHook
    /\ ErrSaysWhy

LEMMA KeeperInit == Init => KeeperIInv
  BY HandlesAssumption DEF Init, KeeperIInv, KeeperTypeOK, HandleFollowsLoop,
     OneConnection, NoDoubleClose, NoMissedHook, ErrSaysWhy

\* The steps that touch neither a handle nor a hook.
LEMMA KeeperQuietSteps ==
  ASSUME KeeperIInv,
         \/ Look \/ OpenFails \/ NoteFailure \/ TimerFires \/ LeaveLoop
         \/ PingReads \/ PingOK \/ PingFails \/ HooksDone
         \/ DatabaseTurns \/ ContextEnds \/ \E c \in Closers : CloseStop(c)
  PROVE  KeeperIInv'
  <1> USE HandlesAssumption DEF KeeperIInv, KeeperTypeOK, HandleFollowsLoop,
      OneConnection, NoDoubleClose, NoMissedHook, ErrSaysWhy,
      env, conns, hooks, LoopGoes
  <1>1. CASE Look         BY <1>1 DEF Look
  <1>2. CASE OpenFails    BY <1>2 DEF OpenFails
  <1>3. CASE NoteFailure  BY <1>3 DEF NoteFailure
  <1>4. CASE TimerFires   BY <1>4 DEF TimerFires, Sleeps, Awake
  <1>5. CASE LeaveLoop    BY <1>5 DEF LeaveLoop, Sleeps
  <1>6. CASE PingReads    BY <1>6 DEF PingReads
  <1>7. CASE PingOK       BY <1>7 DEF PingOK
  <1>8. CASE PingFails    BY <1>8 DEF PingFails
  <1>9. CASE HooksDone    BY <1>9 DEF HooksDone
  <1>10. CASE DatabaseTurns BY <1>10 DEF DatabaseTurns
  <1>11. CASE ContextEnds BY <1>11 DEF ContextEnds
  <1>12. CASE \E c \in Closers : CloseStop(c)  BY <1>12 DEF CloseStop
  <1> QED BY <1>1, <1>2, <1>3, <1>4, <1>5, <1>6, <1>7, <1>8, <1>9, <1>10, <1>11, <1>12

\* The steps that open, publish, take or close a handle.
LEMMA KeeperHandleSteps ==
  ASSUME KeeperIInv,
         \/ \E h \in Handles : OpenHandle(h)
         \/ PrepareFails \/ Publish \/ Drop \/ CloseOld
         \/ \E c \in Closers : CloseRelease(c)
  PROVE  KeeperIInv'
  <1> USE HandlesAssumption DEF KeeperIInv, KeeperTypeOK, HandleFollowsLoop,
      OneConnection, NoDoubleClose, NoMissedHook, ErrSaysWhy,
      env, conns, hooks, LoopGoes, CloseHandle
  <1>1. CASE \E h \in Handles : OpenHandle(h)  BY <1>1 DEF OpenHandle
  <1>2. CASE PrepareFails  BY <1>2 DEF PrepareFails
  <1>3. CASE Publish       BY <1>3 DEF Publish
  <1>4. CASE Drop          BY <1>4 DEF Drop
  <1>5. CASE CloseOld      BY <1>5 DEF CloseOld
  <1>6. CASE \E c \in Closers : CloseRelease(c)
    <2> PICK c \in Closers : CloseRelease(c)  BY <1>6
    <2>1. CASE db = NoHandle  BY <2>1 DEF CloseRelease
    <2>2. CASE db # NoHandle  BY <2>2 DEF CloseRelease
    <2> QED BY <2>1, <2>2
  <1> QED BY <1>1, <1>2, <1>3, <1>4, <1>5, <1>6

\* The steps that register, note and run hooks.
LEMMA KeeperHookSteps ==
  ASSUME KeeperIInv,
         \/ Snapshot
         \/ \E f \in Hooks : RunHook(f) \/ OnUpRegister(f) \/ OnUpRun(f)
  PROVE  KeeperIInv'
  <1> USE HandlesAssumption DEF KeeperIInv, KeeperTypeOK, HandleFollowsLoop,
      OneConnection, NoDoubleClose, NoMissedHook, ErrSaysWhy,
      env, conns, hooks, LoopGoes
  <1>1. CASE Snapshot  BY <1>1 DEF Snapshot
  <1>2. CASE \E f \in Hooks : RunHook(f)       BY <1>2 DEF RunHook
  <1>3. CASE \E f \in Hooks : OnUpRegister(f)  BY <1>3 DEF OnUpRegister
  <1>4. CASE \E f \in Hooks : OnUpRun(f)       BY <1>4 DEF OnUpRun
  <1> QED BY <1>1, <1>2, <1>3, <1>4

LEMMA KeeperStep == KeeperIInv /\ [Next]_vars => KeeperIInv'
  <1> SUFFICES ASSUME KeeperIInv, [Next]_vars PROVE KeeperIInv'
    OBVIOUS
  <1>1. CASE UNCHANGED vars
    BY <1>1 DEF vars, KeeperIInv, KeeperTypeOK, HandleFollowsLoop, OneConnection,
       NoDoubleClose, NoMissedHook, ErrSaysWhy
  <1>2. CASE Next
    BY <1>2, KeeperQuietSteps, KeeperHandleSteps, KeeperHookSteps
       DEF Next, LoopNext, CallNext
  <1> QED BY <1>1, <1>2

\* The handles and hooks of a keeper, whatever calls are made and whatever
\* the database does: one connection at a time, none closed twice, no hook
\* missed on a published handle, no silent degradation (loop, connect, drop,
\* Close, OnUp).
THEOREM KeeperHolds ==
  Spec => []KeeperInv
  <1>1. KeeperIInv => KeeperInv
    BY DEF KeeperIInv, KeeperInv
  <1> QED BY KeeperInit, KeeperStep, <1>1, PTL DEF Spec

-----------------------------------------------------------------------------
\* The MCP servers of agents.

\* What a process is, and who may hold and write to it.
Processes ==
    [config : Configs, state : {"up", "hung", "dead", "closed"}, holder : Callers \cup {None}, asked : Nat,
     ready : BOOLEAN, requests : Seq(Nat), answers : Seq(Nat), strayed : BOOLEAN]

Talks == {"calls", "greets", "reads", "met"}

Conversations ==
    [at : {"idle", "resolved", "has"} \cup Talks, config : Configs \cup {None},
     proc : Nat, got : {"nothing", "error", "own", "foreign"}]

HostTypes ==
    /\ row \in Configs \cup {None} /\ kept \in 0..Len(procs) /\ procs \in Seq(Processes)
    /\ caller \in [Callers -> Conversations]
    /\ disabler \in [Disablers -> [at : {"idle", "saved", "closing", "done"}, proc : 0..Len(procs)]]

\* Who talks to a process has its mutex, and has read its configuration.
OneTalks ==
    /\ \A c \in Callers :
         /\ caller[c].at # "idle" => caller[c].config \in Configs /\ caller[c].got = "nothing"
         /\ caller[c].at \in {"has"} \cup Talks =>
              caller[c].proc \in DOMAIN procs /\ procs[caller[c].proc].config = caller[c].config
         /\ caller[c].at \in Talks => procs[caller[c].proc].holder = c
         /\ caller[c].got = "foreign" => caller[c].proc \in DOMAIN procs /\ procs[caller[c].proc].strayed
    /\ \A i \in DOMAIN procs : procs[i].holder # None =>
         caller[procs[i].holder].at \in Talks /\ caller[procs[i].holder].proc = i
    /\ \A d \in Disablers : disabler[d].at = "closing" => disabler[d].proc \in DOMAIN procs

\* While a process has written nothing of its own, what is in its two pipes is
\* the last request of the caller that reads, or its answer.
OneInPipes ==
    \A i \in DOMAIN procs :
      /\ procs[i].state \in {"dead", "closed"} => procs[i].requests = <<>>
      /\ ~procs[i].strayed =>
           /\ procs[i].requests = <<>> \/ (procs[i].requests = <<procs[i].asked>> /\ procs[i].answers = <<>>)
           /\ procs[i].answers = <<>> \/ procs[i].answers = <<procs[i].asked>>
           /\ procs[i].requests # <<>> \/ procs[i].answers # <<>> =>
                procs[i].holder # None /\ caller[procs[i].holder].at \in {"reads", "met"}

McpInvariant == HostTypes /\ OneTalks /\ OneInPipes /\ M!NoneLeftRunning

LEMMA McpInvariantInit == ASSUME M!McpAssumption, M!McpInit PROVE McpInvariant
<1>. USE DEF M!McpAssumption, M!McpInit, M!Idle, Talks
<1>1. procs = <<>> /\ kept = 0 /\ DOMAIN procs = {} /\ Len(procs) = 0
  OBVIOUS
<1>2. HostTypes
  <2>1. row \in Configs \cup {None} /\ kept \in 0..Len(procs) /\ procs \in Seq(Processes)
    BY <1>1 DEF HostTypes
  <2>2. \A c \in Callers : caller[c] = [at |-> "idle", config |-> None, proc |-> 0, got |-> "nothing"]
    OBVIOUS
  <2>3. caller \in [Callers -> Conversations]
    BY <2>2 DEF Conversations
  <2>4. disabler \in [Disablers -> [at : {"idle", "saved", "closing", "done"}, proc : 0..Len(procs)]]
    BY <1>1
  <2>. QED
    BY <2>1, <2>3, <2>4 DEF HostTypes
<1>3. OneTalks /\ OneInPipes /\ M!NoneLeftRunning
  BY <1>1 DEF OneTalks, OneInPipes, M!NoneLeftRunning
<1>. QED
  BY <1>2, <1>3 DEF McpInvariant

LEMMA McpInvariantImplies == ASSUME M!McpAssumption, McpInvariant PROVE M!McpInv
<1>. USE DEF M!McpAssumption, McpInvariant, HostTypes, OneTalks, Talks
<1>1. \A i \in DOMAIN procs : procs[i] \in Processes
  OBVIOUS
<1>2. M!McpTypeOK
  BY <1>1 DEF M!McpTypeOK, Processes, Conversations
<1>3. M!OwnAnswer
  BY DEF M!OwnAnswer
<1>4. M!AsConfigured
  BY DEF M!AsConfigured, M!Proc
<1>. QED
  BY <1>2, <1>3, <1>4 DEF M!McpInv


\* One process changes; one more is started.
LEMMA OneProcessChanges ==
    ASSUME NEW s \in Seq(Processes), NEW i \in DOMAIN s, NEW q \in Processes, NEW t, t = [s EXCEPT ![i] = q]
    PROVE  /\ t \in Seq(Processes) /\ Len(t) = Len(s) /\ DOMAIN t = DOMAIN s
           /\ \A j \in DOMAIN s : t[j] = IF j = i THEN q ELSE s[j]
OBVIOUS

LEMMA OneProcessMore ==
    ASSUME NEW s \in Seq(Processes), NEW q \in Processes, NEW t, t = Append(s, q)
    PROVE  /\ t \in Seq(Processes) /\ Len(t) = Len(s) + 1 /\ DOMAIN t = DOMAIN s \cup {Len(t)} /\ Len(t) \notin DOMAIN s
           /\ \A j \in DOMAIN s : t[j] = s[j]
           /\ t[Len(t)] = q
OBVIOUS

\* Lines of a pipe.
LEMMA OneMoreLine ==
    ASSUME NEW s \in Seq(Nat), NEW n \in Nat
    PROVE  Append(s, n) \in Seq(Nat) /\ (s = <<>> => Append(s, n) = <<n>>)
<1>1. Append(s, n) \in Seq(Nat)
  OBVIOUS
<1>2. ASSUME s = <<>> PROVE Append(s, n) = <<n>>
  BY <1>2
<1>. QED
  BY <1>1, <1>2

LEMMA OneLineLess ==
    ASSUME NEW s \in Seq(Nat), s # <<>>
    PROVE  Tail(s) \in Seq(Nat) /\ \A n \in Nat : s = <<n>> => Tail(s) = <<>> /\ Head(s) = n
<1>1. Tail(s) \in Seq(Nat)
  OBVIOUS
<1>2. ASSUME NEW n \in Nat, s = <<n>> PROVE Tail(s) = <<>> /\ Head(s) = n
  <2>1. Tail(<<n>>) = <<>> /\ Head(<<n>>) = n
    OBVIOUS
  <2>. QED
    BY <1>2, <2>1
<1>. QED
  BY <1>1, <1>2

\* A process that is closed keeps everything but its state and its requests.
LEMMA ClosedIsProcess ==
    ASSUME NEW q \in Processes
    PROVE  /\ M!Closed(q) \in Processes /\ M!Closed(q).state = "closed" /\ M!Closed(q).requests = <<>>
           /\ M!Closed(q).config = q.config /\ M!Closed(q).holder = q.holder /\ M!Closed(q).asked = q.asked
           /\ M!Closed(q).answers = q.answers /\ M!Closed(q).strayed = q.strayed
<1>. DEFINE z == M!Closed(q)
<1>1. z = [q EXCEPT !.state = "closed", !.requests = <<>>]
  BY DEF M!Closed
<1>2. <<>> \in Seq(Nat)
  OBVIOUS
<1>. HIDE DEF z
<1>3. z \in Processes
  BY <1>1, <1>2, Zenon DEF Processes
<1>4. /\ z.state = "closed" /\ z.requests = <<>> /\ z.config = q.config /\ z.holder = q.holder /\ z.asked = q.asked
      /\ z.answers = q.answers /\ z.strayed = q.strayed
  BY <1>1, Zenon DEF Processes
<1>. QED
  BY <1>3, <1>4 DEF z

\* The steps that change no process.
LEMMA HostQuietStep ==
    ASSUME M!McpAssumption, McpInvariant,
           \/ \E c \in Callers : M!Resolve(c)
           \/ \E d \in Disablers : M!Disable(d) \/ M!TakeClient(d)
           \/ M!Edit \/ UNCHANGED mcpVars
    PROVE  McpInvariant'
<1>. USE DEF M!McpAssumption, McpInvariant, HostTypes, OneTalks, Talks
<1>1. ASSUME NEW c \in Callers, M!Resolve(c) PROVE McpInvariant'
  <2>. DEFINE z == [M!Idle EXCEPT !.at = "resolved", !.config = row]
  <2>1. UNCHANGED <<row, kept, procs, disabler>> /\ caller[c].at = "idle"
    BY <1>1 DEF M!Resolve
  <2>2. M!Idle \in Conversations /\ M!Idle.got = "nothing"
    BY DEF M!Idle, Conversations
  <2>3. caller' = caller \/ (row \in Configs /\ caller' = [caller EXCEPT ![c] = z])
    BY <1>1 DEF M!Resolve
  <2>4. row \in Configs => z \in Conversations
    BY <2>2, Zenon DEF Conversations
  <2>5. z.at = "resolved" /\ z.config = row /\ z.got = "nothing"
    BY <2>2, Zenon DEF Conversations
  <2>. HIDE DEF z
  <2>6. HostTypes'
    BY <2>1, <2>3, <2>4
  <2>7. OneTalks'
    <3>1. CASE caller' = caller
      BY <2>1, <3>1
    <3>2. CASE row \in Configs /\ caller' = [caller EXCEPT ![c] = z]
      <4>1. caller'[c] = z /\ \A k \in Callers : k # c => caller'[k] = caller[k]
        BY <3>2
      <4>. QED
        BY <2>1, <2>5, <3>2, <4>1
    <3>. QED
      BY <2>3, <3>1, <3>2
  <2>8. OneInPipes' /\ M!NoneLeftRunning'
    <3>1. \A i \in DOMAIN procs : procs[i].holder # None => caller'[procs[i].holder] = caller[procs[i].holder]
      <4>. SUFFICES ASSUME NEW i \in DOMAIN procs, procs[i].holder # None
                    PROVE  caller'[procs[i].holder] = caller[procs[i].holder]
        OBVIOUS
      <4>1. procs[i] \in Processes
        OBVIOUS
      <4>2. procs[i].holder \in Callers /\ procs[i].holder # c
        BY <2>1, <4>1 DEF Processes
      <4>. QED
        BY <2>3, <4>2
    <3>. QED
      BY <2>1, <3>1 DEF OneInPipes, M!NoneLeftRunning
  <2>. QED
    BY <2>6, <2>7, <2>8
<1>2. ASSUME NEW d \in Disablers, M!Disable(d) PROVE McpInvariant'
  <2>1. UNCHANGED <<kept, procs, caller>> /\ row' \in Configs \cup {None} /\ disabler[d].at = "idle"
        /\ disabler' = [disabler EXCEPT ![d].at = "saved"]
    BY <1>2 DEF M!Disable
  <2>. QED
    BY <2>1 DEF OneInPipes, M!NoneLeftRunning
<1>3. ASSUME NEW d \in Disablers, M!TakeClient(d) PROVE McpInvariant'
  <2>1. UNCHANGED <<row, procs, caller>> /\ kept' = 0 /\ disabler[d].at = "saved"
        /\ disabler' = [disabler EXCEPT ![d] = [at |-> IF kept = 0 THEN "done" ELSE "closing", proc |-> kept]]
    BY <1>3 DEF M!TakeClient
  <2>2. kept # 0 => kept \in DOMAIN procs
    OBVIOUS
  <2>3. HostTypes'
    BY <2>1
  <2>4. OneTalks'
    BY <2>1, <2>2
  <2>5. OneInPipes'
    BY <2>1 DEF OneInPipes
  <2>6. M!NoneLeftRunning'
    <3>1. ASSUME NEW i \in DOMAIN procs, procs[i].state \in {"up", "hung"}
          PROVE  \E e \in Disablers : disabler'[e] = [at |-> "closing", proc |-> i]
      <4>1. CASE i = kept
        <5>1. disabler'[d] = [at |-> "closing", proc |-> i]
          BY <2>1, <4>1
        <5>. QED
          BY <5>1
      <4>2. CASE i # kept
        <5>1. PICK e \in Disablers : disabler[e] = [at |-> "closing", proc |-> i]
          BY <3>1, <4>2 DEF M!NoneLeftRunning
        <5>2. e # d
          BY <2>1, <5>1
        <5>3. disabler'[e] = [at |-> "closing", proc |-> i]
          BY <2>1, <5>1, <5>2
        <5>. QED
          BY <5>3
      <4>. QED
        BY <4>1, <4>2
    <3>. QED
      BY <2>1, <3>1 DEF M!NoneLeftRunning
  <2>. QED
    BY <2>3, <2>4, <2>5, <2>6
<1>4. CASE M!Edit \/ UNCHANGED mcpVars
  <2>1. UNCHANGED <<kept, procs, caller, disabler>> /\ row' \in Configs \cup {None}
    BY <1>4 DEF M!Edit, mcpVars
  <2>. QED
    BY <2>1 DEF OneInPipes, M!NoneLeftRunning
<1>. QED
  BY <1>1, <1>2, <1>3, <1>4

\* A process that has just been started.
LEMMA StartedIsProcess ==
    ASSUME NEW config \in Configs
    PROVE  /\ M!Started(config) \in Processes /\ M!Started(config).config = config
           /\ M!Started(config).holder = None /\ M!Started(config).state = "up"
           /\ M!Started(config).requests = <<>> /\ M!Started(config).answers = <<>>
<1>. <<>> \in Seq(Nat) /\ FALSE \in BOOLEAN /\ 0 \in Nat
  OBVIOUS
<1>. QED
  BY Zenon DEF M!Started, Processes

\* Closing what is in the map leaves every process in its place, and of the
\* one that is closed its holder, its counter and its answers.
LEMMA OldIsClosed ==
    ASSUME M!McpAssumption, HostTypes
    PROVE  /\ M!WithoutOld \in Seq(Processes) /\ Len(M!WithoutOld) = Len(procs) /\ DOMAIN M!WithoutOld = DOMAIN procs
           /\ \A j \in DOMAIN procs : M!WithoutOld[j] = IF j = kept THEN M!Closed(procs[j]) ELSE procs[j]
<1>. USE DEF HostTypes
<1>1. CASE kept = 0
  BY <1>1 DEF M!WithoutOld
<1>2. CASE kept # 0
  <2>1. kept \in DOMAIN procs
    BY <1>2
  <2>2. procs[kept] \in Processes
    BY <2>1
  <2>3. M!Closed(procs[kept]) \in Processes
    BY <2>2, ClosedIsProcess
  <2>4. M!WithoutOld = [procs EXCEPT ![kept] = M!Closed(procs[kept])]
    BY <1>2 DEF M!WithoutOld
  <2>5. procs \in Seq(Processes)
    OBVIOUS
  <2>. HIDE DEF HostTypes
  <2>6. /\ M!WithoutOld \in Seq(Processes) /\ Len(M!WithoutOld) = Len(procs) /\ DOMAIN M!WithoutOld = DOMAIN procs
        /\ \A j \in DOMAIN procs : M!WithoutOld[j] = IF j = kept THEN M!Closed(procs[kept]) ELSE procs[j]
    BY <2>1, <2>3, <2>4, <2>5, OneProcessChanges
  <2>. QED
    BY <2>6
<1>. QED
  BY <1>1, <1>2

\* getClient.
LEMMA GetClientStep ==
    ASSUME M!McpAssumption, McpInvariant, NEW c \in Callers, M!GetClient(c)
    PROVE  McpInvariant'
<1>. USE DEF M!McpAssumption, McpInvariant
<1>. DEFINE w == M!WithoutOld
            config == caller[c].config
<1>1. /\ UNCHANGED <<row, disabler>> /\ caller[c].at = "resolved" /\ config \in Configs
      /\ caller[c] \in Conversations /\ caller[c].got = "nothing"
  BY DEF M!GetClient, HostTypes, OneTalks
<1>2. /\ w \in Seq(Processes) /\ Len(w) = Len(procs) /\ DOMAIN w = DOMAIN procs
      /\ \A j \in DOMAIN procs : w[j] = IF j = kept THEN M!Closed(procs[j]) ELSE procs[j]
  BY OldIsClosed
<1>. HIDE DEF w
<1>3. \A j \in DOMAIN procs : procs[j] \in Processes
  BY DEF HostTypes
<1>4. \A j \in DOMAIN procs :
        /\ w[j].config = procs[j].config /\ w[j].holder = procs[j].holder /\ w[j].asked = procs[j].asked
        /\ w[j].answers = procs[j].answers /\ w[j].strayed = procs[j].strayed
        /\ (w[j].state = procs[j].state /\ w[j].requests = procs[j].requests /\ j # kept)
           \/ (w[j].state = "closed" /\ w[j].requests = <<>>)
  BY <1>2, <1>3, ClosedIsProcess
<1>5. \A j \in DOMAIN procs : procs[j].holder # None => procs[j].holder \in Callers /\ procs[j].holder # c
  BY <1>1, <1>3 DEF Processes, OneTalks, Talks
<1>. DEFINE has(i) == [caller[c] EXCEPT !.at = "has", !.proc = i]
<1>6. \A i \in Nat : has(i) \in Conversations /\ has(i).at = "has" /\ has(i).proc = i /\ has(i).config = config
                     /\ has(i).got = "nothing"
  BY <1>1, Zenon DEF Conversations
<1>7. M!Idle \in Conversations /\ M!Idle.at = "idle" /\ M!Idle.got = "nothing"
  BY DEF M!Idle, Conversations
<1>8. \/ /\ kept # 0 /\ procs[kept].config = config
         /\ caller' = [caller EXCEPT ![c] = has(kept)] /\ UNCHANGED <<kept, procs>>
      \/ /\ procs' = Append(w, M!Started(config)) /\ kept' = Len(procs')
         /\ caller' = [caller EXCEPT ![c] = has(kept')]
      \/ procs' = w /\ kept' = 0 /\ caller' = [caller EXCEPT ![c] = M!Idle]
  BY DEF M!GetClient, w
<1>. HIDE DEF has, config, McpInvariant
<1>9. CASE /\ kept # 0 /\ procs[kept].config = config
           /\ caller' = [caller EXCEPT ![c] = has(kept)] /\ UNCHANGED <<kept, procs>>
  <2>1. kept \in Nat /\ kept \in DOMAIN procs
    BY <1>9 DEF McpInvariant, HostTypes
  <2>2. caller' \in [Callers -> Conversations] /\ caller'[c] = has(kept) /\ \A k \in Callers : k # c => caller'[k] = caller[k]
    BY <1>6, <1>9, <2>1 DEF McpInvariant, HostTypes
  <2>3. HostTypes'
    BY <1>1, <1>9, <2>2 DEF McpInvariant, HostTypes
  <2>4. OneTalks'
    BY <1>1, <1>5, <1>6, <1>9, <2>1, <2>2 DEF McpInvariant, OneTalks, Talks
  <2>5. OneInPipes' /\ M!NoneLeftRunning'
    BY <1>1, <1>5, <1>9, <2>2 DEF McpInvariant, OneInPipes, M!NoneLeftRunning
  <2>. QED
    BY <2>3, <2>4, <2>5 DEF McpInvariant
<1>10. CASE /\ procs' = Append(w, M!Started(config)) /\ kept' = Len(procs')
            /\ caller' = [caller EXCEPT ![c] = has(kept')]
  <2>. DEFINE new == M!Started(config)
  <2>1. /\ new \in Processes /\ new.config = config /\ new.holder = None /\ new.state = "up"
        /\ new.requests = <<>> /\ new.answers = <<>>
    BY <1>1, StartedIsProcess
  <2>. HIDE DEF new
  <2>2. /\ procs' \in Seq(Processes) /\ Len(procs') = Len(w) + 1 /\ DOMAIN procs' = DOMAIN w \cup {kept'}
        /\ kept' \notin DOMAIN w /\ \A j \in DOMAIN w : procs'[j] = w[j]
        /\ procs'[kept'] = new
    <3>1. procs' = Append(w, new) /\ kept' = Len(procs')
      BY <1>10 DEF new
    <3>. QED
      BY <1>2, <2>1, <3>1, OneProcessMore
  <2>3. kept' \in Nat /\ kept' \in 0..Len(procs') /\ DOMAIN procs' = DOMAIN procs \cup {kept'} /\ kept' \notin DOMAIN procs
    BY <1>2, <1>10, <2>2
  <2>4. caller' \in [Callers -> Conversations] /\ caller'[c] = has(kept') /\ \A k \in Callers : k # c => caller'[k] = caller[k]
    BY <1>6, <1>10, <2>3 DEF McpInvariant, HostTypes
  <2>5. HostTypes'
    <3>1. 0..Len(procs) \subseteq 0..Len(procs')
      BY <1>2, <2>2
    <3>. QED
      BY <1>1, <2>2, <2>3, <2>4, <3>1 DEF McpInvariant, HostTypes
  <2>6. OneTalks'
    <3>1. \A k \in Callers :
         /\ caller'[k].at # "idle" => caller'[k].config \in Configs /\ caller'[k].got = "nothing"
         /\ caller'[k].at \in {"has"} \cup Talks =>
              caller'[k].proc \in DOMAIN procs' /\ procs'[caller'[k].proc].config = caller'[k].config
         /\ caller'[k].at \in Talks => procs'[caller'[k].proc].holder = k
         /\ caller'[k].got = "foreign" => caller'[k].proc \in DOMAIN procs' /\ procs'[caller'[k].proc].strayed
      BY <1>1, <1>2, <1>4, <1>6, <2>1, <2>2, <2>3, <2>4 DEF McpInvariant, OneTalks, Talks
    <3>2. \A i \in DOMAIN procs' : procs'[i].holder # None =>
         caller'[procs'[i].holder].at \in Talks /\ caller'[procs'[i].holder].proc = i
      BY <1>2, <1>4, <1>5, <2>1, <2>2, <2>3, <2>4 DEF McpInvariant, OneTalks
    <3>3. \A d \in Disablers : disabler'[d].at = "closing" => disabler'[d].proc \in DOMAIN procs'
      BY <1>1, <2>3 DEF McpInvariant, OneTalks
    <3>. QED
      BY <3>1, <3>2, <3>3 DEF OneTalks
  <2>7. OneInPipes'
    BY <1>2, <1>4, <1>5, <2>1, <2>2, <2>3, <2>4 DEF McpInvariant, OneInPipes
  <2>8. M!NoneLeftRunning'
    <3>1. ASSUME NEW i \in DOMAIN procs, procs'[i].state \in {"up", "hung"}
          PROVE  \E d \in Disablers : disabler'[d] = [at |-> "closing", proc |-> i]
      <4>1. procs'[i] = w[i]
        BY <1>2, <2>2
      <4>2. procs[i].state \in {"up", "hung"} /\ i # kept
        BY <1>4, <3>1, <4>1
      <4>. QED
        BY <1>1, <4>2 DEF McpInvariant, M!NoneLeftRunning
    <3>. QED
      BY <2>3, <3>1 DEF M!NoneLeftRunning
  <2>. QED
    BY <2>5, <2>6, <2>7, <2>8 DEF McpInvariant
<1>11. CASE procs' = w /\ kept' = 0 /\ caller' = [caller EXCEPT ![c] = M!Idle]
  <2>1. caller' \in [Callers -> Conversations] /\ caller'[c] = M!Idle /\ \A k \in Callers : k # c => caller'[k] = caller[k]
    BY <1>7, <1>11 DEF McpInvariant, HostTypes
  <2>2. HostTypes'
    BY <1>1, <1>2, <1>11, <2>1 DEF McpInvariant, HostTypes
  <2>3. OneTalks'
    BY <1>1, <1>2, <1>4, <1>5, <1>7, <1>11, <2>1 DEF McpInvariant, OneTalks, Talks
  <2>4. OneInPipes'
    BY <1>2, <1>4, <1>5, <1>11, <2>1 DEF McpInvariant, OneInPipes
  <2>5. M!NoneLeftRunning'
    BY <1>1, <1>2, <1>4, <1>11 DEF McpInvariant, M!NoneLeftRunning
  <2>. QED
    BY <2>2, <2>3, <2>4, <2>5 DEF McpInvariant
<1>. QED
  BY <1>8, <1>9, <1>10, <1>11

\* What OneInPipes says of one process.
PipesRight(q, reads) ==
    /\ q.state \in {"dead", "closed"} => q.requests = <<>>
    /\ ~q.strayed =>
         /\ q.requests = <<>> \/ (q.requests = <<q.asked>> /\ q.answers = <<>>)
         /\ q.answers = <<>> \/ q.answers = <<q.asked>>
         /\ q.requests # <<>> \/ q.answers # <<>> => reads

\* A process changes by itself, or is closed: who holds it goes on holding it.
LEMMA ProcessStep ==
    ASSUME M!McpAssumption, McpInvariant, NEW i \in DOMAIN procs, NEW q \in Processes,
           procs' = [procs EXCEPT ![i] = q], UNCHANGED <<row, kept, caller>>,
           q.config = procs[i].config, q.holder = procs[i].holder, procs[i].strayed => q.strayed,
           PipesRight(q, q.holder # None /\ caller[q.holder].at \in {"reads", "met"}),
           disabler' \in [Disablers -> [at : {"idle", "saved", "closing", "done"}, proc : 0..Len(procs)]],
           \A d \in Disablers : \/ disabler'[d] = disabler[d]
                                \/ disabler'[d].at = "done" /\ disabler[d].proc = i /\ q.state = "closed",
           q.state \in {"up", "hung"} => procs[i].state \in {"up", "hung"}
    PROVE  McpInvariant'
<1>1. /\ procs' \in Seq(Processes) /\ Len(procs') = Len(procs) /\ DOMAIN procs' = DOMAIN procs
      /\ \A j \in DOMAIN procs : procs'[j] = IF j = i THEN q ELSE procs[j]
  <2>1. procs \in Seq(Processes)
    BY DEF McpInvariant, HostTypes
  <2>. QED
    BY <2>1, OneProcessChanges
<1>2. HostTypes'
  BY <1>1 DEF McpInvariant, HostTypes
<1>3. OneTalks'
  BY <1>1 DEF McpInvariant, OneTalks
<1>4. OneInPipes'
  BY <1>1 DEF McpInvariant, OneInPipes, PipesRight
<1>5. M!NoneLeftRunning'
  <2>1. ASSUME NEW j \in DOMAIN procs, procs'[j].state \in {"up", "hung"}, j # kept
        PROVE  \E d \in Disablers : disabler'[d] = [at |-> "closing", proc |-> j]
    <3>1. procs[j].state \in {"up", "hung"}
      BY <1>1, <2>1
    <3>2. PICK d \in Disablers : disabler[d] = [at |-> "closing", proc |-> j]
      BY <2>1, <3>1 DEF McpInvariant, M!NoneLeftRunning
    <3>3. disabler[d].proc = j
      BY <3>2
    <3>4. disabler'[d] = disabler[d]
      BY <1>1, <2>1, <3>3
    <3>. QED
      BY <3>2, <3>4
  <2>. QED
    BY <1>1, <2>1 DEF M!NoneLeftRunning
<1>. QED
  BY <1>2, <1>3, <1>4, <1>5 DEF McpInvariant

\* A caller that has the process goes a step on in its conversation, holding
\* its mutex, or returns and gives it back.
LEMMA ConversationStep ==
    ASSUME M!McpAssumption, McpInvariant, NEW c \in Callers, NEW i \in DOMAIN procs, NEW q \in Processes,
           NEW z \in Conversations,
           caller[c].at \in {"has"} \cup Talks, caller[c].proc = i, procs[i].holder \in {None, c},
           procs' = [procs EXCEPT ![i] = q], caller' = [caller EXCEPT ![c] = z], UNCHANGED <<row, kept, disabler>>,
           q.config = procs[i].config, q.state = procs[i].state, procs[i].strayed => q.strayed,
           \/ /\ z.at \in Talks /\ z.proc = i /\ z.config = caller[c].config /\ z.got = "nothing" /\ q.holder = c
           \/ /\ z.at = "idle" /\ (z.got = "foreign" => z.proc = i /\ q.strayed) /\ q.holder = None,
           PipesRight(q, z.at \in {"reads", "met"})
    PROVE  McpInvariant'
<1>1. /\ procs' \in Seq(Processes) /\ Len(procs') = Len(procs) /\ DOMAIN procs' = DOMAIN procs
      /\ \A j \in DOMAIN procs : procs'[j] = IF j = i THEN q ELSE procs[j]
  <2>1. procs \in Seq(Processes)
    BY DEF McpInvariant, HostTypes
  <2>. QED
    BY <2>1, OneProcessChanges
<1>2. caller' \in [Callers -> Conversations] /\ caller'[c] = z /\ \A k \in Callers : k # c => caller'[k] = caller[k]
  BY DEF McpInvariant, HostTypes
<1>3. HostTypes'
  BY <1>1, <1>2 DEF McpInvariant, HostTypes
<1>4. \A j \in DOMAIN procs : j # i => procs[j].holder # c
  BY DEF McpInvariant, OneTalks, M!McpAssumption
<1>5. \A j \in DOMAIN procs : procs[j].holder \in Callers \cup {None}
  <2>1. \A j \in DOMAIN procs : procs[j] \in Processes
    BY DEF McpInvariant, HostTypes
  <2>. QED
    BY <2>1 DEF Processes
<1>6. \A k \in Callers : k # c /\ caller[k].at \in Talks => caller[k].proc # i
  BY DEF McpInvariant, HostTypes, OneTalks, M!McpAssumption
<1>7. OneTalks'
  <2>1. \A k \in Callers :
         /\ caller'[k].at # "idle" => caller'[k].config \in Configs /\ caller'[k].got = "nothing"
         /\ caller'[k].at \in {"has"} \cup Talks =>
              caller'[k].proc \in DOMAIN procs' /\ procs'[caller'[k].proc].config = caller'[k].config
         /\ caller'[k].at \in Talks => procs'[caller'[k].proc].holder = k
         /\ caller'[k].got = "foreign" => caller'[k].proc \in DOMAIN procs' /\ procs'[caller'[k].proc].strayed
    BY <1>1, <1>2, <1>6 DEF McpInvariant, OneTalks, Talks
  <2>2. \A j \in DOMAIN procs' : procs'[j].holder # None =>
         caller'[procs'[j].holder].at \in Talks /\ caller'[procs'[j].holder].proc = j
    BY <1>1, <1>2, <1>4, <1>5 DEF McpInvariant, OneTalks
  <2>3. \A d \in Disablers : disabler'[d].at = "closing" => disabler'[d].proc \in DOMAIN procs'
    BY <1>1 DEF McpInvariant, OneTalks
  <2>. QED
    BY <2>1, <2>2, <2>3 DEF OneTalks
<1>8. OneInPipes'
  <2>1. ASSUME NEW j \in DOMAIN procs, j # i PROVE procs[j].holder # None => caller'[procs[j].holder] = caller[procs[j].holder]
    BY <1>2, <1>4, <1>5, <2>1
  <2>2. q.holder = c \/ z.at \notin {"reads", "met"}
    BY DEF Talks
  <2>. QED
    BY <1>1, <1>2, <2>1, <2>2 DEF McpInvariant, OneInPipes, PipesRight, M!McpAssumption
<1>9. M!NoneLeftRunning'
  <2>1. \A j \in DOMAIN procs : procs'[j].state = procs[j].state
    BY <1>1
  <2>. QED
    BY <1>1, <2>1 DEF McpInvariant, M!NoneLeftRunning
<1>. QED
  BY <1>3, <1>7, <1>8, <1>9 DEF McpInvariant

\* Who has a process, and what is in its pipes then.
LEMMA WhoHas ==
    ASSUME M!McpAssumption, McpInvariant, NEW c \in Callers, caller[c].at \in {"has"} \cup Talks
    PROVE  /\ caller[c] \in Conversations /\ caller[c].proc \in DOMAIN procs
           /\ M!Proc(c) = procs[caller[c].proc] /\ M!Proc(c) \in Processes
           /\ caller[c].got = "nothing" /\ (caller[c].at \in Talks => M!Proc(c).holder = c)
           /\ M!Proc(c).state \in {"dead", "closed"} => M!Proc(c).requests = <<>>
           /\ (caller[c].at \in {"calls", "greets"} \/ M!Proc(c).holder = None) /\ ~M!Proc(c).strayed =>
                M!Proc(c).requests = <<>> /\ M!Proc(c).answers = <<>>
           /\ ~M!Proc(c).strayed =>
                /\ M!Proc(c).requests = <<>> \/ (M!Proc(c).requests = <<M!Proc(c).asked>> /\ M!Proc(c).answers = <<>>)
                /\ M!Proc(c).answers = <<>> \/ M!Proc(c).answers = <<M!Proc(c).asked>>
<1>. USE DEF McpInvariant, HostTypes, OneTalks, M!McpAssumption
<1>1. caller[c] \in Conversations /\ caller[c].proc \in DOMAIN procs /\ M!Proc(c) = procs[caller[c].proc]
  BY DEF M!Proc
<1>2. M!Proc(c) \in Processes
  BY <1>1
<1>3. caller[c].got = "nothing" /\ (caller[c].at \in Talks => M!Proc(c).holder = c)
  BY <1>1 DEF Talks
<1>. QED
  BY <1>1, <1>2, <1>3 DEF OneInPipes, Talks

LEMMA LockStep ==
    ASSUME M!McpAssumption, McpInvariant, NEW c \in Callers, M!Lock(c)
    PROVE  McpInvariant'
<1>. DEFINE i == caller[c].proc
            p == M!Proc(c)
            q == [p EXCEPT !.holder = c]
            z == [caller[c] EXCEPT !.at = IF M!Proc(c).ready THEN "calls" ELSE "greets"]
<1>1. caller[c].at = "has" /\ p.holder = None /\ UNCHANGED <<row, kept, disabler>>
  BY DEF M!Lock
<1>2. /\ caller[c] \in Conversations /\ i \in DOMAIN procs /\ p = procs[i] /\ p \in Processes /\ caller[c].got = "nothing"
      /\ p.state \in {"dead", "closed"} => p.requests = <<>>
      /\ ~p.strayed => p.requests = <<>> /\ p.answers = <<>>
  BY <1>1, WhoHas
<1>3. procs' = [procs EXCEPT ![i] = q] /\ caller' = [caller EXCEPT ![c] = z]
  BY <1>2 DEF M!Lock
<1>. HIDE DEF p
<1>4. /\ q \in Processes /\ q.holder = c /\ q.config = p.config /\ q.state = p.state /\ q.strayed = p.strayed
      /\ q.asked = p.asked /\ q.requests = p.requests /\ q.answers = p.answers
  BY <1>2, Zenon DEF Processes
<1>5. z \in Conversations /\ z.at \in {"calls", "greets"} /\ z.proc = i /\ z.config = caller[c].config /\ z.got = "nothing"
  <2>1. PICK to \in {"calls", "greets"} : z = [caller[c] EXCEPT !.at = to]
    OBVIOUS
  <2>. HIDE DEF z
  <2>. QED
    BY <1>2, <2>1, Zenon DEF Conversations, Talks
<1>. HIDE DEF q, z
<1>6. PipesRight(q, z.at \in {"reads", "met"})
  BY <1>2, <1>4 DEF PipesRight
<1>7. z.at \in Talks /\ caller[c].at \in {"has"} \cup Talks
  BY <1>1, <1>5 DEF Talks
<1>. QED
  BY <1>1, <1>2, <1>3, <1>4, <1>5, <1>6, <1>7, ConversationStep

\* A call returns: what it has read or failed to read is in the process it gives back.
LEMMA ReturnStep ==
    ASSUME M!McpAssumption, McpInvariant, NEW c \in Callers, caller[c].at \in Talks, NEW q \in Processes,
           NEW got \in {"error", "own", "foreign"}, M!Returns(c, q, got), UNCHANGED <<row, kept, disabler>>,
           q.config = M!Proc(c).config, q.state = M!Proc(c).state, M!Proc(c).strayed => q.strayed,
           got = "foreign" => q.strayed, PipesRight(q, FALSE)
    PROVE  McpInvariant'
<1>. DEFINE i == caller[c].proc
            r == [q EXCEPT !.holder = None]
            z == [M!Idle EXCEPT !.proc = caller[c].proc, !.got = got]
<1>1. caller[c] \in Conversations /\ i \in DOMAIN procs /\ M!Proc(c) = procs[i] /\ M!Proc(c).holder = c
  BY WhoHas
<1>2. procs' = [procs EXCEPT ![i] = r] /\ caller' = [caller EXCEPT ![c] = z]
  BY DEF M!Returns
<1>3. /\ r \in Processes /\ r.holder = None /\ r.config = q.config /\ r.state = q.state /\ r.strayed = q.strayed
      /\ r.asked = q.asked /\ r.requests = q.requests /\ r.answers = q.answers
  BY Zenon DEF Processes
<1>4. M!Idle \in Conversations /\ M!Idle.at = "idle"
  BY DEF M!Idle, Conversations
<1>5. i \in Nat
  BY <1>1 DEF Conversations
<1>6. z \in Conversations /\ z.at = "idle" /\ z.proc = i /\ z.got = got
  BY <1>4, <1>5, Zenon DEF Conversations
<1>. HIDE DEF r, z
<1>7. PipesRight(r, z.at \in {"reads", "met"})
  BY <1>3 DEF PipesRight
<1>. QED
  BY <1>1, <1>2, <1>3, <1>6, <1>7, ConversationStep

LEMMA WriteRequestStep ==
    ASSUME M!McpAssumption, McpInvariant, NEW c \in Callers, M!WriteRequest(c)
    PROVE  McpInvariant'
<1>. DEFINE i == caller[c].proc
            p == M!Proc(c)
<1>1. caller[c].at \in {"calls", "greets"} /\ UNCHANGED <<row, kept, disabler>>
  BY DEF M!WriteRequest
<1>2. /\ caller[c] \in Conversations /\ i \in DOMAIN procs /\ p = procs[i] /\ p \in Processes /\ caller[c].got = "nothing"
      /\ p.holder = c
      /\ p.state \in {"dead", "closed"} => p.requests = <<>>
      /\ ~p.strayed => p.requests = <<>> /\ p.answers = <<>>
  BY <1>1, WhoHas DEF Talks
<1>3. p.asked + 1 \in Nat /\ p.requests \in Seq(Nat) /\ p.state \in {"up", "hung", "dead", "closed"}
  <2>1. p \in Processes
    BY <1>2
  <2>. HIDE DEF p
  <2>. QED
    BY <2>1 DEF Processes
<1>4. CASE p.state \in {"up", "hung"}
  <2>. DEFINE more == Append(p.requests, p.asked + 1)
              q == [p EXCEPT !.asked = p.asked + 1, !.requests = more]
              z == [caller[c] EXCEPT !.at = IF caller[c].at = "calls" THEN "reads" ELSE "met"]
  <2>1. procs' = [procs EXCEPT ![i] = q] /\ caller' = [caller EXCEPT ![c] = z]
    BY <1>2, <1>4 DEF M!WriteRequest
  <2>. HIDE DEF p
  <2>2. more \in Seq(Nat) /\ (p.requests = <<>> => more = <<p.asked + 1>>)
    BY <1>3, OneMoreLine
  <2>. HIDE DEF more
  <2>3. /\ q \in Processes /\ q.holder = p.holder /\ q.config = p.config /\ q.state = p.state /\ q.strayed = p.strayed
        /\ q.asked = p.asked + 1 /\ q.requests = more /\ q.answers = p.answers
    BY <1>2, <1>3, <2>2, Zenon DEF Processes
  <2>4. z \in Conversations /\ z.at \in {"reads", "met"} /\ z.proc = i /\ z.config = caller[c].config /\ z.got = "nothing"
    <3>1. PICK to \in {"reads", "met"} : z = [caller[c] EXCEPT !.at = to]
      OBVIOUS
    <3>. HIDE DEF z
    <3>. QED
      BY <1>2, <3>1, Zenon DEF Conversations, Talks
  <2>. HIDE DEF q, z
  <2>5. PipesRight(q, z.at \in {"reads", "met"})
    BY <1>2, <1>4, <2>2, <2>3, <2>4 DEF PipesRight
  <2>6. z.at \in Talks /\ caller[c].at \in {"has"} \cup Talks
    BY <1>1, <2>4 DEF Talks
  <2>. QED
    BY <1>1, <1>2, <2>1, <2>3, <2>4, <2>5, <2>6, ConversationStep
<1>5. CASE p.state \notin {"up", "hung"}
  <2>. DEFINE q == [p EXCEPT !.asked = p.asked + 1]
  <2>1. M!Returns(c, q, "error")
    BY <1>5 DEF M!WriteRequest
  <2>. HIDE DEF p
  <2>2. /\ q \in Processes /\ q.config = p.config /\ q.state = p.state /\ q.strayed = p.strayed
        /\ q.asked = p.asked + 1 /\ q.requests = p.requests /\ q.answers = p.answers
    BY <1>2, <1>3, Zenon DEF Processes
  <2>. HIDE DEF q
  <2>3. PipesRight(q, FALSE)
    BY <1>2, <2>2 DEF PipesRight
  <2>4. caller[c].at \in Talks
    BY <1>1 DEF Talks
  <2>. QED
    BY <1>1, <2>1, <2>2, <2>3, <2>4, ReturnStep DEF p
<1>. QED
  BY <1>4, <1>5

LEMMA ReadResponseStep ==
    ASSUME M!McpAssumption, McpInvariant, NEW c \in Callers, M!ReadResponse(c)
    PROVE  McpInvariant'
<1>. DEFINE i == caller[c].proc
            p == M!Proc(c)
            rest == [p EXCEPT !.answers = Tail(p.answers)]
<1>1. caller[c].at \in {"reads", "met"} /\ caller[c].at \in Talks /\ UNCHANGED <<row, kept, disabler>>
  BY DEF M!ReadResponse, Talks
<1>2. /\ caller[c] \in Conversations /\ i \in DOMAIN procs /\ p = procs[i] /\ p \in Processes /\ caller[c].got = "nothing"
      /\ p.holder = c
      /\ p.state \in {"dead", "closed"} => p.requests = <<>>
      /\ ~p.strayed =>
           /\ p.requests = <<>> \/ (p.requests = <<p.asked>> /\ p.answers = <<>>)
           /\ p.answers = <<>> \/ p.answers = <<p.asked>>
  BY <1>1, WhoHas DEF Talks
<1>3. /\ p.answers \in Seq(Nat) /\ (p.answers # <<>> => Tail(p.answers) \in Seq(Nat))
      /\ (p.answers = <<p.asked>> => Tail(p.answers) = <<>> /\ Head(p.answers) = p.asked)
  <2>. HIDE DEF p
  <2>1. p.answers \in Seq(Nat) /\ p.asked \in Nat
    BY <1>2 DEF Processes
  <2>2. p.answers # <<>> => Tail(p.answers) \in Seq(Nat) /\ \A n \in Nat : p.answers = <<n>> =>
          Tail(p.answers) = <<>> /\ Head(p.answers) = n
    BY <2>1, OneLineLess
  <2>3. p.answers = <<p.asked>> => p.answers # <<>>
    BY <2>1
  <2>. QED
    BY <2>1, <2>2, <2>3
<1>4. CASE p.answers = <<>> /\ p.state \in {"dead", "closed"} /\ M!Returns(c, p, "error")
  <2>1. PipesRight(p, FALSE)
    BY <1>2, <1>4 DEF PipesRight
  <2>. QED
    BY <1>1, <1>2, <1>4, <2>1, ReturnStep
<1>5. ASSUME p.answers # <<>>
      PROVE  /\ rest \in Processes /\ rest.holder = p.holder /\ rest.config = p.config /\ rest.state = p.state
             /\ rest.strayed = p.strayed /\ PipesRight(rest, FALSE)
  <2>. DEFINE tail == Tail(p.answers)
  <2>1. tail \in Seq(Nat) /\ (p.answers = <<p.asked>> => tail = <<>>)
    BY <1>3, <1>5
  <2>. HIDE DEF p, tail
  <2>2. /\ rest \in Processes /\ rest.holder = p.holder /\ rest.config = p.config /\ rest.state = p.state
        /\ rest.strayed = p.strayed /\ rest.asked = p.asked /\ rest.requests = p.requests /\ rest.answers = tail
    BY <1>2, <2>1, Zenon DEF Processes, tail
  <2>. HIDE DEF rest
  <2>3. PipesRight(rest, FALSE)
    BY <1>2, <1>5, <2>1, <2>2 DEF PipesRight
  <2>. QED
    BY <2>2, <2>3
<1>6. CASE p.answers # <<>> /\ \E got \in {"error", "own", "foreign"} :
             M!Returns(c, rest, got) /\ (got = "foreign" => Head(p.answers) # p.asked)
  <2>1. Head(p.answers) # p.asked => p.strayed
    BY <1>2, <1>3, <1>6
  <2>. PICK got \in {"error", "own", "foreign"} : M!Returns(c, rest, got) /\ (got = "foreign" => Head(p.answers) # p.asked)
    BY <1>6
  <2>2. got = "foreign" => rest.strayed
    BY <1>5, <1>6, <2>1
  <2>. HIDE DEF rest
  <2>. QED
    BY <1>1, <1>2, <1>5, <1>6, <2>2, ReturnStep
<1>7. CASE p.answers # <<>> /\ caller[c].at = "met" /\ M!Greeted(c, rest)
  <2>. HIDE DEF rest
  <2>1. CASE rest.state \in {"up", "hung"}
    <3>. DEFINE q == [rest EXCEPT !.ready = TRUE]
                z == [caller[c] EXCEPT !.at = "calls"]
    <3>1. procs' = [procs EXCEPT ![i] = q] /\ caller' = [caller EXCEPT ![c] = z]
      BY <1>7, <2>1 DEF M!Greeted
    <3>2. /\ q \in Processes /\ q.holder = rest.holder /\ q.config = rest.config /\ q.state = rest.state
          /\ q.strayed = rest.strayed
          /\ q.asked = rest.asked /\ q.requests = rest.requests /\ q.answers = rest.answers
      <4>1. rest \in Processes /\ TRUE \in BOOLEAN
        BY <1>5, <1>7
      <4>. QED
        BY <4>1, Zenon DEF Processes
    <3>3. z \in Conversations /\ z.at = "calls" /\ z.proc = i /\ z.config = caller[c].config /\ z.got = "nothing"
      BY <1>2, Zenon DEF Conversations, Talks
    <3>. HIDE DEF q, z
    <3>4. PipesRight(q, z.at \in {"reads", "met"})
      BY <1>5, <1>7, <3>2, <3>3 DEF PipesRight
    <3>5. z.at \in Talks
      BY <3>3 DEF Talks
    <3>. QED
      BY <1>1, <1>2, <1>5, <1>7, <3>1, <3>2, <3>3, <3>4, <3>5, ConversationStep
  <2>2. CASE rest.state \notin {"up", "hung"}
    <3>1. M!Returns(c, rest, "error")
      BY <1>7, <2>2 DEF M!Greeted
    <3>. QED
      BY <1>1, <1>2, <1>5, <1>7, <3>1, ReturnStep
  <2>. QED
    BY <2>1, <2>2
<1>. QED
  BY <1>1, <1>4, <1>6, <1>7 DEF M!ReadResponse

\* What the pipes of a process hold, in one place.
LEMMA PipesOf ==
    ASSUME McpInvariant, NEW i \in DOMAIN procs
    PROVE  /\ procs[i] \in Processes
           /\ PipesRight(procs[i], procs[i].holder # None /\ caller[procs[i].holder].at \in {"reads", "met"})
BY DEF McpInvariant, HostTypes, OneInPipes, PipesRight

LEMMA CloseTakenStep ==
    ASSUME M!McpAssumption, McpInvariant, NEW d \in Disablers, M!CloseTaken(d)
    PROVE  McpInvariant'
<1>. DEFINE i == disabler[d].proc
            q == M!Closed(procs[i])
<1>1. /\ i \in DOMAIN procs /\ procs[i].holder = None /\ procs' = [procs EXCEPT ![i] = q]
      /\ disabler' = [disabler EXCEPT ![d].at = "done"] /\ UNCHANGED <<row, kept, caller>>
  BY DEF M!CloseTaken, McpInvariant, OneTalks
<1>2. procs[i] \in Processes /\ PipesRight(procs[i], FALSE)
  BY <1>1, PipesOf DEF PipesRight
<1>3. /\ q \in Processes /\ q.state = "closed" /\ q.requests = <<>> /\ q.config = procs[i].config
      /\ q.holder = procs[i].holder /\ q.asked = procs[i].asked
      /\ q.answers = procs[i].answers /\ q.strayed = procs[i].strayed
  BY <1>2, ClosedIsProcess
<1>. HIDE DEF q
<1>4. PipesRight(q, q.holder # None /\ caller[q.holder].at \in {"reads", "met"})
  BY <1>1, <1>2, <1>3 DEF PipesRight
<1>5. disabler' \in [Disablers -> [at : {"idle", "saved", "closing", "done"}, proc : 0..Len(procs)]]
  BY <1>1 DEF McpInvariant, HostTypes
<1>6. \A e \in Disablers : \/ disabler'[e] = disabler[e]
                           \/ disabler'[e].at = "done" /\ disabler[e].proc = i /\ q.state = "closed"
  BY <1>1, <1>3 DEF McpInvariant, HostTypes
<1>7. (q.state \in {"up", "hung"} => procs[i].state \in {"up", "hung"}) /\ (procs[i].strayed => q.strayed)
  BY <1>3
<1>8. /\ i \in DOMAIN procs /\ procs' = [procs EXCEPT ![i] = q] /\ UNCHANGED <<row, kept, caller>>
      /\ q \in Processes /\ q.config = procs[i].config /\ q.holder = procs[i].holder
  BY <1>1, <1>3
<1>. HIDE DEF i
<1>. QED
  BY <1>4, <1>5, <1>6, <1>7, <1>8, ProcessStep

LEMMA ServerStep ==
    ASSUME M!McpAssumption, McpInvariant, NEW i \in DOMAIN procs, M!ServerAnswers(i) \/ M!ServerErrs(i)
    PROVE  McpInvariant'
<1>. DEFINE p == procs[i]
            talked == p.holder # None /\ caller[p.holder].at \in {"reads", "met"}
<1>1. p \in Processes /\ PipesRight(p, talked)
  BY PipesOf
<1>2. p.state = "up" /\ UNCHANGED <<row, kept, caller, disabler>>
  BY DEF M!ServerAnswers, M!ServerErrs
<1>3. disabler' \in [Disablers -> [at : {"idle", "saved", "closing", "done"}, proc : 0..Len(procs)]]
  BY <1>2 DEF McpInvariant, HostTypes
<1>4. p.requests \in Seq(Nat) /\ p.answers \in Seq(Nat) /\ p.asked \in Nat /\ TRUE \in BOOLEAN /\ <<>> \in Seq(Nat)
  BY <1>1 DEF Processes
<1>5. CASE M!ServerAnswers(i)
  <2>. DEFINE head == Head(p.requests)
              left == Tail(p.requests)
              more == Append(p.answers, head)
              q == [p EXCEPT !.requests = left, !.answers = more]
  <2>1. p.requests # <<>> /\ procs' = [procs EXCEPT ![i] = q]
    BY <1>5 DEF M!ServerAnswers
  <2>. HIDE DEF p
  <2>2. head \in Nat /\ left \in Seq(Nat)
    BY <1>4, <2>1
  <2>3. more \in Seq(Nat) /\ (p.answers = <<>> => more = <<head>>)
    BY <1>4, <2>2, OneMoreLine
  <2>4. p.requests = <<p.asked>> => left = <<>> /\ head = p.asked
    BY <1>4, <2>1, OneLineLess
  <2>. HIDE DEF head, left, more
  <2>5. /\ q \in Processes /\ q.holder = p.holder /\ q.config = p.config /\ q.state = p.state /\ q.strayed = p.strayed
        /\ q.asked = p.asked /\ q.requests = left /\ q.answers = more
    BY <1>1, <2>2, <2>3, Zenon DEF Processes
  <2>. HIDE DEF q
  <2>6. PipesRight(q, talked)
    <3>. HIDE DEF talked
    <3>. QED
      BY <1>1, <1>2, <2>1, <2>3, <2>4, <2>5 DEF PipesRight
  <2>7. PipesRight(q, q.holder # None /\ caller[q.holder].at \in {"reads", "met"})
    BY <2>5, <2>6 DEF talked
  <2>. QED
    BY <1>2, <1>3, <2>1, <2>5, <2>7, ProcessStep DEF p
<1>6. ASSUME NEW q, q = [p EXCEPT !.answers = Append(@, M!Stray), !.strayed = TRUE], procs' = [procs EXCEPT ![i] = q]
      PROVE  McpInvariant'
  <2>. DEFINE more == Append(p.answers, M!Stray)
  <2>1. more \in Seq(Nat)
    BY <1>4 DEF M!Stray
  <2>. HIDE DEF p, more
  <2>2. /\ q \in Processes /\ q.holder = p.holder /\ q.config = p.config /\ q.state = p.state /\ q.strayed = TRUE
        /\ q.requests = p.requests
    BY <1>1, <1>4, <1>6, <2>1, Zenon DEF Processes, more
  <2>3. q.strayed
    BY <2>2
  <2>4. PipesRight(q, q.holder # None /\ caller[q.holder].at \in {"reads", "met"})
    BY <1>2, <2>2, <2>3 DEF PipesRight
  <2>. QED
    BY <1>2, <1>3, <1>6, <2>2, <2>3, <2>4, ProcessStep DEF p
<1>7. ASSUME NEW q, procs' = [procs EXCEPT ![i] = q],
             q = [p EXCEPT !.state = "dead", !.requests = <<>>] \/ q = [p EXCEPT !.state = "hung"]
      PROVE  McpInvariant'
  <2>. HIDE DEF p
  <2>1. CASE q = [p EXCEPT !.state = "dead", !.requests = <<>>]
    <3>1. /\ q \in Processes /\ q.holder = p.holder /\ q.config = p.config /\ q.state = "dead" /\ q.strayed = p.strayed
          /\ q.asked = p.asked /\ q.requests = <<>> /\ q.answers = p.answers
      BY <1>1, <1>4, <2>1, Zenon DEF Processes
    <3>2. PipesRight(q, q.holder # None /\ caller[q.holder].at \in {"reads", "met"})
      BY <1>1, <3>1 DEF PipesRight
    <3>. QED
      BY <1>2, <1>3, <1>7, <3>1, <3>2, ProcessStep DEF p
  <2>2. CASE q = [p EXCEPT !.state = "hung"]
    <3>1. /\ q \in Processes /\ q.holder = p.holder /\ q.config = p.config /\ q.state = "hung" /\ q.strayed = p.strayed
          /\ q.asked = p.asked /\ q.requests = p.requests /\ q.answers = p.answers
      BY <1>1, <2>2, Zenon DEF Processes
    <3>2. PipesRight(q, q.holder # None /\ caller[q.holder].at \in {"reads", "met"})
      BY <1>1, <3>1 DEF PipesRight
    <3>. QED
      BY <1>2, <1>3, <1>7, <3>1, <3>2, ProcessStep DEF p
  <2>. QED
    BY <1>7, <2>1, <2>2
<1>8. CASE M!ServerErrs(i)
  <2>1. \/ procs' = [procs EXCEPT ![i] = [p EXCEPT !.answers = Append(@, M!Stray), !.strayed = TRUE]]
        \/ procs' = [procs EXCEPT ![i] = [p EXCEPT !.state = "dead", !.requests = <<>>]]
        \/ procs' = [procs EXCEPT ![i] = [p EXCEPT !.state = "hung"]]
    BY <1>8 DEF M!ServerErrs
  <2>. QED
    BY <1>6, <1>7, <2>1
<1>. QED
  BY <1>5, <1>8

LEMMA McpInvariantNext ==
    ASSUME M!McpAssumption, McpInvariant, [M!McpNext]_mcpVars PROVE McpInvariant'
BY HostQuietStep, GetClientStep, LockStep, WriteRequestStep, ReadResponseStep, CloseTakenStep, ServerStep
   DEF M!McpNext, M!CallerSteps, M!DisablerSteps

-----------------------------------------------------------------------------
\* The screen agent's daemon.

Works == [over : BOOLEAN, cancelled : BOOLEAN, for : Requesters \cup {None}]
Lives == {"start", "preparing", "loop", "starting", "unwinding", "closing", "waiting", "gone"}
Serving == {"unborn", "accept", "decode", "send", "wait", "over"}

DaemonTypes ==
    /\ main \in [at : Lives, prev : 0..MaxJobs, for : Requesters \cup {None}]
    /\ cancelled \in BOOLEAN /\ listening \in BOOLEAN /\ failure \in BOOLEAN
    /\ server \in [at : Serving, of : Requesters \cup {None}]
    /\ server.at \in {"decode", "send", "wait"} => server.of \in Requesters
    /\ requests \in Seq(Requesters)
    /\ answer \in [Requesters -> {"none", "ok", "no"}]
    /\ requester \in [Requesters -> {"away", "connected", "accepted", "rejected", "stopping", "left"}]
    /\ jobs \in Seq(Works) /\ Len(jobs) <= MaxJobs /\ active \in 0..Len(jobs)

\* A job in progress is the latest, and the one that can be cancelled; one it
\* replaces is about to be.
Newest ==
    /\ D!LatestOnly
    /\ jobs # <<>> /\ ~jobs[Len(jobs)].over /\ ~D!IsDone(Len(jobs)) => active = Len(jobs)
    /\ main.at = "starting" => /\ jobs # <<>> /\ main.prev < Len(jobs)
                               /\ main.for # None => jobs[Len(jobs)].for = main.for

\* A request waits in the channel or has its job.
InChannel(c) == \E x \in DOMAIN requests : requests[x] = c
HasJob(c) == \E j \in DOMAIN jobs : jobs[j].for = c

Once ==
    /\ \A c \in Requesters :
         /\ \/ requester[c] = "away"
            \/ requester[c] = "connected" /\ ~(server.at = "wait" /\ server.of = c)
            \/ server.at \in {"decode", "send"} /\ server.of = c
            => ~InChannel(c) /\ ~HasJob(c)
         /\ answer[c] = "ok" \/ requester[c] = "accepted" => HasJob(c)
         /\ ~(InChannel(c) /\ HasJob(c))
         /\ \A j, k \in DOMAIN jobs : jobs[j].for = c /\ jobs[k].for = c => j = k
    /\ \A x, y \in DOMAIN requests : requests[x] = requests[y] => x = y
    /\ server.at \in {"decode", "send", "wait"} => requester[server.of] # "away"

\* How far the daemon has come says what is left of it.
Ended ==
    /\ main.at = "start" => ~listening /\ server.at = "unborn"
    /\ main.at \in {"start", "preparing", "unwinding"} => jobs = <<>>
    /\ main.at \in {"unwinding", "closing", "waiting"} => ~listening
    /\ main.at = "waiting" => server.at = "over"
    /\ D!NothingLeft

DaemonInvariant == DaemonTypes /\ Newest /\ Once /\ Ended

LEMMA DaemonInvariantInit == ASSUME D!DaemonAssumption, D!DaemonInit PROVE DaemonInvariant
<1>. USE DEF D!DaemonAssumption, D!DaemonInit, D!At, D!Serves
<1>1. jobs = <<>> /\ DOMAIN jobs = {} /\ requests = <<>> /\ DOMAIN requests = {}
  OBVIOUS
<1>2. DaemonTypes
  <2>1. main \in [at : Lives, prev : 0..MaxJobs, for : Requesters \cup {None}]
    BY DEF Lives
  <2>2. cancelled \in BOOLEAN /\ listening \in BOOLEAN /\ failure \in BOOLEAN
    OBVIOUS
  <2>3. server \in [at : Serving, of : Requesters \cup {None}]
        /\ (server.at \in {"decode", "send", "wait"} => server.of \in Requesters)
    BY DEF Serving
  <2>. QED
    BY <1>1, <2>1, <2>2, <2>3 DEF DaemonTypes
<1>3. Newest /\ Ended
  BY <1>1 DEF Newest, D!LatestOnly, Ended, D!NothingLeft
<1>4. Once
  BY <1>1 DEF Once, InChannel, HasJob
<1>. QED
  BY <1>2, <1>3, <1>4 DEF DaemonInvariant

LEMMA DaemonInvariantImplies == ASSUME D!DaemonAssumption, DaemonInvariant PROVE D!DaemonInv
<1>. USE DEF DaemonInvariant
<1>1. D!DaemonTypeOK
  BY DEF DaemonTypes, D!DaemonTypeOK, Lives, Serving
<1>2. D!AcceptedIsStarted
  BY DEF D!AcceptedIsStarted, Once, HasJob
<1>. QED
  BY <1>1, <1>2 DEF D!DaemonInv, Newest, Ended

\* The steps of RunDaemon that start and cancel no job.
LEMMA MainStep ==
    ASSUME D!DaemonAssumption, DaemonInvariant,
           D!Listen \/ D!SetUp \/ D!Unwound \/ D!ContextEnds \/ D!ShutDown \/ D!JobsOver
    PROVE  DaemonInvariant'
<1>. USE DEF DaemonInvariant, D!serving
<1>0. /\ UNCHANGED <<requests, answer, requester, jobs, active, failure>>
      /\ UNCHANGED server \/ (main.at = "start" /\ server' = D!Free)
      /\ main' = main \/ (main.at # "starting" /\ \E to \in Lives \ {"starting"} : main' = [at |-> to, prev |-> 0, for |-> None])
      /\ cancelled => cancelled'
  BY DEF D!Listen, D!SetUp, D!Unwound, D!ContextEnds, D!ShutDown, D!JobsOver, D!At, Lives
<1>1. DaemonTypes'
  <2>1. main' \in [at : Lives, prev : 0..MaxJobs, for : Requesters \cup {None}]
    BY <1>0 DEF DaemonTypes, D!DaemonAssumption
  <2>2. cancelled' \in BOOLEAN /\ listening' \in BOOLEAN
    BY DEF DaemonTypes, D!Listen, D!SetUp, D!Unwound, D!ContextEnds, D!ShutDown, D!JobsOver
  <2>3. server' \in [at : Serving, of : Requesters \cup {None}]
        /\ (server'.at \in {"decode", "send", "wait"} => server'.of \in Requesters)
    BY <1>0 DEF DaemonTypes, D!Free, D!Serves, Serving
  <2>. QED
    BY <1>0, <2>1, <2>2, <2>3 DEF DaemonTypes
<1>2. Newest'
  BY <1>0 DEF Newest, D!LatestOnly, D!IsDone
<1>3. Once'
  BY <1>0 DEF Once, InChannel, HasJob, D!Free, D!Serves, Ended
<1>4. Ended'
  BY <1>0 DEF Ended, D!NothingLeft, D!Listen, D!SetUp, D!Unwound, D!ContextEnds, D!ShutDown, D!JobsOver, D!At
<1>. QED
  BY <1>1, <1>2, <1>3, <1>4

\* A job is started: the latest there is from now on.
LEMMA JobAdded ==
    ASSUME D!DaemonAssumption, DaemonInvariant, NEW c \in Requesters \cup {None}, D!StartJob(c), main.at = "loop",
           UNCHANGED <<cancelled, listening, failure, server, answer, requester>>,
           \/ c = None /\ UNCHANGED requests
           \/ c # None /\ requests # <<>> /\ c = Head(requests) /\ requests' = Tail(requests)
    PROVE  DaemonInvariant'
<1>. USE DEF DaemonInvariant
<1>. DEFINE new == [over |-> FALSE, cancelled |-> FALSE, for |-> c]
<1>1. /\ Len(jobs) < MaxJobs /\ jobs' = Append(jobs, new) /\ active' = Len(jobs')
      /\ main' = [at |-> "starting", prev |-> active, for |-> c]
  BY DEF D!StartJob
<1>2. new \in Works /\ jobs \in Seq(Works)
  BY Zenon DEF Works, DaemonTypes
<1>3. new.for = c /\ ~new.over /\ ~new.cancelled
  OBVIOUS
<1>. HIDE DEF new
<1>4. /\ jobs' \in Seq(Works) /\ Len(jobs') = Len(jobs) + 1 /\ DOMAIN jobs' = DOMAIN jobs \cup {Len(jobs')}
      /\ Len(jobs') \notin DOMAIN jobs /\ jobs' # <<>>
      /\ \A j \in DOMAIN jobs : jobs'[j] = jobs[j]
      /\ jobs'[Len(jobs')] = new /\ Len(jobs) \in Nat /\ DOMAIN jobs = 1..Len(jobs)
  BY <1>1, <1>2
<1>5. /\ requests' \in Seq(Requesters)
      /\ c # None => InChannel(c) /\ \A x \in DOMAIN requests' : requests'[x] # c
      /\ \A x \in DOMAIN requests' : \E y \in DOMAIN requests : requests'[x] = requests[y]
      /\ \A x, y \in DOMAIN requests' : requests'[x] = requests'[y] => x = y
  <2>1. requests \in Seq(Requesters) /\ \A x, y \in DOMAIN requests : requests[x] = requests[y] => x = y
    BY DEF DaemonTypes, Once
  <2>2. CASE c = None /\ UNCHANGED requests
    BY <2>1, <2>2
  <2>3. CASE c # None /\ requests # <<>> /\ c = Head(requests) /\ requests' = Tail(requests)
    <3>1. /\ requests' \in Seq(Requesters) /\ DOMAIN requests' = 1..Len(requests) - 1 /\ Len(requests) \in Nat
          /\ DOMAIN requests = 1..Len(requests) /\ 1 \in DOMAIN requests /\ requests[1] = c
          /\ \A x \in DOMAIN requests' : requests'[x] = requests[x + 1] /\ x + 1 \in DOMAIN requests
      BY <2>1, <2>3
    <3>2. \A x, y \in DOMAIN requests' : requests'[x] = requests'[y] => x + 1 = y + 1
      BY <2>1, <3>1
    <3>3. \A x, y \in DOMAIN requests' : requests'[x] = requests'[y] => x = y
      BY <3>1, <3>2
    <3>4. ASSUME NEW x \in DOMAIN requests' PROVE requests'[x] # c
      <4>1. x \in Nat /\ x # 0 /\ requests'[x] = requests[x + 1] /\ x + 1 \in DOMAIN requests
        BY <3>1
      <4>2. x + 1 # 1
        BY <4>1
      <4>. QED
        BY <2>1, <3>1, <4>1, <4>2
    <3>5. InChannel(c)
      BY <3>1 DEF InChannel
    <3>. QED
      BY <2>3, <3>1, <3>3, <3>4, <3>5
  <2>. QED
    BY <2>2, <2>3
<1>6. DaemonTypes'
  <2>1. active \in 0..MaxJobs
    BY <1>1, <1>4 DEF DaemonTypes, D!DaemonAssumption
  <2>2. main' \in [at : Lives, prev : 0..MaxJobs, for : Requesters \cup {None}]
    BY <1>1, <2>1 DEF Lives
  <2>3. Len(jobs') <= MaxJobs /\ active' \in 0..Len(jobs')
    BY <1>1, <1>4 DEF DaemonTypes, D!DaemonAssumption
  <2>. QED
    BY <1>4, <1>5, <2>2, <2>3 DEF DaemonTypes
<1>7. Newest'
  <2>1. ASSUME NEW j \in DOMAIN jobs, ~jobs[j].over, ~D!IsDone(j) PROVE active = j
    <3>1. j = Len(jobs)
      BY <2>1 DEF Newest, D!LatestOnly
    <3>2. jobs # <<>>
      BY <1>2
    <3>. QED
      BY <2>1, <3>1, <3>2 DEF Newest
  <2>2. \A j \in DOMAIN jobs : D!IsDone(j)' = D!IsDone(j) /\ jobs'[j].over = jobs[j].over
    BY <1>4 DEF D!IsDone
  <2>3. D!LatestOnly'
    BY <1>1, <1>4, <2>1, <2>2 DEF D!LatestOnly
  <2>4. active < Len(jobs')
    BY <1>4 DEF DaemonTypes
  <2>. QED
    BY <1>1, <1>3, <1>4, <2>3, <2>4 DEF Newest
<1>8. Once'
  <2>1. \A k \in Requesters : /\ HasJob(k)' <=> HasJob(k) \/ k = c
                              /\ InChannel(k)' => InChannel(k) /\ k # c
    <3>. SUFFICES ASSUME NEW k \in Requesters
                  PROVE  (HasJob(k)' <=> HasJob(k) \/ k = c) /\ (InChannel(k)' => InChannel(k) /\ k # c)
      OBVIOUS
    <3>1. HasJob(k)' => HasJob(k) \/ k = c
      BY <1>3, <1>4 DEF HasJob
    <3>2. HasJob(k) => HasJob(k)'
      BY <1>4 DEF HasJob
    <3>3. k = c => HasJob(k)'
      BY <1>3, <1>4 DEF HasJob
    <3>4. InChannel(k)' => InChannel(k)
      BY <1>5 DEF InChannel
    <3>5. InChannel(k)' => k # c
      BY <1>5 DEF InChannel, D!DaemonAssumption
    <3>. QED
      BY <3>1, <3>2, <3>3, <3>4, <3>5
  <2>2. c # None => InChannel(c) /\ ~HasJob(c)
    BY <1>5 DEF Once
  <2>3. \A k \in Requesters : \A i, j \in DOMAIN jobs' : jobs'[i].for = k /\ jobs'[j].for = k => i = j
    BY <1>3, <1>4, <2>2 DEF Once, HasJob, D!DaemonAssumption
  <2>4. \A k \in Requesters :
         \/ requester[k] = "away"
         \/ requester[k] = "connected" /\ ~(server.at = "wait" /\ server.of = k)
         \/ server.at \in {"decode", "send"} /\ server.of = k
         => ~InChannel(k)' /\ ~HasJob(k)'
    BY <2>1, <2>2 DEF Once, D!DaemonAssumption
  <2>5. \A k \in Requesters : answer[k] = "ok" \/ requester[k] = "accepted" => HasJob(k)'
    BY <2>1 DEF Once
  <2>6. \A k \in Requesters : ~(InChannel(k)' /\ HasJob(k)')
    BY <2>1 DEF Once
  <2>. QED
    BY <1>5, <2>3, <2>4, <2>5, <2>6 DEF Once
<1>9. Ended'
  BY <1>1 DEF Ended, D!NothingLeft
<1>. QED
  BY <1>6, <1>7, <1>8, <1>9

LEMMA StartStep ==
    ASSUME D!DaemonAssumption, DaemonInvariant, D!Trigger \/ D!TakeDispatch
    PROVE  DaemonInvariant'
<1>1. CASE D!Trigger
  BY <1>1, JobAdded DEF D!Trigger, D!serving
<1>2. CASE D!TakeDispatch
  <2>. DEFINE c == Head(requests)
  <2>1. /\ main.at = "loop" /\ requests # <<>> /\ requests' = Tail(requests) /\ c \in Requesters
        /\ UNCHANGED <<cancelled, listening, server, failure, requester>>
    <3>1. requests \in Seq(Requesters)
      BY DEF DaemonInvariant, DaemonTypes
    <3>. QED
      BY <1>2, <3>1 DEF D!TakeDispatch
  <2>2. CASE D!StartJob(c) /\ UNCHANGED answer
    <3>1. c # None
      BY <2>1 DEF D!DaemonAssumption
    <3>. QED
      BY <2>1, <2>2, <3>1, JobAdded
  <2>3. CASE answer' = [answer EXCEPT ![c] = "no"] /\ UNCHANGED <<main, jobs, active>>
    <3>. USE DEF DaemonInvariant
    <3>1. requests \in Seq(Requesters) /\ \A x, y \in DOMAIN requests : requests[x] = requests[y] => x = y
      BY DEF DaemonTypes, Once
    <3>2. /\ requests' \in Seq(Requesters) /\ DOMAIN requests' = 1..Len(requests) - 1 /\ Len(requests) \in Nat
          /\ DOMAIN requests = 1..Len(requests)
          /\ \A x \in DOMAIN requests' : requests'[x] = requests[x + 1] /\ x + 1 \in DOMAIN requests
      BY <2>1, <3>1
    <3>3. \A x, y \in DOMAIN requests' : requests'[x] = requests'[y] => x + 1 = y + 1
      BY <3>1, <3>2
    <3>4. answer' \in [Requesters -> {"none", "ok", "no"}] /\ \A k \in Requesters : answer'[k] = "ok" => answer[k] = "ok"
      BY <2>1, <2>3 DEF DaemonTypes
    <3>5. DaemonTypes'
      BY <2>1, <2>3, <3>2, <3>4 DEF DaemonTypes
    <3>6. Newest' /\ Ended'
      BY <2>1, <2>3 DEF Newest, D!LatestOnly, D!IsDone, Ended, D!NothingLeft
    <3>7. \A k \in Requesters : (HasJob(k)' <=> HasJob(k)) /\ (InChannel(k)' => InChannel(k))
      BY <2>3, <3>2 DEF HasJob, InChannel
    <3>8. Once'
      BY <2>1, <2>3, <3>2, <3>3, <3>4, <3>7 DEF Once
    <3>. QED
      BY <3>5, <3>6, <3>8
  <2>. QED
    BY <1>2, <2>2, <2>3 DEF D!TakeDispatch
<1>. QED
  BY <1>1, <1>2

\* Marking a job leaves every job whose it is.
LEMMA MarkedJob ==
    ASSUME jobs \in Seq(Works), NEW i \in DOMAIN jobs, NEW v \in BOOLEAN,
           \/ jobs' = [jobs EXCEPT ![i].cancelled = v]
           \/ jobs' = [jobs EXCEPT ![i].over = v]
    PROVE  /\ jobs' \in Seq(Works) /\ Len(jobs') = Len(jobs) /\ DOMAIN jobs' = DOMAIN jobs
           /\ \A j \in DOMAIN jobs : j # i => jobs'[j] = jobs[j]
           /\ \A j \in DOMAIN jobs : jobs'[j].for = jobs[j].for
           /\ \/ jobs'[i].cancelled = v /\ jobs'[i].over = jobs[i].over /\ jobs' = [jobs EXCEPT ![i].cancelled = v]
              \/ jobs'[i].cancelled = jobs[i].cancelled /\ jobs'[i].over = v /\ jobs' = [jobs EXCEPT ![i].over = v]
<1>1. jobs[i] \in Works
  OBVIOUS
<1>2. ASSUME NEW q, q = [jobs[i] EXCEPT !.cancelled = v]
      PROVE  q \in Works /\ q.cancelled = v /\ q.over = jobs[i].over /\ q.for = jobs[i].for
  BY <1>1, <1>2, Zenon DEF Works
<1>3. ASSUME NEW q, q = [jobs[i] EXCEPT !.over = v]
      PROVE  q \in Works /\ q.cancelled = jobs[i].cancelled /\ q.over = v /\ q.for = jobs[i].for
  BY <1>1, <1>3, Zenon DEF Works
<1>4. CASE jobs' = [jobs EXCEPT ![i].cancelled = v]
  <2>. DEFINE q == [jobs[i] EXCEPT !.cancelled = v]
  <2>1. jobs' = [jobs EXCEPT ![i] = q]
    BY <1>4
  <2>2. q \in Works /\ q.cancelled = v /\ q.over = jobs[i].over /\ q.for = jobs[i].for
    BY <1>2
  <2>. HIDE DEF q
  <2>. QED
    BY <1>4, <2>1, <2>2
<1>5. CASE jobs' = [jobs EXCEPT ![i].over = v]
  <2>. DEFINE q == [jobs[i] EXCEPT !.over = v]
  <2>1. jobs' = [jobs EXCEPT ![i] = q]
    BY <1>5
  <2>2. q \in Works /\ q.cancelled = jobs[i].cancelled /\ q.over = v /\ q.for = jobs[i].for
    BY <1>3
  <2>. HIDE DEF q
  <2>. QED
    BY <1>5, <2>1, <2>2
<1>. QED
  BY <1>4, <1>5

LEMMA JobStartedStep ==
    ASSUME D!DaemonAssumption, DaemonInvariant, D!JobStarted
    PROVE  DaemonInvariant'
<1>. USE DEF DaemonInvariant
<1>1. /\ main.at = "starting" /\ main' = [at |-> "loop", prev |-> 0, for |-> None]
      /\ answer' = (IF main.for = None THEN answer ELSE [answer EXCEPT ![main.for] = "ok"])
      /\ UNCHANGED <<cancelled, listening, server, requests, failure, requester, active>>
      /\ jobs' = IF main.prev = 0 THEN jobs ELSE [jobs EXCEPT ![main.prev].cancelled = TRUE]
  BY DEF D!JobStarted, D!PreviousCancelled, D!At
<1>2. jobs \in Seq(Works) /\ main.prev \in Nat /\ main.prev < Len(jobs) /\ DOMAIN jobs = 1..Len(jobs) /\ Len(jobs) \in Nat
  BY <1>1 DEF DaemonTypes, Newest
<1>3. /\ jobs' \in Seq(Works) /\ Len(jobs') = Len(jobs) /\ DOMAIN jobs' = DOMAIN jobs
      /\ \A j \in DOMAIN jobs : jobs'[j].for = jobs[j].for /\ jobs'[j].over = jobs[j].over
      /\ \A j \in DOMAIN jobs : j # main.prev => jobs'[j] = jobs[j]
      /\ main.prev # 0 => jobs'[main.prev].cancelled
  <2>1. CASE main.prev = 0
    BY <1>1, <1>2, <2>1
  <2>2. CASE main.prev # 0
    <3>1. main.prev \in DOMAIN jobs /\ jobs' = [jobs EXCEPT ![main.prev].cancelled = TRUE] /\ TRUE \in BOOLEAN
      BY <1>1, <1>2, <2>2
    <3>2. \A j \in DOMAIN jobs : jobs[j] \in Works
      BY <1>2
    <3>3. /\ jobs'[main.prev] = [jobs[main.prev] EXCEPT !.cancelled = TRUE]
          /\ \A j \in DOMAIN jobs : j # main.prev => jobs'[j] = jobs[j]
      BY <1>2, <3>1
    <3>4. /\ jobs'[main.prev].cancelled /\ jobs'[main.prev].over = jobs[main.prev].over
          /\ jobs'[main.prev].for = jobs[main.prev].for
      BY <3>1, <3>2, <3>3, Zenon DEF Works
    <3>5. jobs' \in Seq(Works) /\ Len(jobs') = Len(jobs) /\ DOMAIN jobs' = DOMAIN jobs
      BY <1>2, <3>1, MarkedJob
    <3>. QED
      BY <3>3, <3>4, <3>5
  <2>. QED
    BY <2>1, <2>2
<1>4. DaemonTypes'
  <2>1. main' \in [at : Lives, prev : 0..MaxJobs, for : Requesters \cup {None}]
    BY <1>1 DEF DaemonTypes, D!DaemonAssumption, Lives
  <2>2. answer' \in [Requesters -> {"none", "ok", "no"}]
    BY <1>1 DEF DaemonTypes
  <2>. QED
    BY <1>1, <1>3, <2>1, <2>2 DEF DaemonTypes
<1>5. Newest'
  <2>1. ASSUME NEW j \in DOMAIN jobs, ~jobs'[j].over, ~D!IsDone(j)' PROVE j = Len(jobs)
    <3>1. j # main.prev
      BY <1>1, <1>3, <2>1 DEF D!IsDone
    <3>2. ~jobs[j].over /\ ~D!IsDone(j)
      BY <1>1, <1>3, <2>1, <3>1 DEF D!IsDone
    <3>. QED
      BY <3>1, <3>2 DEF Newest, D!LatestOnly
  <2>2. D!LatestOnly'
    BY <1>3, <2>1 DEF D!LatestOnly
  <2>. DEFINE n == Len(jobs)
  <2>3. jobs # <<>> /\ n # main.prev /\ n \in DOMAIN jobs /\ Len(jobs') = n
    BY <1>2, <1>3
  <2>. HIDE DEF n
  <2>4. jobs'[n] = jobs[n]
    BY <1>3, <2>3
  <2>5. ~jobs[n].over /\ ~(cancelled \/ jobs[n].cancelled) => active = n
    BY <2>3 DEF Newest, D!IsDone, n
  <2>6. ~jobs'[n].over /\ ~(cancelled' \/ jobs'[n].cancelled) => active' = n
    BY <1>1, <2>4, <2>5
  <2>7. main'.at # "starting"
    BY <1>1
  <2>. QED
    BY <2>2, <2>3, <2>6, <2>7 DEF Newest, D!IsDone
<1>6. Once'
  <2>1. \A k \in Requesters : (HasJob(k)' <=> HasJob(k)) /\ (InChannel(k)' <=> InChannel(k))
    BY <1>1, <1>3 DEF HasJob, InChannel
  <2>2. main.for # None => main.for \in Requesters /\ HasJob(main.for)
    <3>1. main.for # None => main.for \in Requesters
      BY DEF DaemonTypes
    <3>. QED
      BY <1>1, <1>2, <3>1 DEF HasJob, Newest
  <2>3. \A k \in Requesters : answer'[k] = "ok" => answer[k] = "ok" \/ k = main.for
    BY <1>1 DEF DaemonTypes
  <2>4. \A k \in Requesters : \A i, j \in DOMAIN jobs' : jobs'[i].for = k /\ jobs'[j].for = k => i = j
    BY <1>3 DEF Once
  <2>. QED
    BY <1>1, <2>1, <2>2, <2>3, <2>4, D!DaemonAssumption DEF Once, D!DaemonAssumption
<1>7. Ended'
  BY <1>1 DEF Ended, D!NothingLeft
<1>. QED
  BY <1>4, <1>5, <1>6, <1>7

LEMMA CancelActiveStep ==
    ASSUME D!DaemonAssumption, DaemonInvariant, D!CancelActive
    PROVE  DaemonInvariant'
<1>. USE DEF DaemonInvariant
<1>1. /\ main.at = "closing" /\ server.at = "over" /\ main' = [at |-> "waiting", prev |-> 0, for |-> None]
      /\ UNCHANGED <<cancelled, listening, server, requests, failure, requester, answer>> /\ active' = 0
      /\ jobs' = IF active = 0 THEN jobs ELSE [jobs EXCEPT ![active].cancelled = TRUE]
  BY DEF D!CancelActive, D!At, D!serving
<1>2. jobs \in Seq(Works) /\ active \in 0..Len(jobs) /\ DOMAIN jobs = 1..Len(jobs) /\ Len(jobs) \in Nat
  BY DEF DaemonTypes
<1>3. /\ jobs' \in Seq(Works) /\ Len(jobs') = Len(jobs) /\ DOMAIN jobs' = DOMAIN jobs
      /\ \A j \in DOMAIN jobs : jobs'[j].for = jobs[j].for /\ jobs'[j].over = jobs[j].over
      /\ \A j \in DOMAIN jobs : j # active => jobs'[j] = jobs[j]
      /\ active # 0 => jobs'[active].cancelled
  <2>1. CASE active = 0
    BY <1>1, <1>2, <2>1
  <2>2. CASE active # 0
    <3>1. active \in DOMAIN jobs /\ jobs' = [jobs EXCEPT ![active].cancelled = TRUE] /\ TRUE \in BOOLEAN
      BY <1>1, <1>2, <2>2
    <3>2. \A j \in DOMAIN jobs : jobs[j] \in Works
      BY <1>2
    <3>3. /\ jobs'[active] = [jobs[active] EXCEPT !.cancelled = TRUE]
          /\ \A j \in DOMAIN jobs : j # active => jobs'[j] = jobs[j]
      BY <1>2, <3>1
    <3>4. /\ jobs'[active].cancelled /\ jobs'[active].over = jobs[active].over
          /\ jobs'[active].for = jobs[active].for
      BY <3>1, <3>2, <3>3, Zenon DEF Works
    <3>5. jobs' \in Seq(Works) /\ Len(jobs') = Len(jobs) /\ DOMAIN jobs' = DOMAIN jobs
      BY <1>2, <3>1, MarkedJob
    <3>. QED
      BY <3>3, <3>4, <3>5
  <2>. QED
    BY <2>1, <2>2
<1>4. DaemonTypes'
  <2>1. main' \in [at : Lives, prev : 0..MaxJobs, for : Requesters \cup {None}]
    BY <1>1 DEF DaemonTypes, D!DaemonAssumption, Lives
  <2>2. active' \in 0..Len(jobs')
    BY <1>1, <1>2, <1>3
  <2>. QED
    BY <1>1, <1>3, <2>1, <2>2 DEF DaemonTypes
<1>5. Newest'
  <2>1. ASSUME NEW j \in DOMAIN jobs, ~jobs'[j].over, ~D!IsDone(j)' PROVE FALSE
    <3>1. j # active
      BY <1>1, <1>2, <1>3, <2>1 DEF D!IsDone
    <3>2. ~jobs[j].over /\ ~D!IsDone(j)
      BY <1>1, <1>3, <2>1, <3>1 DEF D!IsDone
    <3>3. j = Len(jobs) /\ jobs # <<>>
      BY <1>1, <1>2, <3>2 DEF Newest, D!LatestOnly
    <3>. QED
      BY <3>1, <3>2, <3>3 DEF Newest
  <2>2. jobs' # <<>> => Len(jobs') \in DOMAIN jobs
    BY <1>2, <1>3
  <2>. QED
    BY <1>1, <1>3, <2>1, <2>2 DEF Newest, D!LatestOnly
<1>6. Once'
  <2>1. \A k \in Requesters : (HasJob(k)' <=> HasJob(k)) /\ (InChannel(k)' <=> InChannel(k))
    BY <1>1, <1>3 DEF HasJob, InChannel
  <2>2. \A k \in Requesters : \A i, j \in DOMAIN jobs' : jobs'[i].for = k /\ jobs'[j].for = k => i = j
    BY <1>3 DEF Once
  <2>. QED
    BY <1>1, <2>1, <2>2 DEF Once
<1>7. Ended'
  BY <1>1 DEF Ended, D!NothingLeft
<1>. QED
  BY <1>4, <1>5, <1>6, <1>7

LEMMA JobEndsStep ==
    ASSUME D!DaemonAssumption, DaemonInvariant, NEW i \in DOMAIN jobs, D!JobEnds(i)
    PROVE  DaemonInvariant'
<1>. USE DEF DaemonInvariant
<1>1. /\ ~jobs[i].over /\ ~(main.at = "starting" /\ i = Len(jobs))
      /\ UNCHANGED <<main, cancelled, listening, server, requests, failure, requester, answer>>
      /\ jobs' = [jobs EXCEPT ![i].over = TRUE] /\ active' = IF i = Len(jobs) THEN 0 ELSE active
  BY DEF D!JobEnds, D!serving
<1>2. jobs \in Seq(Works) /\ active \in 0..Len(jobs) /\ DOMAIN jobs = 1..Len(jobs) /\ Len(jobs) \in Nat
      /\ jobs # <<>> /\ Len(jobs) \in DOMAIN jobs
  BY DEF DaemonTypes
<1>3. /\ jobs' \in Seq(Works) /\ Len(jobs') = Len(jobs) /\ DOMAIN jobs' = DOMAIN jobs
      /\ \A j \in DOMAIN jobs : jobs'[j].for = jobs[j].for /\ (jobs[j].over => jobs'[j].over)
      /\ \A j \in DOMAIN jobs : j # i => jobs'[j] = jobs[j]
      /\ jobs'[i].over
  <2>1. jobs' = [jobs EXCEPT ![i].over = TRUE] /\ TRUE \in BOOLEAN
    BY <1>1
  <2>2. \A j \in DOMAIN jobs : jobs[j] \in Works
    BY <1>2
  <2>3. /\ jobs'[i] = [jobs[i] EXCEPT !.over = TRUE]
        /\ \A j \in DOMAIN jobs : j # i => jobs'[j] = jobs[j]
    BY <1>2, <2>1
  <2>4. jobs'[i].over /\ jobs'[i].for = jobs[i].for
    BY <2>1, <2>2, <2>3, Zenon DEF Works
  <2>5. jobs' \in Seq(Works) /\ Len(jobs') = Len(jobs) /\ DOMAIN jobs' = DOMAIN jobs
    BY <1>2, <2>1, MarkedJob
  <2>. QED
    BY <2>3, <2>4, <2>5
<1>4. DaemonTypes'
  BY <1>1, <1>2, <1>3 DEF DaemonTypes
<1>5. Newest'
  <2>1. ASSUME NEW j \in DOMAIN jobs, ~jobs'[j].over, ~D!IsDone(j)'
        PROVE  j # i /\ jobs'[j] = jobs[j] /\ ~jobs[j].over /\ ~D!IsDone(j)
    <3>1. j # i
      BY <1>3, <2>1
    <3>2. jobs'[j] = jobs[j]
      BY <1>3, <3>1
    <3>. QED
      BY <1>1, <2>1, <3>1, <3>2 DEF D!IsDone
  <2>2. D!LatestOnly'
    BY <1>1, <1>3, <2>1 DEF D!LatestOnly, Newest
  <2>3. ~jobs'[Len(jobs)].over /\ ~D!IsDone(Len(jobs))' => active' = Len(jobs)
    BY <1>1, <1>2, <2>1 DEF Newest
  <2>4. main.at = "starting" /\ main.for # None => jobs'[Len(jobs)].for = main.for
    BY <1>2, <1>3 DEF Newest
  <2>. QED
    BY <1>1, <1>2, <1>3, <2>2, <2>3, <2>4 DEF Newest
<1>6. Once'
  <2>1. \A k \in Requesters : (HasJob(k)' <=> HasJob(k)) /\ (InChannel(k)' <=> InChannel(k))
    BY <1>1, <1>3 DEF HasJob, InChannel
  <2>2. \A k \in Requesters : \A a, b \in DOMAIN jobs' : jobs'[a].for = k /\ jobs'[b].for = k => a = b
    BY <1>3 DEF Once
  <2>. QED
    BY <1>1, <2>1, <2>2 DEF Once
<1>7. Ended'
  <2>1. main.at = "gone" => \A j \in DOMAIN jobs' : jobs'[j].over
    BY <1>3 DEF Ended, D!NothingLeft
  <2>2. main.at \notin {"start", "preparing", "unwinding"}
    BY <1>2 DEF Ended
  <2>. QED
    BY <1>1, <2>1, <2>2 DEF Ended, D!NothingLeft
<1>. QED
  BY <1>4, <1>5, <1>6, <1>7

\* The steps of the socket's goroutine and of who asks, but the one that puts a
\* request in the channel.
LEMMA ServeStep ==
    ASSUME D!DaemonAssumption, DaemonInvariant, UNCHANGED <<main, cancelled, listening, requests, answer, jobs, active>>,
           \/ (\E c \in Requesters : D!Connect(c) \/ D!GivesUp(c) \/ D!Accept(c))
           \/ D!AcceptFails \/ D!Decode \/ D!Respond
    PROVE  DaemonInvariant'
<1>. USE DEF DaemonInvariant
<1>. DEFINE Known == {"away", "connected", "accepted", "rejected", "stopping", "left"}
<1>1. /\ failure' \in BOOLEAN /\ server' \in [at : Serving, of : Requesters \cup {None}]
      /\ server'.at \in {"decode", "send", "wait"} => server'.of \in Requesters
      /\ requester' \in [Requesters -> Known]
  <2>1. CASE \E c \in Requesters : D!Connect(c) \/ D!GivesUp(c)
    BY <2>1 DEF DaemonTypes, D!Connect, D!GivesUp, D!serving
  <2>2. CASE \E c \in Requesters : D!Accept(c)
    BY <2>2 DEF DaemonTypes, D!Accept, D!Serves, Serving
  <2>3. CASE D!AcceptFails
    BY <2>3 DEF DaemonTypes, D!AcceptFails, D!Serves, Serving
  <2>4. CASE D!Decode
    <3>1. server.at = "decode" /\ server.of \in Requesters /\ UNCHANGED failure
      BY <2>4 DEF DaemonTypes, D!Decode
    <3>2. CASE server' = D!Free /\ (requester' = requester \/ \E w \in Known : requester' = [requester EXCEPT ![server.of] = w])
      BY <3>1, <3>2 DEF DaemonTypes, D!Free, D!Serves, Serving
    <3>3. CASE server' = D!Serves("send", server.of) /\ UNCHANGED requester
      BY <3>1, <3>3 DEF DaemonTypes, D!Serves, Serving
    <3>. QED
      BY <2>4, <3>2, <3>3 DEF D!Decode, D!Tell
  <2>5. CASE D!Respond
    BY <2>5 DEF DaemonTypes, D!Respond, D!Tell, D!Free, D!Serves, Serving
  <2>. QED
    BY <2>1, <2>2, <2>3, <2>4, <2>5
<1>2. DaemonTypes'
  BY <1>1 DEF DaemonTypes
<1>3. Newest'
  BY DEF Newest, D!LatestOnly, D!IsDone
<1>4. Ended'
  <2>1. \/ UNCHANGED server
        \/ server.at \notin {"unborn", "over"}
    <3>1. (\E c \in Requesters : D!Connect(c) \/ D!GivesUp(c)) => UNCHANGED server
      BY DEF D!Connect, D!GivesUp, D!serving
    <3>2. (\E c \in Requesters : D!Accept(c)) \/ D!AcceptFails => server.at = "accept"
      <4>1. D!Free.at = "accept"
        BY DEF D!Free, D!Serves
      <4>2. (\E c \in Requesters : D!Accept(c)) \/ D!AcceptFails => server = D!Free
        BY DEF D!Accept, D!AcceptFails
      <4>. QED
        BY <4>1, <4>2
    <3>3. D!Decode \/ D!Respond => server.at \in {"decode", "wait"}
      BY DEF D!Decode, D!Respond
    <3>. QED
      BY <3>1, <3>2, <3>3
  <2>. QED
    BY <2>1 DEF Ended, D!NothingLeft
<1>5. Once'
  <2>1. \A k \in Requesters : (HasJob(k)' <=> HasJob(k)) /\ (InChannel(k)' <=> InChannel(k))
    BY DEF HasJob, InChannel
  <2>2. ASSUME NEW k \in Requesters,
               \/ requester'[k] = "away"
               \/ requester'[k] = "connected" /\ ~(server'.at = "wait" /\ server'.of = k)
               \/ server'.at \in {"decode", "send"} /\ server'.of = k
        PROVE  \/ requester[k] = "away"
               \/ requester[k] = "connected" /\ ~(server.at = "wait" /\ server.of = k)
               \/ server.at \in {"decode", "send"} /\ server.of = k
    <3>1. CASE \E c \in Requesters : D!Connect(c) \/ D!GivesUp(c)
      BY <2>2, <3>1 DEF DaemonTypes, D!Connect, D!GivesUp, D!serving
    <3>2. CASE \E c \in Requesters : D!Accept(c)
      BY <2>2, <3>2 DEF DaemonTypes, D!Accept, D!Serves, D!Free
    <3>3. CASE D!AcceptFails
      BY <2>2, <3>3 DEF DaemonTypes, D!AcceptFails, D!Serves, D!Free
    <3>4. CASE D!Decode
      BY <2>2, <3>4 DEF DaemonTypes, D!Decode, D!Tell, D!Free, D!Serves
    <3>5. CASE D!Respond
      BY <2>2, <3>5 DEF DaemonTypes, D!Respond, D!Tell, D!Free, D!Serves
    <3>. QED
      BY <3>1, <3>2, <3>3, <3>4, <3>5
  <2>3. ASSUME NEW k \in Requesters, requester'[k] = "accepted" PROVE requester[k] = "accepted" \/ answer[k] = "ok"
    <3>1. CASE \E c \in Requesters : D!Connect(c) \/ D!GivesUp(c)
      BY <2>3, <3>1 DEF DaemonTypes, D!Connect, D!GivesUp
    <3>2. CASE (\E c \in Requesters : D!Accept(c)) \/ D!AcceptFails
      BY <2>3, <3>2 DEF D!Accept, D!AcceptFails
    <3>3. CASE D!Decode \/ D!Respond
      BY <2>3, <3>3 DEF DaemonTypes, D!Decode, D!Respond, D!Tell
    <3>. QED
      BY <3>1, <3>2, <3>3
  <2>4. server'.at \in {"decode", "send", "wait"} => requester'[server'.of] # "away"
    <3>1. CASE \E c \in Requesters : D!Connect(c) \/ D!GivesUp(c)
      BY <3>1 DEF DaemonTypes, Once, D!Connect, D!GivesUp, D!serving
    <3>2. CASE \E c \in Requesters : D!Accept(c)
      BY <3>2 DEF D!Accept, D!Serves
    <3>3. CASE D!AcceptFails
      BY <3>3 DEF D!AcceptFails, D!Serves
    <3>4. CASE D!Decode
      BY <3>4 DEF Once, D!Decode, D!Tell, D!Free, D!Serves
    <3>5. CASE D!Respond
      BY <3>5 DEF D!Respond, D!Tell, D!Free, D!Serves
    <3>. QED
      BY <3>1, <3>2, <3>3, <3>4, <3>5
  <2>. QED
    BY <2>1, <2>2, <2>3, <2>4 DEF Once
<1>. QED
  BY <1>2, <1>3, <1>4, <1>5

LEMMA DispatchStep ==
    ASSUME D!DaemonAssumption, DaemonInvariant, D!Dispatch
    PROVE  DaemonInvariant'
<1>. USE DEF DaemonInvariant
<1>. DEFINE c == server.of
<1>1. /\ server.at = "send" /\ c \in Requesters /\ UNCHANGED <<main, cancelled, listening, answer, failure, jobs, active>>
      /\ ~InChannel(c) /\ ~HasJob(c)
  BY DEF D!Dispatch, DaemonTypes, Once
<1>2. DaemonTypes'
  <2>1. requests' \in Seq(Requesters)
    <3>1. requests' = requests \/ requests' = Append(requests, c)
      BY DEF D!Dispatch
    <3>2. requests \in Seq(Requesters) /\ c \in Requesters
      BY <1>1 DEF DaemonTypes
    <3>. HIDE DEF c, DaemonInvariant
    <3>. QED
      BY <3>1, <3>2
  <2>2. /\ server' \in [at : Serving, of : Requesters \cup {None}]
        /\ server'.at \in {"decode", "send", "wait"} => server'.of \in Requesters
    BY <1>1 DEF DaemonTypes, D!Dispatch, D!Tell, D!Free, D!Serves, Serving
  <2>3. requester' = requester \/ requester' = [requester EXCEPT ![c] = "stopping"]
    BY DEF D!Dispatch, D!Tell
  <2>4. requester' \in [Requesters -> {"away", "connected", "accepted", "rejected", "stopping", "left"}]
    BY <2>3 DEF DaemonTypes
  <2>. QED
    BY <1>1, <2>1, <2>2, <2>4 DEF DaemonTypes
<1>3. Newest' /\ Ended'
  BY <1>1 DEF D!Dispatch, D!Tell, D!Free, D!Serves, Newest, D!LatestOnly, D!IsDone, Ended, D!NothingLeft
<1>4. Once'
  <2>1. \A k \in Requesters : HasJob(k)' <=> HasJob(k)
    BY <1>1 DEF HasJob
  <2>2. CASE requests' = Append(requests, c) /\ server' = D!Serves("wait", c) /\ UNCHANGED requester
    <3>1. requests \in Seq(Requesters)
      BY DEF DaemonTypes
    <3>2. /\ DOMAIN requests' = DOMAIN requests \cup {Len(requests) + 1} /\ Len(requests) + 1 \notin DOMAIN requests
          /\ \A x \in DOMAIN requests : requests'[x] = requests[x]
          /\ requests'[Len(requests) + 1] = c
      BY <1>1, <2>2, <3>1
    <3>3. \A x, y \in DOMAIN requests' : requests'[x] = requests'[y] => x = y
      BY <1>1, <3>2 DEF Once, InChannel
    <3>4. \A k \in Requesters : InChannel(k)' <=> InChannel(k) \/ k = c
      <4>. SUFFICES ASSUME NEW k \in Requesters PROVE InChannel(k)' <=> InChannel(k) \/ k = c
        OBVIOUS
      <4>1. InChannel(k)' => InChannel(k) \/ k = c
        BY <3>2 DEF InChannel
      <4>2. InChannel(k) => InChannel(k)'
        BY <3>2 DEF InChannel
      <4>3. k = c => InChannel(k)'
        BY <3>2 DEF InChannel
      <4>. QED
        BY <4>1, <4>2, <4>3
    <3>5. server'.at = "wait" /\ server'.of = c
      BY <2>2 DEF D!Serves
    <3>6. requester[c] # "away"
      BY <1>1 DEF Once
    <3>. QED
      BY <1>1, <2>1, <2>2, <3>3, <3>4, <3>5, <3>6 DEF Once
  <2>3. CASE cancelled /\ D!Tell(c, "stopping") /\ UNCHANGED requests
    <3>1. \A k \in Requesters : InChannel(k)' <=> InChannel(k)
      BY <2>3 DEF InChannel
    <3>2. /\ server'.at = "accept" /\ \A k \in Requesters : requester'[k] = requester[k] \/ requester'[k] = "stopping"
          /\ requester'[c] # "connected"
      BY <1>1, <2>3 DEF DaemonTypes, D!Tell, D!Free, D!Serves
    <3>. QED
      BY <1>1, <2>1, <2>3, <3>1, <3>2 DEF Once
  <2>. QED
    BY <2>2, <2>3 DEF D!Dispatch
<1>. QED
  BY <1>2, <1>3, <1>4

LEMMA DaemonInvariantNext ==
    ASSUME D!DaemonAssumption, DaemonInvariant, [D!DaemonNext]_daemonVars
    PROVE  DaemonInvariant'
<1>1. CASE D!MainSteps
  BY <1>1, MainStep, JobStartedStep, CancelActiveStep DEF D!MainSteps, D!MustShutDown
<1>2. CASE D!Trigger \/ D!TakeDispatch
  BY <1>2, StartStep
<1>3. CASE D!ContextEnds \/ D!ShutDown
  BY <1>3, MainStep
<1>4. CASE D!ServerSteps \/ D!AcceptFails
  <2>1. CASE D!Dispatch
    BY <2>1, DispatchStep
  <2>2. CASE D!Decode \/ D!Respond \/ D!AcceptFails
    <3>1. UNCHANGED <<main, cancelled, listening, requests, answer, jobs, active>>
      BY <2>2 DEF D!Decode, D!Respond, D!AcceptFails
    <3>. QED
      BY <2>2, <3>1, ServeStep
  <2>. QED
    BY <1>4, <2>1, <2>2 DEF D!ServerSteps, D!MustLeave
<1>5. ASSUME NEW c \in Requesters, D!Connect(c) \/ D!GivesUp(c) \/ D!Accept(c) PROVE DaemonInvariant'
  <2>1. UNCHANGED <<main, cancelled, listening, requests, answer, jobs, active>>
    BY <1>5 DEF D!Connect, D!GivesUp, D!Accept, D!serving
  <2>. QED
    BY <1>5, <2>1, ServeStep
<1>6. ASSUME NEW i \in DOMAIN jobs, D!JobEnds(i) PROVE DaemonInvariant'
  BY <1>6, JobEndsStep
<1>7. CASE UNCHANGED daemonVars
  BY <1>7 DEF daemonVars, DaemonInvariant, DaemonTypes, Newest, Once, Ended, D!LatestOnly, D!IsDone, D!NothingLeft,
              InChannel, HasJob
<1>. QED
  BY <1>1, <1>2, <1>3, <1>4, <1>5, <1>6, <1>7 DEF D!DaemonNext

-----------------------------------------------------------------------------
\* The parts together: each step is of one, and leaves the others alone.

ServersInvariant == McpInvariant /\ DaemonInvariant

LEMMA ServersInvariantAlways == ClosingSpec => []ServersInvariant
<1>. DEFINE Steps == KeeperPart \/ RelayPart \/ McpPart \/ DaemonPart \/ ComesToRest
<1>1. ClosingInit => ServersInvariant
  BY ClosingAssumption, McpInvariantInit, DaemonInvariantInit DEF ClosingInit, ServersInvariant
<1>2. ServersInvariant /\ [Steps]_allVars => ServersInvariant'
  <2>. SUFFICES ASSUME ServersInvariant, [Steps]_allVars PROVE ServersInvariant'
    OBVIOUS
  <2>1. [M!McpNext]_mcpVars
    BY DEF KeeperPart, RelayPart, McpPart, DaemonPart, ComesToRest, allVars
  <2>2. [D!DaemonNext]_daemonVars
    BY DEF KeeperPart, RelayPart, McpPart, DaemonPart, ComesToRest, allVars
  <2>. QED
    BY <2>1, <2>2, ClosingAssumption, McpInvariantNext, DaemonInvariantNext DEF ServersInvariant
<1>. QED
  BY <1>1, <1>2, PTL DEF ClosingSpec

\* A caller that is answered has the answer to its own request, from a process
\* of the configuration it read, unless the process wrote what nobody had asked
\* for; no process that nobody holds is left running (getClient, CallTool,
\* CloseClient).  Of the daemon's jobs only the latest is not cancelled, a
\* request that was accepted has its job, one only, and when the daemon has
\* returned neither a job nor its socket's goroutine is left.
THEOREM ServersHold == ClosingSpec => []ServersInv
<1>1. ServersInvariant => ServersInv
  BY ClosingAssumption, McpInvariantImplies, DaemonInvariantImplies DEF ServersInvariant, ServersInv
<1>. QED
  BY <1>1, ServersInvariantAlways, PTL
=============================================================================

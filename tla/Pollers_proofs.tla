---------------------------- MODULE Pollers_proofs ----------------------------
(***************************************************************************)
(* The loops of Pollers, for any number of sources, runners and threads.   *)
(***************************************************************************)
EXTENDS Pollers, TLAPS

\* Who holds the lock, and what the runners it replaces are.
Locking ==
    /\ \A t \in Threads : mutex = t <=> call[t] \in {"replace", "install"}
    /\ \A t \in Threads, r \in Runners :
          /\ call[t] = "replace" =>
                (r \in victims[t] <=> running[arg[t]] = r /\ Launched(r))
          /\ call[t] = "install" /\ running[arg[t]] = r => ~Alive(r)

\* What a runner that is registered is.
Registration ==
    /\ \A s \in Sources, r \in Runners : running[s] = r =>
          /\ source[r] = s
          /\ ~started => ~Launched(r)
          /\ ~Launched(r) => r \notin ended
    /\ started => \A s \in Sources, r \in Runners :
          running[s] = r => Replacing(s) \/ (Alive(r) /\ r \notin ended)

\* What a call holds: a loop it has cancelled, or is about to.
Victims ==
    \A t \in Threads, r \in Runners : r \in victims[t] =>
        /\ call[t] \in {"replace", "cancel", "wait"} /\ Launched(r)
        /\ call[t] \in {"replace", "wait"} => r \in ended
        /\ call[t] \in {"cancel", "wait"} => \A s \in Sources : running[s] # r

Halted == ~started => \A r \in Runners : Alive(r) => r \in ended

PollersIInv ==
    /\ PollersTypeOK
    /\ Locking
    /\ Registration
    /\ Victims
    /\ Halted
    /\ OneLiveLoop
    /\ NoOrphanLoop

LEMMA PollersInit == Init => PollersIInv
  BY RunnersAssumption, ThreadsAssumption
     DEF Init, PollersIInv, PollersTypeOK, Locking, Registration, Victims, Halted,
         OneLiveLoop, NoOrphanLoop, Alive, Launched

LEMMA PollersLoopStep ==
  ASSUME PollersIInv, NEW r \in Runners, LoopRuns(r) \/ Leave(r)
  PROVE  PollersIInv'
  <1> USE DEF PollersIInv, LoopGoes, LoopKeeps, manager, calls
  <1>0. /\ Alive(r)
        /\ UNCHANGED <<mutex, started, running, wanted, source, ended, call, arg, victims, dbUp>>
        /\ \E x \in {"poll", "run", "record", "retry", "tick", "done"} :
              loop' = [loop EXCEPT ![r] = x] /\ (x = "done" => r \in ended)
    BY DEF LoopRuns, Leave, BeginCycle, PollSucceeds, PollFails, Record, TimerFires, Alive
  <1>1. PollersTypeOK'
    BY <1>0 DEF PollersTypeOK
  <1>2. Locking'
    BY <1>0 DEF PollersTypeOK, Locking, Alive, Launched
  <1>3. Registration'
    <2>1. \A s \in Sources : Replacing(s)' <=> Replacing(s)
      BY <1>0 DEF Replacing
    <2>2. \A x \in Runners : loop'[x] # loop[x] =>
             x = r /\ Launched(x) /\ Launched(x)' /\ (Alive(x)' \/ x \in ended)
      BY <1>0 DEF PollersTypeOK, Launched, Alive
    <2> QED BY <1>0, <2>1, <2>2 DEF Registration, Launched, Alive
  <1>4. Victims'
    BY <1>0 DEF PollersTypeOK, Victims, Alive, Launched
  <1>5. Halted'
    BY <1>0 DEF PollersTypeOK, Halted, Alive
  <1>6. OneLiveLoop' /\ NoOrphanLoop'
    BY <1>0 DEF PollersTypeOK, OneLiveLoop, NoOrphanLoop, Alive, Cancelling
  <1> QED BY <1>1, <1>2, <1>3, <1>4, <1>5, <1>6

\* A step that leaves the runners alone keeps what only speaks of them.
LEMMA PollersCallStep ==
  ASSUME PollersIInv, NEW t \in Threads,
         \/ \E s \in Sources : CallRegister(t, s) \/ RescheduleRead(t, s)
         \/ RegisterEnter(t) \/ OldStopped(t) \/ DeregisterCancel(t) \/ StoppedAll(t)
  PROVE  PollersIInv'
  <1> USE RunnersAssumption, ThreadsAssumption DEF PollersIInv, CallGoes, manager, PollersTypeOK
  <1>1. CASE \E s \in Sources : CallRegister(t, s) \/ RescheduleRead(t, s)
    BY <1>1 DEF CallRegister, RescheduleRead, Locking, Registration, Victims, Halted,
       OneLiveLoop, NoOrphanLoop, Alive, Launched, Cancelling, Replacing
  <1>2. CASE RegisterEnter(t)
    BY <1>2 DEF RegisterEnter, Locking, Registration, Victims, Halted,
       OneLiveLoop, NoOrphanLoop, Alive, Launched, Cancelling, Replacing
  <1>3. CASE OldStopped(t)
    BY <1>3 DEF OldStopped, Locking, Registration, Victims, Halted,
       OneLiveLoop, NoOrphanLoop, Alive, Launched, Cancelling, Replacing
  <1>4. CASE DeregisterCancel(t)
    BY <1>4 DEF DeregisterCancel, Locking, Registration, Victims, Halted,
       OneLiveLoop, NoOrphanLoop, Alive, Launched, Cancelling, Replacing
  <1>5. CASE StoppedAll(t)
    BY <1>5 DEF StoppedAll, Locking, Registration, Victims, Halted,
       OneLiveLoop, NoOrphanLoop, Alive, Launched, Cancelling, Replacing
  <1> QED BY <1>1, <1>2, <1>3, <1>4, <1>5

LEMMA PollersInstall ==
  ASSUME PollersIInv, NEW t \in Threads, NEW r \in Runners, Install(t, r)
  PROVE  PollersIInv'
  <1> USE RunnersAssumption, ThreadsAssumption DEF PollersIInv, Install, CallGoes, PollersTypeOK
  <1>1. PollersTypeOK'
    OBVIOUS
  <1>2. Locking'
    BY DEF Locking, Fresh, Alive, Launched
  <1>3. Registration' /\ Halted'
    <2>1. \A s \in Sources : s # arg[t] => ~Replacing(s)
      BY DEF Locking, Replacing
    <2>2. \A s \in Sources, x \in Runners : running'[s] = x =>
             (x = r /\ s = arg[t]) \/ (x # r /\ s # arg[t] /\ running[s] = x)
      BY DEF Fresh
    <2>3. Registration'
      BY <2>1, <2>2 DEF Registration, Alive, Launched
    <2> QED BY <2>3 DEF Halted, Alive
  <1>4. Victims'
    BY DEF Victims, Fresh, Alive, Launched
  <1>5. OneLiveLoop' /\ NoOrphanLoop'
    BY DEF Locking, OneLiveLoop, NoOrphanLoop, Fresh, Alive, Launched, Cancelling
  <1> QED BY <1>1, <1>2, <1>3, <1>4, <1>5

LEMMA PollersStop ==
  ASSUME PollersIInv, NEW t \in Threads, Stop(t)
  PROVE  PollersIInv'
  <1> USE RunnersAssumption, ThreadsAssumption
      DEF PollersIInv, Stop, CallGoes, PollersTypeOK
  <1>1. PollersTypeOK'
    OBVIOUS
  <1>2. Locking'
    BY DEF Locking, Registration, Launched, Alive
  <1>3. Registration' /\ Halted'
    BY DEF Locking, Registration, Halted, Alive, Launched, Replacing
  <1>4. Victims'
    BY DEF Victims, Registration, Halted, Launched, Alive, Replacing
  <1>5. OneLiveLoop'
    BY DEF Registration, Halted, OneLiveLoop, Alive, Launched, Cancelling
  <1>6. NoOrphanLoop'
    BY DEF Registration, Victims, NoOrphanLoop, Alive, Launched
  <1> HIDE DEF Stop, PollersTypeOK
  <1> QED BY <1>1, <1>2, <1>3, <1>4, <1>5, <1>6

LEMMA PollersRemove ==
  ASSUME PollersIInv, NEW t \in Threads, NEW s \in Sources, DeregisterRemove(t, s)
  PROVE  PollersIInv'
  <1> USE RunnersAssumption, ThreadsAssumption
      DEF PollersIInv, DeregisterRemove, CallGoes, PollersTypeOK
  <1>1. PollersTypeOK'
    OBVIOUS
  <1>2. Locking'
    BY DEF Locking, Launched, Alive
  <1>3. Registration' /\ Halted'
    BY DEF Locking, Registration, Halted, Alive, Launched, Replacing
  <1>4. Victims'
    BY DEF Victims, Registration, Launched
  <1>5. OneLiveLoop' /\ NoOrphanLoop'
    <2>1. \A x \in Runners : running[source[x]] = x =>
             x = running[s] \/ running'[source[x]] = x
      BY DEF Registration
    <2>2. \A x \in Runners : x = running[s] /\ Alive(x) => x \in victims'[t] /\ Cancelling(x)'
      BY DEF Alive, Launched, Cancelling
    <2>3. \A x \in Runners : Alive(x)' <=> Alive(x)
      BY DEF Alive
    <2>4. \A x \in Runners, u \in Threads : x \in victims[u] => x \in victims'[u]
      BY DEF Victims
    <2>5. \A x \in Runners : Cancelling(x) => Cancelling(x)'
      BY <2>4 DEF Cancelling
    <2> QED BY <2>1, <2>2, <2>3, <2>4, <2>5 DEF OneLiveLoop, NoOrphanLoop
  <1> QED BY <1>1, <1>2, <1>3, <1>4, <1>5

LEMMA PollersStart ==
  ASSUME PollersIInv, Start
  PROVE  PollersIInv'
  <1> USE RunnersAssumption, ThreadsAssumption
      DEF PollersIInv, Start, calls, PollersTypeOK
  <1>1. PollersTypeOK'
    OBVIOUS
  <1>2. Locking'
    BY DEF Locking, Registration, Launched, Alive
  <1>3. Registration' /\ Halted'
    BY DEF Locking, Registration, Halted, Alive, Launched, Replacing
  <1>4. Victims'
    BY DEF Victims, Registration, Halted, Launched, Alive
  <1>5. OneLiveLoop'
    BY DEF Registration, Halted, OneLiveLoop, Alive, Launched, Cancelling
  <1>6. NoOrphanLoop'
    BY DEF Registration, Victims, NoOrphanLoop, Alive, Launched
  <1> HIDE DEF Start, PollersTypeOK
  <1> QED BY <1>1, <1>2, <1>3, <1>4, <1>5, <1>6

LEMMA PollersQuiet ==
  ASSUME PollersIInv, DatabaseTurns \/ UNCHANGED vars
  PROVE  PollersIInv'
  <1>1. UNCHANGED <<mutex, started, running, source, loop, ended, call, arg, victims, wanted>>
        /\ dbUp' \in BOOLEAN
    BY DEF DatabaseTurns, vars, manager, calls, PollersIInv, PollersTypeOK
  <1>2. PollersTypeOK'
    BY <1>1 DEF PollersIInv, PollersTypeOK
  <1>3. Locking' /\ Registration' /\ Victims' /\ Halted'
    BY <1>1 DEF PollersIInv, Locking, Registration, Victims, Halted, Alive, Launched, Replacing
  <1>4. OneLiveLoop' /\ NoOrphanLoop'
    BY <1>1 DEF PollersIInv, OneLiveLoop, NoOrphanLoop, Alive, Cancelling
  <1> QED BY <1>2, <1>3, <1>4 DEF PollersIInv

LEMMA OverlapFollows == PollersIInv => OverlapOnlyWhileLeaving
  <1> SUFFICES ASSUME PollersIInv, NEW s \in Sources,
                      NEW r1 \in Polling(s), NEW r2 \in Polling(s), r1 # r2
               PROVE  \E t \in Threads, r \in {r1, r2} :
                         call[t] \in {"cancel", "wait"} /\ r \in victims[t]
    BY DEF OverlapOnlyWhileLeaving
  <1>1. r1 \in Runners /\ r2 \in Runners /\ Alive(r1) /\ Alive(r2)
        /\ source[r1] = s /\ source[r2] = s
    BY DEF Polling, Alive
  <1>2. PICK r \in {r1, r2} : running[s] # r
    OBVIOUS
  <1>3. PICK t \in Threads : r \in victims[t]
    BY <1>1, <1>2 DEF PollersIInv, NoOrphanLoop
  <1>4. call[t] # "replace"
    BY <1>1, <1>2, <1>3 DEF PollersIInv, Locking, Registration, PollersTypeOK
  <1> QED BY <1>1, <1>3, <1>4 DEF PollersIInv, Victims

\* A started source has its loop, and two things never happen whatever the
\* interleaving of the manager's calls: two live loops on one source, and a
\* loop that no call is waiting for and no source is registered with
\* (Register, Deregister, Stop, Start).
THEOREM PollersHold ==
  Spec => []PollersInv
  <1>1. PollersIInv /\ [Next]_vars => PollersIInv'
    BY PollersLoopStep, PollersCallStep, PollersInstall, PollersStop, PollersRemove,
       PollersStart, PollersQuiet DEF Next, CallBegins, CallProceeds
  <1>2. PollersIInv => PollersInv
    BY OverlapFollows
    DEF PollersIInv, PollersInv, PollersTypeOK, Registration, Halted, RegisteredRuns
  <1> QED BY PollersInit, <1>1, <1>2, PTL DEF Spec
=============================================================================

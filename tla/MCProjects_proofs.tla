-------------------------- MODULE MCProjects_proofs --------------------------
(***************************************************************************)
(* The three parts of MCProjects for any agents, rooms, runs and waits:    *)
(* no wake is lost, no run's failure counts twice and no other client's    *)
(* edit is overwritten, and the mentions of a body are those of its names. *)
(***************************************************************************)
EXTENDS MCProjects, FiniteSetTheorems, TLAPS

-----------------------------------------------------------------------------
(***************************************************************************)
(* Waits.  NoLostWake becomes inductive once no wait has read a generation *)
(* ahead of the current one: then the wake of the handler that wrote       *)
(* reaches every wait that is parked.  No handler fails between its write  *)
(* and its wake.                                                           *)
(***************************************************************************)
GenerationsBehind == \A w \in Waiters : parkedOn[w] <= gen
WInv == WakeWaitTypeOK /\ NoLostWake /\ GenerationsBehind

\* Before the first call nothing is parked.
LEMMA WInvInit == ASSUME Init PROVE WInv
BY GenerationAssumption DEF Init, WInv, WakeWaitTypeOK, NoLostWake, GenerationsBehind

\* A handler that has not written yet, or has woken, leaves no wake pending
\* that was: only its own wake ends what its write began.
LEMMA HandlerWInv ==
    ASSUME WInv, NEW h \in Handlers, HandlerNext(h)
    PROVE  WInv'
<1>. USE DEF WInv, WakeWaitTypeOK, GenerationsBehind, HandlerGoes, tables, waits
<1>1. CASE Lock(h)
  BY <1>1 DEF Lock, NoLostWake, WakePending, Ready
<1>2. ASSUME NEW ins \in SUBSET Waiters, NEW jobs \in SUBSET Waiters,
             Write(h, ins, jobs)
      PROVE  WInv'
  <2>1. handler'[h] = "wrote"
    BY <1>2 DEF Write
  <2>2. WakePending'
    BY <2>1 DEF WakePending
  <2>3. WakeWaitTypeOK' /\ GenerationsBehind'
    BY <1>2 DEF Write
  <2>. QED
    BY <2>2, <2>3 DEF NoLostWake
<1>3. ASSUME NEW ins \in SUBSET Waiters, NEW jobs \in SUBSET Waiters,
             QuietWrite(h, ins, jobs)
      PROVE  WInv'
  <2>1. WakeWaitTypeOK' /\ GenerationsBehind'
    BY <1>3 DEF QuietWrite
  <2>2. WakePending => WakePending'
    BY <1>3 DEF QuietWrite, WakePending
  <2>3. \A w \in Waiters : Ready(w)' => Ready(w)
    BY <1>3 DEF QuietWrite, Ready
  <2>. QED
    BY <1>3, <2>1, <2>2, <2>3 DEF QuietWrite, NoLostWake
<1>4. CASE Wake(h)
  <2>1. WakeWaitTypeOK' /\ GenerationsBehind'
    BY <1>4 DEF Wake
  <2>2. \A w \in Waiters : parkedOn'[w] < gen'
    BY <1>4 DEF Wake
  <2>. QED
    BY <2>1, <2>2 DEF NoLostWake
<1>5. CASE Unlock(h)
  <2>1. WakeWaitTypeOK' /\ GenerationsBehind'
    BY <1>5 DEF Unlock
  <2>2. WakePending => WakePending'
    BY <1>5 DEF Unlock, WakePending
  <2>. QED
    BY <1>5, <2>1, <2>2 DEF Unlock, NoLostWake, Ready
<1>. QED
  BY <1>1, <1>2, <1>3, <1>4, <1>5 DEF HandlerNext

\* A wait parks only where its check has just found nothing.
LEMMA WaitWInv ==
    ASSUME WInv, NEW w \in Waiters, WaitNext(w)
    PROVE  WInv'
<1>. USE DEF WInv, WakeWaitTypeOK, GenerationsBehind, WaitGoes, tables
<1>1. \A v \in Waiters : Ready(v)' <=> Ready(v)
  BY DEF WaitNext, WaitRuns, Call, ReadGeneration, ReadRow, ReadQueue, Woken,
         GiveUp, Ready
<1>2. WakePending' <=> WakePending
  BY DEF WaitNext, WaitRuns, Call, ReadGeneration, ReadRow, ReadQueue, Woken,
         GiveUp, WakePending
<1>3. WakeWaitTypeOK' /\ GenerationsBehind'
  BY DEF WaitNext, WaitRuns, Call, ReadGeneration, ReadRow, ReadQueue, Woken,
         GiveUp
<1>4. CASE ReadGeneration(w)
  BY <1>1, <1>2, <1>3, <1>4 DEF ReadGeneration, NoLostWake
<1>5. CASE ReadRow(w) \/ ReadQueue(w)
  BY <1>1, <1>2, <1>3, <1>5 DEF ReadRow, ReadQueue, NoLostWake, Ready
<1>6. CASE Call(w) \/ Woken(w) \/ GiveUp(w)
  BY <1>1, <1>2, <1>3, <1>6 DEF Call, Woken, GiveUp, NoLostWake
<1>. QED
  BY <1>4, <1>5, <1>6 DEF WaitNext, WaitRuns

\* Wherever the steps of waits and handlers interleave, a parked wait whose
\* worker has a job is on a closed channel or its wake is about to come
\* (queue.go, Wait).
THEOREM NoWakeIsLost == Spec => []NoLostWake
<1>1. Init => WInv
  BY WInvInit
<1>2. WInv /\ [Next]_vars => WInv'
  <2>. SUFFICES ASSUME WInv, [Next]_vars PROVE WInv'
    OBVIOUS
  <2>1. CASE Next
    BY <2>1, HandlerWInv, WaitWInv DEF Next
  <2>2. CASE UNCHANGED vars
    BY <2>2 DEF vars, WInv, WakeWaitTypeOK, NoLostWake, GenerationsBehind,
                WakePending, Ready
  <2>. QED
    BY <2>1, <2>2
<1>3. WInv => NoLostWake
  BY DEF WInv
<1>. QED
  BY <1>1, <1>2, <1>3, PTL DEF Spec

-----------------------------------------------------------------------------
(***************************************************************************)
(* Run records.  A save goes through only on the row its handler has read; *)
(* that makes "what was read is what is there, or its revision is behind"  *)
(* the heart of the invariant.  A failed run is on the item, or on its way *)
(* there once, or given up.                                                *)
(***************************************************************************)
\* RunRecords' finite sets are the library's.
LEMMA SameFiniteSets ==
    /\ \A S : R!IsFiniteSet(S) <=> IsFiniteSet(S)
    /\ \A S : R!Cardinality(S) = Cardinality(S)
<1>1. \A S : R!IsFiniteSet(S) <=> IsFiniteSet(S)
  BY DEF R!IsFiniteSet, IsFiniteSet
<1>2. \A S : R!Cardinality(S) = Cardinality(S)
  BY DEF R!Cardinality, Cardinality
<1>. QED
  BY <1>1, <1>2

\* The runs are finitely many.
LEMMA FiniteRuns ==
    ASSUME R!RunRecordsAssumption PROVE IsFiniteSet(Runs) /\ Cardinality(Runs) \in Nat
<1>1. IsFiniteSet(Runs)
  BY SameFiniteSets DEF R!RunRecordsAssumption
<1>. QED
  BY <1>1, FS_CardinalityType

\* Runs that are finished, and the failed ones in a sequence of outcomes.
FinishedRuns == {r \in Runs : run[r] # "running"}
Failed(s) == {i \in 1..Len(s) : s[i] = "failed"}

\* One more outcome is one more failure, or none.
LEMMA FailedAppend ==
    ASSUME NEW s \in Seq(R!Outcomes), NEW o \in R!Outcomes
    PROVE  /\ IsFiniteSet(Failed(s)) /\ Cardinality(Failed(s)) \in 0..Len(s)
           /\ Cardinality(Failed(Append(s, o)))
                = Cardinality(Failed(s)) + (IF o = "failed" THEN 1 ELSE 0)
<1>0. Len(s) \in Nat
  OBVIOUS
<1>1. IsFiniteSet(1..Len(s)) /\ Cardinality(1..Len(s)) = Len(s)
  BY <1>0, FS_Interval
<1>2. IsFiniteSet(Failed(s)) /\ Cardinality(Failed(s)) <= Len(s)
  BY <1>1, FS_Subset DEF Failed
<1>3. Cardinality(Failed(s)) \in Nat
  BY <1>2, FS_CardinalityType
<1>4. Failed(Append(s, o)) = IF o = "failed" THEN Failed(s) \cup {Len(s) + 1} ELSE Failed(s)
  BY DEF Failed
<1>5. Len(s) + 1 \notin Failed(s)
  BY DEF Failed
<1>6. Cardinality(Failed(s) \cup {Len(s) + 1}) = Cardinality(Failed(s)) + 1
  BY <1>2, <1>5, FS_AddElement
<1>. QED
  BY <1>0, <1>2, <1>3, <1>4, <1>6

\* A run that gets its outcome is one more.
LEMMA FinishedGrows ==
    ASSUME R!RunRecordsAssumption, NEW r \in Runs, NEW o \in R!Outcomes,
           run \in [Runs -> R!Outcomes \cup {"running"}], run[r] = "running",
           run' = [run EXCEPT ![r] = o]
    PROVE  Cardinality(FinishedRuns') = Cardinality(FinishedRuns) + 1
<1>1. IsFiniteSet(FinishedRuns)
  BY FS_Subset, FiniteRuns DEF FinishedRuns
<1>2. FinishedRuns' = FinishedRuns \cup {r} /\ r \notin FinishedRuns
  BY DEF FinishedRuns, R!Outcomes
<1>. QED
  BY <1>1, <1>2, FS_AddElement

\* A failure whose run is saved and which is not on the item yet.
Pending == at \in {"note", "save"} /\ mu \in Runs /\ run[mu] = "failed"

\* What the handler that holds the mutex has read is the item as it is now,
\* unless another client has moved its revision on.
SnapshotIsBehind ==
    /\ snapshot.revision <= item.revision
    /\ snapshot.revision = item.revision => snapshot = item

ItemRows == [failures : Nat, held : BOOLEAN, revision : Nat, text : 0..MaxEdits]

RunsInvariant ==
    /\ R!RunRecordsTypeOK /\ R!EditStays /\ SnapshotIsBehind
    /\ item.revision >= 1 /\ edits \in 0..MaxEdits
    /\ snapshot \in ItemRows
    /\ finished \in Seq(R!Outcomes) /\ Len(finished) = Cardinality(FinishedRuns)
    /\ at = "free" <=> mu = Nobody
    /\ at = "note" => mu \in Runs
    /\ mu \in Runs => run[mu] # "running"
    /\ item.failures + (IF Pending THEN 1 ELSE 0) <= Cardinality(Failed(finished))

\* The count of an item is at most that of the failed runs, so at most that of
\* all of them.
LEMMA CountIsBounded ==
    ASSUME R!RunRecordsAssumption, run \in [Runs -> R!Outcomes \cup {"running"}],
           finished \in Seq(R!Outcomes), Len(finished) = Cardinality(FinishedRuns)
    PROVE  /\ Cardinality(Failed(finished)) \in 0..Cardinality(Runs)
           /\ Len(finished) \in 0..Cardinality(Runs) /\ Cardinality(Runs) \in Nat
<1>1. Cardinality(FinishedRuns) <= Cardinality(Runs)
  BY FS_Subset, FiniteRuns DEF FinishedRuns
<1>2. Cardinality(Runs) \in Nat
  BY FiniteRuns
<1>3. "failed" \in R!Outcomes
  BY DEF R!Outcomes
<1>4. Cardinality(Failed(finished)) \in 0..Len(finished)
  BY <1>3, FailedAppend
<1>. QED
  BY <1>1, <1>2, <1>4

\* At the start nothing is finished.
LEMMA RunsInvariantInit == ASSUME R!RunRecordsAssumption, R!Init PROVE RunsInvariant
<1>1. FinishedRuns = {} /\ Failed(finished) = {}
  BY DEF R!Init, FinishedRuns, Failed
<1>2. Cardinality(FinishedRuns) = 0 /\ Cardinality(Failed(finished)) = 0
  BY <1>1, FS_EmptySet
<1>3. finished \in Seq(R!Outcomes) /\ Len(finished) = 0
  BY DEF R!Init
<1>4. Cardinality(Runs) \in Nat
  BY FiniteRuns
<1>. QED
  BY SameFiniteSets, <1>2, <1>3, <1>4 DEF R!Init, RunsInvariant, R!RunRecordsTypeOK, R!EditStays, SnapshotIsBehind,
                         Pending, R!Fresh, ItemRows, R!RunRecordsAssumption

\* Reports are counted up to their bound.
LEMMA ReportsType ==
    ASSUME R!RunRecordsAssumption, reports \in [Runs -> 0..MaxReports], NEW r \in Runs,
           reports[r] < MaxReports, reports' = [reports EXCEPT ![r] = @ + 1]
    PROVE  reports' \in [Runs -> 0..MaxReports]
<1>1. reports[r] + 1 \in 0..MaxReports
  BY DEF R!RunRecordsAssumption
<1>. QED
  BY <1>1

\* The report of a run that is not finished yet.
LEMMA FinishRunStep ==
    ASSUME R!RunRecordsAssumption, RunsInvariant, NEW r \in Runs, NEW o \in R!Outcomes,
           R!FinishRun(r, o)
    PROVE  RunsInvariant'
<1>. USE DEF RunsInvariant, R!RunRecordsTypeOK, R!EditStays, SnapshotIsBehind, R!FinishRun
<1>1. CASE UNCHANGED <<run, finished, mu, at>>
  <2>1. Pending' <=> Pending
    BY <1>1 DEF Pending
  <2>2. FinishedRuns' = FinishedRuns
    BY <1>1 DEF FinishedRuns
  <2>3. R!RunRecordsTypeOK' /\ R!EditStays' /\ SnapshotIsBehind'
    BY <1>1, ReportsType
  <2>. QED
    BY <1>1, <2>1, <2>2, <2>3
<1>2. CASE /\ run[r] = "running" /\ run' = [run EXCEPT ![r] = o]
           /\ finished' = Append(finished, o)
           /\ mu' = r /\ at' = "note"
  <2>1. finished' \in Seq(R!Outcomes) /\ Len(finished') = Len(finished) + 1
    BY <1>2
  <2>2. Len(finished') = Cardinality(FinishedRuns')
    BY <1>2, <2>1, FinishedGrows
  <2>3. run' \in [Runs -> R!Outcomes \cup {"running"}] /\ run'[r] = o /\ o # "running"
    BY <1>2 DEF R!Outcomes
  <2>4. Len(finished') \in 0..Cardinality(Runs)
    <3>1. IsFiniteSet(FinishedRuns') /\ Cardinality(FinishedRuns') <= Cardinality(Runs)
      BY FS_Subset, FiniteRuns DEF FinishedRuns
    <3>2. Cardinality(Runs) \in Nat
      BY FiniteRuns
    <3>. QED
      BY <2>1, <2>2, <3>1, <3>2
  <2>5. /\ Cardinality(Failed(finished)) \in Nat
        /\ Cardinality(Failed(finished'))
             = Cardinality(Failed(finished)) + (IF o = "failed" THEN 1 ELSE 0)
    BY <1>2, FailedAppend
  <2>6. ~Pending /\ (Pending' <=> o = "failed")
    BY <1>2, <2>3 DEF Pending, R!RunRecordsAssumption
  <2>7. item'.failures + (IF Pending' THEN 1 ELSE 0) <= Cardinality(Failed(finished'))
    BY <2>5, <2>6
  <2>8. R!RunRecordsTypeOK'
    <3>1. mu' \in Runs /\ at' = "note"
      BY <1>2
    <3>2. reports' \in [Runs -> 0..MaxReports]
      BY ReportsType
    <3>. QED
      BY <2>3, <2>4, <3>1, <3>2, SameFiniteSets
  <2>. QED
    BY <1>2, <2>1, <2>2, <2>3, <2>7, <2>8 DEF R!RunRecordsAssumption
<1>. QED
  BY <1>1, <1>2 DEF R!Mishap

\* A row with some of its fields changed is a row.
LEMMA ChangedRow ==
    ASSUME NEW i \in ItemRows, NEW f \in Nat, NEW h \in BOOLEAN
    PROVE  /\ [i EXCEPT !.failures = f, !.held = h] \in ItemRows
           /\ \A v \in Nat : [i EXCEPT !.held = h, !.failures = f, !.revision = v] \in ItemRows
           /\ \A v \in Nat, t \in 0..MaxEdits : [i EXCEPT !.text = t, !.revision = v] \in ItemRows
<1>1. [i EXCEPT !.failures = f, !.held = h] \in ItemRows
  BY Zenon DEF ItemRows
<1>2. \A v \in Nat : [i EXCEPT !.held = h, !.failures = f, !.revision = v] \in ItemRows
  BY Zenon DEF ItemRows
<1>3. \A v \in Nat, t \in 0..MaxEdits : [i EXCEPT !.text = t, !.revision = v] \in ItemRows
  BY Zenon DEF ItemRows
<1>. QED
  BY <1>1, <1>2, <1>3

\* What the holder of the mutex saves replaces the row it has read, or
\* nothing: then its own changes are the only ones.
LEMMA SaveReplacesWhatWasRead ==
    ASSUME R!RunRecordsAssumption, RunsInvariant, NEW row \in ItemRows,
           row.revision = snapshot.revision + 1, row.text = snapshot.text,
           row.failures <= snapshot.failures + (IF Pending THEN 1 ELSE 0),
           R!SaveItemRevision(row),
           UNCHANGED <<run, edits, finished, snapshot>>
    PROVE  /\ item' \in ItemRows /\ item'.text = edits'
           /\ SnapshotIsBehind' /\ item'.revision >= 1
           /\ item'.failures <= Cardinality(Failed(finished))
<1>1. snapshot \in ItemRows /\ item \in ItemRows
  BY FiniteRuns, SameFiniteSets DEF RunsInvariant, R!RunRecordsTypeOK, ItemRows
<1>2. Cardinality(Failed(finished)) \in Nat
  BY CountIsBounded DEF RunsInvariant, R!RunRecordsTypeOK
<1>3. CASE item' = item
  BY <1>1, <1>2, <1>3 DEF RunsInvariant, SnapshotIsBehind, R!EditStays, ItemRows
<1>4. CASE item.revision = row.revision - 1 /\ item' = row
  <2>1. item.revision = snapshot.revision
    BY <1>1, <1>4 DEF ItemRows
  <2>2. item = snapshot
    BY <2>1 DEF RunsInvariant, SnapshotIsBehind
  <2>3. item'.failures <= item.failures + (IF Pending THEN 1 ELSE 0)
    BY <1>4, <2>2
  <2>4. item'.failures <= Cardinality(Failed(finished))
    BY <1>1, <1>2, <1>4, <2>3 DEF RunsInvariant, ItemRows
  <2>. QED
    BY <1>1, <1>4, <2>2, <2>4 DEF RunsInvariant, SnapshotIsBehind, R!EditStays, ItemRows
<1>. QED
  BY <1>3, <1>4 DEF R!SaveItemRevision

\* The invariant after a step of the handler that has begun: no run's record
\* changes, and a failure that was pending is on the item or given up.
LEMMA HandlerEnds ==
    ASSUME R!RunRecordsAssumption, RunsInvariant,
           UNCHANGED <<run, edits, finished, snapshot, reports>>,
           item' \in ItemRows, item'.text = edits', SnapshotIsBehind', item'.revision >= 1,
           item'.failures <= Cardinality(Failed(finished)),
           explained' \in Nat,
           (mu' = Nobody /\ at' = "free") \/ (mu' = mu /\ mu # Nobody /\ at' = "explain")
    PROVE  RunsInvariant'
<1>1. ~Pending'
  BY DEF Pending, R!RunRecordsAssumption
<1>2. FinishedRuns' = FinishedRuns
  BY DEF FinishedRuns
<1>3. /\ Cardinality(Failed(finished)) \in 0..Cardinality(Runs)
      /\ Cardinality(Runs) \in Nat /\ R!Cardinality(Runs) = Cardinality(Runs)
  BY CountIsBounded, SameFiniteSets DEF RunsInvariant, R!RunRecordsTypeOK
<1>4. item' \in [failures : 0..R!Cardinality(Runs), held : BOOLEAN, revision : Nat, text : 0..MaxEdits]
  <2>1. item'.failures \in 0..R!Cardinality(Runs)
    BY <1>3 DEF ItemRows
  <2>. QED
    BY <2>1 DEF ItemRows
<1>5. R!RunRecordsTypeOK'
  BY <1>4 DEF RunsInvariant, R!RunRecordsTypeOK
<1>6. R!EditStays'
  BY DEF R!EditStays
<1>7. mu' \in Runs => run'[mu'] # "running"
  BY DEF RunsInvariant, R!RunRecordsAssumption
<1>8. item'.failures + (IF Pending' THEN 1 ELSE 0) <= Cardinality(Failed(finished'))
  BY <1>1, <1>3, <1>4
<1>9. at' = "free" <=> mu' = Nobody
  BY DEF RunsInvariant
<1>10. at' # "note"
  OBVIOUS
<1>11. edits' \in 0..MaxEdits /\ finished' \in Seq(R!Outcomes) /\ Len(finished') = Cardinality(FinishedRuns')
  BY <1>2 DEF RunsInvariant
<1>12. snapshot' \in ItemRows
  BY DEF RunsInvariant
<1>. QED
  BY <1>5, <1>6, <1>7, <1>8, <1>9, <1>10, <1>11, <1>12 DEF RunsInvariant

\* The handlers' other steps, and what other clients and crashes do.
LEMMA HandlerStep ==
    ASSUME R!RunRecordsAssumption, RunsInvariant,
           R!ReadItem \/ R!SaveNoted \/ R!Explain \/ R!BeginUnhold \/ R!Unhold \/ R!Crash
    PROVE  RunsInvariant'
<1>1. snapshot \in ItemRows /\ item \in ItemRows /\ R!Cardinality(Runs) \in Nat
  BY FiniteRuns, SameFiniteSets DEF RunsInvariant, R!RunRecordsTypeOK, ItemRows
<1>2. Cardinality(Failed(finished)) \in Nat
  BY CountIsBounded DEF RunsInvariant, R!RunRecordsTypeOK
<1>3. item.text = edits /\ SnapshotIsBehind /\ item.revision >= 1 /\ explained \in Nat
  BY DEF RunsInvariant, R!EditStays, R!RunRecordsTypeOK
<1>4. item.failures <= Cardinality(Failed(finished))
  BY <1>1, <1>2 DEF RunsInvariant, ItemRows
<1>5. CASE R!ReadItem
  <2>. USE <1>5 DEF R!ReadItem, R!Release
  <2>1. FinishedRuns' = FinishedRuns
    BY DEF FinishedRuns, R!bounds
  <2>2. SnapshotIsBehind' /\ snapshot' \in ItemRows
    BY <1>1 DEF SnapshotIsBehind, ItemRows
  <2>3. Pending' => Pending
    BY DEF Pending, R!RunRecordsAssumption
  <2>4. item'.failures + (IF Pending' THEN 1 ELSE 0) <= Cardinality(Failed(finished'))
    BY <1>1, <1>2, <1>4, <2>3 DEF RunsInvariant, ItemRows
  <2>5. mu' \in Runs => run'[mu'] # "running"
    BY DEF RunsInvariant, R!RunRecordsAssumption
  <2>6. (at' = "free" <=> mu' = Nobody) /\ at' # "note"
    BY DEF RunsInvariant
  <2>7. mu' \in Runs \cup {R!Unholder, Nobody} /\ at' \in {"free", "save"}
    BY DEF RunsInvariant, R!RunRecordsTypeOK
  <2>. QED
    BY <1>3, <2>1, <2>2, <2>4, <2>5, <2>6, <2>7
    DEF RunsInvariant, R!RunRecordsTypeOK, R!EditStays, R!bounds
<1>6. CASE R!SaveNoted
  <2>. DEFINE row == [R!Noted(snapshot, run[mu]) EXCEPT !.revision = @ + 1]
  <2>1. at = "save" /\ mu \in Runs /\ run[mu] \in R!Outcomes
    BY <1>6 DEF R!SaveNoted, RunsInvariant, R!RunRecordsTypeOK
  <2>2. R!Noted(snapshot, run[mu]) \in ItemRows
    <3>1. CASE run[mu] = "settled"
      BY <1>1, <3>1 DEF R!Noted, ItemRows
    <3>2. CASE run[mu] = "failed"
      <4>1. PICK h \in BOOLEAN : h = (snapshot.held \/ snapshot.failures + 1 >= MaxItemFailures)
        OBVIOUS
      <4>2. R!Noted(snapshot, run[mu]) = [snapshot EXCEPT !.failures = snapshot.failures + 1, !.held = h]
        BY <3>2, <4>1 DEF R!Noted
      <4>3. snapshot.failures + 1 \in Nat
        BY <1>1 DEF ItemRows
      <4>4. [snapshot EXCEPT !.failures = snapshot.failures + 1, !.held = h] \in ItemRows
        BY <1>1, <4>3, ChangedRow
      <4>. QED
        BY <4>2, <4>4
    <3>. QED
      BY <2>1, <3>1, <3>2 DEF R!Outcomes
  <2>3. /\ R!Noted(snapshot, run[mu]).text = snapshot.text
        /\ R!Noted(snapshot, run[mu]).revision = snapshot.revision
        /\ R!Noted(snapshot, run[mu]).failures <= snapshot.failures + (IF Pending THEN 1 ELSE 0)
    <3>1. CASE run[mu] = "settled"
      BY <1>1, <3>1 DEF R!Noted, ItemRows
    <3>2. CASE run[mu] = "failed"
      <4>1. Pending
        BY <2>1, <3>2 DEF Pending
      <4>. QED
        BY <1>1, <3>2, <4>1 DEF R!Noted, ItemRows
    <3>. QED
      BY <2>1, <3>1, <3>2 DEF R!Outcomes
  <2>4. /\ row \in ItemRows /\ row.text = snapshot.text /\ row.revision = snapshot.revision + 1
        /\ row.failures <= snapshot.failures + (IF Pending THEN 1 ELSE 0)
    <3>. HIDE DEF R!Noted
    <3>. QED
      BY <1>1, <2>2, <2>3 DEF ItemRows
  <2>. HIDE DEF row
  <2>5. /\ R!SaveItemRevision(row) /\ UNCHANGED <<run, explained, edits, finished, snapshot, reports>>
        /\ (mu' = Nobody /\ at' = "free") \/ (mu' = mu /\ at' = "explain")
    BY <1>6 DEF R!SaveNoted, R!Release, row
  <2>6. mu # Nobody
    BY <2>1 DEF R!RunRecordsAssumption
  <2>7. /\ item' \in ItemRows /\ item'.text = edits' /\ SnapshotIsBehind' /\ item'.revision >= 1
        /\ item'.failures <= Cardinality(Failed(finished))
    BY <2>4, <2>5, SaveReplacesWhatWasRead
  <2>. QED
    BY <1>3, <2>5, <2>6, <2>7, HandlerEnds
<1>7. CASE R!Explain
  <2>1. /\ UNCHANGED <<item, run, edits, finished, snapshot, reports>>
        /\ mu' = Nobody /\ at' = "free" /\ explained' \in Nat
    BY <1>3, <1>7 DEF R!Explain, R!Release
  <2>2. SnapshotIsBehind'
    BY <1>3, <2>1 DEF SnapshotIsBehind
  <2>. QED
    BY <1>1, <1>3, <1>4, <2>1, <2>2, HandlerEnds
<1>8. CASE R!BeginUnhold
  <2>. USE <1>8 DEF R!BeginUnhold
  <2>1. FinishedRuns' = FinishedRuns
    BY DEF FinishedRuns
  <2>2. SnapshotIsBehind' /\ snapshot' \in ItemRows
    BY <1>1 DEF SnapshotIsBehind, ItemRows
  <2>3. mu' = R!Unholder /\ mu' \notin Runs /\ mu' # Nobody /\ ~Pending'
    BY DEF Pending, R!RunRecordsAssumption
  <2>4. item'.failures + (IF Pending' THEN 1 ELSE 0) <= Cardinality(Failed(finished'))
    BY <1>1, <1>2, <1>4, <2>3 DEF ItemRows
  <2>. QED
    BY <1>3, <2>1, <2>2, <2>3, <2>4
    DEF RunsInvariant, R!RunRecordsTypeOK, R!EditStays
<1>9. CASE R!Unhold
  <2>. DEFINE row == [snapshot EXCEPT !.held = FALSE, !.failures = 0, !.revision = @ + 1]
  <2>0. row \in ItemRows
    <3>1. snapshot.revision + 1 \in Nat /\ 0 \in Nat /\ FALSE \in BOOLEAN
      BY <1>1 DEF ItemRows
    <3>. QED
      BY <1>1, <3>1, ChangedRow
  <2>1. /\ row \in ItemRows /\ row.text = snapshot.text /\ row.revision = snapshot.revision + 1
        /\ row.failures <= snapshot.failures + (IF Pending THEN 1 ELSE 0)
    BY <1>1, <2>0 DEF ItemRows
  <2>. HIDE DEF row
  <2>2. /\ R!SaveItemRevision(row) /\ UNCHANGED <<run, explained, edits, finished, snapshot, reports>>
        /\ mu' = Nobody /\ at' = "free"
    BY <1>9 DEF R!Unhold, R!Release, row
  <2>3. /\ item' \in ItemRows /\ item'.text = edits' /\ SnapshotIsBehind' /\ item'.revision >= 1
        /\ item'.failures <= Cardinality(Failed(finished))
    BY <2>1, <2>2, SaveReplacesWhatWasRead
  <2>. QED
    BY <1>3, <2>2, <2>3, HandlerEnds
<1>10. CASE R!Crash
  <2>1. /\ UNCHANGED <<item, run, explained, edits, finished, snapshot, reports>>
        /\ mu' = Nobody /\ at' = "free"
    BY <1>10 DEF R!Crash, R!Release
  <2>2. SnapshotIsBehind'
    BY <1>3, <2>1 DEF SnapshotIsBehind
  <2>. QED
    BY <1>1, <1>3, <1>4, <2>1, <2>2, HandlerEnds
<1>. QED
  BY <1>5, <1>6, <1>7, <1>8, <1>9, <1>10

\* Another client moves the revision on, so that a handler that has read the
\* item before will be refused.
LEMMA EditStep ==
    ASSUME R!RunRecordsAssumption, RunsInvariant, R!Edit PROVE RunsInvariant'
<1>. USE DEF R!Edit
<1>1. snapshot \in ItemRows /\ item \in ItemRows
  BY FiniteRuns, SameFiniteSets DEF RunsInvariant, R!RunRecordsTypeOK, ItemRows
<1>2. edits' \in 0..MaxEdits
  BY DEF RunsInvariant, R!RunRecordsAssumption
<1>0. item' \in ItemRows
  <2>1. item.revision + 1 \in Nat
    BY <1>1 DEF ItemRows
  <2>. QED
    BY <1>1, <1>2, <2>1, ChangedRow DEF ItemRows
<1>3. /\ item'.text = edits' /\ item'.failures = item.failures
      /\ item'.revision = item.revision + 1
      /\ item' \in [failures : 0..R!Cardinality(Runs), held : BOOLEAN, revision : Nat, text : 0..MaxEdits]
  <2>1. item.failures \in 0..R!Cardinality(Runs)
    BY DEF RunsInvariant, R!RunRecordsTypeOK
  <2>2. item'.failures = item.failures
    BY <1>1 DEF ItemRows
  <2>. QED
    BY <1>0, <1>1, <1>2, <2>1, <2>2 DEF ItemRows
<1>4. SnapshotIsBehind'
  BY <1>1, <1>3 DEF RunsInvariant, SnapshotIsBehind, ItemRows
<1>5. (Pending' <=> Pending) /\ FinishedRuns' = FinishedRuns
  BY DEF Pending, FinishedRuns
<1>. QED
  BY <1>1, <1>2, <1>3, <1>4, <1>5 DEF RunsInvariant, R!RunRecordsTypeOK, R!EditStays, ItemRows

\* Every step of the runs keeps the invariant.
LEMMA RunsInvariantNext ==
    ASSUME R!RunRecordsAssumption, RunsInvariant, [R!Next]_runsVars PROVE RunsInvariant'
<1>1. CASE R!Next
  BY <1>1, FinishRunStep, HandlerStep, EditStep DEF R!Next
<1>2. CASE UNCHANGED runsVars
  BY <1>2 DEF runsVars, RunsInvariant, R!RunRecordsTypeOK, R!EditStays, SnapshotIsBehind,
              Pending, FinishedRuns
<1>. QED
  BY <1>1, <1>2

\* Whatever clients, reports and crashes come in between, another client's edit
\* is never overwritten and an item's failures are never more than its failed
\* runs (runs.go, FinishRun, noteRunOutcome).
THEOREM EditsStayAndFailuresCountOnce == ProjectsSpec => []RunRecordsInv
<1>1. ProjectsInit => RunsInvariant
  BY RunsInvariantInit, ProjectsAssumption DEF ProjectsInit
<1>2. RunsInvariant /\ [WaitPart \/ MentionsPart \/ RunsPart \/ Stops]_allVars => RunsInvariant'
  BY RunsInvariantNext, ProjectsAssumption
  DEF WaitPart, MentionsPart, RunsPart, Stops, allVars, runsVars
<1>3. RunsInvariant => RunRecordsInv
  <2>1. RunsInvariant => R!CountedOnce
    <3>. SUFFICES ASSUME RunsInvariant PROVE R!CountedOnce
      OBVIOUS
    <3>1. Cardinality(Failed(finished)) \in Nat
      BY CountIsBounded, ProjectsAssumption DEF RunsInvariant, R!RunRecordsTypeOK
    <3>2. item.failures \in Int
      BY FiniteRuns, SameFiniteSets, ProjectsAssumption DEF RunsInvariant, R!RunRecordsTypeOK
    <3>3. item.failures <= Cardinality(Failed(finished))
      BY <3>1, <3>2 DEF RunsInvariant
    <3>. QED
      BY <3>3, SameFiniteSets DEF R!CountedOnce, Failed
  <2>. QED
    BY <2>1 DEF RunsInvariant, RunRecordsInv
<1>. QED
  BY <1>1, <1>2, <1>3, PTL DEF ProjectsSpec

-----------------------------------------------------------------------------
(***************************************************************************)
(* Mentions.  A row is known by its agent and the write that made it, and  *)
(* that is what lets an edit tell the rows that stay from those it makes.  *)
(***************************************************************************)
MentionRows ==
    [agent : Agents, room : M!Rooms, source : M!Sources \cup {M!Line},
     project : Projects \cup {General}, born : 0..MaxWrites,
     attempts : 0..MaxMentionAttempts, answered : BOOLEAN]

\* A row is known by its agent and the write that made it.
KeysAreNew ==
    /\ \A m \in mentions : m.born < writes
    /\ \A m, n \in mentions : M!Key(m) = M!Key(n) => m = n

\* A job is handed out for a row that was counted, and for none to come.
HandedIsCounted ==
    /\ \A m \in mentions : handed[M!Key(m)] <= m.attempts
    /\ \A a \in Agents, b \in 0..MaxWrites : b >= writes => handed[<<a, b>>] = 0

NoRowsBeforeBody == \A e \in M!Sources : author[e] = M!NoOne => M!RowsOf(e) = {}

\* However an edit ended, an agent has one row of a body at most.
OneRowAnAgent ==
    \A e \in M!Sources : \A m, n \in M!RowsOf(e) : m.agent = n.agent => m = n

RowsInvariant ==
    /\ mentions \subseteq MentionRows /\ KeysAreNew /\ HandedIsCounted
    /\ NoRowsBeforeBody /\ OneRowAnAgent
    /\ writes \in 0..MaxWrites /\ project \in [M!Rooms -> Projects \cup {General}]
    /\ handed \in [Agents \X (0..MaxWrites) -> 0..MaxMentionAttempts]

MentionsInvariant == M!MentionsTypeOK /\ M!MentionsFollowBody /\ RowsInvariant

\* The row a name gets.
LEMMA NewRow ==
    ASSUME M!MentionsAssumption, RowsInvariant, writes < MaxWrites,
           NEW a \in Agents, NEW r \in M!Rooms, NEW s \in M!Sources \cup {M!Line}
    PROVE  /\ M!Row(a, r, s) \in MentionRows
           /\ M!Row(a, r, s).agent = a /\ M!Row(a, r, s).source = s
           /\ M!Row(a, r, s).born = writes /\ M!Row(a, r, s).attempts = 0
           /\ M!Key(M!Row(a, r, s)) = <<a, writes>>
<1>1. project[r] \in Projects \cup {General}
  BY DEF RowsInvariant
<1>2. writes \in 0..MaxWrites /\ 0 \in 0..MaxMentionAttempts
  BY DEF RowsInvariant, M!MentionsAssumption
<1>3. M!Row(a, r, s) \in MentionRows
  BY <1>1, <1>2 DEF M!Row, MentionRows
<1>. QED
  BY <1>3 DEF M!Row, M!Key

\* The row of a mention that is answered.
LEMMA AnsweredRow ==
    ASSUME NEW m \in MentionRows
    PROVE  /\ M!Answer(m) \in MentionRows /\ M!Key(M!Answer(m)) = M!Key(m)
           /\ M!Answer(m).agent = m.agent /\ M!Answer(m).source = m.source
           /\ M!Answer(m).born = m.born /\ M!Answer(m).attempts = m.attempts
<1>. PICK t \in BOOLEAN : t = TRUE
  OBVIOUS
<1>1. M!Answer(m) = [m EXCEPT !.answered = t]
  BY DEF M!Answer
<1>. QED
  BY <1>1 DEF MentionRows, M!Key

\* Rows are replaced by rows with their keys, and new ones are of this write.
LEMMA RowsFollow ==
    ASSUME M!MentionsAssumption, RowsInvariant, NEW grows \in BOOLEAN,
           grows => writes < MaxWrites,
           writes' = IF grows THEN writes + 1 ELSE writes,
           mentions' \subseteq MentionRows,
           \A n \in mentions' : \/ /\ grows /\ n.born = writes /\ n.attempts = 0
                                   /\ \A l \in mentions' : M!Key(l) = M!Key(n) => l = n
                                \/ \E m \in mentions : /\ M!Key(m) = M!Key(n) /\ m.attempts <= n.attempts
                                                       /\ \A l \in mentions' : M!Key(l) = M!Key(m) => l = n,
           handed' = handed
    PROVE  KeysAreNew' /\ HandedIsCounted' /\ writes' \in 0..MaxWrites
<1>. USE DEF RowsInvariant
<1>1. writes' \in 0..MaxWrites
  BY DEF M!MentionsAssumption
<1>2. \A m \in MentionRows : /\ m.agent \in Agents /\ m.born \in 0..MaxWrites /\ m.attempts \in 0..MaxMentionAttempts
                             /\ M!Key(m) = <<m.agent, m.born>>
  BY DEF MentionRows, M!Key
<1>3. \A n \in mentions' : n.born < writes'
  BY <1>2 DEF KeysAreNew
<1>4. \A n \in mentions' : handed[M!Key(n)] <= n.attempts
  BY <1>2 DEF HandedIsCounted
<1>5. \A m, n \in mentions' : M!Key(m) = M!Key(n) => m = n
  OBVIOUS
<1>6. \A a \in Agents, b \in 0..MaxWrites : b >= writes' => handed[<<a, b>>] = 0
  BY <1>1 DEF HandedIsCounted
<1>. QED
  BY <1>1, <1>3, <1>4, <1>5, <1>6 DEF KeysAreNew, HandedIsCounted, M!Key

\* What is said: an agent's rows are answered and lines make rows, which are
\* of no body.
LEMMA AnsweringRows ==
    ASSUME M!MentionsAssumption, MentionsInvariant, NEW grows \in BOOLEAN,
           grows => writes < MaxWrites,
           writes' = IF grows THEN writes + 1 ELSE writes,
           NEW D \in SUBSET mentions, NEW S \in SUBSET Agents, NEW r \in M!Rooms,
           S # {} => grows,
           mentions' = (mentions \ D) \cup {M!Answer(m) : m \in D}
                          \cup {M!Row(a, r, M!Line) : a \in S},
           UNCHANGED <<author, names, whole, project, active, handed, work>>
    PROVE  MentionsInvariant'
<1>. USE DEF MentionsInvariant
<1>1. /\ mentions \subseteq MentionRows /\ KeysAreNew
      /\ \A m \in mentions : m.born < writes /\ m.born \in Nat
  BY DEF RowsInvariant, KeysAreNew, MentionRows
<1>2. /\ M!Line \in M!Sources \cup {M!Line} /\ M!Line \notin M!Sources
  BY DEF M!MentionsAssumption
<1>3. \A a \in S : LET n == M!Row(a, r, M!Line) IN
        /\ n \in MentionRows /\ n.agent = a /\ n.source = M!Line /\ n.born = writes /\ n.attempts = 0
        /\ M!Key(n) = <<a, writes>>
  BY <1>2, NewRow DEF RowsInvariant
<1>4. \A m \in mentions : LET n == M!Answer(m) IN
        /\ n \in MentionRows /\ n.agent = m.agent /\ n.source = m.source /\ n.born = m.born
        /\ n.attempts = m.attempts /\ M!Key(n) = M!Key(m)
  BY <1>1, AnsweredRow
<1>5. mentions' \subseteq MentionRows
  BY <1>1, <1>3, <1>4
<1>6. \A m \in mentions : M!Key(m) = <<m.agent, m.born>>
  BY DEF M!Key
<1>7. ASSUME NEW n \in mentions'
      PROVE  \/ /\ grows /\ n.born = writes /\ n.attempts = 0
                /\ \A l \in mentions' : M!Key(l) = M!Key(n) => l = n
             \/ \E m \in mentions : /\ M!Key(m) = M!Key(n) /\ m.attempts <= n.attempts
                                    /\ \A l \in mentions' : M!Key(l) = M!Key(m) => l = n
  <2>1. \A m \in mentions, a \in S : M!Key(m) # M!Key(M!Row(a, r, M!Line))
    BY <1>1, <1>3, <1>6 DEF RowsInvariant
  <2>2. CASE n \in {M!Row(a, r, M!Line) : a \in S}
    <3>1. \A l \in mentions' : M!Key(l) = M!Key(n) => l = n
      BY <1>3, <1>4, <2>1, <2>2
    <3>. QED
      BY <1>3, <2>2, <3>1
  <2>3. CASE n \in mentions \ D
    <3>1. \A l \in mentions' : M!Key(l) = M!Key(n) => l = n
      BY <1>1, <1>3, <1>4, <2>1, <2>3 DEF KeysAreNew
    <3>2. n.attempts <= n.attempts
      BY <1>1, <2>3 DEF MentionRows
    <3>. QED
      BY <2>3, <3>1, <3>2
  <2>4. CASE n \in {M!Answer(m) : m \in D}
    <3>1. PICK m \in D : n = M!Answer(m)
      BY <2>4
    <3>2. \A l \in mentions' : M!Key(l) = M!Key(m) => l = n
      BY <1>1, <1>3, <1>4, <2>1, <3>1 DEF KeysAreNew
    <3>3. m.attempts <= n.attempts
      BY <1>1, <1>4, <3>1 DEF MentionRows
    <3>. QED
      BY <1>4, <3>1, <3>2, <3>3
  <2>. QED
    BY <2>2, <2>3, <2>4
<1>8. KeysAreNew' /\ HandedIsCounted' /\ writes' \in 0..MaxWrites
  BY <1>5, <1>7, RowsFollow
<1>9. ASSUME NEW e \in M!Sources
      PROVE  M!RowsOf(e)' = (M!RowsOf(e) \ D) \cup {M!Answer(m) : m \in D \cap M!RowsOf(e)}
  BY <1>2, <1>3, <1>4 DEF M!RowsOf
<1>10. M!MentionsFollowBody' /\ OneRowAnAgent'
  <2>1. ASSUME NEW e \in M!Sources
        PROVE  /\ {m.agent : m \in M!RowsOf(e)'} = {m.agent : m \in M!RowsOf(e)}
               /\ \A m, n \in M!RowsOf(e)' : m.agent = n.agent => m = n
    <3>1. /\ \A m, n \in M!RowsOf(e) : m.agent = n.agent => m = n
          /\ M!RowsOf(e) \subseteq mentions
      BY DEF RowsInvariant, OneRowAnAgent, M!RowsOf
    <3>2. {m.agent : m \in M!RowsOf(e)'} = {m.agent : m \in M!RowsOf(e)}
      BY <1>4, <1>9, <3>1
    <3>3. \A m, n \in M!RowsOf(e)' : m.agent = n.agent => m = n
      BY <1>4, <1>9, <3>1
    <3>. QED
      BY <3>2, <3>3
  <2>. QED
    BY <2>1 DEF M!MentionsFollowBody, OneRowAnAgent
<1>11. NoRowsBeforeBody'
  BY <1>9 DEF NoRowsBeforeBody, RowsInvariant
<1>. QED
  BY <1>5, <1>8, <1>10, <1>11 DEF M!MentionsTypeOK, RowsInvariant, MentionRows

\* An edit: of the rows of its source some stay and some are made, one for an
\* agent, and when it comes to its end they are those of the body's names.
LEMMA ReplacingRows ==
    ASSUME M!MentionsAssumption, MentionsInvariant, writes < MaxWrites, writes' = writes + 1,
           NEW e \in M!Sources, NEW keep \in SUBSET M!RowsOf(e), NEW S \in SUBSET Agents,
           mentions' = (mentions \ M!RowsOf(e)) \cup keep \cup {M!Row(a, e, e) : a \in S},
           NEW body \in SUBSET Agents, NEW w \in M!Actors \cup {M!NoOne},
           names' = [names EXCEPT ![e] = body], whole' = [whole EXCEPT ![e] = w],
           author' \in [M!Sources -> M!Actors \cup {M!NoOne}], author'[e] # M!NoOne,
           \A f \in M!Sources \ {e} : author'[f] = author[f],
           {m.agent : m \in keep} \cap S = {},
           w # M!NoOne => {m.agent : m \in keep} \cup S = body \ {w},
           UNCHANGED <<project, active, handed, work>>
    PROVE  MentionsInvariant'
<1>. USE DEF MentionsInvariant
<1>1. /\ mentions \subseteq MentionRows /\ KeysAreNew
      /\ \A m \in mentions : m.born < writes /\ m.born \in Nat
  BY DEF RowsInvariant, KeysAreNew, MentionRows
<1>2. e \in M!Rooms /\ e \in M!Sources \cup {M!Line}
  BY DEF M!Rooms
<1>3. \A a \in S : LET n == M!Row(a, e, e) IN
        /\ n \in MentionRows /\ n.agent = a /\ n.source = e /\ n.born = writes /\ n.attempts = 0
        /\ M!Key(n) = <<a, writes>>
  BY <1>2, NewRow DEF RowsInvariant
<1>4. mentions' \subseteq MentionRows /\ keep \subseteq mentions
  BY <1>1, <1>3 DEF M!RowsOf
<1>5. \A m \in mentions : M!Key(m) = <<m.agent, m.born>>
  BY DEF M!Key
<1>6. ASSUME NEW n \in mentions'
      PROVE  \/ /\ TRUE /\ n.born = writes /\ n.attempts = 0
                /\ \A l \in mentions' : M!Key(l) = M!Key(n) => l = n
             \/ \E m \in mentions : /\ M!Key(m) = M!Key(n) /\ m.attempts <= n.attempts
                                    /\ \A l \in mentions' : M!Key(l) = M!Key(m) => l = n
  <2>1. \A m \in mentions, a \in S : M!Key(m) # M!Key(M!Row(a, e, e))
    BY <1>1, <1>3, <1>5 DEF RowsInvariant
  <2>2. CASE n \in {M!Row(a, e, e) : a \in S}
    <3>1. \A l \in mentions' : M!Key(l) = M!Key(n) => l = n
      BY <1>3, <1>4, <2>1, <2>2
    <3>. QED
      BY <1>3, <2>2, <3>1
  <2>3. CASE n \in mentions
    <3>1. \A l \in mentions' : M!Key(l) = M!Key(n) => l = n
      BY <1>1, <1>3, <1>4, <2>1, <2>3 DEF KeysAreNew
    <3>2. n.attempts <= n.attempts
      BY <1>1, <2>3 DEF MentionRows
    <3>. QED
      BY <2>3, <3>1, <3>2
  <2>. QED
    BY <1>4, <2>2, <2>3
<1>7. KeysAreNew' /\ HandedIsCounted' /\ writes' \in 0..MaxWrites
  <2>1. TRUE \in BOOLEAN
    OBVIOUS
  <2>. QED
    BY <1>4, <1>6, <2>1, RowsFollow
<1>8. M!RowsOf(e)' = keep \cup {M!Row(a, e, e) : a \in S}
  BY <1>3 DEF M!RowsOf
<1>9. \A f \in M!Sources \ {e} : M!RowsOf(f)' = M!RowsOf(f)
  BY <1>3 DEF M!RowsOf
<1>13. OneRowAnAgent'
  <2>1. \A m, n \in M!RowsOf(e)' : m.agent = n.agent => m = n
    BY <1>3, <1>8 DEF RowsInvariant, OneRowAnAgent
  <2>. QED
    BY <1>9, <2>1 DEF RowsInvariant, OneRowAnAgent
<1>10. M!MentionsFollowBody'
  <2>. SUFFICES ASSUME NEW f \in M!Sources, whole'[f] # M!NoOne
                PROVE  /\ {m.agent : m \in M!RowsOf(f)'} = names'[f] \ {whole'[f]}
                       /\ \A m, n \in M!RowsOf(f)' : m.agent = n.agent => m = n
    BY DEF M!MentionsFollowBody
  <2>1. CASE f = e
    <3>1. names'[e] = body /\ whole'[e] = w
      BY DEF M!MentionsTypeOK
    <3>2. {m.agent : m \in M!RowsOf(e)'} = {m.agent : m \in keep} \cup S
      BY <1>3, <1>8
    <3>3. \A m, n \in M!RowsOf(e)' : m.agent = n.agent => m = n
      BY <1>13 DEF OneRowAnAgent
    <3>. QED
      BY <2>1, <3>1, <3>2, <3>3
  <2>2. CASE f # e
    <3>1. names'[f] = names[f] /\ whole'[f] = whole[f]
      BY <2>2 DEF M!MentionsTypeOK
    <3>. QED
      BY <1>9, <2>2, <3>1 DEF M!MentionsFollowBody
  <2>. QED
    BY <2>1, <2>2
<1>11. NoRowsBeforeBody'
  BY <1>9 DEF NoRowsBeforeBody, RowsInvariant
<1>12. names' \in [M!Sources -> SUBSET Agents] /\ whole' \in [M!Sources -> M!Actors \cup {M!NoOne}]
  BY DEF M!MentionsTypeOK
<1>. QED
  BY <1>4, <1>7, <1>10, <1>11, <1>12, <1>13 DEF M!MentionsTypeOK, RowsInvariant, MentionRows

\* Writes are bounded, with some to spare.
LEMMA SpareWrite ==
    ASSUME M!MentionsAssumption, MentionsInvariant
    PROVE  /\ M!Writes(0) => writes < MaxWrites /\ writes' = writes + 1
           /\ M!Writes(MaxRepeats) => writes < MaxWrites /\ writes' = writes + 1
<1>1. writes \in Nat /\ MaxWrites \in Nat /\ MaxRepeats \in Nat
  BY DEF M!MentionsAssumption, MentionsInvariant, RowsInvariant
<1>. QED
  BY <1>1 DEF M!Writes

\* What a synchronisation that breaks off leaves: some old rows, and some new
\* ones of other names.
LEMMA HalfWay ==
    ASSUME NEW e, NEW body \in SUBSET Agents,
           M!SyncMentionsBreaksOff(e, M!MentionNames(body, Owner), mentions')
    PROVE  \E left \in SUBSET M!RowsOf(e), S \in SUBSET Agents :
             /\ {m.agent : m \in left} \cap S = {}
             /\ mentions' = (mentions \ M!RowsOf(e)) \cup left \cup {M!Row(a, e, e) : a \in S}
<1>1. PICK keep \in SUBSET M!RowsOf(e) :
         \/ \E left \in SUBSET M!RowsOf(e) : mentions' = (mentions \ M!RowsOf(e)) \cup left
         \/ \E some \in SUBSET (M!MentionNames(body, Owner) \ {m.agent : m \in keep}) :
               mentions' = (mentions \ M!RowsOf(e)) \cup keep \cup {M!Row(a, e, e) : a \in some}
  BY DEF M!SyncMentionsBreaksOff, M!Kept
<1>2. ASSUME NEW left \in SUBSET M!RowsOf(e), mentions' = (mentions \ M!RowsOf(e)) \cup left
      PROVE  \E S \in SUBSET Agents :
               /\ {m.agent : m \in left} \cap S = {}
               /\ mentions' = (mentions \ M!RowsOf(e)) \cup left \cup {M!Row(a, e, e) : a \in S}
  <2>1. mentions' = (mentions \ M!RowsOf(e)) \cup left \cup {M!Row(a, e, e) : a \in {}}
    BY <1>2
  <2>. QED
    BY <2>1
<1>3. ASSUME NEW some \in SUBSET (M!MentionNames(body, Owner) \ {m.agent : m \in keep}),
             mentions' = (mentions \ M!RowsOf(e)) \cup keep \cup {M!Row(a, e, e) : a \in some}
      PROVE  \E S \in SUBSET Agents :
               /\ {m.agent : m \in keep} \cap S = {}
               /\ mentions' = (mentions \ M!RowsOf(e)) \cup keep \cup {M!Row(a, e, e) : a \in S}
  <2>1. some \in SUBSET Agents /\ {m.agent : m \in keep} \cap some = {}
    BY DEF M!MentionNames
  <2>. QED
    BY <1>3, <2>1
<1>. QED
  BY <1>1, <1>2, <1>3

\* A body that is written or edited.
LEMMA BodyStep ==
    ASSUME M!MentionsAssumption, MentionsInvariant, NEW body \in SUBSET Agents, NEW e \in M!Sources,
           \/ \E w \in M!Actors : M!Create(e, w, body) \/ M!UpdatePost(e, w, body)
           \/ M!UpdateItem(e, body)
    PROVE  MentionsInvariant'
<1>. /\ author \in [M!Sources -> M!Actors \cup {M!NoOne}] /\ M!NoOne \notin M!Actors
     /\ Owner \in M!Actors
  BY DEF M!MentionsAssumption, MentionsInvariant, M!MentionsTypeOK, M!Actors
<1>1. ASSUME NEW w \in M!Actors, M!Create(e, w, body)
      PROVE  MentionsInvariant'
  <2>. USE <1>1 DEF M!Create
  <2>1. M!RowsOf(e) = {} /\ {} \in SUBSET M!RowsOf(e)
    BY DEF MentionsInvariant, RowsInvariant, NoRowsBeforeBody
  <2>2. PICK S \in SUBSET M!MentionNames(body, w) :
           /\ whole' = [whole EXCEPT ![e] = IF S = M!MentionNames(body, w) THEN w ELSE M!NoOne]
           /\ mentions' = mentions \cup {M!Row(a, e, e) : a \in S}
    OBVIOUS
  <2>. DEFINE v == IF S = M!MentionNames(body, w) THEN w ELSE M!NoOne
  <2>3. S \in SUBSET Agents /\ v \in M!Actors \cup {M!NoOne}
    BY DEF M!MentionNames
  <2>4. (v # M!NoOne => {m.agent : m \in {}} \cup S = body \ {v}) /\ {m.agent : m \in {}} \cap S = {}
    BY DEF M!MentionNames
  <2>5. mentions' = (mentions \ M!RowsOf(e)) \cup {} \cup {M!Row(a, e, e) : a \in S}
    BY <2>1, <2>2
  <2>6. author' \in [M!Sources -> M!Actors \cup {M!NoOne}] /\ author'[e] # M!NoOne
    OBVIOUS
  <2>7. whole' = [whole EXCEPT ![e] = v]
    BY <2>2
  <2>8. /\ writes < MaxWrites /\ writes' = writes + 1 /\ names' = [names EXCEPT ![e] = body]
        /\ \A f \in M!Sources \ {e} : author'[f] = author[f]
        /\ UNCHANGED <<project, active, handed, work>>
    BY SpareWrite
  <2>. HIDE <1>1 DEF v, M!Create
  <2>. QED
    BY <2>1, <2>3, <2>4, <2>5, <2>6, <2>7, <2>8, ReplacingRows
<1>2. ASSUME NEW w \in M!Actors, M!SyncMentions(e, M!MentionNames(body, w), mentions'),
             author[e] # M!NoOne, writes < MaxWrites, writes' = writes + 1, names' = [names EXCEPT ![e] = body],
             whole' = [whole EXCEPT ![e] = w], UNCHANGED <<author, project, active, handed, work>>
      PROVE  MentionsInvariant'
  <2>1. PICK keep \in M!Kept(e, M!MentionNames(body, w)) :
           /\ {m.agent : m \in keep} = M!MentionNames(body, w) \cap {m.agent : m \in M!RowsOf(e)}
           /\ keep \in SUBSET M!RowsOf(e)
           /\ mentions' = (mentions \ M!RowsOf(e)) \cup keep
                  \cup {M!Row(a, e, e) : a \in M!MentionNames(body, w) \ {m.agent : m \in keep}}
    BY <1>2 DEF M!SyncMentions, M!Kept
  <2>. DEFINE S == M!MentionNames(body, w) \ {m.agent : m \in keep}
  <2>2. S \in SUBSET Agents /\ w # M!NoOne
    BY DEF M!MentionNames
  <2>3. {m.agent : m \in keep} \cup S = body \ {w} /\ {m.agent : m \in keep} \cap S = {}
    BY <2>1 DEF M!MentionNames
  <2>4. mentions' = (mentions \ M!RowsOf(e)) \cup keep \cup {M!Row(a, e, e) : a \in S}
    BY <2>1
  <2>5. \A f \in M!Sources \ {e} : author'[f] = author[f]
    BY <1>2
  <2>. HIDE DEF S
  <2>. QED
    BY <1>2, <2>1, <2>2, <2>3, <2>4, <2>5, ReplacingRows
\* Half way: of the old rows some are left, of the new ones some have come.
<1>3. ASSUME NEW left \in SUBSET M!RowsOf(e), NEW S \in SUBSET Agents, {m.agent : m \in left} \cap S = {},
             mentions' = (mentions \ M!RowsOf(e)) \cup left \cup {M!Row(a, e, e) : a \in S},
             author[e] # M!NoOne, writes < MaxWrites, writes' = writes + 1, names' = [names EXCEPT ![e] = body],
             whole' = [whole EXCEPT ![e] = M!NoOne], UNCHANGED <<author, project, active, handed, work>>
      PROVE  MentionsInvariant'
  <2>1. \A f \in M!Sources \ {e} : author'[f] = author[f]
    BY <1>3
  <2>. QED
    BY <1>3, <2>1, ReplacingRows
<1>. QED
  <2>1. CASE M!UpdateItem(e, body)
    <3>1. /\ author[e] # M!NoOne /\ writes < MaxWrites /\ writes' = writes + 1
          /\ names' = [names EXCEPT ![e] = body] /\ UNCHANGED <<author, project, active, handed, work>>
          /\ \/ /\ M!SyncMentions(e, M!MentionNames(body, Owner), mentions')
                /\ whole' = [whole EXCEPT ![e] = Owner]
             \/ /\ M!SyncMentionsBreaksOff(e, M!MentionNames(body, Owner), mentions')
                /\ whole' = [whole EXCEPT ![e] = M!NoOne]
      BY <2>1, SpareWrite DEF M!UpdateItem
    <3>2. ASSUME M!SyncMentionsBreaksOff(e, M!MentionNames(body, Owner), mentions')
          PROVE  \E left \in SUBSET M!RowsOf(e), S \in SUBSET Agents :
                   /\ {m.agent : m \in left} \cap S = {}
                   /\ mentions' = (mentions \ M!RowsOf(e)) \cup left \cup {M!Row(a, e, e) : a \in S}
      BY <3>2, HalfWay
    <3>. QED
      BY <1>2, <1>3, <3>1, <3>2
  <2>2. ASSUME NEW w \in M!Actors, M!UpdatePost(e, w, body) PROVE MentionsInvariant'
    <3>1. writes < MaxWrites /\ writes' = writes + 1
      BY <2>2, SpareWrite DEF M!UpdatePost
    <3>. QED
      BY <1>2, <2>2, <3>1 DEF M!UpdatePost
  <2>. QED
    BY <1>1, <2>1, <2>2

\* What is said in a room.
LEMMA SayStep ==
    ASSUME M!MentionsAssumption, MentionsInvariant, NEW body \in SUBSET Agents, NEW r \in M!Rooms,
           NEW w \in M!Actors, M!Say(r, w, body)
    PROVE  MentionsInvariant'
<1>. DEFINE all == M!MentionNames(body, w)
            mine == {m \in mentions : m.agent = w /\ m.room = r}
            Answers(D, S) ==
              mentions' = (mentions \ D) \cup {M!Answer(m) : m \in D} \cup {M!Row(a, r, M!Line) : a \in S}
<1>1. \E D \in SUBSET mentions, S \in SUBSET Agents : Answers(D, S)
  <2>. all \in SUBSET Agents /\ mine \in SUBSET mentions
    BY DEF M!MentionNames
  <2>1. CASE mentions' = (mentions \ mine) \cup {M!Answer(m) : m \in mine} \cup {M!Row(a, r, M!Line) : a \in all}
    BY <2>1
  <2>2. ASSUME NEW S \in SUBSET all, mentions' = mentions \cup {M!Row(a, r, M!Line) : a \in S}
        PROVE  \E D \in SUBSET mentions : Answers(D, S)
    <3>1. Answers({}, S)
      BY <2>2
    <3>. QED
      BY <3>1
  <2>3. ASSUME NEW D \in SUBSET mine,
               mentions' = (mentions \ D) \cup {M!Answer(m) : m \in D} \cup {M!Row(a, r, M!Line) : a \in all}
        PROVE  Answers(D, all)
    BY <2>3
  <2>. QED
    BY <2>1, <2>2, <2>3 DEF M!Say
<1>2. /\ writes < MaxWrites /\ writes' = writes + 1
      /\ UNCHANGED <<author, names, whole, project, active, handed, work>>
  BY SpareWrite DEF M!Say, M!board
<1>3. TRUE \in BOOLEAN
  OBVIOUS
<1>. QED
  BY <1>1, <1>2, <1>3, AnsweringRows

\* A mention that is counted keeps its key, and what is handed out of it is no
\* more than its count.
LEMMA CheckInStep ==
    ASSUME M!MentionsAssumption, MentionsInvariant, NEW a \in Agents, M!CheckIn(a)
    PROVE  MentionsInvariant'
<1>. USE DEF MentionsInvariant
<1>1. /\ mentions \subseteq MentionRows
      /\ UNCHANGED <<author, names, whole, project, active, writes>>
  BY DEF RowsInvariant, M!CheckIn, M!board
<1>2. ASSUME NEW m \in M!Oldest(M!Unanswered(a)),
             mentions' = (mentions \ {m}) \cup {[m EXCEPT !.attempts = @ + 1]},
             \/ handed' = [handed EXCEPT ![M!Key(m)] = @ + 1]
             \/ UNCHANGED handed,
             UNCHANGED work
      PROVE  MentionsInvariant'
  <2>. DEFINE n == [m EXCEPT !.attempts = @ + 1]
  <2>1. m \in mentions /\ m \in MentionRows /\ m.attempts < MaxMentionAttempts
    BY <1>1, <1>2 DEF M!Oldest, M!Unanswered
  <2>2. m.attempts + 1 \in 0..MaxMentionAttempts
    BY <2>1 DEF MentionRows, M!MentionsAssumption
  <2>3. /\ n \in MentionRows /\ n.agent = m.agent /\ n.source = m.source /\ n.born = m.born
        /\ n.attempts = m.attempts + 1 /\ M!Key(n) = M!Key(m)
    BY <2>1, <2>2 DEF MentionRows, M!Key
  <2>4. mentions' = (mentions \ {m}) \cup {n}
    BY <1>2
  <2>5. M!Key(m) \in Agents \X (0..MaxWrites)
    BY <2>1 DEF MentionRows, M!Key
  <2>. HIDE DEF n
  <2>6. mentions' \subseteq MentionRows
    BY <1>1, <2>3, <2>4
  <2>7. KeysAreNew'
    <3>1. \A l \in mentions' : l.born < writes
      BY <2>1, <2>3, <2>4 DEF RowsInvariant, KeysAreNew
    <3>2. \A k, l \in mentions' : M!Key(k) = M!Key(l) => k = l
      BY <2>1, <2>3, <2>4 DEF RowsInvariant, KeysAreNew
    <3>. QED
      BY <1>1, <3>1, <3>2 DEF KeysAreNew, M!Key
  <2>8. handed[M!Key(m)] <= m.attempts /\ handed[M!Key(m)] \in Nat
    BY <2>1, <2>5 DEF RowsInvariant, HandedIsCounted
  <2>9. /\ handed' \in [Agents \X (0..MaxWrites) -> 0..MaxMentionAttempts]
        /\ handed'[M!Key(m)] <= m.attempts + 1
        /\ \A k \in Agents \X (0..MaxWrites) : k # M!Key(m) => handed'[k] = handed[k]
    <3>1. handed[M!Key(m)] + 1 \in 0..MaxMentionAttempts
      BY <2>1, <2>8 DEF MentionRows, M!MentionsAssumption
    <3>. QED
      BY <1>2, <2>1, <2>5, <2>8, <3>1 DEF RowsInvariant, MentionRows
  <2>10. HandedIsCounted'
    <3>1. ASSUME NEW l \in mentions' PROVE handed'[M!Key(l)] <= l.attempts
      <4>1. CASE l = n
        BY <2>3, <2>9, <4>1
      <4>2. CASE l # n
        <5>1. l \in mentions /\ l # m
          BY <2>4, <4>2
        <5>2. M!Key(l) # M!Key(m) /\ M!Key(l) \in Agents \X (0..MaxWrites)
          BY <1>1, <2>1, <5>1 DEF RowsInvariant, KeysAreNew, MentionRows, M!Key
        <5>. QED
          BY <2>9, <5>1, <5>2 DEF RowsInvariant, HandedIsCounted
      <4>. QED
        BY <4>1, <4>2
    <3>2. ASSUME NEW b \in Agents, NEW c \in 0..MaxWrites, c >= writes
          PROVE  handed'[<<b, c>>] = 0
      <4>1. M!Key(m) # <<b, c>>
        BY <2>1, <3>2 DEF RowsInvariant, KeysAreNew, MentionRows, M!Key
      <4>. QED
        BY <2>9, <3>2, <4>1 DEF RowsInvariant, HandedIsCounted
    <3>. QED
      BY <1>1, <3>1, <3>2 DEF HandedIsCounted, M!Key
  <2>11. ASSUME NEW e \in M!Sources
         PROVE  /\ {l.agent : l \in M!RowsOf(e)'} = {l.agent : l \in M!RowsOf(e)}
                /\ \A k, l \in M!RowsOf(e)' : k.agent = l.agent => k = l
                /\ M!RowsOf(e) = {} => M!RowsOf(e)' = {}
    <3>1. M!RowsOf(e)' = IF m.source = e THEN (M!RowsOf(e) \ {m}) \cup {n} ELSE M!RowsOf(e)
      BY <2>1, <2>3, <2>4 DEF M!RowsOf
    <3>2. m.source = e => m \in M!RowsOf(e)
      BY <2>1 DEF M!RowsOf
    <3>3. \A k, l \in M!RowsOf(e) : k.agent = l.agent => k = l
      BY DEF RowsInvariant, OneRowAnAgent
    <3>. QED
      BY <2>3, <3>1, <3>2, <3>3
  <2>12. M!MentionsFollowBody'
    BY <1>1, <2>11 DEF M!MentionsFollowBody
  <2>13. NoRowsBeforeBody' /\ OneRowAnAgent'
    BY <1>1, <2>11 DEF RowsInvariant, NoRowsBeforeBody, OneRowAnAgent
  <2>. QED
    BY <1>1, <1>2, <2>6, <2>7, <2>9, <2>10, <2>12, <2>13
    DEF M!MentionsTypeOK, RowsInvariant, MentionRows
<1>3. ASSUME work' = [work EXCEPT ![a] = "taken"], UNCHANGED <<mentions, handed>>
      PROVE  MentionsInvariant'
  BY <1>1, <1>3 DEF M!MentionsTypeOK, M!MentionsFollowBody, M!RowsOf, RowsInvariant, KeysAreNew,
                    HandedIsCounted, NoRowsBeforeBody, OneRowAnAgent, M!Key
<1>. QED
  BY <1>2, <1>3 DEF M!CheckIn

\* Answers, an agent's items, and projects that are archived or change.
LEMMA OtherMentionSteps ==
    ASSUME M!MentionsAssumption, MentionsInvariant,
           \/ \E m \in mentions : M!MarkMentionAnswered(m)
           \/ \E a \in Agents : M!WorkComes(a) \/ M!WorkEnds(a)
           \/ \E p \in Projects : M!Archive(p) \/ \E e \in Items : M!Move(e, p)
           \/ UNCHANGED mentionsVars
    PROVE  MentionsInvariant'
<1>1. ASSUME NEW m \in mentions, M!MarkMentionAnswered(m) PROVE MentionsInvariant'
  <2>2. UNCHANGED <<author, names, whole, project, active, handed, work, writes>>
    BY <1>1 DEF M!MarkMentionAnswered, M!board
  <2>3. m.room \in M!Rooms
    BY DEF MentionsInvariant, RowsInvariant, MentionRows
  <2>4. mentions' = (mentions \ {m}) \cup {M!Answer(l) : l \in {m}} \cup {M!Row(a, m.room, M!Line) : a \in {}}
    BY <1>1 DEF M!MarkMentionAnswered
  <2>5. {m} \in SUBSET mentions /\ {} \in SUBSET Agents /\ FALSE \in BOOLEAN
    OBVIOUS
  <2>. QED
    BY <2>2, <2>3, <2>4, <2>5, AnsweringRows
<1>2. CASE \/ \E a \in Agents : M!WorkComes(a) \/ M!WorkEnds(a)
           \/ UNCHANGED mentionsVars
  <2>1. /\ UNCHANGED <<author, names, whole, project, active, mentions, handed, writes>>
        /\ work' \in [Agents -> {"none", "waiting", "taken"}]
    BY <1>2 DEF M!WorkComes, M!WorkEnds, M!board, mentionsVars, MentionsInvariant, M!MentionsTypeOK
  <2>. QED
    BY <2>1 DEF MentionsInvariant, M!MentionsTypeOK, M!MentionsFollowBody, M!RowsOf, RowsInvariant,
                KeysAreNew, HandedIsCounted, NoRowsBeforeBody, OneRowAnAgent, M!Key
<1>3. CASE \E p \in Projects : M!Archive(p) \/ \E e \in Items : M!Move(e, p)
  <2>1. /\ UNCHANGED <<author, names, whole, mentions, handed, work, writes>>
        /\ active' \subseteq Projects /\ project' \in [M!Rooms -> Projects \cup {General}]
    BY <1>3 DEF M!Archive, M!Move, M!board, MentionsInvariant, M!MentionsTypeOK
  <2>. QED
    BY <2>1 DEF MentionsInvariant, M!MentionsTypeOK, M!MentionsFollowBody, M!RowsOf, RowsInvariant,
                KeysAreNew, HandedIsCounted, NoRowsBeforeBody, OneRowAnAgent, M!Key
<1>. QED
  BY <1>1, <1>2, <1>3

\* At the start there is no row.
LEMMA MentionsInvariantInit == ASSUME M!MentionsAssumption, M!Init PROVE MentionsInvariant
BY DEF M!Init, M!MentionsAssumption, MentionsInvariant, M!MentionsTypeOK, M!MentionsFollowBody,
       M!RowsOf, RowsInvariant, KeysAreNew, HandedIsCounted, NoRowsBeforeBody, OneRowAnAgent

\* Every step of the rooms keeps the invariant.
LEMMA MentionsInvariantNext ==
    ASSUME M!MentionsAssumption, MentionsInvariant, [M!Next]_mentionsVars PROVE MentionsInvariant'
<1>1. Posts \subseteq M!Sources /\ Items \subseteq M!Sources /\ M!Writers \subseteq M!Actors
      /\ Bodies \subseteq SUBSET Agents
  BY DEF M!Sources, M!Writers, M!Actors, M!MentionsAssumption
<1>. QED
  BY <1>1, BodyStep, SayStep, CheckInStep, OtherMentionSteps DEF M!Next

\* Whatever is written, said, answered and handed out, and whichever writes
\* fail half way, a body whose last edit came to its end has one row for each
\* name in it but its editor's (board.go, syncMentions).
THEOREM MentionsFollowTheirBody == ProjectsSpec => []MentionsInv
<1>1. ProjectsInit => MentionsInvariant
  BY MentionsInvariantInit, ProjectsAssumption DEF ProjectsInit
<1>2. MentionsInvariant /\ [WaitPart \/ MentionsPart \/ RunsPart \/ Stops]_allVars => MentionsInvariant'
  <2>. SUFFICES ASSUME MentionsInvariant, [WaitPart \/ MentionsPart \/ RunsPart \/ Stops]_allVars
                PROVE  MentionsInvariant'
    OBVIOUS
  <2>1. [M!Next]_mentionsVars
    BY DEF WaitPart, MentionsPart, RunsPart, Stops, allVars
  <2>. QED
    BY <2>1, MentionsInvariantNext, ProjectsAssumption
<1>3. MentionsInvariant => MentionsInv
  BY DEF MentionsInvariant, MentionsInv
<1>. QED
  BY <1>1, <1>2, <1>3, PTL DEF ProjectsSpec

\* A mention that stands, or one whose name is no longer in the body.
Stands(m) ==
    \/ \E n \in mentions' : /\ M!Key(n) = M!Key(m) /\ n.attempts >= m.attempts
                            /\ (m.answered => n.answered)
    \/ m.source # M!Line /\ (m.agent \notin names'[m.source] \/ m.agent = whole'[m.source])

\* What is answered or counted stands; what is kept stands as it is.
LEMMA KeptStands ==
    ASSUME NEW m \in mentions, m \in MentionRows,
           m \in mentions' \/ M!Answer(m) \in mentions' \/ [m EXCEPT !.attempts = @ + 1] \in mentions'
    PROVE  Stands(m)
<1>1. CASE m \in mentions'
  BY <1>1 DEF Stands, MentionRows
<1>2. CASE M!Answer(m) \in mentions'
  <2>1. M!Key(M!Answer(m)) = M!Key(m) /\ M!Answer(m).attempts >= m.attempts
    BY AnsweredRow DEF MentionRows
  <2>2. M!Answer(m).answered
    BY DEF M!Answer, MentionRows
  <2>. QED
    BY <1>2, <2>1, <2>2 DEF Stands
<1>3. CASE [m EXCEPT !.attempts = @ + 1] \in mentions'
  <2>. DEFINE n == [m EXCEPT !.attempts = @ + 1]
  <2>1. M!Key(n) = M!Key(m) /\ n.attempts >= m.attempts /\ n.answered = m.answered
    BY DEF MentionRows, M!Key
  <2>2. n \in mentions'
    BY <1>3
  <2>. HIDE DEF n
  <2>. QED
    BY <2>1, <2>2 DEF Stands
<1>. QED
  BY <1>1, <1>2, <1>3

\* No step makes a mention's attempts or its answer undone.
LEMMA StepKeepsMentions ==
    ASSUME M!MentionsAssumption, MentionsInvariant, M!Next, NEW m \in mentions
    PROVE  Stands(m)
<1>. USE DEF MentionsInvariant
<1>0. m \in MentionRows
  BY DEF RowsInvariant
<1>1. ASSUME NEW e \in M!Sources, NEW w, NEW body \in SUBSET Agents,
             M!SyncMentions(e, M!MentionNames(body, w), mentions'),
             names' = [names EXCEPT ![e] = body], whole' = [whole EXCEPT ![e] = w]
      PROVE  Stands(m)
  <2>1. PICK keep \in SUBSET M!RowsOf(e) :
           /\ {l.agent : l \in keep} = M!MentionNames(body, w) \cap {l.agent : l \in M!RowsOf(e)}
           /\ mentions' = (mentions \ M!RowsOf(e)) \cup keep
                  \cup {M!Row(a, e, e) : a \in M!MentionNames(body, w) \ {l.agent : l \in keep}}
    BY <1>1 DEF M!SyncMentions, M!Kept
  <2>2. CASE m \in M!RowsOf(e) \ keep
    <3>1. m.agent \notin {l.agent : l \in keep}
      BY <2>1, <2>2 DEF RowsInvariant, OneRowAnAgent
    <3>2. m.agent \notin body \/ m.agent = w
      BY <2>1, <2>2, <3>1 DEF M!MentionNames
    <3>3. m.source = e /\ names'[e] = body /\ whole'[e] = w /\ e # M!Line
      BY <1>1, <2>2 DEF M!RowsOf, M!MentionsTypeOK, M!MentionsAssumption
    <3>. QED
      BY <3>2, <3>3 DEF Stands
  <2>3. CASE m \notin M!RowsOf(e) \ keep
    BY <1>0, <2>1, <2>3, KeptStands
  <2>. QED
    BY <2>2, <2>3
<1>2. ASSUME NEW body \in SUBSET Agents, NEW e \in M!Sources, NEW w \in M!Actors,
             M!Create(e, w, body) \/ M!UpdatePost(e, w, body)
      PROVE  Stands(m)
  <2>1. CASE M!Create(e, w, body)
    <3>1. m \in mentions'
      BY <2>1 DEF M!Create
    <3>. QED
      BY <1>0, <3>1, KeptStands
  <2>2. CASE M!UpdatePost(e, w, body)
    BY <1>1, <2>2 DEF M!UpdatePost
  <2>. QED
    BY <1>2, <2>1, <2>2
<1>3. ASSUME NEW body \in SUBSET Agents, NEW e \in Items, M!UpdateItem(e, body) PROVE Stands(m)
  <2>1. e \in M!Sources
    BY DEF M!Sources
  <2>2. ASSUME M!SyncMentionsBreaksOff(e, M!MentionNames(body, Owner), mentions'),
               names' = [names EXCEPT ![e] = body]
        PROVE  Stands(m)
    <3>1. PICK keep \in SUBSET M!RowsOf(e) :
             /\ {l.agent : l \in keep} = M!MentionNames(body, Owner) \cap {l.agent : l \in M!RowsOf(e)}
             /\ (mentions \ M!RowsOf(e)) \cup keep \subseteq mentions'
      BY <2>2 DEF M!SyncMentionsBreaksOff, M!Kept
    <3>2. CASE m \in M!RowsOf(e) \ keep
      <4>1. m.agent \notin {l.agent : l \in keep}
        BY <2>1, <3>1, <3>2 DEF RowsInvariant, OneRowAnAgent
      <4>2. m.agent \in Agents /\ Owner \notin Agents
        BY <1>0 DEF MentionRows, M!MentionsAssumption
      <4>3. m.agent \notin body
        BY <3>1, <3>2, <4>1, <4>2 DEF M!MentionNames
      <4>4. m.source = e /\ names'[e] = body /\ e # M!Line
        BY <2>1, <2>2, <3>2 DEF M!RowsOf, M!MentionsTypeOK, M!MentionsAssumption
      <4>. QED
        BY <4>3, <4>4 DEF Stands
    <3>3. CASE m \notin M!RowsOf(e) \ keep
      BY <1>0, <3>1, <3>3, KeptStands
    <3>. QED
      BY <3>2, <3>3
  <2>. QED
    BY <1>1, <1>3, <2>1, <2>2 DEF M!UpdateItem
<1>4. ASSUME NEW body \in SUBSET Agents, NEW r \in M!Rooms, NEW w \in M!Actors, M!Say(r, w, body)
      PROVE  Stands(m)
  <2>1. m \in mentions' \/ M!Answer(m) \in mentions'
    BY <1>4 DEF M!Say
  <2>. QED
    BY <1>0, <2>1, KeptStands
<1>5. ASSUME NEW l \in mentions, M!MarkMentionAnswered(l) PROVE Stands(m)
  <2>1. m \in mentions' \/ M!Answer(m) \in mentions'
    BY <1>5 DEF M!MarkMentionAnswered
  <2>. QED
    BY <1>0, <2>1, KeptStands
<1>6. ASSUME NEW a \in Agents, M!CheckIn(a) \/ M!WorkComes(a) \/ M!WorkEnds(a) PROVE Stands(m)
  <2>1. m \in mentions' \/ [m EXCEPT !.attempts = @ + 1] \in mentions'
    BY <1>6 DEF M!CheckIn, M!WorkComes, M!WorkEnds
  <2>. QED
    BY <1>0, <2>1, KeptStands
<1>7. ASSUME NEW p \in Projects, M!Archive(p) \/ \E e \in Items : M!Move(e, p) PROVE Stands(m)
  <2>1. m \in mentions'
    BY <1>7 DEF M!Archive, M!Move
  <2>. QED
    BY <1>0, <2>1, KeptStands
<1>. QED
  <2>1. Posts \subseteq M!Sources /\ M!Writers \subseteq M!Actors /\ Bodies \subseteq SUBSET Agents
    BY DEF M!Sources, M!Writers, M!Actors, M!MentionsAssumption
  <2>. QED
    BY <1>2, <1>3, <1>4, <1>5, <1>6, <1>7, <2>1 DEF M!Next

\* "Unchanged mentions retain their attempts and answer state": whichever of
\* the board's handlers runs, and wherever it fails, a mention is answered,
\* counted or left alone unless its name is out of the body (board.go,
\* syncMentions).
THEOREM MentionsRetainState == ProjectsSpec => M!RowsKeepState
<1>1. ProjectsInit => MentionsInvariant
  BY MentionsInvariantInit, ProjectsAssumption DEF ProjectsInit
<1>. DEFINE Keeps == \A m \in mentions :
                           \/ \E n \in mentions' : M!Key(n) = M!Key(m) /\ n.attempts >= m.attempts
                                                    /\ (m.answered => n.answered)
                           \/ m.source # M!Line /\ (m.agent \notin names'[m.source]
                                                  \/ m.agent = whole'[m.source])
<1>2. MentionsInvariant /\ [WaitPart \/ MentionsPart \/ RunsPart \/ Stops]_allVars
        => MentionsInvariant' /\ [Keeps]_M!vars
  <2>. SUFFICES ASSUME MentionsInvariant, [WaitPart \/ MentionsPart \/ RunsPart \/ Stops]_allVars
                PROVE  MentionsInvariant' /\ [Keeps]_M!vars
    OBVIOUS
  <2>1. [M!Next]_mentionsVars
    BY DEF WaitPart, MentionsPart, RunsPart, Stops, allVars
  <2>2. UNCHANGED mentionsVars => UNCHANGED M!vars
    BY DEF mentionsVars, M!vars, M!board
  <2>3. M!Next => Keeps
    BY StepKeepsMentions, ProjectsAssumption DEF Stands
  <2>. QED
    BY <2>1, <2>2, <2>3, MentionsInvariantNext, ProjectsAssumption
<1>3. ProjectsSpec => [][Keeps]_M!vars
  <2>. HIDE DEF Keeps
  <2>. QED
    BY <1>1, <1>2, PTL DEF ProjectsSpec
<1>. QED
  BY <1>3, PTL DEF M!RowsKeepState
=============================================================================

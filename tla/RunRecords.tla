----------------------------- MODULE RunRecords -----------------------------
(***************************************************************************)
(* The runs of one item (projects/runs.go) and the item's row as they      *)
(* change it.  A runner reports the end of a run, and again when it got an *)
(* error or no answer.  The service's mutex keeps its handlers apart, but  *)
(* not the other clients of the table: each save of the item is            *)
(* conditional on the revision that was read.                              *)
(***************************************************************************)
EXTENDS Integers, Sequences, FiniteSets

CONSTANTS
    Runs,
    MaxItemFailures,
    MaxReports,         \* bound: calls of FinishRun for each run
    MaxEdits,           \* bound: saves by other clients
    MaxReleases,        \* bound: the owner's unholds
    MaxMishaps,         \* bound: failing writes and crashes
    Nobody

Unholder == "owner"

RunRecordsAssumption ==
    /\ IsFiniteSet(Runs) /\ Runs \cap {Nobody, Unholder} = {} /\ Nobody # Unholder
    /\ MaxItemFailures \in Nat \ {0} /\ MaxEdits \in Nat /\ MaxReports \in Nat

VARIABLES
    item,               \* failures, held, revision, and the text others edit
    run,                \* each run's outcome, "running" while it is not finished
    explained,          \* comments that say why the item is held
    mu,                 \* who holds the service's mutex
    at, snapshot,       \* how far the holder is, and the item as it read it
    reports, edits, releases, mishaps,
    finished            \* outcomes in the order the runs were finished

bounds == <<reports, edits, releases, mishaps>>
vars == <<item, run, explained, mu, at, snapshot, bounds, finished>>

Outcomes == {"failed", "settled"}

\* noteRunOutcome's change, on the row as it was read; none for a settled run
\* of an item without failures.
Noted(i, outcome) ==
    IF outcome = "settled" THEN [i EXCEPT !.failures = 0]
    ELSE [i EXCEPT !.failures = @ + 1, !.held = @ \/ i.failures + 1 >= MaxItemFailures]
Idle(i, outcome) == outcome = "settled" /\ i.failures = 0

Release == mu' = Nobody /\ at' = "free"

-----------------------------------------------------------------------------
Mishap == mishaps < MaxMishaps /\ mishaps' = mishaps + 1

\* FinishRun: a run already finished is left as it was; another one is saved,
\* unless that fails, and its outcome is then noted.
FinishRun(r, outcome) ==
    /\ mu = Nobody /\ reports[r] < MaxReports
    /\ reports' = [reports EXCEPT ![r] = @ + 1]
    /\ \/ /\ run[r] = "running" /\ run' = [run EXCEPT ![r] = outcome]
          /\ finished' = Append(finished, outcome)
          /\ mu' = r /\ at' = "note" /\ UNCHANGED mishaps
       \/ run[r] = "running" /\ Mishap /\ UNCHANGED <<run, finished, mu, at>>
       \/ run[r] # "running" /\ UNCHANGED <<run, finished, mu, at, mishaps>>
    /\ UNCHANGED <<item, explained, snapshot, edits, releases>>

\* noteRunOutcome reads the item, ...
ReadItem ==
    /\ at = "note" /\ snapshot' = item
    /\ IF Idle(item, run[mu]) THEN Release ELSE at' = "save" /\ UNCHANGED mu
    /\ UNCHANGED <<item, run, explained, bounds, finished>>

\* Fault: the whole row is written whatever its revision.
SaveItemAnyway(row) == item' = row /\ UNCHANGED mishaps

\* saveItemRevision: refused when the row has moved on, or failing.
SaveItemRevision(row) ==
    \/ item.revision = row.revision - 1 /\ item' = row /\ UNCHANGED mishaps
    \/ item.revision # row.revision - 1 /\ UNCHANGED <<item, mishaps>>
    \/ Mishap /\ UNCHANGED item

\* ... saves it as changed, and on holding it goes on to say why.
SaveNoted ==
    LET row == [Noted(snapshot, run[mu]) EXCEPT !.revision = @ + 1] IN
    /\ at = "save" /\ mu \in Runs
    /\ SaveItemRevision(row)
    /\ IF item' = row /\ row.held /\ ~snapshot.held THEN at' = "explain" /\ UNCHANGED mu ELSE Release
    /\ UNCHANGED <<run, explained, snapshot, reports, edits, releases, finished>>

Explain ==
    /\ at = "explain"
    /\ \/ explained' = explained + 1 /\ UNCHANGED mishaps
       \/ Mishap /\ UNCHANGED explained
    /\ Release
    /\ UNCHANGED <<item, run, snapshot, reports, edits, releases, finished>>

\* The owner's unhold, with the mutex held: it reads, ...
BeginUnhold ==
    /\ mu = Nobody /\ releases < MaxReleases /\ item.held
    /\ releases' = releases + 1
    /\ snapshot' = item /\ mu' = Unholder /\ at' = "save"
    /\ UNCHANGED <<item, run, explained, reports, edits, mishaps, finished>>

\* ... and saves.
Unhold ==
    /\ at = "save" /\ mu = Unholder
    /\ SaveItemRevision([snapshot EXCEPT !.held = FALSE, !.failures = 0, !.revision = @ + 1])
    /\ Release
    /\ UNCHANGED <<run, explained, snapshot, reports, edits, releases, finished>>

\* Another client of the table edits the text.
Edit ==
    /\ edits < MaxEdits /\ edits' = edits + 1
    /\ item' = [item EXCEPT !.text = edits', !.revision = @ + 1]
    /\ UNCHANGED <<run, explained, mu, at, snapshot, reports, releases, mishaps, finished>>

\* The service stops in the middle of a handler and starts again.
Crash ==
    /\ mu # Nobody /\ Mishap /\ Release
    /\ UNCHANGED <<item, run, explained, snapshot, reports, edits, releases, finished>>

-----------------------------------------------------------------------------
Fresh == [failures |-> 0, held |-> FALSE, revision |-> 1, text |-> 0]

Init ==
    /\ item = Fresh /\ snapshot = Fresh
    /\ run = [r \in Runs |-> "running"] /\ explained = 0 /\ finished = <<>>
    /\ mu = Nobody /\ at = "free"
    /\ reports = [r \in Runs |-> 0] /\ edits = 0 /\ releases = 0 /\ mishaps = 0

Next ==
    \/ \E r \in Runs, o \in Outcomes : FinishRun(r, o)
    \/ ReadItem \/ SaveNoted \/ Explain \/ BeginUnhold \/ Unhold \/ Edit \/ Crash

Spec == Init /\ [][Next]_vars

-----------------------------------------------------------------------------
RunRecordsTypeOK ==
    /\ item \in [failures : 0..Cardinality(Runs), held : BOOLEAN, revision : Nat, text : 0..MaxEdits]
    /\ run \in [Runs -> Outcomes \cup {"running"}] /\ explained \in Nat
    /\ mu \in Runs \cup {Unholder, Nobody} /\ at \in {"free", "note", "save", "explain"}
    /\ reports \in [Runs -> 0..MaxReports] /\ Len(finished) <= Cardinality(Runs)

\* "a stale snapshot never overwrites an unrelated field": what another client
\* has written stays, whatever handlers save after it.
EditStays == item.text = edits

\* The failures in a row at the end of a sequence of outcomes.
FailedInARow(s) == Cardinality({i \in 1..Len(s) : \A j \in i..Len(s) : s[j] = "failed"})

\* A run's failure counts once, however often its end is reported and however
\* the reports, the owner and other clients interleave: an item is never held
\* for fewer failed runs than that.
CountedOnce == item.failures <= Cardinality({i \in 1..Len(finished) : finished[i] = "failed"})

-----------------------------------------------------------------------------
\* "a failed run raises it" (noteRunOutcome): with no handler under way and
\* nobody having released the item, its count is that of the failed runs in a
\* row.
EveryFailureCounts ==
    mu = Nobody /\ releases = 0 => item.failures = FailedInARow(finished)
=============================================================================

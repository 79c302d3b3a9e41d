----------------------------- MODULE MCProjects -----------------------------
(***************************************************************************)
(* For TLC: three parts of projects that share no state, checked in one    *)
(* run.  A behaviour is of one part and the others stay as they began.     *)
(***************************************************************************)
EXTENDS WakeWait, Sequences

CONSTANTS
    Agents, Owner, Working, Bodies, Posts, Items, Chats, Projects, General,
    MaxMentionAttempts, MaxWrites, MaxRepeats, MaxFailures,
    Runs, MaxItemFailures, MaxReports, MaxEdits, MaxReleases, MaxMishaps, Nobody

VARIABLES
    author, names, whole, project, active, mentions, handed, work, writes, failures,
    item, run, explained, mu, at, snapshot, reports, edits, releases, mishaps, finished,
    part        \* whose behaviour this is

M == INSTANCE Mentions
R == INSTANCE RunRecords

ASSUME ProjectsAssumption == M!MentionsAssumption /\ R!RunRecordsAssumption

Parts == {"wait", "mentions", "runs"}
mentionsVars == <<author, names, whole, project, active, mentions, handed, work, writes, failures>>
runsVars == <<item, run, explained, mu, at, snapshot, reports, edits, releases, mishaps, finished>>
allVars == <<vars, mentionsVars, runsVars, part>>

ProjectsInit ==
    /\ part \in Parts
    /\ Init /\ (part = "wait" \/ rowIn \cup hasJob = {})
    /\ M!Init /\ (part = "mentions" \/ \A r \in Items \cup Chats : project[r] # General)
    /\ R!Init

WaitPart == part = "wait" /\ Next /\ UNCHANGED <<mentionsVars, runsVars, part>>
MentionsPart == part = "mentions" /\ M!Next /\ UNCHANGED <<vars, runsVars, part>>
RunsPart == part = "runs" /\ R!Next /\ UNCHANGED <<vars, mentionsVars, part>>
\* Mentions and runs come to a stop when their bounds are used up.
Stops == part # "wait" /\ UNCHANGED allVars

ProjectsSpec ==
    /\ ProjectsInit /\ [][WaitPart \/ MentionsPart \/ RunsPart \/ Stops]_allVars
    /\ \A w \in Waiters : WF_vars(part = "wait" /\ WaitRuns(w))
    /\ \A h \in Handlers :
         WF_vars(part = "wait" /\ Wake(h)) /\ WF_vars(part = "wait" /\ Unlock(h))
    /\ \A a \in Agents : WF_mentionsVars(part = "mentions" /\ M!CheckIn(a))

-----------------------------------------------------------------------------
\* The board's rows: types, and a row for each name in a body and no other.
MentionsInv == M!MentionsTypeOK /\ M!MentionsFollowBody
\* A mention that stands keeps its attempts and its answer, and mentions do
\* not keep an agent from its item for ever.
MentionsAreServed == M!RowsKeepState /\ M!WorkComesThrough
\* Run outcomes: types, other clients' edits stay, no outcome counts twice.
RunRecordsInv == R!RunRecordsTypeOK /\ R!EditStays /\ R!CountedOnce
=============================================================================

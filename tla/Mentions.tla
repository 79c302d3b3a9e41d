------------------------------ MODULE Mentions ------------------------------
(***************************************************************************)
(* The mentions of the tracker (projects/board.go): what is said on posts, *)
(* on items and in chat rooms makes a row for every agent it names; an     *)
(* edit of a post or an item brings its rows in line with its new body; an *)
(* agent's own words in the room close its rows; and a check-in hands them *)
(* out before any item, each at most MaxMentionAttempts times.  The        *)
(* service's mutex makes a handler one step; one that is not a transaction *)
(* may fail half way.                                                      *)
(***************************************************************************)
EXTENDS Integers, FiniteSets

CONSTANTS
    Agents, Owner,
    Working,                \* bound: the agents that write and have items to work on
    Bodies,                 \* bound: whom a body or a line may name
    Posts, Items, Chats,    \* the rooms; posts and items have a body that is edited
    Projects, General,      \* General: the project of the general room
    MaxMentionAttempts,
    MaxWrites,              \* bound: posts, items, edits and lines that are written,
    MaxRepeats,             \* the last of them only edits of items
    MaxFailures             \* bound: failing writes and jobs that cannot be built

Sources == Posts \cup Items
Rooms == Sources \cup Chats
Line == "line"
NoOne == "no one"

MentionsAssumption ==
    /\ {Owner, NoOne} \cap Agents = {} /\ Owner # NoOne
    /\ General \notin Projects /\ Line \notin Sources /\ Working \subseteq Agents
    /\ Bodies \subseteq SUBSET Agents
    /\ MaxMentionAttempts \in Nat \ {0} /\ {MaxWrites, MaxRepeats} \subseteq Nat

VARIABLES
    author, names,  \* of each post and item: who wrote it, and whom its body names
    whole,          \* its last edit came to its end, and by whom it was
    project,        \* of each room
    active,         \* projects that are not archived
    mentions,       \* rows
    handed,         \* how often each row's job was handed out
    work,           \* each agent's item
    writes, failures

board == <<author, names, whole>>
vars == <<board, project, active, mentions, handed, work, writes, failures>>

Actors == Agents \cup {Owner}
Writers == Working \cup {Owner}

Row(a, room, source) ==
    [agent |-> a, room |-> room, source |-> source, project |-> project[room],
     born |-> writes, attempts |-> 0, answered |-> FALSE]
Key(m) == <<m.agent, m.born>>       \* a handler makes one row an agent
RowsOf(e) == {m \in mentions : m.source = e}

Writes(spare) == writes + spare < MaxWrites /\ writes' = writes + 1
Fails == failures < MaxFailures /\ failures' = failures + 1

\* mentionNames: everyone in the body but the one who writes.
MentionNames(body, writer) == body \ {writer}

-----------------------------------------------------------------------------
\* CreatePost and CreateItem: the row, then one mention after the other.
Create(e, writer, body) ==
    /\ author[e] = NoOne
    /\ Writes(MaxRepeats)
    /\ \E S \in SUBSET MentionNames(body, writer) :
         /\ IF S = MentionNames(body, writer) THEN UNCHANGED failures ELSE Fails
         /\ whole' = [whole EXCEPT ![e] = IF S = MentionNames(body, writer) THEN writer ELSE NoOne]
         /\ mentions' = mentions \cup {Row(a, e, e) : a \in S}
    /\ author' = [author EXCEPT ![e] = writer] /\ names' = [names EXCEPT ![e] = body]
    /\ UNCHANGED <<project, active, handed, work>>

\* Fault: all rows of the source are made anew.
SyncMentionsAnew(e, wanted, rows) ==
    rows = (mentions \ RowsOf(e)) \cup {Row(a, e, e) : a \in wanted}

\* Fault: the rows of names that are gone stay.
SyncMentionsAddsOnly(e, wanted, rows) ==
    rows = mentions \cup {Row(a, e, e) : a \in wanted \ {m.agent : m \in RowsOf(e)}}

\* syncMentions leaves a row of a name that stays as it is; the others go, and
\* after that new names get one.
Kept(e, wanted) ==
    {keep \in SUBSET RowsOf(e) :
        /\ {m.agent : m \in keep} = wanted \cap {m.agent : m \in RowsOf(e)}
        /\ \A m, n \in keep : m.agent = n.agent => m = n}

SyncMentions(e, wanted, rows) ==
    \E keep \in Kept(e, wanted) :
      rows = (mentions \ RowsOf(e)) \cup keep
                \cup {Row(a, e, e) : a \in wanted \ {m.agent : m \in keep}}

\* The query, a deletion or an insertion fails: some rows have gone, or all of
\* them and some new ones have come.
SyncMentionsBreaksOff(e, wanted, rows) ==
    \E keep \in Kept(e, wanted) :
      \/ \E left \in SUBSET RowsOf(e) : keep \subseteq left /\ rows = (mentions \ RowsOf(e)) \cup left
      \/ LET new == wanted \ {m.agent : m \in keep}
         IN  \E some \in (SUBSET new) \ {new} :
               rows = (mentions \ RowsOf(e)) \cup keep \cup {Row(a, e, e) : a \in some}

\* UpdatePost, by its author or the owner, is a transaction.
UpdatePost(e, editor, body) ==
    /\ author[e] # NoOne /\ editor \in {Owner, author[e]}
    /\ Writes(MaxRepeats)
    /\ SyncMentions(e, MentionNames(body, editor), mentions')
    /\ names' = [names EXCEPT ![e] = body] /\ whole' = [whole EXCEPT ![e] = editor]
    /\ UNCHANGED <<author, project, active, handed, work, failures>>

\* UpdateItem is not: the item is saved, and its rows may be left half way.
UpdateItem(e, body) ==
    /\ author[e] # NoOne
    /\ Writes(0)
    /\ \/ /\ SyncMentions(e, MentionNames(body, Owner), mentions')
          /\ whole' = [whole EXCEPT ![e] = Owner] /\ UNCHANGED failures
       \/ /\ Fails /\ whole' = [whole EXCEPT ![e] = NoOne]
          /\ SyncMentionsBreaksOff(e, MentionNames(body, Owner), mentions')
    /\ names' = [names EXCEPT ![e] = body]
    /\ UNCHANGED <<author, project, active, handed, work>>

Answer(m) == [m EXCEPT !.answered = TRUE]

\* addComment and postChat: rows for the names, then an agent's own open rows
\* of the room are answered.  On a post it is a transaction.
Say(room, speaker, body) ==
    /\ room \in Sources => author[room] # NoOne
    /\ Writes(MaxRepeats)
    /\ LET all == MentionNames(body, speaker)
           mine == {m \in mentions : m.agent = speaker /\ m.room = room}
       IN \/ /\ UNCHANGED failures
             /\ mentions' = (mentions \ mine) \cup {Answer(m) : m \in mine}
                                \cup {Row(a, room, Line) : a \in all}
          \/ /\ Fails /\ room \notin Posts
             /\ \/ \E S \in (SUBSET all) \ {all} :
                     mentions' = mentions \cup {Row(a, room, Line) : a \in S}
                \/ \E D \in (SUBSET mine) \ {mine} :
                     mentions' = (mentions \ D) \cup {Answer(m) : m \in D}
                                    \cup {Row(a, room, Line) : a \in all}
    /\ UNCHANGED <<board, project, active, handed, work>>

\* MarkMentionAnswered, the runner's call when a respond job ends.
MarkMentionAnswered(m) ==
    /\ ~m.answered
    /\ mentions' = (mentions \ {m}) \cup {Answer(m)}
    /\ UNCHANGED <<board, project, active, handed, work, writes, failures>>

-----------------------------------------------------------------------------
Served(m) == m.project = General \/ m.project \in active

\* What candidates lists first, oldest first.
Unanswered(a) ==
    {m \in mentions : m.agent = a /\ ~m.answered /\ m.attempts < MaxMentionAttempts /\ Served(m)}
Oldest(rows) == {m \in rows : \A n \in rows : m.born <= n.born}

\* CheckIn with a slot to spare: a mention is counted and then its job is
\* built, which may fail; without mentions the agent's item is claimed.
CheckIn(a) ==
    /\ work[a] # "taken"
    /\ \/ \E m \in Oldest(Unanswered(a)) :
            /\ mentions' = (mentions \ {m}) \cup {[m EXCEPT !.attempts = @ + 1]}
            /\ \/ handed' = [handed EXCEPT ![Key(m)] = @ + 1] /\ UNCHANGED failures
               \/ Fails /\ UNCHANGED handed
            /\ UNCHANGED work
       \/ /\ Unanswered(a) = {} /\ work[a] = "waiting"
          /\ work' = [work EXCEPT ![a] = "taken"]
          /\ UNCHANGED <<mentions, handed, failures>>
    /\ UNCHANGED <<board, project, active, writes>>

WorkComes(a) ==
    /\ a \in Working /\ work[a] = "none" /\ work' = [work EXCEPT ![a] = "waiting"]
    /\ UNCHANGED <<board, project, active, mentions, handed, writes, failures>>

WorkEnds(a) ==
    /\ work[a] = "taken" /\ work' = [work EXCEPT ![a] = "none"]
    /\ UNCHANGED <<board, project, active, mentions, handed, writes, failures>>

Archive(p) ==
    /\ active' = IF p \in active THEN active \ {p} ELSE active \cup {p}
    /\ UNCHANGED <<board, project, mentions, handed, work, writes, failures>>

\* UpdateItem with another project.
Move(e, p) ==
    /\ p \in active /\ project[e] # p
    /\ project' = [project EXCEPT ![e] = p]
    /\ UNCHANGED <<board, active, mentions, handed, work, writes, failures>>

-----------------------------------------------------------------------------
Init ==
    /\ author = [e \in Sources |-> NoOne] /\ names = [e \in Sources |-> {}]
    /\ whole = [e \in Sources |-> NoOne]
    /\ project \in {f \in [Rooms -> Projects \cup {General}] : \A e \in Sources : f[e] # General}
    /\ active = Projects /\ mentions = {} /\ writes = 0 /\ failures = 0
    /\ handed = [k \in Agents \X (0..MaxWrites) |-> 0]
    /\ work = [a \in Agents |-> "none"]

Next ==
    \/ \E body \in Bodies :
         \/ \E e \in Sources, w \in Writers : Create(e, w, body)
         \/ \E e \in Posts, w \in Writers : UpdatePost(e, w, body)
         \/ \E e \in Items : UpdateItem(e, body)
         \/ \E r \in Rooms, w \in Writers : Say(r, w, body)
    \/ \E m \in mentions : MarkMentionAnswered(m)
    \/ \E a \in Agents : CheckIn(a) \/ WorkComes(a) \/ WorkEnds(a)
    \/ \E p \in Projects : Archive(p) \/ \E e \in Items : Move(e, p)

Spec == Init /\ [][Next]_vars
\* A runner checks in again and again.
FairSpec == Spec /\ \A a \in Agents : WF_vars(CheckIn(a))

-----------------------------------------------------------------------------
MentionsTypeOK ==
    /\ author \in [Sources -> Actors \cup {NoOne}] /\ names \in [Sources -> SUBSET Agents]
    /\ whole \in [Sources -> Actors \cup {NoOne}]
    /\ project \in [Rooms -> Projects \cup {General}] /\ active \subseteq Projects
    /\ mentions \subseteq [agent : Agents, room : Rooms, source : Sources \cup {Line},
                           project : Projects \cup {General}, born : 0..MaxWrites,
                           attempts : 0..MaxMentionAttempts, answered : BOOLEAN]
    /\ handed \in [Agents \X (0..MaxWrites) -> 0..MaxMentionAttempts]
    /\ work \in [Agents -> {"none", "waiting", "taken"}]

\* After an edit that came to its end, whatever failed before it, a source has
\* one row for each name in its body but its editor's, and no others.
MentionsFollowBody ==
    \A e \in Sources : whole[e] # NoOne =>
        /\ {m.agent : m \in RowsOf(e)} = names[e] \ {whole[e]}
        /\ \A m, n \in RowsOf(e) : m.agent = n.agent => m = n

\* "Unchanged mentions retain their attempts and answer state": nothing that
\* is said or edited opens a row again or gives it its attempts back.
RowsKeepState ==
    [][\A m \in mentions : \/ \E n \in mentions' : Key(n) = Key(m) /\ n.attempts >= m.attempts
                                                    /\ (m.answered => n.answered)
                           \/ m.source # Line /\ (m.agent \notin names'[m.source]
                                                  \/ m.agent = whole'[m.source])]_vars

\* Mentions come before items and may fail for ever to become a job: they
\* must not keep the agent from its item.
WorkComesThrough == \A a \in Agents : work[a] = "waiting" ~> work[a] = "taken"

-----------------------------------------------------------------------------
\* "caps how often a respond job is handed out for one mention before it is
\* left alone" (MaxMentionAttempts): one that is left alone was handed out.
LeftAloneWasHanded ==
    \A m \in mentions : m.attempts = MaxMentionAttempts => handed[Key(m)] = MaxMentionAttempts

\* "mentions count in any active project" (candidates): an open mention on an
\* item of an active project is on its agent's queue.
ActiveIsServed ==
    \A m \in mentions : ~m.answered /\ m.attempts < MaxMentionAttempts /\ project[m.room] \in active
        => m \in Unanswered(m.agent)

\* "except the author mentioning themself" (recordMentions)
NoSelfMention == \A m \in mentions : m.source # Line => m.agent # author[m.source]
=============================================================================

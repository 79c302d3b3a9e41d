-------------------------- MODULE TelegramWorkers --------------------------
(***************************************************************************)
(* The telegram worker of one agent in apps/agent_manager.  StartAgent and *)
(* StopAgent install and remove a worker under the manager's lock and      *)
(* start and stop it outside; workers and tool calls share one poller,     *)
(* created on demand; what the poller fetches goes to its callback in a    *)
(* goroutine of its own, which stores the messages and nudges the agent.   *)
(***************************************************************************)
EXTENDS Integers, FiniteSets, FiniteSetsExt

CONSTANTS
    Workers,        \* bound: the calls of StartAgent, each with its worker
    Calls,          \* bound: tool calls that need the poller
    Stops,          \* bound: the calls of StopAgent
    Tokens, None,   \* bot tokens
    MaxMessages,    \* bound: messages sent to a bot
    MaxRestarts,    \* bound: restarts of the manager
    MayFail         \* whether services may answer with errors

Actors == Workers \cup Calls        \* each creates at most one poller
TelegramAssumption ==
    /\ None \notin Actors \cup Tokens
    /\ MaxMessages \in Nat /\ MaxRestarts \in Nat /\ MayFail \in BOOLEAN

VARIABLES
    token,          \* in the agent's row, None when it has none
    installed,      \* the worker in the manager's map
    pollerOf,       \* the poller in the broker's map, named by its creator
    at, uses,       \* how far each actor has come, and the poller it holds
    poller,         \* token, callback and last update of each poller
    polling,        \* the pollers whose loop runs
    stopper,        \* what each StopAgent has come to, and the worker it removed
    sent, confirmed,\* updates a bot has got, and those it will not give again
    storing,        \* goroutines of callbacks
    rows,           \* rows stored of each update
    recent,         \* workers whose last heartbeat is not thirty seconds old
    unheard,        \* a message was stored after the last heartbeat
    unchecked,      \* history: updates whose query for duplicates has failed
    restarts

people == <<token, installed, pollerOf, at, uses, poller, polling, stopper>>
mail == <<sent, confirmed, storing, rows, recent, unheard, unchecked>>
vars == <<people, mail, restarts>>

Fresh == [token |-> None, callback |-> None, last |-> 0]
Idle == [at |-> "away", of |-> None]

-----------------------------------------------------------------------------
\* A request starts the agent, with its row changed before or not.
Request(w) ==
    /\ at[w] = "away"
    /\ token' \in Tokens \cup {None}
    /\ at' = [at EXCEPT ![w] = "called"]
    /\ UNCHANGED <<installed, pollerOf, uses, poller, polling, stopper, mail, restarts>>

\* StartAgent leaves everything as it is when the row has no token.
ReadConfig(w) ==
    /\ at[w] = "called"
    /\ at' = [at EXCEPT ![w] = IF token = None THEN "gone" ELSE "configured"]
    /\ UNCHANGED <<token, installed, pollerOf, uses, poller, polling, stopper, mail, restarts>>

\* Fault: a worker is stopped without its callback being cleared.
StopOnlyCancels(w) == UNCHANGED poller

\* Stop clears whatever callback the worker's poller has by then.
Stop(w) == poller' = IF w = None \/ uses[w] = None THEN poller
                     ELSE [poller EXCEPT ![uses[w]].callback = None]

Install(w) ==
    /\ at[w] = "configured"
    /\ Stop(installed)
    /\ installed' = w
    /\ at' = [at EXCEPT ![w] = "installed"]
    /\ UNCHANGED <<token, pollerOf, uses, polling, stopper, mail, restarts>>

Served(a) == IF a \in Workers THEN "located" ELSE "gone"

\* getOrCreateTelegram: the installed worker's poller, or the broker's.
Locate(a) ==
    /\ at[a] = IF a \in Workers THEN "installed" ELSE "away"
    /\ LET found == IF installed # None /\ uses[installed] # None THEN uses[installed] ELSE pollerOf IN
       IF found # None
       THEN at' = [at EXCEPT ![a] = Served(a)] /\ uses' = [uses EXCEPT ![a] = found]
       ELSE at' = [at EXCEPT ![a] = "missing"] /\ UNCHANGED uses
    /\ UNCHANGED <<token, installed, pollerOf, poller, polling, stopper, mail, restarts>>

Create(a) ==
    /\ at[a] = "missing" /\ token # None
    /\ poller' = [poller EXCEPT ![a] = [Fresh EXCEPT !.token = token]]
    /\ polling' = polling \cup {a}
    /\ at' = [at EXCEPT ![a] = "created"]
    /\ UNCHANGED <<token, installed, pollerOf, uses, stopper, mail, restarts>>

\* The worker stays installed without a poller.
CreateFails(a) ==
    /\ at[a] = "missing" /\ (token = None \/ MayFail)
    /\ at' = [at EXCEPT ![a] = "gone"]
    /\ UNCHANGED <<token, installed, pollerOf, uses, poller, polling, stopper, mail, restarts>>

\* The double check: the first poller stays, a second is stopped.
EnterPoller(a) ==
    /\ at[a] = "created"
    /\ pollerOf' = IF pollerOf = None THEN a ELSE pollerOf
    /\ polling' = IF pollerOf = None THEN polling ELSE polling \ {a}
    /\ uses' = [uses EXCEPT ![a] = pollerOf']
    /\ at' = [at EXCEPT ![a] = Served(a)]
    /\ UNCHANGED <<token, installed, poller, stopper, mail, restarts>>

SetCallback(w) ==
    /\ at[w] = "located"
    /\ poller' = [poller EXCEPT ![uses[w]].callback = w]
    /\ at' = [at EXCEPT ![w] = "running"]
    /\ UNCHANGED <<token, installed, pollerOf, uses, polling, stopper, mail, restarts>>

\* StopAgent: removes with the lock held, and stops after.
Remove(x) ==
    /\ stopper[x].at = "away"
    /\ stopper' = [stopper EXCEPT ![x] = IF installed = None THEN [at |-> "gone", of |-> None]
                                         ELSE [at |-> "removed", of |-> installed]]
    /\ installed' = None
    /\ UNCHANGED <<token, pollerOf, at, uses, poller, polling, mail, restarts>>

StopRemoved(x) ==
    /\ stopper[x].at = "removed"
    /\ Stop(stopper[x].of)
    /\ stopper' = [stopper EXCEPT ![x].at = "gone"]
    /\ UNCHANGED <<token, installed, pollerOf, at, uses, polling, mail, restarts>>

-----------------------------------------------------------------------------
Send(t) ==
    /\ sent[t] < MaxMessages
    /\ sent' = [sent EXCEPT ![t] = @ + 1]
    /\ UNCHANGED <<people, confirmed, storing, rows, recent, unheard, unchecked, restarts>>

\* fetchUpdates: asking from the last update on confirms those before it.
Fetch(p) ==
    LET t == poller[p].token
        seen == Max({confirmed[t], poller[p].last})
        new == seen + 1 .. sent[t]
    IN  /\ p \in polling
        /\ new # {} \/ poller[p].last > confirmed[t]
        /\ confirmed' = [confirmed EXCEPT ![t] = seen]
        /\ poller' = [poller EXCEPT ![p].last = Max({@, sent[t]})]
        /\ storing' = IF poller[p].callback = None \/ new = {} THEN storing
                      ELSE storing \cup {[for |-> poller[p].callback, ids |-> new,
                                          inserting |-> 0, stored |-> FALSE]}
        /\ UNCHANGED <<token, installed, pollerOf, at, uses, polling, stopper,
                       sent, rows, recent, unheard, unchecked, restarts>>

Becomes(g, h) == storing' = (storing \ {g}) \cup h

\* handleNewMessages, one message after the other: the query for duplicates,
\* which says that there are none when it fails (and makes a difference then
\* where there is a row), ...
LookUp(g) ==
    /\ g.inserting = 0 /\ g.ids # {}
    /\ LET n == Min(g.ids)
           Inserts(m) == Becomes(g, {[g EXCEPT !.inserting = m, !.ids = @ \ {n}]})
       IN  \/ Inserts(IF rows[n] > 0 THEN 0 ELSE n) /\ UNCHANGED unchecked
           \/ MayFail /\ rows[n] > 0 /\ Inserts(n) /\ unchecked' = unchecked \cup {n}
    /\ UNCHANGED <<people, sent, confirmed, rows, recent, unheard, restarts>>

\* ... the insertion, which may fail, ...
Insert(g) ==
    /\ g.inserting # 0
    /\ \/ /\ rows' = [rows EXCEPT ![g.inserting] = @ + 1]
          /\ unheard' = TRUE
          /\ Becomes(g, {[g EXCEPT !.inserting = 0, !.stored = TRUE]})
       \/ /\ MayFail /\ Becomes(g, {[g EXCEPT !.inserting = 0]})
          /\ UNCHANGED <<rows, unheard>>
    /\ UNCHANGED <<people, sent, confirmed, recent, unchecked, restarts>>

\* ... and the heartbeat, if the worker has sent none in thirty seconds.
Nudge(g) ==
    /\ g.inserting = 0 /\ g.ids = {}
    /\ Becomes(g, {})
    /\ IF g.stored /\ g.for \notin recent
       THEN recent' = recent \cup {g.for} /\ unheard' \in {FALSE} \cup {MayFail}
       ELSE UNCHANGED <<recent, unheard>>
    /\ UNCHANGED <<people, sent, confirmed, rows, unchecked, restarts>>

TimePasses(w) ==
    /\ w \in recent
    /\ recent' = recent \ {w}
    /\ UNCHANGED <<people, sent, confirmed, storing, rows, unheard, unchecked, restarts>>

Restart ==
    /\ restarts < MaxRestarts /\ restarts' = restarts + 1
    /\ installed' = None /\ pollerOf' = None /\ polling' = {} /\ storing' = {} /\ recent' = {}
    /\ at' = [a \in Actors |-> "away"] /\ uses' = [a \in Actors |-> None]
    /\ poller' = [a \in Actors |-> Fresh] /\ stopper' = [x \in Stops |-> Idle]
    /\ UNCHANGED <<token, sent, confirmed, rows, unheard, unchecked>>

-----------------------------------------------------------------------------
Init ==
    /\ token \in Tokens /\ installed = None /\ pollerOf = None
    /\ at = [a \in Actors |-> "away"] /\ uses = [a \in Actors |-> None]
    /\ poller = [a \in Actors |-> Fresh] /\ polling = {} /\ stopper = [x \in Stops |-> Idle]
    /\ sent = [t \in Tokens |-> 0] /\ confirmed = [t \in Tokens |-> 0]
    /\ storing = {} /\ rows = [n \in 1..MaxMessages |-> 0]
    /\ recent = {} /\ unheard = FALSE /\ unchecked = {} /\ restarts = 0

Handles(g) == LookUp(g) \/ Insert(g) \/ Nudge(g)
Starts(w) == ReadConfig(w) \/ Install(w) \/ Locate(w) \/ Create(w) \/ EnterPoller(w) \/ SetCallback(w)

Next ==
    \/ \E w \in Workers : Request(w) \/ ReadConfig(w) \/ Install(w) \/ SetCallback(w) \/ TimePasses(w)
    \/ \E a \in Actors : Locate(a) \/ Create(a) \/ CreateFails(a) \/ EnterPoller(a) \/ Fetch(a)
    \/ \E x \in Stops : Remove(x) \/ StopRemoved(x)
    \/ \E t \in Tokens : Send(t)
    \/ \E g \in storing : Handles(g)
    \/ Restart

Spec == Init /\ [][Next]_vars

\* Loops and goroutines go on, and time passes.
FairSpec ==
    /\ Spec
    /\ WF_vars(\E g \in storing : Handles(g))
    /\ \A w \in Workers : WF_vars(Starts(w)) /\ WF_vars(TimePasses(w))
    /\ \A a \in Actors : WF_vars(Fetch(a))

-----------------------------------------------------------------------------
TelegramTypeOK ==
    /\ token \in Tokens \cup {None} /\ installed \in Workers \cup {None}
    /\ pollerOf \in Actors \cup {None} /\ uses \in [Actors -> Actors \cup {None}]
    /\ at \in [Actors -> {"away", "called", "configured", "installed", "missing", "created",
                          "located", "running", "gone"}]
    /\ poller \in [Actors -> [token : Tokens \cup {None}, callback : Workers \cup {None},
                              last : 0..MaxMessages]]
    /\ polling \subseteq Actors /\ recent \subseteq Workers /\ unheard \in BOOLEAN
    /\ stopper \in [Stops -> [at : {"away", "removed", "gone"}, of : Workers \cup {None}]]
    /\ sent \in [Tokens -> 0..MaxMessages] /\ confirmed \in [Tokens -> 0..MaxMessages]
    /\ storing \subseteq [for : Workers, ids : SUBSET (1..MaxMessages),
                          inserting : 0..MaxMessages, stored : BOOLEAN]
    /\ rows \in [1..MaxMessages -> Nat] /\ unchecked \subseteq 1..MaxMessages
    /\ restarts \in 0..MaxRestarts

\* However many workers and tool calls look for a poller at once, the one in
\* the map polls, and beside it only one whose creator is yet to look again:
\* two pollers of one bot would take each other's updates.
OnePoller == polling = {a \in Actors : a = pollerOf \/ at[a] = "created"}

\* A message is stored once, also when a restart has the bot send it again; a
\* query that failed may add a row, but not more than one for each restart: no
\* goroutine of one process has what another has.
StoredOnce == \A n \in 1..MaxMessages : rows[n] <= IF n \in unchecked THEN 1 + restarts ELSE 1

\* A StopAgent that has returned leaves no callback of the worker it removed,
\* if that worker had been started.
StoppedIsSilent ==
    [][\A x \in Stops : StopRemoved(x) =>
         LET w == stopper[x].of IN at[w] = "running" => \A p \in Actors : poller'[p].callback # w]_vars

-----------------------------------------------------------------------------
Settled == /\ \A w \in Workers : at[w] \in {"away", "running", "gone"}
           /\ \A x \in Stops : stopper[x].at # "removed"

\* "to avoid stale worker races" (Stop): with no request under way the only
\* callback is that of the installed worker, ...
NoStaleCallback == Settled => \A p \in Actors : poller[p].callback \in {None, installed}

\* ... and an installed worker that was started has it.
InstalledListens ==
    Settled /\ installed # None /\ at[installed] = "running"
        => poller[uses[installed]].callback = installed

\* "Keep background workers aligned with the latest runtime config."
\* (handlers_agents.go)
AlignedWithConfig ==
    Settled /\ installed # None /\ at[installed] = "running" => poller[uses[installed]].token = token

\* "deduplicated by UpdateID" (agent_data/models.go)
Deduplicated == \A n \in 1..MaxMessages : rows[n] <= 1

\* handleNewMessages "stores messages in the database and sends a heartbeat".
StoredIsHeard == unheard ~> ~unheard
=============================================================================

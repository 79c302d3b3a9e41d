------------------------------ MODULE MCQueue ------------------------------
(***************************************************************************)
(* For TLC: the three ways a message takes to an agent - the job queue,    *)
(* the relay of its session and its Telegram worker - checked in one run.  *)
(* A behaviour is of one of them and the others stay as they began.        *)
(***************************************************************************)
EXTENDS A2AQueue, Integers, TLC

CONSTANTS
    Sessions, Clients, Stoppers, Capacity,
    Workers, Calls, Stops, Tokens, MaxMessages, MaxRestarts, MayFail

VARIABLES
    hub, stage, queued, clients, client, hungUp, relayJob, courier, stopper,
    token, installed, pollerOf, at, uses, poller, polling, stopping,
    sent, confirmed, storing, rows, recent, unheard, unchecked, restarts,
    part        \* whose behaviour this is

R == INSTANCE Relay WITH job <- relayJob
T == INSTANCE TelegramWorkers WITH stopper <- stopping

ASSUME DeliveryAssumption == R!RelayAssumption /\ T!TelegramAssumption

relayVars == <<hub, stage, queued, clients, client, hungUp, relayJob, courier, stopper>>
telegramVars == <<token, installed, pollerOf, at, uses, poller, polling, stopping,
                  sent, confirmed, storing, rows, recent, unheard, unchecked, restarts>>
allVars == <<vars, relayVars, telegramVars, part>>

QueueInit == part \in {"queue", "relay", "telegram"} /\ Init /\ R!Init /\ T!Init

QueuePart == part = "queue" /\ Next /\ UNCHANGED <<relayVars, telegramVars, part>>
RelayPart == part = "relay" /\ R!Next /\ UNCHANGED <<vars, telegramVars, part>>
TelegramPart == part = "telegram" /\ T!Next /\ UNCHANGED <<vars, relayVars, part>>
\* Sessions, calls and messages are bounded: two of the parts come to a stop.
ComesToRest == part # "queue" /\ UNCHANGED allVars

QueueSpec ==
    QueueInit /\ [][QueuePart \/ RelayPart \/ TelegramPart \/ ComesToRest]_allVars

Alike == Permutations(Jobs) \cup Permutations(Agents) \cup Permutations(Workers)

-----------------------------------------------------------------------------
\* Types; no claimed job is left to a relay session that is over; there is one
\* Telegram loop for a token, and one row for a message but for lookups that fail.
DeliveryInv ==
    /\ R!RelayTypeOK /\ R!NoClaimLeftBehind
    /\ T!TelegramTypeOK /\ T!OnePoller /\ T!StoredOnce

\* A StopAgent that has returned leaves no callback of the worker it removed:
\* the Telegram worker that was stopped hears of no message any more.
StoppedIsSilent == T!StoppedIsSilent
=============================================================================

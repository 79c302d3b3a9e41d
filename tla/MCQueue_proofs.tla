--------------------------- MODULE MCQueue_proofs ---------------------------
(***************************************************************************)
(* The queue keeps one job per agent and its rows whole, cancellations     *)
(* included, and without them it implements JobBoard.  No claim is left to *)
(* a relay session that is over.  One poller asks for a bot's updates,     *)
(* each message has one row at most, and a Telegram worker that was        *)
(* stopped hears of none.  All of it for any number of jobs, agents,       *)
(* couriers, sessions, browsers, requests, workers and messages.           *)
(***************************************************************************)
EXTENDS MCQueue, WellFoundedInduction, TLAPS

-----------------------------------------------------------------------------
\* The job queue.

\* Who holds the mutex for a claim or a return is on such an errand.
CallerRight ==
    /\ mutexOp \in {"expire", "read", "claim"} /\ caller \in Couriers => errand[caller].at = "picked"
    /\ mutexOp = "return" /\ caller \in Couriers => errand[caller].at = "return"

\* What is about to be written: whole rows, at most one claim among them, and
\* that for an agent without another.  The mutex keeps it so until the write.
PendingRight ==
    /\ mutexOp \in {"free", "read"} => pending = NothingPending
    /\ \A j \in Jobs : Whole(pending[j])
    /\ \A j \in Jobs : pending[j].status = "claimed" =>
          /\ ~BusyOther(pending[j].by, j)
          /\ \A i \in Jobs \ {j} : pending[i] = Absent

A2AQueueIInv ==
    /\ A2AQueueTypeOK
    /\ CallerRight
    /\ RowsWhole
    /\ PendingRight
    /\ OneJobPerAgent

LEMMA A2AQueueInit == Init => A2AQueueIInv
  BY NamesApart DEF Init, A2AQueueIInv, A2AQueueTypeOK, CallerRight, RowsWhole, PendingRight,
     OneJobPerAgent, Whole, LiveClaim, BusyOther, NothingPending, Absent, Idle, Row

\* A lease that passes touches its row's lease, which was there, and no other.
LEMMA LeaseOnly ==
  ASSUME A2AQueueTypeOK, NEW j \in Jobs, LeasePasses(j)
  PROVE  /\ UNCHANGED <<mutexOp, caller, pending, errand, up, told, delivered, cancelling>>
         /\ job' \in [Jobs -> Row]
         /\ \A i \in Jobs : /\ job'[i].status = job[i].status
                            /\ job'[i].to = job[i].to /\ job'[i].by = job[i].by
                            /\ job'[i].lease = "none" <=> job[i].lease = "none"
                            /\ job[i].lease = "over" => job'[i].lease = "over"
  <1>1. PICK l \in {"due", "over"} :
          /\ job' = [job EXCEPT ![j].lease = l]
          /\ job[j].lease \in {"live", "due"}
    BY DEF LeasePasses
  <1>2. \A i \in Jobs : job[i] \in Row
    BY DEF A2AQueueTypeOK
  <1>3. job'[j] = [job[j] EXCEPT !.lease = l]
    BY <1>1 DEF A2AQueueTypeOK
  <1>4. \A i \in Jobs \ {j} : job'[i] = job[i]
    BY <1>1 DEF A2AQueueTypeOK
  <1>5. /\ job'[j] \in Row /\ job'[j].lease = l
        /\ job'[j].status = job[j].status /\ job'[j].to = job[j].to /\ job'[j].by = job[j].by
    BY <1>2, <1>3 DEF Row
  <1>6. job' \in [Jobs -> Row]
    BY <1>1, <1>2, <1>4, <1>5 DEF A2AQueueTypeOK
  <1> QED BY <1>1, <1>4, <1>5, <1>6 DEF LeasePasses, sessions

LEMMA TypeStep ==
  ASSUME A2AQueueTypeOK, CallerRight, [CancelNext]_vars
  PROVE  A2AQueueTypeOK'
  <1> USE NamesApart DEF A2AQueueTypeOK, CallerRight, Row, Absent, Queued, Claimed, Idle, NothingPending,
      LiveClaim, sessions
  <1>1. CASE \E j \in Jobs : Submit(j)
      BY <1>1 DEF Submit
  <1>2. CASE Write
    <2>1. \A j \in Jobs : Overlaid[j] \in Row
      BY DEF Overlaid
    <2>2. job' \in [Jobs -> Row] /\ pending' \in [Jobs -> Row] /\ delivered' \subseteq Jobs
      BY <1>2, <2>1 DEF Write, Overlaid, Unheld
    <2>3. errand' \in [Couriers -> {Idle} \cup [at : {"picked", "claimed", "return"},
                                               to : Agents, job : Jobs]]
      BY <1>2 DEF Write
    <2>4. /\ told' \in [Agents -> SUBSET Jobs]
          /\ mutexOp' \in {"free", "read"} /\ caller' \in Couriers \cup Agents \cup {None}
      BY <1>2 DEF Write, Unheld, Overwritten
    <2> QED BY <1>2, <2>2, <2>3, <2>4 DEF Write
  <1>3. CASE \E c \in Couriers, a \in Agents, j \in Jobs : Pick(c, a, j)
      BY <1>3 DEF Pick
  <1>4. CASE \E c \in Couriers : CourierClaims(c)
      BY <1>4 DEF CourierClaims, ClaimBegin, Holds, Expired
  <1>5. CASE \E c \in Couriers : CourierReads(c)
    <2> PICK c \in Couriers : CourierReads(c)
      BY <1>5
    <2>1. errand[c].to \in Agents /\ errand[c].job \in Jobs
      BY DEF CourierReads
    <2>2. CASE MayClaim(errand[c].to, errand[c].job)
      BY <2>1, <2>2 DEF CourierReads, Holds
    <2>3. CASE ~MayClaim(errand[c].to, errand[c].job)
      <3>1. errand[c] \in [at : {"picked", "claimed", "return"}, to : Agents, job : Jobs]
        BY DEF CourierReads
      <3>2. errand' \in [Couriers -> {Idle} \cup [at : {"picked", "claimed", "return"},
                                                 to : Agents, job : Jobs]]
        BY <2>3, <3>1 DEF CourierReads, ClaimRefused
      <3> QED BY <2>3, <3>2 DEF CourierReads, ClaimRefused, Unheld
    <2> QED BY <2>2, <2>3
  <1>6. CASE \E c \in Couriers : HeartbeatSent(c)
      BY <1>6 DEF HeartbeatSent
  <1>7. CASE \E c \in Couriers : HeartbeatFails(c)
    <2> PICK c \in Couriers : HeartbeatFails(c)
      BY <1>7
    <2>1. errand[c] \in [at : {"picked", "claimed", "return"}, to : Agents, job : Jobs]
      BY DEF HeartbeatFails
    <2>2. [errand[c] EXCEPT !.at = "return"] \in [at : {"picked", "claimed", "return"}, to : Agents, job : Jobs]
      BY <2>1
    <2> QED BY <2>2 DEF HeartbeatFails
  <1>8. CASE \E c \in Couriers : GiveBack(c)
      BY <1>8 DEF GiveBack, Holds
  <1>9. CASE \E a \in Agents : AgentClaims(a)
      BY <1>9 DEF AgentClaims, ClaimBegin, Holds, Expired
  <1>10. CASE \E a \in Agents : AgentReads(a)
      BY <1>10 DEF AgentReads, Holds, Unheld, MayClaim
  <1>11. CASE \E a \in Agents : RequeueAgentClaims(a)
      BY <1>11 DEF RequeueAgentClaims, Holds
  <1>12. CASE \E a \in Agents : SessionBegins(a) \/ SessionEnds(a)
      BY <1>12 DEF SessionBegins, SessionEnds
  <1>13. CASE \E a \in Agents, j \in Jobs : ExtendLease(a, j)
      BY <1>13 DEF ExtendLease, Holds, OwnsLive
  <1>14. CASE \E a \in Agents, j \in Jobs, outcome \in {"succeeded", "failed"} : Complete(a, j, outcome)
    <2> PICK a \in Agents, j \in Jobs, outcome \in {"succeeded", "failed"} : Complete(a, j, outcome)
      BY <1>14
    <2> HIDE DEF Row, Absent
    <2>1. job[j] \in Row /\ Absent \in Row
      BY DEF Absent, Row
    <2>2. [job[j] EXCEPT !.status = outcome, !.by = a, !.lease = "none"] \in Row
      BY <2>1 DEF Row
    <2>3. pending' \in [Jobs -> Row]
      BY <2>1, <2>2 DEF Complete, Holds
    <2> QED BY <2>3 DEF Complete, Holds
  <1>15. CASE \E j \in Jobs : LeasePasses(j)
      BY <1>15, LeaseOnly
  <1>16. CASE \E j \in Jobs : CancelRead(j)
      BY <1>16 DEF CancelRead
  <1>17. CASE CancelWrite
      BY <1>17 DEF CancelWrite
  <1>18. CASE UNCHANGED vars
      BY <1>18 DEF vars
  <1> QED
      BY <1>1, <1>2, <1>3, <1>4, <1>5, <1>6, <1>7, <1>8, <1>9, <1>10, <1>11, <1>12, <1>13, <1>14, <1>15, <1>16, <1>17, <1>18
      DEF CancelNext, Next, CourierNext, AgentNext

LEMMA CallerStep ==
  ASSUME A2AQueueTypeOK, CallerRight, [CancelNext]_vars
  PROVE  CallerRight'
  <1> USE NamesApart DEF A2AQueueTypeOK, CallerRight, Idle, sessions
  <1>1. CASE \E j \in Jobs : Submit(j)
      BY <1>1 DEF Submit
  <1>2. CASE Write
      BY <1>2 DEF Write, Unheld, Overlaid, Overwritten
  <1>3. CASE \E c \in Couriers, a \in Agents, j \in Jobs : Pick(c, a, j)
      BY <1>3 DEF Pick
  <1>4. CASE \E c \in Couriers : CourierClaims(c)
      BY <1>4 DEF CourierClaims, ClaimBegin, Holds, Expired
  <1>5. CASE \E c \in Couriers : CourierReads(c)
      BY <1>5 DEF CourierReads, Holds, ClaimRefused, Unheld, MayClaim
  <1>6. CASE \E c \in Couriers : HeartbeatSent(c)
      BY <1>6 DEF HeartbeatSent
  <1>7. CASE \E c \in Couriers : HeartbeatFails(c)
      BY <1>7 DEF HeartbeatFails
  <1>8. CASE \E c \in Couriers : GiveBack(c)
      BY <1>8 DEF GiveBack, Holds
  <1>9. CASE \E a \in Agents : AgentClaims(a)
      BY <1>9 DEF AgentClaims, ClaimBegin, Holds, Expired
  <1>10. CASE \E a \in Agents : AgentReads(a)
      BY <1>10 DEF AgentReads, Holds, Unheld, MayClaim
  <1>11. CASE \E a \in Agents : RequeueAgentClaims(a)
      BY <1>11 DEF RequeueAgentClaims, Holds
  <1>12. CASE \E a \in Agents : SessionBegins(a) \/ SessionEnds(a)
      BY <1>12 DEF SessionBegins, SessionEnds
  <1>13. CASE \E a \in Agents, j \in Jobs : ExtendLease(a, j)
      BY <1>13 DEF ExtendLease, Holds, OwnsLive
  <1>14. CASE \E a \in Agents, j \in Jobs, outcome \in {"succeeded", "failed"} : Complete(a, j, outcome)
      BY <1>14 DEF Complete, Holds, OwnsLive
  <1>15. CASE \E j \in Jobs : LeasePasses(j)
      BY <1>15, LeaseOnly
  <1>16. CASE \E j \in Jobs : CancelRead(j)
      BY <1>16 DEF CancelRead
  <1>17. CASE CancelWrite
      BY <1>17 DEF CancelWrite
  <1>18. CASE UNCHANGED vars
      BY <1>18 DEF vars
  <1> QED
      BY <1>1, <1>2, <1>3, <1>4, <1>5, <1>6, <1>7, <1>8, <1>9, <1>10, <1>11, <1>12, <1>13, <1>14, <1>15, <1>16, <1>17, <1>18
      DEF CancelNext, Next, CourierNext, AgentNext

LEMMA RowsStep ==
  ASSUME A2AQueueTypeOK, RowsWhole, PendingRight, [CancelNext]_vars
  PROVE  RowsWhole'
  <1> USE NamesApart DEF A2AQueueTypeOK, RowsWhole, PendingRight, Whole, Row, Absent, Queued, sessions
  <1>1. CASE \E j \in Jobs : Submit(j)
      BY <1>1 DEF Submit
  <1>2. CASE Write
      BY <1>2 DEF Write, Unheld, Overlaid, Overwritten
  <1>3. CASE \E c \in Couriers, a \in Agents, j \in Jobs : Pick(c, a, j)
      BY <1>3 DEF Pick
  <1>4. CASE \E c \in Couriers : CourierClaims(c)
      BY <1>4 DEF CourierClaims, ClaimBegin, Holds, Expired
  <1>5. CASE \E c \in Couriers : CourierReads(c)
      BY <1>5 DEF CourierReads, Holds, ClaimRefused, Unheld, MayClaim
  <1>6. CASE \E c \in Couriers : HeartbeatSent(c)
      BY <1>6 DEF HeartbeatSent
  <1>7. CASE \E c \in Couriers : HeartbeatFails(c)
      BY <1>7 DEF HeartbeatFails
  <1>8. CASE \E c \in Couriers : GiveBack(c)
      BY <1>8 DEF GiveBack, Holds
  <1>9. CASE \E a \in Agents : AgentClaims(a)
      BY <1>9 DEF AgentClaims, ClaimBegin, Holds, Expired
  <1>10. CASE \E a \in Agents : AgentReads(a)
      BY <1>10 DEF AgentReads, Holds, Unheld, MayClaim
  <1>11. CASE \E a \in Agents : RequeueAgentClaims(a)
      BY <1>11 DEF RequeueAgentClaims, Holds
  <1>12. CASE \E a \in Agents : SessionBegins(a) \/ SessionEnds(a)
      BY <1>12 DEF SessionBegins, SessionEnds
  <1>13. CASE \E a \in Agents, j \in Jobs : ExtendLease(a, j)
      BY <1>13 DEF ExtendLease, Holds, OwnsLive
  <1>14. CASE \E a \in Agents, j \in Jobs, outcome \in {"succeeded", "failed"} : Complete(a, j, outcome)
      BY <1>14 DEF Complete, Holds, OwnsLive
  <1>15. CASE \E j \in Jobs : LeasePasses(j)
      BY <1>15, LeaseOnly
  <1>16. CASE \E j \in Jobs : CancelRead(j)
      BY <1>16 DEF CancelRead
  <1>17. CASE CancelWrite
      BY <1>17 DEF CancelWrite
  <1>18. CASE UNCHANGED vars
      BY <1>18 DEF vars
  <1> QED
      BY <1>1, <1>2, <1>3, <1>4, <1>5, <1>6, <1>7, <1>8, <1>9, <1>10, <1>11, <1>12, <1>13, <1>14, <1>15, <1>16, <1>17, <1>18
      DEF CancelNext, Next, CourierNext, AgentNext

LEMMA PendingStep ==
  ASSUME A2AQueueTypeOK, RowsWhole, PendingRight, OneJobPerAgent, CallerRight, [CancelNext]_vars
  PROVE  PendingRight'
  <1> USE NamesApart DEF A2AQueueTypeOK, CallerRight, RowsWhole, PendingRight, OneJobPerAgent, Whole, BusyOther, LiveClaim, NothingPending,
      Row, Absent, Queued, Claimed, Idle, sessions
  <1>1. CASE \E j \in Jobs : Submit(j)
      BY <1>1 DEF Submit
  <1>2. CASE Write
      BY <1>2 DEF Write, Unheld, Overlaid, Overwritten
  <1>3. CASE \E c \in Couriers, a \in Agents, j \in Jobs : Pick(c, a, j)
      BY <1>3 DEF Pick
  <1>4. CASE \E c \in Couriers : CourierClaims(c)
      BY <1>4 DEF CourierClaims, ClaimBegin, Holds, Expired
  <1>5. CASE \E c \in Couriers : CourierReads(c)
      BY <1>5 DEF CourierReads, Holds, ClaimRefused, Unheld, MayClaim
  <1>6. CASE \E c \in Couriers : HeartbeatSent(c)
      BY <1>6 DEF HeartbeatSent
  <1>7. CASE \E c \in Couriers : HeartbeatFails(c)
      BY <1>7 DEF HeartbeatFails
  <1>8. CASE \E c \in Couriers : GiveBack(c)
      BY <1>8 DEF GiveBack, Holds
  <1>9. CASE \E a \in Agents : AgentClaims(a)
      BY <1>9 DEF AgentClaims, ClaimBegin, Holds, Expired
  <1>10. CASE \E a \in Agents : AgentReads(a)
      BY <1>10 DEF AgentReads, Holds, Unheld, MayClaim
  <1>11. CASE \E a \in Agents : RequeueAgentClaims(a)
      BY <1>11 DEF RequeueAgentClaims, Holds
  <1>12. CASE \E a \in Agents : SessionBegins(a) \/ SessionEnds(a)
      BY <1>12 DEF SessionBegins, SessionEnds
  <1>13. CASE \E a \in Agents, j \in Jobs : ExtendLease(a, j)
      BY <1>13 DEF ExtendLease, Holds, OwnsLive
  <1>14. CASE \E a \in Agents, j \in Jobs, outcome \in {"succeeded", "failed"} : Complete(a, j, outcome)
      BY <1>14 DEF Complete, Holds, OwnsLive
  <1>15. CASE \E j \in Jobs : LeasePasses(j)
      BY <1>15, LeaseOnly
  <1>16. CASE \E j \in Jobs : CancelRead(j)
      BY <1>16 DEF CancelRead
  <1>17. CASE CancelWrite
      BY <1>17 DEF CancelWrite
  <1>18. CASE UNCHANGED vars
      BY <1>18 DEF vars
  <1> QED
      BY <1>1, <1>2, <1>3, <1>4, <1>5, <1>6, <1>7, <1>8, <1>9, <1>10, <1>11, <1>12, <1>13, <1>14, <1>15, <1>16, <1>17, <1>18
      DEF CancelNext, Next, CourierNext, AgentNext

LEMMA OneJobStep ==
  ASSUME A2AQueueTypeOK, PendingRight, OneJobPerAgent, [CancelNext]_vars
  PROVE  OneJobPerAgent'
  <1> USE NamesApart DEF A2AQueueTypeOK, PendingRight, OneJobPerAgent, BusyOther, LiveClaim, Row, Absent, Queued,
      sessions
  <1>1. CASE \E j \in Jobs : Submit(j)
      BY <1>1 DEF Submit
  <1>2. CASE Write
      BY <1>2 DEF Write, Unheld, Overlaid, Overwritten
  <1>3. CASE \E c \in Couriers, a \in Agents, j \in Jobs : Pick(c, a, j)
      BY <1>3 DEF Pick
  <1>4. CASE \E c \in Couriers : CourierClaims(c)
      BY <1>4 DEF CourierClaims, ClaimBegin, Holds, Expired
  <1>5. CASE \E c \in Couriers : CourierReads(c)
      BY <1>5 DEF CourierReads, Holds, ClaimRefused, Unheld, MayClaim
  <1>6. CASE \E c \in Couriers : HeartbeatSent(c)
      BY <1>6 DEF HeartbeatSent
  <1>7. CASE \E c \in Couriers : HeartbeatFails(c)
      BY <1>7 DEF HeartbeatFails
  <1>8. CASE \E c \in Couriers : GiveBack(c)
      BY <1>8 DEF GiveBack, Holds
  <1>9. CASE \E a \in Agents : AgentClaims(a)
      BY <1>9 DEF AgentClaims, ClaimBegin, Holds, Expired
  <1>10. CASE \E a \in Agents : AgentReads(a)
      BY <1>10 DEF AgentReads, Holds, Unheld, MayClaim
  <1>11. CASE \E a \in Agents : RequeueAgentClaims(a)
      BY <1>11 DEF RequeueAgentClaims, Holds
  <1>12. CASE \E a \in Agents : SessionBegins(a) \/ SessionEnds(a)
      BY <1>12 DEF SessionBegins, SessionEnds
  <1>13. CASE \E a \in Agents, j \in Jobs : ExtendLease(a, j)
      BY <1>13 DEF ExtendLease, Holds, OwnsLive
  <1>14. CASE \E a \in Agents, j \in Jobs, outcome \in {"succeeded", "failed"} : Complete(a, j, outcome)
      BY <1>14 DEF Complete, Holds, OwnsLive
  <1>15. CASE \E j \in Jobs : LeasePasses(j)
    <2>1. \A a \in Agents, j \in Jobs : LiveClaim(a, j)' => LiveClaim(a, j)
      BY <1>15, LeaseOnly
    <2> QED BY <2>1
  <1>16. CASE \E j \in Jobs : CancelRead(j)
      BY <1>16 DEF CancelRead
  <1>17. CASE CancelWrite
      BY <1>17 DEF CancelWrite
  <1>18. CASE UNCHANGED vars
      BY <1>18 DEF vars
  <1> QED
      BY <1>1, <1>2, <1>3, <1>4, <1>5, <1>6, <1>7, <1>8, <1>9, <1>10, <1>11, <1>12, <1>13, <1>14, <1>15, <1>16, <1>17, <1>18
      DEF CancelNext, Next, CourierNext, AgentNext

\* Types, one live claim per agent and whole rows (claimQueuedJobLocked and
\* every path that requeues), also with a user who cancels.
THEOREM A2AQueueSafe == CancelSpec => []A2AQueueInv
  <1>1. Init => A2AQueueIInv
    BY A2AQueueInit
  <1>2. A2AQueueIInv /\ [CancelNext]_vars => A2AQueueIInv'
    BY TypeStep, CallerStep, RowsStep, PendingStep, OneJobStep DEF A2AQueueIInv
  <1>3. A2AQueueIInv => A2AQueueInv
    BY DEF A2AQueueIInv, A2AQueueInv
  <1> QED BY <1>1, <1>2, <1>3, PTL DEF CancelSpec

-----------------------------------------------------------------------------
\* Without cancellations the rows that are about to be overwritten are still
\* what the operation read: the mutex is enough.
Owned ==
    /\ cancelling = Absent
    /\ \A j \in Jobs : pending[j] # Absent =>
          /\ mutexOp \in {"expire", "return", "restart"} =>
                pending[j] = Queued /\ job[j].status = "claimed"
          /\ mutexOp = "claim" => job[j].status = "queued" /\ pending[j].status = "claimed"
          /\ mutexOp \in {"claim", "extend"} => pending[j].lease = "live"
          /\ mutexOp \in {"complete", "extend"} => job[j].status = "claimed"
          /\ mutexOp = "complete" => pending[j].status \in {"succeeded", "failed"}
          /\ mutexOp = "extend" => pending[j].status = "claimed" /\ pending[j].by = job[j].by
          /\ mutexOp \in {"claim", "complete", "extend"} => \A i \in Jobs \ {j} : pending[i] = Absent

LEMMA OwnedStep ==
  ASSUME A2AQueueTypeOK, PendingRight, Owned, [Next]_vars
  PROVE  Owned'
  <1> USE NamesApart DEF A2AQueueTypeOK, PendingRight, Owned, Row, Absent, Queued, Claimed, NothingPending,
      sessions
  <1>1. CASE \E j \in Jobs : Submit(j)
    BY <1>1 DEF Submit
  <1>2. CASE Write
    BY <1>2 DEF Write, Unheld, Overlaid, Overwritten
  <1>3. CASE \E c \in Couriers, a \in Agents, j \in Jobs : Pick(c, a, j)
    BY <1>3 DEF Pick
  <1>4. CASE \E c \in Couriers : CourierClaims(c)
    BY <1>4 DEF CourierClaims, ClaimBegin, Holds, Expired
  <1>5. CASE \E c \in Couriers : CourierReads(c)
    BY <1>5 DEF CourierReads, Holds, ClaimRefused, Unheld, MayClaim
  <1>6. CASE \E c \in Couriers : HeartbeatSent(c)
    BY <1>6 DEF HeartbeatSent
  <1>7. CASE \E c \in Couriers : HeartbeatFails(c)
    BY <1>7 DEF HeartbeatFails
  <1>8. CASE \E c \in Couriers : GiveBack(c)
    BY <1>8 DEF GiveBack, Holds
  <1>9. CASE \E a \in Agents : AgentClaims(a)
    BY <1>9 DEF AgentClaims, ClaimBegin, Holds, Expired
  <1>10. CASE \E a \in Agents : AgentReads(a)
    BY <1>10 DEF AgentReads, Holds, Unheld, MayClaim
  <1>11. CASE \E a \in Agents : RequeueAgentClaims(a)
    BY <1>11 DEF RequeueAgentClaims, Holds
  <1>12. CASE \E a \in Agents : SessionBegins(a) \/ SessionEnds(a)
    BY <1>12 DEF SessionBegins, SessionEnds
  <1>13. CASE \E a \in Agents, j \in Jobs : ExtendLease(a, j)
    BY <1>13 DEF ExtendLease, Holds, OwnsLive, LiveClaim
  <1>14. CASE \E a \in Agents, j \in Jobs, outcome \in {"succeeded", "failed"} : Complete(a, j, outcome)
    BY <1>14 DEF Complete, Holds, OwnsLive, LiveClaim
  <1>15. CASE \E j \in Jobs : LeasePasses(j)
    <2>1. \A i \in Jobs : job'[i].status = job[i].status /\ job'[i].by = job[i].by
      BY <1>15, LeaseOnly
    <2>2. UNCHANGED <<mutexOp, pending, cancelling>>
      BY <1>15, LeaseOnly
    <2> QED BY <2>1, <2>2
  <1>16. CASE UNCHANGED vars
    BY <1>16 DEF vars
  <1> QED
    BY <1>1, <1>2, <1>3, <1>4, <1>5, <1>6, <1>7, <1>8, <1>9, <1>10, <1>11, <1>12, <1>13, <1>14, <1>15, <1>16
    DEF Next, CourierNext, AgentNext

\* A step that changes neither the rows nor what is written keeps the board.
LEMMA SeenKept ==
  ASSUME UNCHANGED <<job, mutexOp, pending>>
  PROVE  \A j \in Jobs : Seen(j)' = Seen(j)
  BY DEF Seen, Lapsed, Overwritten

\* A submission: a new job waits on the board.
LEMMA BoardSubmit ==
  ASSUME A2AQueueTypeOK, Owned, NEW j \in Jobs, Submit(j)
  PROVE  Board!Submit(j)
  <1>1. Seen(j) = "absent" /\ Seen(j)' = "waiting"
    BY DEF Submit, Seen, Lapsed, Queued, Absent, A2AQueueTypeOK
  <1>2. \A i \in Jobs \ {j} : Seen(i)' = Seen(i)
    BY DEF Submit, Seen, Lapsed, Overwritten, A2AQueueTypeOK
  <1> QED BY <1>1, <1>2 DEF Board!Submit

\* A lease that passes while nobody is extending or completing the claim:
\* the job waits again.
LEMMA BoardLease ==
  ASSUME A2AQueueTypeOK, RowsWhole, NEW j \in Jobs, LeasePasses(j)
  PROVE  Board!Return({j}) \/ \A i \in Jobs : Seen(i)' = Seen(i)
  <1> USE DEF A2AQueueTypeOK
  <1>1. job[j].status = "claimed" /\ job[j].by \in Agents
    BY DEF LeasePasses, RowsWhole, Whole, Row
  <1>2. /\ job'[j].status = "claimed" /\ job'[j].by = job[j].by
        /\ job[j].lease # "over" /\ job'[j].lease \in {"due", "over"}
    BY <1>1 DEF LeasePasses, Row
  <1>3. \A i \in Jobs \ {j} : Seen(i)' = Seen(i)
    BY DEF LeasePasses, Seen, Lapsed, Overwritten
  <1>4. Seen(j) = job[j].by
    BY <1>1, <1>2 DEF Seen, Lapsed
  <1>5. Seen(j)' = job[j].by \/ Seen(j)' = "waiting"
    BY <1>1, <1>2 DEF Seen, Lapsed
  <1> QED BY <1>1, <1>3, <1>4, <1>5 DEF Board!Return

\* An operation that begins, or goes from its read to its write.
LEMMA BoardBegin ==
  ASSUME A2AQueueTypeOK, PendingRight, UNCHANGED job, mutexOp \in {"free", "read"},
         \/ mutexOp' \notin {"complete", "extend"}
         \/ \A j \in Jobs : pending'[j] # Absent => job[j].lease # "over"
  PROVE  \A j \in Jobs : Seen(j)' = Seen(j)
  BY DEF Seen, Lapsed, Overwritten, A2AQueueTypeOK, PendingRight

\* The write of what a claim, an expiry or a caller decided.
LEMMA BoardWrite ==
  ASSUME A2AQueueIInv, Owned, Write
  PROVE  \/ \E j \in Jobs : Board!Submit(j)
         \/ \E a \in Agents, j \in Jobs :
               Board!Take(a, j) \/ \E outcome \in Board!Outcomes : Board!Finish(a, j, outcome)
         \/ \E js \in SUBSET Jobs : Board!Return(js)
         \/ \A j \in Jobs : Seen(j)' = Seen(j)
  <1> USE NamesApart DEF A2AQueueIInv, A2AQueueTypeOK
  <1>0. /\ mutexOp' \in {"free", "read"}
        /\ \A j \in Jobs : job'[j] = IF pending[j] # Absent THEN pending[j] ELSE job[j]
    BY DEF Write, Unheld, Overlaid, Overwritten
  <1>1. \A j \in Jobs : pending[j] = Absent => Seen(j)' = Seen(j)
    BY <1>0 DEF Seen, Lapsed, Overwritten
  <1>2. CASE mutexOp \in {"expire", "return", "restart"}
    <2> DEFINE js == {j \in Jobs : pending[j] # Absent /\ Seen(j) \in Agents}
    <2>1. \A j \in Jobs : pending[j] # Absent => Seen(j)' = "waiting" /\ job[j].status = "claimed"
      BY <1>0, <1>2 DEF Owned, Seen, Lapsed, Queued, Absent
    <2>2. \A j \in Jobs : pending[j] # Absent => Seen(j) = "waiting" \/ Seen(j) \in Agents
      BY <2>1 DEF Seen, Lapsed, RowsWhole, Whole
    <2>3. Board!Return(js)
      BY <1>1, <2>1, <2>2 DEF Board!Return
    <2> QED BY <2>3
  <1>3. CASE mutexOp \in {"claim", "complete", "extend"} /\ \A j \in Jobs : pending[j] = Absent
    BY <1>1, <1>3
  <1>4. ASSUME mutexOp = "claim", NEW j \in Jobs, pending[j] # Absent
        PROVE  Board!Take(pending[j].by, j) /\ pending[j].by \in Agents
    <2> DEFINE a == pending[j].by
    <2>1. job[j].status = "queued" /\ pending[j].status = "claimed" /\ a \in Agents
      BY <1>4 DEF Owned, PendingRight, Whole
    <2>2. ~BusyOther(a, j) /\ \A i \in Jobs \ {j} : pending[i] = Absent
      BY <2>1 DEF PendingRight
    <2>3. Seen(j) = "waiting" /\ Seen(j)' \in {a, "waiting"}
      BY <1>0, <1>4, <2>1 DEF Seen, Lapsed
    <2> HIDE DEF a
    <2>4. ASSUME NEW i \in Jobs PROVE Seen(i) # a
      <3>1. CASE i = j
        BY <2>1, <2>3, <3>1
      <3>2. CASE i # j
        <4>1. ~LiveClaim(a, i)
          BY <2>2, <3>2 DEF BusyOther
        <4>2. job[i].status \in {"absent", "queued", "claimed", "succeeded", "failed"}
          BY DEF Row
        <4>3. a # "waiting" /\ a # "absent" /\ a # "succeeded" /\ a # "failed"
          BY <2>1
        <4>4. CASE job[i].status = "claimed" /\ job[i].lease = "over"
          <5>1. Seen(i) = "waiting"
            BY <1>4, <4>4 DEF Seen, Lapsed
          <5> QED BY <4>3, <5>1
        <4>5. CASE job[i].status = "claimed" /\ job[i].lease # "over"
          BY <4>1, <4>5 DEF Seen, Lapsed, LiveClaim
        <4>6. CASE job[i].status # "claimed"
          BY <4>2, <4>3, <4>6 DEF Seen, Lapsed
        <4> QED BY <4>4, <4>5, <4>6
      <3> QED BY <3>1, <3>2
    <2>5. Seen(j)' = a
      BY <1>0, <1>4, <2>1, <2>2 DEF Seen, Lapsed, Owned, a
    <2>6. Board!Free(a)
      BY <2>4 DEF Board!Free
    <2>7. Board!Take(a, j)
      BY <1>1, <2>2, <2>3, <2>5, <2>6 DEF Board!Take
    <2> QED BY <2>1, <2>7 DEF a
  <1>5. ASSUME mutexOp = "complete", NEW j \in Jobs, pending[j] # Absent
        PROVE  Board!Finish(job[j].by, j, pending[j].status) /\ job[j].by \in Agents
    <2>1. /\ job[j].status = "claimed" /\ pending[j].status \in {"succeeded", "failed"}
          /\ \A i \in Jobs \ {j} : pending[i] = Absent
      BY <1>5 DEF Owned
    <2>2. Seen(j) = job[j].by /\ job[j].by \in Agents
      BY <1>5, <2>1 DEF Seen, Lapsed, Overwritten, RowsWhole, Whole
    <2>3. Seen(j)' = pending[j].status
      BY <1>0, <1>5, <2>1 DEF Seen, Lapsed
    <2> QED BY <1>1, <2>1, <2>2, <2>3 DEF Board!Finish
  <1>6. ASSUME mutexOp = "extend", NEW j \in Jobs, pending[j] # Absent
        PROVE  \A i \in Jobs : Seen(i)' = Seen(i)
    <2>1. /\ job[j].status = "claimed" /\ pending[j].status = "claimed"
          /\ pending[j].by = job[j].by /\ \A i \in Jobs \ {j} : pending[i] = Absent
      BY <1>6 DEF Owned
    <2>2. Seen(j) = job[j].by
      BY <1>6, <2>1 DEF Seen, Lapsed, Overwritten
    <2>3. Seen(j)' = job[j].by
      BY <1>0, <1>6, <2>1 DEF Seen, Lapsed, Owned
    <2> QED BY <1>1, <2>1, <2>2, <2>3
  <1>7. ASSUME mutexOp = "complete", NEW j \in Jobs, pending[j] # Absent
        PROVE  pending[j].status \in Board!Outcomes
    BY <1>7 DEF Owned, Board!Outcomes
  <1>8. mutexOp \in {"expire", "claim", "complete", "extend", "return", "restart"}
    BY DEF Write
  <1> QED BY <1>2, <1>3, <1>4, <1>5, <1>6, <1>7, <1>8

LEMMA BoardStep ==
  ASSUME A2AQueueIInv, Owned, [Next]_vars
  PROVE  [Board!Next]_[j \in Jobs |-> Seen(j)]
  <1> USE DEF A2AQueueIInv
  <1> DEFINE Stands == \A j \in Jobs : Seen(j)' = Seen(j)
  <1>0. Stands => UNCHANGED [j \in Jobs |-> Seen(j)]
    OBVIOUS
  <1> HIDE DEF Stands
  <1>1. CASE \E j \in Jobs : Submit(j)
    BY <1>0, <1>1, BoardSubmit DEF Board!Next
  <1>2. CASE Write
    BY <1>0, <1>2, BoardWrite DEF Stands, Board!Next
  <1>3. CASE \E c \in Couriers, a \in Agents, j \in Jobs : Pick(c, a, j)
    BY <1>0, <1>3, SeenKept DEF Stands, Pick
  <1>4. CASE \E c \in Couriers : CourierClaims(c)
    BY <1>0, <1>4, BoardBegin DEF Stands, CourierClaims, ClaimBegin, Holds
  <1>5. CASE \E c \in Couriers : CourierReads(c)
    BY <1>0, <1>5, BoardBegin DEF Stands, CourierReads, Holds, ClaimRefused, Unheld
  <1>6. CASE \E c \in Couriers : HeartbeatSent(c)
    BY <1>0, <1>6, SeenKept DEF Stands, HeartbeatSent
  <1>7. CASE \E c \in Couriers : HeartbeatFails(c)
    BY <1>0, <1>7, SeenKept DEF Stands, HeartbeatFails
  <1>8. CASE \E c \in Couriers : GiveBack(c)
    BY <1>0, <1>8, BoardBegin DEF Stands, GiveBack, Holds
  <1>9. CASE \E a \in Agents : AgentClaims(a)
    BY <1>0, <1>9, BoardBegin DEF Stands, AgentClaims, ClaimBegin, Holds
  <1>10. CASE \E a \in Agents : AgentReads(a)
    BY <1>0, <1>10, BoardBegin DEF Stands, AgentReads, Holds, Unheld
  <1>11. CASE \E a \in Agents : RequeueAgentClaims(a)
    BY <1>0, <1>11, BoardBegin DEF Stands, RequeueAgentClaims, Holds
  <1>12. CASE \E a \in Agents : SessionBegins(a) \/ SessionEnds(a)
    BY <1>0, <1>12, SeenKept DEF Stands, SessionBegins, SessionEnds
  <1>13. CASE \E a \in Agents, j \in Jobs : ExtendLease(a, j)
    BY <1>0, <1>13, BoardBegin DEF Stands, ExtendLease, Holds, OwnsLive, LiveClaim
  <1>14. CASE \E a \in Agents, j \in Jobs, outcome \in {"succeeded", "failed"} : Complete(a, j, outcome)
    BY <1>0, <1>14, BoardBegin DEF Stands, Complete, Holds, OwnsLive, LiveClaim
  <1>15. CASE \E j \in Jobs : LeasePasses(j)
    BY <1>0, <1>15, BoardLease DEF Stands, Board!Next
  <1>16. CASE UNCHANGED vars
    BY <1>0, <1>16, SeenKept DEF Stands, vars
  <1> QED
    BY <1>1, <1>2, <1>3, <1>4, <1>5, <1>6, <1>7, <1>8, <1>9, <1>10, <1>11, <1>12, <1>13, <1>14, <1>15, <1>16
    DEF Next, CourierNext, AgentNext

\* Cancellations apart, the queue implements the board: one job at a time for
\* an agent, finished once by the agent that has it, returned or finished.
THEOREM A2AQueueImplementsBoard == Spec => IsJobBoard
  <1>1. Init => A2AQueueIInv /\ Owned
    BY A2AQueueInit DEF Init, Owned, NothingPending
  <1>2. A2AQueueIInv /\ Owned /\ [Next]_vars => (A2AQueueIInv /\ Owned)'
    <2>1. [Next]_vars => [CancelNext]_vars
      BY DEF CancelNext
    <2> QED BY <2>1, TypeStep, CallerStep, RowsStep, PendingStep, OneJobStep, OwnedStep
            DEF A2AQueueIInv
  <1>3. Init => Board!Init
    BY DEF Init, Board!Init, Seen, Lapsed, Absent
  <1>4. A2AQueueIInv /\ Owned /\ [Next]_vars => [Board!Next]_[j \in Jobs |-> Seen(j)]
    BY BoardStep
  <1> QED BY <1>1, <1>2, <1>3, <1>4, PTL DEF Spec, IsJobBoard, Board!Spec

-----------------------------------------------------------------------------
\* The relay.

\* Where a courier or a browser has found a session, and what a request to
\* stop has removed, is one.
FoundIsSession ==
    /\ \A j \in Jobs : courier[j].at = "found" => courier[j].of \in Sessions
    /\ \A c \in Clients : client[c].at \in {"found", "pumping", "message"} => client[c].of \in Sessions
    /\ \A x \in Stoppers : stopper[x].at = "removed" => stopper[x].of \in Sessions

RelayInvariant == R!RelayTypeOK /\ FoundIsSession /\ R!NoClaimLeftBehind

\* A session is closed to new input, or goes a step on: none comes to the end
\* of its close that way.
LEMMA StagesGoOn ==
    ASSUME stage \in [Sessions -> R!Stages], hub \in Sessions \cup {None}, None \notin Sessions,
           \/ \E s \in Sessions : R!Done(s) /\ UNCHANGED hub
           \/ \E s \in Sessions : \E to \in R!Stages \ {"over"} : stage' = [stage EXCEPT ![s] = to] /\ UNCHANGED hub
           \/ UNCHANGED <<stage, hub>>
    PROVE  /\ stage' \in [Sessions -> R!Stages] /\ hub' \in Sessions \cup {None}
           /\ \A s \in Sessions : stage'[s] = "over" => stage[s] = "over"
BY DEF R!Done, R!Stages

\* A write takes a place of the channel when there is one.
LEMMA PutsFit ==
    ASSUME R!RelayAssumption, queued \in [Sessions -> 0..Capacity], NEW s \in Sessions,
           stage \in [Sessions -> R!Stages],
           NEW answer \in {"nothing"} \cup R!Answers(s), R!Puts(s, answer)
    PROVE  /\ queued' \in [Sessions -> 0..Capacity]
           /\ answer = "taken" => stage[s] \in {"open", "done"}
           /\ answer \in {"nothing", "taken", "refused", "panic"}
<1>1. answer = "taken" => stage[s] \in {"open", "done"} /\ queued[s] < Capacity
  BY DEF R!Answers
<1>2. answer \in {"nothing", "taken", "refused", "panic"}
  BY DEF R!Answers
<1>3. queued[s] < Capacity => queued[s] + 1 \in 0..Capacity
  BY DEF R!RelayAssumption
<1>. QED
  BY <1>1, <1>2, <1>3 DEF R!Puts

LEMMA RelayInvariantInit == ASSUME R!RelayAssumption, R!Init PROVE RelayInvariant
BY DEF R!RelayAssumption, R!Init, RelayInvariant, R!RelayTypeOK, FoundIsSession, R!NoClaimLeftBehind,
       R!Away, R!Waiting, R!Stages

\* A courier's claim rests on the session whose input took its heartbeat, and
\* one that takes it is not over.
LEMMA CourierStep ==
    ASSUME R!RelayAssumption, RelayInvariant, NEW j \in Jobs,
           R!Claim(j) \/ R!FindForHeartbeat(j) \/ R!Heartbeat(j) \/ R!GiveBack(j)
    PROVE  RelayInvariant'
<1>. USE DEF RelayInvariant, R!RelayTypeOK, FoundIsSession, R!RelayAssumption
<1>1. CASE R!Claim(j)
  BY <1>1 DEF R!Claim, R!browsers, R!NoClaimLeftBehind
<1>2. CASE R!FindForHeartbeat(j)
  <2>1. /\ stage' \in [Sessions -> R!Stages] /\ hub' \in Sessions \cup {None}
        /\ \A s \in Sessions : stage'[s] = "over" => stage[s] = "over"
    <3>1. (\E s \in Sessions : R!Finds(s)) \/ R!FindsNone
      BY <1>2 DEF R!FindForHeartbeat
    <3>. QED
      BY <3>1 DEF R!Finds, R!FindsNone, R!Stages
  <2>2. /\ courier' \in [Jobs -> [at : {"away", "claimed", "found", "failed", "panic"},
                                  of : Sessions \cup {None}]]
        /\ \A i \in Jobs : courier'[i].at = "found" => courier'[i].of \in Sessions
    <3>1. \/ \E s \in Sessions : courier' = [courier EXCEPT ![j] = [at |-> "found", of |-> s]]
          \/ courier' = [courier EXCEPT ![j] = [at |-> "failed", of |-> None]]
      BY <1>2 DEF R!FindForHeartbeat
    <3>2. ASSUME NEW s \in Sessions \cup {None}, NEW a \in {"found", "failed"},
                 courier' = [courier EXCEPT ![j] = [at |-> a, of |-> s]], a = "found" => s \in Sessions
          PROVE  /\ courier' \in [Jobs -> [at : {"away", "claimed", "found", "failed", "panic"},
                                           of : Sessions \cup {None}]]
                 /\ \A i \in Jobs : courier'[i].at = "found" => courier'[i].of \in Sessions
      BY <3>2
    <3>. QED
      BY <3>1, <3>2
  <2>. QED
    BY <1>2, <2>1, <2>2 DEF R!FindForHeartbeat, R!browsers, R!NoClaimLeftBehind
<1>3. CASE R!Heartbeat(j)
  <2>. DEFINE s == courier[j].of
  <2>1. s \in Sessions /\ UNCHANGED <<hub, stage, clients, client, hungUp, stopper>>
    BY <1>3 DEF R!Heartbeat, R!browsers
  <2>2. PICK answer \in R!Answers(s) :
           /\ R!Puts(s, answer)
           /\ relayJob' = IF answer = "taken" /\ relayJob[j].status = "claimed"
                          THEN [relayJob EXCEPT ![j].via = s] ELSE relayJob
           /\ courier' = [courier EXCEPT ![j] =
                            CASE answer = "taken" -> R!Away
                              [] answer = "refused" -> [at |-> "failed", of |-> None]
                              [] OTHER -> [at |-> "panic", of |-> s]]
    BY <1>3 DEF R!Heartbeat
  <2>3. /\ queued' \in [Sessions -> 0..Capacity]
        /\ answer = "taken" => stage[s] \in {"open", "done"}
    BY <2>1, <2>2, PutsFit
  <2>. HIDE DEF s
  <2>4. /\ courier' \in [Jobs -> [at : {"away", "claimed", "found", "failed", "panic"},
                                  of : Sessions \cup {None}]]
        /\ \A i \in Jobs : courier'[i].at = "found" => courier'[i].of \in Sessions
    BY <2>1, <2>2 DEF R!Away
  <2>5. relayJob' \in [Jobs -> [status : {"queued", "claimed"}, via : Sessions \cup {None}]]
    BY <2>1, <2>2
  <2>6. R!NoClaimLeftBehind'
    BY <2>1, <2>2, <2>3 DEF R!NoClaimLeftBehind
  <2>. QED
    BY <2>1, <2>3, <2>4, <2>5, <2>6
<1>4. CASE R!GiveBack(j)
  BY <1>4 DEF R!GiveBack, R!browsers, R!NoClaimLeftBehind, R!Waiting, R!Away
<1>. QED
  BY <1>1, <1>2, <1>3, <1>4

\* Browsers come, write and go.
LEMMA BrowserStep ==
    ASSUME R!RelayAssumption, RelayInvariant, NEW c \in Clients,
           R!Connect(c) \/ R!AddClient(c) \/ R!ReadMessage(c) \/ R!WriteMessage(c) \/ R!PumpLeaves(c)
    PROVE  RelayInvariant'
<1>. USE DEF RelayInvariant, R!RelayTypeOK, FoundIsSession, R!RelayAssumption
<1>1. CASE R!Connect(c)
  <2>1. /\ stage' \in [Sessions -> R!Stages] /\ hub' \in Sessions \cup {None}
        /\ \A s \in Sessions : stage'[s] = "over" => stage[s] = "over"
    <3>1. (\E s \in Sessions : R!Finds(s)) \/ R!FindsNone
      BY <1>1 DEF R!Connect
    <3>. QED
      BY <3>1 DEF R!Finds, R!FindsNone, R!Stages
  <2>2. \/ \E s \in Sessions : client' = [client EXCEPT ![c] = [at |-> "found", of |-> s]]
        \/ client' = [client EXCEPT ![c] = [at |-> "gone", of |-> None]]
    BY <1>1 DEF R!Connect
  <2>3. /\ client' \in [Clients -> [at : {"away", "found", "pumping", "message", "panic", "gone"},
                                    of : Sessions \cup {None}]]
        /\ \A d \in Clients : client'[d].at \in {"found", "pumping", "message"} => client'[d].of \in Sessions
    <3>1. ASSUME NEW s \in Sessions \cup {None}, NEW a \in {"found", "gone"},
                 client' = [client EXCEPT ![c] = [at |-> a, of |-> s]], a = "found" => s \in Sessions
          PROVE  /\ client' \in [Clients -> [at : {"away", "found", "pumping", "message", "panic", "gone"},
                                             of : Sessions \cup {None}]]
                 /\ \A d \in Clients : client'[d].at \in {"found", "pumping", "message"}
                                          => client'[d].of \in Sessions
      BY <3>1
    <3>. QED
      BY <2>2, <3>1
  <2>. QED
    BY <1>1, <2>1, <2>3 DEF R!Connect, R!couriers, R!NoClaimLeftBehind
<1>2. CASE R!AddClient(c)
  <2>. DEFINE s == client[c].of
  <2>1. s \in Sessions /\ UNCHANGED <<hub, stage, hungUp, relayJob, courier, stopper>>
    BY <1>2 DEF R!AddClient, R!couriers
  <2>2. PICK answer \in {"nothing"} \cup R!Answers(s) :
          /\ R!Puts(s, answer)
          /\ client' = [client EXCEPT ![c].at = IF answer = "panic" THEN "panic" ELSE "pumping"]
    BY <1>2 DEF R!AddClient
  <2>3. queued' \in [Sessions -> 0..Capacity]
    BY <2>1, <2>2, PutsFit
  <2>4. clients' \in [Sessions -> SUBSET Clients]
    BY <1>2 DEF R!AddClient
  <2>. QED
    BY <2>1, <2>2, <2>3, <2>4 DEF R!NoClaimLeftBehind
<1>3. CASE R!ReadMessage(c)
  BY <1>3 DEF R!ReadMessage, R!couriers, R!NoClaimLeftBehind
<1>4. CASE R!WriteMessage(c)
  <2>. DEFINE s == client[c].of
  <2>1. s \in Sessions /\ UNCHANGED <<hub, stage, clients, hungUp, relayJob, courier, stopper>>
    BY <1>4 DEF R!WriteMessage, R!couriers
  <2>2. PICK answer \in {"nothing"} \cup R!Answers(s) :
          /\ R!Puts(s, answer)
          /\ client' = [client EXCEPT ![c].at = IF answer = "panic" THEN "panic" ELSE "pumping"]
    BY <1>4 DEF R!WriteMessage
  <2>3. queued' \in [Sessions -> 0..Capacity]
    BY <2>1, <2>2, PutsFit
  <2>. QED
    BY <2>1, <2>2, <2>3 DEF R!NoClaimLeftBehind
<1>5. CASE R!PumpLeaves(c)
  BY <1>5 DEF R!PumpLeaves, R!couriers, R!NoClaimLeftBehind
<1>. QED
  BY <1>1, <1>2, <1>3, <1>4, <1>5

\* The last step of a close leaves no claim, whatever session it rests on.
LEMMA SessionStep ==
    ASSUME R!RelayAssumption, RelayInvariant,
           \/ \E s \in Sessions : R!RelayInput(s) \/ R!OutputEnds(s) \/ R!Closes(s)
           \/ \E x \in Stoppers : R!Remove(x) \/ R!CloseRemoved(x)
    PROVE  RelayInvariant'
<1>. USE DEF RelayInvariant, R!RelayTypeOK, FoundIsSession, R!RelayAssumption, R!browsers, R!couriers
<1>1. ASSUME NEW s \in Sessions, R!RequeueClaims(s) PROVE RelayInvariant'
  BY <1>1 DEF R!RequeueClaims, R!Step, R!Waiting, R!NoClaimLeftBehind, R!Stages
<1>2. ASSUME NEW s \in Sessions, R!RelayInput(s) PROVE RelayInvariant'
  <2>1. queued' \in [Sessions -> 0..Capacity]
    BY <1>2 DEF R!RelayInput
  <2>2. /\ stage' \in [Sessions -> R!Stages] /\ hub' \in Sessions \cup {None}
        /\ \A r \in Sessions : stage'[r] = "over" => stage[r] = "over"
    BY <1>2, StagesGoOn DEF R!RelayInput
  <2>. QED
    BY <1>2, <2>1, <2>2 DEF R!RelayInput, R!NoClaimLeftBehind
<1>3. ASSUME NEW s \in Sessions, R!OutputEnds(s) PROVE RelayInvariant'
  <2>2. /\ stage' \in [Sessions -> R!Stages] /\ hub' \in Sessions \cup {None}
        /\ \A r \in Sessions : stage'[r] = "over" => stage[r] = "over"
    BY <1>3, StagesGoOn DEF R!OutputEnds
  <2>. QED
    BY <1>3, <2>2 DEF R!OutputEnds, R!NoClaimLeftBehind
<1>4. ASSUME NEW s \in Sessions, R!CloseInput(s) \/ R!CloseAttach(s) \/ R!CloseClients(s)
      PROVE  RelayInvariant'
  <2>1. \E to \in R!Stages \ {"over"} : stage' = [stage EXCEPT ![s] = to]
    BY <1>4 DEF R!CloseInput, R!CloseAttach, R!CloseClients, R!Step, R!Stages
  <2>2. /\ stage' \in [Sessions -> R!Stages] /\ hub' \in Sessions \cup {None}
        /\ \A r \in Sessions : stage'[r] = "over" => stage[r] = "over"
    BY <1>4, <2>1, StagesGoOn DEF R!CloseInput, R!CloseAttach, R!CloseClients
  <2>. QED
    BY <1>4, <2>2 DEF R!CloseInput, R!CloseAttach, R!CloseClients, R!NoClaimLeftBehind
<1>5. ASSUME NEW x \in Stoppers, R!Remove(x) PROVE RelayInvariant'
  BY <1>5 DEF R!Remove, R!NoClaimLeftBehind
<1>6. ASSUME NEW x \in Stoppers, R!CloseRemoved(x) PROVE RelayInvariant'
  <2>1. stopper[x].of \in Sessions
    BY <1>6 DEF R!CloseRemoved
  <2>2. /\ stage' \in [Sessions -> R!Stages] /\ hub' \in Sessions \cup {None}
        /\ \A r \in Sessions : stage'[r] = "over" => stage[r] = "over"
    BY <1>6, <2>1, StagesGoOn DEF R!CloseRemoved
  <2>. QED
    BY <1>6, <2>2 DEF R!CloseRemoved, R!NoClaimLeftBehind
<1>. QED
  BY <1>1, <1>2, <1>3, <1>4, <1>5, <1>6 DEF R!Closes

LEMMA RelayInvariantNext ==
    ASSUME R!RelayAssumption, RelayInvariant, [R!Next]_relayVars PROVE RelayInvariant'
<1>1. CASE R!Next
  BY <1>1, CourierStep, BrowserStep, SessionStep DEF R!Next
<1>2. CASE UNCHANGED relayVars
  BY <1>2 DEF relayVars, RelayInvariant, R!RelayTypeOK, FoundIsSession, R!NoClaimLeftBehind
<1>. QED
  BY <1>1, <1>2

-----------------------------------------------------------------------------
\* The Telegram workers.

\* The least of a set of numbers and the greatest of two.
LEMMA LeastOfSome == ASSUME NEW S \in SUBSET Nat, S # {} PROVE T!Min(S) \in S
<1>. DEFINE below == {ss \in Nat \X Nat : ss[1] < ss[2]}
<1>1. IsWellFoundedOn(below, Nat)
  BY NatLessThanWellFounded, Zenon DEF OpToRel
<1>2. PICK x \in S : \A y \in S : <<y, x>> \notin below
  <2>. HIDE DEF below
  <2>. QED
    BY <1>1, WFMin
<1>3. ASSUME NEW y \in S PROVE x <= y
  <2>1. x \in Nat /\ y \in Nat /\ ~(y < x)
    BY <1>2
  <2>. QED
    BY <2>1
<1>. QED
  BY <1>3 DEF T!Min

LEMMA GreaterOfTwo ==
    ASSUME NEW a \in Nat, NEW b \in Nat
    PROVE  T!Max({a, b}) \in {a, b} /\ T!Max({a, b}) >= a /\ T!Max({a, b}) >= b
BY DEF T!Max

\* One poller is in the map; who looks has found that one, and only it has a
\* callback.
PollersApart ==
    /\ \A a \in T!Actors : uses[a] \in {None, pollerOf}
    /\ \A a \in T!Actors : at[a] \in {"located", "running"} => uses[a] # None
    /\ pollerOf # None => at[pollerOf] \in {"located", "running", "gone"}
    /\ \A a \in T!Actors : poller[a].callback # None => a = pollerOf
    /\ \A a \in polling : poller[a].token \in Tokens
    /\ \A x \in Stops : stopping[x].at = "removed" => stopping[x].of \in Workers

PeopleInvariant ==
    /\ token \in Tokens \cup {None} /\ installed \in Workers \cup {None}
    /\ pollerOf \in T!Actors \cup {None} /\ uses \in [T!Actors -> T!Actors \cup {None}]
    /\ at \in [T!Actors -> {"away", "called", "configured", "installed", "missing", "created",
                            "located", "running", "gone"}]
    /\ poller \in [T!Actors -> [token : Tokens \cup {None}, callback : Workers \cup {None},
                                last : 0..MaxMessages]]
    /\ stopping \in [Stops -> [at : {"away", "removed", "gone"}, of : Workers \cup {None}]]
    /\ polling \subseteq T!Actors /\ T!OnePoller /\ PollersApart

\* What a goroutine of a callback still has to store.
Held(g) == g.ids \cup ({g.inserting} \ {0})

Callbacks == [for : Workers, ids : SUBSET (1..MaxMessages), inserting : 0..MaxMessages, stored : BOOLEAN]

\* Each update is with one goroutine at most, was fetched by the poller in the
\* map, and is not stored when it is about to be, unless its query failed.
MailTypes ==
    /\ recent \subseteq Workers /\ unheard \in BOOLEAN
    /\ sent \in [Tokens -> 0..MaxMessages] /\ confirmed \in [Tokens -> 0..MaxMessages]
    /\ storing \subseteq Callbacks
    /\ rows \in [1..MaxMessages -> Nat] /\ unchecked \subseteq 1..MaxMessages
    /\ restarts \in 0..MaxRestarts

IsNew(g, stored, failed) ==
    /\ g.inserting \notin g.ids
    /\ g.inserting \notin failed => stored[g.inserting] = 0

FetchedAndNew(g) ==
    /\ pollerOf # None /\ \A n \in Held(g) : n <= poller[pollerOf].last
    /\ g.inserting # 0 => IsNew(g, rows, unchecked)

HeldFetched == \A g \in storing : FetchedAndNew(g)
HeldApart == \A g, h \in storing : g # h => Held(g) \cap Held(h) = {}

\* A process stores an update once: when a row is there for each of the
\* processes so far, it was fetched and is with no goroutine.
RowsFew ==
    \A n \in 1..MaxMessages :
        /\ rows[n] <= restarts + 1
        /\ rows[n] = restarts + 1 =>
             pollerOf # None /\ n <= poller[pollerOf].last /\ \A g \in storing : n \notin Held(g)

MailInvariant == MailTypes /\ T!StoredOnce /\ RowsFew /\ HeldFetched /\ HeldApart

TelegramInvariant == PeopleInvariant /\ MailInvariant

LEMMA TelegramInvariantInit == ASSUME T!TelegramAssumption, T!Init PROVE TelegramInvariant
<1>1. 0 \in 0..MaxMessages /\ 0 \in 0..MaxRestarts
  BY DEF T!TelegramAssumption
<1>2. PeopleInvariant
  BY <1>1 DEF T!Init, T!TelegramAssumption, PeopleInvariant, PollersApart, T!OnePoller, T!Fresh, T!Idle
<1>3. MailInvariant
  <2>1. storing = {} /\ recent = {} /\ unheard = FALSE /\ restarts = 0
    BY DEF T!Init
  <2>2. rows = [n \in 1..MaxMessages |-> 0] /\ sent = [t \in Tokens |-> 0] /\ confirmed = [t \in Tokens |-> 0]
    BY DEF T!Init
  <2>3. unheard \in BOOLEAN /\ restarts \in 0..MaxRestarts /\ recent \subseteq Workers
    BY <1>1, <2>1
  <2>4. /\ rows \in [1..MaxMessages -> Nat] /\ T!StoredOnce /\ RowsFew /\ unchecked = {}
        /\ sent \in [Tokens -> 0..MaxMessages] /\ confirmed \in [Tokens -> 0..MaxMessages]
    <3>1. unchecked = {}
      BY DEF T!Init
    <3>. QED
      BY <1>1, <2>1, <2>2, <3>1 DEF T!StoredOnce, RowsFew
  <2>. QED
    BY <2>1, <2>3, <2>4 DEF MailInvariant, MailTypes, HeldFetched, FetchedAndNew, HeldApart
<1>. QED
  BY <1>2, <1>3 DEF TelegramInvariant

\* Who changes no poller's last update and not which one is in the map leaves
\* the mail as it was.
LEMMA MailStays ==
    ASSUME TelegramInvariant, UNCHANGED <<sent, confirmed, storing, rows, recent, unheard, unchecked, restarts>>,
           pollerOf # None => pollerOf' = pollerOf /\ poller'[pollerOf].last = poller[pollerOf].last
    PROVE  MailInvariant'
<1>1. MailTypes' /\ T!StoredOnce' /\ HeldFetched' /\ HeldApart'
  BY DEF TelegramInvariant, MailInvariant, MailTypes, HeldFetched, FetchedAndNew, IsNew, HeldApart, T!StoredOnce, Held
<1>2. RowsFew'
  BY DEF TelegramInvariant, MailInvariant, RowsFew, Held
<1>. QED
  BY <1>1, <1>2 DEF MailInvariant

\* Requests and lookups, which leave the pollers alone.
LEMMA LookingStep ==
    ASSUME T!TelegramAssumption, TelegramInvariant,
           \/ \E w \in Workers : T!Request(w) \/ T!ReadConfig(w)
           \/ \E a \in T!Actors : T!Locate(a) \/ T!CreateFails(a)
           \/ \E x \in Stops : T!Remove(x)
    PROVE  TelegramInvariant'
<1>. USE DEF TelegramInvariant, PeopleInvariant, PollersApart, T!OnePoller
<1>. Workers \subseteq T!Actors
  BY DEF T!Actors
<1>0. /\ UNCHANGED <<pollerOf, poller, polling>>
      /\ UNCHANGED <<sent, confirmed, storing, rows, recent, unheard, unchecked, restarts>>
  BY DEF T!Request, T!ReadConfig, T!Locate, T!CreateFails, T!Remove, T!mail
<1>1. MailInvariant'
  BY <1>0, MailStays
<1>2. ASSUME NEW w \in Workers, T!Request(w) PROVE PeopleInvariant'
  BY <1>0, <1>2 DEF T!Request
<1>3. ASSUME NEW w \in Workers, T!ReadConfig(w) PROVE PeopleInvariant'
  BY <1>0, <1>3 DEF T!ReadConfig
<1>4. ASSUME NEW a \in T!Actors, T!Locate(a) PROVE PeopleInvariant'
  <2>. DEFINE found == IF installed # None /\ uses[installed] # None THEN uses[installed] ELSE pollerOf
  <2>1. found \in {None, pollerOf}
    OBVIOUS
  <2>2. \/ found # None /\ at' = [at EXCEPT ![a] = T!Served(a)] /\ uses' = [uses EXCEPT ![a] = found]
        \/ at' = [at EXCEPT ![a] = "missing"] /\ UNCHANGED uses
    BY <1>4 DEF T!Locate
  <2>3. at[a] \in {"installed", "away"} /\ UNCHANGED <<token, installed, stopping>>
    BY <1>4 DEF T!Locate
  <2>4. T!Served(a) \in {"located", "gone"}
    BY DEF T!Served
  <2>. HIDE DEF found
  <2>5. CASE found # None /\ at' = [at EXCEPT ![a] = T!Served(a)] /\ uses' = [uses EXCEPT ![a] = found]
    BY <1>0, <2>1, <2>3, <2>4, <2>5
  <2>6. CASE at' = [at EXCEPT ![a] = "missing"] /\ UNCHANGED uses
    BY <1>0, <2>3, <2>6
  <2>. QED
    BY <2>2, <2>5, <2>6
<1>5. ASSUME NEW a \in T!Actors, T!CreateFails(a) PROVE PeopleInvariant'
  BY <1>0, <1>5 DEF T!CreateFails
<1>6. ASSUME NEW x \in Stops, T!Remove(x) PROVE PeopleInvariant'
  BY <1>0, <1>6 DEF T!Remove
<1>. QED
  BY <1>1, <1>2, <1>3, <1>4, <1>5, <1>6

\* A stop clears the callback of the poller that its worker had found.
LEMMA StopClears ==
    ASSUME T!TelegramAssumption, PeopleInvariant, NEW w \in Workers \cup {None}, T!Stop(w)
    PROVE  /\ poller' \in [T!Actors -> [token : Tokens \cup {None}, callback : Workers \cup {None},
                                        last : 0..MaxMessages]]
           /\ \A a \in T!Actors : /\ poller'[a].token = poller[a].token /\ poller'[a].last = poller[a].last
                                  /\ poller'[a].callback \in {None, poller[a].callback}
           /\ w # None /\ uses[w] # None => poller'[uses[w]].callback = None
<1>1. w # None => uses[w] \in T!Actors \cup {None}
  BY DEF PeopleInvariant, T!Actors
<1>. QED
  BY <1>1 DEF T!Stop, PeopleInvariant

\* The steps that change pollers.
LEMMA PollerStep ==
    ASSUME T!TelegramAssumption, TelegramInvariant,
           \/ \E w \in Workers : T!Install(w) \/ T!SetCallback(w)
           \/ \E a \in T!Actors : T!Create(a) \/ T!EnterPoller(a)
           \/ \E x \in Stops : T!StopRemoved(x)
    PROVE  TelegramInvariant'
<1>. USE DEF TelegramInvariant, PeopleInvariant, PollersApart, T!OnePoller, T!TelegramAssumption
<1>. Workers \subseteq T!Actors
  BY DEF T!Actors
<1>0. UNCHANGED <<sent, confirmed, storing, rows, recent, unheard, unchecked, restarts>>
  BY DEF T!Install, T!SetCallback, T!Create, T!EnterPoller, T!StopRemoved, T!mail
<1>1. ASSUME NEW w \in Workers, T!Install(w) PROVE TelegramInvariant'
  <2>1. UNCHANGED <<token, pollerOf, uses, polling, stopping>> /\ at[w] = "configured" /\ installed' = w
        /\ at' = [at EXCEPT ![w] = "installed"] /\ T!Stop(installed)
    BY <1>1 DEF T!Install
  <2>2. /\ poller' \in [T!Actors -> [token : Tokens \cup {None}, callback : Workers \cup {None},
                                     last : 0..MaxMessages]]
        /\ \A a \in T!Actors : /\ poller'[a].token = poller[a].token /\ poller'[a].last = poller[a].last
                               /\ poller'[a].callback \in {None, poller[a].callback}
    <3>1. PeopleInvariant /\ installed \in Workers \cup {None} /\ T!Stop(installed)
      BY <2>1
    <3>. HIDE DEF PeopleInvariant, T!TelegramAssumption
    <3>. QED
      BY <3>1, StopClears
  <2>3. w # pollerOf
    BY <2>1
  <2>4. PeopleInvariant'
    BY <2>1, <2>2, <2>3
  <2>. QED
    BY <1>0, <2>1, <2>2, <2>4, MailStays
<1>2. ASSUME NEW x \in Stops, T!StopRemoved(x) PROVE TelegramInvariant'
  <2>1. UNCHANGED <<token, installed, pollerOf, at, uses, polling>> /\ stopping[x].of \in Workers
        /\ stopping' = [stopping EXCEPT ![x].at = "gone"] /\ T!Stop(stopping[x].of)
    BY <1>2 DEF T!StopRemoved
  <2>2. /\ poller' \in [T!Actors -> [token : Tokens \cup {None}, callback : Workers \cup {None},
                                     last : 0..MaxMessages]]
        /\ \A a \in T!Actors : /\ poller'[a].token = poller[a].token /\ poller'[a].last = poller[a].last
                               /\ poller'[a].callback \in {None, poller[a].callback}
    <3>1. PeopleInvariant /\ stopping[x].of \in Workers \cup {None} /\ T!Stop(stopping[x].of)
      BY <2>1
    <3>. HIDE DEF PeopleInvariant, T!TelegramAssumption
    <3>. QED
      BY <3>1, StopClears
  <2>3. PeopleInvariant'
    BY <2>1, <2>2
  <2>. QED
    BY <1>0, <2>1, <2>2, <2>3, MailStays
<1>3. ASSUME NEW w \in Workers, T!SetCallback(w) PROVE TelegramInvariant'
  <2>1. /\ UNCHANGED <<token, installed, pollerOf, uses, polling, stopping>> /\ at[w] = "located"
        /\ at' = [at EXCEPT ![w] = "running"] /\ uses[w] = pollerOf /\ pollerOf \in T!Actors
        /\ poller' = [poller EXCEPT ![pollerOf].callback = w]
    BY <1>3 DEF T!SetCallback
  <2>2. PeopleInvariant'
    BY <2>1
  <2>. QED
    BY <1>0, <2>1, <2>2, MailStays
<1>4. ASSUME NEW a \in T!Actors, T!Create(a) PROVE TelegramInvariant'
  <2>1. /\ UNCHANGED <<token, installed, pollerOf, uses, stopping>> /\ at[a] = "missing" /\ token # None
        /\ at' = [at EXCEPT ![a] = "created"] /\ polling' = polling \cup {a}
        /\ poller' = [poller EXCEPT ![a] = [token |-> token, callback |-> None, last |-> 0]]
    <3>1. [T!Fresh EXCEPT !.token = token] = [token |-> token, callback |-> None, last |-> 0]
      BY DEF T!Fresh
    <3>. QED
      BY <1>4, <3>1 DEF T!Create
  <2>2. a # pollerOf /\ 0 \in 0..MaxMessages /\ token \in Tokens
    BY <2>1
  <2>3. PeopleInvariant'
    BY <2>1, <2>2
  <2>. QED
    BY <1>0, <2>1, <2>2, <2>3, MailStays
<1>5. ASSUME NEW a \in T!Actors, T!EnterPoller(a) PROVE TelegramInvariant'
  <2>1. /\ UNCHANGED <<token, installed, poller, stopping>> /\ at[a] = "created"
        /\ pollerOf' = (IF pollerOf = None THEN a ELSE pollerOf)
        /\ polling' = (IF pollerOf = None THEN polling ELSE polling \ {a})
        /\ uses' = [uses EXCEPT ![a] = pollerOf']
        /\ at' = [at EXCEPT ![a] = T!Served(a)] /\ T!Served(a) \in {"located", "gone"}
    BY <1>5 DEF T!EnterPoller, T!Served
  <2>2. a # pollerOf /\ a # None
    BY <2>1
  <2>3. PeopleInvariant'
    <3>1. CASE pollerOf = None
      BY <2>1, <2>2, <3>1
    <3>2. CASE pollerOf # None
      BY <2>1, <2>2, <3>2
    <3>. QED
      BY <3>1, <3>2
  <2>. QED
    BY <1>0, <2>1, <2>2, <2>3, MailStays
<1>. QED
  BY <1>1, <1>2, <1>3, <1>4, <1>5

\* What a poller fetches it has not given out before.
LEMMA FetchStep ==
    ASSUME T!TelegramAssumption, TelegramInvariant, NEW p \in T!Actors, T!Fetch(p)
    PROVE  TelegramInvariant'
<1>. USE DEF TelegramInvariant, PeopleInvariant, PollersApart, T!OnePoller, T!TelegramAssumption
<1>. DEFINE t == poller[p].token
            seen == T!Max({confirmed[t], poller[p].last})
            new == seen + 1 .. sent[t]
            task == [for |-> poller[p].callback, ids |-> new, inserting |-> 0, stored |-> FALSE]
<1>1. /\ p \in polling /\ confirmed' = [confirmed EXCEPT ![t] = seen]
      /\ poller' = [poller EXCEPT ![p].last = T!Max({poller[p].last, sent[t]})]
      /\ storing' = (IF poller[p].callback = None \/ new = {} THEN storing ELSE storing \cup {task})
      /\ UNCHANGED <<token, installed, pollerOf, at, uses, polling, stopping,
                     sent, rows, recent, unheard, unchecked, restarts>>
  BY DEF T!Fetch
<1>2. t \in Tokens
  BY <1>1
<1>3. /\ sent[t] \in 0..MaxMessages /\ confirmed[t] \in 0..MaxMessages /\ poller[p].last \in 0..MaxMessages
      /\ confirmed \in [Tokens -> 0..MaxMessages] /\ storing \subseteq Callbacks
  BY <1>2 DEF MailInvariant, MailTypes, HeldFetched, FetchedAndNew, HeldApart
<1>4. seen \in 0..MaxMessages /\ seen >= poller[p].last
  <2>1. confirmed[t] \in Nat /\ poller[p].last \in Nat
    BY <1>3
  <2>. HIDE DEF TelegramInvariant, PeopleInvariant, PollersApart, T!OnePoller, T!TelegramAssumption
  <2>2. seen \in {confirmed[t], poller[p].last} /\ seen >= poller[p].last
    BY <2>1, GreaterOfTwo
  <2>. HIDE DEF t, seen
  <2>. QED
    BY <1>3, <2>2
<1>. DEFINE last_ == T!Max({poller[p].last, sent[t]})
<1>5. last_ \in 0..MaxMessages /\ last_ >= poller[p].last /\ last_ >= sent[t]
  BY <1>3, GreaterOfTwo
<1>6. poller' = [poller EXCEPT ![p].last = last_]
  BY <1>1
<1>7. new \subseteq 1..MaxMessages /\ \A n \in new : n > poller[p].last /\ n <= last_
  <2>. HIDE DEF t, seen, last_
  <2>. QED
    BY <1>3, <1>4, <1>5
<1>8. confirmed' \in [Tokens -> 0..MaxMessages]
  BY <1>1, <1>3, <1>4
<1>. HIDE DEF t, seen, new, last_
<1>9. /\ poller' \in [T!Actors -> [token : Tokens \cup {None}, callback : Workers \cup {None},
                                   last : 0..MaxMessages]]
      /\ \A a \in T!Actors : /\ poller'[a].token = poller[a].token /\ poller'[a].callback = poller[a].callback
                             /\ poller'[a].last = IF a = p THEN last_ ELSE poller[a].last
  BY <1>5, <1>6
<1>10. PeopleInvariant'
  BY <1>1, <1>9
<1>11. pollerOf # None => poller'[pollerOf].last >= poller[pollerOf].last
  BY <1>5, <1>9
<1>12. \A g \in storing : pollerOf # None /\ \A n \in Held(g) : n <= poller'[pollerOf].last /\ n \in Nat
  BY <1>3, <1>9, <1>11 DEF MailInvariant, MailTypes, HeldFetched, FetchedAndNew, HeldApart, Held, Callbacks
<1>15. /\ UNCHANGED <<pollerOf, sent, rows, recent, unheard, unchecked, restarts>>
       /\ storing' = storing \/ (poller[p].callback # None /\ storing' = storing \cup {task})
  BY <1>1
<1>16. /\ sent' \in [Tokens -> 0..MaxMessages] /\ rows' \in [1..MaxMessages -> Nat] /\ T!StoredOnce'
       /\ recent' \subseteq Workers /\ unheard' \in BOOLEAN /\ restarts' \in 0..MaxRestarts
  BY <1>15 DEF MailInvariant, MailTypes, HeldFetched, FetchedAndNew, HeldApart, T!StoredOnce
<1>17. unchecked' \subseteq 1..MaxMessages
  BY <1>15 DEF MailInvariant, MailTypes
<1>18. ASSUME NEW n \in 1..MaxMessages
       PROVE  /\ rows'[n] <= restarts' + 1
              /\ rows'[n] = restarts' + 1 =>
                   /\ pollerOf' # None /\ n <= poller[pollerOf].last /\ n <= poller'[pollerOf].last
                   /\ \A g \in storing : n \notin Held(g)
  <2>1. /\ rows'[n] <= restarts' + 1
        /\ rows'[n] = restarts' + 1 => /\ pollerOf' # None /\ n <= poller[pollerOf].last
                                      /\ \A g \in storing : n \notin Held(g)
    BY <1>15 DEF MailInvariant, RowsFew
  <2>2. pollerOf # None => poller'[pollerOf].last \in 0..MaxMessages /\ poller[pollerOf].last \in 0..MaxMessages
    BY <1>9
  <2>. HIDE DEF TelegramInvariant, PeopleInvariant, PollersApart, T!OnePoller
  <2>. QED
    BY <1>11, <1>15, <2>1, <2>2
<1>13. CASE storing' = storing
  <2>1. \A g \in storing' :
         /\ pollerOf' # None /\ \A n \in Held(g) : n <= poller'[pollerOf'].last
         /\ g.inserting # 0 => IsNew(g, rows, unchecked)'
    BY <1>12, <1>13, <1>15 DEF IsNew, MailInvariant, MailTypes, HeldFetched, FetchedAndNew, HeldApart
  <2>2. \A g, h \in storing' : g # h => Held(g) \cap Held(h) = {}
    BY <1>13 DEF MailInvariant, MailTypes, HeldFetched, FetchedAndNew, HeldApart
  <2>. QED
    <3>1. HeldFetched' /\ HeldApart' /\ MailTypes'
      BY <1>3, <1>8, <1>13, <1>16, <1>17, <2>1, <2>2 DEF HeldFetched, FetchedAndNew, HeldApart, MailTypes, Held
    <3>2. RowsFew'
      BY <1>13, <1>15, <1>18 DEF RowsFew, Held
    <3>. HIDE DEF TelegramInvariant, PeopleInvariant, PollersApart, T!OnePoller, T!TelegramAssumption
    <3>. QED
      BY <1>10, <1>16, <3>1, <3>2 DEF TelegramInvariant, MailInvariant
<1>14. CASE poller[p].callback # None /\ storing' = storing \cup {task}
  <2>1. p = pollerOf /\ pollerOf # None
    BY <1>14
  <2>2. task \in Callbacks
    BY <1>3, <1>7, <1>14 DEF Callbacks
  <2>3. Held(task) = new /\ task.inserting = 0
    BY DEF Held
  <2>. HIDE DEF task
  <2>4. \A n \in Held(task) : n <= poller'[pollerOf].last
    <3>1. poller'[pollerOf].last = last_
      BY <1>9, <2>1
    <3>. QED
      BY <1>7, <2>3, <3>1
  <2>5. \A g \in storing : Held(g) \cap Held(task) = {}
    <3>1. \A g \in storing : \A n \in Held(g) : n <= poller[p].last /\ n \in Nat
      BY <1>3, <2>1 DEF MailInvariant, MailTypes, HeldFetched, FetchedAndNew, HeldApart, Held, Callbacks
    <3>2. ASSUME NEW n \in Held(task) PROVE ~(n <= poller[p].last)
      <4>1. n \in new
        BY <2>3
      <4>2. n \in Nat /\ n > poller[p].last /\ poller[p].last \in Nat
        <5>1. MaxMessages \in Nat
          OBVIOUS
        <5>. HIDE DEF TelegramInvariant, PeopleInvariant, PollersApart, T!OnePoller, T!TelegramAssumption
        <5>2. n \in 1..MaxMessages /\ n > poller[p].last /\ poller[p].last \in 0..MaxMessages
          BY <1>3, <1>7, <4>1
        <5>. QED
          BY <5>1, <5>2
      <4>. QED
        BY <4>2
    <3>. QED
      BY <3>1, <3>2
  <2>6. \A g \in storing' :
         /\ pollerOf' # None /\ \A n \in Held(g) : n <= poller'[pollerOf'].last
         /\ g.inserting # 0 => IsNew(g, rows, unchecked)'
    BY <1>12, <1>14, <1>15, <2>1, <2>3, <2>4 DEF IsNew, MailInvariant, MailTypes, HeldFetched, FetchedAndNew, HeldApart
  <2>7. \A g, h \in storing' : g # h => Held(g) \cap Held(h) = {}
    BY <1>14, <2>5 DEF MailInvariant, MailTypes, HeldFetched, FetchedAndNew, HeldApart
  <2>8. storing' \subseteq Callbacks
    BY <1>3, <1>14, <2>2
  <2>. QED
    <3>1. HeldFetched' /\ HeldApart' /\ MailTypes'
      BY <1>8, <1>16, <1>17, <2>6, <2>7, <2>8 DEF HeldFetched, FetchedAndNew, HeldApart, MailTypes, Held
    <3>2. RowsFew'
      <4>1. ASSUME NEW n \in 1..MaxMessages, n <= poller[pollerOf].last PROVE n \notin Held(task)
        <5>1. poller[p].last \in 0..MaxMessages /\ MaxMessages \in Nat /\ n <= poller[p].last
          BY <1>3, <2>1, <4>1
        <5>. HIDE DEF TelegramInvariant, PeopleInvariant, PollersApart, T!OnePoller, T!TelegramAssumption
        <5>. QED
          BY <1>7, <2>3, <5>1
      <4>. QED
        BY <1>14, <1>15, <1>18, <4>1 DEF RowsFew, Held
    <3>. HIDE DEF TelegramInvariant, PeopleInvariant, PollersApart, T!OnePoller, T!TelegramAssumption
    <3>. QED
      BY <1>10, <1>16, <3>1, <3>2 DEF TelegramInvariant, MailInvariant
<1>. QED
  BY <1>10, <1>13, <1>14, <1>15

\* A goroutine that goes on holds no more than it did, and does not insert
\* what is stored.
LEMMA GoroutineGoesOn ==
    ASSUME T!TelegramAssumption, TelegramInvariant, NEW g \in storing, NEW H \in SUBSET Callbacks,
           storing' = (storing \ {g}) \cup H, \A h, k \in H : h = k,
           \A h \in H : /\ Held(h) \subseteq Held(g)
                        /\ h.inserting # 0 => IsNew(h, rows, unchecked)',
           rows' \in [1..MaxMessages -> Nat], T!StoredOnce', RowsFew',
           \A n \in 1..MaxMessages : rows'[n] = rows[n] \/ n = g.inserting,
           unchecked \subseteq unchecked', unchecked' \subseteq 1..MaxMessages,
           recent' \subseteq Workers, unheard' \in BOOLEAN,
           UNCHANGED <<token, installed, pollerOf, at, uses, poller, polling, stopping, sent, confirmed, restarts>>
    PROVE  TelegramInvariant'
<1>. USE DEF TelegramInvariant
<1>1. PeopleInvariant'
  BY DEF PeopleInvariant, PollersApart, T!OnePoller
<1>2. storing \subseteq Callbacks /\ storing' \subseteq Callbacks
  BY DEF MailInvariant, MailTypes, HeldFetched, FetchedAndNew, HeldApart
<1>3. ASSUME NEW h \in storing \ {g}, h.inserting # 0
      PROVE  IsNew(h, rows, unchecked)'
  <2>1. IsNew(h, rows, unchecked) /\ h.inserting \in 1..MaxMessages
    BY <1>2, <1>3 DEF MailInvariant, MailTypes, HeldFetched, FetchedAndNew, HeldApart, Callbacks
  <2>2. h.inserting # g.inserting
    <3>1. h.inserting \in Held(h) /\ Held(h) \cap Held(g) = {}
      BY <1>3 DEF MailInvariant, MailTypes, HeldFetched, FetchedAndNew, HeldApart, Held
    <3>2. g.inserting = h.inserting => g.inserting \in Held(g)
      BY <1>3 DEF Held
    <3>. QED
      BY <3>1, <3>2
  <2>. QED
    BY <2>1, <2>2 DEF IsNew
<1>4. \A h \in storing' :
         /\ pollerOf' # None /\ \A n \in Held(h) : n <= poller'[pollerOf'].last
         /\ h.inserting # 0 => IsNew(h, rows, unchecked)'
  BY <1>3 DEF MailInvariant, MailTypes, HeldFetched, FetchedAndNew, HeldApart
<1>5. \A h, k \in storing' : h # k => Held(h) \cap Held(k) = {}
  BY DEF MailInvariant, MailTypes, HeldFetched, FetchedAndNew, HeldApart
<1>. QED
  BY <1>1, <1>2, <1>4, <1>5 DEF MailInvariant, MailTypes, HeldFetched, FetchedAndNew, HeldApart

LEMMA OneGoesOn ==
    ASSUME T!TelegramAssumption, TelegramInvariant, NEW g \in storing, NEW h \in Callbacks,
           storing' = (storing \ {g}) \cup {h}, Held(h) \subseteq Held(g),
           h.inserting # 0 => IsNew(h, rows, unchecked)',
           rows' \in [1..MaxMessages -> Nat], T!StoredOnce', RowsFew',
           \A n \in 1..MaxMessages : rows'[n] = rows[n] \/ n = g.inserting,
           unchecked \subseteq unchecked', unchecked' \subseteq 1..MaxMessages,
           recent' \subseteq Workers, unheard' \in BOOLEAN,
           UNCHANGED <<token, installed, pollerOf, at, uses, poller, polling, stopping, sent, confirmed, restarts>>
    PROVE  TelegramInvariant'
<1>. DEFINE H == {h}
<1>1. H \in SUBSET Callbacks /\ storing' = (storing \ {g}) \cup H
  OBVIOUS
<1>2. \A j, k \in H : j = k
  OBVIOUS
<1>3. \A j \in H : /\ Held(j) \subseteq Held(g)
                   /\ j.inserting # 0 => IsNew(j, rows, unchecked)'
  OBVIOUS
<1>. HIDE DEF H
<1>. QED
  BY <1>1, <1>2, <1>3, GoroutineGoesOn

\* Rows that stay few when goroutines hold no more.
LEMMA RowsStayFew ==
    ASSUME RowsFew, UNCHANGED <<rows, restarts, pollerOf, poller>>,
           \A h \in storing' : \E k \in storing : Held(h) \subseteq Held(k)
    PROVE  RowsFew'
<1>1. \A h : Held(h)' = Held(h)
  BY DEF Held
<1>2. ASSUME NEW n \in 1..MaxMessages, \A k \in storing : n \notin Held(k), NEW h \in storing'
      PROVE  n \notin Held(h)'
  BY <1>1, <1>2
<1>. QED
  BY <1>2 DEF RowsFew

\* The goroutines of callbacks.
LEMMA GoroutineStep ==
    ASSUME T!TelegramAssumption, TelegramInvariant, NEW g \in storing, T!Handles(g)
    PROVE  TelegramInvariant'
<1>0. /\ g \in Callbacks /\ recent \subseteq Workers /\ unheard \in BOOLEAN
      /\ rows \in [1..MaxMessages -> Nat] /\ T!StoredOnce /\ RowsFew /\ unchecked \subseteq 1..MaxMessages
  BY DEF TelegramInvariant, MailInvariant, MailTypes
<1>1. CASE T!LookUp(g)
  <2>. DEFINE n == T!Min(g.ids)
  <2>1. /\ g.inserting = 0 /\ g.ids # {}
        /\ UNCHANGED <<token, installed, pollerOf, at, uses, poller, polling, stopping, sent, confirmed,
                       rows, recent, unheard, restarts>>
    BY <1>1 DEF T!LookUp, T!people
  <2>2. n \in g.ids
    <3>1. g.ids \in SUBSET Nat
      BY <1>0 DEF Callbacks
    <3>. QED
      BY <2>1, <3>1, LeastOfSome
  <2>3. n \in 1..MaxMessages /\ rows[n] \in Nat
    BY <1>0, <2>2 DEF Callbacks
  <2>4. \E i : /\ storing' = (storing \ {g}) \cup {[g EXCEPT !.inserting = i, !.ids = g.ids \ {n}]}
               /\ \/ i = (IF rows[n] > 0 THEN 0 ELSE n) /\ unchecked' = unchecked
                  \/ i = n /\ unchecked' = unchecked \cup {n}
    BY <1>1 DEF T!LookUp, T!Becomes
  <2>. HIDE DEF n
  <2>5. PICK i : /\ storing' = (storing \ {g}) \cup {[g EXCEPT !.inserting = i, !.ids = g.ids \ {n}]}
                 /\ \/ i = (IF rows[n] > 0 THEN 0 ELSE n) /\ unchecked' = unchecked
                    \/ i = n /\ unchecked' = unchecked \cup {n}
    BY <2>4
  <2>6. /\ i \in 0..MaxMessages /\ i \in {0, n} /\ g.ids \ {n} \in SUBSET (1..MaxMessages)
        /\ unchecked \subseteq unchecked' /\ unchecked' \subseteq 1..MaxMessages
        /\ i # 0 => i \in unchecked' \/ rows[i] = 0
    BY <1>0, <2>3, <2>5 DEF T!TelegramAssumption, Callbacks
  <2>7. PICK S \in SUBSET (1..MaxMessages) : S = g.ids \ {n}
    BY <2>6
  <2>8. PICK h : h = [g EXCEPT !.inserting = i, !.ids = S]
    OBVIOUS
  <2>9. h \in Callbacks /\ h.inserting = i /\ h.ids = S
    BY <1>0, <2>6, <2>8, Zenon DEF Callbacks
  <2>10. Held(h) \subseteq Held(g) /\ storing' = (storing \ {g}) \cup {h}
    BY <2>2, <2>5, <2>6, <2>7, <2>8, <2>9 DEF Held
  <2>11. h.inserting # 0 => IsNew(h, rows, unchecked)'
    BY <2>1, <2>6, <2>7, <2>9 DEF IsNew
  <2>12. \A m \in 1..MaxMessages : rows'[m] = rows[m] \/ m = g.inserting
    BY <2>1
  <2>13. T!StoredOnce' /\ rows' \in [1..MaxMessages -> Nat] /\ recent' \subseteq Workers /\ unheard' \in BOOLEAN
    <3>1. restarts \in Nat
      BY DEF TelegramInvariant, MailInvariant, MailTypes
    <3>. QED
      BY <1>0, <2>1, <2>6, <3>1 DEF T!StoredOnce
  <2>14. RowsFew'
    BY <1>0, <2>1, <2>10, RowsStayFew
  <2>. QED
    BY <2>1, <2>6, <2>9, <2>10, <2>11, <2>12, <2>13, <2>14, OneGoesOn
<1>2. CASE T!Insert(g)
  <2>1. /\ g.inserting # 0 /\ IsNew(g, rows, unchecked) /\ g.inserting \in 1..MaxMessages
        /\ UNCHANGED <<token, installed, pollerOf, at, uses, poller, polling, stopping, sent, confirmed,
                       recent, unchecked, restarts>>
    BY <1>0, <1>2 DEF T!Insert, T!people, TelegramInvariant, MailInvariant, MailTypes, HeldFetched, FetchedAndNew, HeldApart, Callbacks
  <2>2. \E h \in Callbacks : /\ storing' = (storing \ {g}) \cup {h}
                             /\ h.ids = g.ids /\ h.inserting = 0
    <3>1. 0 \in 0..MaxMessages /\ TRUE \in BOOLEAN
      BY DEF T!TelegramAssumption
    <3>2. \E h : /\ storing' = (storing \ {g}) \cup {h}
                 /\ h = [g EXCEPT !.inserting = 0, !.stored = TRUE] \/ h = [g EXCEPT !.inserting = 0]
      BY <1>2, Zenon DEF T!Insert, T!Becomes
    <3>. PICK h : /\ storing' = (storing \ {g}) \cup {h}
                  /\ h = [g EXCEPT !.inserting = 0, !.stored = TRUE] \/ h = [g EXCEPT !.inserting = 0]
      BY <3>2
    <3>5. h \in Callbacks /\ h.inserting = 0 /\ h.ids = g.ids
      <4>1. ASSUME h = [g EXCEPT !.inserting = 0] PROVE h \in Callbacks /\ h.inserting = 0 /\ h.ids = g.ids
        BY <1>0, <3>1, <4>1, Zenon DEF Callbacks
      <4>2. ASSUME h = [g EXCEPT !.inserting = 0, !.stored = TRUE]
            PROVE  h \in Callbacks /\ h.inserting = 0 /\ h.ids = g.ids
        BY <1>0, <3>1, <4>2, Zenon DEF Callbacks
      <4>. QED
        BY <4>1, <4>2
    <3>. QED
      BY <3>5
  <2>. PICK h \in Callbacks : storing' = (storing \ {g}) \cup {h} /\ h.ids = g.ids /\ h.inserting = 0
    BY <2>2
  <2>3. Held(h) \subseteq Held(g) /\ g.inserting \in Held(g) /\ g.inserting \notin Held(h)
    BY <2>1 DEF Held, IsNew
  \* The one that is inserted is still with its goroutine, and with no other.
  <2>4. /\ restarts \in Nat /\ rows[g.inserting] \in Nat /\ rows[g.inserting] <= restarts + 1
        /\ rows[g.inserting] # restarts + 1 /\ pollerOf # None /\ g.inserting <= poller[pollerOf].last
    <3>1. restarts \in Nat /\ pollerOf # None /\ g.inserting <= poller[pollerOf].last
      BY <2>3 DEF TelegramInvariant, MailInvariant, MailTypes, HeldFetched, FetchedAndNew
    <3>. QED
      BY <1>0, <2>1, <2>3, <3>1 DEF RowsFew
  <2>5. \A k \in storing' : g.inserting \notin Held(k)
    BY <2>3 DEF TelegramInvariant, MailInvariant, HeldApart
  <2>6. /\ unheard' \in BOOLEAN /\ rows' \in [1..MaxMessages -> Nat] /\ T!StoredOnce' /\ RowsFew'
        /\ \A n \in 1..MaxMessages : rows'[n] = rows[n] \/ n = g.inserting
    <3>1. CASE rows' = [rows EXCEPT ![g.inserting] = rows[g.inserting] + 1] /\ unheard' = TRUE
      <4>1. unheard' \in BOOLEAN
        BY <3>1, Zenon
      <4>2. /\ rows' \in [1..MaxMessages -> Nat] /\ rows'[g.inserting] = rows[g.inserting] + 1
            /\ \A n \in 1..MaxMessages : n # g.inserting => rows'[n] = rows[n]
        BY <1>0, <2>1, <3>1
      <4>3. T!StoredOnce'
        <5>1. rows'[g.inserting] <= IF g.inserting \in unchecked THEN 1 + restarts ELSE 1
          BY <2>1, <2>4, <4>2 DEF IsNew
        <5>. QED
          BY <1>0, <2>1, <4>2, <5>1 DEF T!StoredOnce
      <4>4. RowsFew'
        <5>1. ASSUME NEW n \in 1..MaxMessages, n # g.inserting
              PROVE  /\ rows'[n] <= restarts + 1
                     /\ rows'[n] = restarts + 1 =>
                          pollerOf # None /\ n <= poller[pollerOf].last /\ \A k \in storing' : n \notin Held(k)
          BY <1>0, <2>3, <4>2, <5>1 DEF RowsFew
        <5>2. rows'[g.inserting] <= restarts + 1
          BY <2>4, <4>2
        <5>. QED
          BY <2>1, <2>4, <2>5, <5>1, <5>2 DEF RowsFew, Held
      <4>. QED
        BY <4>1, <4>2, <4>3, <4>4
    <3>2. CASE UNCHANGED <<rows, unheard>>
      <4>1. RowsFew'
        BY <1>0, <2>1, <2>3, <3>2, RowsStayFew
      <4>. QED
        BY <1>0, <2>1, <3>2, <4>1 DEF T!StoredOnce
    <3>. QED
      BY <1>2, <3>1, <3>2 DEF T!Insert
  <2>7. recent' \subseteq Workers /\ unchecked \subseteq unchecked' /\ unchecked' \subseteq 1..MaxMessages
    BY <1>0, <2>1
  <2>. QED
    BY <2>1, <2>3, <2>6, <2>7, OneGoesOn
<1>3. CASE T!Nudge(g)
  <2>1. /\ storing' = (storing \ {g}) \cup {} /\ UNCHANGED <<rows, unchecked>>
        /\ UNCHANGED <<token, installed, pollerOf, at, uses, poller, polling, stopping, sent, confirmed, restarts>>
        /\ recent' \subseteq Workers
    BY <1>0, <1>3 DEF T!Nudge, T!Becomes, T!people, Callbacks
  <2>2. unheard' \in BOOLEAN
    BY <1>0, <1>3 DEF T!Nudge, T!TelegramAssumption
  <2>. DEFINE H == {}
  <2>3. /\ H \in SUBSET Callbacks /\ storing' = (storing \ {g}) \cup H /\ \A j, k \in H : j = k
        /\ \A j \in H : /\ Held(j) \subseteq Held(g)
                        /\ j.inserting # 0 => IsNew(j, rows, unchecked)'
    BY <2>1
  <2>4. /\ rows' \in [1..MaxMessages -> Nat] /\ T!StoredOnce'
        /\ \A n \in 1..MaxMessages : rows'[n] = rows[n] \/ n = g.inserting
        /\ unchecked \subseteq unchecked' /\ unchecked' \subseteq 1..MaxMessages
    BY <1>0, <2>1 DEF T!StoredOnce
  <2>5. RowsFew'
    BY <1>0, <2>1, RowsStayFew
  <2>. HIDE DEF H
  <2>. QED
    BY <2>1, <2>2, <2>3, <2>4, <2>5, GoroutineGoesOn
<1>. QED
  BY <1>1, <1>2, <1>3 DEF T!Handles

\* Messages that are sent, time, and the manager's restarts.
LEMMA OutsideStep ==
    ASSUME T!TelegramAssumption, TelegramInvariant,
           \/ \E t \in Tokens : T!Send(t)
           \/ \E w \in Workers : T!TimePasses(w)
           \/ T!Restart \/ UNCHANGED telegramVars
    PROVE  TelegramInvariant'
<1>. USE DEF TelegramInvariant, T!TelegramAssumption
<1>1. ASSUME NEW t \in Tokens, T!Send(t) PROVE TelegramInvariant'
  <2>1. sent' \in [Tokens -> 0..MaxMessages]
    <3>1. sent[t] + 1 \in 0..MaxMessages
      BY <1>1 DEF T!Send, MailInvariant, MailTypes, HeldFetched, FetchedAndNew, HeldApart
    <3>. QED
      BY <1>1, <3>1 DEF T!Send, MailInvariant, MailTypes, HeldFetched, FetchedAndNew, HeldApart
  <2>2. UNCHANGED <<token, installed, pollerOf, at, uses, poller, polling, stopping, confirmed,
                    storing, rows, recent, unheard, unchecked, restarts>>
    BY <1>1 DEF T!Send, T!people
  <2>. QED
    BY <2>1, <2>2 DEF PeopleInvariant, PollersApart, T!OnePoller, MailInvariant, MailTypes, HeldFetched, FetchedAndNew, IsNew,
                      HeldApart, RowsFew, Held, T!StoredOnce
<1>2. CASE (\E w \in Workers : T!TimePasses(w)) \/ UNCHANGED telegramVars
  <2>1. UNCHANGED <<token, installed, pollerOf, at, uses, poller, polling, stopping, sent, confirmed,
                    storing, rows, unheard, unchecked, restarts>>
        /\ recent' \subseteq recent
    BY <1>2 DEF T!TimePasses, T!people, telegramVars
  <2>. QED
    BY <2>1 DEF PeopleInvariant, PollersApart, T!OnePoller, MailInvariant, MailTypes, HeldFetched, FetchedAndNew, IsNew,
                HeldApart, RowsFew, Held, T!StoredOnce
<1>3. CASE T!Restart
  <2>1. 0 \in 0..MaxMessages /\ restarts' \in 0..MaxRestarts /\ restarts' = restarts + 1 /\ restarts \in Nat
    BY <1>3 DEF T!Restart, MailInvariant, MailTypes, HeldFetched, FetchedAndNew, HeldApart
  <2>2. PeopleInvariant'
    BY <1>3, <2>1 DEF T!Restart, PeopleInvariant, PollersApart, T!OnePoller, T!Fresh, T!Idle
  <2>3. \A n \in 1..MaxMessages : /\ rows'[n] = rows[n] /\ rows[n] \in Nat /\ rows[n] <= restarts + 1
                                  /\ rows[n] <= IF n \in unchecked THEN 1 + restarts ELSE 1
    BY <1>3 DEF T!Restart, MailInvariant, MailTypes, RowsFew, T!StoredOnce
  <2>4. T!StoredOnce' /\ RowsFew'
    <3>1. unchecked' = unchecked
      BY <1>3 DEF T!Restart
    <3>. QED
      BY <2>1, <2>3, <3>1 DEF RowsFew, T!StoredOnce
  <2>5. MailTypes' /\ HeldFetched' /\ HeldApart'
    BY <1>3, <2>1 DEF T!Restart, MailInvariant, MailTypes, HeldFetched, HeldApart
  <2>. QED
    BY <2>2, <2>4, <2>5 DEF MailInvariant
<1>. QED
  BY <1>1, <1>2, <1>3

LEMMA TelegramInvariantNext ==
    ASSUME T!TelegramAssumption, TelegramInvariant, [T!Next]_telegramVars PROVE TelegramInvariant'
BY LookingStep, PollerStep, FetchStep, GoroutineStep, OutsideStep DEF T!Next

LEMMA StopSilences ==
    ASSUME T!TelegramAssumption, TelegramInvariant, NEW x \in Stops, T!StopRemoved(x),
           at[stopping[x].of] = "running"
    PROVE  \A p \in T!Actors : poller'[p].callback # stopping[x].of
<1>. USE DEF TelegramInvariant, PeopleInvariant, PollersApart
<1>. DEFINE w == stopping[x].of
<1>1. w \in Workers /\ w \in T!Actors /\ w # None /\ T!Stop(w)
  BY DEF T!StopRemoved, T!Actors, T!TelegramAssumption
<1>2. uses[w] = pollerOf /\ uses[w] # None
  BY <1>1
<1>3. PeopleInvariant
  OBVIOUS
<1>. HIDE DEF w
<1>4. /\ \A a \in T!Actors : poller'[a].callback \in {None, poller[a].callback}
      /\ poller'[pollerOf].callback = None
  <2>. HIDE DEF PeopleInvariant, T!TelegramAssumption
  <2>. QED
    BY <1>1, <1>2, <1>3, StopClears
<1>. QED
  BY <1>1, <1>4 DEF w

-----------------------------------------------------------------------------
\* The three ways together: each step is of one, and leaves the others alone.

LEMMA RelayStays ==
    ASSUME RelayInvariant, UNCHANGED relayVars PROVE RelayInvariant'
BY DEF relayVars, RelayInvariant, R!RelayTypeOK, FoundIsSession, R!NoClaimLeftBehind, R!Waiting

DeliveryInvariant == RelayInvariant /\ TelegramInvariant

LEMMA DeliveryInvariantAlways == QueueSpec => []DeliveryInvariant
<1>1. QueueInit => DeliveryInvariant
  BY DeliveryAssumption, RelayInvariantInit, TelegramInvariantInit DEF QueueInit, DeliveryInvariant
<1>2. DeliveryInvariant /\ [QueuePart \/ RelayPart \/ TelegramPart \/ ComesToRest]_allVars => DeliveryInvariant'
  <2>. SUFFICES ASSUME DeliveryInvariant, [QueuePart \/ RelayPart \/ TelegramPart \/ ComesToRest]_allVars
                PROVE  DeliveryInvariant'
    OBVIOUS
  <2>1. CASE RelayPart
    BY <2>1, DeliveryAssumption, RelayInvariantNext, TelegramInvariantNext DEF RelayPart, DeliveryInvariant
  <2>2. CASE TelegramPart
    BY <2>2, DeliveryAssumption, RelayStays, TelegramInvariantNext DEF TelegramPart, DeliveryInvariant
  <2>3. CASE QueuePart \/ ComesToRest \/ UNCHANGED allVars
    <3>1. UNCHANGED relayVars /\ UNCHANGED telegramVars
      BY <2>3 DEF QueuePart, ComesToRest, allVars
    <3>. QED
      BY <3>1, DeliveryAssumption, RelayStays, TelegramInvariantNext DEF DeliveryInvariant
  <2>. QED
    BY <2>1, <2>2, <2>3
<1>. QED
  BY <1>1, <1>2, PTL DEF QueueSpec

\* A relay session that is over has taken no claim with it: each job claimed
\* for it was heard of, given back, or is with a courier that goes on.  The
\* pollers of a bot whose updates are fetched at once are one, and a message
\* that is fetched twice, or handled by two goroutines, is stored once; one that
\* was looked up in vain, because the query failed, is stored once a process at
\* most (worker_telegram.go, handleNewMessages).
THEOREM ClaimsAndMessagesAreKept == QueueSpec => []DeliveryInv
<1>1. DeliveryInvariant => DeliveryInv
  BY DEF DeliveryInvariant, DeliveryInv, RelayInvariant, TelegramInvariant, PeopleInvariant, MailInvariant,
         MailTypes, Callbacks, T!TelegramTypeOK
<1>. QED
  BY <1>1, DeliveryInvariantAlways, PTL

\* When StopAgent comes back from a worker that had been started, no poller
\* calls that worker, whichever of them it had found.
THEOREM StoppedWorkersAreSilent == QueueSpec => StoppedIsSilent
<1>. DEFINE Silent == \A x \in Stops : T!StopRemoved(x) =>
         LET w == stopping[x].of IN at[w] = "running" => \A p \in T!Actors : poller'[p].callback # w
<1>1. DeliveryInvariant /\ [QueuePart \/ RelayPart \/ TelegramPart \/ ComesToRest]_allVars => [Silent]_T!vars
  BY DeliveryAssumption, StopSilences DEF DeliveryInvariant
<1>. HIDE DEF Silent
<1>2. QueueSpec => [][Silent]_T!vars
  BY <1>1, DeliveryInvariantAlways, PTL DEF QueueSpec
<1>. QED
  BY <1>2, PTL DEF StoppedIsSilent, T!StoppedIsSilent, Silent
=============================================================================

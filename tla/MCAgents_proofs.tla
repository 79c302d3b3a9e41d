-------------------------- MODULE MCAgents_proofs --------------------------
(***************************************************************************)
(* The safety invariants of what runs agents and of their network: of the  *)
(* WebSocket hub, for any number of connections, of agents and of          *)
(* messages; of the A2A jobs, for any number of jobs, askers and workers,  *)
(* any limits and any mishaps; of the session of an agent, for any lines   *)
(* it is sent; of the tool loop, for any number of turns, calls and        *)
(* retries and any capacity of its channel; and of the executor of plans,  *)
(* for any nodes and rounds.                                               *)
(***************************************************************************)
EXTENDS MCAgents, FiniteSetTheorems, SequenceTheorems, TLAPS

-----------------------------------------------------------------------------
\* The hub.

\* A pump that ends leaves its connection lost or closed.
PumpsClose ==
    \A c \in Connections :
      /\ socket[c] = "new" => newest[OwnerOf[c]] # c /\ writer[c] = "none" /\ reader[c] = "none"
      /\ writer[c] = "closing" => socket[c] # "open"
      /\ writer[c] \in {"unregister", "ended"} => socket[c] = "closed"
      /\ reader[c] \in {"unregister", "closing"} => socket[c] # "open"
      /\ reader[c] = "ended" => socket[c] = "closed"

\* Who is in the hub is the agent's latest, and one that is not any more was
\* taken out by a pump of its own.
LatestOrNone ==
    /\ \A a \in H!Owners : /\ clients[a] \in {newest[a], Nobody}
                           /\ newest[a] # Nobody => OwnerOf[newest[a]] = a
    /\ \A c \in Connections :
         newest[OwnerOf[c]] = c /\ clients[OwnerOf[c]] # c => socket[c] = "closed" \/ reader[c] = "closing"

HubInvariant == H!NetHubTypeOK /\ PumpsClose /\ LatestOrNone /\ H!OldOnesClose

LEMMA HubInvariantInit == ASSUME H!NetHubAssumption, H!Init PROVE HubInvariant
<1>1. H!NetHubTypeOK
  <2>1. \A c \in Connections : send[c] = <<>>
    BY DEF H!Init
  <2>2. <<>> \in Seq(Messages) /\ Len(<<>>) = 0
    OBVIOUS
  <2>3. send \in [Connections -> Seq(Messages)]
    BY <2>2 DEF H!Init
  <2>. QED
    BY <2>1, <2>2, <2>3 DEF H!Init, H!NetHubTypeOK, H!NetHubAssumption
<1>2. \A c \in Connections : OwnerOf[c] \in H!Owners /\ c # Nobody
  BY DEF H!Owners, H!NetHubAssumption
<1>3. PumpsClose /\ LatestOrNone /\ H!OldOnesClose
  BY <1>2 DEF H!Init, PumpsClose, LatestOrNone, H!OldOnesClose
<1>. QED
  BY <1>1, <1>3 DEF HubInvariant

LEMMA HubInvariantImplies == HubInvariant => H!NetHubInv
BY DEF HubInvariant, H!NetHubInv, H!LatestWins, PumpsClose, LatestOrNone

LEMMA HubOwners == ASSUME H!NetHubAssumption
                   PROVE  /\ \A c \in Connections : OwnerOf[c] \in H!Owners /\ c # Nobody
                          /\ \A m \in Messages : To[m] \in H!Owners
BY DEF H!NetHubAssumption, H!Owners

LEMMA RegisterStep ==
    ASSUME H!NetHubAssumption, HubInvariant, NEW c \in Connections, H!Register(c)
    PROVE  HubInvariant'
<1>. USE DEF HubInvariant
<1>1. H!NetHubTypeOK'
  BY HubOwners DEF H!Register, H!NetHubTypeOK
<1>2. PumpsClose'
  BY HubOwners DEF H!Register, H!NetHubTypeOK, PumpsClose, LatestOrNone
<1>3. LatestOrNone'
  BY HubOwners DEF H!Register, H!NetHubTypeOK, LatestOrNone, PumpsClose
<1>4. H!OldOnesClose'
  BY HubOwners DEF H!Register, H!NetHubTypeOK, LatestOrNone, PumpsClose, H!OldOnesClose
<1>. QED
  BY <1>1, <1>2, <1>3, <1>4

\* The pumps of a connection, and the peer that leaves.
LEMMA PumpStep ==
    ASSUME H!NetHubAssumption, HubInvariant, NEW c \in Connections,
           \/ H!PeerLeaves(c) \/ H!PingFails(c) \/ H!WriterCloses(c) \/ H!WriterUnregisters(c)
           \/ H!ReadFails(c) \/ H!ReaderUnregisters(c) \/ H!ReaderCloses(c)
    PROVE  HubInvariant'
<1>. USE HubOwners DEF HubInvariant, H!NetHubTypeOK, PumpsClose, LatestOrNone, H!OldOnesClose, H!pumps
<1>1. CASE H!PeerLeaves(c)
  BY <1>1 DEF H!PeerLeaves
<1>2. CASE H!PingFails(c)
  BY <1>2 DEF H!PingFails
<1>3. CASE H!WriterCloses(c)
  BY <1>3 DEF H!WriterCloses, H!Close
<1>4. CASE H!WriterUnregisters(c)
  BY <1>4 DEF H!WriterUnregisters, H!Unregister
<1>5. CASE H!ReadFails(c)
  BY <1>5 DEF H!ReadFails
<1>6. CASE H!ReaderUnregisters(c)
  BY <1>6 DEF H!ReaderUnregisters, H!Unregister
<1>7. CASE H!ReaderCloses(c)
  BY <1>7 DEF H!ReaderCloses, H!Close
<1>. QED
  BY <1>1, <1>2, <1>3, <1>4, <1>5, <1>6, <1>7

\* What fits into a channel.
LEMMA PutFits ==
    ASSUME H!NetHubAssumption, NEW q \in [Connections -> Seq(Messages)], NEW c \in Connections, NEW m \in Messages,
           Len(q[c]) <= Buffer
    PROVE  H!Put(q, c, m) \in Seq(Messages) /\ Len(H!Put(q, c, m)) <= Buffer
<1>1. q[c] \in Seq(Messages) /\ Buffer \in Nat
  BY DEF H!NetHubAssumption
<1>2. Append(q[c], m) \in Seq(Messages) /\ Len(Append(q[c], m)) = Len(q[c]) + 1 /\ Len(q[c]) \in Nat
  BY <1>1
<1>. QED
  BY <1>1, <1>2 DEF H!Put

\* The steps that only move messages.
LEMMA MessageStep ==
    ASSUME H!NetHubAssumption, HubInvariant,
           \/ \E c \in Connections : H!WriteMessage(c)
           \/ \E m \in Messages : H!LookUpClient(m) \/ H!Notify(m) \/ H!NotifyRead(m)
    PROVE  HubInvariant'
<1>. USE HubOwners DEF HubInvariant
<1>1. UNCHANGED <<clients, socket, reader, newest>>
  BY DEF H!WriteMessage, H!LookUpClient, H!Notify, H!NotifyRead, H!pumps
<1>2. /\ writer' \in [Connections -> {"none", "select", "closing", "unregister", "ended"}]
      /\ \A c \in Connections : \/ writer'[c] = writer[c]
                                \/ writer[c] = "select" /\ writer'[c] = "closing" /\ socket[c] # "open"
  BY DEF H!WriteMessage, H!LookUpClient, H!Notify, H!NotifyRead, H!pumps, H!NetHubTypeOK
<1>3. send' \in [Connections -> Seq(Messages)] /\ \A c \in Connections : Len(send'[c]) <= Buffer
  <2>0. /\ send \in [Connections -> Seq(Messages)] /\ \A c \in Connections : Len(send[c]) <= Buffer
        /\ Buffer \in Nat
    BY DEF H!NetHubTypeOK, H!NetHubAssumption
  <2>1. ASSUME NEW c \in Connections, H!WriteMessage(c)
        PROVE  send' \in [Connections -> Seq(Messages)] /\ \A d \in Connections : Len(send'[d]) <= Buffer
    <3>1. send[c] \in Seq(Messages) /\ send[c] # <<>> /\ send' = [send EXCEPT ![c] = Tail(send[c])]
      BY <2>0, <2>1 DEF H!WriteMessage
    <3>2. Tail(send[c]) \in Seq(Messages) /\ Len(Tail(send[c])) <= Buffer
      BY <2>0, <3>1
    <3>. QED
      BY <2>0, <3>1, <3>2
  <2>2. ASSUME NEW m \in Messages, H!Notify(m)
        PROVE  send' \in [Connections -> Seq(Messages)] /\ \A d \in Connections : Len(send'[d]) <= Buffer
    BY <2>0, <2>2, PutFits DEF H!Notify
  <2>3. ASSUME NEW m \in Messages, H!NotifyRead(m)
        PROVE  send' \in [Connections -> Seq(Messages)] /\ \A d \in Connections : Len(send'[d]) <= Buffer
    BY <2>0, <2>3, PutFits DEF H!NotifyRead
  <2>4. (\E m \in Messages : H!LookUpClient(m)) => UNCHANGED send
    BY DEF H!LookUpClient
  <2>. QED
    BY <2>0, <2>1, <2>2, <2>3, <2>4
<1>4. notice' \in [Messages -> Connections \cup {"none", "sent", "read"}]
  <2>0. notice \in [Messages -> Connections \cup {"none", "sent", "read"}]
    BY DEF H!NetHubTypeOK
  <2>1. ASSUME NEW m \in Messages, H!LookUpClient(m) PROVE notice' \in [Messages -> Connections \cup {"none", "sent", "read"}]
    <3>1. PICK x : notice' = [notice EXCEPT ![m] = x] /\ x \in Connections \cup {"sent"}
      BY <2>1 DEF H!LookUpClient, H!NetHubTypeOK
    <3>. QED
      BY <2>0, <3>1
  <2>2. CASE \E m \in Messages : H!Notify(m) \/ H!NotifyRead(m)
    BY <2>0, <2>2 DEF H!Notify, H!NotifyRead
  <2>3. CASE \E c \in Connections : H!WriteMessage(c)
    BY <2>0, <2>3 DEF H!WriteMessage
  <2>. QED
    BY <2>1, <2>2, <2>3
<1>5. H!NetHubTypeOK'
  BY <1>1, <1>2, <1>3, <1>4 DEF H!NetHubTypeOK
<1>6. PumpsClose' /\ LatestOrNone' /\ H!OldOnesClose'
  BY <1>1, <1>2 DEF PumpsClose, LatestOrNone, H!OldOnesClose
<1>. QED
  BY <1>5, <1>6

LEMMA HubInvariantNext ==
    ASSUME H!NetHubAssumption, HubInvariant, [H!Next]_hubVars PROVE HubInvariant'
<1>1. CASE UNCHANGED hubVars
  BY <1>1 DEF hubVars, HubInvariant, H!NetHubTypeOK, PumpsClose, LatestOrNone, H!OldOnesClose
<1>2. CASE H!Next
  BY <1>2, RegisterStep, PumpStep, MessageStep DEF H!Next, H!WriterNext, H!ReaderNext
<1>. QED
  BY <1>1, <1>2

-----------------------------------------------------------------------------
\* The jobs.

NetRows ==
    [status : {"absent", "queued", "claimed", "expired"} \cup J!Final,
     key : {q.key : q \in Requests} \cup {NoKey}, to : J!Recipients \cup {Nobody}, by : J!Recipients \cup {Nobody},
     lease : {"none", "whole", "ending", "over"}, ttl : {"left", "over"}, redelivery : 0..MaxRedelivery,
     callback : {"none", "pending", "retrying", "delivered", "dead"}, attempts : 0..MaxAttempts,
     next : {"due", "later"}]

\* A row, how often it was handed out, what was accepted for it and what its
\* callback URL was told.
RowTrue(r, h, a, l) ==
    /\ r.status = "claimed" <=> r.by # Nobody
    /\ r.status = "claimed" <=> r.lease # "none"
    /\ r.status = "claimed" => r.by = r.to
    /\ h \in Nat /\ h <= r.redelivery + (IF r.status \in {"absent", "queued"} THEN 0 ELSE 1)
    /\ a # {} => a = {r.status} /\ r.status \in J!Final
    /\ l \subseteq {r.status} \cap J!Final
    /\ r.callback = "delivered" => l # {}
    /\ r.status \notin J!Final => r.callback \in {"none", "pending"}
    /\ r.callback \in {"none", "pending"} => r.attempts = 0
    /\ r.callback = "retrying" => r.attempts < MaxAttempts

\* The jobs there are have the lowest numbers.
Numbered ==
    /\ \A j \in J!Ids : rows[j].status = "absent" <=> rows[j] = J!Absent
    /\ \E n \in 0..MaxNetJobs : \A j \in J!Ids : rows[j].status # "absent" <=> j <= n

\* What the courier has in hand is as it read it.
TourFresh ==
    /\ \A n \in tour : /\ n.job \in J!Ids /\ rows[n.job].status = n.says /\ n.says \in J!Final
                       /\ rows[n.job].callback \in {"pending", "retrying"}
                       /\ \A m \in tour : m.job = n.job => m = n
    /\ posted # Nobody =>
         /\ posted \in [job : J!Ids, delivered : BOOLEAN]
         /\ rows[posted.job].status \in J!Final /\ rows[posted.job].callback \in {"pending", "retrying"}
         /\ posted.delivered => learned[posted.job] # {}
         /\ \A n \in tour : n.job # posted.job

JobsInvariant ==
    /\ rows \in [J!Ids -> NetRows]
    /\ submission \in [Askers -> Requests \cup {Nobody}] /\ holds \in [Workers -> SUBSET J!Ids]
    /\ tour \subseteq [job : J!Ids, says : J!Final] /\ netMishaps \in 0..MaxNetMishaps
    /\ DOMAIN handed = J!Ids /\ DOMAIN accepted = J!Ids /\ DOMAIN learned = J!Ids
    /\ \A j \in J!Ids : RowTrue(rows[j], handed[j], accepted[j], learned[j])
    /\ Numbered /\ TourFresh

LEMMA AbsentIsRow == ASSUME J!NetJobsAssumption PROVE J!Absent \in NetRows /\ J!Absent.status = "absent"
BY DEF J!NetJobsAssumption, J!Absent, NetRows

LEMMA JobsInvariantInit == ASSUME J!NetJobsAssumption, J!Init PROVE JobsInvariant
<1>. USE DEF J!NetJobsAssumption
<1>1. J!Absent \in NetRows
  BY AbsentIsRow
<1>2. RowTrue(J!Absent, 0, {}, {})
  BY DEF J!Absent, RowTrue
<1>3. \A j \in J!Ids : rows[j] = J!Absent /\ rows[j].status = "absent"
  BY AbsentIsRow DEF J!Init
<1>4. Numbered
  <2>1. 0 \in 0..MaxNetJobs /\ \A j \in J!Ids : ~(j <= 0)
    BY DEF J!Ids
  <2>. QED
    BY <1>3, <2>1 DEF Numbered
<1>5. TourFresh
  BY DEF TourFresh, J!Init
<1>6. \A j \in J!Ids : RowTrue(rows[j], handed[j], accepted[j], learned[j])
  BY <1>2, <1>3 DEF J!Init
<1>7. /\ rows \in [J!Ids -> NetRows]
      /\ submission \in [Askers -> Requests \cup {Nobody}] /\ holds \in [Workers -> SUBSET J!Ids]
      /\ tour \subseteq [job : J!Ids, says : J!Final] /\ netMishaps \in 0..MaxNetMishaps
      /\ DOMAIN handed = J!Ids /\ DOMAIN accepted = J!Ids /\ DOMAIN learned = J!Ids
  BY <1>1 DEF J!Init
<1>. QED
  BY <1>4, <1>5, <1>6, <1>7 DEF JobsInvariant

LEMMA JobsInvariantImplies == ASSUME J!NetJobsAssumption, JobsInvariant PROVE J!NetJobsInv
<1>. USE DEF J!NetJobsAssumption, JobsInvariant
<1>1. J!NetJobsTypeOK
  BY DEF J!NetJobsTypeOK, NetRows
<1>2. J!ClaimsWhole /\ J!OneResult /\ J!CallbackTellsTheEnd
  BY DEF J!ClaimsWhole, J!OneResult, J!CallbackTellsTheEnd, RowTrue
<1>3. J!HandedOutSeldom
  <2>. SUFFICES ASSUME NEW j \in J!Ids PROVE handed[j] <= MaxRedelivery + 1
    BY DEF J!HandedOutSeldom
  <2>1. rows[j] \in NetRows
    OBVIOUS
  <2>2. rows[j].redelivery \in 0..MaxRedelivery
    BY <2>1 DEF NetRows
  <2>3. handed[j] \in Nat /\ handed[j] <= rows[j].redelivery + 1
    BY <2>2 DEF RowTrue
  <2>. QED
    BY <2>2, <2>3
<1>. QED
  BY <1>1, <1>2, <1>3 DEF J!NetJobsInv

-----------------------------------------------------------------------------
\* What happens to a row.
LEMMA TakenRow ==
    ASSUME J!NetJobsAssumption, NEW r \in NetRows, NEW s \in {"queued", "expired"} \cup J!Final, NEW q,
           q = J!Taken(r, s)
    PROVE  /\ q \in NetRows /\ q.status = s /\ q.by = Nobody /\ q.lease = "none"
           /\ q.redelivery = r.redelivery /\ q.callback = r.callback /\ q.attempts = r.attempts /\ q.to = r.to
BY Zenon DEF J!Taken, NetRows

LEMMA CleanedRow ==
    ASSUME J!NetJobsAssumption, NEW r \in NetRows, NEW h, NEW a, NEW l, RowTrue(r, h, a, l), J!Open(r),
           r.ttl = "over" \/ r.lease = "over", NEW z, z = J!Cleaned(r)
    PROVE  z \in NetRows /\ RowTrue(z, h, a, l) /\ z.status \in {"expired", "failed", "queued"} /\ z.to = r.to
<1>. USE DEF J!NetJobsAssumption
<1>0. r.callback \in {"none", "pending"} /\ r.attempts = 0 /\ a = {} /\ l = {} /\ r.redelivery \in 0..MaxRedelivery
  <2>1. r.status \notin J!Final
    BY DEF J!Open, J!Final
  <2>2. r.redelivery \in 0..MaxRedelivery
    BY DEF NetRows
  <2>. QED
    BY <2>1, <2>2 DEF RowTrue
<1>1. CASE r.ttl = "over"
  <2>1. z = J!Taken(r, "expired")
    BY <1>1 DEF J!Cleaned
  <2>2. /\ z \in NetRows /\ z.status = "expired" /\ z.by = Nobody /\ z.lease = "none"
        /\ z.redelivery = r.redelivery /\ z.callback = r.callback /\ z.attempts = r.attempts /\ z.to = r.to
    BY <2>1, TakenRow
  <2>. QED
    BY <1>0, <2>2 DEF RowTrue, J!Final
<1>2. CASE r.ttl # "over" /\ r.redelivery + 1 > MaxRedelivery
  <2>. DEFINE q == J!Taken(r, "failed")
  <2>1. /\ q \in NetRows /\ q.status = "failed" /\ q.by = Nobody /\ q.lease = "none"
        /\ q.redelivery = r.redelivery /\ q.callback = r.callback /\ q.attempts = r.attempts /\ q.to = r.to
    BY TakenRow DEF J!Final
  <2>2. PICK k \in {"none", "pending"} : z = [q EXCEPT !.callback = k, !.next = "due"]
    BY <1>2 DEF J!Cleaned, J!Asked
  <2>. HIDE DEF q
  <2>3. /\ z \in NetRows /\ z.status = "failed" /\ z.by = Nobody /\ z.lease = "none"
        /\ z.redelivery = r.redelivery /\ z.callback = k /\ z.attempts = r.attempts /\ z.to = r.to
    <3>1. k \in {"none", "pending", "retrying", "delivered", "dead"} /\ "due" \in {"due", "later"}
      OBVIOUS
    <3>. QED
      BY <2>1, <2>2, <3>1, Zenon DEF NetRows
  <2>. QED
    BY <1>0, <2>2, <2>3 DEF RowTrue, J!Final, J!Open
<1>3. CASE r.ttl # "over" /\ r.redelivery + 1 <= MaxRedelivery
  <2>. DEFINE q == J!Taken(r, "queued")
  <2>1. /\ q \in NetRows /\ q.status = "queued" /\ q.by = Nobody /\ q.lease = "none"
        /\ q.redelivery = r.redelivery /\ q.callback = r.callback /\ q.attempts = r.attempts /\ q.to = r.to
    BY TakenRow
  <2>2. r.redelivery + 1 \in 0..MaxRedelivery /\ z = [q EXCEPT !.redelivery = r.redelivery + 1]
    BY <1>0, <1>3, <2>1 DEF J!Cleaned
  <2>. HIDE DEF q
  <2>3. /\ z \in NetRows /\ z.status = "queued" /\ z.by = Nobody /\ z.lease = "none"
        /\ z.redelivery = r.redelivery + 1 /\ z.callback = r.callback /\ z.attempts = r.attempts /\ z.to = r.to
    BY <2>1, <2>2, Zenon DEF NetRows
  <2>4. h \in Nat /\ h <= r.redelivery + 1
    BY <1>0 DEF RowTrue
  <2>. QED
    BY <1>0, <2>3, <2>4 DEF RowTrue, J!Final
<1>. QED
  BY <1>0, <1>1, <1>2, <1>3

\* A job that is claimed, of those that wait when the stale ones are cleaned.
LEMMA ClaimedRow ==
    ASSUME J!NetJobsAssumption, NEW r \in NetRows, NEW h, NEW a, NEW l, RowTrue(r, h, a, l), r.status = "queued",
           r.to \in J!Recipients, NEW z, z = [r EXCEPT !.status = "claimed", !.by = r.to, !.lease = "whole"]
    PROVE  z \in NetRows /\ RowTrue(z, h + 1, a, l) /\ z.status = "claimed"
<1>1. /\ z \in NetRows /\ z.status = "claimed" /\ z.by = r.to /\ z.lease = "whole"
      /\ z.redelivery = r.redelivery /\ z.callback = r.callback /\ z.attempts = r.attempts /\ z.to = r.to
  <2>1. "claimed" \in {"absent", "queued", "claimed", "expired"} \cup J!Final /\ r.to \in J!Recipients \cup {Nobody}
        /\ "whole" \in {"none", "whole", "ending", "over"}
    OBVIOUS
  <2>. QED
    BY <2>1, Zenon DEF NetRows
<1>2. r.to # Nobody /\ r.redelivery \in Nat
  BY DEF J!NetJobsAssumption, NetRows
<1>3. /\ h \in Nat /\ h <= r.redelivery /\ a = {} /\ l = {}
      /\ r.callback \in {"none", "pending"} /\ r.attempts = 0
  BY <1>2 DEF RowTrue, J!Final
<1>4. h + 1 \in Nat /\ h + 1 <= z.redelivery + 1
  BY <1>1, <1>2, <1>3
<1>. QED
  BY <1>1, <1>2, <1>3, <1>4 DEF RowTrue, J!Final

LEMMA EndedRow ==
    ASSUME J!NetJobsAssumption, NEW r \in NetRows, NEW h, NEW a, NEW l, RowTrue(r, h, a, l), r.status = "claimed",
           NEW outcome \in J!Final, NEW z, z = J!Ended(r, outcome), NEW b, b = a \cup {outcome}
    PROVE  z \in NetRows /\ RowTrue(z, h, b, l) /\ z.status = outcome
<1>. DEFINE q == J!Taken(r, outcome)
<1>0. outcome \in {"queued", "expired"} \cup J!Final /\ q = J!Taken(r, outcome)
  OBVIOUS
<1>a. z = [q EXCEPT !.callback = J!Asked(r), !.next = "due"]
  BY DEF J!Ended
<1>. HIDE DEF q
<1>1. /\ q \in NetRows /\ q.status = outcome /\ q.by = Nobody /\ q.lease = "none"
      /\ q.redelivery = r.redelivery /\ q.callback = r.callback /\ q.attempts = r.attempts /\ q.to = r.to
  BY <1>0, TakenRow
<1>2. PICK k \in {"none", "pending"} : z = [q EXCEPT !.callback = k, !.next = "due"]
  BY <1>a DEF J!Asked
<1>3. /\ z \in NetRows /\ z.status = outcome /\ z.by = Nobody /\ z.lease = "none"
      /\ z.redelivery = r.redelivery /\ z.callback = k /\ z.attempts = r.attempts /\ z.to = r.to
  <2>1. k \in {"none", "pending", "retrying", "delivered", "dead"} /\ "due" \in {"due", "later"}
    OBVIOUS
  <2>2. z \in NetRows
    BY <1>1, <1>2, <2>1, Zenon DEF NetRows
  <2>3. /\ z.status = q.status /\ z.by = q.by /\ z.lease = q.lease
        /\ z.redelivery = q.redelivery /\ z.callback = k /\ z.attempts = q.attempts /\ z.to = q.to
    BY <1>1, <1>2, Zenon DEF NetRows
  <2>. QED
    BY <1>1, <2>2, <2>3
<1>4. /\ h \in Nat /\ h <= r.redelivery + 1 /\ a = {} /\ l = {} /\ r.attempts = 0
  BY DEF RowTrue, J!Final
<1>. QED
  BY <1>2, <1>3, <1>4 DEF RowTrue, J!Final

LEMMA RecordedRow ==
    ASSUME J!NetJobsAssumption, NEW r \in NetRows, NEW h, NEW a, NEW l, RowTrue(r, h, a, l), r.status \in J!Final,
           r.callback \in {"pending", "retrying"}, NEW delivered \in BOOLEAN, delivered => l # {},
           NEW windowOver, NEW z, z = J!Recorded(r, delivered, windowOver)
    PROVE  z \in NetRows /\ RowTrue(z, h, a, l) /\ z.status = r.status
<1>1. r.attempts \in 0..MaxAttempts /\ r.attempts + 1 \in 0..MaxAttempts
  <2>1. r.attempts \in 0..MaxAttempts
    BY DEF NetRows
  <2>2. r.attempts < MaxAttempts
    BY DEF RowTrue, J!NetJobsAssumption
  <2>. QED
    BY <2>1, <2>2 DEF J!NetJobsAssumption
<1>2. \E k \in {"retrying", "delivered", "dead"}, n \in {"due", "later"} :
          /\ z = [r EXCEPT !.attempts = r.attempts + 1, !.callback = k, !.next = n]
          /\ k = "delivered" => delivered
          /\ k = "retrying" => r.attempts + 1 < MaxAttempts
  <2>. USE <1>1 DEF J!Recorded, J!NetJobsAssumption
  <2>1. CASE delivered
    <3>1. z = [r EXCEPT !.attempts = r.attempts + 1, !.callback = "delivered", !.next = "due"]
      BY <2>1
    <3>. QED
      BY <2>1, <3>1
  <2>2. CASE ~delivered /\ (r.attempts + 1 >= MaxAttempts \/ windowOver)
    <3>1. z = [r EXCEPT !.attempts = r.attempts + 1, !.callback = "dead", !.next = "due"]
      BY <2>2
    <3>. QED
      BY <3>1
  <2>3. CASE ~delivered /\ ~(r.attempts + 1 >= MaxAttempts \/ windowOver)
    <3>1. z = [r EXCEPT !.attempts = r.attempts + 1, !.callback = "retrying", !.next = "later"]
      BY <2>3
    <3>2. r.attempts + 1 < MaxAttempts
      BY <2>3
    <3>. QED
      BY <3>1, <3>2
  <2>. QED
    BY <2>1, <2>2, <2>3
<1>3. PICK k \in {"retrying", "delivered", "dead"}, n \in {"due", "later"} :
          /\ z = [r EXCEPT !.attempts = r.attempts + 1, !.callback = k, !.next = n]
          /\ k = "delivered" => delivered
          /\ k = "retrying" => r.attempts + 1 < MaxAttempts
  BY <1>2
<1>4. k \in {"none", "pending", "retrying", "delivered", "dead"}
  OBVIOUS
<1>5. /\ z \in NetRows /\ z.status = r.status /\ z.by = r.by /\ z.lease = r.lease
      /\ z.redelivery = r.redelivery /\ z.callback = k /\ z.attempts = r.attempts + 1 /\ z.to = r.to
  <2>1. PICK t \in 0..MaxAttempts : t = r.attempts + 1
    BY <1>1
  <2>2. z = [r EXCEPT !.attempts = t, !.callback = k, !.next = n] /\ r \in NetRows /\ n \in {"due", "later"}
    BY <1>3, <2>1
  <2>3. z \in NetRows
    BY <1>4, <2>2, Zenon DEF NetRows
  <2>4. /\ z.status = r.status /\ z.by = r.by /\ z.lease = r.lease
        /\ z.redelivery = r.redelivery /\ z.callback = k /\ z.attempts = t /\ z.to = r.to
    BY <2>2, Zenon DEF NetRows
  <2>. QED
    BY <2>1, <2>3, <2>4
<1>. QED
  BY <1>1, <1>3, <1>5 DEF RowTrue, J!Final

\* Time, and a lease that is extended.
LEMMA AgedRow ==
    ASSUME J!NetJobsAssumption, NEW r \in NetRows, NEW h, NEW a, NEW l, RowTrue(r, h, a, l), NEW z,
           \/ r.lease # "none" /\ \E x \in {"whole", "ending", "over"} : z = [r EXCEPT !.lease = x]
           \/ \E x \in {"left", "over"} : z = [r EXCEPT !.ttl = x]
           \/ \E x \in {"due", "later"} : z = [r EXCEPT !.next = x]
    PROVE  z \in NetRows /\ RowTrue(z, h, a, l) /\ z.status = r.status /\ z.callback = r.callback
<1>1. CASE \E x \in {"left", "over"} : z = [r EXCEPT !.ttl = x]
  <2>1. /\ z \in NetRows /\ z.status = r.status /\ z.by = r.by /\ z.lease = r.lease /\ z.to = r.to
        /\ z.redelivery = r.redelivery /\ z.callback = r.callback /\ z.attempts = r.attempts
    BY <1>1, Zenon DEF NetRows
  <2>. QED
    BY <2>1 DEF RowTrue
<1>2. CASE \E x \in {"due", "later"} : z = [r EXCEPT !.next = x]
  <2>1. /\ z \in NetRows /\ z.status = r.status /\ z.by = r.by /\ z.lease = r.lease /\ z.to = r.to
        /\ z.redelivery = r.redelivery /\ z.callback = r.callback /\ z.attempts = r.attempts
    BY <1>2, Zenon DEF NetRows
  <2>. QED
    BY <2>1 DEF RowTrue
<1>3. CASE r.lease # "none" /\ \E x \in {"whole", "ending", "over"} : z = [r EXCEPT !.lease = x]
  <2>1. PICK x \in {"whole", "ending", "over"} : z = [r EXCEPT !.lease = x]
    BY <1>3
  <2>2. x \in {"none", "whole", "ending", "over"} /\ x # "none"
    OBVIOUS
  <2>3. /\ z \in NetRows /\ z.status = r.status /\ z.by = r.by /\ z.lease = x /\ z.to = r.to
        /\ z.redelivery = r.redelivery /\ z.callback = r.callback /\ z.attempts = r.attempts
    BY <2>1, <2>2, Zenon DEF NetRows
  <2>. QED
    BY <1>3, <2>2, <2>3 DEF RowTrue
<1>. QED
  BY <1>1, <1>2, <1>3

-----------------------------------------------------------------------------
\* What most steps leave: the rows there are, the ends that were reached and
\* whom their callbacks are still owed.
Steady(j) ==
    \/ rows'[j] = rows[j]
    \/ /\ rows[j].status \notin {"absent"} \cup J!Final
       /\ rows'[j].status # "absent"
    \/ /\ rows[j].status # "absent"
       /\ rows'[j].status = rows[j].status /\ rows'[j].callback = rows[j].callback

LEMMA SteadyKeeps ==
    ASSUME J!NetJobsAssumption, JobsInvariant, \A j \in J!Ids : Steady(j)
    PROVE  /\ Numbered'
           /\ learned' = learned /\ tour' = tour /\ posted' = posted => TourFresh'
<1>0. J!Absent.status = "absent"
  BY AbsentIsRow
<1>1. Numbered'
  <2>1. \A j \in J!Ids : rows'[j].status = "absent" <=> rows[j].status = "absent"
    BY DEF Steady
  <2>2. \A j \in J!Ids : rows'[j].status = "absent" <=> rows'[j] = J!Absent
    BY <1>0, <2>1 DEF JobsInvariant, Numbered, Steady
  <2>3. \E n \in 0..MaxNetJobs : \A j \in J!Ids : rows'[j].status # "absent" <=> j <= n
    BY <2>1 DEF JobsInvariant, Numbered
  <2>4. J!Ids' = J!Ids /\ J!Absent' = J!Absent
    BY DEF J!Ids, J!Absent
  <2>. QED
    BY <2>2, <2>3, <2>4 DEF Numbered
<1>2. ASSUME learned' = learned, tour' = tour, posted' = posted PROVE TourFresh'
  <2>1. \A j \in J!Ids : rows[j].status \in J!Final =>
                           rows'[j].status = rows[j].status /\ rows'[j].callback = rows[j].callback
    <3>1. "absent" \notin J!Final
      BY DEF J!Final
    <3>. QED
      BY <3>1 DEF Steady
  <2>. QED
    BY <1>2, <2>1 DEF JobsInvariant, TourFresh
<1>. QED
  BY <1>1, <1>2

\* The jobs that wait, or whose lease or time to live ran out, when the stale
\* ones are cleaned.
LEMMA SweptRows ==
    ASSUME J!NetJobsAssumption, JobsInvariant, NEW js \in SUBSET J!Stale, NEW j \in J!Ids, NEW z, z = J!Swept(js)[j]
    PROVE  /\ z \in NetRows /\ RowTrue(z, handed[j], accepted[j], learned[j]) /\ z.to = rows[j].to
           /\ z = rows[j] \/ (J!Open(rows[j]) /\ z.status \in {"expired", "failed", "queued"})
<1>1. CASE j \in js
  <2>1. J!Open(rows[j]) /\ (rows[j].ttl = "over" \/ rows[j].lease = "over")
    BY <1>1 DEF J!Stale
  <2>2. z = J!Cleaned(rows[j])
    BY <1>1 DEF J!Swept
  <2>3. rows[j] \in NetRows /\ RowTrue(rows[j], handed[j], accepted[j], learned[j])
    BY DEF JobsInvariant
  <2>. QED
    BY <2>1, <2>2, <2>3, CleanedRow
<1>2. CASE j \notin js
  BY <1>2 DEF J!Swept, JobsInvariant
<1>. QED
  BY <1>1, <1>2

LEMMA JobsSweep ==
    ASSUME J!NetJobsAssumption, JobsInvariant, NEW js \in SUBSET J!Stale, rows' = J!Swept(js),
           UNCHANGED <<submission, holds, tour, posted, handed, accepted, learned>>, netMishaps' \in 0..MaxNetMishaps
    PROVE  JobsInvariant'
<1>1. \A j \in J!Ids : /\ rows'[j] \in NetRows
                       /\ RowTrue(rows'[j], handed[j], accepted[j], learned[j]) /\ Steady(j)
  <2>. SUFFICES ASSUME NEW j \in J!Ids
                PROVE  /\ rows'[j] \in NetRows
                       /\ RowTrue(rows'[j], handed[j], accepted[j], learned[j]) /\ Steady(j)
    OBVIOUS
  <2>1. /\ rows'[j] \in NetRows /\ RowTrue(rows'[j], handed[j], accepted[j], learned[j])
        /\ rows'[j] = rows[j] \/ (J!Open(rows[j]) /\ rows'[j].status \in {"expired", "failed", "queued"})
    BY SweptRows
  <2>. QED
    BY <2>1 DEF Steady, J!Open, J!Final
<1>2. rows' \in [J!Ids -> NetRows]
  BY <1>1 DEF J!Swept
<1>3. Numbered' /\ TourFresh'
  BY <1>1, SteadyKeeps
<1>. QED
  BY <1>1, <1>2, <1>3 DEF JobsInvariant, J!Ids

\* One row is changed, and what is owed for it stays.
LEMMA JobsOneRow ==
    ASSUME J!NetJobsAssumption, JobsInvariant, NEW j \in J!Ids, NEW z \in NetRows, rows' = [rows EXCEPT ![j] = z],
           RowTrue(z, handed[j], accepted'[j], learned[j]),
           accepted' = accepted \/ \E x : accepted' = [accepted EXCEPT ![j] = x],
           Steady(j), UNCHANGED <<submission, tour, posted, handed, learned>>,
           holds' \in [Workers -> SUBSET J!Ids], netMishaps' \in 0..MaxNetMishaps
    PROVE  JobsInvariant'
<1>1. rows' \in [J!Ids -> NetRows] /\ rows'[j] = z /\ \A i \in J!Ids : i # j => rows'[i] = rows[i]
  BY DEF JobsInvariant
<1>2. DOMAIN accepted' = J!Ids /\ \A i \in J!Ids : i # j => accepted'[i] = accepted[i]
  BY DEF JobsInvariant
<1>3. \A i \in J!Ids : RowTrue(rows'[i], handed[i], accepted'[i], learned[i])
  BY <1>1, <1>2 DEF JobsInvariant
<1>4. \A i \in J!Ids : Steady(i)
  BY <1>1 DEF Steady
<1>5. Numbered' /\ TourFresh'
  BY <1>4, SteadyKeeps
<1>. QED
  BY <1>1, <1>2, <1>3, <1>5 DEF JobsInvariant, J!Ids

LEMMA JobsMaintain ==
    ASSUME J!NetJobsAssumption, JobsInvariant, J!Maintain \/ J!MaintenanceFails PROVE JobsInvariant'
<1>1. CASE J!Maintain
  <2>1. rows' = J!Swept(J!Stale) /\ netMishaps' \in 0..MaxNetMishaps
        /\ UNCHANGED <<submission, holds, tour, posted, handed, accepted, learned>>
    BY <1>1 DEF J!Maintain, JobsInvariant, J!courierVars, J!history
  <2>. QED
    BY <2>1, JobsSweep
<1>2. CASE J!MaintenanceFails
  <2>1. netMishaps' \in 0..MaxNetMishaps /\ UNCHANGED <<submission, holds, tour, posted, handed, accepted, learned>>
    BY <1>2 DEF J!MaintenanceFails, J!Mishap, JobsInvariant, J!courierVars, J!history, J!NetJobsAssumption
  <2>2. PICK js \in SUBSET J!Stale : rows' = J!Swept(js)
    BY <1>2 DEF J!MaintenanceFails
  <2>. QED
    BY <2>1, <2>2, JobsSweep
<1>. QED
  BY <1>1, <1>2

\* A claim, whether or not its worker hears of it.
LEMMA JobsGives ==
    ASSUME J!NetJobsAssumption, JobsInvariant, NEW to \in J!Recipients, NEW js \in SUBSET J!Waiting(to), J!Gives(js, to),
           holds' \in [Workers -> SUBSET J!Ids], netMishaps' \in 0..MaxNetMishaps
    PROVE  JobsInvariant'
<1>0. UNCHANGED <<submission, tour, posted, accepted, learned>> /\ js \in SUBSET J!Ids
  BY DEF J!Gives, J!courierVars, J!Waiting
<1>1. \A j \in J!Ids : rows'[j] \in NetRows /\ RowTrue(rows'[j], handed'[j], accepted[j], learned[j]) /\ Steady(j)
  <2>. SUFFICES ASSUME NEW j \in J!Ids
                PROVE  rows'[j] \in NetRows /\ RowTrue(rows'[j], handed'[j], accepted[j], learned[j]) /\ Steady(j)
    OBVIOUS
  <2>. DEFINE s == J!Swept(J!Stale)[j]
  <2>1. /\ s \in NetRows /\ RowTrue(s, handed[j], accepted[j], learned[j]) /\ s.to = rows[j].to
        /\ s = rows[j] \/ (J!Open(rows[j]) /\ s.status \in {"expired", "failed", "queued"})
    BY SweptRows
  <2>2. CASE j \in js
    <3>1. s.status = "queued" /\ s.to = to
      BY <2>1, <2>2 DEF J!Waiting
    <3>2. rows'[j] = [s EXCEPT !.status = "claimed", !.by = to, !.lease = "whole"] /\ handed'[j] = handed[j] + 1
      BY <2>2 DEF J!Gives
    <3>. HIDE DEF s
    <3>3. rows'[j] = [s EXCEPT !.status = "claimed", !.by = s.to, !.lease = "whole"] /\ s.to \in J!Recipients
      BY <3>1, <3>2
    <3>4. rows'[j] \in NetRows /\ RowTrue(rows'[j], handed[j] + 1, accepted[j], learned[j])
          /\ rows'[j].status = "claimed"
      BY <2>1, <3>1, <3>3, ClaimedRow
    <3>5. J!Open(rows[j])
      BY <2>1, <3>1 DEF J!Open
    <3>. QED
      BY <3>2, <3>4, <3>5 DEF Steady, J!Open, J!Final
  <2>3. CASE j \notin js
    <3>1. rows'[j] = s /\ handed'[j] = handed[j]
      BY <2>3 DEF J!Gives
    <3>. HIDE DEF s
    <3>. QED
      BY <2>1, <3>1 DEF Steady, J!Open, J!Final
  <2>. QED
    BY <2>2, <2>3
<1>2. rows' \in [J!Ids -> NetRows] /\ DOMAIN handed' = J!Ids
  BY <1>1 DEF J!Gives
<1>3. Numbered' /\ TourFresh'
  BY <1>0, <1>1, SteadyKeeps
<1>. QED
  BY <1>0, <1>1, <1>2, <1>3 DEF JobsInvariant, J!Ids

LEMMA JobsClaim ==
    ASSUME J!NetJobsAssumption, JobsInvariant, NEW w \in Workers, J!Claim(w) \/ J!ClaimUnheard(w) PROVE JobsInvariant'
<1>0. Serves[w] \in J!Recipients
  BY DEF J!NetJobsAssumption
<1>1. \A n, js : J!Oldest(n, js) \subseteq js
  BY DEF J!Oldest
<1>2. J!Waiting(Serves[w]) \subseteq J!Ids
  BY DEF J!Waiting
<1>3. CASE J!Claim(w)
  <2>. DEFINE js == J!Oldest(Batch, J!Waiting(Serves[w]))
  <2>1. J!Gives(js, Serves[w]) /\ holds' = [holds EXCEPT ![w] = @ \cup js] /\ netMishaps' = netMishaps
    BY <1>3 DEF J!Claim
  <2>2. js \in SUBSET J!Waiting(Serves[w])
    BY <1>1
  <2>. HIDE DEF js
  <2>3. holds' \in [Workers -> SUBSET J!Ids] /\ netMishaps' \in 0..MaxNetMishaps
    BY <1>2, <2>1, <2>2 DEF JobsInvariant
  <2>. QED
    BY <1>0, <2>1, <2>2, <2>3, JobsGives
<1>4. CASE J!ClaimUnheard(w)
  <2>1. holds' \in [Workers -> SUBSET J!Ids] /\ netMishaps' \in 0..MaxNetMishaps
    BY <1>4 DEF J!ClaimUnheard, J!Mishap, JobsInvariant, J!NetJobsAssumption
  <2>2. PICK n \in 1..Batch : J!Gives(J!Oldest(n, J!Waiting(Serves[w])), Serves[w])
    BY <1>4 DEF J!ClaimUnheard
  <2>3. J!Oldest(n, J!Waiting(Serves[w])) \in SUBSET J!Waiting(Serves[w])
    BY <1>1
  <2>. QED
    BY <1>0, <2>1, <2>2, <2>3, JobsGives
<1>. QED
  BY <1>3, <1>4

LEMMA JobsExtend ==
    ASSUME J!NetJobsAssumption, JobsInvariant, NEW w \in Workers, NEW j \in J!Ids, J!Extend(w, j) PROVE JobsInvariant'
<1>. DEFINE z == [rows[j] EXCEPT !.lease = "whole"]
<1>1. /\ rows' = [rows EXCEPT ![j] = z] /\ rows[j].status = "claimed"
      /\ UNCHANGED <<submission, holds, tour, posted, netMishaps, handed, accepted, learned>>
  BY DEF J!Extend, J!OwnsLease, J!courierVars, J!history, JobsInvariant
<1>2. rows[j] \in NetRows /\ RowTrue(rows[j], handed[j], accepted[j], learned[j])
  BY DEF JobsInvariant
<1>3. rows[j].lease # "none" /\ \E x \in {"whole", "ending", "over"} : z = [rows[j] EXCEPT !.lease = x]
  BY <1>1, <1>2 DEF RowTrue
<1>. HIDE DEF z
<1>4. /\ z \in NetRows /\ RowTrue(z, handed[j], accepted[j], learned[j])
      /\ z.status = rows[j].status /\ z.callback = rows[j].callback
  BY <1>2, <1>3, AgedRow
<1>5. Steady(j)
  <2>1. rows'[j] = z
    BY <1>1 DEF JobsInvariant
  <2>. QED
    BY <1>1, <1>4, <2>1 DEF Steady
<1>6. holds' \in [Workers -> SUBSET J!Ids] /\ netMishaps' \in 0..MaxNetMishaps /\ accepted' = accepted
  BY <1>1 DEF JobsInvariant
<1>. QED
  BY <1>1, <1>4, <1>5, <1>6, JobsOneRow

LEMMA JobsTime ==
    ASSUME J!NetJobsAssumption, JobsInvariant, NEW j \in J!Ids, J!LeasePasses(j) \/ J!TTLPasses(j) \/ J!BackoffPasses(j)
    PROVE  JobsInvariant'
<1>1. /\ rows[j].status # "absent"
      /\ \E z : /\ rows' = [rows EXCEPT ![j] = z]
                /\ \/ rows[j].lease # "none" /\ \E x \in {"whole", "ending", "over"} : z = [rows[j] EXCEPT !.lease = x]
                   \/ \E x \in {"left", "over"} : z = [rows[j] EXCEPT !.ttl = x]
                   \/ \E x \in {"due", "later"} : z = [rows[j] EXCEPT !.next = x]
  <2>0. J!Absent.lease = "none" /\ J!Absent.next = "due" /\ ~J!Open(J!Absent) /\ rows \in [J!Ids -> NetRows]
        /\ (rows[j].status = "absent" => rows[j] = J!Absent)
    BY DEF J!Absent, J!Open, JobsInvariant, Numbered
  <2>1. CASE J!LeasePasses(j) /\ rows[j].lease = "whole"
    <3>1. rows' = [rows EXCEPT ![j] = [rows[j] EXCEPT !.lease = "ending"]]
      BY <2>1 DEF J!LeasePasses
    <3>. QED
      BY <2>0, <2>1, <3>1
  <2>2. CASE J!LeasePasses(j) /\ rows[j].lease = "ending"
    <3>1. rows' = [rows EXCEPT ![j] = [rows[j] EXCEPT !.lease = "over"]]
      BY <2>2 DEF J!LeasePasses
    <3>. QED
      BY <2>0, <2>2, <3>1
  <2>3. CASE J!TTLPasses(j)
    <3>1. rows' = [rows EXCEPT ![j] = [rows[j] EXCEPT !.ttl = "over"]] /\ J!Open(rows[j])
      BY <2>3 DEF J!TTLPasses
    <3>. QED
      BY <2>0, <3>1
  <2>4. CASE J!BackoffPasses(j)
    <3>1. rows' = [rows EXCEPT ![j] = [rows[j] EXCEPT !.next = "due"]] /\ rows[j].next = "later"
      BY <2>4 DEF J!BackoffPasses
    <3>. QED
      BY <2>0, <3>1
  <2>. QED
    BY <2>1, <2>2, <2>3, <2>4 DEF J!LeasePasses
<1>2. PICK z : /\ rows' = [rows EXCEPT ![j] = z]
               /\ \/ rows[j].lease # "none" /\ \E x \in {"whole", "ending", "over"} : z = [rows[j] EXCEPT !.lease = x]
                  \/ \E x \in {"left", "over"} : z = [rows[j] EXCEPT !.ttl = x]
                  \/ \E x \in {"due", "later"} : z = [rows[j] EXCEPT !.next = x]
  BY <1>1
<1>3. rows[j] \in NetRows /\ RowTrue(rows[j], handed[j], accepted[j], learned[j])
  BY DEF JobsInvariant
<1>4. /\ z \in NetRows /\ RowTrue(z, handed[j], accepted[j], learned[j])
      /\ z.status = rows[j].status /\ z.callback = rows[j].callback
  BY <1>2, <1>3, AgedRow
<1>5. Steady(j)
  <2>1. rows'[j] = z
    BY <1>2 DEF JobsInvariant
  <2>. QED
    BY <1>1, <1>4, <2>1 DEF Steady
<1>6. UNCHANGED <<submission, holds, tour, posted, netMishaps, handed, accepted, learned>>
  BY DEF J!LeasePasses, J!TTLPasses, J!BackoffPasses, J!courierVars, J!history
<1>7. holds' \in [Workers -> SUBSET J!Ids] /\ netMishaps' \in 0..MaxNetMishaps /\ accepted' = accepted
  BY <1>6 DEF JobsInvariant
<1>. QED
  BY <1>2, <1>4, <1>5, <1>6, <1>7, JobsOneRow

LEMMA JobsComplete ==
    ASSUME J!NetJobsAssumption, JobsInvariant, NEW w \in Workers, NEW j \in J!Ids, NEW outcome \in J!Final,
           J!Complete(w, j, outcome)
    PROVE  JobsInvariant'
<1>. DEFINE z == J!Ended(rows[j], outcome)
            a == accepted[j] \cup {outcome}
<1>1. /\ rows' = [rows EXCEPT ![j] = z] /\ rows[j].status = "claimed" /\ accepted' = [accepted EXCEPT ![j] = a]
      /\ UNCHANGED <<submission, tour, posted, handed, learned>>
  BY DEF J!Complete, J!OwnsLease, J!courierVars
<1>2. holds' \in [Workers -> SUBSET J!Ids] /\ netMishaps' \in 0..MaxNetMishaps
  BY DEF J!Complete, J!Mishap, JobsInvariant, J!NetJobsAssumption
<1>3. rows[j] \in NetRows /\ RowTrue(rows[j], handed[j], accepted[j], learned[j])
  BY DEF JobsInvariant
<1>4. z \in NetRows /\ RowTrue(z, handed[j], a, learned[j]) /\ z.status = outcome
  <2>1. z = J!Ended(rows[j], outcome) /\ rows[j].status = "claimed" /\ a = accepted[j] \cup {outcome}
    BY <1>1
  <2>. HIDE DEF z, a
  <2>. QED
    BY <1>3, <2>1, EndedRow
<1>. HIDE DEF z
<1>5. accepted'[j] = a
  BY <1>1 DEF JobsInvariant
<1>6. RowTrue(z, handed[j], accepted'[j], learned[j])
  BY <1>4, <1>5
<1>7. Steady(j)
  <2>1. rows'[j] = z
    BY <1>1 DEF JobsInvariant
  <2>. QED
    BY <1>1, <1>4, <2>1 DEF Steady, J!Final
<1>8. \E x : accepted' = [accepted EXCEPT ![j] = x]
  BY <1>1
<1>. HIDE DEF a
<1>. QED
  BY <1>1, <1>2, <1>4, <1>6, <1>7, <1>8, JobsOneRow

LEMMA JobsRefused ==
    ASSUME J!NetJobsAssumption, JobsInvariant, NEW w \in Workers, NEW j \in J!Ids, J!CompleteRefused(w, j)
    PROVE  JobsInvariant'
<1>1. /\ holds' = [holds EXCEPT ![w] = @ \ {j}]
      /\ UNCHANGED <<rows, submission, tour, posted, netMishaps, handed, accepted, learned>>
  BY DEF J!CompleteRefused, J!courierVars, J!history
<1>2. holds' \in [Workers -> SUBSET J!Ids]
  BY <1>1 DEF JobsInvariant
<1>3. Numbered' /\ TourFresh'
  BY <1>1, SteadyKeeps DEF Steady
<1>. QED
  BY <1>1, <1>2, <1>3 DEF JobsInvariant, J!Ids

-----------------------------------------------------------------------------
\* Submissions.
LEMMA SameCardinality == \A S : J!Cardinality(S) = Cardinality(S)
BY DEF J!Cardinality, Cardinality

LEMMA NewestIsANumber == ASSUME J!NetJobsAssumption, JobsInvariant PROVE J!Newest \in Nat
<1>1. PICK n \in 0..MaxNetJobs : \A j \in J!Ids : rows[j].status # "absent" <=> j <= n
  BY DEF JobsInvariant, Numbered
<1>2. {j \in J!Ids : rows[j] # J!Absent} = 1..n
  <2>1. \A j \in J!Ids : rows[j] # J!Absent <=> j <= n
    BY <1>1 DEF JobsInvariant, Numbered
  <2>. QED
    BY <1>1, <2>1 DEF J!NetJobsAssumption, J!Ids
<1>3. Cardinality(1..n) \in Nat
  BY FS_Interval, FS_CardinalityType
<1>. QED
  BY <1>2, <1>3, SameCardinality DEF J!Newest

LEMMA NextFree ==
    ASSUME J!NetJobsAssumption, JobsInvariant, J!Newest < MaxNetJobs
    PROVE  /\ J!Newest + 1 \in J!Ids /\ rows[J!Newest + 1] = J!Absent
           /\ \A j \in J!Ids : rows[j].status # "absent" <=> j <= J!Newest
<1>. USE DEF J!NetJobsAssumption, J!Ids
<1>1. PICK n \in 0..MaxNetJobs : \A j \in J!Ids : rows[j].status # "absent" <=> j <= n
  BY DEF JobsInvariant, Numbered
<1>2. {j \in J!Ids : rows[j] # J!Absent} = 1..n
  <2>1. \A j \in J!Ids : rows[j] # J!Absent <=> j <= n
    BY <1>1 DEF JobsInvariant, Numbered
  <2>. QED
    BY <1>1, <2>1
<1>3. Cardinality(1..n) = n
  <2>1. 1 \in Int /\ n \in Int
    OBVIOUS
  <2>2. Cardinality(1..n) = IF 1 > n THEN 0 ELSE n - 1 + 1
    BY <2>1, FS_Interval
  <2>. QED
    BY <2>2
<1>4. J!Newest = n
  BY <1>2, <1>3, SameCardinality DEF J!Newest
<1>5. n + 1 \in J!Ids /\ ~(n + 1 <= n)
  BY <1>1, <1>4
<1>6. rows[n + 1] = J!Absent
  BY <1>1, <1>5 DEF JobsInvariant, Numbered
<1>. QED
  BY <1>1, <1>4, <1>5, <1>6

Queued(q) == [J!Absent EXCEPT !.status = "queued", !.key = q.key, !.to = q.to, !.callback = q.callback]

LEMMA QueuedRow ==
    ASSUME J!NetJobsAssumption, NEW q \in Requests, NEW h, NEW a, NEW l, RowTrue(J!Absent, h, a, l), NEW z,
           z = Queued(q)
    PROVE  z \in NetRows /\ RowTrue(z, h, a, l) /\ z.status = "queued"
<1>1. /\ "queued" \in {"absent", "queued", "claimed", "expired"} \cup J!Final
      /\ q.key \in {p.key : p \in Requests} \cup {NoKey} /\ q.to \in J!Recipients \cup {Nobody}
      /\ q.callback \in {"none", "pending"} /\ q.callback \in {"none", "pending", "retrying", "delivered", "dead"}
  BY DEF J!NetJobsAssumption, J!Recipients
<1>2. J!Absent \in NetRows
  BY AbsentIsRow
<1>3. z \in NetRows
  BY <1>1, <1>2, Zenon DEF NetRows, Queued
<1>4. /\ z.status = "queued" /\ z.by = Nobody /\ z.lease = "none" /\ z.redelivery = 0
      /\ z.callback = q.callback /\ z.attempts = 0
  BY DEF J!Absent, Queued
<1>5. h = 0 /\ a = {} /\ l = {}
  BY DEF RowTrue, J!Absent, J!Final
<1>. QED
  BY <1>1, <1>3, <1>4, <1>5 DEF RowTrue, J!Final

LEMMA JobsInsert ==
    ASSUME J!NetJobsAssumption, JobsInvariant, NEW p \in Askers, J!Insert(p) PROVE JobsInvariant'
<1>. DEFINE q == submission[p]
            k == J!Newest + 1
            z == Queued(q)
<1>1. q \in Requests /\ J!Newest < MaxNetJobs /\ rows' = [rows EXCEPT ![k] = z]
      /\ submission' = [submission EXCEPT ![p] = Nobody]
      /\ UNCHANGED <<holds, tour, posted, netMishaps, handed, accepted, learned>>
  BY DEF J!Insert, J!courierVars, J!history, JobsInvariant, Queued
<1>2. /\ k \in J!Ids /\ rows[k] = J!Absent /\ J!Absent.status = "absent"
      /\ \A j \in J!Ids : rows[j].status # "absent" <=> j <= J!Newest
  BY <1>1, NextFree, AbsentIsRow
<1>3. RowTrue(J!Absent, handed[k], accepted[k], learned[k])
  <2>. HIDE DEF k, z, q
  <2>. QED
    BY <1>2 DEF JobsInvariant
<1>4. z \in NetRows /\ RowTrue(z, handed[k], accepted[k], learned[k]) /\ z.status = "queued"
  <2>1. z = Queued(q)
    OBVIOUS
  <2>. HIDE DEF z, k, q
  <2>. QED
    BY <1>1, <1>3, <2>1, QueuedRow
<1>. HIDE DEF z
<1>5. rows' \in [J!Ids -> NetRows] /\ rows'[k] = z /\ \A i \in J!Ids : i # k => rows'[i] = rows[i]
  <2>. HIDE DEF k, q
  <2>. QED
    BY <1>1, <1>2, <1>4 DEF JobsInvariant
<1>6. \A i \in J!Ids : RowTrue(rows'[i], handed[i], accepted[i], learned[i])
  <2>. HIDE DEF k, q
  <2>. QED
    BY <1>4, <1>5 DEF JobsInvariant
<1>7. Numbered'
  <2>1. \A j \in J!Ids : rows'[j].status = "absent" <=> rows'[j] = J!Absent
    <3>. HIDE DEF k, q
    <3>. QED
      BY <1>2, <1>4, <1>5 DEF JobsInvariant, Numbered
  <2>2. J!Newest \in Int /\ k \in 0..MaxNetJobs /\ k = J!Newest + 1
    <3>1. k \in 0..MaxNetJobs
      <4>. HIDE DEF k
      <4>. QED
        BY <1>2 DEF J!Ids, J!NetJobsAssumption
    <3>2. J!Newest \in Int
      BY NewestIsANumber
    <3>. QED
      BY <3>1, <3>2
  <2>3. \A j \in J!Ids : rows'[j].status # "absent" <=> j <= k
    <3>. SUFFICES ASSUME NEW j \in J!Ids PROVE rows'[j].status # "absent" <=> j <= k
      OBVIOUS
    <3>1. j \in Int
      BY DEF J!Ids
    <3>2. CASE j = k
      BY <1>4, <1>5, <2>2, <3>1, <3>2
    <3>3. CASE j # k
      <4>1. rows'[j].status # "absent" <=> j <= J!Newest
        BY <1>2, <1>5, <3>3
      <4>. QED
        BY <2>2, <3>1, <3>3, <4>1
    <3>. QED
      BY <3>2, <3>3
  <2>4. J!Ids' = J!Ids /\ J!Absent' = J!Absent
    BY DEF J!Ids, J!Absent
  <2>. HIDE DEF k
  <2>. QED
    BY <2>1, <2>2, <2>3, <2>4 DEF Numbered
<1>8. TourFresh'
  <2>1. \A j \in J!Ids : rows[j].status \in J!Final => rows'[j] = rows[j]
    <3>. HIDE DEF k, q
    <3>. QED
      BY <1>2, <1>5 DEF J!Final
  <2>. HIDE DEF k, q
  <2>. QED
    BY <1>1, <2>1 DEF JobsInvariant, TourFresh
<1>9. submission' \in [Askers -> Requests \cup {Nobody}]
  BY <1>1 DEF JobsInvariant
<1>. HIDE DEF k, q
<1>. QED
  BY <1>1, <1>5, <1>6, <1>7, <1>8, <1>9 DEF JobsInvariant, J!Ids

LEMMA JobsLookUp ==
    ASSUME J!NetJobsAssumption, JobsInvariant, NEW p \in Askers, NEW q \in Requests, J!LookUp(p, q)
    PROVE  JobsInvariant'
<1>1. /\ submission' = [submission EXCEPT ![p] = q]
      /\ UNCHANGED <<rows, holds, tour, posted, netMishaps, handed, accepted, learned>>
  BY DEF J!LookUp, J!courierVars, J!history
<1>2. submission' \in [Askers -> Requests \cup {Nobody}]
  BY <1>1 DEF JobsInvariant
<1>3. Numbered' /\ TourFresh'
  BY <1>1, SteadyKeeps DEF Steady
<1>. QED
  BY <1>1, <1>2, <1>3 DEF JobsInvariant, J!Ids

-----------------------------------------------------------------------------
\* The courier.
LEMMA JobsReadDue == ASSUME J!NetJobsAssumption, JobsInvariant, J!ReadDue PROVE JobsInvariant'
<1>1. /\ tour' = {[job |-> j, says |-> rows[j].status] : j \in J!Due} /\ posted = Nobody
      /\ UNCHANGED <<rows, submission, holds, posted, netMishaps, handed, accepted, learned>>
  BY DEF J!ReadDue, J!history
<1>2. \A j \in J!Due : j \in J!Ids /\ rows[j].status \in J!Final /\ rows[j].callback \in {"pending", "retrying"}
  BY DEF J!Due
<1>3. tour' \subseteq [job : J!Ids, says : J!Final]
  BY <1>1, <1>2
<1>4. TourFresh'
  <2>1. \A n \in tour' : /\ n.job \in J!Ids /\ rows[n.job].status = n.says /\ n.says \in J!Final
                         /\ rows[n.job].callback \in {"pending", "retrying"}
                         /\ n = [job |-> n.job, says |-> rows[n.job].status]
    BY <1>1, <1>2
  <2>2. \A n, m \in tour' : m.job = n.job => m = n
    BY <2>1
  <2>3. rows' = rows /\ posted' = Nobody /\ J!Ids' = J!Ids
    BY <1>1 DEF J!Ids
  <2>. QED
    BY <2>1, <2>2, <2>3 DEF TourFresh
<1>5. Numbered'
  BY <1>1, SteadyKeeps DEF Steady
<1>. QED
  BY <1>1, <1>3, <1>4, <1>5 DEF JobsInvariant, J!Ids

LEMMA JobsPost == ASSUME J!NetJobsAssumption, JobsInvariant, J!Post PROVE JobsInvariant'
<1>1. PICK n \in tour, confirmed \in BOOLEAN, hears \in BOOLEAN :
         /\ confirmed => hears
         /\ tour' = tour \ {n} /\ posted' = [job |-> n.job, delivered |-> confirmed]
         /\ learned' = IF hears THEN [learned EXCEPT ![n.job] = @ \cup {n.says}] ELSE learned
  BY DEF J!Post
<1>2. UNCHANGED <<rows, submission, holds, netMishaps, handed, accepted>>
  BY DEF J!Post
<1>3. /\ n.job \in J!Ids /\ rows[n.job].status = n.says /\ n.says \in J!Final
      /\ rows[n.job].callback \in {"pending", "retrying"}
      /\ \A m \in tour : m.job = n.job => m = n
  BY <1>1 DEF JobsInvariant, TourFresh
<1>4. PICK j \in J!Ids : j = n.job
  BY <1>3
<1>5. /\ DOMAIN learned' = J!Ids /\ \A i \in J!Ids : i # j => learned'[i] = learned[i]
      /\ learned'[j] = learned[j] \/ learned'[j] = learned[j] \cup {n.says}
      /\ hears => learned'[j] = learned[j] \cup {n.says}
  BY <1>1, <1>4 DEF JobsInvariant
<1>6. \A i \in J!Ids : RowTrue(rows[i], handed[i], accepted[i], learned'[i])
  <2>. SUFFICES ASSUME NEW i \in J!Ids PROVE RowTrue(rows[i], handed[i], accepted[i], learned'[i])
    OBVIOUS
  <2>1. RowTrue(rows[i], handed[i], accepted[i], learned[i])
    BY DEF JobsInvariant
  <2>2. CASE i # j
    BY <1>5, <2>1, <2>2
  <2>3. CASE i = j
    BY <1>3, <1>4, <1>5, <2>1, <2>3 DEF RowTrue
  <2>. QED
    BY <2>2, <2>3
<1>7. TourFresh'
  <2>1. posted'.job = j /\ posted'.delivered = confirmed /\ posted' \in [job : J!Ids, delivered : BOOLEAN]
    BY <1>1, <1>4
  <2>2. confirmed => learned'[j] # {}
    BY <1>1, <1>5
  <2>3. \A m \in tour' : m \in tour /\ m.job # j
    BY <1>1, <1>3, <1>4
  <2>4. J!Ids' = J!Ids
    BY DEF J!Ids
  <2>5. \A m \in tour' : /\ m.job \in J!Ids /\ rows[m.job].status = m.says /\ m.says \in J!Final
                         /\ rows[m.job].callback \in {"pending", "retrying"}
                         /\ \A k \in tour' : k.job = m.job => k = m
    BY <2>3 DEF JobsInvariant, TourFresh
  <2>. QED
    BY <1>2, <1>3, <1>4, <2>1, <2>2, <2>3, <2>4, <2>5 DEF TourFresh
<1>8. Numbered'
  BY <1>2, SteadyKeeps DEF Steady
<1>9. tour' \subseteq [job : J!Ids, says : J!Final]
  BY <1>1 DEF JobsInvariant
<1>. QED
  BY <1>2, <1>5, <1>6, <1>7, <1>8, <1>9 DEF JobsInvariant, J!Ids

LEMMA JobsRecord == ASSUME J!NetJobsAssumption, JobsInvariant, J!Record PROVE JobsInvariant'
<1>1. /\ posted # Nobody /\ posted' = Nobody
      /\ UNCHANGED <<submission, holds, tour, handed, accepted, learned>>
      /\ netMishaps' \in 0..MaxNetMishaps
  BY DEF J!Record, J!history, J!Mishap, JobsInvariant, J!NetJobsAssumption
<1>2. /\ posted.job \in J!Ids /\ posted.delivered \in BOOLEAN
      /\ rows[posted.job].status \in J!Final /\ rows[posted.job].callback \in {"pending", "retrying"}
      /\ posted.delivered => learned[posted.job] # {}
      /\ \A n \in tour : n.job # posted.job
  <2>1. posted \in [job : J!Ids, delivered : BOOLEAN]
    BY <1>1 DEF JobsInvariant, TourFresh
  <2>. QED
    BY <1>1, <2>1 DEF JobsInvariant, TourFresh
<1>3. CASE rows' = rows
  <2>1. TourFresh'
    BY <1>1, <1>3 DEF JobsInvariant, TourFresh, J!Ids
  <2>2. Numbered'
    BY <1>3, SteadyKeeps DEF Steady
  <2>. QED
    BY <1>1, <1>3, <2>1, <2>2 DEF JobsInvariant, J!Ids
<1>4. CASE \E windowOver \in BOOLEAN :
             rows' = [rows EXCEPT ![posted.job] = J!Recorded(@, posted.delivered, windowOver)]
  <2>1. PICK windowOver \in BOOLEAN :
               rows' = [rows EXCEPT ![posted.job] = J!Recorded(@, posted.delivered, windowOver)]
    BY <1>4
  <2>2. PICK j, z : /\ j \in J!Ids /\ j = posted.job
                    /\ z = J!Recorded(rows[j], posted.delivered, windowOver)
                    /\ rows' = [rows EXCEPT ![j] = z]
    BY <1>2, <2>1 DEF JobsInvariant
  <2>3. rows[j] \in NetRows /\ RowTrue(rows[j], handed[j], accepted[j], learned[j])
    BY <2>2 DEF JobsInvariant
  <2>4. z \in NetRows /\ RowTrue(z, handed[j], accepted[j], learned[j]) /\ z.status = rows[j].status
    BY <1>2, <2>2, <2>3, RecordedRow
  <2>5. rows' \in [J!Ids -> NetRows] /\ rows'[j] = z /\ \A i \in J!Ids : i # j => rows'[i] = rows[i]
    BY <2>2, <2>4 DEF JobsInvariant
  <2>6. \A i \in J!Ids : RowTrue(rows'[i], handed[i], accepted[i], learned[i])
    BY <2>4, <2>5 DEF JobsInvariant
  <2>7. Numbered'
    <3>1. "absent" \notin J!Final /\ J!Absent.status = "absent"
      BY AbsentIsRow DEF J!Final
    <3>2. J!Ids' = J!Ids /\ J!Absent' = J!Absent
      BY DEF J!Ids, J!Absent
    <3>3. /\ \A i \in J!Ids : rows'[i].status = "absent" <=> rows[i].status = "absent"
          /\ rows'[j] # J!Absent /\ rows'[j].status # "absent"
      BY <1>2, <2>2, <2>4, <2>5, <3>1
    <3>. QED
      BY <2>5, <3>2, <3>3 DEF JobsInvariant, Numbered
  <2>8. TourFresh'
    BY <1>1, <1>2, <2>2, <2>5 DEF JobsInvariant, TourFresh, J!Ids
  <2>. QED
    BY <1>1, <2>5, <2>6, <2>7, <2>8 DEF JobsInvariant, J!Ids
<1>. QED
  BY <1>3, <1>4 DEF J!Record

LEMMA JobsRestart == ASSUME J!NetJobsAssumption, JobsInvariant, J!Restart PROVE JobsInvariant'
<1>1. /\ submission' = [p \in Askers |-> Nobody] /\ tour' = {} /\ posted' = Nobody
      /\ UNCHANGED <<rows, holds, handed, accepted, learned>>
      /\ netMishaps' \in 0..MaxNetMishaps
  BY DEF J!Restart, J!history, J!Mishap, JobsInvariant, J!NetJobsAssumption
<1>2. Numbered'
  BY <1>1, SteadyKeeps DEF Steady
<1>3. TourFresh'
  BY <1>1 DEF TourFresh
<1>4. submission' \in [Askers -> Requests \cup {Nobody}] /\ tour' \subseteq [job : J!Ids, says : J!Final]
  BY <1>1
<1>. QED
  BY <1>1, <1>2, <1>3, <1>4 DEF JobsInvariant, J!Ids

LEMMA JobsInvariantNext == ASSUME J!NetJobsAssumption, JobsInvariant, [J!Next]_netVars PROVE JobsInvariant'
<1>1. CASE \E p \in Askers : J!AskerNext(p)
  BY <1>1, JobsInsert, JobsLookUp DEF J!AskerNext
<1>2. CASE \E w \in Workers : J!WorkerNext(w)
  BY <1>2, JobsClaim, JobsExtend, JobsRefused, JobsComplete DEF J!WorkerNext
<1>3. CASE J!Maintain \/ J!MaintenanceFails
  BY <1>3, JobsMaintain
<1>4. CASE J!CourierNext
  BY <1>4, JobsReadDue, JobsPost, JobsRecord DEF J!CourierNext
<1>5. CASE J!Restart
  BY <1>5, JobsRestart
<1>6. CASE \E j \in J!Ids : J!LeasePasses(j) \/ J!ClockNext(j)
  BY <1>6, JobsTime DEF J!ClockNext
<1>7. CASE UNCHANGED netVars
  <2>1. UNCHANGED <<rows, submission, holds, tour, posted, netMishaps, handed, accepted, learned>>
    BY <1>7 DEF netVars
  <2>2. Numbered' /\ TourFresh'
    BY <2>1, SteadyKeeps DEF Steady
  <2>. QED
    BY <2>1, <2>2 DEF JobsInvariant, J!Ids
<1>. QED
  BY <1>1, <1>2, <1>3, <1>4, <1>5, <1>6, <1>7 DEF J!Next

-----------------------------------------------------------------------------
\* The session.

SessionTypes ==
    /\ lines \in Scripts /\ lines \in Seq(AllKinds) /\ Len(lines) <= MaxLines /\ read \in 0..Len(lines)
    /\ outstanding \in BOOLEAN /\ workMode \in BOOLEAN /\ reading = IF outstanding THEN 1 ELSE 0
    /\ held \subseteq 1..read /\ handled \subseteq 1..read
    /\ history \subseteq 1..read /\ talk \subseteq 1..read
    /\ inputCh \in Seq(Nat) /\ Len(inputCh) <= 1 /\ (Len(inputCh) = 1 => inputCh[1] \in 1..read)
    /\ pc \in {"top", "run", "drain", "report", "over"} /\ tasks \in 0..MaxTasks
    /\ live \in {0, 1} /\ (live = 1 => pc \in {"run", "drain", "over"})
    /\ deferred \in Seq(Nat)
    /\ \A i \in 1..Len(deferred) : deferred[i] \in 1..read /\ Asks(deferred[i]) \in Beats
    /\ frame.for \in {"none", "work", "timer", "prompt", "restart"} \cup Beats
    /\ frame.line \in 0..read /\ spoken \in 0..read
    /\ pc = "drain" <=> spoken # NoLine
    /\ told \in [1..MaxLines -> SUBSET {"reported", "lost"}]

OnChannel(l) == Len(inputCh) = 1 /\ inputCh[1] = l

\* Every line is in one place, and deferred once.
LinesApart ==
    /\ \A l \in 1..read :
         \/ l \in held /\ ~OnChannel(l) /\ l \notin Range(deferred) /\ l # spoken /\ l \notin handled
         \/ l \notin held /\ OnChannel(l) /\ l \notin Range(deferred) /\ l # spoken /\ l \notin handled
         \/ l \notin held /\ ~OnChannel(l) /\ l \in Range(deferred) /\ l # spoken /\ l \notin handled
         \/ l \notin held /\ ~OnChannel(l) /\ l \notin Range(deferred) /\ l = spoken /\ l \notin handled
         \/ l \notin held /\ ~OnChannel(l) /\ l \notin Range(deferred) /\ l # spoken /\ l \in handled
    /\ \A i, j \in 1..Len(deferred) : deferred[i] = deferred[j] => i = j

\* What a run is for is what its line asks, its job was not reported yet, and it
\* goes on with the session's conversation, or has none of it.
FrameTrue ==
    /\ pc = "report" => frame.for \in {"job", "fresh"}
    /\ pc \in {"run", "drain"} => frame.for # "none"
    /\ pc \in {"run", "drain", "report"} /\ frame.for \in Beats =>
         frame.line \in handled /\ Asks(frame.line) = frame.for /\ told[frame.line] = {}
    /\ \A l \in history : Asks(l) # "fresh"
    /\ pc \in {"run", "drain"} =>
         /\ \A l \in talk : Asks(l) = "fresh" => frame.for = "fresh"
         /\ IF frame.for = "fresh" THEN talk \cap history = {} ELSE history \subseteq talk
    /\ history \cup talk \subseteq handled
    /\ spoken # NoLine => Asks(spoken) # "fresh"
    /\ \A l \in 1..MaxLines : /\ told[l] = {} \/ told[l] = {"reported"} \/ told[l] = {"lost"}
                              /\ told[l] # {} => l \in handled

SessionInvariant == SessionTypes /\ LinesApart /\ FrameTrue /\ NeverDeaf

LEMMA SessionInvariantInit == ASSUME SessionAssumption, SessionInit PROVE SessionInvariant
<1>. USE DEF SessionAssumption, SessionInit, NoLine, NoFrame
<1>1. SessionTypes
  <2>1. lines \in Seq(AllKinds) /\ Len(lines) <= MaxLines /\ 0 \in 0..Len(lines) /\ deferred \in Seq(Nat) /\ Len(deferred) = 0
    OBVIOUS
  <2>2. told \in [1..MaxLines -> SUBSET {"reported", "lost"}]
    OBVIOUS
  <2>3. frame.for = "none" /\ frame.line = 0
    OBVIOUS
  <2>4. /\ pc \in {"top", "run", "drain", "report", "over"} /\ ~(pc = "drain") /\ outstanding \in BOOLEAN
        /\ workMode \in BOOLEAN /\ reading = IF outstanding THEN 1 ELSE 0
    OBVIOUS
  <2>. QED
    BY <2>1, <2>2, <2>3, <2>4 DEF SessionTypes
<1>2. LinesApart
  BY DEF LinesApart, OnChannel, Range
<1>3. FrameTrue
  BY DEF FrameTrue
<1>4. NeverDeaf
  BY DEF NeverDeaf
<1>. QED
  BY <1>1, <1>2, <1>3, <1>4 DEF SessionInvariant

LEMMA NoneOrOne == ASSUME NEW s \in Seq(Nat), Len(s) <= 1 PROVE Len(s) = 0 \/ Len(s) = 1
<1>1. \A n \in Nat : n <= 1 => n = 0 \/ n = 1
  OBVIOUS
<1>2. Len(s) \in Nat
  OBVIOUS
<1>. QED
  BY <1>1, <1>2

LEMMA SessionInvariantImplies == ASSUME SessionAssumption, SessionInvariant PROVE SessionInv
<1>. USE DEF SessionAssumption, SessionInvariant
<1>1. SessionTypeOK
  <2>1. Len(inputCh) <= 1
    BY DEF SessionTypes
  <2>a. spoken \in 0..read /\ frame.line \in 0..read
    BY DEF SessionTypes
  <2>b. reading \in Nat /\ live \in Nat
    BY DEF SessionTypes
  <2>2. {spoken, frame.line} \subseteq 0..read /\ reading \in Nat /\ live \in Nat
    BY <2>a, <2>b
  <2>5. {outstanding, workMode} \subseteq BOOLEAN
    BY Zenon DEF SessionTypes
  <2>3. /\ lines \in Scripts /\ read \in 0..Len(lines) /\ held \subseteq 1..read
        /\ pc \in {"top", "run", "drain", "report", "over"}
        /\ tasks \in 0..MaxTasks /\ history \cup talk \cup handled \subseteq 1..read
    BY DEF SessionTypes
  <2>4. /\ frame.for \in {"none", "work", "timer", "prompt", "restart"} \cup Beats
        /\ told \in [1..MaxLines -> SUBSET {"reported", "lost"}]
    BY DEF SessionTypes
  <2>. QED
    BY <2>1, <2>2, <2>3, <2>4, <2>5 DEF SessionTypeOK
<1>2. OneReadline /\ OneRun
  BY DEF SessionTypes, OneReadline, OneRun
<1>3. EveryLineOnce
  <2>. SUFFICES ASSUME NEW l \in 1..read PROVE \E k \in 1..5 : \A j \in 1..5 : l \in Places[j] <=> j = k
    BY DEF EveryLineOnce
  <2>1. l \in Range(inputCh) <=> OnChannel(l)
    <3>0. inputCh \in Seq(Nat) /\ Len(inputCh) <= 1
      BY DEF SessionTypes
    <3>a. DOMAIN inputCh = 1..Len(inputCh)
      BY <3>0
    <3>b. Len(inputCh) = 0 \/ Len(inputCh) = 1
      BY <3>0, NoneOrOne
    <3>1. DOMAIN inputCh = 1..Len(inputCh) /\ (Len(inputCh) = 0 \/ Len(inputCh) = 1)
      BY <3>a, <3>b
    <3>2. Range(inputCh) = {inputCh[i] : i \in 1..Len(inputCh)}
      BY <3>1 DEF Range
    <3>3. Len(inputCh) = 0 => 1..Len(inputCh) = {}
      OBVIOUS
    <3>4. Len(inputCh) = 1 => 1..Len(inputCh) = {1}
      OBVIOUS
    <3>. QED
      BY <3>1, <3>2, <3>3, <3>4 DEF OnChannel
  <2>2. /\ Places[1] = held /\ Places[2] = Range(inputCh) /\ Places[3] = Range(deferred)
        /\ Places[4] = {spoken} /\ Places[5] = handled
    BY DEF Places
  <2>3. \A j \in 1..5 : j = 1 \/ j = 2 \/ j = 3 \/ j = 4 \/ j = 5
    OBVIOUS
  <2>4. \/ \A j \in 1..5 : l \in Places[j] <=> j = 1
        \/ \A j \in 1..5 : l \in Places[j] <=> j = 2
        \/ \A j \in 1..5 : l \in Places[j] <=> j = 3
        \/ \A j \in 1..5 : l \in Places[j] <=> j = 4
        \/ \A j \in 1..5 : l \in Places[j] <=> j = 5
    BY <2>1, <2>2, <2>3 DEF LinesApart
  <2>. QED
    BY <2>4
<1>4. FreshApart
  BY DEF FrameTrue, FreshApart
<1>5. ReportedOnce
  <2>. SUFFICES ASSUME NEW l \in Lines PROVE Cardinality(told[l]) <= 1 /\ (told[l] # {} => l \in handled)
    BY DEF ReportedOnce
  <2>1. l \in 1..MaxLines
    BY DEF SessionTypes, Lines
  <2>2. Cardinality({}) = 0 /\ Cardinality({"reported"}) = 1 /\ Cardinality({"lost"}) = 1
    BY FS_EmptySet, FS_Singleton
  <2>3. (told[l] = {} \/ told[l] = {"reported"} \/ told[l] = {"lost"}) /\ (told[l] # {} => l \in handled)
    BY <2>1 DEF FrameTrue
  <2>4. Cardinality(told[l]) = 0 \/ Cardinality(told[l]) = 1
    BY <2>2, <2>3, Zenon
  <2>. QED
    BY <2>3, <2>4
<1>. QED
  BY <1>1, <1>2, <1>3, <1>4, <1>5 DEF SessionInv

-----------------------------------------------------------------------------
\* A heartbeat is deferred, or the first of those is taken.
LEMMA DeferredMore ==
    ASSUME deferred \in Seq(Nat), NEW l \in Nat, deferred' = Append(deferred, l)
    PROVE  /\ deferred' \in Seq(Nat) /\ Len(deferred') = Len(deferred) + 1 /\ deferred'[Len(deferred) + 1] = l
           /\ \A i \in 1..Len(deferred) : deferred'[i] = deferred[i]
           /\ Range(deferred') = Range(deferred) \cup {l}
<1>1. /\ deferred' \in Seq(Nat) /\ Len(deferred') = Len(deferred) + 1 /\ deferred'[Len(deferred) + 1] = l
      /\ \A i \in 1..Len(deferred) : deferred'[i] = deferred[i]
  OBVIOUS
<1>2. DOMAIN deferred = 1..Len(deferred) /\ DOMAIN deferred' = 1..(Len(deferred) + 1) /\ Len(deferred) \in Nat
  BY <1>1
<1>3. 1..(Len(deferred) + 1) = 1..Len(deferred) \cup {Len(deferred) + 1}
  BY <1>2
<1>. QED
  BY <1>1, <1>2, <1>3 DEF Range

LEMMA DeferredLess ==
    ASSUME deferred \in Seq(Nat), deferred # <<>>, deferred' = Tail(deferred)
    PROVE  /\ deferred' \in Seq(Nat) /\ Len(deferred') = Len(deferred) - 1 /\ Head(deferred) = deferred[1]
           /\ \A i \in 1..Len(deferred') : deferred'[i] = deferred[i + 1] /\ i + 1 \in 1..Len(deferred)
           /\ 1 \in 1..Len(deferred)
           /\ Range(deferred) = Range(deferred') \cup {deferred[1]}
<1>1. /\ deferred' \in Seq(Nat) /\ Len(deferred') = Len(deferred) - 1 /\ Head(deferred) = deferred[1]
      /\ \A i \in 1..Len(deferred') : deferred'[i] = deferred[i + 1] /\ i + 1 \in 1..Len(deferred)
      /\ Len(deferred) \in Nat \ {0}
  OBVIOUS
<1>2. DOMAIN deferred = 1..Len(deferred) /\ DOMAIN deferred' = 1..(Len(deferred) - 1)
  BY <1>1
<1>3. \A x : x \in Range(deferred) <=> x \in Range(deferred') \/ x = deferred[1]
  <2>. SUFFICES ASSUME NEW x PROVE x \in Range(deferred) <=> x \in Range(deferred') \/ x = deferred[1]
    OBVIOUS
  <2>1. ASSUME NEW i \in 1..Len(deferred), x = deferred[i] PROVE x \in Range(deferred') \/ x = deferred[1]
    <3>1. i = 1 \/ (i - 1 \in 1..Len(deferred') /\ (i - 1) + 1 = i)
      BY <1>1
    <3>. QED
      BY <1>1, <1>2, <2>1, <3>1 DEF Range
  <2>2. x \in Range(deferred') => x \in Range(deferred)
    BY <1>1, <1>2 DEF Range
  <2>3. deferred[1] \in Range(deferred)
    BY <1>1, <1>2 DEF Range
  <2>. QED
    BY <1>2, <2>1, <2>2, <2>3 DEF Range
<1>. QED
  BY <1>1, <1>3

\* What the reader is told, and a line that leaves the channel.
LEMMA StartStep ==
    ASSUME SessionTypes, Start
    PROVE  outstanding' = TRUE /\ reading' = 1
BY DEF SessionTypes, Start

LEMMA LineTaken ==
    ASSUME SessionTypes, inputCh # <<>>, inputCh' = <<>>
    PROVE  /\ OnChannel(Head(inputCh)) /\ Head(inputCh) \in 1..read /\ Len(inputCh') = 0 /\ inputCh' \in Seq(Nat)
           /\ \A l : OnChannel(l) <=> l = Head(inputCh)
           /\ \A l : ~OnChannel(l)'
<1>0. inputCh \in Seq(Nat) /\ Len(inputCh) <= 1
  BY DEF SessionTypes
<1>a. Len(inputCh) # 0 /\ Head(inputCh) = inputCh[1]
  BY <1>0
<1>b. Len(inputCh) = 0 \/ Len(inputCh) = 1
  BY <1>0, NoneOrOne
<1>1. Len(inputCh) = 1 /\ Head(inputCh) = inputCh[1]
  BY <1>a, <1>b
<1>2. Len(inputCh') = 0 /\ inputCh' \in Seq(Nat)
  OBVIOUS
<1>. QED
  BY <1>1, <1>2 DEF OnChannel, SessionTypes

LEMMA SessionReads == ASSUME SessionAssumption, SessionInvariant, ReadReturns PROVE SessionInvariant'
<1>1. /\ reading > 0 /\ pc # "over" /\ read < Len(lines) /\ read' = read + 1 /\ held' = held \cup {read + 1}
      /\ outstanding' = FALSE /\ reading' = reading - 1
      /\ UNCHANGED <<lines, inputCh, pc, workMode, tasks, deferred, frame, live, spoken, history, talk, handled, told>>
  BY DEF ReadReturns
<1>2. SessionTypes /\ LinesApart /\ FrameTrue
  BY DEF SessionInvariant
<1>3. read \in Nat /\ read' \in 0..Len(lines) /\ 1..read' = 1..read \cup {read + 1} /\ read + 1 \notin 1..read
  BY <1>1, <1>2 DEF SessionTypes
<1>4. reading' = 0
  BY <1>1, <1>2 DEF SessionTypes
<1>5. SessionTypes'
  <2>1. /\ held' \subseteq 1..read' /\ handled' \subseteq 1..read' /\ history' \subseteq 1..read' /\ talk' \subseteq 1..read'
        /\ (Len(inputCh) = 1 => inputCh[1] \in 1..read')
        /\ \A i \in 1..Len(deferred) : deferred[i] \in 1..read' /\ Asks(deferred[i]) \in Beats
    BY <1>1, <1>2, <1>3 DEF SessionTypes
  <2>2. frame.line \in 0..read' /\ spoken \in 0..read'
    BY <1>1, <1>2, <1>3 DEF SessionTypes
  <2>. QED
    BY <1>1, <1>2, <1>3, <1>4, <2>1, <2>2 DEF SessionTypes, Asks
<1>6. LinesApart'
  <2>1. /\ read + 1 \notin held /\ ~OnChannel(read + 1) /\ read + 1 \notin Range(deferred) /\ read + 1 # spoken
        /\ read + 1 \notin handled
    <3>1. read + 1 \notin Range(deferred)
      <4>1. deferred \in Seq(Nat) /\ \A i \in 1..Len(deferred) : deferred[i] \in 1..read
        BY <1>2 DEF SessionTypes
      <4>2. DOMAIN deferred = 1..Len(deferred)
        BY <4>1
      <4>. QED
        BY <1>3, <4>1, <4>2 DEF Range
    <3>. QED
      BY <1>2, <1>3, <3>1 DEF SessionTypes, OnChannel
  <2>. QED
    BY <1>1, <1>2, <1>3, <2>1 DEF LinesApart, OnChannel
<1>7. FrameTrue'
  BY <1>1, <1>2 DEF FrameTrue, Asks
<1>8. NeverDeaf'
  BY <1>1 DEF NeverDeaf
<1>. QED
  BY <1>5, <1>6, <1>7, <1>8 DEF SessionInvariant

LEMMA SessionDelivers ==
    ASSUME SessionAssumption, SessionInvariant, NEW l, Delivers(l) PROVE SessionInvariant'
<1>1. /\ l \in held /\ inputCh = <<>> /\ pc # "over" /\ inputCh' = <<l>> /\ held' = held \ {l}
      /\ UNCHANGED <<lines, read, outstanding, reading, pc, workMode, tasks, deferred, frame,
                     live, spoken, history, talk, handled, told>>
  BY DEF Delivers
<1>2. SessionTypes /\ LinesApart /\ FrameTrue
  BY DEF SessionInvariant
<1>3. l \in 1..read /\ l \in Nat
  BY <1>1, <1>2 DEF SessionTypes
<1>4. inputCh' \in Seq(Nat) /\ Len(inputCh') = 1 /\ inputCh'[1] = l /\ Len(inputCh) = 0
  BY <1>1, <1>3
<1>5. SessionTypes'
  BY <1>1, <1>2, <1>3, <1>4 DEF SessionTypes, Asks
<1>6. LinesApart'
  <2>1. \A k : (OnChannel(k)' <=> k = l) /\ ~OnChannel(k)
    BY <1>4 DEF OnChannel
  <2>. QED
    BY <1>1, <1>2, <1>3, <2>1 DEF LinesApart
<1>7. FrameTrue'
  BY <1>1, <1>2 DEF FrameTrue, Asks
<1>8. NeverDeaf'
  BY <1>4 DEF NeverDeaf
<1>. QED
  BY <1>5, <1>6, <1>7, <1>8 DEF SessionInvariant

\* A run that begins, between two others or for an interjection.
LEMMA RunBegins ==
    ASSUME SessionAssumption, SessionInvariant, live = 0, pc' = "run", live' = 1,
           UNCHANGED <<lines, read, held, tasks, told>>, workMode' \in BOOLEAN,
           outstanding' \in BOOLEAN, reading' = IF outstanding' THEN 1 ELSE 0, spoken' = NoLine, NeverDeaf',
           history' \subseteq 1..read, talk' \subseteq 1..read, handled \subseteq handled', handled' \subseteq 1..read,
           inputCh' \in Seq(Nat), Len(inputCh') <= 1, Len(inputCh') = 1 => inputCh'[1] \in 1..read,
           deferred' \in Seq(Nat), \A i \in 1..Len(deferred') : deferred'[i] \in 1..read /\ Asks(deferred'[i]) \in Beats,
           frame'.for \in {"work", "timer", "prompt", "restart"} \cup Beats, frame'.line \in 0..read,
           frame'.for \in Beats =>
             frame'.line \in handled' /\ Asks(frame'.line) = frame'.for /\ told[frame'.line] = {},
           \A l \in history' : Asks(l) # "fresh", \A l \in talk' : Asks(l) = "fresh" => frame'.for = "fresh",
           frame'.for # "fresh" => history' \subseteq talk', frame'.for = "fresh" => talk' \cap history' = {},
           history' \cup talk' \subseteq handled', LinesApart'
    PROVE  SessionInvariant'
<1>1. SessionTypes /\ FrameTrue
  BY DEF SessionInvariant
<1>2. SessionTypes'
  <2>1. /\ lines' \in Scripts /\ lines' \in Seq(AllKinds) /\ Len(lines') <= MaxLines /\ read' \in 0..Len(lines')
        /\ held' \subseteq 1..read' /\ tasks' \in 0..MaxTasks /\ told' \in [1..MaxLines -> SUBSET {"reported", "lost"}]
        /\ 0 \in 0..read
    BY <1>1 DEF SessionTypes
  <2>2. /\ frame'.for \in {"none", "work", "timer", "prompt", "restart"} \cup Beats
        /\ spoken' = 0 /\ ~(pc' = "drain") /\ pc' \in {"top", "run", "drain", "report", "over"}
        /\ live' \in {0, 1} /\ pc' \in {"run", "drain", "over"}
    BY DEF NoLine
  <2>3. \A i \in 1..Len(deferred') : deferred'[i] \in 1..read' /\ lines'[deferred'[i]] \in Beats
    BY DEF Asks
  <2>. QED
    BY <2>1, <2>2, <2>3 DEF SessionTypes, NoLine, Asks
<1>3. FrameTrue'
  <2>1. frame'.for # "none"
    BY DEF Beats
  <2>. QED
    BY <1>1, <2>1 DEF FrameTrue, Asks, NoLine
<1>. QED
  BY <1>2, <1>3 DEF SessionInvariant

\* Between runs there is no goroutine, no line is spoken and a line's job has not
\* been reported.
LEMMA AtTheTop ==
    ASSUME SessionAssumption, SessionInvariant, pc = "top"
    PROVE  /\ live = 0 /\ spoken = NoLine /\ history \subseteq 1..read /\ history \subseteq handled
           /\ \A l \in history : Asks(l) # "fresh"
BY DEF SessionInvariant, SessionTypes, FrameTrue

LEMMA NotYetTold ==
    ASSUME SessionAssumption, SessionInvariant, NEW l \in 1..read, l \notin handled
    PROVE  told[l] = {} /\ Asks(l) \in AllKinds
<1>1. l \in 1..MaxLines /\ l \in 1..Len(lines) /\ lines \in Seq(AllKinds)
  <2>1. /\ lines \in Seq(AllKinds) /\ Len(lines) <= MaxLines /\ read \in 0..Len(lines)
        /\ MaxLines \in Nat
    BY DEF SessionInvariant, SessionTypes, SessionAssumption
  <2>. QED
    BY <2>1
<1>2. told[l] = {}
  BY <1>1 DEF SessionInvariant, FrameTrue
<1>. QED
  BY <1>1, <1>2 DEF Asks

LEMMA SessionTakesDeferred ==
    ASSUME SessionAssumption, SessionInvariant, TakeDeferred PROVE SessionInvariant'
<1>. DEFINE l == Head(deferred)
            fr == [for |-> Asks(l), line |-> l]
            conversation == IF Asks(l) = "fresh" THEN {l} ELSE history \cup {l}
<1>1. /\ pc = "top" /\ deferred # <<>> /\ deferred' = Tail(deferred) /\ Start /\ handled' = handled \cup {l}
      /\ pc' = "run" /\ live' = live + 1 /\ frame' = fr /\ talk' = conversation
      /\ UNCHANGED <<lines, read, held, inputCh, workMode, tasks, spoken, history, told>>
  BY DEF TakeDeferred, RunsBeat, Runs, readerVars
<1>2. SessionTypes /\ LinesApart /\ FrameTrue /\ NeverDeaf
  BY DEF SessionInvariant
<1>3. /\ deferred' \in Seq(Nat) /\ Len(deferred') = Len(deferred) - 1 /\ l = deferred[1]
      /\ \A i \in 1..Len(deferred') : deferred'[i] = deferred[i + 1] /\ i + 1 \in 1..Len(deferred)
      /\ 1 \in 1..Len(deferred) /\ Range(deferred) = Range(deferred') \cup {l}
  <2>1. deferred \in Seq(Nat)
    BY <1>2 DEF SessionTypes
  <2>. QED
    BY <1>1, <2>1, DeferredLess
<1>4. l \in 1..read /\ Asks(l) \in Beats
  BY <1>2, <1>3 DEF SessionTypes
<1>5. frame'.for = Asks(l) /\ frame'.line = l
  BY <1>1
<1>. HIDE DEF l, fr
<1>6. l \notin handled /\ l \notin held /\ ~OnChannel(l)
  BY <1>2, <1>3, <1>4 DEF LinesApart
<1>7. l \notin Range(deferred')
  <2>1. \A i \in 1..Len(deferred') : deferred'[i] # l
    <3>. SUFFICES ASSUME NEW i \in 1..Len(deferred'), deferred'[i] = l PROVE FALSE
      OBVIOUS
    <3>1. deferred[i + 1] = deferred[1] /\ i + 1 \in 1..Len(deferred) /\ 1 \in 1..Len(deferred) /\ i + 1 # 1
      BY <1>3
    <3>. QED
      BY <1>2, <3>1 DEF LinesApart
  <2>2. DOMAIN deferred' = 1..Len(deferred')
    BY <1>3
  <2>. QED
    BY <2>1, <2>2 DEF Range
<1>8. LinesApart'
  <2>1. \A i, j \in 1..Len(deferred') : deferred'[i] = deferred'[j] => i = j
    <3>. SUFFICES ASSUME NEW i \in 1..Len(deferred'), NEW j \in 1..Len(deferred'), deferred'[i] = deferred'[j]
                  PROVE  i = j
      OBVIOUS
    <3>1. deferred[i + 1] = deferred[j + 1] /\ i + 1 \in 1..Len(deferred) /\ j + 1 \in 1..Len(deferred)
      BY <1>3
    <3>2. i + 1 = j + 1
      BY <1>2, <3>1 DEF LinesApart
    <3>. QED
      BY <3>2
  <2>2. spoken = NoLine
    BY <1>1, AtTheTop
  <2>3. \A k : OnChannel(k)' <=> OnChannel(k)
    BY <1>1 DEF OnChannel
  <2>4. \A k \in 1..read :
         \/ k \in held /\ ~OnChannel(k) /\ k \notin Range(deferred') /\ k # spoken /\ k \notin handled'
         \/ k \notin held /\ OnChannel(k) /\ k \notin Range(deferred') /\ k # spoken /\ k \notin handled'
         \/ k \notin held /\ ~OnChannel(k) /\ k \in Range(deferred') /\ k # spoken /\ k \notin handled'
         \/ k \notin held /\ ~OnChannel(k) /\ k \notin Range(deferred') /\ k = spoken /\ k \notin handled'
         \/ k \notin held /\ ~OnChannel(k) /\ k \notin Range(deferred') /\ k # spoken /\ k \in handled'
    <3>. SUFFICES ASSUME NEW k \in 1..read, k # l
                  PROVE  /\ k \in Range(deferred') <=> k \in Range(deferred)
                         /\ k \in handled' <=> k \in handled
      BY <1>1, <1>2, <1>3, <1>4, <1>6, <1>7, <2>2 DEF LinesApart, NoLine
    <3>. QED
      BY <1>1, <1>3
  <2>. QED
    BY <1>1, <2>1, <2>3, <2>4 DEF LinesApart
<1>9. told[l] = {}
  BY <1>4, <1>6, NotYetTold
<1>10. outstanding' = TRUE /\ reading' = 1
  BY <1>1, <1>2, StartStep
<1>11. NeverDeaf'
  BY <1>10 DEF NeverDeaf
<1>12. /\ live = 0 /\ live' = 1 /\ spoken' = NoLine /\ history' \subseteq 1..read /\ talk' \subseteq 1..read
       /\ handled \subseteq handled' /\ handled' \subseteq 1..read
       /\ \A k \in history' : Asks(k) # "fresh"
       /\ \A k \in talk' : Asks(k) = "fresh" => Asks(l) = "fresh"
       /\ Asks(l) # "fresh" => history' \subseteq talk'
       /\ history' \cup talk' \subseteq handled' /\ (Asks(l) = "fresh" => talk' \cap history' = {})
  BY <1>1, <1>2, <1>4, AtTheTop DEF SessionTypes
<1>13. \A i \in 1..Len(deferred') : deferred'[i] \in 1..read /\ Asks(deferred'[i]) \in Beats
  BY <1>2, <1>3 DEF SessionTypes
<1>14. /\ inputCh' \in Seq(Nat) /\ Len(inputCh') <= 1 /\ (Len(inputCh') = 1 => inputCh'[1] \in 1..read)
       /\ workMode' \in BOOLEAN
  BY <1>1, <1>2, Zenon DEF SessionTypes
<1>15. /\ frame'.for \in {"work", "timer", "prompt", "restart"} \cup Beats /\ frame'.line \in 0..read
       /\ frame'.for \in Beats => frame'.line \in handled' /\ Asks(frame'.line) = frame'.for /\ told[frame'.line] = {}
       /\ \A k \in talk' : Asks(k) = "fresh" => frame'.for = "fresh"
       /\ frame'.for # "fresh" => history' \subseteq talk'
       /\ frame'.for = "fresh" => talk' \cap history' = {}
  <2>1. l \in 0..read
    BY <1>4, <1>2 DEF SessionTypes
  <2>. QED
    BY <1>1, <1>4, <1>5, <1>9, <1>12, <2>1
<1>16. outstanding' \in BOOLEAN /\ reading' = IF outstanding' THEN 1 ELSE 0
  BY <1>10
<1>. HIDE DEF conversation
<1>. QED
  BY <1>1, <1>3, <1>8, <1>11, <1>12, <1>13, <1>14, <1>15, <1>16, RunBegins

LEMMA SessionWorks ==
    ASSUME SessionAssumption, SessionInvariant, WorkNext \/ WorkTimeout PROVE SessionInvariant'
<1>1. SessionTypes /\ LinesApart /\ FrameTrue /\ NeverDeaf /\ pc = "top" /\ live = 0 /\ spoken = NoLine
  BY AtTheTop DEF SessionInvariant, WorkNext, WorkTimeout
<1>2. CASE WorkNext /\ tasks > 0
  <2>1. /\ pc' = "run" /\ live' = live + 1 /\ frame' = [for |-> "work", line |-> NoLine] /\ talk' = history
        /\ UNCHANGED <<lines, read, held, outstanding, reading, inputCh, tasks, deferred, spoken, history, handled, told,
                       workMode>>
    <3>1. ~(tasks = 0)
      BY <1>2
    <3>. QED
      BY <1>2, <3>1 DEF WorkNext, Runs, readerVars
  <2>2. frame'.for = "work" /\ frame'.line = 0 /\ 0 \in 0..read
    BY <1>1, <2>1 DEF NoLine, SessionTypes
  <2>3. LinesApart'
    BY <1>1, <2>1 DEF LinesApart, OnChannel
  <2>4. NeverDeaf'
    BY <1>1, <2>1 DEF NeverDeaf
  <2>5. /\ inputCh' \in Seq(Nat) /\ Len(inputCh') <= 1 /\ (Len(inputCh') = 1 => inputCh'[1] \in 1..read)
        /\ workMode' \in BOOLEAN
    BY <1>1, <2>1, Zenon DEF SessionTypes
  <2>6. outstanding' \in BOOLEAN /\ reading' = IF outstanding' THEN 1 ELSE 0
    BY <1>1, <2>1, Zenon DEF SessionTypes
  <2>7. /\ deferred' \in Seq(Nat)
        /\ \A i \in 1..Len(deferred') : deferred'[i] \in 1..read /\ Asks(deferred'[i]) \in Beats
    BY <1>1, <2>1 DEF SessionTypes
  <2>8. /\ live = 0 /\ live' = 1 /\ history' \subseteq 1..read /\ talk' \subseteq 1..read
        /\ handled \subseteq handled' /\ handled' \subseteq 1..read /\ history' \subseteq talk'
        /\ history' \cup talk' \subseteq handled' /\ \A k \in history' : Asks(k) # "fresh"
    BY <1>1, <2>1 DEF SessionTypes, FrameTrue
  <2>9. /\ frame'.for \in {"work", "timer", "prompt", "restart"} \cup Beats
        /\ frame'.for \notin Beats /\ frame'.for # "fresh"
    BY <2>2 DEF Beats
  <2>. QED
    BY <1>1, <2>1, <2>2, <2>3, <2>4, <2>5, <2>6, <2>7, <2>8, <2>9, RunBegins
<1>3. CASE ~(WorkNext /\ tasks > 0)
  <2>1. /\ workMode' = FALSE
        /\ UNCHANGED <<lines, read, held, inputCh, pc, tasks, deferred, frame, live, spoken, history, talk, handled, told>>
        /\ UNCHANGED <<outstanding, reading>> \/ Start
    BY <1>3 DEF WorkNext, WorkTimeout, readerVars
  <2>2. outstanding' \in BOOLEAN /\ reading' = IF outstanding' THEN 1 ELSE 0
    <3>1. CASE Start
      BY <1>1, <3>1, StartStep
    <3>2. CASE UNCHANGED <<outstanding, reading>>
      BY <1>1, <3>2, Zenon DEF SessionTypes
    <3>. QED
      BY <2>1, <3>1, <3>2
  <2>3. SessionTypes'
    BY <1>1, <2>1, <2>2, Zenon DEF SessionTypes, Asks
  <2>4. LinesApart'
    BY <1>1, <2>1 DEF LinesApart, OnChannel
  <2>5. FrameTrue'
    BY <1>1, <2>1 DEF FrameTrue, Asks
  <2>6. NeverDeaf'
    <3>1. CASE Start
      <4>1. reading' = 1
        BY <1>1, <3>1, StartStep
      <4>. QED
        BY <4>1 DEF NeverDeaf
    <3>2. CASE UNCHANGED <<outstanding, reading>>
      BY <1>1, <2>1, <3>2 DEF NeverDeaf
    <3>. QED
      BY <2>1, <3>1, <3>2
  <2>. QED
    BY <2>3, <2>4, <2>5, <2>6 DEF SessionInvariant
<1>. QED
  BY <1>2, <1>3

LEMMA SessionTimer ==
    ASSUME SessionAssumption, SessionInvariant, TimerFires PROVE SessionInvariant'
<1>1. SessionTypes /\ LinesApart /\ FrameTrue /\ NeverDeaf /\ pc = "top" /\ live = 0 /\ spoken = NoLine
  BY AtTheTop DEF SessionInvariant, TimerFires, Waits
<1>2. /\ pc' = "run" /\ live' = live + 1 /\ frame' = [for |-> "timer", line |-> NoLine] /\ talk' = history
      /\ Start /\ workMode' \in {FALSE, tasks > 0}
      /\ UNCHANGED <<lines, read, held, inputCh, tasks, deferred, spoken, history, handled, told>>
  BY DEF TimerFires, Runs, readerVars
<1>3. frame'.for = "timer" /\ frame'.line = 0 /\ 0 \in 0..read
  BY <1>1, <1>2 DEF NoLine, SessionTypes
<1>4. LinesApart'
  BY <1>1, <1>2 DEF LinesApart, OnChannel
<1>5. outstanding' = TRUE /\ reading' = 1
  BY <1>1, <1>2, StartStep
<1>6. NeverDeaf'
  BY <1>5 DEF NeverDeaf
<1>7. inputCh' \in Seq(Nat) /\ Len(inputCh') <= 1 /\ (Len(inputCh') = 1 => inputCh'[1] \in 1..read)
  BY <1>1, <1>2, Zenon DEF SessionTypes
<1>8. outstanding' \in BOOLEAN /\ reading' = (IF outstanding' THEN 1 ELSE 0) /\ workMode' \in BOOLEAN
  <2>1. workMode' \in BOOLEAN
    <3>1. (tasks > 0) \in BOOLEAN
      OBVIOUS
    <3>2. workMode' = FALSE \/ workMode' = (tasks > 0)
      BY <1>2, Zenon
    <3>. QED
      BY <3>1, <3>2, Zenon
  <2>. QED
    BY <1>5, <2>1
<1>9. /\ deferred' \in Seq(Nat)
      /\ \A i \in 1..Len(deferred') : deferred'[i] \in 1..read /\ Asks(deferred'[i]) \in Beats
  BY <1>1, <1>2 DEF SessionTypes
<1>10. /\ live = 0 /\ live' = 1 /\ history' \subseteq 1..read /\ talk' \subseteq 1..read
       /\ handled \subseteq handled' /\ handled' \subseteq 1..read /\ history' \subseteq talk'
       /\ history' \cup talk' \subseteq handled' /\ \A k \in history' : Asks(k) # "fresh"
  BY <1>1, <1>2 DEF SessionTypes, FrameTrue
<1>11. /\ frame'.for \in {"work", "timer", "prompt", "restart"} \cup Beats
       /\ frame'.for \notin Beats /\ frame'.for # "fresh"
  BY <1>3 DEF Beats
<1>. QED
  BY <1>1, <1>2, <1>3, <1>4, <1>6, <1>7, <1>8, <1>9, <1>10, <1>11, RunBegins

LEMMA SessionResumes ==
    ASSUME SessionAssumption, SessionInvariant, Resume PROVE SessionInvariant'
<1>1. SessionTypes /\ LinesApart /\ FrameTrue /\ pc = "drain" /\ live = 0 /\ spoken # NoLine
  BY DEF SessionInvariant, Resume, Drained, SessionTypes
<1>2. /\ pc' = "run" /\ live' = live + 1 /\ frame' = [for |-> frame.for, line |-> frame.line]
      /\ talk' = talk \cup {spoken} /\ Start /\ spoken' = NoLine /\ handled' = handled \cup {spoken}
      /\ UNCHANGED <<lines, read, held, inputCh, workMode, tasks, deferred, history, told>>
  BY DEF Resume, Runs, readerVars
<1>3. frame'.for = frame.for /\ frame'.line = frame.line /\ frame.line \in 0..read /\ spoken \in 1..read
  BY <1>1, <1>2 DEF NoLine, SessionTypes
<1>4. LinesApart'
  <2>1. \A k : OnChannel(k)' <=> OnChannel(k)
    BY <1>2 DEF OnChannel
  <2>2. \A k \in 1..read : k # 0
    OBVIOUS
  <2>. QED
    BY <1>1, <1>2, <1>3, <2>1, <2>2 DEF LinesApart, NoLine
<1>5. outstanding' = TRUE /\ reading' = 1
  BY <1>1, <1>2, StartStep
<1>6. NeverDeaf'
  BY <1>5 DEF NeverDeaf
<1>7. /\ inputCh' \in Seq(Nat) /\ Len(inputCh') <= 1 /\ (Len(inputCh') = 1 => inputCh'[1] \in 1..read)
      /\ workMode' \in BOOLEAN
  BY <1>1, <1>2, Zenon DEF SessionTypes
<1>8. outstanding' \in BOOLEAN /\ reading' = (IF outstanding' THEN 1 ELSE 0)
  BY <1>2, <1>5
<1>9. /\ deferred' \in Seq(Nat)
      /\ \A i \in 1..Len(deferred') : deferred'[i] \in 1..read /\ Asks(deferred'[i]) \in Beats
  BY <1>1, <1>2 DEF SessionTypes
<1>10. /\ live = 0 /\ live' = 1 /\ history' \subseteq 1..read /\ talk' \subseteq 1..read
       /\ handled \subseteq handled' /\ handled' \subseteq 1..read
       /\ history' \cup talk' \subseteq handled' /\ \A k \in history' : Asks(k) # "fresh"
  BY <1>1, <1>2, <1>3 DEF SessionTypes, FrameTrue
<1>11. /\ frame'.for \in {"work", "timer", "prompt", "restart"} \cup Beats
       /\ frame'.for \in Beats => frame'.line \in handled' /\ Asks(frame'.line) = frame'.for /\ told[frame'.line] = {}
       /\ \A k \in talk' : Asks(k) = "fresh" => frame'.for = "fresh"
       /\ frame'.for # "fresh" => history' \subseteq talk'
       /\ frame'.for = "fresh" => talk' \cap history' = {}
  <2>1. frame.for # "none" /\ spoken \notin history
    BY <1>1, <1>3 DEF FrameTrue, LinesApart
  <2>2. frame.for \in {"work", "timer", "prompt", "restart"} \cup Beats
    BY <1>1, <2>1 DEF SessionTypes
  <2>. QED
    BY <1>1, <1>2, <1>3, <2>1, <2>2 DEF FrameTrue
<1>. QED
  BY <1>1, <1>2, <1>3, <1>4, <1>6, <1>7, <1>8, <1>9, <1>10, <1>11, RunBegins

LEMMA LineHandled ==
    ASSUME SessionAssumption, SessionInvariant, inputCh # <<>>, inputCh' = <<>>, handled' = handled \cup {Head(inputCh)},
           UNCHANGED <<read, held, deferred, spoken>>
    PROVE  LinesApart'
<1>1. SessionTypes /\ LinesApart
  BY DEF SessionInvariant
<1>2. PICK l : l = Head(inputCh)
  OBVIOUS
<1>3. l \in 1..read /\ (\A k : OnChannel(k) <=> k = l) /\ (\A k : ~OnChannel(k)')
  BY <1>1, <1>2, LineTaken
<1>. QED
  BY <1>1, <1>2, <1>3 DEF LinesApart

LEMMA SessionTakesLine ==
    ASSUME SessionAssumption, SessionInvariant, TakeLine PROVE SessionInvariant'
<1>. DEFINE l == Head(inputCh)
<1>1. /\ SessionTypes /\ LinesApart /\ FrameTrue /\ NeverDeaf /\ pc = "top" /\ live = 0 /\ spoken = NoLine
      /\ history \subseteq 1..read /\ history \subseteq handled /\ \A k \in history : Asks(k) # "fresh"
  BY AtTheTop DEF SessionInvariant, TakeLine, Waits
<1>2. /\ inputCh # <<>> /\ inputCh' = <<>>
      /\ UNCHANGED <<lines, read, held, tasks, deferred, spoken, told>>
  BY DEF TakeLine, readerVars
<1>3. l \in 1..read /\ Len(inputCh') = 0 /\ inputCh' \in Seq(Nat) /\ (\A k : OnChannel(k) <=> k = l)
  BY <1>1, <1>2, LineTaken
<1>4. handled' = handled \cup {l}
  BY DEF TakeLine, RunsBeat
<1>5. LinesApart'
  BY <1>2, <1>4, LineHandled
<1>6. l \notin handled
  BY <1>1, <1>3 DEF LinesApart
<1>7. told[l] = {}
  BY <1>3, <1>6, NotYetTold
<1>8. handled \subseteq handled' /\ handled' \subseteq 1..read
  BY <1>1, <1>3, <1>4 DEF SessionTypes
<1>9. CASE Handled(l) /\ Start /\ UNCHANGED <<pc, live, frame, talk>>
  <2>1. outstanding' = TRUE /\ reading' = 1
    BY <1>1, <1>9, StartStep
  <2>2. history' \subseteq history /\ workMode' = workMode
    BY <1>9 DEF Handled
  <2>3. outstanding' \in BOOLEAN /\ reading' = (IF outstanding' THEN 1 ELSE 0) /\ workMode' \in BOOLEAN
    <3>1. workMode \in BOOLEAN
      BY <1>1, Zenon DEF SessionTypes
    <3>. QED
      BY <2>1, <2>2, <3>1
  <2>. HIDE DEF l
  <2>4. SessionTypes'
    <3>1. history' \subseteq 1..read /\ Len(inputCh') <= 1 /\ Len(inputCh') # 1
      BY <1>1, <1>3, <2>2
    <3>. QED
      BY <1>1, <1>2, <1>3, <1>8, <1>9, <2>3, <3>1 DEF SessionTypes, Asks
  <2>5. FrameTrue'
    BY <1>1, <1>2, <1>4, <1>9, <2>2 DEF FrameTrue, Asks
  <2>6. NeverDeaf'
    BY <2>1 DEF NeverDeaf
  <2>. QED
    BY <1>5, <2>4, <2>5, <2>6 DEF SessionInvariant
<1>10. ASSUME NEW h, NEW c, NEW for \in {"prompt", "restart"} \cup Beats,
              Start, pc' = "run", live' = live + 1, frame' = [for |-> for, line |-> l], talk' = c,
              history' = h, h \subseteq history \cup {l}, c \subseteq history \cup {l},
              l \in h => Asks(l) # "fresh", l \in c /\ Asks(l) = "fresh" => for = "fresh", for # "fresh" => h \subseteq c,
              for \in Beats => Asks(l) = for, for = "fresh" => c = {l}, workMode' \in BOOLEAN
       PROVE  SessionInvariant'
  <2>. HIDE DEF l
  <2>1. outstanding' = TRUE /\ reading' = 1
    BY <1>1, <1>10, StartStep
  <2>2. NeverDeaf'
    BY <2>1 DEF NeverDeaf
  <2>3. outstanding' \in BOOLEAN /\ reading' = (IF outstanding' THEN 1 ELSE 0)
    BY <2>1
  <2>4. frame'.for = for /\ frame'.line = l /\ l \in 0..read
    BY <1>1, <1>3, <1>10 DEF SessionTypes
  <2>5. /\ live = 0 /\ live' = 1 /\ history' \subseteq 1..read /\ talk' \subseteq 1..read
        /\ \A k \in history' : Asks(k) # "fresh"
        /\ \A k \in talk' : Asks(k) = "fresh" => frame'.for = "fresh"
        /\ frame'.for # "fresh" => history' \subseteq talk'
        /\ history' \cup talk' \subseteq handled'
        /\ frame'.for = "fresh" => talk' \cap history' = {}
    BY <1>1, <1>3, <1>4, <1>10, <2>4 DEF Beats
  <2>6. /\ deferred' \in Seq(Nat)
        /\ \A i \in 1..Len(deferred') : deferred'[i] \in 1..read /\ Asks(deferred'[i]) \in Beats
    BY <1>1, <1>2 DEF SessionTypes
  <2>7. /\ frame'.for \in {"work", "timer", "prompt", "restart"} \cup Beats /\ frame'.line \in 0..read
        /\ frame'.for \in Beats => frame'.line \in handled' /\ Asks(frame'.line) = frame'.for /\ told[frame'.line] = {}
    BY <1>4, <1>7, <1>10, <2>4
  <2>8. Len(inputCh') <= 1 /\ Len(inputCh') # 1
    BY <1>3
  <2>. QED
    BY <1>1, <1>2, <1>3, <1>5, <1>8, <1>10, <2>2, <2>3, <2>5, <2>6, <2>7, <2>8, RunBegins
<1>11. CASE RunsLine(l) /\ Start
  <2>0. workMode \in BOOLEAN
    BY <1>1, Zenon DEF SessionTypes
  <2>1. CASE Asks(l) = "prompt" /\ Runs("prompt", l, history \cup {l}) /\ UNCHANGED <<history, workMode>>
    <3>1. Asks(l) # "fresh" /\ "prompt" \notin Beats
      BY <2>1 DEF Beats
    <3>. HIDE DEF l
    <3>. QED
      BY <1>10, <1>11, <2>0, <2>1, <3>1 DEF Runs
  <2>2. CASE Asks(l) = "worktasks" /\ workMode' = TRUE /\ Runs("prompt", l, history \cup {l}) /\ UNCHANGED history
    <3>1. Asks(l) # "fresh" /\ "prompt" \notin Beats /\ workMode' \in BOOLEAN
      BY <2>2 DEF Beats
    <3>. HIDE DEF l
    <3>. QED
      BY <1>10, <1>11, <2>2, <3>1 DEF Runs
  <2>3. CASE /\ Asks(l) = "restart" /\ history' = history \cup {l} /\ Runs("restart", l, history')
             /\ UNCHANGED workMode
    <3>1. Asks(l) # "fresh" /\ "restart" \notin Beats
      BY <2>3 DEF Beats
    <3>. HIDE DEF l
    <3>. QED
      BY <1>10, <1>11, <2>0, <2>3, <3>1 DEF Runs
  <2>. QED
    BY <1>11, <2>1, <2>2, <2>3 DEF RunsLine
<1>12. CASE Asks(l) \in Beats /\ RunsBeat(l) /\ UNCHANGED <<history, workMode>>
  <2>0. workMode \in BOOLEAN
    BY <1>1, Zenon DEF SessionTypes
  <2>1. CASE Asks(l) = "fresh"
    <3>1. /\ Start /\ pc' = "run" /\ live' = live + 1 /\ frame' = [for |-> Asks(l), line |-> l] /\ talk' = {l}
      BY <1>12, <2>1 DEF RunsBeat, Runs
    <3>2. l \notin history /\ Asks(l) \in {"prompt", "restart"} \cup Beats
      BY <1>1, <1>12, <2>1
    <3>. HIDE DEF l
    <3>. QED
      BY <1>10, <1>12, <2>0, <2>1, <3>1, <3>2
  <2>2. CASE Asks(l) # "fresh"
    <3>1. /\ Start /\ pc' = "run" /\ live' = live + 1 /\ frame' = [for |-> Asks(l), line |-> l] /\ talk' = history \cup {l}
      BY <1>12, <2>2 DEF RunsBeat, Runs
    <3>2. Asks(l) \in {"prompt", "restart"} \cup Beats
      BY <1>12
    <3>. HIDE DEF l
    <3>. QED
      BY <1>10, <1>12, <2>0, <2>2, <3>1, <3>2
  <2>. QED
    BY <2>1, <2>2
<1>13. CASE pc' = "over" /\ UNCHANGED <<outstanding, reading, live, frame, talk, history, workMode>>
  <2>. HIDE DEF l
  <2>1. SessionTypes'
    <3>1. /\ Len(inputCh') <= 1 /\ Len(inputCh') # 1 /\ pc' # "drain" /\ live' = 0
          /\ pc' \in {"top", "run", "drain", "report", "over"}
      BY <1>1, <1>3, <1>13
    <3>2. outstanding' \in BOOLEAN /\ workMode' \in BOOLEAN /\ reading' = IF outstanding' THEN 1 ELSE 0
      BY <1>1, <1>13, Zenon DEF SessionTypes
    <3>. QED
      BY <1>1, <1>2, <1>3, <1>8, <1>13, <3>1, <3>2 DEF SessionTypes, Asks
  <2>2. FrameTrue'
    BY <1>1, <1>2, <1>4, <1>13 DEF FrameTrue, Asks
  <2>3. NeverDeaf'
    BY <1>13 DEF NeverDeaf
  <2>. QED
    BY <1>5, <2>1, <2>2, <2>3 DEF SessionInvariant
<1>. QED
  BY <1>9, <1>11, <1>12, <1>13 DEF TakeLine

LEMMA SessionTakesBusyLine ==
    ASSUME SessionAssumption, SessionInvariant, BusyLine PROVE SessionInvariant'
<1>. DEFINE l == Head(inputCh)
<1>1. SessionTypes /\ LinesApart /\ FrameTrue /\ NeverDeaf /\ pc = "run" /\ spoken = NoLine
  BY DEF SessionInvariant, BusyLine, SessionTypes
<1>2. /\ inputCh # <<>> /\ inputCh' = <<>>
      /\ UNCHANGED <<lines, read, held, workMode, tasks, frame, live, history, talk, told>>
  BY DEF BusyLine, readerVars
<1>3. /\ l \in 1..read /\ Len(inputCh') = 0 /\ inputCh' \in Seq(Nat)
      /\ (\A k : OnChannel(k) <=> k = l) /\ (\A k : ~OnChannel(k)')
  BY <1>1, <1>2, LineTaken
<1>4. l \notin handled /\ l \notin Range(deferred) /\ l \notin held /\ l # 0
  BY <1>1, <1>3 DEF LinesApart
<1>5. Len(inputCh') <= 1 /\ Len(inputCh') # 1
  BY <1>3
<1>6. workMode' \in BOOLEAN
  BY <1>1, <1>2, Zenon DEF SessionTypes
<1>7. CASE Defer(l) /\ UNCHANGED <<pc, spoken>>
  <2>1. Asks(l) \in Beats /\ deferred' = Append(deferred, l) /\ Start /\ handled' = handled
    BY <1>7 DEF Defer
  <2>2. outstanding' = TRUE /\ reading' = 1
    BY <1>1, <2>1, StartStep
  <2>. HIDE DEF l
  <2>3. /\ deferred' \in Seq(Nat) /\ Len(deferred') = Len(deferred) + 1 /\ deferred'[Len(deferred) + 1] = l
        /\ \A i \in 1..Len(deferred) : deferred'[i] = deferred[i]
        /\ Range(deferred') = Range(deferred) \cup {l} /\ Len(deferred) \in Nat
        /\ DOMAIN deferred = 1..Len(deferred)
    <3>1. deferred \in Seq(Nat) /\ l \in Nat
      BY <1>1, <1>3 DEF SessionTypes
    <3>. QED
      BY <2>1, <3>1, DeferredMore
  <2>4. \A i \in 1..Len(deferred') : i \in 1..Len(deferred) \/ i = Len(deferred) + 1
    BY <2>3
  <2>5. SessionTypes'
    <3>1. \A i \in 1..Len(deferred') : deferred'[i] \in 1..read /\ Asks(deferred'[i]) \in Beats
      BY <1>1, <1>3, <2>1, <2>3, <2>4 DEF SessionTypes
    <3>2. outstanding' \in BOOLEAN /\ reading' = IF outstanding' THEN 1 ELSE 0
      BY <2>2
    <3>. QED
      BY <1>1, <1>2, <1>3, <1>5, <1>6, <1>7, <2>1, <2>3, <3>1, <3>2 DEF SessionTypes, Asks
  <2>6. LinesApart'
    <3>1. \A i, j \in 1..Len(deferred') : deferred'[i] = deferred'[j] => i = j
      <4>1. \A i \in 1..Len(deferred) : deferred'[i] # l
        BY <1>4, <2>3 DEF Range
      <4>. QED
        BY <1>1, <2>3, <2>4, <4>1 DEF LinesApart
    <3>. QED
      BY <1>1, <1>2, <1>3, <1>4, <1>7, <2>1, <2>3, <3>1 DEF LinesApart, NoLine
  <2>7. FrameTrue'
    BY <1>1, <1>2, <1>7, <2>1 DEF FrameTrue, Asks
  <2>8. NeverDeaf'
    BY <2>2 DEF NeverDeaf
  <2>. QED
    BY <2>5, <2>6, <2>7, <2>8 DEF SessionInvariant
<1>8. CASE Ignore(l) /\ UNCHANGED <<pc, spoken>>
  <2>1. Start /\ handled' = handled \cup {l} /\ deferred' = deferred
    BY <1>8 DEF Ignore
  <2>2. outstanding' = TRUE /\ reading' = 1
    BY <1>1, <2>1, StartStep
  <2>3. LinesApart'
    BY <1>2, <1>8, <2>1, LineHandled
  <2>. HIDE DEF l
  <2>4. SessionTypes'
    <3>1. handled' \subseteq 1..read
      BY <1>1, <1>3, <2>1 DEF SessionTypes
    <3>2. outstanding' \in BOOLEAN /\ reading' = IF outstanding' THEN 1 ELSE 0
      BY <2>2
    <3>. QED
      BY <1>1, <1>2, <1>3, <1>5, <1>6, <1>8, <2>1, <3>1, <3>2 DEF SessionTypes, Asks
  <2>5. FrameTrue'
    BY <1>1, <1>2, <1>8, <2>1 DEF FrameTrue, Asks
  <2>6. NeverDeaf'
    BY <2>2 DEF NeverDeaf
  <2>. QED
    BY <2>3, <2>4, <2>5, <2>6 DEF SessionInvariant
<1>9. CASE Interject(l)
  <2>1. /\ pc' = "drain" /\ spoken' = l /\ Asks(l) # "fresh"
        /\ UNCHANGED <<handled, deferred, outstanding, reading>>
    BY <1>9 DEF Interject, Commands
  <2>. HIDE DEF l
  <2>2. SessionTypes'
    <3>1. outstanding' \in BOOLEAN /\ reading' = IF outstanding' THEN 1 ELSE 0
      BY <1>1, <2>1, Zenon DEF SessionTypes
    <3>2. spoken' \in 0..read /\ spoken' # NoLine /\ pc' \in {"top", "run", "drain", "report", "over"}
      BY <1>1, <1>3, <1>4, <2>1 DEF SessionTypes, NoLine
    <3>. QED
      BY <1>1, <1>2, <1>3, <1>5, <1>6, <2>1, <3>1, <3>2 DEF SessionTypes, Asks, NoLine
  <2>3. LinesApart'
    <3>1. \A k \in 1..read : k # 0
      OBVIOUS
    <3>. QED
      BY <1>1, <1>2, <1>3, <1>4, <2>1, <3>1 DEF LinesApart, NoLine
  <2>4. FrameTrue'
    BY <1>1, <1>2, <2>1 DEF FrameTrue, Asks
  <2>5. NeverDeaf'
    BY <2>1 DEF NeverDeaf
  <2>. QED
    BY <2>2, <2>3, <2>4, <2>5 DEF SessionInvariant
<1>10. CASE Die(l)
  <2>1. /\ pc' = "over" /\ handled' = handled \cup {l}
        /\ UNCHANGED <<spoken, deferred, outstanding, reading>>
    BY <1>10 DEF Die
  <2>2. LinesApart'
    BY <1>2, <2>1, LineHandled
  <2>. HIDE DEF l
  <2>3. SessionTypes'
    <3>1. outstanding' \in BOOLEAN /\ reading' = IF outstanding' THEN 1 ELSE 0
      BY <1>1, <2>1, Zenon DEF SessionTypes
    <3>2. handled' \subseteq 1..read /\ pc' \in {"top", "run", "drain", "report", "over"} /\ pc' # "drain"
      BY <1>1, <1>3, <2>1 DEF SessionTypes
    <3>. QED
      BY <1>1, <1>2, <1>3, <1>5, <1>6, <2>1, <3>1, <3>2 DEF SessionTypes, Asks
  <2>4. FrameTrue'
    BY <1>1, <1>2, <2>1 DEF FrameTrue, Asks
  <2>5. NeverDeaf'
    BY <2>1 DEF NeverDeaf
  <2>. QED
    BY <2>2, <2>3, <2>4, <2>5 DEF SessionInvariant
<1>. QED
  BY <1>7, <1>8, <1>9, <1>10 DEF BusyLine

LEMMA SessionRunEnds ==
    ASSUME SessionAssumption, SessionInvariant, LoopCloses \/ RunOver PROVE SessionInvariant'
<1>1. SessionTypes /\ LinesApart /\ FrameTrue /\ NeverDeaf
  BY DEF SessionInvariant
<1>2. UNCHANGED <<lines, read, held, outstanding, reading, inputCh, workMode, deferred, spoken, handled, told>>
  BY DEF LoopCloses, RunOver, readerVars
<1>3. /\ outstanding' \in BOOLEAN /\ workMode' \in BOOLEAN /\ reading' = IF outstanding' THEN 1 ELSE 0
  BY <1>1, <1>2, Zenon DEF SessionTypes
<1>4. LinesApart'
  BY <1>1, <1>2 DEF LinesApart, OnChannel
<1>5. CASE LoopCloses
  <2>1. /\ live = 1 /\ live' = 0 /\ tasks' \in 0..MaxTasks /\ UNCHANGED <<pc, frame, history, talk>>
    BY <1>1, <1>5 DEF LoopCloses, SessionTypes
  <2>2. SessionTypes'
    BY <1>1, <1>2, <1>3, <2>1 DEF SessionTypes, Asks
  <2>3. FrameTrue'
    BY <1>1, <1>2, <2>1 DEF FrameTrue, Asks
  <2>4. NeverDeaf'
    BY <1>1, <1>2, <2>1 DEF NeverDeaf
  <2>. QED
    BY <1>4, <2>2, <2>3, <2>4 DEF SessionInvariant
<1>6. CASE RunOver
  <2>1. /\ pc = "run" /\ live = 0 /\ history' = Kept /\ talk' = {} /\ UNCHANGED <<tasks, live>>
        /\ \/ frame.for \in {"job", "fresh"} /\ pc' = "report" /\ frame' = frame
           \/ frame.for \notin {"job", "fresh"} /\ pc' = "top" /\ frame' = NoFrame
    BY <1>6 DEF RunOver
  <2>2. history' \subseteq 1..read /\ history' \subseteq handled /\ \A k \in history' : Asks(k) # "fresh"
    <3>1. CASE frame.for = "restart"
      BY <2>1, <3>1 DEF Kept
    <3>2. CASE frame.for = "fresh"
      BY <1>1, <2>1, <3>2 DEF Kept, SessionTypes, FrameTrue
    <3>3. CASE frame.for \notin {"restart", "fresh"}
      BY <1>1, <2>1, <3>3 DEF Kept, SessionTypes, FrameTrue
    <3>. QED
      BY <3>1, <3>2, <3>3
  <2>3. NoFrame.for = "none" /\ NoFrame.line = 0
    BY DEF NoFrame, NoLine
  <2>4. /\ frame'.for \in {"none", "work", "timer", "prompt", "restart"} \cup Beats /\ frame'.line \in 0..read
        /\ pc' = "report" => frame'.for \in {"job", "fresh"} /\ frame' = frame
        /\ pc' \in {"top", "report"}
    BY <1>1, <2>1, <2>3 DEF SessionTypes
  <2>5. SessionTypes'
    <3>1. pc' \in {"top", "run", "drain", "report", "over"} /\ pc' # "drain" /\ pc # "drain"
      BY <2>1, <2>4
    <3>. QED
      BY <1>1, <1>2, <1>3, <2>1, <2>2, <2>4, <3>1 DEF SessionTypes, Asks
  <2>6. FrameTrue'
    BY <1>1, <1>2, <2>1, <2>2, <2>4 DEF FrameTrue, Asks
  <2>7. NeverDeaf'
    BY <1>1, <1>2, <2>1 DEF NeverDeaf
  <2>. QED
    BY <1>4, <2>5, <2>6, <2>7 DEF SessionInvariant
<1>. QED
  BY <1>5, <1>6

LEMMA SessionReports ==
    ASSUME SessionAssumption, SessionInvariant, NEW outcome \in {"reported", "lost"}, Report(outcome)
    PROVE  SessionInvariant'
<1>1. SessionTypes /\ LinesApart /\ FrameTrue /\ NeverDeaf
  BY DEF SessionInvariant
<1>2. /\ pc = "report" /\ pc' = "top" /\ frame' = NoFrame
      /\ told' = [told EXCEPT ![frame.line] = @ \cup {outcome}]
      /\ UNCHANGED <<lines, read, held, outstanding, reading, inputCh, workMode, tasks, deferred, live, spoken,
                     history, talk, handled>>
  BY DEF Report, readerVars
<1>3. /\ frame.line \in handled /\ told[frame.line] = {} /\ frame.line \in 1..MaxLines
  <2>1. frame.for \in Beats
    BY <1>1, <1>2 DEF FrameTrue, Beats
  <2>2. frame.line \in handled /\ told[frame.line] = {}
    BY <1>1, <1>2, <2>1 DEF FrameTrue
  <2>3. frame.line \in 1..read /\ read <= MaxLines /\ MaxLines \in Nat /\ read \in Nat
    BY <1>1, <2>2 DEF SessionTypes, SessionAssumption
  <2>. QED
    BY <2>2, <2>3
<1>4. told' \in [1..MaxLines -> SUBSET {"reported", "lost"}] /\ told'[frame.line] = {outcome}
      /\ \A k \in 1..MaxLines : k # frame.line => told'[k] = told[k]
  BY <1>1, <1>2, <1>3 DEF SessionTypes
<1>5. NoFrame.for = "none" /\ NoFrame.line = 0 /\ 0 \in 0..read
  BY <1>1 DEF NoFrame, NoLine, SessionTypes
<1>6. SessionTypes'
  <2>1. outstanding' \in BOOLEAN /\ workMode' \in BOOLEAN /\ reading' = IF outstanding' THEN 1 ELSE 0
    BY <1>1, <1>2, Zenon DEF SessionTypes
  <2>. QED
    BY <1>1, <1>2, <1>4, <1>5, <2>1 DEF SessionTypes, Asks
<1>7. LinesApart'
  BY <1>1, <1>2 DEF LinesApart, OnChannel
<1>8. FrameTrue'
  BY <1>1, <1>2, <1>3, <1>4, <1>5 DEF FrameTrue, Asks
<1>9. NeverDeaf'
  BY <1>1, <1>2 DEF NeverDeaf
<1>. QED
  BY <1>6, <1>7, <1>8, <1>9 DEF SessionInvariant

LEMMA SessionInvariantNext ==
    ASSUME SessionAssumption, SessionInvariant, [SessionNext]_sessionVars PROVE SessionInvariant'
<1>1. CASE ReadReturns
  BY <1>1, SessionReads
<1>2. CASE \E l \in Lines : Delivers(l)
  BY <1>2, SessionDelivers
<1>3. CASE TakeLine \/ BusyLine
  BY <1>3, SessionTakesLine, SessionTakesBusyLine
<1>4. CASE TimerFires \/ WorkTimeout \/ LoopCloses
  BY <1>4, SessionTimer, SessionWorks, SessionRunEnds
<1>5. CASE Goes
  BY <1>5, SessionTakesDeferred, SessionWorks, SessionResumes, SessionRunEnds, SessionReports DEF Goes
<1>6. CASE UNCHANGED sessionVars
  <2>1. UNCHANGED <<lines, read, outstanding, reading, held, inputCh, pc, workMode, tasks, deferred, frame, live,
                    spoken, history, talk, handled, told>>
    BY <1>6 DEF sessionVars
  <2>2. SessionTypes /\ LinesApart /\ FrameTrue /\ NeverDeaf
    BY DEF SessionInvariant
  <2>3. SessionTypes'
    BY <2>1, <2>2, Zenon DEF SessionTypes, Asks
  <2>4. LinesApart' /\ FrameTrue' /\ NeverDeaf'
    BY <2>1, <2>2 DEF LinesApart, FrameTrue, NeverDeaf, OnChannel, Asks
  <2>. QED
    BY <2>3, <2>4 DEF SessionInvariant
<1>. QED
  BY <1>1, <1>2, <1>3, <1>4, <1>5, <1>6 DEF SessionNext

-----------------------------------------------------------------------------
\* The tool loop.

\* An event, and a sequence of them; what it says of which call or text.
EventKinds == {"thinking", "error", "done", "text", "call", "result", "limit", "compaction"}
Events == [kind : EventKinds, turn : Nat, n : Nat]
Pair(t, n) == <<t, n>>
Id(e) == Pair(e.turn, e.n)
Sent(s, kind, k) == {Id(s[j]) : j \in {j \in 1..k : s[j].kind = kind}}

\* A sequence of events is in order after the calls, given and texts given.
InOrder(s, calls, given, texts) ==
    \A k \in 1..Len(s) :
        /\ s[k].kind = "result" =>
             Id(s[k]) \in calls \cup Sent(s, "call", k - 1) /\ Id(s[k]) \notin given \cup Sent(s, "result", k - 1)
        /\ s[k].kind \in {"thinking", "done"} =>
             calls \cup Sent(s, "call", k - 1) = given \cup Sent(s, "result", k - 1)
        /\ s[k].kind = "text" => Id(s[k]) \notin texts \cup Sent(s, "text", k - 1)

LEMMA PairsEqual == \A a, b, c, d : Pair(a, b) = Pair(c, d) <=> a = c /\ b = d
BY DEF Pair

LEMMA EventFields ==
    \A kind, t, n : Event(kind, t, n).kind = kind /\ Event(kind, t, n).turn = t /\ Event(kind, t, n).n = n
BY DEF Event

LEMMA SentConcat ==
    ASSUME NEW s \in Seq(Events), NEW t \in Seq(Events), NEW kind
    PROVE  /\ \A k \in 0..Len(s) : Sent(s \o t, kind, k) = Sent(s, kind, k)
           /\ \A k \in 0..Len(t) : Sent(s \o t, kind, Len(s) + k) = Sent(s, kind, Len(s)) \cup Sent(t, kind, k)
<1>1. /\ Len(s) \in Nat /\ Len(t) \in Nat
      /\ \A i \in 1..Len(s) : (s \o t)[i] = s[i]
      /\ \A i \in 1..Len(t) : (s \o t)[Len(s) + i] = t[i]
  <2>1. Len(s) \in Nat /\ Len(t) \in Nat
    BY LenProperties
  <2>2. \A i \in 1 .. Len(s) + Len(t) : (s \o t)[i] = IF i <= Len(s) THEN s[i] ELSE t[i - Len(s)]
    BY ConcatProperties
  <2>3. \A i \in 1..Len(t) : Len(s) + i \in 1 .. Len(s) + Len(t) /\ ~(Len(s) + i <= Len(s)) /\ (Len(s) + i) - Len(s) = i
    BY <2>1
  <2>. QED
    BY <2>1, <2>2, <2>3
<1>. DEFINE u == s \o t
<1>2. /\ \A i \in 1..Len(s) : u[i] = s[i]
      /\ \A i \in 1..Len(t) : u[Len(s) + i] = t[i]
  BY <1>1
<1>. HIDE DEF u
<1>3. ASSUME NEW k \in 0..Len(s) PROVE Sent(u, kind, k) = Sent(s, kind, k)
  <2>1. \A j \in 1..k : u[j] = s[j]
    BY <1>1, <1>2
  <2>. QED
    BY <2>1 DEF Sent
<1>4. ASSUME NEW k \in 0..Len(t) PROVE Sent(u, kind, Len(s) + k) = Sent(s, kind, Len(s)) \cup Sent(t, kind, k)
  <2>1. \A j \in 1..(Len(s) + k) :
            \/ j \in 1..Len(s) /\ u[j] = s[j]
            \/ j - Len(s) \in 1..k /\ u[j] = t[j - Len(s)]
    <3>. SUFFICES ASSUME NEW j \in 1..(Len(s) + k)
                  PROVE  \/ j \in 1..Len(s) /\ u[j] = s[j]
                         \/ j - Len(s) \in 1..k /\ u[j] = t[j - Len(s)]
      OBVIOUS
    <3>2. CASE j \in 1..Len(s)
      BY <1>2, <3>2
    <3>3. CASE j \notin 1..Len(s)
     <4>1. j - Len(s) \in 1..k /\ j - Len(s) \in 1..Len(t) /\ Len(s) + (j - Len(s)) = j
      BY <1>1, <3>3
     <4>. QED
      BY <1>2, <4>1
    <3>. QED
      BY <3>2, <3>3
  <2>2. \A j \in 1..Len(s) : j \in 1..(Len(s) + k) /\ u[j] = s[j]
    BY <1>1, <1>2
  <2>3. \A j \in 1..k : Len(s) + j \in 1..(Len(s) + k) /\ u[Len(s) + j] = t[j]
    BY <1>1, <1>2
  <2>. QED
    BY <2>1, <2>2, <2>3 DEF Sent
<1>. QED
  BY <1>3, <1>4 DEF u

LEMMA InOrderConcat ==
    ASSUME NEW s \in Seq(Events), NEW t \in Seq(Events), NEW calls, NEW given, NEW texts
    PROVE  InOrder(s \o t, calls, given, texts) <=>
             /\ InOrder(s, calls, given, texts)
             /\ InOrder(t, calls \cup Sent(s, "call", Len(s)), given \cup Sent(s, "result", Len(s)),
                        texts \cup Sent(s, "text", Len(s)))
<1>. DEFINE u == s \o t
            Good(x, k) ==
                /\ x[k].kind = "result" =>
                     Id(x[k]) \in calls \cup Sent(x, "call", k - 1) /\ Id(x[k]) \notin given \cup Sent(x, "result", k - 1)
                /\ x[k].kind \in {"thinking", "done"} =>
                     calls \cup Sent(x, "call", k - 1) = given \cup Sent(x, "result", k - 1)
                /\ x[k].kind = "text" => Id(x[k]) \notin texts \cup Sent(x, "text", k - 1)
<1>1. /\ Len(s) \in Nat /\ Len(t) \in Nat /\ Len(u) = Len(s) + Len(t)
      /\ \A i \in 1..Len(s) : u[i] = s[i]
      /\ \A i \in 1..Len(t) : u[Len(s) + i] = t[i]
  <2>1. Len(s) \in Nat /\ Len(t) \in Nat
    BY LenProperties
  <2>2. /\ Len(u) = Len(s) + Len(t)
        /\ \A i \in 1 .. Len(s) + Len(t) : u[i] = IF i <= Len(s) THEN s[i] ELSE t[i - Len(s)]
    BY ConcatProperties
  <2>3. \A i \in 1..Len(t) : Len(s) + i \in 1 .. Len(s) + Len(t) /\ ~(Len(s) + i <= Len(s)) /\ (Len(s) + i) - Len(s) = i
    BY <2>1
  <2>. QED
    BY <2>1, <2>2, <2>3
<1>2. \A kind : /\ \A k \in 0..Len(s) : Sent(u, kind, k) = Sent(s, kind, k)
                /\ \A k \in 0..Len(t) : Sent(u, kind, Len(s) + k) = Sent(s, kind, Len(s)) \cup Sent(t, kind, k)
  BY SentConcat
<1>. HIDE DEF u
<1>3. \A k \in 1..Len(s) : Good(u, k) <=> Good(s, k)
  <2>. SUFFICES ASSUME NEW k \in 1..Len(s) PROVE Good(u, k) <=> Good(s, k)
    OBVIOUS
  <2>1. k - 1 \in 0..Len(s) /\ u[k] = s[k]
    BY <1>1
  <2>2. /\ Sent(u, "call", k - 1) = Sent(s, "call", k - 1) /\ Sent(u, "result", k - 1) = Sent(s, "result", k - 1)
        /\ Sent(u, "text", k - 1) = Sent(s, "text", k - 1)
    BY <1>2, <2>1
  <2>. QED
    BY <2>1, <2>2
<1>4. \A k \in 1..Len(t) :
        Good(u, Len(s) + k) <=>
          /\ t[k].kind = "result" =>
               /\ Id(t[k]) \in (calls \cup Sent(s, "call", Len(s))) \cup Sent(t, "call", k - 1)
               /\ Id(t[k]) \notin (given \cup Sent(s, "result", Len(s))) \cup Sent(t, "result", k - 1)
          /\ t[k].kind \in {"thinking", "done"} =>
               (calls \cup Sent(s, "call", Len(s))) \cup Sent(t, "call", k - 1)
               = (given \cup Sent(s, "result", Len(s))) \cup Sent(t, "result", k - 1)
          /\ t[k].kind = "text" => Id(t[k]) \notin (texts \cup Sent(s, "text", Len(s))) \cup Sent(t, "text", k - 1)
  <2>. SUFFICES ASSUME NEW k \in 1..Len(t)
       PROVE Good(u, Len(s) + k) <=>
          /\ t[k].kind = "result" =>
               /\ Id(t[k]) \in (calls \cup Sent(s, "call", Len(s))) \cup Sent(t, "call", k - 1)
               /\ Id(t[k]) \notin (given \cup Sent(s, "result", Len(s))) \cup Sent(t, "result", k - 1)
          /\ t[k].kind \in {"thinking", "done"} =>
               (calls \cup Sent(s, "call", Len(s))) \cup Sent(t, "call", k - 1)
               = (given \cup Sent(s, "result", Len(s))) \cup Sent(t, "result", k - 1)
          /\ t[k].kind = "text" => Id(t[k]) \notin (texts \cup Sent(s, "text", Len(s))) \cup Sent(t, "text", k - 1)
    OBVIOUS
  <2>1. k - 1 \in 0..Len(t) /\ u[Len(s) + k] = t[k] /\ (Len(s) + k) - 1 = Len(s) + (k - 1)
    BY <1>1
  <2>2. /\ Sent(u, "call", (Len(s) + k) - 1) = Sent(s, "call", Len(s)) \cup Sent(t, "call", k - 1)
        /\ Sent(u, "result", (Len(s) + k) - 1) = Sent(s, "result", Len(s)) \cup Sent(t, "result", k - 1)
        /\ Sent(u, "text", (Len(s) + k) - 1) = Sent(s, "text", Len(s)) \cup Sent(t, "text", k - 1)
    BY <1>2, <2>1
  <2>. QED
    BY <2>1, <2>2
<1>5. InOrder(u, calls, given, texts) <=>
        (\A k \in 1..Len(s) : Good(u, k)) /\ (\A k \in 1..Len(t) : Good(u, Len(s) + k))
  <2>1. InOrder(u, calls, given, texts) <=> \A k \in 1..Len(u) : Good(u, k)
    BY DEF InOrder
  <2>. HIDE DEF Good
  <2>2. \A k \in 1..Len(u) : k \in 1..Len(s) \/ (k - Len(s) \in 1..Len(t) /\ Len(s) + (k - Len(s)) = k)
    BY <1>1
  <2>3. (\A k \in 1..Len(s) : k \in 1..Len(u)) /\ (\A k \in 1..Len(t) : Len(s) + k \in 1..Len(u))
    BY <1>1
  <2>4. (\A k \in 1..Len(t) : Good(u, Len(s) + k)) =>
          \A k \in 1..Len(u) : k - Len(s) \in 1..Len(t) /\ Len(s) + (k - Len(s)) = k => Good(u, k)
    <3>. SUFFICES ASSUME \A k \in 1..Len(t) : Good(u, Len(s) + k), NEW k \in 1..Len(u),
                         NEW j \in 1..Len(t), j = k - Len(s), Len(s) + j = k
                  PROVE  Good(u, k)
      OBVIOUS
    <3>. QED
      OBVIOUS
  <2>. QED
    BY <2>1, <2>2, <2>3, <2>4
<1>6. InOrder(s, calls, given, texts) <=> \A k \in 1..Len(s) : Good(s, k)
  BY DEF InOrder
<1>7. InOrder(t, calls \cup Sent(s, "call", Len(s)), given \cup Sent(s, "result", Len(s)),
              texts \cup Sent(s, "text", Len(s)))
      <=> \A k \in 1..Len(t) : Good(u, Len(s) + k)
  <2>. HIDE DEF Good
  <2>. QED
    BY <1>4 DEF InOrder
<1>8. InOrder(u, calls, given, texts) <=>
             /\ InOrder(s, calls, given, texts)
             /\ InOrder(t, calls \cup Sent(s, "call", Len(s)), given \cup Sent(s, "result", Len(s)),
                        texts \cup Sent(s, "text", Len(s)))
  <2>. HIDE DEF Good
  <2>. QED
    BY <1>3, <1>5, <1>6, <1>7
<1>. QED
  BY <1>8 DEF u

LEMMA SentOfBoth ==
    \A s, t \in Seq(Events) : \A kind :
        Sent(s \o t, kind, Len(s) + Len(t)) = Sent(s, kind, Len(s)) \cup Sent(t, kind, Len(t))
<1>. SUFFICES ASSUME NEW s \in Seq(Events), NEW t \in Seq(Events), NEW kind
     PROVE  Sent(s \o t, kind, Len(s) + Len(t)) = Sent(s, kind, Len(s)) \cup Sent(t, kind, Len(t))
  OBVIOUS
<1>1. Len(t) \in 0..Len(t)
  BY LenProperties
<1>2. /\ \A k \in 0..Len(s) : Sent(s \o t, kind, k) = Sent(s, kind, k)
      /\ \A k \in 0..Len(t) : Sent(s \o t, kind, Len(s) + k) = Sent(s, kind, Len(s)) \cup Sent(t, kind, k)
  BY SentConcat
<1>. QED
  BY <1>1, <1>2

\* A sequence without given in which the calls come last and a text first.
LEMMA PlainInOrder ==
    ASSUME NEW s \in Seq(Events), NEW calls, NEW given, NEW texts,
           \A k \in 1..Len(s) :
             /\ s[k].kind # "result"
             /\ s[k].kind \in {"thinking", "done"} =>
                  calls = given /\ \A j \in 1..Len(s) : s[j].kind # "call"
             /\ s[k].kind = "text" => k = 1 /\ Id(s[k]) \notin texts
    PROVE  InOrder(s, calls, given, texts)
<1>. SUFFICES ASSUME NEW k \in 1..Len(s)
     PROVE
        /\ s[k].kind = "result" =>
             Id(s[k]) \in calls \cup Sent(s, "call", k - 1) /\ Id(s[k]) \notin given \cup Sent(s, "result", k - 1)
        /\ s[k].kind \in {"thinking", "done"} =>
             calls \cup Sent(s, "call", k - 1) = given \cup Sent(s, "result", k - 1)
        /\ s[k].kind = "text" => Id(s[k]) \notin texts \cup Sent(s, "text", k - 1)
  BY DEF InOrder
<1>1. Len(s) \in Nat /\ \A j \in 1..(k - 1) : j \in 1..Len(s)
  BY LenProperties
<1>2. Sent(s, "result", k - 1) = {}
  BY <1>1 DEF Sent
<1>3. CASE s[k].kind \in {"thinking", "done"}
  <2>1. Sent(s, "call", k - 1) = {}
    BY <1>1, <1>3 DEF Sent
  <2>. QED
    BY <1>2, <1>3, <2>1
<1>4. CASE s[k].kind = "text"
  <2>1. Sent(s, "text", k - 1) = {}
    BY <1>1, <1>4 DEF Sent
  <2>. QED
    BY <1>4, <2>1
<1>. QED
  BY <1>3, <1>4

LEMMA OneResultInOrder ==
    ASSUME NEW e \in Events, e.kind = "result", NEW calls, NEW given, NEW texts,
           Id(e) \in calls, Id(e) \notin given
    PROVE  InOrder(<<e>>, calls, given, texts)
<1>1. Len(<<e>>) = 1 /\ <<e>>[1] = e
  OBVIOUS
<1>2. \A k \in 1..Len(<<e>>) : k = 1
  BY <1>1
<1>3. \A s : Sent(s, "result", 1 - 1) = {}
  BY DEF Sent
<1>. QED
  BY <1>1, <1>2, <1>3 DEF InOrder

-----------------------------------------------------------------------------
\* The invariant.

\* What has been sent, whether or not the consumer has received it.
Calls == heard.announced \cup Sent(Stream, "call", Len(Stream))
Given == heard.resulted \cup Sent(Stream, "result", Len(Stream))
Said == heard.said \cup Sent(Stream, "text", Len(Stream))

Generating == stage \in {"ask", "backoff"}
Over == stage \in {"leave", "closed"}

LoopTypes ==
    /\ stage \in {"top", "ask", "backoff", "tools", "leave", "closed"}
    /\ asking \in {"turn", "force", "final"}
    /\ streaming \in BOOLEAN /\ emitted \in BOOLEAN /\ hadTools \in BOOLEAN /\ stopped \in BOOLEAN
    /\ turn \in 0..MaxTurns
    /\ tries \in [normal : 0..MaxRetries, rate : 0..MaxRateLimitRetries]
    /\ worker \in Seq({"new", "executing", "refused", "stored", "sent"}) /\ Len(worker) <= MaxCalls
    /\ capped \subseteq 1..Len(worker)
    /\ channel \in Seq(Events) /\ out \in Seq(Events) /\ Len(channel) <= Capacity

\* Every count up to the limit is one execution.
CountsAreExecutions ==
    count \in Nat /\ executed = (IF count <= MaxToolCalls THEN count ELSE MaxToolCalls)

\* The conversation has the calls and the given that were sent, but for the
\* given of a round, which it gets at its end.
ConversationIsSent ==
    /\ Calls = asked
    /\ \A x : x \in Given <=>
         \/ x \in answered
         \/ stage = "tools" /\ \E i \in 1..Len(worker) : worker[i] = "sent" /\ x = Pair(turn, i)

Rounds ==
    /\ stage # "tools" => asked = answered /\ \A i \in 1..Len(worker) : worker[i] = "sent"
    /\ stage = "tools" =>
         /\ \A x : x \in asked <=> x \in answered \/ \E i \in 1..Len(worker) : x = Pair(turn, i)
         /\ \A i : Pair(turn, i) \notin answered
         /\ out # <<>> => \A i \in 1..Len(worker) : worker[i] = "new"

\* A turn's calls, and its pieces of text, are new when they are sent.
CallsAreNew ==
    \A t \in Nat : \A i : t > turn \/ (t = turn /\ Generating /\ asking = "turn") => Pair(t, i) \notin asked

TextIsNew ==
    /\ \A t \in Nat : \A n : t > turn => Pair(t, n) \notin Said
    /\ Generating /\ asking = "turn" /\ ~emitted => Pair(turn, 0) \notin Said
    /\ Generating /\ asking # "turn" /\ ~emitted => Pair(turn, 1) \notin Said
    /\ stage \in {"top", "tools"} \/ (Generating /\ asking = "turn") => Pair(turn, 1) \notin Said
    /\ ~streaming \/ stage = "backoff" => ~emitted

Ordered == InOrder(Stream, heard.announced, heard.resulted, heard.said)

\* The end is sent last, and by nothing but the end of the run.
EndIsLast ==
    /\ ~Over => heard.last # "done" /\ \A k \in 1..Len(Stream) : Stream[k].kind # "done"
    /\ Over => /\ \A k \in 1..(Len(Stream) - 1) : Stream[k].kind # "done"
               /\ heard.last = "done" => Stream = <<>>
               /\ Len(Stream) = 0 => heard.last = "done" \/ (heard.last = "error" /\ stopped)
               /\ Len(Stream) > 0 =>
                    \/ Stream[Len(Stream)].kind = "done"
                    \/ Stream[Len(Stream)].kind = "error" /\ stopped
    /\ stage = "closed" => out = <<>>

LoopInvariant ==
    /\ LoopTypes /\ CountsAreExecutions /\ ConversationIsSent /\ Rounds /\ CallsAreNew
    /\ TextIsNew /\ Ordered /\ EndIsLast

LEMMA NothingYet ==
    ASSUME NEW s, s = <<>>
    PROVE  s \in Seq(Events) /\ Len(s) = 0 /\ (\A kind : Sent(s, kind, Len(s)) = {})
           /\ \A calls, given, texts : InOrder(s, calls, given, texts)
<1>1. s \in Seq(Events) /\ Len(s) = 0
  OBVIOUS
<1>2. \A kind : Sent(s, kind, Len(s)) = {}
  BY <1>1 DEF Sent
<1>3. \A calls, given, texts : InOrder(s, calls, given, texts)
  BY <1>1 DEF InOrder
<1>. QED
  BY <1>1, <1>2, <1>3

LEMMA LoopInvariantInit ==
    ASSUME LoopAssumption, LoopInit
    PROVE  LoopInvariant
<1>1. Stream = <<>> /\ channel \in Seq(Events) /\ out \in Seq(Events)
  BY NothingYet DEF LoopInit, Stream
<1>2. /\ Len(Stream) = 0 /\ (\A kind : Sent(Stream, kind, Len(Stream)) = {})
      /\ \A calls, given, texts : InOrder(Stream, calls, given, texts)
  BY <1>1, NothingYet
<1>3. LoopTypes
  <2>1. /\ {MaxTurns, Capacity, MaxCalls, MaxRetries, MaxRateLimitRetries} \subseteq Nat
    BY DEF LoopAssumption
  <2>2. worker \in Seq({"new", "executing", "refused", "stored", "sent"}) /\ Len(worker) = 0 /\ Len(channel) = 0
    BY DEF LoopInit
  <2>3. tries \in [normal : 0..MaxRetries, rate : 0..MaxRateLimitRetries]
    BY <2>1 DEF LoopInit, NoTries
  <2>4. Len(worker) <= MaxCalls /\ capped \subseteq 1..Len(worker) /\ Len(channel) <= Capacity /\ turn \in 0..MaxTurns
    BY <2>1, <2>2 DEF LoopInit
  <2>5. emitted \in BOOLEAN /\ hadTools \in BOOLEAN /\ stopped \in BOOLEAN /\ streaming \in BOOLEAN
    BY Zenon DEF LoopInit
  <2>. QED
    BY <1>1, <2>2, <2>3, <2>4, <2>5 DEF LoopInit, LoopTypes
<1>4. CountsAreExecutions
  BY DEF LoopInit, LoopAssumption, CountsAreExecutions
<1>5. Calls = {} /\ Given = {} /\ Said = {}
  BY <1>2 DEF LoopInit, Calls, Given, Said
<1>6. ConversationIsSent /\ Rounds /\ CallsAreNew
  <2>1. Len(worker) = 0
    BY DEF LoopInit
  <2>. QED
    BY <1>5, <2>1 DEF LoopInit, ConversationIsSent, Rounds, CallsAreNew
<1>7. TextIsNew /\ Ordered
  BY <1>2, <1>5 DEF LoopInit, TextIsNew, Ordered, Generating
<1>8. EndIsLast
  BY <1>2 DEF LoopInit, EndIsLast, Over
<1>. QED
  BY <1>3, <1>4, <1>6, <1>7, <1>8 DEF LoopInvariant

LEMMA LoopInvariantImplies ==
    ASSUME LoopAssumption, LoopInvariant
    PROVE  LoopInv
<1>. USE DEF LoopInvariant
<1>1. LoopTypeOK
  <2>1. DOMAIN worker = 1..Len(worker) /\ Len(worker) \in Nat
        /\ \A i \in 1..Len(worker) : worker[i] \in {"new", "executing", "refused", "stored", "sent"}
    BY LenProperties, ElementOfSeq DEF LoopTypes
  <2>2. count \in Nat /\ executed \in Nat /\ MaxCalls \in Nat
    BY DEF CountsAreExecutions, LoopAssumption
  <2>. QED
    BY <2>1, <2>2 DEF LoopTypes, LoopTypeOK
<1>2. LimitHolds
  BY DEF CountsAreExecutions, LoopAssumption, LimitHolds
<1>3. CallsAreAnswered
  BY DEF Rounds, CallsAreAnswered
<1>4. \A kind, k : Of(kind, k) = Sent(Stream, kind, k)
  BY DEF Of, Sent, Id, Pair
<1>5. Stream \in Seq(Events) /\ DOMAIN Stream = 1..Len(Stream) /\ Len(Stream) \in Nat
  <2>1. Stream \in Seq(Events)
    BY ConcatProperties DEF LoopTypes, Stream
  <2>. QED
    BY <2>1, LenProperties
<1>6. ResultsInTurn
  BY <1>4, <1>5 DEF Ordered, InOrder, ResultsInTurn, Id, Pair
<1>7. SaidOnce
  BY <1>4, <1>5 DEF Ordered, InOrder, SaidOnce, Id, Pair
<1>8. EndsOnce
  <2>1. Stream = <<>> => Len(Stream) = 0
    OBVIOUS
  <2>2. Stream # <<>> => Len(Stream) > 0
    BY <1>5, EmptySeq
  <2>. QED
    BY <1>5, <2>1, <2>2 DEF EndIsLast, EndsOnce, Over
<1>. QED
  BY <1>1, <1>2, <1>3, <1>6, <1>7, <1>8 DEF LoopInv

-----------------------------------------------------------------------------
\* What a step does to what has been sent.

LEMMA StreamTypes ==
    ASSUME LoopTypes
    PROVE  /\ Stream \in Seq(Events) /\ Len(Stream) \in Nat
           /\ Len(channel) \in Nat /\ Len(out) \in Nat /\ Len(worker) \in Nat
           /\ out = <<>> => Stream = channel
<1>1. Stream \in Seq(Events)
  BY ConcatProperties DEF LoopTypes, Stream
<1>2. channel \o <<>> = channel
  BY ConcatEmptySeq DEF LoopTypes
<1>. QED
  BY <1>1, <1>2, LenProperties DEF LoopTypes, Stream

\* Events are added at its end.
LEMMA Grows ==
    ASSUME LoopTypes, NEW t \in Seq(Events), Stream' = Stream \o t, heard' = heard
    PROVE  /\ Ordered /\ InOrder(t, Calls, Given, Said) => Ordered'
           /\ Calls' = Calls \cup Sent(t, "call", Len(t))
           /\ Given' = Given \cup Sent(t, "result", Len(t))
           /\ Said' = Said \cup Sent(t, "text", Len(t))
           /\ Len(t) \in Nat /\ Len(Stream') = Len(Stream) + Len(t)
           /\ \A k \in 1..Len(Stream) : Stream'[k] = Stream[k]
           /\ \A k \in 1..Len(t) : Stream'[Len(Stream) + k] = t[k]
<1>1. Stream \in Seq(Events) /\ Len(Stream) \in Nat /\ Len(t) \in Nat
  BY StreamTypes, LenProperties
<1>. DEFINE u == Stream \o t
<1>2. /\ InOrder(u, heard.announced, heard.resulted, heard.said) <=>
           Ordered /\ InOrder(t, Calls, Given, Said)
  BY <1>1, InOrderConcat DEF Ordered, Calls, Given, Said
<1>3. \A kind : Sent(u, kind, Len(Stream) + Len(t)) = Sent(Stream, kind, Len(Stream)) \cup Sent(t, kind, Len(t))
  BY <1>1, SentOfBoth
<1>4. /\ Len(u) = Len(Stream) + Len(t)
      /\ \A i \in 1 .. Len(Stream) + Len(t) : u[i] = IF i <= Len(Stream) THEN Stream[i] ELSE t[i - Len(Stream)]
  BY <1>1, ConcatProperties
<1>5. Stream' = u
  OBVIOUS
<1>. HIDE DEF u
<1>6. \A i \in 1..Len(t) : Len(Stream) + i \in 1 .. Len(Stream) + Len(t)
        /\ ~(Len(Stream) + i <= Len(Stream)) /\ (Len(Stream) + i) - Len(Stream) = i
  BY <1>1
<1>7. /\ \A k \in 1..Len(Stream) : u[k] = Stream[k]
      /\ \A k \in 1..Len(t) : u[Len(Stream) + k] = t[k]
  BY <1>1, <1>4, <1>6
<1>8. /\ Calls' = Calls \cup Sent(t, "call", Len(t))
      /\ Given' = Given \cup Sent(t, "result", Len(t))
      /\ Said' = Said \cup Sent(t, "text", Len(t))
  BY <1>3, <1>4, <1>5 DEF Calls, Given, Said
<1>9. Ordered /\ InOrder(t, Calls, Given, Said) => Ordered'
  BY <1>2, <1>5 DEF Ordered
<1>. QED
  BY <1>1, <1>4, <1>5, <1>7, <1>8, <1>9

\* Nothing is sent.
LEMMA Silent ==
    ASSUME Stream' = Stream, heard' = heard
    PROVE  (Ordered => Ordered') /\ Calls' = Calls /\ Given' = Given /\ Said' = Said
BY DEF Ordered, Calls, Given, Said

\* The main goroutine has nothing left to send and begins on something new.
LEMMA MainSays ==
    ASSUME LoopTypes, out = <<>>, NEW t, out' = t, channel' = channel
    PROVE  Stream' = Stream \o t
BY StreamTypes DEF Stream

LEMMA SendKeepsTheStream ==
    ASSUME NEW s \in Seq(Events), NEW t \in Seq(Events), t # <<>>
    PROVE  Append(s, Head(t)) \o Tail(t) = s \o t
<1>. DEFINE a == Append(s, Head(t))
            b == Tail(t)
            u == a \o b
            v == s \o t
<1>1. /\ Head(t) \in Events /\ Head(t) = t[1] /\ b \in Seq(Events) /\ Len(b) = Len(t) - 1
      /\ \A i \in 1..Len(b) : b[i] = t[i + 1]
  BY HeadTailProperties
<1>2. /\ a \in Seq(Events) /\ Len(a) = Len(s) + 1 /\ a[Len(s) + 1] = t[1]
      /\ \A i \in 1..Len(s) : a[i] = s[i]
  BY <1>1, AppendProperties
<1>3. Len(s) \in Nat /\ Len(t) \in Nat /\ Len(a) \in Nat /\ Len(b) \in Nat
  BY <1>1, <1>2, LenProperties
<1>. HIDE DEF a, b
<1>4. /\ u \in Seq(Events) /\ Len(u) = Len(a) + Len(b)
      /\ \A i \in 1 .. Len(a) + Len(b) : u[i] = IF i <= Len(a) THEN a[i] ELSE b[i - Len(a)]
  BY <1>1, <1>2, ConcatProperties
<1>5. /\ v \in Seq(Events) /\ Len(v) = Len(s) + Len(t)
      /\ \A i \in 1 .. Len(s) + Len(t) : v[i] = IF i <= Len(s) THEN s[i] ELSE t[i - Len(s)]
  BY ConcatProperties
<1>. HIDE DEF u, v
<1>6. Len(u) = Len(v)
  BY <1>1, <1>2, <1>3, <1>4, <1>5
<1>7. \A i \in 1..Len(u) : u[i] = v[i]
  <2>. SUFFICES ASSUME NEW i \in 1..Len(u) PROVE u[i] = v[i]
    OBVIOUS
  <2>1. CASE i <= Len(s)
    <3>1. i \in 1..Len(s) /\ i <= Len(a) /\ i \in 1 .. Len(a) + Len(b) /\ i \in 1 .. Len(s) + Len(t)
      BY <1>2, <1>3, <1>4, <1>5, <1>6, <2>1
    <3>. QED
      BY <1>2, <1>4, <1>5, <2>1, <3>1
  <2>2. CASE i = Len(s) + 1
    BY <1>2, <1>3, <1>4, <1>5, <1>6, <2>2
  <2>3. CASE i > Len(s) + 1
    <3>1. u[i] = b[i - Len(a)] /\ v[i] = t[i - Len(s)]
      BY <1>2, <1>3, <1>4, <1>5, <1>6, <2>3
    <3>2. i - Len(a) \in 1..Len(b) /\ (i - Len(a)) + 1 = i - Len(s)
      BY <1>2, <1>3, <1>4, <2>3
    <3>. QED
      BY <1>1, <3>1, <3>2
  <2>. QED
    BY <1>3, <1>4, <2>1, <2>2, <2>3
<1>8. u = v
  BY <1>4, <1>5, <1>6, <1>7, SeqEqual
<1>. QED
  BY <1>8 DEF a, b, u, v

\* Some of the event sequences it begins on.
LEMMA OneEvent ==
    ASSUME NEW e \in Events
    PROVE  <<e>> \in Seq(Events) /\ Len(<<e>>) = 1 /\ <<e>>[1] = e
OBVIOUS

LEMMA TwoEvents ==
    ASSUME NEW e \in Events, NEW f \in Events
    PROVE  <<e, f>> \in Seq(Events) /\ Len(<<e, f>>) = 2 /\ <<e, f>>[1] = e /\ <<e, f>>[2] = f
OBVIOUS

LEMMA OneThenOne ==
    ASSUME NEW e \in Events, NEW f \in Events
    PROVE  <<e>> \o <<f>> = <<e, f>>
<1>. DEFINE a == <<e>>
            b == <<f>>
            c == <<e, f>>
            u == a \o b
<1>1. /\ a \in Seq(Events) /\ Len(a) = 1 /\ a[1] = e
      /\ b \in Seq(Events) /\ Len(b) = 1 /\ b[1] = f
      /\ c \in Seq(Events) /\ Len(c) = 2 /\ c[1] = e /\ c[2] = f
  BY OneEvent, TwoEvents
<1>. HIDE DEF a, b, c
<1>2. /\ u \in Seq(Events) /\ Len(u) = Len(a) + Len(b)
      /\ \A i \in 1 .. Len(a) + Len(b) : u[i] = IF i <= Len(a) THEN a[i] ELSE b[i - Len(a)]
  BY <1>1, ConcatProperties
<1>. HIDE DEF u
<1>3. Len(u) = 2 /\ u[1] = e /\ u[2] = f
  BY <1>1, <1>2
<1>4. u = c
  <2>1. \A i \in 1..Len(u) : u[i] = c[i]
    BY <1>1, <1>3
  <2>. QED
    BY <1>1, <1>2, <1>3, <2>1, SeqEqual
<1>. QED
  BY <1>4 DEF a, b, c, u

LEMMA EventsAreEvents ==
    ASSUME NEW kind \in EventKinds, NEW t \in Nat, NEW n \in Nat
    PROVE  Event(kind, t, n) \in Events
BY DEF Event, Events

LEMMA KindsAreKinds ==
    {"thinking", "error", "done", "text", "call", "result", "limit", "compaction"} \subseteq EventKinds
BY DEF EventKinds

LEMMA TheEvents ==
    ASSUME LoopAssumption, LoopTypes
    PROVE  /\ Error \in Events /\ Error.kind = "error"
           /\ DoneEvent \in Events /\ DoneEvent.kind = "done"
           /\ Text \in Events /\ Text.kind = "text"
           /\ Id(Text) = Pair(turn, IF asking = "turn" THEN 0 ELSE 1)
<1>1. turn \in Nat
  BY DEF LoopTypes, LoopAssumption
<1>2. {"thinking", "error", "done", "text", "call", "result", "limit", "compaction"} \subseteq EventKinds
  BY KindsAreKinds
<1>3. Error \in Events /\ DoneEvent \in Events
  BY <1>1, <1>2, EventsAreEvents DEF Error, DoneEvent
<1>4. Text \in Events
  <2>1. (IF asking = "turn" THEN 0 ELSE 1) \in Nat
    OBVIOUS
  <2>. QED
    BY <1>1, <1>2, <2>1, EventsAreEvents DEF Text
<1>. QED
  BY <1>3, <1>4, EventFields DEF Error, DoneEvent, Text, Id

\* The end of a run: perhaps a text, then the done event or the error of a
\* cancelled run.
Ending(t) ==
    /\ t \in Seq(Events) /\ Len(t) \in 1..2
    /\ \A k \in 1..Len(t) :
         /\ t[k].kind \notin {"thinking", "call", "result"}
         /\ t[k].kind = "text" => k = 1 /\ t[k] = Text /\ stage = "ask" /\ ~streaming
         /\ t[k].kind = "done" => k = Len(t)
    /\ t[Len(t)].kind = "done" \/ (t[Len(t)].kind = "error" /\ stopped)

LEMMA ErrorEnds ==
    ASSUME LoopAssumption, LoopTypes, stopped
    PROVE  Ending(<<Error>>)
<1>1. <<Error>> \in Seq(Events) /\ Len(<<Error>>) = 1 /\ <<Error>>[1].kind = "error"
  BY TheEvents, OneEvent
<1>. QED
  BY <1>1 DEF Ending

LEMMA DoneEnds ==
    ASSUME LoopAssumption, LoopTypes
    PROVE  Ending(<<DoneEvent>>)
<1>1. <<DoneEvent>> \in Seq(Events) /\ Len(<<DoneEvent>>) = 1 /\ <<DoneEvent>>[1].kind = "done"
  BY TheEvents, OneEvent
<1>. QED
  BY <1>1 DEF Ending

LEMMA SomethingThenDoneEnds ==
    ASSUME LoopAssumption, LoopTypes, NEW e \in Events, e.kind \in {"error", "limit", "text"},
           e.kind = "text" => e = Text /\ stage = "ask" /\ ~streaming
    PROVE  Ending(<<e, DoneEvent>>)
<1>1. /\ <<e, DoneEvent>> \in Seq(Events) /\ Len(<<e, DoneEvent>>) = 2
      /\ <<e, DoneEvent>>[1] = e /\ <<e, DoneEvent>>[2].kind = "done"
  BY TheEvents, TwoEvents
<1>2. \A k \in 1..2 : k = 1 \/ k = 2
  OBVIOUS
<1>. QED
  BY <1>1, <1>2 DEF Ending

LEMMA TextThenDoneEnds ==
    ASSUME LoopAssumption, LoopTypes, stage = "ask", NEW text \in BOOLEAN
    PROVE  Ending(Unsent(text) \o <<DoneEvent>>)
<1>1. CASE text /\ ~streaming
  <2>1. Unsent(text) = <<Text>>
    BY <1>1 DEF Unsent
  <2>2. Text \in Events /\ DoneEvent \in Events
    BY TheEvents
  <2>3. <<Text>> \o <<DoneEvent>> = <<Text, DoneEvent>>
    BY <2>2, OneThenOne
  <2>4. Ending(<<Text, DoneEvent>>)
    BY <1>1, TheEvents, SomethingThenDoneEnds
  <2>. QED
    BY <2>1, <2>3, <2>4
<1>2. CASE ~(text /\ ~streaming)
  <2>1. Unsent(text) = <<>>
    BY <1>2 DEF Unsent
  <2>2. <<>> \o <<DoneEvent>> = <<DoneEvent>>
    BY TheEvents, OneEvent, ConcatEmptySeq
  <2>. QED
    BY <2>1, <2>2, DoneEnds
<1>. QED
  BY <1>1, <1>2

\* However it comes to its end, the run ends well.
LEMMA LeaveKeeps ==
    ASSUME LoopAssumption, LoopInvariant, out = <<>>, stage \in {"top", "ask", "backoff"},
           NEW t, Ending(t), stage' = "leave", out' = t, channel' = channel, heard' = heard,
           turn' \in 0..MaxTurns, turn' >= turn,
           UNCHANGED <<asking, streaming, tries, emitted, hadTools, stopped, count, executed, asked, answered>>,
           worker' = worker \/ Len(worker') = 0,
           worker' \in Seq({"new", "executing", "refused", "stored", "sent"}), Len(worker') <= MaxCalls,
           capped' \subseteq 1..Len(worker')
    PROVE  LoopInvariant'
<1>. USE DEF LoopInvariant
<1>1. /\ t \in Seq(Events) /\ Len(t) \in 1..2
      /\ \A k \in 1..Len(t) : t[k].kind \notin {"thinking", "call", "result"}
      /\ \A k \in 1..Len(t) : t[k].kind = "text" => k = 1 /\ t[k] = Text /\ stage = "ask" /\ ~streaming
      /\ \A k \in 1..Len(t) : t[k].kind = "done" => k = Len(t)
      /\ t[Len(t)].kind = "done" \/ (t[Len(t)].kind = "error" /\ stopped)
  BY DEF Ending
<1>2. Stream' = Stream \o t
  BY MainSays
<1>3. asked = answered /\ Calls = asked /\ \A x : x \in Given <=> x \in answered
  BY DEF Rounds, ConversationIsSent
<1>4. Calls = Given
  BY <1>3
<1>5. stage = "ask" /\ ~streaming => Id(Text) \notin Said
  BY TheEvents DEF TextIsNew, Generating
<1>6. InOrder(t, Calls, Given, Said)
  BY <1>1, <1>4, <1>5, PlainInOrder
<1>7. /\ Ordered'
      /\ Calls' = Calls \cup Sent(t, "call", Len(t))
      /\ Given' = Given \cup Sent(t, "result", Len(t))
      /\ Said' = Said \cup Sent(t, "text", Len(t))
      /\ Len(Stream') = Len(Stream) + Len(t)
      /\ \A k \in 1..Len(Stream) : Stream'[k] = Stream[k]
      /\ \A k \in 1..Len(t) : Stream'[Len(Stream) + k] = t[k]
  BY <1>1, <1>2, <1>6, Grows
<1>8. Sent(t, "call", Len(t)) = {} /\ Sent(t, "result", Len(t)) = {}
  BY <1>1 DEF Sent
<1>9. \A x \in Sent(t, "text", Len(t)) : x = Id(Text)
  BY <1>1 DEF Sent
<1>10. turn \in Nat /\ turn' \in Nat /\ MaxTurns \in Nat /\ Len(Stream) \in Nat
  BY StreamTypes DEF LoopTypes, LoopAssumption
<1>11. LoopTypes'
  BY <1>1, Zenon DEF LoopTypes
<1>12. CountsAreExecutions'
  BY DEF CountsAreExecutions
<1>13. Calls' = Calls /\ Given' = Given
  BY <1>7, <1>8
<1>14. ConversationIsSent'
  BY <1>3, <1>13 DEF ConversationIsSent
<1>15. Rounds'
  BY <1>3 DEF Rounds
<1>16. CallsAreNew'
  BY <1>10 DEF CallsAreNew, Generating
<1>17. TextIsNew'
  <2>1. ASSUME NEW u \in Nat, NEW n, u > turn' PROVE Pair(u, n) \notin Said'
    <3>1. u > turn /\ u # turn
      BY <1>10, <2>1
    <3>2. Pair(u, n) \notin Said /\ Pair(u, n) # Id(Text)
      BY <3>1, TheEvents, PairsEqual DEF TextIsNew
    <3>. QED
      BY <1>7, <1>9, <3>2
  <2>. QED
    BY <2>1 DEF TextIsNew, Generating
<1>18. EndIsLast'
  <2>1. heard'.last # "done" /\ \A k \in 1..Len(Stream) : Stream'[k].kind # "done"
    BY <1>7 DEF EndIsLast, Over
  <2>2. \A k \in 1..(Len(Stream') - 1) : k \in 1..Len(Stream) \/ (k - Len(Stream) \in 1..Len(t) /\ k - Len(Stream) # Len(t) /\ Len(Stream) + (k - Len(Stream)) = k)
    BY <1>1, <1>7, <1>10
  <2>3. \A k \in 1..(Len(Stream') - 1) : Stream'[k].kind # "done"
    <3>. SUFFICES ASSUME NEW k \in 1..(Len(Stream') - 1), k \notin 1..Len(Stream) PROVE Stream'[k].kind # "done"
      BY <2>1
    <3>1. PICK j \in 1..Len(t) : j # Len(t) /\ Len(Stream) + j = k
      BY <2>2
    <3>. QED
      BY <1>1, <1>7, <3>1
  <2>4. Len(Stream') > 0 /\ Len(t) \in 1..Len(t) /\ Stream'[Len(Stream')] = t[Len(t)]
    BY <1>1, <1>7, <1>10
  <2>. QED
    BY <1>1, <2>1, <2>3, <2>4 DEF EndIsLast, Over
<1>. QED
  BY <1>7, <1>11, <1>12, <1>14, <1>15, <1>16, <1>17, <1>18

\* It thinks again: in a new turn, or for a closing text.
LEMMA GenerateKeeps ==
    ASSUME LoopAssumption, LoopInvariant, out = <<>>,
           NEW kind \in {"turn", "force", "final"}, NEW t \in Nat, Generate(kind, t),
           \/ kind = "turn" /\ stage = "top" /\ turn' = turn + 1 /\ turn < MaxTurns
           \/ kind # "turn" /\ turn' = turn /\ (stage = "top" \/ (stage = "ask" /\ asking = "turn")),
           channel' = channel, heard' = heard,
           UNCHANGED <<streaming, hadTools, stopped, count, executed, asked, answered>>,
           worker' = worker \/ Len(worker') = 0,
           worker' \in Seq({"new", "executing", "refused", "stored", "sent"}), Len(worker') <= MaxCalls,
           capped' \subseteq 1..Len(worker')
    PROVE  LoopInvariant'
<1>. USE DEF LoopInvariant
<1>. DEFINE e == Event("thinking", t, 0)
<1>1. e \in Events /\ e.kind = "thinking"
  BY EventsAreEvents, KindsAreKinds, EventFields
<1>2. out' = <<e>> /\ stage' = "ask" /\ asking' = kind /\ tries' = NoTries /\ emitted' = FALSE
  BY DEF Generate
<1>. HIDE DEF e
<1>. DEFINE s == <<e>>
<1>3. s \in Seq(Events) /\ Len(s) = 1 /\ s[1] = e
  BY <1>1, OneEvent
<1>4. out' = s
  BY <1>2
<1>. HIDE DEF s
<1>5. Stream' = Stream \o s
  BY <1>4, MainSays
<1>6. asked = answered /\ Calls = asked /\ \A x : x \in Given <=> x \in answered
  BY DEF Rounds, ConversationIsSent
<1>7. Calls = Given
  BY <1>6
<1>8. InOrder(s, Calls, Given, Said)
  <2>1. \A k \in 1..Len(s) : s[k].kind = "thinking"
    BY <1>1, <1>3
  <2>. QED
    BY <1>3, <1>7, <2>1, PlainInOrder
<1>9. /\ Ordered'
      /\ Calls' = Calls \cup Sent(s, "call", Len(s))
      /\ Given' = Given \cup Sent(s, "result", Len(s))
      /\ Said' = Said \cup Sent(s, "text", Len(s))
      /\ Len(Stream') = Len(Stream) + Len(s)
      /\ \A k \in 1..Len(Stream) : Stream'[k] = Stream[k]
      /\ \A k \in 1..Len(s) : Stream'[Len(Stream) + k] = s[k]
  BY <1>3, <1>5, <1>8, Grows
<1>10. Calls' = Calls /\ Given' = Given /\ Said' = Said
  <2>1. \A k \in 1..Len(s) : s[k].kind = "thinking"
    BY <1>1, <1>3
  <2>2. Sent(s, "call", Len(s)) = {} /\ Sent(s, "result", Len(s)) = {} /\ Sent(s, "text", Len(s)) = {}
    BY <2>1 DEF Sent
  <2>. QED
    BY <1>9, <2>2
<1>11. turn \in Nat /\ MaxTurns \in Nat /\ Len(Stream) \in Nat
  BY StreamTypes DEF LoopTypes, LoopAssumption
<1>12. LoopTypes'
  <2>1. turn' \in 0..MaxTurns
    BY <1>11 DEF LoopTypes
  <2>2. tries' \in [normal : 0..MaxRetries, rate : 0..MaxRateLimitRetries]
    BY <1>2 DEF NoTries, LoopAssumption
  <2>. QED
    BY <1>2, <1>3, <1>4, <2>1, <2>2, Zenon DEF LoopTypes
<1>13. CountsAreExecutions'
  BY DEF CountsAreExecutions
<1>14. ConversationIsSent'
  BY <1>2, <1>6, <1>10 DEF ConversationIsSent
<1>15. Rounds'
  BY <1>2, <1>6 DEF Rounds
<1>16. CallsAreNew'
  BY <1>2, <1>11 DEF CallsAreNew, Generating
<1>17. TextIsNew'
  BY <1>2, <1>10, <1>11 DEF TextIsNew, Generating
<1>18. EndIsLast'
  <2>1. \A k \in 1..Len(Stream') : k \in 1..Len(Stream) \/ k = Len(Stream) + 1
    BY <1>3, <1>9, <1>11
  <2>2. Stream'[Len(Stream) + 1].kind = "thinking"
    BY <1>1, <1>3, <1>9
  <2>. QED
    BY <1>2, <1>9, <2>1, <2>2 DEF EndIsLast, Over
<1>. QED
  BY <1>9, <1>12, <1>13, <1>14, <1>15, <1>16, <1>17, <1>18

-----------------------------------------------------------------------------
\* The main goroutine's steps.

LEMMA NextTurnKeeps ==
    ASSUME LoopAssumption, LoopInvariant, NextTurn
    PROVE  LoopInvariant'
<1>1. /\ stage = "top" /\ out = <<>> /\ turn < MaxTurns /\ turn' = turn + 1
      /\ UNCHANGED <<streaming, toolVars, chanVars>>
  BY DEF NextTurn, At
<1>2. turn \in Nat /\ MaxTurns \in Nat /\ LoopTypes
  BY DEF LoopInvariant, LoopTypes, LoopAssumption
<1>3. turn' \in 0..MaxTurns /\ turn' >= turn /\ turn' \in Nat
  BY <1>1, <1>2
<1>4. /\ worker' \in Seq({"new", "executing", "refused", "stored", "sent"}) /\ Len(worker') <= MaxCalls
      /\ capped' \subseteq 1..Len(worker')
  BY <1>1, <1>2 DEF LoopTypes, toolVars
<1>5. CASE stopped /\ Leave(<<Error>>)
  <2>1. Ending(<<Error>>)
    BY <1>2, <1>5, ErrorEnds
  <2>2. stage' = "leave" /\ out' = <<Error>> /\ UNCHANGED <<asking, tries, emitted>>
    BY <1>5 DEF Leave
  <2>. QED
    BY <1>1, <1>3, <1>4, <2>1, <2>2, LeaveKeeps DEF toolVars, chanVars
<1>6. CASE Generate("turn", turn')
  BY <1>1, <1>3, <1>4, <1>6, GenerateKeeps DEF toolVars, chanVars
<1>. QED
  BY <1>5, <1>6 DEF NextTurn

LEMMA TurnsOverKeeps ==
    ASSUME LoopAssumption, LoopInvariant, TurnsOver
    PROVE  LoopInvariant'
<1>1. /\ stage = "top" /\ out = <<>>
      /\ UNCHANGED <<turn, streaming, toolVars, chanVars>>
  BY DEF TurnsOver, At
<1>2. turn \in Nat /\ turn \in 0..MaxTurns /\ turn + 1 \in Nat /\ LoopTypes
  BY DEF LoopInvariant, LoopTypes, LoopAssumption
<1>3. turn' \in 0..MaxTurns /\ turn' >= turn
  BY <1>1, <1>2
<1>4. /\ worker' \in Seq({"new", "executing", "refused", "stored", "sent"}) /\ Len(worker') <= MaxCalls
      /\ capped' \subseteq 1..Len(worker')
  BY <1>1, <1>2 DEF LoopTypes, toolVars
<1>5. CASE Leave(<<DoneEvent>>)
  <2>1. Ending(<<DoneEvent>>)
    BY <1>2, DoneEnds
  <2>2. stage' = "leave" /\ out' = <<DoneEvent>> /\ UNCHANGED <<asking, tries, emitted>>
    BY <1>5 DEF Leave
  <2>. QED
    BY <1>1, <1>3, <1>4, <2>1, <2>2, LeaveKeeps DEF toolVars, chanVars
<1>6. CASE Generate("final", turn + 1)
  <2>1. PICK t \in Nat : Generate("final", t)
    BY <1>2, <1>6
  <2>. QED
    <3>1. /\ channel' = channel /\ heard' = heard /\ turn' = turn
          /\ UNCHANGED <<streaming, hadTools, stopped, count, executed, asked, answered>>
          /\ worker' = worker
      BY <1>1 DEF toolVars, chanVars
    <3>. QED
      BY <1>1, <1>4, <2>1, <3>1, GenerateKeeps
<1>. QED
  BY <1>5, <1>6 DEF TurnsOver

LEMMA GiveUpKeeps ==
    ASSUME LoopAssumption, LoopInvariant, out = <<>>, stage \in {"ask", "backoff"}, GiveUp,
           UNCHANGED <<streaming, turn, toolVars, chanVars>>
    PROVE  LoopInvariant'
<1>1. LoopTypes
  BY DEF LoopInvariant
<1>2. turn \in 0..MaxTurns /\ turn' >= turn
  BY <1>1 DEF LoopTypes, LoopAssumption
<1>3. /\ worker' \in Seq({"new", "executing", "refused", "stored", "sent"}) /\ Len(worker') <= MaxCalls
      /\ capped' \subseteq 1..Len(worker')
  BY <1>1 DEF LoopTypes, toolVars
<1>4. \E t : Ending(t) /\ Leave(t)
  <2>1. Ending(<<DoneEvent>>)
    BY <1>1, DoneEnds
  <2>2. Ending(<<Error, DoneEvent>>)
    BY <1>1, TheEvents, SomethingThenDoneEnds
  <2>. QED
    BY <2>1, <2>2 DEF GiveUp
<1>5. PICK t : Ending(t) /\ Leave(t)
  BY <1>4
<1>6. stage' = "leave" /\ out' = t /\ UNCHANGED <<asking, tries, emitted>>
  BY <1>5 DEF Leave
<1>. QED
  BY <1>2, <1>3, <1>5, <1>6, LeaveKeeps DEF toolVars, chanVars

\* A retry of the generation, which has said nothing yet.
LEMMA RetryKeeps ==
    ASSUME LoopAssumption, LoopInvariant, out = <<>>, Generating, ~emitted, ~emitted',
           stage' \in {"ask", "backoff"}, out' = out, emitted' \in BOOLEAN,
           tries' \in [normal : 0..MaxRetries, rate : 0..MaxRateLimitRetries],
           UNCHANGED <<asking, streaming, turn, toolVars, chanVars>>
    PROVE  LoopInvariant'
<1>. USE DEF LoopInvariant, toolVars, chanVars
<1>1. Stream' = Stream
  BY DEF Stream
<1>2. Ordered' /\ Calls' = Calls /\ Given' = Given /\ Said' = Said
  BY <1>1, Silent
<1>3. LoopTypes'
  BY DEF LoopTypes
<1>4. CountsAreExecutions'
  BY DEF CountsAreExecutions
<1>5. ConversationIsSent' /\ Rounds' /\ CallsAreNew'
  BY <1>2 DEF ConversationIsSent, Rounds, CallsAreNew, Generating
<1>6. TextIsNew'
  BY <1>2 DEF TextIsNew, Generating
<1>7. EndIsLast'
  BY <1>1 DEF EndIsLast, Over, Generating
<1>. QED
  BY <1>2, <1>3, <1>4, <1>5, <1>6, <1>7

LEMMA CountersAreCounters == \A kind : Counter(kind) \in {"normal", "rate"}
BY DEF Counter

LEMMA AttemptFailsKeeps ==
    ASSUME LoopAssumption, LoopInvariant, NEW kind \in {"retryable", "rate", "fatal"}, AttemptFails(kind)
    PROVE  LoopInvariant'
<1>1. stage = "ask" /\ out = <<>> /\ UNCHANGED <<streaming, turn, toolVars, chanVars>> /\ LoopTypes /\ TextIsNew
  BY DEF AttemptFails, At, LoopInvariant
<1>2. CASE MayRetry(kind)
  <2>1. /\ stage' = "backoff" /\ tries' = [tries EXCEPT ![Counter(kind)] = @ + 1]
        /\ UNCHANGED <<asking, emitted, out>>
    BY <1>2 DEF AttemptFails
  <2>2. ~emitted /\ emitted \in BOOLEAN
    BY <1>1, <1>2 DEF MayRetry, TextIsNew, LoopTypes
  <2>3. tries' \in [normal : 0..MaxRetries, rate : 0..MaxRateLimitRetries]
    <3>1. tries \in [normal : 0..MaxRetries, rate : 0..MaxRateLimitRetries] /\ MaxRetries \in Nat /\ MaxRateLimitRetries \in Nat
      BY <1>1 DEF LoopTypes, LoopAssumption
    <3>2. CASE Counter(kind) = "rate"
      <4>1. tries["rate"] < MaxRateLimitRetries
        BY <1>2, <3>2 DEF MayRetry
      <4>. QED
        BY <2>1, <3>1, <3>2, <4>1
    <3>3. CASE Counter(kind) = "normal"
      <4>1. tries["normal"] < MaxRetries
        BY <1>2, <3>3 DEF MayRetry
      <4>. QED
        BY <2>1, <3>1, <3>3, <4>1
    <3>. QED
      BY <3>2, <3>3, CountersAreCounters
  <2>4. emitted' \in BOOLEAN /\ ~emitted'
    BY <2>1, <2>2, Zenon
  <2>. QED
    BY <1>1, <2>1, <2>2, <2>3, <2>4, RetryKeeps DEF Generating
<1>3. CASE ~MayRetry(kind)
  BY <1>1, <1>3, GiveUpKeeps DEF AttemptFails
<1>. QED
  BY <1>2, <1>3

LEMMA BackoffEndsKeeps ==
    ASSUME LoopAssumption, LoopInvariant, BackoffEnds
    PROVE  LoopInvariant'
<1>1. stage = "backoff" /\ out = <<>> /\ UNCHANGED <<streaming, turn, toolVars, chanVars>> /\ LoopTypes /\ TextIsNew
  BY DEF BackoffEnds, At, LoopInvariant
<1>2. CASE stage' = "ask" /\ emitted' = FALSE /\ UNCHANGED <<asking, tries, out>>
  BY <1>1, <1>2, RetryKeeps DEF Generating, TextIsNew, LoopTypes
<1>3. CASE GiveUp
  BY <1>1, <1>3, GiveUpKeeps
<1>. QED
  BY <1>2, <1>3 DEF BackoffEnds

LEMMA StreamsKeeps ==
    ASSUME LoopAssumption, LoopInvariant, Streams
    PROVE  LoopInvariant'
<1>. USE DEF LoopInvariant
<1>1. /\ stage = "ask" /\ out = <<>> /\ streaming /\ ~emitted /\ emitted' = TRUE /\ out' = <<Text>>
      /\ UNCHANGED <<stage, asking, streaming, turn, tries, toolVars, chanVars>>
  BY DEF Streams, At
<1>. DEFINE s == <<Text>>
<1>2. s \in Seq(Events) /\ Len(s) = 1 /\ s[1] = Text /\ Text.kind = "text"
  BY TheEvents, OneEvent
<1>3. out' = s
  BY <1>1
<1>. HIDE DEF s
<1>4. Stream' = Stream \o s
  BY <1>1, <1>3, MainSays DEF chanVars
<1>5. Id(Text) \notin Said
  BY <1>1, TheEvents DEF TextIsNew, Generating
<1>6. InOrder(s, Calls, Given, Said)
  <2>1. \A k \in 1..Len(s) : k = 1 /\ s[k] = Text
    BY <1>2
  <2>. QED
    BY <1>2, <1>5, <2>1, PlainInOrder
<1>7. /\ Ordered'
      /\ Calls' = Calls \cup Sent(s, "call", Len(s))
      /\ Given' = Given \cup Sent(s, "result", Len(s))
      /\ Said' = Said \cup Sent(s, "text", Len(s))
      /\ Len(Stream') = Len(Stream) + Len(s)
      /\ \A k \in 1..Len(Stream) : Stream'[k] = Stream[k]
      /\ \A k \in 1..Len(s) : Stream'[Len(Stream) + k] = s[k]
  BY <1>1, <1>2, <1>4, <1>6, Grows DEF chanVars
<1>8. Calls' = Calls /\ Given' = Given /\ \A x \in Said' : x \in Said \/ x = Id(Text)
  <2>1. \A k \in 1..Len(s) : k = 1 /\ s[k] = Text
    BY <1>2
  <2>2. Sent(s, "call", Len(s)) = {} /\ Sent(s, "result", Len(s)) = {} /\ \A x \in Sent(s, "text", Len(s)) : x = Id(Text)
    BY <1>2, <2>1 DEF Sent
  <2>. QED
    BY <1>7, <2>2
<1>9. turn \in Nat /\ Len(Stream) \in Nat
  BY StreamTypes DEF LoopTypes, LoopAssumption
<1>10. LoopTypes'
  BY <1>1, <1>2, <1>3, Zenon DEF LoopTypes, toolVars, chanVars
<1>11. CountsAreExecutions'
  BY <1>1 DEF CountsAreExecutions, toolVars
<1>12. ConversationIsSent' /\ Rounds' /\ CallsAreNew'
  BY <1>1, <1>8 DEF ConversationIsSent, Rounds, CallsAreNew, Generating, toolVars
<1>13. TextIsNew'
  <2>1. ASSUME NEW u \in Nat, NEW n, u > turn PROVE Pair(u, n) \notin Said'
    <3>1. Pair(u, n) \notin Said /\ u # turn
      BY <1>9, <2>1 DEF TextIsNew
    <3>2. Pair(u, n) # Id(Text)
      BY <3>1, TheEvents, PairsEqual
    <3>. QED
      BY <1>8, <3>1, <3>2
  <2>2. asking = "turn" => Pair(turn, 1) \notin Said'
    <3>1. asking = "turn" => Pair(turn, 1) \notin Said
      BY <1>1 DEF TextIsNew, Generating
    <3>2. asking = "turn" => Pair(turn, 1) # Id(Text)
      BY TheEvents, PairsEqual
    <3>. QED
      BY <1>8, <3>1, <3>2
  <2>. QED
    BY <1>1, <2>1, <2>2 DEF TextIsNew, Generating
<1>14. EndIsLast'
  <2>1. \A k \in 1..Len(Stream') : k \in 1..Len(Stream) \/ k = Len(Stream) + 1
    BY <1>2, <1>7, <1>9
  <2>2. Stream'[Len(Stream) + 1].kind = "text"
    BY <1>2, <1>7
  <2>. QED
    BY <1>1, <1>7, <2>1, <2>2 DEF EndIsLast, Over, chanVars
<1>. QED
  BY <1>7, <1>10, <1>11, <1>12, <1>13, <1>14

LEMMA ClosingKeeps ==
    ASSUME LoopAssumption, LoopInvariant, NEW text \in BOOLEAN, Closing(text)
    PROVE  LoopInvariant'
<1>. DEFINE t == Unsent(text) \o <<DoneEvent>>
<1>1. stage = "ask" /\ out = <<>> /\ Leave(t) /\ UNCHANGED <<streaming, turn, toolVars, chanVars>> /\ LoopTypes
  BY DEF Closing, At, LoopInvariant
<1>2. turn' \in 0..MaxTurns /\ turn' >= turn
  BY <1>1 DEF LoopTypes, LoopAssumption
<1>3. /\ worker' \in Seq({"new", "executing", "refused", "stored", "sent"}) /\ Len(worker') <= MaxCalls
      /\ capped' \subseteq 1..Len(worker')
  BY <1>1 DEF LoopTypes, toolVars
<1>4. Ending(t)
  BY <1>1, TextThenDoneEnds
<1>. HIDE DEF t
<1>5. stage' = "leave" /\ out' = t /\ UNCHANGED <<asking, tries, emitted>>
  BY <1>1 DEF Leave
<1>. QED
  BY <1>1, <1>2, <1>3, <1>4, <1>5, LeaveKeeps DEF toolVars, chanVars

LEMMA ClosesKeeps ==
    ASSUME LoopAssumption, LoopInvariant, Closes
    PROVE  LoopInvariant'
<1>. USE DEF LoopInvariant
<1>1. /\ stage = "leave" /\ out = <<>> /\ stage' = "closed"
      /\ UNCHANGED <<asking, streaming, turn, tries, emitted, toolVars, out, chanVars>>
  BY DEF Closes, At
<1>2. Stream' = Stream /\ heard' = heard
  BY <1>1 DEF Stream, chanVars
<1>3. Ordered' /\ Calls' = Calls /\ Given' = Given /\ Said' = Said
  BY <1>2, Silent
<1>4. LoopTypes'
  BY <1>1, Zenon DEF LoopTypes, toolVars, chanVars
<1>5. CountsAreExecutions'
  BY <1>1 DEF CountsAreExecutions, toolVars
<1>6. ConversationIsSent' /\ Rounds' /\ CallsAreNew' /\ TextIsNew'
  BY <1>1, <1>3 DEF ConversationIsSent, Rounds, CallsAreNew, TextIsNew, Generating, toolVars
<1>7. EndIsLast'
  BY <1>1, <1>2 DEF EndIsLast, Over, chanVars
<1>. QED
  BY <1>3, <1>4, <1>5, <1>6, <1>7

LEMMA SendsKeeps ==
    ASSUME LoopAssumption, LoopInvariant, Sends
    PROVE  LoopInvariant'
<1>. USE DEF LoopInvariant
<1>1. /\ out # <<>> /\ Len(channel) < Capacity /\ channel' = Append(channel, Head(out)) /\ out' = Tail(out)
      /\ UNCHANGED <<stage, asking, streaming, turn, tries, emitted, toolVars, stopped, heard>>
  BY DEF Sends, HasRoom
<1>2. channel \in Seq(Events) /\ out \in Seq(Events) /\ Capacity \in Nat /\ Len(channel) \in Nat
  BY LenProperties DEF LoopTypes, LoopAssumption
<1>3. channel' \in Seq(Events) /\ out' \in Seq(Events) /\ Len(channel') = Len(channel) + 1
  BY <1>1, <1>2, HeadTailProperties, AppendProperties
<1>4. Stream' = Stream
  BY <1>1, <1>2, SendKeepsTheStream DEF Stream
<1>5. Ordered' /\ Calls' = Calls /\ Given' = Given /\ Said' = Said
  BY <1>1, <1>4, Silent
<1>6. LoopTypes'
  <2>1. Len(channel') <= Capacity
    BY <1>1, <1>2, <1>3
  <2>. QED
    BY <1>1, <1>3, <2>1, Zenon DEF LoopTypes, toolVars
<1>7. CountsAreExecutions'
  BY <1>1 DEF CountsAreExecutions, toolVars
<1>8. ConversationIsSent' /\ Rounds' /\ CallsAreNew' /\ TextIsNew'
  BY <1>1, <1>5 DEF ConversationIsSent, Rounds, CallsAreNew, TextIsNew, Generating, toolVars
<1>9. EndIsLast'
  BY <1>1, <1>4 DEF EndIsLast, Over
<1>. QED
  BY <1>5, <1>6, <1>7, <1>8, <1>9

-----------------------------------------------------------------------------
\* A round of calls.

LEMMA CallEventsAre ==
    ASSUME LoopAssumption, LoopTypes, NEW n \in Nat
    PROVE  /\ CallEvents(n) \in Seq(Events) /\ Len(CallEvents(n)) = n
           /\ \A i \in 1..n : CallEvents(n)[i].kind = "call" /\ Id(CallEvents(n)[i]) = Pair(turn, i)
<1>1. \A i \in 1..n : Event("call", turn, i) \in Events
  BY KindsAreKinds, EventsAreEvents DEF LoopTypes
<1>2. CallEvents(n) \in Seq(Events) /\ Len(CallEvents(n)) = n
  BY <1>1, IsASeq DEF CallEvents
<1>3. \A i \in 1..n : CallEvents(n)[i] = Event("call", turn, i)
  BY DEF CallEvents
<1>. QED
  BY <1>2, <1>3, EventFields DEF Id

\* The text of a response, unless it was streamed, and its calls.
Asking(t, n) ==
    /\ t \in Seq(Events)
    /\ \A k \in 1..Len(t) :
         \/ t[k].kind = "call" /\ \E i \in 1..n : Id(t[k]) = Pair(turn, i)
         \/ t[k].kind = "text" /\ k = 1 /\ t[k] = Text /\ ~streaming
    /\ \A i \in 1..n : \E k \in 1..Len(t) : t[k].kind = "call" /\ Id(t[k]) = Pair(turn, i)

LEMMA TextThenCalls ==
    ASSUME LoopAssumption, LoopTypes, NEW text \in BOOLEAN, NEW n \in Nat, NEW t, t = Unsent(text) \o CallEvents(n)
    PROVE  Asking(t, n)
<1>. DEFINE a == Unsent(text)
            b == CallEvents(n)
<1>1. /\ a \in Seq(Events) /\ Len(a) \in 0..1
      /\ \A k \in 1..Len(a) : k = 1 /\ a[k] = Text /\ ~streaming
  <2>1. CASE text /\ ~streaming
    <3>1. a = <<Text>>
      BY <2>1 DEF Unsent
    <3>2. <<Text>> \in Seq(Events) /\ Len(<<Text>>) = 1 /\ <<Text>>[1] = Text
      BY TheEvents, OneEvent
    <3>. HIDE DEF a
    <3>3. a \in Seq(Events) /\ Len(a) = 1 /\ a[1] = Text
      BY <3>1, <3>2
    <3>4. \A k \in 1..Len(a) : k = 1
      BY <3>3
    <3>. QED
      BY <2>1, <3>3, <3>4
  <2>2. CASE ~(text /\ ~streaming)
    <3>1. a = <<>>
      BY <2>2 DEF Unsent
    <3>. QED
      BY <3>1, NothingYet
  <2>. QED
    BY <2>1, <2>2
<1>2. /\ b \in Seq(Events) /\ Len(b) = n
      /\ \A i \in 1..n : b[i].kind = "call" /\ Id(b[i]) = Pair(turn, i)
  BY CallEventsAre
<1>3. t = a \o b
  OBVIOUS
<1>. HIDE DEF a, b
<1>4. /\ t \in Seq(Events) /\ Len(t) = Len(a) + Len(b)
      /\ \A i \in 1 .. Len(a) + Len(b) : t[i] = IF i <= Len(a) THEN a[i] ELSE b[i - Len(a)]
  BY <1>1, <1>2, <1>3, ConcatProperties
<1>5. ASSUME NEW k \in 1..Len(t)
      PROVE  \/ t[k].kind = "call" /\ \E i \in 1..n : Id(t[k]) = Pair(turn, i)
             \/ t[k].kind = "text" /\ k = 1 /\ t[k] = Text /\ ~streaming
  <2>1. CASE k <= Len(a)
    <3>1. k \in 1..Len(a) /\ t[k] = a[k]
      BY <1>1, <1>2, <1>4, <2>1
    <3>. QED
      BY <1>1, <3>1, TheEvents
  <2>2. CASE ~(k <= Len(a))
    <3>1. k - Len(a) \in 1..n /\ t[k] = b[k - Len(a)]
      BY <1>1, <1>2, <1>4, <2>2
    <3>. QED
      BY <1>2, <3>1
  <2>. QED
    BY <2>1, <2>2
<1>6. ASSUME NEW i \in 1..n
      PROVE  \E k \in 1..Len(t) : t[k].kind = "call" /\ Id(t[k]) = Pair(turn, i)
  <2>1. /\ Len(a) + i \in 1..Len(t) /\ Len(a) + i \in 1 .. Len(a) + Len(b)
        /\ ~(Len(a) + i <= Len(a)) /\ (Len(a) + i) - Len(a) = i
    BY <1>1, <1>2, <1>4
  <2>2. t[Len(a) + i] = b[i]
    BY <1>4, <2>1
  <2>. QED
    BY <1>2, <2>1, <2>2
<1>. QED
  BY <1>4, <1>5, <1>6 DEF Asking

LEMMA NewWorkers ==
    ASSUME NEW n \in Nat, NEW w, w = [i \in 1..n |-> "new"]
    PROVE  /\ w \in Seq({"new", "executing", "refused", "stored", "sent"}) /\ Len(w) = n
           /\ \A i \in 1..Len(w) : w[i] = "new"
<1>1. \A i \in 1..n : w[i] \in {"new", "executing", "refused", "stored", "sent"}
  OBVIOUS
<1>2. w \in Seq({"new", "executing", "refused", "stored", "sent"}) /\ Len(w) = n
  BY IsASeq
<1>. QED
  BY <1>2

LEMMA CallsBegin ==
    ASSUME LoopAssumption, LoopInvariant, stage = "ask", asking = "turn", out = <<>>,
           NEW text \in BOOLEAN, NEW n \in 1..MaxCalls,
           stage' = "tools", out' = Unsent(text) \o CallEvents(n),
           UNCHANGED <<asking, tries, emitted>>,
           worker' = [i \in 1..n |-> "new"], capped' \subseteq 1..n, asked' = asked \cup CallIds(n),
           UNCHANGED <<streaming, turn, count, executed, answered, hadTools, chanVars>>
    PROVE  LoopInvariant'
<1>. USE DEF LoopInvariant
<1>1. /\ worker' \in Seq({"new", "executing", "refused", "stored", "sent"}) /\ Len(worker') = n
      /\ (\A i \in 1..Len(worker') : worker'[i] = "new") /\ n \in Nat /\ n <= MaxCalls
  BY NewWorkers DEF LoopAssumption
<1>. DEFINE s == Unsent(text) \o CallEvents(n)
<1>2. /\ s \in Seq(Events)
      /\ \A k \in 1..Len(s) :
           \/ s[k].kind = "call" /\ \E i \in 1..n : Id(s[k]) = Pair(turn, i)
           \/ s[k].kind = "text" /\ k = 1 /\ s[k] = Text /\ ~streaming
      /\ \A i \in 1..n : \E k \in 1..Len(s) : s[k].kind = "call" /\ Id(s[k]) = Pair(turn, i)
  <2>1. s = Unsent(text) \o CallEvents(n)
    OBVIOUS
  <2>. HIDE DEF s
  <2>. QED
    <3>1. n \in Nat /\ text \in BOOLEAN /\ LoopTypes
      BY <1>1
    <3>2. Asking(s, n)
      BY <2>1, <3>1, TextThenCalls
    <3>. QED
      BY <3>2 DEF Asking
<1>3. out' = s
  OBVIOUS
<1>. HIDE DEF s
<1>4. Stream' = Stream \o s
  BY <1>3, MainSays DEF chanVars
<1>5. ~streaming => Id(Text) \notin Said
  BY TheEvents DEF TextIsNew, Generating
<1>6. InOrder(s, Calls, Given, Said)
  <2>1. \A k \in 1..Len(s) : s[k].kind \in {"call", "text"} /\ (s[k].kind = "text" => k = 1 /\ s[k] = Text /\ ~streaming)
    BY <1>2
  <2>. QED
    BY <1>2, <1>5, <2>1, PlainInOrder
<1>7. /\ Ordered'
      /\ Calls' = Calls \cup Sent(s, "call", Len(s))
      /\ Given' = Given \cup Sent(s, "result", Len(s))
      /\ Said' = Said \cup Sent(s, "text", Len(s))
      /\ Len(s) \in Nat /\ Len(Stream') = Len(Stream) + Len(s)
      /\ \A k \in 1..Len(Stream) : Stream'[k] = Stream[k]
      /\ \A k \in 1..Len(s) : Stream'[Len(Stream) + k] = s[k]
  BY <1>2, <1>4, <1>6, Grows DEF chanVars
<1>8. CallIds(n) = {Pair(turn, i) : i \in 1..n}
  BY DEF CallIds, Pair
<1>9. Sent(s, "call", Len(s)) = CallIds(n)
  <2>1. \A x \in Sent(s, "call", Len(s)) : \E i \in 1..n : x = Pair(turn, i)
    BY <1>2 DEF Sent
  <2>2. \A i \in 1..n : Pair(turn, i) \in Sent(s, "call", Len(s))
    <3>. SUFFICES ASSUME NEW i \in 1..n PROVE Pair(turn, i) \in Sent(s, "call", Len(s))
      OBVIOUS
    <3>1. PICK k \in 1..Len(s) : s[k].kind = "call" /\ Id(s[k]) = Pair(turn, i)
      BY <1>2
    <3>. QED
      BY <3>1 DEF Sent
  <2>. QED
    BY <1>8, <2>1, <2>2
<1>10. Sent(s, "result", Len(s)) = {} /\ \A x \in Sent(s, "text", Len(s)) : x = Id(Text)
  BY <1>2 DEF Sent
<1>11. Given' = Given /\ \A x \in Said' : x \in Said \/ x = Id(Text)
  BY <1>7, <1>10
<1>12. turn \in Nat /\ Len(Stream) \in Nat
  BY StreamTypes DEF LoopTypes, LoopAssumption
<1>13. LoopTypes'
  <2>1. Len(worker') <= MaxCalls /\ capped' \subseteq 1..Len(worker')
    BY <1>1
  <2>. QED
    BY <1>1, <1>2, <1>3, <2>1, Zenon DEF LoopTypes, chanVars
<1>14. CountsAreExecutions'
  BY DEF CountsAreExecutions
<1>15. asked = answered /\ Calls = asked /\ (\A x : x \in Given <=> x \in answered) /\ \A i : Pair(turn, i) \notin asked
  BY <1>12 DEF Rounds, ConversationIsSent, CallsAreNew, Generating
<1>16. ConversationIsSent'
  <2>1. Calls' = asked'
    BY <1>7, <1>9, <1>15
  <2>2. \A i \in 1..Len(worker') : worker'[i] # "sent"
    BY <1>1
  <2>. QED
    BY <1>11, <1>15, <2>1, <2>2 DEF ConversationIsSent
<1>17. Rounds'
  BY <1>1, <1>8, <1>15 DEF Rounds
<1>18. CallsAreNew'
  <2>. SUFFICES ASSUME NEW t \in Nat, NEW i, t > turn PROVE Pair(t, i) \notin asked'
    BY DEF CallsAreNew, Generating
  <2>1. Pair(t, i) \notin asked /\ t # turn
    BY <1>12 DEF CallsAreNew
  <2>2. \A k : Pair(turn, k) # Pair(t, i)
    BY <2>1, PairsEqual
  <2>. QED
    BY <1>8, <2>1, <2>2
<1>19. TextIsNew'
  <2>1. ASSUME NEW u \in Nat, NEW m, u > turn PROVE Pair(u, m) \notin Said'
    <3>1. Pair(u, m) \notin Said /\ u # turn
      BY <1>12, <2>1 DEF TextIsNew
    <3>2. Pair(u, m) # Id(Text)
      BY <3>1, TheEvents, PairsEqual
    <3>. QED
      BY <1>11, <3>1, <3>2
  <2>2. Pair(turn, 1) \notin Said'
    <3>1. Pair(turn, 1) \notin Said
      BY DEF TextIsNew, Generating
    <3>2. Pair(turn, 1) # Id(Text)
      BY TheEvents, PairsEqual
    <3>. QED
      BY <1>11, <3>1, <3>2
  <2>. QED
    BY <2>1, <2>2 DEF TextIsNew, Generating
<1>20. EndIsLast'
  <2>1. \A k \in 1..Len(s) : s[k].kind # "done"
    BY <1>2
  <2>2. \A k \in 1..Len(Stream') : k \in 1..Len(Stream) \/ (k - Len(Stream) \in 1..Len(s) /\ Len(Stream) + (k - Len(Stream)) = k)
    BY <1>7, <1>12
  <2>3. \A k \in 1..Len(Stream) : Stream'[k].kind # "done"
    BY <1>7 DEF EndIsLast, Over
  <2>4. \A k \in 1..Len(Stream') : Stream'[k].kind # "done"
    <3>. SUFFICES ASSUME NEW k \in 1..Len(Stream'), k \notin 1..Len(Stream) PROVE Stream'[k].kind # "done"
      BY <2>3
    <3>1. PICK j \in 1..Len(s) : Len(Stream) + j = k
      BY <2>2
    <3>. QED
      BY <1>7, <2>1, <3>1
  <2>. QED
    BY <2>4 DEF EndIsLast, Over, chanVars
<1>. QED
  BY <1>7, <1>13, <1>14, <1>16, <1>17, <1>18, <1>19, <1>20

LEMMA ResponseKeeps ==
    ASSUME LoopAssumption, LoopInvariant, NEW text \in BOOLEAN, NEW full \in BOOLEAN,
           NEW n \in 0..MaxCalls, NEW of \in SUBSET (1..MaxCalls), Response(text, n, of, full)
    PROVE  LoopInvariant'
<1>1. /\ stage = "ask" /\ asking = "turn" /\ out = <<>> /\ LoopTypes
      /\ UNCHANGED <<streaming, turn, count, executed, answered, hadTools, chanVars>>
  BY DEF Response, At, LoopInvariant
<1>2. turn \in 0..MaxTurns /\ turn \in Nat /\ n \in Nat /\ MaxCalls \in Nat
  BY <1>1 DEF LoopTypes, LoopAssumption
<1>3. turn' \in 0..MaxTurns /\ turn' >= turn
  BY <1>1, <1>2
<1>4. CASE full \/ n = 0
  <2>1. worker' = [i \in 1..0 |-> "new"] /\ capped' = of \cap 1..0 /\ asked' = asked \cup CallIds(0)
    BY <1>4 DEF Response
  <2>2. /\ worker' \in Seq({"new", "executing", "refused", "stored", "sent"}) /\ Len(worker') = 0
        /\ Len(worker') <= MaxCalls /\ capped' \subseteq 1..Len(worker')
    BY <1>2, <2>1, NewWorkers
  <2>3. asked' = asked
    BY <2>1 DEF CallIds
  <2>4. CASE \E t : Ending(t) /\ Leave(t)
    <3>1. PICK t : Ending(t) /\ Leave(t)
      BY <2>4
    <3>2. stage' = "leave" /\ out' = t /\ UNCHANGED <<asking, tries, emitted>>
      BY <3>1 DEF Leave
    <3>. QED
      BY <1>1, <1>3, <2>2, <2>3, <3>1, <3>2, LeaveKeeps DEF chanVars
  <2>5. CASE Generate("force", turn)
    <3>1. /\ channel' = channel /\ heard' = heard /\ turn' = turn
          /\ UNCHANGED <<streaming, hadTools, stopped, count, executed, asked, answered>>
      BY <1>1, <2>3 DEF chanVars
    <3>. QED
      BY <1>1, <1>2, <2>2, <2>5, <3>1, GenerateKeeps
  <2>6. CASE full
    <3>1. Event("limit", turn, 0) \in Events /\ Event("limit", turn, 0).kind = "limit"
      BY <1>2, KindsAreKinds, EventsAreEvents, EventFields
    <3>2. Ending(<<Event("limit", turn, 0), DoneEvent>>)
      BY <1>1, <3>1, SomethingThenDoneEnds
    <3>. QED
      BY <2>4, <2>6, <3>2 DEF Response
  <2>7. CASE ~full
    <3>1. Ending(Unsent(text) \o <<DoneEvent>>)
      BY <1>1, TextThenDoneEnds
    <3>. QED
      BY <1>4, <2>4, <2>5, <2>7, <3>1 DEF Response
  <2>. QED
    BY <2>6, <2>7
<1>5. CASE ~full /\ n # 0
  <2>1. /\ stage' = "tools" /\ out' = Unsent(text) \o CallEvents(n) /\ UNCHANGED <<asking, tries, emitted>>
        /\ worker' = [i \in 1..n |-> "new"] /\ capped' = of \cap 1..n /\ asked' = asked \cup CallIds(n)
    BY <1>2, <1>5 DEF Response
  <2>2. capped' \subseteq 1..n /\ n \in 1..MaxCalls
    BY <1>2, <1>5, <2>1
  <2>. QED
    BY <1>1, <2>1, <2>2, CallsBegin
<1>. QED
  BY <1>4, <1>5

LEMMA JoinsKeeps ==
    ASSUME LoopAssumption, LoopInvariant, Joins
    PROVE  LoopInvariant'
<1>. USE DEF LoopInvariant
<1>1. /\ stage = "tools" /\ out = <<>> /\ (\A i \in DOMAIN worker : worker[i] = "sent")
      /\ answered' = answered \cup CallIds(Len(worker)) /\ hadTools' = TRUE /\ stage' = "top"
      /\ out' \in {<<>>, <<Event("compaction", turn, 0)>>}
      /\ UNCHANGED <<asking, streaming, turn, tries, emitted, worker, capped, count,
                     executed, asked, chanVars>>
  BY DEF Joins, At
<1>2. turn \in Nat /\ Len(Stream) \in Nat /\ DOMAIN worker = 1..Len(worker)
  BY StreamTypes, LenProperties DEF LoopTypes, LoopAssumption
<1>3. PICK s : /\ out' = s /\ s \in Seq(Events) /\ Len(s) \in 0..1
               /\ \A k \in 1..Len(s) : s[k].kind = "compaction"
  <2>1. CASE out' = <<>>
    BY <2>1, NothingYet
  <2>2. CASE out' = <<Event("compaction", turn, 0)>>
    <3>1. Event("compaction", turn, 0) \in Events /\ Event("compaction", turn, 0).kind = "compaction"
      BY <1>2, KindsAreKinds, EventsAreEvents, EventFields
    <3>. DEFINE s == <<Event("compaction", turn, 0)>>
    <3>2. s \in Seq(Events) /\ Len(s) = 1 /\ s[1].kind = "compaction"
      BY <3>1, OneEvent
    <3>3. out' = s
      BY <2>2
    <3>. HIDE DEF s
    <3>. QED
      BY <3>2, <3>3
  <2>. QED
    BY <1>1, <2>1, <2>2
<1>4. Stream' = Stream \o s
  BY <1>1, <1>3, MainSays DEF chanVars
<1>5. InOrder(s, Calls, Given, Said)
  BY <1>3, PlainInOrder
<1>6. /\ Ordered'
      /\ Calls' = Calls \cup Sent(s, "call", Len(s))
      /\ Given' = Given \cup Sent(s, "result", Len(s))
      /\ Said' = Said \cup Sent(s, "text", Len(s))
      /\ Len(s) \in Nat /\ Len(Stream') = Len(Stream) + Len(s)
      /\ \A k \in 1..Len(Stream) : Stream'[k] = Stream[k]
      /\ \A k \in 1..Len(s) : Stream'[Len(Stream) + k] = s[k]
  BY <1>1, <1>3, <1>4, <1>5, Grows DEF chanVars
<1>7. Calls' = Calls /\ Given' = Given /\ Said' = Said
  <2>1. Sent(s, "call", Len(s)) = {} /\ Sent(s, "result", Len(s)) = {} /\ Sent(s, "text", Len(s)) = {}
    BY <1>3 DEF Sent
  <2>. QED
    BY <1>6, <2>1
<1>8. LoopTypes'
  <2>1. hadTools' \in BOOLEAN
    BY <1>1
  <2>. QED
    BY <1>1, <1>3, <2>1, Zenon DEF LoopTypes, chanVars
<1>9. CountsAreExecutions'
  BY <1>1 DEF CountsAreExecutions
<1>10. CallIds(Len(worker)) = {Pair(turn, i) : i \in 1..Len(worker)}
  BY DEF CallIds, Pair
<1>11. \A x : x \in answered' <=> x \in answered \/ \E i \in 1..Len(worker) : x = Pair(turn, i)
  BY <1>1, <1>10
<1>12. answered' = asked
  <2>1. \A x : x \in asked <=> x \in answered \/ \E i \in 1..Len(worker) : x = Pair(turn, i)
    BY <1>1 DEF Rounds
  <2>. QED
    BY <1>11, <2>1
<1>13. ConversationIsSent'
  <2>1. \A x : x \in Given <=> x \in answered'
    BY <1>1, <1>2, <1>11 DEF ConversationIsSent
  <2>. QED
    BY <1>1, <1>7, <2>1 DEF ConversationIsSent
<1>14. Rounds'
  BY <1>1, <1>2, <1>12 DEF Rounds
<1>15. CallsAreNew' /\ TextIsNew'
  BY <1>1, <1>7 DEF CallsAreNew, TextIsNew, Generating
<1>16. EndIsLast'
  <2>1. \A k \in 1..Len(Stream') : k \in 1..Len(Stream) \/ (k = Len(Stream) + 1 /\ 1 \in 1..Len(s))
    BY <1>2, <1>3, <1>6
  <2>2. 1 \in 1..Len(s) => Stream'[Len(Stream) + 1].kind = "compaction"
    BY <1>3, <1>6
  <2>. QED
    BY <1>1, <1>6, <2>1, <2>2 DEF EndIsLast, Over, chanVars
<1>. QED
  BY <1>6, <1>8, <1>9, <1>13, <1>14, <1>15, <1>16

\* One worker goes on, and the stream stays.
LEMMA WorkerKeeps ==
    ASSUME LoopAssumption, LoopInvariant, NEW i \in 1..Len(worker), worker[i] \notin {"new", "sent"} \/ out = <<>>,
           worker[i] # "sent", NEW w \in {"executing", "refused", "stored"},
           worker' = [worker EXCEPT ![i] = w], UNCHANGED <<mainVars, capped, asked, answered, chanVars>>
    PROVE  /\ stage = "tools" /\ LoopTypes' /\ ConversationIsSent' /\ Rounds' /\ CallsAreNew' /\ TextIsNew'
           /\ Ordered' /\ EndIsLast'
<1>. USE DEF LoopInvariant, mainVars, chanVars
<1>1. stage = "tools" /\ out = <<>>
  BY DEF Rounds
<1>2. /\ worker' \in Seq({"new", "executing", "refused", "stored", "sent"}) /\ Len(worker') = Len(worker)
      /\ worker'[i] = w /\ \A k \in 1..Len(worker) : k # i => worker'[k] = worker[k]
  BY ExceptSeq DEF LoopTypes
<1>3. Stream' = Stream
  BY DEF Stream
<1>4. Ordered' /\ Calls' = Calls /\ Given' = Given /\ Said' = Said
  BY <1>3, Silent
<1>5. LoopTypes'
  BY <1>2, Zenon DEF LoopTypes
<1>6. \A k \in 1..Len(worker) : worker'[k] = "sent" <=> worker[k] = "sent"
  BY <1>2
<1>7. ConversationIsSent'
  BY <1>2, <1>4, <1>6 DEF ConversationIsSent
<1>8. Rounds'
  BY <1>1, <1>2 DEF Rounds
<1>9. CallsAreNew' /\ TextIsNew'
  BY <1>4 DEF CallsAreNew, TextIsNew, Generating
<1>10. EndIsLast'
  BY <1>3 DEF EndIsLast, Over
<1>. QED
  BY <1>1, <1>4, <1>5, <1>7, <1>8, <1>9, <1>10

LEMMA CountsKeeps ==
    ASSUME LoopAssumption, LoopInvariant, NEW i \in 1..MaxCalls, Counts(i)
    PROVE  LoopInvariant'
<1>1. i \in 1..Len(worker) /\ worker[i] = "new" /\ out = <<>>
  BY LenProperties DEF Counts, At, LoopInvariant, LoopTypes
<1>2. PICK w \in {"executing", "refused"} :
        /\ worker' = [worker EXCEPT ![i] = w]
        /\ UNCHANGED <<mainVars, capped, asked, answered, chanVars>>
  BY DEF Counts
<1>3. /\ LoopTypes' /\ ConversationIsSent' /\ Rounds' /\ CallsAreNew' /\ TextIsNew'
      /\ Ordered' /\ EndIsLast'
  BY <1>1, <1>2, WorkerKeeps
<1>4. CountsAreExecutions'
  BY DEF LoopInvariant, CountsAreExecutions, Counts, LoopAssumption
<1>. QED
  BY <1>3, <1>4 DEF LoopInvariant

LEMMA StoresKeeps ==
    ASSUME LoopAssumption, LoopInvariant, NEW i \in 1..MaxCalls, Stores(i)
    PROVE  LoopInvariant'
<1>1. /\ i \in 1..Len(worker) /\ worker[i] \in {"executing", "refused"}
      /\ worker' = [worker EXCEPT ![i] = "stored"]
      /\ UNCHANGED <<mainVars, capped, count, executed, asked, answered, chanVars>>
  BY LenProperties DEF Stores, LoopInvariant, LoopTypes
<1>2. /\ LoopTypes' /\ ConversationIsSent' /\ Rounds' /\ CallsAreNew' /\ TextIsNew'
      /\ Ordered' /\ EndIsLast'
  BY <1>1, WorkerKeeps
<1>3. CountsAreExecutions'
  BY <1>1 DEF LoopInvariant, CountsAreExecutions
<1>. QED
  BY <1>2, <1>3 DEF LoopInvariant

LEMMA SendsResultKeeps ==
    ASSUME LoopAssumption, LoopInvariant, NEW i \in 1..MaxCalls, SendsResult(i)
    PROVE  LoopInvariant'
<1>. USE DEF LoopInvariant
<1>. DEFINE e == Event("result", turn, i)
            s == <<e>>
<1>1. /\ i \in 1..Len(worker) /\ worker[i] = "stored" /\ Len(channel) < Capacity
      /\ worker' = [worker EXCEPT ![i] = "sent"] /\ channel' = Append(channel, e)
      /\ UNCHANGED <<mainVars, capped, count, executed, asked, answered, stopped, heard>>
  BY LenProperties DEF SendsResult, HasRoom, LoopTypes
<1>2. stage = "tools" /\ out = <<>> /\ turn \in Nat /\ Len(Stream) \in Nat
  BY <1>1, StreamTypes DEF Rounds, LoopTypes, LoopAssumption
<1>3. /\ worker' \in Seq({"new", "executing", "refused", "stored", "sent"}) /\ Len(worker') = Len(worker)
      /\ worker'[i] = "sent" /\ \A k \in 1..Len(worker) : k # i => worker'[k] = worker[k]
  BY <1>1, ExceptSeq DEF LoopTypes
<1>4. e \in Events /\ e.kind = "result" /\ Id(e) = Pair(turn, i)
  BY <1>2, KindsAreKinds, EventsAreEvents, EventFields DEF Id
<1>. HIDE DEF e
<1>5. s \in Seq(Events) /\ Len(s) = 1 /\ s[1] = e
  BY <1>4, OneEvent
<1>6. Stream' = Stream \o s
  <2>1. channel \in Seq(Events)
    BY DEF LoopTypes
  <2>2. channel' \in Seq(Events) /\ channel' = channel \o s
    BY <1>1, <1>4, <2>1, AppendProperties, AppendIsConcat
  <2>3. Stream' = channel' /\ Stream = channel
    BY <1>1, <1>2, <2>1, <2>2, ConcatEmptySeq DEF Stream, mainVars
  <2>. QED
    BY <2>2, <2>3
<1>7. Pair(turn, i) \in Calls /\ Pair(turn, i) \notin Given
  <2>1. Pair(turn, i) \in asked /\ Pair(turn, i) \notin answered
    BY <1>1, <1>2 DEF Rounds
  <2>2. \A k \in 1..Len(worker) : worker[k] = "sent" => Pair(turn, k) # Pair(turn, i)
    BY <1>1, PairsEqual
  <2>. QED
    BY <2>1, <2>2 DEF ConversationIsSent
<1>8. InOrder(s, Calls, Given, Said)
  BY <1>4, <1>7, OneResultInOrder
<1>. HIDE DEF s
<1>9. /\ Ordered'
      /\ Calls' = Calls \cup Sent(s, "call", Len(s))
      /\ Given' = Given \cup Sent(s, "result", Len(s))
      /\ Said' = Said \cup Sent(s, "text", Len(s))
      /\ Len(Stream') = Len(Stream) + Len(s)
      /\ \A k \in 1..Len(Stream) : Stream'[k] = Stream[k]
      /\ \A k \in 1..Len(s) : Stream'[Len(Stream) + k] = s[k]
  BY <1>1, <1>5, <1>6, <1>8, Grows
<1>10. Calls' = Calls /\ Said' = Said /\ \A x : x \in Given' <=> x \in Given \/ x = Pair(turn, i)
  <2>1. \A k \in 1..Len(s) : k = 1 /\ s[k] = e
    BY <1>5
  <2>2. Sent(s, "call", Len(s)) = {} /\ Sent(s, "text", Len(s)) = {}
    BY <1>4, <2>1 DEF Sent
  <2>3. \A x : x \in Sent(s, "result", Len(s)) <=> x = Pair(turn, i)
    BY <1>4, <1>5, <2>1 DEF Sent
  <2>. QED
    BY <1>9, <2>2, <2>3
<1>11. LoopTypes'
  <2>1. channel' \in Seq(Events) /\ Len(channel') = Len(channel) + 1 /\ Len(channel) \in Nat /\ Capacity \in Nat
    BY <1>1, <1>4, AppendProperties, LenProperties DEF LoopTypes, LoopAssumption
  <2>2. Len(channel') <= Capacity
    BY <1>1, <2>1
  <2>. QED
    BY <1>1, <1>3, <2>1, <2>2, Zenon DEF LoopTypes, mainVars
<1>12. CountsAreExecutions'
  BY <1>1 DEF CountsAreExecutions
<1>13. ConversationIsSent'
  <2>1. \A x : (\E k \in 1..Len(worker) : worker'[k] = "sent" /\ x = Pair(turn, k)) <=>
               (\E k \in 1..Len(worker) : worker[k] = "sent" /\ x = Pair(turn, k)) \/ x = Pair(turn, i)
    BY <1>1, <1>3
  <2>. QED
    BY <1>1, <1>2, <1>3, <1>10, <2>1 DEF ConversationIsSent, mainVars
<1>14. Rounds'
  BY <1>1, <1>2, <1>3 DEF Rounds, mainVars
<1>15. CallsAreNew' /\ TextIsNew'
  BY <1>1, <1>10 DEF CallsAreNew, TextIsNew, Generating, mainVars
<1>16. EndIsLast'
  <2>1. \A k \in 1..Len(Stream') : k \in 1..Len(Stream) \/ k = Len(Stream) + 1
    BY <1>2, <1>5, <1>9
  <2>2. Stream'[Len(Stream) + 1].kind = "result"
    BY <1>4, <1>5, <1>9
  <2>. QED
    BY <1>1, <1>2, <1>9, <2>1, <2>2 DEF EndIsLast, Over, mainVars
<1>. QED
  BY <1>9, <1>11, <1>12, <1>13, <1>14, <1>15, <1>16

-----------------------------------------------------------------------------
\* The consumer's steps.

LEMMA FirstAndRest ==
    ASSUME NEW s \in Seq(Events), s # <<>>, NEW t \in Seq(Events)
    PROVE  /\ s[1] \in Events /\ Head(s) = s[1] /\ Tail(s) \in Seq(Events)
           /\ s \o t = <<s[1]>> \o (Tail(s) \o t)
           /\ Len(s \o t) = 1 + Len(Tail(s) \o t) /\ (s \o t)[1] = s[1]
           /\ \A k \in 1..Len(Tail(s) \o t) : (Tail(s) \o t)[k] = (s \o t)[k + 1]
<1>. DEFINE a == <<s[1]>>
            b == Tail(s)
            u == s \o t
            v == b \o t
            w == a \o v
<1>1. /\ s[1] \in Events /\ Head(s) = s[1] /\ b \in Seq(Events) /\ Len(b) = Len(s) - 1
      /\ \A i \in 1..Len(b) : b[i] = s[i + 1]
  BY HeadTailProperties
<1>2. a \in Seq(Events) /\ Len(a) = 1 /\ a[1] = s[1]
  BY <1>1, OneEvent
<1>3. Len(s) \in Nat /\ Len(t) \in Nat /\ Len(b) \in Nat /\ Len(s) >= 1
  BY <1>1, LenProperties
<1>. HIDE DEF a, b
<1>4. /\ u \in Seq(Events) /\ Len(u) = Len(s) + Len(t)
      /\ \A i \in 1 .. Len(s) + Len(t) : u[i] = IF i <= Len(s) THEN s[i] ELSE t[i - Len(s)]
  BY ConcatProperties
<1>5. /\ v \in Seq(Events) /\ Len(v) = Len(b) + Len(t)
      /\ \A i \in 1 .. Len(b) + Len(t) : v[i] = IF i <= Len(b) THEN b[i] ELSE t[i - Len(b)]
  BY <1>1, ConcatProperties
<1>. HIDE DEF u, v
<1>6. /\ w \in Seq(Events) /\ Len(w) = Len(a) + Len(v)
      /\ \A i \in 1 .. Len(a) + Len(v) : w[i] = IF i <= Len(a) THEN a[i] ELSE v[i - Len(a)]
  <2>1. a \in Seq(Events) /\ v \in Seq(Events)
    BY <1>2, <1>5
  <2>. QED
    BY <2>1, ConcatProperties
<1>. HIDE DEF w
<1>7. Len(u) = 1 + Len(v) /\ Len(w) = Len(u) /\ u[1] = s[1] /\ w[1] = s[1] /\ Len(v) \in Nat
  BY <1>1, <1>2, <1>3, <1>4, <1>5, <1>6
<1>8. \A k \in 1..Len(v) : v[k] = u[k + 1]
  <2>. SUFFICES ASSUME NEW k \in 1..Len(v) PROVE v[k] = u[k + 1]
    OBVIOUS
  <2>1. CASE k <= Len(b)
    <3>1. /\ k \in 1..Len(b) /\ k \in 1 .. Len(b) + Len(t) /\ k + 1 \in 1 .. Len(s) + Len(t) /\ k + 1 <= Len(s)
      BY <1>1, <1>3, <1>5, <2>1
    <3>. QED
      BY <1>1, <1>4, <1>5, <2>1, <3>1
  <2>2. CASE ~(k <= Len(b))
    <3>1. /\ k \in 1 .. Len(b) + Len(t) /\ k + 1 \in 1 .. Len(s) + Len(t) /\ ~(k + 1 <= Len(s))
          /\ (k + 1) - Len(s) = k - Len(b)
      BY <1>1, <1>3, <1>5, <2>2
    <3>. QED
      BY <1>4, <1>5, <2>2, <3>1
  <2>. QED
    BY <2>1, <2>2
<1>9. u = w
  <2>1. \A i \in 1..Len(u) : u[i] = w[i]
    <3>. SUFFICES ASSUME NEW i \in 1..Len(u), i # 1 PROVE u[i] = w[i]
      BY <1>7
    <3>1. PICK k \in 1..Len(v) : i = k + 1
      BY <1>7
    <3>2. i \in 1 .. Len(a) + Len(v) /\ ~(i <= Len(a)) /\ i - Len(a) = k
      BY <1>2, <1>7, <3>1
    <3>. QED
      BY <1>6, <1>8, <3>1, <3>2
  <2>. QED
    BY <1>4, <1>6, <1>7, <2>1, SeqEqual
<1>. QED
  BY <1>1, <1>7, <1>8, <1>9 DEF a, b, u, v, w

LEMMA ReceivesKeeps ==
    ASSUME LoopAssumption, LoopInvariant, Receives
    PROVE  LoopInvariant'
<1>. USE DEF LoopInvariant
<1>1. /\ channel # <<>> /\ channel' = Tail(channel)
      /\ UNCHANGED <<stage, asking, streaming, turn, tries, emitted, toolVars, out, stopped>>
  BY DEF Receives
<1>2. channel \in Seq(Events) /\ out \in Seq(Events) /\ Stream = channel \o out /\ Stream' = Tail(channel) \o out
  BY <1>1 DEF LoopTypes, Stream
<1>. DEFINE e == channel[1]
            a == <<e>>
            v == Tail(channel) \o out
<1>3. /\ e \in Events /\ Head(channel) = e /\ channel' \in Seq(Events) /\ Stream = a \o v
      /\ Len(Stream) = 1 + Len(v) /\ Stream[1] = e /\ \A k \in 1..Len(v) : v[k] = Stream[k + 1]
  BY <1>1, <1>2, FirstAndRest
<1>4. v \in Seq(Events) /\ Len(v) \in Nat /\ Stream' = v /\ Len(channel') < Len(channel) /\ Len(channel) \in Nat
  <2>1. channel' \in Seq(Events) /\ Len(channel') = Len(channel) - 1 /\ Len(channel) \in Nat
    BY <1>1, <1>2, HeadTailProperties, LenProperties
  <2>2. v \in Seq(Events)
    BY <1>1, <1>2, <2>1, ConcatProperties
  <2>. QED
    BY <1>2, <2>1, <2>2, LenProperties
<1>5. a \in Seq(Events) /\ Len(a) = 1 /\ a[1] = e
  BY <1>3, OneEvent
<1>. DEFINE Heard(kind) == IF e.kind = kind THEN {Id(e)} ELSE {}
<1>6. /\ heard'.announced = heard.announced \cup Heard("call")
      /\ heard'.resulted = heard.resulted \cup Heard("result")
      /\ heard'.said = heard.said \cup Heard("text")
      /\ heard'.last = e.kind
  <2>1. Id(e) = <<e.turn, e.n>>
    BY DEF Id, Pair
  <2>2. heard' =
             [announced |-> heard.announced \cup Heard("call"),
              resulted |-> heard.resulted \cup Heard("result"),
              said |-> heard.said \cup Heard("text"),
              last |-> e.kind]
    BY <1>3, <2>1 DEF Receives
  <2>. HIDE DEF Heard, e
  <2>. QED
    BY <2>2
<1>. HIDE DEF a, v
<1>7. \A kind : Sent(a, kind, Len(a)) = Heard(kind)
  BY <1>5 DEF Sent
<1>. HIDE DEF e
<1>8. \A kind : Sent(Stream, kind, Len(Stream)) = Heard(kind) \cup Sent(v, kind, Len(v))
  <2>1. Len(Stream) = Len(a) + Len(v)
    BY <1>3, <1>5
  <2>2. \A kind : Sent(a \o v, kind, Len(a) + Len(v)) = Sent(a, kind, Len(a)) \cup Sent(v, kind, Len(v))
    BY <1>4, <1>5, SentOfBoth
  <2>. HIDE DEF Heard
  <2>. QED
    BY <1>3, <1>7, <2>1, <2>2
<1>9. Ordered'
  <2>1. InOrder(a \o v, heard.announced, heard.resulted, heard.said)
    BY <1>3 DEF Ordered
  <2>2. InOrder(v, heard.announced \cup Sent(a, "call", Len(a)), heard.resulted \cup Sent(a, "result", Len(a)),
                heard.said \cup Sent(a, "text", Len(a)))
    BY <1>4, <1>5, <2>1, InOrderConcat
  <2>3. InOrder(v, heard'.announced, heard'.resulted, heard'.said)
    <3>. HIDE DEF Heard
    <3>. QED
      BY <1>6, <1>7, <2>2
  <2>. QED
    BY <1>4, <2>3 DEF Ordered
<1>10. Calls' = Calls /\ Given' = Given /\ Said' = Said
  <2>1. \A kind : Sent(Stream, kind, Len(Stream))' = Sent(v, kind, Len(v))
    BY <1>4
  <2>. HIDE DEF Heard
  <2>2. /\ Calls' = heard'.announced \cup Sent(v, "call", Len(v))
        /\ Given' = heard'.resulted \cup Sent(v, "result", Len(v))
        /\ Said' = heard'.said \cup Sent(v, "text", Len(v))
    BY <1>4 DEF Calls, Given, Said
  <2>. QED
    BY <1>6, <1>8, <2>2 DEF Calls, Given, Said
<1>11. LoopTypes'
  <2>1. Len(channel') <= Capacity
    BY <1>3, <1>4, LenProperties DEF LoopTypes, LoopAssumption
  <2>. QED
    BY <1>1, <1>3, <2>1, Zenon DEF LoopTypes, toolVars
<1>12. CountsAreExecutions'
  BY <1>1 DEF CountsAreExecutions, toolVars
<1>13. ConversationIsSent' /\ Rounds' /\ CallsAreNew' /\ TextIsNew'
  BY <1>1, <1>10 DEF ConversationIsSent, Rounds, CallsAreNew, TextIsNew, Generating, toolVars
<1>14. EndIsLast'
  <2>1. CASE ~Over
    <3>1. \A k \in 1..Len(Stream) : Stream[k].kind # "done"
      BY <2>1 DEF EndIsLast
    <3>2. 1 \in 1..Len(Stream) /\ \A k \in 1..Len(v) : k + 1 \in 1..Len(Stream)
      BY <1>3, <1>4
    <3>3. e.kind # "done" /\ \A k \in 1..Len(v) : v[k].kind # "done"
      BY <1>3, <3>1, <3>2
    <3>. QED
      BY <1>1, <1>4, <1>6, <2>1, <3>3 DEF EndIsLast, Over
  <2>2. CASE Over /\ Len(v) = 0
    <3>1. Len(Stream) = 1 /\ v = <<>>
      BY <1>3, <1>4, <2>2, EmptySeq
    <3>2. e.kind = "done" \/ (e.kind = "error" /\ stopped)
      BY <1>3, <2>2, <3>1 DEF EndIsLast
    <3>. QED
      BY <1>1, <1>4, <1>6, <2>2, <3>1, <3>2 DEF EndIsLast, Over
  <2>3. CASE Over /\ Len(v) > 0
    <3>1. \A k \in 1..(Len(Stream) - 1) : Stream[k].kind # "done"
      BY <2>3 DEF EndIsLast
    <3>2. e.kind # "done"
      BY <1>3, <1>4, <2>3, <3>1
    <3>3. \A k \in 1..(Len(v) - 1) : v[k].kind # "done"
      <4>1. \A k \in 1..(Len(v) - 1) : k \in 1..Len(v) /\ k + 1 \in 1..(Len(Stream) - 1)
        BY <1>3, <1>4
      <4>. QED
        BY <1>3, <3>1, <4>1
    <3>4. v[Len(v)] = Stream[Len(Stream)]
      BY <1>3, <1>4, <2>3
    <3>. QED
      BY <1>1, <1>3, <1>4, <1>6, <2>3, <3>2, <3>3, <3>4 DEF EndIsLast, Over
  <2>. QED
    BY <1>4, <2>1, <2>2, <2>3
<1>. QED
  BY <1>9, <1>11, <1>12, <1>13, <1>14

LEMMA CancelsKeeps ==
    ASSUME LoopAssumption, LoopInvariant, Cancels
    PROVE  LoopInvariant'
<1>. USE DEF LoopInvariant
<1>1. /\ stopped' = TRUE
      /\ UNCHANGED <<stage, asking, streaming, turn, tries, emitted, toolVars, out, channel, heard>>
  BY DEF Cancels
<1>2. Stream' = Stream
  BY <1>1 DEF Stream
<1>3. Ordered' /\ Calls' = Calls /\ Given' = Given /\ Said' = Said
  BY <1>1, <1>2, Silent
<1>4. LoopTypes'
  <2>1. stopped' \in BOOLEAN
    BY <1>1
  <2>. QED
    BY <1>1, <2>1, Zenon DEF LoopTypes, toolVars
<1>5. CountsAreExecutions'
  BY <1>1 DEF CountsAreExecutions, toolVars
<1>6. ConversationIsSent' /\ Rounds' /\ CallsAreNew' /\ TextIsNew'
  BY <1>1, <1>3 DEF ConversationIsSent, Rounds, CallsAreNew, TextIsNew, Generating, toolVars
<1>7. EndIsLast'
  BY <1>1, <1>2 DEF EndIsLast, Over
<1>. QED
  BY <1>3, <1>4, <1>5, <1>6, <1>7

LEMMA LoopStays ==
    ASSUME LoopInvariant, UNCHANGED loopVars
    PROVE  LoopInvariant'
<1>. USE DEF LoopInvariant, loopVars
<1>1. Stream' = Stream
  BY DEF Stream
<1>2. Ordered' /\ Calls' = Calls /\ Given' = Given /\ Said' = Said
  BY <1>1, Silent
<1>3. LoopTypes'
  BY Zenon DEF LoopTypes
<1>4. CountsAreExecutions'
  BY DEF CountsAreExecutions
<1>5. ConversationIsSent' /\ Rounds' /\ CallsAreNew' /\ TextIsNew'
  BY <1>2 DEF ConversationIsSent, Rounds, CallsAreNew, TextIsNew, Generating
<1>6. EndIsLast'
  BY <1>1 DEF EndIsLast, Over
<1>. QED
  BY <1>2, <1>3, <1>4, <1>5, <1>6

LEMMA LoopInvariantNext ==
    ASSUME LoopAssumption, LoopInvariant, [LoopNext]_loopVars
    PROVE  LoopInvariant'
<1>1. CASE Moves
  BY <1>1, NextTurnKeeps, TurnsOverKeeps, BackoffEndsKeeps, JoinsKeeps, SendsKeeps, ClosesKeeps DEF Moves
<1>2. CASE Answers
  <2>1. CASE \E kind \in {"retryable", "rate", "fatal"} : AttemptFails(kind)
    BY <2>1, AttemptFailsKeeps
  <2>2. CASE \E text, full \in BOOLEAN, n \in 0..MaxCalls, of \in SUBSET (1..MaxCalls) : Response(text, n, of, full)
    BY <2>2, ResponseKeeps
  <2>3. CASE \E text \in BOOLEAN : Closing(text)
    BY <2>3, ClosingKeeps
  <2>. QED
    BY <1>2, <2>1, <2>2, <2>3 DEF Answers
<1>3. CASE \E i \in 1..MaxCalls : Works(i)
  BY <1>3, CountsKeeps, StoresKeeps, SendsResultKeeps DEF Works
<1>. QED
  BY <1>1, <1>2, <1>3, StreamsKeeps, ReceivesKeeps, CancelsKeeps, LoopStays DEF LoopNext

-----------------------------------------------------------------------------
\* The plan.

\* The nodes of the plan that are on their way to a result, and those without one.
InHand == ready \cup taken \cup running \cup {r.node : r \in done}
Unresolved == {n \in DOMAIN plan : results[n] = NoResult}
NotDone(n) == {d \in plan[n] : ~ThisRound(d, "done")}
Bad(n) == ThisRound(n, "failed") \/ ThisRound(n, "skipped")

AtRest == ready = {} /\ taken = {} /\ running = {} /\ done = {}

\* A plan is executed in a round, and nothing of it is left after that.
RoundsApart ==
    /\ phase \in {"executing", "checking"} => round < MaxRounds
    /\ phase # "executing" => AtRest

\* A node is in one place, and is on its way once all it depends on is done.
EachInOnePlace ==
    /\ ready \cap taken = {} /\ ready \cap running = {} /\ taken \cap running = {}
    /\ \A r \in done : r.node \notin ready /\ r.node \notin taken /\ r.node \notin running
    /\ \A r, s \in done : r.node = s.node => r = s

Counted ==
    phase = "executing" =>
        /\ remaining = Cardinality(Unresolved)
        /\ DOMAIN inDegree = DOMAIN plan
        /\ \A n \in DOMAIN plan : inDegree[n] = Cardinality(NotDone(n))
        /\ \A n \in InHand : n \in DOMAIN plan /\ results[n] = NoResult /\ NotDone(n) = {}

\* A node has a verdict only if what it depends on has: it is skipped for a
\* dependency that failed or was skipped itself, and for nothing else.
VerdictsFollow ==
    phase \in {"executing", "checking"} =>
        \A n \in DOMAIN plan :
            /\ \/ results[n] = NoResult
               \/ ThisRound(n, "done") \/ ThisRound(n, "failed") \/ ThisRound(n, "skipped")
            /\ ThisRound(n, "done") \/ ThisRound(n, "failed") => NotDone(n) = {}
            /\ ThisRound(n, "skipped") <=> \E d \in plan[n] : Bad(d)
            /\ phase = "checking" => results[n] # NoResult

PlanInvariant == PlanTypeOK /\ RoundsApart /\ EachInOnePlace /\ Counted /\ VerdictsFollow

-----------------------------------------------------------------------------
LEMMA PlanFacts ==
    ASSUME PlanTypeOK
    PROVE  /\ DOMAIN plan \subseteq Node /\ IsFiniteSet(DOMAIN plan)
           /\ plan = [n \in DOMAIN plan |-> plan[n]]
           /\ \A n \in DOMAIN plan : plan[n] \subseteq DOMAIN plan /\ IsFiniteSet(plan[n])
           /\ \A n \in DOMAIN plan : n \notin plan[n]
<1>1. IsFiniteSet(Node)
  BY PlanAssumption
<1>2. PICK S \in SUBSET Node : plan \in [S -> SUBSET Node]
  BY DEF PlanTypeOK, Plans
<1>3. DOMAIN plan \subseteq Node /\ plan = [n \in DOMAIN plan |-> plan[n]]
  BY <1>2
<1>4. \A n \in DOMAIN plan : plan[n] \subseteq DOMAIN plan
  BY DEF PlanTypeOK, Validate
<1>5. IsFiniteSet(DOMAIN plan) /\ \A n \in DOMAIN plan : IsFiniteSet(plan[n])
  BY <1>1, <1>3, <1>4, FS_Subset
<1>6. \A n \in DOMAIN plan : n \notin plan[n]
  <2>. SUFFICES ASSUME NEW n \in DOMAIN plan PROVE n \notin plan[n]
    OBVIOUS
  <2>1. {n} \in (SUBSET DOMAIN plan) \ {{}}
    OBVIOUS
  <2>2. \E m \in {n} : plan[m] \cap {n} = {}
    BY <2>1 DEF PlanTypeOK, Validate, Acyclic
  <2>. QED
    BY <2>2
<1>. QED
  BY <1>3, <1>4, <1>5, <1>6

LEMMA VerdictsDiffer ==
    \A n : /\ ThisRound(n, "done") => ~ThisRound(n, "failed") /\ ~ThisRound(n, "skipped")
           /\ ThisRound(n, "failed") => ~ThisRound(n, "skipped")
           /\ \A s \in Statuses : ThisRound(n, s) => results[n] # NoResult
<1>. SUFFICES ASSUME NEW n
     PROVE  /\ ThisRound(n, "done") => ~ThisRound(n, "failed") /\ ~ThisRound(n, "skipped")
            /\ ThisRound(n, "failed") => ~ThisRound(n, "skipped")
            /\ \A s \in Statuses : ThisRound(n, s) => results[n] # NoResult
  OBVIOUS
<1>1. \A s : ThisRound(n, s) => results[n].status = s
  BY DEF ThisRound
<1>2. NoResult.status = "none" /\ "none" \notin Statuses
  BY DEF NoResult, Statuses
<1>. QED
  BY <1>1, <1>2

LEMMA RemoveSome ==
    ASSUME NEW S, IsFiniteSet(S), NEW T, T \subseteq S, NEW U, U = S \ T
    PROVE  IsFiniteSet(U) /\ IsFiniteSet(T) /\ Cardinality(U) = Cardinality(S) - Cardinality(T)
           /\ Cardinality(S) \in Nat /\ Cardinality(T) \in Nat /\ Cardinality(U) \in Nat
<1>1. IsFiniteSet(U) /\ IsFiniteSet(T)
  BY FS_Subset
<1>2. U \cup T = S /\ U \cap T = {}
  OBVIOUS
<1>3. Cardinality(U \cup T) = Cardinality(U) + Cardinality(T) - Cardinality(U \cap T)
  BY <1>1, FS_Union
<1>4. Cardinality(S) \in Nat /\ Cardinality(T) \in Nat /\ Cardinality(U) \in Nat /\ Cardinality({}) = 0
  BY <1>1, FS_CardinalityType, FS_EmptySet
<1>5. Cardinality(S) = Cardinality(U) + Cardinality(T) - Cardinality({})
  BY <1>2, <1>3
<1>. QED
  BY <1>1, <1>4, <1>5

LEMMA RemoveOne ==
    ASSUME NEW S, IsFiniteSet(S), NEW x \in S, NEW U, U = S \ {x}
    PROVE  IsFiniteSet(U) /\ Cardinality(U) = Cardinality(S) - 1 /\ Cardinality(S) \in Nat /\ Cardinality(S) > 0
<1>1. Cardinality({x}) = 1
  BY FS_Singleton
<1>2. /\ IsFiniteSet(U) /\ Cardinality(U) = Cardinality(S) - Cardinality({x}) /\ Cardinality(S) \in Nat
      /\ Cardinality(U) \in Nat
  BY RemoveSome
<1>. QED
  BY <1>1, <1>2

Reached(S, n, res) ==
    /\ S \subseteq DOMAIN plan /\ \A m \in S : res[m] = NoResult
    /\ \A m \in DOMAIN plan : res[m] = NoResult /\ n \in plan[m] => m \in S
    /\ \A m \in DOMAIN plan, d \in S : res[m] = NoResult /\ d \in plan[m] => m \in S
    /\ \A m \in S : \E d \in plan[m] : d = n \/ d \in S

\* cascadeSkip's queue: what a walk from a node reaches of what is open, each
\* for a dependency that is the node or was reached itself.
LEMMA SkipFromReaches ==
    ASSUME NEW n, NEW res, NEW S, S = SkipFrom(n, res)
    PROVE  Reached(S, n, res)
<1>. DEFINE open == {m \in DOMAIN plan : res[m] = NoResult}
            Shut(T) == /\ Dependents(n) \cap open \subseteq T
                       /\ \A m \in T : Dependents(m) \cap open \subseteq T
            Least(T) == Shut(T) /\ \A R \in SUBSET T : Shut(R) => R = T
            low == {m \in open : \A T \in SUBSET open : Shut(T) => m \in T}
<1>1. S = CHOOSE T \in SUBSET open : Least(T)
  BY DEF SkipFrom
<1>2. low \in SUBSET open /\ Least(low)
  <2>1. \A T \in SUBSET open : Shut(T) => low \subseteq T
    OBVIOUS
  <2>2. Shut(low)
    <3>1. Dependents(n) \cap open \subseteq low
      OBVIOUS
    <3>2. ASSUME NEW m \in low, NEW x \in Dependents(m) \cap open PROVE x \in low
      <4>. SUFFICES ASSUME NEW T \in SUBSET open, Shut(T) PROVE x \in T
        BY <3>2
      <4>. QED
        BY <3>2
    <3>. QED
      BY <3>1, <3>2
  <2>3. ASSUME NEW R \in SUBSET low, Shut(R) PROVE R = low
    <3>1. R \in SUBSET open
      BY <2>3
    <3>. QED
      BY <2>1, <2>3, <3>1
  <2>. QED
    BY <2>2, <2>3
<1>3. S \in SUBSET open /\ Least(S)
  <2>. HIDE DEF Least, low, open
  <2>. QED
    BY <1>1, <1>2
<1>4. S \subseteq DOMAIN plan /\ \A m \in S : res[m] = NoResult
  BY <1>3
<1>5. \A m \in DOMAIN plan : res[m] = NoResult /\ n \in plan[m] => m \in S
  BY <1>3 DEF Dependents
<1>6. \A m \in DOMAIN plan, d \in S : res[m] = NoResult /\ d \in plan[m] => m \in S
  BY <1>3 DEF Dependents
<1>7. \A m \in S : \E d \in plan[m] : d = n \/ d \in S
  <2>. DEFINE R == {m \in S : \E d \in plan[m] : d = n \/ d \in S}
  <2>1. R \in SUBSET S
    OBVIOUS
  <2>2. Shut(R)
    BY <1>3 DEF Dependents
  <2>3. R = S
    BY <1>3, <2>1, <2>2
  <2>. QED
    BY <2>3
<1>. QED
  BY <1>4, <1>5, <1>6, <1>7 DEF Reached

-----------------------------------------------------------------------------
LEMMA PlanInvariantInit == ASSUME Init PROVE PlanInvariant
<1>1. MaxRounds \in Nat /\ MaxRounds > 0 /\ IsFiniteSet(Node)
  BY PlanAssumption
<1>2. Cardinality(Node) \in Nat /\ Cardinality({}) = 0
  BY <1>1, FS_CardinalityType, FS_EmptySet
<1>3. EmptyPlan \in Plans /\ Validate(EmptyPlan) /\ DOMAIN EmptyPlan = {}
  <2>1. EmptyPlan \in [{} -> SUBSET Node] /\ DOMAIN EmptyPlan = {}
    BY DEF EmptyPlan
  <2>2. EmptyPlan \in Plans
    BY <2>1 DEF Plans
  <2>. QED
    BY <2>1, <2>2 DEF Validate, Acyclic
<1>4. PlanTypeOK
  <2>1. results \in [Node -> Results \cup {NoResult}] /\ DOMAIN inDegree = {}
    BY DEF Init
  <2>2. cancelled \in BOOLEAN
    BY DEF Init
  <2>. QED
    BY <1>1, <1>2, <1>3, <2>1, <2>2 DEF Init, PlanTypeOK
<1>5. RoundsApart /\ EachInOnePlace /\ Counted /\ VerdictsFollow
  BY DEF Init, RoundsApart, AtRest, EachInOnePlace, Counted, VerdictsFollow
<1>. QED
  BY <1>4, <1>5 DEF PlanInvariant

LEMMA EmptyPlanIsPlan == EmptyPlan \in Plans /\ Validate(EmptyPlan) /\ DOMAIN EmptyPlan = {}
<1>1. EmptyPlan \in [{} -> SUBSET Node] /\ DOMAIN EmptyPlan = {}
  BY DEF EmptyPlan
<1>2. EmptyPlan \in Plans
  BY <1>1 DEF Plans
<1>. QED
  BY <1>1, <1>2 DEF Validate, Acyclic

\* What the invariant says of verdicts, for every node of the plan.
LEMMA PlanInvariantImplies == ASSUME PlanInvariant PROVE PlanInv
<1>. USE DEF PlanInvariant
<1>1. DependenciesFirst
  <2>. SUFFICES ASSUME phase = "executing", NEW n \in ready \cup taken \cup running, NEW d \in plan[n]
                PROVE  ThisRound(d, "done")
    BY DEF DependenciesFirst
  <2>1. NotDone(n) = {}
    BY DEF Counted, InHand
  <2>. QED
    BY <2>1 DEF NotDone
<1>2. RemainingIsOpen
  <2>. SUFFICES ASSUME phase = "executing" PROVE remaining = Cardinality({n \in DOMAIN plan : results[n].at # round})
    BY DEF RemainingIsOpen
  <2>1. \A n \in DOMAIN plan : results[n].at # round <=> results[n] = NoResult
    <3>. SUFFICES ASSUME NEW n \in DOMAIN plan PROVE results[n].at # round <=> results[n] = NoResult
      OBVIOUS
    <3>1. NoResult.at = -1 /\ round \in Nat /\ \A s : [status |-> s, at |-> round].at = round
      BY PlanAssumption DEF NoResult, PlanTypeOK
    <3>2. CASE results[n] = NoResult
      <4>1. results[n].at = -1
        BY <3>1, <3>2
      <4>. QED
        BY <3>1, <3>2, <4>1
    <3>3. CASE \E s : results[n] = [status |-> s, at |-> round]
      <4>1. results[n].at = round
        BY <3>1, <3>3
      <4>. QED
        BY <3>1, <4>1
    <3>. QED
      BY <3>2, <3>3 DEF VerdictsFollow, ThisRound
  <2>2. {n \in DOMAIN plan : results[n].at # round} = Unresolved
    BY <2>1 DEF Unresolved
  <2>. QED
    BY <2>2 DEF Counted
<1>3. FailureSkipsAll
  <2>. SUFFICES ASSUME phase \in {"executing", "checking"}, NEW n \in DOMAIN plan,
                       NEW d \in Above(n), ThisRound(d, "failed"), ~ThisRound(n, "skipped")
                PROVE  FALSE
    BY DEF FailureSkipsAll
  <2>. DEFINE S == {m \in DOMAIN plan : ~Bad(m)}
  <2>1. \A m \in DOMAIN plan : ~ThisRound(m, "skipped") => plan[m] \subseteq S
    BY PlanFacts DEF VerdictsFollow
  <2>2. plan[n] \subseteq S /\ Closed(S)
    BY <2>1 DEF Closed, Bad
  <2>3. d \in S
    BY <2>2 DEF Above
  <2>. QED
    BY <2>3 DEF Bad
<1>4. ReturnsResolved
  <2>. SUFFICES ASSUME phase = "checking"
                PROVE  /\ ready \cup taken \cup running = {} /\ done = {}
                       /\ \A n \in DOMAIN plan :
                            /\ results[n].at = round
                            /\ ThisRound(n, "skipped") => \E d \in Above(n) : ThisRound(d, "failed")
    BY DEF ReturnsResolved
  <2>1. ready \cup taken \cup running = {} /\ done = {}
    BY DEF RoundsApart, AtRest
  <2>2. \A n \in DOMAIN plan : results[n].at = round
    <3>. SUFFICES ASSUME NEW n \in DOMAIN plan PROVE results[n].at = round
      OBVIOUS
    <3>1. \A s : [status |-> s, at |-> round].at = round
      OBVIOUS
    <3>2. \E s : results[n] = [status |-> s, at |-> round]
      BY DEF VerdictsFollow, ThisRound
    <3>. QED
      BY <3>1, <3>2
  <2>3. ASSUME NEW n \in DOMAIN plan, ThisRound(n, "skipped"), \A d \in Above(n) : ~ThisRound(d, "failed")
        PROVE  FALSE
    <3>. DEFINE C == {m \in DOMAIN plan : ThisRound(m, "skipped") /\ (m = n \/ m \in Above(n))}
    <3>1. \A m \in DOMAIN plan : m = n \/ m \in Above(n) => plan[m] \subseteq Above(n)
      <4>. SUFFICES ASSUME NEW m \in DOMAIN plan, m = n \/ m \in Above(n), NEW d \in plan[m]
                    PROVE  d \in Above(n)
        OBVIOUS
      <4>. SUFFICES ASSUME NEW S \in SUBSET DOMAIN plan, plan[n] \subseteq S, Closed(S) PROVE d \in S
        BY PlanFacts DEF Above
      <4>1. m = n \/ m \in S
        BY DEF Above
      <4>. QED
        BY <4>1 DEF Closed
    <3>2. C \in (SUBSET DOMAIN plan) \ {{}}
      BY <2>3
    <3>3. PICK m \in C : plan[m] \cap C = {}
      BY <3>2 DEF PlanTypeOK, Validate, Acyclic
    <3>4. PICK d \in plan[m] : Bad(d)
      BY <3>3 DEF VerdictsFollow
    <3>5. d \in Above(n) /\ d \in DOMAIN plan
      BY <3>1, <3>3, <3>4, PlanFacts
    <3>6. ThisRound(d, "skipped")
      BY <2>3, <3>4, <3>5 DEF Bad
    <3>. QED
      BY <3>3, <3>4, <3>5, <3>6
  <2>. QED
    BY <2>1, <2>2, <2>3
<1>. QED
  BY <1>1, <1>2, <1>3, <1>4 DEF PlanInv

LEMMA PlanStays ==
    ASSUME PlanInvariant,
           \/ CancelContext \/ StopPlanning \/ RefusePlan \/ CheckResult \/ RoundsOver
           \/ Done \/ UNCHANGED vars
    PROVE  PlanInvariant'
<1>. USE DEF PlanInvariant
<1>1. MaxRounds \in Nat /\ MaxRounds > 0
  BY PlanAssumption
<1>2. CASE CancelContext
  <2>1. PlanTypeOK'
    BY <1>2, Zenon DEF CancelContext, execVars, PlanTypeOK, Validate, Acyclic
  <2>2. RoundsApart' /\ EachInOnePlace' /\ Counted' /\ VerdictsFollow'
    BY <1>2 DEF CancelContext, execVars, RoundsApart, AtRest, EachInOnePlace, Counted, VerdictsFollow,
                InHand, Unresolved, NotDone, Bad, ThisRound
  <2>. QED
    BY <2>1, <2>2
<1>3. CASE UNCHANGED vars
  <2>1. PlanTypeOK'
    BY <1>3, Zenon DEF vars, PlanTypeOK, Validate, Acyclic
  <2>2. RoundsApart' /\ EachInOnePlace' /\ Counted' /\ VerdictsFollow'
    BY <1>3 DEF vars, RoundsApart, AtRest, EachInOnePlace, Counted, VerdictsFollow,
                InHand, Unresolved, NotDone, Bad, ThisRound
  <2>. QED
    BY <2>1, <2>2
<1>4. CASE Done
  BY <1>3, <1>4 DEF Done
<1>5. CASE StopPlanning \/ RefusePlan
  <2>1. /\ phase = "planning" /\ phase' = "ended" /\ plan' = EmptyPlan
        /\ UNCHANGED <<round, execVars, results, cancelled>>
    BY <1>5 DEF StopPlanning, RefusePlan, End
  <2>2. plan' \in Plans /\ Validate(plan)'
    BY <2>1, EmptyPlanIsPlan DEF Validate, Acyclic
  <2>3. PlanTypeOK'
    BY <2>1, <2>2, Zenon DEF execVars, PlanTypeOK
  <2>4. RoundsApart' /\ EachInOnePlace'
    BY <2>1 DEF execVars, RoundsApart, AtRest, EachInOnePlace
  <2>5. Counted' /\ VerdictsFollow'
    BY <2>1 DEF Counted, VerdictsFollow
  <2>. QED
    BY <2>3, <2>4, <2>5
<1>6. CASE RoundsOver
  <2>1. /\ phase = "planning" /\ phase' = "ended" /\ plan' = plan
        /\ UNCHANGED <<round, execVars, results, cancelled>>
    BY <1>6 DEF RoundsOver, End
  <2>3. PlanTypeOK'
    BY <2>1, Zenon DEF execVars, PlanTypeOK, Validate, Acyclic
  <2>4. RoundsApart' /\ EachInOnePlace'
    BY <2>1 DEF execVars, RoundsApart, AtRest, EachInOnePlace
  <2>5. Counted' /\ VerdictsFollow'
    BY <2>1 DEF Counted, VerdictsFollow
  <2>. QED
    BY <2>3, <2>4, <2>5
<1>7. CASE CheckResult
  <2>1. /\ phase = "checking" /\ phase' \in {"planning", "ended"} /\ round' \in {round, round + 1}
        /\ UNCHANGED <<plan, execVars, results, cancelled>>
    BY <1>7 DEF CheckResult
  <2>2. round' \in 0..MaxRounds
    BY <1>1, <2>1 DEF RoundsApart, PlanTypeOK
  <2>3. PlanTypeOK'
    <3>1. Validate(plan)'
      BY <2>1 DEF PlanTypeOK, Validate, Acyclic
    <3>. QED
      BY <2>1, <2>2, <3>1, Zenon DEF execVars, PlanTypeOK
  <2>4. RoundsApart' /\ EachInOnePlace'
    BY <2>1 DEF execVars, RoundsApart, AtRest, EachInOnePlace
  <2>5. Counted' /\ VerdictsFollow'
    BY <2>1 DEF Counted, VerdictsFollow
  <2>. QED
    BY <2>3, <2>4, <2>5
<1>. QED
  BY <1>2, <1>3, <1>4, <1>5, <1>6, <1>7

\* Execute's set-up, of a plan whose ids have no result yet.
LEMMA PlanBeginRound ==
    ASSUME PlanInvariant, ~ReuseIDs, BeginRound PROVE PlanInvariant'
<1>. USE DEF PlanInvariant
<1>1. PICK g \in Plans : /\ Validate(g) /\ \A n \in DOMAIN g : results[n] = NoResult
                         /\ Execute(g)
  BY DEF BeginRound
<1>2. /\ phase = "planning" /\ phase' = "executing" /\ round < MaxRounds /\ plan' = g
      /\ inDegree' = [n \in DOMAIN g |-> Cardinality(g[n])]
      /\ ready' = {n \in DOMAIN g : g[n] = {}} /\ remaining' = Cardinality(DOMAIN g)
      /\ UNCHANGED <<taken, running, done, round, results, cancelled>>
  BY <1>1 DEF BeginRound, Execute
<1>3. AtRest
  BY <1>2 DEF RoundsApart
<1>4. PICK S \in SUBSET Node : g \in [S -> SUBSET Node]
  BY <1>1 DEF Plans
<1>5. DOMAIN g = S /\ S \subseteq Node /\ \A n \in S : g[n] \subseteq S
  BY <1>1, <1>4 DEF Validate
<1>6. /\ IsFiniteSet(Node) /\ IsFiniteSet(S) /\ \A T \in SUBSET Node : Cardinality(T) \in 0..Cardinality(Node)
  <2>1. IsFiniteSet(Node) /\ Cardinality(Node) \in Nat
    BY PlanAssumption, FS_CardinalityType
  <2>2. ASSUME NEW T \in SUBSET Node PROVE IsFiniteSet(T) /\ Cardinality(T) \in 0..Cardinality(Node)
    <3>1. IsFiniteSet(T) /\ Cardinality(T) <= Cardinality(Node)
      BY <2>1, FS_Subset
    <3>2. Cardinality(T) \in Nat
      BY <3>1, FS_CardinalityType
    <3>. QED
      BY <2>1, <3>1, <3>2
  <2>. QED
    BY <2>1, <2>2, <1>5
<1>7. \A n, s : ~ThisRound(n, s)' \/ n \notin S \/ s \notin Statuses
  <2>. SUFFICES ASSUME NEW n \in S, NEW s \in Statuses, results[n] = [status |-> s, at |-> round] PROVE FALSE
    BY <1>2 DEF ThisRound
  <2>1. ThisRound(n, s)
    BY DEF ThisRound
  <2>. QED
    BY <1>1, <1>5, <2>1, VerdictsDiffer
<1>8. \A n \in S : NotDone(n)' = g[n]
  BY <1>2, <1>5, <1>7 DEF NotDone, Statuses
<1>9. PlanTypeOK'
  <2>1. Validate(plan)' /\ plan' \in Plans
    BY <1>1, <1>2 DEF Validate, Acyclic
  <2>2. DOMAIN inDegree' \subseteq Node /\ \A n \in DOMAIN inDegree' : inDegree'[n] \in 0..Cardinality(Node)
    BY <1>2, <1>4, <1>5, <1>6
  <2>3. remaining' \in 0..Cardinality(Node) /\ ready' \subseteq Node
    BY <1>2, <1>5, <1>6
  <2>4. phase' \in {"planning", "executing", "checking", "ended"}
    BY <1>2
  <2>. QED
    BY <1>2, <2>1, <2>2, <2>3, <2>4, Zenon DEF PlanTypeOK
<1>10. RoundsApart' /\ EachInOnePlace'
  BY <1>2, <1>3 DEF RoundsApart, AtRest, EachInOnePlace
<1>11. Counted'
  <2>1. Unresolved' = S
    BY <1>1, <1>2, <1>5 DEF Unresolved
  <2>2. InHand' = {n \in S : g[n] = {}}
    BY <1>2, <1>3, <1>5 DEF InHand, AtRest
  <2>. QED
    BY <1>1, <1>2, <1>5, <1>8, <2>1, <2>2 DEF Counted
<1>12. VerdictsFollow'
  <2>. SUFFICES ASSUME NEW n \in S
       PROVE  /\ results[n] = NoResult
              /\ ~ThisRound(n, "done")' /\ ~ThisRound(n, "failed")' /\ ~ThisRound(n, "skipped")'
              /\ \A d \in g[n] : ~Bad(d)'
    BY <1>2, <1>5 DEF VerdictsFollow
  <2>1. "done" \in Statuses /\ "failed" \in Statuses /\ "skipped" \in Statuses
    BY DEF Statuses
  <2>2. \A m \in S : ~ThisRound(m, "done")' /\ ~ThisRound(m, "failed")' /\ ~ThisRound(m, "skipped")'
    BY <1>7, <2>1
  <2>. QED
    BY <1>1, <1>5, <2>2 DEF Bad
<1>. QED
  BY <1>9, <1>10, <1>11, <1>12

\* The steps that only move a node: no verdict and no count changes.
LEMMA PlanMoves ==
    ASSUME PlanInvariant, UNCHANGED <<phase, round, plan, inDegree, remaining, results, cancelled>>,
           InHand' = InHand, PlanTypeOK', EachInOnePlace', RoundsApart'
    PROVE  PlanInvariant'
<1>. USE DEF PlanInvariant
<1>1. \A n, s : ThisRound(n, s)' <=> ThisRound(n, s)
  BY DEF ThisRound
<1>2. Unresolved' = Unresolved /\ \A n : NotDone(n)' = NotDone(n) /\ (Bad(n)' <=> Bad(n))
  BY <1>1 DEF Unresolved, NotDone, Bad
<1>3. Counted'
  BY <1>2 DEF Counted
<1>4. VerdictsFollow'
  BY <1>1, <1>2 DEF VerdictsFollow
<1>. QED
  BY <1>3, <1>4

LEMMA PlanDispatch == ASSUME PlanInvariant, Dispatch PROVE PlanInvariant'
<1>. USE DEF PlanInvariant
<1>1. PICK n \in ready : taken' = {n} /\ ready' = ready \ {n}
  BY DEF Dispatch
<1>2. /\ taken = {}
      /\ UNCHANGED <<phase, round, plan, inDegree, running, done, remaining, results, cancelled>>
  BY DEF Dispatch
<1>3. PlanTypeOK'
  <2>0. Cardinality({n}) = 1
    BY FS_Singleton
  <2>1. taken' \subseteq Node /\ Cardinality(taken') <= 1 /\ ready' \subseteq Node
    BY <1>1, <2>0 DEF PlanTypeOK
  <2>2. Validate(plan)'
    BY <1>2 DEF PlanTypeOK, Validate, Acyclic
  <2>. QED
    BY <1>2, <2>1, <2>2, Zenon DEF PlanTypeOK
<1>4. InHand' = InHand
  BY <1>1, <1>2 DEF InHand
<1>5. EachInOnePlace'
  BY <1>1, <1>2 DEF EachInOnePlace
<1>6. RoundsApart'
  BY <1>1, <1>2 DEF RoundsApart, AtRest
<1>. QED
  BY <1>2, <1>3, <1>4, <1>5, <1>6, PlanMoves

LEMMA PlanStartNode == ASSUME PlanInvariant, StartNode PROVE PlanInvariant'
<1>. USE DEF PlanInvariant
<1>1. /\ taken # {} /\ running' = running \cup taken /\ taken' = {}
      /\ UNCHANGED <<phase, round, plan, inDegree, ready, done, remaining, results, cancelled>>
  BY DEF StartNode
<1>2. PlanTypeOK'
  <2>1. taken' \subseteq Node /\ Cardinality(taken') <= 1 /\ running' \subseteq Node
    BY <1>1, FS_EmptySet DEF PlanTypeOK
  <2>2. Validate(plan)'
    BY <1>1 DEF PlanTypeOK, Validate, Acyclic
  <2>. QED
    BY <1>1, <2>1, <2>2, Zenon DEF PlanTypeOK
<1>3. InHand' = InHand
  BY <1>1 DEF InHand
<1>4. EachInOnePlace'
  BY <1>1 DEF EachInOnePlace
<1>5. RoundsApart'
  BY <1>1 DEF RoundsApart, AtRest
<1>. QED
  BY <1>1, <1>2, <1>3, <1>4, <1>5, PlanMoves

LEMMA PlanNodeEnds == ASSUME PlanInvariant, NEW n \in Node, NodeEnds(n) PROVE PlanInvariant'
<1>. USE DEF PlanInvariant
<1>1. PICK s \in {"done", "failed"} : done' = done \cup {[node |-> n, status |-> s]}
  BY DEF NodeEnds
<1>2. PICK r \in [node : Node, status : {"done", "failed"}] :
        r.node = n /\ done' = done \cup {r}
  BY <1>1
<1>3. /\ n \in running /\ running' = running \ {n}
      /\ UNCHANGED <<phase, round, plan, inDegree, ready, taken, remaining, results, cancelled>>
  BY DEF NodeEnds
<1>4. PlanTypeOK'
  <2>1. running' \subseteq Node /\ done' \subseteq [node : Node, status : {"done", "failed"}]
    BY <1>2, <1>3, Zenon DEF PlanTypeOK
  <2>2. Validate(plan)'
    BY <1>3 DEF PlanTypeOK, Validate, Acyclic
  <2>. QED
    BY <1>3, <2>1, <2>2, Zenon DEF PlanTypeOK
<1>5. InHand' = InHand
  <2>1. {x.node : x \in done'} = {x.node : x \in done} \cup {n}
    BY <1>2
  <2>. QED
    BY <1>3, <2>1 DEF InHand
<1>6. EachInOnePlace'
  BY <1>2, <1>3 DEF EachInOnePlace
<1>7. RoundsApart'
  BY <1>2, <1>3 DEF RoundsApart, AtRest
<1>. QED
  BY <1>3, <1>4, <1>5, <1>6, <1>7, PlanMoves

\* Execute returns when no node is open, and then none is on its way.
LEMMA PlanExecuteReturns == ASSUME PlanInvariant, ExecuteReturns PROVE PlanInvariant'
<1>. USE DEF PlanInvariant
<1>1. /\ phase = "executing" /\ remaining = 0 /\ phase' = "checking"
      /\ UNCHANGED <<round, plan, execVars, results, cancelled>>
  BY DEF ExecuteReturns
<1>2. Unresolved = {}
  <2>1. IsFiniteSet(Unresolved)
    BY PlanFacts, FS_Subset DEF Unresolved
  <2>. QED
    BY <1>1, <2>1, FS_EmptySet DEF Counted
<1>3. InHand = {}
  BY <1>1, <1>2 DEF Counted, Unresolved
<1>4. AtRest
  BY <1>3 DEF InHand, AtRest
<1>5. PlanTypeOK'
  <2>1. Validate(plan)' /\ phase' \in {"planning", "executing", "checking", "ended"}
    BY <1>1 DEF PlanTypeOK, Validate, Acyclic
  <2>. QED
    BY <1>1, <2>1, Zenon DEF PlanTypeOK, execVars
<1>6. RoundsApart' /\ EachInOnePlace' /\ Counted'
  BY <1>1, <1>4 DEF execVars, RoundsApart, AtRest, EachInOnePlace, Counted
<1>7. VerdictsFollow'
  BY <1>1, <1>2 DEF VerdictsFollow, Unresolved, NotDone, Bad, ThisRound
<1>. QED
  BY <1>5, <1>6, <1>7

\* A result is received: what was on its way, without the node it is of.
LEMMA PlanReceived ==
    ASSUME PlanInvariant, phase = "executing", NEW r \in done, NEW n, n = r.node
    PROVE  /\ n \in DOMAIN plan /\ n \in Node /\ results[n] = NoResult /\ NotDone(n) = {}
           /\ \A s \in Statuses : ~ThisRound(n, s)
           /\ n \notin ready \cup taken \cup running \cup {x.node : x \in done \ {r}}
           /\ InHand = (ready \cup taken \cup running \cup {x.node : x \in done \ {r}}) \cup {n}
           /\ \A m \in InHand : m \in DOMAIN plan /\ results[m] = NoResult /\ NotDone(m) = {}
           /\ round \in 0..MaxRounds - 1 /\ r.status \in {"done", "failed"}
<1>. USE DEF PlanInvariant
<1>1. n \in InHand
  BY DEF InHand
<1>2. \A m \in InHand : m \in DOMAIN plan /\ results[m] = NoResult /\ NotDone(m) = {}
  BY DEF Counted
<1>3. \A s \in Statuses : ~ThisRound(n, s)
  BY <1>1, <1>2, VerdictsDiffer
<1>4. n \notin ready \cup taken \cup running \cup {x.node : x \in done \ {r}}
  BY DEF EachInOnePlace
<1>5. InHand = (ready \cup taken \cup running \cup {x.node : x \in done \ {r}}) \cup {n}
  BY DEF InHand
<1>6. n \in Node /\ r.status \in {"done", "failed"}
  BY DEF PlanTypeOK
<1>7. round \in 0..MaxRounds - 1
  BY PlanAssumption DEF RoundsApart, PlanTypeOK
<1>. QED
  BY <1>1, <1>2, <1>3, <1>4, <1>5, <1>6, <1>7

LEMMA ResultIsResult ==
    ASSUME PlanInvariant, round \in 0..MaxRounds - 1
    PROVE  \A s \in Statuses : [status |-> s, at |-> round] \in Results \cup {NoResult}
BY DEF Results

\* What Store leaves of the verdicts.
LEMMA StoreGives ==
    ASSUME NEW res \in [Node -> Results \cup {NoResult}], NEW S, NEW s \in Statuses,
           PlanInvariant, round \in 0..MaxRounds - 1, NEW q, q = Store(res, S, s)
    PROVE  /\ q \in [Node -> Results \cup {NoResult}]
           /\ \A m \in Node : m \in S => q[m] = [status |-> s, at |-> round]
           /\ \A m \in Node : m \notin S => q[m] = res[m]
<1>1. [status |-> s, at |-> round] \in Results \cup {NoResult}
  BY ResultIsResult
<1>2. PICK v \in Results \cup {NoResult} : v = [status |-> s, at |-> round]
  BY <1>1
<1>3. q = [m \in Node |-> IF m \in S THEN v ELSE res[m]]
  BY <1>2 DEF Store
<1>4. q \in [Node -> Results \cup {NoResult}]
  BY <1>3
<1>. QED
  BY <1>2, <1>3, <1>4

\* Receive, of a failure: what it reaches is skipped.
LEMMA PlanReceiveFailed ==
    ASSUME PlanInvariant, phase = "executing", remaining > 0, NEW r \in done, r.status = "failed",
           done' = done \ {r}, NEW n, n = r.node, NEW stored, stored = Store(results, {n}, "failed"),
           CascadeSkip(n, stored), UNCHANGED <<phase, round, plan, taken, running, cancelled>>
    PROVE  PlanInvariant'
<1>. USE DEF PlanInvariant
<1>. DEFINE rest == ready \cup taken \cup running \cup {x.node : x \in done \ {r}}
<1>1. /\ n \in DOMAIN plan /\ n \in Node /\ results[n] = NoResult /\ NotDone(n) = {}
      /\ \A s \in Statuses : ~ThisRound(n, s)
      /\ n \notin rest /\ InHand = rest \cup {n}
      /\ \A m \in InHand : m \in DOMAIN plan /\ results[m] = NoResult /\ NotDone(m) = {}
      /\ round \in 0..MaxRounds - 1
  BY PlanReceived
<1>2. PICK S : S = SkipFrom(n, stored)
  OBVIOUS
<1>3. /\ results' = Store(stored, S, "skipped") /\ remaining' = remaining - 1 - Cardinality(S)
      /\ UNCHANGED <<inDegree, ready>>
  BY <1>2 DEF CascadeSkip
<1>4. /\ S \subseteq DOMAIN plan /\ \A m \in S : stored[m] = NoResult
      /\ \A m \in DOMAIN plan : stored[m] = NoResult /\ n \in plan[m] => m \in S
      /\ \A m \in DOMAIN plan, d \in S : stored[m] = NoResult /\ d \in plan[m] => m \in S
      /\ \A m \in S : \E d \in plan[m] : d = n \/ d \in S
  <2>1. Reached(S, n, stored)
    BY <1>2, SkipFromReaches
  <2>. QED
    BY <2>1 DEF Reached
<1>5. /\ "failed" \in Statuses /\ "skipped" \in Statuses /\ "done" \in Statuses
      /\ results \in [Node -> Results \cup {NoResult}]
  BY DEF Statuses, PlanTypeOK
<1>6. /\ stored \in [Node -> Results \cup {NoResult}]
      /\ \A m \in Node : m \in {n} => stored[m] = [status |-> "failed", at |-> round]
      /\ \A m \in Node : m \notin {n} => stored[m] = results[m]
  BY <1>1, <1>5, StoreGives
<1>7. /\ results' \in [Node -> Results \cup {NoResult}]
      /\ \A m \in Node : m \in S => results'[m] = [status |-> "skipped", at |-> round]
      /\ \A m \in Node : m \notin S => results'[m] = stored[m]
  BY <1>1, <1>3, <1>5, <1>6, StoreGives
<1>8. DOMAIN plan \subseteq Node /\ IsFiniteSet(DOMAIN plan)
      /\ \A m \in DOMAIN plan : plan[m] \subseteq DOMAIN plan /\ m \notin plan[m]
  BY PlanFacts
<1>9. n \notin S
  <2>1. [status |-> "failed", at |-> round] # NoResult
    <3>1. NoResult.status = "none" /\ [status |-> "failed", at |-> round].status = "failed"
      BY DEF NoResult
    <3>. QED
      BY <3>1
  <2>. QED
    BY <1>1, <1>4, <1>6, <2>1
<1>10. \A m \in S : results[m] = NoResult
  BY <1>4, <1>6, <1>8, <1>9
<1>11. \A m \in S \cup {n}, s \in Statuses : ~ThisRound(m, s)
  BY <1>1, <1>10, VerdictsDiffer
<1>12. /\ ThisRound(n, "failed")'
       /\ \A m \in S : ThisRound(m, "skipped")'
       /\ \A m \in Node, s \in Statuses : m # n /\ m \notin S => (ThisRound(m, s)' <=> ThisRound(m, s))
  BY <1>1, <1>4, <1>6, <1>7, <1>8, <1>9 DEF ThisRound
<1>13. /\ ~ThisRound(n, "done")' /\ ~ThisRound(n, "skipped")'
       /\ \A m \in S : ~ThisRound(m, "done")' /\ ~ThisRound(m, "failed")'
  <2>1. \A s, t : [status |-> s, at |-> round] = [status |-> t, at |-> round] => s = t
    <3>. SUFFICES ASSUME NEW s, NEW t, [status |-> s, at |-> round] = [status |-> t, at |-> round] PROVE s = t
      OBVIOUS
    <3>1. [status |-> s, at |-> round].status = s /\ [status |-> t, at |-> round].status = t
      OBVIOUS
    <3>. QED
      BY <3>1
  <2>2. \A m : (ThisRound(m, "failed")' => ~ThisRound(m, "done")' /\ ~ThisRound(m, "skipped")')
             /\ (ThisRound(m, "skipped")' => ~ThisRound(m, "done")' /\ ~ThisRound(m, "failed")')
    BY <1>3, <2>1 DEF ThisRound
  <2>. QED
    BY <1>12, <2>2
<1>14. \A d \in DOMAIN plan : Bad(d)' <=> (Bad(d) \/ d = n \/ d \in S)
  BY <1>5, <1>8, <1>11, <1>12, <1>13 DEF Bad
<1>15. \A m \in DOMAIN plan : NotDone(m)' = NotDone(m)
  <2>1. \A d \in DOMAIN plan : ThisRound(d, "done")' <=> ThisRound(d, "done")
    BY <1>5, <1>8, <1>11, <1>12, <1>13
  <2>. QED
    BY <1>8, <2>1 DEF NotDone
<1>16. /\ Unresolved' = Unresolved \ (S \cup {n}) /\ S \cup {n} \subseteq Unresolved
       /\ IsFiniteSet(Unresolved)
  <2>1. \A m \in S \cup {n} : results'[m] # NoResult
    <3>1. \A t : t \in Statuses => [status |-> t, at |-> round] # NoResult
      <4>1. NoResult.status = "none" /\ "none" \notin Statuses /\ \A t : [status |-> t, at |-> round].status = t
        BY DEF NoResult, Statuses
      <4>. QED
        BY <4>1
    <3>2. results'[n] # NoResult
      BY <1>1, <1>5, <1>6, <1>7, <1>9, <3>1
    <3>3. \A m \in S : results'[m] # NoResult
      BY <1>4, <1>5, <1>7, <1>8, <3>1
    <3>. QED
      BY <3>2, <3>3
  <2>2. \A m \in DOMAIN plan : m \notin S \cup {n} => results'[m] = results[m]
    BY <1>6, <1>7, <1>8
  <2>3. S \cup {n} \subseteq Unresolved
    BY <1>1, <1>4, <1>10 DEF Unresolved
  <2>4. IsFiniteSet(Unresolved)
    BY <1>8, FS_Subset DEF Unresolved
  <2>. QED
    BY <2>1, <2>2, <2>3, <2>4 DEF Unresolved
<1>17. remaining' = Cardinality(Unresolved') /\ remaining' \in 0..Cardinality(Node)
  <2>1. IsFiniteSet(S) /\ IsFiniteSet(Unresolved')
    BY <1>16, FS_Subset
  <2>2. Cardinality(S \cup {n}) = Cardinality(S) + 1
    BY <1>9, <2>1, FS_AddElement
  <2>3. /\ Cardinality(Unresolved') = Cardinality(Unresolved) - Cardinality(S \cup {n})
        /\ Cardinality(Unresolved) \in Nat /\ Cardinality(Unresolved') \in Nat
    <3>1. PICK T : T = S \cup {n}
      OBVIOUS
    <3>2. T \subseteq Unresolved /\ Unresolved' = Unresolved \ T
      BY <1>16, <3>1
    <3>3. PICK U : U = Unresolved'
      OBVIOUS
    <3>4. IsFiniteSet(U) /\ IsFiniteSet(T) /\ Cardinality(U) = Cardinality(Unresolved) - Cardinality(T)
           /\ Cardinality(Unresolved) \in Nat /\ Cardinality(T) \in Nat /\ Cardinality(U) \in Nat
      BY <1>16, <3>2, <3>3, RemoveSome
    <3>. QED
      BY <3>1, <3>3, <3>4
  <2>4. Cardinality(S) \in Nat /\ Cardinality(Node) \in Nat
    BY <2>1, PlanAssumption, FS_CardinalityType
  <2>5. remaining = Cardinality(Unresolved) /\ remaining \in 0..Cardinality(Node)
    BY DEF Counted, PlanTypeOK
  <2>. QED
    BY <1>3, <2>2, <2>3, <2>4, <2>5
<1>18. InHand' = rest
  BY <1>3 DEF InHand
<1>19. \A m \in rest : m \notin S /\ m # n
  <2>. SUFFICES ASSUME NEW m \in rest, m \in S PROVE FALSE
    BY <1>1
  <2>1. PICK d \in plan[m] : d = n \/ d \in S
    BY <1>4
  <2>2. ~ThisRound(d, "done")
    BY <1>5, <1>11, <2>1
  <2>. QED
    BY <1>1, <2>1, <2>2 DEF NotDone
<1>20. PlanTypeOK'
  <2>1. Validate(plan)' /\ done' \subseteq [node : Node, status : {"done", "failed"}]
    BY DEF PlanTypeOK, Validate, Acyclic
  <2>. QED
    BY <1>3, <1>7, <1>17, <2>1, Zenon DEF PlanTypeOK
<1>21. RoundsApart'
  BY DEF RoundsApart
<1>22. EachInOnePlace'
  BY <1>3 DEF EachInOnePlace
<1>23. Counted'
  <2>1. \A m \in InHand' : m \in DOMAIN plan /\ results'[m] = NoResult /\ NotDone(m)' = {}
    <3>. SUFFICES ASSUME NEW m \in rest PROVE m \in DOMAIN plan /\ results'[m] = NoResult /\ NotDone(m)' = {}
      BY <1>18
    <3>1. m \in DOMAIN plan /\ results[m] = NoResult /\ NotDone(m) = {}
      BY <1>1
    <3>2. results'[m] = results[m]
      BY <1>6, <1>7, <1>8, <1>19, <3>1
    <3>. QED
      BY <1>15, <3>1, <3>2
  <2>. QED
    BY <1>3, <1>15, <1>17, <2>1 DEF Counted
<1>24. VerdictsFollow'
  <2>. SUFFICES ASSUME NEW m \in DOMAIN plan
       PROVE  /\ \/ results'[m] = NoResult
                 \/ ThisRound(m, "done")' \/ ThisRound(m, "failed")' \/ ThisRound(m, "skipped")'
              /\ ThisRound(m, "done")' \/ ThisRound(m, "failed")' => NotDone(m)' = {}
              /\ ThisRound(m, "skipped")' <=> \E d \in plan[m] : Bad(d)'
    BY DEF VerdictsFollow
  <2>1. /\ \/ results[m] = NoResult
           \/ ThisRound(m, "done") \/ ThisRound(m, "failed") \/ ThisRound(m, "skipped")
        /\ ThisRound(m, "done") \/ ThisRound(m, "failed") => NotDone(m) = {}
        /\ ThisRound(m, "skipped") <=> \E d \in plan[m] : Bad(d)
    BY DEF VerdictsFollow
  <2>2. CASE m = n
    <3>1. \A d \in plan[n] : ~Bad(d)'
      <4>. SUFFICES ASSUME NEW d \in plan[n] PROVE ~Bad(d)'
        OBVIOUS
      <4>1. ThisRound(d, "done") /\ d \in DOMAIN plan
        BY <1>1, <1>8 DEF NotDone
      <4>2. ~Bad(d) /\ d \notin S /\ d # n
        BY <1>5, <1>11, <4>1, VerdictsDiffer DEF Bad
      <4>. QED
        BY <1>14, <4>1, <4>2
    <3>. QED
      BY <1>1, <1>12, <1>13, <1>15, <2>2, <3>1
  <2>3. CASE m \in S
    <3>1. \E d \in plan[m] : Bad(d)'
      BY <1>4, <1>8, <1>14, <2>3
    <3>. QED
      BY <1>12, <1>13, <2>3, <3>1
  <2>4. CASE m # n /\ m \notin S
    <3>1. \A s \in Statuses : ThisRound(m, s)' <=> ThisRound(m, s)
      BY <1>8, <1>12, <2>4
    <3>2. results'[m] = results[m]
      BY <1>6, <1>7, <1>8, <2>4
    <3>3. (\E d \in plan[m] : Bad(d)') <=> \E d \in plan[m] : Bad(d)
      <4>. SUFFICES ASSUME NEW d \in plan[m], d = n \/ d \in S PROVE \E x \in plan[m] : Bad(x)
        BY <1>8, <1>14
      <4>1. results[m] # NoResult
        BY <1>4, <1>6, <1>8, <2>4
      <4>2. NotDone(m) # {}
        BY <1>5, <1>11 DEF NotDone
      <4>. QED
        BY <2>1, <4>1, <4>2
    <3>. QED
      BY <1>5, <1>15, <2>1, <3>1, <3>2, <3>3
  <2>. QED
    BY <2>2, <2>3, <2>4
<1>. QED
  BY <1>20, <1>21, <1>22, <1>23, <1>24

\* Receive, of a result: the dependents that waited for it only are ready.
LEMMA PlanReceiveDone ==
    ASSUME PlanInvariant, phase = "executing", remaining > 0, NEW r \in done, r.status = "done",
           done' = done \ {r}, NEW n, n = r.node, NEW stored, stored = Store(results, {n}, "done"),
           Release(n, stored), UNCHANGED <<phase, round, plan, taken, running, cancelled>>
    PROVE  PlanInvariant'
<1>. USE DEF PlanInvariant
<1>. DEFINE rest == ready \cup taken \cup running \cup {x.node : x \in done \ {r}}
<1>1. /\ n \in DOMAIN plan /\ n \in Node /\ results[n] = NoResult /\ NotDone(n) = {}
      /\ \A s \in Statuses : ~ThisRound(n, s)
      /\ n \notin rest /\ InHand = rest \cup {n}
      /\ \A m \in InHand : m \in DOMAIN plan /\ results[m] = NoResult /\ NotDone(m) = {}
      /\ round \in 0..MaxRounds - 1
  BY PlanReceived
<1>2. DOMAIN plan \subseteq Node /\ IsFiniteSet(DOMAIN plan)
      /\ \A m \in DOMAIN plan : /\ plan[m] \subseteq DOMAIN plan /\ m \notin plan[m]
                               /\ IsFiniteSet(plan[m])
  BY PlanFacts
<1>3. PICK freed \in SUBSET DOMAIN plan : freed = {m \in Dependents(n) : inDegree'[m] = 0}
  BY DEF Dependents
<1>4. /\ inDegree' = [m \in DOMAIN plan |-> inDegree[m] - (IF n \in plan[m] THEN 1 ELSE 0)]
      /\ ready' = ready \cup freed /\ results' = stored /\ remaining' = remaining - 1
  BY <1>3 DEF Release, Dependents
<1>5. /\ "failed" \in Statuses /\ "skipped" \in Statuses /\ "done" \in Statuses
      /\ results \in [Node -> Results \cup {NoResult}]
  BY DEF Statuses, PlanTypeOK
<1>6. /\ stored \in [Node -> Results \cup {NoResult}]
      /\ \A m \in Node : m \in {n} => stored[m] = [status |-> "done", at |-> round]
      /\ \A m \in Node : m \notin {n} => stored[m] = results[m]
  BY <1>1, <1>5, StoreGives
<1>7. /\ ThisRound(n, "done")'
      /\ \A m \in Node, s \in Statuses : m # n => (ThisRound(m, s)' <=> ThisRound(m, s))
      /\ \A m \in Node : m # n => results'[m] = results[m]
  BY <1>1, <1>4, <1>6 DEF ThisRound
<1>8. ~ThisRound(n, "failed")' /\ ~ThisRound(n, "skipped")' /\ results'[n] # NoResult
  <2>1. \A t : [status |-> t, at |-> round].status = t
    OBVIOUS
  <2>2. NoResult.status = "none"
    BY DEF NoResult
  <2>3. results'[n].status = "done"
    BY <1>1, <1>4, <1>6, <2>1
  <2>4. \A t : ThisRound(n, t)' => results'[n].status = t
    BY <2>1, Zenon DEF ThisRound
  <2>. QED
    BY <2>2, <2>3, <2>4
<1>9. \A d \in DOMAIN plan : ThisRound(d, "done")' <=> (ThisRound(d, "done") \/ d = n)
  BY <1>2, <1>5, <1>7
<1>10. \A d \in DOMAIN plan : Bad(d)' <=> Bad(d)
  BY <1>1, <1>2, <1>5, <1>7, <1>8 DEF Bad
<1>11. \A m \in DOMAIN plan : NotDone(m)' = NotDone(m) \ {n}
  BY <1>2, <1>9 DEF NotDone
<1>12. \A m \in DOMAIN plan : (n \in NotDone(m)) <=> (n \in plan[m])
  BY <1>1, <1>5 DEF NotDone
<1>13. \A m \in DOMAIN plan : /\ inDegree'[m] = Cardinality(NotDone(m)') /\ IsFiniteSet(NotDone(m)')
                            /\ inDegree'[m] \in 0..Cardinality(Node)
  <2>. SUFFICES ASSUME NEW m \in DOMAIN plan
       PROVE  /\ inDegree'[m] = Cardinality(NotDone(m)') /\ IsFiniteSet(NotDone(m)')
              /\ inDegree'[m] \in 0..Cardinality(Node)
    OBVIOUS
  <2>1. IsFiniteSet(NotDone(m)) /\ inDegree[m] = Cardinality(NotDone(m)) /\ NotDone(m) \subseteq Node
    BY <1>2, FS_Subset DEF NotDone, Counted
  <2>2. PICK U : U = NotDone(m)'
    OBVIOUS
  <2>3. PICK V : V = NotDone(m)
    OBVIOUS
  <2>4. U = V \ {n} /\ IsFiniteSet(V) /\ inDegree[m] = Cardinality(V) /\ V \subseteq Node
    BY <1>11, <2>1, <2>2, <2>3
  <2>5. inDegree'[m] = Cardinality(U) /\ IsFiniteSet(U)
    <3>1. CASE n \in plan[m]
      <4>1. n \in V
        BY <1>12, <2>3, <3>1
      <4>2. IsFiniteSet(U) /\ Cardinality(U) = Cardinality(V) - 1 /\ Cardinality(V) \in Nat /\ Cardinality(V) > 0
        BY <2>4, <4>1, RemoveOne
      <4>. QED
        BY <1>4, <2>4, <3>1, <4>2
    <3>2. CASE n \notin plan[m]
      <4>1. U = V
        BY <1>12, <2>3, <2>4, <3>2
      <4>2. Cardinality(V) \in Nat
        BY <2>4, FS_CardinalityType
      <4>3. inDegree'[m] = inDegree[m] - 0
        BY <1>4, <3>2
      <4>4. inDegree[m] \in Nat
        BY <2>4, <4>2
      <4>5. inDegree[m] - 0 = inDegree[m]
        BY <4>4
      <4>6. inDegree'[m] = Cardinality(V)
        BY <2>4, <4>3, <4>5
      <4>. QED
        BY <2>4, <4>1, <4>6, Zenon
    <3>. QED
      BY <3>1, <3>2
  <2>6. Cardinality(U) \in 0..Cardinality(Node)
    <3>1. IsFiniteSet(Node) /\ U \subseteq Node
      BY <2>4, PlanAssumption
    <3>2. Cardinality(U) <= Cardinality(Node) /\ Cardinality(U) \in Nat /\ Cardinality(Node) \in Nat
      BY <2>5, <3>1, FS_Subset, FS_CardinalityType
    <3>. QED
      BY <3>2
  <2>. QED
    BY <2>2, <2>5, <2>6
<1>14. \A m \in freed : m \in DOMAIN plan /\ n \in plan[m] /\ NotDone(m)' = {} /\ results'[m] = NoResult
                      /\ m \notin InHand
  <2>. SUFFICES ASSUME NEW m \in freed
       PROVE  /\ m \in DOMAIN plan /\ n \in plan[m] /\ NotDone(m)' = {} /\ results'[m] = NoResult
              /\ m \notin InHand
    OBVIOUS
  <2>1. m \in DOMAIN plan /\ n \in plan[m] /\ inDegree'[m] = 0
    BY <1>3 DEF Dependents
  <2>2. NotDone(m)' = {}
    <3>1. PICK U : U = NotDone(m)'
      OBVIOUS
    <3>2. IsFiniteSet(U) /\ Cardinality(U) = 0
      BY <1>13, <2>1, <3>1
    <3>3. U = {}
      BY <3>2, FS_EmptySet
    <3>. QED
      BY <3>1, <3>3
  <2>3. m # n /\ NotDone(m) # {}
    BY <1>1, <1>2, <1>12, <2>1
  <2>4. m \notin InHand
    BY <1>1, <2>3
  <2>5. ~ThisRound(m, "skipped")
    <3>. SUFFICES ASSUME NEW d \in plan[m], Bad(d) PROVE FALSE
      BY <2>1 DEF VerdictsFollow
    <3>1. ~ThisRound(d, "done")
      BY VerdictsDiffer DEF Bad
    <3>2. d # n
      BY <1>1, <1>5 DEF Bad
    <3>3. d \in NotDone(m)
      BY <3>1 DEF NotDone
    <3>. QED
      BY <1>11, <2>1, <2>2, <3>2, <3>3
  <2>6. results[m] = NoResult
    BY <2>1, <2>3, <2>5 DEF VerdictsFollow
  <2>7. results'[m] = NoResult
    BY <1>2, <1>7, <2>1, <2>3, <2>6
  <2>. QED
    BY <2>1, <2>2, <2>4, <2>7
<1>15. Unresolved' = Unresolved \ {n} /\ n \in Unresolved /\ IsFiniteSet(Unresolved)
  <2>1. IsFiniteSet(Unresolved)
    BY <1>2, FS_Subset DEF Unresolved
  <2>. QED
    BY <1>1, <1>2, <1>7, <1>8, <2>1 DEF Unresolved
<1>16. remaining' = Cardinality(Unresolved') /\ remaining' \in 0..Cardinality(Node)
  <2>1. PICK U : U = Unresolved'
    OBVIOUS
  <2>2. U = Unresolved \ {n}
    BY <1>15, <2>1
  <2>3. /\ IsFiniteSet(U) /\ Cardinality(U) = Cardinality(Unresolved) - 1 /\ Cardinality(Unresolved) \in Nat
        /\ Cardinality(Unresolved) > 0
    BY <1>15, <2>2, RemoveOne
  <2>4. Cardinality(U) \in Nat /\ Cardinality(Node) \in Nat
    BY <2>3, PlanAssumption, FS_CardinalityType
  <2>5. remaining = Cardinality(Unresolved) /\ remaining \in 0..Cardinality(Node)
    BY DEF Counted, PlanTypeOK
  <2>. QED
    BY <1>4, <2>1, <2>3, <2>4, <2>5
<1>17. InHand' = rest \cup freed
  BY <1>4 DEF InHand
<1>18. PlanTypeOK'
  <2>1. Validate(plan)' /\ done' \subseteq [node : Node, status : {"done", "failed"}]
    BY DEF PlanTypeOK, Validate, Acyclic
  <2>2. DOMAIN inDegree' \subseteq Node /\ \A m \in DOMAIN inDegree' : inDegree'[m] \in 0..Cardinality(Node)
    <3>1. DOMAIN inDegree' = DOMAIN plan
      BY <1>4
    <3>. QED
      BY <1>2, <1>13, <3>1
  <2>3. ready' \subseteq Node
    BY <1>2, <1>4 DEF PlanTypeOK
  <2>4. results' \in [Node -> Results \cup {NoResult}]
    BY <1>4, <1>6
  <2>. QED
    BY <1>16, <2>1, <2>2, <2>3, <2>4, Zenon DEF PlanTypeOK
<1>19. RoundsApart'
  BY DEF RoundsApart
<1>20. EachInOnePlace'
  <2>1. \A x \in done : x.node \in InHand
    BY DEF InHand
  <2>2. freed \cap InHand = {}
    BY <1>14
  <2>3. /\ freed \cap taken = {} /\ freed \cap running = {} /\ \A x \in done : x.node \notin freed
    BY <2>1, <2>2 DEF InHand
  <2>. QED
    BY <1>4, <2>3 DEF EachInOnePlace
<1>21. Counted'
  <2>1. \A m \in InHand' : m \in DOMAIN plan /\ results'[m] = NoResult /\ NotDone(m)' = {}
    <3>. SUFFICES ASSUME NEW m \in rest PROVE m \in DOMAIN plan /\ results'[m] = NoResult /\ NotDone(m)' = {}
      BY <1>14, <1>17
    <3>1. m \in DOMAIN plan /\ results[m] = NoResult /\ NotDone(m) = {} /\ m # n
      BY <1>1
    <3>. QED
      BY <1>2, <1>7, <1>11, <3>1
  <2>2. DOMAIN inDegree' = DOMAIN plan
    BY <1>4
  <2>. QED
    BY <1>13, <1>16, <2>1, <2>2 DEF Counted
<1>22. VerdictsFollow'
  <2>. SUFFICES ASSUME NEW m \in DOMAIN plan
       PROVE  /\ \/ results'[m] = NoResult
                 \/ ThisRound(m, "done")' \/ ThisRound(m, "failed")' \/ ThisRound(m, "skipped")'
              /\ ThisRound(m, "done")' \/ ThisRound(m, "failed")' => NotDone(m)' = {}
              /\ ThisRound(m, "skipped")' <=> \E d \in plan[m] : Bad(d)'
    BY DEF VerdictsFollow
  <2>1. /\ \/ results[m] = NoResult
           \/ ThisRound(m, "done") \/ ThisRound(m, "failed") \/ ThisRound(m, "skipped")
        /\ ThisRound(m, "done") \/ ThisRound(m, "failed") => NotDone(m) = {}
        /\ ThisRound(m, "skipped") <=> \E d \in plan[m] : Bad(d)
    BY DEF VerdictsFollow
  <2>2. (\E d \in plan[m] : Bad(d)') <=> \E d \in plan[m] : Bad(d)
    BY <1>2, <1>10
  <2>3. CASE m = n
    BY <1>1, <1>5, <1>7, <1>8, <1>11, <2>1, <2>2, <2>3
  <2>4. CASE m # n
    <3>1. \A s \in Statuses : ThisRound(m, s)' <=> ThisRound(m, s)
      BY <1>2, <1>7, <2>4
    <3>2. results'[m] = results[m]
      BY <1>2, <1>7, <2>4
    <3>. QED
      BY <1>5, <1>11, <2>1, <2>2, <3>1, <3>2
  <2>. QED
    BY <2>3, <2>4
<1>. QED
  BY <1>18, <1>19, <1>20, <1>21, <1>22

LEMMA PlanReceive == ASSUME PlanInvariant, Receive PROVE PlanInvariant'
<1>1. PICK r \in done :
        /\ done' = done \ {r}
        /\ \/ r.status = "failed" /\ CascadeSkip(r.node, Store(results, {r.node}, r.status))
           \/ r.status # "failed" /\ Release(r.node, Store(results, {r.node}, r.status))
  BY DEF Receive
<1>2. /\ phase = "executing" /\ remaining > 0
      /\ UNCHANGED <<phase, round, plan, taken, running, cancelled>>
  BY DEF Receive
<1>3. PICK n, stored : n = r.node /\ stored = Store(results, {n}, r.status)
  OBVIOUS
<1>4. r.status \in {"done", "failed"}
  BY DEF PlanInvariant, PlanTypeOK
<1>5. CASE r.status = "failed"
  <2>1. stored = Store(results, {n}, "failed") /\ CascadeSkip(n, stored)
    BY <1>1, <1>3, <1>5
  <2>. QED
    BY <1>1, <1>2, <1>3, <1>5, <2>1, PlanReceiveFailed
<1>6. CASE r.status = "done"
  <2>1. stored = Store(results, {n}, "done") /\ Release(n, stored)
    BY <1>1, <1>3, <1>6
  <2>. QED
    BY <1>1, <1>2, <1>3, <1>6, <2>1, PlanReceiveDone
<1>. QED
  BY <1>4, <1>5, <1>6

LEMMA PlanInvariantNext ==
    ASSUME PlanInvariant, ~ReuseIDs, [Next]_vars PROVE PlanInvariant'
BY PlanStays, PlanBeginRound, PlanDispatch, PlanStartNode, PlanNodeEnds, PlanReceive, PlanExecuteReturns DEF Next

-----------------------------------------------------------------------------
\* The parts together: each step is of one, and leaves the others alone.

NetInvariant == JobsInvariant /\ HubInvariant
SittingInvariant == LoopInvariant /\ SessionInvariant

LEMMA NetInvariantAlways == AgentsSpec => []NetInvariant
<1>. DEFINE Steps == PlanPart \/ LoopPart \/ SessionPart \/ JobsPart \/ HubPart \/ ComesToRest
<1>0. J!NetJobsAssumption /\ H!NetHubAssumption
  BY AgentsAssumption DEF AgentsAssumption
<1>1. AgentsInit => NetInvariant
  BY <1>0, JobsInvariantInit, HubInvariantInit DEF AgentsInit, NetInvariant
<1>2. NetInvariant /\ [Steps]_allVars => NetInvariant'
  <2>. SUFFICES ASSUME NetInvariant, [Steps]_allVars PROVE NetInvariant'
    OBVIOUS
  <2>1. [J!Next]_netVars
    BY DEF PlanPart, LoopPart, SessionPart, JobsPart, HubPart, ComesToRest, allVars
  <2>2. [H!Next]_hubVars
    BY DEF PlanPart, LoopPart, SessionPart, JobsPart, HubPart, ComesToRest, allVars
  <2>. QED
    BY <1>0, <2>1, <2>2, JobsInvariantNext, HubInvariantNext DEF NetInvariant
<1>. QED
  BY <1>1, <1>2, PTL DEF AgentsSpec

LEMMA SittingInvariantAlways == AgentsSpec => []SittingInvariant
<1>. DEFINE Steps == PlanPart \/ LoopPart \/ SessionPart \/ JobsPart \/ HubPart \/ ComesToRest
<1>0. LoopAssumption /\ SessionAssumption
  BY AgentsAssumption DEF AgentsAssumption
<1>1. AgentsInit => SittingInvariant
  BY <1>0, LoopInvariantInit, SessionInvariantInit DEF AgentsInit, SittingInvariant
<1>2. SittingInvariant /\ [Steps]_allVars => SittingInvariant'
  <2>. SUFFICES ASSUME SittingInvariant, [Steps]_allVars PROVE SittingInvariant'
    OBVIOUS
  <2>1. [LoopNext]_loopVars
    BY DEF PlanPart, LoopPart, SessionPart, JobsPart, HubPart, ComesToRest, allVars
  <2>2. [SessionNext]_sessionVars
    BY DEF PlanPart, LoopPart, SessionPart, JobsPart, HubPart, ComesToRest, allVars
  <2>. QED
    BY <1>0, <2>1, <2>2, LoopInvariantNext, SessionInvariantNext DEF SittingInvariant
<1>. QED
  BY <1>1, <1>2, PTL DEF AgentsSpec

LEMMA PlanInvariantAlways == ~ReuseIDs => (AgentsSpec => []PlanInvariant)
<1>. SUFFICES ASSUME ~ReuseIDs PROVE AgentsSpec => []PlanInvariant
  OBVIOUS
<1>. DEFINE Steps == PlanPart \/ LoopPart \/ SessionPart \/ JobsPart \/ HubPart \/ ComesToRest
<1>1. AgentsInit => PlanInvariant
  BY PlanInvariantInit DEF AgentsInit
<1>2. PlanInvariant /\ [Steps]_allVars => PlanInvariant'
  <2>. SUFFICES ASSUME PlanInvariant, [Steps]_allVars PROVE PlanInvariant'
    OBVIOUS
  <2>1. [Next]_vars
    BY DEF PlanPart, LoopPart, SessionPart, JobsPart, HubPart, ComesToRest, allVars
  <2>. QED
    BY <2>1, PlanInvariantNext
<1>. QED
  BY <1>1, <1>2, PTL DEF AgentsSpec

\* A claimed job has its recipient and its lease, however often it is handed out;
\* it is handed out no more often than its redeliveries allow, has one result at
\* most, and its callback URL is told no other (ClaimA2AJobs, CompleteA2AJob,
\* processA2ACallbacks).  Of an agent's connections the latest, or none, is in
\* the hub, the older ones are closed, and both pumps of a connection end with it
\* (ws_hub.go).
THEOREM NetHolds == AgentsSpec => []NetInv
<1>1. NetInvariant => NetInv
  BY AgentsAssumption, JobsInvariantImplies, HubInvariantImplies DEF AgentsAssumption, NetInvariant, NetInv
<1>. QED
  BY <1>1, NetInvariantAlways, PTL

\* Of the tool loop: a tool with a limit is executed that often although its calls
\* count themselves on goroutines of their own, no call is left without its result
\* when the model is asked again, the consumer hears every result once and after its
\* call, no text twice, and the end last (runAgentLoop).  Of the session: wherever it
\* waits a line can reach it, every line it has read is in one place until it is
\* handled, a job is reported once, and a job with a fresh context neither sees the
\* conversation nor adds to it (runREPL).
THEOREM SittingHolds == AgentsSpec => []SittingInv
<1>1. SittingInvariant => SittingInv
  BY AgentsAssumption, LoopInvariantImplies, SessionInvariantImplies DEF AgentsAssumption, SittingInvariant, SittingInv
<1>. QED
  BY <1>1, SittingInvariantAlways, PTL

\* Of a plan's execution, for any graph, where no plan uses an id a second time (with
\* that the counter is not exact, executor.go:148): a node starts when all it depends
\* on is done, the counter is the number of nodes without a result, a failure skips
\* all that rests on it, and when Execute returns no node is left on its way and each
\* has one verdict, skipped only for a failure it rests on (Execute, cascadeSkip).
THEOREM PlanHolds == ~ReuseIDs => (AgentsSpec => []PlanInv)
<1>. SUFFICES ASSUME ~ReuseIDs PROVE AgentsSpec => []PlanInv
  OBVIOUS
<1>1. PlanInvariant => PlanInv
  BY PlanInvariantImplies
<1>. QED
  BY <1>1, PlanInvariantAlways, PTL
=============================================================================

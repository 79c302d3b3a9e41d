------------------------------- MODULE NetHub -------------------------------
(***************************************************************************)
(* The WebSocket hub of the agent network's server: one connection per     *)
(* agent, "latest connection wins, old one is closed", and the two pumps   *)
(* of every connection, which close it and take it out of the hub when     *)
(* they end.                                                               *)
(*                                                                         *)
(* The hub's mutex is held for one step at a time.  What is not under it   *)
(* is the send of a new message's notification, to the client that was     *)
(* looked up, and the pumps' closing of their connection, which the writer *)
(* does before it unregisters and the reader after.                        *)
(***************************************************************************)
EXTENDS Naturals, Sequences, FiniteSets

CONSTANTS
    Connections, OwnerOf,    \* the agent that opens each
    Buffer,             \* wsSendBufferSize
    Messages,           \* messages sent from one agent to another
    To,                 \* whom each is for
    Nobody

NetHubAssumption ==
    /\ Nobody \notin Connections /\ DOMAIN OwnerOf = Connections /\ DOMAIN To = Messages
    /\ Buffer \in Nat \ {0}

Owners == {OwnerOf[c] : c \in Connections} \cup {To[m] : m \in Messages}

VARIABLES
    clients,        \* agent -> its client in the hub
    socket,         \* of each connection: "new", "open", "lost" (the peer is gone), "closed"
    writer,         \* WritePump: "none", "select", "closing", "unregister", "ended"
    reader,         \* ReadPump: "none", "read", "unregister", "closing", "ended"
    send,           \* the client's channel
    notice,         \* of each message: "none", the client looked up, "sent"
    newest          \* history: the agent's latest registration

hubVars == <<clients, socket, writer, reader, send, notice, newest>>
pumps == <<writer, reader>>

-----------------------------------------------------------------------------
\* HandleWSUpgrade, its last half: Register, and the two goroutines.
Register(c) ==
    /\ socket[c] = "new"
    /\ socket' = [d \in Connections |->
                    IF d = c THEN "open" ELSE IF d = clients[OwnerOf[c]] THEN "closed" ELSE socket[d]]
    /\ clients' = [clients EXCEPT ![OwnerOf[c]] = c]
    /\ newest' = [newest EXCEPT ![OwnerOf[c]] = c]
    /\ writer' = [writer EXCEPT ![c] = "select"] /\ reader' = [reader EXCEPT ![c] = "read"]
    /\ UNCHANGED <<send, notice>>

\* The peer goes away, with or without a close frame.
PeerLeaves(c) ==
    /\ socket[c] = "open" /\ socket' = [socket EXCEPT ![c] = "lost"]
    /\ UNCHANGED <<clients, pumps, send, notice, newest>>

-----------------------------------------------------------------------------
\* Fault: whatever client the agent has is removed, as "unregister" does.
UnregisterAny(c) == clients' = [clients EXCEPT ![OwnerOf[c]] = Nobody]

\* unregisterClient.
Unregister(c) == clients' = [clients EXCEPT ![OwnerOf[c]] = IF @ = c THEN Nobody ELSE @]

Close(c) == socket' = [socket EXCEPT ![c] = "closed"]

\* A message is taken from the channel and written.  A write to a peer that
\* is lost may still succeed.
WriteMessage(c) ==
    /\ writer[c] = "select" /\ send[c] # <<>>
    /\ send' = [send EXCEPT ![c] = Tail(@)]
    /\ \/ socket[c] # "closed" /\ UNCHANGED writer
       \/ socket[c] # "open" /\ writer' = [writer EXCEPT ![c] = "closing"]
    /\ UNCHANGED <<clients, socket, reader, notice, newest>>

\* The ping that fails: nothing is read before the next tick.
PingFails(c) ==
    /\ writer[c] = "select" /\ socket[c] # "open"
    /\ writer' = [writer EXCEPT ![c] = "closing"]
    /\ UNCHANGED <<clients, socket, reader, send, notice, newest>>

WriterCloses(c) ==
    /\ writer[c] = "closing" /\ writer' = [writer EXCEPT ![c] = "unregister"] /\ Close(c)
    /\ UNCHANGED <<clients, reader, send, notice, newest>>

WriterUnregisters(c) ==
    /\ writer[c] = "unregister" /\ writer' = [writer EXCEPT ![c] = "ended"] /\ Unregister(c)
    /\ UNCHANGED <<socket, reader, send, notice, newest>>

\* The connection was closed, or no pong came within the deadline.
ReadFails(c) ==
    /\ reader[c] = "read" /\ socket[c] # "open"
    /\ reader' = [reader EXCEPT ![c] = "unregister"]
    /\ UNCHANGED <<clients, socket, writer, send, notice, newest>>

ReaderUnregisters(c) ==
    /\ reader[c] = "unregister" /\ reader' = [reader EXCEPT ![c] = "closing"] /\ Unregister(c)
    /\ UNCHANGED <<socket, writer, send, notice, newest>>

ReaderCloses(c) ==
    /\ reader[c] = "closing" /\ reader' = [reader EXCEPT ![c] = "ended"] /\ Close(c)
    /\ UNCHANGED <<clients, writer, send, notice, newest>>

-----------------------------------------------------------------------------
Put(chan, c, m) == IF Len(chan[c]) < Buffer THEN Append(chan[c], m) ELSE chan[c]

\* HandleSendMessage has inserted the message: NotifyNewMessage.
LookUpClient(m) ==
    /\ notice[m] = "none"
    /\ notice' = [notice EXCEPT ![m] = IF clients[To[m]] = Nobody THEN "sent" ELSE clients[To[m]]]
    /\ UNCHANGED <<clients, socket, pumps, send, newest>>

Notify(m) ==
    /\ notice[m] \in Connections
    /\ send' = [send EXCEPT ![notice[m]] = Put(send, notice[m], m)]
    /\ notice' = [notice EXCEPT ![m] = "sent"]
    /\ UNCHANGED <<clients, socket, pumps, newest>>

\* NotifyMessageRead, by the agent the message was for: all others are told,
\* under the mutex.
NotifyRead(m) ==
    /\ notice[m] = "sent" /\ notice' = [notice EXCEPT ![m] = "read"]
    /\ LET told == {clients[a] : a \in Owners \ {To[m]}} \ {Nobody}
       IN  send' = [c \in Connections |-> IF c \in told THEN Put(send, c, m) ELSE send[c]]
    /\ UNCHANGED <<clients, socket, pumps, newest>>

-----------------------------------------------------------------------------
Init ==
    /\ clients = [a \in Owners |-> Nobody]
    /\ newest = [a \in Owners |-> Nobody]
    /\ socket = [c \in Connections |-> "new"]
    /\ writer = [c \in Connections |-> "none"] /\ reader = [c \in Connections |-> "none"]
    /\ send = [c \in Connections |-> <<>>]
    /\ notice = [m \in Messages |-> "none"]

WriterNext(c) ==
    WriteMessage(c) \/ PingFails(c) \/ WriterCloses(c) \/ WriterUnregisters(c)
ReaderNext(c) == ReadFails(c) \/ ReaderUnregisters(c) \/ ReaderCloses(c)

Next ==
    \/ \E c \in Connections : Register(c) \/ PeerLeaves(c) \/ WriterNext(c) \/ ReaderNext(c)
    \/ \E m \in Messages : LookUpClient(m) \/ Notify(m) \/ NotifyRead(m)

\* Goroutines run, pings are sent and deadlines pass.
Spec ==
    /\ Init /\ [][Next]_hubVars
    /\ \A c \in Connections : WF_hubVars(WriterNext(c)) /\ WF_hubVars(ReaderNext(c))

-----------------------------------------------------------------------------
NetHubTypeOK ==
    /\ clients \in [Owners -> Connections \cup {Nobody}]
    /\ newest \in [Owners -> Connections \cup {Nobody}]
    /\ socket \in [Connections -> {"new", "open", "lost", "closed"}]
    /\ writer \in [Connections -> {"none", "select", "closing", "unregister", "ended"}]
    /\ reader \in [Connections -> {"none", "read", "unregister", "closing", "ended"}]
    /\ send \in [Connections -> Seq(Messages)] /\ \A c \in Connections : Len(send[c]) <= Buffer
    /\ notice \in [Messages -> Connections \cup {"none", "sent", "read"}]

\* "prevents a stale connection from removing its replacement" (ws_hub.go):
\* an agent whose latest connection is up is in the hub with that connection,
\* whatever the pumps of its earlier ones still do.
LatestWins ==
    \A c \in Connections :
        newest[OwnerOf[c]] = c /\ socket[c] = "open" => clients[OwnerOf[c]] = c

\* "One connection per agent (latest connection wins, old one is closed)":
\* an earlier connection is closed, or its reader, who found it lost, is
\* about to close it.
OldOnesClose ==
    \A c \in Connections :
        socket[c] \in {"open", "lost"} /\ newest[OwnerOf[c]] # c => reader[c] = "closing"

NetHubInv == NetHubTypeOK /\ LatestWins /\ OldOnesClose

\* A pump of a connection that is gone, a client of one in the hub, or a
\* notification for one that is up.
HubWaits ==
    \E c \in Connections :
        \/ socket[c] \in {"lost", "closed"} /\ (writer[c] # "ended" \/ reader[c] # "ended")
        \/ socket[c] = "closed" /\ clients[OwnerOf[c]] = c
        \/ socket[c] = "open" /\ send[c] # <<>>

\* They do not stay.
HubSettles == []<>~HubWaits

=============================================================================

----------------------------- MODULE RealtimeHub -----------------------------
(***************************************************************************)
(* The live view of the sidecar: Hub.Run (sidecar-go/realtime/hub.go), the *)
(* two pumps of each WebSocket client (realtime/client.go) and the ingest  *)
(* handlers, which call BroadcastEvent before they answer.                 *)
(*                                                                         *)
(* register and unregister are unbuffered channels: a send and the hub's   *)
(* receive are one step.  broadcast and each client's send channel hold a  *)
(* bounded number of messages.  The loop over the clients in Run never     *)
(* blocks, and what one client's channel does is independent of the        *)
(* others', so the loop is one step.  A message is its number in the order *)
(* in which messages entered the broadcast channel.                        *)
(***************************************************************************)
EXTENDS Naturals, Sequences

CONSTANTS
    Clients,       \* WebSocket connections, each served once
    Handlers,      \* goroutines that serve POST /api/v1/ingest
    BroadcastCap,  \* capacity of Hub.broadcast (256)
    SendCap,       \* capacity of Client.send (256)
    MaxEvents,     \* bound: events ingested
    MaxTicks       \* bound: ticks of the hub's 1 s ticker

ASSUME HubAssumption ==
    /\ BroadcastCap \in Nat \ {0}
    /\ SendCap \in Nat \ {0}
    /\ MaxEvents \in Nat
    /\ MaxTicks \in Nat

VARIABLES
    hub,         \* where Run is: in its select, or blocked in sendStats
    broadcast,   \* messages in the broadcast channel
    posted,      \* messages that have entered it so far
    clients,     \* Hub.clients
    send,        \* messages in each client's send channel
    closed,      \* clients whose send channel is closed
    panicked,    \* a closed channel was sent to or closed again
    droppers,    \* goroutines waiting to unregister a client whose channel was full
    serving,     \* where ServeWs is with a client
    reader,      \* ReadPump of a client
    writer,      \* WritePump of a client
    conn,        \* clients whose connection this side has not closed
    peers,       \* clients whose peer is still there
    received,    \* messages written to a client's connection
    missed,      \* ghost: clients that a message was not delivered to
    handler,     \* ingest handlers: idle, or blocked in BroadcastEvent
    events,      \* events ingested so far
    ticks        \* ticks so far

hubVars    == <<hub, broadcast, posted, clients, closed, panicked, ticks>>
clientVars == <<serving, reader, writer, conn, peers, received>>
vars == <<hubVars, clientVars, send, droppers, missed, handler, events>>

TypeOK ==
    /\ hub \in {"select", "stats"}
    /\ broadcast \in Seq(Nat) /\ Len(broadcast) <= BroadcastCap
    /\ posted \in Nat
    /\ clients \subseteq Clients
    /\ send \in [Clients -> Seq(Nat)] /\ \A c \in Clients : Len(send[c]) <= SendCap
    /\ closed \subseteq Clients
    /\ panicked \in BOOLEAN
    /\ droppers \in [Clients -> Nat]
    /\ serving \in [Clients -> {"none", "registering", "done"}]
    /\ reader \in [Clients -> {"none", "reading", "leaving", "done"}]
    /\ writer \in [Clients -> {"none", "writing", "done"}]
    /\ conn \subseteq Clients
    /\ peers \subseteq Clients
    /\ received \in [Clients -> Seq(Nat)]
    /\ missed \subseteq Clients
    /\ handler \in [Handlers -> {"idle", "sending"}]
    /\ events \in 0..MaxEvents
    /\ ticks \in 0..MaxTicks

-------------------------------------------------------------------------------
(***************************************************************************)
(* Faulty variants, by which the properties are tested.                    *)
(***************************************************************************)
CloseUnchecked(c) ==                          \* line 86 without the map lookup
    /\ clients' = clients \ {c}
    /\ panicked' = (panicked \/ c \in closed)
    /\ closed' = closed \cup {c}
ForgetSlow(full) == UNCHANGED droppers        \* lines 99-102 forgotten
TakeNewest(c) == <<send[c][Len(send[c])]>>    \* WritePump reads the queue backwards
PostOneTooMany ==                             \* capacity off by one
    /\ Len(broadcast) <= BroadcastCap
    /\ posted' = posted + 1
    /\ broadcast' = Append(broadcast, posted + 1)
LeaveSilently(c) == reader' = [reader EXCEPT ![c] = "done"]   \* no Unregister in ReadPump

-------------------------------------------------------------------------------
Init ==
    /\ hub = "select"
    /\ broadcast = <<>> /\ posted = 0
    /\ clients = {} /\ closed = {} /\ panicked = FALSE
    /\ send = [c \in Clients |-> <<>>]
    /\ droppers = [c \in Clients |-> 0]
    /\ serving = [c \in Clients |-> "none"]
    /\ reader = [c \in Clients |-> "none"]
    /\ writer = [c \in Clients |-> "none"]
    /\ conn = {} /\ peers = {}
    /\ received = [c \in Clients |-> <<>>]
    /\ missed = {}
    /\ handler = [h \in Handlers |-> "idle"]
    /\ events = 0 /\ ticks = 0

\* A message enters the broadcast channel, if there is room.
Post ==
    /\ Len(broadcast) < BroadcastCap
    /\ posted' = posted + 1
    /\ broadcast' = Append(broadcast, posted + 1)

-------------------------------------------------------------------------------
(* Ingest handlers. *)

\* HandleIngest has stored and recorded the event and calls BroadcastEvent, ...
Ingest(h) ==
    /\ handler[h] = "idle"
    /\ events < MaxEvents
    /\ events' = events + 1
    /\ handler' = [handler EXCEPT ![h] = "sending"]
    /\ UNCHANGED <<hubVars, clientVars, send, droppers, missed>>

\* ... which blocks until there is room; then the handler answers 202.
BroadcastEvent(h) ==
    /\ handler[h] = "sending"
    /\ Post
    /\ handler' = [handler EXCEPT ![h] = "idle"]
    /\ UNCHANGED <<hub, clients, closed, panicked, ticks, clientVars, send, droppers,
                   missed, events>>

-------------------------------------------------------------------------------
(* Hub.Run. *)

\* case client := <-h.register.  ServeWs goes on to start the two pumps.
RegisterClient(c) ==
    /\ hub = "select"
    /\ serving[c] = "registering"
    /\ clients' = clients \cup {c}
    /\ serving' = [serving EXCEPT ![c] = "done"]
    /\ reader' = [reader EXCEPT ![c] = "reading"]
    /\ writer' = [writer EXCEPT ![c] = "writing"]
    /\ UNCHANGED <<hub, broadcast, posted, closed, panicked, ticks, conn, peers, received,
                   send, droppers, missed, handler, events>>

\* The body of case client := <-h.unregister: close the channel of a client
\* that is still in the map.
RemoveClient(c) ==
    /\ clients' = clients \ {c}
    /\ closed' = IF c \in clients THEN closed \cup {c} ELSE closed
    /\ panicked' = (panicked \/ (c \in clients /\ c \in closed))

\* ... sent by ReadPump's deferred Unregister, which then closes the connection,
UnregisterByReader(c) ==
    /\ hub = "select"
    /\ reader[c] = "leaving"
    /\ RemoveClient(c)
    /\ reader' = [reader EXCEPT ![c] = "done"]
    /\ conn' = conn \ {c}
    /\ UNCHANGED <<hub, broadcast, posted, ticks, serving, writer, peers, received, send,
                   droppers, missed, handler, events>>

\* ... or by a goroutine spawned for a full channel.
UnregisterByDropper(c) ==
    /\ hub = "select"
    /\ droppers[c] > 0
    /\ RemoveClient(c)
    /\ droppers' = [droppers EXCEPT ![c] = @ - 1]
    /\ UNCHANGED <<hub, broadcast, posted, ticks, clientVars, send, missed, handler, events>>

\* Whom Run sends a message to.
Recipients == clients

\* For each full channel a goroutine is started that unregisters the client.
SpawnDroppers(full) ==
    droppers' = [c \in Clients |-> IF c \in full THEN droppers[c] + 1 ELSE droppers[c]]

\* case message := <-h.broadcast: a non-blocking send to every client.
Deliver ==
    LET full == {c \in Recipients : Len(send[c]) = SendCap} IN
    /\ hub = "select"
    /\ broadcast # <<>>
    /\ broadcast' = Tail(broadcast)
    /\ send' = [c \in Clients |-> IF c \in Recipients \ (full \cup closed)
                                  THEN Append(send[c], Head(broadcast)) ELSE send[c]]
    /\ panicked' = (panicked \/ Recipients \cap closed # {})
    /\ SpawnDroppers(full)
    /\ missed' = missed \cup full
    /\ UNCHANGED <<hub, posted, clients, closed, ticks, clientVars, handler, events>>

\* case <-ticker.C: Run calls sendStats, ...
Tick ==
    /\ hub = "select"
    /\ ticks < MaxTicks
    /\ ticks' = ticks + 1
    /\ hub' = "stats"
    /\ UNCHANGED <<broadcast, posted, clients, closed, panicked, clientVars, send, droppers,
                   missed, handler, events>>

\* ... whose last statement is h.broadcast <- data.
SendStats ==
    /\ hub = "stats"
    /\ Post
    /\ hub' = "select"
    /\ UNCHANGED <<clients, closed, panicked, ticks, clientVars, send, droppers, missed,
                   handler, events>>

-------------------------------------------------------------------------------
(* Clients. *)

\* A peer connects; ServeWs upgrades the request and calls Register.
Connect(c) ==
    /\ serving[c] = "none"
    /\ serving' = [serving EXCEPT ![c] = "registering"]
    /\ conn' = conn \cup {c}
    /\ peers' = peers \cup {c}
    /\ UNCHANGED <<hubVars, reader, writer, received, send, droppers, missed, handler, events>>

\* The peer closes the connection, or is no longer reachable.
PeerLeaves(c) ==
    /\ c \in peers
    /\ peers' = peers \ {c}
    /\ UNCHANGED <<hubVars, serving, reader, writer, conn, received, send, droppers, missed,
                   handler, events>>

\* ReadPump's loop ends and its deferred function calls Unregister.
Leave(c) == reader' = [reader EXCEPT ![c] = "leaving"]

\* ReadMessage fails: the peer is gone (or silent for pongWait), or the
\* connection was closed by WritePump.
ReadFails(c) ==
    /\ reader[c] = "reading"
    /\ c \notin peers \/ c \notin conn
    /\ Leave(c)
    /\ UNCHANGED <<hubVars, serving, writer, conn, peers, received, send, droppers, missed,
                   handler, events>>

\* What WritePump takes: the first message and the n = len(c.send) behind it.
Taken(c) == send[c]

\* WritePump writes what is queued as one WebSocket message.
WriteQueued(c) ==
    /\ writer[c] = "writing"
    /\ c \in conn
    /\ send[c] # <<>>
    /\ received' = [received EXCEPT ![c] = @ \o Taken(c)]
    /\ send' = [send EXCEPT ![c] = <<>>]
    /\ UNCHANGED <<hubVars, serving, reader, writer, conn, peers, droppers, missed, handler,
                   events>>

\* A ping fails, NextWriter fails with one message taken, or Close fails with
\* all of them taken; what was taken from the channel is lost.
WriteFails(c) ==
    /\ writer[c] = "writing"
    /\ c \notin peers \/ c \notin conn
    /\ \E n \in {0, 1, Len(send[c])} \cap 0..Len(send[c]) :
          send' = [send EXCEPT ![c] = SubSeq(@, n + 1, Len(@))]
    /\ writer' = [writer EXCEPT ![c] = "done"]
    /\ conn' = conn \ {c}
    /\ UNCHANGED <<hubVars, serving, reader, peers, received, droppers, missed, handler, events>>

\* The hub closed the channel and nothing is left in it.
WriteClose(c) ==
    /\ writer[c] = "writing"
    /\ c \in closed
    /\ send[c] = <<>>
    /\ writer' = [writer EXCEPT ![c] = "done"]
    /\ conn' = conn \ {c}
    /\ UNCHANGED <<hubVars, serving, reader, peers, received, send, droppers, missed, handler,
                   events>>

-------------------------------------------------------------------------------
HubStep ==
    \/ Deliver
    \/ SendStats
    \/ \E c \in Clients : RegisterClient(c) \/ UnregisterByReader(c) \/ UnregisterByDropper(c)

PumpStep(c) == ReadFails(c) \/ WriteQueued(c) \/ WriteFails(c) \/ WriteClose(c)

Next ==
    \/ HubStep
    \/ Tick
    \/ \E h \in Handlers : Ingest(h) \/ BroadcastEvent(h)
    \/ \E c \in Clients : Connect(c) \/ PeerLeaves(c) \/ PumpStep(c)

Spec == Init /\ [][Next]_vars

\* Goroutines that can go on do: the hub, each pump, each handler.  The select
\* statement picks among ready cases at random, so none is passed over forever.
Fairness ==
    /\ WF_vars(Deliver) /\ WF_vars(SendStats)
    /\ \A c \in Clients :
          /\ WF_vars(RegisterClient(c))
          /\ WF_vars(UnregisterByReader(c))
          /\ WF_vars(UnregisterByDropper(c))
          /\ WF_vars(ReadFails(c))
          /\ WF_vars(WriteQueued(c) \/ WriteFails(c) \/ WriteClose(c))
    /\ \A h \in Handlers : WF_vars(BroadcastEvent(h))

FairSpec == Spec /\ Fairness

-------------------------------------------------------------------------------
(***************************************************************************)
(* Properties.                                                             *)
(***************************************************************************)

\* However many goroutines ask for the removal of one client (its ReadPump and
\* one per message that found its channel full), no channel is closed twice and
\* none is sent to after it was closed: Run looks the client up first
\* (hub.go 84-91).  The channels stay within their capacity.
NoPanic == TypeOK /\ ~panicked

\* A client is written messages in the order in which they were posted, none
\* twice, and without a gap unless its channel was full for one.  It is then on
\* its way out: out of the map, or waited for by a goroutine that takes it out.
\* No client stays subscribed to a stream with holes (hub.go 95-102, client.go
\* 84-103).
InOrder ==
    /\ \A c \in Clients : \A i \in 1..Len(received[c]) - 1 :
          IF c \in missed THEN received[c][i] < received[c][i + 1]
                          ELSE received[c][i + 1] = received[c][i] + 1
    /\ \A c \in missed : c \notin clients \/ droppers[c] > 0

\* Run waits in sendStats for room that only Run makes (hub.go 108, 190).
Wedged == hub = "stats" /\ Len(broadcast) = BroadcastCap

\* Unless the hub is wedged, a client whose peer has gone is removed in the end,
\* and no goroutine waits for a removal forever (client.go 50-54, hub.go 84-102).
GoneIsRemoved ==
    \A c \in Clients :
        /\ (c \in clients /\ c \notin peers) ~> (c \notin clients \/ Wedged)
        /\ droppers[c] > 0 ~> (droppers[c] = 0 \/ Wedged)

\* hub.go 167: "sendStats broadcasts current stats to all clients": once Run has
\* called it, the statistics are posted.
StatsArePosted == hub = "stats" ~> hub = "select"
===============================================================================

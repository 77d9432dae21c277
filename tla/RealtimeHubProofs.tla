--------------------------- MODULE RealtimeHubProofs ---------------------------
(***************************************************************************)
(* Proofs about RealtimeHub.  HubInv is inductive: the messages in the     *)
(* broadcast channel are the last that were posted, without a gap; a       *)
(* client's channel is open while the client is in the map; and what was   *)
(* written to a client's connection, followed by what waits in its         *)
(* channel, is an unbroken part of the messages that Run has taken, up to  *)
(* the last one while the client is subscribed.                            *)
(***************************************************************************)
EXTENDS RealtimeHub, SequenceTheorems, TLAPS

\* The number of the message that Run has taken last.
LastTaken == posted - Len(broadcast)

Rising(s)  == \A i \in 1..Len(s) - 1 : s[i] < s[i + 1]
Unbroken(s) == \A i \in 1..Len(s) - 1 : s[i + 1] = s[i] + 1

\* What WritePump has written and will write if it goes on.
Stream(c) == received[c] \o send[c]

\* The channel holds the numbers up to posted.
ChannelInv ==
    /\ Len(broadcast) <= posted
    /\ \A i \in 1..Len(broadcast) : broadcast[i] = LastTaken + i

\* Nothing has happened to a client before Run has received it from register.
NewClientInv ==
    \A c \in Clients : serving[c] # "done" =>
        /\ c \notin clients /\ c \notin closed /\ c \notin missed
        /\ send[c] = <<>> /\ received[c] = <<>>
        /\ writer[c] = "none"

\* A client that is in the map has an open channel (hub.go 84-87).
OpenInv == clients \cap closed = {} /\ ~panicked

StreamInv(c) ==
    /\ Rising(received[c])
    /\ c \notin missed => Unbroken(received[c])
    /\ writer[c] = "writing" =>
          /\ Rising(Stream(c))
          /\ c \notin missed => Unbroken(Stream(c))
          /\ \A i \in 1..Len(Stream(c)) : Stream(c)[i] <= LastTaken
          /\ c \in clients \ missed /\ Stream(c) # <<>> => Stream(c)[Len(Stream(c))] = LastTaken

\* A client with a gap is on its way out (hub.go 98-102).
MissedIsLeaving == \A c \in missed : c \notin clients \/ droppers[c] > 0

HubInv ==
    /\ TypeOK
    /\ ChannelInv
    /\ NewClientInv
    /\ OpenInv
    /\ \A c \in Clients : StreamInv(c)
    /\ MissedIsLeaving

-------------------------------------------------------------------------------
(***************************************************************************)
(* Rising and unbroken sequences.                                          *)
(***************************************************************************)

\* A larger element, or the next one, may follow the last.
LEMMA AppendKeepsOrder ==
    ASSUME NEW s \in Seq(Nat), NEW x \in Nat
    PROVE  /\ Rising(s) /\ (\A i \in 1..Len(s) : s[i] < x) => Rising(Append(s, x))
           /\ Unbroken(s) /\ (s # <<>> => x = s[Len(s)] + 1) => Unbroken(Append(s, x))
<1>1. /\ Len(s) \in Nat
      /\ s = <<>> <=> Len(s) = 0
      /\ \A i \in 1..Len(s) : s[i] \in Nat
    BY EmptySeq, LenProperties, ElementOfSeq
<1>2. /\ Len(Append(s, x)) = Len(s) + 1
      /\ \A i \in 1..Len(s) : Append(s, x)[i] = s[i]
      /\ Append(s, x)[Len(s) + 1] = x
    BY AppendProperties
<1> QED BY <1>1, <1>2 DEF Rising, Unbroken

\* Delivering a message extends what a client is written.
LEMMA StreamAppends ==
    ASSUME NEW r \in Seq(Nat), NEW s \in Seq(Nat), NEW x \in Nat
    PROVE  r \o Append(s, x) = Append(r \o s, x)
<1>1. <<x>> \in Seq(Nat) /\ r \o s \in Seq(Nat)
    BY ConcatProperties
<1>2. Append(s, x) = s \o <<x>> /\ Append(r \o s, x) = (r \o s) \o <<x>>
    BY <1>1, AppendIsConcat
<1> QED BY <1>1, <1>2, ConcatAssociative

-------------------------------------------------------------------------------
(***************************************************************************)
(* Types.                                                                  *)
(***************************************************************************)

\* What Post does to the broadcast channel.
LEMMA PostProperties ==
    ASSUME TypeOK, Post
    PROVE  /\ broadcast' \in Seq(Nat) /\ Len(broadcast') <= BroadcastCap
           /\ posted' \in Nat
           /\ Len(broadcast') = Len(broadcast) + 1 /\ posted' = posted + 1
           /\ \A i \in 1..Len(broadcast) : broadcast'[i] = broadcast[i]
           /\ broadcast'[Len(broadcast) + 1] = posted + 1
<1>1. Len(broadcast) \in Nat /\ BroadcastCap \in Nat /\ posted + 1 \in Nat
    BY HubAssumption, LenProperties DEF TypeOK
<1>2. broadcast' = Append(broadcast, posted + 1) /\ broadcast \in Seq(Nat)
    BY DEF TypeOK, Post
<1> QED BY <1>1, <1>2, AppendProperties DEF Post

\* Removing a client keeps the types of what it touches.
LEMMA RemoveClientType ==
    ASSUME TypeOK, NEW c \in Clients, RemoveClient(c)
    PROVE  clients' \subseteq Clients /\ closed' \subseteq Clients /\ panicked' \in BOOLEAN
BY Zenon DEF TypeOK, RemoveClient

\* Channels stay within their capacity.
LEMMA DeliverType ==
    ASSUME TypeOK, Deliver
    PROVE  TypeOK'
<1>1. /\ Head(broadcast) \in Nat
      /\ broadcast' \in Seq(Nat) /\ Len(broadcast') = Len(broadcast) - 1
    BY HeadTailProperties DEF TypeOK, Deliver
<1>2. Len(broadcast') <= BroadcastCap
    BY <1>1, HubAssumption, LenProperties DEF TypeOK
<1>3. ASSUME NEW c \in Clients
      PROVE  send'[c] \in Seq(Nat) /\ Len(send'[c]) <= SendCap
    <2>1. /\ send[c] \in Seq(Nat) /\ Len(send[c]) \in Nat /\ Len(send[c]) <= SendCap
          /\ SendCap \in Nat
        BY HubAssumption, LenProperties DEF TypeOK
    <2>2. CASE c \in clients /\ Len(send[c]) # SendCap /\ c \notin closed
        <3>1. send'[c] = Append(send[c], Head(broadcast))
            BY <2>2 DEF Deliver, Recipients
        <3> QED BY <1>1, <2>1, <2>2, <3>1, AppendProperties
    <2>3. CASE ~(c \in clients /\ Len(send[c]) # SendCap /\ c \notin closed)
        <3>1. send'[c] = send[c]
            BY <2>3 DEF Deliver, Recipients, TypeOK
        <3> QED BY <2>1, <3>1
    <2> QED BY <2>2, <2>3
<1>4. send' \in [Clients -> Seq(Nat)]
    <2>1. DOMAIN send' = Clients /\ send' = [c \in Clients |-> send'[c]]
        BY DEF Deliver
    <2> QED BY <1>3, <2>1
<1>5. panicked' \in BOOLEAN
    BY Zenon DEF TypeOK, Deliver
<1>6. droppers' \in [Clients -> Nat]
    BY DEF TypeOK, Deliver, SpawnDroppers
<1>7. missed' \subseteq Clients
    BY DEF TypeOK, Deliver, Recipients
<1>8. UNCHANGED <<hub, posted, clients, closed, ticks, serving, reader, writer, conn, peers,
                  received, handler, events>>
    BY DEF Deliver, clientVars
<1> QED BY <1>1, <1>2, <1>3, <1>4, <1>5, <1>6, <1>7, <1>8 DEF TypeOK

\* Every action keeps every variable in its type.
LEMMA TypeStep ==
    ASSUME TypeOK, [Next]_vars
    PROVE  TypeOK'
<1> USE DEF hubVars, clientVars
<1>1. ASSUME NEW h \in Handlers, Ingest(h)
      PROVE  TypeOK'
    BY <1>1, HubAssumption DEF TypeOK, Ingest
<1>2. ASSUME NEW h \in Handlers, BroadcastEvent(h)
      PROVE  TypeOK'
    BY <1>2, PostProperties DEF TypeOK, BroadcastEvent
<1>3. ASSUME NEW c \in Clients, RegisterClient(c)
      PROVE  TypeOK'
    BY <1>3 DEF TypeOK, RegisterClient
<1>4. ASSUME NEW c \in Clients, UnregisterByReader(c)
      PROVE  TypeOK'
    <2>1. RemoveClient(c)
        BY <1>4 DEF UnregisterByReader
    <2>2. clients' \subseteq Clients /\ closed' \subseteq Clients /\ panicked' \in BOOLEAN
        BY <2>1, RemoveClientType
    <2> QED BY <1>4, <2>2 DEF TypeOK, UnregisterByReader
<1>5. ASSUME NEW c \in Clients, UnregisterByDropper(c)
      PROVE  TypeOK'
    <2>1. RemoveClient(c)
        BY <1>5 DEF UnregisterByDropper
    <2>2. clients' \subseteq Clients /\ closed' \subseteq Clients /\ panicked' \in BOOLEAN
        BY <2>1, RemoveClientType
    <2>3. droppers' \in [Clients -> Nat]
        BY <1>5 DEF TypeOK, UnregisterByDropper
    <2> QED BY <1>5, <2>2, <2>3 DEF TypeOK, UnregisterByDropper
<1>6. CASE Deliver
    BY <1>6, DeliverType
<1>7. CASE Tick
    BY <1>7, HubAssumption DEF TypeOK, Tick
<1>8. CASE SendStats
    BY <1>8, PostProperties DEF TypeOK, SendStats
<1>9. ASSUME NEW c \in Clients, Connect(c)
      PROVE  TypeOK'
    BY <1>9 DEF TypeOK, Connect
<1>10. ASSUME NEW c \in Clients, PeerLeaves(c)
       PROVE  TypeOK'
    BY <1>10 DEF TypeOK, PeerLeaves
<1>11. ASSUME NEW c \in Clients, ReadFails(c)
       PROVE  TypeOK'
    BY <1>11 DEF TypeOK, ReadFails, Leave
<1>12. ASSUME NEW c \in Clients, WriteQueued(c)
       PROVE  TypeOK'
    <2>1. received[c] \o send[c] \in Seq(Nat)
        BY ConcatProperties DEF TypeOK
    <2>2. received' \in [Clients -> Seq(Nat)]
        BY <1>12, <2>1 DEF TypeOK, WriteQueued, Taken
    <2>3. send' \in [Clients -> Seq(Nat)] /\ \A d \in Clients : Len(send'[d]) <= SendCap
        BY <1>12, HubAssumption, EmptySeq DEF TypeOK, WriteQueued
    <2> QED BY <1>12, <2>2, <2>3 DEF TypeOK, WriteQueued
<1>13. ASSUME NEW c \in Clients, WriteFails(c)
       PROVE  TypeOK'
    <2>1. PICK n \in {0, 1, Len(send[c])} \cap 0..Len(send[c]) :
              send' = [send EXCEPT ![c] = SubSeq(@, n + 1, Len(@))]
        BY <1>13 DEF WriteFails
    <2>2. /\ Len(send[c]) \in Nat /\ n \in Nat /\ n <= Len(send[c])
          /\ \A i \in n + 1 .. Len(send[c]) : send[c][i] \in Nat
        BY LenProperties, ElementOfSeq DEF TypeOK
    <2>3. /\ SubSeq(send[c], n + 1, Len(send[c])) \in Seq(Nat)
          /\ Len(SubSeq(send[c], n + 1, Len(send[c]))) <= Len(send[c])
        BY <2>2, SubSeqProperties
    <2>4. send' \in [Clients -> Seq(Nat)] /\ \A d \in Clients : Len(send'[d]) <= SendCap
        BY <2>1, <2>2, <2>3, HubAssumption DEF TypeOK
    <2> QED BY <1>13, <2>4 DEF TypeOK, WriteFails
<1>14. ASSUME NEW c \in Clients, WriteClose(c)
       PROVE  TypeOK'
    BY <1>14 DEF TypeOK, WriteClose
<1>15. CASE UNCHANGED vars
    BY <1>15 DEF TypeOK, vars
<1> QED
    BY <1>1, <1>2, <1>3, <1>4, <1>5, <1>6, <1>7, <1>8, <1>9, <1>10, <1>11, <1>12, <1>13, <1>14,
       <1>15 DEF Next, HubStep, PumpStep

-------------------------------------------------------------------------------
(***************************************************************************)
(* The messages that wait.                                                 *)
(***************************************************************************)

\* Run takes the message after the one it took last; nobody else takes one.
LEMMA TakenInOrder ==
    ASSUME TypeOK, ChannelInv, Deliver
    PROVE  /\ ChannelInv'
           /\ LastTaken \in Nat
           /\ Head(broadcast) = LastTaken + 1
           /\ LastTaken' = LastTaken + 1
<1>1. /\ broadcast \in Seq(Nat) /\ broadcast # <<>> /\ broadcast' = Tail(broadcast)
      /\ posted' = posted /\ posted \in Nat
    BY DEF TypeOK, Deliver
<1>2. /\ Len(broadcast) \in Nat \ {0}
      /\ Head(broadcast) = broadcast[1]
      /\ Len(broadcast') = Len(broadcast) - 1
      /\ \A i \in 1..Len(broadcast') : broadcast'[i] = broadcast[i + 1]
    BY <1>1, EmptySeq, HeadTailProperties
<1> QED BY <1>1, <1>2 DEF ChannelInv, LastTaken

\* A message that enters the channel is behind the others.
LEMMA PostKeepsOrder ==
    ASSUME TypeOK, ChannelInv, Post
    PROVE  ChannelInv' /\ LastTaken' = LastTaken
<1>1. Len(broadcast) \in Nat /\ posted \in Nat
    BY LenProperties DEF TypeOK
<1>2. /\ Len(broadcast') = Len(broadcast) + 1 /\ posted' = posted + 1
      /\ \A i \in 1..Len(broadcast) : broadcast'[i] = broadcast[i]
      /\ broadcast'[Len(broadcast) + 1] = posted + 1
    BY PostProperties
<1>3. LastTaken' = LastTaken
    BY <1>1, <1>2 DEF LastTaken
<1>4. ASSUME NEW i \in 1..Len(broadcast')
      PROVE  broadcast'[i] = LastTaken' + i
    <2>1. CASE i \in 1..Len(broadcast)
        BY <1>1, <1>2, <1>3, <2>1 DEF ChannelInv
    <2>2. CASE i = Len(broadcast) + 1
        BY <1>1, <1>2, <1>3, <2>2 DEF LastTaken
    <2> QED BY <1>1, <1>2, <2>1, <2>2
<1> QED BY <1>1, <1>2, <1>3, <1>4 DEF ChannelInv

\* Nothing else touches the channel.
LEMMA ChannelUntouched ==
    ASSUME ChannelInv, UNCHANGED <<broadcast, posted>>
    PROVE  ChannelInv' /\ LastTaken' = LastTaken
BY DEF ChannelInv, LastTaken

LEMMA ChannelStep ==
    ASSUME TypeOK, ChannelInv, [Next]_vars
    PROVE  ChannelInv' /\ (~Deliver => LastTaken' = LastTaken)
<1>1. CASE Deliver
    BY <1>1, TakenInOrder
<1>2. CASE SendStats \/ \E h \in Handlers : BroadcastEvent(h)
    BY <1>2, PostKeepsOrder DEF SendStats, BroadcastEvent
<1>3. CASE UNCHANGED <<broadcast, posted>>
    BY <1>3, ChannelUntouched
<1> QED
    BY <1>1, <1>2, <1>3
    DEF Next, HubStep, PumpStep, Tick, Ingest, RegisterClient, UnregisterByReader,
        UnregisterByDropper, Connect, PeerLeaves, ReadFails, WriteQueued, WriteFails, WriteClose,
        vars, hubVars

-------------------------------------------------------------------------------
(***************************************************************************)
(* Registration and removal.                                               *)
(***************************************************************************)

ClientInv == NewClientInv /\ OpenInv /\ MissedIsLeaving

\* The map lookup in Run keeps a channel from being closed twice.
LEMMA RemoveClientProperties ==
    ASSUME OpenInv, NEW c \in Clients, RemoveClient(c)
    PROVE  /\ OpenInv'
           /\ clients' = clients \ {c}
           /\ \A d \in closed' : d \in closed \/ d \in clients
BY DEF OpenInv, RemoveClient

\* A step that leaves the map, the channels and the counts of goroutines alone.
LEMMA ClientInvUntouched ==
    ASSUME ClientInv, UNCHANGED <<clients, closed, panicked, missed, droppers>>,
           \A c \in Clients : serving'[c] # "done" =>
              /\ serving[c] # "done"
              /\ writer'[c] = writer[c]
              /\ send[c] = <<>> => send'[c] = <<>>
              /\ send[c] = <<>> => received'[c] = received[c]
    PROVE  ClientInv'
BY DEF ClientInv, NewClientInv, OpenInv, MissedIsLeaving

\* Only a step of Run changes who is subscribed.
LEMMA ClientStep ==
    ASSUME TypeOK, ClientInv, [Next]_vars
    PROVE  ClientInv'
<1> USE DEF hubVars, clientVars
<1>1. ASSUME NEW c \in Clients, RegisterClient(c)
      PROVE  ClientInv'
    <2>1. c \notin closed /\ c \notin missed /\ serving'[c] = "done"
        BY <1>1 DEF TypeOK, RegisterClient, ClientInv, NewClientInv
    <2>2. \A d \in Clients \ {c} : serving'[d] = serving[d] /\ writer'[d] = writer[d]
        BY <1>1 DEF TypeOK, RegisterClient
    <2> QED
        BY <1>1, <2>1, <2>2
        DEF RegisterClient, ClientInv, NewClientInv, OpenInv, MissedIsLeaving
<1>2. ASSUME NEW c \in Clients, UnregisterByReader(c)
      PROVE  ClientInv'
    <2>1. /\ OpenInv' /\ clients' = clients \ {c}
          /\ \A d \in closed' : d \in closed \/ d \in clients
        BY <1>2, RemoveClientProperties DEF UnregisterByReader, ClientInv
    <2> QED
        BY <1>2, <2>1 DEF UnregisterByReader, ClientInv, NewClientInv, MissedIsLeaving
<1>3. ASSUME NEW c \in Clients, UnregisterByDropper(c)
      PROVE  ClientInv'
    <2>1. /\ OpenInv' /\ clients' = clients \ {c}
          /\ \A d \in closed' : d \in closed \/ d \in clients
        BY <1>3, RemoveClientProperties DEF UnregisterByDropper, ClientInv
    <2>2. \A d \in Clients \ {c} : droppers'[d] = droppers[d]
        BY <1>3 DEF TypeOK, UnregisterByDropper
    <2>3. MissedIsLeaving'
        BY <1>3, <2>1, <2>2 DEF TypeOK, UnregisterByDropper, ClientInv, MissedIsLeaving
    <2> QED
        BY <1>3, <2>1, <2>3 DEF UnregisterByDropper, ClientInv, NewClientInv
<1>4. CASE Deliver
    <2> DEFINE full == {c \in Recipients : Len(send[c]) = SendCap}
    <2>1. OpenInv'
        BY <1>4 DEF Deliver, Recipients, ClientInv, OpenInv
    <2>2. \A c \in Clients \ clients : send'[c] = send[c] /\ c \notin full
        BY <1>4 DEF Deliver, Recipients, TypeOK
    <2>3. NewClientInv'
        BY <1>4, <2>2 DEF Deliver, ClientInv, NewClientInv
    <2>4. \A c \in full : droppers'[c] > 0
        BY <1>4 DEF Deliver, SpawnDroppers, Recipients, TypeOK
    <2>5. \A c \in Clients : droppers[c] > 0 => droppers'[c] > 0
        BY <1>4 DEF Deliver, SpawnDroppers, TypeOK
    <2>6. MissedIsLeaving'
        BY <1>4, <2>4, <2>5 DEF Deliver, ClientInv, MissedIsLeaving, TypeOK
    <2> QED BY <2>1, <2>3, <2>6 DEF ClientInv
<1>5. ASSUME \/ Tick \/ SendStats
             \/ \E h \in Handlers : Ingest(h) \/ BroadcastEvent(h)
             \/ \E c \in Clients : PeerLeaves(c) \/ ReadFails(c)
             \/ UNCHANGED vars
      PROVE  ClientInv'
    BY <1>5, ClientInvUntouched
    DEF Tick, SendStats, Ingest, BroadcastEvent, PeerLeaves, ReadFails, vars
<1>6. ASSUME NEW c \in Clients, Connect(c)
      PROVE  ClientInv'
    <2>1. \A d \in Clients : serving'[d] # "done" => serving[d] # "done"
        BY <1>6 DEF Connect, TypeOK
    <2> QED BY <1>6, <2>1, ClientInvUntouched DEF Connect
<1>7. ASSUME NEW c \in Clients, WriteQueued(c) \/ WriteFails(c) \/ WriteClose(c)
      PROVE  ClientInv'
    <2>1. /\ writer[c] = "writing"
          /\ UNCHANGED <<clients, closed, panicked, missed, droppers, serving>>
          /\ \A d \in Clients \ {c} :
                writer'[d] = writer[d] /\ send'[d] = send[d] /\ received'[d] = received[d]
        BY <1>7 DEF WriteQueued, WriteFails, WriteClose, TypeOK
    <2>2. serving[c] = "done"
        BY <2>1 DEF ClientInv, NewClientInv
    <2> QED BY <2>1, <2>2, ClientInvUntouched
<1> QED
    BY <1>1, <1>2, <1>3, <1>4, <1>5, <1>6, <1>7 DEF Next, HubStep, PumpStep

-------------------------------------------------------------------------------
(***************************************************************************)
(* What a client is written.                                               *)
(***************************************************************************)

\* A step that touches none of what StreamInv is about.
LEMMA StreamUntouched ==
    ASSUME NEW c \in Clients, StreamInv(c),
           received'[c] = received[c], send'[c] = send[c],
           writer'[c] \in {writer[c], "done"},
           missed' = missed, LastTaken' = LastTaken, c \in clients' => c \in clients
    PROVE  StreamInv(c)'
<1>1. Stream(c)' = Stream(c)
    BY DEF Stream
<1> QED BY <1>1 DEF StreamInv, Rising, Unbroken

\* A message delivered to the client is the next one; if its channel is full
\* the client is known to have missed one.
LEMMA DeliverKeepsStream ==
    ASSUME TypeOK, ChannelInv, OpenInv, NEW c \in Clients, StreamInv(c), Deliver
    PROVE  StreamInv(c)'
<1> DEFINE x == LastTaken + 1
<1>1. /\ LastTaken \in Nat /\ Head(broadcast) = x /\ LastTaken' = x
    BY TakenInOrder
<1>2. UNCHANGED <<received, writer, clients>>
    BY DEF Deliver, clientVars
<1>3. /\ received[c] \in Seq(Nat) /\ send[c] \in Seq(Nat)
      /\ Stream(c) \in Seq(Nat) /\ Len(Stream(c)) \in Nat
      /\ \A i \in 1..Len(Stream(c)) : Stream(c)[i] \in Nat
      /\ Stream(c) # <<>> => Len(Stream(c)) > 0
    <2>1. received[c] \in Seq(Nat) /\ send[c] \in Seq(Nat)
        BY DEF TypeOK
    <2>2. Stream(c) \in Seq(Nat)
        BY <2>1, ConcatProperties DEF Stream
    <2> QED BY <2>1, <2>2, LenProperties, ElementOfSeq, EmptySeq
<1>4. CASE c \in clients /\ Len(send[c]) # SendCap
    <2>1. c \notin closed
        BY <1>4 DEF OpenInv
    <2>2. send'[c] = Append(send[c], x) /\ (c \in missed' <=> c \in missed)
        BY <1>1, <1>4, <2>1 DEF Deliver, Recipients
    <2>3. Stream(c)' = Append(Stream(c), x)
        <3>1. x \in Nat
            BY <1>1
        <3>2. Stream(c)' = received[c] \o Append(send[c], x)
            BY <1>2, <2>2 DEF Stream
        <3> HIDE DEF x
        <3> QED BY <1>3, <3>1, <3>2, StreamAppends DEF Stream
    <2>4. ASSUME writer[c] = "writing"
          PROVE  /\ Rising(Stream(c)')
                 /\ c \notin missed => Unbroken(Stream(c)')
        <3>1. \A i \in 1..Len(Stream(c)) : Stream(c)[i] < x
            BY <1>1, <1>3, <2>4 DEF StreamInv
        <3>2. c \notin missed => (Stream(c) # <<>> => x = Stream(c)[Len(Stream(c))] + 1)
            BY <1>1, <1>3, <1>4, <2>4 DEF StreamInv
        <3> HIDE DEF x
        <3>3. x \in Nat
            BY <1>1 DEF x
        <3> QED BY <1>3, <2>3, <2>4, <3>1, <3>2, <3>3, AppendKeepsOrder DEF StreamInv
    <2>5. /\ Len(Stream(c)') = Len(Stream(c)) + 1
          /\ \A i \in 1..Len(Stream(c)) : Stream(c)'[i] = Stream(c)[i]
          /\ Stream(c)'[Len(Stream(c)) + 1] = x
        BY <1>1, <1>3, <2>3, AppendProperties
    <2>6. ASSUME writer[c] = "writing"
          PROVE  \A i \in 1..Len(Stream(c)') : Stream(c)'[i] <= LastTaken'
        <3>1. \A i \in 1..Len(Stream(c)) : Stream(c)[i] <= LastTaken
            BY <2>6 DEF StreamInv
        <3> HIDE DEF x
        <3>2. SUFFICES ASSUME NEW i \in 1..Len(Stream(c)) + 1
                       PROVE  Stream(c)'[i] <= x
            BY <1>1, <2>5
        <3>3. CASE i = Len(Stream(c)) + 1
            BY <1>1, <2>5, <3>3 DEF x
        <3>4. CASE i \in 1..Len(Stream(c))
            <4>1. Stream(c)'[i] = Stream(c)[i] /\ Stream(c)[i] <= LastTaken
                BY <2>5, <3>1, <3>4
            <4>2. Stream(c)[i] \in Nat
                BY <1>3, <3>4
            <4>3. LastTaken \in Nat /\ x = LastTaken + 1
                BY <1>1 DEF x
            <4> QED BY <4>1, <4>2, <4>3
        <3> QED BY <1>3, <3>3, <3>4
    <2> QED BY <1>1, <1>2, <1>3, <2>2, <2>4, <2>5, <2>6 DEF StreamInv, Rising, Unbroken
<1>5. CASE c \notin clients \/ Len(send[c]) = SendCap
    <2>1. send'[c] = send[c] /\ (c \in clients => c \in missed') /\ missed \subseteq missed'
        BY <1>5 DEF Deliver, Recipients
    <2>2. Stream(c)' = Stream(c)
        BY <1>2, <2>1 DEF Stream
    <2>3. ASSUME writer[c] = "writing"
          PROVE  \A i \in 1..Len(Stream(c)) : Stream(c)[i] <= LastTaken'
        BY <1>1, <1>3, <2>3 DEF StreamInv
    <2> QED BY <1>2, <2>1, <2>2, <2>3 DEF StreamInv, Rising, Unbroken
<1> QED BY <1>4, <1>5

LEMMA StreamStep ==
    ASSUME TypeOK, ChannelInv, ClientInv, [Next]_vars, NEW c \in Clients, StreamInv(c)
    PROVE  StreamInv(c)'
<1> USE DEF hubVars, clientVars
<1>1. CASE Deliver
    BY <1>1, DeliverKeepsStream DEF ClientInv
<1>2. CASE ~Deliver
    <2>1. LastTaken' = LastTaken /\ missed' = missed
        <3>1. LastTaken' = LastTaken
            BY <1>2, ChannelStep
        <3>2. missed' = missed
            BY <1>2 DEF Next, HubStep, PumpStep, Tick, SendStats, Ingest, BroadcastEvent,
                RegisterClient, UnregisterByReader, UnregisterByDropper, Connect, PeerLeaves,
                ReadFails, WriteQueued, WriteFails, WriteClose, vars
        <3> QED BY <3>1, <3>2
    <2>2. CASE RegisterClient(c)
        <3>1. received[c] = <<>> /\ send[c] = <<>>
            BY <2>2 DEF RegisterClient, ClientInv, NewClientInv
        <3>2. received'[c] = <<>> /\ send'[c] = <<>> /\ Stream(c)' = <<>>
            BY <2>2, <3>1, ConcatEmptySeq, EmptySeq DEF RegisterClient, Stream
        <3> QED BY <3>2 DEF StreamInv, Rising, Unbroken
    <2>3. CASE WriteQueued(c)
        <3>1. received'[c] = Stream(c) /\ send'[c] = <<>> /\ writer[c] = "writing"
            BY <2>3 DEF WriteQueued, Taken, Stream, TypeOK
        <3>2. Stream(c) \in Seq(Nat)
            BY ConcatProperties DEF TypeOK, Stream
        <3>3. Stream(c)' = Stream(c)
            BY <3>1, <3>2, ConcatEmptySeq DEF Stream
        <3>4. writer' = writer /\ clients' = clients
            BY <2>3 DEF WriteQueued
        <3> QED BY <2>1, <3>1, <3>3, <3>4 DEF StreamInv, Rising, Unbroken
    <2>4. CASE WriteFails(c)
        <3>1. received' = received /\ writer'[c] = "done"
            BY <2>4 DEF WriteFails, TypeOK
        <3> QED BY <2>1, <3>1 DEF StreamInv, Rising, Unbroken
    <2>5. CASE ~(RegisterClient(c) \/ WriteQueued(c) \/ WriteFails(c))
        <3>1. /\ received'[c] = received[c] /\ send'[c] = send[c]
              /\ writer'[c] \in {writer[c], "done"}
              /\ c \in clients' => c \in clients
            <4>1. ASSUME NEW d \in Clients, d # c, RegisterClient(d) \/ WriteQueued(d) \/ WriteFails(d)
                  PROVE  /\ received'[c] = received[c] /\ send'[c] = send[c] /\ writer'[c] = writer[c]
                         /\ c \in clients' => c \in clients
                BY <4>1 DEF RegisterClient, WriteQueued, WriteFails, TypeOK
            <4>2. ASSUME NEW d \in Clients, WriteClose(d)
                  PROVE  /\ received' = received /\ send' = send /\ clients' = clients
                         /\ writer'[c] \in {writer[c], "done"}
                BY <4>2 DEF WriteClose, TypeOK
            <4>3. ASSUME NEW d \in Clients, UnregisterByReader(d) \/ UnregisterByDropper(d)
                  PROVE  UNCHANGED <<received, send, writer>> /\ clients' \subseteq clients
                BY <4>3 DEF UnregisterByReader, UnregisterByDropper, RemoveClient
            <4>4. CASE \/ Tick \/ SendStats \/ UNCHANGED vars
                       \/ \E h \in Handlers : Ingest(h) \/ BroadcastEvent(h)
                       \/ \E d \in Clients : Connect(d) \/ PeerLeaves(d) \/ ReadFails(d)
                BY <4>4 DEF Tick, SendStats, Ingest, BroadcastEvent, Connect, PeerLeaves,
                    ReadFails, vars
            <4> QED
                BY <1>2, <2>5, <4>1, <4>2, <4>3, <4>4 DEF Next, HubStep, PumpStep
        <3> QED BY <2>1, <3>1, StreamUntouched
    <2> QED BY <2>2, <2>3, <2>4, <2>5
<1> QED BY <1>1, <1>2

-------------------------------------------------------------------------------
(***************************************************************************)
(* Theorems.                                                               *)
(***************************************************************************)

LEMMA HubInvInit == Init => HubInv
<1> SUFFICES ASSUME Init PROVE HubInv
    OBVIOUS
<1>1. TypeOK
    <2>1. <<>> \in Seq(Nat) /\ Len(<<>>) = 0
        BY EmptySeq
    <2>2. /\ send \in [Clients -> Seq(Nat)] /\ \A c \in Clients : Len(send[c]) <= SendCap
          /\ received \in [Clients -> Seq(Nat)]
        BY <2>1, HubAssumption DEF Init
    <2>3. broadcast \in Seq(Nat) /\ Len(broadcast) <= BroadcastCap
        BY <2>1, HubAssumption DEF Init
    <2>4. panicked \in BOOLEAN
        BY Zenon DEF Init
    <2> QED BY <2>2, <2>3, <2>4, HubAssumption DEF Init, TypeOK
<1>2. ChannelInv /\ NewClientInv /\ OpenInv /\ MissedIsLeaving
    BY EmptySeq DEF Init, ChannelInv, NewClientInv, OpenInv, MissedIsLeaving
<1>3. \A c \in Clients : StreamInv(c)
    <2>1. ASSUME NEW c \in Clients
          PROVE  Len(received[c]) = 0 /\ writer[c] = "none"
        BY EmptySeq DEF Init
    <2>2. ASSUME NEW c \in Clients
          PROVE  Rising(received[c]) /\ Unbroken(received[c])
        BY <2>1, <2>2 DEF Rising, Unbroken
    <2>3. ASSUME NEW c \in Clients
          PROVE  writer[c] # "writing"
        BY <2>1, <2>3
    <2> QED BY <2>2, <2>3 DEF StreamInv
<1> QED BY <1>1, <1>2, <1>3 DEF HubInv

LEMMA HubInvStep == HubInv /\ [Next]_vars => HubInv'
<1> SUFFICES ASSUME HubInv, [Next]_vars PROVE HubInv'
    OBVIOUS
<1>1. TypeOK /\ ChannelInv /\ ClientInv /\ \A c \in Clients : StreamInv(c)
    BY DEF HubInv, ClientInv
<1>2. TypeOK'
    BY <1>1, TypeStep
<1>3. ChannelInv'
    BY <1>1, ChannelStep
<1>4. ClientInv'
    BY <1>1, ClientStep
<1>5. ASSUME NEW c \in Clients
      PROVE  StreamInv(c)'
    BY <1>1, StreamStep
<1> QED BY <1>2, <1>3, <1>4, <1>5 DEF HubInv, ClientInv

\* In every reachable state HubInv holds.
THEOREM HubInvariant == Spec => []HubInv
BY HubInvInit, HubInvStep, PTL DEF Spec

\* However many goroutines ask for the removal of one client, Run closes its
\* channel once and never sends to it afterwards, and no channel holds more
\* than its capacity (hub.go 84-102).
THEOREM HubNeverPanics == Spec => []NoPanic
<1>1. HubInv => NoPanic
    BY DEF HubInv, OpenInv, NoPanic
<1> QED BY <1>1, HubInvariant, PTL

\* What a client has been written is in the order in which it was posted,
\* without repetition, and without a gap unless the client is being removed
\* (hub.go 95-102, client.go 84-103).
THEOREM ClientsAreWrittenInOrder == Spec => []InOrder
<1>1. HubInv => InOrder
    <2> SUFFICES ASSUME HubInv PROVE InOrder
        OBVIOUS
    <2>1. ASSUME NEW c \in Clients, NEW i \in 1..Len(received[c]) - 1
          PROVE  IF c \in missed THEN received[c][i] < received[c][i + 1]
                                 ELSE received[c][i + 1] = received[c][i] + 1
        BY <2>1 DEF HubInv, StreamInv, Rising, Unbroken
    <2> QED BY <2>1 DEF HubInv, MissedIsLeaving, InOrder
<1> QED BY <1>1, HubInvariant, PTL

=============================================================================

------------------------------ MODULE Backplane ------------------------------
(***************************************************************************)
(* WebSocketBackplane (websocket.py): what a client of the hub sends goes  *)
(* to all clients.  With Redis each node has one listener on a channel,    *)
(* which writes what comes in to the clients of its node; without, the     *)
(* handler of the sender does.  A broadcast goes over a snapshot of the    *)
(* clients and awaits after each write.                                    *)
(***************************************************************************)
EXTENDS Integers, Sequences, SequencesExt, Redis

CONSTANTS
  Peer,         \* the clients of the hub
  NodeOf,       \* NodeOf[c]: the node it connects to
  Sends,        \* bound: Sends[c] messages of c
  Lossy         \* the clients whose connection may break

ASSUME BackplaneAssumption ==
  /\ Node \cap Peer = {}
  /\ \A c \in Peer : NodeOf[c] \in Node /\ Sends[c] \in Nat

VARIABLES
  peer,         \* the stage of handle_client: "away", "reading", "publishing",
                \* "broadcasting", "over"
  connected,    \* the clients whose connection is not broken
  clients,      \* WebSocketBackplane.clients of each node
  channel,      \* what Redis has for the listener of each node
  listener,     \* the listener of each node: "listening", "broadcasting", "ended"
  broadcast,    \* the broadcasts: of each node's listener and each client's
                \* handler [message, todo, to]
  said,         \* history: the messages each client has sent
  heard         \* history: the messages written to each client, <<sender, number>>

backplane == <<peer, connected, clients, channel, listener, broadcast, said, heard>>

Idle == [message |-> <<>>, todo |-> {}, to |-> {}]

BackplaneInit ==
  /\ peer = [c \in Peer |-> "away"]
  /\ connected = Peer
  /\ clients = [n \in Node |-> {}]
  /\ channel = [n \in Node |-> <<>>]
  /\ listener = [n \in Node |-> "listening"]
  /\ broadcast = [b \in Node \cup Peer |-> Idle]
  /\ said = [c \in Peer |-> 0]
  /\ heard = [c \in Peer |-> <<>>]

At(c, stage) == peer' = [peer EXCEPT ![c] = stage]

(* handle_client: the handshake is answered and the client joins.          *)
Join(c) ==
  /\ peer[c] = "away"
  /\ At(c, "reading")
  /\ clients' = [clients EXCEPT ![NodeOf[c]] = @ \cup {c}]
  /\ UNCHANGED <<connected, channel, listener, broadcast, said, heard, redis_client>>

(* The finally: the client has sent a close frame or is gone, or an        *)
(* exception was raised.                                                   *)
Over(c) ==
  /\ At(c, "over")
  /\ clients' = [clients EXCEPT ![NodeOf[c]] = @ \ {c}]

Close(c) ==
  /\ peer[c] = "reading"
  /\ Over(c)
  /\ UNCHANGED <<connected, channel, listener, broadcast, said, heard, redis_client>>

(* From one write of a broadcast b to the next, in any order over the      *)
(* snapshot; `Then' is what comes after the last.                          *)
NextWrite(b, message, todo, Then) ==
  \/ \E c \in todo :
       /\ broadcast' = [broadcast EXCEPT ![b] =
            [message |-> message, todo |-> todo \ {c}, to |-> {c}]]
       /\ heard' = [heard EXCEPT ![c] = Append(@, message)]
       /\ UNCHANGED <<peer, listener>>
  \/ /\ todo = {}
     /\ broadcast' = [broadcast EXCEPT ![b] = Idle]
     /\ UNCHANGED heard
     /\ Then

Listens(n) == listener' = [listener EXCEPT ![n] = "listening"] /\ UNCHANGED peer
Reads(c)   == At(c, "reading") /\ UNCHANGED listener

(* A text frame is read: it is published, or broadcast by this handler,    *)
(* which writes to nobody if all clients, the sender too, were taken off.  *)
ReadText(c) ==
  /\ peer[c] = "reading" /\ said[c] < Sends[c]
  /\ said' = [said EXCEPT ![c] = @ + 1]
  /\ IF redis_client
       THEN At(c, "publishing") /\ UNCHANGED <<broadcast, heard, listener>>
     ELSE IF clients[NodeOf[c]] = {}
       THEN UNCHANGED <<peer, broadcast, heard, listener>>
     ELSE \E to \in clients[NodeOf[c]] :
            /\ At(c, "broadcasting")
            /\ broadcast' = [broadcast EXCEPT ![c] =
                 [message |-> <<c, said'[c]>>, todo |-> clients[NodeOf[c]] \ {to}, to |-> {to}]]
            /\ heard' = [heard EXCEPT ![to] = Append(@, <<c, said'[c]>>)]
            /\ UNCHANGED listener
  /\ UNCHANGED <<connected, clients, channel, redis_client>>

(* A mutation of Publish: a call that was executed may be repeated.        *)
PublishRetried(c) ==
  /\ peer[c] = "publishing"
  /\ channel' = [n \in Node |->
       IF listener[n] = "ended" THEN channel[n] ELSE Append(channel[n], <<c, said[c]>>)]
  /\ At(c, "reading") \/ UNCHANGED peer
  /\ UNCHANGED <<connected, clients, listener, broadcast, said, heard, redis_client>>

(* Redis hands the message to every listener, and the handler reads on.    *)
Publish(c) ==
  /\ peer[c] = "publishing"
  /\ channel' = [n \in Node |->
       IF listener[n] = "ended" THEN channel[n] ELSE Append(channel[n], <<c, said[c]>>)]
  /\ At(c, "reading")
  /\ UNCHANGED <<connected, clients, listener, broadcast, said, heard, redis_client>>

(* publish raises, executed or not: the sender is disconnected.            *)
PublishFails(c) ==
  /\ peer[c] = "publishing"
  /\ \/ UNCHANGED channel
     \/ channel' = [n \in Node |->
          IF listener[n] = "ended" THEN channel[n] ELSE Append(channel[n], <<c, said[c]>>)]
  /\ Over(c)
  /\ UNCHANGED <<connected, listener, broadcast, said, heard, redis_client>>

(* The listener takes a message.                                           *)
Listen(n) ==
  /\ listener[n] = "listening" /\ channel[n] # <<>>
  /\ channel' = [channel EXCEPT ![n] = Tail(@)]
  /\ IF clients[n] = {}
       THEN UNCHANGED <<listener, broadcast, heard>>
       ELSE \E to \in clients[n] :
              /\ listener' = [listener EXCEPT ![n] = "broadcasting"]
              /\ broadcast' = [broadcast EXCEPT ![n] =
                   [message |-> Head(channel[n]), todo |-> clients[n] \ {to}, to |-> {to}]]
              /\ heard' = [heard EXCEPT ![to] = Append(@, Head(channel[n]))]
  /\ UNCHANGED <<peer, connected, clients, said, redis_client>>

(* listen raises: the task logs it and ends.                               *)
ListenFails(n) ==
  /\ redis_client /\ listener[n] = "listening"
  /\ listener' = [listener EXCEPT ![n] = "ended"]
  /\ channel' = [channel EXCEPT ![n] = <<>>]
  /\ UNCHANGED <<peer, connected, clients, broadcast, said, heard, redis_client>>

(* drain returns, or raises because the connection is broken, which takes  *)
(* the client off.                                                         *)
DrainAt(b, n, Then) ==
  /\ broadcast[b].to # {}
  /\ clients' = [clients EXCEPT ![n] = @ \ (broadcast[b].to \ connected)]
  /\ NextWrite(b, broadcast[b].message, broadcast[b].todo, Then)
  /\ UNCHANGED <<connected, channel, said, redis_client>>

(* A mutation of Drain: a broken connection ends the broadcast.            *)
DrainOrStop(b) ==
  /\ broadcast[b].to # {}
  /\ UNCHANGED clients
  /\ NextWrite(b, broadcast[b].message,
               IF broadcast[b].to \subseteq connected THEN broadcast[b].todo ELSE {},
               IF b \in Node THEN Listens(b) ELSE Reads(b))
  /\ UNCHANGED <<connected, channel, said, redis_client>>

Drain(b) ==
  \/ b \in Node /\ DrainAt(b, b, Listens(b))
  \/ b \in Peer /\ DrainAt(b, NodeOf[b], Reads(b))

(* The connection of a client breaks.                                      *)
Breaks(c) ==
  /\ c \in connected \cap Lossy /\ peer[c] # "away"
  /\ connected' = connected \ {c}
  /\ UNCHANGED <<peer, clients, channel, listener, broadcast, said, heard, redis_client>>

BackplaneNext ==
  \/ \E c \in Peer : \/ Join(c) \/ Close(c) \/ ReadText(c) \/ Publish(c)
                     \/ PublishFails(c) \/ Breaks(c)
  \/ \E n \in Node : Listen(n) \/ ListenFails(n)
  \/ \E b \in Node \cup Peer : Drain(b)

BackplaneSpec == RedisInit /\ BackplaneInit /\ [][BackplaneNext]_<<backplane, redis_client>>

-----------------------------------------------------------------------------
BackplaneTypeOK ==
  /\ peer \in [Peer -> {"away", "reading", "publishing", "broadcasting", "over"}]
  /\ connected \subseteq Peer
  /\ \A n \in Node : clients[n] \subseteq {c \in Peer : NodeOf[c] = n}
  /\ listener \in [Node -> {"listening", "broadcasting", "ended"}]
  /\ \A n \in Node : broadcast[n] # Idle <=> listener[n] = "broadcasting"
  /\ \A c \in Peer : broadcast[c] # Idle <=> peer[c] = "broadcasting"
  /\ said \in [Peer -> Nat]

(***************************************************************************)
(* Of every sender a client hears the messages in the order in which they  *)
(* were sent, each once, and none is left out between two others           *)
(* (websocket.py:96-109), in both modes, whoever joins, leaves or breaks   *)
(* off while they are broadcast.                                           *)
(***************************************************************************)
SenderOrder ==
  \A c \in Peer : \A i, j \in DOMAIN heard[c] :
    LET sender == heard[c][i][1]
    IN  i < j /\ sender = heard[c][j][1] /\ (\A k \in i + 1 .. j - 1 : heard[c][k][1] # sender)
          => heard[c][j][2] = heard[c][i][2] + 1

AtRest ==
  /\ listener = [n \in Node |-> "listening"]
  /\ channel = [n \in Node |-> <<>>]
  /\ \A c \in Peer : peer[c] # "publishing"

(***************************************************************************)
(* One conversation for the cluster (README.md:105, websocket.py:26-38):   *)
(* with Redis, once everything published has been broadcast, of two        *)
(* clients that are still there, also of different nodes, the one that     *)
(* came later has heard exactly the last messages that the other has, in   *)
(* the same order.                                                         *)
(***************************************************************************)
OneConversation ==
  redis_client /\ AtRest =>
    LET present == connected \cap UNION {clients[n] : n \in Node}
    IN  \A c, d \in present : IsSuffix(heard[c], heard[d]) \/ IsSuffix(heard[d], heard[c])
=============================================================================

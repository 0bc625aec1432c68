----------------------------- MODULE Multiplexer -----------------------------
(***************************************************************************)
(* SSEMultiplexer (sse.py): the subscribers of a path share one backend    *)
(* stream, whose chunks a task of the path writes to them one after the    *)
(* other.  A subscriber waits until its handler is cancelled, which only   *)
(* the shutdown does; clients that have gone are noticed when a chunk is   *)
(* sent to them.                                                           *)
(***************************************************************************)
EXTENDS Integers

CONSTANTS
  Subscriber,    \* the clients that ask for a stream
  Stream,        \* the paths
  Nothing,       \* no subscriber
  MaxChunks      \* bound: chunks that the backends of a path send

ASSUME MultiplexerAssumption == Nothing \notin Subscriber /\ MaxChunks \in Nat

VARIABLES
  waits,         \* what a subscriber does: "away", "waiting", "cancelled", "left"
  path,          \* the path it asked for, where it is not away
  link,          \* its connection: "open", "stalled" (drain waits), "lost"
  streams,       \* the writers listed for a path, where it is listed
  backend_task,  \* the task of a listed path: [at, todo, to, dead]
  sent,          \* history: chunks read from the backends of a path
  received,      \* history: chunks written to a subscriber
  missed,        \* history: chunks that had been read before it subscribed
  draining       \* the drain of the shutdown has timed out

multiplexer ==
  <<waits, path, link, streams, backend_task, sent, received, missed, draining>>

Only(f, S) == [x \in S |-> f[x]]
Listed == DOMAIN streams
Live == {p \in DOMAIN backend_task : backend_task[p].at # "done"}

Task(at, todo, to, dead) == [at |-> at, todo |-> todo, to |-> to, dead |-> dead]
NewTask == Task("connecting", {}, Nothing, {})
Becomes(p, task) == backend_task' = [backend_task EXCEPT ![p] = task]

MultiplexerInit ==
  /\ waits = [c \in Subscriber |-> "away"]
  /\ path \in [Subscriber -> Stream]
  /\ link = [c \in Subscriber |-> "open"]
  /\ streams = [p \in {} |-> {}]
  /\ backend_task = [p \in {} |-> NewTask]
  /\ sent = [p \in Stream |-> 0]
  /\ received = [c \in Subscriber |-> 0]
  /\ missed = [c \in Subscriber |-> 0]
  /\ draining = FALSE

(* subscribe up to its wait.  A handler that starts after the tasks to be  *)
(* drained were collected is not cancelled.                                *)
Subscribe(c) ==
  LET p == path[c]
  IN  /\ waits[c] = "away"
      /\ waits' = [waits EXCEPT ![c] = "waiting"]
      /\ missed' = [missed EXCEPT ![c] = sent[p]]
      /\ streams' = [q \in Listed \cup {p} |->
           IF q # p THEN streams[q] ELSE {c} \cup (IF p \in Listed THEN streams[p] ELSE {})]
      /\ backend_task' = [q \in Listed \cup {p} |->
           IF q \in Listed THEN backend_task[q] ELSE NewTask]
      /\ UNCHANGED <<path, link, sent, received, draining>>

(* wait_for cancels the handlers that are being drained.                   *)
CancelSubscribers ==
  /\ ~draining
  /\ draining' = TRUE
  /\ waits' = [c \in Subscriber |-> IF waits[c] = "waiting" THEN "cancelled" ELSE waits[c]]
  /\ UNCHANGED <<path, link, streams, backend_task, sent, received, missed>>

(* A mutation of Unsubscribe: it looks for the last before it takes one off.*)
UnsubscribeLate(c) ==
  LET p == path[c]
  IN  /\ waits[c] = "cancelled"
      /\ waits' = [waits EXCEPT ![c] = "left"]
      /\ IF p \notin Listed THEN UNCHANGED <<streams, backend_task>>
         ELSE IF streams[p] = {}
           THEN /\ streams' = Only(streams, Listed \ {p})
                /\ backend_task' = Only(backend_task, Listed \ {p})
         ELSE /\ streams' = [streams EXCEPT ![p] = @ \ {c}]
              /\ UNCHANGED backend_task
      /\ UNCHANGED <<path, link, sent, received, missed, draining>>

(* The finally of subscribe.  With the last writer the path is forgotten   *)
(* and its task cancelled, which closes the stream and does nothing else.  *)
Unsubscribe(c) ==
  LET p == path[c]
  IN  /\ waits[c] = "cancelled"
      /\ waits' = [waits EXCEPT ![c] = "left"]
      /\ IF p \notin Listed THEN UNCHANGED <<streams, backend_task>>
         ELSE IF streams[p] \subseteq {c}
           THEN /\ streams' = Only(streams, Listed \ {p})
                /\ backend_task' = Only(backend_task, Listed \ {p})
         ELSE /\ streams' = [streams EXCEPT ![p] = @ \ {c}]
              /\ UNCHANGED backend_task
      /\ UNCHANGED <<path, link, sent, received, missed, draining>>

-----------------------------------------------------------------------------
(* _connect_backend: no server is selected, or it does not accept in time; *)
(* or the request for the stream is sent.                                  *)
Connected(p) ==
  /\ p \in Live /\ backend_task[p].at = "connecting"
  /\ \E at \in {"done", "reading"} : Becomes(p, Task(at, {}, Nothing, {}))
  /\ UNCHANGED <<waits, path, link, streams, sent, received, missed, draining>>

Writes(c) == received' = [received EXCEPT ![c] = @ + 1]

(* The broadcast goes on to the next writer of its snapshot, or is over    *)
(* and the dead writers are taken off.                                     *)
GoesOn(p, todo, dead) ==
  \/ \E c \in todo :
       /\ Becomes(p, Task("sending", todo \ {c}, c, dead))
       /\ Writes(c)
       /\ UNCHANGED streams
  \/ /\ todo = {}
     /\ Becomes(p, Task("reading", {}, Nothing, {}))
     /\ streams' = [streams EXCEPT ![p] = @ \ dead]
     /\ UNCHANGED received

(* A chunk is read.                                                        *)
ReadStream(p) ==
  /\ p \in Live /\ backend_task[p].at = "reading"
  /\ sent[p] < MaxChunks
  /\ sent' = [sent EXCEPT ![p] = @ + 1]
  /\ GoesOn(p, streams[p], {})
  /\ UNCHANGED <<waits, path, link, missed, draining>>

(* A mutation of Drained: the first dead writer ends the broadcast.        *)
DrainedToFirst(p) ==
  LET task == backend_task[p]
  IN  /\ p \in Live /\ task.at = "sending"
      /\ link[task.to] # "stalled"
      /\ IF link[task.to] = "lost" THEN GoesOn(p, {}, {task.to})
         ELSE GoesOn(p, task.todo, task.dead)
      /\ UNCHANGED <<waits, path, link, sent, missed, draining>>

(* drain returns, or raises because the client has gone.                   *)
Drained(p) ==
  LET task == backend_task[p]
  IN  /\ p \in Live /\ task.at = "sending"
      /\ link[task.to] # "stalled"
      /\ GoesOn(p, task.todo,
                IF link[task.to] = "lost" THEN task.dead \cup {task.to} ELSE task.dead)
      /\ UNCHANGED <<waits, path, link, sent, missed, draining>>

(* The backend ends the stream, or the connection breaks.                  *)
StreamEnds(p) ==
  /\ p \in Live /\ backend_task[p].at = "reading"
  /\ Becomes(p, Task("done", {}, Nothing, {}))
  /\ UNCHANGED <<waits, path, link, streams, sent, received, missed, draining>>

LinkChanges(c) ==
  /\ waits[c] # "away"
  /\ \E l \in {"open", "stalled", "lost"} : l # link[c] /\ link' = [link EXCEPT ![c] = l]
  /\ link[c] # "lost"
  /\ UNCHANGED <<waits, path, streams, backend_task, sent, received, missed, draining>>

MultiplexerNext ==
  \/ \E c \in Subscriber : Subscribe(c) \/ Unsubscribe(c) \/ LinkChanges(c)
  \/ CancelSubscribers
  \/ \E p \in Stream : Connected(p) \/ ReadStream(p) \/ Drained(p) \/ StreamEnds(p)

MultiplexerSpec == MultiplexerInit /\ [][MultiplexerNext]_multiplexer

-----------------------------------------------------------------------------
MultiplexerTypeOK ==
  /\ waits \in [Subscriber -> {"away", "waiting", "cancelled", "left"}]
  /\ link \in [Subscriber -> {"open", "stalled", "lost"}]
  /\ Listed \subseteq Stream /\ DOMAIN backend_task = Listed
  /\ \A p \in Listed : streams[p] \subseteq Subscriber
  /\ \A p \in DOMAIN backend_task :
       backend_task[p].at = "sending" <=> backend_task[p].to # Nothing

(***************************************************************************)
(* The fan-out (README.md:112, sse.py:63-79): a subscriber whose client is *)
(* there is written every chunk read since it subscribed, once and without *)
(* gaps, but for the one that is being broadcast, and its path is not      *)
(* forgotten, while others join, stall, leave and turn out to be gone in   *)
(* the middle of a broadcast.                                              *)
(***************************************************************************)
NoGaps ==
  \A c \in Subscriber :
    LET p == path[c]
    IN  waits[c] = "waiting" /\ link[c] # "lost" =>
          /\ p \in Listed
          /\ received[c] = sent[p] - missed[c] - (IF c \in backend_task[p].todo THEN 1 ELSE 0)

(***************************************************************************)
(* The last handler of a path to return closes its backend stream and      *)
(* forgets the path (sse.py:40-48), whatever writers the broadcast has     *)
(* taken off before as dead and whoever has joined since.  A handler whose *)
(* client has gone returns no earlier than at the shutdown, though it is   *)
(* to wait "until client disconnects" (sse.py:27): until then the stream   *)
(* stays open even when every client of it has gone.                       *)
(***************************************************************************)
StreamEndsWithHandlers ==
  \A p \in Live \cup Listed :
    \E c \in Subscriber : path[c] = p /\ waits[c] \in {"waiting", "cancelled"}
=============================================================================

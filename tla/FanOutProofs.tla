----------------------------- MODULE FanOutProofs -----------------------------
(***************************************************************************)
(* What is sent to many clients at once, for any number of clients, nodes, *)
(* paths and messages: the fan-out of SSEMultiplexer (sse.py) misses       *)
(* nobody and outlives nobody, and the clients of WebSocketBackplane       *)
(* (websocket.py) follow one conversation.                                 *)
(***************************************************************************)
EXTENDS Multiplexer, Backplane, SequenceTheorems, TLAPS

-----------------------------------------------------------------------------
(***************************************************************************)
(* The multiplexer                                                         *)
(***************************************************************************)
Tasks ==
  [at: {"connecting", "reading", "sending", "done"}, todo: SUBSET Subscriber,
   to: Subscriber \cup {Nothing}, dead: SUBSET Subscriber]

MultiplexerTyped ==
  /\ waits \in [Subscriber -> {"away", "waiting", "cancelled", "left"}]
  /\ path \in [Subscriber -> Stream]
  /\ link \in [Subscriber -> {"open", "stalled", "lost"}]
  /\ Listed \subseteq Stream
  /\ streams \in [Listed -> SUBSET Subscriber]
  /\ backend_task \in [Listed -> Tasks]
  /\ sent \in [Stream -> Int]
  /\ received \in [Subscriber -> Int]
  /\ missed \in [Subscriber -> Int]

(* Who is listed for a path has asked for it and not left.                 *)
ListedWait ==
  \A p \in Listed : \A c \in streams[p] : path[c] = p /\ waits[c] \in {"waiting", "cancelled"}

(* A snapshot is of those who have asked for the path, and only who has    *)
(* gone is found dead.                                                     *)
SnapshotsOK ==
  \A p \in Listed :
    /\ backend_task[p].at = "sending" <=> backend_task[p].to # Nothing
    /\ backend_task[p].at # "sending" => backend_task[p].todo = {}
    /\ \A c \in backend_task[p].todo : path[c] = p /\ waits[c] # "away"
    /\ \A c \in backend_task[p].dead : link[c] = "lost"

Present(c) == waits[c] = "waiting" /\ link[c] # "lost"

(* Who waits and has not gone is listed: the path is not forgotten.        *)
PresentListed ==
  \A c \in Subscriber : Present(c) => path[c] \in Listed /\ c \in streams[path[c]]

(* What a subscriber lacks is what its task has still to write to it.      *)
Counted ==
  \A c \in Subscriber :
    /\ waits[c] = "away" => received[c] = 0
    /\ Present(c) => received[c] = sent[path[c]] - missed[c]
                       - (IF c \in backend_task[path[c]].todo THEN 1 ELSE 0)

HandlerThere ==
  \A p \in Listed : \E c \in Subscriber : path[c] = p /\ waits[c] \in {"waiting", "cancelled"}

MultiplexerInv == MultiplexerTyped /\ ListedWait /\ SnapshotsOK /\ PresentListed /\ Counted /\ HandlerThere

-----------------------------------------------------------------------------
LEMMA MultiplexerInitially == MultiplexerInit => MultiplexerInv
  BY DEF MultiplexerInit, MultiplexerInv, MultiplexerTyped, ListedWait, SnapshotsOK, PresentListed, Present,
         Counted, HandlerThere, Listed

LEMMA StutterInv == MultiplexerInv /\ UNCHANGED multiplexer => MultiplexerInv'
  BY DEF multiplexer, MultiplexerInv, MultiplexerTyped, ListedWait, SnapshotsOK, PresentListed, Present,
         Counted, HandlerThere, Listed

(* A new writer is listed, with a new task if the path was not; it lacks   *)
(* nothing, since it has missed all that was read before.                  *)
LEMMA SubscribeInv ==
  ASSUME MultiplexerInv, NEW c \in Subscriber, Subscribe(c)
  PROVE  MultiplexerInv'
<1> DEFINE p == path[c]
<1> USE DEF MultiplexerInv, MultiplexerTyped, Subscribe
<1>1. /\ Listed' = Listed \cup {p} /\ p \in Stream
      /\ \A q \in Listed : q # p => streams'[q] = streams[q]
      /\ streams'[p] = {c} \cup (IF p \in Listed THEN streams[p] ELSE {})
      /\ \A q \in Listed : backend_task'[q] = backend_task[q]
      /\ p \notin Listed => backend_task'[p] = NewTask
  BY DEF Listed
<1>2. NewTask \in Tasks /\ NewTask.todo = {} /\ NewTask.dead = {} /\ NewTask.at # "sending"
      /\ NewTask.to = Nothing
  BY DEF NewTask, Task, Tasks
<1>3. waits' = [waits EXCEPT ![c] = "waiting"] /\ missed' = [missed EXCEPT ![c] = sent[p]]
      /\ waits[c] = "away" /\ UNCHANGED <<path, link, sent, received, draining>>
  OBVIOUS
<1>4. MultiplexerTyped'
  <2>1. streams' \in [Listed' -> SUBSET Subscriber]
    BY DEF Listed
  <2>2. backend_task' \in [Listed' -> Tasks]
    BY <1>1, <1>2 DEF Listed
  <2> QED BY <1>1, <1>3, <2>1, <2>2
<1>5. ListedWait'
  BY <1>1, <1>3 DEF ListedWait
<1>6. SnapshotsOK'
  BY <1>1, <1>2, <1>3 DEF SnapshotsOK
<1>7. PresentListed'
  BY <1>1, <1>3 DEF PresentListed, Present
<1>8. Counted'
  <2> SUFFICES ASSUME NEW d \in Subscriber
               PROVE  /\ waits'[d] = "away" => received'[d] = 0
                      /\ Present(d)' => received'[d] = sent'[path'[d]] - missed'[d]
                           - (IF d \in backend_task'[path'[d]].todo THEN 1 ELSE 0)
    BY DEF Counted
  <2>1. CASE d = c
    <3>1. c \notin backend_task'[p].todo
      BY <1>1, <1>2, <1>3 DEF SnapshotsOK
    <3> QED BY <2>1, <3>1, <1>3 DEF Counted
  <2>2. CASE d # c
    BY <2>2, <1>1, <1>3 DEF Counted, Present, PresentListed
  <2> QED BY <2>1, <2>2
<1>9. HandlerThere'
  BY <1>1, <1>3 DEF HandlerThere
<1> QED BY <1>4, <1>5, <1>6, <1>7, <1>8, <1>9 DEF MultiplexerInv

(* With the last writer of a path nobody who is there is forgotten: the    *)
(* others who wait for it were taken off because they had gone.            *)
LEMMA UnsubscribeInv ==
  ASSUME MultiplexerInv, NEW c \in Subscriber, Unsubscribe(c)
  PROVE  MultiplexerInv'
<1> DEFINE p == path[c]
<1>1. /\ waits' = [waits EXCEPT ![c] = "left"] /\ waits[c] = "cancelled"
      /\ UNCHANGED <<path, link, sent, received, missed, draining>>
  BY DEF Unsubscribe
<1>2. CASE p \notin Listed
  <2>1. UNCHANGED <<streams, backend_task>> /\ Listed' = Listed
    BY <1>2 DEF Unsubscribe, Listed
  <2> QED
    BY <1>1, <1>2, <2>1 DEF MultiplexerInv, MultiplexerTyped, ListedWait, SnapshotsOK, PresentListed, Present,
                            Counted, HandlerThere
<1>3. CASE p \in Listed /\ streams[p] \subseteq {c}
  <2>1. /\ Listed' = Listed \ {p}
        /\ streams' \in [Listed' -> SUBSET Subscriber]
        /\ backend_task' \in [Listed' -> Tasks]
        /\ \A q \in Listed' : streams'[q] = streams[q] /\ backend_task'[q] = backend_task[q]
    BY <1>3 DEF Unsubscribe, Only, Listed, MultiplexerInv, MultiplexerTyped
  <2>2. \A d \in Subscriber : Present(d) => path[d] # p
    BY <1>1, <1>3 DEF MultiplexerInv, PresentListed, Present
  <2>3. \A d \in Subscriber : Present(d)' => Present(d) /\ d # c
    BY <1>1 DEF MultiplexerInv, MultiplexerTyped, Present
  <2>4. MultiplexerTyped' /\ ListedWait'
    <3>1. \A q \in Listed' : \A d \in streams[q] : d \in Subscriber /\ d # c
      BY <2>1 DEF MultiplexerInv, MultiplexerTyped, ListedWait
    <3>2. MultiplexerTyped'
      BY <1>1, <2>1 DEF MultiplexerInv, MultiplexerTyped
    <3>3. ListedWait'
      BY <1>1, <2>1, <3>1 DEF MultiplexerInv, MultiplexerTyped, ListedWait
    <3> QED BY <3>2, <3>3
  <2>5. SnapshotsOK'
    <3>1. \A q \in Listed : \A d \in backend_task[q].todo : d \in Subscriber
      BY DEF MultiplexerInv, MultiplexerTyped, Tasks
    <3>2. \A d \in Subscriber : waits[d] # "away" => waits'[d] # "away"
      BY <1>1 DEF MultiplexerInv, MultiplexerTyped
    <3> QED BY <1>1, <2>1, <3>1, <3>2 DEF MultiplexerInv, SnapshotsOK
  <2>6. PresentListed' /\ Counted'
    BY <1>1, <2>1, <2>2, <2>3 DEF MultiplexerInv, MultiplexerTyped, PresentListed, Counted
  <2>7. HandlerThere'
    BY <1>1, <2>1 DEF MultiplexerInv, MultiplexerTyped, HandlerThere
  <2> QED BY <2>4, <2>5, <2>6, <2>7 DEF MultiplexerInv
<1>4. CASE p \in Listed /\ ~(streams[p] \subseteq {c})
  <2>1. /\ Listed' = Listed /\ backend_task' = backend_task
        /\ streams' \in [Listed -> SUBSET Subscriber]
        /\ \A q \in Listed : streams'[q] = IF q = p THEN streams[q] \ {c} ELSE streams[q]
    BY <1>4 DEF Unsubscribe, Listed, MultiplexerInv, MultiplexerTyped
  <2>2. PICK other \in streams[p] : other # c
    BY <1>4
  <2>3. \A e \in Subscriber : Present(e)' => Present(e) /\ e # c
    BY <1>1 DEF MultiplexerInv, MultiplexerTyped, Present
  <2>4. MultiplexerTyped'
    BY <1>1, <2>1 DEF MultiplexerInv, MultiplexerTyped
  <2>5. ListedWait' /\ SnapshotsOK'
    <3>1. ListedWait'
      BY <1>1, <2>1 DEF MultiplexerInv, MultiplexerTyped, ListedWait
    <3>2. \A q \in Listed : \A d \in backend_task[q].todo : d \in Subscriber
      BY DEF MultiplexerInv, MultiplexerTyped, Tasks
    <3>3. \A d \in Subscriber : waits[d] # "away" => waits'[d] # "away"
      BY <1>1 DEF MultiplexerInv, MultiplexerTyped
    <3>4. SnapshotsOK'
      BY <1>1, <2>1, <3>2, <3>3 DEF MultiplexerInv, SnapshotsOK
    <3> QED BY <3>1, <3>4
  <2>6. PresentListed' /\ Counted'
    BY <1>1, <2>1, <2>3 DEF MultiplexerInv, MultiplexerTyped, PresentListed, Counted
  <2>7. HandlerThere'
    <3>1. other \in Subscriber /\ path[other] = p /\ waits'[other] \in {"waiting", "cancelled"}
      BY <1>1, <1>4, <2>2 DEF MultiplexerInv, MultiplexerTyped, ListedWait
    <3> QED BY <1>1, <2>1, <3>1 DEF MultiplexerInv, MultiplexerTyped, HandlerThere
  <2> QED BY <2>4, <2>5, <2>6, <2>7 DEF MultiplexerInv
<1> QED BY <1>2, <1>3, <1>4

LEMMA CancelInv == MultiplexerInv /\ CancelSubscribers => MultiplexerInv'
<1> SUFFICES ASSUME MultiplexerInv, CancelSubscribers PROVE MultiplexerInv'
  OBVIOUS
<1>1. /\ Listed' = Listed
      /\ \A c \in Subscriber : waits'[c] = IF waits[c] = "waiting" THEN "cancelled" ELSE waits[c]
      /\ waits' \in [Subscriber -> {"away", "waiting", "cancelled", "left"}]
      /\ UNCHANGED <<path, link, streams, backend_task, sent, received, missed>>
  BY DEF CancelSubscribers, Listed, MultiplexerInv, MultiplexerTyped
<1>2. MultiplexerTyped' /\ ListedWait' /\ SnapshotsOK'
  BY <1>1 DEF MultiplexerInv, MultiplexerTyped, Tasks, ListedWait, SnapshotsOK
<1>3. PresentListed' /\ Counted'
  BY <1>1 DEF MultiplexerInv, MultiplexerTyped, PresentListed, Present, Counted
<1>4. HandlerThere'
  BY <1>1 DEF MultiplexerInv, MultiplexerTyped, HandlerThere
<1> QED BY <1>2, <1>3, <1>4 DEF MultiplexerInv

(* Who has gone stays gone.                                                *)
LEMMA LinkInv ==
  ASSUME MultiplexerInv, NEW c \in Subscriber, LinkChanges(c)
  PROVE  MultiplexerInv'
<1>1. /\ Listed' = Listed
      /\ \A d \in Subscriber : link[d] = "lost" => link'[d] = "lost"
      /\ link' \in [Subscriber -> {"open", "stalled", "lost"}]
      /\ UNCHANGED <<waits, path, streams, backend_task, sent, received, missed, draining>>
  BY DEF LinkChanges, Listed, MultiplexerInv, MultiplexerTyped
<1>2. \A d \in Subscriber : Present(d)' => Present(d)
  BY <1>1 DEF Present, MultiplexerInv, MultiplexerTyped
<1>3. SnapshotsOK'
  BY <1>1 DEF MultiplexerInv, MultiplexerTyped, Tasks, SnapshotsOK
<1> QED
  BY <1>1, <1>2, <1>3 DEF MultiplexerInv, MultiplexerTyped, ListedWait, PresentListed, Counted, HandlerThere

-----------------------------------------------------------------------------
(* A task that does not write changes nothing for the subscribers.         *)
LEMMA IdleTaskInv ==
  ASSUME MultiplexerInv, NEW p \in Live, backend_task[p].at # "sending",
         NEW at \in {"done", "reading"}, Becomes(p, Task(at, {}, Nothing, {})),
         UNCHANGED <<waits, path, link, streams, sent, received, missed, draining>>
  PROVE  MultiplexerInv'
<1>1. p \in Listed /\ Listed' = Listed
  BY DEF Live, MultiplexerInv, MultiplexerTyped, Listed
<1>2. /\ \A q \in Listed : q # p => backend_task'[q] = backend_task[q]
      /\ backend_task'[p] = [at |-> at, todo |-> {}, to |-> Nothing, dead |-> {}]
      /\ backend_task' \in [Listed -> Tasks]
  BY <1>1 DEF Becomes, Task, Tasks, MultiplexerInv, MultiplexerTyped
<1>3. \A c \in Subscriber : Present(c) => c \notin backend_task[p].todo
  BY <1>1 DEF MultiplexerInv, SnapshotsOK
<1>4. SnapshotsOK'
  BY <1>1, <1>2 DEF MultiplexerInv, MultiplexerTyped, SnapshotsOK
<1>5. Counted'
  BY <1>1, <1>2, <1>3 DEF MultiplexerInv, MultiplexerTyped, Counted, Present, PresentListed
<1> QED
  BY <1>1, <1>2, <1>4, <1>5 DEF MultiplexerInv, MultiplexerTyped, ListedWait, PresentListed, Present, HandlerThere

LEMMA ConnectedInv ==
  ASSUME MultiplexerInv, NEW p \in Stream, Connected(p)
  PROVE  MultiplexerInv'
  BY IdleTaskInv DEF Connected

LEMMA StreamEndsInv ==
  ASSUME MultiplexerInv, NEW p \in Stream, StreamEnds(p)
  PROVE  MultiplexerInv'
  BY IdleTaskInv DEF StreamEnds

(* A broadcast goes on: what it has still to write (todo) is what the      *)
(* subscribers who are there lack, and those it takes off have gone.       *)
LEMMA BroadcastInv ==
  ASSUME MultiplexerInv, NEW p \in Live, NEW todo \in SUBSET Subscriber, NEW dead \in SUBSET Subscriber,
         GoesOn(p, todo, dead),
         sent' \in [Stream -> Int], \A q \in Stream : q # p => sent'[q] = sent[q],
         \A c \in todo : path[c] = p /\ waits[c] # "away",
         \A c \in dead : link[c] = "lost",
         \A c \in Subscriber : Present(c) /\ path[c] = p =>
           received[c] = sent'[p] - missed[c] - (IF c \in todo THEN 1 ELSE 0),
         UNCHANGED <<waits, path, link, missed, draining>>
  PROVE  MultiplexerInv'
<1>1. p \in Listed /\ p \in Stream
  BY DEF Live, MultiplexerInv, MultiplexerTyped, Listed
<1>2. ASSUME NEW c \in todo, Becomes(p, Task("sending", todo \ {c}, c, dead)), Writes(c),
             UNCHANGED streams
      PROVE  MultiplexerInv'
  <2>1. /\ Listed' = Listed
        /\ backend_task' \in [Listed -> Tasks]
        /\ \A q \in Listed : q # p => backend_task'[q] = backend_task[q]
        /\ backend_task'[p] = [at |-> "sending", todo |-> todo \ {c}, to |-> c, dead |-> dead]
    BY <1>1, <1>2 DEF Becomes, Task, Tasks, Listed, MultiplexerInv, MultiplexerTyped
  <2>2. /\ received' \in [Subscriber -> Int]
        /\ \A d \in Subscriber : received'[d] = IF d = c THEN received[d] + 1 ELSE received[d]
    BY <1>2 DEF Writes, MultiplexerInv, MultiplexerTyped
  <2>3. c \in Subscriber /\ c # Nothing /\ path[c] = p /\ waits[c] # "away"
    BY <1>2, MultiplexerAssumption
  <2>4. MultiplexerTyped' /\ ListedWait' /\ HandlerThere'
    BY <1>2, <2>1, <2>2 DEF MultiplexerInv, MultiplexerTyped, ListedWait, HandlerThere
  <2>5. SnapshotsOK'
    BY <2>1, <2>3 DEF MultiplexerInv, SnapshotsOK
  <2>6. PresentListed'
    BY <1>2, <2>1 DEF MultiplexerInv, PresentListed, Present
  <2>7. Counted'
    <3> SUFFICES ASSUME NEW d \in Subscriber
                 PROVE  /\ waits[d] = "away" => received'[d] = 0
                        /\ Present(d) => received'[d] = sent'[path[d]] - missed[d]
                             - (IF d \in backend_task'[path[d]].todo THEN 1 ELSE 0)
      BY DEF Counted, Present
    <3>1. waits[d] = "away" => received'[d] = 0
      BY <2>2, <2>3 DEF MultiplexerInv, Counted
    <3>2. ASSUME Present(d), path[d] = p
          PROVE  received'[d] = sent'[p] - missed[d] - (IF d \in todo \ {c} THEN 1 ELSE 0)
      BY <1>1, <1>2, <2>2, <3>2 DEF MultiplexerInv, MultiplexerTyped
    <3>3. ASSUME Present(d), path[d] # p
          PROVE  /\ received'[d] = received[d] /\ sent'[path[d]] = sent[path[d]]
                 /\ backend_task'[path[d]] = backend_task[path[d]]
      BY <2>1, <2>2, <2>3, <3>3 DEF MultiplexerInv, MultiplexerTyped, PresentListed
    <3> QED BY <2>1, <3>1, <3>2, <3>3 DEF MultiplexerInv, Counted
  <2> QED BY <2>4, <2>5, <2>6, <2>7 DEF MultiplexerInv
<1>3. ASSUME todo = {}, Becomes(p, Task("reading", {}, Nothing, {})),
             streams' = [streams EXCEPT ![p] = @ \ dead], UNCHANGED received
      PROVE  MultiplexerInv'
  <2>1. /\ Listed' = Listed
        /\ backend_task' \in [Listed -> Tasks]
        /\ \A q \in Listed : q # p => backend_task'[q] = backend_task[q]
        /\ backend_task'[p] = [at |-> "reading", todo |-> {}, to |-> Nothing, dead |-> {}]
    BY <1>1, <1>3 DEF Becomes, Task, Tasks, Listed, MultiplexerInv, MultiplexerTyped
  <2>2. /\ streams' \in [Listed -> SUBSET Subscriber]
        /\ \A q \in Listed : streams'[q] = IF q = p THEN streams[q] \ dead ELSE streams[q]
    BY <1>3 DEF MultiplexerInv, MultiplexerTyped
  <2>3. MultiplexerTyped' /\ ListedWait' /\ HandlerThere'
    BY <1>3, <2>1, <2>2 DEF MultiplexerInv, MultiplexerTyped, ListedWait, HandlerThere
  <2>4. SnapshotsOK'
    BY <2>1 DEF MultiplexerInv, SnapshotsOK
  <2>5. PresentListed'
    BY <2>1, <2>2 DEF MultiplexerInv, PresentListed, Present
  <2>6. Counted'
    BY <1>1, <1>3, <2>1 DEF MultiplexerInv, MultiplexerTyped, Counted, Present, PresentListed
  <2> QED BY <2>3, <2>4, <2>5, <2>6 DEF MultiplexerInv
<1> QED BY <1>2, <1>3 DEF GoesOn

(* Who waits when a chunk is read is in the snapshot.                      *)
LEMMA ReadStreamInv ==
  ASSUME MultiplexerInv, NEW p \in Stream, ReadStream(p)
  PROVE  MultiplexerInv'
<1>1. p \in Live /\ p \in Listed /\ backend_task[p].at = "reading"
  BY DEF ReadStream, Live, MultiplexerInv, MultiplexerTyped, Listed
<1>2. /\ sent' \in [Stream -> Int] /\ sent'[p] = sent[p] + 1
      /\ \A q \in Stream : q # p => sent'[q] = sent[q]
  BY DEF ReadStream, MultiplexerInv, MultiplexerTyped
<1>3. /\ GoesOn(p, streams[p], {}) /\ streams[p] \in SUBSET Subscriber
      /\ UNCHANGED <<waits, path, link, missed, draining>>
  BY <1>1 DEF ReadStream, MultiplexerInv, MultiplexerTyped
<1>4. \A c \in streams[p] : path[c] = p /\ waits[c] # "away"
  BY <1>1 DEF MultiplexerInv, ListedWait
<1>5. ASSUME NEW c \in Subscriber, Present(c), path[c] = p
      PROVE  received[c] = sent'[p] - missed[c] - (IF c \in streams[p] THEN 1 ELSE 0)
  <2>1. c \in streams[p] /\ c \notin backend_task[p].todo
    BY <1>1, <1>5 DEF MultiplexerInv, PresentListed, SnapshotsOK
  <2>2. received[c] = sent[p] - missed[c]
    BY <1>5, <2>1 DEF MultiplexerInv, MultiplexerTyped, Counted
  <2> QED BY <1>2, <2>1, <2>2 DEF MultiplexerInv, MultiplexerTyped
<1> QED
  BY <1>1, <1>2, <1>3, <1>4, <1>5, BroadcastInv

LEMMA DrainedInv ==
  ASSUME MultiplexerInv, NEW p \in Stream, Drained(p)
  PROVE  MultiplexerInv'
<1> DEFINE task == backend_task[p]
           dead == IF link[task.to] = "lost" THEN task.dead \cup {task.to} ELSE task.dead
<1>1. p \in Live /\ p \in Listed /\ task.at = "sending"
  BY DEF Drained, Live, MultiplexerInv, MultiplexerTyped, Listed
<1>2. task.todo \in SUBSET Subscriber /\ task.dead \in SUBSET Subscriber /\ task.to \in Subscriber
  BY <1>1 DEF MultiplexerInv, MultiplexerTyped, Tasks, SnapshotsOK
<1>3. GoesOn(p, task.todo, dead) /\ UNCHANGED <<waits, path, link, sent, missed, draining>>
  BY DEF Drained
<1>4. \A c \in task.todo : path[c] = p /\ waits[c] # "away"
  BY <1>1 DEF MultiplexerInv, SnapshotsOK
<1>5. \A c \in dead : link[c] = "lost"
  BY <1>1 DEF MultiplexerInv, SnapshotsOK
<1>6. \A c \in Subscriber : Present(c) /\ path[c] = p =>
        received[c] = sent'[p] - missed[c] - (IF c \in task.todo THEN 1 ELSE 0)
  BY <1>3 DEF MultiplexerInv, Counted
<1>7. dead \in SUBSET Subscriber /\ sent' \in [Stream -> Int]
      /\ \A q \in Stream : q # p => sent'[q] = sent[q]
  BY <1>2, <1>3 DEF MultiplexerInv, MultiplexerTyped
<1> HIDE DEF task, dead
<1> QED
  BY <1>1, <1>2, <1>3, <1>4, <1>5, <1>6, <1>7, BroadcastInv

-----------------------------------------------------------------------------
(***************************************************************************)
(* The invariant of the multiplexer.                                       *)
(***************************************************************************)
THEOREM MultiplexerInvariance == MultiplexerSpec => []MultiplexerInv
<1>1. MultiplexerInv /\ [MultiplexerNext]_multiplexer => MultiplexerInv'
  <2> SUFFICES ASSUME MultiplexerInv, [MultiplexerNext]_multiplexer PROVE MultiplexerInv'
    OBVIOUS
  <2>1. ASSUME NEW c \in Subscriber, Subscribe(c) PROVE MultiplexerInv'
    BY <2>1, SubscribeInv
  <2>2. ASSUME NEW c \in Subscriber, Unsubscribe(c) PROVE MultiplexerInv'
    BY <2>2, UnsubscribeInv
  <2>3. ASSUME NEW c \in Subscriber, LinkChanges(c) PROVE MultiplexerInv'
    BY <2>3, LinkInv
  <2>4. CASE CancelSubscribers
    BY <2>4, CancelInv
  <2>5. ASSUME NEW p \in Stream, Connected(p) \/ StreamEnds(p) PROVE MultiplexerInv'
    BY <2>5, ConnectedInv, StreamEndsInv
  <2>6. ASSUME NEW p \in Stream, ReadStream(p) PROVE MultiplexerInv'
    BY <2>6, ReadStreamInv
  <2>7. ASSUME NEW p \in Stream, Drained(p) PROVE MultiplexerInv'
    BY <2>7, DrainedInv
  <2>8. CASE UNCHANGED multiplexer
    BY <2>8, StutterInv
  <2> QED
    BY <2>1, <2>2, <2>3, <2>4, <2>5, <2>6, <2>7, <2>8 DEF MultiplexerNext
<1> QED
  BY <1>1, MultiplexerInitially, PTL DEF MultiplexerSpec

(***************************************************************************)
(* Of any number of subscribers, who is there misses no chunk and gets     *)
(* none twice (sse.py:63-79).                                              *)
(***************************************************************************)
THEOREM FanOutComplete == MultiplexerSpec => []NoGaps
<1>1. MultiplexerInv => NoGaps
  BY DEF MultiplexerInv, Counted, PresentListed, Present, NoGaps
<1> QED
  BY <1>1, MultiplexerInvariance, PTL

(***************************************************************************)
(* The last handler of a path to return leaves neither the path listed nor *)
(* its backend stream open, for any number of subscribers and paths        *)
(* (sse.py:40-48).  It says nothing of clients: a handler returns only at  *)
(* the shutdown.                                                           *)
(***************************************************************************)
THEOREM LastHandlerEndsStream == MultiplexerSpec => []StreamEndsWithHandlers
<1>1. MultiplexerInv => StreamEndsWithHandlers
  BY DEF MultiplexerInv, MultiplexerTyped, HandlerThere, Listed, Live, StreamEndsWithHandlers
<1> QED
  BY <1>1, MultiplexerInvariance, PTL

-----------------------------------------------------------------------------
(***************************************************************************)
(* The backplane                                                           *)
(***************************************************************************)
Message == Peer \X Nat

(* No message of a sender is left out between two others of it.            *)
Gapless(seq) ==
  \A i, j \in DOMAIN seq :
    i < j /\ seq[i][1] = seq[j][1] /\ (\A k \in i + 1 .. j - 1 : seq[k][1] # seq[i][1])
      => seq[j][2] = seq[i][2] + 1

(* The last message of s in seq, if there is one, comes before number k.   *)
Awaits(seq, s, k) ==
  \A i \in DOMAIN seq :
    seq[i][1] = s /\ (\A j \in i + 1 .. Len(seq) : seq[j][1] # s) => k = seq[i][2] + 1

(* The shorter of two sequences is the end of the other.                   *)
SameEnd(s, t) ==
  \A i \in Nat : i < Len(s) /\ i < Len(t) => s[Len(s) - i] = t[Len(t) - i]

LEMMA Appended ==
  ASSUME NEW seq \in Seq(Message), NEW m \in Message
  PROVE  /\ Append(seq, m) \in Seq(Message)
         /\ Len(Append(seq, m)) = Len(seq) + 1
         /\ DOMAIN Append(seq, m) = 1 .. Len(seq) + 1
         /\ \A i \in 1 .. Len(seq) : Append(seq, m)[i] = seq[i]
         /\ Append(seq, m)[Len(seq) + 1] = m
  OBVIOUS

LEMMA Rest ==
  ASSUME NEW seq \in Seq(Message), seq # <<>>
  PROVE  /\ Head(seq) \in Message
         /\ Tail(seq) \in Seq(Message)
         /\ Len(seq) \in Nat /\ Len(seq) > 0
         /\ Len(Tail(seq)) = Len(seq) - 1
         /\ DOMAIN Tail(seq) = 1 .. Len(seq) - 1
         /\ \A i \in 1 .. Len(seq) - 1 : Tail(seq)[i] = seq[i + 1]
  OBVIOUS

LEMMA GaplessAppend ==
  ASSUME NEW seq \in Seq(Message), NEW m \in Message, Gapless(seq), Awaits(seq, m[1], m[2])
  PROVE  Gapless(Append(seq, m))
<1>0. DOMAIN Append(seq, m) = 1 .. Len(seq) + 1
  BY Appended
<1> SUFFICES ASSUME NEW i \in 1 .. Len(seq) + 1, NEW j \in 1 .. Len(seq) + 1, i < j,
                    Append(seq, m)[i][1] = Append(seq, m)[j][1],
                    \A k \in i + 1 .. j - 1 : Append(seq, m)[k][1] # Append(seq, m)[i][1]
             PROVE  Append(seq, m)[j][2] = Append(seq, m)[i][2] + 1
  BY <1>0 DEF Gapless
<1>1. i \in 1 .. Len(seq) /\ Append(seq, m)[i] = seq[i]
  BY Appended
<1>2. CASE j = Len(seq) + 1
  <2>1. seq[i][1] = m[1] /\ Append(seq, m)[j] = m
    BY <1>1, <1>2, Appended
  <2>2. \A k \in i + 1 .. Len(seq) : seq[k][1] # m[1]
    BY <1>1, <1>2, <2>1, Appended
  <2> QED BY <1>1, <2>1, <2>2 DEF Awaits
<1>3. CASE j # Len(seq) + 1
  <2>1. j \in 1 .. Len(seq) /\ Append(seq, m)[j] = seq[j]
    BY <1>3, Appended
  <2>2. \A k \in i + 1 .. j - 1 : seq[k][1] # seq[i][1]
    BY <1>1, <2>1, Appended
  <2>3. seq[i][1] = seq[j][1]
    BY <1>1, <2>1
  <2>4. seq[j][2] = seq[i][2] + 1
    <3>1. i \in DOMAIN seq /\ j \in DOMAIN seq
      BY <1>1, <2>1
    <3> QED BY <2>2, <2>3, <3>1 DEF Gapless
  <2> QED BY <1>1, <2>1, <2>4
<1> QED BY <1>2, <1>3

LEMMA AwaitsNext ==
  ASSUME NEW seq \in Seq(Message), NEW m \in Message
  PROVE  Awaits(Append(seq, m), m[1], m[2] + 1)
<1> SUFFICES ASSUME NEW i \in 1 .. Len(seq) + 1, Append(seq, m)[i][1] = m[1],
                    \A j \in i + 1 .. Len(seq) + 1 : Append(seq, m)[j][1] # m[1]
             PROVE  m[2] + 1 = Append(seq, m)[i][2] + 1
  BY Appended DEF Awaits
<1>1. i = Len(seq) + 1
  BY Appended
<1> QED BY <1>1, Appended

LEMMA AwaitsOther ==
  ASSUME NEW seq \in Seq(Message), NEW m \in Message, NEW s, NEW k, s # m[1], Awaits(seq, s, k)
  PROVE  Awaits(Append(seq, m), s, k)
<1> SUFFICES ASSUME NEW i \in 1 .. Len(seq) + 1, Append(seq, m)[i][1] = s,
                    \A j \in i + 1 .. Len(seq) + 1 : Append(seq, m)[j][1] # s
             PROVE  k = Append(seq, m)[i][2] + 1
  BY Appended DEF Awaits
<1>1. i \in 1 .. Len(seq) /\ Append(seq, m)[i] = seq[i]
  BY Appended
<1>2. \A j \in i + 1 .. Len(seq) : seq[j][1] # s
  BY Appended
<1> QED BY <1>1, <1>2 DEF Awaits

LEMMA GaplessTail ==
  ASSUME NEW seq \in Seq(Message), seq # <<>>, Gapless(seq)
  PROVE  Gapless(Tail(seq))
<1> SUFFICES ASSUME NEW i \in 1 .. Len(seq) - 1, NEW j \in 1 .. Len(seq) - 1, i < j,
                    Tail(seq)[i][1] = Tail(seq)[j][1],
                    \A k \in i + 1 .. j - 1 : Tail(seq)[k][1] # Tail(seq)[i][1]
             PROVE  Tail(seq)[j][2] = Tail(seq)[i][2] + 1
  BY Rest DEF Gapless
<1>1. /\ i + 1 \in 1 .. Len(seq) /\ Tail(seq)[i] = seq[i + 1]
      /\ j + 1 \in 1 .. Len(seq) /\ Tail(seq)[j] = seq[j + 1]
  BY Rest
<1>2. ASSUME NEW k \in (i + 1) + 1 .. (j + 1) - 1 PROVE seq[k][1] # seq[i + 1][1]
  <2>1. k - 1 \in i + 1 .. j - 1 /\ k - 1 \in 1 .. Len(seq) - 1
    BY Rest
  <2>2. Tail(seq)[k - 1] = seq[(k - 1) + 1]
    BY <2>1, Rest
  <2>3. (k - 1) + 1 = k
    OBVIOUS
  <2> QED BY <1>1, <2>1, <2>2, <2>3
<1>3. i + 1 < j + 1 /\ seq[i + 1][1] = seq[j + 1][1]
  BY <1>1
<1>4. seq[j + 1][2] = seq[i + 1][2] + 1
  <2>1. i + 1 \in DOMAIN seq /\ j + 1 \in DOMAIN seq
    BY <1>1, Rest
  <2>2. \A k \in (i + 1) + 1 .. (j + 1) - 1 : seq[k][1] # seq[i + 1][1]
    BY <1>2
  <2> QED BY <2>1, <2>2, <1>3 DEF Gapless
<1> QED BY <1>1, <1>4

LEMMA AwaitsTail ==
  ASSUME NEW seq \in Seq(Message), seq # <<>>, NEW s, NEW k, Awaits(seq, s, k)
  PROVE  Awaits(Tail(seq), s, k)
<1> SUFFICES ASSUME NEW i \in 1 .. Len(seq) - 1, Tail(seq)[i][1] = s,
                    \A j \in i + 1 .. Len(seq) - 1 : Tail(seq)[j][1] # s
             PROVE  k = Tail(seq)[i][2] + 1
  BY Rest DEF Awaits
<1>1. i + 1 \in 1 .. Len(seq) /\ Tail(seq)[i] = seq[i + 1]
  BY Rest
<1>2. ASSUME NEW j \in (i + 1) + 1 .. Len(seq) PROVE seq[j][1] # s
  <2>1. j - 1 \in i + 1 .. Len(seq) - 1 /\ j - 1 \in 1 .. Len(seq) - 1
    BY Rest
  <2>2. Tail(seq)[j - 1] = seq[(j - 1) + 1]
    BY <2>1, Rest
  <2>3. (j - 1) + 1 = j
    OBVIOUS
  <2> QED BY <2>1, <2>2, <2>3
<1> QED BY <1>1, <1>2, Rest DEF Awaits

LEMMA SameEndAppend ==
  ASSUME NEW s \in Seq(Message), NEW t \in Seq(Message), NEW m \in Message, SameEnd(s, t)
  PROVE  SameEnd(Append(s, m), Append(t, m))
<1> SUFFICES ASSUME NEW i \in Nat, i < Len(s) + 1, i < Len(t) + 1
             PROVE  Append(s, m)[Len(s) + 1 - i] = Append(t, m)[Len(t) + 1 - i]
  BY Appended DEF SameEnd
<1>1. CASE i = 0
  BY <1>1, Appended
<1>2. CASE i > 0
  <2>1. s[Len(s) - (i - 1)] = t[Len(t) - (i - 1)]
    <3>1. i - 1 \in Nat /\ i - 1 < Len(s) /\ i - 1 < Len(t)
      BY <1>2
    <3> QED BY <3>1 DEF SameEnd
  <2>2. /\ Len(s) - (i - 1) = Len(s) + 1 - i /\ Len(s) + 1 - i \in 1 .. Len(s)
        /\ Len(t) - (i - 1) = Len(t) + 1 - i /\ Len(t) + 1 - i \in 1 .. Len(t)
    BY <1>2
  <2> QED BY <2>1, <2>2, Appended
<1> QED BY <1>1, <1>2

LEMMA SameEndTail ==
  ASSUME NEW s \in Seq(Message), NEW t \in Seq(Message), s # <<>>, SameEnd(s, t)
  PROVE  SameEnd(Tail(s), t)
<1> SUFFICES ASSUME NEW i \in Nat, i < Len(s) - 1, i < Len(t)
             PROVE  Tail(s)[Len(s) - 1 - i] = t[Len(t) - i]
  BY Rest DEF SameEnd
<1>1. Len(s) - 1 - i \in 1 .. Len(s) - 1 /\ (Len(s) - 1 - i) + 1 = Len(s) - i
  BY Rest
<1>2. Tail(s)[Len(s) - 1 - i] = s[Len(s) - i]
  BY <1>1, Rest
<1>3. i < Len(s)
  BY Rest
<1> QED BY <1>2, <1>3 DEF SameEnd

LEMMA SameEndSwap ==
  ASSUME NEW s, NEW t, SameEnd(s, t)
  PROVE  SameEnd(t, s)
  BY DEF SameEnd

LEMMA SameEndIsSuffix ==
  ASSUME NEW s \in Seq(Message), NEW t \in Seq(Message), SameEnd(s, t)
  PROVE  IsSuffix(s, t) \/ IsSuffix(t, s)
<1>1. ASSUME NEW x \in Seq(Message), NEW y \in Seq(Message), SameEnd(x, y), Len(x) <= Len(y)
      PROVE  IsSuffix(x, y)
  <2>1. /\ Reverse(x) \in Seq(Message) /\ Len(Reverse(x)) = Len(x)
        /\ Reverse(y) \in Seq(Message) /\ Len(Reverse(y)) = Len(y)
    BY DEF Reverse
  <2>2. /\ \A i \in 1 .. Len(x) : Reverse(x)[i] = x[Len(x) - i + 1]
        /\ \A i \in 1 .. Len(y) : Reverse(y)[i] = y[Len(y) - i + 1]
    BY DEF Reverse
  <2>3. ASSUME NEW i \in 1 .. Len(x) PROVE Reverse(x)[i] = Reverse(y)[i]
    <3>1. i - 1 \in Nat /\ i - 1 < Len(x) /\ i - 1 < Len(y)
      BY <1>1
    <3>2. x[Len(x) - (i - 1)] = y[Len(y) - (i - 1)]
      BY <1>1, <3>1 DEF SameEnd
    <3>3. Len(x) - (i - 1) = Len(x) - i + 1 /\ Len(y) - (i - 1) = Len(y) - i + 1
      OBVIOUS
    <3>4. i \in 1 .. Len(y)
      BY <1>1
    <3> QED BY <2>2, <3>2, <3>3, <3>4
  <2>4. SubSeq(Reverse(x), 1, Len(x)) = SubSeq(Reverse(y), 1, Len(x))
    <3>1. /\ SubSeq(Reverse(x), 1, Len(x)) = [i \in 1 .. Len(x) |-> Reverse(x)[i]]
          /\ SubSeq(Reverse(y), 1, Len(x)) = [i \in 1 .. Len(x) |-> Reverse(y)[i]]
      BY <1>1, <2>1
    <3> QED BY <2>3, <3>1
  <2> QED BY <1>1, <2>1, <2>4 DEF IsSuffix, IsPrefix
<1> QED BY <1>1, SameEndSwap

-----------------------------------------------------------------------------
(* The state                                                               *)
Broadcasts ==
  [message: Message \cup {<<>>}, todo: SUBSET Peer, to: SUBSET Peer]

HubTyped ==
  /\ peer \in [Peer -> {"away", "reading", "publishing", "broadcasting", "over"}]
  /\ connected \subseteq Peer
  /\ clients \in [Node -> SUBSET Peer]
  /\ channel \in [Node -> Seq(Message)]
  /\ listener \in [Node -> {"listening", "broadcasting", "ended"}]
  /\ broadcast \in [Node \cup Peer -> Broadcasts]
  /\ said \in [Peer -> Nat]
  /\ heard \in [Peer -> Seq(Message)]

(* A broadcast is of a message and goes to clients of its own node.        *)
BroadcastsOK ==
  /\ \A b \in Node \cup Peer :
       IF broadcast[b].to = {} THEN broadcast[b] = Idle ELSE broadcast[b].message \in Message
  /\ \A n \in Node : broadcast[n].to # {} <=> listener[n] = "broadcasting"
  /\ \A n \in Node : \A c \in clients[n] \cup broadcast[n].todo : NodeOf[c] = n
  /\ \A s \in Peer : broadcast[s].to # {} <=> peer[s] = "broadcasting"
  /\ \A s \in Peer : broadcast[s].to # {} => broadcast[s].message = <<s, said[s]>>
  /\ \A s \in Peer : \A c \in broadcast[s].todo : NodeOf[c] = NodeOf[s]

(* Who has not come yet has heard nothing and is written nothing.          *)
NotYet ==
  \A c \in Peer : peer[c] = "away" =>
    /\ heard[c] = <<>>
    /\ c \notin clients[NodeOf[c]]
    /\ \A b \in Node \cup Peer : c \notin broadcast[b].todo

Hub == HubTyped /\ BroadcastsOK /\ NotYet

LEMMA NodesOfPeers == Node \cap Peer = {} /\ \A c \in Peer : NodeOf[c] \in Node
  BY BackplaneAssumption

LEMMA HubInit == BackplaneInit => Hub
<1> SUFFICES ASSUME BackplaneInit PROVE Hub
  OBVIOUS
<1>1. HubTyped
  BY DEF BackplaneInit, HubTyped, Broadcasts, Idle
<1> QED
  BY <1>1, NodesOfPeers DEF BackplaneInit, Hub, BroadcastsOK, NotYet, Idle

LEMMA PeerMovesHub ==
  ASSUME Hub, NEW c \in Peer, Join(c) \/ Close(c) \/ Publish(c) \/ PublishFails(c) \/ Breaks(c)
  PROVE  Hub'
<1>0. NodeOf[c] \in Node /\ <<c, said[c]>> \in Message
  BY NodesOfPeers DEF Hub, HubTyped, Message
<1>1. HubTyped'
  <2>1. channel' \in [Node -> Seq(Message)]
    <3>1. \A n \in Node : Append(channel[n], <<c, said[c]>>) \in Seq(Message)
      BY <1>0, Appended DEF Hub, HubTyped
    <3>2. channel \in [Node -> Seq(Message)]
      BY DEF Hub, HubTyped
    <3>3. \/ channel' = channel
          \/ channel' = [n \in Node |-> IF listener[n] = "ended" THEN channel[n]
                                        ELSE Append(channel[n], <<c, said[c]>>)]
      BY DEF Join, Close, Publish, PublishFails, Breaks
    <3> QED BY <3>1, <3>2, <3>3
  <2>2. peer' \in [Peer -> {"away", "reading", "publishing", "broadcasting", "over"}]
    BY DEF Hub, HubTyped, Join, Close, Publish, PublishFails, Breaks, Over, At
  <2>3. clients' \in [Node -> SUBSET Peer]
    BY <1>0 DEF Hub, HubTyped, Join, Close, Publish, PublishFails, Breaks, Over
  <2> QED
    BY <2>1, <2>2, <2>3 DEF Hub, HubTyped, Join, Close, Publish, PublishFails, Breaks
<1>2. UNCHANGED <<listener, broadcast, said, heard>>
  BY DEF Join, Close, Publish, PublishFails, Breaks
<1>3. \A n \in Node : clients'[n] \subseteq clients[n] \cup (IF n = NodeOf[c] THEN {c} ELSE {})
  BY <1>0 DEF Hub, HubTyped, Join, Close, Publish, PublishFails, Breaks, Over
<1>4. \A d \in Peer : (peer'[d] = "broadcasting") <=> (peer[d] = "broadcasting")
  BY DEF Hub, HubTyped, Join, Close, Publish, PublishFails, Breaks, Over, At
<1>5. BroadcastsOK'
  BY <1>2, <1>3, <1>4 DEF Hub, BroadcastsOK
<1>6. \A d \in Peer : peer'[d] = "away" => peer[d] = "away" /\ clients'[NodeOf[d]] \subseteq clients[NodeOf[d]] \cup {c} /\ d # c
  BY <1>3, NodesOfPeers DEF Hub, HubTyped, Join, Close, Publish, PublishFails, Breaks, Over, At
<1>7. NotYet'
  BY <1>2, <1>6 DEF Hub, NotYet
<1> QED BY <1>1, <1>5, <1>7 DEF Hub

(* A client is written to.                                                 *)
LEMMA HeardTyped ==
  ASSUME Hub, NEW c \in Peer, NEW m \in Message, heard' = [heard EXCEPT ![c] = Append(@, m)]
  PROVE  heard' \in [Peer -> Seq(Message)]
<1>1. Append(heard[c], m) \in Seq(Message)
  BY Appended DEF Hub, HubTyped
<1> QED BY <1>1 DEF Hub, HubTyped

LEMMA ReadTextHub ==
  ASSUME Hub, NEW s \in Peer, ReadText(s)
  PROVE  Hub'
<1>1. /\ peer[s] = "reading" /\ NodeOf[s] \in Node
      /\ said' = [said EXCEPT ![s] = @ + 1] /\ said[s] + 1 \in Nat
      /\ UNCHANGED <<connected, clients, channel, listener>>
  BY NodesOfPeers DEF Hub, HubTyped, ReadText
<1>2. <<s, said[s] + 1>> \in Message /\ said'[s] = said[s] + 1
  BY <1>1 DEF Hub, HubTyped, Message
<1>3. broadcast[s].to = {}
  BY <1>1 DEF Hub, BroadcastsOK
<1>4. CASE peer' \in {peer, [peer EXCEPT ![s] = "publishing"]} /\ UNCHANGED <<broadcast, heard>>
  <2>1. HubTyped'
    BY <1>1, <1>4 DEF Hub, HubTyped
  <2>2. BroadcastsOK'
    BY <1>1, <1>3, <1>4 DEF Hub, HubTyped, BroadcastsOK
  <2>3. NotYet'
    BY <1>1, <1>4 DEF Hub, HubTyped, NotYet
  <2> QED BY <2>1, <2>2, <2>3 DEF Hub
<1>5. ASSUME NEW to \in clients[NodeOf[s]],
             peer' = [peer EXCEPT ![s] = "broadcasting"],
             broadcast' = [broadcast EXCEPT ![s] =
               [message |-> <<s, said'[s]>>, todo |-> clients[NodeOf[s]] \ {to}, to |-> {to}]],
             heard' = [heard EXCEPT ![to] = Append(@, <<s, said'[s]>>)]
      PROVE  Hub'
  <2>1. clients[NodeOf[s]] \subseteq Peer /\ to \in Peer
    BY <1>1 DEF Hub, HubTyped
  <2>2. heard' \in [Peer -> Seq(Message)]
    BY <1>2, <1>5, <2>1, HeardTyped
  <2>3. [message |-> <<s, said'[s]>>, todo |-> clients[NodeOf[s]] \ {to}, to |-> {to}] \in Broadcasts
    BY <1>2, <2>1 DEF Broadcasts
  <2>4. HubTyped'
    BY <1>1, <1>5, <2>2, <2>3 DEF Hub, HubTyped
  <2>5. \A b \in Node \cup Peer : IF b = s
           THEN /\ broadcast'[b].message = <<s, said'[s]>>
                /\ broadcast'[b].todo = clients[NodeOf[s]] \ {to}
                /\ broadcast'[b].to = {to}
           ELSE broadcast'[b] = broadcast[b]
    BY <1>5 DEF Hub, HubTyped
  <2>6. BroadcastsOK'
    <3>1. \A n \in Node : n # s
      BY NodesOfPeers
    <3>2. \A d \in Node \cup Peer : IF broadcast'[d].to = {} THEN broadcast'[d] = Idle ELSE broadcast'[d].message \in Message
      BY <1>1, <1>2, <1>5, <2>5, <3>1 DEF Hub, HubTyped, BroadcastsOK
    <3>3. \A n \in Node : broadcast'[n].to # {} <=> listener'[n] = "broadcasting"
      BY <1>1, <1>2, <1>5, <2>5, <3>1 DEF Hub, HubTyped, BroadcastsOK
    <3>4. \A n \in Node : \A d \in clients'[n] \cup broadcast'[n].todo : NodeOf[d] = n
      BY <1>1, <1>2, <1>5, <2>5, <3>1 DEF Hub, HubTyped, BroadcastsOK
    <3>5. \A d \in Peer : broadcast'[d].to # {} <=> peer'[d] = "broadcasting"
      BY <1>1, <1>2, <1>5, <2>5, <3>1 DEF Hub, HubTyped, BroadcastsOK
    <3>6. \A d \in Peer : broadcast'[d].to # {} => broadcast'[d].message = <<d, said'[d]>>
      BY <1>1, <1>2, <1>5, <2>5, <3>1 DEF Hub, HubTyped, BroadcastsOK
    <3>7. \A d \in Peer : \A e \in broadcast'[d].todo : NodeOf[e] = NodeOf[d]
      BY <1>1, <1>2, <1>5, <2>5, <3>1 DEF Hub, HubTyped, BroadcastsOK
    <3> QED BY <3>2, <3>3, <3>4, <3>5, <3>6, <3>7 DEF BroadcastsOK
  <2>7. NotYet'
    <3> SUFFICES ASSUME NEW c \in Peer, peer'[c] = "away"
                 PROVE  /\ heard'[c] = <<>>
                        /\ c \notin clients'[NodeOf[c]]
                        /\ \A b \in Node \cup Peer : c \notin broadcast'[b].todo
      BY DEF NotYet
    <3>1. /\ peer[c] = "away" /\ heard[c] = <<>> /\ c \notin clients[NodeOf[c]]
          /\ \A b \in Node \cup Peer : c \notin broadcast[b].todo
      BY <1>5 DEF Hub, HubTyped, NotYet
    <3>2. \A d \in clients[NodeOf[s]] : NodeOf[d] = NodeOf[s]
      BY <1>1 DEF Hub, BroadcastsOK
    <3>3. c \notin clients[NodeOf[s]]
      BY <3>1, <3>2
    <3> QED BY <1>1, <1>5, <2>1, <2>5, <3>1, <3>3 DEF Hub, HubTyped
  <2> QED BY <2>4, <2>6, <2>7 DEF Hub
<1> QED BY <1>4, <1>5 DEF ReadText, At

LEMMA ListenFailsHub ==
  ASSUME Hub, NEW n \in Node, ListenFails(n)
  PROVE  Hub'
<1>1. HubTyped'
  BY DEF Hub, HubTyped, ListenFails
<1>2. BroadcastsOK'
  BY DEF Hub, HubTyped, BroadcastsOK, ListenFails
<1>3. NotYet'
  BY DEF Hub, NotYet, ListenFails
<1> QED BY <1>1, <1>2, <1>3 DEF Hub

LEMMA ListenHub ==
  ASSUME Hub, NEW n \in Node, Listen(n)
  PROVE  Hub'
<1>1. /\ listener[n] = "listening" /\ channel[n] \in Seq(Message) /\ channel[n] # <<>>
      /\ channel' = [channel EXCEPT ![n] = Tail(@)]
      /\ UNCHANGED <<peer, connected, clients, said>>
  BY DEF Hub, HubTyped, Listen
<1>2. Head(channel[n]) \in Message /\ Tail(channel[n]) \in Seq(Message)
  BY <1>1, Rest
<1>3. channel' \in [Node -> Seq(Message)]
  BY <1>1, <1>2 DEF Hub, HubTyped
<1>4. CASE UNCHANGED <<listener, broadcast, heard>>
  BY <1>1, <1>3, <1>4 DEF Hub, HubTyped, BroadcastsOK, NotYet
<1>5. ASSUME NEW to \in clients[n],
             listener' = [listener EXCEPT ![n] = "broadcasting"],
             broadcast' = [broadcast EXCEPT ![n] =
               [message |-> Head(channel[n]), todo |-> clients[n] \ {to}, to |-> {to}]],
             heard' = [heard EXCEPT ![to] = Append(@, Head(channel[n]))]
      PROVE  Hub'
  <2>1. clients[n] \subseteq Peer /\ to \in Peer
    BY DEF Hub, HubTyped
  <2>2. heard' \in [Peer -> Seq(Message)]
    BY <1>2, <1>5, <2>1, HeardTyped
  <2>3. [message |-> Head(channel[n]), todo |-> clients[n] \ {to}, to |-> {to}] \in Broadcasts
    BY <1>2, <2>1 DEF Broadcasts
  <2>4. HubTyped'
    BY <1>1, <1>3, <1>5, <2>2, <2>3 DEF Hub, HubTyped
  <2>5. \A b \in Node \cup Peer : IF b = n
           THEN /\ broadcast'[b].message = Head(channel[n])
                /\ broadcast'[b].todo = clients[n] \ {to}
                /\ broadcast'[b].to = {to}
           ELSE broadcast'[b] = broadcast[b]
    BY <1>5 DEF Hub, HubTyped
  <2>6. BroadcastsOK'
    <3>1. \A s \in Peer : n # s
      BY NodesOfPeers
    <3>2. \A b \in Node \cup Peer :
            IF broadcast'[b].to = {} THEN broadcast'[b] = Idle ELSE broadcast'[b].message \in Message
      <4> TAKE b \in Node \cup Peer
      <4>1. CASE b = n
        BY <1>2, <2>5, <4>1
      <4>2. CASE b # n
        BY <2>5, <4>2 DEF Hub, BroadcastsOK
      <4> QED BY <4>1, <4>2
    <3>3. \A m \in Node : listener'[m] = IF m = n THEN "broadcasting" ELSE listener[m]
      BY <1>5 DEF Hub, HubTyped
    <3>4. \A m \in Node : broadcast'[m].to # {} <=> listener'[m] = "broadcasting"
      BY <2>5, <3>3 DEF Hub, BroadcastsOK
    <3>5. \A m \in Node : broadcast'[m].todo \subseteq clients[m] \cup broadcast[m].todo
      BY <2>5
    <3>6. \A m \in Node : \A c \in clients'[m] \cup broadcast'[m].todo : NodeOf[c] = m
      BY <1>1, <3>5 DEF Hub, BroadcastsOK
    <3>7. \A s \in Peer : broadcast'[s] = broadcast[s]
      BY <2>5, <3>1
    <3>8. /\ \A s \in Peer : broadcast'[s].to # {} <=> peer'[s] = "broadcasting"
          /\ \A s \in Peer : broadcast'[s].to # {} => broadcast'[s].message = <<s, said'[s]>>
          /\ \A s \in Peer : \A c \in broadcast'[s].todo : NodeOf[c] = NodeOf[s]
      BY <1>1, <3>7 DEF Hub, BroadcastsOK
    <3> QED BY <3>2, <3>4, <3>6, <3>8 DEF BroadcastsOK
  <2>7. NotYet'
    <3> SUFFICES ASSUME NEW c \in Peer, peer'[c] = "away"
                 PROVE  /\ heard'[c] = <<>>
                        /\ c \notin clients'[NodeOf[c]]
                        /\ \A b \in Node \cup Peer : c \notin broadcast'[b].todo
      BY DEF NotYet
    <3>1. /\ peer[c] = "away" /\ heard[c] = <<>> /\ c \notin clients[NodeOf[c]]
          /\ \A b \in Node \cup Peer : c \notin broadcast[b].todo
      BY <1>1 DEF Hub, NotYet
    <3>2. c \notin clients[n]
      BY <3>1 DEF Hub, BroadcastsOK
    <3> QED BY <1>1, <1>5, <2>1, <2>5, <3>1, <3>2 DEF Hub, HubTyped
  <2> QED BY <2>4, <2>6, <2>7 DEF Hub
<1> QED BY <1>1, <1>4, <1>5 DEF Listen

(* A drain: a client of the snapshot is written to, or the broadcast ends. *)
Home(b) == IF b \in Node THEN b ELSE NodeOf[b]

LEMMA DrainCases ==
  ASSUME Hub, NEW b \in Node \cup Peer, Drain(b)
  PROVE  /\ broadcast[b].to # {} /\ Home(b) \in Node
         /\ UNCHANGED <<connected, channel, said, redis_client>>
         /\ \A n \in Node : clients'[n] \subseteq clients[n]
         /\ clients' \in [Node -> SUBSET Peer]
         /\ \/ \E c \in broadcast[b].todo :
                 /\ broadcast' = [broadcast EXCEPT ![b] =
                      [message |-> broadcast[b].message, todo |-> broadcast[b].todo \ {c}, to |-> {c}]]
                 /\ heard' = [heard EXCEPT ![c] = Append(@, broadcast[b].message)]
                 /\ UNCHANGED <<peer, listener>>
            \/ /\ broadcast[b].todo = {}
               /\ broadcast' = [broadcast EXCEPT ![b] = Idle]
               /\ UNCHANGED heard
               /\ \/ /\ b \in Node /\ listener' = [listener EXCEPT ![b] = "listening"]
                     /\ UNCHANGED peer
                  \/ /\ b \in Peer /\ peer' = [peer EXCEPT ![b] = "reading"]
                     /\ UNCHANGED listener
<1>1. Home(b) \in Node
  BY NodesOfPeers DEF Home
<1>2. /\ broadcast[b].to # {}
      /\ clients' = [clients EXCEPT ![Home(b)] = @ \ (broadcast[b].to \ connected)]
      /\ UNCHANGED <<connected, channel, said, redis_client>>
  BY NodesOfPeers DEF Drain, DrainAt, Home
<1>3. clients \in [Node -> SUBSET Peer]
  BY DEF Hub, HubTyped
<1>4. /\ \A n \in Node : clients'[n] \subseteq clients[n]
      /\ clients' \in [Node -> SUBSET Peer]
  BY <1>1, <1>2, <1>3
<1> QED BY <1>1, <1>2, <1>4 DEF Drain, DrainAt, NextWrite, Listens, Reads, At

LEMMA DrainHub ==
  ASSUME Hub, NEW b \in Node \cup Peer, Drain(b)
  PROVE  Hub'
<1> USE DrainCases
<1>1. /\ broadcast[b] \in Broadcasts /\ broadcast[b].message \in Message
      /\ broadcast[b].todo \subseteq Peer
  BY DEF Hub, HubTyped, BroadcastsOK, Broadcasts
<1>2. ASSUME NEW c \in broadcast[b].todo,
             broadcast' = [broadcast EXCEPT ![b] =
               [message |-> broadcast[b].message, todo |-> broadcast[b].todo \ {c}, to |-> {c}]],
             heard' = [heard EXCEPT ![c] = Append(@, broadcast[b].message)],
             UNCHANGED <<peer, listener>>
      PROVE  Hub'
  <2>1. heard' \in [Peer -> Seq(Message)]
    BY <1>1, <1>2, HeardTyped
  <2>2. [message |-> broadcast[b].message, todo |-> broadcast[b].todo \ {c}, to |-> {c}] \in Broadcasts
    BY <1>1 DEF Broadcasts
  <2>3. HubTyped'
    BY <1>2, <2>1, <2>2 DEF Hub, HubTyped
  <2>4. \A d \in Node \cup Peer : IF d = b
           THEN /\ broadcast'[d].message = broadcast[b].message
                /\ broadcast'[d].todo = broadcast[b].todo \ {c}
                /\ broadcast'[d].to = {c}
           ELSE broadcast'[d] = broadcast[d]
    BY <1>2 DEF Hub, HubTyped
  <2>5. BroadcastsOK'
    <3>0. \A d \in Node \cup Peer : broadcast'[d].to # {} <=> broadcast[d].to # {}
      BY <2>4, DrainCases
    <3>2. \A d \in Node \cup Peer : IF broadcast'[d].to = {} THEN broadcast'[d] = Idle ELSE broadcast'[d].message \in Message
      <4> TAKE d \in Node \cup Peer
      <4>1. CASE d = b
        BY <1>1, <2>4, <4>1
      <4>2. CASE d # b
        BY <2>4, <4>2 DEF Hub, BroadcastsOK
      <4> QED BY <4>1, <4>2
    <3>8. \A d \in Node \cup Peer : /\ broadcast'[d].todo \subseteq broadcast[d].todo
                                   /\ broadcast'[d].message = broadcast[d].message
      BY <2>4
    <3>9. (\A n \in Node : clients'[n] \subseteq clients[n]) /\ UNCHANGED said
      BY DrainCases
    <3>3. \A n \in Node : broadcast'[n].to # {} <=> listener'[n] = "broadcasting"
      BY <1>2, <3>0 DEF Hub, BroadcastsOK
    <3>4. \A n \in Node : \A d \in clients'[n] \cup broadcast'[n].todo : NodeOf[d] = n
      BY <3>8, <3>9 DEF Hub, BroadcastsOK
    <3>5. \A d \in Peer : broadcast'[d].to # {} <=> peer'[d] = "broadcasting"
      BY <1>2, <3>0 DEF Hub, BroadcastsOK
    <3>6. \A d \in Peer : broadcast'[d].to # {} => broadcast'[d].message = <<d, said'[d]>>
      BY <3>0, <3>8, <3>9 DEF Hub, BroadcastsOK
    <3>7. \A d \in Peer : \A e \in broadcast'[d].todo : NodeOf[e] = NodeOf[d]
      BY <3>8 DEF Hub, BroadcastsOK
    <3> QED BY <3>2, <3>3, <3>4, <3>5, <3>6, <3>7 DEF BroadcastsOK
  <2>6. NotYet'
    <3> SUFFICES ASSUME NEW d \in Peer, peer'[d] = "away"
                 PROVE  /\ heard'[d] = <<>>
                        /\ d \notin clients'[NodeOf[d]]
                        /\ \A e \in Node \cup Peer : d \notin broadcast'[e].todo
      BY DEF NotYet
    <3>1. /\ peer[d] = "away" /\ heard[d] = <<>> /\ d \notin clients[NodeOf[d]]
          /\ \A e \in Node \cup Peer : d \notin broadcast[e].todo
      BY <1>2 DEF Hub, HubTyped, NotYet
    <3>2. \A e \in Node \cup Peer : d \notin broadcast'[e].todo
      BY <1>1, <1>2, <2>4, <3>1
    <3>3. d \notin clients'[NodeOf[d]]
      BY <3>1, NodesOfPeers
    <3> QED BY <1>1, <1>2, <3>1, <3>2, <3>3 DEF Hub, HubTyped
  <2> QED BY <2>3, <2>5, <2>6 DEF Hub
<1>3. CASE /\ broadcast[b].todo = {}
           /\ broadcast' = [broadcast EXCEPT ![b] = Idle]
           /\ UNCHANGED heard
           /\ \/ /\ b \in Node /\ listener' = [listener EXCEPT ![b] = "listening"]
                 /\ UNCHANGED peer
              \/ /\ b \in Peer /\ peer' = [peer EXCEPT ![b] = "reading"]
                 /\ UNCHANGED listener
  <2>1. Idle \in Broadcasts
    BY DEF Idle, Broadcasts
  <2>2. HubTyped'
    BY <1>3, <2>1 DEF Hub, HubTyped
  <2>3. \A d \in Node \cup Peer : broadcast'[d] = IF d = b THEN Idle ELSE broadcast[d]
    BY <1>3 DEF Hub, HubTyped
  <2>4. Idle.to = {} /\ Idle.todo = {}
    BY DEF Idle
  <2>5. BroadcastsOK'
    <3>1. \A n \in Node, d \in Peer : n # d
      BY NodesOfPeers
    <3>2. \A d \in Node \cup Peer : IF broadcast'[d].to = {} THEN broadcast'[d] = Idle ELSE broadcast'[d].message \in Message
      BY <2>3, <2>4 DEF Hub, BroadcastsOK
    <3>8. \A d \in Node \cup Peer : broadcast'[d].to # {} => broadcast'[d] = broadcast[d]
      BY <2>3, <2>4
    <3>9. (\A d \in Node \cup Peer : broadcast'[d].todo \subseteq broadcast[d].todo) /\ UNCHANGED said
      BY <2>3, <2>4, DrainCases
    <3>3. \A n \in Node : broadcast'[n].to # {} <=> listener'[n] = "broadcasting"
      BY <1>3, <2>3, <2>4, <3>1 DEF Hub, HubTyped, BroadcastsOK
    <3>4. \A n \in Node : \A d \in clients'[n] \cup broadcast'[n].todo : NodeOf[d] = n
      <4>1. \A n \in Node : clients'[n] \subseteq clients[n] /\ broadcast'[n].todo \subseteq broadcast[n].todo
        BY <2>3, <2>4, DrainCases
      <4> QED BY <4>1 DEF Hub, BroadcastsOK
    <3>5. \A d \in Peer : broadcast'[d].to # {} <=> peer'[d] = "broadcasting"
      BY <1>3, <2>3, <2>4, <3>1 DEF Hub, HubTyped, BroadcastsOK
    <3>6. \A d \in Peer : broadcast'[d].to # {} => broadcast'[d].message = <<d, said'[d]>>
      BY <3>8, <3>9 DEF Hub, BroadcastsOK
    <3>7. \A d \in Peer : \A e \in broadcast'[d].todo : NodeOf[e] = NodeOf[d]
      BY <3>8, <3>9 DEF Hub, BroadcastsOK
    <3> QED BY <3>2, <3>3, <3>4, <3>5, <3>6, <3>7 DEF BroadcastsOK
  <2>6. NotYet'
    <3> SUFFICES ASSUME NEW d \in Peer, peer'[d] = "away"
                 PROVE  /\ heard'[d] = <<>>
                        /\ d \notin clients'[NodeOf[d]]
                        /\ \A e \in Node \cup Peer : d \notin broadcast'[e].todo
      BY DEF NotYet
    <3>1. /\ peer[d] = "away" /\ heard[d] = <<>> /\ d \notin clients[NodeOf[d]]
          /\ \A e \in Node \cup Peer : d \notin broadcast[e].todo
      BY <1>3 DEF Hub, HubTyped, NotYet
    <3>2. \A e \in Node \cup Peer : d \notin broadcast'[e].todo
      BY <1>3, <2>3, <2>4, <3>1
    <3>3. d \notin clients'[NodeOf[d]]
      BY <3>1, NodesOfPeers
    <3> QED BY <1>3, <3>1, <3>2, <3>3 DEF Hub, HubTyped
  <2> QED BY <2>2, <2>5, <2>6 DEF Hub
<1> QED BY <1>2, <1>3

LEMMA HubNext == Hub /\ [BackplaneNext]_<<backplane, redis_client>> => Hub'
<1>1. Hub /\ UNCHANGED backplane => Hub'
  BY DEF Hub, HubTyped, BroadcastsOK, NotYet, backplane
<1> QED
  BY <1>1, PeerMovesHub, ReadTextHub, ListenHub, ListenFailsHub, DrainHub DEF BackplaneNext

-----------------------------------------------------------------------------
(* Without Redis a client that stays has heard of every sender of its node *)
(* all that it said, but for what is being broadcast to it.                *)
Due(s, c) == IF c \in broadcast[s].todo THEN said[s] ELSE said[s] + 1

LocalOK ==
  /\ \A n \in Node : channel[n] = <<>> /\ listener[n] = "listening"
  /\ \A s \in Peer : peer[s] # "publishing"
  /\ \A c \in Peer : Gapless(heard[c])
  /\ \A s, c \in Peer :
       c \in clients[NodeOf[s]] \cup broadcast[s].todo => Awaits(heard[c], s, Due(s, c))

LEMMA GaplessEmpty == Gapless(<<>>) /\ \A s, k : Awaits(<<>>, s, k)
  BY DEF Gapless, Awaits

LEMMA LocalInit == BackplaneInit => LocalOK
  BY GaplessEmpty, NodesOfPeers DEF BackplaneInit, LocalOK, Idle

LEMMA PeerMovesLocal ==
  ASSUME Hub, LocalOK, NEW c \in Peer, Join(c) \/ Close(c) \/ Breaks(c)
  PROVE  LocalOK'
<1>1. /\ UNCHANGED <<channel, listener, broadcast, said, heard>>
      /\ \A s \in Peer : peer'[s] # "publishing"
  BY DEF Hub, HubTyped, LocalOK, Join, Close, Breaks, Over, At
<1>2. \A s, d \in Peer : d \in clients'[NodeOf[s]] => d \in clients[NodeOf[s]] \/ heard[d] = <<>>
  <2>1. CASE Join(c)
    <3>1. heard[c] = <<>>
      BY <2>1 DEF Hub, NotYet, Join
    <3>2. \A n \in Node : clients'[n] \subseteq clients[n] \cup {c}
      BY <2>1, NodesOfPeers DEF Hub, HubTyped, Join
    <3> QED BY <3>1, <3>2, NodesOfPeers
  <2>2. CASE Close(c) \/ Breaks(c)
    <3>1. clients' = clients \/ clients' = [clients EXCEPT ![NodeOf[c]] = @ \ {c}]
      BY <2>2 DEF Close, Breaks, Over
    <3>2. \A n \in Node : clients'[n] \subseteq clients[n]
      BY <3>1 DEF Hub, HubTyped
    <3> QED BY <3>2, NodesOfPeers
  <2> QED BY <2>1, <2>2
<1>3. \A s, d \in Peer : Due(s, d)' = Due(s, d)
  BY <1>1 DEF Due
<1>4. \A s, d \in Peer :
        d \in clients'[NodeOf[s]] \cup broadcast'[s].todo => Awaits(heard'[d], s, Due(s, d)')
  BY <1>1, <1>2, <1>3, GaplessEmpty DEF LocalOK
<1> QED BY <1>1, <1>4 DEF LocalOK

(* One client is written the message that it awaits.                       *)
LEMMA WriteLocal ==
  ASSUME Hub, LocalOK, NEW s \in Peer, NEW c \in Peer, NEW k \in Nat,
         Awaits(heard[c], s, k), heard' = [heard EXCEPT ![c] = Append(@, <<s, k>>)]
  PROVE  /\ \A d \in Peer : Gapless(heard'[d])
         /\ Awaits(heard'[c], s, k + 1)
         /\ \A d \in Peer : \A r, j : (d # c \/ r # s) /\ Awaits(heard[d], r, j)
              => Awaits(heard'[d], r, j)
<1>1. heard[c] \in Seq(Message) /\ <<s, k>> \in Message /\ <<s, k>>[1] = s /\ <<s, k>>[2] = k
  BY DEF Hub, HubTyped, Message
<1>2. heard'[c] = Append(heard[c], <<s, k>>) /\ \A d \in Peer : d # c => heard'[d] = heard[d]
  BY DEF Hub, HubTyped
<1>3. Gapless(heard'[c])
  BY <1>1, <1>2, GaplessAppend DEF LocalOK
<1>4. Awaits(heard'[c], s, k + 1)
  BY <1>1, <1>2, AwaitsNext
<1>5. ASSUME NEW r, NEW j, r # s, Awaits(heard[c], r, j) PROVE Awaits(heard'[c], r, j)
  BY <1>1, <1>2, <1>5, AwaitsOther
<1> QED BY <1>2, <1>3, <1>4, <1>5 DEF LocalOK

LEMMA ReadTextToNobody ==
  ASSUME Hub, LocalOK, ~redis_client, NEW s \in Peer, ReadText(s), clients[NodeOf[s]] = {}
  PROVE  LocalOK'
<1>1. /\ peer[s] = "reading" /\ said' = [said EXCEPT ![s] = @ + 1]
      /\ UNCHANGED <<peer, clients, channel, listener, broadcast, heard>>
  BY DEF ReadText
<1>2. broadcast[s].todo = {}
  BY <1>1 DEF Hub, BroadcastsOK, Idle
<1>3. ASSUME NEW r \in Peer, NEW c \in Peer, c \in clients'[NodeOf[r]] \cup broadcast'[r].todo
      PROVE  Awaits(heard'[c], r, Due(r, c)')
  <2>1. r # s
    BY <1>1, <1>2, <1>3
  <2>2. Due(r, c)' = Due(r, c)
    BY <1>1, <2>1 DEF Hub, HubTyped, Due
  <2> QED BY <1>1, <1>3, <2>2 DEF LocalOK
<1> QED BY <1>1, <1>3 DEF LocalOK

LEMMA ReadTextToSome ==
  ASSUME Hub, LocalOK, ~redis_client, NEW s \in Peer, ReadText(s), clients[NodeOf[s]] # {}
  PROVE  LocalOK'
<1>1. /\ peer[s] = "reading" /\ NodeOf[s] \in Node /\ said[s] + 1 \in Nat
      /\ said' = [said EXCEPT ![s] = @ + 1] /\ said'[s] = said[s] + 1
      /\ UNCHANGED <<clients, channel, listener>>
  BY NodesOfPeers DEF Hub, HubTyped, ReadText
<1>2. broadcast[s].todo = {}
  BY <1>1 DEF Hub, BroadcastsOK, Idle
<1>3. PICK to \in clients[NodeOf[s]] :
        /\ peer' = [peer EXCEPT ![s] = "broadcasting"]
        /\ broadcast' = [broadcast EXCEPT ![s] =
             [message |-> <<s, said'[s]>>, todo |-> clients[NodeOf[s]] \ {to}, to |-> {to}]]
        /\ heard' = [heard EXCEPT ![to] = Append(@, <<s, said'[s]>>)]
  BY DEF ReadText, At
<1>4. to \in Peer
  BY <1>1 DEF Hub, HubTyped
<1>5. Awaits(heard[to], s, said[s] + 1)
  BY <1>2, <1>4 DEF LocalOK, Due
<1>6. heard' = [heard EXCEPT ![to] = Append(@, <<s, said[s] + 1>>)]
  BY <1>1, <1>3
<1>7. /\ \A d \in Peer : Gapless(heard'[d])
      /\ Awaits(heard'[to], s, (said[s] + 1) + 1)
      /\ \A d \in Peer : \A r, j : (d # to \/ r # s) /\ Awaits(heard[d], r, j)
           => Awaits(heard'[d], r, j)
  <2> DEFINE k == said[s] + 1
  <2>1. k \in Nat /\ Awaits(heard[to], s, k) /\ heard' = [heard EXCEPT ![to] = Append(@, <<s, k>>)]
    BY <1>1, <1>5, <1>6
  <2> HIDE DEF k
  <2>2. /\ \A d \in Peer : Gapless(heard'[d])
        /\ Awaits(heard'[to], s, k + 1)
        /\ \A d \in Peer : \A r, j : (d # to \/ r # s) /\ Awaits(heard[d], r, j)
             => Awaits(heard'[d], r, j)
    BY <1>4, <2>1, WriteLocal
  <2> QED BY <2>2 DEF k
<1>8. /\ \A r \in Peer : r # s => broadcast'[r] = broadcast[r] /\ said'[r] = said[r]
      /\ broadcast'[s].todo = clients[NodeOf[s]] \ {to}
  BY <1>1, <1>3 DEF Hub, HubTyped
<1>9. ASSUME NEW r \in Peer, NEW c \in Peer, c \in clients'[NodeOf[r]] \cup broadcast'[r].todo
      PROVE  Awaits(heard'[c], r, Due(r, c)')
  <2>1. CASE r # s
    <3>1. Due(r, c)' = Due(r, c) /\ c \in clients[NodeOf[r]] \cup broadcast[r].todo
      BY <1>1, <1>8, <1>9, <2>1 DEF Due
    <3> QED BY <1>7, <2>1, <3>1 DEF LocalOK
  <2>2. CASE r = s /\ c = to
    <3>1. Due(r, c)' = (said[s] + 1) + 1
      BY <1>1, <1>8, <2>2 DEF Due
    <3> QED BY <1>7, <2>2, <3>1
  <2>3. CASE r = s /\ c # to
    <3>1. Due(r, c)' = said[s] + 1 /\ c \in clients[NodeOf[s]]
      BY <1>1, <1>8, <1>9, <2>3 DEF Due
    <3>2. Awaits(heard[c], s, said[s] + 1)
      BY <1>2, <3>1 DEF LocalOK, Due
    <3> QED BY <1>7, <2>3, <3>1, <3>2
  <2> QED BY <2>1, <2>2, <2>3
<1>10. \A r \in Peer : peer'[r] # "publishing"
  BY <1>3 DEF Hub, HubTyped, LocalOK
<1> QED BY <1>1, <1>7, <1>9, <1>10 DEF LocalOK

LEMMA ReadTextLocal ==
  ASSUME Hub, LocalOK, ~redis_client, NEW s \in Peer, ReadText(s)
  PROVE  LocalOK'
BY ReadTextToNobody, ReadTextToSome

LEMMA DrainLocal ==
  ASSUME Hub, LocalOK, NEW s \in Node \cup Peer, Drain(s)
  PROVE  LocalOK'
<1>1. /\ broadcast[s].to # {}
      /\ UNCHANGED <<channel, said>> /\ \A n \in Node : clients'[n] \subseteq clients[n]
  BY DrainCases
<1>2. s \in Peer /\ s \notin Node
  BY <1>1, NodesOfPeers DEF Hub, BroadcastsOK, LocalOK
<1>3. broadcast[s].message = <<s, said[s]>> /\ said[s] \in Nat
  BY <1>1, <1>2 DEF Hub, HubTyped, BroadcastsOK
<1>4. ASSUME NEW to \in broadcast[s].todo,
             broadcast' = [broadcast EXCEPT ![s] =
               [message |-> broadcast[s].message, todo |-> broadcast[s].todo \ {to}, to |-> {to}]],
             heard' = [heard EXCEPT ![to] = Append(@, broadcast[s].message)],
             UNCHANGED <<peer, listener>>
      PROVE  LocalOK'
  <2>1. to \in Peer
    BY DEF Hub, HubTyped, Broadcasts
  <2>2. Awaits(heard[to], s, said[s])
    BY <1>2, <2>1 DEF LocalOK, Due
  <2>3. /\ \A d \in Peer : Gapless(heard'[d])
        /\ Awaits(heard'[to], s, said[s] + 1)
        /\ \A d \in Peer : \A r, j : (d # to \/ r # s) /\ Awaits(heard[d], r, j)
             => Awaits(heard'[d], r, j)
    BY <1>2, <1>3, <1>4, <2>1, <2>2, WriteLocal
  <2>4. /\ \A r \in Peer : r # s => broadcast'[r] = broadcast[r]
        /\ broadcast'[s].todo = broadcast[s].todo \ {to}
    BY <1>2, <1>4 DEF Hub, HubTyped
  <2>5. ASSUME NEW r \in Peer, NEW c \in Peer, c \in clients'[NodeOf[r]] \cup broadcast'[r].todo
        PROVE  Awaits(heard'[c], r, Due(r, c)')
    <3>1. c \in clients[NodeOf[r]] \cup broadcast[r].todo
      BY <1>1, <2>4, <2>5, NodesOfPeers
    <3>2. Awaits(heard[c], r, Due(r, c))
      BY <3>1 DEF LocalOK
    <3>3. CASE r = s /\ c = to
      <4>1. Due(r, c)' = said[s] + 1
        BY <1>1, <2>4, <3>3 DEF Due
      <4> QED BY <2>3, <3>3, <4>1
    <3>4. CASE r # s \/ c # to
      <4>1. Due(r, c)' = Due(r, c)
        BY <1>1, <2>4, <3>4 DEF Due
      <4> QED BY <2>3, <3>2, <3>4, <4>1
    <3> QED BY <3>3, <3>4
  <2> QED BY <1>1, <1>4, <2>3, <2>5 DEF LocalOK
<1>5. CASE /\ broadcast[s].todo = {}
           /\ broadcast' = [broadcast EXCEPT ![s] = Idle]
           /\ UNCHANGED heard
           /\ peer' = [peer EXCEPT ![s] = "reading"] /\ UNCHANGED listener
  <2>1. \A r \in Peer : broadcast'[r].todo = broadcast[r].todo
    BY <1>5 DEF Hub, HubTyped, Idle
  <2>2. \A r, c \in Peer : Due(r, c)' = Due(r, c)
    BY <1>1, <2>1 DEF Due
  <2>3. \A r, c \in Peer :
          c \in clients'[NodeOf[r]] \cup broadcast'[r].todo => Awaits(heard'[c], r, Due(r, c)')
    BY <1>1, <1>5, <2>1, <2>2, NodesOfPeers DEF LocalOK
  <2>4. \A r \in Peer : peer'[r] # "publishing"
    BY <1>5 DEF Hub, HubTyped, LocalOK
  <2> QED BY <1>1, <1>5, <2>3, <2>4 DEF LocalOK
<1> QED BY <1>2, <1>4, <1>5, DrainCases

LEMMA LocalNext ==
  Hub /\ LocalOK /\ ~redis_client /\ [BackplaneNext]_<<backplane, redis_client>> => LocalOK'
<1> SUFFICES ASSUME Hub, LocalOK, ~redis_client, [BackplaneNext]_<<backplane, redis_client>>
             PROVE  LocalOK'
  OBVIOUS
<1>1. CASE UNCHANGED <<backplane, redis_client>>
  <2>1. \A s, c \in Peer : Due(s, c)' = Due(s, c)
    BY <1>1 DEF Due, backplane
  <2> QED BY <1>1, <2>1 DEF LocalOK, backplane
<1>2. ASSUME NEW n \in Node, Listen(n) \/ ListenFails(n) PROVE FALSE
  BY <1>2 DEF LocalOK, Listen, ListenFails
<1>3. ASSUME NEW c \in Peer, Publish(c) \/ PublishFails(c) PROVE FALSE
  BY <1>3 DEF LocalOK, Publish, PublishFails
<1> QED
  BY <1>1, <1>2, <1>3, PeerMovesLocal, ReadTextLocal, DrainLocal DEF BackplaneNext

-----------------------------------------------------------------------------
(* With Redis what a client has heard, what is being broadcast to it and   *)
(* what its listener has still to take are one line, an end of the one     *)
(* conversation; so is what waits for a listener.                          *)
Coming(c) ==
  IF c \in broadcast[NodeOf[c]].todo
    THEN Append(heard[c], broadcast[NodeOf[c]].message) ELSE heard[c]

View(c)    == Coming(c) \o channel[NodeOf[c]]
Hears(n)   == listener[n] # "ended"
Remains(c) == Hears(NodeOf[c]) /\ c \in clients[NodeOf[c]]

Lines ==
  {channel[n] : n \in {m \in Node : Hears(m)}} \cup {View(c) : c \in {d \in Peer : Remains(d)}}

Number(s) == IF peer[s] = "publishing" THEN said[s] ELSE said[s] + 1

LinesOK ==
  /\ \A x, y \in Lines : SameEnd(x, y)
  /\ \A x \in Lines : Gapless(x)
  /\ \A x \in Lines, s \in Peer : peer[s] # "over" => Awaits(x, s, Number(s))

SharedOK ==
  /\ LinesOK
  /\ \A c \in Peer : Gapless(Coming(c))
  /\ \A s \in Peer : peer[s] # "broadcasting"

LEMMA GaplessPrefix ==
  ASSUME NEW s \in Seq(Message), NEW t \in Seq(Message), Gapless(s \o t)
  PROVE  Gapless(s)
<1>1. /\ DOMAIN (s \o t) = 1 .. Len(s) + Len(t)
      /\ \A i \in 1 .. Len(s) : (s \o t)[i] = s[i]
  OBVIOUS
<1>2. DOMAIN s = 1 .. Len(s) /\ Len(s) \in Nat /\ Len(t) \in Nat
  OBVIOUS
<1> SUFFICES ASSUME NEW i \in 1 .. Len(s), NEW j \in 1 .. Len(s), i < j, s[i][1] = s[j][1],
                    \A k \in i + 1 .. j - 1 : s[k][1] # s[i][1]
             PROVE  s[j][2] = s[i][2] + 1
  BY <1>2 DEF Gapless
<1>3. \A k \in i + 1 .. j - 1 : (s \o t)[k][1] # (s \o t)[i][1]
  BY <1>1, <1>2
<1>4. (s \o t)[j][2] = (s \o t)[i][2] + 1
  <2>1. (s \o t)[i][1] = (s \o t)[j][1] /\ i \in DOMAIN (s \o t) /\ j \in DOMAIN (s \o t)
    BY <1>1, <1>2
  <2> QED BY <1>3, <2>1 DEF Gapless
<1> QED BY <1>1, <1>4

LEMMA Advanced ==
  ASSUME NEW s \in Seq(Message), NEW t \in Seq(Message), t # <<>>
  PROVE  Append(s, Head(t)) \o Tail(t) = s \o t
<1> DEFINE left == Append(s, Head(t)) \o Tail(t)
<1>1. /\ left \in Seq(Message) /\ s \o t \in Seq(Message)
      /\ Len(left) = Len(s) + Len(t) /\ Len(s \o t) = Len(s) + Len(t)
  BY Rest, Appended
<1>2. \A i \in 1 .. Len(left) : left[i] = (s \o t)[i]
  BY Rest, Appended
<1> QED BY <1>1, <1>2, SeqEqual

LEMMA Extended ==
  ASSUME NEW s \in Seq(Message), NEW t \in Seq(Message), NEW m \in Message
  PROVE  s \o Append(t, m) = Append(s \o t, m)
  OBVIOUS

LEMMA ComingTyped ==
  ASSUME Hub, NEW c \in Peer
  PROVE  Coming(c) \in Seq(Message) /\ View(c) \in Seq(Message) /\ channel[NodeOf[c]] \in Seq(Message)
<1>1. NodeOf[c] \in Node /\ heard[c] \in Seq(Message) /\ channel[NodeOf[c]] \in Seq(Message)
  BY NodesOfPeers DEF Hub, HubTyped
<1>2. ASSUME c \in broadcast[NodeOf[c]].todo
      PROVE  Append(heard[c], broadcast[NodeOf[c]].message) \in Seq(Message)
  <2>1. broadcast[NodeOf[c]].message \in Message
    BY <1>1, <1>2 DEF Hub, BroadcastsOK, Idle
  <2> QED BY <1>1, <2>1, Appended
<1>3. Coming(c) \in Seq(Message)
  BY <1>1, <1>2 DEF Coming
<1> QED BY <1>1, <1>3 DEF View

LEMMA LinesTyped == Hub => Lines \subseteq Seq(Message)
  BY ComingTyped DEF Hub, HubTyped, Lines

LEMMA InLines ==
  /\ \A n \in Node : Hears(n) => channel[n] \in Lines
  /\ \A c \in Peer : Remains(c) => View(c) \in Lines
  BY DEF Lines

LEMMA LinesAfter ==
  ASSUME NEW S,
         \A n \in Node : Hears(n)' => channel'[n] \in S,
         \A c \in Peer : Remains(c)' => View(c)' \in S
  PROVE  Lines' \subseteq S
  BY DEF Lines

(* Nothing new is published: lines stay, end, or lose what was first.      *)
LEMMA LinesKept ==
  ASSUME Hub, LinesOK,
         Lines' \subseteq Lines \cup {Tail(x) : x \in Lines \ {<<>>}},
         \A s \in Peer : peer'[s] # "over" => peer[s] # "over" /\ Number(s)' = Number(s)
  PROVE  LinesOK'
<1>1. \A x \in Lines : x \in Seq(Message)
  BY LinesTyped
<1>2. \A x \in Lines' : x \in Lines \/ \E y \in Lines : y # <<>> /\ x = Tail(y)
  OBVIOUS
<1>3. ASSUME NEW x \in Lines', NEW y \in Lines PROVE SameEnd(x, y)
  <2>1. CASE x \in Lines
    BY <2>1 DEF LinesOK
  <2>2. ASSUME NEW z \in Lines, z # <<>>, x = Tail(z) PROVE SameEnd(x, y)
    <3>1. SameEnd(z, y)
      BY DEF LinesOK
    <3> QED BY <1>1, <2>2, <3>1, SameEndTail
  <2> QED BY <1>2, <2>1, <2>2
<1>4. ASSUME NEW x \in Lines', NEW y \in Lines' PROVE SameEnd(x, y)
  <2>1. CASE y \in Lines
    BY <1>3, <2>1
  <2>2. ASSUME NEW z \in Lines, z # <<>>, y = Tail(z) PROVE SameEnd(x, y)
    <3>1. x \in Seq(Message)
      BY <1>1, <1>2, Rest
    <3>2. SameEnd(z, x)
      BY <1>3, SameEndSwap
    <3>3. SameEnd(y, x)
      BY <1>1, <2>2, <3>1, <3>2, SameEndTail
    <3> QED BY <3>3, SameEndSwap
  <2> QED BY <1>2, <2>1, <2>2
<1>5. ASSUME NEW x \in Lines' PROVE Gapless(x)
  BY <1>1, <1>2, GaplessTail DEF LinesOK
<1>6. ASSUME NEW x \in Lines', NEW s \in Peer, peer'[s] # "over"
      PROVE  Awaits(x, s, Number(s)')
  <2>1. \A y \in Lines : Awaits(y, s, Number(s))
    BY <1>6 DEF LinesOK
  <2>2. Awaits(x, s, Number(s))
    <3> DEFINE k == Number(s)
    <3>1. \A y \in Lines : Awaits(y, s, k)
      BY <2>1
    <3> HIDE DEF k
    <3>2. ASSUME NEW y \in Lines, y # <<>> PROVE Awaits(Tail(y), s, k)
      BY <1>1, <3>1, <3>2, AwaitsTail
    <3>3. Awaits(x, s, k)
      BY <1>2, <3>1, <3>2
    <3> QED BY <3>3 DEF k
  <2> QED BY <1>6, <2>2
<1> QED BY <1>4, <1>5, <1>6 DEF LinesOK

(* A message is published: it is the last of every line.                   *)
LEMMA LinesExtended ==
  ASSUME Hub, LinesOK, NEW s \in Peer, peer[s] = "publishing",
         Lines' \subseteq {Append(x, <<s, said[s]>>) : x \in Lines},
         \A r \in Peer : peer'[r] # "over" =>
           peer[r] # "over" /\ Number(r)' = Number(r) + (IF r = s THEN 1 ELSE 0)
  PROVE  LinesOK'
<1> DEFINE m == <<s, said[s]>>
<1>1. m \in Message /\ m[1] = s /\ m[2] = said[s] /\ said[s] \in Nat
  BY DEF Hub, HubTyped, Message
<1>2. Number(s) = said[s]
  BY DEF Number
<1>3. \A x \in Lines : x \in Seq(Message) /\ Gapless(x) /\ Awaits(x, s, said[s])
  BY <1>2, LinesTyped DEF LinesOK
<1> HIDE DEF m
<1>4. \A x \in Lines' : \E y \in Lines : x = Append(y, m)
  BY DEF m
<1>5. \A x, y \in Lines' : SameEnd(x, y)
  <2> SUFFICES ASSUME NEW x \in Lines', NEW y \in Lines' PROVE SameEnd(x, y)
    OBVIOUS
  <2>1. PICK v \in Lines : x = Append(v, m)
    BY <1>4
  <2>2. PICK w \in Lines : y = Append(w, m)
    BY <1>4
  <2>3. SameEnd(v, w)
    BY DEF LinesOK
  <2> QED BY <1>1, <1>3, <2>1, <2>2, <2>3, SameEndAppend
<1>6. \A x \in Lines' : Gapless(x)
  BY <1>1, <1>3, <1>4, GaplessAppend
<1>7. ASSUME NEW x \in Lines', NEW r \in Peer, peer'[r] # "over"
      PROVE  Awaits(x, r, Number(r)')
  <2>1. PICK y \in Lines : x = Append(y, m)
    BY <1>4
  <2>2. CASE r = s
    <3>1. Number(r)' = m[2] + 1
      BY <1>1, <1>2, <1>7, <2>2
    <3>2. Awaits(x, m[1], m[2] + 1)
      BY <1>1, <1>3, <2>1, AwaitsNext
    <3> QED BY <1>1, <2>2, <3>1, <3>2
  <2>3. CASE r # s
    <3>1. Awaits(y, r, Number(r)) /\ Number(r)' = Number(r)
      BY <1>7, <2>3 DEF LinesOK, Number, Hub, HubTyped
    <3>2. Awaits(x, r, Number(r))
      BY <1>1, <1>3, <2>1, <2>3, <3>1, AwaitsOther
    <3> QED BY <3>1, <3>2
  <2> QED BY <2>2, <2>3
<1> QED BY <1>5, <1>6, <1>7 DEF LinesOK

LEMMA ViewUnchanged ==
  ASSUME NEW c \in Peer, UNCHANGED <<heard, broadcast>>
  PROVE  /\ Coming(c)' = Coming(c)
         /\ channel'[NodeOf[c]] = channel[NodeOf[c]] => View(c)' = View(c)
  BY DEF Coming, View

LEMMA SharedInit == RedisInit /\ BackplaneInit => SharedOK
<1> SUFFICES ASSUME BackplaneInit PROVE SharedOK
  OBVIOUS
<1>1. \A c \in Peer : Coming(c) = <<>> /\ ~Remains(c)
  BY NodesOfPeers DEF BackplaneInit, Coming, Idle, Remains
<1>2. \A x \in Lines : x = <<>>
  BY <1>1 DEF BackplaneInit, Lines
<1>3. SameEnd(<<>>, <<>>)
  BY DEF SameEnd
<1> QED
  BY <1>1, <1>2, <1>3, GaplessEmpty DEF BackplaneInit, SharedOK, LinesOK

LEMMA JoinShared ==
  ASSUME Hub, SharedOK, NEW c \in Peer, Join(c)
  PROVE  SharedOK'
<1>1. /\ peer[c] = "away" /\ peer' = [peer EXCEPT ![c] = "reading"]
      /\ clients' = [clients EXCEPT ![NodeOf[c]] = @ \cup {c}]
      /\ UNCHANGED <<connected, channel, listener, broadcast, said, heard>>
  BY DEF Join, At
<1>2. Coming(c) = <<>>
  BY <1>1, NodesOfPeers DEF Hub, NotYet, Coming
<1>3. \A d \in Peer : Coming(d)' = Coming(d) /\ View(d)' = View(d)
  BY <1>1, ViewUnchanged
<1>4. \A d \in Peer : d # c /\ Remains(d)' => Remains(d)
  BY <1>1, NodesOfPeers DEF Hub, HubTyped, Remains, Hears
<1>5. View(c) = channel[NodeOf[c]]
  BY <1>2, ComingTyped DEF View
<1>6. \A n \in Node : Hears(n)' <=> Hears(n)
  BY <1>1 DEF Hears
<1>7. Lines' \subseteq Lines
  <2>1. ASSUME NEW d \in Peer, Remains(d)' PROVE View(d)' \in Lines
    <3>1. CASE d = c
      BY <1>3, <1>5, <1>6, <2>1, <3>1, InLines, NodesOfPeers DEF Remains
    <3>2. CASE d # c
      BY <1>3, <1>4, <2>1, <3>2, InLines
    <3> QED BY <3>1, <3>2
  <2>2. \A n \in Node : Hears(n)' => channel'[n] \in Lines
    BY <1>1, <1>6, InLines
  <2> QED BY <2>1, <2>2, LinesAfter
<1>8. \A s \in Peer : peer'[s] # "over" => peer[s] # "over" /\ Number(s)' = Number(s)
  BY <1>1 DEF Hub, HubTyped, Number
<1>9. LinesOK'
  BY <1>7, <1>8, LinesKept DEF SharedOK
<1>10. \A s \in Peer : peer'[s] # "broadcasting"
  BY <1>1 DEF Hub, HubTyped, SharedOK
<1> QED BY <1>3, <1>9, <1>10 DEF SharedOK

(* Clients leave, connections break, a message is read, a listener ends.   *)
LEMMA QuietShared ==
  ASSUME Hub, SharedOK,
         UNCHANGED <<broadcast, heard>>,
         \A n \in Node : /\ Hears(n)' => Hears(n) /\ channel'[n] = channel[n]
                         /\ clients'[n] \subseteq clients[n],
         \A s \in Peer : /\ peer'[s] # "over" => peer[s] # "over" /\ Number(s)' = Number(s)
                         /\ peer'[s] # "broadcasting"
  PROVE  SharedOK'
<1>1. \A d \in Peer : Coming(d)' = Coming(d) /\ (channel'[NodeOf[d]] = channel[NodeOf[d]] => View(d)' = View(d))
  BY ViewUnchanged
<1>2. \A d \in Peer : Remains(d)' => Remains(d) /\ View(d)' = View(d)
  BY <1>1, NodesOfPeers DEF Remains
<1>3. Lines' \subseteq Lines
  BY <1>2, InLines, LinesAfter
<1>4. LinesOK'
  BY <1>3, LinesKept DEF SharedOK
<1> QED BY <1>1, <1>4 DEF SharedOK

LEMMA PeerMovesShared ==
  ASSUME Hub, SharedOK, redis_client, NEW c \in Peer, Close(c) \/ Breaks(c) \/ ReadText(c)
  PROVE  SharedOK'
<1>1. UNCHANGED <<broadcast, heard, listener, channel>>
  BY DEF Close, Breaks, ReadText
<1>2. \A n \in Node : clients'[n] \subseteq clients[n]
  <2>1. clients' = clients \/ clients' = [clients EXCEPT ![NodeOf[c]] = @ \ {c}]
    BY DEF Close, Over, Breaks, ReadText
  <2>2. clients \in [Node -> SUBSET Peer]
    BY DEF Hub, HubTyped
  <2> QED BY <2>1, <2>2, NodesOfPeers
<1>3. \A s \in Peer : peer'[s] # "over" => peer[s] # "over" /\ Number(s)' = Number(s)
  <2>1. CASE Close(c) \/ Breaks(c)
    BY <2>1 DEF Hub, HubTyped, Close, Over, At, Breaks, Number
  <2>2. CASE ReadText(c)
    BY <2>2 DEF Hub, HubTyped, ReadText, At, Number
  <2> QED BY <2>1, <2>2
<1>4. \A s \in Peer : peer'[s] # "broadcasting"
  BY DEF Hub, HubTyped, SharedOK, Close, Over, At, Breaks, ReadText
<1>5. \A n \in Node : Hears(n)' => Hears(n) /\ channel'[n] = channel[n]
  BY <1>1 DEF Hears
<1> QED BY <1>1, <1>2, <1>3, <1>4, <1>5, QuietShared

LEMMA ListenFailsShared ==
  ASSUME Hub, SharedOK, NEW n \in Node, ListenFails(n)
  PROVE  SharedOK'
<1>1. /\ UNCHANGED <<broadcast, heard, peer, said, clients>>
      /\ \A m \in Node : Hears(m)' => Hears(m) /\ channel'[m] = channel[m]
  BY DEF Hub, HubTyped, ListenFails, Hears
<1>2. \A s \in Peer : Number(s)' = Number(s)
  BY <1>1 DEF Number
<1>3. \A s \in Peer : peer'[s] # "broadcasting"
  BY <1>1 DEF SharedOK
<1> QED BY <1>1, <1>2, <1>3, QuietShared

LEMMA PublishShared ==
  ASSUME Hub, SharedOK, NEW c \in Peer, Publish(c) \/ PublishFails(c)
  PROVE  SharedOK'
<1>1. /\ peer[c] = "publishing" /\ UNCHANGED <<broadcast, heard, listener, said>>
      /\ peer' = [peer EXCEPT ![c] = "reading"] \/ peer' = [peer EXCEPT ![c] = "over"]
  BY DEF Publish, PublishFails, Over, At
<1>2. \A n \in Node : clients'[n] \subseteq clients[n]
  <2>1. clients' = clients \/ clients' = [clients EXCEPT ![NodeOf[c]] = @ \ {c}]
    BY DEF Publish, PublishFails, Over
  <2>2. clients \in [Node -> SUBSET Peer]
    BY DEF Hub, HubTyped
  <2> QED BY <2>1, <2>2, NodesOfPeers
<1>3. \A s \in Peer : peer'[s] # "broadcasting"
  BY <1>1 DEF Hub, HubTyped, SharedOK
<1>4. \A n \in Node : Hears(n)' <=> Hears(n)
  BY <1>1 DEF Hears
<1>5. CASE UNCHANGED channel /\ peer' = [peer EXCEPT ![c] = "over"]
  <2>1. \A s \in Peer : peer'[s] # "over" => peer[s] # "over" /\ Number(s)' = Number(s)
    BY <1>1, <1>5 DEF Hub, HubTyped, Number
  <2> QED BY <1>1, <1>2, <1>3, <1>4, <1>5, <2>1, QuietShared
<1>6. CASE channel' = [n \in Node |-> IF listener[n] = "ended" THEN channel[n]
                                      ELSE Append(channel[n], <<c, said[c]>>)]
  <2> DEFINE m == <<c, said[c]>>
             After == {Append(x, m) : x \in Lines}
  <2>1. m \in Message
    BY DEF Hub, HubTyped, Message
  <2>2. \A n \in Node : Hears(n) => channel'[n] = Append(channel[n], m)
    BY <1>6 DEF Hears
  <2> HIDE DEF m
  <2>3. ASSUME NEW d \in Peer, Remains(d)' PROVE View(d)' \in After
    <3>1. Remains(d) /\ NodeOf[d] \in Node /\ Hears(NodeOf[d])
      BY <1>2, <1>4, <2>3, NodesOfPeers DEF Remains
    <3>2. Coming(d)' = Coming(d)
      BY <1>1, ViewUnchanged
    <3>3. View(d)' = Coming(d) \o Append(channel[NodeOf[d]], m)
      BY <2>2, <3>1, <3>2 DEF View
    <3>4. View(d)' = Append(View(d), m)
      BY <2>1, <3>3, ComingTyped, Extended DEF View
    <3> QED BY <3>1, <3>4, InLines
  <2>4. \A n \in Node : Hears(n)' => channel'[n] \in After
    BY <1>4, <2>2, InLines
  <2>5. Lines' \subseteq After
    BY <2>3, <2>4, LinesAfter
  <2>6. \A s \in Peer : peer'[s] # "over" =>
          peer[s] # "over" /\ Number(s)' = Number(s) + (IF s = c THEN 1 ELSE 0)
    BY <1>1 DEF Hub, HubTyped, Number
  <2>7. LinesOK'
    BY <1>1, <2>5, <2>6, LinesExtended DEF SharedOK, m
  <2>8. \A d \in Peer : Coming(d)' = Coming(d)
    BY <1>1, ViewUnchanged
  <2> QED BY <1>3, <2>7, <2>8 DEF SharedOK
<1> QED BY <1>5, <1>6 DEF Publish, PublishFails, Over, At

LEMMA ListenShared ==
  ASSUME Hub, SharedOK, NEW n \in Node, Listen(n)
  PROVE  SharedOK'
<1> DEFINE m == Head(channel[n])
<1>1. /\ listener[n] = "listening" /\ channel[n] \in Seq(Message) /\ channel[n] # <<>>
      /\ channel' = [channel EXCEPT ![n] = Tail(@)]
      /\ UNCHANGED <<peer, clients, said>>
  BY DEF Hub, HubTyped, Listen
<1>2. m \in Message
  BY <1>1, Rest
<1>3. broadcast[n].todo = {}
  BY <1>1 DEF Hub, BroadcastsOK, Idle
<1>4. \A k \in Node : /\ Hears(k)' => Hears(k)
                      /\ channel'[k] = IF k = n THEN Tail(channel[n]) ELSE channel[k]
  BY <1>1 DEF Hub, HubTyped, Listen, Hears
<1>5. Hears(n)
  BY <1>1 DEF Hears
<1>6. ASSUME NEW d \in Peer, NodeOf[d] # n
      PROVE  Coming(d)' = Coming(d) /\ View(d)' = View(d)
  <2>1. broadcast'[NodeOf[d]] = broadcast[NodeOf[d]] /\ channel'[NodeOf[d]] = channel[NodeOf[d]]
    BY <1>4, <1>6, NodesOfPeers DEF Hub, HubTyped, Listen
  <2>2. heard'[d] = heard[d]
    BY <1>6 DEF Hub, HubTyped, BroadcastsOK, Listen
  <2> QED BY <2>1, <2>2 DEF Coming, View
<1>7. ASSUME NEW d \in Peer, NodeOf[d] = n
      PROVE  Coming(d)' = IF d \in clients[n] THEN Append(heard[d], m) ELSE heard[d]
  <2>1. CASE clients[n] = {}
    BY <1>3, <1>7, <2>1 DEF Coming, Listen
  <2>2. ASSUME NEW to \in clients[n],
               broadcast' = [broadcast EXCEPT ![n] =
                 [message |-> m, todo |-> clients[n] \ {to}, to |-> {to}]],
               heard' = [heard EXCEPT ![to] = Append(@, m)]
        PROVE  Coming(d)' = IF d \in clients[n] THEN Append(heard[d], m) ELSE heard[d]
    <3>1. broadcast'[n].message = m /\ broadcast'[n].todo = clients[n] \ {to}
      BY <2>2 DEF Hub, HubTyped
    <3>2. heard'[d] = IF d = to THEN Append(heard[d], m) ELSE heard[d]
      BY <2>2 DEF Hub, HubTyped
    <3> QED BY <1>7, <2>2, <3>1, <3>2 DEF Coming
  <2> QED BY <2>1, <2>2 DEF Listen
<1>8. \A d \in Peer : NodeOf[d] = n => Coming(d) = heard[d] /\ heard[d] \in Seq(Message)
  BY <1>3 DEF Coming, Hub, HubTyped
<1>9. \A d \in Peer : Remains(d)' => Remains(d)
  BY <1>1, <1>4, NodesOfPeers DEF Remains
<1> HIDE DEF m
<1>10. ASSUME NEW d \in Peer, NodeOf[d] = n, d \in clients[n]
       PROVE  View(d)' = View(d) /\ Gapless(Coming(d)')
  <2>1. Append(heard[d], m) \o Tail(channel[n]) = heard[d] \o channel[n]
    BY <1>1, <1>8, <1>10, Advanced DEF m
  <2>2. View(d)' = View(d)
    BY <1>4, <1>7, <1>8, <1>10, <2>1 DEF View
  <2>3. Gapless(View(d))
    BY <1>5, <1>10, InLines DEF Remains, SharedOK, LinesOK
  <2>4. Gapless(Append(heard[d], m) \o Tail(channel[n]))
    BY <1>8, <1>10, <2>1, <2>3 DEF View
  <2>5. Append(heard[d], m) \in Seq(Message) /\ Tail(channel[n]) \in Seq(Message)
    BY <1>1, <1>2, <1>8, <1>10, Appended, Rest
  <2>6. Gapless(Append(heard[d], m))
    BY <2>4, <2>5, GaplessPrefix
  <2> QED BY <1>7, <1>10, <2>2, <2>6
<1>11. Lines' \subseteq Lines \cup {Tail(x) : x \in Lines \ {<<>>}}
  <2>1. \A d \in Peer : Remains(d)' => View(d)' \in Lines
    BY <1>6, <1>9, <1>10, InLines DEF Remains
  <2>2. \A k \in Node : Hears(k)' => channel'[k] \in Lines \cup {Tail(x) : x \in Lines \ {<<>>}}
    BY <1>1, <1>4, InLines
  <2> QED BY <2>1, <2>2, LinesAfter
<1>12. \A s \in Peer : peer'[s] # "over" => peer[s] # "over" /\ Number(s)' = Number(s)
  BY <1>1 DEF Number
<1>13. LinesOK'
  BY <1>11, <1>12, LinesKept DEF SharedOK
<1>14. \A d \in Peer : Gapless(Coming(d)')
  BY <1>6, <1>7, <1>8, <1>10 DEF SharedOK
<1> QED BY <1>1, <1>13, <1>14 DEF SharedOK

LEMMA DrainShared ==
  ASSUME Hub, SharedOK, NEW b \in Node \cup Peer, Drain(b)
  PROVE  SharedOK'
<1>1. /\ broadcast[b].to # {}
      /\ UNCHANGED <<channel, said>> /\ \A n \in Node : clients'[n] \subseteq clients[n]
  BY DrainCases
<1>2. b \in Node /\ b \notin Peer
  BY <1>1, NodesOfPeers DEF Hub, BroadcastsOK, SharedOK
<1>3. UNCHANGED peer /\ \A n \in Node : Hears(n)' => Hears(n)
  <2>1. /\ UNCHANGED peer
        /\ UNCHANGED listener \/ listener' = [listener EXCEPT ![b] = "listening"]
    BY <1>2, DrainCases
  <2>2. listener[b] = "broadcasting"
    BY <1>1, <1>2 DEF Hub, BroadcastsOK
  <2>3. listener \in [Node -> {"listening", "broadcasting", "ended"}]
    BY DEF Hub, HubTyped
  <2> QED BY <1>2, <2>1, <2>2, <2>3 DEF Hears
<1>4. ASSUME NEW d \in Peer PROVE Coming(d)' = Coming(d)
  <2>1. NodeOf[d] \in Node
    BY NodesOfPeers
  <2>2. ASSUME NEW c \in broadcast[b].todo,
               broadcast' = [broadcast EXCEPT ![b] =
                 [message |-> broadcast[b].message, todo |-> broadcast[b].todo \ {c}, to |-> {c}]],
               heard' = [heard EXCEPT ![c] = Append(@, broadcast[b].message)]
        PROVE  Coming(d)' = Coming(d)
    <3>1. NodeOf[c] = b /\ c \in Peer
      BY <1>2 DEF Hub, HubTyped, BroadcastsOK, Broadcasts
    <3>2. heard'[d] = IF d = c THEN Append(heard[d], broadcast[b].message) ELSE heard[d]
      BY <2>2, <3>1 DEF Hub, HubTyped
    <3>3. IF NodeOf[d] = b
            THEN /\ broadcast'[NodeOf[d]].message = broadcast[b].message
                 /\ broadcast'[NodeOf[d]].todo = broadcast[b].todo \ {c}
            ELSE broadcast'[NodeOf[d]] = broadcast[NodeOf[d]]
      BY <2>1, <2>2 DEF Hub, HubTyped
    <3> QED BY <2>2, <3>1, <3>2, <3>3 DEF Coming
  <2>3. CASE broadcast[b].todo = {} /\ broadcast' = [broadcast EXCEPT ![b] = Idle] /\ UNCHANGED heard
    <3>1. broadcast'[NodeOf[d]].todo = {} \/ broadcast'[NodeOf[d]] = broadcast[NodeOf[d]]
      BY <2>1, <2>3 DEF Hub, HubTyped, Idle
    <3>2. broadcast'[NodeOf[d]] = broadcast[NodeOf[d]] \/ NodeOf[d] = b
      BY <2>1, <2>3 DEF Hub, HubTyped
    <3> QED BY <2>3, <3>1, <3>2 DEF Coming
  <2> QED BY <2>2, <2>3, DrainCases
<1>5. \A d \in Peer : View(d)' = View(d)
  BY <1>1, <1>4 DEF View
<1>6. \A d \in Peer : Remains(d)' => Remains(d)
  BY <1>1, <1>3, NodesOfPeers DEF Remains
<1>7. Lines' \subseteq Lines
  BY <1>1, <1>3, <1>5, <1>6, InLines, LinesAfter
<1>8. \A s \in Peer : Number(s)' = Number(s)
  BY <1>1, <1>3 DEF Number
<1>9. LinesOK'
  BY <1>3, <1>7, <1>8, LinesKept DEF SharedOK
<1> QED BY <1>3, <1>4, <1>9 DEF SharedOK

LEMMA SharedNext ==
  Hub /\ SharedOK /\ redis_client /\ [BackplaneNext]_<<backplane, redis_client>> => SharedOK'
<1> SUFFICES ASSUME Hub, SharedOK, redis_client, [BackplaneNext]_<<backplane, redis_client>>
             PROVE  SharedOK'
  OBVIOUS
<1>1. CASE UNCHANGED <<backplane, redis_client>>
  <2>1. /\ UNCHANGED <<broadcast, heard, peer>>
        /\ \A n \in Node : /\ Hears(n)' => Hears(n) /\ channel'[n] = channel[n]
                           /\ clients'[n] \subseteq clients[n]
        /\ \A s \in Peer : Number(s)' = Number(s)
    BY <1>1 DEF backplane, Hears, Number
  <2> QED BY <2>1, QuietShared DEF SharedOK
<1> QED
  BY <1>1, JoinShared, PeerMovesShared, PublishShared, ListenShared, ListenFailsShared,
     DrainShared DEF BackplaneNext

-----------------------------------------------------------------------------
HubInv == Hub /\ (redis_client => SharedOK) /\ (~redis_client => LocalOK)

(***************************************************************************)
(* HubInv is an inductive invariant of the backplane.                      *)
(***************************************************************************)
THEOREM BackplaneInvariance == BackplaneSpec => []HubInv
<1>1. RedisInit /\ BackplaneInit => HubInv
  BY HubInit, SharedInit, LocalInit DEF HubInv
<1>2. HubInv /\ [BackplaneNext]_<<backplane, redis_client>> => HubInv'
  <2> SUFFICES ASSUME HubInv, [BackplaneNext]_<<backplane, redis_client>> PROVE HubInv'
    OBVIOUS
  <2>1. redis_client' = redis_client
    BY DEF BackplaneNext, Join, Close, ReadText, Publish, PublishFails, Breaks, Listen,
           ListenFails, Drain, DrainAt, backplane
  <2> QED BY <2>1, HubNext, SharedNext, LocalNext DEF HubInv
<1> QED BY <1>1, <1>2, PTL DEF BackplaneSpec

(***************************************************************************)
(* The hub keeps its types, and its broadcasts belong to a listener that   *)
(* is writing or to a handler that is (websocket.py:26-38, 75-109).        *)
(***************************************************************************)
THEOREM BackplaneTyped == BackplaneSpec => []BackplaneTypeOK
<1>1. HubInv => BackplaneTypeOK
  <2> SUFFICES ASSUME HubInv PROVE BackplaneTypeOK
    OBVIOUS
  <2>1. \A b \in Node \cup Peer : broadcast[b] # Idle <=> broadcast[b].to # {}
    BY DEF HubInv, Hub, BroadcastsOK, Idle
  <2> QED BY <2>1 DEF HubInv, Hub, HubTyped, BroadcastsOK, BackplaneTypeOK
<1> QED BY <1>1, BackplaneInvariance, PTL

(***************************************************************************)
(* Of every sender every client hears the messages in order, each once and *)
(* without a gap, in both modes and for any number of nodes, clients and   *)
(* messages (websocket.py:96-109).                                         *)
(***************************************************************************)
THEOREM SendersInOrder == BackplaneSpec => []SenderOrder
<1>1. HubInv => SenderOrder
  <2> SUFFICES ASSUME HubInv, NEW c \in Peer PROVE Gapless(heard[c])
    BY DEF SenderOrder, Gapless
  <2>1. CASE redis_client
    <3>1. Gapless(Coming(c)) /\ heard[c] \in Seq(Message)
      BY <2>1 DEF HubInv, SharedOK, Hub, HubTyped
    <3>2. ASSUME c \in broadcast[NodeOf[c]].todo
          PROVE  /\ broadcast[NodeOf[c]].message \in Message
                 /\ Coming(c) = heard[c] \o <<broadcast[NodeOf[c]].message>>
      <4>1. broadcast[NodeOf[c]].message \in Message
        BY <3>2, NodesOfPeers DEF HubInv, Hub, BroadcastsOK, Idle
      <4> QED BY <3>1, <3>2, <4>1 DEF Coming
    <3>3. CASE c \in broadcast[NodeOf[c]].todo
      <4> DEFINE last == <<broadcast[NodeOf[c]].message>>
      <4>1. broadcast[NodeOf[c]].message \in Message
        BY <3>2, <3>3
      <4>2. Coming(c) = heard[c] \o last
        BY <3>2, <3>3
      <4>3. last \in Seq(Message)
        BY <4>1
      <4> HIDE DEF last
      <4>4. Gapless(heard[c] \o last)
        BY <3>1, <4>2
      <4> QED BY <3>1, <4>3, <4>4, GaplessPrefix
    <3>4. CASE c \notin broadcast[NodeOf[c]].todo
      BY <3>1, <3>4 DEF Coming
    <3> QED BY <3>3, <3>4
  <2>2. CASE ~redis_client
    BY <2>2 DEF HubInv, LocalOK
  <2> QED BY <2>1, <2>2
<1> QED BY <1>1, BackplaneInvariance, PTL

(***************************************************************************)
(* With Redis the whole cluster has one conversation: what any two clients *)
(* have heard that are there when nothing is on its way differs only in    *)
(* how early they came (README.md:105, websocket.py:26-38).                *)
(***************************************************************************)
THEOREM ClusterAgrees == BackplaneSpec => []OneConversation
<1>1. HubInv => OneConversation
  <2> SUFFICES ASSUME HubInv, redis_client, AtRest,
                      NEW c \in connected \cap UNION {clients[n] : n \in Node},
                      NEW d \in connected \cap UNION {clients[n] : n \in Node}
               PROVE  IsSuffix(heard[c], heard[d]) \/ IsSuffix(heard[d], heard[c])
    BY DEF OneConversation
  <2>1. ASSUME NEW e \in connected \cap UNION {clients[n] : n \in Node}
        PROVE  heard[e] \in Lines /\ heard[e] \in Seq(Message)
    <3>1. PICK n \in Node : e \in clients[n]
      BY <2>1
    <3>2. e \in Peer /\ NodeOf[e] = n /\ heard[e] \in Seq(Message)
      BY <2>1, <3>1 DEF HubInv, Hub, HubTyped, BroadcastsOK
    <3>3. listener[n] = "listening" /\ channel[n] = <<>>
      BY <3>1 DEF AtRest
    <3>4. broadcast[n].todo = {}
      BY <3>3 DEF HubInv, Hub, BroadcastsOK, Idle
    <3>5. View(e) = heard[e]
      BY <3>2, <3>3, <3>4 DEF View, Coming
    <3>6. Remains(e)
      BY <3>1, <3>2, <3>3 DEF Remains, Hears
    <3> QED BY <3>2, <3>5, <3>6, InLines
  <2>2. SameEnd(heard[c], heard[d])
    BY <2>1 DEF HubInv, SharedOK, LinesOK
  <2> QED BY <2>1, <2>2, SameEndIsSuffix
<1> QED BY <1>1, BackplaneInvariance, PTL
=============================================================================

--------------------------- MODULE LeaderElection ---------------------------
(***************************************************************************)
(* HAClusterManager (ha.py): the nodes of a cluster elect the one that     *)
(* serves requests by a key in Redis that expires.  Each node repeats a    *)
(* round of calls and sleeps.  A call is two steps, since what Redis does  *)
(* and what the coroutine learns of it are apart: Redis executes it, and   *)
(* the coroutine resumes with the reply, or with an exception.             *)
(***************************************************************************)
EXTENDS Integers, Redis

CONSTANTS
  Nobody,      \* a holder of the lock that no running node is
  Lease,       \* `ex' of the lock, and what EXPIRE sets
  Pause,       \* the sleep after a round
  Round,       \* what the calls of a round take when nothing is wrong
  MaxFaults    \* bound: crashes, exceptions and overdue nodes

ASSUME ElectionAssumption ==
  /\ Nobody \notin Node
  /\ Lease \in Nat /\ Pause \in Nat /\ Round \in Nat /\ MaxFaults \in Nat
  /\ Pause + 2 * Round < Lease

VARIABLES
  call,        \* what a node waits for: a call of redis_client, its sleep; or "down"
  reply,       \* what Redis has answered to the call, or "none"
  timer,       \* what is left of the time of the round, or of the sleep
  is_leader,   \* HAClusterManager.is_leader
  holder,      \* the node_id in the lock, and
  ttl,         \* how long it lasts, 0 when there is no lock
  disturbed,   \* history: the nodes of which something went wrong since Redis
               \* last set or extended their lock, or told them it is another's
  vacant,      \* history: time without a leader (or an Unaware one, below)
               \* since the last fault
  faults       \* history: the number of faults

election == <<call, reply, timer, is_leader, holder, ttl, disturbed, vacant, faults>>
electionVars == <<election, redis_client>>

Calls == {"set", "get", "expire"}
Up == {n \in Node : call[n] # "down"}
HasLeader == \E n \in Up : is_leader[n]

(* start: without Redis every node leads, and there is no loop.            *)
ElectionInit ==
  /\ call  = [n \in Node |-> IF redis_client THEN "set" ELSE "idle"]
  /\ reply = [n \in Node |-> "none"]
  /\ timer = [n \in Node |-> Round]
  /\ is_leader = [n \in Node |-> ~redis_client]
  /\ holder = Nobody /\ ttl = 0
  /\ disturbed = {} /\ vacant = 0 /\ faults = 0

Executes(n, what, answer) ==
  /\ call[n] = what /\ reply[n] = "none"
  /\ reply' = [reply EXCEPT ![n] = IF answer THEN "yes" ELSE "no"]
  /\ UNCHANGED <<call, timer, is_leader, vacant, faults, redis_client>>

(* The lock is free, and the node gets it.                                 *)
RedisSets(n) ==
  /\ ttl = 0
  /\ Executes(n, "set", TRUE)
  /\ holder' = n /\ ttl' = Lease /\ disturbed' = disturbed \ {n}

RedisKeeps(n) ==
  /\ ttl # 0
  /\ Executes(n, "set", FALSE)
  /\ UNCHANGED <<holder, ttl, disturbed>>

(* The reply is whether the lock is there and the caller's own.            *)
RedisGets(n) ==
  /\ Executes(n, "get", holder = n)
  /\ UNCHANGED <<holder, ttl, disturbed>>

(* EXPIRE extends whatever lock there is.                                  *)
RedisExpires(n) ==
  /\ Executes(n, "expire", ttl # 0)
  /\ ttl' = IF ttl # 0 THEN Lease ELSE 0
  /\ disturbed' = IF holder = n THEN disturbed \ {n} ELSE disturbed
  /\ UNCHANGED holder

Goes(n, what, time) ==
  /\ call' = [call EXCEPT ![n] = what]
  /\ reply' = [reply EXCEPT ![n] = "none"]
  /\ timer' = [timer EXCEPT ![n] = time]

(* Mutations of Acquired and Compared: the leader does not renew; whoever  *)
(* finds a lock takes it for its own.                                      *)
AcquiredOnce(n) ==
  /\ call[n] = "set" /\ reply[n] # "none"
  /\ IF reply[n] = "yes" \/ is_leader[n]
       THEN is_leader' = [is_leader EXCEPT ![n] = TRUE] /\ Goes(n, "sleep", Pause)
       ELSE UNCHANGED is_leader /\ Goes(n, "get", timer[n])
  /\ UNCHANGED <<holder, ttl, disturbed, vacant, faults, redis_client>>

ComparedNever(n) ==
  /\ call[n] = "get" /\ reply[n] # "none"
  /\ UNCHANGED is_leader /\ Goes(n, "expire", timer[n]) /\ UNCHANGED disturbed
  /\ UNCHANGED <<holder, ttl, vacant, faults, redis_client>>

(* The loop goes on with the reply to SET.                                 *)
Acquired(n) ==
  /\ call[n] = "set" /\ reply[n] # "none"
  /\ IF reply[n] = "yes"
       THEN is_leader' = [is_leader EXCEPT ![n] = TRUE] /\ Goes(n, "sleep", Pause)
       ELSE UNCHANGED is_leader /\ Goes(n, "get", timer[n])
  /\ UNCHANGED <<holder, ttl, disturbed, vacant, faults, redis_client>>

(* The loop goes on with the reply to GET.                                 *)
Compared(n) ==
  /\ call[n] = "get" /\ reply[n] # "none"
  /\ IF reply[n] = "yes"
       THEN UNCHANGED is_leader /\ Goes(n, "expire", timer[n]) /\ UNCHANGED disturbed
       ELSE /\ is_leader' = [is_leader EXCEPT ![n] = FALSE]
            /\ Goes(n, "sleep", Pause)
            /\ disturbed' = disturbed \ {n}
  /\ UNCHANGED <<holder, ttl, vacant, faults, redis_client>>

(* The lock is renewed: what EXPIRE answered is not looked at.             *)
Renewed(n) ==
  /\ call[n] = "expire" /\ reply[n] # "none"
  /\ Goes(n, "sleep", Pause)
  /\ UNCHANGED <<is_leader, holder, ttl, disturbed, vacant, faults, redis_client>>

Wake(n) ==
  /\ call[n] = "sleep" /\ timer[n] = 0
  /\ Goes(n, "set", Round)
  /\ UNCHANGED <<is_leader, holder, ttl, disturbed, vacant, faults, redis_client>>

-----------------------------------------------------------------------------
Faulty(n) ==
  /\ faults < MaxFaults
  /\ faults' = faults + 1 /\ vacant' = 0
  /\ UNCHANGED redis_client

(* The call ends with an exception, whether Redis has executed it or not.  *)
Fail(n) ==
  /\ call[n] \in Calls
  /\ Faulty(n)
  /\ Goes(n, "sleep", Pause)
  /\ disturbed' = disturbed \cup {n}
  /\ UNCHANGED <<is_leader, holder, ttl>>

(* The process ends.  The lock stays behind with an id nobody has again.   *)
Crash(n) ==
  /\ call[n] \in Calls \cup {"sleep"}
  /\ Faulty(n)
  /\ Goes(n, "down", 0)
  /\ is_leader' = [is_leader EXCEPT ![n] = FALSE]
  /\ holder' = IF holder = n THEN Nobody ELSE holder
  /\ disturbed' = disturbed \ {n}
  /\ UNCHANGED ttl

Restart(n) ==
  /\ call[n] = "down"
  /\ Goes(n, "set", Round)
  /\ UNCHANGED <<is_leader, holder, ttl, disturbed, vacant, faults, redis_client>>

(* A node that holds the lock and does not know: the reply to its SET was  *)
(* lost, and the GET of the next round finds the lock its own.             *)
Unaware(n) == holder = n /\ ~is_leader[n] /\ ~(call[n] = "set" /\ reply[n] = "yes")

(* Time passes.  A node whose timer has run out has calls that take longer *)
(* than they should, or an event loop that is held up.                     *)
Overdue == {n \in Up : timer[n] = 0}

ElectionTick ==
  /\ redis_client
  /\ Overdue # {} => faults < MaxFaults
  /\ faults' = IF Overdue # {} THEN faults + 1 ELSE faults
  /\ disturbed' = disturbed \cup Overdue
  /\ timer' = [n \in Node |-> IF timer[n] > 0 THEN timer[n] - 1 ELSE 0]
  /\ ttl' = IF ttl > 0 THEN ttl - 1 ELSE 0
  /\ holder' = IF ttl > 1 THEN holder ELSE Nobody
  /\ vacant' = IF HasLeader \/ Up = {} \/ Overdue # {} \/ \E n \in Node : Unaware(n)
                 THEN 0 ELSE vacant + 1
  /\ UNCHANGED <<call, reply, is_leader, redis_client>>

Serves(n) == RedisSets(n) \/ RedisKeeps(n) \/ RedisGets(n) \/ RedisExpires(n)
Resumes(n) == Acquired(n) \/ Compared(n) \/ Renewed(n) \/ Wake(n)

ElectionNext ==
  \/ \E n \in Node : Serves(n) \/ Resumes(n) \/ Fail(n) \/ Crash(n) \/ Restart(n)
  \/ ElectionTick

ElectionSpec == RedisInit /\ ElectionInit /\ [][ElectionNext]_electionVars

(* Redis answers, the loop runs, time passes; nobody restarts a node.      *)
ElectionFairness ==
  /\ \A n \in Node : WF_electionVars(Serves(n)) /\ WF_electionVars(Resumes(n))
  /\ WF_electionVars(ElectionTick)

FairElection == ElectionSpec /\ ElectionFairness

-----------------------------------------------------------------------------
InTime(what, time) ==
  /\ what = "sleep" => time <= Pause
  /\ what # "sleep" => time <= Round

LockOK ==
  /\ call \in [Node -> Calls \cup {"sleep", "down", "idle"}]
  /\ reply \in [Node -> {"none", "yes", "no"}]
  /\ timer \in [Node -> Nat]
  /\ \A n \in Node : InTime(call[n], timer[n])
  /\ holder \in Node \cup {Nobody} /\ ttl \in 0 .. Lease
  /\ disturbed \in SUBSET Node
  /\ vacant \in Nat /\ faults \in 0 .. MaxFaults

ElectionTypeOK ==
  /\ redis_client \in BOOLEAN
  /\ is_leader \in [Node -> BOOLEAN]
  /\ LockOK

(***************************************************************************)
(* Active/passive (USER_MANUAL.md:117-118, ha.py:25-51): with Redis, of the*)
(* nodes that nothing has disturbed since Redis last renewed their lock or *)
(* turned them down, at most one is the leader, although each of them goes *)
(* by what it was told a whole sleep and two rounds of calls ago.          *)
(***************************************************************************)
AtMostOneLeader ==
  redis_client =>
    \A m, n \in Up \ disturbed : is_leader[m] /\ is_leader[n] => m = n

(***************************************************************************)
(* Takeover (README.md:110): while a node is up and none is Unaware, the   *)
(* cluster is without a leader no longer after a crash or any other fault  *)
(* than the lease lasts, plus a sleep and four rounds of calls: the one in *)
(* which an EXPIRE that was on its way gives the lease of a crashed node   *)
(* another term, the two around the sleep of a node that has just found    *)
(* the lock taken, and that of a node which starts and gets ahead of it.   *)
(***************************************************************************)
VacancyBounded == vacant <= Lease + Pause + 4 * Round

(***************************************************************************)
(* What README.md:110 and USER_MANUAL.md:118 promise without condition: as *)
(* long as a node is up, one is promoted.                                  *)
(***************************************************************************)
LeaderInTheEnd == (Up # {} /\ ~HasLeader) ~> (Up = {} \/ HasLeader)
=============================================================================

------------------------------ MODULE Admission ------------------------------
(***************************************************************************)
(* Who gets past the list of blocked addresses: the first steps of         *)
(* handle_client (proxy.py), which ask GeoIPResolver (geoip.py) for the    *)
(* country and await Redis and an external service before they look at the *)
(* list, the admin server (admin.py), which awaits the body of a request   *)
(* before it edits the list, and the reload, which replaces the list.      *)
(***************************************************************************)
EXTENDS Integers, Sequences, SequencesExt, Redis

CONSTANTS
  Ip,           \* addresses of clients
  Visitor,      \* connections: triples <<node, address, number>>
  Command,      \* admin requests: triples <<node, "block" or "unblock", address>>
  Located,      \* Located[ip]: the country the service knows for it
  Unknown,      \* "UNKNOWN", and an address that is in no cache
  Files,        \* the lists blocked_ips of the configuration files
  MaxCommands,  \* bound: admin requests
  MaxReplaced   \* bound: reloads of the file

ASSUME AdmissionAssumption ==
  /\ Visitor \subseteq Node \X Ip \X Nat
  /\ Command \subseteq Node \X {"block", "unblock"} \X Ip
  /\ MaxCommands \in Nat /\ MaxReplaced \in Nat
  /\ \A file \in Files : file \in Seq(Ip) /\ IsInjective(file)   \* no address twice

VARIABLES
  visit,         \* the stage of a connection: "away", "redis", "service",
                 \* "saving", "admitted", "dropped"
  country,       \* the country found for it, or Unknown
  local_cache,   \* GeoIPResolver.local_cache of each node, Unknown or "" in it
  geoip,         \* the keys geoip:<ip> in Redis
  receiving,     \* the admin requests whose body is awaited
  blocked_ips,   \* config.blocked_ips of each node
  answer,        \* history: the last command about an address that a node has
                 \* answered since its list was read from the file, or "none"
  under,         \* history: of each connection under way the answer it came after,
                 \* "none" when another command or a reload has come since
  commands,      \* history: the number of admin requests
  replaced       \* history: the number of reloads

admission == <<visit, country, local_cache, geoip, receiving, blocked_ips,
               answer, under, commands, replaced>>

NotCached == "not cached"

AdmissionInit ==
  /\ visit = [v \in Visitor |-> "away"]
  /\ country = [v \in Visitor |-> NotCached]
  /\ local_cache = [n \in Node |-> [ip \in Ip |-> NotCached]]
  /\ geoip = [ip \in Ip |-> NotCached]
  /\ receiving = {}
  /\ \E file \in Files : blocked_ips = [n \in Node |-> file]
  /\ answer = [n \in Node |-> [ip \in Ip |-> "none"]]
  /\ under = [v \in Visitor |-> "none"]
  /\ commands = 0 /\ replaced = 0

Visiting(v, stage) == visit' = [visit EXCEPT ![v] = stage]

(* The country is known: the list in force now decides.                    *)
Decide(v, found) ==
  /\ country' = [country EXCEPT ![v] = found]
  /\ Visiting(v, IF Contains(blocked_ips[v[1]], v[2]) THEN "dropped" ELSE "admitted")

(* A mutation of Arrive: the cache of the process is not asked.            *)
ArriveAsking(v) ==
  /\ visit[v] = "away"
  /\ under' = [under EXCEPT ![v] = answer[v[1]][v[2]]]
  /\ Visiting(v, IF redis_client THEN "redis" ELSE "service")
  /\ UNCHANGED <<country, local_cache, geoip, receiving, blocked_ips, answer, commands,
                 replaced, redis_client>>

(* A connection is accepted: the country is in the cache of the process,   *)
(* or has to be asked for.                                                 *)
Arrive(v) ==
  /\ visit[v] = "away"
  /\ under' = [under EXCEPT ![v] = answer[v[1]][v[2]]]
  /\ IF local_cache[v[1]][v[2]] # NotCached
       THEN Decide(v, local_cache[v[1]][v[2]])
       ELSE /\ Visiting(v, IF redis_client THEN "redis" ELSE "service")
            /\ UNCHANGED country
  /\ UNCHANGED <<local_cache, geoip, receiving, blocked_ips, answer, commands, replaced,
                 redis_client>>

Cached(v, found) == local_cache' = [local_cache EXCEPT ![v[1]][v[2]] = found]

(* GET returns the key and it is cached here too, or there is no key, or   *)
(* Redis fails.                                                            *)
AskRedis(v) ==
  /\ visit[v] = "redis"
  /\ \/ /\ geoip[v[2]] # NotCached
        /\ Cached(v, geoip[v[2]])
        /\ Decide(v, geoip[v[2]])
     \/ /\ Visiting(v, "service")
        /\ UNCHANGED <<local_cache, country>>
  /\ UNCHANGED <<geoip, receiving, blocked_ips, answer, under, commands, replaced, redis_client>>

(* The service answers or fails, and what came of it is cached.            *)
AskService(v) ==
  /\ visit[v] = "service"
  /\ \E found \in {Located[v[2]], Unknown} :
       /\ Cached(v, found)
       /\ IF redis_client
            THEN Visiting(v, "saving") /\ country' = [country EXCEPT ![v] = found]
            ELSE Decide(v, found)
  /\ UNCHANGED <<geoip, receiving, blocked_ips, answer, under, commands, replaced, redis_client>>

(* SETEX is executed or not, and an exception is ignored.                  *)
SaveCountry(v) ==
  /\ visit[v] = "saving"
  /\ geoip' = [geoip EXCEPT ![v[2]] = country[v]] \/ UNCHANGED geoip
  /\ Decide(v, country[v])
  /\ UNCHANGED <<local_cache, receiving, blocked_ips, answer, under, commands, replaced,
                 redis_client>>

(* The day of a key in Redis is over.                                      *)
CountryExpires(ip) ==
  /\ geoip[ip] # NotCached
  /\ geoip' = [geoip EXCEPT ![ip] = NotCached]
  /\ UNCHANGED <<visit, country, local_cache, receiving, blocked_ips, answer, under, commands,
                 replaced, redis_client>>

-----------------------------------------------------------------------------
(* An admin request, up to the await of its body.                          *)
Receive(a) ==
  /\ commands < MaxCommands /\ commands' = commands + 1
  /\ a \notin receiving
  /\ receiving' = receiving \cup {a}
  /\ UNCHANGED <<visit, country, local_cache, geoip, blocked_ips, answer, under, replaced,
                 redis_client>>

(* The connections that came to the node n after an answer which something *)
(* has since come after.                                                   *)
Outdate(n, addresses) ==
  under' = [v \in Visitor |-> IF v[1] = n /\ v[2] \in addresses THEN "none" ELSE under[v]]

(* A mutation of Edited: an address is added again.                        *)
EditedTwice(list, what, ip) ==
  IF what = "block" THEN Append(list, ip)
  ELSE IF Contains(list, ip) THEN RemoveFirst(list, ip) ELSE list

Edited(list, what, ip) ==
  IF what = "block" THEN (IF Contains(list, ip) THEN list ELSE Append(list, ip))
  ELSE IF Contains(list, ip) THEN RemoveFirst(list, ip) ELSE list

(* The body has come: the list is edited and the request answered.         *)
Execute(a) ==
  LET n == a[1]  ip == a[3]
  IN  /\ a \in receiving
      /\ receiving' = receiving \ {a}
      /\ blocked_ips' = [blocked_ips EXCEPT ![n] = Edited(@, a[2], ip)]
      /\ answer' = [answer EXCEPT ![n][ip] = a[2]]
      /\ Outdate(n, IF answer[n][ip] = a[2] THEN {} ELSE {ip})
      /\ UNCHANGED <<visit, country, local_cache, geoip, commands, replaced, redis_client>>

(* The body names no address, is not JSON or does not come.                *)
Refuse(a) ==
  /\ a \in receiving
  /\ receiving' = receiving \ {a}
  /\ UNCHANGED <<visit, country, local_cache, geoip, blocked_ips, answer, under, commands,
                 replaced, redis_client>>

(* The file is loaded again; discovery keeps the list, with the object.    *)
Replace(n, file) ==
  /\ replaced < MaxReplaced /\ replaced' = replaced + 1
  /\ blocked_ips' = [blocked_ips EXCEPT ![n] = file]
  /\ answer' = [answer EXCEPT ![n] = [ip \in Ip |-> "none"]]
  /\ Outdate(n, Ip)
  /\ UNCHANGED <<visit, country, local_cache, geoip, receiving, commands, redis_client>>

AdmissionNext ==
  \/ \E v \in Visitor : Arrive(v) \/ AskRedis(v) \/ AskService(v) \/ SaveCountry(v)
  \/ \E ip \in Ip : CountryExpires(ip)
  \/ \E a \in Command : Receive(a) \/ Execute(a) \/ Refuse(a)
  \/ \E n \in Node, file \in Files : Replace(n, file)

AdmissionSpec == RedisInit /\ AdmissionInit /\ [][AdmissionNext]_<<admission, redis_client>>

-----------------------------------------------------------------------------
Codes == {Located[ip] : ip \in Ip} \cup {Unknown, NotCached}

AdmissionTypeOK ==
  /\ visit \in [Visitor -> {"away", "redis", "service", "saving", "admitted", "dropped"}]
  /\ country \in [Visitor -> Codes]
  /\ local_cache \in [Node -> [Ip -> Codes]] /\ geoip \in [Ip -> Codes]
  /\ receiving \subseteq Command
  /\ \A n \in Node : blocked_ips[n] \in Seq(Ip)
  /\ answer \in [Node -> [Ip -> {"none", "block", "unblock"}]]
  /\ under \in [Visitor -> {"none", "block", "unblock"}]

(***************************************************************************)
(* What the admin server has answered holds (admin.py:98-113): while no    *)
(* reload of the file and no command to the contrary comes between, who    *)
(* connects after an answered block is dropped, and who connects after an  *)
(* answered unblock is admitted, however often the address was blocked     *)
(* before and however long the look-up of its country takes.               *)
(***************************************************************************)
AnswersHold ==
  \A v \in Visitor :
    /\ visit[v] = "admitted" => under[v] # "block"
    /\ visit[v] = "dropped" => under[v] # "unblock"

InLookup(v) == visit[v] \in {"redis", "service", "saving"}

Settled(n, ip, code) ==
  /\ local_cache[n][ip] = code /\ code # NotCached
  /\ \A v \in Visitor : v[1] = n /\ v[2] = ip => ~InLookup(v)

(***************************************************************************)
(* The country of an address settles (geoip.py:32-59): once a process has  *)
(* cached it and the look-ups that overlapped are over, it stays what it   *)
(* is, Unknown included, and nothing is looked up any more, also when the  *)
(* key in Redis expires or another process finds another answer.           *)
(***************************************************************************)
CountrySettled ==
  [][\A n \in Node, ip \in Ip, code \in Codes :
       Settled(n, ip, code) => Settled(n, ip, code)']_<<admission, redis_client>>
=============================================================================

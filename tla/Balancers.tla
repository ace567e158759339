----------------------------- MODULE Balancers -----------------------------
(* The choice of an upstream server: round robin with weights, failures and *)
(* backup servers, least connections, ip_hash, hash, consistent hash, and   *)
(* the cache of idle connections in front of them                           *)
(* (http/ngx_http_upstream_round_robin.c,                                   *)
(* http/modules/ngx_http_upstream_{least_conn,ip_hash,hash,keepalive}       *)
(* _module.c).  A call of get() or free() holds the lock of the peers and   *)
(* is one step; the clock moves between steps.                              *)
(*                                                                          *)
(* crc32 and the hash of addresses are stood in for by Slot(); peers are    *)
(* <<group, index>>, group 2 the backup servers.                            *)
EXTENDS Integers, Sequences, FiniteSets, SequencesExt, FiniteSetsExt

CONSTANTS
  Confs,                  \* configurations: [method, servers, points, cached]
                          \* and faults, the bound on failures
  Reqs, Key(_),           \* requests, and the number that their keys hash to
  MaxTries,               \* 20: rehashes before round robin decides
  MaxTime

VARIABLES conf, peers, r, ka

vars == <<conf, peers, r, ka>>

Null == <<0, 0>>
Sum(f(_), S) == MapThenSumSet(f, S)

-----------------------------------------------------------------------------
(* ngx_http_upstream_init_round_robin(): the peers of a group, one for each *)
(* address of each server                                                   *)
PeersOf(servers, backup) ==
  FoldLeft(LAMBDA acc, sv : IF sv.backup # backup THEN acc
                            ELSE acc \o [k \in 1..sv.naddrs |->
                                   [server |-> sv.name, weight |-> sv.weight, ew |-> sv.weight, cw |-> 0, conns |-> 0, fails |-> 0,
                                    accessed |-> 0, checked |-> 0, max_fails |-> sv.max_fails, fail_timeout |-> 1,
                                    down |-> sv.down]],
           <<>>, servers)

Single(g) == g = 1 /\ Len(peers[1]) = 1 /\ peers[2] = <<>>
TotalWeight(ps) == Sum(LAMBDA i : ps[i].weight, DOMAIN ps)

(* ngx_http_upstream_init_chash(): sorted, and without equal points *)
Points(c) ==
  LET sorted == SetToSortSeq(ToSet(c.points), LAMBDA a, b : a[1] < b[1] \/ (a[1] = b[1] /\ a[2] < b[2]))
  IN SelectSeq(sorted, LAMBDA p : ~\E k \in DOMAIN sorted : sorted[k][1] = p[1] /\ sorted[k][2] < p[2])

(* ngx_http_upstream_find_chash_point(): binary search *)
FindPoint(ps, hash) ==
  LET f[i \in 0..Len(ps), j \in 0..Len(ps)] ==
        LET k == (i + j) \div 2
        IN IF i >= j THEN i
           ELSE IF hash > ps[k + 1][1] THEN f[k + 1, j]
           ELSE IF hash < ps[k + 1][1] THEN f[i, k]
           ELSE k
  IN f[0, Len(ps)]

Fresh(q) == [grp |-> 1, tried |-> {}, current |-> Null, state |-> "idle", tries |-> 0, left |-> 0, hash |-> 0,
             refused |-> FALSE]

Init ==
  /\ conf \in {[c EXCEPT !.points = Points(c)] : c \in Confs}
  /\ peers = <<PeersOf(conf.servers, FALSE), PeersOf(conf.servers, TRUE)>>
  /\ r = [q \in Reqs |-> Fresh(q)]
  /\ ka = [cache |-> <<>>, now |-> 2, failures |-> 0, smooth |-> TRUE]      \* smooth, failures: history

(* ngx_http_upstream_init_round_robin_peer(), ..._init_hash_peer(),         *)
(* ..._init_chash_peer(): a request                                         *)
InitPeer(q) ==
  /\ r[q].state = "idle"
  /\ r' = [r EXCEPT ![q] = [Fresh(q) EXCEPT !.state = "get", !.left = Len(peers[1]) + Len(peers[2]),
                                            !.hash = IF conf.method = "chash" THEN FindPoint(conf.points, Key(q)) ELSE 0]]
  /\ UNCHANGED <<conf, peers, ka>>

-----------------------------------------------------------------------------
(* whether a peer may be used *)
Blown(p) == p.max_fails > 0 /\ p.fails >= p.max_fails /\ ka.now - p.checked <= p.fail_timeout
Usable(g, tried) == {i \in DOMAIN peers[g] : i \notin tried /\ ~peers[g][i].down /\ ~Blown(peers[g][i])}

(* the rounds of smooth weighted round robin over the peers S: everybody    *)
(* gains its weight, the first with the most pays for all                   *)
Weighed(ps, S) ==
  [i \in DOMAIN ps |-> IF i \notin S THEN ps[i]
                       ELSE [ps[i] EXCEPT !.cw = @ + ps[i].ew, !.ew = IF @ < ps[i].weight THEN @ + 1 ELSE @]]
Heaviest(ps, S) == CHOOSE i \in S : \A j \in S : ps[i].cw > ps[j].cw \/ (ps[i].cw = ps[j].cw /\ i <= j)

Total(ps, S) == Sum(LAMBDA j : ps[j].ew, S)

RoundRobin(ps, S) ==
  LET after == Weighed(ps, S)
      i == Heaviest(after, S)
  IN <<[after EXCEPT ![i].cw = @ - Total(ps, S)], i>>

(* checked moves with the first request after the timeout, which probes *)
Checked(p) == IF ka.now - p.checked > p.fail_timeout THEN [p EXCEPT !.checked = ka.now] ELSE p
Used(ps, i) == [ps EXCEPT ![i] = [Checked(@) EXCEPT !.conns = @ + 1]]

(* ngx_http_upstream_get_least_conn_peer(): among equals, round robin from  *)
(* the first of them; a peer alone pays nothing                             *)
LeastConn(ps, S) ==
  LET less(i, j) == ps[i].conns * ps[j].weight < ps[j].conns * ps[i].weight
      best == CHOOSE i \in S : \A j \in S : ~less(j, i) /\ (j < i => less(i, j))
      equal == {j \in S : ps[j].conns * ps[best].weight = ps[best].conns * ps[j].weight}
  IN IF equal = {best} THEN <<ps, best>> ELSE RoundRobin(ps, equal)

(* ngx_http_upstream_get_round_robin_peer(), ..._get_least_conn_peer():     *)
(* the backup servers when no other is left; if they are all busy too,      *)
(* everybody gets another chance                                            *)
Chosen(q, g, pick, tries, hash) ==
  /\ peers' = [peers EXCEPT ![g] = Used(pick[1], pick[2])]
  /\ r' = [r EXCEPT ![q].grp = g, ![q].current = <<g, pick[2]>>, ![q].state = "got", ![q].tries = tries, ![q].hash = hash,
                    ![q].tried = (IF g = r[q].grp THEN @ ELSE {}) \cup {pick[2]}]

Forgiven(ps) == [i \in DOMAIN ps |-> [ps[i] EXCEPT !.fails = 0]]

Busy(q) ==
  /\ peers' = IF r[q].grp = 1 THEN <<Forgiven(peers[1]), Forgiven(peers[2])>> ELSE [peers EXCEPT ![2] = Forgiven(@)]
  /\ r' = [r EXCEPT ![q] = [Fresh(q) EXCEPT !.refused =
                      (Usable(1, r[q].tried) # {} /\ r[q].grp = 1) \/ (Usable(2, IF r[q].grp = 2 THEN r[q].tried ELSE {}) # {})]]

GetRoundRobin(q, tries, hash) ==
  LET Select(ps, S) == IF conf.method = "least_conn" THEN LeastConn(ps, S) ELSE RoundRobin(ps, S)
      g == r[q].grp
      S == Usable(g, r[q].tried)
      B == Usable(2, {})
  IN IF Single(g)
     THEN IF peers[1][1].down THEN Busy(q)
          ELSE /\ peers' = [peers EXCEPT ![1][1].conns = @ + 1]
               /\ r' = [r EXCEPT ![q].current = <<1, 1>>, ![q].state = "got", ![q].tries = tries]
     ELSE IF S # {} THEN Chosen(q, g, Select(peers[g], S), tries, hash)
     ELSE IF g = 1 /\ B # {} THEN Chosen(q, 2, Select(peers[2], B), tries, hash)
     ELSE Busy(q)

(* the peer on which the n-th hash of the key falls, by weight *)
Slot(q, n, ps) ==
  LET w == (Key(q) + n * n) % TotalWeight(ps)
      upto(i) == Sum(LAMBDA j : ps[j].weight, 1..i)
  IN CHOOSE i \in DOMAIN ps : upto(i) > w /\ upto(i) - ps[i].weight <= w

(* ngx_http_upstream_get_ip_hash_peer(), ngx_http_upstream_get_hash_peer(): *)
(* rehash until a peer is usable, or too often                              *)
GetHash(q) ==
  LET g == r[q].grp
      At(k) == Slot(q, r[q].hash + k, peers[g])
      good == {k \in 0..(MaxTries - r[q].tries) : At(k) \in Usable(g, r[q].tried)}
      k == Min(good)
  IN IF Single(g) THEN GetRoundRobin(q, r[q].tries, 0)
     ELSE IF good = {} THEN GetRoundRobin(q, MaxTries + 1, 0)
     ELSE Chosen(q, g, <<peers[g], At(k)>>, r[q].tries + k, r[q].hash + k + 1)

(* ngx_http_upstream_get_chash_peer(): the next point whose server is usable *)
GetChash(q) ==
  LET ps == conf.points
      At(k) == ps[((r[q].hash + k) % Len(ps)) + 1][2]
      S(k) == {i \in Usable(1, r[q].tried) : peers[1][i].server = At(k)}
      good == {k \in 0..(Len(ps) - 1 - r[q].tries) : S(k) # {}}
      k == Min(good)
  IN IF good = {}
     THEN /\ r' = [r EXCEPT ![q] = [Fresh(q) EXCEPT !.refused = r[q].tries = 0 /\ Usable(1, r[q].tried) # {}]]
          /\ UNCHANGED peers
     ELSE Chosen(q, 1, RoundRobin(peers[1], S(k)), r[q].tries + k, r[q].hash + k)

GetPeer(q) ==
  /\ r[q].state = "get"
  /\ CASE conf.method \in {"rr", "least_conn"} -> GetRoundRobin(q, 0, 0)
       [] conf.method = "hash" -> GetHash(q)
       [] conf.method = "chash" -> GetChash(q)
  /\ ka' = [ka EXCEPT !.smooth = @ /\ (r'[q].state = "got" => ~Single(1) /\ conf.method = "rr" /\ r[q].tried = {}
                                                            /\ Usable(1, {}) = DOMAIN peers[1])]
  /\ UNCHANGED conf

-----------------------------------------------------------------------------
(* ngx_http_upstream_get_keepalive_peer(): an idle connection to the peer,  *)
(* or a new one                                                             *)
Connect(q) ==
  /\ r[q].state = "got"
  /\ LET mine == {k \in DOMAIN ka.cache : ka.cache[k] = r[q].current}
     IN IF mine # {}
        THEN ka' = [ka EXCEPT !.cache = RemoveAt(@, Min(mine))]
        ELSE UNCHANGED ka
  /\ r' = [r EXCEPT ![q].state = "using"]
  /\ UNCHANGED <<conf, peers>>

(* ngx_http_upstream_free_round_robin_peer() *)
FreePeer(q, failed) ==
  LET g == r[q].current[1]
      i == r[q].current[2]
      p == peers[g][i]
      ew == p.ew - (IF p.max_fails > 0 THEN p.weight \div p.max_fails ELSE 0)
      f == IF failed THEN [p EXCEPT !.fails = @ + 1, !.accessed = ka.now, !.checked = ka.now, !.ew = IF ew < 0 THEN 0 ELSE ew]
           ELSE IF p.accessed < p.checked THEN [p EXCEPT !.fails = 0] ELSE p
      left == IF Single(r[q].grp) THEN 0 ELSE IF r[q].left > 0 THEN r[q].left - 1 ELSE 0
  IN /\ peers' = [peers EXCEPT ![g][i] = [(IF Single(r[q].grp) THEN p ELSE f) EXCEPT !.conns = @ - 1]]
     /\ r' = [r EXCEPT ![q] = IF failed /\ left > 0 THEN [@ EXCEPT !.current = Null, !.left = left, !.state = "get"]
                               ELSE Fresh(q)]

(* ngx_http_upstream_free_keepalive_peer(): a connection that may be used   *)
(* again replaces the one idle for longest                                  *)
FreeKeepalive(q, failed, keep) ==
  /\ r[q].state = "using"
  /\ failed => ka.failures < conf.faults
  /\ FreePeer(q, failed)
  /\ ka' = [ka EXCEPT !.failures = IF failed THEN @ + 1 ELSE @, !.smooth = @ /\ ~failed,
                      !.cache = IF failed \/ ~keep THEN @
                                ELSE <<r[q].current>>
                                     \o (IF Len(@) = conf.cached THEN Front(@) ELSE @)]
  /\ UNCHANGED conf

(* ngx_http_upstream_keepalive_close_handler(): the server closes an idle connection *)
IdleClosed(k) ==
  /\ ka' = [ka EXCEPT !.cache = RemoveAt(@, k)]
  /\ UNCHANGED <<conf, peers, r>>

Tick ==
  /\ ka.now < MaxTime
  /\ ka' = [ka EXCEPT !.now = @ + 1]
  /\ UNCHANGED <<conf, peers, r>>

Next ==
  \/ \E q \in Reqs : \/ InitPeer(q) \/ GetPeer(q) \/ Connect(q)
                     \/ \E failed, keep \in BOOLEAN : FreeKeepalive(q, failed, keep)
  \/ \E k \in DOMAIN ka.cache : IdleClosed(k)
  \/ Tick

-----------------------------------------------------------------------------
(* Every peer counts exactly the requests that have it, over retries,       *)
(* backup servers and connections taken from the cache.                     *)
ConnsExact ==
  \A g \in 1..2 : \A i \in DOMAIN peers[g] :
    peers[g][i].conns = Cardinality({q \in Reqs : r[q].current = <<g, i>>})

(* What one peer gains in a round another pays, whatever fails or is        *)
(* skipped: the current weights of a group sum up to nothing, and as long   *)
(* as nobody is skipped no peer is ahead of or behind its share by more     *)
(* than a round.                                                            *)
Smooth ==
  \A g \in 1..2 :
    LET total == TotalWeight(peers[g])
    IN /\ Sum(LAMBDA i : peers[g][i].cw, DOMAIN peers[g]) = 0
       /\ \A i \in DOMAIN peers[g] : 0 <= peers[g][i].ew /\ peers[g][i].ew <= peers[g][i].weight
       /\ ka.smooth /\ g = 1 => \A i \in DOMAIN peers[g] : peers[g][i].cw < total /\ peers[g][i].cw > -total

(* A request is refused only if no server it has not tried would take it.   *)
NotRefused == \A q \in Reqs : ~r[q].refused

(* As many idle connections are kept as configured. *)
IdleBound == Len(ka.cache) <= conf.cached

(* The point found is the first that is not below the hash. *)
PointRight ==
  LET ps == conf.points
  IN conf.method = "chash" =>
       \A h \in 0..7 : FindPoint(ps, h) = Cardinality({k \in DOMAIN ps : ps[k][1] < h})

BalanceSound == ConnsExact /\ Smooth /\ NotRefused /\ IdleBound /\ PointRight
=============================================================================

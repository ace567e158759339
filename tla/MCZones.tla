------------------------------ MODULE MCZones -------------------------------
(* Small instances of the users of shared memory zones for TLC: the slab    *)
(* allocator with pages of 16 bytes and words of 4 bits, so that a page     *)
(* holds 8 small, 4 exact or 2 big chunks, and the limit modules with two   *)
(* workers and two zones.  One of them is checked at a time.                *)
EXTENDS LimitConn, TLC

CONSTANTS w1, w2, c1, c2, s1

VARIABLES user, clock, timeofday, buckets, node, handler, delayed, asked, misses,
          passed, pinned, pool, blocks

MCRequests == {<<"b", "a">>, <<"a", "a">>, <<"none", "none">>}
MCLimit == <<2, 1>>

(* Workers are alike, and so are the clients that are requests. *)
Alike == Permutations({w1, w2}) \cup Permutations({c1, c2})

reqVars == <<clock, timeofday, buckets, node, handler, delayed, asked, misses, passed, pinned>>
slabVars == <<pool, blocks>>

Slab == INSTANCE Slab WITH
  NPages <- 4, PageShift <- 4, ExactShift <- 2, MinShift <- 1, Sizes <- {1, 4, 7, 9, 20},
  MaxBlocks <- 6

LimitReq == INSTANCE LimitReq WITH
  Requests <- {<<"a", "a">>, <<"b", "a">>, <<"a", "none">>},
  Cap <- 1, Unit <- 2, Rate <- 1, Burst <- <<4, 2>>, Nodelay <- {2}, ExpireAfter <- 2,
  MaxTime <- 2, MaxRequests <- 4, zone <- buckets, faults <- misses, lost <- pinned

ASSUME Slab!SlabAssumption

MCInit ==
  /\ user \in {"slab", "limit_req", "limit_conn"}
  /\ Init /\ LimitReq!Init /\ Slab!Init

MCNext ==
  /\ UNCHANGED user
  /\ \/ user = "slab" /\ Slab!Next /\ UNCHANGED <<reqVars, vars>>
     \/ user = "limit_req" /\ LimitReq!Next /\ UNCHANGED <<vars, slabVars>>
     \/ user = "limit_conn" /\ Next /\ UNCHANGED <<reqVars, slabVars>>

MCSpec == MCInit /\ [][MCNext]_<<user, vars, reqVars, slabVars>>

(* The slab allocator: the zone is sound after any allocations and frees. *)
SlabSound == user = "slab" => Slab!HeapSound

(* limit_req: no node is freed under the request that will charge it. *)
PinsExact == user = "limit_req" => LimitReq!PinsExact

(* limit_req: the leaky bucket holds however the workers interleave. *)
RateKept == user = "limit_req" => LimitReq!RateSound
=============================================================================

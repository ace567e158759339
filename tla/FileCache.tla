----------------------------- MODULE FileCache -----------------------------
(* The cache of responses: the nodes in shared memory, the files on disk,   *)
(* the lock of a node that is being filled, variants (Vary), the cache      *)
(* manager and the cache loader (http/ngx_http_file_cache.c), and what      *)
(* upstream requests make of them (http/ngx_http_upstream.c).               *)
(*                                                                          *)
(* Every section under the mutex of the zone is a step of its own, and so   *)
(* is what a process reads or does between two of them: the read of "cold", *)
(* opening, renaming, examining and deleting a file.  Time is a choice:     *)
(* whether an entry is fresh, a lock too old or a node inactive.  A file is *)
(* named by a hash, <<md5 of the key, variant>>, and keys may collide.      *)
(* Main is the variant of the key itself.  One request of each id.          *)
EXTENDS Integers, Sequences, FiniteSets, SequencesExt, FiniteSetsExt

CONSTANTS
  Ids, Mixes, \* what requests ask for: request -> [key, val: header -> its value, lock: of its location]
  Md5,        \* key -> its hash
  Varies,     \* request -> the headers that responses to it may vary by, or None
  Files,      \* what may be on disk when the caches are cold: hash -> file or NoFile
  Nodes,      \* the nodes the zone has room for
  MaxSize, MinUses, StaleUpdating, StaleError, MaxCrashes

VARIABLES sh, disk, c, aux

vars == <<sh, disk, c, aux>>

None == "none"
Main == <<None, None>>
Null == 0
NoHash == <<None, Main>>
NoFile == [size |-> 0]
Manager == 0     \* requests have positive numbers
Empty == [hash |-> NoHash, count |-> 0, uses |-> 0, exists |-> FALSE, updating |-> FALSE, lock_time |-> 0,
          error |-> FALSE, size |-> 0, deleting |-> FALSE]
NoLoad == [hash |-> NoHash, size |-> 0, drop |-> FALSE]

Request(ask, pc) ==
  [pc |-> pc, key |-> ask.key, val |-> ask.val, lock |-> ask.lock, node |-> Null, hash |-> <<Md5[ask.key], Main>>, secondary |-> FALSE,
   updating |-> FALSE, lock_time |-> 0, error |-> FALSE, fd |-> NoFile, cacheable |-> TRUE, expired |-> FALSE,
   patient |-> TRUE, answered |-> FALSE, got |-> NoFile]

Init ==
  /\ disk \in Files
  /\ sh = [node |-> [n \in Nodes |-> Empty], queue |-> <<>>, size |-> 0, cold |-> TRUE, watermark |-> Cardinality(Nodes) + 1,
           todo |-> {h \in DOMAIN disk : disk[h] # NoFile}]
  /\ \E m \in Mixes :
       c = [i \in Ids |-> Request(m[i], "new")]
  /\ aux = [del |-> [p \in Ids \cup {Manager} |-> Null],   \* the node whose file p deletes
            unlinked |-> [p \in Ids \cup {Manager} |-> FALSE],
            load |-> NoLoad,                               \* the file the loader is at
            lost |-> [n \in Nodes |-> 0],                  \* references of the dead (history)
            force |-> FALSE,                               \* the manager found the cache too large
            drift |-> FALSE, crashes |-> 0, locks |-> 0]   \* (history)

Used(s) == {n \in Nodes : s.node[n].hash # NoHash}
(* ngx_http_file_cache_lookup(): any node of the key *)
Lookup(s, h) == {n \in Used(s) : s.node[n].hash = h}
SetWatermark(s) == [s EXCEPT !.watermark = Cardinality(Used(s)) - Cardinality(Used(s)) \div 8]
ToHead(s, n) == [s EXCEPT !.queue = <<n>> \o SelectSeq(@, LAMBDA m : m # n)]
DropNode(s, n) == [s EXCEPT !.queue = SelectSeq(@, LAMBDA m : m # n), !.node[n] = Empty]
Goto(i, pc) == [c EXCEPT ![i].pc = pc]
Gone(i) == [c EXCEPT ![i] = Request(@, "done")]

-----------------------------------------------------------------------------
(* ngx_http_file_cache_forced_expire(), ngx_http_file_cache_delete(): the   *)
(* oldest node nobody uses.  One with a file is kept while p deletes it.    *)
Idle(s) == {k \in DOMAIN s.queue : s.node[s.queue[k]].count = 0}

DeleteBegin(s, a, p, n) ==
  IF s.node[n].exists
  THEN [sh |-> [s EXCEPT !.size = @ - s.node[n].size, !.node[n].count = @ + 1, !.node[n].deleting = TRUE],
        aux |-> [a EXCEPT !.del[p] = n]]
  ELSE [sh |-> DropNode(s, n), aux |-> a]

ForcedExpire(s, a, p) ==
  IF Idle(s) = {} THEN [sh |-> s, aux |-> a]
  ELSE DeleteBegin(s, a, p, s.queue[Max(Idle(s))])

(* ngx_delete_file(), outside of the mutex *)
DeleteFile(p) ==
  /\ aux.del[p] # Null /\ ~aux.unlinked[p]
  /\ disk' = [disk EXCEPT ![sh.node[aux.del[p]].hash] = NoFile]
  /\ aux' = [aux EXCEPT !.unlinked[p] = TRUE]
  /\ UNCHANGED <<sh, c>>

(* the end of ngx_http_file_cache_delete(): whoever found the node in the   *)
(* meantime keeps it, with a size that was already given back               *)
DeleteEnd(p) ==
  LET n == aux.del[p]
      s == [sh EXCEPT !.node[n].count = @ - 1, !.node[n].deleting = FALSE]
  IN /\ aux.unlinked[p]
     /\ sh' = IF s.node[n].count = 0 THEN DropNode(s, n) ELSE s
     /\ aux' = [aux EXCEPT !.del[p] = Null, !.unlinked[p] = FALSE, !.drift = @ \/ s.node[n].count > 0]
     /\ UNCHANGED <<disk, c>>

-----------------------------------------------------------------------------
(* ngx_http_file_cache_exists() of a node that was found: the results are   *)
(* ok, error (a status is cached), again (too few uses), declined.          *)
Found(i, n) ==
  LET first == c[i].node = Null
      t == ToHead([sh EXCEPT !.node[n].uses = IF first THEN Min({@ + 1, MinUses}) ELSE @,
                             !.node[n].count = IF first THEN @ + 1 ELSE @], n)
  IN IF t.node[n].error
     THEN {[sh |-> t, rc |-> "error", n |-> n, drift |-> FALSE],
           [sh |-> [t EXCEPT !.node[n].error = FALSE, !.node[n].exists = FALSE, !.node[n].size = 0],   \* renew
            rc |-> "declined", n |-> n, drift |-> t.node[n].exists]}
     ELSE {[sh |-> t, rc |-> IF t.node[n].exists \/ t.node[n].uses >= MinUses THEN "ok" ELSE "again", n |-> n,
            drift |-> FALSE]}

Fresh(i) ==
  LET n == Min(Nodes \ Used(sh))
  IN {[sh |-> ToHead([sh EXCEPT !.node[n] = [Empty EXCEPT !.hash = c[i].hash, !.uses = 1, !.count = 1]], n),
       rc |-> "declined", n |-> n, drift |-> FALSE]}

(* What the caller makes of the result before it lets go of the node: a     *)
(* response that is there already is stored whatever it is, otherwise       *)
(* ngx_http_file_cache_open() goes on.                                      *)
Entered(i, e) ==
  /\ sh' = e.sh
  /\ c' = [c EXCEPT ![i].node = e.n, ![i].error = e.rc = "error",
                    ![i].cacheable = @ /\ (c[i].answered \/ e.rc # "again"),
                    ![i].pc = CASE c[i].answered -> "store"
                                [] e.rc = "ok" -> IF e.sh.node[e.n].exists THEN "opening" ELSE "locking"
                                [] e.rc = "declined" -> "testing"
                                [] e.rc = "again" -> "fetch"
                                [] e.rc = "error" -> "end"]
  /\ aux' = [aux EXCEPT !.drift = @ \/ e.drift]
  /\ UNCHANGED disk

Looking(i) == c[i].pc \in {"new", "open", "woken", "take"}
Candidates(i) == IF c[i].node # Null THEN {c[i].node} ELSE Lookup(sh, c[i].hash)

(* the first section of ngx_http_file_cache_exists(), called when a request *)
(* comes, when it has waited, for a variant, and for a response that has no *)
(* node (ngx_http_file_cache_create(), ngx_http_file_cache_update_variant()) *)
Exists(i) ==
  /\ Looking(i)
  /\ \/ \E n \in Candidates(i) : \E e \in Found(i, n) : Entered(i, e)
     \/ Candidates(i) = {} /\ Used(sh) # Nodes /\ \E e \in Fresh(i) : Entered(i, e)

(* ... without room: it sets the watermark and lets go of the mutex, *)
Full(i) ==
  /\ Looking(i) /\ Candidates(i) = {} /\ Used(sh) = Nodes
  /\ sh' = SetWatermark(sh) /\ c' = Goto(i, "evict")
  /\ UNCHANGED <<disk, aux>>

(* evicts a node,                                                           *)
Evict(i) ==
  /\ c[i].pc = "evict"
  /\ LET f == ForcedExpire(sh, aux, i) IN sh' = f.sh /\ aux' = f.aux
  /\ c' = Goto(i, "retry")
  /\ UNCHANGED disk

(* and allocates one without another look whether the key is there          *)
Retry(i) ==
  /\ c[i].pc = "retry" /\ aux.del[i] = Null
  /\ \/ Used(sh) # Nodes /\ \E e \in Fresh(i) : Entered(i, e)
     \/ Used(sh) = Nodes /\ c' = Goto(i, "end") /\ UNCHANGED <<sh, disk, aux>>

Scarce(i) == [c EXCEPT ![i].pc = "fetch", ![i].cacheable = FALSE]

(* ngx_http_file_cache_open() without a file that is known: while the       *)
(* loader has not seen them all there may be one                            *)
Test(i) ==
  /\ c[i].pc = "testing"
  /\ c' = IF sh.cold THEN Goto(i, "probing") ELSE IF MinUses > 1 THEN Scarce(i) ELSE Goto(i, "locking")
  /\ UNCHANGED <<sh, disk, aux>>

(* ngx_open_cached_file() *)
OpenFile(i) ==
  /\ c[i].pc \in {"opening", "probing"}
  /\ \/ disk[c[i].hash] # NoFile /\ c' = [c EXCEPT ![i].fd = disk[c[i].hash], ![i].pc = "reading"]
     \/ disk[c[i].hash] = NoFile /\ c' = IF c[i].pc = "probing" /\ MinUses > 1 THEN Scarce(i) ELSE Goto(i, "locking")
     \/ c' = Goto(i, "end")     \* it cannot be opened
  /\ UNCHANGED <<sh, disk, aux>>

(* ngx_http_file_cache_lock() *)
LockNode(i) ==
  /\ c[i].pc = "locking"
  /\ LET n == c[i].node IN
     \/ ~c[i].lock /\ c' = Goto(i, "fetch") /\ UNCHANGED <<sh, aux>>
     \/ /\ c[i].lock     \* nobody updates it, or for too long
        /\ sh' = [sh EXCEPT !.node[n].updating = TRUE, !.node[n].lock_time = aux.locks + 1]
        /\ c' = [c EXCEPT ![i].pc = "fetch", ![i].updating = TRUE, ![i].lock_time = aux.locks + 1]
        /\ aux' = [aux EXCEPT !.locks = @ + 1]
     \/ /\ c[i].lock /\ sh.node[n].updating
        /\ c' = IF c[i].patient THEN Goto(i, "waiting") ELSE Scarce(i)
        /\ UNCHANGED <<sh, aux>>
  /\ UNCHANGED disk

(* ngx_http_upstream_cache(): the cache is passed by *)
Bypass(i) == c[i].pc = "new" /\ c' = Goto(i, "fetch") /\ UNCHANGED <<sh, disk, aux>>

(* ngx_http_file_cache_lock_wait(): the timer of a request that waits *)
LockWait(i) ==
  /\ c[i].pc = "waiting"
  /\ \E timeout, tooOld \in BOOLEAN :
       /\ timeout \/ tooOld \/ ~sh.node[c[i].node].updating
       /\ c' = [c EXCEPT ![i].pc = "woken", ![i].patient = @ /\ ~timeout]
  /\ UNCHANGED <<sh, disk, aux>>

(* the name of the file of a response: md5 of the key, and of the values    *)
(* the request has for the headers it varies by                             *)
Variant(f) == <<Md5[f.key], <<f.vary, f.val>>>>
ValueOf(i, vary) == IF vary = None THEN None ELSE c[i].val[vary]

(* ngx_http_file_cache_reopen() *)
Reopen(i) ==
  IF c[i].secondary THEN /\ c' = Goto(i, "fetch") /\ UNCHANGED sh
  ELSE /\ sh' = [sh EXCEPT !.node[c[i].node].count = @ - 1]
       /\ c' = [c EXCEPT ![i].node = Null, ![i].secondary = TRUE, ![i].pc = "open", ![i].fd = NoFile,
                         ![i].hash = Variant([key |-> c[i].key, vary |-> c[i].fd.vary, val |-> ValueOf(i, c[i].fd.vary)])]

(* Mutant: the variant of the file is not compared. *)
ReadAnyVariant(i) ==
  /\ c[i].pc = "reading"
  /\ c' = Goto(i, IF c[i].fd.key # c[i].key THEN "fetch" ELSE IF sh.cold THEN "knowing" ELSE "judging")
  /\ UNCHANGED <<sh, disk, aux>>

(* ngx_http_file_cache_read(), when the header of the file has been read:   *)
(* of another key, of another variant, or the one                           *)
Read(i) ==
  /\ c[i].pc = "reading"
  /\ LET f == c[i].fd
     IN IF f.key # c[i].key THEN c' = Goto(i, "fetch") /\ UNCHANGED sh
        ELSE IF f.val # ValueOf(i, f.vary) THEN Reopen(i)
        ELSE c' = Goto(i, IF sh.cold THEN "knowing" ELSE "judging") /\ UNCHANGED sh
  /\ UNCHANGED <<disk, aux>>

(* a file the loader has not come to *)
Know(i) ==
  /\ c[i].pc = "knowing"
  /\ LET n == c[i].node
         size == c[i].fd.size
     IN sh' = IF sh.node[n].exists THEN sh
              ELSE [sh EXCEPT !.node[n].exists = TRUE, !.node[n].uses = 1, !.node[n].size = size, !.size = @ + size]
  /\ c' = Goto(i, "judging")
  /\ UNCHANGED <<disk, aux>>

Serve(i) == [c EXCEPT ![i].got = c[i].fd, ![i].pc = "end"]

(* The file is fresh, or its entry has expired: the first request to see    *)
(* that updates it.                                                         *)
Judge(i) ==
  /\ c[i].pc = "judging"
  /\ LET n == c[i].node IN
     \/ c' = Serve(i) /\ UNCHANGED sh
     \/ /\ sh.node[n].updating     \* NGX_HTTP_CACHE_UPDATING
        /\ c' = IF StaleUpdating THEN Serve(i) ELSE [c EXCEPT ![i].expired = TRUE, ![i].pc = "fetch"]
        /\ UNCHANGED sh
     \/ /\ ~sh.node[n].updating    \* NGX_HTTP_CACHE_STALE
        /\ sh' = [sh EXCEPT !.node[n].updating = TRUE]
        /\ c' = [c EXCEPT ![i].expired = TRUE, ![i].pc = "fetch", ![i].updating = TRUE, ![i].lock_time = sh.node[n].lock_time]
  /\ UNCHANGED <<disk, aux>>

-----------------------------------------------------------------------------
(* ngx_http_file_cache_free(): a node with a cached status stays. *)
Free(i, error) ==
  LET n == c[i].node
      s == [sh EXCEPT !.node[n].count = @ - 1,
                      !.node[n].updating = @ /\ ~(c[i].updating /\ sh.node[n].lock_time = c[i].lock_time),
                      !.node[n].error = @ \/ error]
      gone == ~error /\ ~s.node[n].exists /\ s.node[n].count = 0 /\ MinUses = 1
  IN IF n = Null THEN sh ELSE IF gone THEN DropNode(s, n) ELSE s

Freed(i, error) ==
  /\ sh' = Free(i, error)
  /\ c' = Gone(i)

(* The response cannot be cached, is not complete, or came from the cache,  *)
(* or the request is given up.  A status that ngx_http_file_cache_exists()  *)
(* found is still in c->error, and is written back.                         *)
Finish(i) ==
  /\ c[i].pc \in {"end", "fetch", "store", "reading", "woken"}
  /\ Freed(i, c[i].error)
  /\ UNCHANGED <<disk, aux>>

(* ngx_http_upstream_intercept_errors(), ngx_http_upstream_finalize_request(): *)
(* a status is cached in the node                                           *)
CacheError(i) ==
  /\ c[i].pc = "fetch"
  /\ Freed(i, TRUE)
  /\ UNCHANGED <<disk, aux>>

(* ngx_http_upstream_test_next(), ngx_http_upstream_next(): the server      *)
(* failed, or the response was not modified                                 *)
SendStale(i) ==
  /\ c[i].pc = "fetch" /\ c[i].expired /\ StaleError
  /\ c' = Serve(i)
  /\ UNCHANGED <<sh, disk, aux>>

(* ngx_http_upstream_send_response(), ngx_http_file_cache_set_header(): a   *)
(* response that can be cached.  If it is not of the variant that was asked *)
(* for, ngx_http_file_cache_update_variant() leaves the node of the variant *)
(* for that of the key; one that bypassed the cache has no node yet.        *)
Respond(i, vary) ==
  /\ c[i].pc = "fetch" /\ c[i].cacheable
  /\ LET f == [key |-> c[i].key, vary |-> vary, val |-> ValueOf(i, vary), size |-> i]
         left == c[i].secondary /\ Variant(f) # c[i].hash
     IN /\ sh' = IF left THEN [sh EXCEPT !.node[c[i].node].count = @ - 1, !.node[c[i].node].updating = FALSE] ELSE sh
        /\ c' = [c EXCEPT ![i].fd = f, ![i].answered = TRUE, ![i].node = IF left THEN Null ELSE @,
                          ![i].hash = IF left THEN <<Md5[c[i].key], Main>> ELSE @,
                          ![i].pc = IF left \/ c[i].node = Null THEN "take" ELSE "store"]
  /\ UNCHANGED <<disk, aux>>

(* ngx_http_file_cache_update(): the file gets its name; rename() may fail *)
Rename(i) ==
  /\ c[i].pc = "store"
  /\ \/ disk' = [disk EXCEPT ![c[i].hash] = c[i].fd] /\ c' = Goto(i, "renamed")
     \/ c' = [c EXCEPT ![i].pc = "renamed", ![i].fd = NoFile] /\ UNCHANGED disk
  /\ UNCHANGED <<sh, aux>>

Update(i) ==
  /\ c[i].pc = "renamed"
  /\ LET n == c[i].node
         size == c[i].fd.size
     IN /\ sh' = [sh EXCEPT !.node[n].count = @ - 1, !.node[n].exists = @ \/ size > 0, !.node[n].updating = FALSE,
                            !.node[n].size = size, !.size = @ + size - sh.node[n].size]
        /\ aux' = [aux EXCEPT !.drift = @ \/ sh.node[n].deleting]
  /\ c' = Gone(i)
  /\ UNCHANGED disk

(* a worker dies with its request *)
Crash(i) ==
  /\ aux.crashes < MaxCrashes /\ c[i].pc \notin {"new", "done"}
  /\ c' = Gone(i)
  /\ aux' = [aux EXCEPT !.crashes = @ + 1, !.del[i] = Null, !.unlinked[i] = FALSE, !.drift = TRUE,
                        !.lost = [n \in Nodes |-> @[n] + (IF n = c[i].node THEN 1 ELSE 0) + (IF n = aux.del[i] THEN 1 ELSE 0)]]
  /\ UNCHANGED <<sh, disk>>

-----------------------------------------------------------------------------
(* ngx_http_file_cache_expire(): the node at the end has been inactive *)
Resting == aux.del[Manager] = Null /\ ~aux.force

Expire ==
  /\ Resting /\ sh.queue # <<>>
  /\ LET n == Last(sh.queue)
     IN IF sh.node[n].count = 0
        THEN LET d == DeleteBegin(sh, aux, Manager, n) IN sh' = d.sh /\ aux' = d.aux
        ELSE ~sh.node[n].deleting /\ sh' = ToHead(sh, n) /\ UNCHANGED aux
  /\ UNCHANGED <<disk, c>>

(* ngx_http_file_cache_manager(): too large, or too many nodes; what it     *)
(* then evicts is chosen in a section of its own                            *)
Watch ==
  /\ Resting /\ (sh.size >= MaxSize \/ Cardinality(Used(sh)) >= sh.watermark)
  /\ aux' = [aux EXCEPT !.force = TRUE]
  /\ UNCHANGED <<sh, disk, c>>

Manage ==
  /\ aux.force
  /\ LET f == ForcedExpire(sh, [aux EXCEPT !.force = FALSE], Manager) IN sh' = f.sh /\ aux' = f.aux
  /\ UNCHANGED <<disk, c>>

(* ngx_http_file_cache_loader(): it examines a file of the last run,        *)
Examine(h) ==
  /\ sh.cold /\ h \in sh.todo /\ aux.load = NoLoad
  /\ sh' = [sh EXCEPT !.todo = @ \ {h}]
  /\ aux' = [aux EXCEPT !.load = IF disk[h] = NoFile THEN @ ELSE [NoLoad EXCEPT !.hash = h, !.size = disk[h].size]]
  /\ UNCHANGED <<disk, c>>

(* adds it if it is not there (ngx_http_file_cache_add()),                  *)
Add ==
  /\ aux.load.hash # NoHash /\ ~aux.load.drop
  /\ LET h == aux.load.hash
         size == aux.load.size
         free == Nodes \ Used(sh)
         n == Min(free)
     IN \/ /\ \E m \in Lookup(sh, h) : sh' = ToHead(sh, m)
           /\ aux' = [aux EXCEPT !.load = NoLoad]
        \/ /\ Lookup(sh, h) = {} /\ free # {}
           /\ sh' = ToHead([sh EXCEPT !.size = @ + size,
                                      !.node[n] = [Empty EXCEPT !.hash = h, !.uses = 1, !.exists = TRUE, !.size = size]], n)
           /\ aux' = [aux EXCEPT !.load = NoLoad]
        \/ /\ Lookup(sh, h) = {} /\ free = {}
           /\ sh' = SetWatermark(sh) /\ aux' = [aux EXCEPT !.load.drop = TRUE]
  /\ UNCHANGED <<disk, c>>

(* and deletes it if there was no room.                                     *)
Drop ==
  /\ aux.load.drop
  /\ disk' = [disk EXCEPT ![aux.load.hash] = NoFile]
  /\ aux' = [aux EXCEPT !.load = NoLoad]
  /\ UNCHANGED <<sh, c>>

Loaded ==
  /\ sh.cold /\ sh.todo = {} /\ aux.load = NoLoad
  /\ sh' = [sh EXCEPT !.cold = FALSE]
  /\ UNCHANGED <<disk, c, aux>>

Next ==
  \/ \E i \in Ids : \/ Exists(i) \/ Full(i) \/ Evict(i) \/ Retry(i) \/ Test(i) \/ OpenFile(i) \/ LockNode(i) \/ LockWait(i)
                    \/ Bypass(i) \/ Read(i) \/ Know(i) \/ Judge(i) \/ Finish(i) \/ CacheError(i) \/ SendStale(i)
                    \/ (\E vary \in Varies[i] : Respond(i, vary)) \/ Rename(i) \/ Update(i) \/ Crash(i)
  \/ \E p \in Ids \cup {Manager} : DeleteFile(p) \/ DeleteEnd(p)
  \/ Expire \/ Watch \/ Manage \/ Add \/ Drop \/ Loaded
  \/ \E h \in DOMAIN disk : Examine(h)

-----------------------------------------------------------------------------
(* A node is referred to by the requests that hold it and by whoever        *)
(* deletes its file; so none is freed under a request, and none is kept     *)
(* for ever unless a worker died with it.                                   *)
CountExact ==
  \A n \in Nodes :
    sh.node[n].count = Cardinality({i \in Ids : c[i].node = n})
                       + Cardinality({p \in Ids \cup {Manager} : aux.del[p] = n}) + aux.lost[n]

QueueExact == IsInjective(sh.queue) /\ ToSet(sh.queue) = Used(sh)

(* The size of the cache is that of its nodes, unless one was found again   *)
(* while its file was deleted, or its cached status expired over a file.    *)
SizeExact ==
  LET counted(n) == IF sh.node[n].exists /\ ~sh.node[n].deleting THEN sh.node[n].size ELSE 0
  IN aux.drift \/ sh.size = MapThenSumSet(counted, Nodes)

(* What is served was stored for this key and, if it varies, this variant,  *)
(* whoever replaces, variegates, evicts or loads files at the same time and *)
(* whatever keys collide; and a file has the name of what is in it.         *)
ServedRight ==
  /\ \A i \in Ids : c[i].got # NoFile => c[i].got.key = c[i].key /\ c[i].got.val = ValueOf(i, c[i].got.vary)
  /\ \A h \in DOMAIN disk : disk[h] # NoFile => h \in {Variant(disk[h]), <<Md5[disk[h].key], Main>>}

(* A node is marked as being updated only while somebody updates it.        *)
UpdatingOwned ==
  aux.crashes = 0 => \A n \in Nodes : sh.node[n].updating => \E i \in Ids : c[i].node = n /\ c[i].updating

CacheSound == CountExact /\ QueueExact /\ SizeExact /\ ServedRight /\ UpdatingOwned
=============================================================================

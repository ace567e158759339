----------------------------- MODULE Locations -----------------------------
(* The locations of a server: how they are sorted, joined and hung into a   *)
(* tree of prefixes when the configuration is read (http/ngx_http.c), and   *)
(* how the location of a URI is found in it                                 *)
(* (http/ngx_http_core_module.c).                                           *)
(*                                                                          *)
(* A location has a name, which is a sequence of characters, or is a        *)
(* regular expression, known by the URIs that it matches; locations may be  *)
(* nested.  Named and unnamed locations, which no URI finds, only take part *)
(* in sorting.  Names are shorter than 256 characters: node->len is a byte. *)
EXTENDS Integers, Sequences, SequencesExt

CONSTANTS
  Configs,   \* sequences of locations
  Uris       \* the URIs of requests

VARIABLES
  conf,   \* the locations as they are configured
  tree,   \* what was made of them
  uri, found

vars == <<conf, tree, uri, found>>

(* A location: kind is prefix, exact (=), regex (~), named (@) or noname    *)
(* (limit_except, if); noregex is ^~; auto is set by handlers that redirect *)
(* to the URI with a slash, if the name ends with one; match is what a      *)
(* regular expression matches.                                              *)
None == [id |-> 0]
(* pointers are sequences of at most one element *)
Null == <<>>
Regular(l) == l.kind \in {"prefix", "exact"}

Init == conf \in Configs /\ tree = Null /\ uri = <<>> /\ found = Null

-----------------------------------------------------------------------------
(* ngx_filename_cmp(): a slash is smaller than any other character; names   *)
(* end with a zero                                                          *)
Rank == [c \in {"/", "a", "b"} |-> CASE c = "/" -> 1 [] c = "a" -> 2 [] c = "b" -> 3]
At(s, i) == IF i <= Len(s) THEN Rank[s[i]] ELSE 0
FilenameCmp(s, t, n) ==
  LET ds == {i \in 1..n : At(s, i) # At(t, i)}
      d == CHOOSE i \in ds : \A j \in ds : i <= j
  IN IF ds = {} THEN 0 ELSE At(s, d) - At(t, d)

Smaller(a, b) == IF a < b THEN a ELSE b

(* ngx_http_cmp_locations() *)
CmpLocations(f, s) ==
  LET class(l) == CASE l.kind = "noname" -> 4 [] l.kind = "named" -> 3 [] l.kind = "regex" -> 2 [] OTHER -> 1
      rc == FilenameCmp(f.name, s.name, Smaller(Len(f.name), Len(s.name)) + 1)
  IN CASE class(f) # class(s) -> class(f) - class(s)
       [] class(f) = class(s) /\ f.kind \in {"noname", "regex"} -> 0
       [] class(f) = class(s) /\ f.kind = "named" -> FilenameCmp(f.name, s.name, Len(f.name) + 1)
       [] OTHER -> IF rc = 0 /\ f.kind # "exact" /\ s.kind = "exact" THEN 1 ELSE rc

(* ngx_queue_sort(): a stable insertion sort *)
QueueSort(q) ==
  LET insert(sorted, l) ==
        LET ks == {k \in 0..Len(sorted) : k = 0 \/ CmpLocations(sorted[k], l) <= 0}
            k == CHOOSE i \in ks : \A j \in ks : j <= i
        IN SubSeq(sorted, 1, k) \o <<l>> \o SubSeq(sorted, k + 1, Len(sorted))
  IN FoldLeft(insert, <<>>, q)

(* a queue entry: ngx_http_location_queue_t *)
Entry(l) == [name |-> l.name, exact |-> IF l.kind = "exact" THEN l ELSE None,
             inclusive |-> IF l.kind = "prefix" THEN l ELSE None, list |-> <<>>]

(* ngx_http_join_exact_locations(): an exact and an inclusive location of   *)
(* the same name are one entry; duplicates are refused                      *)
JoinExact(q) ==
  LET join(done, e) ==
        IF ~done.ok THEN done
        ELSE IF done.q # <<>> /\ Last(done.q).name = e.name
        THEN IF (Last(done.q).exact # None /\ e.exact # None) \/ (Last(done.q).inclusive # None /\ e.inclusive # None)
             THEN [done EXCEPT !.ok = FALSE]
             ELSE [done EXCEPT !.q[Len(done.q)].inclusive = e.inclusive]
        ELSE [done EXCEPT !.q = Append(@, e)]
  IN FoldLeft(join, [ok |-> TRUE, q |-> <<>>], q)

(* ngx_http_create_locations_list(): what begins with the name of an        *)
(* inclusive location goes to its list                                      *)
RECURSIVE LocationsList(_)
LocationsList(q) ==
  IF Len(q) <= 1 THEN q
  ELSE IF Head(q).inclusive = None THEN <<Head(q)>> \o LocationsList(Tail(q))
  ELSE LET len == Len(Head(q).name)
           outside == {i \in 2..Len(q) : Len(q[i].name) < len \/ FilenameCmp(Head(q).name, q[i].name, len) # 0}
           x == IF outside = {} THEN Len(q) + 1 ELSE CHOOSE i \in outside : \A j \in outside : i <= j
       IN <<[Head(q) EXCEPT !.list = LocationsList(SubSeq(q, 2, x - 1))]>>
          \o LocationsList(SubSeq(q, x, Len(q)))

(* Mutant: the name of a node in a list is not cut at the prefix. *)
RECURSIVE TreeUncut(_, _)
TreeUncut(q, prefix) ==
  IF q = <<>> THEN Null
  ELSE LET m == Len(q) \div 2 + 1
           e == q[m]
       IN <<[name |-> SubSeq(e.name, prefix + 1, Len(e.name)), exact |-> e.exact, inclusive |-> e.inclusive,
           auto |-> e.inclusive.id # 0 /\ e.inclusive.auto,
           left |-> TreeUncut(SubSeq(q, 1, m - 1), prefix),
           right |-> TreeUncut(SubSeq(q, m + 1, Len(q)), prefix),
           tree |-> TreeUncut(e.list, prefix)]>>

(* ngx_http_create_locations_tree(): the middle of the queue is the root *)
RECURSIVE LocationsTree(_, _)
LocationsTree(q, prefix) ==
  IF q = <<>> THEN Null
  ELSE LET m == Len(q) \div 2 + 1   \* ngx_queue_middle()
           e == q[m]
           len == Len(e.name) - prefix
       IN <<[name |-> SubSeq(e.name, prefix + 1, Len(e.name)), exact |-> e.exact, inclusive |-> e.inclusive,
           auto |-> (e.exact.id # 0 /\ e.exact.auto) \/ (e.inclusive.id # 0 /\ e.inclusive.auto),
           left |-> LocationsTree(SubSeq(q, 1, m - 1), prefix),
           right |-> LocationsTree(SubSeq(q, m + 1, Len(q)), prefix),
           tree |-> LocationsTree(e.list, prefix + len)]>>

(* ngx_http_init_locations() and ngx_http_init_static_location_trees(): the *)
(* tree, the regular expressions in their order, and the same of every      *)
(* nested configuration                                                     *)
RECURSIVE InitLocations(_)
InitLocations(locations) ==
  LET sorted == QueueSort(locations)
      static == SelectSeq(sorted, Regular)
      joined == JoinExact([i \in DOMAIN static |-> Entry(static[i])])
      subs == [i \in {locations[k].id : k \in DOMAIN locations} |->
                 InitLocations((CHOOSE l \in Range(locations) : l.id = i).subs)]
  IN [ok |-> joined.ok /\ \A i \in DOMAIN subs : subs[i].ok,
      static |-> LocationsTree(LocationsList(joined.q), 0),
      regex |-> SelectSeq(sorted, LAMBDA l : l.kind = "regex"), subs |-> subs]

(* ngx_http_core_location(): nested locations that are refused *)
RECURSIVE Accepted(_, _)
Accepted(locations, parent) ==
  \A i \in DOMAIN locations :
    LET l == locations[i]
    IN /\ parent # None => /\ parent.kind \notin {"exact", "named"} /\ l.kind # "named"
                           /\ l.kind # "regex" => FilenameCmp(l.name, parent.name, Len(parent.name)) = 0
       /\ Accepted(l.subs, l)

Configure ==
  /\ tree = Null
  /\ tree' = IF Accepted(conf, None) THEN <<InitLocations(conf)>> ELSE <<[ok |-> FALSE]>>
  /\ UNCHANGED <<conf, uri, found>>

-----------------------------------------------------------------------------
(* ngx_http_core_find_static_location(): rv is the result so far, at the    *)
(* location it was found for                                                *)
RECURSIVE FindStatic(_, _, _)
FindStatic(p, u, rv) ==
  IF p = Null THEN rv
  ELSE LET node == p[1]
           len == Len(u)
           nlen == Len(node.name)
           n == Smaller(len, nlen)
           rc == FilenameCmp(u, node.name, n)
           R == IF len + 1 = nlen /\ node.auto
                THEN [rc |-> "done", loc |-> IF node.exact # None THEN node.exact ELSE node.inclusive] ELSE rv
       IN CASE rc # 0 -> FindStatic(IF rc < 0 THEN node.left ELSE node.right, u, rv)
            [] rc = 0 /\ len > nlen ->
                 IF node.inclusive # None
                 THEN FindStatic(node.tree, SubSeq(u, n + 1, len), [rc |-> "again", loc |-> node.inclusive])
                 ELSE FindStatic(node.right, u, rv)
            [] rc = 0 /\ len = nlen -> IF node.exact # None THEN [rc |-> "ok", loc |-> node.exact]
                                       ELSE [rc |-> "again", loc |-> node.inclusive]
            [] rc = 0 /\ len < nlen -> FindStatic(node.left, u, R)

(* ngx_http_core_find_location(): nested locations, then the regular        *)
(* expressions                                                              *)
RECURSIVE FindLocation(_, _, _)
FindLocation(t, u, here) ==
  LET s == FindStatic(t.static, u, [rc |-> "declined", loc |-> here])
      f == IF s.rc = "again" THEN FindLocation(t.subs[s.loc.id], u, s.loc) ELSE s
      noregex == s.rc = "again" /\ s.loc.noregex
      ks == {k \in DOMAIN t.regex : u \in t.regex[k].match}
      r == t.regex[CHOOSE k \in ks : \A j \in ks : k <= j]
  IN CASE f.rc \in {"ok", "done"} -> f
       [] f.rc \notin {"ok", "done"} /\ (noregex \/ ks = {}) -> f
       [] OTHER -> [rc |-> "ok", loc |-> FindLocation(t.subs[r.id], u, r).loc]

Request ==
  /\ tree # Null /\ tree[1].ok /\ found = Null
  /\ uri' \in Uris
  /\ found' = <<FindLocation(tree[1], uri', None)>>
  /\ UNCHANGED <<conf, tree>>

Next == Configure \/ Request

-----------------------------------------------------------------------------
(* What the documentation of the directive promises: the exact location, or *)
(* the longest prefix, and the first regular expression unless ^~; inside a *)
(* location the same again.                                                 *)
RECURSIVE Wanted(_, _, _)
Wanted(locations, u, here) ==
  LET ls == Range(locations)
      exact == {l \in ls : l.kind = "exact" /\ l.name = u}
      prefixes == {l \in ls : l.kind = "prefix" /\ IsPrefix(l.name, u)}
      longest == CHOOSE l \in prefixes : \A k \in prefixes : Len(k.name) <= Len(l.name)
      slashed == {l \in ls : l.kind \in {"prefix", "exact"} /\ l.name = Append(u, "/")}
      slash == IF \E l \in slashed : l.auto THEN slashed ELSE {}
      itself == prefixes # {} /\ longest.name = u
      ks == {k \in DOMAIN locations : locations[k].kind = "regex" /\ u \in locations[k].match}
      r == locations[CHOOSE k \in ks : \A j \in ks : k <= j]
      inner == Wanted(longest.subs, u, longest)
  IN CASE exact # {} -> [rc |-> "ok", locs |-> exact]
       [] exact = {} /\ slash # {} /\ ~itself -> [rc |-> "done", locs |-> slash]
       [] exact = {} /\ (slash = {} \/ itself) /\ prefixes # {} /\ inner.rc \in {"ok", "done"} -> inner
       [] exact = {} /\ (slash = {} \/ itself) /\ ~(prefixes # {} /\ (inner.rc \in {"ok", "done"} \/ longest.noregex))
            /\ ks # {} -> [rc |-> "ok", locs |-> Wanted(r.subs, u, r).locs]
       [] OTHER -> IF prefixes # {} THEN inner ELSE [rc |-> "none", locs |-> {here}]

(* The location of a URI is the one the rules give, whatever the order the  *)
(* locations were written in and however the tree came out.                 *)
LocationRight ==
  found # Null =>
    LET w == Wanted(conf, uri, None)
    IN /\ found[1].loc \in w.locs
       /\ found[1].rc = "done" <=> w.rc = "done"
       /\ found[1].rc = "ok" <=> w.rc = "ok"
=============================================================================

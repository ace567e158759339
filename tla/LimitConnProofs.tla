-------------------------- MODULE LimitConnProofs ---------------------------
(***************************************************************************)
(* Proofs about LimitConn for any number of workers, clients, limits, keys *)
(* and nodes: whatever is refused, redirected, closed or lost with its     *)
(* worker, a node counts the clients that will take their count off.       *)
(***************************************************************************)
EXTENDS LimitConn, FiniteSetTheorems, SequenceTheorems, WellFoundedInduction, TLAPS

LEMMA Joins ==
  ASSUME NEW S, IsFiniteSet(S), NEW x, x \notin S
  PROVE  Cardinality(S \cup {x}) = Cardinality(S) + 1 /\ Cardinality(S) \in Nat
  BY FS_AddElement, FS_CardinalityType

LEMMA Leaves ==
  ASSUME NEW S, IsFiniteSet(S), NEW x \in S
  PROVE  Cardinality(S \ {x}) = Cardinality(S) - 1 /\ Cardinality(S) \in Nat \ {0}
  BY FS_RemoveElement, FS_CardinalityType, FS_EmptySet

(* The least element of a set of numbers.                                  *)
LEMMA MinIn ==
  ASSUME NEW S \in SUBSET Nat, S # {}
  PROVE  Min(S) \in S /\ \A y \in S : Min(S) <= y
  <1>1. IsWellFoundedOn(OpToRel(<, Nat), Nat)
    BY NatLessThanWellFounded
  <1>2. PICK x \in S : \A y \in S : ~ (<<y, x>> \in OpToRel(<, Nat))
    <2> DEFINE R == OpToRel(<, Nat)
    <2>1. IsWellFoundedOn(R, Nat)
      BY <1>1
    <2> HIDE DEF R
    <2>2. \E x \in S : \A y \in S : ~ (<<y, x>> \in R)
      BY <2>1, WFMin
    <2>3. QED
      BY <2>2 DEF R
  <1>3. \A y \in S : x <= y
    <2>1. SUFFICES ASSUME NEW y \in S, y < x PROVE FALSE
      OBVIOUS
    <2>2. <<y, x>> \in {ss \in Nat \X Nat : ss[1] < ss[2]}
      BY <2>1
    <2>3. QED
      BY <1>2, <2>2 DEF OpToRel
  <1>4. QED
    BY <1>3 DEF Min

(* An element in front of a sequence.                                      *)
LEMMA InFront ==
  ASSUME NEW S, NEW s \in Seq(S), NEW x \in S
  PROVE  /\ <<x>> \o s \in Seq(S) /\ DOMAIN (<<x>> \o s) = 1..(Len(s) + 1)
         /\ (<<x>> \o s)[1] = x
         /\ \A j \in DOMAIN s : (<<x>> \o s)[j + 1] = s[j]
         /\ \A j \in 2..(Len(s) + 1) : j - 1 \in DOMAIN s /\ (<<x>> \o s)[j] = s[j - 1]
  <1>1. <<x>> \in Seq(S) /\ Len(<<x>>) = 1 /\ <<x>>[1] = x
    OBVIOUS
  <1>2. Len(s) \in Nat /\ DOMAIN s = 1..Len(s)
    OBVIOUS
  <1>3. <<x>> \o s \in Seq(S) /\ Len(<<x>> \o s) = 1 + Len(s)
        /\ \A j \in 1..(1 + Len(s)) : (<<x>> \o s)[j] = IF j <= 1 THEN <<x>>[j] ELSE s[j - 1]
    BY <1>1, <1>2, ConcatProperties
  <1>4. QED
    BY <1>1, <1>2, <1>3

LEMMA WithoutFirst ==
  ASSUME NEW S, NEW s \in Seq(S), s # <<>>
  PROVE  /\ Tail(s) \in Seq(S) /\ Head(s) \in S /\ 1 \in DOMAIN s /\ s[1] = Head(s)
         /\ \A j \in DOMAIN Tail(s) : j + 1 \in DOMAIN s /\ Tail(s)[j] = s[j + 1]
         /\ \A j \in DOMAIN s : j # 1 => j - 1 \in DOMAIN Tail(s) /\ s[j] = Tail(s)[j - 1]
  OBVIOUS

-----------------------------------------------------------------------------
(* About a list of cleanups: a limit is counted once and in the limits'    *)
(* order, so that the cleanups are in the opposite one; they are all of    *)
(* limits below i; one of them is for node n of zone z; the nodes have the *)
(* keys they were counted with.                                            *)
Ordered(s) ==
  \A j, m \in DOMAIN s : j < m /\ s[j] # Other /\ s[m] # Other => s[m].zone < s[j].zone
Below(s, i) == \A j \in DOMAIN s : s[j] # Other => s[j].zone < i
Covers(s, z, n) == \E j \in DOMAIN s : s[j].zone = z /\ s[j].node = n
KeysOf(s, Z) == \A j \in DOMAIN s : s[j] # Other => Z[s[j].zone][s[j].node].key = s[j].key

Fit(C) ==
  /\ C.pc \in {"count", "register"} =>
       C.i \in Zones /\ C.keys[C.i] \in Keys /\ C.set /\ Below(C.cleanup, C.i)
  /\ C.pc = "register" => C.node \in Memory
  /\ C.pc = "gone" => C.cleanup = <<>>
  /\ ~C.set => C.cleanup = <<>>
  /\ Ordered(C.cleanup)

(* Where the client is counted, with which keys.                           *)
Has(C, z, n) ==
  Covers(C.cleanup, z, n) \/ (C.pc = "register" /\ C.i = z /\ C.node = n)

Keyed(C, Z) ==
  /\ KeysOf(C.cleanup, Z)
  /\ C.pc = "register" => Z[C.i][C.node].key = C.keys[C.i]

IInv ==
  /\ TypeOK
  /\ \A c \in Clients : Fit(client[c]) /\ Keyed(client[c], zone)
  /\ CountExact /\ LimitKept /\ RefusedCountsNowhere

LEMMA NodeType ==
  ASSUME NEW N \in Nodes
  PROVE  /\ N.conn \in Nat /\ N.key \in Keys \cup {"free"}
         /\ N.conn = 0 <=> N = Free
         /\ N.conn = 0 <=> N.key = "free"
  BY LimitConnAssumption DEF Nodes, Free

LEMMA CleanupType ==
  ASSUME NEW x \in Cleanups
  PROVE  /\ x # Other => x.zone \in Zones /\ x.node \in Memory /\ x.key \in Keys
         /\ x = Other <=> x.zone = 0
         /\ x = Other => x.zone \notin Zones
         /\ x.zone \in Nat
  BY LimitConnAssumption DEF Cleanups, Other

LEMMA ListFront ==
  ASSUME NEW s \in Seq(Cleanups), NEW x \in Cleanups,
         Ordered(s), x # Other => Below(s, x.zone)
  PROVE  /\ <<x>> \o s \in Seq(Cleanups) /\ Ordered(<<x>> \o s)
         /\ \A i \in Nat : Below(s, i) /\ (x # Other => x.zone < i) => Below(<<x>> \o s, i)
         /\ \A z, n : Covers(<<x>> \o s, z, n) <=> Covers(s, z, n) \/ (x.zone = z /\ x.node = n)
         /\ \A Z : KeysOf(s, Z) /\ (x # Other => Z[x.zone][x.node].key = x.key)
              => KeysOf(<<x>> \o s, Z)
  <1> DEFINE t == <<x>> \o s
  <1>1. /\ t \in Seq(Cleanups) /\ DOMAIN t = 1..(Len(s) + 1) /\ t[1] = x
        /\ \A j \in DOMAIN s : t[j + 1] = s[j]
        /\ \A j \in 2..(Len(s) + 1) : j - 1 \in DOMAIN s /\ t[j] = s[j - 1]
    BY InFront
  <1>2. DOMAIN s = 1..Len(s) /\ Len(s) \in Nat
    OBVIOUS
  <1> HIDE DEF t
  <1>3. \A j \in DOMAIN t : (j = 1 /\ t[j] = x) \/ (j - 1 \in DOMAIN s /\ t[j] = s[j - 1] /\ j > 1)
    BY <1>1, <1>2
  <1>4. \A j \in DOMAIN s : j + 1 \in DOMAIN t /\ t[j + 1] = s[j]
    BY <1>1, <1>2
  <1>5. Ordered(t)
    <2>1. SUFFICES ASSUME NEW j \in DOMAIN t, NEW m \in DOMAIN t, j < m, t[j] # Other, t[m] # Other
                   PROVE  t[m].zone < t[j].zone
      BY DEF Ordered
    <2>2. m - 1 \in DOMAIN s /\ t[m] = s[m - 1] /\ j \in Nat /\ m \in Nat
      BY <1>1, <1>2, <1>3, <2>1
    <2>3. CASE j = 1
      BY <1>1, <2>1, <2>2, <2>3 DEF Below
    <2>4. CASE j # 1
      <3>1. j - 1 \in DOMAIN s /\ t[j] = s[j - 1] /\ j - 1 < m - 1
        BY <1>3, <2>1, <2>2, <2>4
      <3>2. QED
        BY <2>1, <2>2, <3>1 DEF Ordered
    <2>5. QED
      BY <2>3, <2>4
  <1>6. \A i \in Nat : Below(s, i) /\ (x # Other => x.zone < i) => Below(t, i)
    BY <1>3 DEF Below
  <1>7. \A z, n : Covers(t, z, n) <=> Covers(s, z, n) \/ (x.zone = z /\ x.node = n)
    <2>1. 1 \in DOMAIN t
      BY <1>1, <1>2
    <2>2. SUFFICES ASSUME NEW z, NEW n
                   PROVE  Covers(t, z, n) <=> Covers(s, z, n) \/ (x.zone = z /\ x.node = n)
      OBVIOUS
    <2>3. Covers(t, z, n) => Covers(s, z, n) \/ (x.zone = z /\ x.node = n)
      BY <1>3 DEF Covers
    <2>4. Covers(s, z, n) => Covers(t, z, n)
      BY <1>4 DEF Covers
    <2>5. x.zone = z /\ x.node = n => Covers(t, z, n)
      BY <1>1, <2>1 DEF Covers
    <2>6. QED
      BY <2>3, <2>4, <2>5
  <1>8. \A Z : KeysOf(s, Z) /\ (x # Other => Z[x.zone][x.node].key = x.key) => KeysOf(t, Z)
    BY <1>3 DEF KeysOf
  <1>9. QED
    BY <1>1, <1>5, <1>6, <1>7, <1>8 DEF t

LEMMA ListTail ==
  ASSUME NEW s \in Seq(Cleanups), s # <<>>, Ordered(s)
  PROVE  /\ Tail(s) \in Seq(Cleanups) /\ Head(s) \in Cleanups /\ Ordered(Tail(s))
         /\ \A z, n : Covers(s, z, n) <=> Covers(Tail(s), z, n) \/ (Head(s).zone = z /\ Head(s).node = n)
         /\ Head(s) # Other => \A n : ~Covers(Tail(s), Head(s).zone, n)
         /\ \A Z : KeysOf(s, Z) => KeysOf(Tail(s), Z)
                                   /\ (Head(s) # Other => Z[Head(s).zone][Head(s).node].key = Head(s).key)
  <1> DEFINE t == Tail(s)
  <1>1. /\ t \in Seq(Cleanups) /\ Head(s) \in Cleanups /\ 1 \in DOMAIN s /\ s[1] = Head(s)
        /\ \A j \in DOMAIN t : j + 1 \in DOMAIN s /\ t[j] = s[j + 1]
        /\ \A j \in DOMAIN s : j # 1 => j - 1 \in DOMAIN t /\ s[j] = t[j - 1]
    BY WithoutFirst
  <1>2. DOMAIN s \subseteq Nat \ {0} /\ DOMAIN t \subseteq Nat \ {0}
    BY <1>1
  <1> HIDE DEF t
  <1>3. Ordered(t)
    <2>1. \A j, m \in DOMAIN t : j < m => j + 1 < m + 1
      BY <1>2
    <2>2. QED
      BY <1>1, <2>1 DEF Ordered
  <1>4. \A z, n : Covers(s, z, n) <=> Covers(t, z, n) \/ (Head(s).zone = z /\ Head(s).node = n)
    BY ZenonT(120), <1>1 DEF Covers
  <1>5. Head(s) # Other => \A n : ~Covers(t, Head(s).zone, n)
    <2>1. SUFFICES ASSUME Head(s) # Other, NEW j \in DOMAIN t, t[j].zone = Head(s).zone
                   PROVE  FALSE
      BY DEF Covers
    <2>2. t[j] \in Cleanups
      BY <1>1
    <2>3. Head(s).zone \in Zones /\ t[j] # Other
      BY <1>1, <2>1, <2>2, CleanupType
    <2>4. s[j + 1] = t[j] /\ 1 < j + 1 /\ j + 1 \in DOMAIN s
      BY <1>1, <1>2
    <2>5. t[j].zone < Head(s).zone
      BY <1>1, <2>1, <2>3, <2>4 DEF Ordered
    <2>6. QED
      BY <2>1, <2>3, <2>5, LimitConnAssumption
  <1>6. \A Z : KeysOf(s, Z) => KeysOf(t, Z)
                               /\ (Head(s) # Other => Z[Head(s).zone][Head(s).node].key = Head(s).key)
    BY <1>1 DEF KeysOf
  <1>7. QED
    BY <1>1, <1>3, <1>4, <1>5, <1>6 DEF t

(* Who is counted where, after a step of one client.                       *)
LEMMA HoldersAfter ==
  ASSUME TypeOK, NEW c \in Clients, NEW C, client' = [client EXCEPT ![c] = C],
         NEW z, NEW n
  PROVE  /\ Has(C, z, n) => Holders(z, n)' = Holders(z, n) \cup {c}
         /\ ~Has(C, z, n) => Holders(z, n)' = Holders(z, n) \ {c}
         /\ c \in Holders(z, n) <=> Has(client[c], z, n)
  BY DEF TypeOK, Holders, Holds, Has, Covers

LEMMA HoldersFinite ==
  ASSUME NEW z, NEW n
  PROVE  IsFiniteSet(Holders(z, n)) /\ Cardinality(Holders(z, n)) \in Nat
  <1>1. Holders(z, n) \in SUBSET Clients
    BY DEF Holders
  <1>2. QED
    BY <1>1, FS_Subset, FS_CardinalityType, LimitConnAssumption

(* The loop over the limits goes on.                                       *)
LEMMA WentOn ==
  ASSUME NEW C \in ClientStates, NEW i \in Nat \ {0},
         Below(C.cleanup, i)
  PROVE  LET D == GoOn(C, NextLimit(i, C.keys))
         IN /\ D \in ClientStates /\ D.cleanup = C.cleanup /\ D.pc \in {"count", "served"}
            /\ D.worker = C.worker
            /\ C.set \/ C.cleanup = <<>> => D.set \/ D.cleanup = <<>>
            /\ D.pc = "count" => /\ D.i \in Zones /\ D.keys[D.i] \in Keys /\ D.set
                                 /\ Below(D.cleanup, D.i)
  <1>0. NLimits \in Nat /\ Zones = 1..NLimits
    BY LimitConnAssumption
  <1> USE <1>0
  <1> DEFINE left == {z \in i..NLimits : C.keys[z] # NoKey}
             x == NextLimit(i, C.keys)
  <1>1. x \in Nat /\ (x <= NLimits => x \in i..NLimits /\ C.keys[x] # NoKey)
    <2>1. CASE left = {}
      BY <2>1 DEF NextLimit
    <2>2. CASE left # {}
      <3>1. left \in SUBSET Nat
        OBVIOUS
      <3>2. Min(left) \in left
        BY <2>2, <3>1, MinIn
      <3>3. QED
        BY <2>2, <3>2 DEF NextLimit
    <2>3. QED
      BY <2>1, <2>2
  <1>2. C.keys \in [Zones -> Keys \cup {NoKey}] /\ \A j \in DOMAIN C.cleanup : C.cleanup[j] \in Cleanups
    BY DEF ClientStates
  <1> HIDE DEF x
  <1>3. CASE x > NLimits
    <2>1. GoOn(C, x) = [C EXCEPT !.pc = "served"]
      BY <1>3 DEF GoOn
    <2>2. QED
      BY <2>1 DEF ClientStates, x
  <1>4. CASE ~(x > NLimits)
    <2>1. GoOn(C, x) = [C EXCEPT !.pc = "count", !.i = x, !.set = TRUE]
      BY <1>4 DEF GoOn
    <2>2. x \in Zones /\ C.keys[x] \in Keys /\ i <= x /\ x \in Nat
      BY <1>1, <1>2, <1>4
    <2>3. Below(C.cleanup, x)
      BY <1>2, <2>2, CleanupType DEF Below
    <2>4. GoOn(C, x) \in ClientStates
      BY Zenon, <2>1, <2>2 DEF ClientStates
    <2>5. /\ GoOn(C, x).cleanup = C.cleanup /\ GoOn(C, x).pc = "count" /\ GoOn(C, x).set
          /\ GoOn(C, x).worker = C.worker /\ GoOn(C, x).i = x /\ GoOn(C, x).keys = C.keys
      BY <2>1 DEF ClientStates
    <2>6. QED
      BY <2>2, <2>3, <2>4, <2>5 DEF x
  <1>5. QED
    BY <1>1, <1>3, <1>4

(* What is shared by the steps of one client: its own state is well formed *)
(* and the others' nodes keep their keys.                                  *)
LEMMA OneClient ==
  ASSUME IInv, NEW c \in Clients, NEW C \in ClientStates,
         client' = [client EXCEPT ![c] = C],
         busy' \in [Workers -> Clients \cup {Nobody}],
         zone' \in [Zones -> [Memory -> Nodes]], lost' \in [Zones -> [Memory -> Nat]],
         faults' \in Nat, faults' >= faults,
         Fit(C), Keyed(C, zone'),
         \A d \in Clients \ {c} : Keyed(client[d], zone'),
         CountExact', LimitKept',
         faults' = 0 /\ C.pc = "refused" => C.cleanup = <<>> \/ Other \in Range(C.cleanup)
  PROVE  IInv'
  <1>1. TypeOK'
    BY DEF IInv, TypeOK
  <1>2. client'[c] = C /\ \A d \in Clients \ {c} : client'[d] = client[d]
    BY DEF IInv, TypeOK
  <1>3. \A d \in Clients : Fit(client'[d]) /\ Keyed(client'[d], zone')
    BY <1>2 DEF IInv
  <1>4. RefusedCountsNowhere'
    <2>1. SUFFICES ASSUME faults' = 0, NEW d \in Clients, client'[d].pc = "refused",
                          Other \notin Range(client'[d].cleanup)
                   PROVE  client'[d].cleanup = <<>>
      BY DEF RefusedCountsNowhere
    <2>2. faults = 0
      BY <2>1 DEF IInv, TypeOK
    <2>3. QED
      BY <1>2, <2>1, <2>2 DEF IInv, RefusedCountsNowhere
  <1>5. QED
    BY <1>1, <1>3, <1>4 DEF IInv

(* A step that counts nobody.                                              *)
LEMMA Quiet ==
  ASSUME IInv, NEW c \in Clients, NEW C \in ClientStates,
         client' = [client EXCEPT ![c] = C],
         busy' \in [Workers -> Clients \cup {Nobody}],
         UNCHANGED <<zone, faults, lost>>, Fit(C), Keyed(C, zone),
         \A z \in Zones, n \in Memory : Has(C, z, n) <=> Has(client[c], z, n),
         faults = 0 /\ C.pc = "refused" => C.cleanup = <<>> \/ Other \in Range(C.cleanup)
  PROVE  IInv'
  <1>1. \A z \in Zones, n \in Memory : Holders(z, n)' = Holders(z, n)
    <2>1. SUFFICES ASSUME NEW z \in Zones, NEW n \in Memory PROVE Holders(z, n)' = Holders(z, n)
      OBVIOUS
    <2>2. TypeOK
      BY DEF IInv
    <2>3. /\ Has(C, z, n) => Holders(z, n)' = Holders(z, n) \cup {c}
          /\ ~Has(C, z, n) => Holders(z, n)' = Holders(z, n) \ {c}
          /\ c \in Holders(z, n) <=> Has(client[c], z, n)
      BY <2>2, HoldersAfter
    <2>4. Has(C, z, n) <=> Has(client[c], z, n)
      OBVIOUS
    <2>5. QED
      BY <2>3, <2>4
  <1>2. CountExact'
    BY <1>1 DEF IInv, CountExact
  <1>3. LimitKept'
    BY DEF IInv, LimitKept, Lookup
  <1>4. faults' >= faults /\ faults' \in Nat
    BY DEF IInv, TypeOK
  <1>5. zone' \in [Zones -> [Memory -> Nodes]] /\ lost' \in [Zones -> [Memory -> Nat]]
    BY DEF IInv, TypeOK
  <1>6. \A d \in Clients \ {c} : Keyed(client[d], zone')
    BY DEF IInv
  <1>7. QED
    BY <1>2, <1>3, <1>4, <1>5, <1>6, OneClient

LEMMA Handled ==
  ASSUME IInv, NEW c \in Clients, NEW C, Handler(c, C)
  PROVE  /\ client' = [client EXCEPT ![c] = C]
         /\ busy' \in [Workers -> Clients \cup {Nobody}]
  BY DEF Handler, IInv, TypeOK

(* A client without cleanups is counted nowhere.                           *)
LEMMA Clean ==
  ASSUME NEW C, C.cleanup = <<>>, C.pc # "register"
  PROVE  (\A z, n : ~Has(C, z, n)) /\ (\A Z : Keyed(C, Z))
  BY DEF Has, Keyed, Covers, KeysOf

LEMMA Started ==
  ASSUME IInv, NEW c \in Clients, NEW w \in Workers, Start(c, w)
  PROVE  IInv'
  <1> USE LimitConnAssumption
  <1>1. PICK keys \in [Zones -> Keys \cup {NoKey}] :
          Handler(c, GoOn([Gone EXCEPT !.worker = w, !.keys = keys], NextLimit(1, keys)))
    BY DEF Start
  <1> DEFINE B == [Gone EXCEPT !.worker = w, !.keys = keys]
             C == GoOn(B, NextLimit(1, keys))
  <1>2. B \in ClientStates /\ B.cleanup = <<>> /\ B.keys = keys
    <2>1. <<>> \in Seq(Cleanups)
      OBVIOUS
    <2>2. QED
      BY <2>1 DEF Gone, ClientStates
  <1>3. /\ C \in ClientStates /\ C.cleanup = <<>> /\ C.pc \in {"count", "served"}
        /\ C.pc = "count" => C.i \in Zones /\ C.keys[C.i] \in Keys /\ C.set
    <2> HIDE DEF B
    <2>1. Below(B.cleanup, 1)
      BY <1>2 DEF Below
    <2>2. GoOn(B, NextLimit(1, B.keys)) = C
      BY <1>2
    <2>3. QED
      BY <1>2, <2>1, <2>2, WentOn
  <1> HIDE DEF C
  <1>4. Fit(C)
    BY <1>3 DEF Fit, Below, Ordered
  <1>5. client[c].pc = "gone" /\ UNCHANGED <<zone, faults, lost>>
    BY DEF Start
  <1>6. client[c].cleanup = <<>>
    BY <1>5 DEF IInv, Fit
  <1>7. Keyed(C, zone) /\ \A z \in Zones, n \in Memory : Has(C, z, n) <=> Has(client[c], z, n)
    BY <1>3, <1>5, <1>6, Clean
  <1>8. client' = [client EXCEPT ![c] = C] /\ busy' \in [Workers -> Clients \cup {Nobody}]
    BY <1>1, Handled DEF C
  <1>9. QED
    BY <1>3, <1>4, <1>5, <1>7, <1>8, Quiet

LEMMA Redirected ==
  ASSUME IInv, NEW c \in Clients, Redirect(c)
  PROVE  IInv'
  <1> USE LimitConnAssumption
  <1>1. PICK keys \in [Zones -> Keys \cup {NoKey}] :
          Handler(c, GoOn([client[c] EXCEPT !.keys = keys], NextLimit(1, keys)))
    BY DEF Redirect
  <1> DEFINE B == [client[c] EXCEPT !.keys = keys]
             C == GoOn(B, NextLimit(1, keys))
  <1>2. client[c].pc = "served" /\ ~client[c].set /\ UNCHANGED <<zone, faults, lost>>
    BY DEF Redirect
  <1>3. client[c] \in ClientStates /\ client[c].cleanup = <<>>
    BY <1>2 DEF IInv, TypeOK, Fit
  <1>4. B \in ClientStates /\ B.cleanup = <<>> /\ B.keys = keys
    BY <1>3 DEF ClientStates
  <1>5. /\ C \in ClientStates /\ C.cleanup = <<>> /\ C.pc \in {"count", "served"}
        /\ C.pc = "count" => C.i \in Zones /\ C.keys[C.i] \in Keys /\ C.set
    <2> HIDE DEF B
    <2>1. Below(B.cleanup, 1)
      BY <1>4 DEF Below
    <2>2. GoOn(B, NextLimit(1, B.keys)) = C
      BY <1>4
    <2>3. C = GoOn(B, NextLimit(1, B.keys)) /\ 1 \in Nat \ {0} /\ B \in ClientStates
      BY <1>4, <2>2
    <2> HIDE DEF C
    <2>4. QED
      BY <1>4, <2>1, <2>3, WentOn
  <1> HIDE DEF C
  <1>6. Fit(C)
    BY <1>5 DEF Fit, Below, Ordered
  <1>7. Keyed(C, zone) /\ \A z \in Zones, n \in Memory : Has(C, z, n) <=> Has(client[c], z, n)
    BY <1>2, <1>3, <1>5, Clean
  <1>8. client' = [client EXCEPT ![c] = C] /\ busy' \in [Workers -> Clients \cup {Nobody}]
    BY <1>1, Handled DEF C
  <1>9. QED
    BY <1>2, <1>5, <1>6, <1>7, <1>8, Quiet

(* Changing the point the client is at, where nothing is counted.          *)
LEMMA Moved ==
  ASSUME IInv, NEW c \in Clients, client[c].pc # "register",
         NEW p \in {"unwind", "refused", "destroy"}, Handler(c, [client[c] EXCEPT !.pc = p]),
         UNCHANGED <<zone, faults, lost>>,
         p = "refused" => client[c].cleanup = <<>> \/ Other \in Range(client[c].cleanup)
  PROVE  IInv'
  <1> DEFINE C == [client[c] EXCEPT !.pc = p]
  <1>1. client[c] \in ClientStates /\ Fit(client[c]) /\ Keyed(client[c], zone)
    BY DEF IInv, TypeOK
  <1>2. C \in ClientStates
    BY <1>1 DEF ClientStates
  <1>3. C.pc = p /\ C.cleanup = client[c].cleanup /\ C.set = client[c].set
    BY <1>1 DEF ClientStates
  <1>4. client' = [client EXCEPT ![c] = C] /\ busy' \in [Workers -> Clients \cup {Nobody}]
    BY Handled
  <1> HIDE DEF C
  <1>5. Fit(C) /\ Keyed(C, zone)
    BY <1>1, <1>3 DEF Fit, Keyed
  <1>6. \A z \in Zones, n \in Memory : Has(C, z, n) <=> Has(client[c], z, n)
    BY <1>3 DEF Has
  <1>7. C.pc = "refused" => C.cleanup = <<>> \/ Other \in Range(C.cleanup)
    BY <1>3
  <1>8. QED
    BY <1>2, <1>4, <1>5, <1>6, <1>7, Quiet

LEMMA Registered ==
  ASSUME IInv, NEW c \in Clients, Register(c)
  PROVE  IInv'
  <1> USE LimitConnAssumption
  <1> DEFINE K == client[c]
             own == [zone |-> K.i, node |-> K.node, key |-> K.keys[K.i]]
             one == <<own>> \o K.cleanup
  <1>1. PICK more \in {<<>>, <<Other>>} :
          Handler(c, GoOn([K EXCEPT !.cleanup = more \o one], NextLimit(K.i + 1, K.keys)))
    BY DEF Register
  <1>2. K \in ClientStates /\ Fit(K) /\ Keyed(K, zone) /\ K.pc = "register"
        /\ UNCHANGED <<zone, faults, lost>>
    BY DEF IInv, TypeOK, Register, Runs
  <1> DEFINE list == more \o one
             B == [K EXCEPT !.cleanup = list]
             C == GoOn(B, NextLimit(K.i + 1, K.keys))
  <1>3. /\ K.i \in Zones /\ K.i \in Nat /\ K.node \in Memory /\ K.keys[K.i] \in Keys /\ K.set
        /\ K.cleanup \in Seq(Cleanups) /\ Ordered(K.cleanup) /\ Below(K.cleanup, K.i)
        /\ KeysOf(K.cleanup, zone) /\ zone[K.i][K.node].key = K.keys[K.i]
    BY <1>2 DEF Fit, Keyed, ClientStates
  <1> HIDE DEF K
  <1>4. own \in Cleanups /\ own # Other /\ own.zone = K.i /\ own.node = K.node /\ own.key = K.keys[K.i]
    BY <1>3 DEF Cleanups, Other
  <1> HIDE DEF own
  <1>5. /\ one \in Seq(Cleanups) /\ Ordered(one) /\ Below(one, K.i + 1) /\ KeysOf(one, zone)
        /\ \A z, n : Covers(one, z, n) <=> Covers(K.cleanup, z, n) \/ (K.i = z /\ K.node = n)
    <2>1. Below(K.cleanup, K.i + 1)
      <3>1. \A j \in DOMAIN K.cleanup : K.cleanup[j] \in Cleanups
        BY <1>3
      <3>2. QED
        BY <1>3, <3>1, CleanupType DEF Below
    <2>2. K.i + 1 \in Nat /\ K.i < K.i + 1
      BY <1>3
    <2>3. QED
      BY ZenonT(120), <1>3, <1>4, <2>1, <2>2, ListFront
  <1> HIDE DEF one
  <1>6. /\ list \in Seq(Cleanups) /\ Ordered(list) /\ Below(list, K.i + 1) /\ KeysOf(list, zone)
        /\ \A z \in Zones : \A n : Covers(list, z, n) <=> Covers(one, z, n)
    <2>1. CASE more = <<>>
      <3>1. list = one
        BY <1>5, <2>1
      <3>2. QED
        BY <1>5, <3>1
    <2>2. CASE more = <<Other>>
      <3>1. Other \in Cleanups /\ Other.zone = 0 /\ 0 \notin Zones /\ K.i + 1 \in Nat
        BY <1>3 DEF Cleanups, Other
      <3>2. QED
        BY <1>5, <2>2, <3>1, ListFront
    <2>3. QED
      BY <2>1, <2>2
  <1> HIDE DEF list
  <1>7. B \in ClientStates /\ B.cleanup = list /\ B.keys = K.keys /\ B.set
    BY <1>2, <1>3, <1>6 DEF ClientStates
  <1> HIDE DEF B
  <1>8. /\ C \in ClientStates /\ C.cleanup = list /\ C.pc \in {"count", "served"}
        /\ C.set \/ C.cleanup = <<>>
        /\ C.pc = "count" => C.i \in Zones /\ C.keys[C.i] \in Keys /\ C.set /\ Below(C.cleanup, C.i)
    <2>1. C = GoOn(B, NextLimit(K.i + 1, B.keys)) /\ K.i + 1 \in Nat \ {0} /\ Below(B.cleanup, K.i + 1)
      BY <1>3, <1>6, <1>7
    <2> HIDE DEF C
    <2>2. QED
      BY Zenon, <1>7, <2>1, WentOn
  <1> HIDE DEF C
  <1>9. Fit(C) /\ Keyed(C, zone)
    BY <1>6, <1>8 DEF Fit, Keyed
  <1>10. \A z \in Zones, n \in Memory : Has(C, z, n) <=> Has(K, z, n)
    BY <1>2, <1>5, <1>6, <1>8 DEF Has
  <1>11. client' = [client EXCEPT ![c] = C] /\ busy' \in [Workers -> Clients \cup {Nobody}]
    BY <1>1, Handled DEF C, B, list
  <1>12. QED
    BY <1>2, <1>8, <1>9, <1>10, <1>11, Quiet DEF K

(* A client that is counted in a node more.                                *)
LEMMA CountedIn ==
  ASSUME IInv, NEW c \in Clients, Runs(c, "count"),
         NEW n \in Memory, NEW conn, UNCHANGED <<faults, lost>>,
         LET z == client[c].i
             k == client[c].keys[z]
         IN /\ conn = zone[z][n].conn + 1 /\ conn <= Limit[z]
            /\ \/ zone[z][n] = Free /\ Lookup(z, k) = {}
               \/ n \in Lookup(z, k),
         Counted(c, client[c].i, n, conn)
  PROVE  IInv'
  <1> USE LimitConnAssumption
  <1> DEFINE K == client[c]
             z == K.i
             k == K.keys[z]
             C == [K EXCEPT !.pc = "register", !.node = n]
             N == [key |-> k, conn |-> conn]
  <1>1. K \in ClientStates /\ Fit(K) /\ Keyed(K, zone) /\ K.pc = "count" /\ TypeOK
    BY DEF IInv, TypeOK, Runs
  <1>2. z \in Zones /\ k \in Keys /\ K.set /\ Below(K.cleanup, z) /\ Ordered(K.cleanup) /\ KeysOf(K.cleanup, zone)
    BY <1>1 DEF Fit, Keyed
  <1>3. /\ client' = [client EXCEPT ![c] = C] /\ busy' \in [Workers -> Clients \cup {Nobody}]
        /\ zone' = [zone EXCEPT ![z][n] = N]
    BY Handled DEF Counted
  <1>4. /\ C \in ClientStates /\ C.pc = "register" /\ C.i = z /\ C.node = n /\ C.keys = K.keys
        /\ C.set = K.set /\ C.cleanup = K.cleanup
    BY Zenon, <1>1 DEF ClientStates
  <1>5. zone[z][n] \in Nodes
    BY <1>1, <1>2 DEF TypeOK
  <1>6. /\ conn \in Nat \ {0} /\ N \in Nodes /\ conn = zone[z][n].conn + 1 /\ conn <= Limit[z]
        /\ zone[z][n].conn = 0 \/ zone[z][n].key = k
        /\ \A m \in Lookup(z, k) : m = n
    <2>1. conn = zone[z][n].conn + 1 /\ conn <= Limit[z] /\ zone[z][n].conn \in Nat
      BY <1>5, NodeType
    <2>2. CASE zone[z][n] = Free /\ Lookup(z, k) = {}
      BY <1>2, <2>1, <2>2 DEF Nodes, Free
    <2>3. CASE n \in Lookup(z, k)
      <3>1. \A m \in Lookup(z, k) : m = n
        BY <1>2, <2>3 DEF IInv, LimitKept
      <3>2. zone[z][n].key = k
        BY Zenon, <2>3 DEF Lookup
      <3>3. conn \in Nat \ {0}
        BY SMTT(60), <2>1
      <3>4. N \in Nodes
        BY Zenon, <1>2, <3>3 DEF Nodes
      <3>5. QED
        BY Zenon, <2>1, <3>1, <3>2, <3>3, <3>4
    <2>4. QED
      BY Zenon, <2>2, <2>3
  <1> HIDE DEF K, C, N
  <1>7. /\ zone' \in [Zones -> [Memory -> Nodes]] /\ zone'[z][n] = N
        /\ \A y \in Zones, m \in Memory : y # z \/ m # n => zone'[y][m] = zone[y][m]
    BY ZenonT(120), <1>1, <1>2, <1>3, <1>6 DEF TypeOK
  <1>8. N.key = k /\ N.conn = conn
    BY DEF N
  <1>9. \A y \in Zones, m \in Memory : zone[y][m].conn > 0 => zone'[y][m].key = zone[y][m].key
    <2>1. SUFFICES ASSUME NEW y \in Zones, NEW m \in Memory, zone[y][m].conn > 0
                   PROVE  zone'[y][m].key = zone[y][m].key
      OBVIOUS
    <2>2. CASE y = z /\ m = n
      BY <1>6, <1>7, <1>8, <2>1, <2>2
    <2>3. CASE ~(y = z /\ m = n)
      BY Zenon, <1>7, <2>3
    <2>4. QED
      BY <2>2, <2>3
  <1>10. \A y \in Zones, m \in Memory : zone[y][m].key \in Keys => zone'[y][m].key = zone[y][m].key
    <2>1. \A y \in Zones, m \in Memory : zone[y][m] \in Nodes
      BY <1>1 DEF TypeOK
    <2>2. \A y \in Zones, m \in Memory : zone[y][m].key \in Keys => zone[y][m].conn > 0
      BY SMTT(60), <2>1 DEF Nodes, Free
    <2>3. QED
      BY <1>9, <2>2
  <1>11. \A s \in Seq(Cleanups) : KeysOf(s, zone) => KeysOf(s, zone')
    <2>1. SUFFICES ASSUME NEW s \in Seq(Cleanups), KeysOf(s, zone), NEW j \in DOMAIN s, s[j] # Other
                   PROVE  zone'[s[j].zone][s[j].node].key = s[j].key
      BY Zenon DEF KeysOf
    <2>2. s[j] \in Cleanups
      BY <2>1
    <2>3. s[j].zone \in Zones /\ s[j].node \in Memory /\ s[j].key \in Keys
      BY <2>1, <2>2, CleanupType
    <2>4. QED
      BY Zenon, <1>10, <2>1, <2>3 DEF KeysOf
  <1>12. \A d \in Clients \ {c} : Keyed(client[d], zone')
    <2>1. SUFFICES ASSUME NEW d \in Clients \ {c} PROVE Keyed(client[d], zone')
      OBVIOUS
    <2>2. client[d] \in ClientStates /\ Fit(client[d]) /\ Keyed(client[d], zone)
      BY DEF IInv, TypeOK
    <2>3. KeysOf(client[d].cleanup, zone')
      BY Zenon, <1>11, <2>2 DEF Keyed, ClientStates
    <2>4. client[d].pc = "register" => zone'[client[d].i][client[d].node].key = client[d].keys[client[d].i]
      BY Zenon, <1>10, <2>2 DEF Fit, Keyed
    <2>5. QED
      BY Zenon, <2>3, <2>4 DEF Keyed
  <1>13. Fit(C) /\ Keyed(C, zone')
    <2>1. KeysOf(C.cleanup, zone')
      BY <1>1, <1>2, <1>4, <1>11 DEF ClientStates
    <2>2. QED
      BY Zenon, <1>2, <1>4, <1>7, <1>8, <2>1 DEF Fit, Keyed
  <1>14. \A m : ~Has(K, z, m)
    <2>1. SUFFICES ASSUME NEW j \in DOMAIN K.cleanup, K.cleanup[j].zone = z PROVE FALSE
      BY Zenon, <1>1 DEF Has, Covers
    <2>2. K.cleanup[j] \in Cleanups
      BY <1>1 DEF ClientStates
    <2>3. z < z
      BY Zenon, <1>2, <2>1, <2>2, CleanupType DEF Below
    <2>4. QED
      BY <1>2, <2>3
  <1>15. CountExact'
    <2>1. SUFFICES ASSUME NEW y \in Zones, NEW m \in Memory
                   PROVE  zone'[y][m].conn = lost'[y][m] + Cardinality(Holders(y, m)')
      BY DEF CountExact
    <2>2. lost' = lost /\ lost[y][m] \in Nat
      BY <1>1 DEF TypeOK
    <2> DEFINE h == Cardinality(Holders(y, m))
               h1 == Cardinality(Holders(y, m)')
               l == lost[y][m]
    <2>3. IsFiniteSet(Holders(y, m)) /\ h \in Nat
      BY Zenon, HoldersFinite
    <2>4. zone[y][m].conn = l + h
      BY DEF IInv, CountExact
    <2>5. /\ Has(C, y, m) => Holders(y, m)' = Holders(y, m) \cup {c}
          /\ ~Has(C, y, m) => Holders(y, m)' = Holders(y, m) \ {c}
          /\ c \in Holders(y, m) <=> Has(K, y, m)
      BY Zenon, <1>1, <1>3, HoldersAfter DEF K
    <2>6. CASE y = z /\ m = n
      <3>1. Has(C, y, m) /\ c \notin Holders(y, m)
        BY Zenon, <1>4, <1>14, <2>5, <2>6 DEF Has
      <3>2. h1 = h + 1
        BY Zenon, <2>3, <2>5, <3>1, Joins
      <3>3. zone'[y][m].conn = zone[y][m].conn + 1
        BY Zenon, <1>6, <1>7, <1>8, <2>6
      <3>4. lost'[y][m] = l /\ l \in Nat
        BY <2>2
      <3> HIDE DEF h, h1, l
      <3>5. zone'[y][m].conn = l + h1
        BY <2>3, <2>4, <3>2, <3>3, <3>4
      <3>6. QED
        BY <3>4, <3>5 DEF h1
    <2>7. CASE ~(y = z /\ m = n)
      <3>1. Has(C, y, m) <=> Has(K, y, m)
        BY Zenon, <1>1, <1>4, <2>7 DEF Has
      <3>2. Holders(y, m)' = Holders(y, m)
        BY Zenon, <2>5, <3>1
      <3>3. QED
        BY Zenon, <1>7, <2>2, <2>4, <2>7, <3>2
    <2>8. QED
      BY Zenon, <2>6, <2>7
  <1>16. LimitKept'
    <2>1. SUFFICES ASSUME NEW y \in Zones, NEW x \in Keys
                   PROVE  /\ \A a, b \in Lookup(y, x)' : a = b
                          /\ \A a \in Lookup(y, x)' : zone'[y][a].conn <= Limit[y]
      BY DEF LimitKept
    <2>2. /\ \A a, b \in Lookup(y, x) : a = b
          /\ \A a \in Lookup(y, x) : zone[y][a].conn <= Limit[y]
      BY DEF IInv, LimitKept
    <2>3. \A a \in Lookup(y, x)' : a \in Lookup(y, x) \/ (y = z /\ a = n /\ x = k)
      BY ZenonT(120), <1>7, <1>8 DEF Lookup
    <2>4. y = z /\ x = k => \A a \in Lookup(y, x) : a = n
      BY Zenon, <1>6
    <2>5. \A a \in Lookup(y, x)' : zone'[y][a].conn <= Limit[y]
      <3>1. SUFFICES ASSUME NEW a \in Lookup(y, x)' PROVE zone'[y][a].conn <= Limit[y]
        OBVIOUS
      <3>2. CASE y = z /\ a = n
        BY Zenon, <1>6, <1>7, <1>8, <3>2
      <3>3. CASE ~(y = z /\ a = n)
        BY ZenonT(120), <1>7, <2>2, <2>3, <3>3 DEF Lookup
      <3>4. QED
        BY <3>2, <3>3
    <2>6. QED
      BY <2>2, <2>3, <2>4, <2>5
  <1>17. faults' >= faults /\ faults' \in Nat /\ lost' \in [Zones -> [Memory -> Nat]]
    BY <1>1 DEF TypeOK
  <1>18. C.pc # "refused"
    BY Zenon, <1>4
  <1>19. QED
    BY Zenon, <1>3, <1>4, <1>7, <1>12, <1>13, <1>15, <1>16, <1>17, <1>18, OneClient

LEMMA Compared == ASSUME NEW a \in Nat, NEW b \in Nat \ {0} PROVE a >= b \/ a < b
  OBVIOUS

LEMMA Counts ==
  ASSUME IInv, NEW c \in Clients, Count(c)
  PROVE  IInv'
  <1> DEFINE K == client[c]
             z == K.i
             k == K.keys[z]
             free == {n \in Memory : zone[z][n] = Free}
  <1>1. /\ Runs(c, "count") /\ K.pc = "count" /\ z \in Zones /\ k \in Keys /\ TypeOK
        /\ UNCHANGED <<faults, lost>>
    BY Zenon DEF Count, Runs, IInv, Fit
  <1>2. Limit[z] \in Nat \ {0}
    BY <1>1, LimitConnAssumption
  <1>3. CASE Lookup(z, k) = {} /\ free # {} /\ Counted(c, z, Min(free), 1)
    <2>1. free \in SUBSET Nat
      BY LimitConnAssumption
    <2>2. Min(free) \in free
      BY <1>3, <2>1, MinIn
    <2>3. /\ Min(free) \in Memory /\ zone[z][Min(free)] = Free
          /\ 1 = zone[z][Min(free)].conn + 1 /\ 1 <= Limit[z]
      BY <1>2, <2>2 DEF Free
    <2>4. QED
      BY Zenon, <1>1, <1>3, <2>3, CountedIn
  <1>4. CASE Refused(c)
    BY <1>1, <1>4, Moved DEF Refused
  <1>5. ASSUME NEW n \in Lookup(z, k), zone[z][n].conn < Limit[z],
               Counted(c, z, n, zone[z][n].conn + 1)
        PROVE  IInv'
    <2>1. n \in Memory /\ zone[z][n] \in Nodes
      <3>1. n \in Memory
        BY <1>5 DEF Lookup
      <3>2. QED
        BY <1>1, <3>1 DEF TypeOK
    <2>2. zone[z][n].conn + 1 <= Limit[z]
      BY <1>2, <1>5, <2>1, NodeType
    <2>3. QED
      BY Zenon, <1>1, <1>5, <2>1, <2>2, CountedIn
  <1>6. ASSUME NEW n \in Lookup(z, k), zone[z][n].conn >= Limit[z] \/ zone[z][n].conn < Limit[z]
        PROVE  (IF zone[z][n].conn >= Limit[z] THEN Refused(c)
                ELSE Counted(c, z, n, zone[z][n].conn + 1)) => IInv'
    <2>1. CASE zone[z][n].conn >= Limit[z]
      BY Zenon, <2>1, <1>4
    <2>2. CASE ~(zone[z][n].conn >= Limit[z])
      BY Zenon, <2>2, <1>5, <1>6
    <2>3. QED
      BY Zenon, <2>1, <2>2
  <1>7. \A n \in Lookup(z, k) : zone[z][n].conn \in Nat
    BY <1>1, NodeType DEF Lookup, TypeOK
  <1>8. QED
    <2>1. \/ Lookup(z, k) = {} /\ free # {} /\ Counted(c, z, Min(free), 1)
          \/ Lookup(z, k) = {} /\ free = {} /\ Refused(c)
          \/ \E n \in Lookup(z, k) : IF zone[z][n].conn >= Limit[z] THEN Refused(c)
                                     ELSE Counted(c, z, n, zone[z][n].conn + 1)
      BY Zenon DEF Count
    <2>2. CASE \E n \in Lookup(z, k) : IF zone[z][n].conn >= Limit[z] THEN Refused(c)
                                       ELSE Counted(c, z, n, zone[z][n].conn + 1)
      <3>1. PICK n \in Lookup(z, k) : IF zone[z][n].conn >= Limit[z] THEN Refused(c)
                                      ELSE Counted(c, z, n, zone[z][n].conn + 1)
        BY Zenon, <2>2
      <3>2. zone[z][n].conn \in Nat
        BY Zenon, <1>7
      <3>3. zone[z][n].conn >= Limit[z] \/ zone[z][n].conn < Limit[z]
        BY Zenon, <1>2, <3>2, Compared
      <3>4. QED
        BY Zenon, <1>6, <3>1, <3>3
    <2>3. QED
      BY Zenon, <1>3, <1>4, <2>1, <2>2

LEMMA InUse ==
  ASSUME NEW x \in Nodes, x.conn \in Nat \ {0} PROVE x \in [key : Keys, conn : Nat \ {0}]
  BY DEF Nodes, Free

(* A count is taken off: the node stays, with its key, as long as another  *)
(* client is counted in it.                                                *)
LEMMA TakenOff ==
  ASSUME IInv, NEW c \in Clients, client[c].pc \in {"unwind", "destroy"},
         client[c].cleanup # <<>>, NEW x, x = Head(client[c].cleanup), x # Other, Cleanup(x),
         Handler(c, [client[c] EXCEPT !.cleanup = Tail(client[c].cleanup)]), UNCHANGED <<faults, lost>>
  PROVE  IInv'
  <1> DEFINE K == client[c]
             z == x.zone
             n == x.node
             C == [K EXCEPT !.cleanup = Tail(K.cleanup)]
             old == zone[z][n]
             N == IF old.conn = 1 THEN Free ELSE [old EXCEPT !.conn = old.conn - 1]
  <1>1. K \in ClientStates /\ Fit(K) /\ Keyed(K, zone) /\ K.pc \in {"unwind", "destroy"} /\ TypeOK
    BY DEF IInv, TypeOK
  <1>2. /\ K.cleanup \in Seq(Cleanups) /\ K.cleanup # <<>> /\ Ordered(K.cleanup) /\ KeysOf(K.cleanup, zone)
        /\ x # Other
    BY <1>1 DEF ClientStates, Fit, Keyed
  <1>3. /\ client' = [client EXCEPT ![c] = C] /\ busy' \in [Workers -> Clients \cup {Nobody}]
        /\ zone' = [zone EXCEPT ![z][n] = N]
    <2>1. zone' = [zone EXCEPT ![z][n] = N]
      BY Zenon DEF Cleanup
    <2>2. QED
      BY Zenon, <2>1, Handled
  <1>4. /\ Tail(K.cleanup) \in Seq(Cleanups) /\ x \in Cleanups /\ Ordered(Tail(K.cleanup))
        /\ \A y, m : Covers(K.cleanup, y, m) <=> Covers(Tail(K.cleanup), y, m) \/ (z = y /\ n = m)
        /\ \A m : ~Covers(Tail(K.cleanup), z, m)
        /\ KeysOf(Tail(K.cleanup), zone) /\ zone[z][n].key = x.key
    BY Zenon, <1>2, ListTail
  <1>5. z \in Zones /\ n \in Memory /\ x.key \in Keys
    BY Zenon, <1>2, <1>4, CleanupType
  <1>6. /\ C \in ClientStates /\ C.pc = K.pc /\ C.set = K.set /\ C.cleanup = Tail(K.cleanup)
    BY Zenon, <1>1, <1>4 DEF ClientStates
  <1>7. old \in Nodes
    BY <1>1, <1>5 DEF TypeOK
  <1> HIDE DEF K, C
  <1>8. \A y, m : /\ Has(C, y, m) => Holders(y, m)' = Holders(y, m) \cup {c}
                  /\ ~Has(C, y, m) => Holders(y, m)' = Holders(y, m) \ {c}
                  /\ c \in Holders(y, m) <=> Has(K, y, m)
    BY Zenon, <1>1, <1>3, HoldersAfter DEF K
  <1>9. c \in Holders(z, n) /\ Holders(z, n)' = Holders(z, n) \ {c}
    <2>1. Has(K, z, n) /\ ~Has(C, z, n)
      BY ZenonT(120), <1>1, <1>4, <1>6 DEF Has
    <2>2. /\ ~Has(C, z, n) => Holders(z, n)' = Holders(z, n) \ {c}
          /\ c \in Holders(z, n) <=> Has(K, z, n)
      BY <1>8
    <2>3. QED
      BY <2>1, <2>2
  <1>10. \A y, m : y # z \/ m # n => Holders(y, m)' = Holders(y, m)
    <2>1. SUFFICES ASSUME NEW y, NEW m, y # z \/ m # n PROVE Holders(y, m)' = Holders(y, m)
      OBVIOUS
    <2>2. Has(C, y, m) <=> Has(K, y, m)
      BY <1>1, <1>4, <1>6, <2>1 DEF Has
    <2>3. /\ Has(C, y, m) => Holders(y, m)' = Holders(y, m) \cup {c}
          /\ ~Has(C, y, m) => Holders(y, m)' = Holders(y, m) \ {c}
          /\ c \in Holders(y, m) <=> Has(K, y, m)
      BY <1>8
    <2>4. QED
      BY <2>2, <2>3
  <1> DEFINE h == Cardinality(Holders(z, n))
             h1 == Cardinality(Holders(z, n)')
             l == lost[z][n]
  <1>11. h \in Nat \ {0} /\ h1 = h - 1
    <2>1. IsFiniteSet(Holders(z, n))
      BY HoldersFinite
    <2>2. QED
      BY <1>9, <2>1, Leaves
  <1>12. \A d \in Clients \ {c} : d \in Holders(z, n) => h1 > 0
    <2>1. SUFFICES ASSUME NEW d \in Holders(z, n) \ {c} PROVE h1 > 0
      OBVIOUS
    <2>2. IsFiniteSet(Holders(z, n) \ {c})
      BY HoldersFinite, FS_Difference
    <2>3. Cardinality(Holders(z, n) \ {c}) \in Nat \ {0}
      BY <2>1, <2>2, Leaves
    <2>4. h1 \in Nat \ {0}
      BY <1>9, <2>3
    <2> HIDE DEF h1
    <2>5. QED
      BY <2>4
  <1>13. l \in Nat /\ lost' = lost /\ old.conn = l + h
    BY Zenon, <1>1, <1>5 DEF IInv, CountExact, TypeOK
  <1> DEFINE v == old.conn
  <1> HIDE DEF h, h1, l, v
  <1>14. v \in Nat \ {0} /\ v = l + h /\ (h1 > 0 => v # 1)
    <2>1. v = l + h
      BY <1>13 DEF v
    <2>2. QED
      BY <1>11, <1>13, <2>1
  <1>15. N \in Nodes /\ N.conn = v - 1 /\ (v # 1 => N.key = old.key)
    <2>1. CASE v = 1
      BY <2>1 DEF Nodes, Free, v
    <2>2. CASE v # 1
      <3>1. old \in [key : Keys, conn : Nat \ {0}]
        BY Zenon, <1>7, <1>14, InUse DEF v
      <3>2. v - 1 \in Nat \ {0}
        BY <1>14, <2>2
      <3>3. N = [old EXCEPT !.conn = v - 1]
        BY Zenon, <2>2 DEF v
      <3>4. QED
        BY Zenon, <2>2, <3>1, <3>2, <3>3 DEF Nodes
    <2>3. QED
      BY Zenon, <2>1, <2>2
  <1> HIDE DEF N
  <1>16. /\ zone' \in [Zones -> [Memory -> Nodes]] /\ zone'[z][n] = N
         /\ \A y \in Zones, m \in Memory : y # z \/ m # n => zone'[y][m] = zone[y][m]
    BY Zenon, <1>1, <1>3, <1>5, <1>15 DEF TypeOK
  <1>17. CountExact'
    <2>1. SUFFICES ASSUME NEW y \in Zones, NEW m \in Memory
                   PROVE  zone'[y][m].conn = lost'[y][m] + Cardinality(Holders(y, m)')
      BY DEF CountExact
    <2>2. CASE y = z /\ m = n
      <3>1. zone'[y][m].conn = l + h1
        <4>1. v - 1 = l + h1
          BY <1>11, <1>13, <1>14
        <4>2. QED
          BY Zenon, <1>15, <1>16, <2>2, <4>1
      <3>2. lost'[y][m] = l
        BY Zenon, <1>13, <2>2 DEF l
      <3>3. Cardinality(Holders(y, m)') = h1
        <4>1. Holders(y, m)' = Holders(z, n)'
          BY <2>2
        <4>2. QED
          BY <4>1 DEF h1
      <3>4. QED
        BY <3>1, <3>2, <3>3
    <2>3. CASE ~(y = z /\ m = n)
      <3>1. zone'[y][m] = zone[y][m] /\ Holders(y, m)' = Holders(y, m) /\ lost' = lost
        BY Zenon, <1>10, <1>13, <1>16, <2>3
      <3>2. zone[y][m].conn = lost[y][m] + Cardinality(Holders(y, m))
        BY DEF IInv, CountExact
      <3>3. QED
        BY <3>1, <3>2
    <2>4. QED
      BY <2>2, <2>3
  <1>18. \A d \in Clients \ {c}, y \in Zones, m \in Memory :
           d \in Holders(y, m) => zone'[y][m].key = zone[y][m].key
    <2>1. SUFFICES ASSUME NEW d \in Clients \ {c}, NEW y \in Zones, NEW m \in Memory, d \in Holders(y, m)
                   PROVE  zone'[y][m].key = zone[y][m].key
      OBVIOUS
    <2>2. CASE y = z /\ m = n
      BY Zenon, <1>12, <1>14, <1>15, <1>16, <2>1, <2>2
    <2>3. CASE ~(y = z /\ m = n)
      BY <1>16, <2>3
    <2>4. QED
      BY <2>2, <2>3
  <1>19. \A d \in Clients \ {c} : Keyed(client[d], zone')
    <2>1. SUFFICES ASSUME NEW d \in Clients \ {c} PROVE Keyed(client[d], zone')
      OBVIOUS
    <2>2. client[d] \in ClientStates /\ Fit(client[d]) /\ Keyed(client[d], zone)
      BY DEF IInv, TypeOK
    <2>3. ASSUME NEW j \in DOMAIN client[d].cleanup, client[d].cleanup[j] # Other
          PROVE  zone'[client[d].cleanup[j].zone][client[d].cleanup[j].node].key = client[d].cleanup[j].key
      <3> DEFINE y == client[d].cleanup[j].zone
                 m == client[d].cleanup[j].node
      <3>1. client[d].cleanup[j] \in Cleanups
        BY <2>2 DEF ClientStates
      <3>2. y \in Zones /\ m \in Memory
        BY <2>3, <3>1, CleanupType
      <3>3. d \in Holders(y, m)
        BY DEF Holders, Holds
      <3>4. zone[y][m].key = client[d].cleanup[j].key
        BY Zenon, <2>2, <2>3 DEF Keyed, KeysOf
      <3>5. QED
        BY Zenon, <1>18, <3>2, <3>3, <3>4
    <2>4. ASSUME client[d].pc = "register"
          PROVE  zone'[client[d].i][client[d].node].key = client[d].keys[client[d].i]
      <3>1. client[d].i \in Zones /\ client[d].node \in Memory
        BY <2>2, <2>4 DEF Fit
      <3>2. d \in Holders(client[d].i, client[d].node)
        BY <2>4 DEF Holders, Holds
      <3>3. zone[client[d].i][client[d].node].key = client[d].keys[client[d].i]
        BY <2>2, <2>4 DEF Keyed
      <3>4. QED
        BY <1>18, <3>1, <3>2, <3>3
    <2>5. QED
      BY Zenon, <2>3, <2>4 DEF Keyed, KeysOf
  <1>20. KeysOf(C.cleanup, zone')
    <2>1. SUFFICES ASSUME NEW j \in DOMAIN C.cleanup, C.cleanup[j] # Other
                   PROVE  zone'[C.cleanup[j].zone][C.cleanup[j].node].key = C.cleanup[j].key
      BY DEF KeysOf
    <2>2. C.cleanup[j] \in Cleanups
      BY <1>4, <1>6
    <2>3. C.cleanup[j].zone \in Zones /\ C.cleanup[j].node \in Memory
      BY <2>1, <2>2, CleanupType
    <2>4. C.cleanup[j].zone # z
      <3>1. ~Covers(C.cleanup, z, C.cleanup[j].node)
        BY Zenon, <1>4, <1>6
      <3>2. QED
        BY <3>1 DEF Covers
    <2>5. zone'[C.cleanup[j].zone][C.cleanup[j].node] = zone[C.cleanup[j].zone][C.cleanup[j].node]
      BY Zenon, <1>16, <2>3, <2>4
    <2>6. KeysOf(C.cleanup, zone)
      BY Zenon, <1>4, <1>6
    <2>7. QED
      BY Zenon, <2>1, <2>5, <2>6 DEF KeysOf
  <1>21. Fit(C) /\ Keyed(C, zone')
    <2>1. ~C.set => C.cleanup = <<>>
      BY <1>1, <1>2, <1>6 DEF Fit
    <2>2. QED
      BY Zenon, <1>1, <1>4, <1>6, <1>20, <2>1 DEF Fit, Keyed
  <1>22. LimitKept'
    <2>1. \A y \in Zones, m \in Memory :
            zone'[y][m].conn > 0 => /\ zone'[y][m].key = zone[y][m].key
                                    /\ zone[y][m].conn >= zone'[y][m].conn
      <3>1. SUFFICES ASSUME NEW y \in Zones, NEW m \in Memory, zone'[y][m].conn > 0
                     PROVE  /\ zone'[y][m].key = zone[y][m].key
                            /\ zone[y][m].conn >= zone'[y][m].conn
        OBVIOUS
      <3>2. CASE y = z /\ m = n
        <4>1. zone'[y][m] = N /\ zone[y][m] = old /\ zone[y][m].conn = v
          BY Zenon, <1>16, <3>2 DEF v
        <4>2. N.conn > 0 /\ N.conn = v - 1
          BY Zenon, <1>15, <3>1, <4>1
        <4>3. v # 1 /\ v >= v - 1
          BY <1>14, <4>2
        <4>4. N.key = old.key
          BY Zenon, <1>15, <4>3
        <4>5. QED
          BY Zenon, <4>1, <4>2, <4>3, <4>4
      <3>3. CASE ~(y = z /\ m = n)
        <4>1. zone'[y][m] = zone[y][m] /\ zone[y][m] \in Nodes
          BY <1>1, <1>16, <3>3 DEF TypeOK
        <4>2. zone[y][m].conn \in Nat
          BY <4>1, NodeType
        <4>3. QED
          BY <4>1, <4>2
      <3>4. QED
        BY <3>2, <3>3
    <2>2. \A y \in Zones, m \in Memory : zone[y][m].conn \in Nat /\ zone'[y][m].conn \in Nat
      BY <1>1, <1>16, NodeType DEF TypeOK
    <2>3. SUFFICES ASSUME NEW y \in Zones, NEW k \in Keys
                   PROVE  /\ \A a, b \in Lookup(y, k)' : a = b
                          /\ \A a \in Lookup(y, k)' : zone'[y][a].conn <= Limit[y]
      BY DEF LimitKept
    <2>4. /\ \A a, b \in Lookup(y, k) : a = b
          /\ \A a \in Lookup(y, k) : zone[y][a].conn <= Limit[y]
      BY DEF IInv, LimitKept
    <2>5. \A a \in Lookup(y, k)' : a \in Memory /\ a \in Lookup(y, k) /\ zone[y][a].conn >= zone'[y][a].conn
      BY <2>1, <2>2 DEF Lookup
    <2>6. Limit[y] \in Nat
      BY LimitConnAssumption
    <2>7. QED
      BY <2>2, <2>4, <2>5, <2>6
  <1>23. faults' >= faults /\ faults' \in Nat /\ lost' \in [Zones -> [Memory -> Nat]]
    BY <1>1 DEF TypeOK
  <1>24. C.pc # "refused"
    BY <1>1, <1>6
  <1>25. QED
    BY Zenon, <1>3, <1>6, <1>16, <1>17, <1>19, <1>21, <1>22, <1>23, <1>24, OneClient

(* A cleanup of another module is passed over.                             *)
LEMMA PassedOver ==
  ASSUME IInv, NEW c \in Clients, client[c].pc = "destroy",
         client[c].cleanup # <<>>, Head(client[c].cleanup) = Other, UNCHANGED <<zone, faults, lost>>,
         Handler(c, [client[c] EXCEPT !.cleanup = Tail(client[c].cleanup)])
  PROVE  IInv'
  <1> DEFINE K == client[c]
             C == [K EXCEPT !.cleanup = Tail(K.cleanup)]
  <1>1. K \in ClientStates /\ Fit(K) /\ Keyed(K, zone) /\ K.pc = "destroy"
    BY DEF IInv, TypeOK
  <1>2. K.cleanup \in Seq(Cleanups) /\ K.cleanup # <<>> /\ Ordered(K.cleanup) /\ KeysOf(K.cleanup, zone)
        /\ Head(K.cleanup) = Other
    BY <1>1 DEF ClientStates, Fit, Keyed
  <1>3. /\ client' = [client EXCEPT ![c] = C] /\ busy' \in [Workers -> Clients \cup {Nobody}]
    BY Handled
  <1>4. /\ Tail(K.cleanup) \in Seq(Cleanups) /\ Ordered(Tail(K.cleanup))
        /\ \A y, m : Covers(K.cleanup, y, m) <=> Covers(Tail(K.cleanup), y, m) \/ (Other.zone = y /\ Other.node = m)
        /\ KeysOf(Tail(K.cleanup), zone)
    BY <1>2, ListTail
  <1>5. C \in ClientStates /\ C.pc = "destroy" /\ C.cleanup = Tail(K.cleanup) /\ C.set = K.set
    BY <1>1, <1>4 DEF ClientStates
  <1>6. K.set
    BY <1>1, <1>2 DEF Fit
  <1> HIDE DEF K, C
  <1>7. Fit(C) /\ Keyed(C, zone)
    BY <1>4, <1>5, <1>6 DEF Fit, Keyed
  <1>8. Other.zone \notin Zones
    BY LimitConnAssumption DEF Other
  <1>9. \A z \in Zones, n \in Memory : Has(C, z, n) <=> Has(K, z, n)
    BY <1>1, <1>4, <1>5, <1>8 DEF Has
  <1>10. C.pc # "refused"
    BY <1>5
  <1>11. QED
    BY <1>3, <1>5, <1>7, <1>9, <1>10, Quiet DEF K

LEMMA Unwound ==
  ASSUME IInv, NEW c \in Clients, Unwind(c) \/ Close(c) \/ DestroyPool(c)
  PROVE  IInv'
  <1> DEFINE list == client[c].cleanup
  <1>1. client[c] \in ClientStates /\ list \in Seq(Cleanups) /\ Fit(client[c])
    BY DEF IInv, TypeOK, ClientStates
  <1>2. CASE Close(c)
    BY <1>2, Moved DEF Close
  <1>3. CASE Unwind(c)
    <2>1. CASE list # <<>> /\ Head(list) # Other
      BY <1>3, <2>1, TakenOff DEF Unwind, Runs
    <2>2. CASE ~(list # <<>> /\ Head(list) # Other)
      <3>1. list = <<>> \/ Other \in Range(list)
        BY <1>1, <2>2, WithoutFirst DEF Range
      <3>2. QED
        BY <1>3, <2>2, <3>1, Moved DEF Unwind, Runs
    <2>3. QED
      BY <2>1, <2>2
  <1>4. CASE DestroyPool(c)
    <2>1. CASE list = <<>>
      <3>1. client' = [client EXCEPT ![c] = Gone] /\ UNCHANGED <<zone, faults, lost>>
        BY <1>4, <2>1 DEF DestroyPool
      <3>2. busy' \in [Workers -> Clients \cup {Nobody}]
        BY <1>4, <2>1 DEF DestroyPool, IInv, TypeOK
      <3>3. Gone \in ClientStates /\ Gone.cleanup = <<>> /\ Gone.pc = "gone"
        <4>1. <<>> \in Seq(Cleanups)
          OBVIOUS
        <4>2. QED
          BY <4>1 DEF Gone, ClientStates
      <3>4. client[c].pc = "destroy"
        BY <1>4 DEF DestroyPool, Runs
      <3>5. Fit(Gone)
        BY <3>3 DEF Fit, Ordered
      <3>6. Keyed(Gone, zone) /\ \A z \in Zones, n \in Memory : Has(Gone, z, n) <=> Has(client[c], z, n)
        BY <2>1, <3>3, <3>4, Clean
      <3>7. QED
        BY <3>1, <3>2, <3>3, <3>5, <3>6, Quiet
    <2>2. CASE list # <<>> /\ Head(list) # Other
      BY <1>4, <2>2, TakenOff DEF DestroyPool, Runs
    <2>3. CASE list # <<>> /\ Head(list) = Other
      BY <1>4, <2>3, PassedOver DEF DestroyPool, Runs
    <2>4. QED
      BY <2>1, <2>2, <2>3
  <1>5. QED
    BY <1>2, <1>3, <1>4

(* A client that could not leave a cleanup stays counted for good.         *)
LEMMA Unregistered ==
  ASSUME IInv, NEW c \in Clients, RegisterFails(c)
  PROVE  IInv'
  <1>1. PICK z, n : z = client[c].i /\ n = client[c].node
    OBVIOUS
  <1> DEFINE K == client[c]
             C == [K EXCEPT !.pc = "refused"]
  <1>2. /\ K \in ClientStates /\ Fit(K) /\ Keyed(K, zone) /\ K.pc = "register" /\ TypeOK
        /\ z = K.i /\ n = K.node
    BY <1>1 DEF IInv, TypeOK, RegisterFails, Runs
  <1>3. /\ z \in Zones /\ n \in Memory /\ K.set /\ Below(K.cleanup, z) /\ Ordered(K.cleanup)
        /\ KeysOf(K.cleanup, zone) /\ K.cleanup \in Seq(Cleanups)
    BY <1>2 DEF Fit, Keyed, ClientStates
  <1>4. /\ client' = [client EXCEPT ![c] = C] /\ busy' \in [Workers -> Clients \cup {Nobody}]
        /\ faults' = faults + 1 /\ lost' = [lost EXCEPT ![z][n] = @ + 1] /\ zone' = zone
    BY <1>1, Handled DEF RegisterFails
  <1>5. C \in ClientStates /\ C.pc = "refused" /\ C.cleanup = K.cleanup /\ C.set = K.set
    BY <1>2 DEF ClientStates
  <1> HIDE DEF K, C
  <1>6. /\ lost' \in [Zones -> [Memory -> Nat]] /\ lost'[z][n] = lost[z][n] + 1
        /\ \A y \in Zones, m \in Memory : y # z \/ m # n => lost'[y][m] = lost[y][m]
    BY <1>2, <1>3, <1>4 DEF TypeOK
  <1>7. ~Covers(K.cleanup, z, n)
    <2>1. SUFFICES ASSUME NEW j \in DOMAIN K.cleanup, K.cleanup[j].zone = z PROVE FALSE
      BY DEF Covers
    <2>2. K.cleanup[j] \in Cleanups /\ K.cleanup[j] # Other
      BY <1>3, <2>1, CleanupType
    <2>3. z < z
      BY <1>3, <2>1, <2>2 DEF Below
    <2>4. QED
      BY <1>3, <2>3, LimitConnAssumption
  <1>8. Has(K, z, n) /\ ~Has(C, z, n)
    BY <1>2, <1>5, <1>7 DEF Has
  <1>9. \A y, m : y # z \/ m # n => (Has(C, y, m) <=> Has(K, y, m))
    BY <1>2, <1>5 DEF Has
  <1>10. CountExact'
    <2>1. SUFFICES ASSUME NEW y \in Zones, NEW m \in Memory
                   PROVE  zone'[y][m].conn = lost'[y][m] + Cardinality(Holders(y, m)')
      BY DEF CountExact
    <2> DEFINE h == Cardinality(Holders(y, m))
               h1 == Cardinality(Holders(y, m)')
               l == lost[y][m]
    <2>2. zone'[y][m].conn = l + h /\ l \in Nat
      BY <1>2, <1>4 DEF IInv, CountExact, TypeOK
    <2>3. IsFiniteSet(Holders(y, m)) /\ h \in Nat
      BY HoldersFinite
    <2>4. /\ Has(C, y, m) => Holders(y, m)' = Holders(y, m) \cup {c}
          /\ ~Has(C, y, m) => Holders(y, m)' = Holders(y, m) \ {c}
          /\ c \in Holders(y, m) <=> Has(K, y, m)
      BY <1>2, <1>4, HoldersAfter DEF K
    <2>5. CASE y = z /\ m = n
      <3>1. c \in Holders(y, m) /\ Holders(y, m)' = Holders(y, m) \ {c}
        BY <1>8, <2>4, <2>5
      <3>2. h1 = h - 1
        BY <2>3, <3>1, Leaves
      <3>3. lost'[y][m] = l + 1
        BY <1>6, <2>5
      <3> HIDE DEF h, h1, l
      <3>4. lost'[y][m] + h1 = l + h
        BY <2>2, <2>3, <3>2, <3>3
      <3>5. QED
        BY <2>2, <3>4 DEF h1
    <2>6. CASE ~(y = z /\ m = n)
      <3>1. Holders(y, m)' = Holders(y, m)
        BY <1>9, <2>4, <2>6
      <3>2. lost'[y][m] = l
        BY <1>6, <2>6
      <3>3. QED
        BY <2>2, <3>1, <3>2
    <2>7. QED
      BY <2>5, <2>6
  <1>11. LimitKept'
    BY <1>4 DEF IInv, LimitKept, Lookup
  <1>12. Fit(C) /\ Keyed(C, zone')
    BY <1>3, <1>4, <1>5 DEF Fit, Keyed
  <1>13. \A d \in Clients \ {c} : Keyed(client[d], zone')
    BY <1>4 DEF IInv
  <1>14. faults' \in Nat /\ faults' >= faults /\ faults' # 0
    BY <1>2, <1>4 DEF TypeOK
  <1>15. zone' \in [Zones -> [Memory -> Nodes]]
    BY <1>2, <1>4 DEF TypeOK
  <1>16. QED
    BY <1>4, <1>5, <1>6, <1>10, <1>11, <1>12, <1>13, <1>14, <1>15, OneClient

(* The clients of a worker that dies stay counted for good.                *)
LEMMA Crashed ==
  ASSUME IInv, NEW w \in Workers, Crash(w)
  PROVE  IInv'
  <1>1. PICK dead : dead = {c \in Clients : client[c].worker = w}
    OBVIOUS
  <1>2. /\ lost' = [z \in Zones |-> [n \in Memory |-> lost[z][n] + Cardinality(Holders(z, n) \cap dead)]]
        /\ client' = [c \in Clients |-> IF c \in dead THEN Gone ELSE client[c]]
        /\ busy' = [busy EXCEPT ![w] = Nobody] /\ zone' = zone /\ faults' = faults + 1
    BY <1>1 DEF Crash
  <1>3. TypeOK
    BY DEF IInv
  <1>4. Gone \in ClientStates /\ Gone.cleanup = <<>> /\ Gone.pc = "gone"
    <2>1. <<>> \in Seq(Cleanups)
      OBVIOUS
    <2>2. QED
      BY <2>1 DEF Gone, ClientStates
  <1>5. \A c \in Clients : client'[c] = IF c \in dead THEN Gone ELSE client[c]
    BY <1>2
  <1>6. \A z, n : IsFiniteSet(Holders(z, n)) /\ IsFiniteSet(Holders(z, n) \cap dead)
    <2>1. SUFFICES ASSUME NEW z, NEW n
                   PROVE  IsFiniteSet(Holders(z, n)) /\ IsFiniteSet(Holders(z, n) \cap dead)
      OBVIOUS
    <2>2. Holders(z, n) \cap dead \in SUBSET Holders(z, n)
      OBVIOUS
    <2>3. QED
      BY <2>2, HoldersFinite, FS_Subset
  <1>7. TypeOK'
    <2>1. client' \in [Clients -> ClientStates]
      BY <1>2, <1>3, <1>4 DEF TypeOK
    <2>2. busy' \in [Workers -> Clients \cup {Nobody}] /\ faults' \in Nat /\ zone' \in [Zones -> [Memory -> Nodes]]
      BY <1>2, <1>3 DEF TypeOK
    <2>3. lost' \in [Zones -> [Memory -> Nat]]
      <3>1. \A z \in Zones, n \in Memory : lost[z][n] + Cardinality(Holders(z, n) \cap dead) \in Nat
        <4>1. SUFFICES ASSUME NEW z \in Zones, NEW n \in Memory
                       PROVE  lost[z][n] + Cardinality(Holders(z, n) \cap dead) \in Nat
          OBVIOUS
        <4>2. Cardinality(Holders(z, n) \cap dead) \in Nat
          BY <1>6, FS_CardinalityType
        <4>3. lost[z][n] \in Nat
          BY <1>3 DEF TypeOK
        <4>4. QED
          BY <4>2, <4>3
      <3>2. QED
        BY <1>2, <3>1
    <2>4. QED
      BY <2>1, <2>2, <2>3 DEF TypeOK
  <1>8. \A c \in Clients : Fit(client'[c]) /\ Keyed(client'[c], zone')
    <2>1. Fit(Gone) /\ Keyed(Gone, zone)
      BY <1>4, Clean DEF Fit, Ordered
    <2>2. QED
      BY <1>2, <1>5, <2>1 DEF IInv
  <1>9. CountExact'
    <2>1. SUFFICES ASSUME NEW z \in Zones, NEW n \in Memory
                   PROVE  zone'[z][n].conn = lost'[z][n] + Cardinality(Holders(z, n)')
      BY DEF CountExact
    <2> DEFINE H == Holders(z, n)
               a == Cardinality(H)
               b == Cardinality(H \cap dead)
               l == lost[z][n]
    <2>2. Holders(z, n)' = H \ dead
      BY <1>4, <1>5 DEF Holders, Holds
    <2>3. Cardinality(H \ dead) = a - b /\ a \in Nat /\ b \in Nat
      BY <1>6, FS_Difference, FS_CardinalityType
    <2>4. lost'[z][n] = l + b /\ l \in Nat
      BY <1>2, <1>3 DEF TypeOK
    <2>5. zone'[z][n].conn = l + a
      BY <1>2 DEF IInv, CountExact
    <2> HIDE DEF a, b, l
    <2>6. Cardinality(Holders(z, n)') = a - b
      BY <2>2, <2>3
    <2>7. QED
      BY <2>3, <2>4, <2>5, <2>6
  <1>10. LimitKept'
    BY <1>2 DEF IInv, LimitKept, Lookup
  <1>11. RefusedCountsNowhere'
    <2>1. faults' # 0
      BY <1>2, <1>3 DEF TypeOK
    <2>2. QED
      BY <2>1 DEF RefusedCountsNowhere
  <1>12. QED
    BY <1>7, <1>8, <1>9, <1>10, <1>11 DEF IInv

-----------------------------------------------------------------------------
LEMMA InitIInv ==
  ASSUME Init
  PROVE  IInv
  <1> USE DEF Init
  <1>1. Gone \in ClientStates /\ Gone.cleanup = <<>> /\ Gone.pc = "gone"
    <2>1. <<>> \in Seq(Cleanups)
      OBVIOUS
    <2>2. QED
      BY <2>1 DEF Gone, ClientStates
  <1>2. TypeOK
    BY <1>1 DEF TypeOK, Nodes
  <1>3. \A c \in Clients : Fit(client[c]) /\ Keyed(client[c], zone)
    <2>1. Fit(Gone) /\ Keyed(Gone, zone)
      BY <1>1, Clean DEF Fit, Ordered
    <2>2. QED
      BY <2>1
  <1>4. \A z, n : Holders(z, n) = {}
    BY <1>1 DEF Holders, Holds
  <1>5. CountExact
    <2>1. \A z \in Zones, n \in Memory : zone[z][n].conn = 0 /\ lost[z][n] = 0
      BY DEF Free
    <2>2. Cardinality({}) = 0
      BY FS_EmptySet
    <2>3. \A z, n : Cardinality(Holders(z, n)) = 0
      BY <1>4, <2>2
    <2>4. QED
      BY <2>1, <2>3 DEF CountExact
  <1>6. LimitKept
    <2>1. \A z \in Zones, k \in Keys : Lookup(z, k) = {}
      BY DEF Lookup, Free
    <2>2. QED
      BY <2>1 DEF LimitKept
  <1>7. RefusedCountsNowhere
    BY <1>1 DEF RefusedCountsNowhere
  <1>8. QED
    BY <1>2, <1>3, <1>5, <1>6, <1>7 DEF IInv

LEMMA IInvPreserved ==
  ASSUME IInv, [Next]_vars
  PROVE  IInv'
  <1>1. CASE UNCHANGED vars
    <2>1. zone' = zone /\ client' = client /\ busy' = busy /\ faults' = faults /\ lost' = lost
      BY <1>1 DEF vars
    <2>2. TypeOK' /\ \A c \in Clients : Fit(client'[c]) /\ Keyed(client'[c], zone')
      BY <2>1 DEF IInv, TypeOK
    <2>3. \A z, n : Holders(z, n)' = Holders(z, n)
      BY <2>1 DEF Holders, Holds
    <2>4. CountExact'
      BY <2>1, <2>3 DEF IInv, CountExact
    <2>5. LimitKept' /\ RefusedCountsNowhere'
      BY <2>1 DEF IInv, LimitKept, Lookup, RefusedCountsNowhere
    <2>6. QED
      BY <2>2, <2>4, <2>5 DEF IInv
  <1>2. CASE Next
    BY <1>2, Started, Redirected, Counts, Registered, Unregistered, Unwound, Crashed DEF Next
  <1>3. QED
    BY <1>1, <1>2

LEMMA IInvImplies ==
  ASSUME IInv
  PROVE  CountsSound
  <1>1. TypeOK /\ CountExact /\ LimitKept /\ RefusedCountsNowhere
    BY DEF IInv
  <1>2. NodeKept
    BY DEF IInv, Keyed, KeysOf, NodeKept
  <1>3. CountedOnce
    <2>1. SUFFICES ASSUME NEW c \in Clients, NEW j \in DOMAIN client[c].cleanup,
                          client[c].cleanup[j] # Other
                   PROVE  /\ \A m \in DOMAIN client[c].cleanup :
                               client[c].cleanup[j].zone = client[c].cleanup[m].zone => j = m
                          /\ client[c].pc = "register" => client[c].cleanup[j].zone # client[c].i
      <3>1. ASSUME NEW c \in Clients, NEW j \in DOMAIN client[c].cleanup,
                   client[c].cleanup[j] = Other, client[c].pc = "register"
            PROVE  client[c].cleanup[j].zone # client[c].i
        BY <3>1, LimitConnAssumption DEF IInv, Fit, Other
      <3>2. QED
        BY <3>1 DEF CountedOnce
    <2> DEFINE s == client[c].cleanup
    <2>2. s \in Seq(Cleanups) /\ Fit(client[c])
      BY <1>1 DEF IInv, TypeOK, ClientStates
    <2>3. s[j] \in Cleanups /\ s[j] # Other
      BY <2>1, <2>2
    <2>4. s[j].zone \in Zones /\ s[j].zone \in Nat
      BY <2>3, CleanupType
    <2>5. ASSUME NEW m \in DOMAIN s, s[j].zone = s[m].zone, j # m PROVE FALSE
      <3>1. s[m] \in Cleanups
        BY <2>2
      <3>2. s[m] # Other /\ j \in Nat /\ m \in Nat
        BY <2>2, <2>4, <2>5, <3>1, CleanupType
      <3>3. j < m \/ m < j
        BY <2>5, <3>2
      <3>4. s[j].zone < s[j].zone
        BY <2>2, <2>3, <2>5, <3>2, <3>3 DEF Fit, Ordered
      <3>5. QED
        BY <2>4, <3>4
    <2>6. client[c].pc = "register" => s[j].zone < client[c].i /\ client[c].i \in Nat
      BY <2>2, <2>3, LimitConnAssumption DEF Fit, Below
    <2>7. QED
      BY <2>4, <2>5, <2>6
  <1>4. QED
    BY <1>1, <1>2, <1>3 DEF CountsSound

(* Whatever clients, limits and nodes there are, and whatever is refused,  *)
(* redirected or dies: a node counts exactly the clients that hold it      *)
(* (ngx_http_limit_conn_handler(), ngx_http_limit_conn_cleanup()), no key  *)
(* is served beyond its limit, and a node is never freed under a client.   *)
THEOREM CountsKept == Spec => []CountsSound
  <1>1. Init => IInv
    BY InitIInv
  <1>2. IInv /\ [Next]_vars => IInv'
    BY IInvPreserved
  <1>3. IInv => CountsSound
    BY IInvImplies
  <1>4. QED
    BY <1>1, <1>2, <1>3, PTL DEF Spec
=============================================================================

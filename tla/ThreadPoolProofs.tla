-------------------------- MODULE ThreadPoolProofs -------------------------
(***************************************************************************)
(* Proofs about ThreadPool for any number of threads and tasks, any        *)
(* interleaving and any spurious wake-ups: every post of a task leads to   *)
(* one run and one completion, tp->waiting is exact, and the mutex is not  *)
(* destroyed under a thread.                                               *)
(***************************************************************************)
EXTENDS ThreadPool, FiniteSetTheorems, SequenceTheorems, TLAPS

(* One element more or less in a finite set.                               *)
LEMMA Joins ==
  ASSUME NEW S, IsFiniteSet(S), NEW x, x \notin S
  PROVE  Cardinality(S \cup {x}) = Cardinality(S) + 1 /\ Cardinality(S) \in Nat
  BY FS_AddElement, FS_CardinalityType

LEMMA Leaves ==
  ASSUME NEW S, IsFiniteSet(S), NEW x \in S
  PROVE  Cardinality(S \ {x}) = Cardinality(S) - 1 /\ Cardinality(S) \in Nat \ {0}
  BY FS_RemoveElement, FS_CardinalityType, FS_EmptySet

(* How often k is in a sequence, when one element is added or taken.       *)
LEMMA CountType ==
  ASSUME NEW S, NEW s \in Seq(S), NEW k
  PROVE  IsFiniteSet({n \in DOMAIN s : s[n] = k}) /\ Count(s, k) \in Nat
  <1>1. IsFiniteSet(1..Len(s))
    BY FS_Interval
  <1>2. {n \in DOMAIN s : s[n] = k} \in SUBSET (1..Len(s))
    OBVIOUS
  <1>3. QED
    BY <1>1, <1>2, FS_Subset, FS_CardinalityType DEF Count

LEMMA CountEmpty ==
  ASSUME NEW k
  PROVE  Count(<<>>, k) = 0
  BY FS_EmptySet DEF Count

LEMMA CountAppend ==
  ASSUME NEW S, NEW s \in Seq(S), NEW x \in S, NEW k
  PROVE  Count(Append(s, x), k) = Count(s, k) + (IF x = k THEN 1 ELSE 0)
  <1> DEFINE A == {n \in DOMAIN s : s[n] = k}
             B == {n \in DOMAIN Append(s, x) : Append(s, x)[n] = k}
  <1>1. B = IF x = k THEN A \cup {Len(s) + 1} ELSE A
    OBVIOUS
  <1>2. Len(s) + 1 \notin A
    OBVIOUS
  <1>3. IsFiniteSet(A)
    BY CountType
  <1> HIDE DEF A, B
  <1>4. Cardinality(B) = Cardinality(A) + (IF x = k THEN 1 ELSE 0) /\ Cardinality(A) \in Nat
    BY <1>1, <1>2, <1>3, Joins, FS_CardinalityType
  <1>5. QED
    BY <1>4 DEF Count, A, B

LEMMA CountTail ==
  ASSUME NEW S, NEW s \in Seq(S), s # <<>>, NEW k
  PROVE  Count(s, k) = Count(Tail(s), k) + (IF Head(s) = k THEN 1 ELSE 0)
  <1> DEFINE A == {n \in DOMAIN s : s[n] = k}
             B == {n \in DOMAIN Tail(s) : Tail(s)[n] = k}
             C == A \ {1}
             f == [n \in B |-> n + 1]
  <1>1. Len(s) \in Nat \ {0} /\ Len(Tail(s)) = Len(s) - 1
        /\ \A n \in 1..Len(Tail(s)) : Tail(s)[n] = s[n + 1]
    OBVIOUS
  <1>2. \A n \in B : n \in Nat /\ n + 1 \in C
    BY <1>1
  <1>3. \A m \in C : m - 1 \in B /\ m \in Int
    BY <1>1
  <1>4. f \in Bijection(B, C)
    <2>1. f \in [B -> C] /\ \A n \in B : f[n] = n + 1
      BY <1>2
    <2>2. \A n, m \in B : f[n] = f[m] => n = m
      BY <1>2, <2>1
    <2>3. ASSUME NEW m \in C PROVE \E n \in B : f[n] = m
      <3>1. m - 1 \in B /\ f[m - 1] = m
        BY <1>3, <2>1
      <3>2. QED
        BY <3>1
    <2>4. QED
      BY <2>1, <2>2, <2>3 DEF Bijection, Injection, Surjection, IsInjective
  <1>5. IsFiniteSet(A) /\ IsFiniteSet(B)
    BY CountType, Tail(s) \in Seq(S)
  <1>6. Cardinality(C) = Cardinality(B)
    BY ZenonT(120), <1>4, <1>5, FS_Bijection DEF ExistsBijection
  <1>7. 1 \in A <=> Head(s) = k
    BY <1>1
  <1> HIDE DEF A, B
  <1>8. Cardinality(A) = Cardinality(B) + (IF Head(s) = k THEN 1 ELSE 0)
    <2>1. CASE 1 \in A
      BY <1>5, <1>6, <1>7, <2>1, Leaves
    <2>2. CASE 1 \notin A
      <3>1. C = A
        BY <2>2
      <3>2. Cardinality(A) \in Nat
        BY <1>5, FS_CardinalityType
      <3>3. Cardinality(A) = Cardinality(B)
        BY <1>6, <3>1
      <3>4. QED
        BY <1>7, <2>2, <3>2, <3>3
    <2>3. QED
      BY <2>1, <2>2
  <1>9. QED
    BY <1>8 DEF Count, A, B

-----------------------------------------------------------------------------
Pushers(k) == {t \in Threads : th[t] = "push" /\ cur[t] = k}
Exited == {t \in Threads : th[t] = "exited"}

(* A thread has a task from taking it until it has pushed it, and the      *)
(* thread that ran an exit task keeps it.                                  *)
Shape ==
  /\ \A t \in Threads :
       CASE th[t] = "run" -> cur[t] \in Tasks \cup {Exit}
         [] th[t] = "push" -> cur[t] \in Tasks
         [] th[t] = "exited" -> cur[t] = Exit
         [] OTHER -> cur[t] = NoTask
  /\ main # "walk" => local = <<>>
  /\ main = "spin" => left > 0
  /\ lock => main = "spin"

(* What RunsATask, WaitingExact and QueueBound rest on.                    *)
Waiting == WaitingExact /\ waiting <= MaxQueue

(* A task is where active says, and was run as often as it was completed   *)
(* or waits to be: what OnePlace rests on.                                 *)
TaskPlaced(k) ==
  /\ Places(k) = IF k \in active THEN 1 ELSE 0
  /\ posted[k] = completed[k] + Places(k)
  /\ ran[k] = completed[k] + Cardinality(Pushers(k)) + Count(done, k) + Count(local, k)

(* The exit task is somewhere exactly while the destroying thread spins on *)
(* the lock; as many threads have gone as exit tasks were run.             *)
ExitPlaced ==
  /\ Places(Exit) = IF lock THEN 1 ELSE 0
  /\ main \in {"destroy", "spin", "destroyed"} =>
       Cardinality(Exited) = Cardinality(Threads) - left + (IF main = "spin" /\ ~lock THEN 1 ELSE 0)
  /\ main \in {"loop", "handler", "walk"} => Exited = {}
  /\ main = "destroyed" => left = 0

IInv == TypeOK /\ Shape /\ Waiting /\ (\A k \in Tasks : TaskPlaced(k)) /\ ExitPlaced

(* All the sets that are counted are finite.                               *)
LEMMA FiniteSets ==
  ASSUME TypeOK, NEW k
  PROVE  /\ IsFiniteSet(Looking) /\ Cardinality(Looking) \in Nat
         /\ IsFiniteSet(Carriers(k)) /\ Cardinality(Carriers(k)) \in Nat
         /\ IsFiniteSet(Pushers(k)) /\ Cardinality(Pushers(k)) \in Nat
         /\ IsFiniteSet(Exited) /\ Cardinality(Exited) \in Nat
         /\ Count(queue, k) \in Nat /\ Count(done, k) \in Nat /\ Count(local, k) \in Nat
         /\ Cardinality(Threads) \in Nat
  <1>1. /\ Looking \in SUBSET Threads /\ Carriers(k) \in SUBSET Threads
        /\ Pushers(k) \in SUBSET Threads /\ Exited \in SUBSET Threads /\ Threads \in SUBSET Threads
    BY DEF Looking, Carriers, Pushers, Exited
  <1>2. \A S \in SUBSET Threads : IsFiniteSet(S) /\ Cardinality(S) \in Nat
    BY FS_Subset, FS_CardinalityType, PoolAssumption
  <1>3. Count(queue, k) \in Nat /\ Count(done, k) \in Nat /\ Count(local, k) \in Nat
    BY CountType DEF TypeOK
  <1>4. QED
    BY <1>1, <1>2, <1>3

(* A signal at most wakes one thread that waits.                           *)
LEMMA Signaled ==
  ASSUME TypeOK, Signal
  PROVE  /\ th' \in [Threads -> States]
         /\ \A t \in Threads : th'[t] = th[t] \/ (th[t] = "wait" /\ th'[t] = "awake")
  <1>1. CASE UNCHANGED th
    BY <1>1 DEF TypeOK
  <1>2. ASSUME NEW t \in Threads, th[t] = "wait", th' = [th EXCEPT ![t] = "awake"]
        PROVE  /\ th' \in [Threads -> States]
               /\ \A u \in Threads : th'[u] = th[u] \/ (th[u] = "wait" /\ th'[u] = "awake")
    BY <1>2 DEF TypeOK, States
  <1>3. QED
    BY <1>1, <1>2 DEF Signal

(* A thread that looks for a task takes the first or waits.                *)
LEMMA Took ==
  ASSUME TypeOK, NEW t \in Threads, TakeOrWait(t)
  PROVE  /\ queue' \in Seq(Tasks \cup {Exit}) /\ th' \in [Threads -> States]
         /\ cur' \in [Threads -> Tasks \cup {Exit, NoTask}]
         /\ \/ /\ queue = <<>> /\ queue' = queue /\ cur' = cur
               /\ th' = [th EXCEPT ![t] = "wait"]
            \/ /\ queue # <<>> /\ queue' = Tail(queue) /\ Head(queue) \in Tasks \cup {Exit}
               /\ cur' = [cur EXCEPT ![t] = Head(queue)]
               /\ th' = [th EXCEPT ![t] = "run"]
  <1>1. CASE queue = <<>>
    BY <1>1 DEF TakeOrWait, TypeOK, States
  <1>2. CASE queue # <<>>
    <2>1. Head(queue) \in Tasks \cup {Exit} /\ Tail(queue) \in Seq(Tasks \cup {Exit})
      BY <1>2 DEF TypeOK
    <2>2. /\ queue' = Tail(queue) /\ cur' = [cur EXCEPT ![t] = Head(queue)]
          /\ th' = [th EXCEPT ![t] = "run"]
      BY <1>2 DEF TakeOrWait
    <2>3. th' \in [Threads -> States]
      BY <2>2 DEF TypeOK, States
    <2>4. cur' \in [Threads -> Tasks \cup {Exit, NoTask}]
      BY <2>1, <2>2 DEF TypeOK
    <2>5. QED
      BY <1>2, <2>1, <2>2, <2>3, <2>4
  <1>3. QED
    BY <1>1, <1>2

(* A task or an exit task has been run.                                    *)
LEMMA Ran ==
  ASSUME TypeOK, Shape, NEW t \in Threads, Run(t)
  PROVE  /\ th' \in [Threads -> States] /\ ran' \in [Tasks -> Nat]
         /\ \/ /\ cur[t] = Exit /\ lock' = FALSE /\ ran' = ran
               /\ th' = [th EXCEPT ![t] = "exited"]
            \/ /\ cur[t] \in Tasks /\ cur[t] # Exit /\ lock' = lock
               /\ ran' = [ran EXCEPT ![cur[t]] = @ + 1]
               /\ th' = [th EXCEPT ![t] = "push"]
  <1>1. cur[t] \in Tasks \cup {Exit}
    BY DEF Run, Shape
  <1>2. CASE cur[t] = Exit
    BY <1>2 DEF Run, TypeOK, States
  <1>3. CASE cur[t] # Exit
    <2>1. /\ lock' = lock /\ ran' = [ran EXCEPT ![cur[t]] = @ + 1]
          /\ th' = [th EXCEPT ![t] = "push"] /\ cur[t] \in Tasks
      BY <1>1, <1>3 DEF Run
    <2>2. th' \in [Threads -> States]
      BY <2>1 DEF TypeOK, States
    <2>3. ran' \in [Tasks -> Nat]
      BY <2>1 DEF TypeOK
    <2>4. QED
      BY <1>3, <2>1, <2>2, <2>3
  <1>4. QED
    BY <1>2, <1>3

(* The actions keep the variables in their types.                          *)
LEMMA TypePreserved ==
  ASSUME TypeOK, Shape, [Next]_vars
  PROVE  TypeOK'
  <1> USE PoolAssumption DEF TypeOK, shared, history
  <1>1. ASSUME NEW k \in Tasks, Post(k) PROVE TypeOK'
    <2>1. th' \in [Threads -> States]
      BY <1>1, Signaled DEF Post, Enqueue
    <2>2. queue' \in Seq(Tasks \cup {Exit}) /\ waiting' \in Int /\ active' \subseteq Tasks \cup {Exit}
      BY <1>1 DEF Post, Enqueue
    <2>3. posted' \in [Tasks -> Nat]
      BY <1>1 DEF Post
    <2>4. QED
      BY <1>1, <2>1, <2>2, <2>3 DEF Post
  <1>2. CASE Notified
    BY <1>2 DEF Notified
  <1>3. CASE TakeDone
    BY <1>3 DEF TakeDone
  <1>4. CASE Complete
    BY SMTT(60), <1>4 DEF Complete
  <1>5. CASE WalkEnd \/ Destroy \/ GiveUp \/ Destroyed
    BY SMTT(60), <1>5, FS_CardinalityType DEF WalkEnd, Destroy, GiveUp, Destroyed
  <1>6. CASE PostExit
    <2>1. th' \in [Threads -> States]
      BY <1>6, Signaled DEF PostExit, Enqueue
    <2>2. queue' \in Seq(Tasks \cup {Exit}) /\ waiting' \in Int /\ active' \subseteq Tasks \cup {Exit}
      BY <1>6 DEF PostExit, Enqueue
    <2>3. QED
      BY <1>6, <2>1, <2>2 DEF PostExit
  <1>7. CASE Spin
    BY SMTT(60), <1>7 DEF Spin, Shape
  <1>8. ASSUME NEW t \in Threads, Enter(t) \/ Recheck(t) PROVE TypeOK'
    <2>1. TakeOrWait(t) /\ waiting' \in Int
      BY <1>8 DEF Enter, Recheck
    <2>2. /\ queue' \in Seq(Tasks \cup {Exit}) /\ th' \in [Threads -> States]
          /\ cur' \in [Threads -> Tasks \cup {Exit, NoTask}]
      BY <2>1, Took
    <2>3. QED
      BY <1>8, <2>1, <2>2 DEF Enter, Recheck
  <1>9. ASSUME NEW t \in Threads, WakeSpurious(t) PROVE TypeOK'
    BY <1>9 DEF WakeSpurious, States
  <1>10. ASSUME NEW t \in Threads, Run(t) PROVE TypeOK'
    <2>1. th' \in [Threads -> States] /\ ran' \in [Tasks -> Nat] /\ lock' \in BOOLEAN
      BY <1>10, Ran
    <2>2. QED
      BY <1>10, <2>1 DEF Run
  <1>11. ASSUME NEW t \in Threads, Push(t) PROVE TypeOK'
    <2>1. cur[t] \in Tasks
      BY <1>11 DEF Push, Shape
    <2>2. done' \in Seq(Tasks) /\ th' \in [Threads -> States]
      BY <1>11, <2>1 DEF Push, States
    <2>3. cur' \in [Threads -> Tasks \cup {Exit, NoTask}]
      BY <1>11 DEF Push
    <2>4. QED
      BY <1>11, <2>2, <2>3 DEF Push
  <1>12. ASSUME NEW t \in Threads, Notify(t) PROVE TypeOK'
    BY <1>12 DEF Notify, States
  <1>13. CASE UNCHANGED vars
    BY <1>13 DEF vars
  <1>14. QED
    BY <1>1, <1>2, <1>3, <1>4, <1>5, <1>6, <1>7, <1>8, <1>9, <1>10, <1>11, <1>12, <1>13
       DEF Next, MainStep, ThreadStep

LEMMA ShapePreserved ==
  ASSUME TypeOK, Shape, [Next]_vars
  PROVE  Shape'
  <1> USE PoolAssumption DEF TypeOK, Shape, shared, history
  <1>1. ASSUME NEW k \in Tasks, Post(k) PROVE Shape'
    BY ZenonT(120), <1>1 DEF Post, Enqueue, Signal, States
  <1>2. CASE Notified \/ TakeDone
    <2>1. UNCHANGED <<th, cur, left, lock>> /\ lock = FALSE
      BY <1>2 DEF Notified, TakeDone
    <2>2. main' # "spin" /\ (main' # "walk" => local' = <<>>)
      BY <1>2 DEF Notified, TakeDone
    <2>3. QED
      BY <2>1, <2>2
  <1>3. CASE Complete
    BY <1>3 DEF Complete
  <1>4. CASE WalkEnd \/ Destroy \/ GiveUp \/ Destroyed
    BY SMTT(60), <1>4 DEF WalkEnd, Destroy, GiveUp, Destroyed
  <1>5. CASE PostExit
    BY ZenonT(120), <1>5 DEF PostExit, Enqueue, Signal, States
  <1>6. CASE Spin
    BY <1>6 DEF Spin
  <1>7. ASSUME NEW t \in Threads, Enter(t) \/ Recheck(t) PROVE Shape'
    <2>1. TakeOrWait(t) /\ UNCHANGED <<main, local, left, lock>> /\ cur[t] = NoTask
      BY <1>7 DEF Enter, Recheck
    <2>2. CASE queue = <<>> /\ cur' = cur /\ th' = [th EXCEPT ![t] = "wait"]
      BY Zenon, <2>1, <2>2
    <2>3. CASE /\ Head(queue) \in Tasks \cup {Exit} /\ cur' = [cur EXCEPT ![t] = Head(queue)]
               /\ th' = [th EXCEPT ![t] = "run"]
      BY Zenon, <2>1, <2>3
    <2>4. QED
      BY <2>1, <2>2, <2>3, Took
  <1>8. ASSUME NEW t \in Threads, WakeSpurious(t) \/ Push(t) \/ Notify(t) PROVE Shape'
    <2>1. CASE WakeSpurious(t)
      BY Zenon, <2>1 DEF WakeSpurious, States
    <2>2. CASE Push(t)
      BY Zenon, <2>2 DEF Push, States
    <2>3. CASE Notify(t)
      BY Zenon, <2>3 DEF Notify, States
    <2>4. QED
      BY <1>8, <2>1, <2>2, <2>3
  <1>9. ASSUME NEW t \in Threads, Run(t) PROVE Shape'
    BY ZenonT(120), <1>9 DEF Run, States
  <1>10. CASE UNCHANGED vars
    BY <1>10 DEF vars
  <1>11. QED
    BY <1>1, <1>2, <1>3, <1>4, <1>5, <1>6, <1>7, <1>8, <1>9, <1>10
       DEF Next, MainStep, ThreadStep

-----------------------------------------------------------------------------
(* What a step leaves alone.                                               *)
LEMMA SameThreads ==
  ASSUME NEW k, UNCHANGED cur,
         \A t \in Threads : /\ th'[t] = "exited" <=> th[t] = "exited"
                            /\ th'[t] = "push" <=> th[t] = "push"
  PROVE  Carriers(k)' = Carriers(k) /\ Pushers(k)' = Pushers(k) /\ Exited' = Exited
  BY DEF Carriers, Pushers, Exited

LEMMA SameLooking ==
  ASSUME \A t \in Threads : th'[t] \in {"wait", "awake"} <=> th[t] \in {"wait", "awake"}
  PROVE  Looking' = Looking
  BY DEF Looking

(* A task that is posted is counted once more in the queue, and nowhere    *)
(* else.                                                                   *)
LEMMA Enqueued ==
  ASSUME TypeOK, NEW x \in Tasks \cup {Exit}, Enqueue(x), UNCHANGED cur, NEW k
  PROVE  /\ Count(queue', k) = Count(queue, k) + (IF x = k THEN 1 ELSE 0)
         /\ Carriers(k)' = Carriers(k) /\ Pushers(k)' = Pushers(k) /\ Exited' = Exited
         /\ Looking' = Looking /\ Len(queue') = Len(queue) + 1
  <1>1. queue' = Append(queue, x) /\ queue \in Seq(Tasks \cup {Exit}) /\ Signal
    BY DEF Enqueue, TypeOK
  <1>3. Count(queue', k) = Count(queue, k) + (IF x = k THEN 1 ELSE 0)
    BY <1>1, CountAppend
  <1>4. \A t \in Threads : th'[t] = th[t] \/ (th[t] = "wait" /\ th'[t] = "awake")
    BY <1>1, Signaled
  <1>5. \A t \in Threads : /\ th'[t] = "exited" <=> th[t] = "exited"
                           /\ th'[t] = "push" <=> th[t] = "push"
                           /\ th'[t] \in {"wait", "awake"} <=> th[t] \in {"wait", "awake"}
    BY <1>4
  <1>6. Len(queue') = Len(queue) + 1
    BY <1>1
  <1>7. QED
    BY <1>3, <1>5, <1>6, SameThreads, SameLooking

(* A task that is taken leaves the queue and is carried; a thread that     *)
(* finds none looks on.                                                    *)
LEMMA TookCounts ==
  ASSUME TypeOK, Shape, NEW t \in Threads, th[t] \in {"idle", "awake"},
         TakeOrWait(t), NEW k \in Tasks \cup {Exit}
  PROVE  /\ Count(queue', k) + Cardinality(Carriers(k)') = Count(queue, k) + Cardinality(Carriers(k))
         /\ Pushers(k)' = Pushers(k) /\ Exited' = Exited
         /\ Len(queue') - Cardinality(Looking')
              = Len(queue) - Cardinality(Looking) - (IF th[t] = "idle" THEN 1 ELSE 0)
  <1> USE PoolAssumption
  <1>1. cur[t] = NoTask /\ t \notin Carriers(k)
    BY DEF Shape, Carriers
  <1>2. /\ IsFiniteSet(Looking) /\ Cardinality(Looking) \in Nat
        /\ IsFiniteSet(Carriers(k)) /\ Cardinality(Carriers(k)) \in Nat
        /\ Count(queue, k) \in Nat
    BY FiniteSets
  <1>3. Len(queue) \in Nat
    BY DEF TypeOK
  <1>4. CASE queue = <<>> /\ queue' = queue /\ cur' = cur /\ th' = [th EXCEPT ![t] = "wait"]
    <2>1. \A u \in Threads : /\ th'[u] = "exited" <=> th[u] = "exited"
                             /\ th'[u] = "push" <=> th[u] = "push"
      BY <1>4 DEF TypeOK
    <2>2. Carriers(k)' = Carriers(k) /\ Pushers(k)' = Pushers(k) /\ Exited' = Exited
      BY <1>4, <2>1, SameThreads
    <2>3. Looking' = Looking \cup {t}
      BY <1>4 DEF Looking, TypeOK
    <2>4. th[t] = "awake" <=> t \in Looking
      BY DEF Looking
    <2>5. Cardinality(Looking \cup {t}) = IF t \in Looking THEN Cardinality(Looking)
                                          ELSE Cardinality(Looking) + 1
      BY <1>2, FS_AddElement
    <2>6. Cardinality(Looking') = Cardinality(Looking) + (IF th[t] = "idle" THEN 1 ELSE 0)
      BY <1>2, <2>3, <2>4, <2>5
    <2>7. QED
      BY <1>3, <1>2, <1>4, <2>2, <2>6
  <1>5. CASE /\ queue # <<>> /\ queue' = Tail(queue) /\ Head(queue) \in Tasks \cup {Exit}
             /\ cur' = [cur EXCEPT ![t] = Head(queue)] /\ th' = [th EXCEPT ![t] = "run"]
    <2>1. Count(queue, k) = Count(Tail(queue), k) + (IF Head(queue) = k THEN 1 ELSE 0)
      BY <1>5, CountTail DEF TypeOK
    <2>2. Count(Tail(queue), k) \in Nat /\ Len(Tail(queue)) = Len(queue) - 1
      <3>1. Tail(queue) \in Seq(Tasks \cup {Exit}) /\ Len(Tail(queue)) = Len(queue) - 1
        BY <1>5 DEF TypeOK
      <3>2. QED
        BY <3>1, CountType
    <2>3. Carriers(k)' = IF Head(queue) = k THEN Carriers(k) \cup {t} ELSE Carriers(k)
      BY <1>1, <1>5 DEF Carriers, TypeOK
    <2>4. Cardinality(Carriers(k)') = Cardinality(Carriers(k)) + (IF Head(queue) = k THEN 1 ELSE 0)
      BY <1>1, <1>2, <2>3, Joins
    <2>5. Pushers(k)' = Pushers(k) /\ Exited' = Exited
      BY <1>5 DEF Pushers, Exited, TypeOK
    <2>6. Looking' = Looking \ {t}
      BY <1>5 DEF Looking, TypeOK
    <2>7. th[t] = "awake" <=> t \in Looking
      BY DEF Looking
    <2>8. Cardinality(Looking \ {t}) = IF t \in Looking THEN Cardinality(Looking) - 1
                                       ELSE Cardinality(Looking)
      BY <1>2, FS_RemoveElement
    <2>9. Cardinality(Looking') = Cardinality(Looking) - (IF th[t] = "awake" THEN 1 ELSE 0)
      BY <1>2, <2>6, <2>7, <2>8
    <2>10. QED
      BY <1>3, <1>2, <1>5, <2>1, <2>2, <2>4, <2>5, <2>9
  <1>6. QED
    BY <1>4, <1>5, Took

(* A completed task leaves the finished tasks that are walked.             *)
LEMMA CompleteCounts ==
  ASSUME TypeOK, Complete, NEW k
  PROVE  /\ Count(local, k) = Count(local', k) + (IF Head(local) = k THEN 1 ELSE 0)
         /\ Count(local', k) \in Nat /\ Head(local) \in Tasks
  <1>1. local' = Tail(local) /\ local # <<>> /\ local \in Seq(Tasks)
    BY DEF Complete, TypeOK
  <1>2. Tail(local) \in Seq(Tasks) /\ Head(local) \in Tasks
    BY <1>1
  <1>3. QED
    BY <1>1, <1>2, CountTail, CountType

(* An exit task takes its thread away, any other waits to be pushed.       *)
LEMMA RunCounts ==
  ASSUME TypeOK, Shape, NEW t \in Threads, Run(t), NEW k \in Tasks \cup {Exit}
  PROVE  /\ Cardinality(Carriers(k)')
              = Cardinality(Carriers(k)) - (IF cur[t] = Exit /\ k = Exit THEN 1 ELSE 0)
         /\ cur[t] = Exit /\ k = Exit => Cardinality(Carriers(k)) > 0
         /\ k # Exit => Cardinality(Pushers(k)')
              = Cardinality(Pushers(k)) + (IF cur[t] = k THEN 1 ELSE 0)
         /\ Cardinality(Exited') = Cardinality(Exited) + (IF cur[t] = Exit THEN 1 ELSE 0)
  <1> USE PoolAssumption
  <1>1. th[t] = "run" /\ cur' = cur
    BY DEF Run
  <1>2. /\ IsFiniteSet(Carriers(k)) /\ IsFiniteSet(Pushers(k)) /\ IsFiniteSet(Exited)
        /\ Cardinality(Carriers(k)) \in Nat /\ Cardinality(Pushers(k)) \in Nat
        /\ Cardinality(Exited) \in Nat
    BY FiniteSets
  <1>3. t \notin Pushers(k) /\ t \notin Exited
    BY <1>1 DEF Pushers, Exited
  <1>4. CASE cur[t] = Exit /\ th' = [th EXCEPT ![t] = "exited"]
    <2>1. Exited' = Exited \cup {t} /\ (k # Exit => Pushers(k)' = Pushers(k))
      BY <1>1, <1>4 DEF Exited, Pushers, TypeOK
    <2>2. CASE k = Exit
      <3>1. t \in Carriers(k) /\ Carriers(k)' = Carriers(k) \ {t}
        BY <1>1, <1>4, <2>2 DEF Carriers, TypeOK
      <3>2. QED
        BY <1>2, <1>3, <1>4, <2>1, <2>2, <3>1, Joins, Leaves
    <2>3. CASE k # Exit
      <3>1. Carriers(k)' = Carriers(k)
        BY <1>1, <1>4, <2>3 DEF Carriers, TypeOK
      <3>2. QED
        BY <1>2, <1>3, <1>4, <2>1, <2>3, <3>1, Joins
    <2>4. QED
      BY <2>2, <2>3
  <1>5. CASE cur[t] # Exit /\ th' = [th EXCEPT ![t] = "push"]
    <2>1. Exited' = Exited /\ Carriers(k)' = Carriers(k)
      BY <1>1, <1>5 DEF Exited, Carriers, TypeOK
    <2>2. Pushers(k)' = IF cur[t] = k THEN Pushers(k) \cup {t} ELSE Pushers(k)
      BY <1>1, <1>5 DEF Pushers, TypeOK
    <2>3. Cardinality(Pushers(k)') = Cardinality(Pushers(k)) + (IF cur[t] = k THEN 1 ELSE 0)
      BY <1>2, <1>3, <2>2, Joins
    <2>4. QED
      BY <1>2, <1>5, <2>1, <2>3
  <1>6. QED
    BY <1>4, <1>5, Ran

(* A task that is pushed goes from its thread to the finished tasks.       *)
LEMMA PushCounts ==
  ASSUME TypeOK, Shape, NEW t \in Threads, Push(t), NEW k \in Tasks \cup {Exit}
  PROVE  /\ Count(done', k) + Cardinality(Carriers(k)') = Count(done, k) + Cardinality(Carriers(k))
         /\ Count(done', k) + Cardinality(Pushers(k)') = Count(done, k) + Cardinality(Pushers(k))
         /\ Exited' = Exited
  <1> USE PoolAssumption
  <1>1. /\ th[t] = "push" /\ cur[t] \in Tasks /\ done' = Append(done, cur[t])
        /\ cur' = [cur EXCEPT ![t] = NoTask] /\ th' = [th EXCEPT ![t] = "notify"]
    BY DEF Push, Shape
  <1>2. /\ IsFiniteSet(Carriers(k)) /\ IsFiniteSet(Pushers(k)) /\ Count(done, k) \in Nat
        /\ Cardinality(Carriers(k)) \in Nat /\ Cardinality(Pushers(k)) \in Nat
    BY FiniteSets
  <1>3. Count(done', k) = Count(done, k) + (IF cur[t] = k THEN 1 ELSE 0)
    BY <1>1, CountAppend DEF TypeOK
  <1>4. Exited' = Exited
    BY <1>1 DEF Exited, TypeOK
  <1>5. CASE cur[t] = k
    <2>1. t \in Carriers(k) /\ Carriers(k)' = Carriers(k) \ {t}
      BY <1>1, <1>5 DEF Carriers, TypeOK
    <2>2. t \in Pushers(k) /\ Pushers(k)' = Pushers(k) \ {t}
      BY <1>1, <1>5 DEF Pushers, TypeOK
    <2>3. /\ Cardinality(Carriers(k)') = Cardinality(Carriers(k)) - 1
          /\ Cardinality(Pushers(k)') = Cardinality(Pushers(k)) - 1
      BY <1>2, <2>1, <2>2, Leaves
    <2>4. QED
      BY <1>2, <1>3, <1>4, <1>5, <2>3
  <1>6. CASE cur[t] # k
    <2>1. Carriers(k)' = Carriers(k) /\ Pushers(k)' = Pushers(k)
      BY <1>1, <1>6 DEF Carriers, Pushers, TypeOK
    <2>2. QED
      BY <1>2, <1>3, <1>4, <1>6, <2>1
  <1>7. QED
    BY <1>5, <1>6

-----------------------------------------------------------------------------
LEMMA PlacesAfter ==
  ASSUME NEW k
  PROVE  Places(k)' = Count(queue', k) + Cardinality(Carriers(k)') + Count(done', k) + Count(local', k)
  BY DEF Places, Count

(* The invariant about the counter.                                        *)
LEMMA WaitingPreserved ==
  ASSUME TypeOK, Shape, Waiting, [Next]_vars
  PROVE  Waiting'
  <1> USE PoolAssumption DEF Waiting, WaitingExact, shared, history
  <1>1. Len(queue) \in Nat /\ Cardinality(Looking) \in Nat /\ waiting \in Int
    <2>1. Len(queue) \in Nat /\ waiting \in Int
      BY DEF TypeOK
    <2>2. QED
      BY <2>1, FiniteSets
  <1>2. ASSUME NEW x \in Tasks \cup {Exit}, Enqueue(x), UNCHANGED cur PROVE Waiting'
    <2>1. Looking' = Looking /\ Len(queue') = Len(queue) + 1
      BY <1>2, Enqueued
    <2>2. waiting' = waiting + 1 /\ waiting < MaxQueue
      BY <1>2 DEF Enqueue
    <2>3. QED
      BY <1>1, <2>1, <2>2
  <1>3. ASSUME UNCHANGED <<queue, waiting>>,
               \A t \in Threads : th'[t] \in {"wait", "awake"} <=> th[t] \in {"wait", "awake"}
        PROVE Waiting'
    BY <1>3, SameLooking
  <1>4. ASSUME NEW t \in Threads, Enter(t) PROVE Waiting'
    <2>1. Len(queue') - Cardinality(Looking') = Len(queue) - Cardinality(Looking) - 1
      BY <1>4, TookCounts DEF Enter
    <2>2. QED
      BY <1>1, <1>4, <2>1 DEF Enter
  <1>5. ASSUME NEW t \in Threads, Recheck(t) PROVE Waiting'
    <2>1. Len(queue') - Cardinality(Looking') = Len(queue) - Cardinality(Looking)
      BY <1>5, TookCounts DEF Recheck
    <2>2. QED
      BY <1>1, <1>5, <2>1 DEF Recheck
  <1>6. ASSUME NEW t \in Threads, Run(t) PROVE Waiting'
    <2>1. \A u \in Threads : th'[u] \in {"wait", "awake"} <=> th[u] \in {"wait", "awake"}
      BY <1>6, Ran DEF Run, TypeOK
    <2>2. QED
      BY <1>3, <1>6, <2>1 DEF Run
  <1>7. ASSUME NEW t \in Threads, WakeSpurious(t) \/ Push(t) \/ Notify(t) PROVE Waiting'
    <2>1. CASE WakeSpurious(t)
      BY <1>3, <2>1 DEF WakeSpurious, TypeOK
    <2>2. CASE Push(t)
      BY <1>3, <2>2 DEF Push, TypeOK
    <2>3. CASE Notify(t)
      BY <1>3, <2>3 DEF Notify, TypeOK
    <2>4. QED
      BY <1>7, <2>1, <2>2, <2>3
  <1>8. CASE \/ Notified \/ TakeDone \/ Complete \/ WalkEnd \/ Destroy \/ GiveUp \/ Spin
             \/ Destroyed \/ UNCHANGED vars
    BY <1>3, <1>8 DEF Notified, TakeDone, Complete, WalkEnd, Destroy, GiveUp, Spin, Destroyed, vars
  <1>9. CASE PostExit \/ \E k \in Tasks : Post(k)
    BY <1>2, <1>9 DEF PostExit, Post
  <1>10. QED
    BY <1>4, <1>5, <1>6, <1>7, <1>8, <1>9 DEF Next, MainStep, ThreadStep

(* The invariant about one task.                                           *)
LEMMA TaskPreserved ==
  ASSUME TypeOK, Shape, NEW k \in Tasks, TaskPlaced(k), [Next]_vars
  PROVE  TaskPlaced(k)'
  <1> USE PoolAssumption DEF shared, history
  <1> DEFINE q == Count(queue, k)  c == Cardinality(Carriers(k))  d == Count(done, k)
             l == Count(local, k)  p == Cardinality(Pushers(k))
             q1 == Count(queue', k)  c1 == Cardinality(Carriers(k)')  d1 == Count(done', k)
             l1 == Count(local', k)  p1 == Cardinality(Pushers(k)')
  <1>1. /\ q \in Nat /\ c \in Nat /\ d \in Nat /\ l \in Nat /\ p \in Nat
        /\ posted[k] \in Nat /\ ran[k] \in Nat /\ completed[k] \in Nat
    BY FiniteSets DEF TypeOK
  <1>2. /\ q + c + d + l = IF k \in active THEN 1 ELSE 0
        /\ posted[k] = completed[k] + (q + c + d + l)
        /\ ran[k] = completed[k] + p + d + l
    BY DEF TaskPlaced, Places
  <1>3. ASSUME /\ q1 + c1 + d1 + l1 = IF k \in active' THEN 1 ELSE 0
               /\ posted'[k] = completed'[k] + (q1 + c1 + d1 + l1)
               /\ ran'[k] = completed'[k] + p1 + d1 + l1
        PROVE  TaskPlaced(k)'
    <2>1. Places(k)' = q1 + c1 + d1 + l1
      BY PlacesAfter
    <2>2. Count(done, k)' = d1 /\ Count(local, k)' = l1
      BY DEF Count
    <2>3. QED
      BY <1>3, <2>1, <2>2 DEF TaskPlaced
  <1> HIDE DEF q, c, d, l, p, q1, c1, d1, l1, p1
  <1>4. ASSUME /\ UNCHANGED <<queue, done, local, cur, posted, ran, completed>>
               /\ k \in active' <=> k \in active
               /\ \A t \in Threads : /\ th'[t] = "exited" <=> th[t] = "exited"
                                     /\ th'[t] = "push" <=> th[t] = "push"
        PROVE  TaskPlaced(k)'
    <2>1. q1 = q /\ c1 = c /\ d1 = d /\ l1 = l /\ p1 = p
      BY <1>4, SameThreads DEF q, c, d, l, p, q1, c1, d1, l1, p1
    <2>2. QED
      BY <1>2, <1>3, <1>4, <2>1
  <1>5. ASSUME NEW x \in Tasks \cup {Exit}, Enqueue(x), UNCHANGED <<cur, done, local, ran, completed>>,
               x = k => k \notin active,
               posted'[k] = posted[k] + (IF x = k THEN 1 ELSE 0)
        PROVE  TaskPlaced(k)'
    <2>1. /\ q1 = q + (IF x = k THEN 1 ELSE 0)
          /\ c1 = c /\ d1 = d /\ l1 = l /\ p1 = p
      BY <1>5, Enqueued DEF q, c, d, l, p, q1, c1, d1, l1, p1
    <2>2. k \in active' <=> k \in active \/ x = k
      BY <1>5 DEF Enqueue
    <2>3. QED
      BY <1>1, <1>2, <1>3, <1>5, <2>1, <2>2
  <1>6. ASSUME NEW x \in Tasks, Post(x) PROVE TaskPlaced(k)'
    <2>1. posted'[k] = posted[k] + (IF x = k THEN 1 ELSE 0)
      BY <1>1, <1>6 DEF Post, TypeOK
    <2>2. QED
      BY <1>5, <1>6, <2>1 DEF Post
  <1>7. CASE PostExit
    BY <1>1, <1>5, <1>7 DEF PostExit
  <1>8. CASE TakeDone
    <2>1. local = <<>> /\ local' = done /\ done' = <<>> /\ UNCHANGED <<queue, th, cur, active, history>>
      BY <1>8 DEF TakeDone, Shape
    <2>2. l = 0 /\ l1 = d /\ d1 = 0
      BY <2>1, CountEmpty DEF l, l1, d, d1
    <2>3. q1 = q /\ c1 = c /\ p1 = p
      BY <2>1, SameThreads DEF q, q1, c, c1, p, p1
    <2>4. QED
      BY <1>1, <1>2, <1>3, <2>1, <2>2, <2>3
  <1>9. CASE Complete
    <2>1. l = l1 + (IF Head(local) = k THEN 1 ELSE 0) /\ l1 \in Nat
      BY <1>9, CompleteCounts DEF l, l1
    <2>2. q1 = q /\ c1 = c /\ p1 = p /\ d1 = d /\ UNCHANGED <<posted, ran>>
      BY <1>9, SameThreads DEF Complete, q, q1, c, c1, p, p1, d, d1
    <2>3. completed'[k] = completed[k] + (IF Head(local) = k THEN 1 ELSE 0)
      BY SMTT(60), <1>1, <1>9, CompleteCounts DEF Complete, TypeOK
    <2>4. k \in active' <=> k \in active /\ Head(local) # k
      BY <1>9 DEF Complete
    <2>5. CASE Head(local) = k
      BY <1>1, <1>2, <1>3, <2>1, <2>2, <2>3, <2>4, <2>5
    <2>6. CASE Head(local) # k
      BY <1>1, <1>2, <1>3, <2>1, <2>2, <2>3, <2>4, <2>6
    <2>7. QED
      BY <2>5, <2>6
  <1>10. CASE \/ Notified \/ WalkEnd \/ Destroy \/ GiveUp \/ Destroyed \/ Spin \/ UNCHANGED vars
    BY <1>4, <1>10 DEF Notified, WalkEnd, Destroy, GiveUp, Destroyed, Spin, vars
  <1>11. ASSUME NEW t \in Threads, Enter(t) \/ Recheck(t) PROVE TaskPlaced(k)'
    <2>1. /\ TakeOrWait(t) /\ th[t] \in {"idle", "awake"}
          /\ UNCHANGED <<done, local, active, posted, ran, completed>>
      BY <1>11 DEF Enter, Recheck
    <2>2. q1 + c1 = q + c /\ p1 = p
      BY <2>1, TookCounts DEF q, q1, c, c1, p, p1
    <2>3. d1 = d /\ l1 = l
      BY <2>1 DEF d, d1, l, l1
    <2>4. q1 \in Nat /\ c1 \in Nat
      <3>1. queue' \in Seq(Tasks \cup {Exit}) /\ Carriers(k)' \in SUBSET Threads
        BY <2>1, Took DEF Carriers
      <3>2. QED
        BY <3>1, CountType, FS_Subset, FS_CardinalityType DEF q1, c1
    <2>5. QED
      BY <1>1, <1>2, <1>3, <2>1, <2>2, <2>3, <2>4
  <1>12. ASSUME NEW t \in Threads, Run(t) PROVE TaskPlaced(k)'
    <2>1. c1 = c /\ p1 = p + (IF cur[t] = k THEN 1 ELSE 0)
      BY <1>1, <1>12, RunCounts DEF c, c1, p, p1
    <2>2. q1 = q /\ d1 = d /\ l1 = l /\ UNCHANGED <<active, posted, completed>>
      BY <1>12 DEF Run, q, q1, d, d1, l, l1
    <2>3. ran'[k] = ran[k] + (IF cur[t] = k THEN 1 ELSE 0)
      <3>1. CASE cur[t] = Exit /\ ran' = ran
        BY <1>1, <3>1
      <3>2. CASE ran' = [ran EXCEPT ![cur[t]] = @ + 1]
        BY <1>1, <3>2 DEF TypeOK
      <3>3. QED
        BY <1>12, <3>1, <3>2, Ran
    <2>4. QED
      BY <1>1, <1>2, <1>3, <2>1, <2>2, <2>3
  <1>13. ASSUME NEW t \in Threads, Push(t) PROVE TaskPlaced(k)'
    <2>1. d1 + c1 = d + c /\ d1 + p1 = d + p
      BY <1>13, PushCounts DEF d, d1, c, c1, p, p1
    <2>2. q1 = q /\ l1 = l /\ UNCHANGED <<active, posted, ran, completed>>
      BY <1>13 DEF Push, q, q1, l, l1
    <2>3. d1 \in Nat /\ c1 \in Nat /\ p1 \in Nat
      <3>1. done' \in Seq(Tasks) /\ Carriers(k)' \in SUBSET Threads /\ Pushers(k)' \in SUBSET Threads
        BY <1>13 DEF Push, Shape, TypeOK, Carriers, Pushers
      <3>2. QED
        BY <3>1, CountType, FS_Subset, FS_CardinalityType DEF d1, c1, p1
    <2>4. QED
      BY <1>1, <1>2, <1>3, <2>1, <2>2, <2>3
  <1>14. ASSUME NEW t \in Threads, WakeSpurious(t) \/ Notify(t) PROVE TaskPlaced(k)'
    <2>1. CASE WakeSpurious(t)
      BY <1>4, <2>1 DEF WakeSpurious, TypeOK
    <2>2. CASE Notify(t)
      BY <1>4, <2>2 DEF Notify, TypeOK
    <2>3. QED
      BY <1>14, <2>1, <2>2
  <1>15. QED
    BY <1>6, <1>7, <1>8, <1>9, <1>10, <1>11, <1>12, <1>13, <1>14 DEF Next, MainStep, ThreadStep

(* The invariant about the exit task.                                      *)
LEMMA ExitPreserved ==
  ASSUME TypeOK, Shape, ExitPlaced, [Next]_vars
  PROVE  ExitPlaced'
  <1> USE PoolAssumption DEF shared, history
  <1> DEFINE q == Count(queue, Exit)  c == Cardinality(Carriers(Exit))  d == Count(done, Exit)
             l == Count(local, Exit)  e == Cardinality(Exited)  n == Cardinality(Threads)
             q1 == Count(queue', Exit)  c1 == Cardinality(Carriers(Exit)')  d1 == Count(done', Exit)
             l1 == Count(local', Exit)  e1 == Cardinality(Exited')
  <1>1. /\ q \in Nat /\ c \in Nat /\ d \in Nat /\ l \in Nat /\ e \in Nat /\ n \in Nat
    BY FiniteSets
  <1>2. left \in Nat /\ lock \in BOOLEAN
    BY DEF TypeOK
  <1>3. /\ q + c + d + l = IF lock THEN 1 ELSE 0
        /\ main \in {"destroy", "spin", "destroyed"} =>
             e = n - left + (IF main = "spin" /\ ~lock THEN 1 ELSE 0)
        /\ main \in {"loop", "handler", "walk"} => Exited = {}
        /\ main = "destroyed" => left = 0
    BY DEF ExitPlaced, Places
  <1>4. ASSUME /\ q1 + c1 + d1 + l1 = IF lock' THEN 1 ELSE 0
               /\ main' \in {"destroy", "spin", "destroyed"} =>
                    e1 = n - left' + (IF main' = "spin" /\ ~lock' THEN 1 ELSE 0)
               /\ main' \in {"loop", "handler", "walk"} => Exited' = {}
               /\ main' = "destroyed" => left' = 0
        PROVE  ExitPlaced'
    <2>1. Places(Exit)' = q1 + c1 + d1 + l1
      BY PlacesAfter
    <2>2. QED
      BY <1>4, <2>1 DEF ExitPlaced
  <1> HIDE DEF q, c, d, l, e, n, q1, c1, d1, l1, e1
  <1>5. ASSUME /\ UNCHANGED <<queue, done, local, cur, lock, main, left>>
               /\ \A t \in Threads : /\ th'[t] = "exited" <=> th[t] = "exited"
                                     /\ th'[t] = "push" <=> th[t] = "push"
        PROVE  ExitPlaced'
    <2>1. q1 = q /\ c1 = c /\ d1 = d /\ l1 = l /\ e1 = e /\ Exited' = Exited
      BY <1>5, SameThreads DEF q, c, d, l, e, q1, c1, d1, l1, e1
    <2>2. QED
      BY <1>3, <1>4, <1>5, <2>1
  <1>6. ASSUME UNCHANGED <<queue, done, local, cur, th, lock>>
        PROVE  q1 = q /\ c1 = c /\ d1 = d /\ l1 = l /\ e1 = e /\ Exited' = Exited
    BY <1>6, SameThreads DEF q, c, d, l, e, q1, c1, d1, l1, e1
  <1>7. ASSUME NEW x \in Tasks, Post(x) PROVE ExitPlaced'
    <2>1. Enqueue(x) /\ x # Exit /\ UNCHANGED <<cur, done, local, lock, main, left>>
      BY <1>7 DEF Post
    <2>2. q1 = q /\ c1 = c /\ d1 = d /\ l1 = l /\ e1 = e /\ Exited' = Exited
      BY <1>1, <2>1, Enqueued DEF q, c, d, l, e, q1, c1, d1, l1, e1
    <2>3. QED
      BY <1>3, <1>4, <2>1, <2>2
  <1>8. CASE Notified \/ WalkEnd
    <2>1. CASE Notified
      BY <1>3, <1>4, <1>6, <2>1 DEF Notified
    <2>2. CASE WalkEnd
      BY <1>3, <1>4, <1>6, <2>2 DEF WalkEnd
    <2>3. QED
      BY <1>8, <2>1, <2>2
  <1>9. CASE TakeDone
    <2>1. local = <<>> /\ local' = done /\ done' = <<>> /\ main' = "walk" /\ main = "handler"
          /\ UNCHANGED <<queue, th, cur, lock, left>>
      BY <1>9 DEF TakeDone, Shape
    <2>2. l = 0 /\ l1 = d /\ d1 = 0
      BY <2>1, CountEmpty DEF l, l1, d, d1
    <2>3. q1 = q /\ c1 = c /\ e1 = e /\ Exited' = Exited
      BY <2>1, SameThreads DEF q, q1, c, c1, e, e1
    <2>4. QED
      BY <1>1, <1>3, <1>4, <2>1, <2>2, <2>3
  <1>10. CASE Complete
    <2>1. l = l1 + (IF Head(local) = Exit THEN 1 ELSE 0) /\ Head(local) \in Tasks /\ l1 \in Nat
      BY <1>10, CompleteCounts DEF l, l1
    <2>2. /\ q1 = q /\ c1 = c /\ e1 = e /\ d1 = d /\ Exited' = Exited
          /\ UNCHANGED <<lock, main, left>>
      BY <1>10, SameThreads DEF Complete, q, q1, c, c1, e, e1, d, d1
    <2>3. l1 = l
      BY <1>1, <2>1
    <2>4. QED
      BY <1>3, <1>4, <2>2, <2>3
  <1>11. CASE Destroy
    <2>1. e = 0 /\ left' = n /\ main' = "destroy" /\ main = "loop"
      BY <1>3, <1>11, FS_EmptySet DEF Destroy, e, n
    <2>2. UNCHANGED <<queue, done, local, cur, th, lock>>
      BY <1>11 DEF Destroy
    <2>3. QED
      BY <1>1, <1>3, <1>4, <1>6, <2>1, <2>2
  <1>12. CASE GiveUp \/ Destroyed
    <2>1. CASE GiveUp
      BY <1>3, <1>4, <1>6, <2>1 DEF GiveUp
    <2>2. CASE Destroyed
      BY <1>1, <1>3, <1>4, <1>6, <2>2 DEF Destroyed
    <2>3. QED
      BY <1>12, <2>1, <2>2
  <1>13. CASE PostExit
    <2>1. /\ Enqueue(Exit) /\ UNCHANGED <<cur, done, local, left>> /\ lock' = TRUE
          /\ main = "destroy" /\ main' = "spin" /\ ~lock
      BY <1>13 DEF PostExit, Shape
    <2>2. q1 = q + 1 /\ c1 = c /\ d1 = d /\ l1 = l /\ e1 = e
      BY <2>1, Enqueued DEF q, c, d, l, e, q1, c1, d1, l1, e1
    <2>3. QED
      BY <1>1, <1>2, <1>3, <1>4, <2>1, <2>2
  <1>14. CASE Spin
    <2>1. /\ UNCHANGED <<queue, done, local, cur, th, lock>> /\ main = "spin" /\ ~lock
          /\ main' = "destroy" /\ left' = left - 1
      BY <1>14 DEF Spin
    <2>2. QED
      BY <1>1, <1>2, <1>3, <1>4, <1>6, <2>1
  <1>15. ASSUME NEW t \in Threads, Enter(t) \/ Recheck(t) PROVE ExitPlaced'
    <2>1. /\ TakeOrWait(t) /\ th[t] \in {"idle", "awake"}
          /\ UNCHANGED <<done, local, lock, main, left>>
      BY <1>15 DEF Enter, Recheck
    <2>2. q1 + c1 = q + c /\ Exited' = Exited
      BY <2>1, TookCounts DEF q, q1, c, c1
    <2>3. d1 = d /\ l1 = l /\ e1 = e
      BY <2>1, <2>2 DEF d, d1, l, l1, e, e1
    <2>4. q1 \in Nat /\ c1 \in Nat
      <3>1. queue' \in Seq(Tasks \cup {Exit}) /\ Carriers(Exit)' \in SUBSET Threads
        BY <2>1, Took DEF Carriers
      <3>2. QED
        BY <3>1, CountType, FS_Subset, FS_CardinalityType DEF q1, c1
    <2>5. QED
      BY <1>1, <1>3, <1>4, <2>1, <2>2, <2>3, <2>4
  <1>16. ASSUME NEW t \in Threads, Run(t) PROVE ExitPlaced'
    <2>1. /\ c1 = c - (IF cur[t] = Exit THEN 1 ELSE 0)
          /\ e1 = e + (IF cur[t] = Exit THEN 1 ELSE 0)
          /\ cur[t] = Exit => c > 0
      BY <1>16, RunCounts DEF c, c1, e, e1
    <2>2. q1 = q /\ d1 = d /\ l1 = l /\ UNCHANGED <<main, left>>
      BY <1>16 DEF Run, q, q1, d, d1, l, l1
    <2>3. CASE cur[t] = Exit /\ lock' = FALSE
      <3>1. lock /\ main = "spin"
        BY <1>1, <1>3, <2>1, <2>3 DEF Shape
      <3>2. QED
        BY <1>1, <1>2, <1>3, <1>4, <2>1, <2>2, <2>3, <3>1
    <2>4. CASE cur[t] # Exit /\ lock' = lock /\ th' = [th EXCEPT ![t] = "push"]
      <3>1. Exited' = Exited
        BY <1>16, <2>4 DEF Exited, TypeOK, Run
      <3>2. QED
        BY <1>1, <1>3, <1>4, <2>1, <2>2, <2>4, <3>1
    <2>5. QED
      BY <1>16, <2>3, <2>4, Ran
  <1>17. ASSUME NEW t \in Threads, Push(t) PROVE ExitPlaced'
    <2>1. d1 + c1 = d + c /\ Exited' = Exited
      BY <1>17, PushCounts DEF d, d1, c, c1
    <2>2. q1 = q /\ l1 = l /\ e1 = e /\ UNCHANGED <<lock, main, left>>
      BY <1>17, <2>1 DEF Push, q, q1, l, l1, e, e1
    <2>3. d1 \in Nat /\ c1 \in Nat
      <3>1. done' \in Seq(Tasks) /\ Carriers(Exit)' \in SUBSET Threads
        BY <1>17 DEF Push, Shape, TypeOK, Carriers
      <3>2. QED
        BY <3>1, CountType, FS_Subset, FS_CardinalityType DEF d1, c1
    <2>4. QED
      BY <1>1, <1>3, <1>4, <2>1, <2>2, <2>3
  <1>18. ASSUME NEW t \in Threads, WakeSpurious(t) \/ Notify(t) PROVE ExitPlaced'
    <2>1. CASE WakeSpurious(t)
      BY <1>5, <2>1 DEF WakeSpurious, TypeOK
    <2>2. CASE Notify(t)
      BY <1>5, <2>2 DEF Notify, TypeOK
    <2>3. QED
      BY <1>18, <2>1, <2>2
  <1>19. CASE UNCHANGED vars
    BY <1>5, <1>19 DEF vars
  <1>20. QED
    BY <1>7, <1>8, <1>9, <1>10, <1>11, <1>12, <1>13, <1>14, <1>15, <1>16, <1>17, <1>18, <1>19
       DEF Next, MainStep, ThreadStep

-----------------------------------------------------------------------------
LEMMA InitIInv ==
  ASSUME Init
  PROVE  IInv
  <1> USE PoolAssumption DEF Init
  <1>1. TypeOK
    <2>1. queue \in Seq(Tasks \cup {Exit}) /\ done \in Seq(Tasks) /\ local \in Seq(Tasks)
      OBVIOUS
    <2>2. th \in [Threads -> States] /\ cur \in [Threads -> Tasks \cup {Exit, NoTask}]
      BY DEF States
    <2>3. /\ posted \in [Tasks -> Nat] /\ ran \in [Tasks -> Nat] /\ completed \in [Tasks -> Nat]
      OBVIOUS
    <2>4. /\ waiting \in Int /\ active \subseteq Tasks \cup {Exit} /\ left \in Nat /\ woken \in Nat
          /\ main \in {"loop", "handler", "walk", "destroy", "spin", "gone", "destroyed"}
      OBVIOUS
    <2>5. notified \in BOOLEAN /\ lock \in BOOLEAN
      OBVIOUS
    <2>6. QED
      BY <2>1, <2>2, <2>3, <2>4, <2>5 DEF TypeOK
  <1>2. Shape
    BY DEF Shape
  <1>3. Looking = {} /\ Exited = {} /\ (\A k \in Tasks \cup {Exit} : Carriers(k) = {} /\ Pushers(k) = {})
    BY DEF Looking, Exited, Carriers, Pushers
  <1>4. Cardinality({}) = 0
    BY FS_EmptySet
  <1>5. Waiting
    BY <1>3, <1>4 DEF Waiting, WaitingExact
  <1>6. \A k \in Tasks \cup {Exit} : /\ Places(k) = 0 /\ Cardinality(Pushers(k)) = 0
                                     /\ Count(done, k) = 0 /\ Count(local, k) = 0
    <2>1. SUFFICES ASSUME NEW k \in Tasks \cup {Exit}
                   PROVE  /\ Places(k) = 0 /\ Cardinality(Pushers(k)) = 0
                          /\ Count(done, k) = 0 /\ Count(local, k) = 0
      OBVIOUS
    <2>2. Count(queue, k) = 0 /\ Count(done, k) = 0 /\ Count(local, k) = 0
      BY CountEmpty
    <2>3. Cardinality(Carriers(k)) = 0 /\ Cardinality(Pushers(k)) = 0
      BY <1>3, <1>4
    <2>4. QED
      BY <2>2, <2>3 DEF Places
  <1>7. \A k \in Tasks : TaskPlaced(k)
    BY <1>6 DEF TaskPlaced
  <1>8. ExitPlaced
    BY <1>3, <1>6 DEF ExitPlaced
  <1>9. QED
    BY <1>1, <1>2, <1>5, <1>7, <1>8 DEF IInv

LEMMA IInvImplies ==
  ASSUME IInv
  PROVE  PoolSound
  <1> USE PoolAssumption DEF IInv
  <1>1. QueueBound
    <2>1. Len(queue) \in Nat /\ waiting \in Int
      BY DEF TypeOK
    <2>2. Cardinality(Looking) \in Nat
      BY FiniteSets
    <2>3. QED
      BY <2>1, <2>2 DEF QueueBound, Waiting, WaitingExact
  <1>2. RunsATask
    BY DEF RunsATask, Shape
  <1>3. ASSUME NEW k \in Tasks
        PROVE  /\ Places(k) = IF k \in active THEN 1 ELSE 0
               /\ posted[k] = completed[k] + Places(k)
               /\ completed[k] <= ran[k] /\ ran[k] <= posted[k]
    <2>1. Pushers(k) \in SUBSET Carriers(k)
      BY DEF Pushers, Carriers
    <2>2. Cardinality(Pushers(k)) <= Cardinality(Carriers(k))
      BY <2>1, FiniteSets, FS_Subset
    <2>3. /\ Count(queue, k) \in Nat /\ Count(done, k) \in Nat /\ Count(local, k) \in Nat
          /\ Cardinality(Pushers(k)) \in Nat /\ Cardinality(Carriers(k)) \in Nat
      BY FiniteSets
    <2>4. completed[k] \in Nat
      BY DEF TypeOK
    <2>5. QED
      BY <2>2, <2>3, <2>4 DEF TaskPlaced, Places
  <1>4. NobodyLeft
    <2>1. SUFFICES ASSUME main = "destroyed" PROVE Exited = Threads
      BY DEF NobodyLeft, Exited
    <2>2. Cardinality(Exited) = Cardinality(Threads)
      <3>1. Cardinality(Threads) \in Nat
        BY FiniteSets
      <3>2. QED
        BY <2>1, <3>1 DEF ExitPlaced
    <2>3. Exited \in SUBSET Threads
      BY DEF Exited
    <2>4. QED
      BY <2>2, <2>3, FS_Subset
  <1>5. QED
    BY <1>1, <1>2, <1>3, <1>4 DEF PoolSound, OnePlace, Waiting

(* Whatever threads, tasks, wake-ups and limits there are: every post of a *)
(* task is run and completed once (ngx_thread_task_post(),                 *)
(* ngx_thread_pool_cycle(), ngx_thread_pool_handler()), tp->waiting counts *)
(* the queue less the threads that look for work, no thread runs a NULL    *)
(* task, and ngx_thread_pool_destroy() destroys the mutex only when all    *)
(* threads have ended.                                                     *)
THEOREM PoolKept == Spec => []PoolSound
  <1>1. Init => IInv
    BY InitIInv
  <1>2. IInv /\ [Next]_vars => IInv'
    <2>1. SUFFICES ASSUME IInv, [Next]_vars PROVE IInv'
      OBVIOUS
    <2>2. TypeOK /\ Shape /\ Waiting /\ ExitPlaced /\ \A k \in Tasks : TaskPlaced(k)
      BY <2>1 DEF IInv
    <2>3. TypeOK' /\ Shape' /\ Waiting' /\ ExitPlaced'
      BY <2>1, <2>2, TypePreserved, ShapePreserved, WaitingPreserved, ExitPreserved
    <2>4. \A k \in Tasks : TaskPlaced(k)'
      BY <2>1, <2>2, TaskPreserved
    <2>5. QED
      BY <2>3, <2>4 DEF IInv
  <1>3. IInv => PoolSound
    BY IInvImplies
  <1>4. QED
    BY <1>1, <1>2, <1>3, PTL DEF Spec

=============================================================================

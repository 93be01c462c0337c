------------------------- MODULE ThreadPoolProofs --------------------------
(***************************************************************************)
(* Proofs about ThreadPool, for every set of jobs and every finite set of  *)
(* workers.                                                                *)
(***************************************************************************)
EXTENDS ThreadPool, FiniteSetTheorems, TLAPS

\* Zenon proves most leaves, and the others say SMT.
USE ZenonT(60)

\* A thread has a job in its hands exactly while it has one to queue or to
\* run, and the job being queued is new.
Hands ==
    /\ \A w \in Worker : IF pc[w] \in {"pop", "unlock", "work"}
                         THEN \E j \in Job : work[w] = {j}
                         ELSE work[w] = {}
    /\ IF pc[Main] \in {"lock", "push"}
       THEN \E j \in Job : work[Main] = {j}
       ELSE work[Main] = {}
    /\ \A j \in work[Main] : /\ j \notin Queued \cup done
                             /\ \A w \in Worker : j \notin work[w]

\* The job a worker has from front() is the one its pop_front() will take off.
Fronted == \A w \in Worker : pc[w] = "pop" => queue # <<>> /\ work[w] = {Head(queue)}

\* The inductive invariant: NoLostWakeup and Fronted need the mutex, which keeps
\* the producer and the workers from changing the queue under each other; Hands
\* and Fronted are what the refinement needs.
IInv == TypeOK /\ MutexHeld /\ NoLostWakeup /\ Hands /\ Fronted

-----------------------------------------------------------------------------
\* pop_front takes off the first job.
LEMMA PopQueue ==
    ASSUME NEW q \in Seq(Job)
    PROVE  /\ SubSeq(q, 2, Len(q)) \in Seq(Job)
           /\ q # <<>> => /\ SubSeq(q, 2, Len(q)) = Tail(q)
                          /\ Len(Tail(q)) = Len(q) - 1
  BY SMT

\* What push_back, front and pop_front do to the jobs of a queue.
LEMMA QueueOps ==
    ASSUME NEW q \in Seq(Job), NEW j \in Job
    PROVE  /\ Append(q, j) \in Seq(Job) /\ Len(Append(q, j)) = Len(q) + 1
           /\ \A i \in DOMAIN Append(q, j) : Append(q, j)[i] = j \/ (i \in DOMAIN q /\ Append(q, j)[i] = q[i])
           /\ Append(q, j) # <<>>
           /\ q # <<>> => /\ Head(q) \in Job /\ Tail(q) \in Seq(Job)
                          /\ Len(Tail(q)) = Len(q) - 1 /\ Len(q) > 0
                          /\ Head(q) = q[1] /\ 1 \in DOMAIN q
                          /\ \A i \in DOMAIN Tail(q) : i + 1 \in DOMAIN q /\ Tail(q)[i] = q[i + 1]
  BY SMT

\* A worker on the way to the queue makes one more, or one fewer.
LEMMA Count ==
    ASSUME NEW S \in SUBSET Worker, NEW w \in Worker
    PROVE  /\ Cardinality(S) \in Nat
           /\ Cardinality(S \cup {w}) = IF w \in S THEN Cardinality(S) ELSE Cardinality(S) + 1
           /\ Cardinality(S \ {w}) = IF w \in S THEN Cardinality(S) - 1 ELSE Cardinality(S)
  <1>1. IsFiniteSet(S)
    BY WorkerAssumption, FS_Subset
  <1> QED
    BY <1>1, FS_CardinalityType, FS_AddElement, FS_RemoveElement

\* When thread_pool_init has started the workers the invariant holds.
LEMMA InitInv == Init => IInv
  <1> SUFFICES ASSUME Init PROVE IInv
    OBVIOUS
  <1>1. TypeOK
    BY ThreadAssumption, SMT DEF Init, TypeOK, Thread, MainPc, WorkerPc
  <1>2. MutexHeld
    BY ThreadAssumption DEF Init, MutexHeld, Thread
  <1>3. NoLostWakeup
    BY ThreadAssumption DEF Init, NoLostWakeup, Waiting, Thread
  <1>4. Hands
    BY ThreadAssumption DEF Init, Hands, Thread
  <1>5. Fronted
    BY ThreadAssumption DEF Init, Fronted, Thread
  <1> QED
    BY <1>1, <1>2, <1>3, <1>4, <1>5 DEF IInv

\* Every step keeps the types.
LEMMA NextType ==
    ASSUME TypeOK, [Next]_vars PROVE TypeOK'
  <1> USE ThreadAssumption DEF TypeOK, Thread, MainPc, WorkerPc, Goto, Acquire, Release
  <1>1. ASSUME NEW j \in Job, Call(j) PROVE TypeOK'
    BY <1>1 DEF Call
  <1>2. CASE QueueLock
    BY <1>2 DEF QueueLock
  <1>3. CASE Push
    <2>1. PICK j \in work[Main] : queue' = Append(queue, j)
      BY <1>3 DEF Push
    <2>2. queue' \in Seq(Job)
      BY <2>1, QueueOps
    <2> QED
      BY <1>3, <2>2 DEF Push
  <1>4. CASE Signal
    BY <1>4 DEF Signal, Waiting
  <1>5. CASE QueueUnlock
    BY <1>5 DEF QueueUnlock
  <1>6. ASSUME NEW w \in Worker, Lock(w) \/ Wait(w) \/ Relock(w) \/ Unlock(w) \/ Spurious(w)
        PROVE  TypeOK'
    BY <1>6 DEF Lock, Wait, Relock, Unlock, Spurious
  <1>7. ASSUME NEW w \in Worker, Front(w) PROVE TypeOK'
    <2>1. Head(queue) \in Job
      BY <1>7, SMT DEF Front
    <2> QED
      BY <1>7, <2>1 DEF Front
  <1>8. ASSUME NEW w \in Worker, PopFront(w) PROVE TypeOK'
    <2>1. queue' \in Seq(Job)
      BY <1>8, SMT DEF PopFront
    <2> QED
      BY <1>8, <2>1 DEF PopFront
  <1>9. ASSUME NEW w \in Worker, Run(w) PROVE TypeOK'
    BY <1>9 DEF Run
  <1>10. CASE UNCHANGED vars
    BY <1>10 DEF vars
  <1> QED
    BY <1>1, <1>2, <1>3, <1>4, <1>5, <1>6, <1>7, <1>8, <1>9, <1>10 DEF Next, Queue, Step

\* Every step keeps the mutex with the thread that is inside.
LEMMA NextMutex ==
    ASSUME TypeOK, MutexHeld, [Next]_vars PROVE MutexHeld'
  <1> USE ThreadAssumption DEF TypeOK, MutexHeld, Thread, MainPc, WorkerPc, Goto, Acquire, Release
  <1>1. ASSUME NEW j \in Job, Call(j) PROVE MutexHeld'
    BY <1>1 DEF Call
  <1>2. CASE QueueLock \/ Push \/ QueueUnlock
    BY <1>2 DEF QueueLock, Push, QueueUnlock
  <1>3. CASE Signal
    BY <1>3 DEF Signal, Waiting
  <1>4. ASSUME NEW w \in Worker, Lock(w) \/ Wait(w) \/ Relock(w) PROVE MutexHeld'
    BY <1>4 DEF Lock, Wait, Relock
  <1>5. ASSUME NEW w \in Worker,
               Spurious(w) \/ Front(w) \/ PopFront(w) \/ Unlock(w) \/ Run(w)
        PROVE  MutexHeld'
    BY <1>5 DEF Spurious, Front, PopFront, Unlock, Run
  <1>6. CASE UNCHANGED vars
    BY <1>6 DEF vars
  <1> QED
    BY <1>1, <1>2, <1>3, <1>4, <1>5, <1>6 DEF Next, Queue, Step

\* Every step keeps jobs in the hands of at most one thread.
LEMMA NextHands ==
    ASSUME TypeOK, Hands, [Next]_vars PROVE Hands'
  <1> USE ThreadAssumption DEF TypeOK, Hands, Thread, MainPc, WorkerPc, Goto, Acquire, Release
  <1>1. ASSUME NEW j \in Job, Call(j) PROVE Hands'
    BY <1>1, SMT DEF Call, Queued, InHand
  <1>2. CASE QueueLock \/ QueueUnlock
    BY <1>2, SMT DEF QueueLock, QueueUnlock, Queued
  <1>3. CASE Push
    BY <1>3 DEF Push, Queued
  <1>4. CASE Signal
    BY <1>4 DEF Signal, Waiting, Queued
  <1>5. ASSUME NEW w \in Worker, Lock(w) \/ Wait(w) \/ Relock(w) \/ Spurious(w) \/ Unlock(w)
        PROVE  Hands'
    BY <1>5, SMT DEF Lock, Wait, Relock, Spurious, Unlock, Queued
  <1>6. ASSUME NEW w \in Worker, Front(w) PROVE Hands'
    <2>1. Head(queue) \in Job /\ Head(queue) \in Queued /\ Queued' = Queued
      BY <1>6, QueueOps, SMT DEF Front, Queued
    <2> QED
      BY <1>6, <2>1 DEF Front
  <1>7. ASSUME NEW w \in Worker, PopFront(w) PROVE Hands'
    <2>1. Queued' \subseteq Queued
      BY <1>7, SMT DEF PopFront, Queued
    <2> QED
      BY <1>7, <2>1 DEF PopFront
  <1>8. ASSUME NEW w \in Worker, Run(w) PROVE Hands'
    BY <1>8, SMT DEF Run, Queued
  <1>9. CASE UNCHANGED vars
    BY <1>9, SMT DEF vars, Queued
  <1> QED
    BY <1>1, <1>2, <1>3, <1>4, <1>5, <1>6, <1>7, <1>8, <1>9 DEF Next, Queue, Step

\* No other thread touches the queue between front() and pop_front().
LEMMA NextFronted ==
    ASSUME TypeOK, MutexHeld, Hands, Fronted, [Next]_vars PROVE Fronted'
  <1> USE ThreadAssumption DEF TypeOK, MutexHeld, Fronted, Thread, Goto
  <1>1. ASSUME NEW j \in Job, Call(j) PROVE Fronted'
    BY <1>1 DEF Call
  <1>2. CASE QueueLock \/ QueueUnlock
    BY <1>2 DEF QueueLock, QueueUnlock
  <1>3. CASE Push
    BY <1>3 DEF Push
  <1>4. CASE Signal
    BY <1>4 DEF Signal, Waiting
  <1>5. ASSUME NEW w \in Worker, Lock(w) \/ Wait(w) \/ Relock(w) \/ Spurious(w) \/ Unlock(w)
        PROVE  Fronted'
    BY <1>5 DEF Lock, Wait, Relock, Spurious, Unlock
  <1>6. ASSUME NEW w \in Worker, Front(w) PROVE Fronted'
    BY <1>6 DEF Front
  <1>7. ASSUME NEW w \in Worker, PopFront(w) PROVE Fronted'
    BY <1>7 DEF PopFront
  <1>8. ASSUME NEW w \in Worker, Run(w) PROVE Fronted'
    BY <1>8 DEF Run
  <1>9. CASE UNCHANGED vars
    BY <1>9 DEF vars
  <1> QED
    BY <1>1, <1>2, <1>3, <1>4, <1>5, <1>6, <1>7, <1>8, <1>9 DEF Next, Queue, Step

\* No step loses a wakeup.  A push leaves the claim open until the signal,
\* which sends a waiting worker on the way if there is one; a worker starts to
\* wait only when the queue is empty, and a pop takes away a job and a worker.
LEMMA NextWakeup ==
    ASSUME IInv, [Next]_vars PROVE NoLostWakeup'
  <1> USE ThreadAssumption DEF IInv, TypeOK, Thread, NoLostWakeup, Goto, Acquire, Release
  <1>0. OnTheWay \in SUBSET Worker /\ Cardinality(OnTheWay) \in Nat /\ Len(queue) \in Nat
    <2>1. OnTheWay \in SUBSET Worker
      BY DEF OnTheWay
    <2>2. PICK w \in Worker : TRUE
      BY WorkerAssumption
    <2>3. Cardinality(OnTheWay) \in Nat
      BY <2>1, <2>2, Count
    <2> QED
      BY <2>1, <2>3, SMT
  <1>1. ASSUME NEW j \in Job, Call(j) PROVE NoLostWakeup'
    <2>1. OnTheWay' = OnTheWay /\ Waiting' = Waiting
      BY <1>1 DEF Call, OnTheWay, Waiting
    <2> QED
      BY <1>1, <2>1 DEF Call, MainPc
  <1>2. CASE QueueLock
    <2>1. OnTheWay' = OnTheWay /\ Waiting' = Waiting
      BY <1>2 DEF QueueLock, OnTheWay, Waiting
    <2> QED
      BY <1>2, <2>1 DEF QueueLock
  <1>3. CASE Push
    <2>1. OnTheWay' = OnTheWay /\ Waiting' = Waiting
      BY <1>3 DEF Push, OnTheWay, Waiting
    <2>2. Len(queue') = Len(queue) + 1
      BY <1>3, SMT DEF Push
    <2> QED
      BY <1>3, <2>1, <2>2, <1>0, SMT DEF Push
  <1>4. CASE Signal
    <2>1. CASE Waiting = {}
      BY <1>4, <2>1 DEF Signal, Waiting
    <2>2. ASSUME NEW w \in Waiting, pc' = [pc EXCEPT ![Main] = "unlock", ![w] = "relock"]
          PROVE  NoLostWakeup'
      <3>1. OnTheWay' = OnTheWay \cup {w} /\ w \in Worker /\ w \notin OnTheWay
        BY <2>2 DEF OnTheWay, Waiting
      <3>2. Cardinality(OnTheWay') = Cardinality(OnTheWay) + 1
        BY <3>1, <1>0, Count
      <3> QED
        BY <1>4, <2>2, <3>2, <1>0, SMT DEF Signal
    <2> QED
      BY <1>4, <2>1, <2>2 DEF Signal
  <1>5. CASE QueueUnlock
    <2>1. OnTheWay' = OnTheWay /\ Waiting' = Waiting
      BY <1>5 DEF QueueUnlock, OnTheWay, Waiting
    <2> QED
      BY <1>5, <2>1 DEF QueueUnlock
  <1>6. ASSUME NEW w \in Worker, Lock(w) \/ Relock(w) \/ Front(w) \/ Unlock(w)
        PROVE  NoLostWakeup'
    <2>1. OnTheWay' = OnTheWay /\ Waiting' = Waiting
      BY <1>6 DEF Lock, Relock, Front, Unlock, OnTheWay, Waiting
    <2> QED
      BY <1>6, <2>1 DEF Lock, Relock, Front, Unlock
  <1>7. ASSUME NEW w \in Worker, Wait(w) PROVE NoLostWakeup'
    <2>1. Cardinality(OnTheWay') \in Nat
      BY Count DEF OnTheWay
    <2> QED
      BY <1>7, <2>1, SMT DEF Wait
  <1>8. ASSUME NEW w \in Worker, Spurious(w) PROVE NoLostWakeup'
    <2>1. OnTheWay' = OnTheWay \cup {w} /\ w \notin OnTheWay /\ Waiting # {}
      BY <1>8 DEF Spurious, OnTheWay, Waiting
    <2> QED
      BY <1>8, <2>1, <1>0, Count, SMT DEF Spurious
  <1>9. ASSUME NEW w \in Worker, PopFront(w) PROVE NoLostWakeup'
    <2>1. OnTheWay' = OnTheWay \ {w} /\ w \in OnTheWay /\ Waiting' = Waiting
      BY <1>9 DEF PopFront, OnTheWay, Waiting
    <2>2. queue # <<>> /\ queue' = SubSeq(queue, 2, Len(queue)) /\ pc'[Main] = pc[Main]
      BY <1>9 DEF PopFront, Fronted
    <2>3. queue \in Seq(Job)
      OBVIOUS
    <2>4. Len(queue') = Len(queue) - 1
      BY <2>2, <2>3, PopQueue
    <2>5. Cardinality(OnTheWay') = Cardinality(OnTheWay) - 1
      BY <2>1, <1>0, Count
    <2>6. Waiting # {} => Len(queue) <= Cardinality(OnTheWay) + IF pc[Main] = "signal" THEN 1 ELSE 0
      OBVIOUS
    <2> HIDE DEF IInv, TypeOK
    <2> QED
      BY <1>0, <2>1, <2>2, <2>4, <2>5, <2>6, SMT
  <1>10. ASSUME NEW w \in Worker, Run(w) PROVE NoLostWakeup'
    <2>1. OnTheWay' = OnTheWay \cup {w} /\ w \notin OnTheWay /\ Waiting' = Waiting
      BY <1>10 DEF Run, OnTheWay, Waiting
    <2> QED
      BY <1>10, <2>1, <1>0, Count, SMT DEF Run
  <1>11. CASE UNCHANGED vars
    BY <1>11 DEF vars, OnTheWay, Waiting
  <1> QED
    BY <1>1, <1>2, <1>3, <1>4, <1>5, <1>6, <1>7, <1>8, <1>9, <1>10, <1>11 DEF Next, Queue, Step

-----------------------------------------------------------------------------
\* The inductive invariant holds in every reachable state.
THEOREM Invariance == Spec => []IInv
  <1>1. IInv /\ [Next]_vars => IInv'
    BY NextType, NextMutex, NextWakeup, NextHands, NextFronted DEF IInv
  <1> QED
    BY InitInv, <1>1, PTL DEF Spec

\* The variables of the pool always have their types.
THEOREM TypeCorrect == Spec => []TypeOK
  BY Invariance, PTL DEF IInv

\* Whatever the threads do, the thread that is between pthread_mutex_lock and
\* pthread_mutex_unlock is the one that holds the mutex.
THEOREM MutualExclusion == Spec => []MutexHeld
  BY Invariance, PTL DEF IInv

\* pthread_cond_signal under the mutex, once per push_back, loses no wakeup,
\* for any number of workers.
THEOREM WakeupsKept == Spec => []NoLostWakeup
  BY Invariance, PTL DEF IInv

\* A thread pool is a work queue: each job is started once, in the order of
\* the calls, by one worker, and run once.
THEOREM Refinement == Spec => ImplementsWorkQueue
  <1> USE ThreadAssumption DEF IInv, TypeOK, Thread, Goto
  <1>1. Init => Pool!Init
    BY DEF Init, Pool!Init, Taken
  <1>2. IInv /\ [Next]_vars => [Pool!Next]_Pool!vars
    <2> SUFFICES ASSUME IInv, [Next]_vars PROVE Pool!Next \/ UNCHANGED Pool!vars
      OBVIOUS
    <2>1. ASSUME NEW j \in Job, Call(j) PROVE UNCHANGED Pool!vars
      BY <2>1 DEF Call, Pool!vars, Taken
    <2>2. CASE QueueLock \/ Signal \/ QueueUnlock
      BY <2>2 DEF QueueLock, Signal, QueueUnlock, Waiting, Pool!vars, Taken
    <2>3. CASE Push
      <3>1. PICK j \in work[Main] : queue' = Append(queue, j)
        BY <2>3 DEF Push
      <3>2. j \in Job
        BY <2>3
      <3>3. Taken' = Taken /\ done' = done
        BY <2>3 DEF Push, Taken
      <3>4. j \notin Pool!Queued \cup Pool!Running \cup done
        BY SMT DEF Hands, Pool!Queued, Queued, Pool!Running, Taken
      <3> QED
        BY <3>1, <3>2, <3>3, <3>4 DEF Pool!Next, Pool!Submit
    <2>4. ASSUME NEW w \in Worker, Lock(w) \/ Wait(w) \/ Relock(w) \/ Unlock(w) \/ Spurious(w)
          PROVE  UNCHANGED Pool!vars
      BY <2>4 DEF Lock, Wait, Relock, Unlock, Spurious, Pool!vars, Taken
    <2>5. ASSUME NEW w \in Worker, Front(w) PROVE UNCHANGED Pool!vars
      <3>1. Taken' = Taken
        BY <2>5 DEF Front, Hands, Taken
      <3> QED
        BY <2>5, <3>1 DEF Front, Pool!vars
    <2>6. ASSUME NEW w \in Worker, PopFront(w) PROVE Pool!Take(w)
      <3>1. queue # <<>> /\ queue' = Tail(queue) /\ done' = done
        BY <2>6, SMT DEF PopFront, Fronted
      <3>2. Taken[w] = {} /\ Taken' = [Taken EXCEPT ![w] = {Head(queue)}]
        BY <2>6 DEF PopFront, Fronted, Taken
      <3> QED
        BY <3>1, <3>2 DEF Pool!Take
    <2>7. ASSUME NEW w \in Worker, Run(w) PROVE Pool!Finish(w)
      <3>1. Taken[w] = work[w] /\ Taken[w] # {}
        BY <2>7 DEF Run, Hands, Taken
      <3>2. Taken' = [Taken EXCEPT ![w] = {}]
        BY <2>7 DEF Run, Taken
      <3> QED
        BY <2>7, <3>1, <3>2 DEF Run, Pool!Finish
    <2>8. CASE UNCHANGED vars
      BY <2>8 DEF vars, Pool!vars, Taken
    <2> QED
      BY <2>1, <2>2, <2>3, <2>4, <2>5, <2>6, <2>7, <2>8 DEF Next, Queue, Step, Pool!Next
  <1> QED
    BY Invariance, <1>1, <1>2, PTL DEF Spec, ImplementsWorkQueue, Pool!Spec
=============================================================================

---------------------------- MODULE ThreadPool -----------------------------
(***************************************************************************)
(* The thread pool of src/core/thread_pool.cpp: one thread that queues     *)
(* jobs (the server's main thread) and the workers, around a mutex and a   *)
(* condition variable.  A step of a thread is a pthread call or what it    *)
(* does between two of them.  A Job is one call of thread_pool_queue.      *)
(***************************************************************************)
EXTENDS Integers, Sequences, FiniteSets

CONSTANTS Worker, Job, Main, NoThread

ASSUME WorkerAssumption == IsFiniteSet(Worker) /\ Worker # {}
ASSUME ThreadAssumption == Main \notin Worker /\ NoThread \notin Worker \cup {Main}

VARIABLES
    queue,      \* tp->queue
    mu,         \* the thread that holds tp->mu
    pc,         \* where each thread is; "waiting" is inside pthread_cond_wait
    work,       \* for each thread, the set of the (at most one) job in its hands
    done        \* the jobs that have been run

vars == <<queue, mu, pc, work, done>>

Thread == Worker \cup {Main}

Init == /\ queue = <<>>
        /\ mu = NoThread
        /\ pc = [t \in Thread |-> IF t = Main THEN "idle" ELSE "lock"]
        /\ work = [t \in Thread |-> {}]
        /\ done = {}

Goto(t, from, to) == pc[t] = from /\ pc' = [pc EXCEPT ![t] = to]

Acquire(t) == mu = NoThread /\ mu' = t
Release(t) == mu = t /\ mu' = NoThread

-----------------------------------------------------------------------------
(* thread_pool_queue                                                       *)

Queued == {queue[i] : i \in DOMAIN queue}
InHand == UNION {work[t] : t \in Thread}

Call(j) == /\ Goto(Main, "idle", "lock")
           /\ j \notin Queued \cup InHand \cup done
           /\ work' = [work EXCEPT ![Main] = {j}]
           /\ UNCHANGED <<queue, mu, done>>

QueueLock == Goto(Main, "lock", "push") /\ Acquire(Main) /\ UNCHANGED <<queue, work, done>>

\* Mutant: an empty Work is pushed.
Push_empty == /\ Goto(Main, "push", "signal")
              /\ queue' = Append(queue, NoThread)
              /\ work' = [work EXCEPT ![Main] = {}]
              /\ UNCHANGED <<mu, done>>

Push == /\ Goto(Main, "push", "signal")
        /\ \E j \in work[Main] : queue' = Append(queue, j)
        /\ work' = [work EXCEPT ![Main] = {}]
        /\ UNCHANGED <<mu, done>>

Waiting == {w \in Worker : pc[w] = "waiting"}

\* Mutant: a signal only when the queue was empty.
Signal_first == /\ pc[Main] = "signal"
                /\ \/ /\ Waiting = {} \/ Len(queue) > 1
                      /\ pc' = [pc EXCEPT ![Main] = "unlock"]
                   \/ /\ Len(queue) = 1
                      /\ \E w \in Waiting : pc' = [pc EXCEPT ![Main] = "unlock", ![w] = "relock"]
                /\ UNCHANGED <<queue, mu, work, done>>

\* Mutant: no signal.
Signal_never == Goto(Main, "signal", "unlock") /\ UNCHANGED <<queue, mu, work, done>>

\* pthread_cond_signal wakes a waiting thread, if there is one.
Signal == /\ pc[Main] = "signal"
          /\ \/ /\ Waiting = {}
                /\ pc' = [pc EXCEPT ![Main] = "unlock"]
             \/ \E w \in Waiting : pc' = [pc EXCEPT ![Main] = "unlock", ![w] = "relock"]
          /\ UNCHANGED <<queue, mu, work, done>>

\* Mutant: the mutex is not released.
QueueUnlock_keeps == Goto(Main, "unlock", "idle") /\ UNCHANGED <<queue, mu, work, done>>

QueueUnlock == Goto(Main, "unlock", "idle") /\ Release(Main) /\ UNCHANGED <<queue, work, done>>

-----------------------------------------------------------------------------
(* worker                                                                  *)

\* Mutant: the queue is used without the mutex.
Lock_free(w) == Goto(w, "lock", "check") /\ UNCHANGED <<queue, mu, work, done>>

Lock(w) == Goto(w, "lock", "check") /\ Acquire(w) /\ UNCHANGED <<queue, work, done>>

\* while (tp->queue.empty()) pthread_cond_wait: releases the mutex and waits
\* in one step.
Wait(w) == /\ Goto(w, "check", "waiting")
           /\ queue = <<>>
           /\ Release(w)
           /\ UNCHANGED <<queue, work, done>>

\* pthread_cond_wait may return without a signal.
Spurious(w) == Goto(w, "waiting", "relock") /\ UNCHANGED <<queue, mu, work, done>>

Relock(w) == Goto(w, "relock", "check") /\ Acquire(w) /\ UNCHANGED <<queue, work, done>>

\* Work w = tp->queue.front()
Front(w) == /\ Goto(w, "check", "pop")
            /\ queue # <<>>
            /\ work' = [work EXCEPT ![w] = {Head(queue)}]
            /\ UNCHANGED <<queue, mu, done>>

\* tp->queue.pop_front() takes off whatever is first by now.  (Of an empty queue
\* it is undefined: the mutex is there so that the job of Front is still first.)
PopFront(w) == /\ Goto(w, "pop", "unlock")
               /\ queue' = SubSeq(queue, 2, Len(queue))
               /\ UNCHANGED <<mu, work, done>>

Unlock(w) == Goto(w, "unlock", "work") /\ Release(w) /\ UNCHANGED <<queue, work, done>>

\* w.f(w.arg)
Run(w) == /\ Goto(w, "work", "lock")
          /\ done' = done \cup work[w]
          /\ work' = [work EXCEPT ![w] = {}]
          /\ UNCHANGED <<queue, mu>>

Step(w) == \/ Lock(w) \/ Wait(w) \/ Relock(w)
           \/ Front(w) \/ PopFront(w) \/ Unlock(w)
           \/ Run(w)

Queue == QueueLock \/ Push \/ Signal \/ QueueUnlock

Next == \/ \E j \in Job : Call(j)
        \/ Queue
        \/ \E w \in Worker : Step(w) \/ Spurious(w)

Spec == Init /\ [][Next]_vars

\* A thread that can go on does, and every job returns.
FairSpec == Spec /\ WF_vars(Queue) /\ \A w \in Worker : WF_vars(Step(w))

-----------------------------------------------------------------------------
(* Properties.                                                             *)

MainPc == {"idle", "lock", "push", "signal", "unlock"}
WorkerPc == {"lock", "check", "waiting", "relock", "pop", "unlock", "work"}

\* The values of the queue, the mutex and the threads.
TypeOK == /\ queue \in Seq(Job)
          /\ mu \in Thread \cup {NoThread}
          /\ pc \in [Thread -> MainPc \cup WorkerPc]
          /\ pc[Main] \in MainPc /\ \A w \in Worker : pc[w] \in WorkerPc
          /\ work \in [Thread -> SUBSET Job]
          /\ done \in SUBSET Job

\* A thread between pthread_mutex_lock and pthread_mutex_unlock holds the
\* mutex, and no other does: thread_pool_queue and the workers never touch the
\* queue at the same time.
MutexHeld == \A t \in Thread :
    (mu = t) <=> (pc[t] \in {"push", "signal", "check", "pop", "unlock"})

\* The workers that will look at the queue, or take a job off it, before they
\* wait.
OnTheWay == {w \in Worker : pc[w] \in {"lock", "relock", "check", "pop"}}

\* No wakeup is lost: while a worker waits, every queued job has a worker of
\* its own on the way to it, except the one thread_pool_queue has pushed and
\* not yet signalled.
NoLostWakeup ==
    Waiting # {} => Len(queue) <= Cardinality(OnTheWay) + IF pc[Main] = "signal" THEN 1 ELSE 0

\* Each job is taken once, in the order of the calls, and run once: between
\* front() and pop_front() of a worker the first job of the queue stays the
\* first.  A worker has taken its job when pop_front() returns.
Taken == [w \in Worker |-> IF pc[w] = "pop" THEN {} ELSE work[w]]
Pool == INSTANCE WorkQueue WITH running <- Taken

ImplementsWorkQueue == Pool!Spec

\* Every job that thread_pool_queue has pushed is run.
JobsRun == \A j \in Job : (j \in Queued) ~> (j \in done)
=============================================================================

----------------------------- MODULE WorkQueue -----------------------------
(***************************************************************************)
(* What the thread pool promises its caller: a job that was queued is      *)
(* started once, by one worker, in the order of the calls.                 *)
(***************************************************************************)
EXTENDS Sequences

CONSTANTS Worker, Job

VARIABLES queue,    \* jobs no worker has taken
          running,  \* for each worker, the set of the (at most one) job it runs
          done      \* jobs that have been run

vars == <<queue, running, done>>

Queued == {queue[i] : i \in DOMAIN queue}
Running == UNION {running[w] : w \in Worker}

Init == /\ queue = <<>>
        /\ running = [w \in Worker |-> {}]
        /\ done = {}

\* Each call of thread_pool_queue is a job of its own.
Submit(j) == /\ j \notin Queued \cup Running \cup done
             /\ queue' = Append(queue, j)
             /\ UNCHANGED <<running, done>>

Take(w) == /\ running[w] = {}
           /\ queue # <<>>
           /\ running' = [running EXCEPT ![w] = {Head(queue)}]
           /\ queue' = Tail(queue)
           /\ UNCHANGED done

Finish(w) == /\ running[w] # {}
             /\ done' = done \cup running[w]
             /\ running' = [running EXCEPT ![w] = {}]
             /\ UNCHANGED queue

Next == \/ \E j \in Job : Submit(j)
        \/ \E w \in Worker : Take(w) \/ Finish(w)

Spec == Init /\ [][Next]_vars
=============================================================================

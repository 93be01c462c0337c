# A verification project for the Redis-like server

TLA+ specifications of the server under `src/`: a single-threaded event loop over
non-blocking sockets, a keyspace in a hash table that rehashes incrementally,
key expiry from a binary heap, and a pool of threads that frees large values.
`HMap`, `ThreadPool`, `Keyspace` and `EventLoop` are the detailed specifications;
`NodeSet`, `WorkQueue` and `Store` say what their users rely on.

## The system

| part | source | state | operations | what is hard about it |
|---|---|---|---|---|
| hash map | `storage/hashtable.cpp` | two tables, `migration_pos` | lookup, insert, delete, traverse, clear | every operation moves up to `k_rehashing_work` nodes; a node may be in either table |
| TTL heap | `storage/heap.cpp` | array of (deadline, pointer to `heap_idx`) | upsert, delete at any position | back references while items move |
| commands | `storage/commands.cpp` | `server_data`: table, heap, pool | set, get, del, keys, pexpire, pttl | an entry is linked from three places, and freed here or by a worker |
| sorted sets | `storage/sorted_set.cpp`, `avl_tree.cpp` | hash table and AVL tree of members | zadd, zrem, zscore, zquery | two indexes in step; order statistics |
| timers | `core/sys_server.cpp`, `list.h` | idle list, heap | `next_timer_ms`, `process_timers` | deadlines at the boundary, a bounded number of reaps |
| thread pool | `core/thread_pool.cpp` | queue, mutex, condition variable | `thread_pool_queue`, `worker` | lost and spurious wakeups |
| event loop | `server.cpp` | `fd2conn`, poll's answer | poll, accept, serve, timers | the answer of poll is used after connections came and went |
| connections | `net/netio.cpp` | buffers and intents per connection | read, write, one request, destroy | partial frames, partial writes, pipelining |
| protocol | `net/protocol.cpp`, `serialize.cpp`, `buffer_io.h` | none | parse, append | lengths at the boundary |
| client | `client.cpp` | none kept | send, receive, print | |

The loop calls the handlers of connections, those call the commands, the commands
use table and heap, the timers use heap, table and idle list, and `entry_del` hands
large sorted sets to the pool. Nothing is persisted; the only concurrency inside
the process is the pool.

## The modules

- **`HMap`** is the map of `hashtable.cpp`. A table is `[tab, mask, size]` and a
  chain is the set of its nodes. One action per `hm_` function. The loop of
  `hm_help_rehashing` is described by the *batch* it moves: `Quota` nodes, the slots
  in increasing order, any nodes of the last slot. `NDEBUG`, which `Init` chooses and
  no step changes, is the build: with assertions `hm_insert_aborts` is the insertion
  that fails `h_init`'s. It leaves the node linked and both tables the same one, and
  the process ends; the properties are about a live process.
  `hm_insert` needs a node that is not in the map, as all callers ensure.
- **`HMapChains`** has the chains as lists and the loop as a recursive operator, and
  is checked to implement `HMap`. So what is proved of `HMap` carries over to the
  loop on the instances TLC checks.
- **`NodeSet`** is the set of nodes both implement, and that `Keyspace` uses as `db`.
  `ret` holds what was asked with the answer, here and in the two maps.
- **`Heap`** has `heap.cpp` as operators on a record with the fields `heap` and `idx`;
  positions are the code's plus one. **`TtlHeap`** drives them as `entry_set_ttl` and
  `process_timers` do, over more items than `Keyspace` can afford.
- **`Keyspace`** composes the table, the heap, the commands, the TTL half of
  `process_timers` and the workers. `server_data` is one record, because the
  functions that change it are operators from a value of it to the next; `entry`
  is the memory, an `Entry` an address. A command and a call of `process_timers` is
  one step, since only the main thread runs them and the workers share nothing with
  it but the queue. `request` and `response` record the last command and its answer,
  so that a command can only be matched by the same command of `Store`. A sorted set
  is the function its two indexes represent.
- **`Store`** is what the server promises clients: a map with deadlines in which an
  expired value stays visible until it is reaped, earliest first, `k_max_works` at a
  time. It is the contract of the code. Where the documents promise more (`get` on an
  expired key, `get` on a sorted set) a run of its own shows that the code does not
  keep it.
- **`ThreadPool`** has one step per pthread call, `push_back`, `front` and `pop_front`,
  spurious wakeups included; a `Job` is one call of `thread_pool_queue`.
  **`WorkQueue`** is the queue it implements (a worker has taken its job when
  `pop_front` returns), and the one `TakeJob` and `entry_del_worker` of `Keyspace`
  follow.
- **`EventLoop`** has the turn of the loop: `Prepare` (timeout), `Poll` or
  `PollInterrupted`, `handle_accept`, one `Serve` or `ServeNothing` per reported
  connection in the order of descriptors, `process_timers`. Streams are sequences of
  the tokens `head`, `body` and `long`; `read` gets any part of what was sent, `write`
  takes any part. Times are kept relative to the clock (`idle_ms` is `now -
  last_activity_ms`), so the clock is not bounded. The heap is the set of deadlines.
- `MC*` modules give the constants their values. An operator whose comment starts
  with *Mutant* is a definition with a plausible mistake; putting it in the place of
  the definition that follows makes the property named in `PROJECT.json` fail.

## The runs

| run | instance | what it shows |
|---|---|---|
| `hmap` | 6 nodes with colliding hash codes, load factor 1, one node per call, both builds | `Consistent`, `ScanInBounds`, `LoadBounded`, implements `NodeSet`, migrations end |
| `hmap_chains` | 6 nodes, two per call, both builds | the traversal is exact, implements `HMap` |
| `hmap_fill` | the constants of the code, 33 nodes, with assertions | *violated*: the assertion of `h_init` fails at the 32nd insertion |
| `ttl_heap` | 6 entries, 4 deadlines | order, back references; each operation changes the deadline of its entry as asked and of no other |
| `keyspace` | 2 keys, 3 addresses, 1 member, 2 workers, 1 reap per turn | one owner per entry, no stale timer, implements `Store` |
| `keyspace_live` | 2 keys, both sorted sets, large when they have a member | expired keys go, jobs finish |
| `keyspace_expiry` | 1 key | *violated*: a `get` can return an expired value |
| `keyspace_get_type` | 1 key | *violated*: a `get` on a sorted set is answered with a string |
| `thread_pool` | 3 workers, 4 jobs | mutual exclusion, no lost wakeup, implements `WorkQueue`, every job runs |
| `event_loop` | 2 connections, 5 client steps, a ttl | no dangling connection, intents, no stranded request, idle order, poll wakes in time, silent connections are closed |
| `event_loop_idle` | 1 connection | *violated*: a deadline that is exactly now is left |
| `event_loop_int` | 1 connection, a ttl too long | *violated*: poll sleeps past a deadline |

Why the bounds are enough. With six nodes, load factor 1 and a first table of four
slots, `hmap` has a first rehash, deletions and insertions at each stage of its
migration and hash codes that collide in one table and not in the other. Six entries make a
heap of three levels, in which an item that replaces a deleted one may have to go up
or down. Two keys and one reap per turn reach the limit `k_max_works`; the third
address is one that is free while the pool still holds another entry, and the two
workers can each be freeing one. Three workers are the fewest in
which a third takes the job of a second that was signalled. Two connections are
enough for one to be destroyed, or to become idle, while another is served; five
client steps are a connection with two pipelined requests in pieces, or two
connections with a request and a reset.

`hmap`, `hmap_chains` and `hmap_fill` do not check deadlock: after a failed assertion
the process is gone. In the 33-node run it is also the end of the insertions.
`Keyspace` takes times that fit an `int32_t` (`TimeAssumption`), so that the cast of
`next_timer_ms` changes none of them; `EventLoop` has the cast.

## The fairness

`hmap`: somebody keeps looking keys up; migrations only advance when the map is
used. `keyspace_live`: time goes on, poll returns when its timeout is over, the main
thread and the workers are scheduled. The clock of `Keyspace` is bounded, so deadlines
are within the bound and that run has no ttl of 0. `thread_pool`: a thread that can go on
does, and jobs return; nothing stronger is assumed of the mutex, and no spurious
wakeup is guaranteed. There are finitely many jobs. `event_loop`: the loop runs,
signals do not interrupt poll for ever, and a socket that poll reports again and
again is not EAGAIN each time (strong fairness of `Poll` and of `Serve`). Clients
take finitely many steps, so they fall silent.

## What is proved

TLAPS checks the following for every value of the constants.

`HMapProofs`, for any finite set of nodes, hash function, load factor and quota, and
any `BitAnd` with results between 0 and the mask: `TypeCorrect`, `MapConsistent`,
`ScanBounded`, `LoadFactorBounded` and `Refinement` (`HMap` implements `NodeSet`).
`MapConsistent` is not inductive by itself: that a batch is what the loop moves
needs the counter of the older table, and that the scan stays inside the table needs
that no node is behind `migration_pos`. The invariant is `Struct /\ Load` as long as no assertion has failed: `Struct`
has the shape, the placement, the counters, disjointness and the position of the
scan; `Load` bounds the newer table *during* a migration by the room the nodes of the
older one leave, which is why the load factor holds although `hm_insert` does not
test it then. The argument has one lemma per function (`InsertTable`, `DetachTable`,
`MoveBatch`, `HelpRehashing`, ...) and one step per operation (`NextInv`).

`ThreadPoolProofs`, for any set of jobs and any finite non-empty set of workers:
`TypeCorrect`, `MutualExclusion`, `WakeupsKept` and `Refinement` (`ThreadPool`
implements `WorkQueue`). `NoLostWakeup` counts the workers on their way to the queue:
a push adds a job and owes a signal, the signal pays with a worker if one waits, a pop takes one of
each, and a worker starts to wait only when the queue is empty. `Hands` says
which job each thread holds, and `Fronted` that the job a worker got from `front` is
still the first when it calls `pop_front`, because no other thread has the mutex;
the refinement needs both.

Only model-checked: liveness; what the recursive loops of `Heap` and `HMapChains`
compute, and with them `Keyspace`; `EventLoop`.

## Where code and documents disagree

- `hm_trigger_rehash` asks for `(size + 1) * 2` slots; `h_init` asserts a power of two.
  The Makefile does not define `NDEBUG`, so the server stops at the 32nd key. Values that
  need a larger map (a sorted set of over 1000 members, which goes to the pool) exist
  only in a build without assertions.
- `get` and the other commands do not look at deadlines; the tests say an expired key
  reads as nil.
- `get` does not look at the type of the entry and answers a sorted set with a string;
  `Design.md` says "fetch string, type-check".
- `process_timers` keeps a connection whose deadline is now; `Design.md` says ≤.
- `next_timer_ms` narrows to `int32_t`.
- Without a run: `Design.md` and `README.md` say deletion tries `older` then `newer`; the
  code tries `newer` first, which makes no difference while no node is in both.

## What is not modelled

The AVL tree and `zquery`, request parsing and response encoding, and the client are
planned below. Left out for good: logging, the set-up of the listening socket,
failures of `malloc` and of the pthread initialisers, `SIGPIPE`, bytes and wording.

## The plan

1. Done: hash map, TTL heap, keyspace, thread pool, event loop; proofs of `HMap` and
   `ThreadPool`.
2. `AvlTree` and `ZSet`: insertion, deletion and rotations on bounded trees (balance,
   order, counts), `avl_offset` against a sorted sequence, the two indexes in step, a
   refinement to the function `Keyspace` uses, `zquery` and its limit.
3. Proofs of `Keyspace`: ownership and unique keys by induction, with the heap
   operators behind lemmas; a step-by-step heap whose invariant (one hole) can be
   proved without induction over data.
4. Proofs of `EventLoop`: intents, reported connections, the idle list.
5. `Protocol` and `Client`: parsing against a reference, encoding and decoding as
   inverses, a request-response exchange over the streams of `EventLoop`.

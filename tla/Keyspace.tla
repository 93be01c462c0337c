----------------------------- MODULE Keyspace ------------------------------
(***************************************************************************)
(* The keyspace of the server: the commands of src/storage/commands.cpp    *)
(* and src/storage/sorted_set.cpp, the timers of src/core/sys_server.cpp   *)
(* that reap expired keys, and the workers that free large sorted sets.    *)
(*                                                                         *)
(* An Entry is an address the allocator can hand out.  The main thread     *)
(* runs everything but the workers: one turn of the event loop polls,      *)
(* serves any number of commands, then attends to the timers.  A command,  *)
(* and a whole call of process_timers, is one step; the workers share      *)
(* nothing with it but the pool's queue and the entries it hands them.     *)
(*                                                                         *)
(* The hash table of the server is the set NodeSet specifies and HMap      *)
(* implements; a sorted set is the function from its members to scores     *)
(* that its table and its tree represent.                                  *)
(***************************************************************************)
EXTENDS Integers, Sequences, FiniteSets, Functions, TLC, Heap

CONSTANTS
    Key, Value, Member, Score,  \* what the commands mention
    Ttl,                        \* the ttls of pexpire, in milliseconds
    Entry,                      \* addresses of entries
    Worker,                     \* threads of the pool
    MaxTime,                    \* bound of the clock
    k_max_works,                \* entries one call of process_timers reaps
    k_large_container_size      \* members of the largest sorted set freed at once

\* Every timeout fits the int32_t that next_timer_ms returns (EventLoop has the
\* ones that do not).
ASSUME TimeAssumption == MaxTime \in 0 .. 2147483647 /\ Ttl \subseteq Int
ASSUME LimitAssumption == k_max_works \in Nat \ {0} /\ k_large_container_size \in Nat

VARIABLES
    server_data,    \* db: the entries in the table; entry: what is at each address;
                    \* heap, idx: the TTL heap, and heap_idx of each entry;
                    \* queue: the jobs of the pool, each the entry to free
    running,        \* for each worker, the set of the (at most one) entry it is freeing
    now,            \* get_current_time_ms()
    phase,          \* where in its turn the main thread is
    request,        \* the last step if it was a command or process_timers
    response        \* and what it answered

vars == <<server_data, running, now, phase, request, response>>

db == server_data.db
entry == server_data.entry
queue == server_data.queue

Garbage == [type |-> "free", key |-> "", value |-> "", zset |-> <<>>]

None == <<>>
Nil == <<"nil">>
out_int(n) == <<"int", n>>
out_err(code) == <<"err", code>>

Init ==
    /\ server_data = [db |-> {}, entry |-> [e \in Entry |-> Garbage],
                      heap |-> <<>>, idx |-> [e \in Entry |-> NoIdx], queue |-> <<>>]
    /\ running = [w \in Worker |-> {}]
    /\ now = 0
    /\ phase = "poll"
    /\ request = None /\ response = None

-----------------------------------------------------------------------------
(* Entries.  The operators take and return a value of server_data.         *)

\* hm_lookup with entry_equals: the entry of key k.
Find(k) == {e \in db : entry[e].key = k}

\* A new entry in an address that is free, put in the table.
Create(e, type, k, v, z) ==
    /\ entry[e].type = "free"
    /\ server_data' = [server_data EXCEPT
           !.db = @ \cup {e}, !.idx[e] = NoIdx,
           !.entry[e] = [type |-> type, key |-> k, value |-> v, zset |-> z]]

\* Mutant: the ttl is unsigned, -1 is not told from the others.
entry_set_ttl_unsigned(s, e, ttl_ms) ==
    heap_upsert(s, s.idx[e], [val |-> now + ttl_ms, ref |-> e])

entry_set_ttl(s, e, ttl_ms) ==
    IF ttl_ms >= 0
    THEN heap_upsert(s, s.idx[e], [val |-> now + ttl_ms, ref |-> e])
    ELSE IF s.idx[e] # NoIdx
         THEN [heap_delete(s, s.idx[e]) EXCEPT !.idx[e] = NoIdx]
         ELSE s

\* Mutant: the entry is freed also when the pool is going to.
entry_del_twice(s, e) ==
    LET t == entry_set_ttl(s, e, -1)
    IN  IF t.entry[e].type = "zset" /\ Cardinality(DOMAIN t.entry[e].zset) > k_large_container_size
        THEN [t EXCEPT !.queue = Append(@, e), !.entry[e] = Garbage]
        ELSE [t EXCEPT !.entry[e] = Garbage]

\* Mutant: the item stays in the heap.
entry_del_stale(s, e) == [s EXCEPT !.entry[e] = Garbage]

\* Unlinks the TTL, then frees the entry or, when it is a large sorted set,
\* hands it to the pool.
entry_del(s, e) ==
    LET t == entry_set_ttl(s, e, -1)
    IN  IF t.entry[e].type = "zset" /\ Cardinality(DOMAIN t.entry[e].zset) > k_large_container_size
        THEN [t EXCEPT !.queue = Append(@, e)]
        ELSE [t EXCEPT !.entry[e] = Garbage]

-----------------------------------------------------------------------------
(* Commands: run_request on a well-formed request.                         *)

Command(op, r) == /\ phase = "serve"
                  /\ request' = op /\ response' = r
                  /\ UNCHANGED <<running, now, phase>>

\* Mutant: a new entry although the key has one.
set_key_always(k, v) ==
    /\ \E e \in Entry : Create(e, "init", k, v, <<>>)
    /\ Command(<<"set", k, v>>, Nil)

set_key(k, v) ==
    /\ \/ \E e \in Find(k) : server_data' = [server_data EXCEPT !.entry[e].value = v]
       \/ Find(k) = {} /\ \E e \in Entry : Create(e, "init", k, v, <<>>)
    /\ Command(<<"set", k, v>>, Nil)

get_key(k) ==
    /\ \/ \E e \in Find(k) : Command(<<"get", k>>, <<"str", entry[e].value>>)
       \/ Find(k) = {} /\ Command(<<"get", k>>, Nil)
    /\ UNCHANGED server_data

del_key(k) ==
    \/ \E e \in Find(k) :
        /\ server_data' = entry_del([server_data EXCEPT !.db = @ \ {e}], e)
        /\ Command(<<"del", k>>, out_int(1))
    \/ /\ Find(k) = {}
       /\ Command(<<"del", k>>, out_int(0))
       /\ UNCHANGED server_data

set_ttl_ms(k, ttl_ms) ==
    /\ now + ttl_ms <= MaxTime
    /\ \/ \E e \in Find(k) :
            /\ server_data' = entry_set_ttl(server_data, e, ttl_ms)
            /\ Command(<<"pexpire", k, ttl_ms>>, out_int(1))
       \/ /\ Find(k) = {}
          /\ Command(<<"pexpire", k, ttl_ms>>, out_int(0))
          /\ UNCHANGED server_data

get_ttl_ms(k) ==
    /\ \/ Find(k) = {} /\ Command(<<"pttl", k>>, out_int(-2))
       \/ \E e \in Find(k) :
            \/ server_data.idx[e] = NoIdx /\ Command(<<"pttl", k>>, out_int(-1))
            \/ /\ server_data.idx[e] # NoIdx
               /\ LET expires_at == server_data.heap[server_data.idx[e]].val
                  IN  Command(<<"pttl", k>>, out_int(IF expires_at > now THEN expires_at - now ELSE 0))
    /\ UNCHANGED server_data

all_keys == /\ Command(<<"keys">>, <<"arr", Cardinality(db), {<<entry[e].key, entry[e].value>> : e \in db}>>)
            /\ UNCHANGED server_data

\* A command on a sorted set finds a key of another type.
zcmd_bad_type(k) == /\ \E e \in Find(k) : entry[e].type # "zset"
                    /\ Command(<<"refused", k>>, out_err("ERR_BAD_TYP"))
                    /\ UNCHANGED server_data

zcmd_add(k, score, m) ==
    \/ /\ Find(k) = {}
       /\ \E e \in Entry : Create(e, "zset", k, "", m :> score)
       /\ Command(<<"zadd", k, score, m>>, out_int(1))
    \/ \E e \in Find(k) :
        /\ entry[e].type = "zset"
        /\ server_data' = [server_data EXCEPT !.entry[e].zset = (m :> score) @@ @]
        /\ Command(<<"zadd", k, score, m>>, out_int(IF m \in DOMAIN entry[e].zset THEN 0 ELSE 1))

zcmd_remove(k, m) ==
    \/ /\ Find(k) = {}
       /\ Command(<<"zrem", k, m>>, out_int(0))
       /\ UNCHANGED server_data
    \/ \E e \in Find(k) :
        /\ entry[e].type = "zset"
        /\ server_data' = [server_data EXCEPT !.entry[e].zset = Restrict(@, DOMAIN @ \ {m})]
        /\ Command(<<"zrem", k, m>>, out_int(IF m \in DOMAIN entry[e].zset THEN 1 ELSE 0))

zcmd_score(k, m) ==
    /\ \/ Find(k) = {} /\ Command(<<"zscore", k, m>>, Nil)
       \/ \E e \in Find(k) :
            LET z == entry[e].zset
            IN  /\ entry[e].type = "zset"
                /\ Command(<<"zscore", k, m>>, IF m \in DOMAIN z THEN <<"dbl", z[m]>> ELSE Nil)
    /\ UNCHANGED server_data

\* An argument that is no number, or a command run_request does not know.
malformed == /\ \E code \in {"ERR_BAD_ARG", "ERR_UNKNOWN"} : Command(<<"malformed">>, out_err(code))
             /\ UNCHANGED server_data

-----------------------------------------------------------------------------
(* The turn of the event loop.                                             *)

\* No one is answered.
Silent(op) == request' = op /\ response' = None

\* poll returns because of a connection.
PollEvent == /\ phase = "poll"
             /\ phase' = "serve"
             /\ Silent(None) /\ UNCHANGED <<server_data, running, now>>

\* Mutant: the test for an empty heap is the wrong way round.
PollTimeout_empty == /\ phase = "poll"
                     /\ server_data.heap = <<>>
                     /\ phase' = "serve"
                     /\ Silent(None) /\ UNCHANGED <<server_data, running, now>>

\* poll returns because the time next_timer_ms gave it is over: it waits
\* until the head of the heap is due (the cast to int32_t changes no timeout
\* here: TimeAssumption).
PollTimeout == /\ phase = "poll"
               /\ server_data.heap # <<>> /\ server_data.heap[1].val <= now
               /\ phase' = "serve"
               /\ Silent(None) /\ UNCHANGED <<server_data, running, now>>

\* One round of the TTL loop.  hm_delete compares addresses (hnode_same); an
\* entry that is no longer in the table is freed all the same.
ReapHead(s) ==
    LET e == s.heap[1].ref
    IN  entry_del([heap_delete(s, 1) EXCEPT !.idx[e] = NoIdx, !.db = @ \ {e}], e)

\* Mutant: a deadline that is now is not over.
process_timers_strict ==
    /\ phase = "serve"
    /\ phase' = "poll"
    /\ LET after[n \in 0 .. k_max_works] ==
               IF n = 0 THEN server_data
               ELSE LET s == after[n - 1]
                    IN  IF s.heap # <<>> /\ s.heap[1].val < now THEN ReapHead(s) ELSE s
       IN  server_data' = after[k_max_works]
    /\ Silent(<<"timers">>) /\ UNCHANGED <<running, now>>

process_timers ==
    /\ phase = "serve"
    /\ phase' = "poll"
    /\ LET after[n \in 0 .. k_max_works] ==
               IF n = 0 THEN server_data
               ELSE LET s == after[n - 1]
                    IN  IF s.heap # <<>> /\ s.heap[1].val <= now THEN ReapHead(s) ELSE s
       IN  server_data' = after[k_max_works]
    /\ Silent(<<"timers">>) /\ UNCHANGED <<running, now>>

\* Time passes.
Tick == /\ now < MaxTime
        /\ now' = now + 1
        /\ Silent(None) /\ UNCHANGED <<server_data, running, phase>>

\* Mutant: the job is popped and lost.
TakeJob_loses(w) == /\ running[w] = {} /\ queue # <<>>
                    /\ server_data' = [server_data EXCEPT !.queue = Tail(@)]
                    /\ Silent(None) /\ UNCHANGED <<running, now, phase>>

\* A worker takes the first job, and runs it (entry_del_worker).
TakeJob(w) == /\ running[w] = {} /\ queue # <<>>
              /\ running' = [running EXCEPT ![w] = {Head(queue)}]
              /\ server_data' = [server_data EXCEPT !.queue = Tail(@)]
              /\ Silent(None) /\ UNCHANGED <<now, phase>>

entry_del_worker(w) ==
    \E e \in running[w] : /\ server_data' = [server_data EXCEPT !.entry[e] = Garbage]
                          /\ running' = [running EXCEPT ![w] = {}]
                          /\ Silent(None) /\ UNCHANGED <<now, phase>>

Next ==
    \/ \E k \in Key :
        \/ get_key(k) \/ del_key(k) \/ get_ttl_ms(k) \/ zcmd_bad_type(k)
        \/ \E v \in Value : set_key(k, v)
        \/ \E t \in Ttl : set_ttl_ms(k, t)
        \/ \E m \in Member :
            zcmd_remove(k, m) \/ zcmd_score(k, m) \/ \E c \in Score : zcmd_add(k, c, m)
    \/ all_keys \/ malformed
    \/ PollEvent \/ PollTimeout \/ process_timers
    \/ Tick
    \/ \E w \in Worker : TakeJob(w) \/ entry_del_worker(w)

Spec == Init /\ [][Next]_vars

\* Time goes on, the kernel wakes poll when its timeout is over and schedules
\* the threads, and the main thread never waits for anything but poll.
FairSpec == /\ Spec
            /\ WF_vars(Tick) /\ WF_vars(PollTimeout) /\ WF_vars(process_timers)
            /\ \A w \in Worker : WF_vars(TakeJob(w)) /\ WF_vars(entry_del_worker(w))

-----------------------------------------------------------------------------
(* Properties.                                                             *)

Freeing == UNION {running[w] : w \in Worker}

\* What is at each address, which of them the table, the heap and the pool
\* hold, and where the main thread is.
TypeOK ==
    /\ db \subseteq Entry
    /\ \A e \in Entry :
        /\ DOMAIN entry[e] = {"type", "key", "value", "zset"}
        /\ entry[e].type \in {"free", "init", "zset"}
        /\ entry[e].key \in Key \cup {""}
        /\ entry[e].value \in Value \cup {""}
        /\ DOMAIN entry[e].zset \subseteq Member
        /\ Range(entry[e].zset) \subseteq Score
    /\ \A p \in DOMAIN server_data.heap :
        server_data.heap[p].val \in 0 .. MaxTime /\ server_data.heap[p].ref \in Entry
    /\ server_data.idx \in [Entry -> 0 .. Cardinality(Entry)]
    /\ Range(queue) \subseteq Entry
    /\ \A w \in Worker : running[w] = {} \/ \E e \in Entry : running[w] = {e}
    /\ now \in 0 .. MaxTime
    /\ phase \in {"poll", "serve"}

\* Every allocated entry has exactly one owner: the table, one job of the
\* pool or one worker.  So entry_del frees no entry twice, no worker frees an
\* entry a command can still find, and none leaks.
OneOwner ==
    /\ \A e \in Entry : (entry[e].type = "free") <=> (e \notin db \cup Range(queue) \cup Freeing)
    /\ db \cap (Range(queue) \cup Freeing) = {}
    /\ Range(queue) \cap Freeing = {}
    /\ IsInjective(queue)
    /\ \A w, x \in Worker : running[w] \cap running[x] # {} => w = x

\* The TTL heap is a heap, it and heap_idx agree, and it refers only to
\* entries of the table: the stale reference that process_timers guards
\* against does not arise, although del_key, process_timers and pexpire all
\* take items out of the middle of the heap.
TimersMatchTable ==
    /\ Ordered(server_data.heap)
    /\ Linked(server_data.heap, server_data.idx)
    /\ \A p \in DOMAIN server_data.heap : server_data.heap[p].ref \in db

\* No two entries of the table have the same key, so that hm_lookup with
\* entry_equals has one answer and `keys' lists each key once.
UniqueKeys == \A e, f \in db : entry[e].key = entry[f].key => e = f

\* The commands and the timers implement the map with deadlines of Store.
Abstract == INSTANCE Store WITH
    store <- [k \in Key |->
        {[type |-> entry[e].type, value |-> entry[e].value, zset |-> entry[e].zset,
          expires |-> IF server_data.idx[e] = NoIdx THEN {}
                      ELSE {server_data.heap[server_data.idx[e]].val}] : e \in Find(k)}]

ImplementsStore == Abstract!Spec

\* The keys whose entry has a deadline that has passed.
Expired == {k \in Key : \E e \in Find(k) :
                /\ server_data.idx[e] # NoIdx
                /\ server_data.heap[server_data.idx[e]].val <= now}

\* An expired key does not stay: it is reaped, whatever the clients do, unless
\* a pexpire moves its deadline; this although each turn reaps only a few.
ExpiredGoes == \A k \in Key : (k \in Expired) ~> (k \notin Expired)

\* Every large sorted set handed to the pool is freed.
JobsFinish == \A e \in Entry : (e \in Range(queue) \cup Freeing) ~> (entry[e].type = "free")

\* The tests of expiration (tests/test_ttl_expiration.py): `get' on a key
\* whose ttl is over returns nil.
ExpiredReadsNil ==
    [][\A k \in Key : (k \in Expired /\ get_key(k)) => response' = Nil]_vars

\* The design (Design.md, "`get`: fetch string, type-check"): `get' on a key
\* that holds a sorted set is refused, as the sorted set commands are on a
\* string.
GetTypeChecked ==
    [][\A k \in Key : (get_key(k) /\ \E e \in Find(k) : entry[e].type = "zset")
            => response' = out_err("ERR_BAD_TYP")]_vars
=============================================================================

------------------------------- MODULE Store -------------------------------
(***************************************************************************)
(* What the commands promise a client: a map from keys to values, some of  *)
(* which have a deadline.  A value whose deadline has passed disappears    *)
(* when the server next attends to its timers, earliest deadline first and *)
(* at most k_max_works at a time; until then commands still see it.        *)
(***************************************************************************)
EXTENDS Integers, FiniteSets, Functions, TLC

CONSTANTS Key, Value, Member, Score, Ttl, MaxTime, k_max_works

VARIABLES store,        \* for each key, the set of the (at most one) data it has
          now,          \* the clock
          request,      \* the command of the last step, or its attending to timers
          response      \* and what it answered

vars == <<store, now, request, response>>

None == <<>>
Nil == <<"nil">>
Integer(n) == <<"int", n>>
BadType == <<"err", "ERR_BAD_TYP">>
BadArg == <<"err", "ERR_BAD_ARG">>
Unknown == <<"err", "ERR_UNKNOWN">>

Init == /\ store = [k \in Key |-> {}]
        /\ now = 0
        /\ request = None /\ response = None

Asked(op) == request' = op /\ UNCHANGED now

Missing(k) == store[k] = {}

\* Replaces the data of k, if any, by d.
Write(k, d) == store' = [store EXCEPT ![k] = {d}]

Set(k, v) ==
    /\ Asked(<<"set", k, v>>)
    /\ \/ Missing(k) /\ Write(k, [type |-> "init", value |-> v, zset |-> <<>>, expires |-> {}])
       \/ \E d \in store[k] : Write(k, [d EXCEPT !.value = v])
    /\ response' = Nil

\* What the server promises, which is less than its design says: `get' does not
\* look at the type, and answers a sorted set with the string of its entry.
Get(k) == /\ Asked(<<"get", k>>)
          /\ \/ Missing(k) /\ response' = Nil
             \/ \E d \in store[k] : response' = <<"str", d.value>>
          /\ UNCHANGED store

Del(k) == /\ Asked(<<"del", k>>)
          /\ response' = Integer(Cardinality(store[k]))
          /\ store' = [store EXCEPT ![k] = {}]

\* A negative ttl takes the deadline away.
PExpire(k, ttl) ==
    /\ Asked(<<"pexpire", k, ttl>>)
    /\ response' = Integer(Cardinality(store[k]))
    /\ store' = [store EXCEPT ![k] =
                    {[d EXCEPT !.expires = IF ttl < 0 THEN {} ELSE {now + ttl}] : d \in @}]

PTtl(k) ==
    /\ Asked(<<"pttl", k>>)
    /\ \/ Missing(k) /\ response' = Integer(-2)
       \/ \E d \in store[k] :
            \/ d.expires = {} /\ response' = Integer(-1)
            \/ \E t \in d.expires : response' = Integer(IF t > now THEN t - now ELSE 0)
    /\ UNCHANGED store

\* `keys' announces how many pairs of a key and a value follow.
Keys == /\ Asked(<<"keys">>)
        /\ LET pairs == UNION {{<<k, d.value>> : d \in store[k]} : k \in Key}
           IN  response' = <<"arr", Cardinality(pairs), pairs>>
        /\ UNCHANGED store

\* A command on a sorted set is refused on a key of another type.
ZRefuse(k) == /\ Asked(<<"refused", k>>)
              /\ \E d \in store[k] : d.type # "zset"
              /\ response' = BadType
              /\ UNCHANGED store

ZAdd(k, m, score) ==
    /\ Asked(<<"zadd", k, score, m>>)
    /\ \/ /\ Missing(k)
          /\ Write(k, [type |-> "zset", value |-> "", zset |-> m :> score, expires |-> {}])
          /\ response' = Integer(1)
       \/ \E d \in store[k] :
            /\ d.type = "zset"
            /\ Write(k, [d EXCEPT !.zset = (m :> score) @@ @])
            /\ response' = Integer(IF m \in DOMAIN d.zset THEN 0 ELSE 1)

ZRem(k, m) ==
    /\ Asked(<<"zrem", k, m>>)
    /\ \/ Missing(k) /\ response' = Integer(0) /\ UNCHANGED store
       \/ \E d \in store[k] :
            /\ d.type = "zset"
            /\ Write(k, [d EXCEPT !.zset = Restrict(@, DOMAIN @ \ {m})])
            /\ response' = Integer(IF m \in DOMAIN d.zset THEN 1 ELSE 0)

ZScore(k, m) ==
    /\ Asked(<<"zscore", k, m>>)
    /\ \/ Missing(k) /\ response' = Nil
       \/ \E d \in store[k] :
            /\ d.type = "zset"
            /\ response' = IF m \in DOMAIN d.zset THEN <<"dbl", d.zset[m]>> ELSE Nil
    /\ UNCHANGED store

Malformed == /\ Asked(<<"malformed">>)
             /\ response' \in {BadArg, Unknown}
             /\ UNCHANGED store

Deadlines(k) == UNION {d.expires : d \in store[k]}

\* The keys whose deadline has passed.
Expired == {k \in Key : \E t \in Deadlines(k) : t <= now}

Reap(S) ==
    /\ Asked(<<"timers">>)
    /\ S \subseteq Expired
    /\ Cardinality(S) <= k_max_works
    /\ S = Expired \/ Cardinality(S) = k_max_works
    /\ \A k \in S, j \in Expired \ S :
         \A t \in Deadlines(k), u \in Deadlines(j) : t <= u
    /\ store' = [k \in Key |-> IF k \in S THEN {} ELSE store[k]]
    /\ response' = None

Tick == /\ now < MaxTime
        /\ now' = now + 1
        /\ request' = None /\ response' = None
        /\ UNCHANGED store

\* What the server does behind the scenes.
Quiet == Asked(None) /\ response' = None /\ UNCHANGED store

Next ==
    \/ \E k \in Key :
        \/ Get(k) \/ Del(k) \/ PTtl(k) \/ ZRefuse(k)
        \/ \E v \in Value : Set(k, v)
        \/ \E t \in Ttl : PExpire(k, t)
        \/ \E m \in Member : ZRem(k, m) \/ ZScore(k, m) \/ \E c \in Score : ZAdd(k, m, c)
    \/ Keys \/ Malformed
    \/ \E S \in SUBSET Key : Reap(S)
    \/ Tick \/ Quiet

Spec == Init /\ [][Next]_vars
=============================================================================

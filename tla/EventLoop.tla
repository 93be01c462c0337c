----------------------------- MODULE EventLoop -----------------------------
(***************************************************************************)
(* The event loop of src/server.cpp, the connection handlers of            *)
(* src/net/netio.cpp and the timers of src/core/sys_server.cpp.            *)
(*                                                                         *)
(* A turn of the loop computes the timeout of poll, polls, accepts, serves *)
(* the connections that are ready and attends to the timers.  Each handler *)
(* is one step of the only thread that runs them; clients and the clock    *)
(* move between the steps.                                                 *)
(*                                                                         *)
(* A byte stream is a sequence of tokens: "head", the length of a frame,   *)
(* "body", its payload, and "long", a length above k_max_msg.  Responses   *)
(* are counted in units of which one request produces ReplySize.  Times    *)
(* are relative to the clock: idle_ms is now - last_activity_ms and a      *)
(* deadline is the time that is left, so that the clock needs no bound.    *)
(***************************************************************************)
EXTENDS Integers, Sequences, FiniteSets, Functions, TLC

LOCAL INSTANCE FiniteSetsExt
LOCAL INSTANCE SequencesExt

CONSTANTS
    Fd,                 \* descriptors the kernel can give to connections
    k_idle_timeout_ms,
    Ttl,                \* ttls that requests can give to keys
    IntBits,            \* width of the result of next_timer_ms
    ReplySize,
    MaxClientSteps      \* bound of what the clients do

ASSUME FdAssumption == Fd \subseteq Nat /\ IsFiniteSet(Fd)
ASSUME SizeAssumption == /\ {k_idle_timeout_ms, IntBits, ReplySize} \subseteq Nat \ {0}
                         /\ MaxClientSteps \in Nat /\ Ttl \subseteq Nat

VARIABLES
    fd2conn,        \* the connection of each descriptor that has one
    idle_conn_list, \* descriptors, least recently active first
    heap,           \* the time left of each deadline in the TTL heap
    revents,        \* what poll reported of the descriptors not yet served
    phase,          \* where in its turn the loop is
    wake,           \* the time left until poll times out, NoWake if it does not
    backlog,        \* clients the listening socket has not accepted
    steps           \* what the clients have done so far

server == <<fd2conn, idle_conn_list, heap, revents, phase, wake>>
vars == <<server, backlog, steps>>

NoWake == -1

\* A fresh connection.  The last three fields are its socket: what the client
\* has sent, and whether it has closed or reset the connection.
NewConn == [want_read |-> TRUE, want_write |-> FALSE, want_close |-> FALSE,
            incoming |-> <<>>, outgoing |-> 0, idle_ms |-> 0,
            inbox |-> <<>>, closed |-> FALSE, reset |-> FALSE]

Init == /\ fd2conn = <<>>
        /\ idle_conn_list = <<>>
        /\ heap = {}
        /\ revents = <<>>
        /\ phase = "prepare"
        /\ wake = NoWake
        /\ backlog = 0
        /\ steps = 0

-----------------------------------------------------------------------------
(* The handlers of a connection: the outcomes they can have.               *)

\* Mutant: one request at a time.
handle_requests_one(c) ==
    IF Len(c.incoming) >= 2 /\ c.incoming[2] = "body"
    THEN [c EXCEPT !.incoming = SubSeq(@, 3, Len(@)), !.outgoing = @ + ReplySize]
    ELSE [c EXCEPT !.want_close = c.incoming # <<>> /\ Head(c.incoming) = "long"]

\* handle_one_request until it returns false: every complete frame at the
\* front of the buffer is answered; a length that is too long closes.
handle_requests(c) ==
    LET frames == CHOOSE n \in 0 .. Len(c.incoming) :
            /\ \A i \in 1 .. n : 2 * i <= Len(c.incoming) /\ c.incoming[2 * i] = "body"
            /\ 2 * n + 2 <= Len(c.incoming) => c.incoming[2 * n + 2] # "body"
        rest == SubSeq(c.incoming, 2 * frames + 1, Len(c.incoming))
    IN  [c EXCEPT !.incoming = rest,
                  !.outgoing = @ + frames * ReplySize,
                  !.want_close = rest # <<>> /\ Head(rest) = "long"]

\* Mutant: more is consumed than the buffer has.
handle_write_over(c) ==
    IF c.reset
    THEN {[c EXCEPT !.want_close = TRUE]}
    ELSE {c} \cup {[c EXCEPT !.outgoing = @ - n] : n \in 1 .. c.outgoing + 1}

\* Mutant: the intent stays when everything is written.
handle_write_intent(c) ==
    IF c.reset
    THEN {[c EXCEPT !.want_close = TRUE]}
    ELSE {c} \cup {[c EXCEPT !.outgoing = @ - n] : n \in 1 .. c.outgoing}

\* write fails, takes some of the buffer, or (EAGAIN) nothing.
handle_write(c) ==
    IF c.reset
    THEN {[c EXCEPT !.want_close = TRUE]}
    ELSE {c} \cup {[c EXCEPT !.outgoing = @ - n,
                             !.want_read = @ \/ n = c.outgoing,
                             !.want_write = @ /\ n # c.outgoing] : n \in 1 .. c.outgoing}

\* read fails, is at the end of the stream, or gets a part of what was sent.
handle_read(c) ==
    IF c.reset \/ c.inbox = <<>>
    THEN {[c EXCEPT !.want_close = TRUE]}
    ELSE UNION {LET d == handle_requests([c EXCEPT !.incoming = @ \o SubSeq(c.inbox, 1, n),
                                                   !.inbox = SubSeq(@, n + 1, Len(@))])
                IN  IF d.outgoing > 0
                    THEN handle_write([d EXCEPT !.want_read = FALSE, !.want_write = TRUE])
                    ELSE {d} : n \in 1 .. Len(c.inbox)}

\* What requests can do to the TTL heap (see Keyspace).
HeapAfter(before, after) ==
    IF Len(before.incoming \o before.inbox) = Len(after.incoming \o after.inbox)
    THEN {heap}
    ELSE {(heap \ gone) \cup new : gone \in SUBSET heap, new \in SUBSET Ttl}

Close(closed) == /\ fd2conn' = Restrict(fd2conn, DOMAIN fd2conn \ closed)
                 /\ idle_conn_list' = SelectSeq(idle_conn_list, LAMBDA fd : fd \notin closed)

-----------------------------------------------------------------------------
(* The loop.                                                               *)

ToInt(n) == ((n + 2 ^ (IntBits - 1)) % 2 ^ IntBits) - 2 ^ (IntBits - 1)

\* The time left of the timers: that of the least recently active connection,
\* and of the keys.
IdleLeft(fd) == k_idle_timeout_ms - fd2conn[fd].idle_ms
Timers == heap \cup {IdleLeft(idle_conn_list[i]) : i \in DOMAIN idle_conn_list \cap {1}}

\* Mutant: the deadlines of keys are forgotten.
next_timer_ms_idle ==
    IF idle_conn_list = <<>> THEN NoWake ELSE ToInt(Max({IdleLeft(idle_conn_list[1]), 0}))

next_timer_ms ==
    IF Timers = {} THEN NoWake
    ELSE IF Min(Timers) <= 0 THEN 0
    ELSE ToInt(Min(Timers))

\* Builds poll_args and enters poll; a negative timeout is no timeout.
Prepare == /\ phase = "prepare"
           /\ phase' = "poll"
           /\ wake' = IF next_timer_ms < 0 THEN NoWake ELSE next_timer_ms
           /\ UNCHANGED <<fd2conn, idle_conn_list, heap, revents, backlog, steps>>

\* What poll reports of a connection; the kernel decides who is writable.
Reported(fd, writable) ==
    LET c == fd2conn[fd]
    IN  {e \in {"POLLIN", "POLLOUT", "POLLERR"} :
            CASE e = "POLLIN" -> c.want_read /\ (c.inbox # <<>> \/ c.closed \/ c.reset)
              [] e = "POLLOUT" -> c.want_write /\ (fd \in writable \/ c.reset)
              [] e = "POLLERR" -> c.reset}

Poll == /\ phase = "poll"
        /\ \E writable \in SUBSET DOMAIN fd2conn :
             revents' = [fd \in {fd \in DOMAIN fd2conn : Reported(fd, writable) # {}} |->
                            Reported(fd, writable)]
        /\ DOMAIN revents' # {} \/ backlog > 0 \/ wake = 0
        /\ phase' = IF backlog > 0 THEN "accept" ELSE "serve"
        /\ UNCHANGED <<fd2conn, idle_conn_list, heap, wake, backlog, steps>>

\* poll fails with EINTR: continue.
PollInterrupted == /\ phase = "poll"
                   /\ phase' = "prepare"
                   /\ UNCHANGED <<fd2conn, idle_conn_list, heap, revents, wake, backlog, steps>>

handle_accept ==
    /\ phase = "accept"
    /\ \/ \E fd \in Fd \ DOMAIN fd2conn :
            /\ fd2conn' = (fd :> NewConn) @@ fd2conn
            /\ idle_conn_list' = Append(idle_conn_list, fd)
            /\ backlog' = backlog - 1
       \/ UNCHANGED <<fd2conn, idle_conn_list, backlog>>    \* accept fails
    /\ phase' = "serve"
    /\ UNCHANGED <<heap, revents, wake, steps>>

\* Mutant: the connection keeps its place in the list.
Attend_stays(fd, c) ==
    /\ phase = "serve"
    /\ DOMAIN revents # {} /\ fd = Min(DOMAIN revents)
    /\ IF "POLLERR" \in revents[fd] \/ c.want_close
       THEN Close({fd})
       ELSE /\ fd2conn' = [fd2conn EXCEPT ![fd] = [c EXCEPT !.idle_ms = 0]]
            /\ UNCHANGED idle_conn_list
    /\ heap' \in HeapAfter(fd2conn[fd], c)
    /\ revents' = Restrict(revents, DOMAIN revents \ {fd})
    /\ UNCHANGED <<phase, wake, backlog, steps>>

\* The first descriptor not yet served, whose connection becomes the most
\* recently active and then is c, or is destroyed.
Attend(fd, c) ==
    /\ phase = "serve"
    /\ DOMAIN revents # {} /\ fd = Min(DOMAIN revents)
    /\ IF "POLLERR" \in revents[fd] \/ c.want_close
       THEN Close({fd})
       ELSE /\ fd2conn' = [fd2conn EXCEPT ![fd] = [c EXCEPT !.idle_ms = 0]]
            /\ idle_conn_list' = Append(SelectSeq(idle_conn_list, LAMBDA f : f # fd), fd)
    /\ heap' \in HeapAfter(fd2conn[fd], c)
    /\ revents' = Restrict(revents, DOMAIN revents \ {fd})
    /\ UNCHANGED <<phase, wake, backlog, steps>>

Serve(fd) ==
    \E c \in IF "POLLIN" \in revents[fd] /\ fd2conn[fd].want_read
             THEN handle_read(fd2conn[fd]) ELSE {fd2conn[fd]} :
    \E d \in IF "POLLOUT" \in revents[fd] /\ c.want_write
             THEN handle_write(c) ELSE {c} :
        d # fd2conn[fd] /\ Attend(fd, d)

\* read or write returns EAGAIN although poll reported the socket, or there
\* is an error to report and nothing to read or to write.
ServeNothing(fd) == Attend(fd, fd2conn[fd])

\* Mutant: the timers run before every reported connection is served.
process_timers_early ==
    /\ phase = "serve"
    /\ Close({fd \in DOMAIN fd2conn : IdleLeft(fd) < 0})
    /\ heap' = heap \ {0}
    /\ phase' = "prepare"
    /\ UNCHANGED <<revents, wake, backlog, steps>>

\* Mutant: a connection with something to write is not closed.
process_timers_spares ==
    /\ phase = "serve" /\ DOMAIN revents = {}
    /\ Close({fd \in DOMAIN fd2conn : IdleLeft(fd) < 0 /\ fd2conn[fd].outgoing = 0})
    /\ heap' = heap \ {0}
    /\ phase' = "prepare"
    /\ UNCHANGED <<revents, wake, backlog, steps>>

\* Connections are closed from the head of the list while their time is over.
process_timers ==
    /\ phase = "serve" /\ DOMAIN revents = {}
    /\ LET over == {i \in DOMAIN idle_conn_list :
                       \A j \in 1 .. i : IdleLeft(idle_conn_list[j]) < 0}
       IN  Close({idle_conn_list[i] : i \in over})
    /\ \/ heap' = heap \ {0}
       \/ heap' = heap          \* more than k_max_works keys are due
    /\ phase' = "prepare"
    /\ UNCHANGED <<revents, wake, backlog, steps>>

-----------------------------------------------------------------------------
(* The environment.                                                        *)

Client == steps < MaxClientSteps /\ steps' = steps + 1

Connect == Client /\ backlog' = backlog + 1 /\ UNCHANGED server

\* Clients send whole frames, in pieces, or a length that is too long.
Send(fd) ==
    /\ Client
    /\ ~fd2conn[fd].closed /\ ~fd2conn[fd].reset
    /\ LET stream == fd2conn[fd].incoming \o fd2conn[fd].inbox
           next == IF stream # <<>> /\ Last(stream) = "head" THEN {"body"} ELSE {"head", "long"}
       IN  \E token \in next : fd2conn' = [fd2conn EXCEPT ![fd].inbox = Append(@, token)]
    /\ UNCHANGED <<idle_conn_list, heap, revents, phase, wake, backlog>>

Shutdown(fd) == /\ Client
                /\ \/ fd2conn' = [fd2conn EXCEPT ![fd].closed = TRUE]
                   \/ fd2conn' = [fd2conn EXCEPT ![fd].reset = TRUE]
                /\ UNCHANGED <<idle_conn_list, heap, revents, phase, wake, backlog>>

\* A millisecond passes.  A connection past its timeout, and a key past its
\* deadline, does not get any later.
Tick == /\ fd2conn' = [fd \in DOMAIN fd2conn |->
               [fd2conn[fd] EXCEPT !.idle_ms = Min({@ + 1, k_idle_timeout_ms + 1})]]
        /\ heap' = {Max({t - 1, 0}) : t \in heap}
        /\ wake' = IF wake > 0 THEN wake - 1 ELSE wake
        /\ UNCHANGED <<idle_conn_list, revents, phase, backlog, steps>>

Next == \/ Prepare \/ Poll \/ PollInterrupted \/ handle_accept \/ process_timers
        \/ \E fd \in DOMAIN fd2conn : Send(fd) \/ Shutdown(fd)
        \/ \E fd \in DOMAIN revents : Serve(fd) \/ ServeNothing(fd)
        \/ Connect \/ Tick

Spec == Init /\ [][Next]_vars

\* The thread runs; signals do not interrupt poll for ever; a socket poll
\* keeps reporting is not for ever EAGAIN; time goes on.
FairSpec == /\ Spec
            /\ WF_vars(Prepare) /\ SF_vars(Poll)
            /\ WF_vars(handle_accept) /\ WF_vars(process_timers)
            /\ WF_vars(\E fd \in DOMAIN revents : ServeNothing(fd))
            /\ \A fd \in Fd : SF_vars(fd \in DOMAIN revents /\ Serve(fd))
            /\ WF_vars(Tick)

-----------------------------------------------------------------------------
(* Properties.                                                             *)

\* The connections, the list of them and the phase of the loop.
TypeOK ==
    /\ DOMAIN fd2conn \subseteq Fd
    /\ \A fd \in DOMAIN fd2conn :
        /\ DOMAIN fd2conn[fd] = DOMAIN NewConn
        /\ fd2conn[fd].outgoing \in Nat
        /\ fd2conn[fd].idle_ms \in 0 .. k_idle_timeout_ms + 1
        /\ fd2conn[fd].incoming \o fd2conn[fd].inbox \in Seq({"head", "body", "long"})
    /\ heap \subseteq Nat
    /\ phase \in {"prepare", "poll", "accept", "serve"}
    /\ wake \in Nat \cup {NoWake}
    /\ backlog \in 0 .. MaxClientSteps

\* The loop dereferences fd2conn[poll_args[i].fd]: a descriptor poll reported
\* still has its connection when its turn comes, whatever accept and the
\* handlers of the others did in between.
ReportedAlive == DOMAIN revents \subseteq DOMAIN fd2conn

\* A connection waits to write exactly while it has something to write, and
\* else to read: so handle_write's assertion holds, poll is always asked for
\* one of the two, and no response is forgotten.
Intent == \A fd \in DOMAIN fd2conn :
    LET c == fd2conn[fd]
    IN  c.want_write = (c.outgoing > 0) /\ c.want_read = ~c.want_write

\* No complete request lies in a buffer unanswered: handle_read leaves less
\* than a frame, since nothing but new input would make the loop look at it.
NoneStranded == \A fd \in DOMAIN fd2conn : "body" \notin Range(fd2conn[fd].incoming)

\* The idle list has every connection once, least recently active first: the
\* head alone determines the next timeout, and process_timers can stop at the
\* first connection whose time is not over.
IdleListOrdered ==
    /\ Range(idle_conn_list) = DOMAIN fd2conn
    /\ IsInjective(idle_conn_list)
    /\ \A i, j \in DOMAIN idle_conn_list :
        i < j => fd2conn[idle_conn_list[i]].idle_ms >= fd2conn[idle_conn_list[j]].idle_ms

\* poll does not sleep past a deadline: neither that of a key nor that of any
\* connection of the list.
WakesInTime ==
    phase = "poll" =>
        \A t \in heap \cup {IdleLeft(fd) : fd \in DOMAIN fd2conn} :
            wake # NoWake /\ wake <= Max({t, 0})

\* When its client is silent a connection is closed after the idle timeout,
\* also one with a response its client does not read.
SilentClosed == \A fd \in Fd : (fd \in DOMAIN fd2conn) ~> (fd \notin DOMAIN fd2conn)

\* Design.md on process_timers: it closes connections while their deadlines
\* are <= now, so none of them is left.
NoneDueAfterTimers ==
    [][process_timers => \A fd \in DOMAIN fd2conn' : IdleLeft(fd)' > 0]_vars
=============================================================================

-------------------------------- MODULE Echo --------------------------------
(***************************************************************************)
(* example/pingpong/server.cpp and client.cpp over include/ioutils/tcp.hpp:*)
(* an acceptor, one session coroutine per accepted connection and a number *)
(* of client coroutines, all on the descriptor table of Descriptors (as in *)
(* test/socket_test.cpp, both ends may live in one process).               *)
(*                                                                         *)
(* Objects: 0 is the acceptor, 1 .. NClients are the clients' connectors,  *)
(* NClients + c is the socket of the session that serves client c.  Bytes  *)
(* are counted; 1024 of the code is Unit.                                  *)
(***************************************************************************)
EXTENDS Descriptors, Sequences, FiniteSetsExt

CONSTANTS NClients, Times, Unit, Capacity

\* Capacity is what a connection's buffers take in one direction: the kernel's
\* choice, which neither program sets or looks at.
ASSUME EchoAssumption ==
    /\ {NClients, Times, Unit, Capacity} \subseteq Nat \ {0}
    /\ Objects = 0 .. 2 * NClients

Acceptor == 0
Clients == 1 .. NClients
Session(c) == NClients + c
Sessions == {Session(c) : c \in Clients}
Peer(o) == IF o \in Clients THEN o + NClients ELSE o - NClients

VARIABLES
    backlog,    \* clients connected and not yet accepted
    out,        \* bytes an endpoint sent that the other has not received
    gone,       \* how an endpoint's socket was closed: no, fin, rst
    buf,        \* size of what an endpoint sends
    left, got,  \* a client's times and bytes_read
    read_cnt,   \* of a session
    ended,      \* coroutines that are over
    aborted,    \* assert(m == n) failed
    stopped,    \* start_all_conn called request_stop
    sent        \* bytes the kernel took from a client (not a variable of the code)

tvars == <<backlog, out, gone, buf, left, got, read_cnt, ended, aborted, stopped, sent>>
evars == <<dvars, tvars>>

EInit ==
    /\ DInit
    /\ backlog = <<>> /\ ended = {} /\ aborted = FALSE /\ stopped = FALSE
    /\ out = [o \in Clients \cup Sessions |-> 0]
    /\ gone = [o \in Clients \cup Sessions |-> "no"]
    /\ buf = [o \in Clients \cup Sessions |-> Unit]
    /\ left = [c \in Clients |-> Times]
    /\ got = [c \in Clients |-> 0]
    /\ read_cnt = [s \in Sessions |-> 0]
    /\ sent = [c \in Clients |-> 0]

\* closing a socket with unread bytes resets the connection
Closing(o) == IF out[Peer(o)] > 0 THEN "rst" ELSE "fin"

\* the awaited operation is over and the same object is awaited again
Again(o, kind) ==
    /\ op' = [op EXCEPT ![o] = kind]
    /\ res' = [res EXCEPT ![o] = Pending]

\* the coroutine's socket leaves its scope
Leaves(o) ==
    /\ table' = Closed(o)
    /\ fd' = [fd EXCEPT ![o] = None]
    /\ alive' = alive \ {o}
    /\ Resumed(o)
    /\ ended' = ended \cup {o}

\* a new socket object, awaited on its first operation
Enters(o, n, kind) ==
    /\ table' = [table EXCEPT ![n] = o]
    /\ fd' = [fd EXCEPT ![o] = n]
    /\ alive' = alive \cup {o}
    /\ Again(o, kind)

-----------------------------------------------------------------------------
(* The kernel's side of connect, accept, send and recv *)

\* connector::connect: the server takes it into its queue, or it fails
KernelConnect(c) ==
    /\ op[c] = "connect" /\ res[c] = Pending
    /\ \/ Acceptor \in alive /\ Answer(c, 0) /\ backlog' = Append(backlog, c)
       \/ Answer(c, Error) /\ UNCHANGED backlog
    /\ UNCHANGED <<table, fd, alive, op, faults, out, gone, buf, left, got, read_cnt, ended,
                   aborted, stopped, sent>>

\* acceptor::accept: the lowest free number, or an error, EMFILE among them
KernelAccept ==
    /\ op[Acceptor] = "accept" /\ res[Acceptor] = Pending /\ backlog # <<>>
    /\ \/ \E n \in Numbers :
             /\ Lowest(n)
             /\ table' = [table EXCEPT ![n] = Session(Head(backlog))]
             /\ Answer(Acceptor, n)
       \/ Answer(Acceptor, Error) /\ UNCHANGED table
    /\ UNCHANGED <<fd, alive, op, faults, tvars>>

\* tcp_sock::send takes what fits, and waits while nothing fits
KernelSend(o) ==
    /\ op[o] = "send" /\ res[o] = Pending
    /\ \/ /\ gone[Peer(o)] = "rst" /\ Answer(o, Error)
          /\ UNCHANGED <<out, gone, sent>>
       \/ /\ gone[Peer(o)] = "fin" /\ Answer(o, buf[o])
          /\ gone' = [gone EXCEPT ![Peer(o)] = "rst"]
          /\ UNCHANGED <<out, sent>>
       \/ /\ gone[Peer(o)] = "no" /\ out[o] < Capacity
          /\ LET m == Min({buf[o], Capacity - out[o]}) IN
             /\ Answer(o, m)
             /\ out' = [out EXCEPT ![o] = @ + m]
             /\ sent' = IF o \in Clients THEN [sent EXCEPT ![o] = @ + m] ELSE sent
          /\ UNCHANGED gone
    /\ UNCHANGED <<table, fd, alive, op, faults, backlog, buf, left, got, read_cnt, ended,
                   aborted, stopped>>

\* tcp_sock::recv gives any part of what is under way, 0 after the peer closed
KernelRecv(o) ==
    /\ op[o] = "recv" /\ res[o] = Pending
    /\ \/ \E k \in 1 .. Min({Unit, out[Peer(o)]}) :
             Answer(o, k) /\ out' = [out EXCEPT ![Peer(o)] = @ - k]
       \/ gone[Peer(o)] = "fin" /\ out[Peer(o)] = 0 /\ Answer(o, 0) /\ UNCHANGED out
       \/ gone[Peer(o)] = "rst" /\ Answer(o, Error) /\ UNCHANGED out
    /\ UNCHANGED <<table, fd, alive, op, faults, backlog, gone, buf, left, got, read_cnt, ended,
                   aborted, stopped, sent>>

-----------------------------------------------------------------------------
(* client.cpp *)

\* up to co_await conn.connect(): connector{} or set_no_delay() may throw
ClientStart(c) ==
    /\ Raw(c) /\ c \notin ended
    /\ \/ /\ ended' = ended \cup {c}
          /\ UNCHANGED <<table, fd, alive, op, res>>
       \/ /\ \E n \in Numbers : Lowest(n) /\ Enters(c, n, "connect")
          /\ UNCHANGED ended
    /\ UNCHANGED <<faults, backlog, out, gone, buf, left, got, read_cnt, aborted, stopped, sent>>

\* the rest of client(): connect, then times * (send, recv), however few bytes an
\* answer has; an exception or an end of stream leaves the loop, and conn is
\* destroyed
ClientResume(c) ==
    /\ op[c] # "none" /\ res[c] # Pending
    /\ LET m == IF op[c] = "recv" /\ res[c] > 0 THEN res[c] ELSE 0 IN
       /\ got' = [got EXCEPT ![c] = @ + m]
       /\ left' = [left EXCEPT ![c] = IF m > 0 THEN @ - 1 ELSE @]
    /\ IF res[c] = Error \/ (op[c] = "recv" /\ (res[c] = 0 \/ left'[c] = 0))
       THEN Leaves(c) /\ gone' = [gone EXCEPT ![c] = Closing(c)]
       ELSE /\ Again(c, IF op[c] = "send" THEN "recv" ELSE "send")
            /\ UNCHANGED <<table, fd, alive, ended, gone>>
    /\ UNCHANGED <<faults, backlog, out, buf, read_cnt, aborted, stopped, sent>>

\* start_all_conn: when_all returns after the last client, then request_stop
StartAllConn ==
    /\ Clients \subseteq ended /\ ~stopped
    /\ stopped' = TRUE
    /\ UNCHANGED <<dvars, backlog, out, gone, buf, left, got, read_cnt, ended, aborted, sent>>

-----------------------------------------------------------------------------
(* server.cpp *)

\* up to co_await accpt.accept(): acceptor{}, bind() or listen() may throw
ServerStart ==
    /\ Raw(Acceptor) /\ Acceptor \notin ended
    /\ \/ /\ ended' = ended \cup {Acceptor}
          /\ UNCHANGED <<table, fd, alive, op, res>>
       \/ /\ \E n \in Numbers : Lowest(n) /\ Enters(Acceptor, n, "accept")
          /\ UNCHANGED ended
    /\ UNCHANGED <<faults, backlog, out, gone, buf, left, got, read_cnt, aborted, stopped, sent>>

\* accept threw: accpt is destroyed, and with it every connection still queued
ServerEnds ==
    /\ op[Acceptor] = "accept" /\ res[Acceptor] = Error
    /\ Leaves(Acceptor)
    /\ backlog' = <<>>
    /\ gone' = [o \in DOMAIN gone |->
                   IF \E i \in DOMAIN backlog : o = Session(backlog[i]) THEN "rst" ELSE gone[o]]
    /\ UNCHANGED <<faults, out, buf, left, got, read_cnt, aborted, stopped, sent>>

\* tcp_sock{res} is moved into start_session, which co_spawn runs up to its first
\* recv; set_no_delay() may throw, which destroys the session.  Then accept again.
ServerSpawns ==
    /\ op[Acceptor] = "accept" /\ res[Acceptor] >= 0
    /\ LET s == Session(Head(backlog)) IN
       \/ /\ fd' = [fd EXCEPT ![s] = res[Acceptor]]
          /\ alive' = alive \cup {s}
          /\ op' = [op EXCEPT ![Acceptor] = "accept", ![s] = "recv"]
          /\ UNCHANGED <<table, ended, gone>>
       \/ /\ table' = [table EXCEPT ![res[Acceptor]] = Free]
          /\ ended' = ended \cup {s}
          /\ gone' = [gone EXCEPT ![s] = Closing(s)]
          /\ UNCHANGED <<fd, alive, op>>
    /\ res' = [res EXCEPT ![Acceptor] = Pending]
    /\ backlog' = Tail(backlog)
    /\ UNCHANGED <<faults, out, buf, left, got, read_cnt, aborted, stopped, sent>>

SessionSendsBytes(s, n) ==
    /\ op[s] = "recv" /\ res[s] > 0
    /\ buf' = [buf EXCEPT ![s] = n]
    /\ Again(s, "send")
    /\ UNCHANGED <<table, fd, alive, faults, backlog, out, gone, left, got, read_cnt, ended,
                   aborted, stopped, sent>>

\* mutant: the whole buffer is sent, whatever recv gave
SessionSendsAll(s) == SessionSendsBytes(s, Unit)

\* recv gave n bytes: send exactly those
SessionSends(s) == SessionSendsBytes(s, res[s])

\* send returned m: assert(m == n), count, recv again
SessionRecvs(s) ==
    /\ op[s] = "send" /\ res[s] > 0
    /\ aborted' = (res[s] # buf[s])
    /\ read_cnt' = [read_cnt EXCEPT ![s] = @ + buf[s]]
    /\ Again(s, "recv")
    /\ UNCHANGED <<table, fd, alive, faults, backlog, out, gone, buf, left, got, ended,
                   stopped, sent>>

SessionCatches(s) ==
    /\ op[s] \in {"recv", "send"} /\ res[s] = Error
    /\ Leaves(s)
    /\ gone' = [gone EXCEPT ![s] = Closing(s)]
    /\ UNCHANGED <<faults, backlog, out, buf, left, got, read_cnt, aborted, stopped, sent>>

\* mutant: end of stream does not leave the loop
SessionBreaksNot(s) ==
    /\ op[s] = "recv" /\ res[s] = 0
    /\ Again(s, "recv")
    /\ UNCHANGED <<table, fd, alive, faults, tvars>>

\* end of stream
SessionBreaks(s) ==
    /\ op[s] = "recv" /\ res[s] = 0
    /\ Leaves(s)
    /\ gone' = [gone EXCEPT ![s] = Closing(s)]
    /\ UNCHANGED <<faults, backlog, out, buf, left, got, read_cnt, aborted, stopped, sent>>

-----------------------------------------------------------------------------

ClientStep(c) == ClientStart(c) \/ KernelConnect(c) \/ ClientResume(c)

ServerStep == ServerStart \/ KernelAccept \/ ServerEnds \/ ServerSpawns

SessionStep(s) == SessionSends(s) \/ SessionRecvs(s) \/ SessionCatches(s) \/ SessionBreaks(s)

Transfer(o) == KernelSend(o) \/ KernelRecv(o)

\* everything is over, and the server waits for the next connection; or the
\* failed assertion has ended the process
Quiet == aborted \/ (stopped /\ alive \subseteq {Acceptor})

Going ==
    \/ \E c \in Clients : ClientStep(c)
    \/ \E s \in Sessions : SessionStep(s)
    \/ \E o \in Clients \cup Sessions : Transfer(o)
    \/ ServerStep \/ StartAllConn

ENext == (~aborted /\ Going) \/ (Quiet /\ UNCHANGED evars)

\* The loop and the kernel do not stop while there is something to do (run()
\* returns to its completions again and again).  No fairness among the coroutines
\* is needed: none of them can go on for ever.
EFairness == WF_evars(ENext)

ESpec == EInit /\ [][ENext]_evars /\ EFairness

-----------------------------------------------------------------------------

Count(o, kind) == IF op[o] = kind /\ res[o] > 0 THEN res[o] ELSE 0

\* Bytes are neither lost nor made on the way client - session - client
\* (server.cpp:20-25, client.cpp:35-39), also when the kernel takes or gives only a
\* part: what the client sent is on the way to the session, in its buffer, or
\* counted in read_cnt; what read_cnt counts is on the way back or was counted by
\* the client.  A send cut short would break the second half, but for the
\* assertion of server.cpp:24, which ends the process first.
BytesConserved ==
    ~aborted => \A c \in Clients :
       LET s == Session(c) IN
       /\ gone[s] = "no" =>
             sent[c] = out[c] + Count(s, "recv") + read_cnt[s]
                       + (IF op[s] = "send" THEN buf[s] ELSE 0)
       /\ gone[c] = "no" =>
             read_cnt[s] + Count(s, "send") = out[s] + Count(c, "recv") + got[c]

\* assert(m == n) of server.cpp:24: a send of the session takes all the bytes it
\* was given.
AssertHolds == ~aborted

\* Unless the assertion ends the process, start_all_conn gets all its results and
\* stops the loop, and in the end the acceptor's is the only number still open:
\* every client and every session ends and closes its socket, whatever failed on
\* the way and however sends and recvs were cut.
AllReleased ==
    <>[](aborted \/ (stopped /\ \A n \in Numbers : table[n] \in {Free, Acceptor}))
=============================================================================

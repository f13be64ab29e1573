------------------------------ MODULE HttpServ ------------------------------
(***************************************************************************)
(* http_serv (src/hw11/main.c): threads that each wait in an epoll         *)
(* instance of their own, all of them watching one listening socket, edge  *)
(* triggered.  A thread accepts one connection per event of the listening  *)
(* socket, registers it with its own epoll instance, and on the first      *)
(* event of a connection reads the request, answers it and closes the      *)
(* descriptor.  setnonblocking() sets a descriptor flag, not a status      *)
(* flag, so that accept() and read() block.                                *)
(*                                                                         *)
(* A request is modelled by how much of it the client has sent; what       *)
(* http_req answers is the subject of HttpReq.  Clients read what they are *)
(* sent, so that a write does not block.                                   *)
(***************************************************************************)
EXTENDS Integers, Sequences, FiniteSets

CONSTANTS
    Threads,    \* the th_count threads
    Clients,    \* the clients; each connects once
    Fds,        \* the descriptors left for connections
    Serv,       \* the listening socket
    Nothing,    \* no client, no descriptor
    MaxEvents   \* MAX_EVENTS

ASSUME NamesDistinct    == Serv \notin Fds /\ Nothing \notin Fds \cup Clients
ASSUME MaxEventsAtLeast1 == MaxEvents \in Nat \ {0}

VARIABLES
    alive,      \* the process exists
    backlog,    \* connections waiting to be accepted, oldest first
    conn,       \* [Fds -> the client behind an open descriptor]
    sent,       \* [Clients -> how much of its request has arrived]
    closed,     \* clients that have closed their end
    replies,    \* [Clients -> responses sent to it]
    pc,         \* [Threads -> control point]
    interest,   \* [Threads -> connections registered with its epoll instance]
    ready,      \* [Threads -> ready list of its epoll instance]
    batch,      \* [Threads -> events of epoll_wait still to be looked at]
    fd,         \* [Threads -> the descriptor in hand]
    merged      \* history: threads for which two arrivals made one event
                \* since the backlog was last empty

clientVars == <<sent, closed, replies>>
epollVars  == <<interest, ready>>
vars       == <<alive, backlog, conn, clientVars, pc, epollVars, batch, fd, merged>>

Points == {"start", "wait", "next", "accept", "add", "request", "reply", "spin", "finish"}

\* "part": less than the request line; "short": a line parse_head_line
\* refuses; "line": the request line and perhaps some of the headers; "cr":
\* as "part" or "line", and what there is of the last line begins with CR, as
\* the blank line without its LF does; "full": up to what recv_line takes for
\* the blank line (one of 4094 bytes, the buffer's worth, is followed by one).
Amounts == {"off", "none", "part", "short", "line", "cr", "full"}

TypeOK ==
    /\ alive \in BOOLEAN
    /\ backlog \in Seq(Clients)
    /\ conn \in [Fds -> Clients \cup {Nothing}]
    /\ sent \in [Clients -> Amounts]
    /\ closed \subseteq Clients
    /\ replies \in [Clients -> Nat]
    /\ pc \in [Threads -> Points]
    /\ interest \in [Threads -> SUBSET Fds]
    /\ ready \in [Threads -> SUBSET (Fds \cup {Serv})]
    /\ batch \in [Threads -> SUBSET (Fds \cup {Serv})]
    /\ fd \in [Threads -> Fds \cup {Nothing}]
    /\ merged \subseteq Threads

Init ==
    /\ alive = TRUE /\ backlog = <<>> /\ conn = [f \in Fds |-> Nothing]
    /\ sent = [c \in Clients |-> "off"] /\ closed = {}
    /\ replies = [c \in Clients |-> 0]
    /\ pc = [t \in Threads |-> "start"]
    /\ interest = [t \in Threads |-> {}] /\ ready = [t \in Threads |-> {}]
    /\ batch = [t \in Threads |-> {}] /\ fd = [t \in Threads |-> Nothing]
    /\ merged = {}

Goto(t, from, to) == alive /\ pc[t] = from /\ pc' = [pc EXCEPT ![t] = to]

\* exit(1) or SIGPIPE.
Die == alive' = FALSE /\ UNCHANGED <<backlog, conn, clientVars, pc, epollVars, batch, fd, merged>>

Readable(x) == IF x = Serv THEN backlog # <<>>
               ELSE conn[x] # Nothing /\ (sent[conn[x]] # "none" \/ conn[x] \in closed)

----------------------------------------------------------------------------
(* A thread: serv_func. *)

\* epoll_create, epoll_ctl_add: what is readable is on the ready list at once.
Start(t) ==
    /\ Goto(t, "start", "wait")
    /\ ready' = [ready EXCEPT ![t] = {x \in {Serv} : Readable(x)}]
    /\ merged' = IF Len(backlog) > 1 THEN merged \cup {t} ELSE merged
    /\ UNCHANGED <<alive, backlog, conn, clientVars, interest, batch, fd>>

\* epoll_wait: entries are taken off the ready list, and those that are no
\* longer readable (another thread accepted) are not reported.
Wait(t) ==
    /\ Goto(t, "wait", "next")
    /\ ready[t] # {}
    /\ LET live == {x \in ready[t] : Readable(x)} IN
         \E b \in SUBSET live :
            /\ b = live \/ Cardinality(b) = MaxEvents
            /\ Cardinality(b) <= MaxEvents
            /\ batch' = [batch EXCEPT ![t] = b]
            /\ ready' = [ready EXCEPT ![t] = live \ b]
    /\ UNCHANGED <<alive, backlog, conn, clientVars, interest, fd, merged>>

\* Variant: only the first event of the array is looked at.
TakeFirst(t) ==
    \/ \E x \in batch[t] :
         /\ Goto(t, "next", IF x = Serv THEN "accept" ELSE "request")
         /\ fd' = [fd EXCEPT ![t] = IF x = Serv THEN Nothing ELSE x]
         /\ batch' = [batch EXCEPT ![t] = {}]
         /\ UNCHANGED <<alive, backlog, conn, clientVars, epollVars, merged>>
    \/ /\ batch[t] = {}
       /\ Goto(t, "next", "wait")
       /\ UNCHANGED <<alive, backlog, conn, clientVars, epollVars, batch, fd, merged>>

\* One turn of the loop over the events.  The test for EPOLLIN holds of every
\* event of a connection: what epoll_wait reports is readable, and the end of
\* the stream and a reset set EPOLLIN as well.
Take(t) ==
    \/ \E x \in batch[t] :
         /\ Goto(t, "next", IF x = Serv THEN "accept" ELSE "request")
         /\ fd' = [fd EXCEPT ![t] = IF x = Serv THEN Nothing ELSE x]
         /\ batch' = [batch EXCEPT ![t] = @ \ {x}]
         /\ UNCHANGED <<alive, backlog, conn, clientVars, epollVars, merged>>
    \/ /\ batch[t] = {}
       /\ Goto(t, "next", "wait")
       /\ UNCHANGED <<alive, backlog, conn, clientVars, epollVars, batch, fd, merged>>

\* accept() blocks until there is a connection.
Accept(t) ==
    /\ Goto(t, "accept", "add")
    /\ backlog # <<>> /\ backlog' = Tail(backlog)
    /\ \E f \in Fds : /\ conn[f] = Nothing
                      /\ conn' = [conn EXCEPT ![f] = Head(backlog)]
                      /\ fd' = [fd EXCEPT ![t] = f]
    /\ merged' = IF Len(backlog) = 1 THEN {} ELSE merged
    /\ UNCHANGED <<alive, clientVars, epollVars, batch>>

\* With no descriptor left accept() returns -1, and epoll_ctl_add exits.
AcceptFails(t) ==
    /\ alive /\ pc[t] = "accept"
    /\ \A f \in Fds : conn[f] # Nothing
    /\ Die

Add(t) ==
    /\ Goto(t, "add", "next")
    /\ interest' = [interest EXCEPT ![t] = @ \cup {fd[t]}]
    /\ ready' = [ready EXCEPT ![t] = @ \cup {x \in {fd[t]} : Readable(x)}]
    /\ fd' = [fd EXCEPT ![t] = Nothing]
    /\ UNCHANGED <<alive, backlog, conn, clientVars, batch, merged>>

\* recv_line finds a blank line.  At the end of the stream it counts the byte
\* that the line before left in the buffer, and when the last line began with
\* CR that byte makes a blank line, at once or at the next call.
BlankLine(c) == sent[c] = "full" \/ (sent[c] = "cr" /\ c \in closed)

\* Variant: the headers are not waited for.
RequestEarly(t) ==
    /\ \E to \in {"reply", "finish"} :
         /\ Goto(t, "request", to)
         /\ LET c == conn[fd[t]] IN
              \/ to = "reply" /\ sent[c] \in {"line", "full"}
              \/ to = "finish" /\ sent[c] = "short"
              \/ to = "finish" /\ sent[c] \in {"none", "part"} /\ c \in closed
    /\ UNCHANGED <<alive, backlog, conn, clientVars, epollVars, batch, fd, merged>>

\* Variant: the end of the stream ends the headers.
RequestAtEnd(t) ==
    /\ \E to \in {"reply", "finish"} :
         /\ Goto(t, "request", to)
         /\ LET c == conn[fd[t]] IN
              \/ to = "reply" /\ (BlankLine(c) \/ (sent[c] = "line" /\ c \in closed))
              \/ to = "finish" /\ sent[c] = "short"
              \/ to = "finish" /\ sent[c] \in {"none", "part"} /\ c \in closed
    /\ UNCHANGED <<alive, backlog, conn, clientVars, epollVars, batch, fd, merged>>

\* recv_line, parse_head_line and the loop over the headers.  Without a blank
\* line the loop never ends once the stream has: recv_line keeps returning 1.
\* A line that the end cuts short may be long enough to be parsed.
Request(t) ==
    /\ \E to \in {"reply", "finish", "spin"} :
         /\ Goto(t, "request", to)
         /\ LET c == conn[fd[t]] IN
              \/ to = "reply" /\ BlankLine(c)
              \/ to = "finish" /\ sent[c] = "short"
              \/ to = "finish" /\ sent[c] \in {"none", "part", "cr"} /\ c \in closed
              \/ to = "spin" /\ sent[c] \in {"part", "line"} /\ c \in closed
    /\ UNCHANGED <<alive, backlog, conn, clientVars, epollVars, batch, fd, merged>>

\* The write calls and sendfile.  Written to a client that has closed, they
\* may raise SIGPIPE.
Reply(t) ==
    \/ /\ Goto(t, "reply", "finish")
       /\ replies' = [replies EXCEPT ![conn[fd[t]]] = @ + 1]
       /\ UNCHANGED <<alive, backlog, conn, sent, closed, epollVars, batch, fd, merged>>
    \/ /\ alive /\ pc[t] = "reply" /\ conn[fd[t]] \in closed
       /\ Die

\* Variant: the connection is left open for another request.
KeepOpen(t) ==
    /\ Goto(t, "finish", "next")
    /\ fd' = [fd EXCEPT ![t] = Nothing]
    /\ UNCHANGED <<alive, backlog, conn, clientVars, epollVars, batch, merged>>

\* Variant: the descriptor is closed in two of the outcomes only.
LeakOnError(t) ==
    /\ Goto(t, "finish", "next")
    /\ interest' = [interest EXCEPT ![t] = @ \ {fd[t]}]
    /\ ready' = [ready EXCEPT ![t] = @ \ {fd[t]}]
    /\ conn' = IF sent[conn[fd[t]]] = "full" THEN [conn EXCEPT ![fd[t]] = Nothing] ELSE conn
    /\ fd' = [fd EXCEPT ![t] = Nothing]
    /\ UNCHANGED <<alive, backlog, clientVars, batch, merged>>

\* EPOLL_CTL_DEL and close.
Finish(t) ==
    /\ Goto(t, "finish", "next")
    /\ interest' = [interest EXCEPT ![t] = @ \ {fd[t]}]
    /\ ready' = [ready EXCEPT ![t] = @ \ {fd[t]}]
    /\ conn' = [conn EXCEPT ![fd[t]] = Nothing]
    /\ fd' = [fd EXCEPT ![t] = Nothing]
    /\ UNCHANGED <<alive, backlog, clientVars, batch, merged>>

Thread(t) == \/ Start(t) \/ Wait(t) \/ Take(t) \/ Accept(t) \/ AcceptFails(t) \/ Add(t)
             \/ Request(t) \/ Reply(t) \/ Finish(t)

----------------------------------------------------------------------------
(* The clients and the kernel's notifications. *)

Started(t) == pc[t] # "start"

\* A connection wakes every instance that watches the listening socket.
Connect(c) ==
    /\ alive /\ sent[c] = "off"
    /\ sent' = [sent EXCEPT ![c] = "none"]
    /\ backlog' = Append(backlog, c)
    /\ merged' = merged \cup {t \in Threads : Serv \in ready[t]}
    /\ ready' = [t \in Threads |-> IF Started(t) THEN ready[t] \cup {Serv} ELSE ready[t]]
    /\ UNCHANGED <<alive, conn, closed, replies, pc, interest, batch, fd>>

\* An edge for the connection: data, or the end of the stream.
Notify(c) ==
    ready' = [t \in Threads |-> ready[t] \cup {f \in interest[t] : conn[f] = c}]

InService(c) == \/ \E i \in 1 .. Len(backlog) : backlog[i] = c
                \/ \E f \in Fds : conn[f] = c

Following(a) == CASE a = "none" -> {"part", "short", "line", "cr", "full"}
                  [] a = "part" -> {"short", "line", "cr", "full"}
                  [] a = "line" -> {"cr", "full"}
                  [] a = "cr"   -> {"short", "line", "full"}
                  [] OTHER      -> {}

SendMore(c) ==
    /\ alive /\ InService(c) /\ c \notin closed
    /\ \E a \in Following(sent[c]) : sent' = [sent EXCEPT ![c] = a]
    /\ Notify(c)
    /\ UNCHANGED <<alive, backlog, conn, closed, replies, pc, interest, batch, fd, merged>>

Close(c) ==
    /\ alive /\ InService(c) /\ c \notin closed
    /\ closed' = closed \cup {c}
    /\ Notify(c)
    /\ UNCHANGED <<alive, backlog, conn, sent, replies, pc, interest, batch, fd, merged>>

Client(c) == Connect(c) \/ SendMore(c) \/ Close(c)

Next == (\E t \in Threads : Thread(t)) \/ (\E c \in Clients : Client(c))

Spec == Init /\ [][Next]_vars

\* Every runnable thread is scheduled; clients need not do anything.
FairSpec == Spec /\ \A t \in Threads : WF_vars(Thread(t))

----------------------------------------------------------------------------
(* Properties. *)

Holds(t, f) == f \in interest[t] \/ (pc[t] = "add" /\ fd[t] = f)

\* Descriptors neither leak nor are shared: an open one is registered with one
\* thread's instance or in that thread's hand, and no event refers to a
\* descriptor closed since, which accept() may have given to another thread.
FdsAccounted ==
    /\ \A f \in Fds : Cardinality({t \in Threads : Holds(t, f)}) = IF conn[f] = Nothing THEN 0 ELSE 1
    /\ \A t \in Threads : batch[t] \cup ready[t] \subseteq interest[t] \cup {Serv}

\* A client is answered at most once, and only when its request was read up
\* to a blank line, whichever threads its descriptor's number has passed
\* through.  A client that closes inside its request gets no answer, with one
\* exception: when the last line it began begins with CR, so that the stale
\* byte stands for a blank line (http.c:82-92, 125).
AnswersWholeRequests ==
    \A c \in Clients : replies[c] # 0 =>
        replies[c] = 1 /\ (sent[c] = "full" \/ (sent[c] = "cr" /\ c \in closed))

\* What thread t was told of the listening socket and has not yet acted on.
Wakeups(t) == (IF Serv \in ready[t] THEN 1 ELSE 0) + (IF Serv \in batch[t] THEN 1 ELSE 0)
              + (IF pc[t] = "accept" THEN 1 ELSE 0)

\* One accept() per event is enough as long as no two arrivals made one
\* event: only then can connections be left in the backlog with no thread
\* about to accept them.
WakeupPerConnection ==
    \A t \in Threads : Started(t) /\ t \notin merged => Len(backlog) <= Wakeups(t)

\* No edge of a connection is lost: one that can be read is on the ready list
\* of its thread, among the thread's events, or in its hand.
ReadyNotForgotten ==
    \A t \in Threads : \A f \in interest[t] :
        Readable(f) => f \in ready[t] \cup batch[t] \cup {fd[t]}

\* Thread t waits in a blocking call for a client, or spins.
Stuck(t) == \/ pc[t] = "accept" /\ backlog = <<>>
            \/ pc[t] = "request" /\ sent[conn[fd[t]]] \in {"none", "part", "line", "cr"}
            \/ pc[t] = "spin"

\* A whole request on a registered connection is answered, unless its
\* thread gets stuck with another client or the process ends.
RequestServed ==
    \A c \in Clients, t \in Threads :
        (sent[c] = "full" /\ \E f \in interest[t] : conn[f] = c)
            ~> (replies[c] > 0 \/ ~alive \/ Stuck(t))

=============================================================================

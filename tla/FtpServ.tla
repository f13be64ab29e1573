------------------------------ MODULE FtpServ ------------------------------
(***************************************************************************)
(* ftp_serv (src/hw08): a master that forks a pool of worker processes,    *)
(* which accept clients from one listening socket and serve one client at  *)
(* a time, command by command.                                             *)
(*                                                                         *)
(* A command is what arrives at once.  It runs without waiting for anyone, *)
(* and is one action: LIST and RETR would wait for a data connection, but  *)
(* main.c:97 clears sock_pasv before every command, and accept(0) fails,   *)
(* standard input being no socket.  Only the file system may change while  *)
(* a command runs.  Who draws a port in the same second draws the same.    *)
(***************************************************************************)
EXTENDS Naturals, Sequences, FiniteSets, Functions

CONSTANTS
    PoolSize,   \* pool_size, at most MAX_POOL_SIZE
    Clients,    \* the clients; each connects once
    NoClient,
    MaxFds,     \* descriptors a worker may have besides those it starts with
    MaxTime,    \* bound: seconds
    MaxCmds,    \* bound: commands of a client
    MaxAll      \* bound: commands of all clients

ASSUME SizesAreNat == {PoolSize, MaxFds, MaxTime, MaxCmds, MaxAll} \subseteq Nat
ASSUME NoClientIsNone == NoClient \notin Clients

Workers  == 1 .. PoolSize
Seconds  == 0 .. MaxTime
Dirs     == {"root", "sub"}
Losable  == Dirs \ {"root"}
Unknown  == "unknown"

\* USER, PASS and unknown ones are simple; a "long" one is of COMM_INFO_SIZE
\* bytes or more.
Shorts   == {"simple", "PWD", "CWD", "PASV", "LIST", "RETR", "QUIT"}
Commands == Shorts \cup {"long"}

VARIABLES
    master,     \* "fork", "wait" or "gone"
    forked,     \* how many forks have been made
    wpc,        \* [Workers -> control point]
    listens,    \* [Workers -> the listening socket is still open in it]
    conn,       \* [Workers -> the client whose connection is cli_fd]
    leaked,     \* [Workers -> connections that were never closed]
    bound,      \* [Workers -> seconds whose port it listens on]
    announced,  \* [Workers -> the client was told of a port, not yet used]
    dir,        \* [Workers -> the working directory of the process]
    told,       \* [Workers -> where its client knows it is, or Unknown]
    nameless,   \* directories with no path to come back by
    now,        \* time(NULL)
    backlog,    \* connections waiting to be accepted, oldest first
    inbox,      \* [Clients -> the first of the commands sent and not yet read]
    cmds,       \* [Clients -> commands sent]
    replies,    \* [Clients -> replies written to it, other than a 150]
    pipelined,  \* clients that did not wait for a reply
    skipped,    \* history: clients with a command that nothing was parsed of
    closed,     \* clients that have closed their end
    signals     \* history: what has ended the master or a worker

workerVars == <<listens, conn, leaked, bound, announced, dir, told, nameless>>
clientVars == <<backlog, inbox, cmds, replies, pipelined, skipped, closed>>
vars       == <<master, forked, wpc, workerVars, now, clientVars, signals>>

TypeOK ==
    /\ master \in {"fork", "wait", "gone"}
    /\ forked \in 0 .. PoolSize
    /\ wpc \in [Workers -> {"none", "failed", "accept", "command", "spin", "dead"}]
    /\ listens \in [Workers -> BOOLEAN]
    /\ conn \in [Workers -> Clients \cup {NoClient}]
    /\ leaked \in [Workers -> 0 .. MaxFds]
    /\ bound \in [Workers -> SUBSET Seconds]
    /\ announced \in [Workers -> BOOLEAN]
    /\ dir \in [Workers -> Dirs] /\ told \in [Workers -> Dirs \cup {Unknown}]
    /\ nameless \subseteq Losable
    /\ now \in Seconds
    /\ backlog \in Seq(Clients)
    /\ inbox \in [Clients -> Seq(Commands)]
    /\ cmds \in [Clients -> 0 .. MaxCmds]
    /\ replies \in [Clients -> Nat]
    /\ pipelined \subseteq Clients /\ skipped \subseteq Clients /\ closed \subseteq Clients
    /\ signals \subseteq {"early", "handled", "exit", "everyone", "group"}

Init ==
    /\ master = "fork" /\ forked = 0 /\ signals = {}
    /\ wpc = [w \in Workers |-> "none"]
    /\ listens = [w \in Workers |-> TRUE]
    /\ conn = [w \in Workers |-> NoClient] /\ leaked = [w \in Workers |-> 0]
    /\ bound = [w \in Workers |-> {}] /\ announced = [w \in Workers |-> FALSE]
    /\ dir = [w \in Workers |-> "root"] /\ told = [w \in Workers |-> Unknown]
    /\ nameless = {}
    /\ now = 0 /\ backlog = <<>>
    /\ inbox = [c \in Clients |-> <<>>] /\ cmds = [c \in Clients |-> 0]
    /\ replies = [c \in Clients |-> 0]
    /\ pipelined = {} /\ skipped = {} /\ closed = {}

Alive(w) == wpc[w] \in {"accept", "command", "spin"}

----------------------------------------------------------------------------
(* The master. *)

Fork ==
    /\ master = "fork" /\ forked < PoolSize
    /\ forked' = forked + 1
    /\ \/ wpc' = [wpc EXCEPT ![forked + 1] = "accept"]
       \/ wpc' = [wpc EXCEPT ![forked + 1] = "failed"]
    /\ UNCHANGED <<master, workerVars, now, clientVars, signals>>

\* sigaction(SIGINT) comes after the last fork.
InstallHandler ==
    /\ master = "fork" /\ forked = PoolSize
    /\ master' = "wait"
    /\ UNCHANGED <<forked, wpc, workerVars, now, clientVars, signals>>

\* wait(NULL) returns when a first worker has died, or at once if there is
\* none, and main with it.
WaitReturns ==
    /\ master = "wait"
    /\ (\E w \in Workers : wpc[w] = "dead") \/ \A w \in Workers : wpc[w] = "failed"
    /\ master' = "gone"
    /\ UNCHANGED <<forked, wpc, workerVars, now, clientVars, signals>>

Killed == /\ wpc' = [w \in Workers |-> IF Alive(w) THEN "dead" ELSE wpc[w]]
          /\ conn' = [w \in Workers |-> NoClient]
          /\ leaked' = [w \in Workers |-> 0]
          /\ bound' = [w \in Workers |-> {}]
          /\ announced' = [w \in Workers |-> FALSE]
          /\ dir' = [w \in Workers |-> "root"] /\ told' = [w \in Workers |-> Unknown]
          /\ UNCHANGED <<listens, nameless>>

\* Whom else kill() of a pid in pids signals: -1 of a failed fork means every
\* process of the user, 0 where nothing was stored the group of the master.
AlsoKilled == (IF \E w \in Workers : wpc[w] = "failed" THEN {"everyone"} ELSE {})
              \cup (IF \E w \in Workers : wpc[w] = "none" THEN {"group"} ELSE {})

\* Variant: the handler is installed before the workers are forked.
SigintHandledEarly ==
    /\ master # "gone" /\ master' = "gone"
    /\ Killed /\ signals' = signals \cup {"handled"} \cup AlsoKilled
    /\ UNCHANGED <<forked, now, clientVars>>

\* SIGINT for the master: close_serv, or the default action before it is
\* installed.
Sigint ==
    /\ master # "gone" /\ master' = "gone"
    /\ IF master = "wait"
         THEN Killed /\ signals' = signals \cup {"handled"} \cup AlsoKilled
         ELSE signals' = signals \cup {"early"} /\ UNCHANGED <<wpc, workerVars>>
    /\ UNCHANGED <<forked, now, clientVars>>

Master == Fork \/ InstallHandler \/ WaitReturns

----------------------------------------------------------------------------
(* A worker. *)

Goto(w, from, to) == wpc[w] = from /\ wpc' = [wpc EXCEPT ![w] = to]

Used(w) == leaked[w] + Cardinality(bound[w]) + (IF conn[w] = NoClient THEN 0 ELSE 1)

ToClient(c) == replies' = [replies EXCEPT ![c] = @ + 1]

\* accept and the welcome message.
Accept(w) ==
    /\ Goto(w, "accept", "command")
    /\ backlog # <<>> /\ listens[w] /\ Used(w) < MaxFds
    /\ conn' = [conn EXCEPT ![w] = Head(backlog)]
    /\ backlog' = Tail(backlog)
    /\ ToClient(Head(backlog))
    /\ UNCHANGED <<master, forked, listens, leaked, bound, announced, dir, told, nameless, now, inbox,
                   cmds, pipelined, skipped, closed, signals>>

\* With no descriptor left or no listening socket accept() fails, write() and
\* read() of -1 fail, and the loop starts again; nothing will change that.
AcceptFails(w) ==
    /\ Goto(w, "accept", "spin")
    /\ Used(w) >= MaxFds \/ ~listens[w]
    /\ UNCHANGED <<master, forked, workerVars, now, clientVars, signals>>

\* exit(): the kernel closes all that the worker has open.
Exit(w) ==
    /\ wpc' = [wpc EXCEPT ![w] = "dead"]
    /\ conn' = [conn EXCEPT ![w] = NoClient]
    /\ leaked' = [leaked EXCEPT ![w] = 0]
    /\ bound' = [bound EXCEPT ![w] = {}]
    /\ announced' = [announced EXCEPT ![w] = FALSE]
    /\ dir' = [dir EXCEPT ![w] = "root"] /\ told' = [told EXCEPT ![w] = Unknown]
    /\ signals' = signals \cup {"exit"}
    /\ UNCHANGED <<listens, nameless>>

\* One read() returns all that has arrived; only its first command is parsed,
\* and only that is kept in inbox.
Reads(w, cmd) ==
    /\ wpc[w] = "command"
    /\ inbox[conn[w]] # <<>> /\ Head(inbox[conn[w]]) = cmd
    /\ inbox' = [inbox EXCEPT ![conn[w]] = <<>>]
    /\ UNCHANGED <<master, forked, now, backlog, cmds, pipelined, skipped, closed>>

\* What is read with a full buffer is not parsed and not answered.  What is
\* left of the command is read as another one; perhaps nothing is.
Long(w) ==
    /\ wpc[w] = "command"
    /\ inbox[conn[w]] # <<>> /\ Head(inbox[conn[w]]) = "long"
    /\ \/ /\ inbox' = [inbox EXCEPT ![conn[w]] = <<>>]
          /\ skipped' = skipped \cup {conn[w]}
       \/ /\ \E cmd \in Shorts : inbox' = [inbox EXCEPT ![conn[w]] = <<cmd>>]
          /\ UNCHANGED skipped
    /\ UNCHANGED <<master, forked, wpc, workerVars, now, backlog, cmds, replies, pipelined,
                   closed, signals>>

\* Variant: a break is missing from the switch of response().
Fallthrough(w) ==
    /\ Reads(w, "simple")
    /\ replies' = [replies EXCEPT ![conn[w]] = @ + 2]
    /\ UNCHANGED <<wpc, workerVars, signals>>

Simple(w) ==
    /\ Reads(w, "simple")
    /\ ToClient(conn[w])
    /\ UNCHANGED <<wpc, workerVars, signals>>

\* 550 when getcwd() fails, for which a path of 1016 bytes is too long.
Pwd(w) ==
    /\ Reads(w, "PWD")
    /\ ToClient(conn[w])
    /\ \/ dir[w] \notin nameless /\ told' = [told EXCEPT ![w] = dir[w]]
       \/ dir[w] \in Losable /\ UNCHANGED told
    /\ UNCHANGED <<wpc, listens, conn, leaked, bound, announced, dir, nameless, signals>>

\* To a directory, or 550.
Cwd(w) ==
    /\ Reads(w, "CWD")
    /\ ToClient(conn[w])
    /\ \/ \E d \in Dirs : dir' = [dir EXCEPT ![w] = d] /\ told' = [told EXCEPT ![w] = d]
       \/ UNCHANGED <<dir, told>>
    /\ UNCHANGED <<wpc, listens, conn, leaked, bound, announced, nameless, signals>>

\* The port is a function of the time: when it is taken, bind fails.
Pasv(w) ==
    /\ Reads(w, "PASV")
    /\ IF Used(w) < MaxFds /\ \A v \in Workers : now \notin bound[v]
         THEN /\ bound' = [bound EXCEPT ![w] = @ \cup {now}]
              /\ announced' = [announced EXCEPT ![w] = TRUE]
              /\ ToClient(conn[w])
              /\ UNCHANGED <<wpc, listens, conn, leaked, dir, told, nameless, signals>>
         ELSE Exit(w) /\ UNCHANGED replies

\* Whether response() finds the socket of the last PASV: never, since it is
\* cleared after the read() and before the call.
SockPasv(w) == FALSE

\* The data connection is accepted, used and closed with the passive socket;
\* or accept() fails.
Transfer(w) ==
    IF SockPasv(w)
      THEN /\ ToClient(conn[w])
           /\ bound' = [bound EXCEPT ![w] = {s \in @ : \E u \in @ : s < u}]
           /\ announced' = [announced EXCEPT ![w] = FALSE]
           /\ UNCHANGED <<wpc, listens, conn, leaked, dir, told, nameless, signals>>
      ELSE Exit(w) /\ UNCHANGED replies

\* Variant: the 550 is sent before the worker has gone back.
ListStays(w) ==
    /\ Reads(w, "LIST")
    /\ \/ /\ ToClient(conn[w])
          /\ \E d \in Dirs : dir' = [dir EXCEPT ![w] = d]
          /\ UNCHANGED <<wpc, listens, conn, leaked, bound, announced, told, nameless, signals>>
       \/ Transfer(w)

\* LIST goes to its argument, if it has one and can, and back to where
\* getcwd() said it was: neither call is checked, and the directory it was in
\* may be lost in between.  550 when the directory d cannot be opened.
List(w) ==
    /\ Reads(w, "LIST")
    /\ \/ /\ ToClient(conn[w])
          /\ \/ nameless' = nameless
             \/ nameless' = nameless \cup ({dir[w]} \cap Losable)
          /\ \E d \in Dirs : dir' = [dir EXCEPT ![w] = IF @ \in nameless' THEN d ELSE @]
          /\ UNCHANGED <<wpc, listens, conn, leaked, bound, announced, told, signals>>
       \/ Transfer(w)

Retr(w) == Reads(w, "RETR") /\ Transfer(w)

\* cli_fd is closed: read() fails and the worker goes on to accept().
EndSession(w) ==
    /\ wpc' = [wpc EXCEPT ![w] = "accept"]
    /\ conn' = [conn EXCEPT ![w] = NoClient]
    /\ announced' = [announced EXCEPT ![w] = FALSE]
    /\ told' = [told EXCEPT ![w] = Unknown]

\* A file that cannot be read: fd and connection were never assigned, and
\* closing them may close cli_fd before the 550 is written to it, or the
\* listening socket, or both.
RetrMissing(w) ==
    /\ Reads(w, "RETR")
    /\ \E stays \in BOOLEAN : listens' = [listens EXCEPT ![w] = @ /\ stays]
    /\ \/ ToClient(conn[w]) /\ UNCHANGED <<wpc, conn, announced, told>>
       \/ EndSession(w) /\ UNCHANGED replies
    /\ UNCHANGED <<leaked, bound, dir, nameless, signals>>

Quit(w) ==
    /\ Reads(w, "QUIT")
    /\ ToClient(conn[w])
    /\ EndSession(w)
    /\ UNCHANGED <<listens, leaked, bound, dir, nameless, signals>>

\* Variant: the end of the stream does not end the loop over the commands.
EofIgnored(w) ==
    /\ Goto(w, "command", "command")
    /\ conn[w] \in closed /\ inbox[conn[w]] = <<>>
    /\ UNCHANGED <<master, forked, workerVars, now, clientVars, signals>>

\* read() returns 0: the worker goes on to the next client.
Eof(w) ==
    /\ wpc[w] = "command"
    /\ conn[w] \in closed /\ inbox[conn[w]] = <<>>
    /\ EndSession(w)
    /\ leaked' = [leaked EXCEPT ![w] = @ + 1]
    /\ UNCHANGED <<master, forked, listens, bound, dir, nameless, now, clientVars, signals>>

Worker(w) == \/ Accept(w) \/ AcceptFails(w) \/ Long(w) \/ Simple(w) \/ Pwd(w) \/ Cwd(w) \/ Pasv(w)
             \/ List(w) \/ Retr(w) \/ RetrMissing(w) \/ Quit(w) \/ Eof(w)

----------------------------------------------------------------------------
(* The clients, the clock and the file system. *)

\* The clock goes on; seconds in which no port was drawn are left out.
Tick ==
    /\ now < MaxTime /\ (\E w \in Workers : now \in bound[w]) /\ now' = now + 1
    /\ UNCHANGED <<master, forked, wpc, workerVars, clientVars, signals>>

\* A directory that a worker is in is removed or renamed; one with a path
\* longer than getcwd()'s buffer is lost as soon as a worker is there.
Lose(d) ==
    /\ d \notin nameless /\ \E w \in Workers : dir[w] = d
    /\ nameless' = nameless \cup {d}
    /\ UNCHANGED <<master, forked, wpc, listens, conn, leaked, bound, announced, dir, told, now,
                   clientVars, signals>>

InQueue(c)   == \E i \in 1 .. Len(backlog) : backlog[i] = c
Connected(c) == InQueue(c) \/ \E w \in Workers : conn[w] = c
New(c)       == replies[c] = 0 /\ cmds[c] = 0 /\ c \notin closed /\ ~Connected(c)

\* The listening socket is open as long as one process has it.
Connect(c) ==
    /\ New(c)
    /\ master # "gone" \/ \E w \in Workers : Alive(w) /\ listens[w]
    /\ backlog' = Append(backlog, c)
    /\ UNCHANGED <<master, forked, wpc, workerVars, now, inbox, cmds, replies, pipelined,
                   skipped, closed, signals>>

Send(c) ==
    /\ Connected(c) /\ c \notin closed
    /\ cmds[c] < MaxCmds /\ SumFunction(cmds) < MaxAll
    /\ \E cmd \in Commands :
         inbox' = [inbox EXCEPT ![c] = IF @ = <<>> \/ cmd = "long" THEN <<cmd>> ELSE @]
    /\ cmds' = [cmds EXCEPT ![c] = @ + 1]
    /\ pipelined' = IF replies[c] = cmds[c] + 1 THEN pipelined ELSE pipelined \cup {c}
    /\ UNCHANGED <<master, forked, wpc, workerVars, now, backlog, replies, skipped, closed,
                   signals>>

Close(c) ==
    /\ Connected(c) /\ c \notin closed
    /\ closed' = closed \cup {c}
    /\ UNCHANGED <<master, forked, wpc, workerVars, now, backlog, inbox, cmds, replies,
                   pipelined, skipped, signals>>

Client(c) == Connect(c) \/ Send(c) \/ Close(c)

Next == \/ Master \/ Sigint \/ Tick
        \/ \E w \in Workers : Worker(w)
        \/ \E c \in Clients : Client(c)
        \/ \E d \in Losable : Lose(d)

Spec == Init /\ [][Next]_vars

\* Processes that can run are scheduled; clients and signals are free.
FairSpec == Spec /\ WF_vars(Master) /\ \A w \in Workers : WF_vars(Worker(w))

----------------------------------------------------------------------------
(* Properties. *)

\* Replies and commands stay in step: a client that waits for every reply has
\* exactly one for each command and one on connecting whenever its worker
\* waits for it, and no client ever gets more.  A reply is missing only where
\* a command has filled the buffer exactly, and such a client is not answered
\* until it sends again (main.c:91-106).
LockStep ==
    \A c \in Clients :
        /\ replies[c] <= cmds[c] + 1
        /\ \A w \in Workers :
             wpc[w] = "command" /\ conn[w] = c /\ inbox[c] = <<>> /\ c \notin pipelined
               => replies[c] = IF c \in skipped THEN cmds[c] ELSE cmds[c] + 1

\* close_serv leaves no worker behind, and workers outlive the master only
\* when it was interrupted before the handler was there, or when one of them
\* died first and ended wait().  It kills nobody else, unless a fork had failed
\* and left -1 in pids.
PoolEndsTogether ==
    /\ "handled" \in signals => \A w \in Workers : ~Alive(w)
    /\ master = "gone" /\ (\E w \in Workers : Alive(w)) => signals \cap {"early", "exit"} # {}
    /\ "group" \notin signals
    /\ "everyone" \in signals => \E w \in Workers : wpc[w] = "failed"

\* Where a PWD or a CWD has told a client that it is, its worker stays until
\* the client moves it, as long as there is a path back to that directory:
\* other workers, a LIST of another directory and earlier clients of the worker
\* change nothing (ftp.c:164-176, 227-307).  From a directory that has lost its
\* path LIST may not return; and a client that asks for neither PWD nor CWD is
\* where the last client of its worker has gone.
ToldIsTrue == \A w \in Workers : told[w] \notin nameless \cup {Unknown} => dir[w] = told[w]

\* A worker that cannot come back to accept() without its client's help.
Busy(w) == \/ wpc[w] \in {"none", "failed", "spin", "dead"}
           \/ wpc[w] = "accept" /\ ~listens[w]
           \/ wpc[w] = "command" /\ conn[w] \notin closed

\* A client in the backlog is welcomed, unless every worker is busy.
QueuedWelcomed ==
    \A c \in Clients : InQueue(c) ~> (~InQueue(c) \/ \A w \in Workers : Busy(w))

\* ftp.h:31, of sock_pasv: "Socket for passive connection (must be accepted
\* later)".  A LIST or RETR after a PASV finds the socket PASV has opened.
PassiveAccepted ==
    [][\A w \in Workers : announced[w] /\ (List(w) \/ Retr(w)) => wpc'[w] # "dead"]_vars

=============================================================================

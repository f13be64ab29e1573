----------------------------- MODULE FsizeInfo -----------------------------
(***************************************************************************)
(* fsize_info (src/hw07): a daemon that follows the size of one file with  *)
(* inotify and tells the size to every client that connects.               *)
(*                                                                         *)
(* The main thread samples the size (update_file_size) and stores it in    *)
(* cur_file_size under a mutex; one thread per enabled server (tcp_serv,   *)
(* unix_serv) copies it under the same mutex and sends the copy.  A size   *)
(* is modelled by the pair <<inode, number of writes to it>> it was        *)
(* sampled from, and the 64-bit variable by its two halves, which a 32-bit *)
(* build loads and stores one after the other.                             *)
(***************************************************************************)
EXTENDS Integers, FiniteSets

CONSTANTS
    Servers,    \* the server threads the configuration may enable
    Clients,    \* the clients; each connects once
    Main,       \* the main thread
    NoOne,      \* no thread, no server, no client
    MaxInodes,  \* bound: files ever created at the watched path
    MaxWrites   \* bound: writes to one of them

ASSUME ThreadsDistinct == Main \notin Servers /\ NoOne \notin Servers \cup Clients \cup {Main}
ASSUME BoundsAreNat    == MaxInodes \in Nat \ {0} /\ MaxWrites \in Nat

Inode     == 1 .. MaxInodes
NoFile    == 0
Sample    == (0 .. MaxInodes) \X (0 .. MaxWrites)
Unsampled == <<NoFile, 0>>                  \* cur_file_size = 0
Word      == [hi : Sample, lo : Sample]
Both(v)   == [hi |-> v, lo |-> v]
NoReply   == Both(Unsampled)

VARIABLES
    alive,    \* the process exists
    path,     \* the inode the configured name leads to, or NoFile
    files,    \* the inodes that exist and that a writer may hold open
    born,     \* how many inodes have been created
    writes,   \* [Inode -> number of writes]
    watch,    \* the inode the inotify watch is attached to, or NoFile
    queue,    \* unread inotify events; equal neighbours are merged
    batch,    \* events of the last read() still to be looked at
    missed,   \* history: the file changed with no watch on it since sampled
    mpc,      \* the main thread's control point
    ret,      \* where update_file_size returns to
    opened,   \* the inode behind fp
    sampled,  \* the offset fseek(SEEK_END) has found
    enabled,  \* servers still to be started by main
    lock,     \* the holder of the mutex
    cur,      \* cur_file_size
    spc,      \* [Servers -> control point]
    peer,     \* [Servers -> the accepted client]
    str,      \* [Servers -> the local copy of cur_file_size]
    queued,   \* [Servers -> connections waiting to be accepted]
    hung,     \* clients that have closed their end
    reply     \* [Clients -> the size sent to the client]

fileVars   == <<path, files, born, writes>>
notifyVars == <<watch, queue, missed>>
mainVars   == <<batch, mpc, ret, opened, sampled, enabled>>
servVars   == <<spc, peer, str>>
netVars    == <<queued, hung, reply>>
vars       == <<alive, fileVars, notifyVars, mainVars, lock, cur, servVars, netVars>>

Actual == <<path, writes[path]>>            \* the size of the file right now

MainPoints == {"conf", "daemon", "open", "seek", "lock", "storeHi", "storeLo",
               "unlock", "spawn", "watch", "read", "event"}
ServPoints == {"off", "setup", "accept", "lock", "copyHi", "copyLo", "unlock", "send"}

TypeOK ==
    /\ alive \in BOOLEAN
    /\ path \in 0 .. MaxInodes
    /\ files \subseteq Inode
    /\ born \in 0 .. MaxInodes
    /\ writes \in [Inode -> 0 .. MaxWrites]
    /\ watch \in 0 .. MaxInodes
    /\ queue \subseteq {"modify", "ignored"}
    /\ batch \subseteq {"modify", "ignored"}
    /\ missed \in BOOLEAN
    /\ mpc \in MainPoints
    /\ ret \in {"spawn", "event"}
    /\ opened \in 0 .. MaxInodes
    /\ sampled \in Sample
    /\ enabled \subseteq Servers
    /\ lock \in Servers \cup {Main, NoOne}
    /\ cur \in Word
    /\ spc \in [Servers -> ServPoints]
    /\ peer \in [Servers -> Clients \cup {NoOne}]
    /\ str \in [Servers -> Word]
    /\ queued \in [Servers -> SUBSET Clients]
    /\ hung \subseteq Clients
    /\ reply \in [Clients -> Word]

Init ==
    /\ alive = TRUE
    /\ path \in 0 .. 1 /\ files = 1 .. path /\ born = path
    /\ writes = [i \in Inode |-> 0]
    /\ watch = NoFile /\ queue = {} /\ batch = {} /\ missed = FALSE
    /\ mpc = "conf" /\ ret = "spawn" /\ opened = NoFile /\ sampled = Unsampled
    /\ enabled = {}
    /\ lock = NoOne /\ cur = Both(Unsampled)
    /\ spc = [s \in Servers |-> "off"]
    /\ peer = [s \in Servers |-> NoOne]
    /\ str = [s \in Servers |-> Both(Unsampled)]
    /\ queued = [s \in Servers |-> {}]
    /\ hung = {} /\ reply = [c \in Clients |-> NoReply]

\* exit(1), a fatal signal: every thread of the process stops where it is.
Die == /\ alive' = FALSE
       /\ UNCHANGED <<fileVars, notifyVars, mainVars, lock, cur, servVars, netVars>>

----------------------------------------------------------------------------
(* The main thread. *)

MainGoto(from, to) == alive /\ mpc = from /\ mpc' = to

\* read_conf() and the test of cfg_gen_demon: any servers may be enabled.
ReadConf ==
    /\ \E to \in {"daemon", "open"} : MainGoto("conf", to)
    /\ enabled' \in SUBSET Servers
    /\ ret' = "spawn"
    /\ UNCHANGED <<alive, fileVars, notifyVars, batch, opened, sampled, lock, cur,
                   servVars, netVars>>

\* daemonize() in the process that goes on after both forks.
Daemonize ==
    /\ MainGoto("daemon", "open")
    /\ UNCHANGED <<alive, fileVars, notifyVars, batch, ret, opened, sampled, enabled,
                   lock, cur, servVars, netVars>>

FOpen ==
    /\ path # NoFile
    /\ MainGoto("open", "seek")
    /\ opened' = path
    /\ UNCHANGED <<alive, fileVars, notifyVars, batch, ret, sampled, enabled, lock,
                   cur, servVars, netVars>>

\* f_error("Error cannot open ...")
FOpenFails == alive /\ mpc = "open" /\ path = NoFile /\ Die

\* Variant: in the loop over the events ftell comes before fseek.
FSeekTooLate ==
    /\ MainGoto("seek", "lock")
    /\ sampled' = IF ret = "event" THEN Unsampled ELSE <<opened, writes[opened]>>
    /\ missed' = (missed /\ opened # path)
    /\ UNCHANGED <<alive, fileVars, watch, queue, batch, ret, opened, enabled, lock,
                   cur, servVars, netVars>>

FSeek ==
    /\ MainGoto("seek", "lock")
    /\ sampled' = <<opened, writes[opened]>>
    /\ missed' = (missed /\ opened # path)
    /\ UNCHANGED <<alive, fileVars, watch, queue, batch, ret, opened, enabled, lock,
                   cur, servVars, netVars>>

MainLock ==
    /\ MainGoto("lock", "storeHi")
    /\ lock = NoOne /\ lock' = Main
    /\ UNCHANGED <<alive, fileVars, notifyVars, batch, ret, opened, sampled, enabled,
                   cur, servVars, netVars>>

StoreHi ==
    /\ MainGoto("storeHi", "storeLo")
    /\ cur' = [cur EXCEPT !.hi = sampled]
    /\ UNCHANGED <<alive, fileVars, notifyVars, batch, ret, opened, sampled, enabled,
                   lock, servVars, netVars>>

StoreLo ==
    /\ MainGoto("storeLo", "unlock")
    /\ cur' = [cur EXCEPT !.lo = sampled]
    /\ UNCHANGED <<alive, fileVars, notifyVars, batch, ret, opened, sampled, enabled,
                   lock, servVars, netVars>>

\* pthread_mutex_unlock, fseek back, fclose, return.
MainUnlock ==
    /\ MainGoto("unlock", ret)
    /\ lock' = NoOne
    /\ opened' = NoFile
    /\ UNCHANGED <<alive, fileVars, notifyVars, batch, ret, sampled, enabled, cur,
                   servVars, netVars>>

Spawn ==
    \/ /\ MainGoto("spawn", "spawn")
       /\ \E s \in enabled : /\ enabled' = enabled \ {s}
                             /\ spc' = [spc EXCEPT ![s] = "setup"]
       /\ UNCHANGED <<alive, fileVars, notifyVars, batch, ret, opened, sampled, lock,
                      cur, peer, str, netVars>>
    \/ /\ enabled = {}
       /\ MainGoto("spawn", "watch")
       /\ UNCHANGED <<alive, fileVars, notifyVars, batch, ret, opened, sampled, enabled,
                      lock, cur, servVars, netVars>>

\* inotify_init and inotify_add_watch: neither result stops the program.
AddWatch ==
    /\ MainGoto("watch", "read")
    /\ watch' \in {path, NoFile}
    /\ UNCHANGED <<alive, fileVars, queue, missed, batch, ret, opened, sampled, enabled,
                   lock, cur, servVars, netVars>>

ReadEvents ==
    /\ MainGoto("read", "event")
    /\ queue # {}
    /\ batch' = queue /\ queue' = {}
    /\ UNCHANGED <<alive, fileVars, watch, missed, ret, opened, sampled, enabled, lock,
                   cur, servVars, netVars>>

\* Variant: the events are read and dropped.
DropEvents ==
    /\ MainGoto("event", "read")
    /\ batch' = {}
    /\ UNCHANGED <<alive, fileVars, notifyVars, ret, opened, sampled, enabled, lock, cur,
                   servVars, netVars>>

\* One turn of the loop over the buffer: IN_MODIFY comes before IN_IGNORED.
HandleEvent ==
    /\ IF "modify" \in batch
         THEN /\ MainGoto("event", "open")
              /\ ret' = "event"
              /\ batch' = batch \ {"modify"}
         ELSE /\ MainGoto("event", "read")
              /\ batch' = {}
              /\ UNCHANGED ret
    /\ UNCHANGED <<alive, fileVars, notifyVars, opened, sampled, enabled, lock, cur,
                   servVars, netVars>>

MainStep == \/ ReadConf \/ Daemonize \/ FOpen \/ FOpenFails \/ FSeek \/ MainLock \/ StoreHi
            \/ StoreLo \/ MainUnlock \/ Spawn \/ AddWatch \/ ReadEvents \/ HandleEvent

----------------------------------------------------------------------------
(* The server threads: tcp_serv and unix_serv have the same loop. *)

ServGoto(s, from, to) == alive /\ spc[s] = from /\ spc' = [spc EXCEPT ![s] = to]

\* socket, bind, listen.
Setup(s) ==
    /\ ServGoto(s, "setup", "accept")
    /\ UNCHANGED <<alive, fileVars, notifyVars, mainVars, lock, cur, peer, str, netVars>>

Accept(s) ==
    /\ ServGoto(s, "accept", "lock")
    /\ \E c \in queued[s] : /\ peer' = [peer EXCEPT ![s] = c]
                            /\ queued' = [queued EXCEPT ![s] = @ \ {c}]
    /\ UNCHANGED <<alive, fileVars, notifyVars, mainVars, lock, cur, str, hung, reply>>

\* Variant: the copy is not guarded by the mutex.
ServNoLock(s) ==
    /\ ServGoto(s, "lock", "copyHi")
    /\ UNCHANGED <<alive, fileVars, notifyVars, mainVars, lock, cur, peer, str, netVars>>

ServLock(s) ==
    /\ ServGoto(s, "lock", "copyHi")
    /\ lock = NoOne /\ lock' = s
    /\ UNCHANGED <<alive, fileVars, notifyVars, mainVars, cur, peer, str, netVars>>

CopyHi(s) ==
    /\ ServGoto(s, "copyHi", "copyLo")
    /\ str' = [str EXCEPT ![s].hi = cur.hi]
    /\ UNCHANGED <<alive, fileVars, notifyVars, mainVars, lock, cur, peer, netVars>>

CopyLo(s) ==
    /\ ServGoto(s, "copyLo", "unlock")
    /\ str' = [str EXCEPT ![s].lo = cur.lo]
    /\ UNCHANGED <<alive, fileVars, notifyVars, mainVars, lock, cur, peer, netVars>>

\* Variant: the mutex is not released.
ServNoUnlock(s) ==
    /\ ServGoto(s, "unlock", "send")
    /\ UNCHANGED <<alive, fileVars, notifyVars, mainVars, lock, cur, peer, str, netVars>>

ServUnlock(s) ==
    /\ ServGoto(s, "unlock", "send")
    /\ lock' = NoOne
    /\ UNCHANGED <<alive, fileVars, notifyVars, mainVars, cur, peer, str, netVars>>

\* send and close.
Send(s) ==
    /\ ServGoto(s, "send", "accept")
    /\ reply' = [reply EXCEPT ![peer[s]] = str[s]]
    /\ peer' = [peer EXCEPT ![s] = NoOne]
    /\ UNCHANGED <<alive, fileVars, notifyVars, mainVars, lock, cur, str, queued, hung>>

ServStep(s) == \/ Setup(s) \/ Accept(s) \/ ServLock(s) \/ CopyHi(s) \/ CopyLo(s)
               \/ ServUnlock(s) \/ Send(s)

\* The calls whose failure ends the process: the toml calls on an unreadable
\* or malformed configuration, the descriptor check of daemonize,
\* pthread_create, the socket calls of a server, and send (by its result or by
\* SIGPIPE) to a client that has hung up.
CallFails ==
    /\ alive
    /\ \/ mpc \in {"conf", "daemon"}
       \/ mpc = "spawn" /\ enabled # {}
       \/ \E s \in Servers : \/ spc[s] \in {"setup", "accept"}
                             \/ spc[s] = "send" /\ peer[s] \in hung
    /\ Die

----------------------------------------------------------------------------
(* The clients and the other programs that use the watched file. *)

Listening(s) == spc[s] \notin {"off", "setup"}
Connected(c) == \/ reply[c] # NoReply
                \/ c \in hung
                \/ \E s \in Servers : c \in queued[s] \/ peer[s] = c

Connect(c, s) ==
    /\ alive /\ Listening(s) /\ ~Connected(c)
    /\ queued' = [queued EXCEPT ![s] = @ \cup {c}]
    /\ UNCHANGED <<alive, fileVars, notifyVars, mainVars, lock, cur, servVars, hung, reply>>

HangUp(c) ==
    /\ Connected(c) /\ c \notin hung /\ reply[c] = NoReply
    /\ hung' = hung \cup {c}
    /\ UNCHANGED <<alive, fileVars, notifyVars, mainVars, lock, cur, servVars, queued, reply>>

\* A write to an inode raises IN_MODIFY on its watch.
Write(i) ==
    /\ i \in files /\ writes[i] < MaxWrites
    /\ writes' = [writes EXCEPT ![i] = @ + 1]
    /\ queue' = IF watch = i THEN queue \cup {"modify"} ELSE queue
    /\ missed' = (missed \/ (i = path /\ watch # i))
    /\ UNCHANGED <<alive, path, files, born, watch, mainVars, lock, cur, servVars, netVars>>

\* mv file elsewhere: the inode, its watch and its writers stay.
RenameAway ==
    /\ path # NoFile
    /\ path' = NoFile
    /\ UNCHANGED <<alive, files, born, writes, notifyVars, mainVars, lock, cur,
                   servVars, netVars>>

\* Deleting an inode ends its watch with IN_IGNORED.
DropWatch(i) ==
    /\ watch' = IF watch = i THEN NoFile ELSE watch
    /\ queue' = IF watch = i THEN queue \cup {"ignored"} ELSE queue

Unlink ==
    /\ path # NoFile
    /\ path' = NoFile /\ files' = files \ {path}
    /\ DropWatch(path)
    /\ UNCHANGED <<alive, born, writes, missed, mainVars, lock, cur, servVars, netVars>>

Create ==
    /\ path = NoFile /\ born < MaxInodes
    /\ born' = born + 1 /\ path' = born + 1 /\ files' = files \cup {born + 1}
    /\ missed' = TRUE
    /\ UNCHANGED <<alive, writes, watch, queue, mainVars, lock, cur, servVars, netVars>>

\* rename() of a new file over the watched one.
Replace ==
    /\ path # NoFile /\ born < MaxInodes
    /\ born' = born + 1 /\ path' = born + 1
    /\ files' = (files \ {path}) \cup {born + 1}
    /\ DropWatch(path)
    /\ missed' = TRUE
    /\ UNCHANGED <<alive, writes, mainVars, lock, cur, servVars, netVars>>

Environment == \/ \E c \in Clients, s \in Servers : Connect(c, s)
               \/ \E c \in Clients : HangUp(c)
               \/ \E i \in Inode : Write(i)
               \/ RenameAway \/ Unlink \/ Create \/ Replace

Next == MainStep \/ (\E s \in Servers : ServStep(s)) \/ CallFails \/ Environment

Spec == Init /\ [][Next]_vars

\* The kernel schedules every runnable thread; nothing obliges a call to fail,
\* or a client, a writer or the file system to do anything.
Fairness == WF_vars(MainStep) /\ \A s \in Servers : WF_vars(ServStep(s))

FairSpec == Spec /\ Fairness

----------------------------------------------------------------------------
(* Properties. *)

\* No client is sent a size whose two halves come from different samples: the
\* mutex of update_file_size and of the servers covers the whole word.
NoTornReply == \A c \in Clients : reply[c].hi = reply[c].lo

\* A sampling of the present size, or the event that will cause one, is on
\* its way to cur_file_size.
UpdatePending ==
    \/ mpc \in {"conf", "daemon", "open", "seek"}
    \/ mpc \in {"lock", "storeHi", "storeLo"} /\ sampled = Actual
    \/ "modify" \in queue \cup batch

\* The daemon never forgets a change it was told of: while the published size
\* differs from the size of the file, an update is pending, unless the file
\* changed while no watch covered it (before inotify_add_watch, or because
\* the name now leads to another inode).
NoLostUpdate ==
    alive /\ path # NoFile /\ cur # Both(Actual) => missed \/ UpdatePending

\* u was sampled before v: inodes appear at the path in the order of their
\* numbers.
OlderThan(u, v) == u[1] < v[1] \/ (u[1] = v[1] /\ u[2] < v[2])

\* cur_file_size never goes back to a size sampled earlier, whatever events
\* are handled and however the file is replaced.
MonotoneSize ==
    [][ /\ cur'.hi # cur.hi => OlderThan(cur.hi, cur'.hi)
        /\ cur'.lo # cur.lo => OlderThan(cur.lo, cur'.lo) ]_cur

\* The size a client is bound to be told: decided by CopyLo, under the mutex.
Given(c) ==
    IF reply[c] # NoReply THEN reply[c]
    ELSE IF \E s \in Servers : peer[s] = c /\ spc[s] \in {"unlock", "send"}
         THEN str[CHOOSE s \in Servers : peer[s] = c]
         ELSE NoReply

NewerWord(v, u) == OlderThan(u.hi, v.hi) /\ OlderThan(u.lo, v.lo)

Register == INSTANCE SizeRegister
    WITH Client <- Clients, Value <- {Both(v) : v \in Sample}, Empty <- NoReply,
         Newer <- NewerWord, answer <- [c \in Clients |-> Given(c)],
         register <- IF mpc = "storeLo" THEN Both(cur.lo) ELSE cur

\* The threads, the mutex and the two halves together behave as one atomic
\* register of sizes (module SizeRegister).
ImplementsRegister == Register!Spec

\* A client whose connection is waiting is answered, or the process ends.
EveryClientAnswered ==
    \A c \in Clients :
        (\E s \in Servers : c \in queued[s]) ~> (reply[c] # NoReply \/ ~alive)

\* The published size keeps coming back to the size of the file, except after
\* a change that no watch covered.
TracksWatchedFile ==
    []<>(~alive \/ path = NoFile \/ missed \/ cur = Both(Actual))

=============================================================================

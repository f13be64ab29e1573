# Models of the C programs in this repository

The repository holds a course's homework programs (`src/hw01` … `src/hw14`) and
one project (`src/project`).  They are independent programs.  The ones with
threads, processes, sockets and files that change under them (`hw07`, `hw08`,
`hw10`, `hw11`) and the game (`hw14`) have models and runs of their own, and so has
the TOML parser that two programs carry with them; the small sequential programs
are modelled one by one and checked on one bench.

Every definition that models code is mapped to its lines in `PROJECT.json`
("map").  Names follow the source where TLA+ allows it (`cur_file_size` is `cur`
in `FsizeInfo`, `lstats[].ptid` is `ptid` in `LogStat`, `ftp_retr` is `Retr`).

- [1. Inventory](#1-inventory)
- [2. Modules](#2-modules)
- [3. Runs, bounds and what they show](#3-runs-bounds-and-what-they-show)
- [4. Fairness](#4-fairness)
- [5. Proofs](#5-proofs)
- [6. Where code and documentation disagree](#6-where-code-and-documentation-disagree)
- [7. What is not modelled](#7-what-is-not-modelled)
- [8. Plan](#8-plan)

## 1. Inventory

### fsize_info (`src/hw07`): modelled

A daemon that follows the size of one file and tells it to whoever connects.

| part | state | operations |
|---|---|---|
| main thread (`main.c`) | `cur_file_size` (64 bits, global), `fp`, the inotify descriptor and its event buffer | `read_conf`, `daemonize`, `update_file_size`, `pthread_create`, `inotify_add_watch`, the event loop |
| mutex (`main.c:43`) | its holder | lock, unlock |
| `tcp_serv`, `unix_serv` | a listening socket, an accepted client, the copy `str` | accept, copy under the mutex, send, close |
| outside | the file (an inode) behind the configured name, its writers, the clients | write, rename away, delete, create, replace; connect, hang up |

*Interaction.*  Main stores into `cur_file_size` under the mutex, the two servers
copy it under the same mutex; the kernel's inotify queue connects the file with
main; `exit(1)` or SIGPIPE in any thread ends all of them.

*Hard.*  A 64-bit variable in two halves on a 32-bit build; the watch is on an
inode and not on a name; an event is older than the sampling it causes; the file
may be gone when its event is handled; the first sampling precedes the watch.

*Correct when* no reply mixes two sizes, the published size never goes back, no
change main was told of is lost, and every waiting client is answered.

### ftp_serv (`src/hw08`): modelled

A master forks `pool_size` workers; every worker accepts from one listening
socket, serves one client until it goes, and reads one command per `read()`.

| part | state | operations |
|---|---|---|
| master (`main.c`) | `pids`, SIGINT disposition | `fork`, `sigaction`, `wait`, `close_serv` |
| worker (`main.c`) | `serv_fd`, `cli_fd`, `state` (`conn`, `sock_pasv`) | `accept`, `read`, `parse_comm`, `response` |
| commands (`ftp.c`) | the port drawn from `time()`, the working directory of the process | USER, PASS, PWD, CWD, PASV, LIST, RETR, QUIT |
| transfer (`ftp.c:9-53`) | `count`, `numRead`, `numSent`, `totSent`, file offset | `fstat`, `sendfile`'s loop of `read`/`write`, the reply |

*Interaction.*  Processes share the listening socket and the ports of the host;
SIGINT and the death of a worker end the master; a client's commands may arrive
together.  The working directory belongs to the process and outlives the client.

*Hard.*  `state->sock_pasv` is cleared between PASV and LIST/RETR; descriptors
that are not closed at the end of a session; descriptors closed that were never
assigned (`ftp.c:345`); two workers drawing one port; SIGINT between the last
`fork` and `sigaction`; a `fork` that fails and leaves -1 to be killed; short writes;
a result of type `ssize_t` kept in an `int`; a read that fills the buffer is neither
parsed nor answered; LIST leaves the directory and comes back by a `chdir` that
nobody checks.

*Correct when* replies stay in step with commands, `226`/`550` mean what happened,
the pool ends as one, a client is in the directory it was told, and a client in the
backlog gets a worker when one is free.

### logstat (`src/hw10`): modelled

| part | state | operations |
|---|---|---|
| main | `lstats[]`, `lstats_size`, `thcount`, `threads[]`, `larg[]` | reads the directory and deals files to threads in turn, `pthread_create`, `pthread_join`, merge |
| thread (`parse_func`) | its loop index | tests `ptid`, opens, parses line by line, fills in the statistics |
| the tops (`main.c:155-197`) | `stat_arr`, `asu1`, `top_urls`, `top_refs` | sort, group, list |
| the summary (`main.c:299-352`) | the tops of all files in one array | the same loops once more |

*Hard.*  No lock: the dealing alone keeps threads apart; more threads than files,
more files than `MAX_LOG_FILES`; unsigned indexes of loops that run downwards; lines
without the quotes and spaces that `strchr` is to find; lines of which `fgets` leaves
a part for its next call.

*Correct when* each file is filled in once, by one thread, before main reads it,
the fields of a usual line are read right, and the tops hold what they announce.

### http_serv (`src/hw11`): modelled (content types left out)

| part | state | operations |
|---|---|---|
| threads (`main.c:51-79`) | an epoll instance each, the array of events | `epoll_wait`, `accept`, `epoll_ctl`, `http_req`, `close` |
| listening socket | the backlog, shared by all instances, edge triggered | |
| request (`http.c`) | `fname`, `file_size`, `f` | `recv_line`, `parse_head_line`, `file_attr`, `open`, headers, `sendfile` |
| outside | clients, descriptor table, file system | send parts of a request, close; change, truncate, append |

*Hard.*  One `accept` per event although two arrivals may make one event; a
descriptor number reused by another thread while an event may name it;
`setnonblocking` sets a descriptor flag, so that `accept` and `read` block;
`recv_line` reports success for ever at the end of the stream; a line as
long as the buffer; words of a request longer than `request[8]` and `url[256]`; the
file changes between `stat`, `open` and `sendfile`; `open` fails for other reasons than
the file; one `sendfile` whose result nobody looks at.

*Correct when* descriptors neither leak nor are shared, no readiness is lost,
answers go to whole requests once and to the path they name, errors and lengths are
those of a file that was there, and a whole request is answered.

### pingpong (`src/hw14`): modelled in part

One loop; a frame is a fixed sequence of calls (`main.c:49-76`).

| part | state | operations |
|---|---|---|
| keys (`input.c`) | `app.up`, `app.down`, `app.running` | `GetInput`: key down, key up, escape, quit |
| ball (`ball.c`, `util.c`) | `x`, `y`, `vx`, `vy`, `speed`; `ball_rect`, its place in whole pixels | `MoveBall`, walls, points, bounces (`CollisionCheck`) |
| paddles (`stage.c`, `util.c`) | `position`, `speed`, `score` of two players | `MovePaddle` and `PlayerBounds` of the first, the second follows the ball (`collision.c:56-61`) |

*Hard.*  A long sequence of legal frames, with every bounce the floating point can
produce: `ball_rect` is as old as the last `MoveBall` while walls and points move the
ball; the ball is put beside a paddle that is outside the field until the end of
the frame; a fast ball may step over a paddle; the second paddle has no bounds.

*Correct when* a frame ends with everything in the field, a point is only given
when the paddle had a chance to hit, a player can always move, and the ball keeps
coming back to the paddles.

### toml.c (`src/hw07`, the same file in `src/project`): modelled in part

Both copies read a configuration: a recursive descent that builds the tree as it
goes.

| part | state | operations |
|---|---|---|
| tokenizer | `ctx->tok` | `next_token`, `scan_string` |
| parser | the C call stack, `ctx->curtab`, `ctx->tpath` | `parse_keyval`, `parse_table`, `parse_array`, `parse_select`, `fill_tabpath`, `walk_tabpath` |
| tree | tables (`implicit`, `readonly`) and arrays (`kind`, `type`) | `check_key`, `create_keyval_in_table`, `create_keytable_in_table`, `create_keyarray_in_table`, `create_table_in_array` |
| UTF-8 | | `toml_utf8_to_ucs`, `toml_ucs_to_utf8` |

*Hard.*  `[a.b]`, `[a]`, `[[a]]` and `a = {...}` in every order; the kind of an array
is decided by its first value and corrected later, and trusted by `walk_tabpath`;
an error is a `return -1` that every level has to hand on; loops that stop only at
another token.

*Correct when* a name stands for one thing and is defined once, arrays say the
truth about their items, lines go to the table of the last header, and every text
is answered.

### rbuilder (`src/project`): modelled in part

One process, three roles (build, install, clean), each a fixed sequence of
`system()` calls of `ssh` and `scp` whose results nobody looks at.

*State*: the user's directory and `temp.tar` in it; on the host `work_dir` and what
is in it, and the home directory.  *Interaction*: all users who keep the default
`work_dir` share it.

*Hard.*  Every remote command is `cd work_dir; ...` and goes on in the home directory
when the `cd` fails, which a second `clean` is enough for; Ctrl-C ends one command and
not the program; another user's `clean` between two commands; `./*` stands for no
hidden file, neither when files are packed nor when they are removed.

*Correct when* a build finds the present files and no others, and nothing outside
`work_dir` is touched.

### The small programs

| component | state and operations | what makes it correct | status |
|---|---|---|---|
| utf8_encoder (`hw01`) | a code table read line by line; a byte in, one to three bytes out: its code point from 128 on, else the byte itself | what it writes is read back as what it was | modelled |
| jpeg_zip_detector (`hw02`) | two shift registers over one stream, a buffer of 256 bytes for names | every signature is counted once, wherever it lies | modelled |
| get_weather (`hw04`, the same program in `project/example`) | an answer, the number of a place (64 bits kept in an `int`), a second request | the weather asked for is that of the one place found | modelled, but for what is printed |
| mylog (`hw05`) | a log: init, write, final; stdio's buffer | the record of `ml_fatal_write` is the last, an exit loses none | modelled |
| statdb (`hw12`) | sum, minimum, maximum, deviation over rows, for two databases | what is printed are the statistics of the column; a NULL ends mysql's handler | modelled |
| clib patch (`hw06`) | a patch to another program | | not modelled |
| crc32 (`hw09`) | a table, a running crc over a mapped file | | not modelled |
| 3dcube (`hw13`) | an angle | | not modelled |

## 2. Modules

| module | models | composed with |
|---|---|---|
| `FsizeInfo` | the whole of fsize_info: main, servers, mutex, inotify, file, clients | implements `SizeRegister` |
| `SizeRegister` | what fsize_info promises: one atomic register that never goes back | |
| `FsizeInfoProofs` | theorems about `FsizeInfo` | |
| `FtpServ` | master, workers, commands, working directories, clients, signals, clock | |
| `FtpServProofs` | theorems about `FtpServ` | |
| `FtpSendfile` | the transfer inside RETR | the step `Transfer` of `FtpServ`, looked into |
| `LogStat` | main and threads of logstat | |
| `LogStatProofs` | theorems about `LogStat` | |
| `LogLine` | a file read line by line and cut up by `strchr` | what fills the array `LogTop` starts from |
| `LogTop` | the two tops of one file, and the summary of the referers over files | the step `Parse` of `LogStat`, looked into |
| `HttpServ` | threads, epoll, descriptors, clients of http_serv | |
| `HttpServProofs` | theorems about `HttpServ` | |
| `HttpLine` | `recv_line` and `parse_head_line`, byte by byte | the steps of `HttpServ` that take in a request |
| `HttpReq` | one `http_req` against a changing file system | the step `Reply` of `HttpServ`, looked into |
| `HttpReqProofs` | theorems about `HttpReq` | |
| `PingPong` | the game loop of pingpong | |
| `PingPongProofs` | theorems about `PingPong` | |
| `Toml` | the parser of `toml.c` and the tree it builds | |
| `TomlProofs` | theorems about `Toml` | |
| `Rbuilder` | several rbuilders on one host, with failing steps | |
| `Utf8` | utf8_encoder and the UTF-8 functions of `toml.c` | |
| `Detector` | jpeg_zip_detector | |
| `Weather` | get_weather | |
| `StatDb` | both handlers of statdb | |
| `MyLog` | the life of a log | |
| `Programs` | the bench: `FtpSendfile`, `LogTop`, `LogLine`, `HttpLine`, `Rbuilder` and the five small programs | |
| `ProgramsProofs` | theorems about the programs of the bench | |
| `MCFsizeInfo`, `MCLogTop`, `MCToml`, `MCPrograms` | symmetry, constants and texts for TLC | |

`Programs` composes nothing: its variable `prog` says which of ten programs
without common state a behaviour runs, the others stay in a state they begin
with, and every property is conditioned on its own program.  One run then
explores ten small state spaces, one after the other and not their product.

A definition introduced by "Variant:" is not part of any specification.  It is
one of the module's definitions with a plausible mistake in it (a dropped lock,
an exchanged order, an off-by-one); `PROJECT.json` ("mutants") names for every
checked property a variant under which TLC reports that property violated, which
shows that the property depends on the code being as it is.

### How state and actions correspond to the code

**FsizeInfo.**  `mpc` is where main is between the calls that another thread or
the kernel could see the effect of: `open` (`fopen`), `seek` (`fseek`/`ftell`),
`lock`, `storeHi`, `storeLo`, `unlock`, `spawn`, `watch`, `read`, `event`; `ret` is
where `update_file_size` returns to, since it is called at start and from the
loop.  `spc[s]` does the same for a server.  A size is the pair ⟨inode, number of
writes⟩ it was sampled from, so that two samplings are equal exactly when the
file did not change between them, and so that "older" has a meaning; a shorter
file is thus a newer value like any other.  `cur` has two halves, stored and
copied in separate steps, the coarsest a 32-bit build may choose.  The inotify
queue is a set because equal neighbouring events are merged by the kernel and
because after `IN_IGNORED` no more events come from that watch.  `missed` and the
inodes' numbers are history: no guard of the program reads them.  `CallFails`
collects the calls whose failure ends the process.

**FtpServ.**  A command is one action: none of them waits for another actor once
its data connection is not there.  `SockPasv` says what `response()` finds in
`state->sock_pasv`, always nothing (`main.c:97`); the step that would use it is
written out so that the model shows what follows from that line alone.
`RetrMissing` makes the two reads of uninitialized locals (`ftp.c:345`) a choice:
the close may hit the client's connection, the listening socket, or nothing.  The
port is the second of `time()`; `bound` holds the seconds whose port a worker
still listens on, because nothing closes an unused passive socket; a second PASV in
the same second fails to bind and ends the worker.  `Long` is a command that fills the
buffer: nothing of it is parsed or answered, and what is left of it in the socket is
read as another command or, where nothing is left, the client is `skipped`.  `Used(w)`
counts a worker's descriptors against `MaxFds`.  `dir` is the working directory of
the process, which CWD changes for all clients to come; `told` is history: where
the present client has been told that it is.  `List` goes to its argument and back by
the name that `getcwd` gave, both unchecked; `nameless` are the directories that have
no such name (removed, or too deep for `getcwd`'s buffer), from which PWD answers 550
and LIST may not come back.  `Lose` is whoever removes one, at any moment, and `List`
lets it happen between its two calls as well.  `AlsoKilled` is whom `close_serv`
signals besides the workers: every process of the user when a failed `fork` left -1
in `pids`.  Seconds in which no port was drawn make no difference and are left out
(`Tick`).

**FtpSendfile.**  `Read` and `Write` are the two halves of `sendfile`'s loop, each
with its failure; `Resize` is any other program.  `AsInt` is the conversion of
`ssize_t` to the `int sent_total`, at a width that `Half` sets.

**LogStat.**  `i`, `j`, `size`, `thcount`, `ptid` are main's variables; `it[t]` is a
thread's loop variable.  `filled[f]` counts how often the statistics of a file
were written.  A thread may crash the process (`mpc = "crashed"`): with fewer than
two lines its loops index far beyond the array (`LogTop`).

**LogTop.**  The arrays are functions from 0, as in C; a name is a number in the
order of `strcmp`, and `Prefix` holds the pairs that `strncmp` over the first
name's length takes for equal.  `g_ptr_array_sort` may order equals as it likes,
so `Init` and `Sort` allow every order.  In the summary a unit carries what its file
has counted (`was`), and the loop of `main.c:330` adds them up: `RefTurn` and
`SumTurn` are the two loops, which differ in what they add.

**LogLine.**  A line is a sequence of letters put together from the fields of a log
record; `Find` is `strchr`, with 0 for NULL, and a search from NULL + 1 crashes.
`fgets` takes at most `STR_MAX` letters, and what it leaves of a line (`from`) is the
next string that is parsed.

**HttpLine.**  `buf` is the one buffer that all lines are read into and is never
cleared, so that an unfinished line is completed by what an earlier one left.  The
client may close at the end of any part of its request, and one byte before it.  A
word that has no room in `request` or `url` (`Room`) leads to `"undefined"`, of which
nothing more is said.

**Toml.**  The text is not given in advance: `next_token` chooses the next token
within the bounds of `Texts`, so that every text within them is parsed.  `stack` is
the C call stack, its head the innermost call and the place it has come to; an
action is the stretch of a function between two calls of `next_token`.  `fail` stands
for the `-1` that an error returns and that every caller returns in its turn, down to
`toml_parse`, which frees the tree: nothing happens on the way.  `doc` holds tables
and arrays with the flags the code keeps; `head` and `defs` are history.  Keys and values have no characters: a
key is legal or has a character that `normalize_key` refuses.

**Rbuilder.**  `step[b]` is the next `system()`.  A step may fail (`Fails`) and the
program goes on to the next one; it may be killed between two (`Killed`).  A remote
command runs in `work_dir` or, where there is none, in the home directory, where the
user keeps a file that no command names, one that is called like what a build
produces, and one like the configuration (`HomeFiles`).  `Visible` is what `./*` stands for:
neither hidden files of the user nor what a build has hidden.  `alone`, `calm` and `vain`
are history: what has been disturbed by a fault or by another user, and whether a
`clean` has found no work directory.

**Utf8, Detector, Weather, StatDb, MyLog.**  Each is the program's own loop, one
action per turn or per call, on inputs chosen step by step: a table and a file of
bytes, a file of signatures and their beginnings, an answer, the rows of a column,
the calls a user of the log makes.  A code table gives any byte any code point, and
`Encode` has both, since below 128 the code writes the byte.  `CentralHeader` reads a name
into `buff` whatever its length; more than `BUFF_LEN` bytes lead to `"undefined"`.
`ToInt` is the conversion of a place's number, and of a sum, to an `int`.  `NoString` is the
NULL that libmysqlclient has for a NULL in a row, and `atoi` crashes on.  `ml_write` takes
the level FATAL too and then goes on; `"END"` is the record of `ml_fatal_write`.

**HttpServ.**  `ready[t]` is the kernel's ready list of a thread's epoll instance,
`batch[t]` the array `epoll_wait` filled in, `fd[t]` the descriptor in hand.  How much
of a request has come (`sent`) takes the place of its text, `"cr"` being all but the last
LF; `Request` may end in a reply, in an end without one, or in a loop that does not
end, and replies to a client that has closed at `"cr"`, for the byte that `recv_line`
did not get is taken for one of the line.  `merged` is history.  The test of `EPOLLIN`
(`main.c:72`) has no counterpart: it is the one event that descriptors are
registered for, and the end or the reset of a connection raises it too.

**HttpReq.**  `attr` is the `file_size` that `file_attr` returns, a size or one of
its three error codes; `IsDir` appends `index.html`; `Open`, `Head` and `SendFile` are
the calls after it.  `Change` and `Resize` are other programs and may come between
any two calls; `linked` tells whether the open file is still the one under the
name, `seen` and `quiet` are history.  Once `Fault("calls")` has happened, `stat` and `open`
may fail for reasons of their own and `sendfile` may send less; after `Fault("peer")`
it may as well, and every write may kill the process (`Killed`).  `SendFile` is one call
and sends no more than `SendLimit`.

**PingPong.**  `pc` says which call of the frame comes next.  Lengths are integers in
units of 1/`Pixel` of a pixel, `Whole` is the cast to `int` that makes `ball_rect`.
`CollisionCheck` is one action: the walls (`WallY`, `WallVy`), then one of five
outcomes, which exclude each other because the paddles are apart and at least a
pixel inside the field, then the second player.  Sine and cosine of a bounce are any
pair of lengths they can be: the ball overlaps the paddle, so that the angle is at
most 85/75 of 36 degrees, less than 41; then the cosine is above 3/4, the sine below
2/3, and the sine has the sign of the difference of the centres.  `event` is what a
frame has seen (the scores only grow, nothing reads them but the drawing), `level`
is history.

## 3. Runs, bounds and what they show

Deadlock is not checked where the system may stop: processes end, clients fall
silent, bounded counters run out.  Every model here has such states.

| run | shows | bounds, and why they are enough |
|---|---|---|
| `fsize_safety` | `NoTornReply`: a reply is never two halves of different sizes. `NoLostUpdate`: while the published size differs from the file's, an update is pending or the file changed unwatched. `MonotoneSize`: no older size is ever published again. `ImplementsRegister`: all threads together are one atomic register. | both servers, two clients, two inodes, one write to each: three different sizes, so a torn word, an older value and a replaced file all occur; symmetric clients |
| `fsize_liveness` | `EveryClientAnswered`, `TracksWatchedFile` | one server (they only share the mutex with main; two are in the safety run), two clients so that one waits behind the other, two inodes |
| `http_serv` | `FdsAccounted`, `AnswersWholeRequests`, `WakeupPerConnection`, `ReadyNotForgotten`, `RequestServed` | two threads on two clients and two descriptors: both may hang on one connection's arrival, numbers are reused, descriptors run out; two events in one array |
| `http_req` | `StatusJustified`: errors are those of a file that was there or of a call that failed, names with `..` are never served. `BodyRight`: the body keeps to `Content-length` and to what one `sendfile` sends | all trees of two nodes (a name and its index.html), sizes to 2 and one `sendfile` of 1: empty, shrunk, grown, and longer than is sent; calls and client may fail from any moment on |
| `ftp` | `LockStep`: a client that waits for replies gets one per command, none gets more. `PoolEndsTogether`: who survives the master and whom it kills. `ToldIsTrue`: a client is where PWD and CWD have told it. `QueuedWelcomed` | two workers and two clients, two descriptors (a leak fills them in the second session), two seconds (same port or not), two commands of a client and two in all: one may be sent ahead, one client may move and the next one of the same worker ask or list; either directory may be lost at any moment |
| `ftp_passive` | a violation: see section 6 | one worker, one client, PASV and LIST |
| `rbuilder_hidden` | a violation: see section 6 | two users and three runs, of which one is enough; one of two files is hidden |
| `log_threads` | `NoSharedFile`, `EveryFileOnce`, `Terminates` | 0 to 3 threads, 0 to 5 directory entries, a limit of 4 files: fewer, as many and more files than threads, and the limit is met |
| `log_top_largest` | a violation: see section 6 | files of up to five lines over four names of which one is a prefix of another; tops of three |
| `pingpong` | `InField`, `PointAfterChance`, `BallReturns` | half pixels on a field of 11 by 15; the limit of the speed is reached after two hits, the paddle's margin equals its speed as in the code, and the second paddle's limit is met exactly.  The theorems hold for all fields that fit, that of `defs.h` among them |
| `toml` | `NamesSound`, `ArraysTrue`, `HeaderHolds`, `ParseEnds` | every text of up to five counted tokens (keys, values, newlines, opening brackets; the rest follows on these) and every list of headers of up to ten; two keys, paths of two keys where the code has ten: three headers that meet on one name, and a path that is too long |
| `programs` | the bench, one property or two for each: `TopIsLargest`, `RefsCounted`, `LineParsed`, `RequestRead`, `FreshBuild`, `HostKept`, `Utf8RoundTrip`, `ScanRight`, `RightPlace`, `StatsTrue`, `FatalLast`, `Accounted`, `ReplyMeans` | see below |

Type invariants are not run: they are proved (section 5).

The bench's bounds:

- `LogTop`: tops of three, so that a top is filled and cut, over every file of up to
  five lines; `LogLine`: files of three lines of which two strings are
  read, requests of one to three words, empty ones among them, and a referer with
  which a line is longer than the 26 letters of `STR_MAX`.
- `HttpLine`: a buffer for ten letters, headers that fit, fit exactly, and are one and
  two too long; `request` has room for 3 letters and `url` for 2, methods and paths
  have up to one more; a client that sends all or closes at one of four places.
- `Rbuilder`: two users, three runs, one fault: a fault of one run before, during or
  after another, and a `clean` after a `clean`; one file of the user is hidden and
  another begins with `temp`.
- `Utf8`: a table gives each of the bytes 0, 65 and 255 any of the code points at the
  edges of the lengths, or 65 or 97: tables that agree with ASCII, tables that do not,
  and tables whose output is no UTF-8; for `toml.c` code points at every edge of the
  lengths and of the surrogates, and one below 0.
- `Detector`: files of three pieces with up to three bytes cut off: signatures
  after the beginnings of others, markers of the three kinds, and names that are
  empty, a file's, a catalog's, like a signature, and longer than the buffer, which
  has four bytes.
- `Weather`: two places, two keys of a place, and numbers of which one fits into an
  int of -4 .. 3, one becomes 0 and one becomes another; `StatDb`: columns of up to three
  rows in the same ints; `MyLog`: four records.
- `FtpSendfile`: sizes to 9, buffers of 2 and an int that wraps at 4 above and below
  zero: several rounds, a last partial one, and both sides of the wrap.

What some of these mean in detail:

- `WakeupPerConnection` is the exact condition under which one `accept` per event is
  enough: as long as no two arrivals were merged into one event, a thread was told
  of every connection in the backlog.  After a merge a connection may wait until
  the next arrival; the model reaches such states and the property says that they
  have no other cause.
- `RequestServed` allows three excuses, each a behaviour of the code: the process
  ended (SIGPIPE, `accept` without descriptors), or the connection's thread blocks
  in `accept` or `read` for another client, or it spins after an end of stream.
- `QueuedWelcomed` allows a worker to be held by a client that neither speaks nor
  goes: the protocol has no timeout.
- `ToldIsTrue` says nothing of a client that never asks: it is where the last client
  of its worker has gone.  Nor of a directory that has lost its path, from which
  LIST goes away without coming back.
- `LockStep` knows one reason for a missing reply: a command that fills the buffer
  exactly.  Its client waits until it sends again.
- `AnswersWholeRequests` has one exception, of a client that closes when only the LF of
  the empty line is missing; `RequestRead` says the same of the letters.
- `PoolEndsTogether` lets the handler kill every process of the user when a `fork`
  had failed, since that is what the -1 in `pids` does.
- `ReplyMeans` is what a client may conclude from a reply.  After a 226 the file has been
  sent: bytes lost in a short write shift the rest of it, and without appends the
  count can then not be reached; with appends it can, and the property says so.
  After a 550 `read()` has *not* failed, whatever the text says: nothing was sent, for the
  file was or became empty, or the count has wrapped to 0 (section 6).
- `StatusJustified` and `BodyRight` speak of what the file system was at some moment of
  the request, since other programs change it between any two calls.  An `open` that
  fails for want of descriptors is answered 404 as well, and the property says that
  there is no third reason.  A body is shorter than announced after a change or a
  failure, and always when the file is longer than one `sendfile` sends.  When
  `index.html` is itself a directory its code -2 is announced as the length.
- `FreshBuild` is about a run that nothing disturbs, after any history of disturbed
  ones: of what is not hidden the build finds exactly the user's, of what is hidden
  nothing of the user's and only what earlier builds have left.  `HostKept` is about
  histories without disturbance.  They may still cost the user a file: a `clean` with
  no work directory runs in the home directory and takes what it would take of a
  build; the property says that it takes nothing else.  One `clean` of another user
  between `mkdir` and `scp` turns `work_dir` into a file, and from then on `rm -r ./*` runs
  in the home directory.
- `HeaderHolds` follows the path of the last header through the tree as a reader of
  the text would and arrives at the table that lines are put into.
- `ParseEnds` needs that every level hands an error on: where a function finds a token
  it does not want, nobody must ask for the next.
- `ScanRight` is about whole files; one that ends within a header gets a wrong size.
  Every count is right as long as no name behind the first EOI is longer than the
  buffer, and such a name never passes unharmed.
- `RequestRead` requires lines that fit into the buffer with CR and LF: one byte more
  and the rest of the line is taken for the empty one that ends the headers.  A method
  or a path without room in `request` or `url` is undefined, and nothing else is.
- `LineParsed` says which lines are read right and do not crash: those that `fgets` takes
  as they are and that have three words and a referer.  Of parts of longer lines it
  only says that they are counted.
- `Utf8RoundTrip`: what is read back below 128 is the byte, not its code point.  With a
  table that gives a byte from 128 on a code point below it, the output is no UTF-8,
  and the property says nothing of it.
- `RightPlace` asks for the place whose number is the `int` that is left of 64 bits.
- `StatsTrue`: NULL is 0 for pgsql, and a crash for mysql, which has no other cause.
- `FatalLast` is about `ml_fatal_write`; `ml_write` with `LL_FATAL` writes a record like others.
- `TopIsLargest` and `RefsCounted` leave out the first and the last unit in the
  sorted order, which the loops treat differently (see `LargestListed`).  Between them
  `TopIsLargest` names every reason for which a url is left out; one of them is that
  its name begins the url listed last (section 6).

- `PointAfterChance` fails as soon as `MAXBALLSPEED` exceeds the widths of ball and
  paddle together by a pixel: then the ball may pass a paddle between two frames.
- The second half of `InField` has no guard in the code: the second player aims with
  `position.y + position.y/2`, not with the middle of the paddle, and only therefore
  stops before the lower side.  Aiming with the middle makes it leave the field.

## 4. Fairness

Only what the kernel's scheduler gives is assumed: weak fairness of the main
thread and of every server thread (`FsizeInfo`), of master and of every worker
process (`FtpServ`), of main and of every thread (`LogStat`, `HttpServ`), of the loop
(`PingPong`) and of the parser (`Toml`), which are single threads that wait for nothing.  A step is
enabled exactly when the call it stands for would not block.  Weak fairness is
enough: no actor's step is enabled and disabled for ever except at the mutex,
where every holder leaves after a bounded number of its own steps and main comes
back only with a new event, of which the bounded file makes finitely many (a file
written for ever would need a fair mutex).
Nothing is assumed of clients, writers, signals, the clock or failing calls: they
may happen at any moment or never.  A leads-to is therefore stated with what the
environment may do as its alternative.

## 5. Proofs

All theorems are checked by TLAPS and hold for all values of the constants that
satisfy the modules' named assumptions.  These say that buffer sizes are positive,
names of threads distinct and bounds natural numbers; that the field of the game
fits its paddles and speeds (`PingPong`); that a top has room for more than one
line and `strncmp` finds that a name begins with itself (`TopAssumption`); that a
column holds ints (`ColumnAssumption`); that in a log the words of a request and the
size have no quotes, spaces and ends of line, that a size is not empty, as no server
writes one, and that a referer may have spaces only (`LineAssumption`, for strings of
any length that `fgets` may take); that of a
request methods and paths are words and headers are one line each (`RequestAssumption`,
for words and buffers of any length; a line that begins with CR is the empty one to the
program); that files are put together from the pieces `Detector` names: signatures,
bytes that are neither a `K` nor part of a marker, and headers with names of any length
from 0 to 65535 without a byte 255 (`PieceAssumption`); that bytes are bytes and the
code points of a code page have four hexadecimal digits, as `read_code_table` reads no
more, any of them for any byte (`TextAssumption`); that the files of a transfer and the
program built are not hidden (`HiddenAssumption`); and that no type of a
value is written like the mark of a mixed array (`TomlAssumption`: `valtype` returns
letters of its own).  Nothing is assumed of what the programs do.

### Programs with threads and processes

**FsizeInfoProofs** (any number of servers, clients, inodes, writes).

- `TypeCorrect`: `Spec => []TypeOK`, through `TypeInv`, which adds that an inode is
  open wherever the code uses `fp`.
- `RepliesWhole`: `Spec => []NoTornReply`.  `NoTornReply` is not inductive: a reply is
  whole because the copy was, the copy because the word did not change while it
  was taken, the word because only the holder of the mutex touches it.  The
  inductive invariant says all three: `MutexInv` (whoever is in a critical section
  holds the mutex) and `WholeInv` (the word is in two pieces only between main's two
  stores, a copy only between a server's two loads).
- `SizeNeverGoesBack`: `Spec => MonotoneSize`.  `SampleInv` strengthens `WordInv`: the name
  leads to the newest inode, so that what is opened next and what has just been
  sampled is not older than what is published; `PastStays` says that time only adds
  to the past.
- `NoUpdateLost`: `Spec => []NoLostUpdate`, from an invariant on every point of the
  loop: what main holds is the present size, or an event is still to come, or the
  change was unwatched.
- `RegisterImplemented`: `Spec => ImplementsRegister`, step by step.  `RegisterInv` adds
  to the above that a client is with one server and has its reply only when it is
  with none (`PlaceInv`), that no server runs before a first size is stored
  (`StoredInv`) and that what is sent is a copy that was taken (`CopyInv`).  The
  abstract register changes at the second of main's two stores and is read at the
  second of a server's two loads; all other steps are stutters.

**FtpServProofs** (any number of workers, clients, descriptors and commands).

- `TypeCorrect` rests on `TypeInv`: that `leaked` keeps below `MaxFds` is not seen from
  `TypeOK`, only from `UsedInv` (no worker has more descriptors than it may), which
  needs the cardinality lemma `Ports` for the sockets of PASV.
- `ToldStaysTrue`: `ToldIsTrue` is inductive (`ToldStep`).  PWD tells of a directory only
  where it has a name, CWD moves both; LIST moves the worker alone, and only out of
  a directory that has lost its name at some moment of the command, of which the
  property no longer speaks.
- `PoolEnds`: `PoolInv` adds that nobody waits before all are forked, that who is not
  forked is in no state, and that a dead worker has either left by itself or was
  killed by the handler, which ends the master; `WorkerStep` says once for all
  commands that a worker changes no other's state and ends only by `exit`.
- `InStep`: `Spec => []LockStep`.  Replies and commands can only be compared for a
  client that is in one place, so `LockInv` says that too: with one worker at most
  (`OneWorker`), once in the backlog (`QueueOnce`) and then with no worker (`QueueFree`).
  `NoneAhead` counts the command in the inbox, `QueuedInv` and `WaitingInv` give the exact
  balance of a client that waits for every reply, and `SkippedInv` says that one that is
  `skipped` has sent a command.

**HttpServProofs** (any number of threads, clients and descriptors).

- `TypeCorrect`, with `HandInv`: where the code uses the descriptor in hand there is one.
- `FdsNeverShared`: `Spec => []FdsAccounted`, from `HeldInv` (a descriptor is open exactly
  while one thread holds it, and events refer to what their thread holds) and
  `IdleInv` (between connections a thread has none in hand, and `epoll_wait` finds an
  empty array).
- `OneAnswerPerRequest`: `Spec => []AnswersWholeRequests`, from `ClientInv`: a client is not
  yet connected, once in the backlog, behind one descriptor, or gone, and has been
  answered only where its thread is about to close.  `ReplyIsToWhole` says of a thread
  that is about to reply what the property says of the answer, the last LF included.
- `NoEdgeLost`: `Spec => []ReadyNotForgotten`.  With the two invariants above it is
  inductive: `NothingForgotten` reduces each action to what it takes from the ready
  list, the array and the hand.
- `WakeupForEach`: `Spec => []WakeupPerConnection`: as long as no two arrivals became
  one event, every thread that has started has a wake-up for each connection.

**HttpReqProofs** (any file sizes).  `Inv` says for every call of `http_req` what it
may rely on although the file system changes under it: what the result of
`file_attr` tells of the nodes that were `seen` (`AttrInv`), what it still tells of the
file if nobody has changed it since (`QuietInv`), and which results lead on to `open`
and to a response (`PathInv`); each of them with a failing call as its alternative.
Theorems, also for any limit of `sendfile`: `TypeCorrect`, `ErrorsAreJustified`, `BodyIsRight`.

**LogStatProofs** (any number of threads and files).  `Dealt` says what the round
robin has done: the first `thcount` files go one to each thread, and no file to a
thread that will not exist, which survives the cut of `thcount` to the number of
files because no file goes to a thread with a number above its own.  `ThreadInv`
ties the index of a thread to which of its files are filled in.  Theorems:
`TypeCorrect` (indexes stay inside the tables), `NoFileShared`,
`EveryFileCounted`, `NoThreadIdle`.

**PingPongProofs** (any field, paddles and speeds that fit: `SpeedsFit`, `FieldFits` and
`SecondFits`, all true of `defs.h`, `stage.c` and `util.c`).  `Inv` says where the ball was
before the last move (`FieldInv`), that a ball flying towards a paddle it was not
level with is in front of it (`FrontInv`), and that the second paddle is a whole
number of steps from the top (`StepsInv`; without it a last step could lead above
the top).  `WholeBounds` is the lemma about rounding everything rests on,
`SecondStays` the argument about the second player, `PassInv` that no ball jumps.
Theorems: `TypeCorrect`, `StaysInField`, `NoJump`, `KeysMove`.

### The programs of the bench

**ProgramsProofs** proves theorems of `Programs`, so that they are about the
specification the run checks.  `Apart` says once that a step of one program leaves
the others where they are; then each program is on its own.

- `LogKept` (`FatalLast`): `LogInv` balances what was logged against file and buffer,
  `logged = disk \o buffer` while the program lives, and says that the record of
  `ml_fatal_write` is the last one of an exited program.
- `BuildsAreFresh` (`FreshBuild`) and `HostStaysTidy` (`HostKept`), for any number of users,
  runs, files and faults.  `Fresh(b)` says what must be true of archive and host at each
  step of a run that nothing disturbs, whatever disturbed runs have left there: in
  particular that a *file* named `work_dir` can only be found, never be made by such a
  run.  `HiddenStay` says that no hidden file of a user is ever packed.  `Orderly` says
  which files of the transfer exist at which step while no run has failed or met
  another, and that only a `clean` that began in `vain` runs in the home directory.
- `TopsAreLargest` (`TopIsLargest`): `Walked` divides the sorted array into what is still
  ahead and what has been passed, and says that what was passed is in the top or its
  name begins that of a listed one as large; the order of the array does the rest.
- `RefsAreCounted` (`RefsCounted`): `RefInv` says that of the units of a name that were seen
  one carries the sum, namely `asu1` until another name follows.  The property sums
  with `MapThenSumSet`, which takes a set's elements in an order nobody knows;
  `Totals` describes a sum that is the same in any order, and `Iterates` relates both.
- `StatsAreTrue` (`StatsTrue`): both handlers, which compute in different orders, agree
  with the column's statistics in ints that wrap.  `ColumnInv` keeps the extremes, the
  wrapped sum, and the sum of squares multiplied out; the same sums as above.  `NullInv`
  says that mysql's handler is behind no NULL, and crashes at one only.
- `PlaceIsRight` (`RightPlace`), for numbers of any size: `PlaceInv` says that the number in
  use is the narrowed one of the only place of the answer, `NumberOf` that it is the value of
  the key itself where no other key begins like it.
- `LinesAreParsed` (`LineParsed`), for words of any length: `Holds` says where in a text a
  part of it is, `LineText` and `Words` where the parts of a line and of a request are,
  and each search by `strchr` is shown to end at the one place it should (`Finds`,
  `UrlOf`, `ParsedRight`), for which the letters in between must not be the one that is
  sought.  `LineInv` counts strings and units, and says that each unit is one that its
  string is parsed to, and that a crash has a string which is parsed to none.
- `RequestsAreRead` (`RequestRead`), for methods, paths, headers and buffers of any length:
  `Layout` says where the lines of a request are in what a client sends, by the places
  (`mark`) where each ends.  `Progress` is the invariant: what is left in the socket is
  the text from one of these places on, or nothing, and the buffer does not begin
  with an end of line.  A step of `recv_line` is then shown to find the next place, or the
  end of the stream in front of it (`FirstReads`, `HeaderReads`), when what the buffer has
  from before completes the line: only its first letter matters, which is why a
  stream that ends early cannot pass for one with an empty line.
- `SignsAreCounted` (`ScanRight`), for files of any number of pieces, names of any length
  and a buffer for names of any size: `Offsets` says where
  each piece ends, `ScanAt` that `d` bytes of the piece behind the first `m` have been
  read, that the counters are right for those `m`, and what of a signature the register
  holds (`JpegAt`, `Register`).  It need not be more exact: `RegisterShifts` shows that of
  every other register only the second byte must not be a `K`, and `JpegReads` that
  it must not be 255.  `CentralReads` takes a header with its name at once to the end of
  its piece, so that a name like a signature is never shifted through, or to
  `"undefined"` if it is too long.
- `TextsComeBack` (`Utf8RoundTrip`), for any code page, input and code points, where the
  output is UTF-8 at all: `Encodes`
  says when bytes stand for a code point: the first one announces how many there are,
  the others have the mark of a continuation, and what their bits are shifted to
  (`Shifts`) is the code point.  Both encoders write such bytes (`Encoded`, `UcsEncoded`, from
  the groups of six bits of `Groups` and `SpreadEncodes`), and the decoder takes them
  from the front of any text, whatever is behind them (`Decodes`).  `Spelled` is the
  invariant: the output is, place by place, what stands for the code points so far, and
  such a text is decoded to them, by induction from its end (`SpelledDecodes`).
- `TransferTypeCorrect`, `BytesAccounted` (`Accounted`), `TransferReplyMeans` (`ReplyMeans`),
  for any buffer, file size and width of `int`: `Sent` is the balance of bytes, sent + to
  be sent = asked for, offset = sent + lost + in hand, and without appends no more
  can be read than was asked for.  Lemmas about `%` say what the wrapped result can be.

### The TOML parser

**TomlProofs** (any keys, types of values, path length and text).  `TreeInv` is one
invariant of token, tree and call stack.

- *The tree* (`Sound`, `Well`).  A key has one entry in a table; an entry leads to what
  exists, and to a table younger than its own, also through an array, so that
  there are no circles; no array is under two names (`Once`); what an array says of its
  items is true (`Claims`), and one that says anything is not empty.
- *The calls* (`StackOK`).  Every call has a table or an array that there is;
  `toml_parse` is the outermost one; `parse_select` is called by it alone.
- *The current table* (`Reaches`).  The path of the last header leads to it through
  tables that exist, each older than the next, and through no array that a call in
  progress may still append to: `walk_tabpath` takes the *last* table of an array, so
  that an append would turn the path elsewhere.

Each function that changes the tree has a lemma (`MadeKeyval`, `MadeKeytable`,
`MadeKeyarray`, `AddedValue`, `ArrayInArray`, `TableInArray`, `SelectedTable`, `SelectedArray`), as
has each action.  `walk_tabpath` and `Found` are folds of the community modules, whose
definition goes through sets of indices; `FoldExists` shows by induction that such a
fold is the last value of an iteration, and `WalkIterates` and `FindIterates` apply that
to both.  The induction over the natural numbers is `Inductive`, from the
well-foundedness of their order (`WFMin` of the library), for sets and without an
operator as parameter.  Theorems: `TreeSound`, `NamesAreSound`, `ArraysAreTrue`,
`HeaderAlwaysHolds`.

### What is only model-checked

- Liveness: `EveryClientAnswered`, `TracksWatchedFile`, `QueuedWelcomed`, `Terminates`,
  `RequestServed`, `BallReturns`, `ParseEnds`.  It rests on fairness and on `ENABLED`, which are
  out of the prover's reach.
- Recursive *operators*; the modules with theorems use recursive functions and folds.

The other way round, `NoIdleThread`, `PlayerMoves`, the type invariants, `TreeInv` and the
other inductive invariants are proved and in no run.

## 6. Where code and documentation disagree

- `ftp_passive`: `ftp.h:31` and `ftp.c:189` say that the passive socket is accepted
  later.  The worker forgets it before the next command, so LIST and RETR end the
  worker.
- `log_top_largest`: `main.c:155` and the heading printed at `main.c:278` announce the
  top urls by bytes.  The loop starts at the last but one.
- `rbuilder_hidden`: `src/project/README.md:16` says that all files and directories of the
  current directory are transferred to the work directory.  `./*` (`main.c:43`) stands
  for no hidden one.

Not contradictions between the code and what is said of it, or not ones a run
states, but worth knowing:

- `fsize_info` samples the size (`main.c:211`) before it attaches the watch
  (`main.c:242`); a write in between raises no event, and the published size stays
  behind until the next write.  `NoLostUpdate` and `TracksWatchedFile` name this as a
  change that no watch covered.
- `toml.c:293` says of `readonly` "no more modification allowed", which `parse_keyval`
  respects and the headers do not: after `a = {}` a header `[a.b]` adds to `a`.
- jpeg_zip_detector begins its search for a zip where the first EOI was, so that it
  counts the rest of a jpeg with a thumbnail in it as the archive's; and the size it
  prints is wrong when the file ends within a header or a name.
- logstat's "Top 10 refs summary" prints the first line before the loop that counts to
  ten.
- rbuilder: `rm -r ./*` leaves hidden files of an earlier build; `rm -r ./temp*` of its
  cleaning up takes the user's own files with such names along; a `clean` without a
  work directory runs the clean commands in the home directory (`main.c:38,105`).
- ftp_serv answers RETR of an empty file, transferred whole, with `550 Failed to read
  file.` (`ftp.c:339`), and a `read` that does fail with nothing.
- http_serv: `request[8]` and `url[256]` (`http.c:101-109`) are filled whatever the words'
  lengths; an `open` that fails for want of descriptors is a 404 (`http.c:155`).
- logstat: the comment at `main.c:163`, "First or new url", is not what `strncmp` with the
  length of the looked-at url tests: a url that begins the one listed last is taken
  for it, and a smaller one listed in its place.
- utf8_encoder writes a byte whose code point is below 128 as it is (`main.c:88-89`),
  which is another character in code pages that do not agree with ASCII there
  (EBCDIC, GSM 03.38).
- jpeg_zip_detector reads a name of up to 65535 bytes into `buff[256]` (`main.c:107`).
- get_weather keeps the number of a place in an `int` (`main.c:43`).
- mylog: `src/hw05/README.md` has FATAL print the record and end the program; `ml_write`
  takes `LL_FATAL` as well (`mylog.h:19-47`) and goes on.
- statdb: a NULL in the column counts as 0 in `pgsql_handle` and ends `mysql_handle` in
  `atoi(NULL)` (`main.c:132,135,145`).

## 7. What is not modelled

- The text of commands, replies and configurations: only what the control flow
  distinguishes.  Of log lines and HTTP requests the text is there where it is
  parsed (`LogLine`, `HttpLine`), and its outcomes elsewhere.
- ftp_serv: the contents of a listing; SIGPIPE in a worker; what `kill(-1)` after a
  failed `fork` does to other programs.  That a second PASV in the same second ends a
  worker is modelled, but no property is about it.
- fsize_info: of `daemonize` the process that goes on; signals from outside other
  than SIGPIPE; overflow of the inotify queue.
- http_serv: the table of content types; a client that does not read what it is sent
  (a write would block); the room that `strcat` of `/index.html` needs (`http.c:145`).
  What follows an overrun buffer, here and in jpeg_zip_detector, is undefined: the
  models stop there.
- logstat: the summary of the urls, which is the loop of a file's urls on another
  array.
- pingpong: drawing, sound, fonts (a texture per frame is never freed), the frame rate,
  rounding of `float` beyond the grid of the model.
- toml.c: the syntax of values (numbers, dates, escapes in strings) and the look-ups
  after parsing, which are conversions and searches without state; failing
  allocations.
- rbuilder: of `read_conf` only which lists are empty.
- get_weather: what is printed of the weather.
- crc32 (`hw09`): one pass over a mapped file; the checksum is a pure function given by
  256 constants, which a smaller width would replace by other ones.
- The clib patch (`hw06`): the program it patches is not here.  3dcube (`hw13`): OpenGL
  calls with one angle as state.

## 8. Plan

1. A *server of sessions* (each connection gets at most one response for a request, in
   order) as an abstract specification that both `HttpServ` and `FtpServ` implement.

------------------------------ MODULE LogStat ------------------------------
(***************************************************************************)
(* logstat (src/hw10/main.c): main deals the log files out to threads, the *)
(* threads fill in the statistics of their files without any lock, main    *)
(* joins them and merges what they found.  What a thread does with one     *)
(* file is the subject of LogTop.                                          *)
(***************************************************************************)
EXTENDS Naturals

CONSTANTS
    MAX_LOG_FILES,
    MaxThreads,     \* bound: the number of threads asked for
    MaxEntries      \* bound: files in the directory

ASSUME SizesAreNat == {MAX_LOG_FILES, MaxThreads, MaxEntries} \subseteq Nat /\ MAX_LOG_FILES > 0

Files   == 0 .. MAX_LOG_FILES - 1
Threads == 0 .. MaxThreads - 1

VARIABLES
    mpc,       \* main: "scan", "create", "join", "show", "done", or "crashed"
    asked,     \* the number of threads asked for
    entries,   \* files still to be read from the directory
    thcount,
    i, j,      \* main's loop variables
    size,      \* lstats_size
    ptid,      \* [Files -> lstats[].ptid]
    tpc,       \* [Threads -> "none", "loop", "parse" or "end"]
    it,        \* [Threads -> the loop variable of parse_func]
    filled     \* [Files -> how often its statistics have been filled in]

mainVars   == <<asked, entries, thcount, i, j, size, ptid>>
threadVars == <<tpc, it, filled>>
vars       == <<mpc, mainVars, threadVars>>

TypeOK ==
    /\ mpc \in {"scan", "create", "join", "show", "done", "crashed"}
    /\ asked \in 0 .. MaxThreads /\ entries \in 0 .. MaxEntries
    /\ thcount \in 0 .. MaxThreads
    /\ i \in 0 .. MAX_LOG_FILES
    /\ j \in 0 .. MaxThreads /\ size \in 0 .. MAX_LOG_FILES
    /\ ptid \in [Files -> 0 .. MaxThreads]
    /\ tpc \in [Threads -> {"none", "loop", "parse", "end"}]
    /\ it \in [Threads -> 0 .. MAX_LOG_FILES]
    /\ filled \in [Files -> Nat]

Init ==
    /\ mpc = "scan" /\ asked \in 0 .. MaxThreads /\ thcount = asked
    /\ entries \in 0 .. MaxEntries
    /\ i = 0 /\ j = 0 /\ size = 0
    /\ ptid = [f \in Files |-> 0]
    /\ tpc = [t \in Threads |-> "none"] /\ it = [t \in Threads |-> 0]
    /\ filled = [f \in Files |-> 0]

----------------------------------------------------------------------------
(* main *)

\* Variant: the index starts over one file too late.
AddFileLate ==
    /\ mpc = "scan" /\ entries > 0 /\ i < MAX_LOG_FILES
    /\ ptid' = [ptid EXCEPT ![i] = j]
    /\ j' = IF j + 1 > thcount THEN 0 ELSE j + 1
    /\ i' = i + 1 /\ entries' = entries - 1
    /\ UNCHANGED <<mpc, asked, thcount, size, threadVars>>

\* One turn of the loop over the directory.
AddFile ==
    /\ mpc = "scan" /\ entries > 0 /\ i < MAX_LOG_FILES
    /\ ptid' = [ptid EXCEPT ![i] = j]
    /\ j' = IF j + 1 >= thcount THEN 0 ELSE j + 1
    /\ i' = i + 1 /\ entries' = entries - 1
    /\ UNCHANGED <<mpc, asked, thcount, size, threadVars>>

\* "threads need <= files", and the number of files goes to every thread.
EndScan ==
    /\ mpc = "scan" /\ (entries = 0 \/ i = MAX_LOG_FILES)
    /\ mpc' = "create" /\ size' = i /\ i' = 0
    /\ thcount' = IF thcount > i THEN i ELSE thcount
    /\ UNCHANGED <<asked, entries, j, ptid, threadVars>>

Create ==
    \/ /\ mpc = "create" /\ i < thcount
       /\ tpc' = [tpc EXCEPT ![i] = "loop"]
       /\ i' = i + 1
       /\ UNCHANGED <<mpc, asked, entries, thcount, j, size, ptid, it, filled>>
    \/ /\ mpc = "create" /\ i = thcount
       /\ mpc' = "join" /\ i' = 0
       /\ UNCHANGED <<asked, entries, thcount, j, size, ptid, threadVars>>

\* Variant: the last thread is not waited for.
JoinAllButOne ==
    \/ /\ mpc = "join" /\ i + 1 < thcount /\ tpc[i] = "end"
       /\ i' = i + 1
       /\ UNCHANGED <<mpc, asked, entries, thcount, j, size, ptid, threadVars>>
    \/ /\ mpc = "join" /\ i + 1 >= thcount
       /\ mpc' = "show" /\ i' = 0
       /\ UNCHANGED <<asked, entries, thcount, j, size, ptid, threadVars>>

Join ==
    \/ /\ mpc = "join" /\ i < thcount /\ tpc[i] = "end"
       /\ i' = i + 1
       /\ UNCHANGED <<mpc, asked, entries, thcount, j, size, ptid, threadVars>>
    \/ /\ mpc = "join" /\ i = thcount
       /\ mpc' = "show" /\ i' = 0
       /\ UNCHANGED <<asked, entries, thcount, j, size, ptid, threadVars>>

\* The merge of the files' tops.  With less than two urls in all of them the
\* process crashes as a thread does.
Show ==
    /\ mpc = "show"
    /\ \/ mpc' = "done" /\ \E f \in Files : f < size /\ filled[f] > 0
       \/ mpc' = "crashed"
    /\ UNCHANGED <<mainVars, threadVars>>

----------------------------------------------------------------------------
(* parse_func *)

\* Variant: the loop does not go on over a file of another thread.
NextFileStays(t) ==
    /\ mpc # "crashed" /\ tpc[t] = "loop"
    /\ tpc' = [tpc EXCEPT ![t] = IF it[t] = size THEN "end"
                                 ELSE IF ptid[it[t]] = t THEN "parse" ELSE "loop"]
    /\ UNCHANGED <<mpc, mainVars, it, filled>>

\* The loop test, and the test of ptid.
NextFile(t) ==
    /\ mpc # "crashed" /\ tpc[t] = "loop"
    /\ IF it[t] = size
         THEN tpc' = [tpc EXCEPT ![t] = "end"] /\ UNCHANGED it
         ELSE IF ptid[it[t]] = t
                THEN tpc' = [tpc EXCEPT ![t] = "parse"] /\ UNCHANGED it
                ELSE it' = [it EXCEPT ![t] = @ + 1] /\ UNCHANGED tpc
    /\ UNCHANGED <<mpc, mainVars, filled>>

\* The statistics of one file are filled in, or left empty when it cannot be
\* opened.  With fewer than two lines to parse the process crashes (LogTop).
Parse(t) ==
    /\ mpc # "crashed" /\ tpc[t] = "parse"
    /\ \/ /\ tpc' = [tpc EXCEPT ![t] = "loop"]
          /\ filled' = [filled EXCEPT ![it[t]] = @ + 1]
          /\ it' = [it EXCEPT ![t] = @ + 1]
          /\ UNCHANGED mpc
       \/ mpc' = "crashed" /\ UNCHANGED threadVars
    /\ UNCHANGED mainVars

Main      == AddFile \/ EndScan \/ Create \/ Join \/ Show
Thread(t) == NextFile(t) \/ Parse(t)

Next == Main \/ \E t \in Threads : Thread(t)

Spec == Init /\ [][Next]_vars

\* Main and the threads are scheduled; nothing outside can hold them up.
FairSpec == Spec /\ WF_vars(Main) /\ \A t \in Threads : WF_vars(Thread(t))

----------------------------------------------------------------------------
(* Properties. *)

\* The threads need no lock: no file is ever in the hands of two of them, and
\* main does not read the statistics while one is being filled in.
NoSharedFile ==
    /\ \A s, t \in Threads :
         s # t /\ tpc[s] = "parse" /\ tpc[t] = "parse" => it[s] # it[t]
    /\ mpc \in {"show", "done"} => \A t \in Threads : tpc[t] \in {"none", "end"}

\* What is shown covers every file once, provided a thread was asked for.
EveryFileOnce ==
    mpc \in {"show", "done"} /\ asked > 0 => \A f \in Files : f < size => filled[f] = 1

\* main.c:258, "threads need <= files": no thread is created without a file.
NoIdleThread ==
    \A t \in Threads : tpc[t] # "none" => \E f \in Files : f < size /\ ptid[f] = t

\* The program ends, by itself or in a crash.
Terminates == <>(mpc \in {"done", "crashed"})

=============================================================================

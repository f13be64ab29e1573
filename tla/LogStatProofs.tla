--------------------------- MODULE LogStatProofs ---------------------------
(***************************************************************************)
(* Proofs about LogStat, for any number of files and of threads.           *)
(***************************************************************************)
EXTENDS LogStat, TLAPS

LEMMA Constants == MAX_LOG_FILES \in Nat \ {0} /\ MaxThreads \in Nat /\ MaxEntries \in Nat
  BY SizesAreNat

----------------------------------------------------------------------------
(* The inductive invariant. *)

\* Of the first n files, the first ones go to the threads in turn, and no file
\* goes to a thread that will not exist.
Dealt(n) ==
    \A f \in Files : f < n =>
        /\ ptid[f] <= f
        /\ asked > 0 => ptid[f] < thcount
        /\ f < thcount => ptid[f] = f

\* While main reads the directory there is no thread; then the table of files
\* no longer changes.
MainInv ==
    /\ thcount <= asked
    /\ mpc = "scan" =>
         /\ thcount = asked /\ size = 0 /\ Dealt(i) /\ j <= i
         /\ i < thcount => j = i
         /\ asked > 0 => j < thcount
         /\ \A f \in Files : filled[f] = 0
         /\ \A t \in Threads : tpc[t] = "none"
    /\ mpc # "scan" => thcount <= size /\ Dealt(size)
    /\ mpc = "create" => i <= thcount /\ \A t \in Threads : t < i <=> tpc[t] # "none"
    /\ mpc = "join" => i <= thcount /\ \A t \in Threads : /\ t < thcount => tpc[t] # "none"
                                                          /\ t < i => tpc[t] = "end"
    /\ mpc \in {"show", "done"} => \A t \in Threads : t < thcount => tpc[t] = "end"

\* Where a thread is tells which of its files are filled in.
ThreadInv(t) ==
    /\ tpc[t] = "none" => it[t] = 0
    /\ tpc[t] # "none" => t < thcount
    /\ it[t] <= size
    /\ tpc[t] = "parse" => it[t] < size /\ ptid[it[t]] = t
    /\ tpc[t] = "end" => it[t] = size
    /\ \A f \in Files : f < size /\ ptid[f] = t => filled[f] = (IF f < it[t] THEN 1 ELSE 0)

Inv == TypeOK /\ MainInv /\ \A t \in Threads : ThreadInv(t)

LEMMA InitInv == Init => Inv
  <1> SUFFICES ASSUME Init PROVE Inv
    OBVIOUS
  <1> USE Constants DEF Init, Files, Threads
  <1>1. TypeOK
    BY DEF TypeOK
  <1>2. MainInv
    BY DEF MainInv, Dealt
  <1>3. \A t \in Threads : ThreadInv(t)
    BY DEF ThreadInv
  <1> QED  BY <1>1, <1>2, <1>3 DEF Inv

LEMMA AddFileInv == Inv /\ AddFile => Inv'
  <1> SUFFICES ASSUME Inv, AddFile PROVE Inv'
    OBVIOUS
  <1> USE Constants DEF Inv, TypeOK, Files, Threads
  <1>1. /\ i \in Files /\ i' = i + 1 /\ j \in 0 .. MaxThreads
        /\ thcount = asked /\ size = 0 /\ Dealt(i) /\ j <= i
        /\ (i < thcount => j = i) /\ (asked > 0 => j < thcount)
    BY DEF AddFile, MainInv
  <1>2. /\ j' \in 0 .. MaxThreads /\ j' <= i + 1
        /\ (i + 1 < thcount => j' = i + 1) /\ (asked > 0 => j' < thcount)
    BY <1>1 DEF AddFile
  <1>3. TypeOK'
    BY <1>1, <1>2 DEF AddFile, threadVars
  <1>4. Dealt(i)'
    <2> SUFFICES ASSUME NEW f \in Files, f < i + 1
                 PROVE  /\ ptid'[f] <= f
                        /\ asked > 0 => ptid'[f] < thcount
                        /\ f < thcount => ptid'[f] = f
      BY <1>1 DEF AddFile, Dealt
    <2>1. CASE f = i
      BY <1>1, <2>1 DEF AddFile
    <2>2. CASE f < i
      BY <1>1, <2>2 DEF AddFile, Dealt
    <2> QED  BY <1>1, <2>1, <2>2
  <1>5. MainInv'
    BY <1>1, <1>2, <1>4 DEF AddFile, MainInv, threadVars
  <1>6. \A t \in Threads : ThreadInv(t)'
    BY <1>1 DEF AddFile, MainInv, ThreadInv, threadVars
  <1> QED  BY <1>3, <1>5, <1>6

LEMMA EndScanInv == Inv /\ EndScan => Inv'
  <1> SUFFICES ASSUME Inv, EndScan PROVE Inv'
    OBVIOUS
  <1> USE Constants DEF Inv, TypeOK, Files, Threads
  <1>1. /\ mpc = "scan" /\ size' = i /\ thcount = asked /\ Dealt(i) /\ thcount' <= thcount
        /\ thcount' <= i /\ i' = 0 /\ (thcount' = thcount \/ thcount' = i)
    BY DEF EndScan, MainInv
  <1>2. TypeOK'
    BY <1>1 DEF EndScan, threadVars
  <1>3. Dealt(size)'
    BY <1>1 DEF EndScan, Dealt
  <1>4. MainInv'
    BY <1>1, <1>3 DEF EndScan, MainInv, threadVars
  <1>5. \A t \in Threads : ThreadInv(t)'
    BY <1>1 DEF EndScan, MainInv, ThreadInv, threadVars
  <1> QED  BY <1>2, <1>4, <1>5

LEMMA CreateInv == Inv /\ Create => Inv'
  <1> SUFFICES ASSUME Inv, Create PROVE Inv'
    OBVIOUS
  <1> USE Constants DEF Inv, TypeOK, Files, Threads
  <1>1. CASE mpc' = "create"
    <2>1. /\ i \in Threads /\ i < thcount /\ i' = i + 1 /\ tpc[i] = "none"
          /\ tpc' = [tpc EXCEPT ![i] = "loop"]
          /\ i' \in 0 .. MAX_LOG_FILES
      BY <1>1 DEF Create, MainInv
    <2>2. TypeOK'
      BY <1>1, <2>1 DEF Create
    <2>3. Dealt(size)'
      BY <1>1, <2>1 DEF Create, MainInv, Dealt
    <2>4. MainInv'
      BY <1>1, <2>1, <2>3 DEF Create, MainInv
    <2>5. \A t \in Threads : ThreadInv(t)'
      BY <1>1, <2>1 DEF Create, ThreadInv
    <2> QED  BY <2>2, <2>4, <2>5
  <1>2. CASE mpc' = "join"
    <2>1. /\ i = thcount /\ i' = 0 /\ mpc = "create"
          /\ UNCHANGED <<asked, entries, thcount, j, size, ptid, tpc, it, filled>>
      BY <1>2 DEF Create, threadVars
    <2>2. TypeOK'
      BY <1>2, <2>1
    <2>3. Dealt(size)'
      BY <2>1 DEF MainInv, Dealt
    <2>4. MainInv'
      BY <1>2, <2>1, <2>3 DEF MainInv
    <2>5. \A t \in Threads : ThreadInv(t)'
      BY <2>1 DEF ThreadInv
    <2> QED  BY <2>2, <2>4, <2>5
  <1> QED  BY <1>1, <1>2 DEF Create

LEMMA JoinInv == Inv /\ Join => Inv'
  <1> SUFFICES ASSUME Inv, Join PROVE Inv'
    OBVIOUS
  <1> USE Constants DEF Inv, TypeOK, Files, Threads
  <1>1. /\ mpc = "join" /\ mpc' \in {"join", "show"} /\ i' \in 0 .. MAX_LOG_FILES
        /\ UNCHANGED <<asked, entries, thcount, j, size, ptid, tpc, it, filled>>
    BY DEF Join, MainInv, threadVars
  <1>2. TypeOK'
    BY <1>1
  <1>3. Dealt(size)'
    BY <1>1 DEF MainInv, Dealt
  <1>4. MainInv'
    BY <1>1, <1>3 DEF Join, MainInv
  <1>5. \A t \in Threads : ThreadInv(t)'
    BY <1>1 DEF ThreadInv
  <1> QED  BY <1>2, <1>4, <1>5

LEMMA ShowInv == Inv /\ Show => Inv'
  <1> SUFFICES ASSUME Inv, Show PROVE Inv'
    OBVIOUS
  <1> USE Constants DEF Inv, TypeOK, Files, Threads
  <1>1. /\ mpc = "show" /\ mpc' \in {"done", "crashed"}
        /\ UNCHANGED <<asked, entries, thcount, i, j, size, ptid, tpc, it, filled>>
    BY DEF Show, mainVars, threadVars
  <1>2. TypeOK'
    BY <1>1
  <1>3. Dealt(size)'
    BY <1>1 DEF MainInv, Dealt
  <1>4. MainInv'
    BY <1>1, <1>3 DEF MainInv
  <1>5. \A t \in Threads : ThreadInv(t)'
    BY <1>1 DEF ThreadInv
  <1> QED  BY <1>2, <1>4, <1>5

LEMMA NextFileInv ==
    ASSUME Inv, NEW t \in Threads, NextFile(t) PROVE Inv'
  <1> USE Constants DEF Inv, TypeOK, Files, Threads
  <1>1. /\ tpc[t] = "loop" /\ it[t] <= size /\ t < thcount
        /\ UNCHANGED <<mpc, asked, entries, thcount, i, j, size, ptid, filled>>
    BY DEF NextFile, mainVars, ThreadInv
  <1>2. \/ /\ it[t] = size /\ it' = it /\ tpc' = [tpc EXCEPT ![t] = "end"]
        \/ /\ it[t] < size /\ ptid[it[t]] = t
           /\ it' = it /\ tpc' = [tpc EXCEPT ![t] = "parse"]
        \/ /\ it[t] < size /\ ptid[it[t]] # t
           /\ it' = [it EXCEPT ![t] = it[t] + 1] /\ tpc' = tpc
    BY <1>1 DEF NextFile
  <1>3. TypeOK'
    <2>1. tpc' \in [Threads -> {"none", "loop", "parse", "end"}]
      BY <1>2
    <2>2. it' \in [Threads -> 0 .. MAX_LOG_FILES]
      <3>1. it[t] < size => it[t] + 1 \in 0 .. MAX_LOG_FILES
        OBVIOUS
      <3> QED  BY <1>2, <3>1
    <2> QED  BY <1>1, <2>1, <2>2
  <1>4. Dealt(size)' /\ mpc # "scan"
    BY <1>1 DEF MainInv, Dealt
  <1>5. MainInv'
    BY <1>1, <1>2, <1>4 DEF MainInv
  <1>6. ASSUME NEW u \in Threads PROVE ThreadInv(u)'
    <2>1. CASE u = t
      <3>1. ASSUME NEW f \in Files, f < size, ptid[f] = t
            PROVE  filled[f] = IF f < it'[t] THEN 1 ELSE 0
        <4>1. filled[f] = IF f < it[t] THEN 1 ELSE 0
          BY <3>1 DEF ThreadInv
        <4>2. f < it'[t] <=> f < it[t]
          <5>1. CASE it' = it
            BY <5>1
          <5>2. CASE it'[t] = it[t] + 1 /\ ptid[it[t]] # t
            <6>1. f # it[t]
              BY <3>1, <5>2
            <6> QED  BY <5>2, <6>1
          <5> QED  BY <1>2, <5>1, <5>2
        <4> QED  BY <4>1, <4>2
      <3>2. CASE tpc'[t] = "end" /\ it' = it /\ it[t] = size
        BY <1>1, <2>1, <3>1, <3>2 DEF ThreadInv
      <3>3. CASE tpc'[t] = "parse" /\ it' = it /\ it[t] < size /\ ptid[it[t]] = t
        BY <1>1, <2>1, <3>1, <3>3 DEF ThreadInv
      <3>4. CASE tpc'[t] = "loop" /\ it'[t] = it[t] + 1 /\ it[t] < size
        BY <1>1, <2>1, <3>1, <3>4 DEF ThreadInv
      <3> QED  BY <1>1, <1>2, <3>2, <3>3, <3>4
    <2>2. CASE u # t
      BY <1>1, <1>2, <2>2 DEF ThreadInv
    <2> QED  BY <2>1, <2>2
  <1> QED  BY <1>3, <1>5, <1>6

LEMMA ParseInv ==
    ASSUME Inv, NEW t \in Threads, Parse(t) PROVE Inv'
  <1> USE Constants DEF Inv, TypeOK, Files, Threads
  <1>1. /\ tpc[t] = "parse" /\ it[t] \in Files /\ it[t] < size /\ t < thcount /\ ptid[it[t]] = t
        /\ UNCHANGED <<asked, entries, thcount, i, j, size, ptid>>
    BY DEF Parse, mainVars, ThreadInv
  <1>2. Dealt(size)' /\ mpc # "scan"
    BY <1>1 DEF MainInv, Dealt
  <1>3. CASE mpc' = "crashed" /\ UNCHANGED <<tpc, it, filled>>
    <2>1. TypeOK'
      BY <1>1, <1>3
    <2>2. MainInv'
      BY <1>1, <1>2, <1>3 DEF MainInv
    <2>3. \A u \in Threads : ThreadInv(u)'
      BY <1>1, <1>3 DEF ThreadInv
    <2> QED  BY <2>1, <2>2, <2>3
  <1>4. CASE /\ tpc' = [tpc EXCEPT ![t] = "loop"] /\ it' = [it EXCEPT ![t] = it[t] + 1]
             /\ filled' = [filled EXCEPT ![it[t]] = filled[it[t]] + 1] /\ mpc' = mpc
    <2>1. TypeOK'
      <3>1. it[t] + 1 \in 0 .. MAX_LOG_FILES /\ filled[it[t]] + 1 \in Nat
        BY <1>1
      <3>2. it' \in [Threads -> 0 .. MAX_LOG_FILES] /\ filled' \in [Files -> Nat]
        BY <1>4, <3>1
      <3>3. tpc' \in [Threads -> {"none", "loop", "parse", "end"}]
        BY <1>4
      <3> QED  BY <1>1, <1>4, <3>2, <3>3
    <2>2. MainInv'
      BY <1>1, <1>2, <1>4 DEF MainInv
    <2>3. ASSUME NEW u \in Threads PROVE ThreadInv(u)'
      <3>1. CASE u = t
        <4>1. ASSUME NEW f \in Files, f < size, ptid[f] = t
              PROVE  filled'[f] = IF f < it'[t] THEN 1 ELSE 0
          <5>1. CASE f = it[t]
            BY <1>1, <1>4, <4>1, <5>1 DEF ThreadInv
          <5>2. CASE f # it[t]
            BY <1>1, <1>4, <4>1, <5>2 DEF ThreadInv
          <5> QED  BY <5>1, <5>2
        <4> QED  BY <1>1, <1>4, <3>1, <4>1 DEF ThreadInv
      <3>2. CASE u # t
        BY <1>1, <1>4, <3>2 DEF ThreadInv
      <3> QED  BY <3>1, <3>2
    <2> QED  BY <2>1, <2>2, <2>3
  <1> QED  BY <1>3, <1>4 DEF Parse, threadVars

LEMMA StepInv == Inv /\ [Next]_vars => Inv'
  <1> SUFFICES ASSUME Inv, [Next]_vars PROVE Inv'
    OBVIOUS
  <1>1. CASE Main
    BY <1>1, AddFileInv, EndScanInv, CreateInv, JoinInv, ShowInv DEF Main
  <1>2. CASE \E t \in Threads : Thread(t)
    BY <1>2, NextFileInv, ParseInv DEF Thread
  <1>3. CASE UNCHANGED vars
    <2>1. UNCHANGED <<mpc, asked, entries, thcount, i, j, size, ptid, tpc, it, filled>>
      BY <1>3 DEF vars, mainVars, threadVars
    <2>2. TypeOK'
      BY <2>1 DEF Inv, TypeOK
    <2>3. Dealt(size)' /\ Dealt(i)' <=> Dealt(size) /\ Dealt(i)
      BY <2>1 DEF Dealt
    <2>4. MainInv'
      BY <2>1 DEF Inv, MainInv, Dealt
    <2>5. \A t \in Threads : ThreadInv(t)'
      BY <2>1 DEF Inv, ThreadInv
    <2> QED  BY <2>2, <2>4, <2>5 DEF Inv
  <1> QED  BY <1>1, <1>2, <1>3 DEF Next

----------------------------------------------------------------------------
(* Theorems. *)

LEMMA Invariance == Spec => []Inv
  BY InitInv, StepInv, PTL DEF Spec

\* Every variable of main and of the threads keeps its type; in particular
\* the table of files and that of threads are only used inside their bounds.
THEOREM TypeCorrect == Spec => []TypeOK
  BY Invariance, PTL DEF Inv

\* No file is in the hands of two threads, and main reads the statistics only
\* when every thread has ended: the program needs no lock.
THEOREM NoFileShared == Spec => []NoSharedFile
  <1>1. Inv => NoSharedFile
    <2> SUFFICES ASSUME Inv PROVE NoSharedFile
      OBVIOUS
    <2>1. ASSUME NEW s \in Threads, NEW t \in Threads, s # t,
                 tpc[s] = "parse", tpc[t] = "parse"
          PROVE  it[s] # it[t]
      <3>1. ptid[it[s]] = s /\ ptid[it[t]] = t
        BY <2>1 DEF Inv, ThreadInv
      <3> QED  BY <2>1, <3>1
    <2>2. ASSUME mpc \in {"show", "done"}, NEW t \in Threads
          PROVE  tpc[t] \in {"none", "end"}
      BY <2>2 DEF Inv, MainInv, ThreadInv
    <2> QED  BY <2>1, <2>2 DEF NoSharedFile
  <1> QED  BY <1>1, Invariance, PTL

\* What main shows covers every file exactly once.
THEOREM EveryFileCounted == Spec => []EveryFileOnce
  <1>1. Inv => EveryFileOnce
    <2> SUFFICES ASSUME Inv, mpc \in {"show", "done"}, asked > 0,
                        NEW f \in Files, f < size
                 PROVE  filled[f] = 1
      BY DEF EveryFileOnce
    <2>1. ptid[f] < thcount /\ ptid[f] \in Threads
      BY Constants DEF Inv, TypeOK, MainInv, Dealt, Files, Threads
    <2>2. tpc[ptid[f]] = "end"
      BY <2>1 DEF Inv, MainInv
    <2>3. it[ptid[f]] = size
      BY <2>1, <2>2 DEF Inv, ThreadInv
    <2> QED  BY <2>1, <2>3 DEF Inv, ThreadInv
  <1> QED  BY <1>1, Invariance, PTL

\* Every thread that is created has a file of its own to work on.
THEOREM NoThreadIdle == Spec => []NoIdleThread
  <1>1. Inv => NoIdleThread
    <2> SUFFICES ASSUME Inv, NEW t \in Threads, tpc[t] # "none"
                 PROVE  \E f \in Files : f < size /\ ptid[f] = t
      BY DEF NoIdleThread
    <2>1. t < thcount /\ thcount <= size /\ Dealt(size)
      BY DEF Inv, MainInv, ThreadInv
    <2>2. t \in Files /\ t < size
      BY <2>1, Constants DEF Inv, TypeOK, Files, Threads
    <2>3. ptid[t] = t
      BY <2>1, <2>2 DEF Dealt
    <2> QED  BY <2>2, <2>3
  <1> QED  BY <1>1, Invariance, PTL

=============================================================================

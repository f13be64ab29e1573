-------------------------- MODULE FsizeInfoProofs --------------------------
(***************************************************************************)
(* Proofs about FsizeInfo for any set of server threads and clients and    *)
(* any bounds.                                                             *)
(***************************************************************************)
EXTENDS FsizeInfo, TLAPS

USE ThreadsDistinct, BoundsAreNat

USE DEF fileVars, notifyVars, mainVars, servVars, netVars, MainGoto, ServGoto

----------------------------------------------------------------------------
(* Types. *)

\* fp is an open file whenever fseek and ftell use it.
FileOpen == mpc = "seek" => opened \in Inode

TypeInv == TypeOK /\ FileOpen

\* What the proofs need to know of the sizes.
LEMMA SampleFacts ==
    /\ \A i \in 0 .. MaxInodes, n \in 0 .. MaxWrites : <<i, n>> \in Sample
    /\ NoReply \in Word
    /\ \A v \in Sample : Both(v) \in Word
    /\ \A w \in Word, v \in Sample : /\ [w EXCEPT !.hi = v] \in Word
                                     /\ [w EXCEPT !.lo = v] \in Word
    /\ \A w \in Word : w.hi \in Sample /\ w.lo \in Sample
<1>1. \A i \in 0 .. MaxInodes, n \in 0 .. MaxWrites : <<i, n>> \in Sample
  BY DEF Sample
<1>2. \A v \in Sample : Both(v) \in Word
  BY DEF Both, Word
<1>3. NoReply \in Word
  BY <1>1, <1>2 DEF NoReply, Unsampled, NoFile
<1>4. \A w \in Word, v \in Sample : /\ [w EXCEPT !.hi = v] \in Word
                                    /\ [w EXCEPT !.lo = v] \in Word
  BY DEF Word
<1>5. \A w \in Word : w.hi \in Sample /\ w.lo \in Sample
  BY DEF Word
<1>6. QED BY <1>1, <1>2, <1>3, <1>4, <1>5

LEMMA InitTypes == Init => TypeInv
<1> SUFFICES ASSUME Init PROVE TypeInv
  OBVIOUS
<1>1. sampled \in Sample /\ cur \in Word /\ str \in [Servers -> Word]
      /\ reply \in [Clients -> Word]
  BY SampleFacts DEF Init, NoReply, Unsampled, NoFile
<1>2. path \in 0 .. MaxInodes /\ born \in 0 .. MaxInodes /\ files \subseteq Inode
  BY DEF Init, Inode
<1>3. writes \in [Inode -> 0 .. MaxWrites]
  BY DEF Init
<1>4. spc \in [Servers -> ServPoints] /\ mpc \in MainPoints /\ mpc # "seek"
  BY DEF Init, ServPoints, MainPoints
<1>5. watch \in 0 .. MaxInodes /\ opened \in 0 .. MaxInodes
  BY DEF Init, NoFile
<1>6. alive \in BOOLEAN /\ missed \in BOOLEAN
  BY DEF Init
<1>7. peer \in [Servers -> Clients \cup {NoOne}] /\ queued \in [Servers -> SUBSET Clients]
  BY DEF Init
<1>8. /\ queue \subseteq {"modify", "ignored"} /\ batch \subseteq {"modify", "ignored"}
      /\ ret \in {"spawn", "event"} /\ enabled \subseteq Servers
      /\ lock \in Servers \cup {Main, NoOne} /\ hung \subseteq Clients
  BY DEF Init
<1>9. QED BY <1>1, <1>2, <1>3, <1>4, <1>5, <1>6, <1>7, <1>8 DEF TypeInv, TypeOK, FileOpen

LEMMA StepTypes == TypeInv /\ [Next]_vars => TypeInv'
<1> SUFFICES ASSUME TypeInv, [Next]_vars
             PROVE  TypeInv'
  OBVIOUS
<1> USE SampleFacts DEF TypeInv, TypeOK, FileOpen, MainPoints, ServPoints
<1>1. CASE ReadConf        BY <1>1 DEF ReadConf
<1>2. CASE Daemonize       BY <1>2 DEF Daemonize
<1>3. CASE FOpen           BY <1>3 DEF FOpen, Inode, NoFile
<1>4. CASE FOpenFails      BY <1>4 DEF FOpenFails, Die
<1>5. CASE FSeek
  <2>1. opened \in Inode /\ writes[opened] \in 0 .. MaxWrites /\ sampled' = <<opened, writes[opened]>>
    BY <1>5 DEF FSeek
  <2>2. sampled' \in Sample
    BY <2>1 DEF Inode
  <2>3. missed' \in BOOLEAN
    BY <1>5 DEF FSeek
  <2>4. QED BY <1>5, <2>2, <2>3 DEF FSeek
<1>6. CASE MainLock        BY <1>6 DEF MainLock
<1>7. CASE StoreHi         BY <1>7 DEF StoreHi
<1>8. CASE StoreLo         BY <1>8 DEF StoreLo
<1>9. CASE MainUnlock      BY <1>9 DEF MainUnlock, NoFile
<1>10. CASE Spawn          BY <1>10 DEF Spawn
<1>11. CASE AddWatch       BY <1>11 DEF AddWatch, NoFile
<1>12. CASE ReadEvents     BY <1>12 DEF ReadEvents
<1>13. CASE HandleEvent    BY <1>13 DEF HandleEvent
<1>14. ASSUME NEW s \in Servers, ServStep(s)
       PROVE  TypeInv'
  <2>1. CASE Setup(s)      BY <2>1 DEF Setup
  <2>2. CASE Accept(s)     BY <2>2 DEF Accept
  <2>3. CASE ServLock(s)   BY <2>3 DEF ServLock
  <2>4. CASE CopyHi(s)     BY <2>4 DEF CopyHi
  <2>5. CASE CopyLo(s)     BY <2>5 DEF CopyLo
  <2>6. CASE ServUnlock(s) BY <2>6 DEF ServUnlock
  <2>7. CASE Send(s)       BY <2>7 DEF Send
  <2>8. QED BY <1>14, <2>1, <2>2, <2>3, <2>4, <2>5, <2>6, <2>7 DEF ServStep
<1>15. CASE CallFails      BY <1>15 DEF CallFails, Die
<1>16. CASE Environment
  <2>1. ASSUME NEW c \in Clients, NEW s \in Servers, Connect(c, s)
        PROVE  TypeInv'
    BY <2>1 DEF Connect
  <2>2. ASSUME NEW c \in Clients, HangUp(c)
        PROVE  TypeInv'
    BY <2>2 DEF HangUp
  <2>3. ASSUME NEW i \in Inode, Write(i)
        PROVE  TypeInv'
    BY <2>3 DEF Write
  <2>4. CASE RenameAway    BY <2>4 DEF RenameAway, NoFile
  <2>5. CASE Unlink        BY <2>5 DEF Unlink, DropWatch, NoFile
  <2>6. CASE Create        BY <2>6 DEF Create, Inode
  <2>7. CASE Replace       BY <2>7 DEF Replace, DropWatch, Inode, NoFile
  <2>8. QED BY <1>16, <2>1, <2>2, <2>3, <2>4, <2>5, <2>6, <2>7 DEF Environment
<1>17. CASE UNCHANGED vars BY <1>17 DEF vars
<1>18. QED
  BY <1>1, <1>2, <1>3, <1>4, <1>5, <1>6, <1>7, <1>8, <1>9, <1>10, <1>11, <1>12,
     <1>13, <1>14, <1>15, <1>16, <1>17 DEF Next, MainStep

\* Every variable keeps the type the code declares for it; in particular
\* fseek and ftell (main.c:178, 180) are never called on a failed fopen.
THEOREM TypeCorrect == Spec => []TypeOK
<1>1. TypeInv => TypeOK
  BY DEF TypeInv
<1>2. QED BY InitTypes, StepTypes, <1>1, PTL DEF Spec

----------------------------------------------------------------------------
(* Mutual exclusion and whole words. *)

\* The thread between lock and unlock is the holder of the mutex.
MutexInv ==
    /\ mpc \in {"storeHi", "storeLo", "unlock"} => lock = Main
    /\ \A s \in Servers : spc[s] \in {"copyHi", "copyLo", "unlock"} => lock = s

\* cur_file_size is in two pieces only while main holds the mutex, and a copy
\* of it only while its server does.
WholeInv ==
    /\ mpc # "storeLo" => cur.hi = cur.lo
    /\ \A s \in Servers : /\ spc[s] = "copyLo" => str[s].hi = cur.hi
                          /\ spc[s] \in {"unlock", "send"} => str[s].hi = str[s].lo
    /\ mpc = "storeLo" => cur.hi = sampled
    /\ NoTornReply

WordInv == TypeInv /\ MutexInv /\ WholeInv

LEMMA InitWords == Init => WordInv
<1> SUFFICES ASSUME Init PROVE MutexInv /\ WholeInv
  BY InitTypes DEF WordInv
<1> QED BY DEF Init, MutexInv, WholeInv, NoTornReply, NoReply, Both

LEMMA StepWords == WordInv /\ [Next]_vars => WordInv'
<1> SUFFICES ASSUME WordInv, [Next]_vars
             PROVE  MutexInv' /\ WholeInv'
  BY StepTypes DEF WordInv
<1> USE DEF WordInv, TypeInv, TypeOK, MutexInv, WholeInv, NoTornReply
<1>1. CASE ReadConf        BY <1>1 DEF ReadConf
<1>2. CASE Daemonize       BY <1>2 DEF Daemonize
<1>3. CASE FOpen           BY <1>3 DEF FOpen
<1>4. CASE FOpenFails      BY <1>4 DEF FOpenFails, Die
<1>5. CASE FSeek           BY <1>5 DEF FSeek
<1>6. CASE MainLock
  <2>1. \A s \in Servers : spc[s] \notin {"copyHi", "copyLo", "unlock"}
    BY <1>6 DEF MainLock
  <2>2. QED BY <1>6, <2>1 DEF MainLock
<1>7. CASE StoreHi
  <2>1. \A s \in Servers : spc[s] \notin {"copyHi", "copyLo", "unlock"}
    BY <1>7 DEF StoreHi
  <2>2. cur'.hi = sampled
    BY <1>7 DEF StoreHi, Word
  <2>3. QED BY <1>7, <2>1, <2>2 DEF StoreHi
<1>8. CASE StoreLo
  <2>1. \A s \in Servers : spc[s] \notin {"copyHi", "copyLo", "unlock"}
    BY <1>8 DEF StoreLo
  <2>2. cur'.hi = sampled /\ cur'.lo = sampled
    BY <1>8 DEF StoreLo, Word
  <2>3. QED BY <1>8, <2>1, <2>2 DEF StoreLo
<1>9. CASE MainUnlock      BY <1>9 DEF MainUnlock
<1>10. CASE Spawn          BY <1>10 DEF Spawn
<1>11. CASE AddWatch       BY <1>11 DEF AddWatch
<1>12. CASE ReadEvents     BY <1>12 DEF ReadEvents
<1>13. CASE HandleEvent    BY <1>13 DEF HandleEvent
<1>14. ASSUME NEW s \in Servers, ServStep(s)
       PROVE  MutexInv' /\ WholeInv'
  <2>1. CASE Setup(s)      BY <2>1 DEF Setup
  <2>2. CASE Accept(s)     BY <2>2 DEF Accept
  <2>3. CASE ServLock(s)   BY <2>3 DEF ServLock
  <2>4. CASE CopyHi(s)
    <3>1. str' = [str EXCEPT ![s] = str'[s]] /\ str'[s].hi = cur.hi
      BY <2>4 DEF CopyHi, Word
    <3>2. QED BY <2>4, <3>1 DEF CopyHi
  <2>5. CASE CopyLo(s)
    <3>1. /\ str' = [str EXCEPT ![s] = str'[s]]
          /\ str'[s].hi = str[s].hi /\ str'[s].lo = cur.lo
      BY <2>5 DEF CopyLo, Word
    <3>2. mpc # "storeLo"
      BY <2>5 DEF CopyLo
    <3>3. QED BY <2>5, <3>1, <3>2 DEF CopyLo
  <2>6. CASE ServUnlock(s) BY <2>6 DEF ServUnlock
  <2>7. CASE Send(s)       BY <2>7 DEF Send
  <2>8. QED BY <1>14, <2>1, <2>2, <2>3, <2>4, <2>5, <2>6, <2>7 DEF ServStep
<1>15. CASE CallFails      BY <1>15 DEF CallFails, Die
<1>16. CASE Environment
  <2>1. ASSUME NEW c \in Clients, NEW s \in Servers, Connect(c, s)
        PROVE  MutexInv' /\ WholeInv'
    BY <2>1 DEF Connect
  <2>2. ASSUME NEW c \in Clients, HangUp(c)
        PROVE  MutexInv' /\ WholeInv'
    BY <2>2 DEF HangUp
  <2>3. ASSUME NEW i \in Inode, Write(i)
        PROVE  MutexInv' /\ WholeInv'
    BY <2>3 DEF Write
  <2>4. CASE RenameAway    BY <2>4 DEF RenameAway
  <2>5. CASE Unlink        BY <2>5 DEF Unlink
  <2>6. CASE Create        BY <2>6 DEF Create
  <2>7. CASE Replace       BY <2>7 DEF Replace
  <2>8. QED BY <1>16, <2>1, <2>2, <2>3, <2>4, <2>5, <2>6, <2>7 DEF Environment
<1>17. CASE UNCHANGED vars BY <1>17 DEF vars
<1>18. QED
  BY <1>1, <1>2, <1>3, <1>4, <1>5, <1>6, <1>7, <1>8, <1>9, <1>10, <1>11, <1>12,
     <1>13, <1>14, <1>15, <1>16, <1>17 DEF Next, MainStep

\* No interleaving of the main thread and the servers sends a client a size
\* made of two samples.
THEOREM RepliesWhole == Spec => []NoTornReply
<1>1. WordInv => NoTornReply
  BY DEF WordInv, WholeInv
<1>2. QED BY InitWords, StepWords, <1>1, PTL DEF Spec

----------------------------------------------------------------------------
(* The published size never goes back. *)

\* v can have been sampled by now.
Past(v) == /\ v[1] <= born
           /\ v[1] # NoFile => v[2] <= writes[v[1]]
           /\ v[1] = NoFile => v = Unsampled

NotNewer(u, v) == u = v \/ OlderThan(u, v)

\* The name leads to the newest inode, so what is opened next, and what
\* has just been sampled, is not older than what is published.
SampleInv ==
    /\ path # NoFile => path = born
    /\ Past(cur.hi) /\ Past(cur.lo)
    /\ mpc = "seek" => opened <= born /\ cur.hi[1] <= opened
    /\ mpc \in {"lock", "storeHi", "storeLo"} =>
         Past(sampled) /\ NotNewer(cur.hi, sampled) /\ NotNewer(cur.lo, sampled)

HistoryInv == WordInv /\ SampleInv

LEMMA SampleParts ==
    \A v \in Sample : v = <<v[1], v[2]>> /\ v[1] \in 0 .. MaxInodes /\ v[2] \in 0 .. MaxWrites
  BY DEF Sample

\* Time only adds to the past.
LEMMA PastStays ==
    ASSUME TypeInv, TypeInv', NEW v \in Sample, Past(v),
           born <= born', \A i \in Inode : writes[i] <= writes'[i]
    PROVE  Past(v)'
<1>1. v[1] \in 0 .. MaxInodes /\ v[2] \in 0 .. MaxWrites
  BY SampleParts
<1>2. v[1] <= born'
  BY <1>1 DEF Past, TypeInv, TypeOK
<1>3. ASSUME v[1] # NoFile PROVE v[2] <= writes'[v[1]]
  <2>1. v[1] \in Inode /\ v[2] <= writes[v[1]] /\ writes[v[1]] <= writes'[v[1]]
    BY <1>1, <1>3 DEF Past, Inode, NoFile
  <2>2. writes[v[1]] \in Nat /\ writes'[v[1]] \in Nat
    BY <2>1 DEF TypeInv, TypeOK
  <2>3. QED BY <1>1, <2>1, <2>2
<1>4. QED BY <1>2, <1>3 DEF Past

LEMMA InitHistory == Init => HistoryInv
<1> SUFFICES ASSUME Init PROVE SampleInv
  BY InitWords DEF HistoryInv
<1>1. Past(Unsampled)
  BY DEF Init, Past, Unsampled, NoFile
<1>2. QED BY <1>1 DEF Init, SampleInv, Both

LEMMA StepHistory == HistoryInv /\ [Next]_vars => HistoryInv'
<1> SUFFICES ASSUME HistoryInv, [Next]_vars
             PROVE  SampleInv'
  BY StepWords DEF HistoryInv
<1>t. /\ TypeInv /\ TypeInv'
      /\ cur.hi \in Sample /\ cur.lo \in Sample /\ sampled \in Sample
      /\ born \in Nat /\ path \in Nat /\ opened \in Nat
  BY StepWords, SampleFacts DEF HistoryInv, WordInv, TypeInv, TypeOK
<1>a. ASSUME UNCHANGED <<born, path, writes, cur, opened, sampled>>,
             \/ mpc' = mpc
             \/ mpc' \notin {"seek", "lock", "storeHi", "storeLo"}
             \/ mpc = "lock" /\ mpc' = "storeHi"
      PROVE  SampleInv'
  BY <1>a DEF HistoryInv, SampleInv, Past
<1>1. CASE ReadConf        BY <1>1, <1>a DEF ReadConf
<1>2. CASE Daemonize       BY <1>2, <1>a DEF Daemonize
<1>3. CASE FOpen
  BY <1>3, <1>t DEF FOpen, HistoryInv, SampleInv, Past, NoFile
<1>4. CASE FOpenFails      BY <1>4, <1>a DEF FOpenFails, Die
<1>5. CASE FSeek
  <2>1. /\ mpc = "seek" /\ mpc' = "lock" /\ sampled' = <<opened, writes[opened]>>
        /\ UNCHANGED <<born, path, writes, cur>>
    BY <1>5 DEF FSeek
  <2>2. /\ opened \in Inode /\ opened <= born /\ cur.hi[1] <= opened /\ cur.lo = cur.hi
        /\ Past(cur.hi)
    BY <2>1 DEF HistoryInv, WordInv, WholeInv, TypeInv, FileOpen, SampleInv
  <2>3. Past(sampled)'
    BY <1>t, <2>1, <2>2 DEF Past, NoFile, Inode, TypeInv, TypeOK
  <2>4. NotNewer(cur.hi, <<opened, writes[opened]>>)
    BY <1>t, <2>2, SampleParts DEF Past, NotNewer, OlderThan, NoFile, Inode, TypeInv, TypeOK
  <2>5. QED BY <2>1, <2>2, <2>3, <2>4 DEF HistoryInv, SampleInv, Past, NotNewer
<1>6. CASE MainLock        BY <1>6, <1>a DEF MainLock
<1>7. CASE StoreHi
  <2>1. cur'.hi = sampled /\ cur'.lo = cur.lo
    BY <1>7, <1>t DEF StoreHi, TypeInv, TypeOK, Word
  <2>2. QED BY <1>7, <2>1 DEF StoreHi, HistoryInv, SampleInv, Past, NotNewer
<1>8. CASE StoreLo
  <2>1. cur'.hi = cur.hi /\ cur'.lo = sampled
    BY <1>8, <1>t DEF StoreLo, TypeInv, TypeOK, Word
  <2>2. QED BY <1>8, <2>1 DEF StoreLo, HistoryInv, SampleInv, Past, NotNewer
<1>9. CASE MainUnlock
  BY <1>9, <1>t DEF MainUnlock, HistoryInv, SampleInv, Past, TypeInv, TypeOK
<1>10. CASE Spawn          BY <1>10, <1>a DEF Spawn
<1>11. CASE AddWatch       BY <1>11, <1>a DEF AddWatch
<1>12. CASE ReadEvents     BY <1>12, <1>a DEF ReadEvents
<1>13. CASE HandleEvent    BY <1>13, <1>a DEF HandleEvent
<1>14. ASSUME NEW s \in Servers, ServStep(s)
       PROVE  SampleInv'
  BY <1>14, <1>a DEF ServStep, Setup, Accept, ServLock, CopyHi, CopyLo, ServUnlock, Send
<1>15. CASE CallFails      BY <1>15, <1>a DEF CallFails, Die
<1>16. CASE Environment
  <2>h. ASSUME UNCHANGED <<mpc, opened, sampled, cur>>,
               path' # NoFile => path' = born',
               born <= born', \A i \in Inode : writes[i] <= writes'[i]
        PROVE  SampleInv'
    <3>1. \A v \in Sample : Past(v) => Past(v)'
      BY <2>h, <1>t, PastStays
    <3>2. /\ Past(cur.hi)' /\ Past(cur.lo)'
          /\ mpc \in {"lock", "storeHi", "storeLo"} => Past(sampled)'
      BY <2>h, <1>t, <3>1 DEF HistoryInv, SampleInv, Past
    <3>3. mpc' = "seek" => opened' <= born' /\ cur'.hi[1] <= opened'
      BY <2>h, <1>t DEF HistoryInv, SampleInv, TypeInv, TypeOK
    <3>4. QED BY <2>h, <3>2, <3>3 DEF HistoryInv, SampleInv, NotNewer
  <2>w. writes' = writes => \A i \in Inode : writes[i] <= writes'[i]
    BY <1>t DEF TypeInv, TypeOK
  <2>1. ASSUME NEW c \in Clients, NEW s \in Servers, Connect(c, s)
        PROVE  SampleInv'
    BY <2>1, <1>a DEF Connect
  <2>2. ASSUME NEW c \in Clients, HangUp(c)
        PROVE  SampleInv'
    BY <2>2, <1>a DEF HangUp
  <2>3. ASSUME NEW i \in Inode, Write(i)
        PROVE  SampleInv'
    <3>1. \A j \in Inode : writes[j] <= writes'[j]
      BY <2>3, <1>t DEF Write, TypeInv, TypeOK
    <3>2. QED BY <2>3, <3>1, <2>h, <1>t DEF Write, HistoryInv, SampleInv
  <2>4. CASE RenameAway
    BY <2>4, <2>h, <2>w, <1>t DEF RenameAway
  <2>5. CASE Unlink
    BY <2>5, <2>h, <2>w, <1>t DEF Unlink
  <2>6. CASE Create
    BY <2>6, <2>h, <2>w, <1>t DEF Create
  <2>7. CASE Replace
    BY <2>7, <2>h, <2>w, <1>t DEF Replace
  <2>8. QED BY <1>16, <2>1, <2>2, <2>3, <2>4, <2>5, <2>6, <2>7 DEF Environment
<1>17. CASE UNCHANGED vars BY <1>17, <1>a DEF vars
<1>18. QED
  BY <1>1, <1>2, <1>3, <1>4, <1>5, <1>6, <1>7, <1>8, <1>9, <1>10, <1>11, <1>12,
     <1>13, <1>14, <1>15, <1>16, <1>17 DEF Next, MainStep

\* However the file is replaced and whatever events are handled late, the
\* published size is only ever overwritten by one sampled later.
THEOREM SizeNeverGoesBack == Spec => MonotoneSize
<1> DEFINE Forward == /\ cur'.hi # cur.hi => OlderThan(cur.hi, cur'.hi)
                      /\ cur'.lo # cur.lo => OlderThan(cur.lo, cur'.lo)
<1>1. HistoryInv /\ [Next]_vars => [Forward]_cur
  <2> SUFFICES ASSUME HistoryInv, Next, cur' # cur
               PROVE  Forward
    BY DEF vars
  <2>1. StoreHi \/ StoreLo
    BY DEF Next, MainStep, ServStep, Environment, ReadConf, Daemonize, FOpen, FOpenFails,
           FSeek, MainLock, MainUnlock, Spawn, AddWatch, ReadEvents, HandleEvent, Setup,
           Accept, ServLock, CopyHi, CopyLo, ServUnlock, Send, CallFails, Die, Connect,
           HangUp, Write, RenameAway, Unlink, Create, Replace
  <2>2. cur \in Word
    BY DEF HistoryInv, WordInv, TypeInv, TypeOK
  <2>3. CASE StoreHi
    <3>1. cur'.hi = sampled /\ cur'.lo = cur.lo
      BY <2>2, <2>3 DEF StoreHi, Word
    <3>2. QED BY <2>3, <3>1 DEF StoreHi, HistoryInv, SampleInv, NotNewer
  <2>4. CASE StoreLo
    <3>1. cur'.hi = cur.hi /\ cur'.lo = sampled
      BY <2>2, <2>4 DEF StoreLo, Word
    <3>2. QED BY <2>4, <3>1 DEF StoreLo, HistoryInv, SampleInv, NotNewer
  <2>5. QED BY <2>1, <2>3, <2>4
<1>2. QED BY InitHistory, StepHistory, <1>1, PTL DEF Spec, MonotoneSize

----------------------------------------------------------------------------
(* No update is lost. *)

Modify == "modify" \in queue \cup batch

\* Until the servers are started and while read() waits, no event is in the
\* buffer; and wherever the sample in hand, or else the published size, is
\* out of date, either the change went unnoticed or its event is pending.
PendingInv ==
    /\ mpc \in {"conf", "daemon", "spawn", "watch", "read"} => batch = {}
    /\ ret = "spawn" /\ mpc # "event" => batch = {}
    /\ mpc = "seek" /\ path # NoFile /\ opened # path => missed
    /\ mpc \in {"lock", "storeHi", "storeLo"} /\ path # NoFile /\ sampled # Actual =>
         missed \/ Modify
    /\ mpc \in {"unlock", "spawn", "watch", "read", "event"} /\ path # NoFile
         /\ cur # Both(Actual) => missed \/ Modify

UpdateInv == WordInv /\ PendingInv

LEMMA InitUpdate == Init => UpdateInv
<1> SUFFICES ASSUME Init PROVE PendingInv
  BY InitWords DEF UpdateInv
<1> QED BY DEF Init, PendingInv

LEMMA StepUpdate == UpdateInv /\ [Next]_vars => UpdateInv'
<1> SUFFICES ASSUME UpdateInv, [Next]_vars
             PROVE  PendingInv'
  BY StepWords DEF UpdateInv
<1>t. TypeInv
  BY DEF UpdateInv, WordInv
<1> USE DEF UpdateInv, PendingInv
<1>a. ASSUME UNCHANGED <<path, writes, cur, queue, batch, missed, opened, sampled, mpc, ret>>
      PROVE  PendingInv'
  BY <1>a DEF Modify, Actual, Both
<1>1. CASE ReadConf        BY <1>1 DEF ReadConf
<1>2. CASE Daemonize       BY <1>2 DEF Daemonize
<1>3. CASE FOpen           BY <1>3 DEF FOpen
<1>4. CASE FOpenFails      BY <1>4, <1>a DEF FOpenFails, Die
<1>5. CASE FSeek
  <2>1. path # NoFile /\ sampled' # Actual => missed'
    BY <1>5 DEF FSeek, Actual
  <2>2. QED BY <1>5, <2>1 DEF FSeek, Actual
<1>6. CASE MainLock        BY <1>6 DEF MainLock, Modify, Actual
<1>7. CASE StoreHi         BY <1>7 DEF StoreHi, Modify, Actual
<1>8. CASE StoreLo
  <2>1. cur' = Both(sampled)
    BY <1>8, <1>t DEF StoreLo, WordInv, WholeInv, TypeInv, TypeOK, Word, Both
  <2>2. QED BY <1>8, <2>1 DEF StoreLo, Modify, Actual
<1>9. CASE MainUnlock
  <2>1. ret \in {"spawn", "event"}
    BY <1>t DEF TypeInv, TypeOK
  <2>2. QED BY <1>9, <2>1 DEF MainUnlock, Modify, Actual, Both
<1>10. CASE Spawn          BY <1>10 DEF Spawn, Modify, Actual, Both
<1>11. CASE AddWatch       BY <1>11 DEF AddWatch, Modify, Actual, Both
<1>12. CASE ReadEvents     BY <1>12 DEF ReadEvents, Modify, Actual, Both
<1>13. CASE HandleEvent
  <2>1. CASE "modify" \in batch
    BY <1>13, <2>1 DEF HandleEvent
  <2>2. CASE "modify" \notin batch
    <3>1. Actual' = Actual /\ (Modify => Modify')
      BY <1>13, <2>2 DEF HandleEvent, Modify, Actual
    <3>2. QED BY <1>13, <2>2, <3>1, <1>t DEF HandleEvent, TypeInv, TypeOK
  <2>3. QED BY <2>1, <2>2
<1>14. ASSUME NEW s \in Servers, ServStep(s)
       PROVE  PendingInv'
  BY <1>14, <1>a DEF ServStep, Setup, Accept, ServLock, CopyHi, CopyLo, ServUnlock, Send
<1>15. CASE CallFails      BY <1>15, <1>a DEF CallFails, Die
<1>16. CASE Environment
  <2>1. ASSUME NEW c \in Clients, NEW s \in Servers, Connect(c, s)
        PROVE  PendingInv'
    BY <2>1, <1>a DEF Connect
  <2>2. ASSUME NEW c \in Clients, HangUp(c)
        PROVE  PendingInv'
    BY <2>2, <1>a DEF HangUp
  <2>3. ASSUME NEW i \in Inode, Write(i)
        PROVE  PendingInv'
    <3>1. CASE i = path
      <4>1. missed' \/ Modify'
        BY <2>3, <3>1 DEF Write, Modify
      <4>2. QED BY <2>3, <4>1 DEF Write
    <3>2. CASE i # path
      <4>1. Actual' = Actual /\ (Modify => Modify') /\ (missed => missed')
        BY <2>3, <3>2, <1>t DEF Write, Actual, Modify, TypeInv, TypeOK
      <4>2. QED BY <2>3, <4>1 DEF Write, Both
    <3>3. QED BY <3>1, <3>2
  <2>4. CASE RenameAway    BY <2>4 DEF RenameAway
  <2>5. CASE Unlink        BY <2>5 DEF Unlink
  <2>6. CASE Create        BY <2>6 DEF Create
  <2>7. CASE Replace       BY <2>7 DEF Replace
  <2>8. QED BY <1>16, <2>1, <2>2, <2>3, <2>4, <2>5, <2>6, <2>7 DEF Environment
<1>17. CASE UNCHANGED vars BY <1>17, <1>a DEF vars
<1>18. QED
  BY <1>1, <1>2, <1>3, <1>4, <1>5, <1>6, <1>7, <1>8, <1>9, <1>10, <1>11, <1>12,
     <1>13, <1>14, <1>15, <1>16, <1>17 DEF Next, MainStep

\* The daemon never forgets a change it was told of.
THEOREM NoUpdateLost == Spec => []NoLostUpdate
<1>1. UpdateInv => NoLostUpdate
  BY DEF UpdateInv, WordInv, TypeInv, TypeOK, MainPoints, PendingInv, NoLostUpdate,
         UpdatePending, Modify
<1>2. QED BY InitUpdate, StepUpdate, <1>1, PTL DEF Spec

----------------------------------------------------------------------------
(* The daemon implements an atomic register of sizes. *)

\* A client is in one place: in the queue of one server, with one server, or
\* neither; and it has its reply only when it is neither.
PlaceInv ==
    /\ \A s, u \in Servers : peer[s] = peer[u] /\ peer[s] \in Clients => s = u
    /\ \A s, u \in Servers : peer[u] \notin queued[s]
    /\ \A s, u \in Servers : queued[s] \cap queued[u] # {} => s = u
    /\ \A s \in Servers : peer[s] \in Clients => reply[peer[s]] = NoReply
    /\ \A s \in Servers : \A c \in queued[s] : reply[c] = NoReply

\* The first pass of update_file_size: no size has been stored.
FirstPass == \/ mpc = "conf"
             \/ mpc \in {"daemon", "open", "seek", "lock", "storeHi", "storeLo"} /\ ret = "spawn"

\* Servers run only when they have been started, which is after a first size
\* has been stored, and a size stored is never again the one of no file.
StoredInv ==
    /\ \A s \in enabled : spc[s] = "off"
    /\ FirstPass => \A s \in Servers : spc[s] = "off"
    /\ ~FirstPass => cur.lo[1] # NoFile
    /\ mpc \in {"lock", "storeHi", "storeLo"} => sampled[1] # NoFile

\* Between CopyLo and Send the server's copy is a size.
Has(s) == spc[s] \in {"unlock", "send"}
CopyInv == \A s \in Servers : Has(s) => str[s] # NoReply

RegisterInv == HistoryInv /\ PlaceInv /\ StoredInv /\ CopyInv

LEMMA InitRegister == Init => RegisterInv
<1> SUFFICES ASSUME Init PROVE PlaceInv /\ StoredInv /\ CopyInv
  BY InitHistory DEF RegisterInv
<1>1. PlaceInv
  BY DEF Init, PlaceInv
<1>2. StoredInv
  BY DEF Init, StoredInv, FirstPass
<1>3. CopyInv
  BY DEF Init, CopyInv, Has
<1>4. QED BY <1>1, <1>2, <1>3

LEMMA StepStored == HistoryInv /\ StoredInv /\ [Next]_vars => StoredInv'
<1> SUFFICES ASSUME HistoryInv, StoredInv, [Next]_vars PROVE StoredInv'
  OBVIOUS
<1>t. TypeInv /\ cur \in Word
  BY DEF HistoryInv, WordInv, TypeInv, TypeOK
<1>a. ASSUME UNCHANGED <<mpc, ret, spc, cur, sampled, enabled>> PROVE StoredInv'
  BY <1>a DEF StoredInv, FirstPass
<1> USE DEF StoredInv, FirstPass
<1>1. CASE ReadConf
  <2>1. /\ mpc = "conf" /\ mpc' \in {"daemon", "open"} /\ ret' = "spawn" /\ spc' = spc
        /\ enabled' \subseteq Servers
    BY <1>1 DEF ReadConf
  <2>2. QED BY <2>1
<1>2. CASE Daemonize       BY <1>2 DEF Daemonize
<1>3. CASE FOpen           BY <1>3 DEF FOpen
<1>4. CASE FOpenFails      BY <1>4, <1>a DEF FOpenFails, Die
<1>5. CASE FSeek
  <2>1. sampled'[1] # NoFile
    BY <1>5, <1>t DEF FSeek, TypeInv, FileOpen, Inode, NoFile
  <2>2. QED BY <1>5, <2>1 DEF FSeek
<1>6. CASE MainLock        BY <1>6 DEF MainLock
<1>7. CASE StoreHi
  <2>1. cur'.lo = cur.lo
    BY <1>7, <1>t DEF StoreHi, Word
  <2>2. QED BY <1>7, <2>1 DEF StoreHi
<1>8. CASE StoreLo
  <2>1. cur'.lo = sampled
    BY <1>8, <1>t DEF StoreLo, Word
  <2>2. QED BY <1>8, <2>1 DEF StoreLo
<1>9. CASE MainUnlock
  <2>1. ret \in {"spawn", "event"}
    BY <1>t DEF TypeInv, TypeOK
  <2>2. QED BY <1>9, <2>1 DEF MainUnlock
<1>10. CASE Spawn          BY <1>10, <1>t DEF Spawn, TypeInv, TypeOK
<1>11. CASE AddWatch       BY <1>11 DEF AddWatch
<1>12. CASE ReadEvents     BY <1>12 DEF ReadEvents
<1>13. CASE HandleEvent    BY <1>13 DEF HandleEvent
<1>14. ASSUME NEW s \in Servers, ServStep(s)
       PROVE  StoredInv'
  <2>1. spc[s] # "off" /\ UNCHANGED <<mpc, ret, cur, sampled, enabled>>
    BY <1>14 DEF ServStep, Setup, Accept, ServLock, CopyHi, CopyLo, ServUnlock, Send
  <2>2. \A u \in Servers : u # s => spc'[u] = spc[u]
    BY <1>14, <1>t DEF ServStep, Setup, Accept, ServLock, CopyHi, CopyLo, ServUnlock, Send, TypeInv, TypeOK
  <2>3. enabled \subseteq Servers
    BY <1>t DEF TypeInv, TypeOK
  <2>4. QED BY <2>1, <2>2, <2>3
<1>15. CASE CallFails      BY <1>15, <1>a DEF CallFails, Die
<1>16. CASE Environment
  BY <1>16, <1>a DEF Environment, Connect, HangUp, Write, RenameAway, Unlink, Create, Replace
<1>17. CASE UNCHANGED vars BY <1>17, <1>a DEF vars
<1>18. QED
  BY <1>1, <1>2, <1>3, <1>4, <1>5, <1>6, <1>7, <1>8, <1>9, <1>10, <1>11, <1>12,
     <1>13, <1>14, <1>15, <1>16, <1>17 DEF Next, MainStep

\* A step that touches nothing of what a client sees.
LEMMA NothingSeen ==
    ASSUME RegisterInv, [Next]_vars
    PROVE  \/ /\ UNCHANGED <<peer, queued, reply, str, cur>>
              /\ \A s \in Servers : Has(s)' <=> Has(s)
              /\ mpc = "storeLo" <=> mpc' = "storeLo"
           \/ StoreHi \/ StoreLo
           \/ \E s \in Servers : Accept(s) \/ CopyHi(s) \/ CopyLo(s) \/ Send(s)
           \/ \E c \in Clients, s \in Servers : Connect(c, s)
<1> DEFINE Quiet == /\ UNCHANGED <<peer, queued, reply, str, cur>>
                    /\ \A s \in Servers : Has(s)' <=> Has(s)
                    /\ mpc = "storeLo" <=> mpc' = "storeLo"
<1>t. /\ spc \in [Servers -> ServPoints] /\ ret \in {"spawn", "event"} /\ enabled \subseteq Servers
      /\ \A s \in enabled : spc[s] = "off"
  BY DEF RegisterInv, HistoryInv, WordInv, TypeInv, TypeOK, StoredInv
<1>1. CASE \/ ReadConf \/ Daemonize \/ FOpen \/ FOpenFails \/ FSeek \/ MainLock \/ AddWatch
           \/ ReadEvents \/ HandleEvent \/ CallFails \/ UNCHANGED vars
  <2>1. UNCHANGED <<peer, queued, reply, str, cur, spc>>
    BY <1>1 DEF ReadConf, Daemonize, FOpen, FOpenFails, FSeek, MainLock, AddWatch, ReadEvents,
                HandleEvent, CallFails, Die, vars
  <2>2. mpc = "storeLo" <=> mpc' = "storeLo"
    BY <1>1 DEF ReadConf, Daemonize, FOpen, FOpenFails, FSeek, MainLock, AddWatch, ReadEvents,
                HandleEvent, CallFails, Die, vars
  <2>3. QED BY <2>1, <2>2 DEF Has
<1>2. CASE MainUnlock
  BY <1>2, <1>t DEF MainUnlock, Has
<1>3. CASE Spawn
  BY <1>3, <1>t DEF Spawn, Has
<1>4. ASSUME NEW s \in Servers, Setup(s) \/ ServLock(s) \/ ServUnlock(s) PROVE Quiet
  BY <1>4, <1>t DEF Setup, ServLock, ServUnlock, Has
<1>5. ASSUME NEW c \in Clients, HangUp(c) PROVE Quiet
  BY <1>5 DEF HangUp, Has
<1>6. CASE (\E i \in Inode : Write(i)) \/ RenameAway \/ Unlink \/ Create \/ Replace
  BY <1>6 DEF Write, RenameAway, Unlink, Create, Replace, Has
<1>7. CASE \/ StoreHi \/ StoreLo
           \/ \E s \in Servers : Accept(s) \/ CopyHi(s) \/ CopyLo(s) \/ Send(s)
           \/ \E c \in Clients, s \in Servers : Connect(c, s)
  BY <1>7
<1>8. QED BY <1>1, <1>2, <1>3, <1>4, <1>5, <1>6, <1>7 DEF Next, MainStep, ServStep, Environment

LEMMA StepPlace == RegisterInv /\ [Next]_vars => PlaceInv'
<1> SUFFICES ASSUME RegisterInv, [Next]_vars PROVE PlaceInv'
  OBVIOUS
<1>t. /\ peer \in [Servers -> Clients \cup {NoOne}] /\ queued \in [Servers -> SUBSET Clients]
      /\ reply \in [Clients -> Word] /\ NoOne \notin Clients
  BY DEF RegisterInv, HistoryInv, WordInv, TypeInv, TypeOK
<1>p. PlaceInv
  BY DEF RegisterInv
<1>a. ASSUME UNCHANGED <<peer, queued, reply>> PROVE PlaceInv'
  BY <1>a, <1>p DEF PlaceInv
<1>1. CASE StoreHi \/ StoreLo
  BY <1>1, <1>a DEF StoreHi, StoreLo
<1>2. ASSUME NEW s \in Servers, CopyHi(s) \/ CopyLo(s) PROVE PlaceInv'
  BY <1>2, <1>a DEF CopyHi, CopyLo
<1>3. ASSUME NEW s \in Servers, Accept(s) PROVE PlaceInv'
  <2>1. PICK c \in queued[s] : peer' = [peer EXCEPT ![s] = c] /\ queued' = [queued EXCEPT ![s] = @ \ {c}]
    BY <1>3 DEF Accept
  <2>2. /\ c \in Clients /\ reply' = reply /\ reply[c] = NoReply
        /\ \A u \in Servers : peer[u] # c /\ (u # s => c \notin queued[u])
    BY <1>3, <2>1, <1>t, <1>p DEF Accept, PlaceInv
  <2>3. /\ peer'[s] = c /\ queued'[s] = queued[s] \ {c}
        /\ \A u \in Servers : u # s => peer'[u] = peer[u] /\ queued'[u] = queued[u]
    BY <2>1, <1>t
  <2>4. \A u \in Servers : queued'[u] \subseteq queued[u] /\ c \notin queued'[u]
    BY <2>2, <2>3
  <2>5. \A u, v \in Servers : peer'[u] = peer'[v] /\ peer'[u] \in Clients => u = v
    BY <2>2, <2>3, <1>p DEF PlaceInv
  <2>6. \A u, v \in Servers : peer'[v] \notin queued'[u]
    BY <2>3, <2>4, <1>p DEF PlaceInv
  <2>7. \A u, v \in Servers : queued'[u] \cap queued'[v] # {} => u = v
    BY <2>4, <1>p DEF PlaceInv
  <2>8. QED BY <2>2, <2>3, <2>4, <2>5, <2>6, <2>7, <1>p DEF PlaceInv
<1>4. ASSUME NEW s \in Servers, Send(s) PROVE PlaceInv'
  <2>1. /\ peer'[s] = NoOne /\ \A u \in Servers : u # s => peer'[u] = peer[u]
        /\ queued' = queued /\ reply' = [reply EXCEPT ![peer[s]] = str[s]]
    BY <1>4, <1>t DEF Send
  <2>2. \A c \in Clients : c # peer[s] => reply'[c] = reply[c]
    BY <2>1, <1>t
  <2>3. \A u, v \in Servers : peer'[u] = peer'[v] /\ peer'[u] \in Clients => u = v
    BY <2>1, <1>t, <1>p DEF PlaceInv
  <2>4. \A u, v \in Servers : peer'[v] \notin queued'[u]
    BY <2>1, <1>t, <1>p DEF PlaceInv
  <2>5. \A u \in Servers : peer'[u] \in Clients => reply'[peer'[u]] = NoReply
    BY <2>1, <2>2, <1>t, <1>p DEF PlaceInv
  <2>6. \A u \in Servers : \A c \in queued'[u] : reply'[c] = NoReply
    BY <2>1, <2>2, <1>t, <1>p DEF PlaceInv
  <2>7. QED BY <2>1, <2>3, <2>4, <2>5, <2>6, <1>p DEF PlaceInv
<1>5. ASSUME NEW c \in Clients, NEW s \in Servers, Connect(c, s) PROVE PlaceInv'
  <2>1. /\ reply[c] = NoReply /\ \A u \in Servers : c \notin queued[u] /\ peer[u] # c
        /\ UNCHANGED <<peer, reply>>
    BY <1>5 DEF Connect, Connected
  <2>2. queued'[s] = queued[s] \cup {c} /\ \A u \in Servers : u # s => queued'[u] = queued[u]
    BY <1>5, <1>t DEF Connect
  <2>3. \A u, v \in Servers : peer[v] \notin queued'[u]
    BY <2>1, <2>2, <1>p DEF PlaceInv
  <2>4. \A u, v \in Servers : queued'[u] \cap queued'[v] # {} => u = v
    BY <2>1, <2>2, <1>p DEF PlaceInv
  <2>5. QED BY <2>1, <2>2, <2>3, <2>4, <1>p DEF PlaceInv
<1>6. QED BY <1>1, <1>2, <1>3, <1>4, <1>5, <1>a, NothingSeen

\* A copy in hand has both halves of what is published.
LEMMA CopyIsWhole ==
    ASSUME RegisterInv, NEW s \in Servers, CopyLo(s)
    PROVE  /\ str'[s] = cur /\ \A u \in Servers : u # s => str'[u] = str[u]
           /\ cur # NoReply /\ mpc # "storeLo" /\ mpc' = mpc /\ spc'[s] = "unlock"
           /\ \A u \in Servers : u # s => spc'[u] = spc[u]
<1>t. /\ str \in [Servers -> Word] /\ cur \in Word /\ spc \in [Servers -> ServPoints]
  BY DEF RegisterInv, HistoryInv, WordInv, TypeInv, TypeOK
<1>1. /\ spc[s] = "copyLo" /\ str' = [str EXCEPT ![s].lo = cur.lo] /\ mpc' = mpc
      /\ spc' = [spc EXCEPT ![s] = "unlock"]
  BY DEF CopyLo
<1>2. mpc # "storeLo"
  BY <1>1 DEF RegisterInv, HistoryInv, WordInv, MutexInv
<1>3. str[s].hi = cur.hi
  BY <1>1 DEF RegisterInv, HistoryInv, WordInv, WholeInv
<1>4. str'[s] = cur
  <2>1. str'[s] = [str[s] EXCEPT !.lo = cur.lo]
    BY <1>1, <1>t
  <2>2. str'[s] \in Word /\ str'[s].hi = cur.hi /\ str'[s].lo = cur.lo
    BY <2>1, <1>3, <1>t DEF Word
  <2>3. QED BY <2>2, <1>t DEF Word
<1>5. cur # NoReply
  <2>1. cur.lo[1] # NoFile
    BY <1>1 DEF RegisterInv, StoredInv
  <2>2. NoReply.lo[1] = NoFile
    BY DEF NoReply, Both, Unsampled
  <2>3. QED BY <2>1, <2>2
<1>6. QED BY <1>1, <1>2, <1>4, <1>5, <1>t

LEMMA StepCopy == RegisterInv /\ [Next]_vars => CopyInv'
<1> SUFFICES ASSUME RegisterInv, [Next]_vars PROVE CopyInv'
  OBVIOUS
<1>t. spc \in [Servers -> ServPoints] /\ str \in [Servers -> Word]
  BY DEF RegisterInv, HistoryInv, WordInv, TypeInv, TypeOK
<1>c. \A s \in Servers : Has(s) => str[s] # NoReply
  BY DEF RegisterInv, CopyInv
<1>1. CASE StoreHi \/ StoreLo
  BY <1>1, <1>c DEF StoreHi, StoreLo, CopyInv, Has
<1>2. ASSUME NEW s \in Servers, Accept(s) \/ Send(s) PROVE CopyInv'
  BY <1>2, <1>c, <1>t DEF Accept, Send, CopyInv, Has
<1>3. ASSUME NEW s \in Servers, CopyHi(s) PROVE CopyInv'
  <2>1. spc'[s] = "copyLo" /\ \A u \in Servers : u # s => spc'[u] = spc[u] /\ str'[u] = str[u]
    BY <1>3, <1>t DEF CopyHi
  <2>2. QED BY <2>1, <1>c DEF CopyInv, Has
<1>4. ASSUME NEW s \in Servers, CopyLo(s) PROVE CopyInv'
  BY <1>4, <1>c, CopyIsWhole DEF CopyInv, Has
<1>5. ASSUME NEW c \in Clients, NEW s \in Servers, Connect(c, s) PROVE CopyInv'
  BY <1>5, <1>c DEF Connect, CopyInv, Has
<1>6. CASE UNCHANGED str /\ \A s \in Servers : Has(s)' <=> Has(s)
  BY <1>6, <1>c DEF CopyInv
<1>7. QED BY <1>1, <1>2, <1>3, <1>4, <1>5, <1>6, NothingSeen

LEMMA StepRegister == RegisterInv /\ [Next]_vars => RegisterInv'
  BY StepHistory, StepStored, StepPlace, StepCopy DEF RegisterInv

\* What Given says, without its CHOOSE: a client is with one server.
GivenCases(c) ==
    /\ reply[c] # NoReply => Given(c) = reply[c]
    /\ \A s \in Servers : reply[c] = NoReply /\ peer[s] = c /\ Has(s) => Given(c) = str[s]
    /\ reply[c] = NoReply /\ (\A s \in Servers : ~(peer[s] = c /\ Has(s))) => Given(c) = NoReply

LEMMA GivenIs == PlaceInv => \A c \in Clients : GivenCases(c)
<1> SUFFICES ASSUME PlaceInv, NEW c \in Clients PROVE GivenCases(c)
  OBVIOUS
<1>1. ASSUME NEW s \in Servers, reply[c] = NoReply, peer[s] = c, Has(s)
      PROVE  Given(c) = str[s]
  <2>1. (CHOOSE u \in Servers : peer[u] = c) = s
    BY <1>1 DEF PlaceInv
  <2>2. QED BY <1>1, <2>1 DEF Given, Has
<1>2. ASSUME reply[c] = NoReply, \A s \in Servers : ~(peer[s] = c /\ Has(s))
      PROVE  Given(c) = NoReply
  BY <1>2 DEF Given, Has
<1>3. reply[c] # NoReply => Given(c) = reply[c]
  BY DEF Given
<1>4. QED BY <1>1, <1>2, <1>3 DEF GivenCases

LEMMA GivenNext == PlaceInv' => (\A c \in Clients : GivenCases(c))'
  BY GivenIs, PTL

\* A client whose server's copy is the same, or who has none, is given the same.
LEMMA GivenSame ==
    ASSUME PlaceInv, PlaceInv', NEW c \in Clients, reply'[c] = reply[c],
           \A s \in Servers : peer[s] = c /\ Has(s) => peer'[s] = c /\ Has(s)' /\ str'[s] = str[s],
           \A s \in Servers : peer'[s] = c /\ Has(s)' => peer[s] = c /\ Has(s)
    PROVE  Given(c)' = Given(c)
<1>2. GivenCases(c)
  BY GivenIs
<1>3. GivenCases(c)'
  BY GivenNext
<1>4. CASE reply[c] # NoReply
  BY <1>4, <1>2, <1>3 DEF GivenCases
<1>5. CASE reply[c] = NoReply /\ \E s \in Servers : peer[s] = c /\ Has(s)
  <2>1. PICK s \in Servers : peer[s] = c /\ Has(s)
    BY <1>5
  <2>2. QED BY <1>5, <2>1, <1>2, <1>3 DEF GivenCases
<1>6. CASE reply[c] = NoReply /\ \A s \in Servers : ~(peer[s] = c /\ Has(s))
  BY <1>6, <1>2, <1>3 DEF GivenCases
<1>7. QED BY <1>4, <1>5, <1>6

\* What the register is taken to be.
Published == IF mpc = "storeLo" THEN Both(cur.lo) ELSE cur
Answers   == [c \in Clients |-> Given(c)]

LEMMA AnswersSame ==
    ASSUME \A c \in Clients : Given(c)' = Given(c)
    PROVE  Answers' = Answers
  BY DEF Answers

LEMMA RegisterStart == Init => Register!Init
<1> SUFFICES ASSUME Init PROVE Register!Init
  OBVIOUS
<1>1. PlaceInv /\ \A c \in Clients : reply[c] = NoReply
  BY InitRegister DEF RegisterInv, Init
<1>2. \A s \in Servers : ~Has(s)
  BY DEF Init, Has
<1>3. \A c \in Clients : Given(c) = NoReply
  BY <1>1, <1>2, GivenIs DEF GivenCases
<1>4. mpc # "storeLo" /\ cur = NoReply
  BY DEF Init, NoReply
<1>5. QED BY <1>3, <1>4 DEF Register!Init

\* A step that changes neither the published size nor an answer.
LEMMA RegisterStutters ==
    ASSUME Published' = Published, \A c \in Clients : Given(c)' = Given(c)
    PROVE  [Register!Next]_<<Published, Answers>>
  BY AnswersSame

LEMMA RegisterStep ==
    RegisterInv /\ RegisterInv' /\ [Next]_vars => [Register!Next]_<<Published, Answers>>
<1> SUFFICES ASSUME RegisterInv, RegisterInv', [Next]_vars
             PROVE  [Register!Next]_<<Published, Answers>>
  OBVIOUS
<1>p. PlaceInv /\ PlaceInv'
  BY DEF RegisterInv
<1>t. /\ cur \in Word /\ cur.hi \in Sample /\ cur.lo \in Sample /\ sampled \in Sample
      /\ peer \in [Servers -> Clients \cup {NoOne}] /\ spc \in [Servers -> ServPoints]
      /\ reply \in [Clients -> Word] /\ str \in [Servers -> Word]
  BY SampleFacts DEF RegisterInv, HistoryInv, WordInv, TypeInv, TypeOK
<1>w. \A w \in Word : w.hi = w.lo => Both(w.lo) = w
  BY DEF Word, Both
<1>a. ASSUME UNCHANGED <<reply, peer, str>>, \A s \in Servers : Has(s)' <=> Has(s),
             Published' = Published
      PROVE  [Register!Next]_<<Published, Answers>>
  <2>1. \A c \in Clients : Given(c)' = Given(c)
    BY <1>a, <1>p, GivenSame
  <2>2. QED BY <1>a, <2>1, RegisterStutters
<1>1. CASE /\ UNCHANGED <<peer, queued, reply, str, cur>>
           /\ \A s \in Servers : Has(s)' <=> Has(s)
           /\ mpc = "storeLo" <=> mpc' = "storeLo"
  BY <1>1, <1>a DEF Published
<1>2. CASE StoreHi
  <2>1. /\ mpc = "storeHi" /\ mpc' = "storeLo" /\ cur.hi = cur.lo /\ cur'.lo = cur.lo
        /\ UNCHANGED <<reply, peer, str, spc>>
    BY <1>2, <1>t DEF StoreHi, Word, RegisterInv, HistoryInv, WordInv, WholeInv
  <2>2. Published' = Published
    BY <2>1, <1>t, <1>w DEF Published
  <2>3. QED BY <2>1, <2>2, <1>a DEF Has
<1>3. CASE StoreLo
  <2>1. /\ mpc = "storeLo" /\ mpc' = "unlock" /\ cur.hi = sampled
        /\ UNCHANGED <<reply, peer, str, spc>>
    BY <1>3 DEF StoreLo, RegisterInv, HistoryInv, WordInv, WholeInv
  <2>2. cur' = Both(sampled)
    BY <1>3, <2>1, <1>t DEF StoreLo, Word, Both
  <2>3. Published = Both(cur.lo) /\ Published' = Both(sampled)
    BY <2>1, <2>2 DEF Published
  <2>4. \A c \in Clients : Given(c)' = Given(c)
    BY <2>1, <1>p, GivenSame DEF Has
  <2>5. NotNewer(cur.lo, sampled)
    BY <2>1 DEF RegisterInv, HistoryInv, SampleInv
  <2>6. CASE cur.lo = sampled
    BY <2>3, <2>4, <2>6, RegisterStutters
  <2>7. CASE OlderThan(cur.lo, sampled)
    <3>1. NewerWord(Published', Published)
      BY <2>3, <2>7 DEF NewerWord, Both
    <3>2. Published' \in {Both(v) : v \in Sample}
      BY <2>3, <1>t
    <3>3. Register!Publish(Published')
      BY <3>1, <2>4, AnswersSame DEF Register!Publish, Published, Answers
    <3>4. QED BY <3>2, <3>3 DEF Register!Next
  <2>8. QED BY <2>5, <2>6, <2>7 DEF NotNewer
<1>4. ASSUME NEW s \in Servers, Accept(s) PROVE [Register!Next]_<<Published, Answers>>
  <2>1. /\ spc[s] = "accept" /\ spc'[s] = "lock" /\ UNCHANGED <<reply, str, cur, mpc>>
        /\ \A u \in Servers : u # s => spc'[u] = spc[u] /\ peer'[u] = peer[u]
    BY <1>4, <1>t DEF Accept
  <2>2. \A c \in Clients : Given(c)' = Given(c)
    BY <2>1, <1>p, GivenSame DEF Has
  <2>3. Published' = Published
    BY <2>1 DEF Published
  <2>4. QED BY <2>2, <2>3, RegisterStutters
<1>5. ASSUME NEW s \in Servers, CopyHi(s) PROVE [Register!Next]_<<Published, Answers>>
  <2>1. /\ spc[s] = "copyHi" /\ spc'[s] = "copyLo" /\ UNCHANGED <<reply, peer, cur, mpc>>
        /\ \A u \in Servers : u # s => spc'[u] = spc[u] /\ str'[u] = str[u]
    BY <1>5, <1>t DEF CopyHi
  <2>2. \A c \in Clients : Given(c)' = Given(c)
    BY <2>1, <1>p, GivenSame DEF Has
  <2>3. Published' = Published
    BY <2>1 DEF Published
  <2>4. QED BY <2>2, <2>3, RegisterStutters
<1>6. ASSUME NEW s \in Servers, CopyLo(s) PROVE [Register!Next]_<<Published, Answers>>
  <2>1. /\ spc[s] = "copyLo" /\ UNCHANGED <<reply, peer, cur, mpc>>
        /\ str'[s] = cur /\ \A u \in Servers : u # s => str'[u] = str[u] /\ spc'[u] = spc[u]
        /\ cur # NoReply /\ mpc # "storeLo" /\ spc'[s] = "unlock"
    BY <1>6, CopyIsWhole DEF CopyLo
  <2>2. Published = cur /\ Published' = cur
    BY <2>1 DEF Published
  <2>3. \A c \in Clients : c # peer[s] => Given(c)' = Given(c)
    BY <2>1, <1>p, GivenSame DEF Has
  <2>4. CASE peer[s] \notin Clients
    <3>1. \A c \in Clients : Given(c)' = Given(c)
      BY <2>3, <2>4
    <3>2. QED BY <3>1, <2>2, RegisterStutters
  <2>5. ASSUME NEW c \in Clients, c = peer[s] PROVE [Register!Next]_<<Published, Answers>>
    <3>1. reply[c] = NoReply /\ \A u \in Servers : ~(peer[u] = c /\ Has(u))
      BY <2>1, <2>5, <1>p DEF PlaceInv, Has
    <3>2. Given(c) = NoReply
      BY <3>1, <2>5, <1>p, GivenIs DEF GivenCases
    <3>3. Given(c)' = cur
      <4>1. GivenCases(c)'
        BY <1>p, <2>5, GivenNext
      <4>2. Has(s)' /\ peer'[s] = c /\ reply'[c] = NoReply
        BY <2>1, <2>5, <3>1 DEF Has
      <4>3. QED BY <4>1, <4>2, <2>1 DEF GivenCases
    <3>4. Answers' = [Answers EXCEPT ![c] = cur]
      BY <2>3, <2>5, <3>3 DEF Answers
    <3>5. Register!Answer(c)
      <4>1. Answers[c] = NoReply
        BY <3>2, <2>5 DEF Answers
      <4>2. QED BY <2>1, <2>2, <3>4, <4>1 DEF Register!Answer, Answers, Published
    <3>6. QED BY <2>5, <3>5 DEF Register!Next
  <2>6. QED BY <2>4, <2>5
<1>7. ASSUME NEW s \in Servers, Send(s) PROVE [Register!Next]_<<Published, Answers>>
  <2>1. /\ spc[s] = "send" /\ spc'[s] = "accept" /\ UNCHANGED <<str, cur, mpc>>
        /\ peer'[s] = NoOne /\ reply' = [reply EXCEPT ![peer[s]] = str[s]]
        /\ \A u \in Servers : u # s => spc'[u] = spc[u] /\ peer'[u] = peer[u]
    BY <1>7, <1>t DEF Send
  <2>2. Published' = Published
    BY <2>1 DEF Published
  <2>3. \A c \in Clients : c # peer[s] => Given(c)' = Given(c)
    <3> SUFFICES ASSUME NEW c \in Clients, c # peer[s] PROVE Given(c)' = Given(c)
      OBVIOUS
    <3>1. reply'[c] = reply[c]
      BY <2>1, <1>t
    <3>2. QED BY <2>1, <3>1, <1>p, GivenSame DEF Has
  <2>4. ASSUME NEW c \in Clients, c = peer[s] PROVE Given(c)' = Given(c)
    <3>1. reply[c] = NoReply /\ Has(s) /\ str[s] # NoReply
      BY <2>1, <2>4, <1>p DEF PlaceInv, Has, RegisterInv, CopyInv
    <3>2. Given(c) = str[s]
      BY <2>4, <3>1, <1>p, GivenIs DEF GivenCases
    <3>3. reply'[c] = str[s]
      BY <2>1, <2>4, <1>t
    <3>4. GivenCases(c)'
      BY <1>p, GivenNext
    <3>5. QED BY <3>1, <3>2, <3>3, <3>4 DEF GivenCases
  <2>5. \A c \in Clients : Given(c)' = Given(c)
    BY <2>3, <2>4
  <2>6. QED BY <2>2, <2>5, RegisterStutters
<1>8. ASSUME NEW c \in Clients, NEW s \in Servers, Connect(c, s)
      PROVE  [Register!Next]_<<Published, Answers>>
  BY <1>8, <1>a DEF Connect, Published, Has
<1>9. QED BY <1>1, <1>2, <1>3, <1>4, <1>5, <1>6, <1>7, <1>8, NothingSeen

\* The two threads' halves, the mutex and the copies together are one atomic
\* register of sizes: what SizeRegister promises the clients.
THEOREM RegisterImplemented == Spec => ImplementsRegister
<1>1. Init => RegisterInv
  BY InitRegister
<1>2. QED
  BY <1>1, StepRegister, RegisterStart, RegisterStep, PTL
     DEF Spec, ImplementsRegister, Register!Spec, Published, Answers

=============================================================================

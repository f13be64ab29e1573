-------------------------- MODULE ProgramsProofs ---------------------------
(***************************************************************************)
(* Proofs about Programs, each program for any value of its constants: the *)
(* log library (MyLog), the remote builder (Rbuilder), the tops of the     *)
(* urls and of the referers (LogTop), the lines of a log (LogLine), the    *)
(* statistics of a column (StatDb), the search for a place (Weather), the  *)
(* transfer of a file (FtpSendfile), the lines of a request (HttpLine),    *)
(* the signatures in a file (Detector) and the texts in UTF-8 (Utf8).      *)
(***************************************************************************)
EXTENDS Programs, FiniteSets, FiniteSetTheorems, SequenceTheorems, WellFoundedInduction, TLAPS

----------------------------------------------------------------------------
(* Side by side: what one program does leaves the others where they are. *)

LEMMA Apart ==
    ASSUME [Next]_vars
    PROVE  /\ prog' = prog
           /\ [Tops!Next]_Tops!vars
           /\ [Log!Next]_Log!vars
           /\ [Remote!Next]_Remote!vars
           /\ [Text!Next]_Text!vars
           /\ [Signs!Next]_Signs!vars
           /\ [Lines!Next]_Lines!vars
           /\ [Places!Next]_Places!vars
           /\ [Column!Next]_Column!vars
           /\ [Records!Next]_Records!vars
           /\ [Send!Next]_Send!vars
  BY DEF Next, vars, topVars, logVars, Log!vars, remoteVars, textVars, signsVars, linesVars, placesVars, columnVars,
         recordsVars, sendVars, Send!vars, Text!vars, Signs!vars, Lines!vars, Places!vars, Column!vars, Tops!vars,
         Remote!vars, Remote!builderVars,
         Remote!remoteVars, Records!vars

LEMMA RecordsApart == Spec => Records!Spec
  <1>1. Init => Records!Init
    BY DEF Init
  <1> QED  BY <1>1, Apart, PTL DEF Spec, Records!Spec

LEMMA RemoteApart == Spec => Remote!Spec
  <1>1. Init => Remote!Init
    BY DEF Init
  <1> QED  BY <1>1, Apart, PTL DEF Spec, Remote!Spec

----------------------------------------------------------------------------
(* Natural numbers: the least one of a set, and induction. *)

LEMMA Least == ASSUME NEW S, S \subseteq Nat, S # {} PROVE \E n \in S : \A m \in S : n <= m
  <1> DEFINE R == {ss \in Nat \X Nat : ss[1] < ss[2]}
  <1>1. R = OpToRel(<, Nat)
    BY Zenon DEF OpToRel
  <1>2. IsWellFoundedOn(R, Nat)
    BY <1>1, NatLessThanWellFounded, Zenon
  <1>3. PICK n \in S : \A m \in S : ~ (<<m, n>> \in R)
    <2> HIDE DEF R
    <2> QED BY <1>2, WFMin
  <1>4. ASSUME NEW m \in S PROVE n <= m
    <2>1. ~ (<<m, n>> \in R)
      BY <1>3
    <2>2. m \in Nat /\ n \in Nat
      OBVIOUS
    <2>3. <<m,n>> \in Nat \X Nat /\ <<m,n>>[1] = m /\ <<m,n>>[2] = n
      BY <2>2
    <2> HIDE DEF R
    <2>4. ~(m < n)
       BY <2>1, <2>3, Zenon DEF R
    <2> QED BY <2>2, <2>4
  <1> QED BY <1>4

LEMMA Inductive == ASSUME NEW S, S \subseteq Nat, 0 \in S, \A n \in S : n + 1 \in S PROVE S = Nat
  <1> SUFFICES ASSUME Nat \ S # {} PROVE FALSE
    OBVIOUS
  <1>1. PICK n \in Nat \ S : \A m \in Nat \ S : n <= m
    BY Least
  <1>2. n # 0 /\ n - 1 \in S
    BY <1>1
  <1> QED BY <1>2

----------------------------------------------------------------------------
(* mylog: what has been logged is what is in the file and what stdio keeps. *)

Record == Records!Levels \cup {"END"}

LogType ==
    /\ logged \in Seq(Record) /\ disk \in Seq(Record) /\ buffer \in Seq(Record)
    /\ program \in {"runs", "exited", "killed", "undefined"}

\* Nothing is lost or out of order while the program lives, all is in the file
\* when it has ended by itself, and after a kill a first part is.
Balance ==
    /\ program \in {"runs", "undefined"} => logged = disk \o buffer
    /\ program = "exited" => disk = logged
    /\ program = "killed" => \E more \in Seq(Record) : logged = disk \o more

FatalEnds ==
    \A n \in DOMAIN logged : logged[n] = "END" => n = Len(logged) /\ program = "exited"

LogInv == LogType /\ Balance /\ FatalEnds

LEMMA Parts ==
    ASSUME NEW a \in Seq(Record), NEW b \in Seq(Record), NEW r \in Record
    PROVE  /\ a \o b \in Seq(Record)
           /\ Append(b, r) \in Seq(Record)
           /\ a \o Append(b, r) \in Seq(Record)
           /\ a \o Append(b, r) = Append(a \o b, r)
           /\ a \o <<>> = a
           /\ <<>> \in Seq(Record)
  OBVIOUS

LEMMA LogStart == Records!Init => LogInv
  BY DEF Records!Init, LogInv, LogType, Balance, FatalEnds, Record, Records!Levels

LEMMA LogStep == LogInv /\ [Records!Next]_Records!vars => LogInv'
  <1> SUFFICES ASSUME LogInv, [Records!Next]_Records!vars PROVE LogInv'
    OBVIOUS
  <1> USE DEF LogInv
  <1>0. /\ "ERROR" \in Record /\ "INFO" \in Record /\ "END" \in Record
        /\ \A l \in Records!Levels : l \in Record /\ l # "END"
    BY DEF Record, Records!Levels
  <1>p. /\ disk \o buffer \in Seq(Record) /\ <<>> \in Seq(Record)
        /\ \A r \in Record : /\ Append(buffer, r) \in Seq(Record)
                             /\ disk \o Append(buffer, r) \in Seq(Record)
                             /\ disk \o Append(buffer, r) = Append(disk \o buffer, r)
    BY Parts DEF LogType
  <1>1. CASE Records!ml_init
    BY <1>1, <1>p DEF Records!ml_init, Records!Exit, LogType, Balance, FatalEnds
  <1>2. CASE Records!Misuse
    BY <1>2, <1>p DEF Records!Misuse, Records!Exit, LogType, Balance, FatalEnds
  <1>3. ASSUME NEW l \in Records!Levels, Records!ml_write(l) PROVE LogInv'
    <2>0. l \in Record /\ Append(logged, l) \in Seq(Record)
      BY <1>0, Parts DEF LogType
    <2>1. LogType'
      BY <1>3, <2>0, <1>p DEF Records!ml_write, LogType
    <2>2. Balance'
      BY <1>3, <2>0, <1>p DEF Records!ml_write, Balance
    <2>3. FatalEnds'
      BY <1>3, <1>0 DEF Records!ml_write, LogType, FatalEnds
    <2> QED  BY <2>1, <2>2, <2>3
  <1>4. CASE Records!ml_final
    BY <1>4 DEF Records!ml_final, LogType, Balance, FatalEnds
  <1>5. CASE Records!ml_fatal_write
    <2>1. LogType'
      BY <1>5, <1>0 DEF Records!ml_fatal_write, LogType
    <2>2. Balance'
      BY <1>5, <1>0, <1>p DEF Records!ml_fatal_write, Balance
    <2>3. FatalEnds'
      BY <1>5, <1>0 DEF Records!ml_fatal_write, LogType, FatalEnds
    <2> QED  BY <2>1, <2>2, <2>3
  <1>6. CASE Records!Flush
    BY <1>6 DEF Records!Flush, LogType, Balance, FatalEnds
  <1>7. CASE Records!End
    BY <1>7 DEF Records!End, Records!Exit, LogType, Balance, FatalEnds
  <1>8. CASE Records!Kill
    BY <1>8 DEF Records!Kill, LogType, Balance, FatalEnds
  <1>9. CASE UNCHANGED Records!vars
    BY <1>9 DEF Records!vars, LogType, Balance, FatalEnds
  <1> QED  BY <1>1, <1>2, <1>3, <1>4, <1>5, <1>6, <1>7, <1>8, <1>9 DEF Records!Next

\* The record of ml_fatal_write is the last one of its program, an exit loses no
\* record, and a kill only the last ones, for logs of any length.
THEOREM LogKept == Spec => []FatalLast
  <1>1. LogInv => Records!FatalLast
    <2> SUFFICES ASSUME LogInv PROVE Records!FatalLast
      OBVIOUS
    <2>1. ASSUME NEW more \in Seq(Record), logged = disk \o more
          PROVE  disk = SubSeq(logged, 1, Len(disk))
      BY <2>1 DEF LogInv, LogType
    <2>2. disk = SubSeq(logged, 1, Len(disk))
      <3>1. CASE program = "exited"
        BY <3>1 DEF LogInv, LogType, Balance
      <3>2. CASE program # "exited"
        BY <3>2, <2>1 DEF LogInv, LogType, Balance
      <3> QED  BY <3>1, <3>2
    <2> QED  BY <2>2 DEF LogInv, Balance, FatalEnds, Records!FatalLast
  <1>2. Records!Spec => []Records!FatalLast
    BY <1>1, LogStart, LogStep, PTL DEF Records!Spec
  <1>3. Records!FatalLast => FatalLast
    BY DEF FatalLast
  <1> QED  BY <1>2, <1>3, RecordsApart, PTL

----------------------------------------------------------------------------
(* rbuilder: the order of the commands. *)

Steps == {"idle", "tar", "prepare", "scp", "untar", "dependences", "build_comm", "rmLocal",
          "rmRemote", "install_comm", "clean_comm", "rmWork"}

LEMMA Successors ==
    /\ Remote!After("tar") = "prepare"
    /\ Remote!After("prepare") = "scp"
    /\ Remote!After("scp") = "untar"
    /\ Remote!After("untar") = "dependences"
    /\ Remote!After("dependences") = "build_comm"
    /\ Remote!After("build_comm") = "rmLocal"
    /\ Remote!After("rmLocal") = "rmRemote"
    /\ Remote!After("rmRemote") = "idle"
    /\ Remote!After("install_comm") = "idle"
    /\ Remote!After("clean_comm") = "rmWork"
    /\ Remote!After("rmWork") = "idle"
  <1> DEFINE O == Remote!Order
  <1>1. ASSUME NEW n \in 1 .. 11, NEW s, O[n] = s, s \notin {"rmRemote", "install_comm", "rmWork"},
               \A l \in 1 .. 11 : O[l] = s => l = n
        PROVE  Remote!After(s) = O[n + 1]
    <2>1. DOMAIN O = 1 .. 11
      BY DEF Remote!Order
    <2>2. (CHOOSE l \in DOMAIN O : O[l] = s) = n
      BY <1>1, <2>1
    <2> QED  BY <1>1, <2>2 DEF Remote!After
  <1>2. /\ O[1] = "tar" /\ O[2] = "prepare" /\ O[3] = "scp" /\ O[4] = "untar"
        /\ O[5] = "dependences" /\ O[6] = "build_comm" /\ O[7] = "rmLocal" /\ O[8] = "rmRemote"
        /\ O[9] = "install_comm" /\ O[10] = "clean_comm" /\ O[11] = "rmWork"
    BY DEF Remote!Order
  <1>3. \A l \in 1 .. 11 : l \in {1, 2, 3, 4, 5, 6, 7, 8, 9, 10, 11}
    OBVIOUS
  <1> HIDE DEF O
  <1>4. /\ Remote!After("rmRemote") = "idle" /\ Remote!After("install_comm") = "idle"
        /\ Remote!After("rmWork") = "idle"
    BY DEF Remote!After
  <1>5. Remote!After("tar") = "prepare"
    BY <1>1, <1>2, <1>3
  <1>6. Remote!After("prepare") = "scp"
    BY <1>1, <1>2, <1>3
  <1>7. Remote!After("scp") = "untar"
    BY <1>1, <1>2, <1>3
  <1>8. Remote!After("untar") = "dependences"
    BY <1>1, <1>2, <1>3
  <1>9. Remote!After("dependences") = "build_comm"
    BY <1>1, <1>2, <1>3
  <1>10. Remote!After("build_comm") = "rmLocal"
    BY <1>1, <1>2, <1>3
  <1>11. Remote!After("rmLocal") = "rmRemote"
    BY <1>1, <1>2, <1>3
  <1>12. Remote!After("clean_comm") = "rmWork"
    BY <1>1, <1>2, <1>3
  <1> QED  BY <1>4, <1>5, <1>6, <1>7, <1>8, <1>9, <1>10, <1>11, <1>12

LEMMA FirstSteps ==
    /\ Remote!First("build") = "tar"
    /\ Remote!First("install") = "install_comm"
    /\ Remote!First("clean") = "clean_comm"
  <1>1. /\ Remote!Of("build") = 1 .. 8 /\ Remote!Of("install") = {9} /\ Remote!Of("clean") = {10, 11}
    BY DEF Remote!Of
  <1>2. /\ (CHOOSE n \in 1 .. 8 : \A l \in 1 .. 8 : n <= l) = 1
        /\ (CHOOSE n \in {9} : \A l \in {9} : n <= l) = 9
        /\ (CHOOSE n \in {10, 11} : \A l \in {10, 11} : n <= l) = 10
    OBVIOUS
  <1> QED  BY <1>1, <1>2 DEF Remote!First, Remote!Order

----------------------------------------------------------------------------
(* rbuilder: what an undisturbed run has done when it reaches a command, and *)
(* what the host looks like while all runs so far were undisturbed.          *)

RemoteType ==
    /\ step \in [Builders -> Steps]
    /\ DOMAIN local = Builders /\ DOMAIN archive = Builders
    /\ alone \in [Builders -> BOOLEAN]
    /\ calm \in BOOLEAN

\* None of the user's hidden files is on its way; builds make one of their own.
HiddenStay ==
    /\ work \cap Remote!Hidden \subseteq {".cache"} /\ sent \cap Remote!Hidden = {}
    /\ \A b \in Builders : archive[b] = Remote!NoTar \/ archive[b] \cap Remote!Hidden = {}

Packed(b) == archive[b] = Remote!Visible(local[b]) /\ "rbuilder.conf" \in archive[b]

\* Where a run that nothing has disturbed stands in the transfer of its files.
\* A file in place of the work directory can only be found, not be put there.
Fresh(b) ==
    alone[b] =>
      /\ step[b] = "tar" => "rbuilder.conf" \in local[b]
      /\ step[b] \in {"prepare", "scp"} => Packed(b)
      /\ kind = "dir" =>
           /\ step[b] = "scp" => Remote!Visible(work) = {}
           /\ step[b] = "untar" =>
                Remote!Visible(work) = {"temp.tar"} /\ sent = Remote!Visible(local[b])
           /\ step[b] \in {"dependences", "build_comm"} =>
                Remote!Visible(work) = Remote!Visible(local[b]) \cup {"temp.tar"}

HomeKept == home = Remote!HomeFiles \/ (vain /\ home = Remote!HomeFiles \ {"out"})

Transferring == {"untar", "dependences", "build_comm", "rmLocal", "rmRemote"}

\* One run after the other: the transfer's files are only there during one,
\* and from mkdir to its end there is a directory to work in.
Orderly ==
    calm =>
      /\ \A b, c \in Builders : step[b] # "idle" /\ step[c] # "idle" => b = c
      /\ HomeKept /\ kind \in {"none", "dir"}
      /\ \A b \in Builders : step[b] = "clean_comm" /\ kind # "dir" => vain
      /\ \A b \in Builders : step[b] \in Transferring \cup {"scp"} => kind = "dir"
      /\ \A b \in Builders :
           archive[b] # Remote!NoTar =>
             step[b] \in {"prepare", "scp", "untar", "dependences", "build_comm", "rmLocal"}
      /\ {"temp.tar", "rbuilder.conf"} \cap work # {} =>
           \E b \in Builders : step[b] \in Transferring

RemoteInv == RemoteType /\ (\A b \in Builders : Fresh(b)) /\ Orderly

LEMMA RemoteStart == Remote!Init => RemoteInv
  BY DEF Remote!Init, RemoteInv, RemoteType, Fresh, Packed, Orderly, HomeKept, Steps, Transferring

LEMMA NotHidden == "temp.tar" \notin Remote!Hidden /\ "rbuilder.conf" \notin Remote!Hidden
  BY HiddenAssumption DEF Remote!Hidden

\* A command moves its own run on, and every other one that is under way is
\* not alone any more.
LEMMA DoesOne ==
    ASSUME RemoteType, NEW b \in Builders, NEW s, Remote!Does(b, s), Remote!After(s) \in Steps
    PROVE  /\ step[b] = s /\ step'[b] = Remote!After(s) /\ alone'[b] = alone[b] /\ vain' = vain
           /\ step' \in [Builders -> Steps] /\ alone' \in [Builders -> BOOLEAN] /\ calm' \in BOOLEAN
           /\ \A c \in Builders \ {b} : step'[c] = step[c] /\ (alone'[c] => step[c] = "idle")
           /\ calm' => calm /\ \A c \in Builders \ {b} : step[c] = "idle"
  <1>1. /\ step[b] = s /\ step'[b] = Remote!After(s) /\ step' \in [Builders -> Steps]
        /\ \A c \in Builders \ {b} : step'[c] = step[c]
    BY DEF RemoteType, Remote!Does
  <1>2. alone' = [c \in Builders |-> alone[c] /\ (c = b \/ step[c] = "idle")]
    BY DEF Remote!Does, Remote!Alone
  <1>3. /\ alone' \in [Builders -> BOOLEAN] /\ alone'[b] = alone[b]
        /\ \A c \in Builders \ {b} : alone'[c] => step[c] = "idle"
    BY <1>2 DEF RemoteType
  <1>4. calm' = (calm /\ \A c \in Builders : alone'[c])
    BY DEF Remote!Does, Remote!Calm
  <1>5. calm' \in BOOLEAN
    BY <1>4 DEF RemoteType
  <1>6. calm' => calm /\ \A c \in Builders \ {b} : step[c] = "idle"
    BY <1>3, <1>4
  <1>7. vain' = vain
    BY DEF Remote!Does
  <1> QED  BY <1>1, <1>3, <1>5, <1>6, <1>7

\* A run that another one's step leaves where it is either idles or has lost
\* its claim.
LEMMA OthersFresh ==
    ASSUME NEW b \in Builders, Fresh(b), step'[b] = step[b], alone'[b] => step[b] = "idle"
    PROVE  Fresh(b)'
  BY DEF Fresh

LEMMA StepRemote == RemoteInv /\ [Remote!Next]_Remote!vars => RemoteInv'
  <1> SUFFICES ASSUME RemoteInv, [Remote!Next]_Remote!vars PROVE RemoteInv'
    OBVIOUS
  <1> USE DEF RemoteInv
  <1>a. ASSUME NEW b \in Builders, NEW s \in Steps, Remote!Does(b, s), Remote!After(s) \in Steps,
               Fresh(b)', Orderly', (DOMAIN local = Builders /\ DOMAIN archive = Builders)'
        PROVE  RemoteInv'
    <2>1. RemoteType'
      BY <1>a, DoesOne DEF RemoteType
    <2>2. \A c \in Builders \ {b} : Fresh(c)'
      BY <1>a, DoesOne, OthersFresh
    <2> QED  BY <1>a, <2>1, <2>2
  <1>1. ASSUME NEW b \in Builders, Remote!Tar(b) PROVE RemoteInv'
    <2>1. Remote!Does(b, "tar") /\ Remote!After("tar") \in Steps
      BY <1>1, Successors DEF Remote!Tar, Steps
    <2>2. (DOMAIN local = Builders /\ DOMAIN archive = Builders)'
      BY <1>1 DEF Remote!Tar, Remote!remoteVars, RemoteType
    <2>3. Fresh(b)'
      BY <1>1, <2>1, DoesOne, Successors, NotHidden
         DEF Remote!Tar, Remote!remoteVars, RemoteType, Fresh, Packed, Remote!Visible
    <2>4. Orderly'
      BY <1>1, <2>1, DoesOne, Successors, NotHidden
         DEF Remote!Tar, Remote!remoteVars, RemoteType, Orderly, HomeKept, Transferring, Fresh, Packed, Remote!Visible
    <2> QED  BY <1>a, <2>1, <2>2, <2>3, <2>4 DEF Steps
  <1>2. ASSUME NEW b \in Builders, Remote!Prepare(b) PROVE RemoteInv'
    <2>1. Remote!Does(b, "prepare") /\ Remote!After("prepare") \in Steps
      BY <1>2, Successors DEF Remote!Prepare, Steps
    <2>2. (DOMAIN local = Builders /\ DOMAIN archive = Builders)'
      BY <1>2 DEF Remote!Prepare, Remote!remoteVars, RemoteType
    <2>3. Fresh(b)'
      BY <1>2, <2>1, DoesOne, Successors, NotHidden
         DEF Remote!Prepare, Remote!remoteVars, RemoteType, Fresh, Packed, Remote!Visible, Remote!SetCwd, Remote!Cwd, Remote!NoTar
    <2>4. ASSUME calm' PROVE Orderly'
      <3>1. calm /\ Orderly /\ \A c \in Builders \ {b} : step[c] = "idle" /\ step'[c] = "idle"
        BY <1>2, <2>1, DoesOne, Successors, <2>4 DEF Steps
      <3>2. \A c, d \in Builders : step'[c] # "idle" /\ step'[d] # "idle" => c = d
        BY <3>1
      <3>3. HomeKept' /\ kind' \in {"none", "dir"}
            /\ (\A c \in Builders : step'[c] = "clean_comm" /\ kind' # "dir" => vain')
            /\ (\A c \in Builders : step'[c] \in Transferring \cup {"scp"} => kind' = "dir")
        BY <1>2, <2>1, DoesOne, Successors, <3>1 DEF Orderly, HomeKept, Transferring, Remote!Prepare, Remote!remoteVars, Remote!SetCwd, Remote!Cwd, Remote!Visible
      <3>4. \A c \in Builders :
              archive'[c] # Remote!NoTar =>
                step'[c] \in {"prepare", "scp", "untar", "dependences", "build_comm", "rmLocal"}
        BY <1>2, <2>1, DoesOne, Successors, <3>1 DEF Orderly, HomeKept, Remote!Prepare, Remote!remoteVars, Remote!SetCwd, Remote!Cwd, Remote!Visible
      <3>5. {"temp.tar", "rbuilder.conf"} \cap work' # {} =>
              \E c \in Builders : step'[c] \in Transferring
        BY <1>2, <2>1, DoesOne, Successors, <3>1 DEF Orderly, HomeKept, Transferring, Remote!Prepare, Remote!remoteVars, Remote!SetCwd, Remote!Cwd, Remote!Visible
      <3> QED  BY <3>2, <3>3, <3>4, <3>5 DEF Orderly, HomeKept
    <2>5. Orderly'
      BY <2>4 DEF Orderly, HomeKept
    <2> QED  BY <1>a, <2>1, <2>2, <2>3, <2>5 DEF Steps
  <1>3. ASSUME NEW b \in Builders, Remote!Scp(b) PROVE RemoteInv'
    <2>1. Remote!Does(b, "scp") /\ Remote!After("scp") \in Steps
      BY <1>3, Successors DEF Remote!Scp, Steps
    <2>2. (DOMAIN local = Builders /\ DOMAIN archive = Builders)'
      BY <1>3 DEF Remote!Scp, Remote!remoteVars, RemoteType
    <2>3. Fresh(b)'
      BY <1>3, <2>1, DoesOne, Successors, NotHidden
         DEF Remote!Scp, Remote!remoteVars, RemoteType, Fresh, Packed, Remote!NoTar, Remote!Visible
    <2>4. ASSUME calm' PROVE Orderly'
      <3>1. calm /\ Orderly /\ \A c \in Builders \ {b} : step[c] = "idle" /\ step'[c] = "idle"
        BY <1>3, <2>1, DoesOne, Successors, <2>4 DEF Steps
      <3>2. \A c, d \in Builders : step'[c] # "idle" /\ step'[d] # "idle" => c = d
        BY <3>1
      <3>3. HomeKept' /\ kind' \in {"none", "dir"}
            /\ (\A c \in Builders : step'[c] = "clean_comm" /\ kind' # "dir" => vain')
            /\ (\A c \in Builders : step'[c] \in Transferring \cup {"scp"} => kind' = "dir")
        BY <1>3, <2>1, DoesOne, Successors, <3>1 DEF Orderly, HomeKept, Transferring, Remote!Scp, Remote!remoteVars
      <3>4. \A c \in Builders :
              archive'[c] # Remote!NoTar =>
                step'[c] \in {"prepare", "scp", "untar", "dependences", "build_comm", "rmLocal"}
        BY <1>3, <2>1, DoesOne, Successors, <3>1 DEF Orderly, HomeKept, Remote!Scp, Remote!remoteVars
      <3>5. {"temp.tar", "rbuilder.conf"} \cap work' # {} =>
              \E c \in Builders : step'[c] \in Transferring
        BY <1>3, <2>1, DoesOne, Successors, <3>1 DEF Orderly, HomeKept, Transferring, Remote!Scp, Remote!remoteVars
      <3> QED  BY <3>2, <3>3, <3>4, <3>5 DEF Orderly, HomeKept
    <2>5. Orderly'
      BY <2>4 DEF Orderly, HomeKept
    <2> QED  BY <1>a, <2>1, <2>2, <2>3, <2>5 DEF Steps
  <1>4. ASSUME NEW b \in Builders, Remote!Untar(b) PROVE RemoteInv'
    <2>1. Remote!Does(b, "untar") /\ Remote!After("untar") \in Steps
      BY <1>4, Successors DEF Remote!Untar, Steps
    <2>2. (DOMAIN local = Builders /\ DOMAIN archive = Builders)'
      BY <1>4 DEF Remote!Untar, Remote!remoteVars, RemoteType
    <2>3. Fresh(b)'
      BY <1>4, <2>1, DoesOne, Successors, NotHidden
         DEF Remote!Untar, Remote!remoteVars, RemoteType, Fresh, Packed, Remote!Visible
    <2>4. Orderly'
      BY <1>4, <2>1, DoesOne, Successors, NotHidden
         DEF Remote!Untar, Remote!remoteVars, RemoteType, Orderly, HomeKept, Transferring, Fresh, Packed, Remote!Visible
    <2> QED  BY <1>a, <2>1, <2>2, <2>3, <2>4 DEF Steps
  <1>5. ASSUME NEW b \in Builders, Remote!Build(b) PROVE RemoteInv'
    <2>1. Remote!Does(b, "build_comm") /\ Remote!After("build_comm") \in Steps
      BY <1>5, Successors DEF Remote!Build, Steps
    <2>2. (DOMAIN local = Builders /\ DOMAIN archive = Builders)'
      BY <1>5 DEF Remote!Build, Remote!remoteVars, RemoteType
    <2>3. Fresh(b)'
      BY <1>5, <2>1, DoesOne, Successors, NotHidden
         DEF Remote!Build, Remote!remoteVars, RemoteType, Fresh, Packed, Remote!SetCwd, Remote!Cwd, Remote!Visible
    <2>4. Orderly'
      BY <1>5, <2>1, DoesOne, Successors, NotHidden
         DEF Remote!Build, Remote!remoteVars, RemoteType, Orderly, HomeKept, Transferring, Fresh, Packed, Remote!SetCwd, Remote!Cwd, Remote!Visible
    <2> QED  BY <1>a, <2>1, <2>2, <2>3, <2>4 DEF Steps
  <1>6. ASSUME NEW b \in Builders, Remote!RmLocal(b) PROVE RemoteInv'
    <2>1. Remote!Does(b, "rmLocal") /\ Remote!After("rmLocal") \in Steps
      BY <1>6, Successors DEF Remote!RmLocal, Steps
    <2>2. (DOMAIN local = Builders /\ DOMAIN archive = Builders)'
      BY <1>6 DEF Remote!RmLocal, Remote!remoteVars, RemoteType
    <2>3. Fresh(b)'
      BY <1>6, <2>1, DoesOne, Successors, NotHidden
         DEF Remote!RmLocal, Remote!remoteVars, RemoteType, Fresh, Packed
    <2>4. Orderly'
      BY <1>6, <2>1, DoesOne, Successors, NotHidden
         DEF Remote!RmLocal, Remote!remoteVars, RemoteType, Orderly, HomeKept, Transferring, Fresh, Packed
    <2> QED  BY <1>a, <2>1, <2>2, <2>3, <2>4 DEF Steps
  <1>7. ASSUME NEW b \in Builders, Remote!RmRemote(b) PROVE RemoteInv'
    <2>1. Remote!Does(b, "rmRemote") /\ Remote!After("rmRemote") \in Steps
      BY <1>7, Successors DEF Remote!RmRemote, Steps
    <2>2. (DOMAIN local = Builders /\ DOMAIN archive = Builders)'
      BY <1>7 DEF Remote!RmRemote, Remote!remoteVars, RemoteType
    <2>3. Fresh(b)'
      BY <1>7, <2>1, DoesOne, Successors, NotHidden
         DEF Remote!RmRemote, Remote!remoteVars, RemoteType, Fresh, Packed, Remote!SetCwd, Remote!Cwd
    <2>4. Orderly'
      BY <1>7, <2>1, DoesOne, Successors, NotHidden
         DEF Remote!RmRemote, Remote!remoteVars, RemoteType, Orderly, HomeKept, Transferring, Fresh, Packed, Remote!SetCwd, Remote!Cwd
    <2> QED  BY <1>a, <2>1, <2>2, <2>3, <2>4 DEF Steps
  <1>8. ASSUME NEW b \in Builders, Remote!CleanComm(b) PROVE RemoteInv'
    <2>1. Remote!Does(b, "clean_comm") /\ Remote!After("clean_comm") \in Steps
      BY <1>8, Successors DEF Remote!CleanComm, Steps
    <2>2. (DOMAIN local = Builders /\ DOMAIN archive = Builders)'
      BY <1>8 DEF Remote!CleanComm, Remote!remoteVars, RemoteType
    <2>3. Fresh(b)'
      BY <1>8, <2>1, DoesOne, Successors, NotHidden
         DEF Remote!CleanComm, Remote!remoteVars, RemoteType, Fresh, Packed, Remote!SetCwd, Remote!Cwd
    <2>4. Orderly'
      BY <1>8, <2>1, DoesOne, Successors, NotHidden
         DEF Remote!CleanComm, Remote!remoteVars, RemoteType, Orderly, HomeKept, Transferring, Fresh, Packed, Remote!SetCwd, Remote!Cwd
    <2> QED  BY <1>a, <2>1, <2>2, <2>3, <2>4 DEF Steps
  <1>9. ASSUME NEW b \in Builders, Remote!RmWork(b) PROVE RemoteInv'
    <2>1. Remote!Does(b, "rmWork") /\ Remote!After("rmWork") \in Steps
      BY <1>9, Successors DEF Remote!RmWork, Steps
    <2>2. (DOMAIN local = Builders /\ DOMAIN archive = Builders)'
      BY <1>9 DEF Remote!RmWork, Remote!remoteVars, RemoteType
    <2>3. Fresh(b)'
      BY <1>9, <2>1, DoesOne, Successors, NotHidden
         DEF Remote!RmWork, Remote!remoteVars, RemoteType, Fresh, Packed
    <2>4. Orderly'
      BY <1>9, <2>1, DoesOne, Successors, NotHidden
         DEF Remote!RmWork, Remote!remoteVars, RemoteType, Orderly, HomeKept, Transferring, Fresh, Packed
    <2> QED  BY <1>a, <2>1, <2>2, <2>3, <2>4 DEF Steps
  <1>10. ASSUME NEW b \in Builders, Remote!OtherComm(b) PROVE RemoteInv'
    <2>1. PICK s \in {"dependences", "install_comm"} : Remote!Does(b, s)
      BY <1>10 DEF Remote!OtherComm
    <2>2. Remote!After(s) \in {"build_comm", "idle"} /\ s \in Steps /\ Remote!After(s) \in Steps
          /\ (s = "dependences" => Remote!After(s) = "build_comm")
          /\ (s = "install_comm" => Remote!After(s) = "idle")
      BY Successors DEF Steps
    <2>3. UNCHANGED <<local, archive, kind, work, sent, home>>
      BY <1>10 DEF Remote!OtherComm, Remote!remoteVars
    <2>4. Fresh(b)'
      BY <2>1, <2>2, <2>3, DoesOne DEF RemoteType, Fresh
    <2>5. Orderly'
      BY <2>1, <2>2, <2>3, DoesOne DEF RemoteType, Orderly, HomeKept, Transferring
    <2> QED  BY <1>a, <2>1, <2>2, <2>3, <2>4, <2>5 DEF RemoteType
  <1>11. ASSUME NEW b \in Builders, Remote!Start(b) PROVE RemoteInv'
    <2>1. step' \in [Builders -> Steps] /\ step'[b] \in {"tar", "install_comm", "clean_comm"}
          /\ \A c \in Builders \ {b} : step'[c] = step[c]
      BY <1>11, FirstSteps DEF Remote!Start, RemoteType, Steps
    <2>2. DOMAIN local' = Builders /\ "rbuilder.conf" \in local'[b]
          /\ \A c \in Builders \ {b} : local'[c] = local[c]
      BY <1>11 DEF Remote!Start, RemoteType
    <2>3. alone' \in [Builders -> BOOLEAN] /\ (\A c \in Builders \ {b} : alone'[c] = alone[c])
          /\ (alone'[b] => \A c \in Builders \ {b} : step[c] = "idle")
      BY <1>11 DEF Remote!Start, RemoteType
    <2>4. calm' = (calm /\ \A c \in Builders : alone'[c])
      BY <1>11 DEF Remote!Start, Remote!Calm
    <2>5. step[b] = "idle" /\ (vain => vain') /\ (step'[b] = "clean_comm" /\ kind # "dir" => vain')
          /\ UNCHANGED <<archive, kind, work, sent, home>>
      BY <1>11, FirstSteps DEF Remote!Start, Remote!remoteVars, RemoteType
    <2>6. RemoteType'
      BY <2>1, <2>2, <2>3, <2>4, <2>5 DEF RemoteType
    <2>7. \A c \in Builders : Fresh(c)'
      BY <2>1, <2>2, <2>3, <2>5 DEF Fresh, Packed
    <2>8. ASSUME calm' PROVE Orderly'
      <3>1. calm /\ Orderly /\ \A c \in Builders \ {b} : step[c] = "idle" /\ step'[c] = "idle"
        BY <2>1, <2>3, <2>4, <2>5, <2>8 DEF Steps
      <3>2. \A c, d \in Builders : step'[c] # "idle" /\ step'[d] # "idle" => c = d
        BY <3>1
      <3>3. HomeKept' /\ kind' \in {"none", "dir"}
            /\ (\A c \in Builders : step'[c] = "clean_comm" /\ kind' # "dir" => vain')
            /\ (\A c \in Builders : step'[c] \in Transferring \cup {"scp"} => kind' = "dir")
        BY <2>1, <2>3, <2>4, <2>5, <3>1 DEF Orderly, HomeKept, Transferring
      <3>4. \A c \in Builders :
              archive'[c] # Remote!NoTar =>
                step'[c] \in {"prepare", "scp", "untar", "dependences", "build_comm", "rmLocal"}
        BY <2>1, <2>3, <2>4, <2>5, <3>1 DEF Orderly, HomeKept
      <3>5. {"temp.tar", "rbuilder.conf"} \cap work' # {} =>
              \E c \in Builders : step'[c] \in Transferring
        BY <2>1, <2>3, <2>4, <2>5, <3>1 DEF Orderly, HomeKept, Transferring
      <3> QED  BY <3>2, <3>3, <3>4, <3>5 DEF Orderly, HomeKept
    <2>9. Orderly'
      BY <2>8 DEF Orderly, HomeKept
    <2> QED  BY <2>6, <2>7, <2>9
  <1>12. ASSUME NEW b \in Builders, Remote!Empty(b) PROVE RemoteInv'
    <2>1. /\ step[b] \in {"dependences", "build_comm", "install_comm", "clean_comm"}
          /\ step' = [step EXCEPT ![b] = Remote!After(step[b])]
          /\ UNCHANGED <<local, archive, kind, work, sent, home, vain, alone, calm>>
      BY <1>12 DEF Remote!Empty, Remote!Lists, Remote!remoteVars
    <2>2. /\ step' \in [Builders -> Steps] /\ \A c \in Builders \ {b} : step'[c] = step[c]
          /\ step[b] = "dependences" => step'[b] = "build_comm"
          /\ step[b] = "build_comm" => step'[b] = "rmLocal"
          /\ step[b] = "install_comm" => step'[b] = "idle"
          /\ step[b] = "clean_comm" => step'[b] = "rmWork"
      BY <2>1, Successors DEF RemoteType, Steps
    <2>3. \A c \in Builders : Fresh(c)'
      BY <2>1, <2>2 DEF Fresh, Packed
    <2>4. Orderly'
      BY <2>1, <2>2 DEF Orderly, HomeKept, Transferring
    <2> QED  BY <2>1, <2>2, <2>3, <2>4 DEF RemoteType
  <1>13. ASSUME NEW b \in Builders, Remote!Fails(b) \/ Remote!Killed(b) PROVE RemoteInv'
    <2>1. /\ step[b] # "idle" /\ UNCHANGED <<local, archive, kind, work, sent, home>>
          /\ \/ step' = [step EXCEPT ![b] = Remote!After(step[b])]
             \/ step' = [step EXCEPT ![b] = "idle"]
      BY <1>13 DEF Remote!Fails, Remote!Killed, Remote!remoteVars
    <2>2. step' \in [Builders -> Steps] /\ \A c \in Builders \ {b} : step'[c] = step[c]
      <3>1. \A s \in Steps \ {"idle"} : Remote!After(s) \in Steps
        BY Successors DEF Steps
      <3>2. "idle" \in Steps
        BY DEF Steps
      <3> QED  BY <2>1, <3>1, <3>2 DEF RemoteType
    <2>3. alone' = [[c \in Builders |-> alone[c] /\ (c = b \/ step[c] = "idle")] EXCEPT ![b] = FALSE]
      BY <1>13 DEF Remote!Fails, Remote!Killed, Remote!Alone
    <2>4. /\ alone' \in [Builders -> BOOLEAN] /\ ~alone'[b]
          /\ \A c \in Builders \ {b} : alone'[c] => step[c] = "idle"
      BY <2>3 DEF RemoteType
    <2>5. calm' = (calm /\ \A c \in Builders : alone'[c])
      BY <1>13 DEF Remote!Fails, Remote!Killed, Remote!Calm
    <2>6. \A c \in Builders : Fresh(c)'
      BY <2>2, <2>4, OthersFresh DEF Fresh
    <2>7. Orderly'
      BY <2>4, <2>5 DEF Orderly, HomeKept
    <2> QED  BY <2>1, <2>2, <2>4, <2>5, <2>6, <2>7 DEF RemoteType
  <1>14. CASE UNCHANGED Remote!vars
    BY <1>14 DEF Remote!vars, Remote!builderVars, Remote!remoteVars, RemoteType, Fresh, Packed,
                 Orderly, HomeKept
  <1> QED
    BY <1>1, <1>2, <1>3, <1>4, <1>5, <1>6, <1>7, <1>8, <1>9, <1>10, <1>11, <1>12, <1>13, <1>14
       DEF Remote!Next

\* Only a build makes a hidden file, its own.
LEMMA StepHidden == RemoteInv /\ HiddenStay /\ [Remote!Next]_Remote!vars => HiddenStay'
  <1> SUFFICES ASSUME RemoteInv, HiddenStay, [Remote!Next]_Remote!vars PROVE HiddenStay'
    OBVIOUS
  <1> USE DEF RemoteInv, RemoteType, HiddenStay
  <1>1. ASSUME NEW b \in Builders, Remote!Tar(b) PROVE HiddenStay'
    <2>1. /\ archive' = [archive EXCEPT ![b] = local[b] \ Remote!Hidden]
          /\ UNCHANGED <<work, sent>>
      BY <1>1 DEF Remote!Tar, Remote!Visible, Remote!remoteVars
    <2> QED  BY <2>1
  <1>2. ASSUME NEW b \in Builders, Remote!RmLocal(b) PROVE HiddenStay'
    BY <1>2 DEF Remote!RmLocal, Remote!remoteVars
  <1>3. ASSUME NEW b \in Builders, Remote!Build(b) \/ Remote!RmRemote(b) \/ Remote!CleanComm(b)
                                    \/ Remote!Prepare(b) \/ Remote!RmWork(b)
        PROVE  HiddenStay'
    <2>1. work' \subseteq work \cup {"out", ".cache"} /\ sent' \subseteq sent /\ archive' = archive
      BY <1>3 DEF Remote!Build, Remote!RmRemote, Remote!CleanComm, Remote!Prepare, Remote!RmWork,
                  Remote!SetCwd, Remote!Cwd
    <2>2. "out" \notin Remote!Hidden
      BY HiddenAssumption DEF Remote!Hidden
    <2> QED  BY <2>1, <2>2
  <1>4. ASSUME NEW b \in Builders, Remote!Scp(b) PROVE HiddenStay'
    <2>1. /\ archive' = archive /\ work' \subseteq work \cup {"temp.tar"}
          /\ sent' = sent \/ (archive[b] # Remote!NoTar /\ sent' = archive[b])
      BY <1>4 DEF Remote!Scp, Remote!remoteVars
    <2> QED  BY <2>1, NotHidden
  <1>5. ASSUME NEW b \in Builders, Remote!Untar(b) PROVE HiddenStay'
    <2>1. archive' = archive /\ sent' = sent /\ work' \subseteq work \cup sent
      BY <1>5 DEF Remote!Untar
    <2> QED  BY <2>1
  <1>6. ASSUME NEW b \in Builders,
               Remote!OtherComm(b) \/ Remote!Start(b) \/ Remote!Empty(b) \/ Remote!Fails(b) \/ Remote!Killed(b)
        PROVE  HiddenStay'
    BY <1>6 DEF Remote!OtherComm, Remote!Start, Remote!Empty, Remote!Fails, Remote!Killed, Remote!remoteVars
  <1>7. CASE UNCHANGED Remote!vars
    BY <1>7 DEF Remote!vars, Remote!builderVars, Remote!remoteVars
  <1> QED  BY <1>1, <1>2, <1>3, <1>4, <1>5, <1>6, <1>7 DEF Remote!Next

\* The build commands of an undisturbed run find the user's files and no
\* others, but for hidden ones: none of the user's, and those of earlier builds.
\* For any number of copies of rbuilder, runs and files and whatever
\* runs that failed have left on the host.
THEOREM BuildsAreFresh == Spec => []FreshBuild
  <1>1. RemoteInv /\ HiddenStay => Remote!FreshBuild
    BY DEF RemoteInv, HiddenStay, Fresh, Remote!FreshBuild, Remote!Undisturbed, Remote!Visible
  <1>2. Remote!Init => HiddenStay
    BY DEF Remote!Init, HiddenStay
  <1>4. Remote!Spec => []Remote!FreshBuild
    BY <1>1, <1>2, RemoteStart, StepRemote, StepHidden, PTL DEF Remote!Spec
  <1>3. Remote!FreshBuild => FreshBuild
    BY DEF FreshBuild
  <1> QED  BY <1>3, <1>4, RemoteApart, PTL

\* As long as no run has failed or met another one, the home directory keeps
\* its files, but for what a clean without a work directory removes there, no
\* file takes the place of the work directory, and nothing that served only the transfer stays behind.
THEOREM HostStaysTidy == Spec => []HostKept
  <1>1. RemoteInv => Remote!HostKept
    BY DEF RemoteInv, Orderly, HomeKept, Transferring, Remote!HostKept
  <1>2. Remote!Spec => []Remote!HostKept
    BY <1>1, RemoteStart, StepRemote, PTL DEF Remote!Spec
  <1>3. Remote!HostKept => HostKept
    BY DEF HostKept
  <1> QED  BY <1>2, <1>3, RemoteApart, PTL

----------------------------------------------------------------------------
(* logstat: the walk down the urls sorted by bytes. *)

Unit == [name : Urls, bytes : Int, count : Int, was : Int]

Ascending == \A p, q \in 0 .. len - 1 : p < q => arr[p].bytes <= arr[q].bytes

TopType ==
    /\ len \in Nat /\ i \in Int /\ j \in Int /\ asu1 \in Int
    /\ arr \in [0 .. len - 1 -> Unit]
    /\ Ascending
    /\ top \in Seq(Unit)
    /\ i = STAT_UNIT_SIZE - 1 - Len(top)

\* A unit of the top stands for unit p.
Covered(p) ==
    \E n \in DOMAIN top : top[n].bytes >= arr[p].bytes /\ <<arr[p].name, top[n].name>> \in Prefix

\* What has been listed has been passed, what has been passed is covered, and
\* asu1 is the last one listed.
Walked ==
    len > 1 =>
      /\ 0 <= j /\ j <= len - 2
      /\ \A n \in DOMAIN top : \E q \in j + 1 .. len - 2 : top[n] = arr[q]
      /\ j < len - 2 => asu1 \in j + 1 .. len - 2 /\ \E n \in DOMAIN top : top[n] = arr[asu1]
      /\ \A p \in j + 1 .. len - 2 : Covered(p)

TopInv ==
    /\ pc \in {"urls", "urlsDone"} => TopType /\ Walked
    /\ pc = "urlsDone" => len > 1 /\ (j = 0 \/ i = 0)

LEMMA TopStart == ASSUME Tops!Init PROVE TopInv
  <1> SUFFICES ASSUME pc = "urls" PROVE TopType /\ Walked
    BY DEF TopInv, Tops!Init
  <1>1. /\ len \in 0 .. MaxLines /\ asu1 = len - 1 /\ top = <<>>
        /\ arr \in Tops!NewUnits(len, 0 .. MaxBytes) /\ Tops!Sorted(Tops!Bytes(arr))
        /\ i = STAT_UNIT_SIZE - 1 /\ j = len - 2
    BY DEF Tops!Init
  <1>2. arr \in [0 .. len - 1 -> Unit]
    BY <1>1 DEF Tops!NewUnits, Unit
  <1>3. Ascending
    BY <1>1, <1>2 DEF Tops!Sorted, Tops!Bytes, Ascending
  <1> QED  BY <1>1, <1>2, <1>3, TopAssumption DEF TopType, Walked

\* A unit whose url begins the one listed last is skipped, the others are
\* listed themselves.
LEMMA TurnWalks == ASSUME TopInv, Tops!UrlTurn PROVE TopType' /\ Walked'
  <1>1. /\ pc = "urls" /\ len > 1 /\ j > 0 /\ i > 0 /\ TopType /\ Walked
        /\ j' = j - 1 /\ arr' = arr /\ len' = len
    BY DEF Tops!UrlTurn, TopInv
  <1>2. /\ arr[j] \in Unit /\ j \in 0 .. len - 1 /\ arr[j].name \in Urls /\ arr[j].bytes \in Int
    BY <1>1 DEF TopType, Walked, Unit
  <1>3. \A q \in j + 1 .. len - 2 : arr[q].bytes >= arr[j].bytes /\ arr[q] \in Unit
    <2> SUFFICES ASSUME NEW q \in j + 1 .. len - 2
                 PROVE  arr[q].bytes >= arr[j].bytes /\ arr[q] \in Unit
      OBVIOUS
    <2>1. q \in 0 .. len - 1 /\ j < q
      BY <1>1, <1>2 DEF TopType
    <2>2. arr[q] \in Unit /\ arr[q].bytes \in Int /\ arr[j].bytes <= arr[q].bytes
      BY <1>1, <1>2, <2>1 DEF TopType, Ascending, Unit
    <2> QED  BY <1>2, <2>2
  <1>4. CASE j = len - 2 \/ ~Tops!SameName(j, asu1)
    <2>1. top' = Append(top, arr[j]) /\ asu1' = j /\ i' = i - 1
      BY <1>4 DEF Tops!UrlTurn
    <2>2. /\ top' \in Seq(Unit) /\ Len(top') = Len(top) + 1
          /\ DOMAIN top' = DOMAIN top \cup {Len(top) + 1} /\ top'[Len(top) + 1] = arr[j]
          /\ \A n \in DOMAIN top : top'[n] = top[n]
      BY <1>1, <1>2, <2>1 DEF TopType
    <2>3. TopType'
      BY <1>1, <2>1, <2>2, TopAssumption DEF TopType, Ascending
    <2>4. \A p \in j + 1 .. len - 2 : Covered(p)'
      BY <1>1, <2>2 DEF Walked, Covered
    <2>5. <<arr[j].name, arr[j].name>> \in Prefix /\ arr[j].bytes >= arr[j].bytes
      <3>1. \A u \in Urls : <<u, u>> \in Prefix
        BY TopAssumption
      <3> QED  BY <1>2, <3>1
    <2>6. \A p \in {j} : Covered(p)'
      BY <1>1, <2>2, <2>5 DEF Covered
    <2>7. /\ 0 <= j - 1 /\ j - 1 <= len - 2 /\ j \in (j - 1) + 1 .. len - 2
          /\ (j - 1) + 1 .. len - 2 = (j + 1 .. len - 2) \cup {j}
      BY <1>1 DEF TopType, Walked
    <2>8. \A n \in DOMAIN top' : \E q \in (j - 1) + 1 .. len - 2 : top'[n] = arr[q]
      BY <1>1, <2>2, <2>7 DEF Walked
    <2>9. \A p \in (j - 1) + 1 .. len - 2 : Covered(p)'
      BY <2>4, <2>6, <2>7
    <2> QED  BY <1>1, <2>1, <2>2, <2>3, <2>7, <2>8, <2>9 DEF Walked
  <1>5. CASE ~(j = len - 2 \/ ~Tops!SameName(j, asu1))
    <2>1. top' = top /\ asu1' = asu1 /\ i' = i
      BY <1>5 DEF Tops!UrlTurn
    <2>2. /\ <<arr[j].name, arr[asu1].name>> \in Prefix /\ j < len - 2
      BY <1>1, <1>5 DEF Tops!SameName, TopType, Walked
    <2>3. PICK n \in DOMAIN top : top[n] = arr[asu1]
      BY <1>1, <2>2 DEF Walked
    <2>4. arr[asu1].bytes >= arr[j].bytes /\ asu1 \in j + 1 .. len - 2
      BY <1>1, <1>3, <2>2 DEF Walked
    <2>5. \A p \in {j} : Covered(p)'
      BY <1>1, <2>1, <2>2, <2>3, <2>4 DEF Covered
    <2>6. \A p \in j + 1 .. len - 2 : Covered(p)'
      BY <1>1, <2>1 DEF Walked, Covered
    <2>7. /\ 0 <= j - 1 /\ j - 1 <= len - 2 /\ asu1 \in (j - 1) + 1 .. len - 2
          /\ (j - 1) + 1 .. len - 2 = (j + 1 .. len - 2) \cup {j}
      BY <1>1, <2>4 DEF TopType, Walked
    <2>8. \A m \in DOMAIN top' : \E q \in (j - 1) + 1 .. len - 2 : top'[m] = arr[q]
      BY <1>1, <2>1, <2>7 DEF Walked
    <2>9. \A p \in (j - 1) + 1 .. len - 2 : Covered(p)'
      BY <2>5, <2>6, <2>7
    <2>10. TopType'
      BY <1>1, <2>1 DEF TopType, Ascending
    <2> QED  BY <1>1, <2>1, <2>3, <2>7, <2>8, <2>9, <2>10 DEF Walked
  <1> QED  BY <1>4, <1>5

LEMMA TopStep == TopInv /\ [Tops!Next]_Tops!vars => TopInv'
  <1> SUFFICES ASSUME TopInv, [Tops!Next]_Tops!vars PROVE TopInv'
    OBVIOUS
  <1>1. CASE Tops!UrlTurn
    <2>1. TopType' /\ Walked' /\ pc' = "urls"
      BY <1>1, TurnWalks DEF Tops!UrlTurn
    <2> QED  BY <2>1 DEF TopInv
  <1>2. CASE Tops!UrlEnd
    BY <1>2 DEF Tops!UrlEnd, TopInv, TopType, Ascending, Walked, Covered
  <1>3. CASE Tops!RefTurn \/ Tops!RefEnd \/ Tops!Sort \/ Tops!ListTurn \/ Tops!SumTurn
               \/ Tops!SumEnd \/ Tops!SumListTurn
    <2>1. pc' \notin {"urls", "urlsDone"}
      BY <1>3 DEF Tops!RefTurn, Tops!RefEnd, Tops!Sort, Tops!ListTurn, Tops!SumTurn, Tops!SumEnd,
                  Tops!SumListTurn
    <2> QED  BY <2>1 DEF TopInv
  <1>4. CASE UNCHANGED Tops!vars
    BY <1>4 DEF Tops!vars, TopInv, TopType, Ascending, Walked, Covered
  <1> QED  BY <1>1, <1>2, <1>3, <1>4 DEF Tops!Next

LEMMA TopEnd == ASSUME TopInv PROVE Tops!TopIsLargest
  <1> SUFFICES ASSUME pc = "urlsDone", NEW p \in 1 .. len - 2
               PROVE  \/ \E n \in DOMAIN top :
                           top[n].bytes >= arr[p].bytes /\ <<arr[p].name, top[n].name>> \in Prefix
                      \/ /\ Len(top) = STAT_UNIT_SIZE - 1
                         /\ \A n \in DOMAIN top : top[n].bytes >= arr[p].bytes
    BY DEF Tops!TopIsLargest, Tops!AsLarge
  <1>1. TopType /\ Walked /\ len > 1 /\ (j = 0 \/ i = 0)
    BY DEF TopInv
  <1>2. CASE p > j
    <2>1. p \in j + 1 .. len - 2
      BY <1>1, <1>2 DEF TopType
    <2> QED  BY <1>1, <2>1 DEF Walked, Covered
  <1>3. CASE p <= j
    <2>1. i = 0 /\ Len(top) \in Nat
      BY <1>1, <1>3 DEF TopType
    <2>2. Len(top) = STAT_UNIT_SIZE - 1
      BY <1>1, <2>1, TopAssumption DEF TopType
    <2>3. ASSUME NEW n \in DOMAIN top PROVE top[n].bytes >= arr[p].bytes
      <3>1. PICK q \in j + 1 .. len - 2 : top[n] = arr[q]
        BY <1>1 DEF Walked
      <3>2. p \in 0 .. len - 1 /\ q \in 0 .. len - 1 /\ p < q
        BY <1>1, <1>3 DEF TopType, Walked
      <3>3. arr[p].bytes <= arr[q].bytes /\ arr[p].bytes \in Int /\ arr[q].bytes \in Int
        BY <1>1, <3>2 DEF TopType, Ascending, Unit
      <3> QED  BY <3>1, <3>3
    <2> QED  BY <2>2, <2>3
  <1> QED  BY <1>1, <1>2, <1>3 DEF TopType

\* Between the ends of the sorted array a unit is left out of the top for one
\* of three reasons only: its url is listed, the list is full of units as
\* large, or its url begins a listed one as large, which makes the code take
\* another url for the same.  For files, tops and urls of any size.
THEOREM TopsAreLargest == Spec => []TopIsLargest
  <1> DEFINE Inv == prog = "tops" => TopInv
  <1>1. Init => Inv
    BY TopStart DEF Init
  <1>2. Inv /\ [Next]_vars => Inv'
    BY TopStep, Apart
  <1>3. Inv => TopIsLargest
    BY TopEnd DEF TopIsLargest
  <1> QED  BY <1>1, <1>2, <1>3, PTL DEF Spec

----------------------------------------------------------------------------
(* Sums over sets of indices: the sum of MapThenSumSet, which takes the     *)
(* elements in an unknown order, is the one that any order gives.           *)

\* all[S] is the sum of v over S, whichever element is taken first.
Totals(all, n, v) ==
    /\ all[{}] = 0
    /\ \A S \in SUBSET (0 .. n) : \A x \in S : all[S] = v[x] + all[S \ {x}]

\* iter is the iteration by which MapThenSumSet sums v over S.
Iterates(iter, S, v) ==
    iter = [s \in SUBSET S |->
              IF s = {} THEN 0
              ELSE v[CHOOSE x \in s : TRUE] + iter[s \ {CHOOSE x \in s : TRUE}]]

LEMMA TotalsGrow ==
    ASSUME NEW n \in Nat, NEW v, \A q \in 0 .. n + 1 : v[q] \in Int,
           NEW all \in [SUBSET (0 .. n) -> Int], Totals(all, n, v)
    PROVE  \E more \in [SUBSET (0 .. n + 1) -> Int] : Totals(more, n + 1, v)
  <1> DEFINE more == [S \in SUBSET (0 .. n + 1) |->
                        IF n + 1 \in S THEN v[n + 1] + all[S \ {n + 1}] ELSE all[S]]
  <1>1. ASSUME NEW S \in SUBSET (0 .. n + 1)
        PROVE  /\ S \ {n + 1} \in SUBSET (0 .. n)
               /\ n + 1 \notin S => S \in SUBSET (0 .. n)
    <2>1. \A x \in 0 .. n + 1 : x # n + 1 => x \in 0 .. n
      OBVIOUS
    <2> QED  BY <2>1
  <1>2. more \in [SUBSET (0 .. n + 1) -> Int]
    <2>1. ASSUME NEW S \in SUBSET (0 .. n + 1)
          PROVE  (IF n + 1 \in S THEN v[n + 1] + all[S \ {n + 1}] ELSE all[S]) \in Int
      BY <1>1
    <2> QED  BY <2>1
  <1>3. more[{}] = 0
    BY DEF Totals
  <1>4. ASSUME NEW S \in SUBSET (0 .. n + 1), NEW x \in S
        PROVE  more[S] = v[x] + more[S \ {x}]
    <2>0. S \ {x} \in SUBSET (0 .. n + 1)
      OBVIOUS
    <2>1. CASE n + 1 \notin S
      <3>1. more[S] = all[S] /\ more[S \ {x}] = all[S \ {x}]
        BY <2>1, <2>0
      <3> QED  BY <3>1, <2>1, <1>1 DEF Totals
    <2>2. CASE x = n + 1
      <3>1. more[S] = v[x] + all[S \ {x}] /\ more[S \ {x}] = all[S \ {x}]
        BY <2>2, <2>0
      <3> QED  BY <3>1
    <2>3. CASE n + 1 \in S /\ x # n + 1
      <3>1. more[S] = v[n + 1] + all[S \ {n + 1}]
            /\ more[S \ {x}] = v[n + 1] + all[(S \ {x}) \ {n + 1}]
        BY <2>3, <2>0
      <3>2. S \ {n + 1} \in SUBSET (0 .. n) /\ x \in S \ {n + 1}
            /\ (S \ {n + 1}) \ {x} = (S \ {x}) \ {n + 1} /\ (S \ {x}) \ {n + 1} \in SUBSET (0 .. n)
        BY <2>3, <1>1
      <3>3. all[S \ {n + 1}] = v[x] + all[(S \ {x}) \ {n + 1}]
        BY <3>2 DEF Totals
      <3>4. all[S \ {n + 1}] \in Int /\ all[(S \ {x}) \ {n + 1}] \in Int
        BY <3>2
      <3>5. v[x] \in Int /\ v[n + 1] \in Int
        OBVIOUS
      <3> HIDE DEF more
      <3> QED  BY <3>1, <3>3, <3>4, <3>5
    <2> QED  BY <2>1, <2>2, <2>3
  <1> HIDE DEF more
  <1> QED  BY <1>2, <1>3, <1>4 DEF Totals

LEMMA SumExists ==
    ASSUME NEW n \in Nat, NEW v \in [0 .. n -> Int]
    PROVE  \E all \in [SUBSET (0 .. n) -> Int] : Totals(all, n, v)
  <1> DEFINE P(m) == m <= n => \E all \in [SUBSET (0 .. m) -> Int] : Totals(all, m, v)
             Good == {m \in Nat : P(m)}
  <1>1. P(0)
    <2> DEFINE all == [S \in SUBSET (0 .. 0) |-> IF S = {} THEN 0 ELSE v[0]]
    <2>0. 0 .. 0 = {0}
      OBVIOUS
    <2>1. \A S \in SUBSET (0 .. 0) : S # {} => S = {0}
      BY <2>0
    <2>2. all \in [SUBSET (0 .. 0) -> Int]
      OBVIOUS
    <2>3. all[{}] = 0 /\ all[{0}] = v[0] /\ v[0] \in Int
      OBVIOUS
    <2>4. ASSUME NEW S \in SUBSET (0 .. 0), NEW x \in S PROVE all[S] = v[x] + all[S \ {x}]
      <3>1. S = {0} /\ x = 0 /\ S \ {x} = {}
        BY <2>1
      <3> HIDE DEF all
      <3>2. all[S] = all[{0}] /\ all[S \ {x}] = all[{}] /\ v[x] = v[0]
        BY <3>1
      <3> QED  BY <3>2, <2>3
    <2> HIDE DEF all
    <2> QED  BY <2>2, <2>3, <2>4 DEF Totals
  <1>2. ASSUME NEW m \in Nat, P(m) PROVE P(m + 1)
    <2> SUFFICES ASSUME m + 1 <= n
                 PROVE  \E all \in [SUBSET (0 .. m + 1) -> Int] : Totals(all, m + 1, v)
      OBVIOUS
    <2>1. m <= n /\ m + 1 \in 0 .. n
      OBVIOUS
    <2>2. PICK all \in [SUBSET (0 .. m) -> Int] : Totals(all, m, v)
      BY <2>1, <1>2
    <2>3. \A q \in 0 .. m + 1 : v[q] \in Int
      BY <2>1
    <2> QED  BY <2>2, <2>3, TotalsGrow
  <1> HIDE DEF P
  <1>3. Good = Nat
    <2>1. Good \subseteq Nat /\ 0 \in Good /\ \A m \in Good : m + 1 \in Good
      BY <1>1, <1>2
    <2> HIDE DEF Good
    <2> QED  BY <2>1, Inductive
  <1>4. P(n) /\ n <= n
    BY <1>3
  <1> QED  BY <1>4 DEF P

LEMMA TotalsIterate ==
    ASSUME NEW n \in Nat, NEW v, NEW all \in [SUBSET (0 .. n) -> Int], Totals(all, n, v),
           NEW S \in SUBSET (0 .. n)
    PROVE  Iterates([s \in SUBSET S |-> all[s]], S, v)
  <1> DEFINE w == [s \in SUBSET S |-> all[s]]
  <1>1. ASSUME NEW s \in SUBSET S
        PROVE  w[s] = IF s = {} THEN 0
                      ELSE v[CHOOSE x \in s : TRUE] + w[s \ {CHOOSE x \in s : TRUE}]
    <2>1. CASE s = {}
      BY <2>1 DEF Totals
    <2>2. CASE s # {}
      <3>1. PICK c : c = (CHOOSE x \in s : TRUE)
        OBVIOUS
      <3>2. c \in s
        BY <2>2, <3>1
      <3>3. all[s] = v[c] + all[s \ {c}]
        BY <3>2 DEF Totals
      <3>4. w[s] = all[s] /\ w[s \ {c}] = all[s \ {c}]
        OBVIOUS
      <3> HIDE DEF w
      <3> QED  BY <2>2, <3>1, <3>3, <3>4
    <2> QED  BY <2>1, <2>2
  <1> QED  BY <1>1 DEF Iterates

LEMMA SumIs ==
    ASSUME NEW n \in Nat, NEW v, NEW all \in [SUBSET (0 .. n) -> Int], Totals(all, n, v),
           NEW S \in SUBSET (0 .. n), NEW iter, Iterates(iter, S, v)
    PROVE  iter[S] = all[S]
  <1> DEFINE P(m) == \A s \in SUBSET S : Cardinality(s) = m => iter[s] = all[s]
             Good == {m \in Nat : P(m)}
  <1>0. \A s \in SUBSET S : IsFiniteSet(s) /\ Cardinality(s) \in Nat
    <2>1. IsFiniteSet(0 .. n)
      BY FS_Interval
    <2> QED  BY <2>1, FS_Subset, FS_CardinalityType
  <1>1. P(0)
    <2>1. ASSUME NEW s \in SUBSET S, Cardinality(s) = 0 PROVE iter[s] = all[s]
      <3>1. s = {}
        BY <2>1, <1>0, FS_EmptySet
      <3>2. iter[{}] = 0
        BY DEF Iterates
      <3> QED  BY <3>1, <3>2 DEF Totals
    <2> QED  BY <2>1
  <1>2. ASSUME NEW m \in Nat, P(m) PROVE P(m + 1)
    <2>1. ASSUME NEW s \in SUBSET S, Cardinality(s) = m + 1 PROVE iter[s] = all[s]
      <3>1. PICK c : c = (CHOOSE x \in s : TRUE)
        OBVIOUS
      <3>0. m + 1 # 0
        OBVIOUS
      <3>2. s # {}
        BY <2>1, <3>0, FS_EmptySet
      <3>3. c \in s
        BY <3>1, <3>2
      <3>4. Cardinality(s \ {c}) = m /\ s \ {c} \in SUBSET S
        <4>1. Cardinality(s \ {c}) = Cardinality(s) - 1
          BY <3>3, <1>0, FS_RemoveElement
        <4>2. Cardinality(s \ {c}) = m
          BY <4>1, <2>1
        <4> QED  BY <4>2
      <3>5. iter[s] = v[c] + iter[s \ {c}]
        BY <3>1, <3>2 DEF Iterates
      <3>6. all[s] = v[c] + all[s \ {c}]
        BY <3>3 DEF Totals
      <3>7. iter[s \ {c}] = all[s \ {c}]
        BY <3>4, <1>2
      <3> QED  BY <3>5, <3>6, <3>7
    <2> QED  BY <2>1
  <1> HIDE DEF P
  <1>3. Good = Nat
    <2>1. Good \subseteq Nat /\ 0 \in Good /\ \A m \in Good : m + 1 \in Good
      BY <1>1, <1>2
    <2> HIDE DEF Good
    <2> QED  BY <2>1, Inductive
  <1>4. Cardinality(S) \in Nat /\ P(Cardinality(S))
    BY <1>0, <1>3
  <1> QED  BY <1>4 DEF P

----------------------------------------------------------------------------
(* logstat: counting the referers.  The units of a name that is separate     *)
(* from all others lie together, and asu1 stays at the first one met until  *)
(* they are all counted.                                                     *)

RefUnit == [name : Urls, bytes : {0}, count : Nat, was : Nat]

RefType ==
    /\ len \in Nat \ {0} /\ arr \in [0 .. len - 1 -> RefUnit]
    /\ j \in 0 .. len - 1 /\ asu1 \in 0 .. len - 1
    /\ j < asu1 \/ (j = len - 1 /\ asu1 = len - 1)
    /\ \A p, q \in 0 .. len - 1 : p < q => arr[p].name <= arr[q].name
    /\ pc = "refs" => \A p \in 0 .. len - 1 : arr[p].was = 1
    /\ pc \in {"sort", "sumSort"} => j = 0

\* The names that Middle speaks of.
Separate(m) ==
    /\ arr[0].name # m /\ arr[len - 1].name # m
    /\ \A q \in 0 .. len - 1 :
         arr[q].name # m => <<m, arr[q].name>> \notin Prefix /\ <<arr[q].name, m>> \notin Prefix

Seen(m)   == {p \in 0 .. len - 1 : j < p /\ arr[p].name = m}
Untouched(m, r) == \A p \in 0 .. len - 1 : arr[p].name = m /\ p # r => arr[p].count = arr[p].was

\* Of the units seen one carries the sum, and it is asu1's until others follow.
SoFar(all, m) ==
    \/ Seen(m) = {} /\ Untouched(m, -1)
    \/ \E r \in Seen(m) : /\ arr[r].count = all[Seen(m)] /\ Untouched(m, r)
                          /\ arr[j + 1].name = m => asu1 = r

Was == [p \in 0 .. len - 1 |-> arr[p].was]

Adds(all) == all \in [SUBSET (0 .. len - 1) -> Int] /\ Totals(all, len - 1, Was)

RefInv ==
    pc \in {"refs", "sum", "sort", "sumSort"} =>
      /\ RefType
      /\ \A m \in Urls : \A all : Separate(m) /\ Adds(all) => SoFar(all, m)

LEMMA RefStart == ASSUME Tops!Init PROVE RefInv
  <1> SUFFICES ASSUME pc \in {"refs", "sum"}
               PROVE  /\ RefType
                      /\ \A m \in Urls : \A all : Separate(m) /\ Adds(all) => SoFar(all, m)
    BY DEF RefInv, Tops!Init
  <1>1. /\ len \in 0 .. MaxLines /\ len > 0 /\ asu1 = len - 1 /\ j = len - 1
        /\ arr \in [0 .. len - 1 -> RefUnit]
        /\ \A p \in 0 .. len - 1 : arr[p].was = arr[p].count
        /\ pc = "refs" => \A p \in 0 .. len - 1 : arr[p].was = 1
        /\ Tops!Sorted(Tops!Name(arr))
    <2>1. CASE pc = "refs"
      BY <2>1 DEF Tops!Init, Tops!NewUnits, RefUnit
    <2>2. CASE pc = "sum"
      BY <2>2 DEF Tops!Init, Tops!TopUnits, RefUnit
    <2> QED  BY <2>1, <2>2
  <1>2. RefType
    BY <1>1 DEF RefType, Tops!Sorted, Tops!Name
  <1>3. \A m : Seen(m) = {} /\ Untouched(m, -1)
    BY <1>1 DEF Seen, Untouched
  <1> QED  BY <1>2, <1>3 DEF SoFar

\* Either loop goes on to the next unit, or adds to the count at asu1.
LEMMA TurnShape ==
    ASSUME RefInv, Tops!RefTurn \/ Tops!SumTurn
    PROVE  /\ pc \in {"refs", "sum"} /\ RefType /\ j > 0
           /\ pc' = pc /\ len' = len /\ j' = j - 1
           /\ \/ arr' = arr /\ asu1' = j /\ ~Tops!SameName(j, asu1)
              \/ /\ asu1' = asu1 /\ (j = len - 1 \/ Tops!SameName(j, asu1))
                 /\ arr' = [arr EXCEPT ![asu1].count =
                              @ + (IF pc = "refs" THEN 1 ELSE arr[j].count)]
  BY DEF RefInv, Tops!RefTurn, Tops!SumTurn

\* Names and the counts of before stay, and so does what is about them.
LEMMA TurnKeeps ==
    ASSUME RefInv, Tops!RefTurn \/ Tops!SumTurn
    PROVE  /\ arr' \in [0 .. len - 1 -> RefUnit]
           /\ \A p \in 0 .. len - 1 : arr'[p].name = arr[p].name /\ arr'[p].was = arr[p].was
           /\ \A p \in 0 .. len - 1 : p # asu1 => arr'[p].count = arr[p].count
           /\ RefType'
           /\ \A m : Separate(m)' <=> Separate(m)
           /\ \A all : Adds(all)' <=> Adds(all)
  <1>1. /\ RefType /\ j > 0 /\ pc' = pc /\ len' = len /\ j' = j - 1 /\ pc \in {"refs", "sum"}
    BY TurnShape
  <1>2. /\ arr' \in [0 .. len - 1 -> RefUnit]
        /\ \A p \in 0 .. len - 1 : arr'[p].name = arr[p].name /\ arr'[p].was = arr[p].was
        /\ \A p \in 0 .. len - 1 : p # asu1 => arr'[p].count = arr[p].count
        /\ asu1' \in {j, asu1}
    <2>1. CASE arr' = arr /\ asu1' = j
      BY <2>1, <1>1 DEF RefType
    <2>2. CASE /\ asu1' = asu1
               /\ arr' = [arr EXCEPT ![asu1].count =
                            @ + (IF pc = "refs" THEN 1 ELSE arr[j].count)]
      <3>1. asu1 \in 0 .. len - 1 /\ arr[asu1] \in RefUnit /\ arr[j].count \in Nat
        BY <1>1 DEF RefType, RefUnit
      <3> DEFINE more == arr[asu1].count + (IF pc = "refs" THEN 1 ELSE arr[j].count)
      <3>2. more \in Nat
        BY <3>1 DEF RefUnit
      <3>3. arr' = [arr EXCEPT ![asu1] = [@ EXCEPT !.count = more]]
        BY <2>2
      <3>4. [arr[asu1] EXCEPT !.count = more] \in RefUnit
        BY <3>1, <3>2 DEF RefUnit
      <3> HIDE DEF more
      <3> QED  BY <2>2, <3>1, <3>3, <3>4, <1>1, SMTT(30) DEF RefType, RefUnit
    <2> QED  BY <2>1, <2>2, TurnShape
  <1>3. RefType'
    BY <1>1, <1>2 DEF RefType
  <1>4. \A m : Separate(m)' <=> Separate(m)
    BY <1>1, <1>2 DEF RefType, Separate
  <1>5. Was' = Was
    BY <1>1, <1>2 DEF Was
  <1>6. \A all : Adds(all)' <=> Adds(all)
    BY <1>1, <1>5 DEF Adds
  <1> QED  BY <1>2, <1>3, <1>4, <1>6

LEMMA TurnCounts ==
    ASSUME RefInv, Tops!RefTurn \/ Tops!SumTurn, NEW m \in Urls, NEW all, Separate(m), Adds(all)
    PROVE  SoFar(all, m)'
  <1>1. /\ pc \in {"refs", "sum"} /\ RefType /\ j > 0 /\ len' = len /\ j' = j - 1
        /\ j \in 0 .. len - 1 /\ asu1 \in 0 .. len - 1 /\ len \in Nat
    BY TurnShape DEF RefType
  <1>2. SoFar(all, m)
    BY <1>1 DEF RefInv
  <1>3. /\ \A p \in 0 .. len - 1 : arr'[p].name = arr[p].name /\ arr'[p].was = arr[p].was
        /\ \A p \in 0 .. len - 1 : p # asu1 => arr'[p].count = arr[p].count
    BY TurnKeeps
  <1>4. ~Tops!SameName(j, asu1) => (arr' = arr /\ asu1' = j) \/ j = len - 1
    BY TurnShape
  <1>5. CASE arr[j].name # m
    <2>1. Seen(m)' = Seen(m)
      BY <1>1, <1>3, <1>5 DEF Seen
    <2>2. arr' = arr \/ arr[asu1].name # m
      <3>1. CASE j = len - 1
        BY <3>1, <1>1 DEF RefType, Separate
      <3>2. CASE Tops!SameName(j, asu1)
        BY <3>2, <1>1, <1>5 DEF Separate, Tops!SameName
      <3> QED  BY <3>1, <3>2, TurnShape
    <2>3. \A r : Untouched(m, r) => Untouched(m, r)'
      BY <1>1, <1>3, <2>2 DEF Untouched
    <2>4. arr'[j' + 1].name # m
      BY <1>1, <1>3, <1>5
    <2>5. \A r \in Seen(m) : arr'[r].count = arr[r].count
      BY <1>3, <2>2 DEF Seen
    <2> QED  BY <1>2, <2>1, <2>3, <2>4, <2>5 DEF SoFar
  <1>6. CASE arr[j].name = m
    <2>1. j # len - 1 /\ j < asu1
      BY <1>1, <1>6 DEF RefType, Separate
    <2>2. /\ Seen(m)' = Seen(m) \cup {j} /\ j \notin Seen(m)
          /\ Seen(m)' \in SUBSET (0 .. len - 1) /\ Seen(m)' \ {j} = Seen(m)
      <3>1. Seen(m)' = {p \in 0 .. len - 1 : j - 1 < p /\ arr[p].name = m}
        BY <1>1, <1>3 DEF Seen
      <3> QED  BY <3>1, <1>1, <1>6 DEF Seen
    <2>3. /\ all[Seen(m)'] = arr[j].was + all[Seen(m)] /\ all[{}] = 0
          /\ all[Seen(m)] \in Int
      <3>1. Was[j] = arr[j].was
        BY <1>1 DEF Was
      <3>2. Seen(m) \in SUBSET (0 .. len - 1)
        BY DEF Seen
      <3> QED  BY <2>2, <3>1, <3>2 DEF Adds, Totals
    <2>4. arr[j].was \in Nat /\ arr[j].count \in Nat
      BY <1>1 DEF RefType, RefUnit
    <2>5. CASE Seen(m) = {} /\ Untouched(m, -1)
      <3>1. arr[asu1].name # m
        BY <2>1, <2>5, <1>1 DEF Seen
      <3>2. ~Tops!SameName(j, asu1)
        BY <3>1, <1>1, <1>6 DEF Separate, Tops!SameName
      <3>3. arr' = arr /\ asu1' = j
        BY <3>2, <1>4, <2>1
      <3>4. arr[j].count = arr[j].was
        BY <2>5, <1>1, <1>6 DEF Untouched
      <3>5. all[Seen(m)'] = arr'[j].count
        BY <2>3, <2>4, <2>5, <3>3, <3>4
      <3>6. PICK r : r = j
        OBVIOUS
      <3>7. Untouched(m, r)'
        BY <2>5, <3>3, <1>1 DEF Untouched
      <3>8. r \in Seen(m)' /\ (arr'[j' + 1].name = m => asu1' = r)
        BY <2>2, <3>3, <3>6
      <3> QED  BY <3>5, <3>6, <3>7, <3>8 DEF SoFar
    <2>6. ASSUME NEW r \in Seen(m), arr[r].count = all[Seen(m)], Untouched(m, r),
                 arr[j + 1].name = m => asu1 = r
          PROVE  SoFar(all, m)'
      <3>1. r \in 0 .. len - 1 /\ j < r /\ arr[r].name = m /\ j + 1 \in 0 .. len - 1
        BY <1>1 DEF Seen
      <3>2. arr[j + 1].name = m
        <4>1. arr[j].name <= arr[j + 1].name /\ (j + 1 < r => arr[j + 1].name <= arr[r].name)
          BY <1>1, <3>1 DEF RefType
        <4>2. arr[j + 1].name \in Int /\ m \in Int
          BY <1>1, <3>1, TopAssumption DEF RefType, RefUnit
        <4>3. j + 1 < r \/ j + 1 = r
          BY <1>1, <3>1
        <4> QED  BY <4>1, <4>2, <4>3, <3>1, <1>6
      <3>3. asu1 = r /\ Tops!SameName(j, asu1)
        BY <2>6, <3>1, <3>2, <1>6, TopAssumption DEF Tops!SameName
      <3>4. /\ asu1' = asu1
            /\ arr' = [arr EXCEPT ![asu1].count = @ + (IF pc = "refs" THEN 1 ELSE arr[j].count)]
        BY <3>3, TurnShape
      <3>5. (IF pc = "refs" THEN 1 ELSE arr[j].count) = arr[j].was
        BY <1>1, <1>6, <2>6, <3>1 DEF RefType, Untouched
      <3>6. arr'[r].count = arr[r].count + arr[j].was
        BY <1>1, <3>1, <3>3, <3>4, <3>5 DEF RefType, RefUnit
      <3>7. arr'[r].count = all[Seen(m)']
        BY <2>3, <2>4, <2>6, <3>6
      <3>8. Untouched(m, r)'
        BY <1>1, <1>3, <2>6, <3>3 DEF Untouched
      <3>9. r \in Seen(m)'
        BY <2>2
      <3> QED  BY <3>3, <3>4, <3>7, <3>8, <3>9 DEF SoFar
    <2> QED  BY <1>2, <2>5, <2>6 DEF SoFar
  <1> QED  BY <1>5, <1>6

LEMMA RefStep == RefInv /\ [Tops!Next]_Tops!vars => RefInv'
  <1> SUFFICES ASSUME RefInv, [Tops!Next]_Tops!vars PROVE RefInv'
    OBVIOUS
  <1>1. CASE Tops!RefTurn \/ Tops!SumTurn
    <2>1. RefType'
      BY <1>1, TurnKeeps
    <2>2. ASSUME NEW m \in Urls, NEW all, Separate(m)', Adds(all)' PROVE SoFar(all, m)'
      BY <1>1, <2>2, TurnKeeps, TurnCounts
    <2> QED  BY <2>1, <2>2 DEF RefInv
  <1>2. CASE Tops!RefEnd \/ Tops!SumEnd
    <2>1. UNCHANGED <<arr, len, j, asu1>> /\ pc \in {"refs", "sum"} /\ j = 0
          /\ pc' \in {"sort", "sumSort"}
      BY <1>2 DEF Tops!RefEnd, Tops!SumEnd
    <2>2. RefType'
      BY <2>1 DEF RefInv, RefType
    <2>3. \A m : Separate(m)' <=> Separate(m)
      BY <2>1 DEF Separate
    <2>4. \A all : Adds(all)' <=> Adds(all)
      BY <2>1 DEF Adds, Was
    <2>5. \A m, all : SoFar(all, m)' <=> SoFar(all, m)
      BY <2>1 DEF SoFar, Seen, Untouched
    <2> QED  BY <2>1, <2>2, <2>3, <2>4, <2>5 DEF RefInv
  <1>3. CASE Tops!UrlTurn \/ Tops!UrlEnd \/ Tops!Sort \/ Tops!ListTurn \/ Tops!SumListTurn
    <2>1. pc' \notin {"refs", "sum", "sort", "sumSort"}
      BY <1>3 DEF Tops!UrlTurn, Tops!UrlEnd, Tops!Sort, Tops!ListTurn, Tops!SumListTurn
    <2> QED  BY <2>1 DEF RefInv
  <1>4. CASE UNCHANGED Tops!vars
    <2>1. UNCHANGED <<pc, arr, len, j, asu1>>
      BY <1>4 DEF Tops!vars
    <2>2. RefType' <=> RefType
      BY <2>1 DEF RefType
    <2>3. \A m : Separate(m)' <=> Separate(m)
      BY <2>1 DEF Separate
    <2>4. \A all : Adds(all)' <=> Adds(all)
      BY <2>1 DEF Adds, Was
    <2>5. \A m, all : SoFar(all, m)' <=> SoFar(all, m)
      BY <2>1 DEF SoFar, Seen, Untouched
    <2> QED  BY <2>1, <2>2, <2>3, <2>4, <2>5 DEF RefInv
  <1> QED  BY <1>1, <1>2, <1>3, <1>4 DEF Tops!Next

LEMMA RefEnd == ASSUME RefInv PROVE Tops!RefsCounted
  <1> DEFINE Sum(S) == Tops!MapThenSumSet(LAMBDA p : arr[p].was, S)
  <1> SUFFICES ASSUME pc \in {"sort", "sumSort"}, NEW m \in Tops!Middle
               PROVE  \E r \in Tops!Occurrences(m) :
                        /\ arr[r].count = Sum(Tops!Occurrences(m))
                        /\ \A q \in Tops!Occurrences(m) \ {r} : arr[q].count = arr[q].was
    BY DEF Tops!RefsCounted
  <1>1. RefType /\ j = 0 /\ DOMAIN arr = 0 .. len - 1 /\ len - 1 \in Nat
    BY DEF RefInv, RefType
  <1>2. m \in Urls /\ Separate(m) /\ Tops!Occurrences(m) # {}
    BY <1>1 DEF RefType, RefUnit, Tops!Middle, Separate, Tops!Occurrences
  <1>3. Tops!Occurrences(m) = Seen(m)
    BY <1>1, <1>2 DEF Seen, Tops!Occurrences, Separate
  <1>4. Seen(m) \in SUBSET (0 .. len - 1)
    BY DEF Seen
  <1>5. Was \in [0 .. len - 1 -> Int]
    BY <1>1 DEF Was, RefType, RefUnit
  <1>6. PICK all \in [SUBSET (0 .. len - 1) -> Int] : Totals(all, len - 1, Was)
    BY <1>1, <1>5, SumExists
  <1>7. SoFar(all, m)
    BY <1>2, <1>6 DEF RefInv, Adds
  <1>8. Sum(Seen(m)) = all[Seen(m)]
    <2> DEFINE S == Seen(m)
               Is(w) == w = [s \in SUBSET S |->
                              IF s = {} THEN 0
                              ELSE arr[CHOOSE x \in s : TRUE].was + w[s \ {CHOOSE x \in s : TRUE}]]
    <2>1. ASSUME NEW w PROVE Is(w) <=> Iterates(w, S, Was)
      <3>1. ASSUME NEW s \in SUBSET S, s # {}
            PROVE  arr[CHOOSE x \in s : TRUE].was = Was[CHOOSE x \in s : TRUE]
        <4>1. (CHOOSE x \in s : TRUE) \in s
          BY <3>1
        <4> QED  BY <4>1, <1>4 DEF Was
      <3> QED  BY <3>1 DEF Iterates
    <2>2. Is([s \in SUBSET S |-> all[s]])
      BY <2>1, <1>1, <1>4, <1>6, TotalsIterate, ZenonT(60)
    <2>3. Is(CHOOSE w : Is(w))
      BY <2>2
    <2>4. Sum(S) = (CHOOSE w : Is(w))[S]
      BY DEF Tops!MapThenSumSet, Tops!MapThenFoldSet
    <2>5. PICK w : Iterates(w, S, Was) /\ Sum(S) = w[S]
      BY <2>1, <2>3, <2>4
    <2> QED  BY <2>5, <1>1, <1>4, <1>6, SumIs
  <1> HIDE DEF Sum
  <1> QED  BY <1>2, <1>3, <1>7, <1>8 DEF SoFar, Untouched, Seen

\* Of every referer in the middle, one unit carries the sum of all its counts
\* when they have been counted, in a file and in the summary, for arrays of any
\* length and any names that strcmp orders.
THEOREM RefsAreCounted == Spec => []RefsCounted
  <1>1. Tops!Init => RefInv
    BY RefStart
  <1>2. Init => RefInv
    <2>1. CASE prog = "tops"
      BY <2>1, <1>1 DEF Init
    <2>2. CASE prog # "tops"
      BY <2>2 DEF Init, RefInv
    <2> QED  BY <2>1, <2>2
  <1>3. RefInv /\ [Next]_vars => RefInv'
    BY RefStep, Apart
  <1>4. RefInv => RefsCounted
    BY RefEnd DEF RefsCounted
  <1> QED  BY <1>2, <1>3, <1>4, PTL DEF Spec

----------------------------------------------------------------------------
(* Arithmetic that wraps: x % m for any integer x. *)

LEMMA Multiple ==
    ASSUME NEW m \in Nat \ {0}, NEW e \in Int, m * e < m, -m < m * e
    PROVE  e = 0
  <1>1. CASE e >= 1
    <2>1. m * e >= m
      BY <1>1
    <2> QED  BY <2>1
  <1>2. CASE e <= -1
    <2>1. m * e <= -m
      BY <1>2
    <2> QED  BY <2>1
  <1> QED  BY <1>1, <1>2

LEMMA Division ==
    ASSUME NEW m \in Nat \ {0}, NEW x \in Int
    PROVE  x % m \in 0 .. m - 1 /\ \E q \in Int : x = m * q + (x % m)
  <1>1. x % m \in 0 .. m - 1
    OBVIOUS
  <1>2. x \div m \in Int /\ x = m * (x \div m) + (x % m)
    OBVIOUS
  <1> QED  BY <1>1, <1>2

LEMMA Remainder ==
    ASSUME NEW m \in Nat \ {0}, NEW q \in Int, NEW r \in 0 .. m - 1
    PROVE  (m * q + r) % m = r
  <1> DEFINE x == m * q + r
  <1>1. x \in Int
    OBVIOUS
  <1>2. PICK d \in Int : x = m * d + (x % m)
    BY <1>1, Division
  <1>3. x % m \in 0 .. m - 1
    BY <1>1, Division
  <1>4. m * (q - d) = (x % m) - r
    BY <1>2, <1>3
  <1>5. q - d = 0
    <2>1. q - d \in Int /\ m * (q - d) < m /\ -m < m * (q - d)
      BY <1>3, <1>4
    <2> QED  BY <2>1, Multiple
  <1>6. m * (q - d) = 0
    BY <1>5
  <1> QED  BY <1>3, <1>4, <1>6

\* What is added may be added before or after the wrap.
LEMMA AddWrapped ==
    ASSUME NEW m \in Nat \ {0}, NEW x \in Int, NEW z \in Int
    PROVE  ((x % m) + z) % m = (x + z) % m
  <1>1. PICK q \in Int : x = m * q + (x % m)
    BY Division
  <1>2. x % m \in Int
    BY Division
  <1>3. (x % m) + z \in Int
    BY <1>2
  <1> DEFINE y == (x % m) + z
  <1>4. PICK d \in Int : y = m * d + (y % m)
    BY <1>3, Division
  <1>5. y % m \in 0 .. m - 1
    BY <1>3, Division
  <1>6. x + z = m * (q + d) + (y % m)
    <2>1. x + z = m * q + y
      BY <1>1, <1>2
    <2>2. m * (q + d) = m * q + m * d
      OBVIOUS
    <2> HIDE DEF y
    <2>3. y % m \in Int /\ m * q \in Int /\ m * d \in Int
      BY <1>5
    <2> QED  BY <2>1, <2>2, <2>3, <1>4
  <1>7. q + d \in Int
    OBVIOUS
  <1>8. (x + z) % m = y % m
    <2> HIDE DEF y
    <2> QED  BY <1>5, <1>6, <1>7, Remainder
  <1> QED  BY <1>8

LEMMA IntOfInt ==
    ASSUME NEW v \in -Half .. Half - 1
    PROVE  Column!ToInt(v) = v
  <1>1. 2 * Half \in Nat \ {0} /\ v + Half \in 0 .. 2 * Half - 1 /\ Half \in Int
    BY ColumnAssumption
  <1>2. ((2 * Half) * 0 + (v + Half)) % (2 * Half) = v + Half
    BY <1>1, Remainder
  <1>3. (2 * Half) * 0 + (v + Half) = v + Half
    BY <1>1
  <1> QED  BY <1>1, <1>2, <1>3 DEF Column!ToInt

LEMMA IntOfSum ==
    ASSUME NEW x \in Int, NEW v \in Int
    PROVE  /\ Column!ToInt(x) \in Int
           /\ Column!ToInt(Column!ToInt(x) + v) = Column!ToInt(x + v)
  <1>1. 2 * Half \in Nat \ {0} /\ Half \in Int
    BY ColumnAssumption
  <1> DEFINE m == 2 * Half
             y == x + Half
  <1>2. y \in Int /\ y % m \in Int
    BY <1>1, Division
  <1>3. ((y % m) + v) % m = (y + v) % m
    BY <1>1, <1>2, AddWrapped
  <1>4. y + v = (x + v) + Half /\ (((y % m) - Half) + v) + Half = (y % m) + v
    BY <1>1, <1>2
  <1> QED  BY <1>1, <1>2, <1>3, <1>4 DEF Column!ToInt

----------------------------------------------------------------------------
(* statdb: the loops over the rows keep the statistics of the rows walked. *)

Vals    == [n \in 0 .. Len(rows) |-> IF n = 0 THEN 0 ELSE Column!Value(n)]
Squares == [n \in 0 .. Len(rows) |-> IF n = 0 THEN 0 ELSE Column!Square(Column!Value(n))]

Summing(all, sq) ==
    /\ all \in [SUBSET (0 .. Len(rows)) -> Int] /\ Totals(all, Len(rows), Vals)
    /\ sq \in [SUBSET (0 .. Len(rows)) -> Int] /\ Totals(sq, Len(rows), Squares)

RowType ==
    /\ rows \in Seq(Values \cup {Null}) /\ rows # <<>>
    /\ cursor \in 1 .. Len(rows) + 1
    /\ max_val \in Int /\ min_val \in Int /\ sum_val \in Int /\ tmp_val \in Int

\* The extremes of the first rows.
Extremes(n) ==
    /\ \A l \in 1 .. n : min_val <= Column!Value(l) /\ Column!Value(l) <= max_val
    /\ \E l \in 1 .. n : Column!Value(l) = min_val
    /\ \E l \in 1 .. n : Column!Value(l) = max_val

\* The sum of squares over the first rows, multiplied out.
Deviates(all, sq) ==
    tmp_val = Len(rows) * Len(rows) * sq[1 .. cursor - 1]
                - 2 * Len(rows) * sum_val * all[1 .. cursor - 1] + (cursor - 1) * sum_val * sum_val

ColumnInv ==
    /\ at \in {"main", "connected"} => cursor = 1
    /\ at \in {"main", "connected", "rows"} =>
         tmp_val = 0 /\ max_val \in Int /\ min_val \in Int /\ sum_val \in Int
    /\ at = "rows" =>
         /\ RowType
         /\ cursor > 1 =>
              /\ Extremes(cursor - 1)
              /\ \A all, sq : Summing(all, sq) => sum_val = Column!ToInt(all[1 .. cursor - 1])
    /\ at \in {"deviation", "done"} /\ rows # <<>> =>
         /\ RowType /\ Extremes(Len(rows))
         /\ \A all, sq : Summing(all, sq) =>
              sum_val = Column!ToInt(all[1 .. Len(rows)]) /\ Deviates(all, sq)
         /\ at = "done" => cursor = Len(rows) + 1

LEMMA ColumnStart == Column!Init => ColumnInv
  BY DEF Column!Init, ColumnInv

LEMMA ValuesAreInts ==
    ASSUME rows \in Seq(Values \cup {Null})
    PROVE  \A l \in 1 .. Len(rows) : Column!Value(l) \in -Half .. Half - 1 /\ Column!Value(l) \in Int
  <1> SUFFICES ASSUME NEW l \in 1 .. Len(rows)
               PROVE  Column!Value(l) \in -Half .. Half - 1
    OBVIOUS
  <1>1. rows[l] \in Values \cup {Null}
    OBVIOUS
  <1>2. Half \in Nat \ {0} /\ \A v \in Values : v # Null => v \in -Half .. Half - 1
    BY ColumnAssumption
  <1> QED  BY <1>1, <1>2 DEF Column!Value

\* One more row adds its value to the sum, and its square.
LEMMA OneMore ==
    ASSUME RowType, NEW all, NEW sq, Summing(all, sq), cursor <= Len(rows)
    PROVE  /\ all[1 .. cursor] = Column!Value(cursor) + all[1 .. cursor - 1]
           /\ sq[1 .. cursor] = Column!Value(cursor) * Column!Value(cursor) + sq[1 .. cursor - 1]
           /\ all[1 .. cursor - 1] \in Int /\ sq[1 .. cursor - 1] \in Int
           /\ all[1 .. 0] = 0 /\ sq[1 .. 0] = 0
  <1>1. Len(rows) \in Nat /\ cursor \in 1 .. Len(rows)
    BY DEF RowType
  <1>2. /\ 1 .. cursor \in SUBSET (0 .. Len(rows)) /\ 1 .. cursor - 1 \in SUBSET (0 .. Len(rows))
        /\ cursor \in 1 .. cursor /\ (1 .. cursor) \ {cursor} = 1 .. cursor - 1
        /\ 1 .. 0 = {} /\ cursor \in 0 .. Len(rows) /\ cursor # 0
    BY <1>1
  <1>3. Vals[cursor] = Column!Value(cursor)
    BY <1>2 DEF Vals
  <1>4. Squares[cursor] = Column!Value(cursor) * Column!Value(cursor)
    BY <1>2 DEF Squares, Column!Square
  <1>5. all[1 .. cursor] = Column!Value(cursor) + all[1 .. cursor - 1]
    BY <1>2, <1>3, SMTT(30) DEF Summing, Totals
  <1>6. sq[1 .. cursor] = Column!Value(cursor) * Column!Value(cursor) + sq[1 .. cursor - 1]
    BY <1>2, <1>4, ZenonT(60) DEF Summing, Totals
  <1> QED  BY <1>2, <1>5, <1>6 DEF Summing, Totals

LEMMA RowSums ==
    ASSUME ColumnInv, Column!Row, at' = "rows"
    PROVE  ColumnInv'
  <1> DEFINE v == Column!Value(cursor)
  <1>1. /\ at = "rows" /\ cursor <= Len(rows) /\ cursor' = cursor + 1
        /\ max_val' = IF cursor = 1 THEN v ELSE Column!stat_max(max_val, v)
        /\ min_val' = IF cursor = 1 THEN v ELSE Column!stat_min(min_val, v)
        /\ sum_val' = IF cursor = 1 THEN v ELSE Column!ToInt(sum_val + v)
        /\ rows' = rows /\ tmp_val' = tmp_val /\ db' = db
    BY DEF Column!Row
  <1>2. RowType /\ tmp_val = 0
    BY <1>1 DEF ColumnInv
  <1>3. /\ Len(rows) \in Nat /\ cursor \in 1 .. Len(rows) /\ v \in Int /\ v \in -Half .. Half - 1
        /\ \A l \in 1 .. Len(rows) : Column!Value(l) \in Int
        /\ sum_val \in Int /\ min_val \in Int /\ max_val \in Int
    BY <1>1, <1>2, ValuesAreInts DEF RowType
  <1>4. \A l : Column!Value(l)' = Column!Value(l)
    BY <1>1 DEF Column!Value
  <1>5. ASSUME NEW all, NEW sq, Summing(all, sq)
        PROVE  sum_val' = Column!ToInt(all[1 .. cursor]) /\ sum_val' \in Int
    <2>1. /\ all[1 .. cursor] = v + all[1 .. cursor - 1]
          /\ all[1 .. cursor - 1] \in Int /\ all[1 .. 0] = 0
      BY <1>1, <1>2, <1>5, OneMore
    <2>2. CASE cursor = 1
      <3>1. all[1 .. cursor] = v
        BY <2>1, <2>2, <1>3
      <3>2. Column!ToInt(v) = v
        BY <1>3, IntOfInt
      <3> QED  BY <1>1, <1>3, <2>2, <3>1, <3>2
    <2>3. CASE cursor > 1
      <3>1. sum_val = Column!ToInt(all[1 .. cursor - 1])
        BY <1>1, <1>5, <2>3 DEF ColumnInv
      <3>2. sum_val' = Column!ToInt(all[1 .. cursor - 1] + v)
        <4>1. sum_val' = Column!ToInt(sum_val + v)
          BY <1>1, <2>3
        <4>2. Column!ToInt(Column!ToInt(all[1 .. cursor - 1]) + v) = Column!ToInt(all[1 .. cursor - 1] + v)
          BY <1>3, <2>1, IntOfSum
        <4> QED  BY <3>1, <4>1, <4>2
      <3>3. all[1 .. cursor - 1] + v = all[1 .. cursor] /\ all[1 .. cursor - 1] + v \in Int
        BY <1>3, <2>1
      <3>4. sum_val' \in Int
        BY <3>2, <3>3, <1>3, IntOfSum
      <3> QED  BY <3>2, <3>3, <3>4
    <2> QED  BY <2>2, <2>3, <1>3
  <1>6. /\ max_val' \in Int /\ min_val' \in Int /\ sum_val' \in Int
        /\ min_val' <= v /\ v <= max_val'
        /\ cursor > 1 => min_val' <= min_val /\ max_val <= max_val'
        /\ min_val' = v \/ (cursor > 1 /\ min_val' = min_val)
        /\ max_val' = v \/ (cursor > 1 /\ max_val' = max_val)
    <2>1. sum_val + v \in Int
      BY <1>3
    <2>2. Column!ToInt(sum_val + v) \in Int
      BY <2>1, IntOfSum
    <2> HIDE DEF v
    <2> QED  BY <1>1, <1>3, <2>2 DEF Column!stat_max, Column!stat_min
  <1>7. /\ \A l \in 1 .. cursor : min_val' <= Column!Value(l)' /\ Column!Value(l)' <= max_val'
        /\ \E l \in 1 .. cursor : Column!Value(l)' = min_val'
        /\ \E l \in 1 .. cursor : Column!Value(l)' = max_val'
    <2>1. cursor > 1 => Extremes(cursor - 1)
      BY <1>1 DEF ColumnInv
    <2>2. ASSUME NEW l \in 1 .. cursor
          PROVE  min_val' <= Column!Value(l) /\ Column!Value(l) <= max_val'
      <3>1. CASE l = cursor
        BY <3>1, <1>6
      <3>2. CASE l # cursor
        <4>1. cursor > 1 /\ l \in 1 .. cursor - 1 /\ l \in 1 .. Len(rows)
          BY <3>2, <1>3
        <4>2. min_val <= Column!Value(l) /\ Column!Value(l) <= max_val
          BY <4>1, <2>1 DEF Extremes
        <4>3. Column!Value(l) \in Int /\ min_val' <= min_val /\ max_val <= max_val'
          BY <4>1, <1>3, <1>6
        <4> QED  BY <4>2, <4>3, <1>3, <1>6
      <3> QED  BY <3>1, <3>2
    <2>3. cursor \in 1 .. cursor /\ \A l \in 1 .. cursor - 1 : l \in 1 .. cursor
      BY <1>3
    <2>4. \E l \in 1 .. cursor : Column!Value(l) = min_val'
      BY <1>6, <2>1, <2>3 DEF Extremes
    <2>5. \E l \in 1 .. cursor : Column!Value(l) = max_val'
      BY <1>6, <2>1, <2>3 DEF Extremes
    <2> QED  BY <1>4, <2>2, <2>4, <2>5
  <1>8. RowType'
    BY <1>1, <1>2, <1>3, <1>6 DEF RowType
  <1>9. \A all, sq : Summing(all, sq)' <=> Summing(all, sq)
    BY <1>1, <1>4 DEF Summing, Vals, Squares
  <1>10. cursor' - 1 = cursor
    BY <1>1, <1>3
  <1>11. Extremes(cursor - 1)'
    BY <1>7, <1>10 DEF Extremes
  <1> QED  BY <1>1, <1>2, <1>5, <1>6, <1>8, <1>9, <1>10, <1>11 DEF ColumnInv

LEMMA MeanSums ==
    ASSUME ColumnInv, Column!Mean
    PROVE  ColumnInv'
  <1>1. /\ at = "rows" /\ cursor > Len(rows) /\ at' = "deviation" /\ cursor' = 1
        /\ UNCHANGED <<db, rows, max_val, min_val, sum_val, tmp_val>>
    BY DEF Column!Mean
  <1>2. RowType /\ tmp_val = 0
    BY <1>1 DEF ColumnInv
  <1>3. Len(rows) \in Nat \ {0} /\ cursor - 1 = Len(rows) /\ cursor > 1
    BY <1>1, <1>2 DEF RowType
  <1>4. Extremes(cursor - 1) /\ \A all, sq : Summing(all, sq) => sum_val = Column!ToInt(all[1 .. cursor - 1])
    BY <1>1, <1>3 DEF ColumnInv
  <1>5. RowType' /\ Extremes(Len(rows))'
    BY <1>1, <1>2, <1>3, <1>4 DEF RowType, Extremes, Column!Value
  <1>6. \A all, sq : Summing(all, sq)' <=> Summing(all, sq)
    BY <1>1 DEF Summing, Vals, Squares, Column!Value
  <1>7. ASSUME NEW all, NEW sq, Summing(all, sq)
        PROVE  sum_val' = Column!ToInt(all[1 .. Len(rows)]) /\ Deviates(all, sq)'
    <2>1. sum_val' = Column!ToInt(all[1 .. Len(rows)])
      BY <1>1, <1>3, <1>4, <1>7
    <2>2. 1 .. cursor' - 1 = {} /\ all[{}] = 0 /\ sq[{}] = 0
      BY <1>1, <1>7 DEF Summing, Totals
    <2>3. tmp_val' = 0 /\ cursor' - 1 = 0 /\ sum_val' \in Int /\ Len(rows') \in Int
      BY <1>1, <1>2, <1>3 DEF RowType
    <2>4. Deviates(all, sq)'
      BY <2>2, <2>3 DEF Deviates
    <2> QED  BY <2>1, <2>4
  <1> QED  BY <1>1, <1>5, <1>6, <1>7 DEF ColumnInv

\* The square of n * v - s, multiplied out.
LEMMA Expanded ==
    ASSUME NEW n \in Int, NEW v \in Int, NEW s \in Int, NEW a \in Int, NEW q \in Int, NEW c \in Int
    PROVE  (n * n * q - 2 * n * s * a + c * s * s) + (n * v - s) * (n * v - s)
             = n * n * (v * v + q) - 2 * n * s * (v + a) + (c + 1) * s * s
  OBVIOUS

LEMMA DeviationSums ==
    ASSUME ColumnInv, Column!Deviation
    PROVE  ColumnInv'
  <1>1. /\ at = "deviation" /\ at' \in {"deviation", "done"}
        /\ UNCHANGED <<db, rows, max_val, min_val, sum_val>>
    BY DEF Column!Deviation
  <1> SUFFICES ASSUME rows # <<>> PROVE ColumnInv'
    BY <1>1 DEF ColumnInv
  <1>2. /\ RowType /\ Extremes(Len(rows))
        /\ \A all, sq : Summing(all, sq) =>
              sum_val = Column!ToInt(all[1 .. Len(rows)]) /\ Deviates(all, sq)
    BY <1>1 DEF ColumnInv
  <1>3. \A all, sq : Summing(all, sq)' <=> Summing(all, sq)
    BY <1>1 DEF Summing, Vals, Squares, Column!Value
  <1>4. Extremes(Len(rows))'
    BY <1>1, <1>2 DEF Extremes, Column!Value
  <1>5. CASE cursor > Len(rows)
    <2>1. at' = "done" /\ cursor' = cursor /\ tmp_val' = tmp_val
      BY <1>5 DEF Column!Deviation
    <2>2. RowType' /\ cursor' = Len(rows') + 1
      BY <1>1, <1>2, <1>5, <2>1 DEF RowType
    <2>3. \A all, sq : Deviates(all, sq)' <=> Deviates(all, sq)
      BY <1>1, <2>1 DEF Deviates
    <2> QED  BY <1>1, <1>2, <1>3, <1>4, <2>1, <2>2, <2>3 DEF ColumnInv
  <1>6. CASE cursor <= Len(rows)
    <2> DEFINE v == Column!Value(cursor)
    <2>1. /\ Len(rows) \in Nat /\ cursor \in 1 .. Len(rows) /\ v \in Int
          /\ sum_val \in Int /\ tmp_val \in Int
      BY <1>2, <1>6, ValuesAreInts DEF RowType
    <2>2. /\ at' = "deviation" /\ cursor' = cursor + 1
          /\ tmp_val' = tmp_val + (Len(rows) * v - sum_val) * (Len(rows) * v - sum_val)
      BY <1>6, <2>1 DEF Column!Deviation, Column!Square
    <2>3. tmp_val' \in Int
      <3>1. Len(rows) * v - sum_val \in Int
        BY <2>1
      <3> QED  BY <2>1, <2>2, <3>1
    <2>4. RowType'
      BY <1>1, <1>2, <2>1, <2>2, <2>3 DEF RowType
    <2>5. ASSUME NEW all, NEW sq, Summing(all, sq) PROVE Deviates(all, sq)'
      <3>1. /\ all[1 .. cursor] = v + all[1 .. cursor - 1]
            /\ sq[1 .. cursor] = v * v + sq[1 .. cursor - 1]
            /\ all[1 .. cursor - 1] \in Int /\ sq[1 .. cursor - 1] \in Int
        BY <1>2, <1>6, <2>5, OneMore
      <3>2. cursor' - 1 = cursor /\ cursor - 1 \in Int /\ (cursor - 1) + 1 = cursor
        BY <2>1, <2>2
      <3>3. tmp_val = Len(rows) * Len(rows) * sq[1 .. cursor - 1]
                        - 2 * Len(rows) * sum_val * all[1 .. cursor - 1] + (cursor - 1) * sum_val * sum_val
        BY <1>2, <2>5 DEF Deviates
      <3> HIDE DEF v
      <3>4. tmp_val' = Len(rows) * Len(rows) * (v * v + sq[1 .. cursor - 1])
                        - 2 * Len(rows) * sum_val * (v + all[1 .. cursor - 1])
                        + ((cursor - 1) + 1) * sum_val * sum_val
        <4>1. PICK n, s, a, q, c : n = Len(rows) /\ s = sum_val /\ a = all[1 .. cursor - 1]
                                    /\ q = sq[1 .. cursor - 1] /\ c = cursor - 1
          OBVIOUS
        <4>2. n \in Int /\ s \in Int /\ a \in Int /\ q \in Int /\ c \in Int /\ v \in Int
          BY <2>1, <3>1, <3>2, <4>1
        <4>3. tmp_val' = (n * n * q - 2 * n * s * a + c * s * s) + (n * v - s) * (n * v - s)
          BY <2>2, <3>3, <4>1
        <4>4. tmp_val' = n * n * (v * v + q) - 2 * n * s * (v + a) + (c + 1) * s * s
          BY <4>2, <4>3, Expanded
        <4> QED  BY <4>1, <4>4
      <3>5. tmp_val' = Len(rows) * Len(rows) * sq[1 .. cursor]
                        - 2 * Len(rows) * sum_val * all[1 .. cursor] + cursor * sum_val * sum_val
        BY <3>1, <3>2, <3>4
      <3> QED  BY <1>1, <3>2, <3>5 DEF Deviates
    <2> QED  BY <1>1, <1>2, <1>3, <1>4, <2>2, <2>4, <2>5 DEF ColumnInv
  <1>7. cursor > Len(rows) \/ cursor <= Len(rows)
    BY <1>2 DEF RowType
  <1> QED  BY <1>5, <1>6, <1>7

LEMMA ColumnStep == ColumnInv /\ [Column!Next]_Column!vars => ColumnInv'
  <1> SUFFICES ASSUME ColumnInv, [Column!Next]_Column!vars PROVE ColumnInv'
    OBVIOUS
  <1>1. CASE Column!Choose
    BY <1>1 DEF Column!Choose, ColumnInv
  <1>2. CASE Column!Query
    <2>1. at = "connected" /\ cursor = 1 /\ tmp_val = 0
          /\ max_val \in Int /\ min_val \in Int /\ sum_val \in Int
          /\ UNCHANGED <<db, cursor, max_val, min_val, sum_val, tmp_val>>
          /\ at' \in {"done", "rows", "error"}
      BY <1>2 DEF Column!Query, ColumnInv
    <2>2. CASE at' = "rows"
      <3>1. rows' \in UNION {[1 .. n -> Values \cup {Null}] : n \in 0 .. MaxRows} /\ rows' # <<>>
        BY <1>2, <2>2 DEF Column!Query
      <3>2. PICK n \in 0 .. MaxRows : rows' \in [1 .. n -> Values \cup {Null}]
        BY <3>1
      <3>3. rows' \in Seq(Values \cup {Null})
        BY <3>2
      <3>4. RowType'
        BY <2>1, <3>1, <3>3 DEF RowType
      <3> QED  BY <2>1, <2>2, <3>4 DEF ColumnInv
    <2>3. CASE at' = "done"
      <3>1. rows' = <<>>
        BY <1>2, <2>3 DEF Column!Query
      <3> QED  BY <2>1, <2>3, <3>1 DEF ColumnInv
    <2>4. CASE at' = "error"
      BY <2>1, <2>4 DEF ColumnInv
    <2> QED  BY <2>1, <2>2, <2>3, <2>4
  <1>3. CASE Column!Row
    <2>1. CASE at' = "rows"
      BY <1>3, <2>1, RowSums
    <2>2. CASE at' = "crashed"
      BY <2>2 DEF ColumnInv
    <2> QED  BY <1>3, <2>1, <2>2 DEF Column!Row
  <1>4. CASE Column!Mean
    BY <1>4, MeanSums
  <1>5. CASE Column!Deviation
    BY <1>5, DeviationSums
  <1>6. CASE UNCHANGED Column!vars
    <2>1. UNCHANGED <<at, db, rows, cursor, max_val, min_val, sum_val, tmp_val>>
      BY <1>6 DEF Column!vars
    <2>2. /\ RowType' <=> RowType
          /\ \A n : Extremes(n)' <=> Extremes(n)
          /\ \A all, sq : (Summing(all, sq)' <=> Summing(all, sq))
                         /\ (Deviates(all, sq)' <=> Deviates(all, sq))
      BY <2>1 DEF RowType, Extremes, Summing, Vals, Squares, Deviates, Column!Value
    <2> QED  BY <2>1, <2>2 DEF ColumnInv, Extremes, Column!Value
  <1> QED  BY <1>1, <1>2, <1>3, <1>4, <1>5, <1>6 DEF Column!Next

\* mysql_handle has met no NULL in the rows it has walked, unless it has crashed.
NullInv ==
    /\ db = "mysql" => /\ at = "rows" => \A l \in 1 .. cursor - 1 : rows[l] # Null
                       /\ at \in {"deviation", "done"} => \A l \in 1 .. Len(rows) : rows[l] # Null
    /\ at = "crashed" => db = "mysql" /\ \E l \in DOMAIN rows : rows[l] = Null

LEMMA NullStep == ColumnInv /\ NullInv /\ [Column!Next]_Column!vars => NullInv'
  <1> SUFFICES ASSUME ColumnInv, NullInv, [Column!Next]_Column!vars PROVE NullInv'
    OBVIOUS
  <1>1. CASE Column!Choose
    BY <1>1 DEF Column!Choose, NullInv
  <1>2. CASE Column!Query
    <2>1. cursor' = 1 /\ at' \in {"done", "rows", "error"} /\ (at' = "done" => rows' = <<>>)
      BY <1>2 DEF Column!Query, ColumnInv
    <2> QED  BY <2>1 DEF NullInv
  <1>3. CASE Column!Row
    <2>1. /\ at = "rows" /\ db' = db /\ rows' = rows
          /\ cursor \in 1 .. Len(rows) /\ Len(rows) \in Nat
      BY <1>3 DEF Column!Row, ColumnInv, RowType
    <2>2. CASE Column!NoString(cursor)
      <3>1. at' = "crashed" /\ db = "mysql" /\ rows[cursor] = Null
        BY <1>3, <2>2 DEF Column!Row, Column!NoString
      <3>2. cursor \in DOMAIN rows
        BY <1>3 DEF Column!Row, ColumnInv, RowType
      <3> QED  BY <2>1, <3>1, <3>2 DEF NullInv
    <2>3. CASE ~Column!NoString(cursor)
      <3>1. at' = at /\ cursor' = cursor + 1 /\ (db = "mysql" => rows[cursor] # Null)
        BY <1>3, <2>3 DEF Column!Row, Column!NoString
      <3> QED  BY <2>1, <3>1 DEF NullInv
    <2> QED  BY <2>2, <2>3
  <1>4. CASE Column!Mean
    <2>1. at = "rows" /\ at' = "deviation" /\ db' = db /\ rows' = rows
          /\ cursor = Len(rows) + 1 /\ Len(rows) \in Nat
      BY <1>4 DEF Column!Mean, ColumnInv, RowType
    <2> QED  BY <2>1 DEF NullInv
  <1>5. CASE Column!Deviation
    BY <1>5 DEF Column!Deviation, NullInv
  <1>6. CASE UNCHANGED Column!vars
    BY <1>6 DEF Column!vars, NullInv
  <1> QED  BY <1>1, <1>2, <1>3, <1>4, <1>5, <1>6 DEF Column!Next

LEMMA ColumnApart == Spec => Column!Init /\ [][Column!Next]_Column!vars
  <1>1. Init => Column!Init
    BY DEF Init
  <1> QED  BY <1>1, Apart, PTL DEF Spec

LEMMA ColumnEnd == ASSUME ColumnInv, NullInv PROVE Column!StatsTrue
  <1> DEFINE V(l) == Column!Value(l)
             Sum == Column!MapThenSumSet(LAMBDA l : Column!Value(l), DOMAIN rows)
             SumSq == Column!MapThenSumSet(LAMBDA l : Column!Square(Column!Value(l)), DOMAIN rows)
  <1> SUFFICES ASSUME at = "done", rows # <<>>
               PROVE  /\ \A l \in DOMAIN rows : min_val <= V(l) /\ V(l) <= max_val
                      /\ {min_val, max_val} \subseteq {V(l) : l \in DOMAIN rows}
                      /\ Sum \in -Half .. Half - 1 =>
                           /\ sum_val = Sum
                           /\ tmp_val = Column!Square(Len(rows)) * SumSq - Len(rows) * Column!Square(sum_val)
    <2>1. /\ at = "crashed" => db = "mysql" /\ \E l \in DOMAIN rows : rows[l] = Null
          /\ at = "done" /\ db = "mysql" => \A l \in DOMAIN rows : rows[l] # Null
      <3>1. at = "done" => rows = <<>> \/ DOMAIN rows = 1 .. Len(rows)
        BY DEF ColumnInv, RowType
      <3> QED  BY <3>1 DEF NullInv
    <2> QED  BY <2>1 DEF Column!StatsTrue, Column!Total
  <1>1. /\ RowType /\ Extremes(Len(rows)) /\ cursor = Len(rows) + 1
        /\ \A all, sq : Summing(all, sq) =>
              sum_val = Column!ToInt(all[1 .. Len(rows)]) /\ Deviates(all, sq)
    BY DEF ColumnInv
  <1>2. /\ Len(rows) \in Nat /\ DOMAIN rows = 1 .. Len(rows) /\ cursor - 1 = Len(rows)
        /\ \A l \in 1 .. Len(rows) : Column!Value(l) \in Int
        /\ DOMAIN rows \in SUBSET (0 .. Len(rows))
    BY <1>1, ValuesAreInts DEF RowType
  <1>3. Vals \in [0 .. Len(rows) -> Int]
    BY <1>2 DEF Vals
  <1>4. Squares \in [0 .. Len(rows) -> Int]
    BY <1>2 DEF Squares, Column!Square
  <1>5. PICK all \in [SUBSET (0 .. Len(rows)) -> Int] : Totals(all, Len(rows), Vals)
    BY <1>2, <1>3, SumExists
  <1>6. PICK sq \in [SUBSET (0 .. Len(rows)) -> Int] : Totals(sq, Len(rows), Squares)
    BY <1>2, <1>4, SumExists
  <1>7. Sum = all[DOMAIN rows]
    <2> DEFINE S == DOMAIN rows
               Is(w) == w = [s \in SUBSET S |->
                              IF s = {} THEN 0
                              ELSE Column!Value(CHOOSE x \in s : TRUE) + w[s \ {CHOOSE x \in s : TRUE}]]
    <2>0. Len(rows) \in Nat /\ S \in SUBSET (0 .. Len(rows))
      BY <1>2
    <2>1. ASSUME NEW w PROVE Is(w) <=> Iterates(w, S, Vals)
      <3>1. ASSUME NEW s \in SUBSET S, s # {}
            PROVE  Column!Value(CHOOSE x \in s : TRUE) = Vals[CHOOSE x \in s : TRUE]
        <4>1. PICK c : c = (CHOOSE x \in s : TRUE)
          OBVIOUS
        <4>2. c \in 1 .. Len(rows)
          BY <3>1, <4>1, <1>2
        <4>3. c \in 0 .. Len(rows) /\ c # 0
          BY <4>2
        <4> QED  BY <4>1, <4>3 DEF Vals
      <3> QED  BY <3>1 DEF Iterates
    <2>2. Is([s \in SUBSET S |-> all[s]])
      <3>1. Iterates([s \in SUBSET S |-> all[s]], S, Vals)
        <4> HIDE DEF S
        <4> QED  BY <2>0, <1>5, TotalsIterate
      <3> HIDE DEF Is
      <3> QED  BY <2>1, <3>1
    <2>3. Is(CHOOSE w : Is(w))
      BY <2>2
    <2>4. Sum = (CHOOSE w : Is(w))[S]
      BY DEF Column!MapThenSumSet, Column!MapThenFoldSet
    <2>5. PICK w : Iterates(w, S, Vals) /\ Sum = w[S]
      BY <2>1, <2>3, <2>4
    <2>6. w[S] = all[S]
      <3>1. PICK n : n = Len(rows)
        OBVIOUS
      <3>2. n \in Nat /\ S \in SUBSET (0 .. n) /\ all \in [SUBSET (0 .. n) -> Int] /\ Totals(all, n, Vals)
        BY <2>0, <3>1, <1>5
      <3> HIDE DEF S
      <3>3. Iterates(w, S, Vals)
        BY <2>5
      <3>4. \A iter : Iterates(iter, S, Vals) => iter[S] = all[S]
        BY <3>2, SumIs
      <3> QED  BY <3>3, <3>4
    <2> QED  BY <2>5, <2>6
  <1>8. SumSq = sq[DOMAIN rows]
    <2> DEFINE S == DOMAIN rows
               Is(w) == w = [s \in SUBSET S |->
                              IF s = {} THEN 0
                              ELSE Column!Square(Column!Value(CHOOSE x \in s : TRUE))
                                     + w[s \ {CHOOSE x \in s : TRUE}]]
    <2>0. Len(rows) \in Nat /\ S \in SUBSET (0 .. Len(rows))
      BY <1>2
    <2>1. ASSUME NEW w PROVE Is(w) <=> Iterates(w, S, Squares)
      <3>1. ASSUME NEW s \in SUBSET S, s # {}
            PROVE  Column!Square(Column!Value(CHOOSE x \in s : TRUE)) = Squares[CHOOSE x \in s : TRUE]
        <4>1. PICK c : c = (CHOOSE x \in s : TRUE)
          OBVIOUS
        <4>2. c \in 1 .. Len(rows)
          BY <3>1, <4>1, <1>2
        <4>3. c \in 0 .. Len(rows) /\ c # 0
          BY <4>2
        <4> QED  BY <4>1, <4>3 DEF Squares
      <3> QED  BY <3>1 DEF Iterates
    <2>2. Is([s \in SUBSET S |-> sq[s]])
      <3>1. Iterates([s \in SUBSET S |-> sq[s]], S, Squares)
        <4> HIDE DEF S
        <4> QED  BY <2>0, <1>6, TotalsIterate
      <3> HIDE DEF Is
      <3> QED  BY <2>1, <3>1
    <2>3. Is(CHOOSE w : Is(w))
      BY <2>2
    <2>4. SumSq = (CHOOSE w : Is(w))[S]
      BY DEF Column!MapThenSumSet, Column!MapThenFoldSet
    <2>5. PICK w : Iterates(w, S, Squares) /\ SumSq = w[S]
      BY <2>1, <2>3, <2>4
    <2>6. w[S] = sq[S]
      <3>1. PICK n : n = Len(rows)
        OBVIOUS
      <3>2. n \in Nat /\ S \in SUBSET (0 .. n) /\ sq \in [SUBSET (0 .. n) -> Int] /\ Totals(sq, n, Squares)
        BY <2>0, <3>1, <1>6
      <3> HIDE DEF S
      <3>3. Iterates(w, S, Squares)
        BY <2>5
      <3>4. \A iter : Iterates(iter, S, Squares) => iter[S] = sq[S]
        BY <3>2, SumIs
      <3> QED  BY <3>3, <3>4
    <2> QED  BY <2>5, <2>6
  <1> HIDE DEF Sum, SumSq
  <1>9. \A l \in DOMAIN rows : min_val <= V(l) /\ V(l) <= max_val
    BY <1>1, <1>2 DEF Extremes
  <1>10. {min_val, max_val} \subseteq {V(l) : l \in DOMAIN rows}
    BY <1>1, <1>2 DEF Extremes
  <1>11. ASSUME Sum \in -Half .. Half - 1
         PROVE  /\ sum_val = Sum
                /\ tmp_val = Column!Square(Len(rows)) * SumSq - Len(rows) * Column!Square(sum_val)
    <2>1. /\ sum_val = Column!ToInt(all[1 .. Len(rows)])
          /\ Deviates(all, sq)
      BY <1>1, <1>5, <1>6 DEF Summing
    <2>2. sum_val = Sum
      BY <2>1, <1>2, <1>7, <1>11, IntOfInt
    <2>3. tmp_val = Len(rows) * Len(rows) * SumSq - 2 * Len(rows) * sum_val * sum_val
                      + Len(rows) * sum_val * sum_val
      BY <2>1, <2>2, <1>2, <1>7, <1>8 DEF Deviates
    <2>4. SumSq \in Int /\ sum_val \in Int /\ Len(rows) \in Int
      BY <1>1, <1>2, <1>6, <1>8 DEF RowType
    <2>5. tmp_val = (Len(rows) * Len(rows)) * SumSq - Len(rows) * (sum_val * sum_val)
      BY <2>3, <2>4
    <2> QED  BY <2>2, <2>5 DEF Column!Square
  <1> QED  BY <1>9, <1>10, <1>11

\* A handler that prints anything prints the statistics of the column it has
\* read, and mysql_handle crashes on the columns with a NULL and on no others,
\* for columns of any length and ints of any width.
THEOREM StatsAreTrue == Spec => []StatsTrue
  <1>1. ColumnInv /\ NullInv => StatsTrue
    BY ColumnEnd DEF StatsTrue
  <1>2. Column!Init => NullInv
    BY DEF Column!Init, NullInv
  <1> QED  BY <1>1, <1>2, ColumnStart, ColumnStep, NullStep, ColumnApart, PTL

----------------------------------------------------------------------------
(* get_weather: the place whose number is used is the one that was found. *)

\* A search leads to a request when its answer gives a number, and to none
\* otherwise.
PlaceInv ==
    /\ \E m \in 0 .. 2 : answer \in [1 .. m -> Places!Places]
    /\ state \in {"search", "weather"} => asked = {}
    /\ state = "search" => answer = <<>>
    /\ state = "weather" => loc_id = Places!LocId(answer) /\ loc_id # 0
    /\ state = "done" => asked = {Places!LocId(answer)} \ {0}
    /\ state \in {"search", "weather", "done"}

LEMMA PlaceStart == Places!Init => PlaceInv
  <1> SUFFICES ASSUME Places!Init PROVE PlaceInv
    OBVIOUS
  <1>1. 0 \in 0 .. 2 /\ answer \in [1 .. 0 -> Places!Places]
    BY DEF Places!Init
  <1> QED  BY <1>1 DEF Places!Init, PlaceInv

LEMMA PlaceStep == PlaceInv /\ [Places!Next]_Places!vars => PlaceInv'
  <1> SUFFICES ASSUME PlaceInv, [Places!Next]_Places!vars PROVE PlaceInv'
    OBVIOUS
  <1>1. CASE Places!Search
    <2>1. /\ state = "search" /\ asked' = asked /\ asked = {}
          /\ state' = IF loc_id' = 0 THEN "done" ELSE "weather"
      BY <1>1 DEF Places!Search, PlaceInv
    <2>2. PICK places \in UNION {[1 .. m -> Places!Places] : m \in 0 .. 2} :
            answer' = places /\ loc_id' = Places!LocId(places)
      BY <1>1 DEF Places!Search
    <2>3. PICK m \in 0 .. 2 : places \in [1 .. m -> Places!Places]
      OBVIOUS
    <2>4. answer' \in [1 .. m -> Places!Places] /\ loc_id' = Places!LocId(answer')
      BY <2>2, <2>3
    <2> HIDE DEF PlaceInv
    <2>5. CASE loc_id' = 0
      BY <2>1, <2>4, <2>5 DEF PlaceInv
    <2>6. CASE loc_id' # 0
      BY <2>1, <2>4, <2>6 DEF PlaceInv
    <2> QED  BY <2>5, <2>6
  <1>2. CASE Places!Ask
    BY <1>2 DEF Places!Ask, PlaceInv
  <1>3. CASE UNCHANGED Places!vars
    BY <1>3 DEF Places!vars, PlaceInv
  <1> QED  BY <1>1, <1>2, <1>3 DEF Places!Next

\* The number of a place none of whose keys is only a beginning of "woeid".
LEMMA NumberOf ==
    ASSUME NEW place \in Places!Places, \A p \in Places!Range(place) : p.key # "w"
    PROVE  {Places!LastWoeid(place)} \ {0}
             = {Places!ToInt(p.value) : p \in {q \in Places!Range(place) : q.key = "woeid"}} \ {0}
  <1> DEFINE taken == {n \in DOMAIN place : Places!TakenForWoeid(place[n].key)}
             keyed == {q \in Places!Range(place) : q.key = "woeid"}
  <1>1. \A n \in DOMAIN place : place[n] \in Places!Range(place) /\ place[n].key # "w"
    BY DEF Places!Range
  <1>2. \A n \in DOMAIN place : n \in taken <=> place[n].key = "woeid"
    BY <1>1 DEF Places!TakenForWoeid
  <1>3. CASE taken = {}
    <2>1. Places!LastWoeid(place) = 0
      BY <1>3 DEF Places!LastWoeid
    <2>2. keyed = {}
      BY <1>2, <1>3 DEF Places!Range
    <2> QED  BY <2>1, <2>2
  <1>4. ASSUME NEW n \in taken PROVE {Places!LastWoeid(place)} = {Places!ToInt(p.value) : p \in keyed}
    <2>1. \A m \in taken : m = n
      BY <1>2 DEF Places!Places
    <2>2. taken = {n} /\ n \in DOMAIN place
      BY <2>1
    <2>3. Places!Max(taken) = n
      <3>1. PICK m \in 0 .. MaxKeys : place \in [1 .. m -> Places!Pair]
        BY DEF Places!Places
      <3>2. n \in Int
        BY <2>2, <3>1
      <3>3. \E x \in {n} : \A y \in {n} : x >= y
        BY <3>2
      <3> HIDE DEF taken
      <3> QED  BY <2>2, <3>3 DEF Places!Max
    <2>4. Places!LastWoeid(place) = Places!ToInt(place[n].value)
      BY <2>2, <2>3 DEF Places!LastWoeid
    <2>5. keyed = {place[n]}
      BY <1>1, <1>2, <2>2 DEF Places!Range
    <2> QED  BY <2>4, <2>5
  <1> QED  BY <1>3, <1>4

LEMMA PlacesApart == Spec => Places!Init /\ [][Places!Next]_Places!vars
  <1>1. Init => Places!Init
    BY DEF Init
  <1> QED  BY <1>1, Apart, PTL DEF Spec

\* get_weather asks for the weather of the place its search has found, by its
\* number as an int, whenever that is one place with a number, and for no other,
\* however many keys a place has.
THEOREM PlaceIsRight == Spec => []RightPlace
  <1>1. PlaceInv => Places!RightPlace
    <2> SUFFICES ASSUME PlaceInv PROVE Places!RightPlace
      OBVIOUS
    <2>1. PICK m \in 0 .. 2 : answer \in [1 .. m -> Places!Places]
      BY DEF PlaceInv
    <2>2. Len(answer) = m
      BY <2>1
    <2>3. asked # {} => Len(answer) = 1
      BY DEF PlaceInv, Places!LocId
    <2>4. ASSUME Len(answer) = 1, state = "done", \A p \in Places!Range(answer[1]) : p.key # "w"
          PROVE  asked = {Places!ToInt(p.value) :
                            p \in {q \in Places!Range(answer[1]) : q.key = "woeid"}} \ {0}
      <3>1. answer[1] \in Places!Places
        BY <2>1, <2>2, <2>4
      <3>2. asked = {Places!LastWoeid(answer[1])} \ {0}
        BY <2>4 DEF PlaceInv, Places!LocId
      <3> QED  BY <2>4, <3>1, <3>2, NumberOf
    <2> QED  BY <2>3, <2>4 DEF Places!RightPlace
  <1>2. RightPlace <=> (prog = "places" => Places!RightPlace)
    BY DEF RightPlace
  <1> QED  BY <1>1, <1>2, PlaceStart, PlaceStep, PlacesApart, PTL

----------------------------------------------------------------------------
(* ftp_serv: the int a transfer's result becomes. *)

LEMMA Widths == BUF_SIZE \in Nat \ {0} /\ MaxSize \in Nat /\ Half \in Nat \ {0}
  BY BufferAssumption, ColumnAssumption


USE Widths

LEMMA ModBounds ==
    ASSUME NEW x \in Nat, NEW m \in Nat \ {0}
    PROVE  x % m \in 0 .. m - 1 /\ x % m <= x
  OBVIOUS

LEMMA ModDiv ==
    ASSUME NEW x \in Nat, NEW m \in Nat \ {0}
    PROVE  x \div m \in Nat /\ x = m * (x \div m) + (x % m)
  OBVIOUS

LEMMA ModOfMultiple ==
    ASSUME NEW q \in Nat, NEW m \in Nat \ {0}
    PROVE  (m * q) % m = 0
  OBVIOUS

LEMMA ModOfSmall ==
    ASSUME NEW x \in Nat, NEW m \in Nat \ {0}, x < m
    PROVE  x % m = x
  OBVIOUS

\* Wrapping only makes a number of bytes smaller.
LEMMA AsIntAtMost ==
    ASSUME NEW n \in Nat
    PROVE  Send!AsInt(n) \in Int /\ Send!AsInt(n) <= n
  <1>1. n + Half \in Nat /\ 2 * Half \in Nat \ {0}
    OBVIOUS
  <1> QED  BY <1>1, ModBounds DEF Send!AsInt

LEMMA AsIntOfMinus1 == Send!AsInt(-1) = -1
  <1>1. -1 + Half \in Nat /\ 2 * Half \in Nat \ {0} /\ -1 + Half < 2 * Half
    OBVIOUS
  <1> QED  BY <1>1, ModOfSmall DEF Send!AsInt

\* A count that wraps to 0 is a multiple of 2 * Half.
LEMMA AsIntZero ==
    ASSUME NEW n \in Nat, Send!AsInt(n) = 0
    PROVE  n % (2 * Half) = 0
  <1> DEFINE m == 2 * Half
             q == (n + Half) \div m
  <1>1. n + Half \in Nat /\ m \in Nat \ {0}
    OBVIOUS
  <1>2. (n + Half) % m = Half
    BY <1>1, ModBounds DEF Send!AsInt
  <1>3. q \in Nat /\ n + Half = m * q + Half
    <2> DEFINE x == n + Half
    <2>1. x \in Nat /\ m \in Nat \ {0} /\ x % m = Half
      BY <1>1, <1>2
    <2> HIDE DEF x, m
    <2>2. (x \div m) \in Nat /\ x = m * (x \div m) + Half
      BY <2>1, ModDiv
    <2> QED  BY <2>2 DEF x
  <1>4. n = m * q
    <2> HIDE DEF m, q
    <2>1. m * q \in Nat
      BY <1>1, <1>3
    <2> QED  BY <1>3, <2>1
  <1> QED  BY <1>1, <1>3, <1>4, ModOfMultiple

----------------------------------------------------------------------------
(* ftp_serv: where the bytes of a transfer are. *)

InHand == IF sending = "write" THEN numRead ELSE 0

\* The bytes taken from the file are those sent, lost, or in the buffer; what
\* is in the buffer is not more than what is still to be sent; and without
\* appends nothing beyond the size asked for can be read.
Sent ==
    /\ totSent + count = st_size
    /\ sending # "done" => offset = totSent + lost + InHand /\ reply = 0
    /\ sending = "write" => numRead <= count
    /\ ~grew => fsize <= st_size /\ (sending # "done" => offset <= st_size)
    /\ ~shrank => fsize >= st_size
    /\ lost > 0 => totSent > 0

SendInv == Send!TypeOK /\ Sent /\ Send!SendOkIsTrue /\ Send!FailureMeans

\* What ftp_retr replies is true of what was sent.
LEMMA RepliesMean ==
    ASSUME SendInv, sending # "done", UNCHANGED <<totSent, st_size, lost, grew, shrank>>,
           \/ Send!Return(totSent) /\ offset = totSent + lost /\ (count = 0 \/ Send!Left = 0)
           \/ Send!Return(-1)
    PROVE  Send!SendOkIsTrue' /\ Send!FailureMeans' /\ reply' \in {0, 226, 550}
  <1> USE DEF SendInv, Send!TypeOK, Send!FileSizes, Sent
  <1>1. totSent \in Nat /\ st_size \in Nat /\ lost \in Nat /\ totSent <= st_size
    OBVIOUS
  <1>2. CASE Send!Return(-1)
    BY <1>1, <1>2, AsIntOfMinus1 DEF Send!Return, Send!ReplyFor, Send!SendOkIsTrue, Send!FailureMeans
  <1>3. CASE Send!Return(totSent) /\ offset = totSent + lost /\ (count = 0 \/ Send!Left = 0)
    <2>1. CASE Send!AsInt(totSent) = 0
      <3>1. totSent > 0 \/ st_size = 0 \/ shrank
        BY <1>1, <1>3 DEF Send!Left
      <3> QED  BY <1>1, <1>3, <2>1, <3>1, AsIntZero DEF Send!Return, Send!ReplyFor, Send!SendOkIsTrue, Send!FailureMeans
    <2>2. CASE Send!AsInt(totSent) # 0 /\ Send!AsInt(totSent) = st_size
      <3>1. totSent = st_size
        BY <1>1, <2>2, AsIntAtMost
      <3>2. lost = 0 \/ grew
        BY <1>1, <1>3, <3>1
      <3> QED  BY <1>3, <2>2, <3>1, <3>2 DEF Send!Return, Send!ReplyFor, Send!SendOkIsTrue, Send!FailureMeans
    <2>3. CASE Send!AsInt(totSent) # 0 /\ Send!AsInt(totSent) # st_size
      BY <1>3, <2>3 DEF Send!Return, Send!ReplyFor, Send!SendOkIsTrue, Send!FailureMeans
    <2> QED  BY <2>1, <2>2, <2>3
  <1> QED  BY <1>2, <1>3

LEMMA SendStart == Send!Init => SendInv
  <1> SUFFICES ASSUME Send!Init PROVE SendInv
    OBVIOUS
  <1>1. Send!TypeOK /\ Sent
    <2>1. grew \in BOOLEAN /\ shrank \in BOOLEAN
      BY Zenon DEF Send!Init
    <2> QED  BY <2>1 DEF Send!Init, Send!TypeOK, Send!FileSizes, Sent, InHand
  <1>2. Send!SendOkIsTrue /\ Send!FailureMeans
    <2>1. reply # 226 /\ reply # 550
      BY DEF Send!Init
    <2> QED  BY <2>1, Zenon DEF Send!SendOkIsTrue, Send!FailureMeans
  <1> QED  BY <1>1, <1>2 DEF SendInv

LEMMA SendStep == SendInv /\ [Send!Next]_Send!vars => SendInv'
  <1> SUFFICES ASSUME SendInv, [Send!Next]_Send!vars PROVE SendInv'
    OBVIOUS
  <1> USE DEF SendInv, Send!TypeOK, Send!FileSizes
  <1>1. CASE Send!Read
    <2>1. CASE (count = 0 \/ Send!Left = 0) /\ Send!Return(totSent) /\ UNCHANGED <<offset, numRead>>
      <3>1. offset = totSent + lost /\ sending # "done"
        BY <1>1, <2>1 DEF Send!Read, Sent, InHand
      <3>2. Send!SendOkIsTrue' /\ Send!FailureMeans' /\ reply' \in {0, 226, 550}
        BY <1>1, <2>1, <3>1, RepliesMean DEF Send!Read
      <3>3. (Send!TypeOK /\ Sent)'
        BY <1>1, <2>1, <3>2 DEF Send!Read, Send!Return, Sent, InHand
      <3> QED  BY <3>2, <3>3
    <2>2. CASE count > 0 /\ Send!Return(-1) /\ UNCHANGED <<offset, numRead>>
      <3>1. Send!SendOkIsTrue' /\ Send!FailureMeans' /\ reply' \in {0, 226, 550}
        BY <1>1, <2>2, RepliesMean DEF Send!Read
      <3>2. (Send!TypeOK /\ Sent)'
        BY <1>1, <2>2, <3>1 DEF Send!Read, Send!Return, Sent, InHand
      <3> QED  BY <3>1, <3>2
    <2>3. CASE /\ count > 0 /\ Send!Left > 0
               /\ numRead' = Send!Least(Send!Least(count, BUF_SIZE), Send!Left)
               /\ offset' = offset + numRead'
               /\ sending' = "write" /\ UNCHANGED reply
      <3>1. numRead' \in 1 .. BUF_SIZE /\ numRead' <= count /\ offset' <= fsize
        BY <2>3 DEF Send!Least, Send!Left
      <3>2. offset = totSent + lost /\ sending = "read"
        BY <1>1 DEF Send!Read, Sent, InHand
      <3> QED  BY <1>1, <2>3, <3>1, <3>2 DEF Send!Read, Sent, InHand, Send!SendOkIsTrue, Send!FailureMeans
    <2> QED  BY <1>1, <2>1, <2>2, <2>3 DEF Send!Read
  <1>2. CASE Send!Write
    <2>1. CASE Send!Return(-1) /\ UNCHANGED <<count, totSent, lost>>
      <3>1. Send!SendOkIsTrue' /\ Send!FailureMeans' /\ reply' \in {0, 226, 550}
        BY <1>2, <2>1, RepliesMean DEF Send!Write
      <3>2. (Send!TypeOK /\ Sent)'
        BY <1>2, <2>1, <3>1 DEF Send!Write, Send!Return, Sent, InHand
      <3> QED  BY <3>1, <3>2
    <2>2. ASSUME NEW numSent \in 1 .. numRead,
                 sending' = "read", count' = count - numSent, totSent' = totSent + numSent,
                 lost' = lost + (numRead - numSent), UNCHANGED reply
          PROVE  SendInv'
      BY <1>2, <2>2 DEF Send!Write, Sent, InHand, Send!SendOkIsTrue, Send!FailureMeans
    <2> QED  BY <1>2, <2>1, <2>2 DEF Send!Write
  <1>3. CASE Send!Resize
    <2>1. reply' = 0
      BY <1>3 DEF Send!Resize, Sent
    <2>2. grew' \in BOOLEAN /\ shrank' \in BOOLEAN
      BY <1>3, Zenon DEF Send!Resize
    <2>3. (~grew' => ~grew /\ ~(fsize' > fsize)) /\ (~shrank' => ~shrank /\ ~(fsize' < fsize))
      BY <1>3, Zenon DEF Send!Resize
    <2>4. (Send!TypeOK /\ Sent)'
      BY <1>3, <2>2, <2>3 DEF Send!Resize, Sent, InHand
    <2>5. (Send!SendOkIsTrue /\ Send!FailureMeans)'
      BY <2>1 DEF Send!SendOkIsTrue, Send!FailureMeans
    <2> QED  BY <2>4, <2>5
  <1>4. CASE UNCHANGED Send!vars
    BY <1>4 DEF Send!vars, Sent, InHand, Send!SendOkIsTrue, Send!FailureMeans
  <1> QED  BY <1>1, <1>2, <1>3, <1>4 DEF Send!Next

LEMMA SendApart == Spec => [](prog = "send" => SendInv)
  <1>1. Init => (prog = "send" => SendInv)
    BY SendStart DEF Init
  <1>2. [Next]_vars => prog' = prog /\ [Send!Next]_Send!vars
    BY Apart
  <1>3. (prog = "send" => SendInv) /\ [Next]_vars => (prog = "send" => SendInv)'
    <2> SUFFICES ASSUME prog = "send" => SendInv, [Next]_vars, prog' = "send" PROVE SendInv'
      OBVIOUS
    <2> QED  BY <1>2, SendStep
  <1> QED  BY <1>1, <1>3, PTL DEF Spec

\* Every variable of a transfer keeps its type.
THEOREM TransferTypeCorrect == Spec => [](prog = "send" => Send!TypeOK)
  BY SendApart, PTL DEF SendInv

\* The bytes sent and those still to be sent add up to the size that fstat
\* saw, and the file offset to the bytes sent, lost and in the buffer.
THEOREM BytesAccounted == Spec => []Accounted
  <1>1. SendInv => Send!Accounted
    BY DEF SendInv, Sent, Send!Accounted, InHand
  <1>2. Accounted <=> (prog = "send" => Send!Accounted)
    BY DEF Accounted
  <1> QED  BY <1>1, <1>2, SendApart, PTL

\* ftp_retr says 226 only when it has sent the whole file, and 550 only when it
\* has sent nothing of a file that was or became empty, or a multiple of 2 * Half
\* bytes: "550 Failed to read file" is never the reply to a read() that failed.
THEOREM TransferReplyMeans == Spec => []ReplyMeans
  <1>1. SendInv => Send!ReplyMeans
    BY DEF SendInv, Send!ReplyMeans
  <1>2. ReplyMeans <=> (prog = "send" => Send!ReplyMeans)
    BY DEF ReplyMeans
  <1> QED  BY <1>1, <1>2, SendApart, PTL

----------------------------------------------------------------------------
(* LogLine: the fields of a line, and the lines of a file. *)

\* The letters of a line, those with a meaning among them; a text.
Letters == STRING \cup {"h", "s", "q", "2", "a", "n", "c", "l", "0", "H", "b", "o"}
Chars == Seq(Letters)

\* strchr finds the first letter of its kind.
LEMMA Finds ==
    ASSUME NEW text \in Chars, NEW letter, NEW from \in Nat \ {0}, NEW p \in from .. Len(text),
           text[p] = letter, \A q \in from .. p - 1 : text[q] # letter
    PROVE  Log!Find(text, letter, from) = p
  <1> DEFINE Hit(q) == text[q] = letter /\ \A r \in from .. q - 1 : text[r] # letter
  <1>0. Len(text) \in Nat
    BY DEF Chars
  <1>1. Hit(p)
    OBVIOUS
  <1>2. \A q \in from .. Len(text) : Hit(q) => q = p
    <2> SUFFICES ASSUME NEW q \in from .. Len(text), Hit(q) PROVE q = p
      OBVIOUS
    <2>1. q < p => q \in from .. p - 1
      BY <1>0
    <2>2. p < q => p \in from .. q - 1
      BY <1>0
    <2>3. ~(q < p) /\ ~(p < q)
      BY <2>1, <2>2
    <2> QED  BY <1>0, <2>3
  <1>3. Log!Find(text, letter, from) = CHOOSE q \in from .. Len(text) : Hit(q)
    BY <1>0 DEF Log!Find
  <1> HIDE DEF Hit
  <1> QED  BY <1>1, <1>2, <1>3

\* One text behind another.
LEMMA Behind ==
    ASSUME NEW s \in Chars, NEW t \in Chars
    PROVE  /\ s \o t \in Chars /\ Len(s \o t) = Len(s) + Len(t) /\ Len(s) \in Nat /\ Len(t) \in Nat
           /\ \A q \in 1 .. Len(s) : (s \o t)[q] = s[q]
           /\ \A q \in 1 .. Len(t) : (s \o t)[Len(s) + q] = t[q]
  BY DEF Chars

\* The text of three words.
LEMMA JoinedThree ==
    ASSUME NEW words \in Seq(Chars), Len(words) = 3
    PROVE  Log!Joined(words) = words[1] \o <<"s">> \o words[2] \o <<"s">> \o words[3]
  <1> DEFINE ws == Tail(words)
             Op(text, w) == text \o <<"s">> \o w
             Iter(g) == g = [S \in SUBSET DOMAIN ws |->
                               IF S = {} THEN words[1] ELSE Op(g[S \ {Log!Max(S)}], ws[Log!Max(S)])]
  <1>1. DOMAIN ws = {1, 2} /\ ws[1] = words[2] /\ ws[2] = words[3]
    <2>1. ws \in Seq(Chars) /\ Len(ws) = 2 /\ \A q \in 1 .. 2 : ws[q] = words[q + 1]
      BY SMTT(30)
    <2>2. 1 .. 2 = {1, 2}
      OBVIOUS
    <2> HIDE DEF ws
    <2>3. DOMAIN ws = 1 .. 2
      BY <2>1
    <2> QED  BY <2>1, <2>2, <2>3
  <1>2. Log!Max({1}) = 1 /\ Log!Max({2}) = 2 /\ Log!Max({1, 2}) = 2
    BY DEF Log!Max
  <1> HIDE DEF Op
  <1>3. \E g : Iter(g)
    <2> DEFINE g == [S \in SUBSET {1, 2} |->
                       IF S = {} THEN words[1]
                       ELSE IF S = {1} THEN Op(words[1], ws[1])
                       ELSE IF S = {2} THEN Op(words[1], ws[2])
                       ELSE Op(Op(words[1], ws[1]), ws[2])]
    <2> HIDE DEF ws
    <2>1. g[{}] = words[1] /\ g[{1}] = Op(words[1], ws[1]) /\ g[{2}] = Op(words[1], ws[2])
          /\ g[{1, 2}] = Op(Op(words[1], ws[1]), ws[2])
      <3>1. /\ {} \in SUBSET {1, 2} /\ {1} \in SUBSET {1, 2} /\ {2} \in SUBSET {1, 2}
            /\ {1, 2} \in SUBSET {1, 2}
        OBVIOUS
      <3>2. {1} # {} /\ {2} # {} /\ {1, 2} # {} /\ {2} # {1} /\ {1, 2} # {1} /\ {1, 2} # {2}
        <4>1. 2 \notin {1} /\ 1 \notin {2} /\ 2 \in {1, 2} /\ 1 \in {1, 2} /\ 1 \in {1} /\ 2 \in {2}
          OBVIOUS
        <4>2. {2} # {1} /\ {1, 2} # {1} /\ {1, 2} # {2}
          BY <4>1, Zenon
        <4>3. {1} # {} /\ {2} # {} /\ {1, 2} # {}
          BY <4>1, Zenon
        <4> QED  BY <4>2, <4>3
      <3>3. g[{}] = words[1]
        BY <3>1, Zenon
      <3>4. g[{1}] = Op(words[1], ws[1])
        BY <3>1, <3>2, Zenon
      <3>5. g[{2}] = Op(words[1], ws[2])
        BY <3>1, <3>2, Zenon
      <3>6. g[{1, 2}] = Op(Op(words[1], ws[1]), ws[2])
        BY <3>1, <3>2, Zenon
      <3> QED  BY <3>3, <3>4, <3>5, <3>6
    <2>2. \A S \in SUBSET {1, 2} : S = {} \/ S = {1} \/ S = {2} \/ S = {1, 2}
      OBVIOUS
    <2>3. {1} \ {1} = {} /\ {2} \ {2} = {} /\ {1, 2} \ {2} = {1}
      OBVIOUS
    <2>4. g = [S \in SUBSET {1, 2} |-> g[S]]
      OBVIOUS
    <2> HIDE DEF g
    <2>5. \A S \in SUBSET {1, 2} :
            g[S] = IF S = {} THEN words[1] ELSE Op(g[S \ {Log!Max(S)}], ws[Log!Max(S)])
      <3> SUFFICES ASSUME NEW S \in SUBSET {1, 2}
                   PROVE  g[S] = IF S = {} THEN words[1] ELSE Op(g[S \ {Log!Max(S)}], ws[Log!Max(S)])
        OBVIOUS
      <3>1. CASE S = {}
        BY <3>1, <2>1
      <3>2. CASE S = {1}
        BY <3>2, <1>2, <2>1, <2>3
      <3>3. CASE S = {2}
        BY <3>3, <1>2, <2>1, <2>3
      <3>4. CASE S = {1, 2}
        BY <3>4, <1>2, <2>1, <2>3
      <3>5. S = {} \/ S = {1} \/ S = {2} \/ S = {1, 2}
        BY <2>2
      <3> HIDE DEF Iter
      <3> QED  BY <3>1, <3>2, <3>3, <3>4, <3>5, Zenon
    <2>6. g = [S \in SUBSET {1, 2} |->
                 IF S = {} THEN words[1] ELSE Op(g[S \ {Log!Max(S)}], ws[Log!Max(S)])]
      BY <2>4, <2>5
    <2>7. Iter(g)
      BY <1>1, <2>6
    <2> HIDE DEF Iter
    <2> QED  BY <2>7
  <1> DEFINE w == CHOOSE g : Iter(g)
  <1>4. Iter(w)
    BY <1>3
  <1>5. Log!Joined(words) = w[DOMAIN ws]
    BY DEF Log!Joined, Log!FoldLeft, Log!MapThenFoldSet, Op
  <1> HIDE DEF w, ws
  <1>6. w[{}] = words[1] /\ w[{1}] = Op(w[{}], ws[1]) /\ w[{1, 2}] = Op(w[{1}], ws[2])
    <2>1. \A S \in SUBSET {1, 2} :
            w[S] = IF S = {} THEN words[1] ELSE Op(w[S \ {Log!Max(S)}], ws[Log!Max(S)])
      BY <1>1, <1>4
    <2>2. {1} \ {1} = {} /\ {1, 2} \ {2} = {1} /\ {1} # {} /\ {1, 2} # {}
      OBVIOUS
    <2> HIDE DEF Iter
    <2> QED  BY <1>2, <2>1, <2>2, ZenonT(60)
  <1> QED  BY <1>1, <1>5, <1>6 DEF Op

\* A part of a text, behind the first `before` letters.
Holds(text, before, part) ==
    /\ text \in Chars /\ part \in Chars /\ before \in Nat
    /\ before + Len(part) <= Len(text)
    /\ \A q \in 1 .. Len(part) : text[before + q] = part[q]

LEMMA HoldsNew ==
    ASSUME NEW s \in Chars, NEW t \in Chars
    PROVE  Holds(s \o t, Len(s), t)
  BY Behind DEF Holds

LEMMA HoldsStill ==
    ASSUME NEW s \in Chars, NEW t \in Chars, NEW before, NEW part, Holds(s, before, part)
    PROVE  Holds(s \o t, before, part)
  <1> DEFINE u == s \o t
  <1>1. u \in Chars /\ Len(u) = Len(s) + Len(t) /\ Len(s) \in Nat /\ Len(t) \in Nat
        /\ \A q \in 1 .. Len(s) : u[q] = s[q]
    BY Behind
  <1>2. part \in Chars /\ Len(part) \in Nat /\ before \in Nat /\ before + Len(part) <= Len(s)
        /\ \A q \in 1 .. Len(part) : s[before + q] = part[q]
    BY DEF Holds, Chars
  <1> HIDE DEF u
  <1>3. ASSUME NEW q \in 1 .. Len(part) PROVE u[before + q] = part[q]
    <2>1. before + q \in 1 .. Len(s)
      BY <1>1, <1>2
    <2>2. u[before + q] = s[before + q]
      BY <1>1, <2>1
    <2>3. s[before + q] = part[q]
      BY <1>2
    <2> QED  BY <2>2, <2>3
  <1>4. Holds(u, before, part)
    BY <1>1, <1>2, <1>3 DEF Holds
  <1> QED  BY <1>4 DEF u

\* A line, of its request, its size and its referer.
LineOf(R, Z, W) == <<"h", "s", "q">> \o R \o <<"q", "s", "2", "s">> \o Z \o <<"s", "q">> \o W
                     \o <<"q", "s", "q", "a", "q", "n">>

\* Where its parts are.
LEMMA LineText ==
    ASSUME NEW R \in Chars, NEW Z \in Chars, NEW W \in Chars
    PROVE  LET text == LineOf(R, Z, W)
               a == Len(R)
               z == Len(Z)
               w == Len(W)
           IN  /\ text \in Chars /\ a \in Nat /\ z \in Nat /\ w \in Nat /\ Len(text) = 15 + a + z + w
               /\ text[1] = "h" /\ text[2] = "s" /\ text[3] = "q"
               /\ Holds(text, 3, R)
               /\ text[4 + a] = "q" /\ text[5 + a] = "s" /\ text[6 + a] = "2" /\ text[7 + a] = "s"
               /\ Holds(text, 7 + a, Z)
               /\ text[8 + a + z] = "s" /\ text[9 + a + z] = "q"
               /\ Holds(text, 9 + a + z, W)
               /\ text[10 + a + z + w] = "q"
  <1> DEFINE A == <<"h", "s", "q">>
             B == <<"q", "s", "2", "s">>
             C == <<"s", "q">>
             D == <<"q", "s", "q", "a", "q", "n">>
             t1 == A \o R
             t2 == t1 \o B
             t3 == t2 \o Z
             t4 == t3 \o C
             t5 == t4 \o W
             t6 == t5 \o D
             a == Len(R)
             z == Len(Z)
             w == Len(W)
  <1>1. A \in Chars /\ Len(A) = 3 /\ A[1] = "h" /\ A[2] = "s" /\ A[3] = "q"
    BY DEF Chars, Letters
  <1>2. B \in Chars /\ Len(B) = 4 /\ B[1] = "q" /\ B[2] = "s" /\ B[3] = "2" /\ B[4] = "s"
    BY DEF Chars, Letters
  <1>3. C \in Chars /\ Len(C) = 2 /\ C[1] = "s" /\ C[2] = "q"
    BY DEF Chars, Letters
  <1>4. D \in Chars /\ Len(D) = 6 /\ D[1] = "q"
    BY DEF Chars, Letters
  <1>0. a \in Nat /\ z \in Nat /\ w \in Nat /\ a = Len(R) /\ z = Len(Z) /\ w = Len(W)
    BY DEF Chars
  <1> HIDE DEF A, B, C, D, a, z, w
  <1>5. t1 \in Chars /\ t2 \in Chars /\ t3 \in Chars /\ t4 \in Chars /\ t5 \in Chars /\ t6 \in Chars
    <2>1. t1 \in Chars
      BY <1>1, Behind
    <2>2. t2 \in Chars
      BY <1>2, <2>1, Behind
    <2>3. t3 \in Chars
      BY <2>2, Behind
    <2>4. t4 \in Chars
      BY <1>3, <2>3, Behind
    <2>5. t5 \in Chars
      BY <2>4, Behind
    <2>6. t6 \in Chars
      BY <1>4, <2>5, Behind
    <2> QED  BY <2>1, <2>2, <2>3, <2>4, <2>5, <2>6
  <1>6. /\ Len(t1) = 3 + a /\ Len(t2) = 7 + a /\ Len(t3) = 7 + a + z /\ Len(t4) = 9 + a + z
        /\ Len(t5) = 9 + a + z + w /\ Len(t6) = 15 + a + z + w
    <2>1. Len(t1) = 3 + a
      BY <1>0, <1>1, Behind, ZenonT(60)
    <2> HIDE DEF t1
    <2>2. Len(t2) = Len(t1) + 4
      <3>1. Len(t2) = Len(t1) + Len(B)
        BY <1>2, <1>5, Behind
      <3> QED  BY <1>2, <3>1
    <2> HIDE DEF t2
    <2>3. Len(t3) = Len(t2) + z
      BY <1>0, <1>5, Behind
    <2> HIDE DEF t3
    <2>4. Len(t4) = Len(t3) + 2
      <3>1. Len(t4) = Len(t3) + Len(C)
        BY <1>3, <1>5, Behind
      <3> QED  BY <1>3, <3>1
    <2> HIDE DEF t4
    <2>5. Len(t5) = Len(t4) + w
      BY <1>0, <1>5, Behind
    <2> HIDE DEF t5
    <2>6. Len(t6) = Len(t5) + 6
      <3>1. Len(t6) = Len(t5) + Len(D)
        BY <1>4, <1>5, Behind
      <3> QED  BY <1>4, <3>1
    <2> HIDE DEF t1, t2, t3, t4, t5, t6
    <2> QED  BY <1>0, <2>1, <2>2, <2>3, <2>4, <2>5, <2>6
  <1>7. Holds(t6, 0, A)
    <2>1. Holds(t1, 0, A)
      <3>1. \A q \in 1 .. Len(A) : t1[q] = A[q]
        BY <1>1, Behind, Zenon
      <3>2. \A q \in 1 .. Len(A) : 0 + q = q
        BY <1>1
      <3> HIDE DEF t1
      <3>3. 0 + Len(A) <= Len(t1)
        BY <1>0, <1>1, <1>6
      <3> QED  BY <1>1, <1>5, <3>1, <3>2, <3>3 DEF Holds
    <2> HIDE DEF t1
    <2>2. Holds(t2, 0, A)
      BY <1>2, <1>5, <2>1, HoldsStill
    <2> HIDE DEF t2
    <2>3. Holds(t3, 0, A)
      BY <1>5, <2>2, HoldsStill
    <2> HIDE DEF t3
    <2>4. Holds(t4, 0, A)
      BY <1>3, <1>5, <2>3, HoldsStill
    <2> HIDE DEF t4
    <2>5. Holds(t5, 0, A)
      BY <1>5, <2>4, HoldsStill
    <2> HIDE DEF t5
    <2> QED  BY <1>4, <1>5, <2>5, HoldsStill, Zenon
  <1>8. Holds(t6, 3, R)
    <2>1. Holds(t1, 3, R)
      BY <1>1, HoldsNew
    <2> HIDE DEF t1
    <2>2. Holds(t2, 3, R)
      BY <1>2, <1>5, <2>1, HoldsStill
    <2> HIDE DEF t2
    <2>3. Holds(t3, 3, R)
      BY <1>5, <2>2, HoldsStill
    <2> HIDE DEF t3
    <2>4. Holds(t4, 3, R)
      BY <1>3, <1>5, <2>3, HoldsStill
    <2> HIDE DEF t4
    <2>5. Holds(t5, 3, R)
      BY <1>5, <2>4, HoldsStill
    <2> HIDE DEF t5
    <2> QED  BY <1>4, <1>5, <2>5, HoldsStill
  <1>9. Holds(t6, 3 + a, B)
    <2>2. Holds(t2, Len(t1), B)
      BY <1>2, <1>5, HoldsNew
    <2>a. Len(t1) = 3 + a
      BY <1>6
    <2> HIDE DEF t1, t2
    <2>3. Holds(t3, 3 + a, B)
      BY <1>5, <2>2, <2>a, HoldsStill
    <2> HIDE DEF t3
    <2>4. Holds(t4, 3 + a, B)
      BY <1>3, <1>5, <2>3, HoldsStill
    <2> HIDE DEF t4
    <2>5. Holds(t5, 3 + a, B)
      BY <1>5, <2>4, HoldsStill
    <2> HIDE DEF t5
    <2> QED  BY <1>4, <1>5, <2>5, HoldsStill
  <1>10. Holds(t6, 7 + a, Z)
    <2>3. Holds(t3, Len(t2), Z)
      BY <1>5, HoldsNew
    <2>a. Len(t2) = 7 + a
      BY <1>6
    <2> HIDE DEF t2, t3
    <2>4. Holds(t4, 7 + a, Z)
      BY <1>3, <1>5, <2>3, <2>a, HoldsStill
    <2> HIDE DEF t4
    <2>5. Holds(t5, 7 + a, Z)
      BY <1>5, <2>4, HoldsStill
    <2> HIDE DEF t5
    <2> QED  BY <1>4, <1>5, <2>5, HoldsStill
  <1>11. Holds(t6, 7 + a + z, C)
    <2>4. Holds(t4, Len(t3), C)
      BY <1>3, <1>5, HoldsNew
    <2>a. Len(t3) = 7 + a + z
      BY <1>6
    <2> HIDE DEF t3, t4
    <2>5. Holds(t5, 7 + a + z, C)
      BY <1>5, <2>4, <2>a, HoldsStill
    <2> HIDE DEF t5
    <2> QED  BY <1>4, <1>5, <2>5, HoldsStill
  <1>12. Holds(t6, 9 + a + z, W)
    <2>5. Holds(t5, Len(t4), W)
      BY <1>5, HoldsNew
    <2>a. Len(t4) = 9 + a + z
      BY <1>6
    <2> HIDE DEF t4, t5
    <2> QED  BY <1>4, <1>5, <2>5, <2>a, HoldsStill
  <1>13. Holds(t6, 9 + a + z + w, D)
    <2>6. Holds(t6, Len(t5), D)
      BY <1>4, <1>5, HoldsNew
    <2>a. Len(t5) = 9 + a + z + w
      BY <1>6
    <2> HIDE DEF t5, t6
    <2> QED  BY <2>6, <2>a
  <1> HIDE DEF t1, t2, t3, t4, t5, t6
  <1>14. t6[1] = "h" /\ t6[2] = "s" /\ t6[3] = "q"
    <2>1. t6[0 + 1] = A[1] /\ t6[0 + 2] = A[2] /\ t6[0 + 3] = A[3]
      BY <1>1, <1>7 DEF Holds
    <2> QED  BY <1>1, <2>1
  <1>15. t6[4 + a] = "q" /\ t6[5 + a] = "s" /\ t6[6 + a] = "2" /\ t6[7 + a] = "s"
    <2>1. t6[(3 + a) + 1] = B[1] /\ t6[(3 + a) + 2] = B[2] /\ t6[(3 + a) + 3] = B[3] /\ t6[(3 + a) + 4] = B[4]
      BY <1>2, <1>9 DEF Holds
    <2>2. (3 + a) + 1 = 4 + a /\ (3 + a) + 2 = 5 + a /\ (3 + a) + 3 = 6 + a /\ (3 + a) + 4 = 7 + a
      BY <1>0
    <2> QED  BY <1>2, <2>1, <2>2
  <1>16. t6[8 + a + z] = "s" /\ t6[9 + a + z] = "q"
    <2>1. t6[(7 + a + z) + 1] = C[1] /\ t6[(7 + a + z) + 2] = C[2]
      BY <1>3, <1>11 DEF Holds
    <2>2. (7 + a + z) + 1 = 8 + a + z /\ (7 + a + z) + 2 = 9 + a + z
      BY <1>0
    <2> QED  BY <1>3, <2>1, <2>2
  <1>17. t6[10 + a + z + w] = "q"
    <2>1. t6[(9 + a + z + w) + 1] = D[1]
      BY <1>4, <1>13 DEF Holds
    <2>2. (9 + a + z + w) + 1 = 10 + a + z + w
      BY <1>0
    <2> QED  BY <1>4, <2>1, <2>2
  <1> QED  BY <1>0, <1>5, <1>6, <1>8, <1>10, <1>12, <1>14, <1>15, <1>16, <1>17
       DEF LineOf, t6, t5, t4, t3, t2, t1, A, B, C, D, a, z, w

\* A part of a text, cut out of it.
LEMMA CutOut ==
    ASSUME NEW text, NEW before, NEW part, Holds(text, before, part)
    PROVE  SubSeq(text, before + 1, before + Len(part)) = part
  <1> DEFINE n == Len(part)
             piece == SubSeq(text, before + 1, before + n)
  <1>1. text \in Chars /\ part \in Chars /\ before \in Nat /\ n \in Nat /\ before + n <= Len(text)
        /\ Len(text) \in Nat /\ \A q \in 1 .. n : text[before + q] = part[q]
    BY DEF Holds, Chars
  <1> HIDE DEF n
  <1>2. piece = [q \in 1 .. n |-> text[before + q]]
    <2>1. ((before + n) - (before + 1)) + 1 = n
      BY <1>1
    <2>2. \A q \in 1 .. n : ((before + 1) + q) - 1 = before + q
      BY <1>1
    <2> QED  BY <1>1, <2>1, <2>2 DEF Chars
  <1>3. part = [q \in 1 .. n |-> part[q]]
    BY <1>1 DEF n, Chars
  <1>4. piece = part
    BY <1>1, <1>2, <1>3
  <1> QED  BY <1>4 DEF n

\* The words of a request, and what stands between them.
LEMMA Words ==
    ASSUME NEW u \in Chars, NEW v \in Chars, NEW x \in Chars
    PROVE  LET text == u \o <<"s">> \o v \o <<"s">> \o x
           IN  /\ text \in Chars /\ Len(text) = 2 + Len(u) + Len(v) + Len(x)
               /\ Holds(text, 0, u) /\ Holds(text, 1 + Len(u), v) /\ Holds(text, 2 + Len(u) + Len(v), x)
               /\ text[1 + Len(u)] = "s" /\ text[2 + Len(u) + Len(v)] = "s"
  <1> DEFINE S == <<"s">>
             t1 == u \o S
             t2 == t1 \o v
             t3 == t2 \o S
             t4 == t3 \o x
             a == Len(u)
             b == Len(v)
             c == Len(x)
  <1>1. S \in Chars /\ Len(S) = 1 /\ S[1] = "s"
    BY DEF Chars, Letters
  <1>0. a \in Nat /\ b \in Nat /\ c \in Nat /\ a = Len(u) /\ b = Len(v) /\ c = Len(x)
    BY DEF Chars
  <1> HIDE DEF S, a, b, c
  <1>2. t1 \in Chars /\ Len(t1) = a + 1
    <2>1. t1 \in Chars /\ Len(t1) = Len(u) + Len(S)
      BY <1>1, Behind
    <2> QED  BY <1>0, <1>1, <2>1
  <1>3. Holds(t1, 0, u) /\ Holds(t1, a, S)
    <2>1. Holds(t1, a, S)
      BY <1>0, <1>1, HoldsNew
    <2>2. \A q \in 1 .. a : t1[q] = u[q]
      BY <1>0, <1>1, Behind
    <2>3. \A q \in 1 .. a : 0 + q = q
      BY <1>0
    <2> HIDE DEF t1
    <2>4. 0 + a <= Len(t1)
      BY <1>0, <1>2
    <2> QED  BY <1>0, <1>2, <2>1, <2>2, <2>3, <2>4 DEF Holds
  <1> HIDE DEF t1
  <1>4. t2 \in Chars /\ Len(t2) = 1 + a + b
    <2>1. t2 \in Chars /\ Len(t2) = Len(t1) + Len(v)
      BY <1>2, Behind
    <2> QED  BY <1>0, <1>2, <2>1
  <1>5. Holds(t2, 0, u) /\ Holds(t2, a, S) /\ Holds(t2, 1 + a, v)
    <2>1. Holds(t2, 0, u)
      BY <1>2, <1>3, HoldsStill, Zenon
    <2>2. Holds(t2, a, S)
      BY <1>2, <1>3, HoldsStill
    <2>3. Holds(t2, Len(t1), v) /\ Len(t1) = 1 + a
      BY <1>0, <1>2, HoldsNew
    <2> QED  BY <2>1, <2>2, <2>3
  <1> HIDE DEF t2
  <1>6. t3 \in Chars /\ Len(t3) = 2 + a + b
    <2>1. t3 \in Chars /\ Len(t3) = Len(t2) + Len(S)
      BY <1>1, <1>4, Behind
    <2> QED  BY <1>0, <1>1, <1>4, <2>1
  <1>7. Holds(t3, 0, u) /\ Holds(t3, a, S) /\ Holds(t3, 1 + a, v) /\ Holds(t3, 1 + a + b, S)
    <2>1. Holds(t3, 0, u)
      BY <1>1, <1>4, <1>5, HoldsStill, Zenon
    <2>2. Holds(t3, a, S) /\ Holds(t3, 1 + a, v)
      BY <1>1, <1>4, <1>5, HoldsStill
    <2>3. Holds(t3, Len(t2), S)
      BY <1>1, <1>4, HoldsNew
    <2> QED  BY <1>4, <2>1, <2>2, <2>3
  <1> HIDE DEF t3
  <1>8. t4 \in Chars /\ Len(t4) = 2 + a + b + c
    BY <1>0, <1>6, Behind
  <1>9. /\ Holds(t4, 0, u) /\ Holds(t4, a, S) /\ Holds(t4, 1 + a, v) /\ Holds(t4, 1 + a + b, S)
        /\ Holds(t4, 2 + a + b, x)
    <2>1. Holds(t4, 0, u)
      BY <1>6, <1>7, HoldsStill, Zenon
    <2>2. Holds(t4, a, S) /\ Holds(t4, 1 + a, v) /\ Holds(t4, 1 + a + b, S)
      BY <1>6, <1>7, HoldsStill
    <2>3. Holds(t4, Len(t3), x)
      BY <1>6, HoldsNew
    <2> QED  BY <1>6, <2>1, <2>2, <2>3
  <1> HIDE DEF t4
  <1>10. t4[1 + a] = "s" /\ t4[2 + a + b] = "s"
    <2>1. t4[a + 1] = S[1] /\ t4[(1 + a + b) + 1] = S[1]
      BY <1>1, <1>9 DEF Holds
    <2>2. a + 1 = 1 + a /\ (1 + a + b) + 1 = 2 + a + b
      BY <1>0
    <2> QED  BY <1>1, <2>1, <2>2
  <1> QED  BY <1>0, <1>8, <1>9, <1>10 DEF t4, t3, t2, t1, S, a, b, c

\* A letter that a part of a text has not.
Without(part, letter) == \A q \in DOMAIN part : part[q] # letter

LEMMA Missing ==
    ASSUME NEW text, NEW before, NEW part, NEW letter, Holds(text, before, part),
           Without(part, letter), NEW r \in before + 1 .. before + Len(part)
    PROVE  text[r] # letter
  <1>1. part \in Chars /\ before \in Nat /\ Len(part) \in Nat
        /\ \A q \in 1 .. Len(part) : text[before + q] = part[q]
    BY DEF Holds, Chars
  <1>2. r - before \in 1 .. Len(part) /\ before + (r - before) = r
    BY <1>1
  <1>3. DOMAIN part = 1 .. Len(part)
    BY <1>1 DEF Chars
  <1>4. part[r - before] # letter
    BY <1>2, <1>3 DEF Without
  <1>5. text[before + (r - before)] = part[r - before]
    BY <1>1, <1>2
  <1> QED  BY <1>2, <1>4, <1>5

\* The url of a request of three words is the second of them.
LEMMA UrlOf ==
    ASSUME NEW u \in Chars, NEW v \in Chars, NEW x \in Chars, v # <<>>,
           Without(u, "s"), Without(v, "s")
    PROVE  Log!Url(u \o <<"s">> \o v \o <<"s">> \o x) = {v}
  <1> DEFINE text == u \o <<"s">> \o v \o <<"s">> \o x
             a == Len(u)
             b == Len(v)
  <1>0. a \in Nat /\ b \in Nat /\ b > 0 /\ Len(x) \in Nat
    BY DEF Chars
  <1>1. /\ text \in Chars /\ Len(text) = 2 + a + b + Len(x)
        /\ Holds(text, 0, u) /\ Holds(text, 1 + a, v)
        /\ text[1 + a] = "s" /\ text[2 + a + b] = "s"
    BY Words
  <1> HIDE DEF text
  <1>2. Log!Find(text, "s", 1) = 1 + a
    <2>1. \A r \in 1 .. (1 + a) - 1 : text[r] # "s"
      <3> SUFFICES ASSUME NEW r \in 1 .. (1 + a) - 1 PROVE text[r] # "s"
        OBVIOUS
      <3>1. r \in 0 + 1 .. 0 + Len(u)
        BY <1>0
      <3> QED  BY <1>1, <3>1, Missing
    <2>2. 1 + a \in 1 .. Len(text)
      BY <1>0, <1>1
    <2> QED  BY <1>1, <2>1, <2>2, Finds
  <1>3. \A from \in {2 + a, 3 + a} : Log!Find(text, "s", from) = 2 + a + b
    <2> SUFFICES ASSUME NEW from \in {2 + a, 3 + a} PROVE Log!Find(text, "s", from) = 2 + a + b
      OBVIOUS
    <2>0. from \in Nat \ {0} /\ from >= 2 + a
      BY <1>0
    <2>1. \A r \in from .. (2 + a + b) - 1 : text[r] # "s"
      <3> SUFFICES ASSUME NEW r \in from .. (2 + a + b) - 1 PROVE text[r] # "s"
        OBVIOUS
      <3>1. r \in (1 + a) + 1 .. (1 + a) + Len(v)
        BY <1>0, <2>0
      <3> QED  BY <1>1, <3>1, Missing
    <2>2. 2 + a + b \in from .. Len(text)
      BY <1>0, <1>1
    <2> QED  BY <1>1, <2>0, <2>1, <2>2, Finds
  <1>4. SubSeq(text, (1 + a) + 1, (1 + a) + b) = v
    BY <1>1, CutOut
  <1> HIDE DEF a, b
  <1>5. (1 + a) + 1 = 2 + a /\ (1 + a) + 2 = 3 + a /\ (2 + a + b) - 1 = (1 + a) + b
        /\ 1 + a # 0 /\ 2 + a + b # 0
    BY <1>0
  <1>6. Log!Find(text, "s", 2 + a) = 2 + a + b /\ Log!Find(text, "s", 3 + a) = 2 + a + b
    BY <1>3
  <1>7. Log!Url(text) = {SubSeq(text, (1 + a) + 1, (2 + a + b) - 1)}
    BY <1>2, <1>5, <1>6 DEF Log!Url
  <1> QED  BY <1>4, <1>5, <1>7 DEF text

LEMMA FieldOf ==
    ASSUME NEW x \in Log!Field
    PROVE  /\ x.request \in Seq(Chars) /\ x.size \in Chars /\ x.referer \in Chars
           /\ x.size # <<>> /\ Without(x.size, "s") /\ Without(x.referer, "q")
           /\ \A n \in DOMAIN x.request : /\ Without(x.request[n], "s") /\ Without(x.request[n], "q")
                                          /\ x.request[n] \in Chars
  <1> DEFINE Plain == STRING \ {"q", "s", "n"}
             Spaced == STRING \ {"q", "n"}
  <1>1. x.request \in Seq(Seq(Plain)) /\ x.size \in Seq(Plain) \ {<<>>} /\ x.referer \in Seq(Spaced)
    BY LineAssumption DEF Log!Field
  <1>2. Plain \subseteq Letters /\ Spaced \subseteq Letters /\ "q" \notin Plain /\ "s" \notin Plain
        /\ "q" \notin Spaced
    BY DEF Letters
  <1> HIDE DEF Plain, Spaced
  <1>3. \A t \in Seq(Plain) : t \in Chars /\ Without(t, "s") /\ Without(t, "q")
    <2> SUFFICES ASSUME NEW t \in Seq(Plain) PROVE t \in Chars /\ Without(t, "s") /\ Without(t, "q")
      OBVIOUS
    <2>1. \A n \in DOMAIN t : t[n] \in Plain
      OBVIOUS
    <2>2. t \in Chars
      BY <1>2 DEF Chars
    <2> QED  BY <1>2, <2>1, <2>2 DEF Without
  <1>4. x.referer \in Chars /\ Without(x.referer, "q")
    <2>1. \A n \in DOMAIN x.referer : x.referer[n] \in Spaced
      BY <1>1
    <2>2. x.referer \in Chars
      BY <1>1, <1>2 DEF Chars
    <2> QED  BY <1>2, <2>1, <2>2 DEF Without
  <1>5. x.request \in Seq(Chars)
    <2>1. Seq(Plain) \subseteq Chars
      BY <1>3
    <2> QED  BY <1>1, <2>1
  <1>6. \A n \in DOMAIN x.request : x.request[n] \in Seq(Plain)
    BY <1>1
  <1> QED  BY <1>1, <1>3, <1>4, <1>5, <1>6

\* The text of a usual request.
LEMMA RequestOf ==
    ASSUME NEW x \in Log!Field, Log!Usual(x)
    PROVE  LET text == Log!Joined(x.request)
           IN  /\ text \in Chars /\ text # <<>> /\ Without(text, "q")
               /\ x.request[2] \in Chars /\ Log!Url(text) = {x.request[2]}
  <1> DEFINE u == x.request[1]
             v == x.request[2]
             y == x.request[3]
             text == u \o <<"s">> \o v \o <<"s">> \o y
  <1>1. Len(x.request) = 3 /\ <<>> \notin Log!Range(x.request) /\ x.request \in Seq(Chars)
    BY FieldOf DEF Log!Usual
  <1>2. 1 \in DOMAIN x.request /\ 2 \in DOMAIN x.request /\ 3 \in DOMAIN x.request
    BY <1>1
  <1>3. /\ u \in Chars /\ v \in Chars /\ y \in Chars /\ v # <<>>
        /\ Without(u, "s") /\ Without(v, "s") /\ Without(u, "q") /\ Without(v, "q") /\ Without(y, "q")
    <2>1. v # <<>>
      BY <1>1, <1>2 DEF Log!Range
    <2> QED  BY <1>2, <2>1, FieldOf
  <1>4. Log!Joined(x.request) = text
    BY <1>1, JoinedThree
  <1> HIDE DEF u, v, y
  <1>5. Log!Url(text) = {v}
    BY <1>3, UrlOf
  <1> DEFINE a == Len(u)
             b == Len(v)
             c == Len(y)
  <1>0. a \in Nat /\ b \in Nat /\ c \in Nat
    BY <1>3 DEF Chars
  <1>6. /\ text \in Chars /\ Len(text) = 2 + a + b + c
        /\ Holds(text, 0, u) /\ Holds(text, 1 + a, v) /\ Holds(text, 2 + a + b, y)
        /\ text[1 + a] = "s" /\ text[2 + a + b] = "s"
    BY <1>3, Words
  <1> HIDE DEF text
  <1>7. Without(text, "q")
    <2> SUFFICES ASSUME NEW r \in DOMAIN text PROVE text[r] # "q"
      BY DEF Without
    <2>1. r \in 1 .. 2 + a + b + c
      BY <1>6 DEF Chars
    <2>2. CASE r \in 0 + 1 .. 0 + Len(u)
      BY <1>3, <1>6, <2>2, Missing
    <2>3. CASE r = 1 + a
      BY <1>6, <2>3
    <2>4. CASE r \in (1 + a) + 1 .. (1 + a) + Len(v)
      BY <1>3, <1>6, <2>4, Missing
    <2>5. CASE r = 2 + a + b
      BY <1>6, <2>5
    <2>6. CASE r \in (2 + a + b) + 1 .. (2 + a + b) + Len(y)
      BY <1>3, <1>6, <2>6, Missing
    <2>7. \/ r \in 0 + 1 .. 0 + Len(u) \/ r = 1 + a \/ r \in (1 + a) + 1 .. (1 + a) + Len(v)
          \/ r = 2 + a + b \/ r \in (2 + a + b) + 1 .. (2 + a + b) + Len(y)
      BY <1>0, <2>1
    <2> QED  BY <2>2, <2>3, <2>4, <2>5, <2>6, <2>7
  <1>8. text # <<>>
    BY <1>0, <1>6
  <1> QED  BY <1>3, <1>4, <1>5, <1>6, <1>7, <1>8 DEF v

\* What parse_func takes from a usual line.
LEMMA ParsedRight ==
    ASSUME NEW x \in Log!Field, Log!Usual(x)
    PROVE  Log!Parsed(Log!Line(x)) = {[url |-> x.request[2], size |-> x.size, referer |-> x.referer]}
  <1> DEFINE R == Log!Joined(x.request)
             Z == x.size
             W == x.referer
             a == Len(R)
             z == Len(Z)
             w == Len(W)
             text == LineOf(R, Z, W)
  <1>1. /\ R \in Chars /\ R # <<>> /\ Without(R, "q") /\ Log!Url(R) = {x.request[2]}
        /\ Z \in Chars /\ Z # <<>> /\ Without(Z, "s")
        /\ W \in Chars /\ W # <<>> /\ Without(W, "q")
    <2>1. W # <<>>
      BY DEF Log!Usual
    <2> QED  BY <2>1, RequestOf, FieldOf
  <1>2. Log!Line(x) = text
    BY DEF Log!Line, LineOf
  <1> HIDE DEF R, Z, W
  <1>3. /\ text \in Chars /\ a \in Nat /\ z \in Nat /\ w \in Nat /\ Len(text) = 15 + a + z + w
        /\ text[1] = "h" /\ text[2] = "s" /\ text[3] = "q"
        /\ Holds(text, 3, R)
        /\ text[4 + a] = "q" /\ text[5 + a] = "s" /\ text[6 + a] = "2" /\ text[7 + a] = "s"
        /\ Holds(text, 7 + a, Z)
        /\ text[8 + a + z] = "s" /\ text[9 + a + z] = "q"
        /\ Holds(text, 9 + a + z, W)
        /\ text[10 + a + z + w] = "q"
    BY <1>1, LineText
  <1>4. a > 0 /\ z > 0 /\ w > 0
    BY <1>1, <1>3 DEF Chars
  <1> HIDE DEF text
  <1>5. Log!Find(text, "q", 1) = 3
    <2>1. \A r \in 1 .. 3 - 1 : text[r] # "q"
      BY <1>3
    <2>2. 3 \in 1 .. Len(text)
      BY <1>3
    <2> QED  BY <1>3, <2>1, <2>2, Finds
  <1>6. Log!Find(text, "q", 5) = 4 + a
    <2>1. \A r \in 5 .. (4 + a) - 1 : text[r] # "q"
      <3> SUFFICES ASSUME NEW r \in 5 .. (4 + a) - 1 PROVE text[r] # "q"
        OBVIOUS
      <3>1. r \in 3 + 1 .. 3 + Len(R)
        BY <1>3
      <3>2. R \in Chars /\ Without(R, "q")
        BY <1>1
      <3>3. text \in Chars /\ Holds(text, 3, R) /\ 3 \in Nat
        BY <1>3
      <3> QED  BY <3>1, <3>2, <3>3, Missing
    <2>2. 4 + a \in 5 .. Len(text) /\ 5 \in Nat \ {0}
      BY <1>3, <1>4
    <2> QED  BY <1>3, <2>1, <2>2, Finds
  <1>7. Log!Find(text, "s", 4 + a) = 5 + a
    <2>1. \A r \in 4 + a .. (5 + a) - 1 : text[r] # "s"
      <3> SUFFICES ASSUME NEW r \in 4 + a .. (5 + a) - 1 PROVE text[r] # "s"
        OBVIOUS
      <3>1. r = 4 + a
        BY <1>3
      <3> QED  BY <1>3, <3>1
    <2>2. 5 + a \in 4 + a .. Len(text) /\ 4 + a \in Nat \ {0}
      BY <1>3, <1>4
    <2> QED  BY <1>3, <2>1, <2>2, Finds
  <1>8. Log!Find(text, "s", 6 + a) = 7 + a
    <2>1. \A r \in 6 + a .. (7 + a) - 1 : text[r] # "s"
      <3> SUFFICES ASSUME NEW r \in 6 + a .. (7 + a) - 1 PROVE text[r] # "s"
        OBVIOUS
      <3>1. r = 6 + a
        BY <1>3
      <3> QED  BY <1>3, <3>1
    <2>2. 7 + a \in 6 + a .. Len(text) /\ 6 + a \in Nat \ {0}
      BY <1>3, <1>4
    <2> QED  BY <1>3, <2>1, <2>2, Finds
  <1>9. Log!Find(text, "s", 9 + a) = 8 + a + z
    <2>1. \A r \in 9 + a .. (8 + a + z) - 1 : text[r] # "s"
      <3> SUFFICES ASSUME NEW r \in 9 + a .. (8 + a + z) - 1 PROVE text[r] # "s"
        OBVIOUS
      <3>1. r \in (7 + a) + 1 .. (7 + a) + Len(Z)
        BY <1>3
      <3>2. Z \in Chars /\ Without(Z, "s")
        BY <1>1
      <3>3. text \in Chars /\ Holds(text, 7 + a, Z) /\ 7 + a \in Nat
        BY <1>3
      <3> QED  BY <3>1, <3>2, <3>3, Missing
    <2>2. 8 + a + z \in 9 + a .. Len(text) /\ 9 + a \in Nat \ {0}
      BY <1>3, <1>4
    <2> QED  BY <1>3, <2>1, <2>2, Finds
  <1>10. Log!Find(text, "q", 8 + a + z) = 9 + a + z
    <2>1. \A r \in 8 + a + z .. (9 + a + z) - 1 : text[r] # "q"
      <3> SUFFICES ASSUME NEW r \in 8 + a + z .. (9 + a + z) - 1 PROVE text[r] # "q"
        OBVIOUS
      <3>1. r = 8 + a + z
        BY <1>3
      <3> QED  BY <1>3, <3>1
    <2>2. 9 + a + z \in 8 + a + z .. Len(text) /\ 8 + a + z \in Nat \ {0}
      BY <1>3, <1>4
    <2> QED  BY <1>3, <2>1, <2>2, Finds
  <1>11. Log!Find(text, "q", 11 + a + z) = 10 + a + z + w
    <2>1. \A r \in 11 + a + z .. (10 + a + z + w) - 1 : text[r] # "q"
      <3> SUFFICES ASSUME NEW r \in 11 + a + z .. (10 + a + z + w) - 1 PROVE text[r] # "q"
        OBVIOUS
      <3>1. r \in (9 + a + z) + 1 .. (9 + a + z) + Len(W)
        BY <1>3
      <3>2. W \in Chars /\ Without(W, "q")
        BY <1>1
      <3>3. text \in Chars /\ Holds(text, 9 + a + z, W) /\ 9 + a + z \in Nat
        BY <1>3
      <3> QED  BY <3>1, <3>2, <3>3, Missing
    <2>2. 10 + a + z + w \in 11 + a + z .. Len(text) /\ 11 + a + z \in Nat \ {0}
      BY <1>3, <1>4
    <2> QED  BY <1>3, <2>1, <2>2, Finds
  <1>12. SubSeq(text, 3 + 1, 3 + a) = R /\ SubSeq(text, (7 + a) + 1, (7 + a) + z) = Z
         /\ SubSeq(text, (9 + a + z) + 1, (9 + a + z) + w) = W
    BY <1>3, CutOut
  <1>0. a \in Nat /\ z \in Nat /\ w \in Nat
    BY <1>3
  <1> HIDE DEF a, z, w
  <1>13. /\ 3 + 1 = 4 /\ 4 + 1 = 5 /\ (4 + a) - 1 = 3 + a /\ (5 + a) + 1 = 6 + a /\ (7 + a) + 1 = 8 + a
         /\ (8 + a) + 1 = 9 + a /\ (8 + a + z) - 1 = (7 + a) + z
         /\ (9 + a + z) + 1 = 10 + a + z /\ (10 + a + z) + 1 = 11 + a + z
         /\ (10 + a + z + w) - 1 = (9 + a + z) + w
    BY <1>0
  <1>14. Log!Parsed(text) = {[url |-> x.request[2], size |-> Z, referer |-> W]}
    <2>2. SubSeq(text, 4, (4 + a) - 1) = R /\ SubSeq(text, 8 + a, (8 + a + z) - 1) = Z
          /\ SubSeq(text, 10 + a + z, (10 + a + z + w) - 1) = W
      BY <1>12, <1>13
    <2>3. Log!Find(text, "q", 4 + 1) = 4 + a /\ Log!Find(text, "q", 1) + 1 = 4
      BY <1>5, <1>6
    <2>4. Log!Find(text, "s", 4 + a) + 1 = 6 + a /\ Log!Find(text, "s", 6 + a) + 1 = 8 + a
      BY <1>7, <1>8, <1>13
    <2>5. Log!Find(text, "s", (8 + a) + 1) = 8 + a + z
      BY <1>9, <1>13
    <2>6. Log!Find(text, "q", 8 + a + z) + 1 = 10 + a + z
      BY <1>10, <1>13
    <2>7. Log!Find(text, "q", (10 + a + z) + 1) = 10 + a + z + w
      BY <1>11, <1>13
    <2>1. 0 \notin {4 + a, 8 + a + z, 10 + a + z + w} /\ 1 \notin {4, 6 + a, 8 + a, 10 + a + z}
      BY <1>0
    <2>8. Log!Parsed(text) =
            {[url |-> url, size |-> SubSeq(text, 8 + a, (8 + a + z) - 1),
              referer |-> SubSeq(text, 10 + a + z, (10 + a + z + w) - 1)]
                : url \in Log!Url(SubSeq(text, 4, (4 + a) - 1))}
      <3>1. Log!Parsed(text) =
              LET first   == 4
                  close   == Log!Find(text, "q", first + 1)
                  status  == Log!Find(text, "s", close) + 1
                  size    == Log!Find(text, "s", status) + 1
                  after   == Log!Find(text, "s", size + 1)
                  refer   == Log!Find(text, "q", after) + 1
                  end     == Log!Find(text, "q", refer + 1)
              IN  IF 0 \in {close, after, end} \/ 1 \in {first, status, size, refer}
                    THEN {}
                    ELSE {[url |-> url, size |-> SubSeq(text, size, after - 1),
                           referer |-> SubSeq(text, refer, end - 1)]
                            : url \in Log!Url(SubSeq(text, first, close - 1))}
        BY <2>3, Zenon DEF Log!Parsed
      <3> QED  BY <2>1, <2>3, <2>4, <2>5, <2>6, <2>7, <3>1
    <2> QED  BY <1>1, <2>2, <2>8
  <1> QED  BY <1>2, <1>14 DEF Z, W

----------------------------------------------------------------------------
\* fgets takes a usual line as it is.
LEMMA UsualString ==
    ASSUME NEW x \in Log!Field, Log!Usual(x)
    PROVE  LET text == Log!Line(x) IN SubSeq(text, 1, Len(text)) = text
  <1> DEFINE R == Log!Joined(x.request)
             Z == x.size
             W == x.referer
             text == LineOf(R, Z, W)
  <1>1. R \in Chars /\ Z \in Chars /\ W \in Chars
    BY RequestOf, FieldOf
  <1>2. Log!Line(x) = text
    BY DEF Log!Line, LineOf
  <1> HIDE DEF R, Z, W
  <1>3. text \in Chars
    BY <1>1, LineText
  <1> HIDE DEF text
  <1>4. text \in Seq(Letters)
    BY <1>3 DEF Chars
  <1> QED  BY <1>2, <1>4

\* How many strings are read and may still be, and what the units come from.
LineRest == [line : Log!Field, from : Nat \ {0}]
LinePart == [line : Log!Field, from : Nat \ {0}, cut : BOOLEAN]
LineInv ==
    /\ parsing \in {"open", "read", "stop", "crash"}
    /\ k \in Nat /\ rest \in Seq(LineRest) /\ fields \in Seq(LinePart)
    /\ k + Len(fields) = MaxRead
    /\ units = [n \in 1 .. Len(units) |-> units[n]] /\ Len(units) \in Nat
    /\ Len(units) <= Len(fields)
    /\ parsing # "crash" => Len(units) = Len(fields)
    /\ parsing = "stop" => rest = <<>> \/ k = 0
    /\ parsing = "crash" => /\ Len(fields) = Len(units) + 1
                            /\ Log!Parsed(Log!String(fields[Len(fields)])) = {}
    /\ \A n \in 1 .. Len(units) : units[n] \in Log!Parsed(Log!String(fields[n]))

LEMMA LineInvInit == ASSUME Log!Init PROVE LineInv
  <1>1. units = <<>> /\ fields = <<>> /\ rest = <<>>
    BY DEF Log!Init
  <1>2. Len(units) = 0 /\ Len(fields) = 0 /\ units = [n \in 1 .. 0 |-> units[n]]
    BY <1>1
  <1>3. MaxRead \in Nat /\ rest \in Seq(LineRest) /\ fields \in Seq(LinePart)
    BY <1>1, LineAssumption
  <1> QED  BY <1>1, <1>2, <1>3 DEF LineInv, Log!Init

LEMMA LineInvStep == ASSUME LineInv, [Log!Next]_Log!vars PROVE LineInv'
  <1> USE DEF LineInv
  <1>1. CASE Log!Open
    <2>1. rest' \in Seq(LineRest)
      <3>0. PICK n \in 0 .. MaxFile : \E ls \in [1 .. n -> Log!Field] :
              rest' = [l \in 1 .. n |-> [line |-> ls[l], from |-> 1]]
        BY <1>1 DEF Log!Open
      <3>1. PICK ls \in [1 .. n -> Log!Field] :
              rest' = [l \in 1 .. n |-> [line |-> ls[l], from |-> 1]]
        BY <3>0
      <3>2. n \in Nat
        BY LineAssumption
      <3>3. \A l \in 1 .. n : [line |-> ls[l], from |-> 1] \in LineRest
        BY <3>1 DEF LineRest
      <3>4. rest' = [l \in 1 .. n |-> rest'[l]] /\ \A l \in 1 .. n : rest'[l] \in LineRest
        BY <3>1, <3>3
      <3>5. rest' \in [1 .. n -> LineRest]
        BY <3>4
      <3> HIDE DEF LineInv
      <3> QED  BY <3>2, <3>5
    <2> QED  BY <1>1, <2>1 DEF Log!Open
  <1>2. CASE Log!ReadLine
    <2> DEFINE left == Head(rest)
               long == left.from + STR_MAX <= Len(Log!Line(left.line))
               x == [line |-> left.line, from |-> left.from, cut |-> long]
               next == [line |-> left.line, from |-> left.from + STR_MAX]
    <2>0. /\ parsing = "read" /\ rest # <<>> /\ k > 0 /\ k' = k - 1
          /\ rest' = IF long THEN <<next>> \o Tail(rest) ELSE Tail(rest)
          /\ fields' = Append(fields, x)
          /\ \/ /\ Log!Parsed(Log!String(x)) = {} /\ parsing' = "crash" /\ units' = units
             \/ \E u \in Log!Parsed(Log!String(x)) : units' = Append(units, u) /\ parsing' = parsing
      BY <1>2 DEF Log!ReadLine
    <2>1. x \in LinePart /\ rest' \in Seq(LineRest)
      <3>1. left \in LineRest /\ Tail(rest) \in Seq(LineRest)
        BY <2>0
      <3> HIDE DEF LineInv, left, long
      <3>6. STR_MAX \in Nat \ {0}
        BY LineAssumption
      <3>7. left.line \in Log!Field /\ left.from \in Nat \ {0}
        BY <3>1 DEF LineRest
      <3>2. left.line \in Log!Field /\ left.from \in Nat \ {0} /\ left.from + STR_MAX \in Nat \ {0}
        BY <3>6, <3>7
      <3> USE DEF long
      <3>5. long \in BOOLEAN
        OBVIOUS
      <3> HIDE DEF long
      <3>3. next \in LineRest /\ x \in LinePart
        BY <3>2, <3>5 DEF LineRest, LinePart
      <3> HIDE DEF next, x
      <3>4. <<next>> \o Tail(rest) \in Seq(LineRest)
        BY <3>1, <3>3
      <3> QED  BY <2>0, <3>1, <3>3, <3>4
    <2> HIDE DEF x, next, long, left
    <2>2. /\ fields' \in Seq(LinePart) /\ Len(fields') = Len(fields) + 1
          /\ fields'[Len(fields) + 1] = x /\ \A n \in 1 .. Len(fields) : fields'[n] = fields[n]
      BY <2>0, <2>1
    <2>3. k' \in Nat /\ k' + Len(fields') = MaxRead /\ Len(units) = Len(fields)
      <3>1. k \in Nat /\ Len(fields) \in Nat /\ k + Len(fields) = MaxRead
        OBVIOUS
      <3>2. k' \in Nat
        BY <2>0, <3>1
      <3>3. k' + Len(fields') = MaxRead
        <4>1. k' = k - 1 /\ Len(fields') = Len(fields) + 1
          BY <2>0, <2>2
        <4>2. (k - 1) + (Len(fields) + 1) = k + Len(fields)
          BY <3>1
        <4> HIDE DEF LineInv
        <4> QED  BY <3>1, <4>1, <4>2, Zenon
      <3> QED  BY <2>0, <3>2, <3>3
    <2>4. CASE Log!Parsed(Log!String(x)) = {} /\ parsing' = "crash" /\ units' = units
      <3>1. \A n \in 1 .. Len(units') : fields'[n] = fields[n]
        BY <2>2, <2>3, <2>4
      <3>2. \A n \in 1 .. Len(units') : units'[n] \in Log!Parsed(Log!String(fields'[n]))
        BY <2>4, <3>1
      <3>3. Len(fields') = Len(units') + 1
        BY <2>2, <2>3, <2>4
      <3>4. Log!Parsed(Log!String(fields'[Len(fields')])) = {}
        BY <2>2, <2>4
      <3>5. Len(units') <= Len(fields')
        <4>1. Len(units') \in Nat
          BY <2>4
        <4> QED  BY <3>3, <4>1
      <3> QED  BY <2>1, <2>2, <2>3, <2>4, <3>2, <3>3, <3>4, <3>5
    <2>5. ASSUME NEW u \in Log!Parsed(Log!String(x)), units' = Append(units, u), parsing' = parsing
          PROVE  LineInv'
      <3> DEFINE m == Len(units)
      <3>1. units' = [n \in 1 .. m + 1 |-> IF n = m + 1 THEN u ELSE units[n]] /\ Len(units') = m + 1
        <4> DEFINE S == {units[n] : n \in 1 .. m} \cup {u}
        <4>1. m \in Nat /\ units = [n \in 1 .. m |-> units[n]] /\ \A n \in 1 .. m : units[n] \in S
          OBVIOUS
        <4>2. u \in S
          OBVIOUS
        <4> HIDE DEF S, m, LineInv
        <4>3. units \in Seq(S) /\ Len(units) = m
          BY <4>1 DEF m
        <4> QED  BY <2>5, <4>1, <4>2, <4>3
      <3>2. units' = [n \in 1 .. m + 1 |-> units'[n]]
        BY <3>1
      <3>3. \A n \in 1 .. m + 1 : units'[n] \in Log!Parsed(Log!String(fields'[n]))
        <4> SUFFICES ASSUME NEW n \in 1 .. m + 1
                     PROVE  units'[n] \in Log!Parsed(Log!String(fields'[n]))
          OBVIOUS
        <4>1. CASE n = m + 1
          BY <2>2, <2>3, <2>5, <3>1, <4>1
        <4>2. CASE n \in 1 .. m
          <5>0. m \in Nat /\ n # m + 1 /\ n \in 1 .. Len(fields)
            <6>1. m \in Nat /\ m = Len(fields)
              BY <2>3
            <6> HIDE DEF LineInv, m
            <6> QED  BY <4>2, <6>1
          <5>1. units'[n] = units[n]
            BY <3>1, <5>0
          <5>2. fields'[n] = fields[n]
            BY <2>2, <5>0
          <5> QED  BY <4>2, <5>1, <5>2
        <4> QED  BY <4>1, <4>2
      <3> QED  BY <2>0, <2>1, <2>2, <2>3, <2>5, <3>1, <3>2, <3>3
    <2> QED  BY <2>0, <2>4, <2>5
  <1>3. CASE Log!EndOfFile
    BY <1>3 DEF Log!EndOfFile
  <1>4. CASE UNCHANGED Log!vars
    BY <1>4 DEF Log!vars
  <1> QED  BY <1>1, <1>2, <1>3, <1>4 DEF Log!Next

LEMMA LineInvRight == ASSUME LineInv PROVE Log!LineParsed
  <1>0. \A p \in LinePart : Log!Read(p) =>
          Log!Parsed(Log!String(p)) = {[url |-> p.line.request[2], size |-> p.line.size,
                                        referer |-> p.line.referer]}
    <2> SUFFICES ASSUME NEW p \in LinePart, Log!Read(p)
                 PROVE  Log!Parsed(Log!String(p)) =
                          {[url |-> p.line.request[2], size |-> p.line.size, referer |-> p.line.referer]}
      OBVIOUS
    <2>1. p.line \in Log!Field /\ Log!Usual(p.line)
      BY DEF LinePart, Log!Read
    <2>2. Log!String(p) = Log!Line(p.line)
      BY <2>1, UsualString DEF Log!String, Log!Read
    <2> QED  BY <2>1, <2>2, ParsedRight
  <1>1. \A n \in 1 .. Len(units) : Log!Read(fields[n]) =>
          units[n] = [url |-> fields[n].line.request[2], size |-> fields[n].line.size,
                      referer |-> fields[n].line.referer]
    <2> SUFFICES ASSUME NEW n \in 1 .. Len(units), Log!Read(fields[n])
                 PROVE  units[n] = [url |-> fields[n].line.request[2], size |-> fields[n].line.size,
                                    referer |-> fields[n].line.referer]
      OBVIOUS
    <2>1. fields[n] \in LinePart /\ units[n] \in Log!Parsed(Log!String(fields[n]))
      BY DEF LineInv
    <2> QED  BY <1>0, <2>1
  <1>5. parsing = "crash" => Len(fields) = Len(units) + 1 /\ ~Log!Read(fields[Len(fields)])
    <2> SUFFICES ASSUME parsing = "crash"
                 PROVE  Len(fields) = Len(units) + 1 /\ ~Log!Read(fields[Len(fields)])
      OBVIOUS
    <2>1. Len(fields) = Len(units) + 1 /\ Log!Parsed(Log!String(fields[Len(fields)])) = {}
      BY DEF LineInv
    <2>2. fields[Len(fields)] \in LinePart
      BY <2>1 DEF LineInv
    <2> QED  BY <1>0, <2>1, <2>2
  <1>2. DOMAIN units = 1 .. Len(units)
    BY DEF LineInv
  <1>3. parsing = "stop" => rest = <<>> \/ Len(units) = MaxRead
    BY DEF LineInv
  <1>4. parsing # "crash" => Len(units) = Len(fields)
    BY DEF LineInv
  <1> QED  BY <1>1, <1>2, <1>3, <1>4, <1>5 DEF Log!LineParsed

\* Up to MaxRead strings are read, in order, of a line like those a server writes
\* that fits into str the url, the size and the referer of that line, and no such
\* line crashes the program (hw10/main.c:106-152).
THEOREM LinesAreParsed == Spec => []LineParsed
  <1>1. Init => LineInv
    BY LineInvInit DEF Init
  <1>2. LineInv /\ [Next]_vars => LineInv'
    BY Apart, LineInvStep
  <1>3. LineInv => LineParsed
    BY LineInvRight DEF LineParsed
  <1> QED  BY <1>1, <1>2, <1>3, PTL DEF Spec

----------------------------------------------------------------------------
(* A text put together from parts, and where each part is in it. *)

\* FlattenSeq's iteration: F[n] is the text of the first n parts.
Flattens(F, ss) == F = [n \in 1 .. Len(ss) |-> IF n = 1 THEN ss[n] ELSE F[n - 1] \o ss[n]]

\* Part n + 1 of the first m is behind the first off[n] elements.
Placed(text, ss, m, off) ==
    /\ off \in [0 .. m -> Nat] /\ off[0] = 0 /\ off[m] = Len(text)
    /\ \A n \in 1 .. m : /\ off[n] = off[n - 1] + Len(ss[n])
                         /\ off[n] <= Len(text)
                         /\ \A q \in 1 .. Len(ss[n]) : text[off[n - 1] + q] = ss[n][q]

\* The iteration as far as m.
FlattensTo(F, ss, m, S) == F \in [1 .. m -> Seq(S)] /\ \A n \in 1 .. m : F[n] = IF n = 1 THEN ss[n] ELSE F[n - 1] \o ss[n]

LEMMA FlatExists ==
    ASSUME NEW S, NEW ss \in Seq(Seq(S))
    PROVE  \E F \in [1 .. Len(ss) -> Seq(S)] : Flattens(F, ss)
  <1> DEFINE P(m) == m <= Len(ss) => \E F : FlattensTo(F, ss, m, S)
             Good == {m \in Nat : P(m)}
  <1>0. Len(ss) \in Nat
    OBVIOUS
  <1>1. P(0)
    <2>1. 1 .. 0 = {}
      OBVIOUS
    <2>2. FlattensTo([n \in 1 .. 0 |-> <<>>], ss, 0, S)
      BY <2>1 DEF FlattensTo
    <2> QED  BY <2>2
  <1>2. ASSUME NEW m \in Nat, P(m) PROVE P(m + 1)
    <2> SUFFICES ASSUME m + 1 <= Len(ss) PROVE \E F : FlattensTo(F, ss, m + 1, S)
      OBVIOUS
    <2>1. PICK F : FlattensTo(F, ss, m, S)
      BY <1>0, <1>2
    <2> DEFINE last == IF m + 1 = 1 THEN ss[m + 1] ELSE F[m] \o ss[m + 1]
               G == [n \in 1 .. m + 1 |-> IF n = m + 1 THEN last ELSE F[n]]
    <2>2. last \in Seq(S)
      <3>1. ss[m + 1] \in Seq(S)
        BY <1>0
      <3>2. m # 0 => F[m] \in Seq(S)
        BY <2>1 DEF FlattensTo
      <3> QED  BY <3>1, <3>2
    <2> HIDE DEF last
    <2>3. G \in [1 .. m + 1 -> Seq(S)]
      <3>1. \A n \in 1 .. m + 1 : n # m + 1 => n \in 1 .. m
        OBVIOUS
      <3> QED  BY <2>1, <2>2, <3>1 DEF FlattensTo
    <2>4. ASSUME NEW n \in 1 .. m + 1 PROVE G[n] = IF n = 1 THEN ss[n] ELSE G[n - 1] \o ss[n]
      <3>1. CASE n = m + 1
        <4>1. n # 1 => n - 1 = m /\ m \in 1 .. m + 1 /\ m # m + 1
          BY <3>1
        <4>2. G[n] = last
          BY <3>1
        <4>3. n # 1 => G[n - 1] = F[m]
          BY <4>1
        <4> QED  BY <3>1, <4>2, <4>3 DEF last
      <3>2. CASE n \in 1 .. m
        <4>1. n # m + 1 /\ (n # 1 => n - 1 \in 1 .. m + 1 /\ n - 1 # m + 1)
          BY <3>2
        <4>2. G[n] = F[n] /\ (n # 1 => G[n - 1] = F[n - 1])
          BY <4>1
        <4> QED  BY <2>1, <3>2, <4>2 DEF FlattensTo
      <3> QED  BY <3>1, <3>2
    <2> HIDE DEF G
    <2>5. FlattensTo(G, ss, m + 1, S)
      BY <2>3, <2>4 DEF FlattensTo
    <2> QED  BY <2>5
  <1> HIDE DEF P
  <1>3. Good = Nat
    <2>1. Good \subseteq Nat /\ 0 \in Good /\ \A m \in Good : m + 1 \in Good
      BY <1>1, <1>2
    <2> HIDE DEF Good
    <2> QED  BY <2>1, Inductive
  <1>4. PICK F : FlattensTo(F, ss, Len(ss), S)
    BY <1>0, <1>3 DEF P
  <1>5. F = [n \in 1 .. Len(ss) |-> F[n]]
    BY <1>4 DEF FlattensTo
  <1>6. Flattens(F, ss)
    BY <1>4, <1>5 DEF Flattens, FlattensTo
  <1> QED  BY <1>4, <1>6 DEF FlattensTo

LEMMA FlatPlaces ==
    ASSUME NEW S, NEW ss \in Seq(Seq(S)), NEW F, Flattens(F, ss), NEW text,
           text = IF Len(ss) = 0 THEN ss ELSE F[Len(ss)]
    PROVE  text \in Seq(S) /\ \E off : Placed(text, ss, Len(ss), off)
  <1> DEFINE N == Len(ss)
             P(m) == 1 <= m /\ m <= N => F[m] \in Seq(S) /\ \E off : Placed(F[m], ss, m, off)
             Good == {m \in Nat : P(m)}
  <1>0. N \in Nat /\ \A n \in 1 .. N : ss[n] \in Seq(S)
    OBVIOUS
  <1>1. \A n \in 1 .. N : F[n] = IF n = 1 THEN ss[n] ELSE F[n - 1] \o ss[n]
    BY DEF Flattens
  <1> HIDE DEF N
  <1>2. ASSUME N >= 1 PROVE F[1] \in Seq(S) /\ \E off : Placed(F[1], ss, 1, off)
    <2>1. F[1] = ss[1] /\ ss[1] \in Seq(S)
      BY <1>0, <1>1, <1>2
    <2> DEFINE off == [n \in 0 .. 1 |-> IF n = 0 THEN 0 ELSE Len(ss[1])]
    <2>2. off \in [0 .. 1 -> Nat] /\ off[0] = 0 /\ off[1] = Len(ss[1]) /\ Len(ss[1]) \in Nat
      BY <2>1
    <2> HIDE DEF off
    <2>3. \A n \in 1 .. 1 : n = 1 /\ n - 1 = 0
      OBVIOUS
    <2>4. \A q \in 1 .. Len(ss[1]) : off[0] + q = q
      BY <2>2
    <2>5. Placed(F[1], ss, 1, off)
      BY <2>1, <2>2, <2>3, <2>4 DEF Placed
    <2> QED  BY <2>1, <2>5
  <1>3. P(0)
    OBVIOUS
  <1>4. ASSUME NEW m \in Nat, P(m) PROVE P(m + 1)
    <2> SUFFICES ASSUME m + 1 <= N, m >= 1
                 PROVE  F[m + 1] \in Seq(S) /\ \E off : Placed(F[m + 1], ss, m + 1, off)
      BY <1>2
    <2>1. F[m] \in Seq(S) /\ \E off : Placed(F[m], ss, m, off)
      BY <1>0, <1>4
    <2>2. PICK off : Placed(F[m], ss, m, off)
      BY <2>1
    <2> DEFINE s == F[m]
               t == ss[m + 1]
               u == F[m + 1]
    <2>3. u = s \o t /\ s \in Seq(S) /\ t \in Seq(S)
      <3>0. N \in Nat
        BY <1>0
      <3> HIDE DEF P
      <3>1. m + 1 \in 1 .. N /\ m + 1 # 1 /\ (m + 1) - 1 = m
        BY <3>0
      <3> QED  BY <1>0, <1>1, <2>1, <3>1
    <2> HIDE DEF s, t, u
    <2>4. /\ u \in Seq(S) /\ Len(u) = Len(s) + Len(t) /\ Len(s) \in Nat /\ Len(t) \in Nat
          /\ \A q \in 1 .. Len(s) : u[q] = s[q]
          /\ \A q \in 1 .. Len(t) : u[Len(s) + q] = t[q]
      BY <2>3
    <2> DEFINE more == [n \in 0 .. m + 1 |-> IF n = m + 1 THEN Len(u) ELSE off[n]]
    <2>5. /\ off \in [0 .. m -> Nat] /\ off[0] = 0 /\ off[m] = Len(s)
          /\ \A n \in 1 .. m : /\ off[n] = off[n - 1] + Len(ss[n]) /\ off[n] <= Len(s)
                               /\ \A q \in 1 .. Len(ss[n]) : s[off[n - 1] + q] = ss[n][q]
      BY <2>2 DEF Placed, s
    <2>6. more \in [0 .. m + 1 -> Nat] /\ more[0] = 0 /\ more[m + 1] = Len(u)
          /\ \A n \in 0 .. m : more[n] = off[n]
      <3>1. \A n \in 0 .. m + 1 : n # m + 1 => n \in 0 .. m
        OBVIOUS
      <3>2. 0 \in 0 .. m /\ 0 # m + 1 /\ m + 1 \in 0 .. m + 1 /\ \A n \in 0 .. m : n \in 0 .. m + 1 /\ n # m + 1
        OBVIOUS
      <3>3. Len(u) \in Nat
        BY <2>4
      <3> QED  BY <2>5, <3>1, <3>2, <3>3
    <2> HIDE DEF more
    <2>7. ASSUME NEW n \in 1 .. m + 1
          PROVE  /\ more[n] = more[n - 1] + Len(ss[n]) /\ more[n] <= Len(u)
                 /\ \A q \in 1 .. Len(ss[n]) : u[more[n - 1] + q] = ss[n][q]
      <3>1. CASE n = m + 1
        <4>1. more[n - 1] = Len(s) /\ ss[n] = t
          <5>1. n - 1 = m /\ m \in 0 .. m
            BY <3>1
          <5> QED  BY <2>5, <2>6, <3>1, <5>1 DEF t
        <4> QED  BY <2>4, <2>6, <3>1, <4>1
      <3>2. CASE n \in 1 .. m
        <4>1. more[n - 1] = off[n - 1] /\ more[n] = off[n] /\ off[n - 1] \in Nat
          <5>1. n - 1 \in 0 .. m /\ n \in 0 .. m
            BY <3>2
          <5> QED  BY <2>5, <2>6, <5>1
        <4>2. off[n] = off[n - 1] + Len(ss[n]) /\ off[n] <= Len(s)
              /\ \A q \in 1 .. Len(ss[n]) : s[off[n - 1] + q] = ss[n][q]
          BY <2>5, <3>2
        <4>0. Len(ss[n]) \in Nat
          BY <1>0
        <4>3. ASSUME NEW q \in 1 .. Len(ss[n]) PROVE u[off[n - 1] + q] = ss[n][q]
          <5>1. off[n - 1] + q \in 1 .. Len(s)
            BY <2>4, <4>0, <4>1, <4>2, SMTT(30)
          <5>2. u[off[n - 1] + q] = s[off[n - 1] + q]
            BY <2>4, <5>1
          <5> QED  BY <4>2, <5>2
        <4>4. off[n] <= Len(u)
          <5>1. off[n] \in Nat
            BY <2>5, <3>2
          <5> QED  BY <2>4, <4>2, <5>1
        <4> QED  BY <4>1, <4>2, <4>3, <4>4
      <3> QED  BY <3>1, <3>2
    <2>8. Placed(u, ss, m + 1, more)
      BY <2>6, <2>7 DEF Placed
    <2> QED  BY <2>4, <2>8 DEF u
  <1> HIDE DEF P
  <1>5. Good = Nat
    <2>1. Good \subseteq Nat /\ 0 \in Good /\ \A m \in Good : m + 1 \in Good
      BY <1>3, <1>4
    <2> HIDE DEF Good
    <2> QED  BY <2>1, Inductive
  <1>6. CASE N = 0
    <2>1. text = <<>>
      BY <1>6 DEF N
    <2> DEFINE off == [n \in 0 .. 0 |-> 0]
    <2>2. off \in [0 .. 0 -> Nat] /\ off[0] = 0 /\ 1 .. 0 = {}
      OBVIOUS
    <2> HIDE DEF off
    <2>3. Placed(text, ss, 0, off)
      BY <2>1, <2>2 DEF Placed
    <2> QED  BY <1>6, <2>1, <2>3 DEF N
  <1>7. CASE N # 0
    <2>1. P(N) /\ 1 <= N /\ N <= N
      BY <1>0, <1>5, <1>7
    <2> QED  BY <1>7, <2>1 DEF P, N
  <1> QED  BY <1>6, <1>7

----------------------------------------------------------------------------
(* http_serv: the lines of a request, as recv_line reads them. *)

\* A part of a sequence, element by element.
LEMMA SubSeqIs ==
    ASSUME NEW S, NEW s \in Seq(S), NEW a \in Int, NEW b \in Int
    PROVE  SubSeq(s, a, b) = [q \in 1 .. (b - a) + 1 |-> s[(a + q) - 1]]
  OBVIOUS

\* What is left of a text behind the first from letters.
Remains(left, text, from, to) ==
    /\ left \in Chars /\ Len(left) = to - from
    /\ \A q \in 1 .. to - from : left[q] = text[from + q]

LEMMA WhatRemains ==
    ASSUME NEW text \in Chars, NEW from \in Nat, NEW to \in Nat, from <= to, to <= Len(text)
    PROVE  Remains(SubSeq(text, from + 1, to), text, from, to)
  <1> DEFINE n == to - from
             left == SubSeq(text, from + 1, to)
  <1>0. Len(text) \in Nat /\ n \in Nat /\ from + n <= Len(text)
    BY DEF Chars
  <1>1. left = [q \in 1 .. n |-> text[from + q]]
    <2>1. (to - (from + 1)) + 1 = n /\ from + 1 \in Int /\ to \in Int
      OBVIOUS
    <2>2. left = [q \in 1 .. n |-> text[((from + 1) + q) - 1]]
      <3>1. text \in Seq(Letters)
        BY DEF Chars
      <3> HIDE DEF n, left, Letters
      <3>2. SubSeq(text, from + 1, to) = [q \in 1 .. (to - (from + 1)) + 1 |-> text[((from + 1) + q) - 1]]
        BY <2>1, <3>1, SubSeqIs
      <3> QED  BY <2>1, <3>2 DEF left
    <2>3. \A q \in 1 .. n : ((from + 1) + q) - 1 = from + q
      OBVIOUS
    <2> HIDE DEF left, n
    <2> QED  BY <2>2, <2>3
  <1> HIDE DEF left, n
  <1>2. \A q \in 1 .. n : text[from + q] \in Letters
    <2>1. \A q \in 1 .. n : from + q \in 1 .. Len(text)
      BY <1>0
    <2> QED  BY <2>1 DEF Chars
  <1>3. left \in Chars /\ Len(left) = n
    <2>1. left \in [1 .. n -> Letters]
      BY <1>1, <1>2
    <2> HIDE DEF Letters
    <2>2. left \in Seq(Letters) /\ Len(left) = n
      BY <1>0, <2>1
    <2> QED  BY <2>2 DEF Chars
  <1>4. \A q \in 1 .. n : left[q] = text[from + q]
    BY <1>1
  <1> QED  BY <1>3, <1>4 DEF Remains, n, left

\* What is left of that behind skip letters more.
LEMMA WhatStays ==
    ASSUME NEW text \in Chars, NEW from \in Nat, NEW to \in Nat, from <= to, to <= Len(text),
           NEW left, Remains(left, text, from, to), NEW skip \in Nat, from + skip <= to
    PROVE  SubSeq(left, skip + 1, Len(left)) = SubSeq(text, (from + skip) + 1, to)
  <1> DEFINE n == to - (from + skip)
  <1>0. n \in Nat /\ left \in Seq(Letters) /\ text \in Seq(Letters) /\ Len(left) = to - from
        /\ \A q \in 1 .. to - from : left[q] = text[from + q]
    BY DEF Remains, Chars
  <1>1. (Len(left) - (skip + 1)) + 1 = n /\ (to - ((from + skip) + 1)) + 1 = n
        /\ Len(left) \in Int /\ skip + 1 \in Int /\ (from + skip) + 1 \in Int
    BY <1>0
  <1>2. ASSUME NEW q \in 1 .. n PROVE left[((skip + 1) + q) - 1] = text[(((from + skip) + 1) + q) - 1]
    <2>1. ((skip + 1) + q) - 1 \in 1 .. to - from /\ from + (((skip + 1) + q) - 1) = (((from + skip) + 1) + q) - 1
      OBVIOUS
    <2>2. left[((skip + 1) + q) - 1] = text[from + (((skip + 1) + q) - 1)]
      BY <1>0, <2>1
    <2> QED  BY <2>1, <2>2
  <1> HIDE DEF n, Letters
  <1>3. SubSeq(left, skip + 1, Len(left)) = [q \in 1 .. n |-> left[((skip + 1) + q) - 1]]
    <2>1. SubSeq(left, skip + 1, Len(left)) = [q \in 1 .. (Len(left) - (skip + 1)) + 1 |-> left[((skip + 1) + q) - 1]]
      BY <1>0, <1>1, SubSeqIs, ZenonT(60)
    <2> QED  BY <1>1, <2>1
  <1>4. SubSeq(text, (from + skip) + 1, to) = [q \in 1 .. n |-> text[(((from + skip) + 1) + q) - 1]]
    <2> DEFINE lo == (from + skip) + 1
    <2>1. lo \in Int /\ to \in Int /\ (to - lo) + 1 = n
      BY <1>1
    <2> HIDE DEF lo
    <2>2. SubSeq(text, lo, to) = [q \in 1 .. (to - lo) + 1 |-> text[(lo + q) - 1]]
      BY <1>0, <2>1, SubSeqIs
    <2>3. SubSeq(text, lo, to) = [q \in 1 .. n |-> text[(lo + q) - 1]]
      BY <2>1, <2>2
    <2> QED  BY <2>3 DEF lo
  <1> QED  BY <1>2, <1>3, <1>4

\* The smallest of a set of indices.
LEMMA SmallestIs ==
    ASSUME NEW I, I \subseteq Nat, NEW m \in I, \A n \in I : m <= n
    PROVE  Lines!Min(I) = m
  <1>1. \A x \in I : (\A y \in I : x <= y) => x = m
    OBVIOUS
  <1> QED  BY <1>1 DEF Lines!Min

\* recv_line takes a line with its CR and LF.
LEMMA ReceivesLine ==
    ASSUME LineMax \in Nat, DOMAIN buf = 1 .. LineMax + 1, socket \in Chars,
           NEW line \in Chars, Without(line, "l"), Len(line) + 2 <= LineMax, Len(line) + 2 <= Len(socket),
           \A n \in 1 .. Len(line) : socket[n] = line[n],
           socket[Len(line) + 1] = "c", socket[Len(line) + 2] = "l"
    PROVE  LET r == Lines!Receive
           IN  /\ r.len = Len(line) /\ r.rest = SubSeq(socket, (Len(line) + 2) + 1, Len(socket))
               /\ DOMAIN r.buf = 1 .. LineMax + 1
               /\ \A n \in 1 .. Len(line) : r.buf[n] = line[n]
               /\ r.buf[Len(line) + 1] = "0"
  <1> DEFINE max   == LineMax
             avail == IF Len(socket) < max THEN Len(socket) ELSE max
             seen  == SubSeq(socket, 1, avail)
             lf    == Lines!SelectInSeq(seen, LAMBDA x : x = "l")
             took  == IF lf > 0 THEN lf ELSE avail
             left  == [n \in DOMAIN buf |-> IF n <= took THEN socket[n] ELSE buf[n]]
             idx     == CASE lf > 0                                      -> lf - 1
                        [] lf = 0 /\ took < max /\ left[took + 1] # "l" -> took + 1
                        [] OTHER                                       -> took
             end   == IF idx > 0 /\ left[idx] = "c" THEN idx - 1 ELSE idx
             q     == Len(line)
  <1>0. q \in Nat /\ Len(socket) \in Nat /\ avail \in Nat /\ q + 2 <= avail /\ avail <= Len(socket)
    BY DEF Chars
  <1>1. Lines!Receive = [len |-> end, buf |-> [left EXCEPT ![end + 1] = "0"],
                         rest |-> SubSeq(socket, took + 1, Len(socket))]
    BY DEF Lines!Receive, Lines!ReceiveUpTo
  <1> HIDE DEF avail
  <1>2. seen \in Chars /\ Len(seen) = avail /\ \A n \in 1 .. avail : seen[n] = socket[n]
    <2>1. seen = SubSeq(socket, 0 + 1, avail) /\ 0 <= avail /\ avail - 0 = avail /\ avail <= Len(socket)
      BY <1>0
    <2>2. \A n \in 1 .. avail : 0 + n = n
      OBVIOUS
    <2> HIDE DEF seen
    <2>3. Remains(seen, socket, 0, avail)
      BY <1>0, <2>1, WhatRemains
    <2> QED  BY <2>1, <2>2, <2>3 DEF Remains
  <1> HIDE DEF seen
  <1>3. lf = q + 2
    <2> DEFINE I == {n \in 1 .. Len(seen) : seen[n] = "l"}
    <2>1. lf = IF I # {} THEN Lines!Min(I) ELSE 0
      BY DEF Lines!SelectInSeq
    <2>2. q + 2 \in I
      BY <1>0, <1>2
    <2>3. \A n \in I : q + 2 <= n
      <3> SUFFICES ASSUME NEW n \in I, n < q + 2 PROVE FALSE
        BY <1>0, <1>2
      <3>1. n \in 1 .. avail /\ socket[n] = "l"
        BY <1>2
      <3>2. n # q + 1
        BY <3>1
      <3>3. n \in 1 .. q
        BY <1>0, <3>1, <3>2
      <3>4. line[n] # "l"
        BY <1>0, <3>3 DEF Without, Chars
      <3> QED  BY <3>1, <3>3, <3>4
    <2>4. I \subseteq Nat
      BY <1>0, <1>2
    <2> HIDE DEF I
    <2> QED  BY <2>1, <2>2, <2>3, <2>4, SmallestIs
  <1> HIDE DEF lf
  <1>4. took = q + 2
    BY <1>0, <1>3
  <1> HIDE DEF took
  <1>5. /\ DOMAIN left = 1 .. LineMax + 1
        /\ \A n \in 1 .. q + 2 : left[n] = socket[n]
    BY <1>0, <1>4
  <1> HIDE DEF left
  <1>6. idx = q + 1
    BY <1>0, <1>3
  <1> HIDE DEF idx
  <1>7. end = q
    <2>1. left[q + 1] = "c"
      BY <1>0, <1>5
    <2> QED  BY <1>0, <1>6, <2>1
  <1> HIDE DEF end
  <1> DEFINE done == [left EXCEPT ![end + 1] = "0"]
  <1>8. /\ DOMAIN done = 1 .. LineMax + 1 /\ done[q + 1] = "0"
        /\ \A n \in 1 .. q : done[n] = line[n]
    <2>1. q + 1 \in 1 .. LineMax + 1 /\ \A n \in 1 .. q : n \in 1 .. LineMax + 1 /\ n # q + 1 /\ n \in 1 .. q + 2
      BY <1>0
    <2> QED  BY <1>5, <1>7, <2>1
  <1> HIDE DEF done
  <1> QED  BY <1>1, <1>4, <1>7, <1>8 DEF done

\* At the end of the stream it takes what is left, and a byte more that is there.
LEMMA ReceivesEnd ==
    ASSUME LineMax \in Nat, DOMAIN buf = 1 .. LineMax + 1, socket \in Chars, Len(socket) < LineMax,
           Without(socket, "l")
    PROVE  LET r == Lines!Receive
           IN  /\ r.rest = <<>> /\ r.len \in Nat /\ DOMAIN r.buf = 1 .. LineMax + 1
               /\ socket # <<>> /\ socket[1] # "c" => r.len # 0 /\ r.buf[1] = socket[1]
               /\ socket = <<>> /\ buf[1] \notin {"c", "l"} => r.len = 1 /\ r.buf[1] = buf[1]
  <1> DEFINE max   == LineMax
             avail == IF Len(socket) < max THEN Len(socket) ELSE max
             seen  == SubSeq(socket, 1, avail)
             lf    == Lines!SelectInSeq(seen, LAMBDA x : x = "l")
             took  == IF lf > 0 THEN lf ELSE avail
             left  == [n \in DOMAIN buf |-> IF n <= took THEN socket[n] ELSE buf[n]]
             idx     == CASE lf > 0                                      -> lf - 1
                        [] lf = 0 /\ took < max /\ left[took + 1] # "l" -> took + 1
                        [] OTHER                                       -> took
             end   == IF idx > 0 /\ left[idx] = "c" THEN idx - 1 ELSE idx
             q     == Len(socket)
  <1>0. q \in Nat /\ avail = q
    BY DEF Chars
  <1>1. Lines!Receive = [len |-> end, buf |-> [left EXCEPT ![end + 1] = "0"],
                         rest |-> SubSeq(socket, took + 1, Len(socket))]
    BY DEF Lines!Receive, Lines!ReceiveUpTo
  <1> HIDE DEF avail
  <1>2. seen \in Chars /\ Len(seen) = q /\ \A n \in 1 .. q : seen[n] = socket[n]
    <2>1. seen = SubSeq(socket, 0 + 1, q) /\ 0 <= q /\ q - 0 = q /\ q <= Len(socket)
      BY <1>0
    <2>2. \A n \in 1 .. q : 0 + n = n
      OBVIOUS
    <2> HIDE DEF seen, q
    <2>3. Remains(seen, socket, 0, q)
      BY <1>0, <2>1, WhatRemains
    <2> QED  BY <2>1, <2>2, <2>3 DEF Remains
  <1> HIDE DEF seen
  <1>3. lf = 0
    <2> DEFINE I == {n \in 1 .. Len(seen) : seen[n] = "l"}
    <2>1. lf = IF I # {} THEN Lines!Min(I) ELSE 0
      BY DEF Lines!SelectInSeq
    <2>2. I = {}
      <3>1. \A n \in 1 .. q : socket[n] # "l"
        BY DEF Without, Chars
      <3> QED  BY <1>2, <3>1
    <2> HIDE DEF I
    <2> QED  BY <2>1, <2>2
  <1> HIDE DEF lf
  <1>4. took = q
    BY <1>0, <1>3
  <1> HIDE DEF took
  <1>5. /\ DOMAIN left = 1 .. LineMax + 1
        /\ \A n \in 1 .. q : left[n] = socket[n]
        /\ \A n \in q + 1 .. LineMax + 1 : left[n] = buf[n]
    BY <1>0, <1>4
  <1> HIDE DEF left
  <1>6. idx = IF left[q + 1] # "l" THEN q + 1 ELSE q
    BY <1>0, <1>3, <1>4
  <1> HIDE DEF idx
  <1>7. end \in Nat /\ end <= q + 1
    BY <1>0, <1>6
  <1> DEFINE done == [left EXCEPT ![end + 1] = "0"]
  <1>8. ASSUME socket # <<>>, socket[1] # "c" PROVE end # 0
    <2>1. q >= 1
      BY <1>0, <1>8 DEF Chars
    <2>2. left[1] # "c"
      BY <1>0, <1>5, <1>8, <2>1
    <2>3. idx >= 1 /\ idx \in Nat
      BY <1>0, <1>6, <2>1
    <2> QED  BY <2>2, <2>3
  <1>9. ASSUME socket = <<>>, buf[1] \notin {"c", "l"} PROVE end = 1
    <2>1. q = 0
      BY <1>9
    <2>2. left[1] = buf[1]
      BY <1>5, <2>1
    <2>3. idx = 1
      BY <1>6, <1>9, <2>1, <2>2
    <2> QED  BY <1>9, <2>2, <2>3
  <1> HIDE DEF end
  <1>10. DOMAIN done = 1 .. LineMax + 1 /\ (end # 0 => done[1] = left[1])
    <2>1. 1 \in 1 .. LineMax + 1 /\ (end # 0 => end + 1 # 1)
      BY <1>7
    <2> QED  BY <1>5, <2>1
  <1> HIDE DEF done
  <1>11. SubSeq(socket, took + 1, Len(socket)) = <<>>
    BY <1>0, <1>4 DEF Chars
  <1>12. ASSUME socket # <<>>, socket[1] # "c" PROVE left[1] = socket[1]
    <2>1. q >= 1
      BY <1>0, <1>12 DEF Chars
    <2> QED  BY <1>0, <1>5, <2>1
  <1>13. ASSUME socket = <<>> PROVE left[1] = buf[1]
    BY <1>5, <1>13
  <1> DEFINE r == Lines!Receive
  <1>14. r.len = end /\ r.buf = done /\ r.rest = <<>>
    BY <1>1, <1>11 DEF done
  <1> HIDE DEF r
  <1>15. socket # <<>> /\ socket[1] # "c" => r.len # 0 /\ r.buf[1] = socket[1]
    BY <1>8, <1>10, <1>12, <1>14
  <1>16. socket = <<>> /\ buf[1] \notin {"c", "l"} => r.len = 1 /\ r.buf[1] = buf[1]
    BY <1>9, <1>10, <1>13, <1>14
  <1> QED  BY <1>7, <1>10, <1>14, <1>15, <1>16 DEF r

\* A line of a text, behind the first `before` letters, and its CR and LF.
LineAt(text, before, line) ==
    /\ Holds(text, before, line) /\ before + Len(line) + 2 <= Len(text)
    /\ text[before + Len(line) + 1] = "c" /\ text[before + Len(line) + 2] = "l"

LEMMA TakesLine ==
    ASSUME LineMax \in Nat, DOMAIN buf = 1 .. LineMax + 1,
           NEW text, NEW from, NEW line, LineAt(text, from, line), Without(line, "l"), Len(line) + 2 <= LineMax,
           NEW to \in Nat, to <= Len(text), from + Len(line) + 2 <= to, socket = SubSeq(text, from + 1, to)
    PROVE  LET r == Lines!Receive
           IN  /\ r.len = Len(line) /\ r.rest = SubSeq(text, (from + (Len(line) + 2)) + 1, to)
               /\ DOMAIN r.buf = 1 .. LineMax + 1
               /\ \A n \in 1 .. Len(line) : r.buf[n] = line[n]
               /\ r.buf[Len(line) + 1] = "0"
  <1> DEFINE q == Len(line)
  <1>0. /\ text \in Chars /\ line \in Chars /\ from \in Nat /\ q \in Nat /\ Len(text) \in Nat
        /\ \A n \in 1 .. q : text[from + n] = line[n]
        /\ text[from + q + 1] = "c" /\ text[from + q + 2] = "l"
    BY DEF LineAt, Holds, Chars
  <1>1. Remains(socket, text, from, to)
    BY <1>0, WhatRemains
  <1>2. /\ socket \in Chars /\ Len(socket) = to - from /\ q + 2 <= Len(socket)
        /\ \A n \in 1 .. to - from : socket[n] = text[from + n]
    BY <1>0, <1>1 DEF Remains
  <1>3. /\ \A n \in 1 .. q : socket[n] = line[n]
        /\ socket[q + 1] = "c" /\ socket[q + 2] = "l"
    <2>1. \A n \in 1 .. q + 2 : n \in 1 .. to - from
      BY <1>0
    <2>2. \A n \in 1 .. q + 2 : socket[n] = text[from + n]
      BY <1>2, <2>1
    <2>3. q + 1 \in 1 .. q + 2 /\ q + 2 \in 1 .. q + 2 /\ from + (q + 1) = from + q + 1 /\ from + (q + 2) = from + q + 2
      BY <1>0
    <2> QED  BY <1>0, <2>2, <2>3
  <1>4. SubSeq(socket, (q + 2) + 1, Len(socket)) = SubSeq(text, (from + (q + 2)) + 1, to)
    <2> DEFINE skip == q + 2
    <2>1. skip \in Nat /\ from + skip <= to /\ from <= to /\ text \in Chars /\ from \in Nat
          /\ to \in Nat /\ to <= Len(text)
      BY <1>0
    <2> HIDE DEF skip
    <2>2. SubSeq(socket, skip + 1, Len(socket)) = SubSeq(text, (from + skip) + 1, to)
      BY <1>1, <2>1, WhatStays
    <2> QED  BY <2>2 DEF skip
  <1>5. LET r == Lines!Receive
        IN  /\ r.len = Len(line) /\ r.rest = SubSeq(socket, (Len(line) + 2) + 1, Len(socket))
            /\ DOMAIN r.buf = 1 .. LineMax + 1
            /\ \A n \in 1 .. Len(line) : r.buf[n] = line[n]
            /\ r.buf[Len(line) + 1] = "0"
    BY <1>0, <1>2, <1>3, ReceivesLine
  <1> QED  BY <1>4, <1>5

----------------------------------------------------------------------------
\* What CONSTANTS hold.
LEMMA WordsOfRequest ==
    /\ LineMax \in Nat
    /\ \A m \in Methods : /\ m \in Chars /\ m # <<>> /\ m[1] # "c"
                          /\ Without(m, "s") /\ Without(m, "l") /\ Without(m, "0")
    /\ \A p \in Paths : /\ p \in Chars /\ p # <<>>
                        /\ Without(p, "s") /\ Without(p, "l") /\ Without(p, "0")
    /\ \A h \in Headers : h \in Chars /\ h # <<>> /\ h[1] # "c" /\ Without(h, "l")
  <1> DEFINE Plain == STRING \ {"s", "l", "0"}
             InLine == STRING \ {"l"}
  <1>1. Plain \subseteq Letters /\ InLine \subseteq Letters /\ "s" \notin Plain /\ "l" \notin Plain
        /\ "0" \notin Plain /\ "l" \notin InLine
    BY DEF Letters
  <1>2. /\ Methods \subseteq Seq(Plain) \ {<<>>} /\ Paths \subseteq Seq(Plain) \ {<<>>}
        /\ Headers \subseteq Seq(InLine) \ {<<>>} /\ LineMax \in Nat
        /\ \A m \in Methods : m[1] # "c"
        /\ \A h \in Headers : h[1] # "c"
    BY RequestAssumption
  <1> HIDE DEF Plain, InLine
  <1>3. \A t \in Seq(Plain) : t \in Chars /\ Without(t, "s") /\ Without(t, "l") /\ Without(t, "0")
    <2> SUFFICES ASSUME NEW t \in Seq(Plain)
                 PROVE  t \in Chars /\ Without(t, "s") /\ Without(t, "l") /\ Without(t, "0")
      OBVIOUS
    <2>1. \A n \in DOMAIN t : t[n] \in Plain
      OBVIOUS
    <2>2. t \in Chars
      BY <1>1 DEF Chars
    <2> QED  BY <1>1, <2>1, <2>2 DEF Without
  <1>4. \A t \in Seq(InLine) : t \in Chars /\ Without(t, "l")
    <2> SUFFICES ASSUME NEW t \in Seq(InLine) PROVE t \in Chars /\ Without(t, "l")
      OBVIOUS
    <2>1. \A n \in DOMAIN t : t[n] \in InLine
      OBVIOUS
    <2>2. t \in Chars
      BY <1>1 DEF Chars
    <2> QED  BY <1>1, <2>1, <2>2 DEF Without
  <1> QED  BY <1>2, <1>3, <1>4

\* A word ends at the first space or end of the string behind its first letter.
LEMMA WordIs ==
    ASSUME NEW text, NEW before, NEW w, Holds(text, before, w), w # <<>>,
           Without(w, "s"), Without(w, "0"), before + Len(w) + 1 <= Len(text),
           text[before + Len(w) + 1] \in {"s", "0"}
    PROVE  Lines!Word(text, before + 1) = w
  <1> DEFINE from == before + 1
             to == before + Len(w) + 1
             ends == {q \in from .. Len(text) : text[q] = "0" \/ (q > from /\ text[q] = "s")}
             First(q) == \A x \in ends : q <= x
  <1>0. /\ text \in Chars /\ w \in Chars /\ before \in Nat /\ Len(w) \in Nat /\ Len(w) > 0
        /\ Len(text) \in Nat /\ \A n \in 1 .. Len(w) : text[before + n] = w[n]
    BY DEF Holds, Chars
  <1>1. to \in ends /\ to > from /\ to \in Nat
    BY <1>0
  <1>2. ASSUME NEW x \in ends PROVE to <= x
    <2> SUFFICES ASSUME x < to PROVE FALSE
      BY <1>0
    <2>1. x \in before + 1 .. before + Len(w)
      BY <1>0
    <2>2. text[x] # "s" /\ text[x] # "0"
      BY <2>1, Missing
    <2> QED  BY <2>2
  <1>3. ASSUME NEW q \in ends \cup {Len(text) + 1}, First(q) PROVE q = to
    <2>1. q <= to
      BY <1>1, <1>3
    <2>2. q # Len(text) + 1
      BY <1>0, <2>1
    <2>3. q \in ends
      BY <2>2
    <2> QED  BY <1>0, <1>2, <2>1, <2>3
  <1>4. First(to) /\ to \in ends \cup {Len(text) + 1}
    BY <1>1, <1>2
  <1>5. Lines!Word(text, from) = SubSeq(text, from, (CHOOSE q \in ends \cup {Len(text) + 1} : First(q)) - 1)
    BY DEF Lines!Word
  <1>6. (CHOOSE q \in ends \cup {Len(text) + 1} : First(q)) = to
    <2> HIDE DEF First, ends, to
    <2> QED  BY <1>3, <1>4
  <1>7. SubSeq(text, before + 1, before + Len(w)) = w
    BY CutOut
  <1>8. to - 1 = before + Len(w)
    BY <1>0
  <1> QED  BY <1>5, <1>6, <1>7, <1>8

\* The request line.
LEMMA HeadText ==
    ASSUME NEW m \in Chars, NEW p \in Chars
    PROVE  LET head == Lines!HeadLine(m, p)
           IN  /\ head \in Chars /\ Len(head) = Len(m) + Len(p) + 3
               /\ Holds(head, 0, m) /\ head[Len(m) + 1] = "s"
               /\ Holds(head, Len(m) + 1, p) /\ head[Len(m) + Len(p) + 2] = "s"
               /\ head[Len(m) + Len(p) + 3] = "H"
  <1> DEFINE S == <<"s">>
             E == <<"s", "H">>
             t1 == m \o S
             t2 == t1 \o p
             t3 == t2 \o E
             a == Len(m)
             b == Len(p)
  <1>1. S \in Chars /\ Len(S) = 1 /\ S[1] = "s" /\ E \in Chars /\ Len(E) = 2 /\ E[1] = "s" /\ E[2] = "H"
    BY DEF Chars, Letters
  <1>0. a \in Nat /\ b \in Nat /\ a = Len(m) /\ b = Len(p)
    BY DEF Chars
  <1> HIDE DEF S, E, a, b
  <1>2. t1 \in Chars /\ Len(t1) = a + 1
    <2>1. t1 \in Chars /\ Len(t1) = Len(m) + Len(S)
      BY <1>1, Behind
    <2> QED  BY <1>0, <1>1, <2>1
  <1>3. Holds(t1, 0, m) /\ Holds(t1, a, S)
    <2>1. Holds(t1, a, S)
      BY <1>0, <1>1, HoldsNew
    <2>2. \A q \in 1 .. a : t1[q] = m[q]
      BY <1>0, <1>1, Behind
    <2>3. \A q \in 1 .. a : 0 + q = q
      BY <1>0
    <2> HIDE DEF t1
    <2>4. 0 + a <= Len(t1)
      BY <1>0, <1>2
    <2> QED  BY <1>0, <1>2, <2>1, <2>2, <2>3, <2>4 DEF Holds
  <1> HIDE DEF t1
  <1>4. t2 \in Chars /\ Len(t2) = a + b + 1
    <2>1. t2 \in Chars /\ Len(t2) = Len(t1) + Len(p)
      BY <1>2, Behind
    <2> QED  BY <1>0, <1>2, <2>1
  <1>5. Holds(t2, 0, m) /\ Holds(t2, a, S) /\ Holds(t2, a + 1, p)
    <2>1. Holds(t2, 0, m)
      BY <1>2, <1>3, HoldsStill, Zenon
    <2>2. Holds(t2, a, S)
      BY <1>2, <1>3, HoldsStill
    <2>3. Holds(t2, Len(t1), p)
      BY <1>2, HoldsNew
    <2> QED  BY <1>2, <2>1, <2>2, <2>3
  <1> HIDE DEF t2
  <1>6. t3 \in Chars /\ Len(t3) = a + b + 3
    <2>1. t3 \in Chars /\ Len(t3) = Len(t2) + Len(E)
      BY <1>1, <1>4, Behind
    <2> QED  BY <1>0, <1>1, <1>4, <2>1
  <1>7. Holds(t3, 0, m) /\ Holds(t3, a, S) /\ Holds(t3, a + 1, p) /\ Holds(t3, a + b + 1, E)
    <2>1. Holds(t3, 0, m)
      BY <1>1, <1>4, <1>5, HoldsStill, Zenon
    <2>2. Holds(t3, a, S) /\ Holds(t3, a + 1, p)
      BY <1>1, <1>4, <1>5, HoldsStill
    <2>3. Holds(t3, Len(t2), E)
      BY <1>1, <1>4, HoldsNew
    <2> QED  BY <1>4, <2>1, <2>2, <2>3
  <1> HIDE DEF t3
  <1>8. t3[a + 1] = "s" /\ t3[a + b + 2] = "s" /\ t3[a + b + 3] = "H"
    <2>1. t3[a + 1] = S[1] /\ t3[(a + b + 1) + 1] = E[1] /\ t3[(a + b + 1) + 2] = E[2]
      BY <1>1, <1>7 DEF Holds
    <2>2. (a + b + 1) + 1 = a + b + 2 /\ (a + b + 1) + 2 = a + b + 3
      BY <1>0
    <2> QED  BY <1>1, <2>1, <2>2
  <1>9. Lines!HeadLine(m, p) = t3
    BY DEF Lines!HeadLine, t3, t2, t1, S, E
  <1> QED  BY <1>0, <1>6, <1>7, <1>8, <1>9 DEF a, b

\* A request line is one line, and the words that are found in it are its own.
LEMMA HeadOf ==
    ASSUME NEW m \in Methods, NEW p \in Paths
    PROVE  LET head == Lines!HeadLine(m, p)
           IN  /\ head \in Chars /\ Len(head) \in Nat /\ Len(head) >= 5
               /\ head[1] # "c" /\ head[1] # "l" /\ Without(head, "l")
               /\ \A text \in Chars :
                    /\ Len(text) = Len(head) + 1 /\ \A n \in 1 .. Len(head) : text[n] = head[n]
                    => Lines!ParseHeadLine(text) = [method |-> m, path |-> p]
  <1> DEFINE head == Lines!HeadLine(m, p)
             a == Len(m)
             b == Len(p)
  <1>1. /\ m \in Chars /\ m # <<>> /\ m[1] # "c" /\ Without(m, "s") /\ Without(m, "l") /\ Without(m, "0")
        /\ p \in Chars /\ p # <<>> /\ Without(p, "s") /\ Without(p, "l") /\ Without(p, "0")
    BY WordsOfRequest
  <1>2. a \in Nat /\ b \in Nat /\ a > 0 /\ b > 0
    BY <1>1 DEF Chars
  <1>3. /\ head \in Chars /\ Len(head) = a + b + 3
        /\ Holds(head, 0, m) /\ head[a + 1] = "s"
        /\ Holds(head, a + 1, p) /\ head[a + b + 2] = "s" /\ head[a + b + 3] = "H"
    BY <1>1, HeadText
  <1> HIDE DEF head
  <1>4. Without(head, "l")
    <2> SUFFICES ASSUME NEW n \in DOMAIN head PROVE head[n] # "l"
      BY DEF Without
    <2>1. n \in 1 .. a + b + 3
      BY <1>3 DEF Chars
    <2>2. CASE n \in 0 + 1 .. 0 + Len(m)
      BY <1>1, <1>3, <2>2, Missing
    <2>3. CASE n \in (a + 1) + 1 .. (a + 1) + Len(p)
      BY <1>1, <1>3, <2>3, Missing
    <2>4. CASE n = a + 1 \/ n = a + b + 2 \/ n = a + b + 3
      BY <1>3, <2>4
    <2>5. n \in 0 + 1 .. 0 + Len(m) \/ n \in (a + 1) + 1 .. (a + 1) + Len(p)
          \/ n = a + 1 \/ n = a + b + 2 \/ n = a + b + 3
      BY <1>2, <2>1
    <2> QED  BY <2>2, <2>3, <2>4, <2>5
  <1>5. head[1] # "c" /\ head[1] # "l"
    <2>1. head[0 + 1] = m[1]
      BY <1>2, <1>3 DEF Holds
    <2>2. 1 \in DOMAIN head /\ 0 + 1 = 1
      BY <1>2, <1>3 DEF Chars
    <2> QED  BY <1>1, <1>4, <2>1, <2>2 DEF Without
  <1>6. ASSUME NEW text \in Chars, Len(text) = Len(head) + 1, \A n \in 1 .. Len(head) : text[n] = head[n]
        PROVE  Lines!ParseHeadLine(text) = [method |-> m, path |-> p]
    <2>1. Holds(text, 0, m) /\ Holds(text, a + 1, p)
      <3>1. ASSUME NEW q \in 1 .. a PROVE text[0 + q] = m[q]
        <4>1. head[0 + q] = m[q]
          BY <1>3 DEF Holds
        <4>2. 0 + q \in 1 .. Len(head)
          BY <1>2, <1>3
        <4> QED  BY <1>6, <4>1, <4>2
      <3>2. ASSUME NEW q \in 1 .. b PROVE text[(a + 1) + q] = p[q]
        <4>1. head[(a + 1) + q] = p[q]
          BY <1>3 DEF Holds
        <4>2. (a + 1) + q \in 1 .. Len(head)
          BY <1>2, <1>3
        <4> QED  BY <1>6, <4>1, <4>2
      <3>3. 0 + a <= Len(text) /\ (a + 1) + b <= Len(text) /\ a + 1 \in Nat
        BY <1>2, <1>3, <1>6
      <3> QED  BY <1>1, <1>6, <3>1, <3>2, <3>3 DEF Holds
    <2>2. text[a + 1] = "s" /\ text[a + b + 2] = "s"
      <3>1. a + 1 \in 1 .. Len(head) /\ a + b + 2 \in 1 .. Len(head)
        BY <1>2, <1>3
      <3> QED  BY <1>3, <1>6, <3>1
    <2>3. Lines!Word(text, 0 + 1) = m
      <3>1. 0 + Len(m) + 1 <= Len(text) /\ 0 + Len(m) + 1 = a + 1
        BY <1>2, <1>3, <1>6
      <3> QED  BY <1>1, <2>1, <2>2, <3>1, WordIs
    <2>4. Lines!Word(text, (a + 1) + 1) = p
      <3>1. (a + 1) + Len(p) + 1 <= Len(text) /\ (a + 1) + Len(p) + 1 = a + b + 2
        BY <1>2, <1>3, <1>6
      <3> QED  BY <1>1, <2>1, <2>2, <3>1, WordIs
    <2>5. 0 + 1 = 1 /\ (a + 1) + 1 = a + 2
      BY <1>2
    <2> QED  BY <2>3, <2>4, <2>5 DEF Lines!ParseHeadLine
  <1>7. Len(head) \in Nat /\ Len(head) >= 5
    BY <1>2, <1>3
  <1> QED  BY <1>3, <1>4, <1>5, <1>6, <1>7 DEF head

LEMMA HoldsWithin ==
    ASSUME NEW text, NEW a, NEW mid, Holds(text, a, mid), NEW b, NEW part, Holds(mid, b, part)
    PROVE  Holds(text, a + b, part)
  <1>1. /\ text \in Chars /\ part \in Chars /\ a \in Nat /\ b \in Nat
        /\ Len(text) \in Nat /\ Len(mid) \in Nat /\ Len(part) \in Nat
        /\ a + Len(mid) <= Len(text) /\ b + Len(part) <= Len(mid)
        /\ \A q \in 1 .. Len(mid) : text[a + q] = mid[q]
        /\ \A q \in 1 .. Len(part) : mid[b + q] = part[q]
    BY DEF Holds, Chars
  <1>2. ASSUME NEW q \in 1 .. Len(part) PROVE text[(a + b) + q] = part[q]
    <2>1. b + q \in 1 .. Len(mid) /\ (a + b) + q = a + (b + q)
      BY <1>1
    <2>2. text[a + (b + q)] = mid[b + q]
      BY <1>1, <2>1
    <2> QED  BY <1>1, <2>1, <2>2
  <1>3. a + b \in Nat /\ (a + b) + Len(part) <= Len(text)
    BY <1>1
  <1> QED  BY <1>1, <1>2, <1>3 DEF Holds

LEMMA HoldsItself == ASSUME NEW text \in Chars PROVE Holds(text, 0, text)
  <1>1. Len(text) \in Nat /\ 0 + Len(text) <= Len(text) /\ \A q \in 1 .. Len(text) : 0 + q = q
    BY DEF Chars
  <1> QED  BY <1>1 DEF Holds

\* A line, and the CR and LF behind it.
LEMMA LineIs ==
    ASSUME NEW line \in Chars, NEW text, NEW before, Holds(text, before, line \o Lines!CRLF)
    PROVE  LineAt(text, before, line)
  <1> DEFINE ends == Lines!CRLF
             all  == line \o ends
  <1>1. ends \in Chars /\ Len(ends) = 2 /\ ends[1] = "c" /\ ends[2] = "l"
    BY DEF Lines!CRLF, Chars, Letters
  <1> HIDE DEF ends
  <1>2. /\ all \in Chars /\ Len(all) = Len(line) + 2 /\ Len(line) \in Nat
        /\ \A q \in 1 .. Len(line) : all[q] = line[q]
        /\ \A q \in 1 .. 2 : all[Len(line) + q] = ends[q]
    <2>1. /\ all \in Chars /\ Len(all) = Len(line) + Len(ends) /\ Len(line) \in Nat
          /\ \A q \in 1 .. Len(line) : all[q] = line[q]
          /\ \A q \in 1 .. Len(ends) : all[Len(line) + q] = ends[q]
      BY <1>1, Behind
    <2> HIDE DEF all
    <2> QED  BY <1>1, <2>1
  <1>a. Holds(text, before, all)
    BY DEF ends
  <1> HIDE DEF all
  <1>3. /\ text \in Chars /\ before \in Nat /\ Len(text) \in Nat /\ before + Len(all) <= Len(text)
        /\ \A q \in 1 .. Len(all) : text[before + q] = all[q]
    BY <1>a DEF Holds, Chars
  <1>4. \A q \in 1 .. Len(line) : text[before + q] = line[q]
    BY <1>2, <1>3
  <1>5. text[before + Len(line) + 1] = "c" /\ text[before + Len(line) + 2] = "l"
    <2>1. Len(line) + 1 \in 1 .. Len(all) /\ Len(line) + 2 \in 1 .. Len(all) /\ 1 \in 1 .. 2 /\ 2 \in 1 .. 2
          /\ before + (Len(line) + 1) = before + Len(line) + 1 /\ before + (Len(line) + 2) = before + Len(line) + 2
      BY <1>2, <1>3
    <2>2. text[before + (Len(line) + 1)] = all[Len(line) + 1] /\ text[before + (Len(line) + 2)] = all[Len(line) + 2]
      BY <1>3, <2>1
    <2> QED  BY <1>1, <1>2, <2>1, <2>2
  <1>6. before + Len(line) <= Len(text) /\ before + Len(line) + 2 <= Len(text)
    BY <1>2, <1>3
  <1> QED  BY <1>3, <1>4, <1>5, <1>6 DEF LineAt, Holds

\* The text of a request: mark[0] letters for the request line, mark[n] with the
\* first n headers; then the empty line and the body.
Layout(c, text, mark) ==
    LET head == Lines!HeadLine(c.method, c.path)
        N    == Len(c.headers)
    IN  /\ text \in Chars /\ mark \in [0 .. N -> Nat]
        /\ mark[0] = Len(head) + 2 /\ Len(text) = mark[N] + 4
        /\ LineAt(text, 0, head)
        /\ \A n \in 1 .. N : /\ mark[n] = mark[n - 1] + Len(c.headers[n]) + 2
                             /\ LineAt(text, mark[n - 1], c.headers[n])
        /\ LineAt(text, mark[N], <<>>)
        /\ Holds(text, mark[N] + 2, Lines!Body)

LEMMA HeadersFlat ==
    ASSUME NEW n \in Nat, NEW hs \in [1 .. n -> Headers]
    PROVE  LET ss   == [q \in 1 .. n |-> hs[q] \o Lines!CRLF]
               flat == Lines!FlattenSeq(ss)
           IN  /\ flat \in Chars
               /\ \E off \in [0 .. n -> Nat] :
                    /\ off[0] = 0 /\ off[n] = Len(flat)
                    /\ \A q \in 1 .. n : /\ off[q] = off[q - 1] + Len(hs[q]) + 2
                                         /\ Holds(flat, off[q - 1], hs[q] \o Lines!CRLF)
  <1> DEFINE ends == Lines!CRLF
             ss   == [q \in 1 .. n |-> hs[q] \o ends]
             flat == Lines!FlattenSeq(ss)
  <1>1. ends \in Chars /\ Len(ends) = 2
    BY DEF Lines!CRLF, Chars, Letters
  <1> HIDE DEF ends
  <1>2. ASSUME NEW q \in 1 .. n PROVE hs[q] \in Chars /\ ss[q] \in Chars /\ Len(ss[q]) = Len(hs[q]) + 2 /\ Len(hs[q]) \in Nat
    <2>1. hs[q] \in Chars
      BY WordsOfRequest
    <2>2. ss[q] = hs[q] \o ends
      OBVIOUS
    <2> HIDE DEF ss
    <2>3. ss[q] \in Chars /\ Len(ss[q]) = Len(hs[q]) + 2
      <3> DEFINE h == hs[q]
      <3>1. h \in Chars /\ ss[q] = h \o ends
        BY <2>1, <2>2
      <3> HIDE DEF h
      <3>2. h \o ends \in Chars /\ Len(h \o ends) = Len(h) + Len(ends)
        BY <1>1, <3>1, Behind
      <3> QED  BY <1>1, <3>1, <3>2 DEF h
    <2>4. Len(hs[q]) \in Nat
      BY <2>1 DEF Chars
    <2> QED  BY <2>1, <2>3, <2>4
  <1>3. ss \in Seq(Chars) /\ Len(ss) = n
    <2>1. ss \in [1 .. n -> Chars]
      BY <1>2
    <2> HIDE DEF ss
    <2> QED  BY <2>1
  <1> HIDE DEF ss
  <1>4. ss \in Seq(Seq(Letters))
    BY <1>3 DEF Chars
  <1>5. PICK F \in [1 .. Len(ss) -> Seq(Letters)] : Flattens(F, ss)
    BY <1>4, FlatExists
  <1> DEFINE G == CHOOSE g : Flattens(g, ss)
  <1>6. Flattens(G, ss)
    BY <1>5
  <1>7. flat = IF Len(ss) = 0 THEN ss ELSE G[Len(ss)]
    BY DEF Lines!FlattenSeq, Flattens
  <1> HIDE DEF G, flat
  <1>8. flat \in Seq(Letters) /\ \E off : Placed(flat, ss, Len(ss), off)
    BY <1>4, <1>6, <1>7, FlatPlaces
  <1>9. PICK off : Placed(flat, ss, n, off)
    BY <1>3, <1>8
  <1>10. flat \in Chars
    BY <1>8 DEF Chars
  <1>11. /\ off \in [0 .. n -> Nat] /\ off[0] = 0 /\ off[n] = Len(flat)
         /\ \A q \in 1 .. n : /\ off[q] = off[q - 1] + Len(ss[q]) /\ off[q] <= Len(flat)
                              /\ \A r \in 1 .. Len(ss[q]) : flat[off[q - 1] + r] = ss[q][r]
    BY <1>9 DEF Placed
  <1>12. ASSUME NEW q \in 1 .. n
         PROVE  off[q] = off[q - 1] + Len(hs[q]) + 2 /\ Holds(flat, off[q - 1], ss[q])
    <2>1. q - 1 \in 0 .. n
      OBVIOUS
    <2>2. off[q - 1] \in Nat
      BY <1>11, <2>1
    <2>3. off[q] = off[q - 1] + Len(hs[q]) + 2
      BY <1>2, <1>11, <2>2
    <2>4. off[q - 1] + Len(ss[q]) <= Len(flat) /\ \A r \in 1 .. Len(ss[q]) : flat[off[q - 1] + r] = ss[q][r]
      BY <1>11
    <2> QED  BY <1>2, <1>10, <2>2, <2>3, <2>4 DEF Holds
  <1>13. \A q \in 1 .. n : ss[q] = hs[q] \o ends
    BY DEF ss
  <1>14. /\ flat \in Chars
         /\ \E o \in [0 .. n -> Nat] :
              /\ o[0] = 0 /\ o[n] = Len(flat)
              /\ \A q \in 1 .. n : o[q] = o[q - 1] + Len(hs[q]) + 2 /\ Holds(flat, o[q - 1], hs[q] \o ends)
    <2>1. /\ off \in [0 .. n -> Nat] /\ off[0] = 0 /\ off[n] = Len(flat)
          /\ \A q \in 1 .. n : off[q] = off[q - 1] + Len(hs[q]) + 2 /\ Holds(flat, off[q - 1], hs[q] \o ends)
      BY <1>11, <1>12, <1>13
    <2> QED  BY <1>10, <2>1
  <1> QED  BY <1>14 DEF flat, ss, ends

LEMMA LayoutOf ==
    ASSUME NEW c, c.method \in Methods, c.path \in Paths, NEW n \in Nat, c.headers \in [1 .. n -> Headers],
           NEW text,
           text = Lines!HeadLine(c.method, c.path) \o Lines!CRLF
                    \o Lines!FlattenSeq([q \in 1 .. n |-> c.headers[q] \o Lines!CRLF]) \o Lines!CRLF \o Lines!Body
    PROVE  \E mark : Layout(c, text, mark)
  <1> DEFINE ends == Lines!CRLF
             body == Lines!Body
             head == Lines!HeadLine(c.method, c.path)
             hs   == c.headers
             flat == Lines!FlattenSeq([q \in 1 .. n |-> hs[q] \o ends])
             t1   == head \o ends
             t2   == t1 \o flat
             t3   == t2 \o ends
             t4   == t3 \o body
  <1>0. text = t4
    OBVIOUS
  <1>1. ends \in Chars /\ Len(ends) = 2 /\ body \in Chars /\ Len(body) = 2
    BY DEF Lines!CRLF, Lines!Body, Chars, Letters
  <1>2. head \in Chars /\ Len(head) \in Nat
    BY HeadOf
  <1>3. PICK off \in [0 .. n -> Nat] :
          /\ flat \in Chars
          /\ off[0] = 0 /\ off[n] = Len(flat)
          /\ \A q \in 1 .. n : off[q] = off[q - 1] + Len(hs[q]) + 2 /\ Holds(flat, off[q - 1], hs[q] \o ends)
    BY HeadersFlat
  <1>4. Len(hs) = n /\ \A q \in 1 .. n : hs[q] \in Chars /\ Len(hs[q]) \in Nat
    <2>1. \A q \in 1 .. n : hs[q] \in Chars
      BY WordsOfRequest
    <2>2. Len(hs) = n
      OBVIOUS
    <2> HIDE DEF hs
    <2>3. ASSUME NEW q \in 1 .. n PROVE Len(hs[q]) \in Nat
      <3> DEFINE h == hs[q]
      <3>1. h \in Chars
        BY <2>1
      <3> HIDE DEF h
      <3>2. Len(h) \in Nat
        BY <3>1 DEF Chars
      <3> QED  BY <3>2 DEF h
    <2> QED  BY <2>1, <2>2, <2>3
  <1> HIDE DEF ends, body, head, hs, flat
  <1>5. t1 \in Chars /\ Len(t1) = Len(head) + 2 /\ Holds(t1, 0, head \o ends)
    <2>1. t1 \in Chars /\ Len(t1) = Len(head) + Len(ends)
      BY <1>1, <1>2, Behind
    <2>2. Holds(t1, 0, t1)
      BY <2>1, HoldsItself, Zenon
    <2> QED  BY <1>1, <2>1, <2>2
  <1> HIDE DEF t1
  <1>6. t2 \in Chars /\ Len(t2) = Len(t1) + Len(flat) /\ Holds(t2, 0, head \o ends) /\ Holds(t2, Len(t1), flat)
    <2>1. t2 \in Chars /\ Len(t2) = Len(t1) + Len(flat)
      BY <1>3, <1>5, Behind
    <2>2. Holds(t2, 0, head \o ends)
      BY <1>3, <1>5, HoldsStill, Zenon
    <2>3. Holds(t2, Len(t1), flat)
      BY <1>3, <1>5, HoldsNew
    <2> QED  BY <2>1, <2>2, <2>3
  <1> HIDE DEF t2
  <1>7. t3 \in Chars /\ Len(t3) = Len(t2) + 2 /\ Holds(t3, 0, head \o ends) /\ Holds(t3, Len(t1), flat)
        /\ Holds(t3, Len(t2), ends)
    <2>a. t3 \in Chars /\ Len(t3) = Len(t2) + Len(ends)
      BY <1>1, <1>6, Behind
    <2>1. t3 \in Chars /\ Len(t3) = Len(t2) + 2
      BY <1>1, <2>a
    <2>2. Holds(t3, 0, head \o ends)
      BY <1>1, <1>6, HoldsStill, Zenon
    <2>3. Holds(t3, Len(t1), flat)
      BY <1>1, <1>6, HoldsStill, Zenon
    <2>4. Holds(t3, Len(t2), ends)
      BY <1>1, <1>6, HoldsNew
    <2> QED  BY <2>1, <2>2, <2>3, <2>4
  <1> HIDE DEF t3
  <1>8. t4 \in Chars /\ Len(t4) = Len(t3) + 2 /\ Holds(t4, 0, head \o ends) /\ Holds(t4, Len(t1), flat)
        /\ Holds(t4, Len(t2), ends) /\ Holds(t4, Len(t3), body)
    <2>a. t4 \in Chars /\ Len(t4) = Len(t3) + Len(body)
      BY <1>1, <1>7, Behind
    <2>1. t4 \in Chars /\ Len(t4) = Len(t3) + 2
      BY <1>1, <2>a
    <2>2. Holds(t4, 0, head \o ends)
      BY <1>1, <1>7, HoldsStill, Zenon
    <2>3. Holds(t4, Len(t1), flat)
      BY <1>1, <1>7, HoldsStill, Zenon
    <2>4. Holds(t4, Len(t2), ends)
      BY <1>1, <1>7, HoldsStill, Zenon
    <2>5. Holds(t4, Len(t3), body)
      BY <1>1, <1>7, HoldsNew
    <2> QED  BY <2>1, <2>2, <2>3, <2>4, <2>5
  <1> HIDE DEF t4
  <1> DEFINE mark == [q \in 0 .. n |-> Len(t1) + off[q]]
  <1>9. /\ mark \in [0 .. n -> Nat] /\ mark[0] = Len(head) + 2 /\ mark[n] = Len(t2) /\ Len(t4) = mark[n] + 4
        /\ Len(t3) = mark[n] + 2
        /\ \A q \in 0 .. n : mark[q] = Len(t1) + off[q]
    <2>1. Len(t1) \in Nat /\ \A q \in 0 .. n : off[q] \in Nat
      <3>1. Len(t1) \in Nat
        BY <1>2, <1>5
      <3>2. \A q \in 0 .. n : off[q] \in Nat
        OBVIOUS
      <3> QED  BY <3>1, <3>2
    <2>2. mark \in [0 .. n -> Nat]
      BY <2>1
    <2>3. 0 \in 0 .. n /\ n \in 0 .. n
      OBVIOUS
    <2>4. mark[0] = Len(t1) + 0 /\ mark[n] = Len(t1) + Len(flat)
      BY <1>3, <2>3
    <2>5. \A q \in 0 .. n : mark[q] = Len(t1) + off[q]
      OBVIOUS
    <2> HIDE DEF mark
    <2>6. Len(flat) \in Nat
      BY <1>3 DEF Chars
    <2> QED  BY <1>2, <1>5, <1>6, <1>7, <1>8, <2>1, <2>2, <2>4, <2>5, <2>6
  <1> HIDE DEF mark
  <1>10. LineAt(t4, 0, head)
    BY <1>2, <1>8, LineIs DEF ends
  <1>11. ASSUME NEW q \in 1 .. n PROVE mark[q] = mark[q - 1] + Len(hs[q]) + 2 /\ LineAt(t4, mark[q - 1], hs[q])
    <2>1. q - 1 \in 0 .. n /\ q \in 0 .. n
      OBVIOUS
    <2>2. mark[q - 1] = Len(t1) + off[q - 1] /\ mark[q] = Len(t1) + off[q] /\ off[q - 1] \in Nat /\ Len(t1) \in Nat
      BY <1>2, <1>3, <1>5, <1>9, <2>1, SMTT(30)
    <2>3. off[q] = off[q - 1] + Len(hs[q]) + 2 /\ Holds(flat, off[q - 1], hs[q] \o ends)
      BY <1>3
    <2>4. Holds(t4, mark[q - 1], hs[q] \o ends)
      BY <1>8, <2>2, <2>3, HoldsWithin
    <2>5. LineAt(t4, mark[q - 1], hs[q])
      BY <1>4, <2>4, LineIs DEF ends
    <2>6. mark[q] = mark[q - 1] + Len(hs[q]) + 2
      BY <1>4, <2>2, <2>3
    <2> QED  BY <2>5, <2>6
  <1>12. LineAt(t4, mark[n], <<>>)
    <2>1. <<>> \in Chars /\ <<>> \o ends = ends
      BY <1>1 DEF Chars
    <2>2. Holds(t4, mark[n], <<>> \o ends)
      BY <1>8, <1>9, <2>1
    <2> QED  BY <2>1, <2>2, LineIs DEF ends
  <1>13. Holds(t4, mark[n] + 2, body)
    BY <1>8, <1>9
  <1>14. Layout(c, t4, mark)
    BY <1>4, <1>8, <1>9, <1>10, <1>11, <1>12, <1>13 DEF Layout, head, body, hs
  <1> QED  BY <1>0, <1>14 DEF t4, t3, t2, t1

\* How far the reading of a request has come that fits into the buffer.
Progress(text, mark) ==
    LET N  == Len(client.headers)
        to == Len(text) - client.cut
    IN  /\ client.cut \in {0, 3, 4, 6, Len(text)}
        /\ DOMAIN buf = 1 .. LineMax + 1
        /\ reading = "first" => socket = SubSeq(text, 0 + 1, to) /\ buf[1] = "0"
        /\ client.cut <= 4 =>
             /\ reading \in {"headers", "ready"} =>
                  Lines!Room(client) /\ request = [method |-> client.method, path |-> client.path]
             /\ reading = "undefined" => ~Lines!Room(client)
        /\ reading = "headers" =>
             \/ \E n \in 0 .. N : /\ mark[n] <= to /\ socket = SubSeq(text, mark[n] + 1, to)
                                  /\ buf[1] \notin {"c", "l"}
             \/ client.cut = 3 /\ socket = <<>>
             \/ client.cut \in {4, 6} /\ socket = <<>> /\ buf[1] \notin {"c", "l"}
        /\ reading = "ready" => client.cut \in {0, 3} /\ (client.cut = 0 => socket = Lines!Body)

RequestInv ==
    /\ reading \in {"connect", "first", "headers", "ready", "refused", "undefined"}
    /\ reading = "connect" => buf = [n \in 1 .. LineMax + 1 |-> "0"]
    /\ reading # "connect" =>
         /\ client.method \in Methods /\ client.path \in Paths /\ client.headers \in Seq(Headers)
         /\ Lines!Fits => \E text, mark : Layout(client, text, mark) /\ Progress(text, mark)

\* What a layout says of its numbers.
LEMMA Marks ==
    ASSUME NEW c, c.method \in Methods, c.path \in Paths, c.headers \in Seq(Headers),
           NEW text, NEW mark, Layout(c, text, mark)
    PROVE  LET N == Len(c.headers)
               L == Len(Lines!HeadLine(c.method, c.path))
           IN  /\ N \in Nat /\ L \in Nat /\ L >= 5 /\ text \in Chars /\ Len(text) = mark[N] + 4
               /\ \A n \in 0 .. N : mark[n] \in Nat /\ mark[n] <= mark[N] /\ mark[n] >= L + 2
               /\ mark[0] = L + 2
               /\ \A n \in 1 .. N : /\ c.headers[n] \in Chars /\ c.headers[n] # <<>> /\ Len(c.headers[n]) \in Nat
                                    /\ Len(c.headers[n]) > 0
                                    /\ c.headers[n][1] \notin {"c", "l"} /\ Without(c.headers[n], "l")
                                    /\ mark[n] = mark[n - 1] + Len(c.headers[n]) + 2
                                    /\ n < N => mark[n] + 3 <= mark[N]
  <1> DEFINE N == Len(c.headers)
             L == Len(Lines!HeadLine(c.method, c.path))
             hs == c.headers
  <1>0. N \in Nat /\ L \in Nat /\ L >= 5
    BY HeadOf
  <1>1. /\ text \in Chars /\ mark \in [0 .. N -> Nat] /\ mark[0] = L + 2 /\ Len(text) = mark[N] + 4
        /\ \A n \in 1 .. N : mark[n] = mark[n - 1] + Len(hs[n]) + 2
    BY DEF Layout
  <1>2. ASSUME NEW n \in 1 .. N
        PROVE  /\ hs[n] \in Chars /\ hs[n] # <<>> /\ Len(hs[n]) \in Nat /\ Len(hs[n]) > 0
               /\ hs[n][1] \notin {"c", "l"} /\ Without(hs[n], "l")
    <2>1. hs[n] \in Headers
      OBVIOUS
    <2> DEFINE h == hs[n]
    <2>2. h \in Chars /\ h # <<>> /\ h[1] # "c" /\ Without(h, "l")
      BY <2>1, WordsOfRequest
    <2> HIDE DEF h
    <2>3. Len(h) \in Nat /\ Len(h) > 0 /\ 1 \in DOMAIN h
      BY <2>2 DEF Chars
    <2>4. h[1] # "l"
      BY <2>2, <2>3 DEF Without
    <2> QED  BY <2>2, <2>3, <2>4 DEF h
  <1> HIDE DEF N, L, hs
  <1>3. \A n \in 1 .. N : mark[n] >= mark[n - 1] + 3 /\ n - 1 \in 0 .. N /\ n \in 0 .. N
    <2> SUFFICES ASSUME NEW n \in 1 .. N PROVE mark[n] >= mark[n - 1] + 3 /\ n - 1 \in 0 .. N /\ n \in 0 .. N
      OBVIOUS
    <2>1. n - 1 \in 0 .. N /\ n \in 0 .. N
      BY <1>0
    <2>2. mark[n - 1] \in Nat
      BY <1>1, <2>1
    <2> QED  BY <1>1, <1>2, <2>1, <2>2
  <1> DEFINE Up(d) == \A n \in 0 .. N : n + d <= N => mark[n + d] >= mark[n] + 3 * d
             Good  == {d \in Nat : Up(d)}
  <1>4. Up(0)
    BY <1>1
  <1>5. ASSUME NEW d \in Nat, Up(d) PROVE Up(d + 1)
    <2> SUFFICES ASSUME NEW n \in 0 .. N, n + (d + 1) <= N PROVE mark[n + (d + 1)] >= mark[n] + 3 * (d + 1)
      OBVIOUS
    <2>1. n + d \in 0 .. N /\ n + (d + 1) \in 1 .. N /\ (n + (d + 1)) - 1 = n + d /\ n + d <= N
      BY <1>0
    <2>2. mark[n + d] >= mark[n] + 3 * d /\ mark[n + (d + 1)] >= mark[n + d] + 3
      BY <1>3, <1>5, <2>1
    <2>3. mark[n] \in Nat /\ mark[n + d] \in Nat /\ mark[n + (d + 1)] \in Nat
      BY <1>0, <1>1, <2>1
    <2> QED  BY <2>2, <2>3
  <1> HIDE DEF Up
  <1>6. Good = Nat
    <2>1. Good \subseteq Nat /\ 0 \in Good /\ \A d \in Good : d + 1 \in Good
      BY <1>4, <1>5
    <2> HIDE DEF Good
    <2> QED  BY <2>1, Inductive
  <1>7. ASSUME NEW n \in 0 .. N, NEW m \in 0 .. N, n <= m PROVE mark[m] >= mark[n] + 3 * (m - n)
    <2> DEFINE d == m - n
    <2>1. d \in Nat /\ n + d = m /\ n + d <= N
      BY <1>0, <1>7
    <2> HIDE DEF d
    <2>2. Up(d)
      BY <1>6, <2>1
    <2>3. mark[n + d] >= mark[n] + 3 * d
      BY <2>1, <2>2 DEF Up
    <2> QED  BY <2>1, <2>3 DEF d
  <1>8. \A n \in 0 .. N : mark[n] \in Nat
    BY <1>1
  <1>9. ASSUME NEW n \in 0 .. N PROVE mark[n] <= mark[N] /\ mark[n] >= L + 2 /\ (n < N => mark[n] + 3 <= mark[N])
    <2>1. 0 \in 0 .. N /\ N \in 0 .. N /\ n <= N /\ 0 <= n
      BY <1>0
    <2>2. mark[N] >= mark[n] + 3 * (N - n) /\ mark[n] >= mark[0] + 3 * (n - 0)
      BY <1>7, <2>1
    <2>3. mark[n] \in Nat /\ mark[N] \in Nat
      BY <1>8, <2>1
    <2> QED  BY <1>0, <1>1, <2>1, <2>2, <2>3
  <1>10. \A n \in 1 .. N : n \in 0 .. N
    OBVIOUS
  <1> QED  BY <1>0, <1>1, <1>2, <1>8, <1>9, <1>10 DEF N, L, hs

LEMMA RequestStart == ASSUME Lines!Init PROVE RequestInv
  BY DEF Lines!Init, RequestInv

LEMMA RequestConnect == ASSUME RequestInv, Lines!Connect PROVE RequestInv'
  <1>1. /\ reading = "connect" /\ reading' = "first" /\ buf' = buf /\ request' = request
        /\ buf = [n \in 1 .. LineMax + 1 |-> "0"] /\ LineMax \in Nat
    BY RequestAssumption DEF Lines!Connect, RequestInv
  <1>2. PICK m \in Methods, p \in Paths, n \in 0 .. MaxHeaders : \E hs \in [1 .. n -> Headers] :
          LET text == Lines!HeadLine(m, p) \o Lines!CRLF
                        \o Lines!FlattenSeq([q \in 1 .. n |-> hs[q] \o Lines!CRLF]) \o Lines!CRLF \o Lines!Body
          IN  \E c \in {0, Len(Lines!Body) + 1, Len(Lines!Body) + 2, Len(Lines!Body) + 4, Len(text)} :
                /\ socket' = SubSeq(text, 1, Len(text) - c)
                /\ client' = [method |-> m, path |-> p, headers |-> hs, cut |-> c]
    BY DEF Lines!Connect
  <1>3. PICK hs \in [1 .. n -> Headers] :
          LET text == Lines!HeadLine(m, p) \o Lines!CRLF
                        \o Lines!FlattenSeq([q \in 1 .. n |-> hs[q] \o Lines!CRLF]) \o Lines!CRLF \o Lines!Body
          IN  \E c \in {0, Len(Lines!Body) + 1, Len(Lines!Body) + 2, Len(Lines!Body) + 4, Len(text)} :
                /\ socket' = SubSeq(text, 1, Len(text) - c)
                /\ client' = [method |-> m, path |-> p, headers |-> hs, cut |-> c]
    BY <1>2
  <1> DEFINE text == Lines!HeadLine(m, p) \o Lines!CRLF
                       \o Lines!FlattenSeq([q \in 1 .. n |-> hs[q] \o Lines!CRLF]) \o Lines!CRLF \o Lines!Body
  <1>4. PICK c \in {0, Len(Lines!Body) + 1, Len(Lines!Body) + 2, Len(Lines!Body) + 4, Len(text)} :
          /\ socket' = SubSeq(text, 1, Len(text) - c)
          /\ client' = [method |-> m, path |-> p, headers |-> hs, cut |-> c]
    BY <1>3
  <1>5. Len(Lines!Body) = 2 /\ n \in Nat
    BY RequestAssumption DEF Lines!Body
  <1>6. c \in {0, 3, 4, 6, Len(text)}
    BY <1>5
  <1>7. /\ client'.method = m /\ client'.path = p /\ client'.headers = hs /\ client'.cut = c
    BY <1>4
  <1>8. PICK mark : Layout(client', text, mark)
    BY <1>5, <1>7, LayoutOf
  <1> HIDE DEF text
  <1>9. client'.headers \in Seq(Headers)
    BY <1>5, <1>7
  <1>10. DOMAIN buf' = 1 .. LineMax + 1 /\ buf'[1] = "0"
    BY <1>1
  <1>11. socket' = SubSeq(text, 0 + 1, Len(text) - client'.cut)
    BY <1>4, <1>7
  <1>12. Progress(text, mark)'
    BY <1>1, <1>6, <1>7, <1>10, <1>11 DEF Progress
  <1> QED  BY <1>1, <1>7, <1>8, <1>9, <1>12 DEF RequestInv

\* The request line, of a request whose lines fit.
LEMMA FirstReads ==
    ASSUME RequestInv, Lines!FirstLine, Lines!Fits, NEW text, NEW mark,
           Layout(client, text, mark), Progress(text, mark)
    PROVE  Progress(text, mark)'
  <1> DEFINE r    == Lines!Receive
             head == Lines!HeadLine(client.method, client.path)
             N    == Len(client.headers)
             to   == Len(text) - client.cut
             asked1 == Lines!ParseHeadLine(SubSeq(r.buf, 1, r.len + 1))
  <1>1. /\ reading = "first" /\ socket' = r.rest /\ buf' = r.buf /\ client' = client
        /\ IF r.len < 5
             THEN reading' = "refused"
             ELSE request' = asked1 /\ reading' = IF Lines!Room(asked1) THEN "headers" ELSE "undefined"
    BY DEF Lines!FirstLine
  <1>2. client.method \in Methods /\ client.path \in Paths /\ client.headers \in Seq(Headers)
    BY <1>1 DEF RequestInv
  <1>3. /\ head \in Chars /\ Len(head) \in Nat /\ Len(head) >= 5
        /\ head[1] \notin {"c", "l"} /\ Without(head, "l")
        /\ \A t \in Chars : Len(t) = Len(head) + 1 /\ (\A n \in 1 .. Len(head) : t[n] = head[n])
                             => Lines!ParseHeadLine(t) = [method |-> client.method, path |-> client.path]
    BY <1>2, HeadOf
  <1>4. LineMax \in Nat /\ Len(head) + 2 <= LineMax
    BY RequestAssumption DEF Lines!Fits
  <1>5. /\ client.cut \in {0, 3, 4, 6, Len(text)} /\ DOMAIN buf = 1 .. LineMax + 1
        /\ socket = SubSeq(text, 0 + 1, to) /\ buf[1] = "0"
    BY <1>1 DEF Progress
  <1>6. /\ N \in Nat /\ text \in Chars /\ Len(text) = mark[N] + 4
        /\ mark[N] \in Nat /\ mark[0] = Len(head) + 2 /\ mark[N] >= mark[0]
        /\ \A n \in 1 .. N : n < N => mark[n] + 3 <= mark[N]
        /\ N > 0 => mark[N] >= mark[0] + 3 + 0
    <2>1. /\ N \in Nat /\ text \in Chars /\ Len(text) = mark[N] + 4
          /\ \A n \in 0 .. N : mark[n] \in Nat /\ mark[n] <= mark[N] /\ mark[n] >= Len(head) + 2
          /\ mark[0] = Len(head) + 2
          /\ \A n \in 1 .. N : /\ Len(client.headers[n]) \in Nat /\ Len(client.headers[n]) > 0
                               /\ mark[n] = mark[n - 1] + Len(client.headers[n]) + 2
                               /\ n < N => mark[n] + 3 <= mark[N]
      BY <1>2, Marks
    <2> HIDE DEF N, head
    <2>2. N \in 0 .. N /\ (N > 0 => 1 \in 1 .. N /\ 1 \in 0 .. N /\ 1 - 1 = 0)
      BY <2>1
    <2>3. ASSUME N > 0 PROVE mark[N] >= mark[0] + 3
      <3>1. 1 \in 1 .. N /\ 1 \in 0 .. N /\ 1 - 1 = 0
        BY <2>2, <2>3
      <3>2. mark[1] = mark[0] + Len(client.headers[1]) + 2 /\ Len(client.headers[1]) > 0 /\ Len(client.headers[1]) \in Nat
            /\ mark[1] <= mark[N] /\ mark[1] \in Nat
        BY <2>1, <3>1
      <3>3. mark[0] \in Nat /\ mark[N] \in Nat
        BY <1>3, <2>1, <2>2 DEF head
      <3> QED  BY <3>2, <3>3
    <2> QED  BY <2>1, <2>2, <2>3
  <1>7. LineAt(text, 0, head)
    BY DEF Layout
  <1> HIDE DEF r, head, N, asked1
  \* The line has arrived whole.
  <1>8. CASE Len(head) + 2 <= to
    <2>1. to \in Nat /\ to <= Len(text)
      BY <1>3, <1>5, <1>6, <1>8, SMTT(30)
    <2>2. /\ r.len = Len(head) /\ r.rest = SubSeq(text, (0 + (Len(head) + 2)) + 1, to)
          /\ DOMAIN r.buf = 1 .. LineMax + 1
          /\ \A n \in 1 .. Len(head) : r.buf[n] = head[n]
          /\ r.buf[Len(head) + 1] = "0"
      <3> DEFINE end == to
      <3>1. end \in Nat /\ end <= Len(text) /\ 0 + Len(head) + 2 <= end /\ socket = SubSeq(text, 0 + 1, end)
        BY <1>3, <1>5, <1>8, <2>1
      <3> HIDE DEF end
      <3>2. /\ r.len = Len(head) /\ r.rest = SubSeq(text, (0 + (Len(head) + 2)) + 1, end)
            /\ DOMAIN r.buf = 1 .. LineMax + 1
            /\ \A n \in 1 .. Len(head) : r.buf[n] = head[n]
            /\ r.buf[Len(head) + 1] = "0"
        <4> DEFINE from == 0
        <4>1. /\ from \in Nat /\ LineAt(text, from, head) /\ from + Len(head) + 2 <= end
              /\ socket = SubSeq(text, from + 1, end) /\ Without(head, "l") /\ Len(head) + 2 <= LineMax
              /\ DOMAIN buf = 1 .. LineMax + 1 /\ LineMax \in Nat /\ end \in Nat /\ end <= Len(text)
          BY <1>3, <1>4, <1>5, <1>7, <3>1
        <4> HIDE DEF from
        <4>2. /\ r.len = Len(head) /\ r.rest = SubSeq(text, (from + (Len(head) + 2)) + 1, end)
              /\ DOMAIN r.buf = 1 .. LineMax + 1
              /\ \A n \in 1 .. Len(head) : r.buf[n] = head[n]
              /\ r.buf[Len(head) + 1] = "0"
          BY <4>1, TakesLine DEF r
        <4> QED  BY <4>2 DEF from
      <3> QED  BY <3>2 DEF end
    <2>3. request' = asked1 /\ reading' = IF Lines!Room(asked1) THEN "headers" ELSE "undefined"
      BY <1>1, <1>3, <2>2
    <2>4. asked1 = [method |-> client.method, path |-> client.path]
      <3> DEFINE n1 == Len(head) + 1
                 t  == SubSeq(r.buf, 1, n1)
                 b  == r.buf
      <3>1. n1 \in Nat /\ n1 >= 1
        BY <1>3
      <3>2. \A q \in 1 .. n1 : b[q] \in Letters
        <4>1. \A q \in 1 .. Len(head) : b[q] \in Letters
          BY <1>3, <2>2 DEF Chars
        <4>2. "0" \in Letters
          BY DEF Letters
        <4>3. \A q \in 1 .. n1 : q = Len(head) + 1 \/ q \in 1 .. Len(head)
          BY <1>3
        <4> QED  BY <2>2, <4>1, <4>2, <4>3
      <3>3. t \in Seq(Letters) /\ Len(t) = n1 /\ \A q \in 1 .. n1 : t[q] = b[q]
        <4>0. 1 \in Int /\ n1 \in Int
          BY <3>1
        <4> HIDE DEF n1, b
        <4>1. /\ SubSeq(b, 1, n1) \in Seq(Letters)
              /\ Len(SubSeq(b, 1, n1)) = IF 1 <= n1 THEN n1 - 1 + 1 ELSE 0
              /\ \A q \in 1 .. n1 - 1 + 1 : SubSeq(b, 1, n1)[q] = b[1 + q - 1]
          BY <3>2, <4>0, SubSeqProperties
        <4>2. n1 - 1 + 1 = n1 /\ \A q \in 1 .. n1 : 1 + q - 1 = q
          BY <3>1
        <4> QED  BY <3>1, <4>1, <4>2 DEF b
      <3>4. asked1 = Lines!ParseHeadLine(t)
        BY <2>2 DEF asked1
      <3>5. \A q \in 1 .. Len(head) : q \in 1 .. n1
        BY <1>3
      <3> HIDE DEF t
      <3>6. t \in Chars /\ Len(t) = Len(head) + 1 /\ \A q \in 1 .. Len(head) : t[q] = head[q]
        <4>1. t \in Chars
          BY <3>3 DEF Chars
        <4> QED  BY <2>2, <3>3, <3>5, <4>1
      <3> QED  BY <1>3, <3>4, <3>6
    <2>5. client.cut # Len(text)
      BY <1>3, <1>6, <1>8
    <2>6. buf'[1] \notin {"c", "l"}
      <3>1. 1 \in 1 .. Len(head)
        BY <1>3
      <3> QED  BY <1>1, <1>3, <2>2, <3>1
    <2>7. mark[0] <= to /\ socket' = SubSeq(text, mark[0] + 1, to) /\ 0 \in 0 .. N
      BY <1>1, <1>3, <1>6, <1>8, <2>2
    <2>8. Lines!Room(asked1) <=> Lines!Room(client)
      BY <2>4 DEF Lines!Room
    <2> QED  BY <1>1, <1>5, <2>2, <2>3, <2>4, <2>6, <2>7, <2>8 DEF Progress, N, Lines!Room
  \* The client has closed within it.
  <1>9. CASE ~(Len(head) + 2 <= to)
    <2>1. client.cut = Len(text) \/ (client.cut = 6 /\ to = Len(head))
      <3>1. CASE client.cut \in {0, 3, 4}
        <4>1. Len(head) + 2 <= to
          BY <1>3, <1>6, <3>1
        <4> QED  BY <1>9, <4>1
      <3>2. CASE client.cut = 6
        <4>1. N = 0
          <5> SUFFICES ASSUME N # 0 PROVE FALSE
            OBVIOUS
          <5>1. N > 0
            BY <1>6
          <5> QED  BY <1>3, <1>6, <1>9, <3>2, <5>1
        <4> QED  BY <1>3, <1>6, <3>2, <4>1
      <3> QED  BY <1>5, <3>1, <3>2
    <2>2. \/ socket = <<>> /\ client.cut = Len(text)
          \/ socket = head /\ client.cut = 6
      <3>1. CASE client.cut = Len(text)
        <4>1. to = 0
          BY <1>3, <1>6, <3>1
        <4>2. socket = <<>>
          BY <1>5, <1>6, <4>1 DEF Chars
        <4> QED  BY <3>1, <4>2
      <3>2. CASE client.cut = 6 /\ to = Len(head)
        <4>1. Holds(text, 0, head)
          BY <1>7 DEF LineAt
        <4>2. SubSeq(text, 0 + 1, 0 + Len(head)) = head
          BY <4>1, CutOut
        <4>3. 0 + Len(head) = to
          BY <1>3, <3>2
        <4> QED  BY <1>5, <3>2, <4>2, <4>3
      <3> QED  BY <2>1, <3>1, <3>2
    <2>3. socket \in Chars /\ Len(socket) < LineMax /\ Without(socket, "l")
      <3>1. CASE socket = <<>>
        BY <1>3, <1>4, <3>1 DEF Chars, Without
      <3>2. CASE socket = head
        BY <1>3, <1>4, <3>2
      <3> QED  BY <2>2, <3>1, <3>2
    <2>4. /\ r.rest = <<>> /\ r.len \in Nat /\ DOMAIN r.buf = 1 .. LineMax + 1
          /\ socket # <<>> /\ socket[1] # "c" => r.len # 0 /\ r.buf[1] = socket[1]
          /\ socket = <<>> /\ buf[1] \notin {"c", "l"} => r.len = 1 /\ r.buf[1] = buf[1]
      BY <1>4, <1>5, <2>3, ReceivesEnd DEF r
    <2>5. CASE socket = <<>> /\ client.cut = Len(text)
      <3>1. r.len = 1
        BY <1>5, <2>4, <2>5
      <3>2. reading' = "refused"
        BY <1>1, <3>1
      <3>3. ~(client.cut <= 4)
        BY <1>3, <1>6, <2>5
      <3> QED  BY <1>1, <1>5, <2>4, <3>2, <3>3 DEF Progress
    <2>6. CASE socket = head /\ client.cut = 6
      <3>1. head # <<>>
        BY <1>3
      <3>2. r.buf[1] = head[1]
        BY <1>3, <2>4, <2>6, <3>1
      <3>3. client'.cut = 6 /\ socket' = <<>> /\ buf'[1] \notin {"c", "l"} /\ DOMAIN buf' = 1 .. LineMax + 1
            /\ reading' \in {"refused", "headers", "undefined"} /\ ~(6 <= 4)
        BY <1>1, <1>3, <2>4, <2>6, <3>2
      <3> QED  BY <3>3 DEF Progress
    <2> QED  BY <2>2, <2>5, <2>6
  <1> QED  BY <1>8, <1>9

\* recv_line in the middle of a request that has the whole line.
LEMMA TakesAt ==
    ASSUME LineMax \in Nat, DOMAIN buf = 1 .. LineMax + 1,
           NEW text, NEW from, NEW line, LineAt(text, from, line), Without(line, "l"), Len(line) + 2 <= LineMax,
           NEW to \in Nat, to <= Len(text), from + Len(line) + 2 <= to, socket = SubSeq(text, from + 1, to),
           line # <<>>, line[1] \notin {"c", "l"}, Lines!HeaderLine
    PROVE  /\ reading' = "headers" /\ socket' = SubSeq(text, (from + Len(line) + 2) + 1, to)
           /\ DOMAIN buf' = 1 .. LineMax + 1 /\ buf'[1] \notin {"c", "l"}
  <1> DEFINE r == Lines!Receive
  <1>0. line \in Chars /\ from \in Nat /\ Len(line) \in Nat /\ Len(line) > 0
    BY DEF LineAt, Holds, Chars
  <1>1. /\ r.len = Len(line) /\ r.rest = SubSeq(text, (from + (Len(line) + 2)) + 1, to)
        /\ DOMAIN r.buf = 1 .. LineMax + 1
        /\ \A n \in 1 .. Len(line) : r.buf[n] = line[n]
        /\ r.buf[Len(line) + 1] = "0"
    <2> HIDE DEF r
    <2> QED  BY <1>0, TakesLine DEF r
  <1>2. /\ socket' = r.rest /\ buf' = r.buf
        /\ reading' = IF r.len = 0 THEN "ready" ELSE "headers"
    BY DEF Lines!HeaderLine
  <1> HIDE DEF r
  <1>3. from + (Len(line) + 2) = from + Len(line) + 2 /\ 1 \in 1 .. Len(line) /\ Len(line) # 0
    BY <1>0
  <1>4. reading' = "headers" /\ DOMAIN buf' = 1 .. LineMax + 1
    BY <1>1, <1>2, <1>3
  <1>5. socket' = SubSeq(text, (from + Len(line) + 2) + 1, to)
    BY <1>1, <1>2, <1>3
  <1>6. buf'[1] = line[1]
    BY <1>1, <1>2, <1>3
  <1> QED  BY <1>4, <1>5, <1>6

\* The header lines, of a request whose lines fit.
LEMMA HeaderReads ==
    ASSUME RequestInv, Lines!HeaderLine, Lines!Fits, NEW text, NEW mark,
           Layout(client, text, mark), Progress(text, mark)
    PROVE  Progress(text, mark)'
  <1> DEFINE r    == Lines!Receive
             head == Lines!HeadLine(client.method, client.path)
             hs   == client.headers
             N    == Len(client.headers)
             L    == Len(head)
             to   == Len(text) - client.cut
  <1>1. /\ reading = "headers" /\ socket' = r.rest /\ buf' = r.buf /\ client' = client /\ request' = request
        /\ reading' = IF r.len = 0 THEN "ready" ELSE "headers"
    BY DEF Lines!HeaderLine
  <1>2. client.method \in Methods /\ client.path \in Paths /\ client.headers \in Seq(Headers)
    BY <1>1 DEF RequestInv
  <1>3. /\ N \in Nat /\ L \in Nat /\ L >= 5 /\ text \in Chars /\ Len(text) = mark[N] + 4
        /\ \A n \in 0 .. N : mark[n] \in Nat /\ mark[n] <= mark[N] /\ mark[n] >= L + 2
        /\ \A n \in 1 .. N : /\ hs[n] \in Chars /\ hs[n] # <<>> /\ Len(hs[n]) \in Nat /\ Len(hs[n]) > 0
                             /\ hs[n][1] \notin {"c", "l"} /\ Without(hs[n], "l")
                             /\ mark[n] = mark[n - 1] + Len(hs[n]) + 2
                             /\ n < N => mark[n] + 3 <= mark[N]
    BY <1>2, Marks
  <1>4. LineMax \in Nat /\ L + 2 <= LineMax /\ \A n \in 1 .. N : Len(hs[n]) + 2 <= LineMax
    <2>1. DOMAIN hs = 1 .. N
      BY <1>2
    <2> QED  BY <2>1, RequestAssumption DEF Lines!Fits
  <1>5. /\ client.cut \in {0, 3, 4, 6, Len(text)} /\ DOMAIN buf = 1 .. LineMax + 1
        /\ client.cut <= 4 => Lines!Room(client) /\ request = [method |-> client.method, path |-> client.path]
        /\ \/ \E n \in 0 .. N : /\ mark[n] <= to /\ socket = SubSeq(text, mark[n] + 1, to)
                                /\ buf[1] \notin {"c", "l"}
           \/ client.cut = 3 /\ socket = <<>>
           \/ client.cut \in {4, 6} /\ socket = <<>> /\ buf[1] \notin {"c", "l"}
    BY <1>1 DEF Progress
  <1>6. /\ \A n \in 1 .. N : LineAt(text, mark[n - 1], hs[n])
        /\ LineAt(text, mark[N], <<>>) /\ Holds(text, mark[N] + 2, Lines!Body)
    BY DEF Layout
  <1>7. mark[N] \in Nat /\ mark[N] >= L + 2 /\ Len(text) \in Nat
    <2>1. N \in 0 .. N
      BY <1>3
    <2> QED  BY <1>3, <2>1
  <1> HIDE DEF r, head, hs, N, L
  \* At the end of the stream.
  <1>8. ASSUME socket \in Chars, Len(socket) < LineMax, Without(socket, "l")
        PROVE  /\ socket' = <<>> /\ DOMAIN buf' = 1 .. LineMax + 1 /\ reading' \in {"headers", "ready"}
               /\ socket # <<>> /\ socket[1] # "c" => reading' = "headers" /\ buf'[1] = socket[1]
               /\ socket = <<>> /\ buf[1] \notin {"c", "l"} => reading' = "headers" /\ buf'[1] = buf[1]
    <2>1. /\ r.rest = <<>> /\ r.len \in Nat /\ DOMAIN r.buf = 1 .. LineMax + 1
          /\ socket # <<>> /\ socket[1] # "c" => r.len # 0 /\ r.buf[1] = socket[1]
          /\ socket = <<>> /\ buf[1] \notin {"c", "l"} => r.len = 1 /\ r.buf[1] = buf[1]
      BY <1>4, <1>5, <1>8, ReceivesEnd DEF r
    <2> QED  BY <1>1, <2>1
  <1>9. ASSUME socket = <<>> PROVE socket \in Chars /\ Len(socket) < LineMax /\ Without(socket, "l")
    BY <1>3, <1>4, <1>9 DEF Chars, Without
  \* The next header line, or the empty line.
  <1>10. CASE \E n \in 0 .. N : /\ mark[n] <= to /\ socket = SubSeq(text, mark[n] + 1, to)
                                /\ buf[1] \notin {"c", "l"}
    <2>1. PICK n \in 0 .. N : /\ mark[n] <= to /\ socket = SubSeq(text, mark[n] + 1, to)
                              /\ buf[1] \notin {"c", "l"}
      BY <1>10
    <2>2. /\ mark[n] \in Nat /\ mark[n] >= L + 2 /\ client.cut \in {0, 3, 4, 6} /\ to \in Nat /\ to <= Len(text)
          /\ to = (mark[N] + 4) - client.cut
      <3>1. mark[n] \in Nat /\ mark[n] >= L + 2
        BY <1>3
      <3>2. client.cut # Len(text)
        <4> SUFFICES ASSUME client.cut = Len(text) PROVE FALSE
          OBVIOUS
        <4>1. to = 0
          BY <1>7
        <4> QED  BY <1>3, <2>1, <3>1, <4>1
      <3>3. client.cut \in {0, 3, 4, 6}
        BY <1>5, <3>2
      <3>4. to = (mark[N] + 4) - client.cut
        BY <1>3
      <3>5. to \in Nat /\ to <= Len(text)
        BY <1>3, <1>7, <3>3
      <3> QED  BY <3>1, <3>3, <3>4, <3>5
    <2> HIDE DEF to
    <2>3. CASE n < N
      <3> DEFINE h == hs[n + 1]
      <3>1. n + 1 \in 1 .. N /\ (n + 1) - 1 = n /\ n + 1 \in 0 .. N
        BY <1>3, <2>3
      <3>2. /\ h \in Chars /\ h # <<>> /\ Len(h) \in Nat /\ Len(h) > 0 /\ h[1] \notin {"c", "l"} /\ Without(h, "l")
            /\ mark[n + 1] = mark[n] + Len(h) + 2 /\ (n + 1 < N => mark[n + 1] + 3 <= mark[N])
            /\ Len(h) + 2 <= LineMax /\ LineAt(text, mark[n], h)
            /\ mark[n + 1] \in Nat /\ mark[n + 1] <= mark[N]
        BY <1>3, <1>4, <1>6, <3>1
      <3> HIDE DEF h
      <3>3. CASE mark[n + 1] <= to
        <4>1. mark[n] + Len(h) + 2 <= to
          BY <3>2, <3>3
        <4>2. /\ reading' = "headers" /\ socket' = SubSeq(text, (mark[n] + Len(h) + 2) + 1, to)
              /\ DOMAIN buf' = 1 .. LineMax + 1 /\ buf'[1] \notin {"c", "l"}
          <5> DEFINE from == mark[n]
          <5>1. /\ from \in Nat /\ LineAt(text, from, h) /\ Without(h, "l") /\ Len(h) + 2 <= LineMax
                /\ from + Len(h) + 2 <= to /\ socket = SubSeq(text, from + 1, to)
                /\ LineMax \in Nat /\ DOMAIN buf = 1 .. LineMax + 1 /\ to \in Nat /\ to <= Len(text)
                /\ h # <<>> /\ h[1] \notin {"c", "l"}
            BY <1>4, <1>5, <2>1, <2>2, <3>2, <4>1
          <5> HIDE DEF from
          <5>2. /\ reading' = "headers" /\ socket' = SubSeq(text, (from + Len(h) + 2) + 1, to)
                /\ DOMAIN buf' = 1 .. LineMax + 1 /\ buf'[1] \notin {"c", "l"}
            BY <5>1, TakesAt
          <5> QED  BY <5>2 DEF from
        <4>3. socket' = SubSeq(text, mark[n + 1] + 1, to)
          BY <3>2, <4>2
        <4> QED  BY <1>1, <1>5, <3>1, <3>3, <4>2, <4>3 DEF Progress, N, to
      <3>4. CASE ~(mark[n + 1] <= to)
        <4>1. n + 1 = N /\ client.cut = 6 /\ to = mark[n] + Len(h)
          <5>1. client.cut = 6
            BY <1>7, <2>2, <3>2, <3>4, SMTT(30)
          <5>2. n + 1 = N
            <6> SUFFICES ASSUME n + 1 # N PROVE FALSE
              OBVIOUS
            <6>1. n + 1 < N
              BY <1>3, <2>3
            <6> QED  BY <1>7, <2>2, <3>2, <3>4, <5>1, <6>1, SMTT(30)
          <5> QED  BY <1>7, <2>2, <3>2, <5>1, <5>2
        <4>2. socket = h
          <5>1. SubSeq(text, mark[n] + 1, mark[n] + Len(h)) = h
            BY <3>2, CutOut DEF LineAt
          <5> QED  BY <2>1, <4>1, <5>1
        <4>3. socket \in Chars /\ Len(socket) < LineMax /\ Without(socket, "l")
          BY <1>4, <3>2, <4>2
        <4>4. socket' = <<>> /\ DOMAIN buf' = 1 .. LineMax + 1 /\ reading' = "headers" /\ buf'[1] = h[1]
          BY <1>8, <3>2, <4>2, <4>3
        <4>5. client'.cut = 6 /\ buf'[1] \notin {"c", "l"}
          BY <1>1, <3>2, <4>1, <4>4
        <4> QED  BY <1>1, <4>4, <4>5 DEF Progress
      <3> QED  BY <3>3, <3>4
    <2>4. CASE n = N
      <3>1. CASE client.cut = 0
        <4>0. LineMax >= 2 /\ Len(<<>>) = 0 /\ Without(<<>>, "l")
          BY <1>3, <1>4 DEF Without
        <4> DEFINE none == <<>>
        <4>1. /\ LineAt(text, mark[N], none) /\ Without(none, "l") /\ Len(none) = 0 /\ Len(none) + 2 <= LineMax
              /\ mark[N] + Len(none) + 2 <= to /\ socket = SubSeq(text, mark[N] + 1, to)
          BY <1>3, <1>4, <1>6, <1>7, <2>1, <2>2, <2>4, <3>1, <4>0
        <4> HIDE DEF none
        <4>2. r.len = Len(none) /\ r.rest = SubSeq(text, (mark[N] + (Len(none) + 2)) + 1, to)
              /\ DOMAIN r.buf = 1 .. LineMax + 1
          <5> DEFINE from == mark[N]
          <5>1. /\ from \in Nat /\ LineAt(text, from, none) /\ Without(none, "l") /\ Len(none) + 2 <= LineMax
                /\ from + Len(none) + 2 <= to /\ socket = SubSeq(text, from + 1, to)
                /\ LineMax \in Nat /\ DOMAIN buf = 1 .. LineMax + 1 /\ to \in Nat /\ to <= Len(text)
            BY <1>4, <1>5, <1>7, <2>2, <4>1
          <5> HIDE DEF from
          <5>2. /\ r.len = Len(none) /\ r.rest = SubSeq(text, (from + (Len(none) + 2)) + 1, to)
                /\ DOMAIN r.buf = 1 .. LineMax + 1
                /\ \A v \in 1 .. Len(none) : r.buf[v] = none[v]
                /\ r.buf[Len(none) + 1] = "0"
            BY <5>1, TakesLine DEF r
          <5> QED  BY <5>2 DEF from
        <4>3. r.rest = Lines!Body
          <5>1. Len(Lines!Body) = 2
            BY DEF Lines!Body
          <5>2. SubSeq(text, (mark[N] + 2) + 1, (mark[N] + 2) + Len(Lines!Body)) = Lines!Body
            BY <1>6, CutOut
          <5>3. (mark[N] + 2) + 2 = to /\ Len(none) + 2 = 2
            BY <1>7, <2>2, <3>1, <4>1
          <5> QED  BY <4>2, <5>1, <5>2, <5>3
        <4>4. reading' = "ready" /\ client'.cut = 0 /\ socket' = Lines!Body /\ DOMAIN buf' = 1 .. LineMax + 1
          BY <1>1, <3>1, <4>1, <4>2, <4>3
        <4> QED  BY <1>1, <1>5, <3>1, <4>4 DEF Progress
      <3>2. CASE client.cut = 3
        <4>1. to = mark[N] + 1
          BY <1>7, <2>2, <3>2
        <4>2. Remains(socket, text, mark[N], to)
          <5>1. mark[N] <= to
            BY <1>7, <4>1
          <5> QED  BY <1>3, <1>7, <2>1, <2>2, <2>4, <5>1, WhatRemains
        <4>3. text[mark[N] + 1] = "c"
          <5>1. mark[N] + Len(<<>>) + 1 = mark[N] + 1
            BY <1>7
          <5> QED  BY <1>6, <5>1 DEF LineAt
        <4>4. to - mark[N] = 1
          BY <1>7, <4>1
        <4>5. socket \in Chars /\ Len(socket) = 1 /\ socket[1] = "c"
          <5>1. 1 \in 1 .. 1
            OBVIOUS
          <5>2. /\ socket \in Chars /\ Len(socket) = to - mark[N]
                /\ \A q \in 1 .. to - mark[N] : socket[q] = text[mark[N] + q]
            BY <4>2 DEF Remains
          <5> QED  BY <4>3, <4>4, <5>1, <5>2
        <4>6. Len(socket) < LineMax /\ Without(socket, "l")
          BY <1>3, <1>4, <4>5 DEF Without, Chars
        <4>7. socket' = <<>> /\ DOMAIN buf' = 1 .. LineMax + 1 /\ reading' \in {"headers", "ready"}
          BY <1>8, <4>5, <4>6
        <4>8. client'.cut = 3
          BY <1>1, <3>2
        <4> QED  BY <1>1, <4>7, <4>8 DEF Progress
      <3>3. CASE client.cut = 4
        <4>1. to = mark[N]
          BY <1>7, <2>2, <3>3
        <4>2. socket = <<>>
          BY <1>7, <2>1, <2>4, <1>3, <4>1 DEF Chars
        <4>3. socket' = <<>> /\ DOMAIN buf' = 1 .. LineMax + 1 /\ reading' = "headers" /\ buf'[1] = buf[1]
          BY <1>8, <1>9, <2>1, <4>2
        <4>4. client'.cut = 4 /\ buf'[1] \notin {"c", "l"}
          BY <1>1, <2>1, <3>3, <4>3
        <4> QED  BY <1>1, <4>3, <4>4 DEF Progress
      <3>4. client.cut # 6
        BY <1>7, <2>1, <2>2, <2>4
      <3> QED  BY <2>2, <3>1, <3>2, <3>3, <3>4
    <2>5. n < N \/ n = N
      BY <1>3
    <2> QED  BY <2>3, <2>4, <2>5
  \* The client has closed behind the CR of the empty line, or before it.
  <1>11. CASE client.cut = 3 /\ socket = <<>>
    <2>1. socket' = <<>> /\ DOMAIN buf' = 1 .. LineMax + 1 /\ reading' \in {"headers", "ready"}
      BY <1>8, <1>9, <1>11
    <2>2. client'.cut = 3
      BY <1>1, <1>11
    <2> QED  BY <1>1, <2>1, <2>2 DEF Progress
  <1>12. CASE client.cut \in {4, 6} /\ socket = <<>> /\ buf[1] \notin {"c", "l"}
    <2>1. socket' = <<>> /\ DOMAIN buf' = 1 .. LineMax + 1 /\ reading' = "headers" /\ buf'[1] = buf[1]
      BY <1>8, <1>9, <1>12
    <2>2. client'.cut \in {4, 6} /\ buf'[1] \notin {"c", "l"}
      BY <1>1, <1>12, <2>1
    <2> QED  BY <1>1, <2>1, <2>2 DEF Progress
  <1> QED  BY <1>5, <1>10, <1>11, <1>12

LEMMA RequestStep == ASSUME RequestInv, [Lines!Next]_Lines!vars PROVE RequestInv'
  <1>1. CASE Lines!Connect
    BY <1>1, RequestConnect
  <1>2. CASE Lines!FirstLine \/ Lines!HeaderLine
    <2>1. /\ client' = client /\ reading \in {"first", "headers"}
          /\ reading' \in {"first", "headers", "ready", "refused", "undefined"}
      BY <1>2 DEF Lines!FirstLine, Lines!HeaderLine
    <2>2. client.method \in Methods /\ client.path \in Paths /\ client.headers \in Seq(Headers)
      BY <2>1 DEF RequestInv
    <2>3. ASSUME Lines!Fits PROVE \E text, mark : Layout(client, text, mark) /\ Progress(text, mark)'
      <3>1. PICK text, mark : Layout(client, text, mark) /\ Progress(text, mark)
        BY <2>1, <2>3 DEF RequestInv
      <3>2. Progress(text, mark)'
        BY <1>2, <2>3, <3>1, FirstReads, HeaderReads
      <3> QED  BY <3>1, <3>2
    <2>4. Lines!Fits' => Lines!Fits
      BY <2>1 DEF Lines!Fits
    <2> QED  BY <2>1, <2>2, <2>3, <2>4 DEF RequestInv
  <1>3. CASE UNCHANGED Lines!vars
    BY <1>3 DEF Lines!vars, RequestInv, Progress, Lines!Fits, Lines!Room
  <1> QED  BY <1>1, <1>2, <1>3 DEF Lines!Next

LEMMA RequestEnd == ASSUME RequestInv PROVE Lines!RequestRead
  <1> SUFFICES ASSUME Lines!Fits, reading \in {"headers", "ready", "undefined"}
               PROVE  /\ client.cut <= Len(Lines!Body) + 2 =>
                           /\ reading \in {"headers", "ready"} =>
                                Lines!Room(client) /\ request = [method |-> client.method, path |-> client.path]
                           /\ reading = "undefined" => ~Lines!Room(client)
                      /\ reading = "ready" => /\ client.cut <= Len(Lines!Body) + 1
                                              /\ client.cut = 0 => socket = Lines!Body
    BY DEF Lines!RequestRead
  <1>1. PICK text, mark : Progress(text, mark)
    BY DEF RequestInv
  <1>2. Len(Lines!Body) = 2
    BY DEF Lines!Body
  <1> QED  BY <1>1, <1>2 DEF Progress

\* http_serv: whatever the methods, the paths, the headers and the buffers, a
\* request whose lines fit and have arrived is read for the method and path it
\* names if request and url have room for these, and overruns them, with whatever
\* follows, exactly if not; a whole one is read up to its body, and one cut short
\* is answered only when the LF of the empty line is all that is missing
\* (http.c:78-125).
THEOREM RequestsAreRead == Spec => []RequestRead
  <1>1. Init => RequestInv
    BY RequestStart DEF Init
  <1>2. RequestInv /\ [Next]_vars => RequestInv'
    BY Apart, RequestStep
  <1>3. RequestInv => RequestRead
    BY RequestEnd DEF RequestRead
  <1> QED  BY <1>1, <1>2, <1>3, PTL DEF Spec

----------------------------------------------------------------------------
(* jpeg_zip_detector: where the signatures are. *)

Octets   == 0 .. 255
Files    == Seq(Octets)
ZipKinds == (Signs!ZipSigns \ {Signs!CDH}) \cup Signs!Entries

\* A piece without a K: no zip signature begins or goes on in it.
Plain(b) == \A q \in 1 .. Len(b) : b[q] # 75

\* What the proof needs of a piece.
PieceBytes(b) ==
    /\ b \in Files /\ Len(b) \in Nat /\ Len(b) >= 1 /\ b[1] # 75 /\ b[Len(b)] # 255
    /\ b \in Signs!JpegSigns => Len(b) = 2
    /\ \A q \in 1 .. Len(b) - 1 :
         /\ <<b[q], b[q + 1]>> \in Signs!JpegSigns <=> b \in Signs!JpegSigns
         /\ <<b[q], b[q + 1]>> = Signs!EOI <=> b = Signs!EOI
    /\ b \in ZipKinds => Len(b) >= 4 /\ b[1] = 80 /\ b[2] = 75 /\ b[3] # 75 /\ b[4] # 75
    /\ b \notin ZipKinds => Plain(b)
    /\ b \in ZipKinds \ Signs!Entries => Len(b) = 4 /\ <<b[1], b[2], b[3], b[4]>> \in Signs!ZipSigns \ {Signs!CDH}
    /\ b \in Signs!Entries => /\ b[3] = 1 /\ b[4] = 2 /\ b[5] \in Nat /\ b[6] \in Nat
                              /\ Len(b) = 6 + b[5] + 256 * b[6]

LEMMA MarkerIs ==
    ASSUME NEW x, NEW y
    PROVE  /\ <<x, y>> \in Signs!JpegSigns => x = 255 /\ y \in Octets \ {75, 255}
           /\ <<x, y>> = Signs!EOI <=> x = 255 /\ y = 217
  BY DEF Signs!JpegSigns, Signs!EOI, Octets

LEMMA EoiIs == Signs!EOI \in Signs!JpegSigns
  BY DEF Signs!JpegSigns, Signs!EOI

LEMMA MarkerPiece == ASSUME NEW b \in Signs!JpegSigns PROVE PieceBytes(b)
  <1>1. PICK x, y : b = <<x, y>> /\ x = 255 /\ y \in Octets \ {75, 255}
    BY DEF Signs!JpegSigns, Octets
  <1>2. b \in Files /\ Len(b) = 2 /\ b[1] = 255 /\ b[2] = y /\ b = <<b[1], b[2]>>
    BY <1>1 DEF Files, Octets
  <1> HIDE DEF Octets
  <1>3. b \notin ZipKinds
    <2>1. b \notin Signs!Entries
      BY <1>2 DEF Signs!Entries
    <2>2. b \notin Signs!ZipSigns
      BY <1>2 DEF Signs!ZipSigns, Signs!LFH, Signs!CDH
    <2> QED  BY <2>1, <2>2 DEF ZipKinds
  <1>4. Plain(b)
    BY <1>1, <1>2 DEF Plain
  <1>5. \A q \in 1 .. Len(b) - 1 : q = 1
    BY <1>2
  <1>6. \A q \in 1 .. Len(b) - 1 : /\ <<b[q], b[q + 1]>> \in Signs!JpegSigns <=> b \in Signs!JpegSigns
                                   /\ <<b[q], b[q + 1]>> = Signs!EOI <=> b = Signs!EOI
    BY <1>2, <1>5
  <1>7. b \notin Signs!Entries
    BY <1>3 DEF ZipKinds
  <1> QED  BY <1>1, <1>2, <1>3, <1>4, <1>6, <1>7 DEF PieceBytes

\* Bytes without a marker's first are no markers.
LEMMA NoMarkers ==
    ASSUME NEW b, \A q \in 1 .. Len(b) : b[q] # 255, Len(b) \in Nat, Len(b) # 2
    PROVE  /\ b \notin Signs!JpegSigns /\ b # Signs!EOI
           /\ \A q \in 1 .. Len(b) - 1 : /\ <<b[q], b[q + 1]>> \notin Signs!JpegSigns
                                         /\ <<b[q], b[q + 1]>> # Signs!EOI
  <1>1. \A q \in 1 .. Len(b) - 1 : b[q] # 255
    OBVIOUS
  <1>2. b \notin Signs!JpegSigns /\ b # Signs!EOI
    BY DEF Signs!JpegSigns, Signs!EOI
  <1> QED  BY <1>1, <1>2, MarkerIs

LEMMA SignaturePiece == ASSUME NEW b \in Signs!ZipSigns \ {Signs!CDH} PROVE PieceBytes(b)
  <1>1. PICK v, e : b = <<80, 75, v, e>> /\ v \in Octets \ {75, 255} /\ e \in Octets \ {75, 255}
                     /\ (v = 1 => e # 2)
    BY DEF Signs!ZipSigns, Signs!LFH, Signs!CDH, Octets
  <1>2. /\ b \in Files /\ Len(b) = 4 /\ b[1] = 80 /\ b[2] = 75 /\ b[3] = v /\ b[4] = e
        /\ b = <<b[1], b[2], b[3], b[4]>>
    BY <1>1 DEF Files, Octets
  <1>3. \A q \in 1 .. Len(b) : q \in {1, 2, 3, 4}
    BY <1>2
  <1>4. \A q \in 1 .. Len(b) : b[q] # 255
    BY <1>1, <1>2, <1>3
  <1>5. Len(b) \in Nat /\ Len(b) # 2
    BY <1>2
  <1>6. /\ b \notin Signs!JpegSigns /\ b # Signs!EOI
        /\ \A q \in 1 .. Len(b) - 1 : /\ <<b[q], b[q + 1]>> \notin Signs!JpegSigns
                                      /\ <<b[q], b[q + 1]>> # Signs!EOI
    BY <1>4, <1>5, NoMarkers
  <1>7. b \in ZipKinds /\ b \notin Signs!Entries
    <2>1. ~(Len(b) >= 6)
      BY <1>2
    <2>2. b \notin Signs!Entries
      BY <2>1 DEF Signs!Entries
    <2> QED  BY <2>2 DEF ZipKinds
  <1> QED  BY <1>1, <1>2, <1>5, <1>6, <1>7 DEF PieceBytes

LEMMA EntryPiece == ASSUME NEW b \in Signs!Entries, b \in Files PROVE PieceBytes(b)
  <1>1. /\ Len(b) >= 6 /\ Len(b) = 6 + b[5] + 256 * b[6] /\ b[1] = 80 /\ b[2] = 75 /\ b[3] = 1 /\ b[4] = 2
        /\ Len(b) \in Nat /\ DOMAIN b = 1 .. Len(b)
    BY DEF Signs!Entries, Files
  <1>2. \A q \in 1 .. Len(b) : b[q] # 255 /\ b[q] \in Octets
    BY DEF Signs!Entries, Files
  <1>3. /\ b \notin Signs!JpegSigns /\ b # Signs!EOI
        /\ \A q \in 1 .. Len(b) - 1 : /\ <<b[q], b[q + 1]>> \notin Signs!JpegSigns
                                      /\ <<b[q], b[q + 1]>> # Signs!EOI
    <2>1. (\A q \in 1 .. Len(b) : b[q] # 255) /\ Len(b) \in Nat
      BY <1>1, <1>2
    <2>2. Len(b) # 2
      BY <1>1
    <2> QED  BY <2>1, <2>2, NoMarkers
  <1>4. b[5] \in Nat /\ b[6] \in Nat /\ b[Len(b)] # 255
    <2>1. 5 \in 1 .. Len(b) /\ 6 \in 1 .. Len(b) /\ Len(b) \in 1 .. Len(b)
      BY <1>1
    <2>2. \A n \in Octets : n \in Nat
      BY DEF Octets
    <2> QED  BY <1>2, <2>1, <2>2
  <1>5. b \in ZipKinds
    BY DEF ZipKinds
  <1>6. /\ b \in Files /\ Len(b) \in Nat /\ Len(b) >= 1 /\ b[1] # 75 /\ b[Len(b)] # 255 /\ Len(b) >= 4
        /\ b[3] # 75 /\ b[4] # 75
    BY <1>1, <1>4
  <1>7. \A q \in 1 .. Len(b) - 1 :
          /\ <<b[q], b[q + 1]>> \in Signs!JpegSigns <=> b \in Signs!JpegSigns
          /\ <<b[q], b[q + 1]>> = Signs!EOI <=> b = Signs!EOI
    BY <1>3
  <1>8. /\ b \in ZipKinds => Len(b) >= 4 /\ b[1] = 80 /\ b[2] = 75 /\ b[3] # 75 /\ b[4] # 75
        /\ b[3] = 1 /\ b[4] = 2 /\ b[5] \in Nat /\ b[6] \in Nat
        /\ Len(b) = 6 + b[5] + 256 * b[6]
    BY <1>1, <1>4, <1>6
  <1> QED  BY <1>3, <1>5, <1>6, <1>7, <1>8, Zenon DEF PieceBytes

LEMMA StrayPiece == ASSUME NEW b \in Signs!Strays, b \in Files PROVE PieceBytes(b)
  <1>1. Len(b) \in Nat /\ DOMAIN b = 1 .. Len(b) /\ Len(b) >= 1 /\ b[Len(b)] # 255
    BY DEF Signs!Strays, Files
  <1>2. Plain(b) /\ b[1] # 75
    BY <1>1 DEF Signs!Strays, Plain
  <1>3. \A q \in 1 .. Len(b) - 1 : <<b[q], b[q + 1]>> \notin Signs!JpegSigns
    BY DEF Signs!Strays
  <1>4. b \notin Signs!JpegSigns
    <2> SUFFICES ASSUME b \in Signs!JpegSigns PROVE FALSE
      OBVIOUS
    <2>1. Len(b) = 2 /\ b = <<b[1], b[2]>>
      BY DEF Signs!JpegSigns
    <2>2. 1 \in 1 .. Len(b) - 1 /\ 1 + 1 = 2
      BY <2>1
    <2> QED  BY <1>3, <2>1, <2>2
  <1>5. b # Signs!EOI /\ \A q \in 1 .. Len(b) - 1 : <<b[q], b[q + 1]>> # Signs!EOI
    BY <1>3, <1>4, EoiIs
  <1>6. b \notin ZipKinds
    <2>1. b \in ZipKinds => Len(b) >= 2 /\ b[2] = 75
      BY <1>1 DEF ZipKinds, Signs!ZipSigns, Signs!LFH, Signs!CDH, Signs!Entries
    <2>2. Len(b) >= 2 => b[2] # 75
      BY <1>1, <1>2 DEF Plain
    <2> QED  BY <2>1, <2>2
  <1>7. b \notin Signs!Entries
    BY <1>6 DEF ZipKinds
  <1> QED  BY <1>1, <1>2, <1>3, <1>4, <1>5, <1>6, <1>7 DEF PieceBytes

LEMMA PieceIs == ASSUME NEW b \in Pieces PROVE PieceBytes(b)
  <1>1. b \in Files
    BY PieceAssumption DEF Files, Octets
  <1>2. b \in Signs!JpegSigns \/ b \in Signs!ZipSigns \ {Signs!CDH} \/ b \in Signs!Strays \/ b \in Signs!Entries
    BY PieceAssumption DEF Signs!Signatures
  <1> QED  BY <1>1, <1>2, MarkerPiece, SignaturePiece, StrayPiece, EntryPiece

\* How many of the pieces from..to are of some kinds.
CountIn(w, from, to, kinds) == Cardinality({n \in from .. to : w[n] \in kinds})

LEMMA CountMore ==
    ASSUME NEW w, NEW from \in Nat, NEW m \in Nat, from <= m + 1, NEW kinds
    PROVE  /\ CountIn(w, from, m, kinds) \in Nat
           /\ CountIn(w, from, m + 1, kinds) = CountIn(w, from, m, kinds) + (IF w[m + 1] \in kinds THEN 1 ELSE 0)
  <1> DEFINE A == {n \in from .. m : w[n] \in kinds}
             B == {n \in from .. m + 1 : w[n] \in kinds}
  <1>1. IsFiniteSet(A) /\ Cardinality(A) \in Nat
    <2>1. IsFiniteSet(from .. m)
      BY FS_Interval
    <2>2. A \subseteq from .. m
      OBVIOUS
    <2> HIDE DEF A
    <2> QED  BY <2>1, <2>2, FS_Subset, FS_CardinalityType
  <1>2. m + 1 \notin A
    OBVIOUS
  <1>3. B = IF w[m + 1] \in kinds THEN A \cup {m + 1} ELSE A
    <2>1. from .. m + 1 = (from .. m) \cup {m + 1}
      OBVIOUS
    <2> QED  BY <2>1
  <1> HIDE DEF A, B
  <1>4. Cardinality(A \cup {m + 1}) = Cardinality(A) + 1
    BY <1>1, <1>2, FS_AddElement
  <1>5. Cardinality(B) = Cardinality(A) + (IF w[m + 1] \in kinds THEN 1 ELSE 0)
    BY <1>1, <1>3, <1>4
  <1> QED  BY <1>1, <1>5 DEF A, B, CountIn

LEMMA CountNone == ASSUME NEW w, NEW from \in Nat, NEW to \in Int, to < from, NEW kinds PROVE CountIn(w, from, to, kinds) = 0
  <1>1. from .. to = {}
    OBVIOUS
  <1>2. {n \in from .. to : w[n] \in kinds} = {}
    BY <1>1
  <1> QED  BY <1>2, FS_EmptySet DEF CountIn

\* The scan for zip headers begins at piece z: behind the first EOI, or nowhere.
Begins(w, z) ==
    \/ z - 1 \in 1 .. Len(w) /\ w[z - 1] = Signs!EOI /\ \A n \in 1 .. z - 2 : w[n] # Signs!EOI
    \/ z = Len(w) + 1 /\ \A n \in 1 .. Len(w) : w[n] # Signs!EOI

\* Piece n of a file ends behind its first off[n] bytes.
Offsets(off, bytes, w) ==
    /\ off \in [0 .. Len(w) -> Nat] /\ off[0] = 0 /\ off[Len(w)] = Len(bytes)
    /\ \A n \in 1 .. Len(w) :
         /\ off[n] = off[n - 1] + Len(w[n]) /\ off[n] <= Len(bytes)
         /\ \A q \in 1 .. Len(w[n]) : bytes[off[n - 1] + q] = w[n][q]

\* d bytes of the piece behind m others have been read.
PieceAt(w, m) == w[m + 1]

JpegAt(m, d) ==
    /\ \E x, y : /\ sign = <<x, y>>
                 /\ d = 0 => y # 255
                 /\ d # 0 => y = PieceAt(made, m)[d]
    /\ found["jpeg"] = CountIn(made, 1, m, Signs!JpegSigns)
    /\ found["zip"] = 0 /\ files = 0 /\ catalogs = 0
    /\ \A n \in 1 .. m : made[n] # Signs!EOI

ZipCounts(z, m) ==
    /\ z \in 1 .. m + 1 /\ Begins(made, z)
    /\ found["jpeg"] = CountIn(made, 1, z - 1, Signs!JpegSigns)
    /\ found["zip"] = CountIn(made, z, m, ZipKinds)
    /\ files = CountIn(made, z, m, Signs!FileNames)
    /\ catalogs = CountIn(made, z, m, Signs!CatalogNames)
    /\ CountIn(made, z, m, Signs!LongNames) = 0

\* What the register has of the signature that may have begun.
Register(P, d, x, y, v) ==
    /\ d = 0 \/ Plain(P) => y # 75 /\ v # 75
    /\ d # 0 /\ ~Plain(P) =>
         /\ d <= 3
         /\ d = 1 => y # 75 /\ v = P[1]
         /\ d = 2 => y = P[1] /\ v = P[2]
         /\ d = 3 => x = P[1] /\ y = P[2] /\ v = P[3]

ZipSign(m, d) == \E u, x, y, v : sign = <<u, x, y, v>> /\ Register(PieceAt(made, m), d, x, y, v)

Within(off, m, d) ==
    /\ m \in 0 .. Len(made) /\ d \in Nat
    /\ pos = off[m] + d + 1 /\ read = off[m] + d
    /\ m < Len(made) => d < Len(PieceAt(made, m))
    /\ m = Len(made) => d = 0

ScanAt(off, z, m, d) ==
    /\ Offsets(off, file, made) /\ Within(off, m, d)
    /\ scan = "jpeg" => JpegAt(m, d)
    /\ scan = "zip" => ZipCounts(z, m) /\ ZipSign(m, d)
    /\ scan = "done" => ZipCounts(z, m) /\ m = Len(made)

\* A name that is too long has been met.
Overrun == \E z \in Nat : /\ Begins(made, z)
                          /\ \E n \in z .. Len(made) : made[n] \in Signs!LongNames

ScanInv ==
    /\ scan \in {"start", "jpeg", "zip", "done", "undefined"}
    /\ found \in [{"jpeg", "zip"} -> Nat]
    /\ scan = "start" => pos = 1 /\ read = 0 /\ sign = <<0, 0>> /\ found["jpeg"] = 0 /\ found["zip"] = 0
                         /\ files = 0 /\ catalogs = 0
    /\ scan # "start" /\ cut = 0 =>
         /\ made \in Seq(Pieces)
         /\ scan = "undefined" => Overrun
         /\ scan # "undefined" => \E off, z, m, d : ScanAt(off, z, m, d)

LEMMA ScanStart == ASSUME Signs!Init PROVE ScanInv
  BY DEF Signs!Init, ScanInv

\* The pieces of a file, flattened.
LEMMA FileIs ==
    ASSUME NEW N \in Nat, NEW w \in [1 .. N -> Pieces], NEW bytes, bytes = Signs!FlattenSeq(w)
    PROVE  bytes \in Files /\ Len(w) = N /\ \E off : Offsets(off, bytes, w)
  <1>0. Len(w) = N /\ DOMAIN w = 1 .. N
    OBVIOUS
  <1>1. \A n \in 1 .. N : w[n] \in Seq(Octets)
    BY PieceIs DEF PieceBytes, Files
  <1>2. w \in Seq(Seq(Octets))
    BY <1>0, <1>1
  <1>3. PICK F \in [1 .. Len(w) -> Seq(Octets)] : Flattens(F, w)
    BY <1>2, FlatExists
  <1> DEFINE G == CHOOSE g : Flattens(g, w)
  <1>4. Flattens(G, w)
    BY <1>3
  <1>5. bytes = IF Len(w) = 0 THEN w ELSE G[Len(w)]
    BY DEF Signs!FlattenSeq, Flattens
  <1> HIDE DEF G
  <1>6. bytes \in Seq(Octets) /\ \E off : Placed(bytes, w, Len(w), off)
    BY <1>2, <1>4, <1>5, FlatPlaces
  <1>7. PICK off : Placed(bytes, w, N, off)
    BY <1>0, <1>6
  <1>8. Offsets(off, bytes, w)
    BY <1>0, <1>7 DEF Offsets, Placed
  <1> QED  BY <1>0, <1>6, <1>8 DEF Files

LEMMA WholeFile == ASSUME NEW s \in Files PROVE SubSeq(s, 1, Len(s) - 0) = s /\ Len(s) \in Nat
  BY DEF Files

LEMMA ScanOpen == ASSUME ScanInv, Signs!Open PROVE ScanInv'
  <1>1. /\ scan = "start" /\ scan' = "jpeg" /\ pos' = pos /\ read' = read /\ sign' = sign /\ found' = found
        /\ files' = files /\ catalogs' = catalogs
    BY DEF Signs!Open
  <1>2. PICK N \in 0 .. MaxPieces : made' \in [1 .. N -> Pieces]
    BY DEF Signs!Open
  <1>3. N \in Nat /\ made' \in [1 .. N -> Pieces]
    <2>1. N \in Nat
      BY PieceAssumption
    <2> QED  BY <1>2, <2>1
  <1> DEFINE bytes == Signs!FlattenSeq(made')
  <1>4. ASSUME cut' = 0
        PROVE  made' \in Seq(Pieces) /\ \E off, z, m, d : ScanAt(off, z, m, d)'
    <2>1. file' = SubSeq(bytes, 1, Len(bytes) - 0)
      BY <1>4 DEF Signs!Open
    <2>2. bytes \in Files /\ Len(made') = N /\ \E off : Offsets(off, bytes, made')
      BY <1>3, FileIs
    <2> HIDE DEF bytes
    <2>3. file' = bytes /\ Len(bytes) \in Nat
      BY <2>1, <2>2, WholeFile
    <2>4. PICK off : Offsets(off, file', made')
      BY <2>2, <2>3
    <2>5. made' \in Seq(Pieces)
      BY <1>3
    <2>6. off[0] = 0
      BY <2>4 DEF Offsets
    <2>7. N > 0 => 0 < Len(PieceAt(made', 0))
      <3> SUFFICES ASSUME N > 0 PROVE 0 < Len(PieceAt(made', 0))
        OBVIOUS
      <3>1. 0 + 1 \in 1 .. N
        BY <1>3
      <3>2. made'[0 + 1] \in Pieces
        BY <1>3, <3>1
      <3>3. PieceBytes(made'[0 + 1])
        BY <3>2, PieceIs
      <3> QED  BY <3>3 DEF PieceAt, PieceBytes
    <2>8. Within(off, 0, 0)'
      <3>1. /\ 0 \in 0 .. Len(made') /\ 0 \in Nat
            /\ 0 < Len(made') => 0 < Len(PieceAt(made', 0))
        BY <1>3, <2>2, <2>7
      <3>2. pos' = off[0] + 0 + 1 /\ read' = off[0] + 0
        BY <1>1, <2>6 DEF ScanInv
      <3> QED  BY <3>1, <3>2 DEF Within
    <2>9. JpegAt(0, 0)'
      <3>1. 1 .. 0 = {} /\ 0 # 255 /\ CountIn(made', 1, 0, Signs!JpegSigns) = 0
        BY CountNone
      <3>2. sign' = <<0, 0>> /\ found'["jpeg"] = 0 /\ found'["zip"] = 0 /\ files' = 0 /\ catalogs' = 0
        BY <1>1 DEF ScanInv
      <3> QED  BY <3>1, <3>2 DEF JpegAt
    <2>10. ScanAt(off, 1, 0, 0)'
      BY <1>1, <2>4, <2>8, <2>9 DEF ScanAt
    <2> QED  BY <2>5, <2>10
  <1> QED  BY <1>1, <1>4 DEF ScanInv

\* What the next byte is.
LEMMA NextByte ==
    ASSUME made \in Seq(Pieces), NEW off, NEW m, NEW d, Offsets(off, file, made), Within(off, m, d)
    PROVE  /\ Signs!Eof <=> m = Len(made)
           /\ m < Len(made) =>
                LET P == PieceAt(made, m)
                IN  /\ file[pos] = P[d + 1] /\ PieceBytes(P) /\ P \in Pieces
                    /\ Len(P) \in Nat /\ d + 1 <= Len(P)
                    /\ off[m + 1] = off[m] + Len(P) /\ off[m] \in Nat /\ off[m + 1] <= Len(file)
                    /\ \A q \in 1 .. Len(P) : file[off[m] + q] = P[q]
           /\ Len(made) \in Nat /\ Len(file) \in Nat /\ m \in Nat /\ off[Len(made)] = Len(file)
  <1> DEFINE P == PieceAt(made, m)
             N == Len(made)
  <1>1. N \in Nat /\ m \in 0 .. N /\ d \in Nat /\ pos = off[m] + d + 1 /\ (m < N => d < Len(P)) /\ (m = N => d = 0)
    BY DEF Within
  <1>2. /\ off \in [0 .. N -> Nat] /\ off[N] = Len(file)
        /\ \A n \in 1 .. N :
             /\ off[n] = off[n - 1] + Len(made[n]) /\ off[n] <= Len(file)
             /\ \A q \in 1 .. Len(made[n]) : file[off[n - 1] + q] = made[n][q]
    BY DEF Offsets
  <1>3. off[m] \in Nat /\ Len(file) \in Nat
    BY <1>1, <1>2
  <1>4. ASSUME m < N
        PROVE  /\ file[pos] = P[d + 1] /\ PieceBytes(P) /\ P \in Pieces
               /\ Len(P) \in Nat /\ d + 1 <= Len(P)
               /\ off[m + 1] = off[m] + Len(P) /\ off[m] \in Nat /\ off[m + 1] <= Len(file)
               /\ \A q \in 1 .. Len(P) : file[off[m] + q] = P[q]
    <2>1. m + 1 \in 1 .. N /\ (m + 1) - 1 = m
      BY <1>1, <1>4
    <2>2. made[m + 1] \in Pieces
      BY <2>1
    <2>3. P \in Pieces /\ PieceBytes(P) /\ Len(P) \in Nat
      BY <2>2, PieceIs DEF PieceAt, PieceBytes
    <2>4. /\ off[m + 1] = off[m] + Len(P) /\ off[m + 1] <= Len(file)
          /\ \A q \in 1 .. Len(P) : file[off[m] + q] = P[q]
      BY <1>2, <2>1 DEF PieceAt
    <2> HIDE DEF P
    <2>5. d + 1 <= Len(P) /\ d + 1 \in 1 .. Len(P) /\ pos = off[m] + (d + 1)
      BY <1>1, <1>3, <1>4, <2>3
    <2> QED  BY <1>3, <2>2, <2>3, <2>4, <2>5
  <1> HIDE DEF P
  <1>5. Signs!Eof <=> m = N
    <2>1. CASE m = N
      BY <1>1, <1>2, <1>3, <2>1 DEF Signs!Eof
    <2>2. CASE m < N
      <3>1. pos <= Len(file)
        BY <1>1, <1>3, <1>4, <2>2
      <3>2. pos \in Nat /\ m # N
        BY <1>1, <1>3, <2>2
      <3> QED  BY <1>3, <3>1, <3>2 DEF Signs!Eof
    <2> QED  BY <1>1, <2>1, <2>2
  <1> QED  BY <1>1, <1>2, <1>3, <1>4, <1>5 DEF P

\* A byte more in a register.
LEMMA ShiftedTwo == ASSUME NEW x, NEW y, NEW e PROVE Append(Tail(<<x, y>>), e) = <<y, e>>
  <1> DEFINE S == {x, y, e}
             one == <<y>>
             t == <<y, e>>
             a == Append(one, e)
  <1>1. Tail(<<x, y>>) = one
    OBVIOUS
  <1>2. one \in Seq(S) /\ Len(one) = 1 /\ one[1] = y /\ e \in S
    OBVIOUS
  <1>3. t \in Seq(S) /\ Len(t) = 2 /\ t[1] = y /\ t[2] = e
    OBVIOUS
  <1> HIDE DEF S, one, t
  <1>a. one \in Seq(S) /\ e \in S
    BY <1>2
  <1>4. /\ a \in Seq(S) /\ Len(a) = Len(one) + 1 /\ a[Len(one) + 1] = e
        /\ \A q \in 1 .. Len(one) : a[q] = one[q]
    BY <1>a, AppendProperties
  <1> HIDE DEF a
  <1>5. Len(a) = 2 /\ \A q \in 1 .. 2 : a[q] = t[q]
    BY <1>2, <1>3, <1>4
  <1>6. a = t
    BY <1>3, <1>4, <1>5, SeqEqual
  <1> QED  BY <1>1, <1>6 DEF a, t

LEMMA ShiftedFour ==
    ASSUME NEW u, NEW x, NEW y, NEW v, NEW e PROVE Append(Tail(<<u, x, y, v>>), e) = <<x, y, v, e>>
  <1> DEFINE S == {x, y, v, e}
             s == <<x, y, v>>
             t == <<x, y, v, e>>
             a == Append(s, e)
  <1>1. Tail(<<u, x, y, v>>) = s
    OBVIOUS
  <1>2. s \in Seq(S) /\ Len(s) = 3 /\ s[1] = x /\ s[2] = y /\ s[3] = v /\ e \in S
    OBVIOUS
  <1>3. t \in Seq(S) /\ Len(t) = 4 /\ t[1] = x /\ t[2] = y /\ t[3] = v /\ t[4] = e
    OBVIOUS
  <1> HIDE DEF S, s, t
  <1>a. s \in Seq(S) /\ e \in S
    BY <1>2
  <1>4. /\ a \in Seq(S) /\ Len(a) = Len(s) + 1 /\ a[Len(s) + 1] = e
        /\ \A q \in 1 .. Len(s) : a[q] = s[q]
    BY <1>a, AppendProperties
  <1> HIDE DEF a
  <1>5. Len(a) = 4 /\ \A q \in 1 .. 4 : a[q] = t[q]
    <2>1. Len(a) = 4 /\ a[1] = x /\ a[2] = y /\ a[3] = v /\ a[4] = e
      BY <1>2, <1>4
    <2>2. \A q \in 1 .. 4 : q \in {1, 2, 3, 4}
      OBVIOUS
    <2> QED  BY <1>3, <2>1, <2>2
  <1>6. a = t
    BY <1>3, <1>4, <1>5, SeqEqual
  <1> QED  BY <1>1, <1>6 DEF a, t

\* From byte to byte, and to the end of a piece.
LEMMA WithinPiece ==
    ASSUME made \in Seq(Pieces), NEW off, NEW m, NEW d, Within(off, m, d), m < Len(made),
           off[m] \in Nat, made' = made, pos' = pos + 1, read' = read + 1, d + 1 < Len(PieceAt(made, m))
    PROVE  Within(off, m, d + 1)'
  <1>1. /\ m \in 0 .. Len(made) /\ d \in Nat /\ pos = off[m] + d + 1 /\ read = off[m] + d /\ Len(made) \in Nat
    BY DEF Within
  <1>2. pos' = off[m] + (d + 1) + 1 /\ read' = off[m] + (d + 1) /\ d + 1 \in Nat /\ m # Len(made)
    BY <1>1, SMTT(30)
  <1> QED  BY <1>1, <1>2 DEF Within

LEMMA WithinNext ==
    ASSUME made \in Seq(Pieces), NEW off, NEW m \in Nat, m < Len(made), off[m + 1] \in Nat, made' = made,
           pos' = off[m + 1] + 1, read' = off[m + 1]
    PROVE  Within(off, m + 1, 0)'
  <1>1. m + 1 \in 0 .. Len(made) /\ Len(made) \in Nat
    OBVIOUS
  <1>2. ASSUME m + 1 < Len(made) PROVE 0 < Len(PieceAt(made, m + 1))
    <2>1. (m + 1) + 1 \in 1 .. Len(made)
      BY <1>1, <1>2
    <2>2. made[(m + 1) + 1] \in Pieces
      BY <2>1
    <2>3. PieceBytes(made[(m + 1) + 1])
      BY <2>2, PieceIs
    <2> QED  BY <2>3 DEF PieceAt, PieceBytes
  <1>3. pos' = off[m + 1] + 0 + 1 /\ read' = off[m + 1] + 0
    OBVIOUS
  <1> QED  BY <1>1, <1>2, <1>3 DEF Within

\* A byte of the first loop.
LEMMA JpegReads ==
    ASSUME made \in Seq(Pieces), found \in [{"jpeg", "zip"} -> Nat], Signs!JpegByte,
           NEW off, NEW z, NEW m, NEW d, ScanAt(off, z, m, d)
    PROVE  \E z2, m2, d2 : ScanAt(off, z2, m2, d2)'
  <1> DEFINE P == PieceAt(made, m)
             e == P[d + 1]
             N == Len(made)
  <1>1. /\ scan = "jpeg" /\ ~Signs!Eof /\ pos' = pos + 1 /\ read' = read + 1
        /\ file' = file /\ made' = made /\ files' = files /\ catalogs' = catalogs
        /\ found' = [found EXCEPT !["jpeg"] = @ + (IF Signs!Shift(sign) \in Signs!JpegSigns THEN 1 ELSE 0)]
        /\ IF Signs!Shift(sign) = Signs!EOI THEN scan' = "zip" /\ sign' = <<0, 0, 0, 0>>
                                              ELSE sign' = Signs!Shift(sign) /\ scan' = scan
    BY DEF Signs!JpegByte
  <1>2. Offsets(off, file, made) /\ Within(off, m, d) /\ JpegAt(m, d)
    BY <1>1 DEF ScanAt
  <1>3. /\ m < N /\ m \in Nat /\ N \in Nat /\ file[pos] = e /\ PieceBytes(P) /\ P \in Pieces
        /\ Len(P) \in Nat /\ d + 1 <= Len(P) /\ off[m + 1] = off[m] + Len(P) /\ off[m] \in Nat
    <2>1. m # N
      BY <1>1, <1>2, NextByte
    <2>2. m < N
      BY <1>2, <2>1 DEF Within
    <2> QED  BY <1>2, <2>2, NextByte
  <1>4. d \in Nat /\ pos = off[m] + d + 1 /\ read = off[m] + d
    BY <1>2 DEF Within
  <1>5. PICK x, y : sign = <<x, y>> /\ (d = 0 => y # 255) /\ (d # 0 => y = P[d])
    BY <1>2 DEF JpegAt
  <1>6. /\ found["jpeg"] = CountIn(made, 1, m, Signs!JpegSigns)
        /\ found["zip"] = 0 /\ files = 0 /\ catalogs = 0
        /\ \A n \in 1 .. m : made[n] # Signs!EOI
    BY <1>2 DEF JpegAt
  <1>a. P = made[m + 1]
    BY DEF PieceAt
  <1> HIDE DEF P, N
  <1>7. Signs!Shift(sign) = <<y, e>>
    BY <1>3, <1>5, ShiftedTwo DEF Signs!Shift
  <1>b. (P = Signs!EOI => P \in Signs!JpegSigns) /\ (P \in Signs!JpegSigns => Len(P) = 2)
    BY <1>3, EoiIs DEF PieceBytes
  <1>8. /\ <<y, e>> = Signs!EOI <=> d # 0 /\ P = Signs!EOI
        /\ <<y, e>> \in Signs!JpegSigns <=> d # 0 /\ P \in Signs!JpegSigns
    <2>1. CASE d = 0
      BY <1>5, <2>1, MarkerIs
    <2>2. CASE d # 0
      <3>1. d \in 1 .. Len(P) - 1
        BY <1>3, <1>4, <2>2
      <3>2. y = P[d]
        BY <1>5, <2>2
      <3> QED  BY <1>3, <2>2, <3>1, <3>2 DEF PieceBytes
    <2> QED  BY <2>1, <2>2
  <1>9. CountIn(made, 1, m, Signs!JpegSigns) \in Nat
        /\ CountIn(made, 1, m + 1, Signs!JpegSigns)
             = CountIn(made, 1, m, Signs!JpegSigns) + (IF P \in Signs!JpegSigns THEN 1 ELSE 0)
    <2>1. 1 \in Nat /\ 1 <= m + 1
      BY <1>3
    <2> QED  BY <1>3, <1>a, <2>1, CountMore
  <1>10. /\ found'["jpeg"] = found["jpeg"] + (IF d # 0 /\ P \in Signs!JpegSigns THEN 1 ELSE 0)
         /\ found'["zip"] = 0
    BY <1>1, <1>6, <1>7, <1>8
  <1>11. Offsets(off, file, made)'
    BY <1>1, <1>2
  <1>13. Len(P) >= 1 /\ P[Len(P)] # 255
    BY <1>3 DEF PieceBytes
  <1>14. ASSUME d + 1 = Len(P) PROVE Within(off, m + 1, 0)'
    <2>1. pos' = off[m + 1] + 1 /\ read' = off[m + 1] /\ off[m + 1] \in Nat
      <3> DEFINE from == off[m]
                 next == off[m + 1]
      <3>1. next = from + (d + 1) /\ from \in Nat
        BY <1>3, <1>14
      <3>2. pos' = pos + 1 /\ read' = read + 1 /\ pos = from + d + 1 /\ read = from + d /\ d \in Nat
        BY <1>1, <1>4
      <3> HIDE DEF from, next
      <3>3. pos' = next + 1 /\ read' = next /\ next \in Nat
        BY <3>1, <3>2
      <3> QED  BY <3>3 DEF next
    <2> QED  BY <1>1, <1>3, <2>1, WithinNext DEF N
  <1>c. d # 0 /\ P \in Signs!JpegSigns => d + 1 = Len(P)
    <2> DEFINE n == Len(P)
    <2>1. (P \in Signs!JpegSigns => n = 2) /\ d + 1 <= n
      BY <1>3, <1>b
    <2> HIDE DEF n
    <2>2. d # 0 /\ P \in Signs!JpegSigns => d + 1 = n
      BY <1>4, <2>1
    <2> QED  BY <2>2 DEF n
  <1>d. P \in Signs!JpegSigns /\ d + 1 = Len(P) => d # 0
    <2> DEFINE n == Len(P)
    <2>1. P \in Signs!JpegSigns => n = 2
      BY <1>b
    <2> HIDE DEF n
    <2>2. P \in Signs!JpegSigns /\ d + 1 = n => d # 0
      BY <1>4, <2>1
    <2> QED  BY <2>2 DEF n
  \* The EOI.
  <1>15. CASE d # 0 /\ P = Signs!EOI
    <2>1. d + 1 = Len(P) /\ scan' = "zip" /\ sign' = <<0, 0, 0, 0>> /\ P \in Signs!JpegSigns
      BY <1>1, <1>7, <1>8, <1>b, <1>c, <1>15
    <2>2. ZipCounts(m + 2, m + 1)'
      <3>1. m + 2 \in 1 .. (m + 1) + 1 /\ (m + 2) - 1 = m + 1 /\ (m + 2) - 2 = m /\ m + 1 \in 1 .. N
            /\ m + 2 \in Nat /\ m + 1 \in Int /\ m + 1 < m + 2
        BY <1>3
      <3>2. Begins(made, m + 2)
        BY <1>6, <1>15, <1>a, <3>1 DEF Begins, N
      <3>3. found'["jpeg"] = CountIn(made, 1, m + 1, Signs!JpegSigns)
        BY <1>6, <1>9, <1>10, <1>15, <2>1
      <3>4. \A kinds : CountIn(made, m + 2, m + 1, kinds) = 0
        BY <3>1, CountNone
      <3> QED  BY <1>1, <1>6, <1>10, <3>1, <3>2, <3>3, <3>4 DEF ZipCounts
    <2>3. ZipSign(m + 1, 0)'
      <3>1. Register(PieceAt(made', m + 1), 0, 0, 0, 0)
        BY DEF Register
      <3> QED  BY <2>1, <3>1 DEF ZipSign
    <2>4. ScanAt(off, m + 2, m + 1, 0)'
      BY <1>11, <1>14, <2>1, <2>2, <2>3 DEF ScanAt
    <2> QED  BY <2>4
  \* Any other byte, and the last one of a piece.
  <1>16. CASE ~(d # 0 /\ P = Signs!EOI) /\ d + 1 < Len(P)
    <2>1. scan' = "jpeg" /\ sign' = <<y, e>> /\ ~(d # 0 /\ P \in Signs!JpegSigns)
      <3>1. d + 1 # Len(P)
        BY <1>3, <1>4, <1>16
      <3> QED  BY <1>1, <1>7, <1>8, <1>16, <1>c, <3>1
    <2>2. Within(off, m, d + 1)'
      BY <1>1, <1>2, <1>3, <1>16, WithinPiece DEF P, N
    <2>5. JpegAt(m, d + 1)'
      <3>1. \E a, b : /\ sign' = <<a, b>> /\ (d + 1 = 0 => b # 255) /\ (d + 1 # 0 => b = PieceAt(made', m)[d + 1])
        <4>1. d + 1 # 0
          BY <1>4
        <4> QED  BY <1>1, <2>1, <4>1 DEF P
      <3>2. found'["jpeg"] = CountIn(made', 1, m, Signs!JpegSigns)
        BY <1>1, <1>6, <1>9, <1>10, <2>1
      <3> QED  BY <1>1, <1>6, <1>10, <3>1, <3>2 DEF JpegAt
    <2>6. ScanAt(off, z, m, d + 1)'
      BY <1>11, <2>1, <2>2, <2>5 DEF ScanAt
    <2> QED  BY <2>6
  <1>17. CASE ~(d # 0 /\ P = Signs!EOI) /\ d + 1 = Len(P)
    <2>1. scan' = "jpeg" /\ sign' = <<y, e>> /\ (d # 0 /\ P \in Signs!JpegSigns <=> P \in Signs!JpegSigns)
      BY <1>1, <1>7, <1>8, <1>17, <1>d
    <2>2. P # Signs!EOI
      BY <1>17, <1>b, <1>d
    <2>3. JpegAt(m + 1, 0)'
      <3>1. e # 255
        BY <1>13, <1>17
      <3>2. found'["jpeg"] = CountIn(made', 1, m + 1, Signs!JpegSigns)
        BY <1>1, <1>6, <1>9, <1>10, <2>1
      <3>3. \A n \in 1 .. m + 1 : made'[n] # Signs!EOI
        <4>1. \A n \in 1 .. m + 1 : n \in 1 .. m \/ n = m + 1
          BY <1>3
        <4> QED  BY <1>1, <1>6, <1>a, <2>2, <4>1
      <3>4. \E a, b : sign' = <<a, b>> /\ b # 255
        BY <2>1, <3>1
      <3> QED  BY <1>1, <1>6, <1>10, <3>2, <3>3, <3>4 DEF JpegAt
    <2>4. ScanAt(off, z, m + 1, 0)'
      BY <1>11, <1>14, <1>17, <2>1, <2>3 DEF ScanAt
    <2> QED  BY <2>4
  <1>18. d + 1 < Len(P) \/ d + 1 = Len(P)
    BY <1>3, <1>4
  <1> QED  BY <1>15, <1>16, <1>17, <1>18

Follows(P, d, e) == d \in Nat /\ d + 1 <= Len(P) /\ e = P[d + 1]

\* The register with one byte more of a piece.
LEMMA RegisterShifts ==
    ASSUME NEW P, PieceBytes(P), NEW d, NEW x, NEW y, NEW v, NEW e,
           Register(P, d, x, y, v), Follows(P, d, e)
    PROVE  /\ Plain(P) \/ d < 3 => Register(P, d + 1, y, v, e) /\ <<x, y, v, e>> \notin Signs!ZipSigns
           /\ Plain(P) => P \notin ZipKinds /\ v # 75 /\ e # 75
           /\ ~Plain(P) => P \in ZipKinds /\ d <= 3 /\ Len(P) >= 4
           /\ ~Plain(P) /\ d = 3 => v # 75 /\ e # 75 /\ <<x, y, v, e>> \in Signs!ZipSigns
           /\ ~Plain(P) /\ d = 3 /\ P \in Signs!Entries => <<x, y, v, e>> = Signs!CDH
           /\ ~Plain(P) /\ d = 3 /\ P \notin Signs!Entries => Len(P) = 4 /\ <<x, y, v, e>> # Signs!CDH
           /\ <<x, y, v, e>> = Signs!CDH => d = 3 /\ P \in Signs!Entries
  <1> DEFINE s == <<x, y, v, e>>
  <1>0. d \in Nat /\ d + 1 <= Len(P) /\ e = P[d + 1]
    BY DEF Follows
  <1>1. Len(P) \in Nat /\ Len(P) >= 1 /\ P[1] # 75
    BY DEF PieceBytes
  <1>2. s \in Signs!ZipSigns => x = 80 /\ y = 75
    BY DEF Signs!ZipSigns, Signs!CDH, Signs!LFH
  <1>3. Signs!CDH \in Signs!ZipSigns /\ Signs!CDH = <<80, 75, 1, 2>>
    BY DEF Signs!ZipSigns, Signs!CDH
  <1>4. CASE Plain(P)
    <2>1. y # 75 /\ v # 75 /\ e # 75
      <3>1. d + 1 \in 1 .. Len(P)
        BY <1>0, <1>1
      <3> QED  BY <1>0, <1>4, <3>1 DEF Plain, Register
    <2>2. P \notin ZipKinds
      <3>1. P \in ZipKinds => Len(P) >= 2 /\ P[2] = 75
        BY <1>1 DEF PieceBytes
      <3>2. Len(P) >= 2 => P[2] # 75
        BY <1>1, <1>4 DEF Plain
      <3> QED  BY <3>1, <3>2
    <2>3. Register(P, d + 1, y, v, e)
      BY <1>4, <2>1 DEF Register
    <2> QED  BY <1>2, <1>3, <1>4, <2>1, <2>2, <2>3
  <1>5. CASE ~Plain(P) /\ d < 3
    <2>1. y # 75
      <3>1. d \in {0, 1, 2}
        BY <1>0, <1>5
      <3> QED  BY <1>1, <1>5, <3>1 DEF Register
    <2>2. s \notin Signs!ZipSigns /\ s # Signs!CDH
      BY <1>2, <1>3, <2>1
    <2>3. Register(P, d + 1, y, v, e)
      BY <1>0, <1>5 DEF Register
    <2>4. P \in ZipKinds /\ Len(P) >= 4
      BY <1>5 DEF PieceBytes
    <2>5. d # 3 /\ d <= 3
      BY <1>0, <1>5
    <2> QED  BY <1>5, <2>2, <2>3, <2>4, <2>5
  <1>6. CASE ~Plain(P) /\ ~(d < 3)
    <2>1. d = 3 /\ x = P[1] /\ y = P[2] /\ v = P[3] /\ e = P[4]
      BY <1>0, <1>6 DEF Register
    <2>2. P \in ZipKinds /\ Len(P) >= 4 /\ P[1] = 80 /\ P[2] = 75 /\ v # 75 /\ e # 75
      BY <1>6, <2>1 DEF PieceBytes
    <2>3. P \in Signs!Entries => s = Signs!CDH
      <3>1. P \in Signs!Entries => P[3] = 1 /\ P[4] = 2
        BY DEF PieceBytes
      <3> QED  BY <1>3, <2>1, <2>2, <3>1
    <2>4. P \notin Signs!Entries => Len(P) = 4 /\ s \in Signs!ZipSigns \ {Signs!CDH}
      <3>1. P \notin Signs!Entries => Len(P) = 4 /\ <<P[1], P[2], P[3], P[4]>> \in Signs!ZipSigns \ {Signs!CDH}
        BY <2>2 DEF PieceBytes
      <3> QED  BY <2>1, <3>1
    <2> QED  BY <1>3, <1>6, <2>1, <2>2, <2>3, <2>4
  <1> QED  BY <1>4, <1>5, <1>6

\* What the counters gain at the end of a piece.
LEMMA CountsGain ==
    ASSUME NEW z, NEW m \in Nat, ZipCounts(z, m), made' = made, found' \in [{"jpeg", "zip"} -> Nat],
           found'["jpeg"] = found["jpeg"],
           found'["zip"] = found["zip"] + (IF made[m + 1] \in ZipKinds THEN 1 ELSE 0),
           files' = files + (IF made[m + 1] \in Signs!FileNames THEN 1 ELSE 0),
           catalogs' = catalogs + (IF made[m + 1] \in Signs!CatalogNames THEN 1 ELSE 0),
           made[m + 1] \notin Signs!LongNames
    PROVE  ZipCounts(z, m + 1)'
  <1>1. /\ z \in 1 .. m + 1 /\ Begins(made, z)
        /\ found["jpeg"] = CountIn(made, 1, z - 1, Signs!JpegSigns)
        /\ found["zip"] = CountIn(made, z, m, ZipKinds)
        /\ files = CountIn(made, z, m, Signs!FileNames)
        /\ catalogs = CountIn(made, z, m, Signs!CatalogNames)
        /\ CountIn(made, z, m, Signs!LongNames) = 0
    BY DEF ZipCounts
  <1>2. z \in Nat /\ z <= m + 1 /\ z \in 1 .. (m + 1) + 1
    BY <1>1
  <1>3. \A kinds : CountIn(made, z, m + 1, kinds)
                     = CountIn(made, z, m, kinds) + (IF made[m + 1] \in kinds THEN 1 ELSE 0)
    BY <1>2, CountMore
  <1>4. CountIn(made, z, m + 1, Signs!LongNames) = 0
    BY <1>1, <1>3
  <1>5. /\ CountIn(made, z, m + 1, ZipKinds) = found'["zip"]
        /\ CountIn(made, z, m + 1, Signs!FileNames) = files'
        /\ CountIn(made, z, m + 1, Signs!CatalogNames) = catalogs'
    BY <1>1, <1>3
  <1> QED  BY <1>1, <1>2, <1>4, <1>5 DEF ZipCounts

\* From the last byte of a piece to the next piece.
LEMMA LastByte ==
    ASSUME made \in Seq(Pieces), NEW off, NEW m \in Nat, NEW d \in Nat, Within(off, m, d), m < Len(made),
           off[m] \in Nat, off[m + 1] = off[m] + (d + 1), made' = made, pos' = pos + 1, read' = read + 1
    PROVE  Within(off, m + 1, 0)'
  <1> DEFINE from == off[m]
             next == off[m + 1]
  <1>1. from \in Nat /\ next = from + (d + 1) /\ pos = from + d + 1 /\ read = from + d
    BY DEF Within
  <1> HIDE DEF from, next
  <1>2. pos' = next + 1 /\ read' = next /\ next \in Nat
    BY <1>1
  <1> QED  BY <1>2, WithinNext DEF next

\* The names are of entries, and no other piece has one.
LEMMA NamesAre ==
    ASSUME NEW b
    PROVE  /\ b \notin Signs!Entries => b \notin Signs!FileNames /\ b \notin Signs!CatalogNames /\ b \notin Signs!LongNames
           /\ b \in Signs!Entries => /\ b \in ZipKinds
                                     /\ b \in Signs!FileNames <=> Len(b) > 6 /\ b[Len(b)] # 47
                                     /\ b \in Signs!CatalogNames <=> Len(b) > 6 /\ b[Len(b)] = 47
                                     /\ b \in Signs!LongNames <=> Len(b) > 6 + BUFF_LEN
  BY DEF Signs!FileNames, Signs!CatalogNames, Signs!LongNames, ZipKinds

LEMMA CountsAre ==
    ASSUME NEW z, NEW m \in Nat, ZipCounts(z, m)
    PROVE  files \in Nat /\ catalogs \in Nat
  <1>1. z \in Nat /\ z <= m + 1 /\ files = CountIn(made, z, m, Signs!FileNames)
        /\ catalogs = CountIn(made, z, m, Signs!CatalogNames)
    BY DEF ZipCounts
  <1> QED  BY <1>1, CountMore

\* A byte of the second loop that ends no central directory signature.
LEMMA ZipReads ==
    ASSUME made \in Seq(Pieces), found \in [{"jpeg", "zip"} -> Nat], Signs!ZipByte,
           NEW off, NEW z, NEW m, NEW d, ScanAt(off, z, m, d)
    PROVE  \E z2, m2, d2 : ScanAt(off, z2, m2, d2)'
  <1> DEFINE P == PieceAt(made, m)
             e == P[d + 1]
             N == Len(made)
  <1>1. /\ scan = "zip" /\ scan' = "zip" /\ ~Signs!Eof /\ pos' = pos + 1 /\ read' = read + 1
        /\ Signs!Shift(sign) # Signs!CDH /\ sign' = Signs!Shift(sign)
        /\ file' = file /\ made' = made /\ files' = files /\ catalogs' = catalogs
        /\ found' = [found EXCEPT !["zip"] = @ + (IF sign' \in Signs!ZipSigns THEN 1 ELSE 0)]
    BY DEF Signs!ZipByte
  <1>2. Offsets(off, file, made) /\ Within(off, m, d) /\ ZipCounts(z, m) /\ ZipSign(m, d)
    BY <1>1 DEF ScanAt
  <1>3. /\ m < N /\ m \in Nat /\ N \in Nat /\ file[pos] = e /\ PieceBytes(P) /\ P \in Pieces
        /\ Len(P) \in Nat /\ d + 1 <= Len(P) /\ off[m + 1] = off[m] + Len(P) /\ off[m] \in Nat
    <2>1. m # N
      BY <1>1, <1>2, NextByte
    <2>2. m < N
      BY <1>2, <2>1 DEF Within
    <2> QED  BY <1>2, <2>2, NextByte
  <1>4. d \in Nat
    BY <1>2 DEF Within
  <1>5. PICK u, x, y, v : sign = <<u, x, y, v>> /\ Register(P, d, x, y, v)
    BY <1>2 DEF ZipSign
  <1>a. Follows(P, d, e) /\ P = made[m + 1]
    BY <1>3, <1>4 DEF Follows, PieceAt
  <1>b. files \in Nat /\ catalogs \in Nat
    BY <1>2, <1>3, CountsAre
  <1> HIDE DEF P, N, e
  <1>6. Signs!Shift(sign) = <<x, y, v, e>>
    BY <1>3, <1>5, ShiftedFour DEF Signs!Shift
  <1>7. /\ Plain(P) \/ d < 3 => Register(P, d + 1, y, v, e) /\ <<x, y, v, e>> \notin Signs!ZipSigns
        /\ Plain(P) => P \notin ZipKinds /\ v # 75 /\ e # 75
        /\ ~Plain(P) => P \in ZipKinds /\ d <= 3 /\ Len(P) >= 4
        /\ ~Plain(P) /\ d = 3 => v # 75 /\ e # 75 /\ <<x, y, v, e>> \in Signs!ZipSigns
        /\ ~Plain(P) /\ d = 3 /\ P \in Signs!Entries => <<x, y, v, e>> = Signs!CDH
        /\ ~Plain(P) /\ d = 3 /\ P \notin Signs!Entries => Len(P) = 4 /\ <<x, y, v, e>> # Signs!CDH
    BY <1>a, <1>3, <1>5, RegisterShifts
  <1>8. Offsets(off, file, made)'
    BY <1>1, <1>2
  <1>c. ~Plain(P) /\ d = 3 => Len(P) = 4 /\ P \notin Signs!Entries
    BY <1>1, <1>6, <1>7
  <1>10. CASE d + 1 < Len(P)
    <2>1. Plain(P) \/ d < 3
      <3> SUFFICES ASSUME ~Plain(P) PROVE d < 3
        OBVIOUS
      <3>1. d <= 3 /\ (d = 3 => Len(P) = 4)
        BY <1>7, <1>c
      <3> DEFINE n == Len(P)
      <3>2. d <= 3 /\ (d = 3 => n = 4) /\ d + 1 < n /\ n \in Nat
        BY <1>3, <1>10, <3>1
      <3> HIDE DEF n
      <3> QED  BY <1>4, <3>2
    <2>2. Within(off, m, d + 1)'
      BY <1>1, <1>2, <1>3, <1>10, WithinPiece DEF P, N
    <2>3. ZipSign(m, d + 1)'
      <3>1. sign' = <<x, y, v, e>> /\ Register(PieceAt(made', m), d + 1, y, v, e)
        BY <1>1, <1>6, <1>7, <2>1 DEF P
      <3> QED  BY <3>1 DEF ZipSign
    <2>4. ZipCounts(z, m)'
      <3>1. found' = found
        BY <1>1, <1>6, <1>7, <2>1
      <3> QED  BY <1>1, <1>2, <3>1 DEF ZipCounts
    <2>5. ScanAt(off, z, m, d + 1)'
      BY <1>1, <1>8, <2>2, <2>3, <2>4 DEF ScanAt
    <2> QED  BY <2>5
  <1>11. CASE d + 1 = Len(P)
    <2>0. ~Plain(P) => d = 3
      <3> SUFFICES ASSUME ~Plain(P) PROVE d = 3
        OBVIOUS
      <3>1. d <= 3 /\ Len(P) >= 4
        BY <1>7
      <3> QED  BY <1>4, <1>11, <3>1
    <2>1. v # 75 /\ e # 75
      BY <1>7, <2>0
    <2>2. Within(off, m + 1, 0)'
      BY <1>1, <1>2, <1>3, <1>4, <1>11, LastByte DEF N
    <2>3. ZipSign(m + 1, 0)'
      <3>1. Register(PieceAt(made', m + 1), 0, y, v, e)
        BY <2>1 DEF Register
      <3>2. sign' = <<x, y, v, e>>
        BY <1>1, <1>6
      <3> QED  BY <3>1, <3>2 DEF ZipSign
    <2>4. ZipCounts(z, m + 1)'
      <3>1. <<x, y, v, e>> \in Signs!ZipSigns <=> P \in ZipKinds
        BY <1>7, <2>0
      <3>2. P \notin Signs!Entries
        <4>1. Plain(P) => P \notin Signs!Entries
          BY <1>7 DEF ZipKinds
        <4> QED  BY <1>c, <2>0, <4>1
      <3>3. /\ found' \in [{"jpeg", "zip"} -> Nat] /\ found'["jpeg"] = found["jpeg"]
            /\ found'["zip"] = found["zip"] + (IF P \in ZipKinds THEN 1 ELSE 0)
        BY <1>1, <1>6, <3>1
      <3>4. P \notin Signs!FileNames /\ P \notin Signs!CatalogNames /\ P \notin Signs!LongNames
        BY <3>2, NamesAre
      <3>5. files' = files + (IF P \in Signs!FileNames THEN 1 ELSE 0)
            /\ catalogs' = catalogs + (IF P \in Signs!CatalogNames THEN 1 ELSE 0)
        BY <1>1, <1>b, <3>4
      <3> QED  BY <1>1, <1>2, <1>3, <1>a, <3>3, <3>4, <3>5, CountsGain
    <2>5. ScanAt(off, z, m + 1, 0)'
      BY <1>1, <1>8, <2>2, <2>3, <2>4 DEF ScanAt
    <2> QED  BY <2>5
  <1>12. d + 1 < Len(P) \/ d + 1 = Len(P)
    BY <1>3, <1>4
  <1> QED  BY <1>10, <1>11, <1>12

\* A whole header and a name that fits are read, to the end of their piece.
LEMMA HeaderRead ==
    ASSUME NEW from \in Nat, NEW n \in Nat, NEW L \in Nat, from + (6 + n) <= L,
           Len(file) = L, pos = from + 4, file[from + 5] + 256 * file[from + 6] = n,
           Signs!CentralHeader, read = from + 3, files \in Nat, catalogs \in Nat
    PROVE  /\ n > BUFF_LEN => scan' = "undefined"
           /\ n <= BUFF_LEN =>
                /\ scan' = scan /\ pos' = from + (6 + n) + 1 /\ read' = from + (6 + n)
                /\ files' = files + (IF n > 0 /\ file[from + (6 + n)] # 47 THEN 1 ELSE 0)
                /\ catalogs' = catalogs + (IF n > 0 /\ file[from + (6 + n)] = 47 THEN 1 ELSE 0)
  <1> DEFINE head == pos + 1
             name == head + Signs!HeaderSize
             size == file[head] + 256 * file[head + 1]
  <1>0. BUFF_LEN \in Nat
    BY PieceAssumption
  <1>1. head = from + 5 /\ size = n
    <2>1. head = from + 5 /\ head + 1 = from + 6
      OBVIOUS
    <2> HIDE DEF head
    <2> QED  BY <2>1
  <1>2. name = from + 7 /\ name + size = from + (6 + n) + 1 /\ name + size - 1 = from + (6 + n)
        /\ read + 1 + Signs!HeaderSize + size = from + (6 + n) /\ read + 1 + Signs!HeaderSize = from + 6
    <2> HIDE DEF size
    <2>1. name = from + 7
      BY <1>1 DEF Signs!HeaderSize
    <2> HIDE DEF name
    <2> QED  BY <1>1, <2>1 DEF Signs!HeaderSize
  <1>3. IF ~Signs!Whole(head, Signs!HeaderSize)
          THEN pos' = Len(file) + 1 /\ read' = read + 1 /\ UNCHANGED <<scan, files, catalogs>>
          ELSE IF size > BUFF_LEN /\ Signs!Whole(name, BUFF_LEN + 1)
          THEN scan' = "undefined" /\ UNCHANGED <<pos, read, files, catalogs>>
          ELSE IF size = 0 \/ ~Signs!Whole(name, size)
          THEN /\ pos' = (IF size = 0 THEN name ELSE Len(file) + 1)
               /\ read' = read + 1 + Signs!HeaderSize /\ UNCHANGED <<scan, files, catalogs>>
          ELSE /\ pos' = name + size /\ read' = read + 1 + Signs!HeaderSize + size /\ UNCHANGED scan
               /\ IF file[name + size - 1] = 47
                    THEN catalogs' = catalogs + 1 /\ UNCHANGED files
                    ELSE files' = files + 1 /\ UNCHANGED catalogs
    BY DEF Signs!CentralHeader
  <1>4. Signs!Whole(head, Signs!HeaderSize)
    <2> HIDE DEF head
    <2>1. head + 2 - 1 <= L
      BY <1>1
    <2> QED  BY <2>1 DEF Signs!Whole, Signs!HeaderSize
  <1>5. Signs!Whole(name, size)
    <2>1. name + size - 1 <= L
      BY <1>2
    <2> QED  BY <2>1 DEF Signs!Whole
  <1>6. n > BUFF_LEN => Signs!Whole(name, BUFF_LEN + 1)
    <2> HIDE DEF name
    <2>1. n > BUFF_LEN => name + (BUFF_LEN + 1) - 1 <= L
      BY <1>0, <1>2
    <2> QED  BY <2>1 DEF Signs!Whole
  <1> DEFINE last == file[name + size - 1]
  <1>7. last = file[from + (6 + n)]
    BY <1>2
  <1> HIDE DEF head, name, size, last
  <1>8. CASE n > BUFF_LEN
    <2>1. scan' = "undefined" /\ ~(n <= BUFF_LEN)
      BY <1>0, <1>1, <1>3, <1>4, <1>6, <1>8
    <2> QED  BY <2>1
  <1>9. CASE n <= BUFF_LEN /\ n = 0
    <2>1. ~(n > BUFF_LEN) /\ ~(n > 0)
      BY <1>0, <1>9
    <2>2. pos' = name /\ read' = read + 1 + Signs!HeaderSize /\ UNCHANGED <<scan, files, catalogs>>
      BY <1>1, <1>3, <1>4, <1>9, <2>1
    <2>3. pos' = from + (6 + n) + 1 /\ read' = from + (6 + n)
      BY <1>2, <1>9, <2>2
    <2> QED  BY <2>1, <2>2, <2>3
  <1>10. CASE n <= BUFF_LEN /\ n # 0
    <2>1. ~(n > BUFF_LEN) /\ n > 0
      BY <1>0, <1>10
    <2>2. /\ pos' = name + size /\ read' = read + 1 + Signs!HeaderSize + size /\ UNCHANGED scan
          /\ IF last = 47 THEN catalogs' = catalogs + 1 /\ UNCHANGED files
                          ELSE files' = files + 1 /\ UNCHANGED catalogs
      BY <1>1, <1>3, <1>4, <1>5, <1>10, <2>1 DEF last
    <2>3. /\ pos' = from + (6 + n) + 1 /\ read' = from + (6 + n)
          /\ files' = IF last = 47 THEN files ELSE files + 1
          /\ catalogs' = IF last = 47 THEN catalogs + 1 ELSE catalogs
      BY <1>2, <2>2
    <2> QED  BY <1>7, <2>1, <2>2, <2>3
  <1>11. n > BUFF_LEN \/ n <= BUFF_LEN
    BY <1>0
  <1> QED  BY <1>8, <1>9, <1>10, <1>11

\* A central directory signature: its piece is read to the end, or over the end
\* of buff.
LEMMA CentralReads ==
    ASSUME made \in Seq(Pieces), found \in [{"jpeg", "zip"} -> Nat], Signs!CentralHeader,
           NEW off, NEW z, NEW m, NEW d, ScanAt(off, z, m, d)
    PROVE  \/ scan' = "undefined" /\ Overrun'
           \/ scan' # "undefined" /\ \E z2, m2, d2 : ScanAt(off, z2, m2, d2)'
  <1> DEFINE P == PieceAt(made, m)
             e == P[d + 1]
             N == Len(made)
  <1>1. /\ scan = "zip" /\ ~Signs!Eof
        /\ Signs!Shift(sign) = Signs!CDH /\ sign' = Signs!Shift(sign)
        /\ file' = file /\ made' = made /\ found' = [found EXCEPT !["zip"] = @ + 1]
    BY DEF Signs!CentralHeader
  <1>2. Offsets(off, file, made) /\ Within(off, m, d) /\ ZipCounts(z, m) /\ ZipSign(m, d)
    BY <1>1 DEF ScanAt
  <1>3. /\ m < N /\ m \in Nat /\ N \in Nat /\ file[pos] = e /\ PieceBytes(P) /\ P \in Pieces
        /\ Len(P) \in Nat /\ d + 1 <= Len(P) /\ off[m + 1] = off[m] + Len(P) /\ off[m] \in Nat
        /\ off[m + 1] <= Len(file) /\ Len(file) \in Nat
        /\ \A q \in 1 .. Len(P) : file[off[m] + q] = P[q]
    <2>1. m # N
      BY <1>1, <1>2, NextByte
    <2>2. m < N
      BY <1>2, <2>1 DEF Within
    <2> QED  BY <1>2, <2>2, NextByte
  <1>4. d \in Nat /\ pos = off[m] + d + 1 /\ read = off[m] + d
    BY <1>2 DEF Within
  <1>5. PICK u, x, y, v : sign = <<u, x, y, v>> /\ Register(P, d, x, y, v)
    BY <1>2 DEF ZipSign
  <1>6. Follows(P, d, e) /\ P = made[m + 1]
    BY <1>3, <1>4 DEF Follows, PieceAt
  <1>7. files \in Nat /\ catalogs \in Nat
    BY <1>2, <1>3, CountsAre
  <1> HIDE DEF P, N, e
  <1>8. Signs!Shift(sign) = <<x, y, v, e>>
    BY <1>3, <1>5, ShiftedFour DEF Signs!Shift
  <1>9. <<x, y, v, e>> = Signs!CDH => d = 3 /\ P \in Signs!Entries
    BY <1>3, <1>5, <1>6, RegisterShifts
  <1>10. d = 3 /\ P \in Signs!Entries
    BY <1>1, <1>8, <1>9
  <1> DEFINE from == off[m]
             low == P[5]
             high == P[6]
             size == Len(P)
             next == off[m + 1]
             L == Len(file)
             n == size - 6
  <1>11. low \in Nat /\ high \in Nat /\ size = 6 + low + 256 * high
    BY <1>3, <1>10 DEF PieceBytes
  <1>12. from \in Nat /\ L \in Nat /\ next = from + size /\ next <= L /\ pos = from + 3 + 1 /\ read = from + 3
    BY <1>3, <1>4, <1>10
  <1>13. file[from + 5] = low /\ file[from + 6] = high /\ file[from + size] = P[size]
    <2>1. 5 \in 1 .. size /\ 6 \in 1 .. size /\ size \in 1 .. size
      <3> HIDE DEF low, high, size
      <3> QED  BY <1>11
    <2> QED  BY <1>3, <2>1
  <1> HIDE DEF from, low, high, size, next, L
  <1>14. /\ n \in Nat /\ from + (6 + n) = next /\ next <= L /\ pos = from + 4 /\ size = 6 + n
         /\ low + 256 * high = n /\ next \in Nat
    BY <1>11, <1>12
  <1>a. file[from + 5] + 256 * file[from + 6] = n
    BY <1>13, <1>14
  <1>b. file[from + (6 + n)] = P[size]
    BY <1>12, <1>13, <1>14
  <1>c. Len(file) = L /\ from + (6 + n) <= L
    BY <1>14 DEF L
  <1> HIDE DEF n
  <1>15. /\ n > BUFF_LEN => scan' = "undefined"
         /\ n <= BUFF_LEN =>
              /\ scan' = scan /\ pos' = from + (6 + n) + 1 /\ read' = from + (6 + n)
              /\ files' = files + (IF n > 0 /\ P[size] # 47 THEN 1 ELSE 0)
              /\ catalogs' = catalogs + (IF n > 0 /\ P[size] = 47 THEN 1 ELSE 0)
    BY <1>7, <1>12, <1>14, <1>a, <1>b, <1>c, HeaderRead
  <1>d. BUFF_LEN \in Nat
    BY PieceAssumption
  <1>16. /\ P \in ZipKinds /\ (P \in Signs!LongNames <=> n > BUFF_LEN)
         /\ P \in Signs!FileNames <=> n > 0 /\ P[size] # 47
         /\ P \in Signs!CatalogNames <=> n > 0 /\ P[size] = 47
    <2>1. size > 6 + BUFF_LEN <=> n > BUFF_LEN
      BY <1>14, <1>d
    <2>2. size > 6 <=> n > 0
      BY <1>14
    <2>3. /\ P \in ZipKinds /\ (P \in Signs!LongNames <=> size > 6 + BUFF_LEN)
          /\ P \in Signs!FileNames <=> size > 6 /\ P[size] # 47
          /\ P \in Signs!CatalogNames <=> size > 6 /\ P[size] = 47
      BY <1>10, NamesAre DEF size
    <2> QED  BY <2>1, <2>2, <2>3
  <1>17. CASE n > BUFF_LEN
    <2>1. z \in 1 .. m + 1 /\ Begins(made, z)
      BY <1>2 DEF ZipCounts
    <2>2. z \in Nat /\ m + 1 \in z .. N
      BY <1>3, <2>1
    <2>3. Overrun'
      BY <1>1, <1>6, <1>16, <1>17, <2>1, <2>2 DEF Overrun, N
    <2> QED  BY <1>15, <1>17, <2>3
  <1>18. CASE n <= BUFF_LEN
    <2>0. /\ scan' = "zip" /\ pos' = next + 1 /\ read' = next /\ next \in Nat
          /\ files' = files + (IF P \in Signs!FileNames THEN 1 ELSE 0)
          /\ catalogs' = catalogs + (IF P \in Signs!CatalogNames THEN 1 ELSE 0)
      BY <1>1, <1>14, <1>15, <1>16, <1>18
    <2>1. Within(off, m + 1, 0)'
      BY <1>1, <1>3, <2>0, WithinNext DEF next, N
    <2>2. ZipSign(m + 1, 0)'
      <3>1. sign' = <<80, 75, 1, 2>>
        BY <1>1 DEF Signs!CDH
      <3>2. \A Q : Register(Q, 0, 75, 1, 2)
        BY DEF Register
      <3> QED  BY <3>1, <3>2 DEF ZipSign
    <2>3. ZipCounts(z, m + 1)'
      <3>1. /\ found' \in [{"jpeg", "zip"} -> Nat] /\ found'["jpeg"] = found["jpeg"]
            /\ found'["zip"] = found["zip"] + (IF P \in ZipKinds THEN 1 ELSE 0)
        BY <1>1, <1>16
      <3>2. P \notin Signs!LongNames
        BY <1>14, <1>16, <1>18, <1>d
      <3> QED  BY <1>1, <1>2, <1>3, <1>6, <2>0, <3>1, <3>2, CountsGain
    <2>4. ScanAt(off, z, m + 1, 0)'
      BY <1>1, <1>2, <2>0, <2>1, <2>2, <2>3 DEF ScanAt
    <2> QED  BY <2>0, <2>4
  <1>19. n > BUFF_LEN \/ n <= BUFF_LEN
    BY <1>14, <1>d
  <1> QED  BY <1>17, <1>18, <1>19

\* A first loop that met no EOI has read the whole file.
LEMMA JpegEnds ==
    ASSUME made \in Seq(Pieces), Signs!JpegEof, NEW off, NEW z, NEW m, NEW d, ScanAt(off, z, m, d)
    PROVE  ScanAt(off, m + 1, m, d)'
  <1>1. /\ scan = "jpeg" /\ scan' = "zip" /\ Signs!Eof /\ sign' = <<0, 0, 0, 0>>
        /\ file' = file /\ made' = made /\ pos' = pos /\ read' = read /\ found' = found
        /\ files' = files /\ catalogs' = catalogs
    BY DEF Signs!JpegEof
  <1>2. Offsets(off, file, made) /\ Within(off, m, d) /\ JpegAt(m, d)
    BY <1>1 DEF ScanAt
  <1>3. m = Len(made) /\ m \in Nat
    BY <1>1, <1>2, NextByte
  <1>4. d = 0
    BY <1>2, <1>3 DEF Within
  <1>5. /\ found["jpeg"] = CountIn(made, 1, m, Signs!JpegSigns)
        /\ found["zip"] = 0 /\ files = 0 /\ catalogs = 0
        /\ \A n \in 1 .. m : made[n] # Signs!EOI
    BY <1>2 DEF JpegAt
  <1>6. ZipCounts(m + 1, m)'
    <2>1. m + 1 \in 1 .. m + 1 /\ (m + 1) - 1 = m /\ m + 1 \in Nat /\ m \in Int /\ m < m + 1
      BY <1>3
    <2>2. \A kinds : CountIn(made, m + 1, m, kinds) = 0
      BY <2>1, CountNone
    <2>3. Begins(made, m + 1)
      BY <1>3, <1>5 DEF Begins
    <2> QED  BY <1>1, <1>5, <2>1, <2>2, <2>3 DEF ZipCounts
  <1>7. ZipSign(m, 0)'
    <2>1. Register(PieceAt(made', m), 0, 0, 0, 0)
      BY DEF Register
    <2> QED  BY <1>1, <2>1 DEF ZipSign
  <1>8. Offsets(off, file, made)' /\ Within(off, m, d)'
    BY <1>1, <1>2 DEF Within
  <1> QED  BY <1>1, <1>4, <1>6, <1>7, <1>8 DEF ScanAt

LEMMA ZipEnds ==
    ASSUME made \in Seq(Pieces), Signs!ZipEof, NEW off, NEW z, NEW m, NEW d, ScanAt(off, z, m, d)
    PROVE  ScanAt(off, z, m, d)'
  <1>1. /\ scan = "zip" /\ scan' = "done" /\ Signs!Eof
        /\ file' = file /\ made' = made /\ pos' = pos /\ read' = read /\ found' = found
        /\ files' = files /\ catalogs' = catalogs
    BY DEF Signs!ZipEof
  <1>2. Offsets(off, file, made) /\ Within(off, m, d) /\ ZipCounts(z, m)
    BY <1>1 DEF ScanAt
  <1>3. m = Len(made)
    BY <1>1, <1>2, NextByte
  <1>4. Offsets(off, file, made)' /\ Within(off, m, d)' /\ ZipCounts(z, m)'
    BY <1>1, <1>2 DEF Within, ZipCounts
  <1> QED  BY <1>1, <1>3, <1>4 DEF ScanAt

LEMMA ScanStep == ASSUME ScanInv, [Signs!Next]_Signs!vars PROVE ScanInv'
  <1>1. CASE Signs!Open
    BY <1>1, ScanOpen
  <1> DEFINE Reads == Signs!JpegByte \/ Signs!ZipByte \/ Signs!CentralHeader
             Ends == Signs!JpegEof \/ Signs!ZipEof
  <1>2. CASE Reads \/ Ends
    <2>1. /\ scan \in {"jpeg", "zip"} /\ scan' \in {"jpeg", "zip", "done", "undefined"} /\ made' = made /\ cut' = cut
          /\ scan' = "undefined" => Signs!CentralHeader
      <3>1. CASE Signs!CentralHeader
        BY <3>1 DEF Signs!CentralHeader
      <3>2. CASE ~Signs!CentralHeader
        BY <1>2, <3>2 DEF Signs!JpegByte, Signs!ZipByte, Signs!JpegEof, Signs!ZipEof
      <3> QED  BY <3>1, <3>2
    <2>2. found \in [{"jpeg", "zip"} -> Nat]
      BY DEF ScanInv
    <2>3. found' \in [{"jpeg", "zip"} -> Nat]
      <3>1. \/ found' = found
            \/ \E g \in {0, 1} : found' = [found EXCEPT !["jpeg"] = @ + g] \/ found' = [found EXCEPT !["zip"] = @ + g]
        <4>1. CASE Signs!JpegByte
          BY <4>1 DEF Signs!JpegByte
        <4>2. CASE Signs!ZipByte
          BY <4>2 DEF Signs!ZipByte
        <4>3. CASE Signs!CentralHeader
          BY <4>3 DEF Signs!CentralHeader
        <4>4. CASE Ends
          BY <4>4 DEF Signs!JpegEof, Signs!ZipEof
        <4> QED  BY <1>2, <4>1, <4>2, <4>3, <4>4
      <3> QED  BY <2>2, <3>1
    <2>4. ASSUME cut = 0
          PROVE  /\ made \in Seq(Pieces)
                 /\ scan' = "undefined" => Overrun'
                 /\ scan' # "undefined" => \E off, z, m, d : ScanAt(off, z, m, d)'
      <3>1. made \in Seq(Pieces) /\ \E off, z, m, d : ScanAt(off, z, m, d)
        BY <2>1, <2>4 DEF ScanInv
      <3>2. PICK off, z, m, d : ScanAt(off, z, m, d)
        BY <3>1
      <3>3. CASE Signs!JpegByte
        <4>1. \E z2, m2, d2 : ScanAt(off, z2, m2, d2)'
          BY <2>2, <3>1, <3>2, <3>3, JpegReads
        <4>2. scan' # "undefined"
          BY <2>1, <3>3 DEF Signs!JpegByte
        <4> QED  BY <3>1, <4>1, <4>2
      <3>4. CASE Signs!ZipByte
        <4>1. \E z2, m2, d2 : ScanAt(off, z2, m2, d2)'
          BY <2>2, <3>1, <3>2, <3>4, ZipReads
        <4>2. scan' # "undefined"
          BY <2>1, <3>4 DEF Signs!ZipByte
        <4> QED  BY <3>1, <4>1, <4>2
      <3>5. CASE Signs!CentralHeader
        <4>1. \/ scan' = "undefined" /\ Overrun'
              \/ scan' # "undefined" /\ \E z2, m2, d2 : ScanAt(off, z2, m2, d2)'
          BY <2>2, <3>1, <3>2, <3>5, CentralReads
        <4> QED  BY <3>1, <4>1
      <3>6. CASE Signs!JpegEof
        <4>1. scan' # "undefined"
          BY <3>6 DEF Signs!JpegEof
        <4> QED  BY <3>1, <3>2, <3>6, <4>1, JpegEnds
      <3>7. CASE Signs!ZipEof
        <4>1. scan' # "undefined"
          BY <3>7 DEF Signs!ZipEof
        <4> QED  BY <3>1, <3>2, <3>7, <4>1, ZipEnds
      <3> QED  BY <1>2, <3>3, <3>4, <3>5, <3>6, <3>7
    <2> QED  BY <2>1, <2>3, <2>4 DEF ScanInv
  <1>3. CASE UNCHANGED Signs!vars
    BY <1>3 DEF Signs!vars, ScanInv, ScanAt, Within, JpegAt, ZipCounts, ZipSign, Overrun
  <1> QED  BY <1>1, <1>2, <1>3 DEF Signs!Next

\* The first EOI is where Begins says.
LEMMA FromIs == ASSUME made \in Seq(Pieces), NEW z, z \in Nat, Begins(made, z) PROVE Signs!ZipFrom = z
  <1> DEFINE First(n) == made[n] = Signs!EOI /\ \A q \in 1 .. n - 1 : made[q] # Signs!EOI
             N == Len(made)
  <1>1. N \in Nat /\ DOMAIN made = 1 .. N
    OBVIOUS
  <1>2. CASE z - 1 \in 1 .. N /\ made[z - 1] = Signs!EOI /\ \A n \in 1 .. z - 2 : made[n] # Signs!EOI
    <2>1. z - 1 \in DOMAIN made /\ First(z - 1)
      <3>1. (z - 1) - 1 = z - 2
        OBVIOUS
      <3> QED  BY <1>1, <1>2, <3>1
    <2>2. ASSUME NEW n \in DOMAIN made, First(n) PROVE n = z - 1
      <3>1. ~(n < z - 1)
        <4> SUFFICES ASSUME n < z - 1 PROVE FALSE
          OBVIOUS
        <4>1. n \in 1 .. z - 2
          BY <1>1
        <4> QED  BY <1>2, <2>2, <4>1
      <3>2. ~(z - 1 < n)
        <4> SUFFICES ASSUME z - 1 < n PROVE FALSE
          OBVIOUS
        <4>1. z - 1 \in 1 .. n - 1
          BY <1>1, <1>2
        <4> QED  BY <1>2, <2>2, <4>1
      <3> QED  BY <1>1, <3>1, <3>2
    <2>3. (CHOOSE n \in DOMAIN made : First(n)) = z - 1
      <3> HIDE DEF First
      <3> QED  BY <2>1, <2>2
    <2>4. \E n \in DOMAIN made : made[n] = Signs!EOI
      BY <2>1
    <2>5. Signs!ZipFrom = 1 + (CHOOSE n \in DOMAIN made : First(n))
      BY <2>4 DEF Signs!ZipFrom
    <2> DEFINE first == CHOOSE n \in DOMAIN made : First(n)
    <2>6. first = z - 1 /\ Signs!ZipFrom = 1 + first
      BY <2>3, <2>5
    <2> HIDE DEF first
    <2> QED  BY <2>6
  <1>3. CASE z = N + 1 /\ \A n \in 1 .. N : made[n] # Signs!EOI
    BY <1>1, <1>3 DEF Signs!ZipFrom
  <1> QED  BY <1>2, <1>3 DEF Begins

LEMMA ScanEnd == ASSUME ScanInv PROVE Signs!ScanRight
  <1>1. \A from, to, kinds : Signs!Among(from, to, kinds) = CountIn(made, from, to, kinds)
    BY DEF Signs!Among, CountIn, Signs!Cardinality, Cardinality
  <1>2. ASSUME cut = 0, scan = "done"
        PROVE  /\ found["jpeg"] = Signs!Among(1, Signs!ZipFrom - 1, Signs!JpegSigns)
               /\ found["zip"] = Signs!Among(Signs!ZipFrom, Len(made), ZipKinds)
               /\ files = Signs!Among(Signs!ZipFrom, Len(made), Signs!FileNames)
               /\ catalogs = Signs!Among(Signs!ZipFrom, Len(made), Signs!CatalogNames)
               /\ read = Len(file)
               /\ Signs!Among(Signs!ZipFrom, Len(made), Signs!LongNames) = 0
    <2>1. PICK off, z, m, d : ScanAt(off, z, m, d)
      BY <1>2 DEF ScanInv
    <2>2. /\ made \in Seq(Pieces) /\ Offsets(off, file, made) /\ Within(off, m, d) /\ ZipCounts(z, m)
          /\ m = Len(made)
      BY <1>2, <2>1 DEF ScanInv, ScanAt
    <2>3. m \in Nat /\ off[m] = Len(file) /\ Len(file) \in Nat
      BY <2>2, NextByte
    <2>4. read = Len(file)
      <3>1. read = off[m] + d /\ d = 0
        BY <2>2 DEF Within
      <3> QED  BY <2>3, <3>1
    <2>5. Signs!ZipFrom = z
      <3>1. z \in Nat /\ Begins(made, z)
        BY <2>2, <2>3 DEF ZipCounts
      <3> QED  BY <2>2, <3>1, FromIs
    <2> QED  BY <1>1, <2>2, <2>4, <2>5 DEF ZipCounts
  <1>3. ASSUME cut = 0, scan = "undefined" PROVE Signs!Among(Signs!ZipFrom, Len(made), Signs!LongNames) > 0
    <2>1. made \in Seq(Pieces) /\ Overrun
      BY <1>3 DEF ScanInv
    <2>2. PICK z \in Nat : Begins(made, z) /\ \E n \in z .. Len(made) : made[n] \in Signs!LongNames
      BY <2>1 DEF Overrun
    <2>3. Signs!ZipFrom = z
      BY <2>1, <2>2, FromIs
    <2> DEFINE A == {n \in z .. Len(made) : made[n] \in Signs!LongNames}
    <2>4. A # {} /\ A \subseteq z .. Len(made)
      BY <2>2
    <2>5. IsFiniteSet(z .. Len(made))
      <3>1. Len(made) \in Int /\ z \in Int
        BY <2>1
      <3> QED  BY <3>1, FS_Interval
    <2> HIDE DEF A
    <2>6. IsFiniteSet(A)
      BY <2>4, <2>5, FS_Subset
    <2>7. Cardinality(A) \in Nat /\ Cardinality(A) # 0
      BY <2>4, <2>6, FS_CardinalityType, FS_EmptySet
    <2>8. CountIn(made, z, Len(made), Signs!LongNames) = Cardinality(A)
      BY DEF CountIn, A
    <2> QED  BY <1>1, <2>3, <2>7, <2>8
  <1> QED  BY <1>2, <1>3 DEF Signs!ScanRight, ZipKinds

\* jpeg_zip_detector: whatever pieces a whole file is put together from, and
\* however many, every marker up to the first EOI and every zip signature after it
\* is counted once, the names at the ends of the headers decide between files and
\* catalogs, an empty one being neither, and the size printed is the file's; but
\* when a name behind the first EOI is longer than buff, of any length, the scan
\* runs over the end of buff, and only then (main.c:36-145).
THEOREM SignsAreCounted == Spec => []ScanRight
  <1>1. Init => ScanInv
    BY ScanStart DEF Init
  <1>2. ScanInv /\ [Next]_vars => ScanInv'
    BY Apart, ScanStep
  <1>3. ScanInv => ScanRight
    BY ScanEnd DEF ScanRight
  <1> QED  BY <1>1, <1>2, <1>3, PTL DEF Spec

----------------------------------------------------------------------------
(* utf8_encoder: a code point in groups of six bits, there and back. *)

\* The values that the bytes of a text are shifted into, one after the other.
Shifts(v, e, n) ==
    /\ v \in [1 .. n -> Nat] /\ v[1] = Text!LeadBits(e[1])
    /\ \A q \in 2 .. n : v[q] = v[q - 1] * 64 + (e[q] % 64)

\* The bytes e stand for one code point.
Encodes(e, code) ==
    /\ e \in Files /\ Len(e) \in 1 .. 6 /\ Text!Length(e[1]) = Len(e)
    /\ \A q \in 2 .. Len(e) : e[q] \in 128 .. 191
    /\ \E v : Shifts(v, e, Len(e)) /\ v[Len(e)] = code

LEMMA Groups ==
    ASSUME NEW code \in Nat
    PROVE  /\ \A n \in 1 .. 6 : code \div Text!Weight[n] \in Nat
           /\ \A n \in 1 .. 5 : /\ (code \div Text!Weight[n]) % 64 \in 0 .. 63
                                /\ code \div Text!Weight[n]
                                     = (code \div Text!Weight[n + 1]) * 64 + ((code \div Text!Weight[n]) % 64)
           /\ code \div Text!Weight[1] = code
  <1> DEFINE W == Text!Weight
  <1>1. W[1] = 1 /\ W[2] = 64 /\ W[3] = 4096 /\ W[4] = 262144 /\ W[5] = 16777216 /\ W[6] = 1073741824
    BY SMT DEF Text!Weight
  <1> HIDE DEF W
  <1>2. code \div 1 = code
    OBVIOUS
  <1>3. /\ code \div 64 \in Nat /\ code \div 4096 \in Nat /\ code \div 262144 \in Nat
        /\ code \div 16777216 \in Nat /\ code \div 1073741824 \in Nat
    BY SMT
  <1>4. /\ code = (code \div 64) * 64 + (code % 64)
        /\ code \div 64 = (code \div 4096) * 64 + ((code \div 64) % 64)
        /\ code \div 4096 = (code \div 262144) * 64 + ((code \div 4096) % 64)
        /\ code \div 262144 = (code \div 16777216) * 64 + ((code \div 262144) % 64)
        /\ code \div 16777216 = (code \div 1073741824) * 64 + ((code \div 16777216) % 64)
    BY SMT
  <1>5. \A q \in Nat : q % 64 \in 0 .. 63
    OBVIOUS
  <1>6. \A n \in 1 .. 6 : n \in {1, 2, 3, 4, 5, 6}
    OBVIOUS
  <1>7. \A n \in 1 .. 6 : code \div W[n] \in Nat
    BY <1>1, <1>2, <1>3, <1>6, SMT
  <1>8. \A n \in 1 .. 5 : code \div W[n] = (code \div W[n + 1]) * 64 + ((code \div W[n]) % 64)
    <2>1. \A n \in 1 .. 5 : n \in {1, 2, 3, 4, 5}
      OBVIOUS
    <2>2. 1 + 1 = 2 /\ 2 + 1 = 3 /\ 3 + 1 = 4 /\ 4 + 1 = 5 /\ 5 + 1 = 6
      OBVIOUS
    <2> QED  BY <1>1, <1>2, <1>4, <2>1, <2>2, SMT
  <1>9. \A n \in 1 .. 5 : (code \div W[n]) % 64 \in 0 .. 63
    BY <1>5, <1>7
  <1>a. W[1] = 1
    BY <1>1, SMT
  <1> QED  BY <1>a, <1>2, <1>7, <1>8, <1>9 DEF W

LEMMA SpreadEncodes ==
    ASSUME NEW n \in 2 .. 6, NEW mark \in Nat, NEW code \in Nat,
           mark + code \div Text!Weight[n] \in Octets,
           Text!Length(mark + code \div Text!Weight[n]) = n,
           Text!LeadBits(mark + code \div Text!Weight[n]) = code \div Text!Weight[n]
    PROVE  Encodes(Text!Spread(mark, code, n), code)
  <1> DEFINE W    == Text!Weight
             e    == Text!Spread(mark, code, n)
             v    == [q \in 1 .. n |-> code \div W[n - q + 1]]
             lead == mark + code \div W[n]
  <1>1. e = [q \in 1 .. n |-> IF q = 1 THEN lead ELSE 128 + ((code \div W[n - q + 1]) % 64)]
    BY DEF Text!Spread
  <1>2. /\ \A q \in 1 .. 6 : code \div W[q] \in Nat
        /\ \A q \in 1 .. 5 : /\ (code \div W[q]) % 64 \in 0 .. 63
                             /\ code \div W[q] = (code \div W[q + 1]) * 64 + ((code \div W[q]) % 64)
        /\ code \div W[1] = code
    BY Groups
  <1> HIDE DEF W, e
  <1>3. \A q \in 2 .. n : n - q + 1 \in 1 .. 5 /\ (n - q + 1) + 1 = n - (q - 1) + 1 /\ q - 1 \in 1 .. n
    OBVIOUS
  <1>4. \A q \in 2 .. n : e[q] = 128 + ((code \div W[n - q + 1]) % 64)
    BY <1>1
  <1>5. \A q \in 2 .. n : e[q] \in 128 .. 191 /\ e[q] % 64 = (code \div W[n - q + 1]) % 64
    <2>1. \A a \in 0 .. 63 : 128 + a \in 128 .. 191 /\ (128 + a) % 64 = a
      OBVIOUS
    <2> SUFFICES ASSUME NEW q \in 2 .. n
                 PROVE  e[q] \in 128 .. 191 /\ e[q] % 64 = (code \div W[n - q + 1]) % 64
      OBVIOUS
    <2> DEFINE bits == (code \div W[n - q + 1]) % 64
    <2>2. bits \in 0 .. 63
      BY <1>2, <1>3
    <2>3. e[q] = 128 + bits
      BY <1>4
    <2> HIDE DEF bits
    <2>4. e[q] \in 128 .. 191 /\ e[q] % 64 = bits
      BY <2>1, <2>2, <2>3
    <2> QED  BY <2>4 DEF bits
  <1>6. e[1] = lead /\ DOMAIN e = 1 .. n
    BY <1>1
  <1>7. e \in Files /\ Len(e) = n
    <2>1. \A q \in 1 .. n : e[q] \in Octets
      <3>1. \A q \in 1 .. n : q = 1 \/ q \in 2 .. n
        OBVIOUS
      <3>2. 128 .. 191 \subseteq Octets /\ lead \in Octets
        BY DEF Octets, W
      <3> QED  BY <1>5, <1>6, <3>1, <3>2
    <2>2. e \in [1 .. n -> Octets]
      BY <1>1, <2>1
    <2> QED  BY <2>2 DEF Files
  <1>8. Shifts(v, e, n) /\ v[n] = code
    <2>1. v \in [1 .. n -> Nat] /\ \A q \in 1 .. n : v[q] = code \div W[n - q + 1]
      <3>1. \A q \in 1 .. n : n - q + 1 \in 1 .. 6
        OBVIOUS
      <3> QED  BY <1>2, <3>1
    <2>2. 1 \in 1 .. n /\ n \in 1 .. n /\ n - 1 + 1 = n /\ n - n + 1 = 1
      OBVIOUS
    <2>3. v[1] = Text!LeadBits(e[1])
      BY <1>6, <2>1, <2>2 DEF W
    <2>4. \A q \in 2 .. n : v[q] = v[q - 1] * 64 + (e[q] % 64)
      <3> SUFFICES ASSUME NEW q \in 2 .. n PROVE v[q] = v[q - 1] * 64 + (e[q] % 64)
        OBVIOUS
      <3> DEFINE at1 == n - q + 1
      <3>1. at1 \in 1 .. 5 /\ at1 + 1 = n - (q - 1) + 1 /\ q - 1 \in 1 .. n /\ q \in 1 .. n
        BY <1>3
      <3>2. v[q] = code \div W[at1] /\ e[q] % 64 = (code \div W[at1]) % 64
        BY <1>5, <2>1, <3>1
      <3>3. v[q - 1] = code \div W[at1 + 1]
        BY <2>1, <3>1
      <3> HIDE DEF at1, v
      <3> QED  BY <1>2, <3>1, <3>2, <3>3
    <2> HIDE DEF v
    <2> QED  BY <1>2, <2>1, <2>2, <2>3, <2>4 DEF Shifts
  <1>9. Text!Length(e[1]) = n
    BY <1>6 DEF W
  <1> HIDE DEF v
  <1> QED  BY <1>5, <1>7, <1>8, <1>9 DEF Encodes, e

\* The first byte announces how many there are and keeps its own bits.
LEMMA Leads ==
    /\ \A b \in 0 .. 127 : Text!Length(b) = 1 /\ Text!LeadBits(b) = b
    /\ \A a \in 0 .. 31 : Text!Length(192 + a) = 2 /\ Text!LeadBits(192 + a) = a
    /\ \A a \in 0 .. 15 : Text!Length(224 + a) = 3 /\ Text!LeadBits(224 + a) = a
    /\ \A a \in 0 .. 7 : Text!Length(240 + a) = 4 /\ Text!LeadBits(240 + a) = a
    /\ \A a \in 0 .. 3 : Text!Length(248 + a) = 5 /\ Text!LeadBits(248 + a) = a
    /\ \A a \in 0 .. 1 : Text!Length(252 + a) = 6 /\ Text!LeadBits(252 + a) = a
  <1>1. ASSUME NEW b \in 0 .. 127 PROVE Text!Length(b) = 1 /\ Text!LeadBits(b) = b
    <2>1. Text!Length(b) = 1
      BY DEF Text!Length
    <2> QED  BY <2>1 DEF Text!LeadBits
  <1>2. ASSUME NEW a \in 0 .. 31 PROVE Text!Length(192 + a) = 2 /\ Text!LeadBits(192 + a) = a
    <2>1. Text!Length(192 + a) = 2
      BY DEF Text!Length
    <2>2. (192 + a) % 32 = a
      OBVIOUS
    <2> QED  BY <2>1, <2>2 DEF Text!LeadBits
  <1>3. ASSUME NEW a \in 0 .. 15 PROVE Text!Length(224 + a) = 3 /\ Text!LeadBits(224 + a) = a
    <2>1. Text!Length(224 + a) = 3
      BY DEF Text!Length
    <2>2. (224 + a) % 16 = a
      OBVIOUS
    <2> QED  BY <2>1, <2>2 DEF Text!LeadBits
  <1>4. ASSUME NEW a \in 0 .. 7 PROVE Text!Length(240 + a) = 4 /\ Text!LeadBits(240 + a) = a
    <2>1. Text!Length(240 + a) = 4
      BY DEF Text!Length
    <2>2. (240 + a) % 8 = a
      OBVIOUS
    <2> QED  BY <2>1, <2>2 DEF Text!LeadBits
  <1>5. ASSUME NEW a \in 0 .. 3 PROVE Text!Length(248 + a) = 5 /\ Text!LeadBits(248 + a) = a
    <2>1. Text!Length(248 + a) = 5
      BY DEF Text!Length
    <2>2. (248 + a) % 4 = a
      OBVIOUS
    <2> QED  BY <2>1, <2>2 DEF Text!LeadBits
  <1>6. ASSUME NEW a \in 0 .. 1 PROVE Text!Length(252 + a) = 6 /\ Text!LeadBits(252 + a) = a
    <2>1. Text!Length(252 + a) = 6
      BY DEF Text!Length
    <2>2. (252 + a) % 2 = a
      OBVIOUS
    <2> QED  BY <2>1, <2>2 DEF Text!LeadBits
  <1> QED  BY <1>1, <1>2, <1>3, <1>4, <1>5, <1>6

LEMMA OneEncodes == ASSUME NEW code \in 0 .. 127, NEW e, e = <<code>> PROVE Encodes(e, code)
  <1> DEFINE v == [q \in 1 .. 1 |-> code]
  <1>1. e \in Files /\ Len(e) = 1 /\ e[1] = code
    BY DEF Files, Octets
  <1>2. v \in [1 .. 1 -> Nat] /\ v[1] = code /\ 2 .. 1 = {}
    OBVIOUS
  <1>3. Text!Length(code) = 1 /\ Text!LeadBits(code) = code
    BY Leads
  <1> HIDE DEF v
  <1>4. Shifts(v, e, 1)
    BY <1>1, <1>2, <1>3 DEF Shifts
  <1> QED  BY <1>1, <1>2, <1>3, <1>4 DEF Encodes

\* What is left of a code point for the first byte.
LEMMA Highest ==
    /\ Text!Weight[2] = 64 /\ Text!Weight[3] = 4096 /\ Text!Weight[4] = 262144
    /\ Text!Weight[5] = 16777216 /\ Text!Weight[6] = 1073741824
    /\ \A code \in Nat :
         /\ code < 2048 => code \div 64 \in 0 .. 31
         /\ code < 65536 => code \div 4096 \in 0 .. 15
         /\ code < 2097152 => code \div 262144 \in 0 .. 7
         /\ code < 67108864 => code \div 16777216 \in 0 .. 3
         /\ code <= 2147483647 => code \div 1073741824 \in 0 .. 1
  <1>1. /\ Text!Weight[2] = 64 /\ Text!Weight[3] = 4096 /\ Text!Weight[4] = 262144
        /\ Text!Weight[5] = 16777216 /\ Text!Weight[6] = 1073741824
    BY SMT DEF Text!Weight
  <1>2. \A code \in Nat : code < 2048 => code \div 64 \in 0 .. 31
    BY SMT
  <1>3. \A code \in Nat : code < 65536 => code \div 4096 \in 0 .. 15
    BY SMT
  <1>4. \A code \in Nat : code < 2097152 => code \div 262144 \in 0 .. 7
    BY SMT
  <1>5. \A code \in Nat : code < 67108864 => code \div 16777216 \in 0 .. 3
    BY SMT
  <1>6. \A code \in Nat : code <= 2147483647 => code \div 1073741824 \in 0 .. 1
    BY SMT
  <1> QED  BY <1>1, <1>2, <1>3, <1>4, <1>5, <1>6, SMT

LEMMA SpreadsEncode ==
    ASSUME NEW code \in Nat
    PROVE  /\ code < 2048 => Encodes(Text!Spread(192, code, 2), code)
           /\ code < 65536 => Encodes(Text!Spread(224, code, 3), code)
           /\ code < 2097152 => Encodes(Text!Spread(240, code, 4), code)
           /\ code < 67108864 => Encodes(Text!Spread(248, code, 5), code)
           /\ code <= 2147483647 => Encodes(Text!Spread(252, code, 6), code)
  <1>1. ASSUME code < 2048 PROVE Encodes(Text!Spread(192, code, 2), code)
    <2> DEFINE a == code \div Text!Weight[2]
    <2>1. a \in 0 .. 31
      BY <1>1, Highest, SMT
    <2> HIDE DEF a
    <2>2. Text!Length(192 + a) = 2 /\ Text!LeadBits(192 + a) = a /\ 192 + a \in Octets
      BY <2>1, Leads DEF Octets
    <2> DEFINE n == 2
               mark == 192
    <2>3. /\ n \in 2 .. 6 /\ mark \in Nat /\ mark + code \div Text!Weight[n] \in Octets
          /\ Text!Length(mark + code \div Text!Weight[n]) = n
          /\ Text!LeadBits(mark + code \div Text!Weight[n]) = code \div Text!Weight[n]
      BY <2>2 DEF a
    <2> HIDE DEF n, mark
    <2>4. Encodes(Text!Spread(mark, code, n), code)
      BY <2>3, SpreadEncodes
    <2> QED  BY <2>4 DEF n, mark
  <1>2. ASSUME code < 65536 PROVE Encodes(Text!Spread(224, code, 3), code)
    <2> DEFINE a == code \div Text!Weight[3]
    <2>1. a \in 0 .. 15
      BY <1>2, Highest, SMT
    <2> HIDE DEF a
    <2>2. Text!Length(224 + a) = 3 /\ Text!LeadBits(224 + a) = a /\ 224 + a \in Octets
      BY <2>1, Leads DEF Octets
    <2> DEFINE n == 3
               mark == 224
    <2>3. /\ n \in 2 .. 6 /\ mark \in Nat /\ mark + code \div Text!Weight[n] \in Octets
          /\ Text!Length(mark + code \div Text!Weight[n]) = n
          /\ Text!LeadBits(mark + code \div Text!Weight[n]) = code \div Text!Weight[n]
      BY <2>2 DEF a
    <2> HIDE DEF n, mark
    <2>4. Encodes(Text!Spread(mark, code, n), code)
      BY <2>3, SpreadEncodes
    <2> QED  BY <2>4 DEF n, mark
  <1>3. ASSUME code < 2097152 PROVE Encodes(Text!Spread(240, code, 4), code)
    <2> DEFINE a == code \div Text!Weight[4]
    <2>1. a \in 0 .. 7
      BY <1>3, Highest, SMT
    <2> HIDE DEF a
    <2>2. Text!Length(240 + a) = 4 /\ Text!LeadBits(240 + a) = a /\ 240 + a \in Octets
      BY <2>1, Leads DEF Octets
    <2> DEFINE n == 4
               mark == 240
    <2>3. /\ n \in 2 .. 6 /\ mark \in Nat /\ mark + code \div Text!Weight[n] \in Octets
          /\ Text!Length(mark + code \div Text!Weight[n]) = n
          /\ Text!LeadBits(mark + code \div Text!Weight[n]) = code \div Text!Weight[n]
      BY <2>2 DEF a
    <2> HIDE DEF n, mark
    <2>4. Encodes(Text!Spread(mark, code, n), code)
      BY <2>3, SpreadEncodes
    <2> QED  BY <2>4 DEF n, mark
  <1>4. ASSUME code < 67108864 PROVE Encodes(Text!Spread(248, code, 5), code)
    <2> DEFINE a == code \div Text!Weight[5]
    <2>1. a \in 0 .. 3
      BY <1>4, Highest, SMT
    <2> HIDE DEF a
    <2>2. Text!Length(248 + a) = 5 /\ Text!LeadBits(248 + a) = a /\ 248 + a \in Octets
      BY <2>1, Leads DEF Octets
    <2> DEFINE n == 5
               mark == 248
    <2>3. /\ n \in 2 .. 6 /\ mark \in Nat /\ mark + code \div Text!Weight[n] \in Octets
          /\ Text!Length(mark + code \div Text!Weight[n]) = n
          /\ Text!LeadBits(mark + code \div Text!Weight[n]) = code \div Text!Weight[n]
      BY <2>2 DEF a
    <2> HIDE DEF n, mark
    <2>4. Encodes(Text!Spread(mark, code, n), code)
      BY <2>3, SpreadEncodes
    <2> QED  BY <2>4 DEF n, mark
  <1>5. ASSUME code <= 2147483647 PROVE Encodes(Text!Spread(252, code, 6), code)
    <2> DEFINE a == code \div Text!Weight[6]
    <2>1. a \in 0 .. 1
      BY <1>5, Highest, SMT
    <2> HIDE DEF a
    <2>2. Text!Length(252 + a) = 6 /\ Text!LeadBits(252 + a) = a /\ 252 + a \in Octets
      BY <2>1, Leads DEF Octets
    <2> DEFINE n == 6
               mark == 252
    <2>3. /\ n \in 2 .. 6 /\ mark \in Nat /\ mark + code \div Text!Weight[n] \in Octets
          /\ Text!Length(mark + code \div Text!Weight[n]) = n
          /\ Text!LeadBits(mark + code \div Text!Weight[n]) = code \div Text!Weight[n]
      BY <2>2 DEF a
    <2> HIDE DEF n, mark
    <2>4. Encodes(Text!Spread(mark, code, n), code)
      BY <2>3, SpreadEncodes
    <2> QED  BY <2>4 DEF n, mark
  <1> QED  BY <1>1, <1>2, <1>3, <1>4, <1>5

\* Both encoders.
LEMMA Encoded ==
    ASSUME NEW code \in Nat, code < 65536, NEW byte, code < 128 => byte = code
    PROVE  Encodes(Text!Encode(code, byte), code)
  <1>1. CASE code < 128
    <2>1. Text!Encode(code, byte) = <<byte>>
      BY <1>1, SMT DEF Text!Encode
    <2>2. byte = code /\ code \in 0 .. 127
      BY <1>1, SMT
    <2> DEFINE e == Text!Encode(code, byte)
    <2>3. e = <<code>>
      BY <2>1, <2>2, SMT
    <2> HIDE DEF e
    <2>4. Encodes(e, code)
      BY <2>2, <2>3, OneEncodes, SMT
    <2> QED  BY <2>4, SMT DEF e
  <1>2. CASE 128 <= code /\ code < 2048
    <2>1. Text!Encode(code, byte) = Text!Spread(192, code, 2)
      BY <1>2, SMT DEF Text!Encode
    <2> QED  BY <1>2, <2>1, SpreadsEncode, SMT
  <1>3. CASE 2048 <= code
    <2>1. Text!Encode(code, byte) = Text!Spread(224, code, 3)
      BY <1>3, SMT DEF Text!Encode
    <2> QED  BY <1>3, <2>1, SpreadsEncode, SMT
  <1> QED  BY <1>1, <1>2, <1>3, SMT

LEMMA UcsEncoded ==
    ASSUME NEW code \in Int, Text!toml_ucs_to_utf8(code) # <<>>
    PROVE  Encodes(Text!toml_ucs_to_utf8(code), code)
  <1> DEFINE e == Text!toml_ucs_to_utf8(code)
             banned == (55296 <= code /\ code <= 57343) \/ code \in {65534, 65535}
  <1>0. ~banned /\ code \in Nat
    BY SMT DEF Text!toml_ucs_to_utf8
  <1>1. CASE code < 128
    <2>1. e = <<code>>
      BY <1>0, <1>1, SMT DEF Text!toml_ucs_to_utf8
    <2>2. code \in 0 .. 127
      BY <1>0, <1>1
    <2> HIDE DEF e
    <2>3. Encodes(e, code)
      BY <2>1, <2>2, OneEncodes
    <2> QED  BY <2>3 DEF e
  <1>2. CASE 128 <= code /\ code < 2048
    <2>1. e = Text!Spread(192, code, 2)
      BY <1>0, <1>2, SMT DEF Text!toml_ucs_to_utf8
    <2> QED  BY <1>0, <1>2, <2>1, SpreadsEncode, SMT
  <1>3. CASE 2048 <= code /\ code < 65536
    <2>1. e = Text!Spread(224, code, 3)
      BY <1>0, <1>3, SMT DEF Text!toml_ucs_to_utf8
    <2> QED  BY <1>0, <1>3, <2>1, SpreadsEncode, SMT
  <1>4. CASE 65536 <= code /\ code < 2097152
    <2>1. e = Text!Spread(240, code, 4)
      BY <1>0, <1>4, SMT DEF Text!toml_ucs_to_utf8
    <2> QED  BY <1>0, <1>4, <2>1, SpreadsEncode, SMT
  <1>5. CASE 2097152 <= code /\ code < 67108864
    <2>1. e = Text!Spread(248, code, 5)
      BY <1>0, <1>5, SMT DEF Text!toml_ucs_to_utf8
    <2> QED  BY <1>0, <1>5, <2>1, SpreadsEncode, SMT
  <1>6. CASE 67108864 <= code /\ code <= 2147483647
    <2>1. e = Text!Spread(252, code, 6)
      BY <1>0, <1>6, SMT DEF Text!toml_ucs_to_utf8
    <2> QED  BY <1>0, <1>6, <2>1, SpreadsEncode, SMT
  <1>7. code <= 2147483647
    BY <1>0, SMT DEF Text!toml_ucs_to_utf8
  <1> QED  BY <1>0, <1>1, <1>2, <1>3, <1>4, <1>5, <1>6, <1>7, SMT

\* toml.c's loop over the bytes.
ShiftsAs(g, s, n) == g = [q \in 1 .. n |-> IF q = 1 THEN Text!LeadBits(s[1]) ELSE g[q - 1] * 64 + (s[q] % 64)]

\* What was encoded is read from the front of a text.
LEMMA Decodes ==
    ASSUME NEW e, NEW code, Encodes(e, code), NEW s \in Files, Len(e) <= Len(s), \A q \in 1 .. Len(e) : s[q] = e[q]
    PROVE  Text!toml_utf8_to_ucs(s) = [code |-> code, used |-> Len(e)]
  <1> DEFINE n == Len(e)
  <1>1. /\ n \in 1 .. 6 /\ Text!Length(e[1]) = n
        /\ \A q \in 2 .. n : e[q] \in 128 .. 191
        /\ \E v : Shifts(v, e, n) /\ v[n] = code
    BY DEF Encodes
  <1>2. PICK v : Shifts(v, e, n) /\ v[n] = code
    BY <1>1
  <1>3. \A q \in 1 .. n : s[q] = e[q]
    OBVIOUS
  <1>4. n <= Len(s) /\ Len(s) \in Nat
    BY DEF Files
  <1> HIDE DEF n
  <1>5. v = [q \in 1 .. n |-> IF q = 1 THEN Text!LeadBits(s[1]) ELSE v[q - 1] * 64 + (s[q] % 64)]
    <2>1. v \in [1 .. n -> Nat] /\ v[1] = Text!LeadBits(e[1])
          /\ \A q \in 2 .. n : v[q] = v[q - 1] * 64 + (e[q] % 64)
      BY <1>2 DEF Shifts
    <2>2. s[1] = e[1] /\ \A q \in 2 .. n : s[q] = e[q]
      BY <1>1, <1>3
    <2>3. \A q \in 1 .. n : v[q] = IF q = 1 THEN Text!LeadBits(s[1]) ELSE v[q - 1] * 64 + (s[q] % 64)
      <3> SUFFICES ASSUME NEW q \in 1 .. n
                   PROVE  v[q] = IF q = 1 THEN Text!LeadBits(s[1]) ELSE v[q - 1] * 64 + (s[q] % 64)
        OBVIOUS
      <3>1. CASE q = 1
        BY <2>1, <2>2, <3>1
      <3>2. CASE q # 1
        <4>1. q \in 2 .. n
          BY <1>1, <3>2
        <4> QED  BY <2>1, <2>2, <3>2, <4>1
      <3> QED  BY <3>1, <3>2
    <2> QED  BY <2>1, <2>3
  <1> DEFINE g == CHOOSE h : ShiftsAs(h, s, n)
  <1>6. ShiftsAs(g, s, n)
    BY <1>5 DEF ShiftsAs
  <1>7. Text!Value(s, n) = g[n]
    BY DEF Text!Value, ShiftsAs
  <1> HIDE DEF g
  <1>8. g[n] = v[n]
    <2>1. \A q \in 1 .. n : /\ g[q] = IF q = 1 THEN Text!LeadBits(s[1]) ELSE g[q - 1] * 64 + (s[q] % 64)
                            /\ v[q] = IF q = 1 THEN Text!LeadBits(s[1]) ELSE v[q - 1] * 64 + (s[q] % 64)
      BY <1>5, <1>6 DEF ShiftsAs
    <2>2. 1 \in 1 .. n /\ g[1] = v[1]
      BY <1>1, <2>1
    <2>3. ASSUME NEW q \in 1 .. n, g[q] = v[q], q + 1 \in 1 .. n PROVE g[q + 1] = v[q + 1]
      <3>1. q + 1 # 1 /\ (q + 1) - 1 = q
        BY <1>1
      <3> QED  BY <2>1, <2>3, <3>1
    <2>4. \A q \in 1 .. 5 : q + 1 \in 1 .. n => q \in 1 .. n
      BY <1>1
    <2>5. n >= 2 => g[2] = v[2]
      BY <1>1, <2>2, <2>3
    <2>6. n >= 3 => g[3] = v[3]
      BY <1>1, <2>5, <2>3
    <2>7. n >= 4 => g[4] = v[4]
      BY <1>1, <2>6, <2>3
    <2>8. n >= 5 => g[5] = v[5]
      BY <1>1, <2>7, <2>3
    <2>9. n >= 6 => g[6] = v[6]
      BY <1>1, <2>8, <2>3
    <2> QED  BY <1>1, <2>2, <2>5, <2>6, <2>7, <2>8, <2>9
  <1>9. Text!Length(s[1]) = n
    BY <1>1, <1>3
  <1>10. ~(n = 0 \/ Len(s) < n \/ \E q \in 2 .. n : s[q] \notin 128 .. 191)
    <2>1. n # 0 /\ ~(Len(s) < n)
      BY <1>1, <1>4
    <2>2. \A q \in 2 .. n : q \in 1 .. n
      BY <1>1
    <2>3. \A q \in 2 .. n : s[q] \in 128 .. 191
      BY <1>1, <1>3, <2>2, Zenon
    <2> QED  BY <2>1, <2>3
  <1>11. Text!toml_utf8_to_ucs(s) = [code |-> Text!Value(s, n), used |-> n]
    BY <1>9, <1>10 DEF Text!toml_utf8_to_ucs
  <1> QED  BY <1>2, <1>7, <1>8, <1>11 DEF n

\* What is read at place a of a text, and how far it leads.
ReadAt(text, a) == Text!toml_utf8_to_ucs(SubSeq(text, a, Len(text)))

LEMMA TailOfText ==
    ASSUME NEW text \in Files, NEW a \in 1 .. Len(text)
    PROVE  /\ SubSeq(text, a, Len(text)) \in Files /\ Len(text) \in Nat
           /\ Len(SubSeq(text, a, Len(text))) = Len(text) - a + 1
           /\ \A q \in 1 .. Len(text) - a + 1 : SubSeq(text, a, Len(text))[q] = text[a - 1 + q]
  BY DEF Files

LEMMA Leaps ==
    ASSUME NEW text \in Files, NEW a \in 1 .. Len(text)
    PROVE  a + ReadAt(text, a).used \in a + 1 .. Len(text) + 1
  <1> DEFINE s == SubSeq(text, a, Len(text))
             r == Text!toml_utf8_to_ucs(s)
             n == Text!Length(s[1])
             L == Len(text)
  <1>1. L \in Nat /\ a \in 1 .. L /\ Len(s) = L - a + 1
    BY TailOfText
  <1>2. n \in 0 .. 6
    BY DEF Text!Length
  <1>3. r.used = 1 \/ (r.used = n /\ n # 0 /\ ~(Len(s) < n))
    <2>1. CASE n = 0 \/ Len(s) < n \/ \E q \in 2 .. n : s[q] \notin 128 .. 191
      <3>1. r = [code |-> -1, used |-> 1]
        BY <2>1 DEF Text!toml_utf8_to_ucs
      <3> QED  BY <3>1
    <2>2. CASE ~(n = 0 \/ Len(s) < n \/ \E q \in 2 .. n : s[q] \notin 128 .. 191)
      <3>1. r = [code |-> Text!Value(s, n), used |-> n]
        BY <2>2 DEF Text!toml_utf8_to_ucs
      <3> QED  BY <2>2, <3>1
    <2> QED  BY <2>1, <2>2
  <1>4. ReadAt(text, a) = r
    BY DEF ReadAt
  <1> HIDE DEF s, r, n, L
  <1>5. r.used \in Nat /\ r.used >= 1 /\ a + r.used <= L + 1
    BY <1>1, <1>2, <1>3
  <1> QED  BY <1>1, <1>4, <1>5 DEF L

\* toml.c's reading of a text, from each place to the end.
Reads(g, text) ==
    g = [a \in 1 .. Len(text) + 1 |->
           IF a > Len(text) THEN <<>>
           ELSE LET r == Text!toml_utf8_to_ucs(SubSeq(text, a, Len(text)))
                IN  <<r.code>> \o g[a + r.used]]

\* The same from place a on, for code points of a set.
ReadsFrom(g, text, a, S) ==
    /\ g \in [a .. Len(text) + 1 -> Seq(S)] /\ g[Len(text) + 1] = <<>>
    /\ \A q \in a .. Len(text) : g[q] = <<ReadAt(text, q).code>> \o g[q + ReadAt(text, q).used]

LEMMA ReadsExist == ASSUME NEW text \in Files PROVE \E g : Reads(g, text)
  <1> DEFINE L == Len(text)
             S == {ReadAt(text, q).code : q \in 1 .. L}
             P(m) == m <= L => \E g : ReadsFrom(g, text, L + 1 - m, S)
             Good == {m \in Nat : P(m)}
  <1>0. L \in Nat /\ \A q \in 1 .. L : ReadAt(text, q).code \in S
    BY DEF Files
  <1>1. \A q \in 1 .. L : q + ReadAt(text, q).used \in q + 1 .. L + 1
    BY Leaps
  <1> HIDE DEF S, L
  <1>2. P(0)
    <2> DEFINE g == [q \in L + 1 .. L + 1 |-> <<>>]
    <2>1. L + 1 - 0 = L + 1 /\ L + 1 .. L + 1 = {L + 1} /\ L + 1 .. L = {}
      BY <1>0
    <2>2. <<>> \in Seq(S)
      OBVIOUS
    <2>3. g \in [L + 1 .. L + 1 -> Seq(S)] /\ g[L + 1] = <<>>
      BY <2>1, <2>2
    <2> HIDE DEF g
    <2>4. ReadsFrom(g, text, L + 1, S)
      BY <2>1, <2>3 DEF ReadsFrom, L
    <2> QED  BY <2>1, <2>4
  <1>3. ASSUME NEW m \in Nat, P(m) PROVE P(m + 1)
    <2> SUFFICES ASSUME m + 1 <= L PROVE \E g : ReadsFrom(g, text, L + 1 - (m + 1), S)
      OBVIOUS
    <2> DEFINE a == L - m
    <2>1. a \in 1 .. L /\ L + 1 - m = a + 1 /\ L + 1 - (m + 1) = a /\ m <= L
      BY <1>0
    <2>2. PICK h : ReadsFrom(h, text, a + 1, S)
      BY <1>3, <2>1
    <2> HIDE DEF a
    <2>3. /\ h \in [a + 1 .. L + 1 -> Seq(S)] /\ h[L + 1] = <<>>
          /\ \A q \in a + 1 .. L : h[q] = <<ReadAt(text, q).code>> \o h[q + ReadAt(text, q).used]
      BY <2>2 DEF ReadsFrom, L
    <2> DEFINE r    == ReadAt(text, a)
               here == <<r.code>> \o h[a + r.used]
               g    == [q \in a .. L + 1 |-> IF q = a THEN here ELSE h[q]]
    <2>4. r.code \in S /\ a + r.used \in a + 1 .. L + 1
      BY <1>0, <1>1, <2>1
    <2> HIDE DEF r
    <2>5. here \in Seq(S)
      BY <2>3, <2>4
    <2>6. \A q \in a .. L + 1 : q # a => q \in a + 1 .. L + 1
      BY <1>0, <2>1
    <2>7. g \in [a .. L + 1 -> Seq(S)]
      BY <2>3, <2>5, <2>6
    <2>8. g[a] = here /\ \A q \in a + 1 .. L + 1 : g[q] = h[q]
      <3>1. a \in a .. L + 1 /\ \A q \in a + 1 .. L + 1 : q # a /\ q \in a .. L + 1
        BY <1>0, <2>1
      <3> QED  BY <3>1
    <2> HIDE DEF g
    <2>9. g[L + 1] = <<>>
      <3>1. L + 1 \in a + 1 .. L + 1
        BY <1>0, <2>1
      <3> QED  BY <2>3, <2>8, <3>1
    <2>10. ASSUME NEW q \in a .. L PROVE g[q] = <<ReadAt(text, q).code>> \o g[q + ReadAt(text, q).used]
      <3>1. CASE q = a
        <4>1. g[a + r.used] = h[a + r.used]
          BY <2>4, <2>8
        <4> QED  BY <2>8, <3>1, <4>1 DEF r
      <3>2. CASE q # a
        <4> DEFINE u == q + ReadAt(text, q).used
        <4>1. q \in a + 1 .. L /\ q \in a + 1 .. L + 1 /\ q \in 1 .. L
          BY <1>0, <2>1, <3>2
        <4>2. u \in q + 1 .. L + 1
          BY <1>1, <4>1
        <4> HIDE DEF u
        <4>3. u \in a + 1 .. L + 1
          BY <1>0, <2>1, <4>1, <4>2
        <4>4. g[q] = h[q] /\ g[u] = h[u]
          BY <2>8, <4>1, <4>3
        <4>5. h[q] = <<ReadAt(text, q).code>> \o h[u]
          BY <2>3, <4>1 DEF u
        <4> QED  BY <4>4, <4>5 DEF u
      <3> QED  BY <3>1, <3>2
    <2>11. ReadsFrom(g, text, a, S)
      BY <2>7, <2>9, <2>10 DEF ReadsFrom, L
    <2> QED  BY <2>1, <2>11
  <1> HIDE DEF P
  <1>4. \A m \in Nat : P(m)
    <2>1. Good \subseteq Nat /\ 0 \in Good /\ \A m \in Good : m + 1 \in Good
      BY <1>2, <1>3
    <2> HIDE DEF Good
    <2>2. Good = Nat
      BY <2>1, Inductive
    <2> QED  BY <2>2 DEF Good
  <1>5. P(L)
    BY <1>0, <1>4
  <1>6. PICK g : ReadsFrom(g, text, 1, S)
    <2>1. L <= L /\ L + 1 - L = 1
      BY <1>0
    <2> QED  BY <1>5, <2>1 DEF P
  <1>7. /\ DOMAIN g = 1 .. L + 1 /\ g = [a \in 1 .. L + 1 |-> g[a]] /\ g[L + 1] = <<>>
        /\ \A q \in 1 .. L : g[q] = <<ReadAt(text, q).code>> \o g[q + ReadAt(text, q).used]
    BY <1>6 DEF ReadsFrom, L
  <1>8. ASSUME NEW a \in 1 .. L + 1
        PROVE  g[a] = IF a > L THEN <<>>
                      ELSE LET r == Text!toml_utf8_to_ucs(SubSeq(text, a, L)) IN <<r.code>> \o g[a + r.used]
    <2>1. CASE a > L
      <3>1. a = L + 1
        BY <1>0, <2>1
      <3> QED  BY <1>7, <2>1, <3>1
    <2>2. CASE ~(a > L)
      <3>1. a \in 1 .. L
        BY <1>0, <2>2
      <3>2. g[a] = <<ReadAt(text, a).code>> \o g[a + ReadAt(text, a).used]
        BY <1>7, <3>1
      <3> QED  BY <2>2, <3>2 DEF ReadAt, L
    <2> QED  BY <2>1, <2>2
  <1>9. g = [a \in 1 .. L + 1 |->
               IF a > L THEN <<>>
               ELSE LET r == Text!toml_utf8_to_ucs(SubSeq(text, a, L)) IN <<r.code>> \o g[a + r.used]]
    BY <1>7, <1>8, Zenon
  <1> QED  BY <1>9 DEF Reads, L

\* What is decoded is what is read from the first place.
LEMMA DecodedIs ==
    ASSUME NEW text \in Files
    PROVE  \E g : /\ Text!Decoded(text) = g[1] /\ g[Len(text) + 1] = <<>>
                  /\ \A q \in 1 .. Len(text) : g[q] = <<ReadAt(text, q).code>> \o g[q + ReadAt(text, q).used]
  <1> DEFINE g == CHOOSE h : Reads(h, text)
  <1>1. Reads(g, text)
    BY ReadsExist
  <1>2. Text!Decoded(text) = g[1]
    BY DEF Text!Decoded, Reads
  <1> HIDE DEF g
  <1>3. Len(text) \in Nat
    BY DEF Files
  <1>4. \A a \in 1 .. Len(text) + 1 :
          g[a] = IF a > Len(text) THEN <<>>
                 ELSE LET r == Text!toml_utf8_to_ucs(SubSeq(text, a, Len(text))) IN <<r.code>> \o g[a + r.used]
    BY <1>1, Zenon DEF Reads
  <1>5. g[Len(text) + 1] = <<>>
    <2>1. Len(text) + 1 \in 1 .. Len(text) + 1 /\ Len(text) + 1 > Len(text)
      BY <1>3
    <2> QED  BY <1>4, <2>1
  <1>6. ASSUME NEW q \in 1 .. Len(text) PROVE g[q] = <<ReadAt(text, q).code>> \o g[q + ReadAt(text, q).used]
    <2>1. q \in 1 .. Len(text) + 1 /\ ~(q > Len(text))
      BY <1>3
    <2> QED  BY <1>4, <2>1 DEF ReadAt
  <1> QED  BY <1>2, <1>5, <1>6

\* The bytes e are in a text behind place a.
Stands(e, text, a) == a + Len(e) <= Len(text) /\ \A q \in 1 .. Len(e) : text[a + q] = e[q]

\* A text is the code points, one after the other: code n + 1 is behind off[n] bytes.
Spelled(text, codes, off) ==
    /\ text \in Files /\ codes \in Seq(Nat)
    /\ off \in [0 .. Len(codes) -> Nat] /\ off[0] = 0 /\ off[Len(codes)] = Len(text)
    /\ \A n \in 1 .. Len(codes) :
         \E e : Encodes(e, codes[n]) /\ off[n] = off[n - 1] + Len(e) /\ Stands(e, text, off[n - 1])

\* One code point is read where it stands.
LEMMA ReadsOne ==
    ASSUME NEW text \in Files, NEW e, NEW code, NEW a \in Nat, Encodes(e, code), Stands(e, text, a)
    PROVE  /\ a + 1 \in 1 .. Len(text) /\ Len(e) \in Nat
           /\ ReadAt(text, a + 1) = [code |-> code, used |-> Len(e)]
  <1> DEFINE s == SubSeq(text, a + 1, Len(text))
             n == Len(e)
             L == Len(text)
  <1>1. n \in 1 .. 6 /\ L \in Nat /\ a + n <= L /\ \A q \in 1 .. n : text[a + q] = e[q]
    BY DEF Encodes, Stands, Files
  <1> HIDE DEF n, L
  <1>2. a + 1 \in 1 .. L /\ n \in Nat
    BY <1>1
  <1>3. s \in Files /\ Len(s) = L - (a + 1) + 1 /\ \A q \in 1 .. L - (a + 1) + 1 : s[q] = text[(a + 1) - 1 + q]
    BY <1>2, TailOfText DEF L
  <1> HIDE DEF s
  <1>4. n <= Len(s) /\ \A q \in 1 .. n : q \in 1 .. L - (a + 1) + 1 /\ (a + 1) - 1 + q = a + q
    BY <1>1, <1>2, <1>3
  <1>5. \A q \in 1 .. n : s[q] = e[q]
    BY <1>1, <1>3, <1>4
  <1>6. Text!toml_utf8_to_ucs(s) = [code |-> code, used |-> n]
    BY <1>3, <1>4, <1>5, Decodes DEF n
  <1> QED  BY <1>2, <1>6 DEF n, L, s, ReadAt

\* A text is decoded to the code points it was made of.
LEMMA SpelledDecodes == ASSUME NEW text, NEW codes, NEW off, Spelled(text, codes, off)
                        PROVE  Text!Decoded(text) = codes
  <1> DEFINE N == Len(codes)
             L == Len(text)
  <1>1. /\ text \in Files /\ codes \in Seq(Nat) /\ N \in Nat
        /\ off \in [0 .. N -> Nat] /\ off[0] = 0 /\ off[N] = L
        /\ \A n \in 1 .. N : \E e : Encodes(e, codes[n]) /\ off[n] = off[n - 1] + Len(e) /\ Stands(e, text, off[n - 1])
    BY DEF Spelled
  <1>2. PICK g : /\ Text!Decoded(text) = g[1] /\ g[L + 1] = <<>>
                 /\ \A q \in 1 .. L : g[q] = <<ReadAt(text, q).code>> \o g[q + ReadAt(text, q).used]
    BY <1>1, DecodedIs
  <1> DEFINE P(m) == m <= N => g[off[N - m] + 1] = SubSeq(codes, N - m + 1, N)
             Good == {m \in Nat : P(m)}
  <1> HIDE DEF N, L
  <1>3. P(0)
    <2>1. N - 0 = N /\ SubSeq(codes, N + 1, N) = <<>>
      BY <1>1
    <2> QED  BY <1>1, <1>2, <2>1
  <1>4. ASSUME NEW m \in Nat, P(m) PROVE P(m + 1)
    <2> SUFFICES ASSUME m + 1 <= N PROVE g[off[N - (m + 1)] + 1] = SubSeq(codes, N - (m + 1) + 1, N)
      OBVIOUS
    <2> DEFINE n == N - m
    <2>1. n \in 1 .. N /\ n - 1 \in 0 .. N /\ N - (m + 1) = n - 1 /\ N - (m + 1) + 1 = n /\ m <= N
      BY <1>1
    <2>2. g[off[n] + 1] = SubSeq(codes, n + 1, N)
      BY <1>4, <2>1
    <2> HIDE DEF n
    <2> DEFINE a == off[n - 1]
    <2>3. PICK e : Encodes(e, codes[n]) /\ off[n] = a + Len(e) /\ Stands(e, text, a)
      BY <1>1, <2>1
    <2>4. a \in Nat
      BY <1>1, <2>1
    <2> HIDE DEF a
    <2>5. a + 1 \in 1 .. L /\ Len(e) \in Nat /\ ReadAt(text, a + 1) = [code |-> codes[n], used |-> Len(e)]
      BY <1>1, <2>3, <2>4, ReadsOne DEF L
    <2>6. g[a + 1] = <<ReadAt(text, a + 1).code>> \o g[(a + 1) + ReadAt(text, a + 1).used]
      BY <1>2, <2>5
    <2>7. ReadAt(text, a + 1).code = codes[n] /\ ReadAt(text, a + 1).used = Len(e)
      BY <2>5
    <2>8. (a + 1) + Len(e) = off[n] + 1
      BY <2>3, <2>4, <2>5
    <2>9. g[a + 1] = <<codes[n]>> \o SubSeq(codes, n + 1, N)
      BY <2>2, <2>6, <2>7, <2>8
    <2>10. <<codes[n]>> \o SubSeq(codes, n + 1, N) = SubSeq(codes, n, N)
      <3>1. codes \in Seq(Nat) /\ n \in 1 .. Len(codes) /\ N = Len(codes)
        BY <1>1, <2>1 DEF N
      <3> QED  BY <3>1
    <2> QED  BY <2>1, <2>9, <2>10 DEF a
  <1> HIDE DEF P
  <1>5. \A m \in Nat : P(m)
    <2>1. Good \subseteq Nat /\ 0 \in Good /\ \A m \in Good : m + 1 \in Good
      BY <1>3, <1>4
    <2> HIDE DEF Good
    <2>2. Good = Nat
      BY <2>1, Inductive
    <2> QED  BY <2>2 DEF Good
  <1>6. N <= N /\ N - N = 0 /\ N - N + 1 = 1
    BY <1>1
  <1>7. P(N)
    BY <1>1, <1>5
  <1>8. g[1] = SubSeq(codes, 1, N)
    <2>1. g[off[0] + 1] = SubSeq(codes, 1, N)
      BY <1>6, <1>7 DEF P
    <2>2. off[0] + 1 = 1
      BY <1>1
    <2> QED  BY <2>1, <2>2
  <1>9. SubSeq(codes, 1, N) = codes
    BY <1>1 DEF N
  <1> QED  BY <1>2, <1>8, <1>9

\* A code point more.
LEMMA SpelledLonger ==
    ASSUME NEW text, NEW codes, NEW off, Spelled(text, codes, off), NEW e, NEW code \in Nat, Encodes(e, code)
    PROVE  \E o : Spelled(text \o e, Append(codes, code), o)
  <1> DEFINE N  == Len(codes)
             L  == Len(text)
             tx == text \o e
             cs == Append(codes, code)
             o  == [n \in 0 .. N + 1 |-> IF n = N + 1 THEN L + Len(e) ELSE off[n]]
  <1>1. /\ text \in Files /\ codes \in Seq(Nat) /\ N \in Nat /\ L \in Nat
        /\ off \in [0 .. N -> Nat] /\ off[0] = 0 /\ off[N] = L
        /\ \A n \in 1 .. N : \E d : Encodes(d, codes[n]) /\ off[n] = off[n - 1] + Len(d) /\ Stands(d, text, off[n - 1])
    BY DEF Spelled, Files
  <1>2. e \in Files /\ Len(e) \in Nat
    BY DEF Encodes, Files
  <1>3. /\ tx \in Files /\ Len(tx) = L + Len(e)
        /\ \A q \in 1 .. L : tx[q] = text[q]
        /\ \A q \in 1 .. Len(e) : tx[L + q] = e[q]
    <2>1. text \in Seq(Octets) /\ e \in Seq(Octets)
      BY <1>1, <1>2 DEF Files
    <2> QED  BY <2>1 DEF Files
  <1>4. /\ cs \in Seq(Nat) /\ Len(cs) = N + 1 /\ cs[N + 1] = code
        /\ \A n \in 1 .. N : cs[n] = codes[n]
    BY <1>1
  <1> HIDE DEF N, L, tx, cs
  <1>5. o[N + 1] = L + Len(e) /\ \A n \in 0 .. N : o[n] = off[n]
    <2>1. N + 1 \in 0 .. N + 1 /\ \A n \in 0 .. N : n \in 0 .. N + 1 /\ n # N + 1
      BY <1>1
    <2> QED  BY <2>1
  <1>6. o \in [0 .. N + 1 -> Nat]
    <2>1. \A n \in 0 .. N + 1 : n # N + 1 => n \in 0 .. N
      BY <1>1
    <2>2. L + Len(e) \in Nat
      BY <1>1, <1>2
    <2> QED  BY <1>1, <2>1, <2>2
  <1> HIDE DEF o
  <1>7. o[0] = 0
    BY <1>1, <1>5
  <1>8. ASSUME NEW n \in 1 .. N + 1
        PROVE  \E d : Encodes(d, cs[n]) /\ o[n] = o[n - 1] + Len(d) /\ Stands(d, tx, o[n - 1])
    <2>1. CASE n = N + 1
      <3>1. n - 1 = N /\ N \in 0 .. N
        BY <1>1, <2>1
      <3>2. o[n - 1] = L /\ o[n] = L + Len(e) /\ cs[n] = code
        BY <1>1, <1>4, <1>5, <2>1, <3>1
      <3>3. Stands(e, tx, L)
        BY <1>1, <1>2, <1>3 DEF Stands
      <3> QED  BY <3>2, <3>3
    <2>2. CASE n # N + 1
      <3>1. n \in 1 .. N /\ n \in 0 .. N /\ n - 1 \in 0 .. N
        BY <1>1, <2>2
      <3>2. PICK d : Encodes(d, codes[n]) /\ off[n] = off[n - 1] + Len(d) /\ Stands(d, text, off[n - 1])
        BY <1>1, <3>1
      <3>3. o[n] = off[n] /\ o[n - 1] = off[n - 1] /\ cs[n] = codes[n] /\ off[n - 1] \in Nat
        BY <1>1, <1>4, <1>5, <3>1
      <3> DEFINE a == off[n - 1]
      <3>4. /\ a \in Nat /\ Len(d) \in Nat /\ a + Len(d) <= L
            /\ \A q \in 1 .. Len(d) : text[a + q] = d[q]
        BY <3>2, <3>3 DEF Stands, Encodes, Files, L
      <3> HIDE DEF a
      <3>5. a + Len(d) <= Len(tx) /\ \A q \in 1 .. Len(d) : a + q \in 1 .. L
        BY <1>1, <1>2, <1>3, <3>4
      <3>6. \A q \in 1 .. Len(d) : tx[a + q] = d[q]
        BY <1>3, <3>4, <3>5
      <3>7. Stands(d, tx, a)
        BY <3>5, <3>6 DEF Stands
      <3> QED  BY <3>2, <3>3, <3>7 DEF a
    <2> QED  BY <2>1, <2>2
  <1>9. Spelled(tx, cs, o)
    BY <1>3, <1>4, <1>5, <1>6, <1>7, <1>8 DEF Spelled
  <1> QED  BY <1>9 DEF tx, cs

LEMMA SpelledNothing == \E o : Spelled(<<>>, <<>>, o)
  <1> DEFINE o == [n \in 0 .. 0 |-> 0]
  <1>1. o \in [0 .. 0 -> Nat] /\ o[0] = 0
    OBVIOUS
  <1> HIDE DEF o
  <1>2. <<>> \in Files /\ <<>> \in Seq(Nat) /\ Len(<<>>) = 0 /\ 1 .. 0 = {}
    BY DEF Files
  <1>3. Spelled(<<>>, <<>>, o)
    BY <1>1, <1>2 DEF Spelled
  <1> QED  BY <1>3

\* Two bytes hold it.
Small(c) == c < 65536

\* What utf8_encoder has written, if it is UTF-8: code points, one by one.
Put == [n \in DOMAIN meant |-> Text!Written(meant[n])]

TextInv ==
    /\ lines \subseteq InBytes /\ table \in [InBytes -> Nat]
    /\ \A b \in InBytes : Small(table[b])
    /\ stage = "encode" => lines = {} /\ inf \in Seq(InBytes)
    /\ meant \in Seq([byte : InBytes, code : Nat])
    /\ Text!InUtf8 => \E off : Spelled(outf, Put, off)

\* The code points of a table are small, and what is shorter is.
LEMMA SmallCodes == /\ \A c \in Codes : c \in Nat /\ Small(c)
                    /\ \A b \in InBytes : b \in 0 .. 255 /\ Small(b)
                    /\ Small(0)
  <1>1. \A c \in Codes : c \in Nat /\ Small(c)
    BY TextAssumption, SMT DEF Small
  <1>2. InBytes \subseteq 0 .. 255
    BY TextAssumption, SMT
  <1>3. \A b \in 0 .. 255 : Small(b)
    BY SMT DEF Small
  <1>4. Small(0)
    BY SMT DEF Small
  <1> QED  BY <1>1, <1>2, <1>3, <1>4

\* The encoder of utf8_encoder, for what a table may hold.
LEMMA EntryEncoded ==
    ASSUME NEW b \in InBytes, NEW c \in Nat, Small(c), b < 128 \/ c >= 128
    PROVE  Encodes(Text!Encode(c, b), IF c < 128 THEN b ELSE c)
  <1>1. b \in 0 .. 255 /\ c < 65536
    BY SmallCodes, SMT DEF Small
  <1>2. CASE c >= 128
    <2>1. Encodes(Text!Encode(c, b), c)
      BY <1>1, <1>2, Encoded, SMT
    <2> QED  BY <1>2, <2>1, SMT
  <1>3. CASE c < 128
    <2>1. b \in 0 .. 127
      BY <1>1, <1>3, SMT
    <2>2. Text!Encode(c, b) = <<b>>
      BY <1>3, SMT DEF Text!Encode
    <2>4. Text!Encode(b, b) = <<b>>
      <3>1. b < 128 /\ b \in Nat
        BY <2>1, SMT
      <3>2. PICK d \in Nat : d = b
        BY <3>1
      <3>3. d < 128
        BY <3>1, <3>2
      <3>4. Text!Encode(d, d) = <<d>>
        BY <3>3, SMT DEF Text!Encode
      <3> QED  BY <3>2, <3>4
    <2>3. Encodes(Text!Encode(b, b), b)
      BY <2>1, Encoded, SMT
    <2> QED  BY <1>3, <2>2, <2>3, <2>4
  <1> QED  BY <1>2, <1>3, SMT

LEMMA ElementsOf == ASSUME NEW S, NEW s \in Seq(S) PROVE \A q \in 1 .. Len(s) : s[q] \in S
  OBVIOUS

LEMMA OneMoreOf ==
    ASSUME NEW n \in Nat, NEW s \in [1 .. n -> Nat], NEW w \in Nat
    PROVE  Append(s, w) = [q \in 1 .. n + 1 |-> IF q = n + 1 THEN w ELSE s[q]]
  <1>1. s \in Seq(Nat) /\ Len(s) = n
    OBVIOUS
  <1>2. /\ Append(s, w) \in Seq(Nat) /\ Len(Append(s, w)) = n + 1
        /\ \A q \in 1 .. n + 1 : Append(s, w)[q] = IF q = n + 1 THEN w ELSE s[q]
    BY <1>1
  <1> DEFINE a == Append(s, w)
  <1> HIDE DEF a
  <1>3. a \in [1 .. n + 1 -> Nat]
    <2>1. a \in Seq(Nat) /\ Len(a) = n + 1
      BY <1>2 DEF a
    <2>2. a \in [1 .. Len(a) -> Nat]
      BY <2>1
    <2> QED  BY <2>1, <2>2
  <1>4. a = [q \in 1 .. n + 1 |-> a[q]]
    BY <1>3
  <1>5. \A q \in 1 .. n + 1 : a[q] = IF q = n + 1 THEN w ELSE s[q]
    BY <1>2 DEF a
  <1>6. a = [q \in 1 .. n + 1 |-> IF q = n + 1 THEN w ELSE s[q]]
    BY <1>4, <1>5
  <1> QED  BY <1>6 DEF a

\* The output grows by what is written for one byte more.
LEMMA PutMore ==
    ASSUME NEW r \in [byte : InBytes, code : Nat], meant \in Seq([byte : InBytes, code : Nat]),
           meant' = Append(meant, r), Text!InUtf8'
    PROVE  /\ Text!InUtf8 /\ (r.byte < 128 \/ r.code >= 128)
           /\ Put' = Append(Put, Text!Written(r))
  <1> DEFINE n == Len(meant)
  <1>1. /\ n \in Nat /\ DOMAIN meant = 1 .. n /\ DOMAIN meant' = 1 .. n + 1
        /\ \A q \in 1 .. n : q \in 1 .. n + 1 /\ meant'[q] = meant[q]
        /\ n + 1 \in 1 .. n + 1 /\ meant'[n + 1] = r
        /\ \A q \in 1 .. n + 1 : q # n + 1 => q \in 1 .. n
    OBVIOUS
  <1>2. \A q \in DOMAIN meant' : meant'[q].byte < 128 \/ meant'[q].code >= 128
    BY DEF Text!InUtf8
  <1>3. Text!InUtf8 /\ (r.byte < 128 \/ r.code >= 128)
    BY <1>1, <1>2 DEF Text!InUtf8
  <1>4. Put = [q \in 1 .. n |-> Text!Written(meant[q])]
    BY <1>1 DEF Put
  <1>5. Put' = [q \in 1 .. n + 1 |-> Text!Written(meant'[q])]
    BY <1>1 DEF Put, Text!Written
  <1> DEFINE w == Text!Written(r)
  <1> HIDE DEF n, w
  <1>6. Append(Put, w) = [q \in 1 .. n + 1 |-> IF q = n + 1 THEN w ELSE Put[q]]
    <2>1. \A q \in 1 .. n : Text!Written(meant[q]) \in Nat
      <3>1. \A q \in 1 .. n : meant[q] \in [byte : InBytes, code : Nat]
        BY ElementsOf DEF n
      <3>2. \A b \in InBytes : b \in Nat
        <4>1. \A b \in InBytes : b \in 0 .. 255
          BY SmallCodes
        <4>2. \A b \in 0 .. 255 : b \in Nat
          OBVIOUS
        <4> QED  BY <4>1, <4>2
      <3> QED  BY <3>1, <3>2 DEF Text!Written
    <2>2. Put \in [1 .. n -> Nat]
      BY <1>4, <2>1
    <2>3. n \in Nat
      BY <1>1
    <2>4. w \in Nat
      <3>1. r.byte \in InBytes /\ r.code \in Nat
        OBVIOUS
      <3>2. r.byte \in Nat
        <4>1. r.byte \in 0 .. 255
          BY <3>1, SmallCodes
        <4>2. \A d \in 0 .. 255 : d \in Nat
          OBVIOUS
        <4> QED  BY <4>1, <4>2
      <3>3. w = r.byte \/ w = r.code
        BY DEF w, Text!Written
      <3> QED  BY <3>1, <3>2, <3>3
    <2> QED  BY <2>2, <2>3, <2>4, OneMoreOf
  <1>7. ASSUME NEW q \in 1 .. n + 1
        PROVE  Text!Written(meant'[q]) = IF q = n + 1 THEN w ELSE Put[q]
    BY <1>1, <1>4 DEF w
  <1>8. Put' = Append(Put, w)
    BY <1>5, <1>6, <1>7
  <1> QED  BY <1>3, <1>8 DEF w

LEMMA TextStart == ASSUME Text!Init PROVE TextInv
  <1>1. /\ stage = "table" /\ table = [b \in InBytes |-> 0] /\ lines = InBytes /\ outf = <<>> /\ meant = <<>>
    BY DEF Text!Init
  <1>2. Put = <<>>
    BY <1>1 DEF Put
  <1>3. \E off : Spelled(outf, Put, off)
    BY <1>1, <1>2, SpelledNothing
  <1>4. lines \subseteq InBytes /\ table \in [InBytes -> Nat]
    BY <1>1
  <1>5. \A b \in InBytes : Small(table[b])
    BY <1>1, SmallCodes
  <1>6. meant \in Seq([byte : InBytes, code : Nat])
    BY <1>1
  <1> QED  BY <1>1, <1>3, <1>4, <1>5, <1>6 DEF TextInv

LEMMA TextStep == ASSUME TextInv, [Text!Next]_Text!vars PROVE TextInv'
  <1>1. /\ meant' = meant /\ outf' = outf => (Text!InUtf8' => \E o : Spelled(outf', Put', o))
    <2> SUFFICES ASSUME meant' = meant, outf' = outf, Text!InUtf8' PROVE \E o : Spelled(outf', Put', o)
      OBVIOUS
    <2>1. Text!InUtf8 /\ Put' = Put
      BY DEF Text!InUtf8, Put, Text!Written
    <2> QED  BY <2>1 DEF TextInv
  <1>2. ASSUME NEW b \in InBytes, Text!ReadLine(b) PROVE TextInv'
    <2>1. /\ stage = "table" /\ lines' = lines \ {b} /\ stage' = stage /\ outf' = outf /\ meant' = meant
      BY <1>2 DEF Text!ReadLine
    <2>2. PICK c \in Codes \cup {0} : table' = [table EXCEPT ![b] = c]
      BY <1>2 DEF Text!ReadLine
    <2>3. c \in Nat /\ Small(c)
      BY SmallCodes
    <2>4. table' \in [InBytes -> Nat] /\ \A d \in InBytes : table'[d] = c \/ table'[d] = table[d]
      BY <2>2, <2>3 DEF TextInv
    <2>5. \A d \in InBytes : Small(table'[d])
      BY <2>3, <2>4 DEF TextInv
    <2> QED  BY <1>1, <2>1, <2>4, <2>5 DEF TextInv
  <1>3. CASE Text!OpenFiles
    <2>1. /\ lines = {} /\ UNCHANGED <<table, lines, outf, meant>>
          /\ inf' \in UNION {[1 .. n -> InBytes] : n \in 0 .. MaxInput}
      BY <1>3 DEF Text!OpenFiles
    <2>2. PICK n \in 0 .. MaxInput : inf' \in [1 .. n -> InBytes]
      BY <2>1
    <2>3. n \in Nat
      <3>1. MaxInput \in Nat
        BY TextAssumption, SMT
      <3> QED  BY <3>1
    <2>4. inf' \in Seq(InBytes)
      BY <2>2, <2>3
    <2> QED  BY <1>1, <2>1, <2>4 DEF TextInv
  <1>4. CASE Text!EncodeByte
    <2> DEFINE b == Head(inf)
               c == table[b]
               e == Text!Encode(c, b)
               r == [byte |-> b, code |-> c]
    <2>1. /\ stage = "encode" /\ inf # <<>> /\ inf' = Tail(inf) /\ stage' = stage /\ table' = table /\ lines' = lines
      BY <1>4 DEF Text!EncodeByte
    <2>2. /\ lines = {} /\ inf \in Seq(InBytes) /\ table \in [InBytes -> Nat]
          /\ \A d \in InBytes : Small(table[d])
          /\ meant \in Seq([byte : InBytes, code : Nat])
      BY <2>1 DEF TextInv
    <2>3. b \in InBytes /\ inf' \in Seq(InBytes)
      BY <2>1, <2>2
    <2>4. Small(c) /\ c \in Nat
      BY <2>2, <2>3
    <2>5. \/ outf' = outf /\ meant' = meant
          \/ outf' = outf \o e /\ meant' = Append(meant, r)
      BY <1>4 DEF Text!EncodeByte
    <2>6. CASE outf' = outf /\ meant' = meant
      BY <1>1, <2>1, <2>2, <2>3, <2>6 DEF TextInv
    <2>7. CASE outf' = outf \o e /\ meant' = Append(meant, r)
      <3>1. r \in [byte : InBytes, code : Nat] /\ r.byte = b /\ r.code = c
        BY <2>3, <2>4
      <3> HIDE DEF b, c, e, r
      <3>2. meant' \in Seq([byte : InBytes, code : Nat])
        BY <2>2, <2>7, <3>1
      <3>3. ASSUME Text!InUtf8' PROVE \E o : Spelled(outf', Put', o)
        <4>1. Text!InUtf8 /\ (b < 128 \/ c >= 128) /\ Put' = Append(Put, Text!Written(r))
          BY <2>2, <2>7, <3>1, <3>3, PutMore
        <4>2. PICK off : Spelled(outf, Put, off)
          BY <4>1 DEF TextInv
        <4> DEFINE w == IF c < 128 THEN b ELSE c
        <4>3. Text!Written(r) = w
          BY <3>1 DEF Text!Written
        <4>4. w \in Nat
          <5>1. b \in 0 .. 255
            BY <2>3, SmallCodes
          <5> QED  BY <2>4, <5>1
        <4>5. Encodes(e, w)
          BY <2>3, <2>4, <4>1, EntryEncoded DEF e
        <4> HIDE DEF w
        <4>6. \E o : Spelled(outf \o e, Append(Put, w), o)
          BY <4>2, <4>4, <4>5, SpelledLonger
        <4> QED  BY <2>7, <4>1, <4>3, <4>6
      <3> QED  BY <2>1, <2>2, <2>3, <3>2, <3>3 DEF TextInv
    <2> QED  BY <2>5, <2>6, <2>7
  <1>5. CASE Text!Finish
    <2>1. stage' = "done" /\ UNCHANGED <<table, lines, outf, meant>>
      BY <1>5 DEF Text!Finish
    <2> QED  BY <1>1, <2>1 DEF TextInv
  <1>6. CASE UNCHANGED Text!vars
    <2>1. UNCHANGED <<stage, table, lines, inf, outf, meant>>
      BY <1>6 DEF Text!vars
    <2> QED  BY <1>1, <2>1 DEF TextInv
  <1> QED  BY <1>2, <1>3, <1>4, <1>5, <1>6 DEF Text!Next

LEMMA TextEnd == ASSUME TextInv PROVE Text!Utf8RoundTrip
  <1>1. Text!InUtf8 => Text!Decoded(outf) = Put
    BY SpelledDecodes DEF TextInv
  <1>2. ASSUME NEW c \in UcsCodes, Text!toml_ucs_to_utf8(c) # <<>>
        PROVE  Text!toml_utf8_to_ucs(Text!toml_ucs_to_utf8(c)) = [code |-> c, used |-> Len(Text!toml_ucs_to_utf8(c))]
    <2> DEFINE s == Text!toml_ucs_to_utf8(c)
    <2>1. c \in Int
      BY TextAssumption, SMT
    <2>2. Encodes(s, c)
      BY <1>2, <2>1, UcsEncoded
    <2> HIDE DEF s
    <2>3. s \in Files /\ Len(s) <= Len(s) /\ \A q \in 1 .. Len(s) : s[q] = s[q]
      BY <2>2 DEF Encodes, Files
    <2>4. Text!toml_utf8_to_ucs(s) = [code |-> c, used |-> Len(s)]
      BY <2>2, <2>3, Decodes
    <2> QED  BY <2>4 DEF s
  <1> QED  BY <1>1, <1>2 DEF Text!Utf8RoundTrip, Put

\* utf8_encoder: whatever the table of the code page and the input, unless a
\* byte from 128 on stands for a character of ASCII, toml.c reads back from the
\* output one by one the code points from 128 on, and below 128 the bytes of the
\* input themselves; and for every code point it reads back what it writes
\* itself (hw01/main.c:82-111, hw07/toml.c:92-259).
THEOREM TextsComeBack == Spec => []Utf8RoundTrip
  <1>1. Init => TextInv
    BY TextStart DEF Init
  <1>2. TextInv /\ [Next]_vars => TextInv'
    BY Apart, TextStep
  <1>3. TextInv => Utf8RoundTrip
    BY TextEnd DEF Utf8RoundTrip
  <1> QED  BY <1>1, <1>2, <1>3, PTL DEF Spec

=============================================================================

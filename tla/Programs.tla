------------------------------ MODULE Programs ------------------------------
(***************************************************************************)
(* The programs that share nothing with each other, side by side: prog     *)
(* says which of them runs, and the others stay where they begin.          *)
(***************************************************************************)
EXTENDS Integers, Sequences

CONSTANTS     \* each is explained in the module that uses it
    STAT_UNIT_SIZE, Urls, Prefix, MaxBytes, MaxCount, MaxLines,    \* LogTop
    Requests, Sizes, Referers, STR_MAX, MaxRead, MaxFile,          \* LogLine
    Builders, Names, TempNames, HiddenNames, MaxRuns, MaxFaults,   \* Rbuilder
    InBytes, Codes, UcsCodes, MaxInput,                              \* Utf8
    BUFF_LEN, Pieces, MaxPieces, MaxCut,                           \* Detector
    Methods, Paths, Headers, LineMax, MaxHeaders, MethodMax, PathMax,   \* HttpLine
    Ids, MaxKeys,                                                  \* Weather, and Half
    Values, Null, Half, MaxRows,                                   \* StatDb
    MaxRecords,                                                    \* MyLog
    BUF_SIZE, MaxSize                                              \* FtpSendfile

\* A top has room for a url; strcmp orders the urls, and strncmp finds that a
\* url begins with itself.
ASSUME TopAssumption ==
    /\ STAT_UNIT_SIZE \in Nat \ {0, 1}
    /\ Urls \subseteq Int /\ \A u \in Urls : <<u, u>> \in Prefix

\* A column holds ints.
ASSUME ColumnAssumption ==
    Half \in Nat \ {0} /\ \A v \in Values : v # Null => v \in -Half .. Half - 1

\* A buffer has room for a byte.
ASSUME BufferAssumption == BUF_SIZE \in Nat \ {0} /\ MaxSize \in Nat

\* What a line of a log is made of: words without quotes and spaces, a size that
\* is not empty, a referer without quotes.
ASSUME LineAssumption ==
    /\ STR_MAX \in Nat \ {0} /\ MaxRead \in Nat /\ MaxFile \in Nat
    /\ Requests \subseteq Seq(Seq(STRING \ {"q", "s", "n"}))
    /\ Sizes \subseteq Seq(STRING \ {"q", "s", "n"}) \ {<<>>}
    /\ Referers \subseteq Seq(STRING \ {"q", "n"})

\* What a request is made of: words without spaces, headers of one line; no line
\* begins with a CR.
ASSUME RequestAssumption ==
    /\ LineMax \in Nat /\ MaxHeaders \in Nat /\ MethodMax \in Nat /\ PathMax \in Nat
    /\ Methods \subseteq Seq(STRING \ {"s", "l", "0"}) \ {<<>>} /\ \A m \in Methods : m[1] # "c"
    /\ Paths \subseteq Seq(STRING \ {"s", "l", "0"}) \ {<<>>}
    /\ Headers \subseteq Seq(STRING \ {"l"}) \ {<<>>} /\ \A h \in Headers : h[1] # "c"

\* Bytes; a table has code points of four hexadecimal digits, toml.c is asked for any.
ASSUME TextAssumption ==
    /\ InBytes \subseteq 0 .. 255 /\ MaxInput \in Nat
    /\ Codes \subseteq Nat /\ \A c \in Codes : c < 65536
    /\ UcsCodes \subseteq Int

\* The files of the transfer and the program built are not hidden ones.
ASSUME HiddenAssumption == {"temp.tar", "rbuilder.conf", "out"} \cap HiddenNames = {}

VARIABLES
    prog,
    pc, arr, len, i, j, asu1, top,                                       \* LogTop
    rest, k, units, parsing, fields,                                     \* LogLine
    step, local, archive, kind, work, sent, home, runs, faults, vain, alone, calm,  \* Rbuilder
    stage, table, lines, inf, outf, meant,                               \* Utf8
    scan, file, made, cut, pos, read, sign, found, files, catalogs,      \* Detector
    reading, socket, buf, request, client,                               \* HttpLine
    state, answer, loc_id, asked,                                        \* Weather
    at, db, rows, cursor, max_val, min_val, sum_val, tmp_val,            \* StatDb
    f, buffer, disk, logged, program,                                    \* MyLog
    sending, fsize, st_size, count, offset, numRead, totSent, lost, reply, grew, shrank  \* FtpSendfile

Tops    == INSTANCE LogTop WITH Names <- Urls
Log     == INSTANCE LogLine
Remote  == INSTANCE Rbuilder
Text    == INSTANCE Utf8 WITH Bytes <- InBytes
Signs   == INSTANCE Detector
Lines   == INSTANCE HttpLine
Places  == INSTANCE Weather
Column  == INSTANCE StatDb
Records == INSTANCE MyLog
Send    == INSTANCE FtpSendfile WITH pc <- sending, pos <- offset

\* A file is put together from bytes that Detector knows the meaning of.
ASSUME PieceAssumption ==
    /\ Pieces \subseteq Seq(0 .. 255) /\ Pieces \subseteq Signs!Signatures \cup Signs!Strays \cup Signs!Entries
    /\ BUFF_LEN \in Nat /\ MaxPieces \in Nat /\ MaxCut \in Nat

topVars     == <<pc, arr, len, i, j, asu1, top>>
logVars     == <<rest, k, units, parsing, fields>>
remoteVars  == <<step, local, archive, kind, work, sent, home, runs, faults, vain, alone, calm>>
textVars    == <<stage, table, lines, inf, outf, meant>>
signsVars   == <<scan, file, made, cut, pos, read, sign, found, files, catalogs>>
linesVars   == <<reading, socket, buf, request, client>>
placesVars  == <<state, answer, loc_id, asked>>
columnVars  == <<at, db, rows, cursor, max_val, min_val, sum_val, tmp_val>>
recordsVars == <<f, buffer, disk, logged, program>>
sendVars    == <<sending, fsize, st_size, count, offset, numRead, totSent, lost, reply, grew, shrank>>
vars == <<prog, topVars, logVars, remoteVars, textVars, signsVars, linesVars, placesVars,
          columnVars, recordsVars, sendVars>>

Init ==
    /\ prog \in {"tops", "log", "remote", "text", "signs", "lines", "places", "column", "records",
                "send"}
    /\ IF prog = "tops"
         THEN Tops!Init
         ELSE /\ pc = "done" /\ arr = <<>> /\ len = 0 /\ i = 0 /\ j = 0 /\ asu1 = 0 /\ top = <<>>
    /\ Log!Init /\ Remote!Init /\ Text!Init /\ Signs!Init /\ Lines!Init /\ Places!Init
    /\ Column!Init /\ Records!Init
    /\ IF prog = "send"
         THEN Send!Init
         ELSE /\ sending = "done" /\ fsize = 0 /\ st_size = 0 /\ count = 0 /\ offset = 0 /\ numRead = 0
              /\ totSent = 0 /\ lost = 0 /\ reply = 0 /\ grew = FALSE /\ shrank = FALSE

Next ==
    \/ /\ prog = "tops" /\ Tops!Next
       /\ UNCHANGED <<prog, logVars, remoteVars, textVars, signsVars,
                      linesVars, placesVars, columnVars, recordsVars, sendVars>>
    \/ /\ prog = "log" /\ Log!Next
       /\ UNCHANGED <<prog, topVars, remoteVars, textVars, signsVars,
                      linesVars, placesVars, columnVars, recordsVars, sendVars>>
    \/ /\ prog = "remote" /\ Remote!Next
       /\ UNCHANGED <<prog, topVars, logVars, textVars, signsVars,
                      linesVars, placesVars, columnVars, recordsVars, sendVars>>
    \/ /\ prog = "text" /\ Text!Next
       /\ UNCHANGED <<prog, topVars, logVars, remoteVars, signsVars,
                      linesVars, placesVars, columnVars, recordsVars, sendVars>>
    \/ /\ prog = "signs" /\ Signs!Next
       /\ UNCHANGED <<prog, topVars, logVars, remoteVars, textVars,
                      linesVars, placesVars, columnVars, recordsVars, sendVars>>
    \/ /\ prog = "lines" /\ Lines!Next
       /\ UNCHANGED <<prog, topVars, logVars, remoteVars, textVars,
                      signsVars, placesVars, columnVars, recordsVars, sendVars>>
    \/ /\ prog = "places" /\ Places!Next
       /\ UNCHANGED <<prog, topVars, logVars, remoteVars, textVars,
                      signsVars, linesVars, columnVars, recordsVars, sendVars>>
    \/ /\ prog = "column" /\ Column!Next
       /\ UNCHANGED <<prog, topVars, logVars, remoteVars, textVars,
                      signsVars, linesVars, placesVars, recordsVars, sendVars>>
    \/ /\ prog = "records" /\ Records!Next
       /\ UNCHANGED <<prog, topVars, logVars, remoteVars, textVars,
                      signsVars, linesVars, placesVars, columnVars, sendVars>>
    \/ /\ prog = "send" /\ Send!Next
       /\ UNCHANGED <<prog, topVars, logVars, remoteVars, textVars, signsVars,
                      linesVars, placesVars, columnVars, recordsVars>>

Spec == Init /\ [][Next]_vars

----------------------------------------------------------------------------
(* The properties of the programs, each stated and explained in its module. *)

\* logstat: for what reasons a unit in the middle is left out of the top.
TopIsLargest == prog = "tops" => Tops!TopIsLargest

\* logstat: a referer in the middle is counted exactly, in a file and in all.
RefsCounted == prog = "tops" => Tops!RefsCounted

\* logstat: of a usual line the url, the size and the referer are read right.
LineParsed == prog = "log" => Log!LineParsed

\* rbuilder: an undisturbed build finds the user's files, but for hidden ones.
FreshBuild == prog = "remote" => Remote!FreshBuild

\* rbuilder: undisturbed runs keep the home directory, but for one kind of clean,
\* and leave nothing behind.
HostKept == prog = "remote" => Remote!HostKept

\* utf8_encoder: what it writes, toml.c reads back.
Utf8RoundTrip == prog = "text" => Text!Utf8RoundTrip

\* jpeg_zip_detector: every signature is counted once.
ScanRight == prog = "signs" => Signs!ScanRight

\* http_serv: a request is answered for the method and path it names.
RequestRead == prog = "lines" => Lines!RequestRead

\* get_weather: the weather asked for is that of the one place found.
RightPlace == prog = "places" => Places!RightPlace

\* statdb: the statistics are those of the column, and only a NULL crashes.
StatsTrue == prog = "column" => Column!StatsTrue

\* mylog: nothing follows a condition that failed, and an exit loses no record.
FatalLast == prog = "records" => Records!FatalLast

\* ftp_serv: no byte of a transfer is forgotten.
Accounted == prog = "send" => Send!Accounted

\* ftp_serv: what a client may conclude from the reply to a transfer.
ReplyMeans == prog = "send" => Send!ReplyMeans

=============================================================================

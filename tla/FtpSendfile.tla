---------------------------- MODULE FtpSendfile ----------------------------
(***************************************************************************)
(* The transfer of a file in ftp_retr (src/hw08/ftp.c): fstat, the loop of *)
(* sendfile, and the reply chosen from its result, while the file may be   *)
(* truncated or appended to, and write() may take less than it is given.   *)
(*                                                                         *)
(* The bytes of a file are known by their positions; the result, an int,   *)
(* wraps at 2 * Half.                                                      *)
(***************************************************************************)
EXTENDS Integers

CONSTANTS
    BUF_SIZE,
    MaxSize,    \* bound: size of the file
    Half        \* 2^31

VARIABLES
    pc,         \* "read", "write" or "done"
    fsize,      \* size of the file
    st_size,    \* its size when fstat was called
    count,      \* still to be sent
    pos,        \* file offset
    numRead,    \* bytes in buf
    totSent,
    lost,       \* bytes read and not sent
    reply,      \* 226, 550, or 0 when the worker exits without one
    grew,       \* history: the file has been appended to
    shrank      \* history: it has been truncated

vars == <<pc, fsize, st_size, count, pos, numRead, totSent, lost, reply, grew, shrank>>

FileSizes == 0 .. MaxSize

TypeOK ==
    /\ pc \in {"read", "write", "done"}
    /\ fsize \in FileSizes /\ st_size \in FileSizes /\ count \in FileSizes /\ pos \in FileSizes
    /\ numRead \in 0 .. BUF_SIZE
    /\ totSent \in FileSizes /\ lost \in FileSizes
    /\ reply \in {0, 226, 550} /\ grew \in BOOLEAN /\ shrank \in BOOLEAN

Init ==
    /\ fsize \in FileSizes /\ st_size = fsize /\ count = fsize
    /\ pc = "read" /\ pos = 0 /\ numRead = 0 /\ totSent = 0 /\ lost = 0
    /\ reply = 0 /\ grew = FALSE /\ shrank = FALSE

Least(a, b) == IF a < b THEN a ELSE b

\* The int that a result of type ssize_t becomes.
AsInt(n) == ((n + Half) % (2 * Half)) - Half

\* Variant: any short transfer is reported, without leaving.
ReplyAlways(result) == IF AsInt(result) = st_size /\ st_size # 0 THEN 226 ELSE 550

\* Variant: the result is not compared with the size.
ReplyAnyway(result) == IF AsInt(result) = 0 THEN 550 ELSE 226

ReplyFor(result) ==
    IF AsInt(result) = 0 THEN 550 ELSE IF AsInt(result) = st_size THEN 226 ELSE 0

Return(result) == pc' = "done" /\ reply' = ReplyFor(result)

Left == IF pos < fsize THEN fsize - pos ELSE 0

\* The loop ends when nothing is left to be sent or to be read, or read() fails.
Read ==
    /\ pc = "read"
    /\ \/ /\ count = 0 \/ Left = 0
          /\ Return(totSent) /\ UNCHANGED <<pos, numRead>>
       \/ /\ count > 0
          /\ Return(-1) /\ UNCHANGED <<pos, numRead>>
       \/ /\ count > 0 /\ Left > 0
          /\ numRead' = Least(Least(count, BUF_SIZE), Left)
          /\ pos' = pos + numRead'
          /\ pc' = "write" /\ UNCHANGED reply
    /\ UNCHANGED <<fsize, st_size, count, totSent, lost, grew, shrank>>

\* Variant: the count is never reduced.
WriteUncounted ==
    /\ pc = "write" /\ pc' = "read"
    /\ \E numSent \in 1 .. numRead : /\ totSent' = totSent + numSent
                                     /\ lost' = lost + (numRead - numSent)
    /\ UNCHANGED <<fsize, st_size, count, pos, numRead, reply, grew, shrank>>

\* write() takes some of the bytes, or fails.
Write ==
    /\ pc = "write"
    /\ \/ /\ pc' = "read"
          /\ \E numSent \in 1 .. numRead : /\ count' = count - numSent
                                           /\ totSent' = totSent + numSent
                                           /\ lost' = lost + (numRead - numSent)
          /\ UNCHANGED reply
       \/ Return(-1) /\ UNCHANGED <<count, totSent, lost>>
    /\ UNCHANGED <<fsize, st_size, pos, numRead, grew, shrank>>

\* Another program changes the file.
Resize ==
    /\ pc # "done"
    /\ fsize' \in FileSizes
    /\ grew' = (grew \/ fsize' > fsize)
    /\ shrank' = (shrank \/ fsize' < fsize)
    /\ UNCHANGED <<pc, st_size, count, pos, numRead, totSent, lost, reply>>

Next == Read \/ Write \/ Resize

Spec == Init /\ [][Next]_vars

----------------------------------------------------------------------------
(* Properties. *)

\* Every byte read is sent or was lost in a short write, and no more is sent
\* than the file had when its size was asked for.
Accounted ==
    /\ totSent + count = st_size
    /\ pos = totSent + lost + (IF pc = "write" THEN numRead ELSE 0) \/ pc = "done"

\* "226 File send OK" is the truth: the whole file has been sent without a
\* gap, unless it was appended to, when a gap may have been made up for with
\* later bytes.
SendOkIsTrue == reply = 226 => totSent = st_size /\ (lost = 0 \/ grew)

\* "550 Failed to read file" is sent where read() has not failed: nothing was
\* sent, because the file was empty when its size was asked for, or has become
\* so since, or the count has wrapped to 0.  An empty file that nobody touches
\* is transferred whole and gets it too; a read() that fails ends the worker
\* without a reply.
FailureMeans ==
    reply = 550 => /\ totSent % (2 * Half) = 0
                   /\ totSent > 0 \/ st_size = 0 \/ shrank

\* What a client may conclude from ftp_retr's reply (ftp.c:331-340).
ReplyMeans == SendOkIsTrue /\ FailureMeans

=============================================================================

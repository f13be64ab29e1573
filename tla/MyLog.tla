------------------------------- MODULE MyLog -------------------------------
(***************************************************************************)
(* The log library of src/hw05 and a program that uses it: ml_init,        *)
(* ml_write, ml_fatal_write and ml_final on one MyLog.  The file is written *)
(* through stdio, which keeps records back until the file is closed or the  *)
(* program ends by exit(); a record with its backtrace is one letter.       *)
(***************************************************************************)
EXTENDS Naturals, Sequences

CONSTANT MaxRecords     \* bound: records logged

\* With a backtrace, without one, and the level that ml_write gives no other
\* meaning.  The record of ml_fatal_write, "condition [FATAL]", is "END".
Levels == {"ERROR", "INFO", "FATAL"}

VARIABLES
    f,        \* "undefined", "null", "open" or "closed"
    buffer,   \* records that stdio keeps
    disk,     \* records in the file
    logged,   \* history: records written
    program   \* "runs", "exited", "killed" or "undefined" after a use of f
              \*   that C does not define

vars == <<f, buffer, disk, logged, program>>

\* A MyLog on the stack holds anything.
Init == /\ f = "undefined" /\ buffer = <<>> /\ disk = <<>> /\ logged = <<>>
        /\ program = "runs"

\* exit() flushes what is open.
Exit == program' = "exited" /\ disk' = disk \o buffer /\ buffer' = <<>>

ml_init ==
    /\ program = "runs" /\ f # "open"
    /\ \/ f' = "open" /\ UNCHANGED <<buffer, disk, program>>
       \/ f' = "null" /\ Exit
    /\ UNCHANGED logged

\* A pointer that was never set, unless it happens to be NULL, or that is
\* closed already passes the test for NULL.
Misuse ==
    /\ program = "runs" /\ f \in {"undefined", "closed"}
    /\ \/ program' = "undefined" /\ UNCHANGED <<buffer, disk>>
       \/ f = "undefined" /\ Exit
    /\ UNCHANGED <<f, logged>>

\* After the record of an ERROR backtrace_symbols may fail, which ends it all;
\* after one of LL_FATAL the program goes on as after any other.
ml_write(level) ==
    /\ program = "runs" /\ f = "open" /\ Len(logged) < MaxRecords
    /\ logged' = Append(logged, level)
    /\ \/ buffer' = Append(buffer, level) /\ UNCHANGED <<disk, program>>
       \/ /\ level = "ERROR"
          /\ program' = "exited" /\ disk' = disk \o Append(buffer, level) /\ buffer' = <<>>
    /\ UNCHANGED f

ml_final ==
    /\ program = "runs" /\ f = "open"
    /\ f' = "closed" /\ disk' = disk \o buffer /\ buffer' = <<>>
    /\ UNCHANGED <<logged, program>>

\* Variant: the program goes on after ml_fatal_write.
FatalGoesOn ==
    /\ program = "runs" /\ f = "open" /\ Len(logged) < MaxRecords
    /\ logged' = Append(logged, "END")
    /\ disk' = disk \o Append(buffer, "END") /\ buffer' = <<>>
    /\ UNCHANGED <<f, program>>

\* The condition does not hold: the record, ml_final and exit.
ml_fatal_write ==
    /\ program = "runs" /\ f = "open" /\ Len(logged) < MaxRecords
    /\ logged' = Append(logged, "END")
    /\ disk' = disk \o Append(buffer, "END") /\ buffer' = <<>>
    /\ f' = "closed" /\ program' = "exited"

Flush ==      \* the buffer is full
    /\ program = "runs" /\ buffer # <<>>
    /\ disk' = disk \o buffer /\ buffer' = <<>>
    /\ UNCHANGED <<f, logged, program>>

End  == program = "runs" /\ Exit /\ UNCHANGED <<f, logged>>

\* By a signal: what stdio has kept is lost.
Kill == /\ program = "runs" /\ program' = "killed" /\ buffer' = <<>>
        /\ UNCHANGED <<f, disk, logged>>

Next == \/ ml_init \/ Misuse \/ (\E l \in Levels : ml_write(l)) \/ ml_final \/ ml_fatal_write
        \/ Flush \/ End \/ Kill

Spec == Init /\ [][Next]_vars

----------------------------------------------------------------------------
(* Properties. *)

\* The record of a condition that does not hold is the last one of its program,
\* and a program that exits leaves every record in the file, in order, one that
\* is killed a first part of them (mylog.h:19-83).  Of the level FATAL alone it
\* is not true: the README has it end the program, but ml_write with LL_FATAL
\* writes such a record, without a condition, and goes on.
FatalLast ==
    /\ \A n \in DOMAIN logged : logged[n] = "END" => n = Len(logged) /\ program = "exited"
    /\ program = "exited" => disk = logged
    /\ disk = SubSeq(logged, 1, Len(disk))

=============================================================================

------------------------------- MODULE StatDb -------------------------------
(***************************************************************************)
(* statdb (src/hw12): minimum, maximum, sum, mean and deviation of a       *)
(* column, once through libpq and once through libmysqlclient, in ints.     *)
(* The two handlers differ in how they walk the rows and in what NULL is.   *)
(* The mean stays a fraction: sum_val / nrows.                              *)
(***************************************************************************)
EXTENDS Integers, Sequences, FiniteSetsExt

CONSTANTS
    Values,    \* integers of the column
    Null,      \* NULL in a row
    Half,      \* an int holds -Half .. Half - 1; the code: 2^31
    MaxRows    \* bound: rows of the table

VARIABLES
    at,        \* "main", "connected", "rows", "mean", "deviation", "done",
               \*   "error" or "crashed"
    db,        \* "pgsql", "mysql" or "none"
    rows,      \* the result of the query
    cursor,    \* the next row
    max_val, min_val, sum_val,
    tmp_val    \* the sum of squares, times nrows squared

vars == <<at, db, rows, cursor, max_val, min_val, sum_val, tmp_val>>

Init == /\ at = "main" /\ db = "none" /\ rows = <<>> /\ cursor = 1
        /\ max_val = 0 /\ min_val = 0 /\ sum_val = 0 /\ tmp_val = 0

ToInt(x) == ((x + Half) % (2 * Half)) - Half

\* atoi of a field: libpq has an empty string for NULL.
Value(k) == IF rows[k] = Null THEN 0 ELSE rows[k]

\* atoi(NULL): libmysqlclient has no string for it.
NoString(k) == db = "mysql" /\ rows[k] = Null

\* main: the type of the database, or a beginning of it, or another word.
Choose ==
    /\ at = "main"
    /\ \/ db' \in {"pgsql", "mysql"} /\ at' = "connected"
       \/ db' = "none" /\ at' = "error"
    /\ UNCHANGED <<rows, cursor, max_val, min_val, sum_val, tmp_val>>

\* The connection and the query, either of which may fail.
Query ==
    /\ at = "connected"
    /\ \/ /\ rows' \in UNION {[1 .. n -> Values \cup {Null}] : n \in 0 .. MaxRows}
          /\ at' = IF rows' = <<>> THEN "done" ELSE "rows"
       \/ at' = "error" /\ UNCHANGED rows
    /\ UNCHANGED <<db, cursor, max_val, min_val, sum_val, tmp_val>>

stat_min(a, b) == IF a < b THEN a ELSE b
stat_max(a, b) == IF a > b THEN a ELSE b

Row ==
    /\ at = "rows" /\ cursor <= Len(rows)
    /\ IF NoString(cursor)
         THEN at' = "crashed" /\ UNCHANGED <<cursor, max_val, min_val, sum_val>>
         ELSE /\ cursor' = cursor + 1
              /\ LET v == Value(cursor)
                 IN  /\ max_val' = IF cursor = 1 THEN v ELSE stat_max(max_val, v)
                     /\ min_val' = IF cursor = 1 THEN v ELSE stat_min(min_val, v)
                     /\ sum_val' = IF cursor = 1 THEN v ELSE ToInt(sum_val + v)
              /\ UNCHANGED at
    /\ UNCHANGED <<db, rows, tmp_val>>

\* Variant: without mysql_data_seek the cursor stays behind the last row.
MeanNoSeek ==
    /\ at = "rows" /\ cursor > Len(rows) /\ at' = "deviation"
    /\ cursor' = IF db = "mysql" THEN cursor ELSE 1
    /\ UNCHANGED <<db, rows, max_val, min_val, sum_val, tmp_val>>

\* The mean, and back to the first row.
Mean ==
    /\ at = "rows" /\ cursor > Len(rows) /\ at' = "deviation"
    /\ cursor' = 1
    /\ UNCHANGED <<db, rows, max_val, min_val, sum_val, tmp_val>>

Square(x) == x * x

Deviation ==
    /\ at = "deviation"
    /\ IF cursor > Len(rows)
         THEN at' = "done" /\ UNCHANGED <<cursor, tmp_val>>
         ELSE /\ cursor' = cursor + 1 /\ UNCHANGED at
              /\ tmp_val' = tmp_val + Square(Len(rows) * Value(cursor) - sum_val)
    /\ UNCHANGED <<db, rows, max_val, min_val, sum_val>>

Next == Choose \/ Query \/ Row \/ Mean \/ Deviation

----------------------------------------------------------------------------
(* Properties. *)

Total(op(_)) == MapThenSumSet(LAMBDA k : op(Value(k)), DOMAIN rows)

\* What a handler prints are the statistics of the column: minimum and maximum
\* in any case, the others as long as the sum fits into an int (main.c:58-87,
\* 124-157).  pgsql_handle counts a NULL as 0.  mysql_handle prints nothing of
\* a column that has one: it crashes in atoi (main.c:132,135), and it crashes
\* for no other reason.
StatsTrue ==
    /\ at = "crashed" => db = "mysql" /\ \E k \in DOMAIN rows : rows[k] = Null
    /\ at = "done" /\ db = "mysql" => \A k \in DOMAIN rows : rows[k] # Null
    /\ at = "done" /\ rows # <<>> =>
        /\ \A k \in DOMAIN rows : min_val <= Value(k) /\ Value(k) <= max_val
        /\ {min_val, max_val} \subseteq {Value(k) : k \in DOMAIN rows}
        /\ Total(LAMBDA v : v) \in -Half .. Half - 1 =>
             /\ sum_val = Total(LAMBDA v : v)
             /\ tmp_val = Square(Len(rows)) * Total(Square) - Len(rows) * Square(sum_val)

=============================================================================

------------------------------- MODULE LogTop -------------------------------
(***************************************************************************)
(* The tops of logstat (src/hw10/main.c): from the units read from one     *)
(* file, the urls with most bytes and the referers with most requests      *)
(* (parse_func), and from the tops of all files the referers with most     *)
(* requests (main).  Arrays are indexed from 0 as in the code, and a       *)
(* unit's name is its url in the first and its referer in the others.      *)
(* g_ptr_array_sort orders equal elements as it likes.                     *)
(***************************************************************************)
EXTENDS Integers, Sequences, FiniteSetsExt

CONSTANTS
    STAT_UNIT_SIZE,   \* how many urls or referers a top has, 2 or more
    Names,            \* urls or referers, numbered in the order of strcmp
    Prefix,           \* the pairs whose first is a prefix of the second
    MaxBytes,         \* bound: bytes of a unit
    MaxCount,         \* bound: requests of a unit in the top of a file
    MaxLines          \* lines read from a file

VARIABLES
    pc,      \* "urls", "urlsDone", "refs", "sort", "list", "done", "crashed",
             \* and for the summary "sum", "sumSort", "sumList"
    arr,     \* stat_arr: [0 .. len - 1 -> units]
    len,
    i, j,    \* the loop variables
    asu1,    \* the index of the unit asu1
    top      \* top_urls or top_refs

vars == <<pc, arr, len, i, j, asu1, top>>

Sorted(keys) == \A p, q \in DOMAIN keys : p < q => keys[p] <= keys[q]

Bytes(a)  == [p \in DOMAIN a |-> a[p].bytes]
Name(a)   == [p \in DOMAIN a |-> a[p].name]
Count(a)  == [p \in DOMAIN a |-> a[p].count]

\* was: history, the requests counted before the loops.
NewUnits(n, bs) == [0 .. n - 1 -> [name : Names, bytes : bs, count : {1}, was : {1}]]

\* Units that the tops of the files hand over to main.
TopUnits(n) ==
    {a \in [0 .. n - 1 -> [name : Names, bytes : {0}, count : 1 .. MaxCount, was : 1 .. MaxCount]] :
        \A p \in DOMAIN a : a[p].was = a[p].count}

\* The file has been read and the array sorted, by bytes or by referer.  The
\* second sort is met only when the first loop has not crashed, and the loops
\* after it do not look at bytes.  Or main has gathered the tops of the files.
Init ==
    /\ len \in 0 .. MaxLines /\ asu1 = len - 1 /\ top = <<>>
    /\ \/ /\ pc = "urls" /\ arr \in NewUnits(len, 0 .. MaxBytes) /\ Sorted(Bytes(arr))
          /\ i = STAT_UNIT_SIZE - 1 /\ j = len - 2
       \/ /\ pc = "refs" /\ len > 1 /\ arr \in NewUnits(len, {0}) /\ Sorted(Name(arr))
          /\ i = STAT_UNIT_SIZE /\ j = len - 1
       \/ /\ pc = "sum" /\ len > 0 /\ arr \in TopUnits(len) /\ Sorted(Name(arr))
          /\ i = STAT_UNIT_SIZE /\ j = len - 1

SameName(p, q) == <<arr[p].name, arr[q].name>> \in Prefix

\* Variant: a repeated url is compared with the largest unit, not the last one listed.
UrlTurnNoAsu1 ==
    /\ pc = "urls" /\ len > 1 /\ j > 0 /\ i > 0
    /\ IF j = len - 2 \/ ~SameName(j, asu1)
         THEN top' = Append(top, arr[j]) /\ i' = i - 1
         ELSE UNCHANGED <<top, i>>
    /\ j' = j - 1
    /\ UNCHANGED <<pc, arr, len, asu1>>

\* One turn of the loop over the units, from the last but one; the unit at 0
\* is not looked at.
UrlTurn ==
    /\ pc = "urls" /\ len > 1 /\ j > 0 /\ i > 0
    /\ IF j = len - 2 \/ ~SameName(j, asu1)
         THEN top' = Append(top, arr[j]) /\ asu1' = j /\ i' = i - 1
         ELSE UNCHANGED <<top, asu1, i>>
    /\ j' = j - 1
    /\ UNCHANGED <<pc, arr, len>>

\* With fewer than two units len - 2 or len - 1 wraps to an index far beyond
\* the end of the array.
UrlEnd ==
    \/ /\ pc = "urls" /\ len < 2 /\ pc' = "crashed"
       /\ UNCHANGED <<arr, len, i, j, asu1, top>>
    \/ /\ pc = "urls" /\ len > 1 /\ (j = 0 \/ i = 0) /\ pc' = "urlsDone"
       /\ UNCHANGED <<arr, len, i, j, asu1, top>>

\* Variant: the counter belongs to the unit looked at, not to its group's.
RefTurnOwn ==
    /\ pc = "refs" /\ j > 0
    /\ IF j = len - 1 \/ SameName(j, asu1)
         THEN arr' = [arr EXCEPT ![j].count = @ + 1] /\ UNCHANGED asu1
         ELSE asu1' = j /\ UNCHANGED arr
    /\ j' = j - 1
    /\ UNCHANGED <<pc, len, i, top>>

RefTurn ==
    /\ pc = "refs" /\ j > 0
    /\ IF j = len - 1 \/ SameName(j, asu1)
         THEN arr' = [arr EXCEPT ![asu1].count = @ + 1] /\ UNCHANGED asu1
         ELSE asu1' = j /\ UNCHANGED arr
    /\ j' = j - 1
    /\ UNCHANGED <<pc, len, i, top>>

RefEnd ==
    /\ pc = "refs" /\ j = 0 /\ pc' = "sort"
    /\ UNCHANGED <<arr, len, i, j, asu1, top>>

\* Variant: as in the top of a file, a request is counted for each unit.
SumTurnByOne ==
    /\ pc = "sum" /\ j > 0
    /\ IF SameName(j, asu1)
         THEN arr' = [arr EXCEPT ![asu1].count = @ + 1] /\ UNCHANGED asu1
         ELSE asu1' = j /\ UNCHANGED arr
    /\ j' = j - 1
    /\ UNCHANGED <<pc, len, i, top>>

\* The summary adds up the requests of the files; the first unit it looks at
\* is asu1 itself, which is doubled.
SumTurn ==
    /\ pc = "sum" /\ j > 0
    /\ IF SameName(j, asu1)
         THEN arr' = [arr EXCEPT ![asu1].count = @ + arr[j].count] /\ UNCHANGED asu1
         ELSE asu1' = j /\ UNCHANGED arr
    /\ j' = j - 1
    /\ UNCHANGED <<pc, len, i, top>>

SumEnd ==
    /\ pc = "sum" /\ j = 0 /\ pc' = "sumSort"
    /\ UNCHANGED <<arr, len, i, j, asu1, top>>

\* The sort by count; the summary prints the last unit at once.
Sort ==
    /\ pc \in {"sort", "sumSort"} /\ pc' = IF pc = "sort" THEN "list" ELSE "sumList"
    /\ \E p \in [0 .. len - 1 -> 0 .. len - 1] :
         /\ \A x, y \in DOMAIN p : x # y => p[x] # p[y]
         /\ arr' = [x \in DOMAIN p |-> arr[p[x]]]
         /\ Sorted(Count(arr'))
    /\ IF pc = "sort"
         THEN j' = len - 1 /\ UNCHANGED <<asu1, top>>
         ELSE j' = len - 2 /\ asu1' = len - 1 /\ top' = <<arr'[len - 1]>>
    /\ UNCHANGED <<len, i>>

\* The units after it, but for those whose referer begins the one printed last.
SumListTurn ==
    /\ pc = "sumList"
    /\ IF j > 0 /\ i > 0
         THEN /\ IF SameName(j, asu1)
                   THEN UNCHANGED <<top, asu1, i>>
                   ELSE top' = Append(top, arr[j]) /\ asu1' = j /\ i' = i - 1
              /\ j' = j - 1 /\ UNCHANGED pc
         ELSE pc' = "done" /\ UNCHANGED <<i, j, asu1, top>>
    /\ UNCHANGED <<arr, len>>

ListTurn ==
    /\ pc = "list" /\ j > 0
    /\ top' = Append(top, arr[j])
    /\ i' = i - 1 /\ j' = j - 1
    /\ pc' = IF i' = 0 \/ j' = 0 THEN "done" ELSE "list"
    /\ UNCHANGED <<arr, len, asu1>>

Next == UrlTurn \/ UrlEnd \/ RefTurn \/ RefEnd \/ Sort \/ ListTurn
        \/ SumTurn \/ SumEnd \/ SumListTurn

Spec == Init /\ [][Next]_vars

----------------------------------------------------------------------------
(* Properties. *)

\* The listed units that have at least the bytes of the unit at p.
AsLarge(p) == {n \in DOMAIN top : top[n].bytes >= arr[p].bytes}

\* Why a unit other than the first and the last in the order of bytes is not
\* listed (lines 155-171): its url is listed with as many bytes; or the list is
\* full of units as large; or its url, another one, begins the url of a listed
\* unit as large.  The last is no reason by the comment of line 163, "First or
\* new url": strncmp at line 164 takes /a behind /ab for a url it has, lists a
\* smaller unit in its stead, and never lists an empty url (a request without
\* two spaces) behind another.  A unit is left out for no other reason.
TopIsLargest ==
    pc = "urlsDone" =>
        \A p \in 1 .. len - 2 :
            \/ \E n \in AsLarge(p) : top[n].name = arr[p].name
            \/ Len(top) = STAT_UNIT_SIZE - 1 /\ AsLarge(p) = DOMAIN top
            \/ \E n \in AsLarge(p) : /\ top[n].name # arr[p].name
                                    /\ <<arr[p].name, top[n].name>> \in Prefix

Occurrences(name) == {p \in DOMAIN arr : arr[p].name = name}

\* Referers that neither begin nor end the sorted array, and of which no other
\* is a prefix or an extension.
Middle ==
    {name \in {arr[p].name : p \in DOMAIN arr} \ {arr[0].name, arr[len - 1].name} :
        \A q \in DOMAIN arr : arr[q].name # name =>
            {<<name, arr[q].name>>, <<arr[q].name, name>>} \cap Prefix = {}}

\* A referer in the middle is counted exactly: in a file one of its units
\* carries the number of its requests and the others one (lines 173-186), in
\* the summary one of them the sum of what its files have counted, and the
\* others what they had (lines 330-340): no request is lost or counted for
\* another referer.
RefsCounted ==
    pc \in {"sort", "sumSort"} => \A name \in Middle : \E r \in Occurrences(name) :
        /\ arr[r].count = MapThenSumSet(LAMBDA p : arr[p].was, Occurrences(name))
        /\ \A q \in Occurrences(name) \ {r} : arr[q].count = arr[q].was

\* What main.c:155 and the heading printed at line 278 announce, the top of
\* the urls by bytes, holds the url with the most bytes.
LargestListed ==
    pc = "urlsDone" => \E n \in DOMAIN top : top[n].bytes = arr[len - 1].bytes

=============================================================================

------------------------------ MODULE Weather ------------------------------
(***************************************************************************)
(* get_weather (src/hw04): a search for a place by its name, then the      *)
(* weather there by the number the search gave.  Of the answers only the   *)
(* keys are kept that the program may take for "woeid", and their values.  *)
(* What is no list of places (no JSON, cut off, or followed by what an     *)
(* earlier answer left in the buffer) is the empty list.                   *)
(***************************************************************************)
EXTENDS Integers, Sequences, SequencesExt

CONSTANTS
    Ids,       \* numbers of places, up to 64 bits
    Half,      \* an int goes from -Half to Half - 1
    MaxKeys    \* bound: such keys of a place

VARIABLES
    state,     \* "search", "weather" or "done"
    answer,    \* history: the places that the search has brought
    loc_id,
    asked      \* the places whose weather was asked for

vars == <<state, answer, loc_id, asked>>

\* "w" stands for the keys that "woeid" begins with.  The value of a key may
\* be no integer: json_integer_value makes 0 of it.  An object has a key once.
Pair   == [key : {"woeid", "w", "other"}, value : Ids \cup {0}]
Places == {place \in UNION {[1 .. n -> Pair] : n \in 0 .. MaxKeys} :
             \A m, n \in DOMAIN place :
                place[m].key = "woeid" /\ place[n].key = "woeid" => m = n}

Init == state = "search" /\ answer = <<>> /\ loc_id = 0 /\ asked = {}

\* strncmp(key, "woeid", strlen(key)): the shorter of the two decides.
TakenForWoeid(key) == key \in {"woeid", "w"}

\* int res = json_integer_value(value): the lower half of 64 bits.
ToInt(n) == ((n + Half) % (2 * Half)) - Half

\* The loop over the keys of a place keeps the value of the last that matches.
LastWoeid(place) ==
    LET taken == {n \in DOMAIN place : TakenForWoeid(place[n].key)}
    IN  IF taken = {} THEN 0 ELSE ToInt(place[Max(taken)].value)

\* Variant: the first of several places is taken.
LocIdOfFirst(places) == IF Len(places) = 0 THEN 0 ELSE LastWoeid(places[1])

\* get_locid_from_json: only a single place counts.
LocId(places) == IF Len(places) = 1 THEN LastWoeid(places[1]) ELSE 0

\* curl_req(GET_LOC_ID); whether the transfer has failed is only logged.
Search ==
    /\ state = "search"
    /\ \E places \in UNION {[1 .. n -> Places] : n \in 0 .. 2} :
         answer' = places /\ loc_id' = LocId(places)
    /\ state' = IF loc_id' = 0 THEN "done" ELSE "weather"
    /\ UNCHANGED asked

\* curl_req(GET_WEATHER); what comes is printed.
Ask ==
    /\ state = "weather" /\ state' = "done"
    /\ asked' = asked \cup {loc_id}
    /\ UNCHANGED <<answer, loc_id>>

Next == Search \/ Ask

----------------------------------------------------------------------------
(* Properties. *)

\* Weather is asked for exactly when the search has brought one place and that
\* has a number, and for the place of that number (main.c:39-44, 175-180).  The
\* number is narrowed to an int: a larger one asks for another place, or for
\* none.  And where a place has a key that is only a beginning of "woeid", its
\* value may be taken instead.
RightPlace ==
    /\ asked # {} => Len(answer) = 1
    /\ Len(answer) = 1 /\ state = "done" /\ (\A p \in Range(answer[1]) : p.key # "w") =>
          asked = {ToInt(p.value) : p \in {q \in Range(answer[1]) : q.key = "woeid"}} \ {0}

=============================================================================

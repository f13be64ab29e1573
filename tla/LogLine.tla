------------------------------ MODULE LogLine ------------------------------
(***************************************************************************)
(* How logstat (src/hw10/main.c, parse_func) reads a log file: the first   *)
(* lines of it, each cut up by strchr at quotes and spaces.  A line is a   *)
(* sequence of letters: "q" a quote, "s" a space, "n" the end of the line, *)
(* any other letter a character of no importance.                          *)
(***************************************************************************)
EXTENDS Naturals, Sequences, SequencesExt

CONSTANTS
    Requests,                    \* what a line may hold there, as a sequence of words
    Sizes, Referers,             \* likewise, as they are
    STR_MAX,                     \* STR_LEN - 1 = 16383, what fgets takes of a line
    MaxRead,                     \* how many times it is called, 10
    MaxFile                      \* bound: lines of a file

VARIABLES
    rest,      \* the lines of the file, or what is left of them, that are not read yet
    k,         \* how many may still be read
    units,     \* stat_arr as it is filled
    parsing,   \* "open", "read", "stop" or, when a NULL has been used, "crash"
    fields     \* history: the lines, or parts of lines, that have been read

vars == <<rest, k, units, parsing, fields>>

\* Words with a space between them.
Joined(words) == FoldLeft(LAMBDA text, w : text \o <<"s">> \o w, words[1], Tail(words))

Field == [request : Requests, size : Sizes, referer : Referers]

Line(f) == <<"h", "s", "q">> \o Joined(f.request) \o <<"q", "s", "2", "s">> \o f.size
             \o <<"s", "q">> \o f.referer \o <<"q", "s", "q", "a", "q", "n">>

Init == rest = <<>> /\ k = MaxRead /\ units = <<>> /\ parsing = "open" /\ fields = <<>>

Open ==
    /\ parsing = "open" /\ parsing' = "read"
    /\ \E n \in 0 .. MaxFile : \E lines \in [1 .. n -> Field] :
         rest' = [l \in 1 .. n |-> [line |-> lines[l], from |-> 1]]
    /\ UNCHANGED <<k, units, fields>>

\* strchr(text + from, letter): 0 for NULL, of which nothing comes.
Find(text, letter, from) ==
    IF from > 0 /\ \E p \in from .. Len(text) : text[p] = letter
      THEN CHOOSE p \in from .. Len(text) :
             text[p] = letter /\ \A r \in from .. p - 1 : text[r] # letter
      ELSE 0

\* Variant: the url goes to the end of the request.
UrlToEnd(request) ==
    LET first == Find(request, "s", 1)
    IN  {IF first = 0 THEN <<>> ELSE SubSeq(request, first + 1, Len(request))}

\* The second word of a request of three; empty if there are fewer.  What
\* follows two spaces in a row is no url, and none if it has no end.
Url(request) ==
    LET first  == Find(request, "s", 1)
        second == IF first = 0 THEN 0 ELSE Find(request, "s", first + 1)
        end    == Find(request, "s", first + 2)
    IN  CASE second = 0              -> {<<>>}
          [] second # 0 /\ end = 0   -> {}
          [] second # 0 /\ end # 0   -> {SubSeq(request, first + 1, end - 1)}

\* A NULL of strchr is used as it is, and a length computed from it.
Parsed(text) ==
    LET request == Find(text, "q", 1) + 1
        close   == Find(text, "q", request + 1)
        status  == Find(text, "s", close) + 1
        size    == Find(text, "s", status) + 1
        after   == Find(text, "s", size + 1)
        referer == Find(text, "q", after) + 1
        end     == Find(text, "q", referer + 1)
    IN  IF 0 \in {close, after, end} \/ 1 \in {request, status, size, referer}
          THEN {}
          ELSE {[url |-> url, size |-> SubSeq(text, size, after - 1),
                 referer |-> SubSeq(text, referer, end - 1)]
                  : url \in Url(SubSeq(text, request, close - 1))}

\* What fgets has taken of a line.
String(part) ==
    LET text == Line(part.line)
    IN  SubSeq(text, part.from, IF part.cut THEN part.from + STR_MAX - 1 ELSE Len(text))

\* What does not fit into str is taken for the next line.
ReadLine ==
    /\ parsing = "read" /\ rest # <<>> /\ k > 0
    /\ k' = k - 1
    /\ LET left == Head(rest)
           next == left.from + STR_MAX
           cut  == next <= Len(Line(left.line))
           part == [line |-> left.line, from |-> left.from, cut |-> cut]
       IN  /\ rest' = IF cut THEN <<[line |-> left.line, from |-> next]>> \o Tail(rest)
                              ELSE Tail(rest)
           /\ fields' = Append(fields, part)
           /\ IF Parsed(String(part)) = {}
                THEN parsing' = "crash" /\ UNCHANGED units
                ELSE /\ \E u \in Parsed(String(part)) : units' = Append(units, u)
                     /\ UNCHANGED parsing

EndOfFile ==
    /\ parsing = "read" /\ (rest = <<>> \/ k = 0) /\ parsing' = "stop"
    /\ UNCHANGED <<rest, k, units, fields>>

Next == Open \/ ReadLine \/ EndOfFile

----------------------------------------------------------------------------
(* Properties. *)

\* The request has three words, none of them empty; nor is the referer.
Usual(f) == Len(f.request) = 3 /\ <<>> \notin Range(f.request) /\ f.referer # <<>>

\* fgets has taken a line as it is, and it is a usual one.
Read(part) == part.from = 1 /\ ~part.cut /\ Usual(part.line)

\* Up to MaxRead strings are read of a file, in order; of one that is a whole line
\* like those a server writes, the url, the size and the referer are those of the
\* line, and no such line crashes the program, whatever lines are before it
\* (main.c:106-152).  An empty referer or two spaces in a row are misread or crash
\* it, and so may a line of which fgets leaves a part for the next call.
LineParsed ==
    /\ parsing # "crash" => Len(units) = Len(fields)
    /\ parsing = "stop" => rest = <<>> \/ Len(units) = MaxRead
    /\ parsing = "crash" => Len(fields) = Len(units) + 1 /\ ~Read(fields[Len(fields)])
    /\ \A n \in DOMAIN units : Read(fields[n]) =>
         units[n] = [url |-> fields[n].line.request[2], size |-> fields[n].line.size,
                     referer |-> fields[n].line.referer]

=============================================================================

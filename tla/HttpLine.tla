------------------------------ MODULE HttpLine ------------------------------
(***************************************************************************)
(* How http_req (src/hw11/http.c) reads a request: recv_line byte by byte  *)
(* into one buffer, parse_head_line, and recv_line again until a line is    *)
(* empty.  Text is a sequence of letters: "c" CR, "l" LF, "s" a space, "0"  *)
(* the end of a string, any other letter itself.                            *)
(***************************************************************************)
EXTENDS Naturals, Sequences, SequencesExt

CONSTANTS
    Methods, Paths,   \* words of the request line
    Headers,          \* header lines
    LineMax,          \* len - 1, the bytes of a line that recv_line takes
    MethodMax, PathMax,   \* 7 and 255: the letters that request[8] and url[256] have room for
    MaxHeaders        \* bound: header lines of a request

VARIABLES
    reading,   \* "connect", "first", "headers", "ready", "refused" or, request or url
               \* overrun, "undefined"
    socket,    \* what read() will still deliver; then the client has closed
    buf,       \* the buffer, as it was left
    request,   \* method and path of the request line
    client     \* history: what the client has sent

vars == <<reading, socket, buf, request, client>>

Nothing == [method |-> <<>>, path |-> <<>>]

Init ==
    /\ reading = "connect" /\ socket = <<>> /\ buf = [n \in 1 .. LineMax + 1 |-> "0"]
    /\ request = Nothing /\ client = [method |-> <<>>, path |-> <<>>, headers |-> <<>>, cut |-> 0]

CRLF == <<"c", "l">>
Body == <<"b", "o">>

HeadLine(m, p) == m \o <<"s">> \o p \o <<"s", "H">>

\* A client sends a request and perhaps closes before its end.
Connect ==
    /\ reading = "connect" /\ reading' = "first"
    /\ \E m \in Methods, p \in Paths, n \in 0 .. MaxHeaders : \E hs \in [1 .. n -> Headers] :
         LET text == HeadLine(m, p) \o CRLF \o FlattenSeq([k \in 1 .. n |-> hs[k] \o CRLF])
                       \o CRLF \o Body
         IN  \E cut \in {0, Len(Body) + 1, Len(Body) + 2, Len(Body) + 4, Len(text)} :
               /\ socket' = SubSeq(text, 1, Len(text) - cut)
               /\ client' = [method |-> m, path |-> p, headers |-> hs, cut |-> cut]
    /\ UNCHANGED <<buf, request>>

----------------------------------------------------------------------------

\* recv_line: up to LF, or max bytes.  At the end of the stream the byte that
\* read() has not written is taken for one more byte of the line.
ReceiveUpTo(max) ==
    LET avail == IF Len(socket) < max THEN Len(socket) ELSE max
        lf    == SelectInSeq(SubSeq(socket, 1, avail), LAMBDA x : x = "l")
        took  == IF lf > 0 THEN lf ELSE avail
        left  == [n \in DOMAIN buf |-> IF n <= took THEN socket[n] ELSE buf[n]]
        i     == CASE lf > 0                                      -> lf - 1
                   [] lf = 0 /\ took < max /\ left[took + 1] # "l" -> took + 1
                   [] OTHER                                       -> took
        end   == IF i > 0 /\ left[i] = "c" THEN i - 1 ELSE i
    IN  [len |-> end, buf |-> [left EXCEPT ![end + 1] = "0"],
         rest |-> SubSeq(socket, took + 1, Len(socket))]

\* Variant: a byte less fits into a line.
ReceiveShort == ReceiveUpTo(LineMax - 1)

Receive == ReceiveUpTo(LineMax)

\* Up to a space or the end of the string, but one byte at least.
Word(text, from) ==
    LET ends == {p \in from .. Len(text) : text[p] = "0" \/ (p > from /\ text[p] = "s")}
    IN  SubSeq(text, from, (CHOOSE p \in ends \cup {Len(text) + 1} :
                              \A q \in ends : p <= q) - 1)

\* parse_head_line: the path begins behind the byte that ended the method.
ParseHeadLine(text) ==
    LET method == Word(text, 1)
    IN  [method |-> method, path |-> Word(text, Len(method) + 2)]

\* What parse_head_line copies has room, and a 0 behind it.
Room(words) == Len(words.method) <= MethodMax /\ Len(words.path) <= PathMax

FirstLine ==
    /\ reading = "first"
    /\ LET r == Receive
       IN  /\ socket' = r.rest /\ buf' = r.buf
           /\ IF r.len < 5
                THEN reading' = "refused" /\ UNCHANGED request
                ELSE /\ request' = ParseHeadLine(SubSeq(r.buf, 1, r.len + 1))
                     /\ reading' = IF Room(request') THEN "headers" ELSE "undefined"
    /\ UNCHANGED client

\* while (recv_line(...) > 0): after the end of the stream it goes on for ever
\* with lines of one byte.
HeaderLine ==
    /\ reading = "headers"
    /\ LET r == Receive
       IN  /\ socket' = r.rest /\ buf' = r.buf
           /\ reading' = IF r.len = 0 THEN "ready" ELSE "headers"
    /\ UNCHANGED <<request, client>>

Next == Connect \/ FirstLine \/ HeaderLine

----------------------------------------------------------------------------
(* Properties. *)

\* Every line fits into the buffer with its CR and LF.
Fits == /\ Len(HeadLine(client.method, client.path)) + 2 <= LineMax
        /\ \A n \in DOMAIN client.headers : Len(client.headers[n]) + 2 <= LineMax

\* A request whose lines have all arrived is read for the method and the path it
\* names, unless one of them has no room in request[8] or url[256]: then, and only
\* then, what follows is undefined.  Of one that has arrived whole exactly the
\* headers have been read; one whose client closes is answered only if nothing but
\* the LF of the empty line is missing (http.c:78-125).  A header of a byte too
\* many for the buffer ends the headers early.
RequestRead ==
    Fits => /\ client.cut <= Len(Body) + 2 =>
                 /\ reading \in {"headers", "ready"} =>
                      Room(client) /\ request = [method |-> client.method, path |-> client.path]
                 /\ reading = "undefined" => ~Room(client)
            /\ reading = "ready" =>
                 /\ client.cut <= Len(Body) + 1
                 /\ client.cut = 0 => socket = Body

=============================================================================

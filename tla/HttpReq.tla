------------------------------ MODULE HttpReq ------------------------------
(***************************************************************************)
(* http_req (src/hw11/http.c): from the parsed request line to the         *)
(* response, while other programs change the served directory between its  *)
(* calls of stat, open, and sendfile.                                      *)
(*                                                                         *)
(* A request names one node of the file system.  When that node is a       *)
(* directory its index.html takes its place.  Calls may also fail, or do   *)
(* less than they were asked to, for reasons outside of the tree.          *)
(***************************************************************************)
EXTENDS Integers

CONSTANTS
    MaxSize,      \* bound: size of a file
    SendLimit     \* what one sendfile() transfers at most: 0x7ffff000 bytes

ASSUME MaxSizeIsNat   == MaxSize \in Nat
ASSUME SendLimitIsNat == SendLimit \in Nat

NOT_EXISTING == -1
FILE_IS_DIR  == -2
FILE_NO_PERM == -3

Nodes   == {"target", "index"}

\* "private": the mode bits that file_attr looks at deny it to the server,
\* which open() may judge otherwise (supplementary groups, the superuser).
Kinds   == {"absent", "dir", "file", "private"}

\* "calls": descriptors or memory run out, a lookup is denied on the way or
\* interrupted, the disk fails; "peer": the client is gone, or the server is
\* stopped and continued while it sends.
Faults  == {"calls", "peer"}
Methods == {"GET", "HEAD", "POST"}

\* "escape": with ".." in it or absolute; "root": "/", read as index.html;
\* "slash": with a trailing slash, which is removed.
Urls    == {"escape", "root", "name", "slash"}

VARIABLES
    pc,       \* control point
    method,   \* request
    url,      \* the kind of url
    kind,     \* [Nodes -> Kinds]
    size,     \* [Nodes -> size of the file there]
    fname,    \* the node that fname leads to
    attr,     \* file_size: a size or an error code
    linked,   \* f is still the file at fname
    fsize,    \* size of the open file f
    status,   \* the response code, 0 before there is one
    length,   \* Content-length
    body,     \* bytes that sendfile has sent
    faults,   \* history: what may have gone wrong outside of the tree
    seen,     \* history: kinds of node that the request could have met
    quiet     \* history: fname has not changed since file_attr

fsVars   == <<kind, size, faults, seen, quiet>>
reqVars  == <<method, url>>
respVars == <<status, length, body>>
vars     == <<pc, fsVars, reqVars, fname, attr, linked, fsize, respVars>>

TypeOK ==
    /\ pc \in {"method", "attr", "isDir", "index", "decide", "open", "head", "send",
               "done", "crashed"}
    /\ method \in Methods /\ url \in Urls
    /\ kind \in [Nodes -> Kinds] /\ size \in [Nodes -> 0 .. MaxSize]
    /\ fname \in Nodes
    /\ attr \in FILE_NO_PERM .. MaxSize
    /\ linked \in BOOLEAN /\ fsize \in 0 .. MaxSize
    /\ status \in {0, 200, 403, 404, 501}
    /\ length \in FILE_NO_PERM .. MaxSize
    /\ body \in 0 .. MaxSize
    /\ faults \subseteq Faults /\ seen \subseteq Kinds /\ quiet \in BOOLEAN

Init ==
    /\ pc = "method" /\ method \in Methods /\ url \in Urls
    /\ kind \in [Nodes -> Kinds] /\ size \in [Nodes -> 0 .. MaxSize]
    /\ fname = "target" /\ attr = 0 /\ linked = FALSE /\ fsize = 0
    /\ status = 0 /\ length = 0 /\ body = 0
    /\ faults = {} /\ seen = {kind[n] : n \in Nodes} /\ quiet = TRUE

Goto(from, to) == pc = from /\ pc' = to

Respond(code) == status' = code /\ UNCHANGED <<length, body>>

Method ==
    \/ /\ method \notin {"GET", "HEAD"}
       /\ Goto("method", "done")
       /\ Respond(501)
       /\ UNCHANGED <<fsVars, reqVars, fname, attr, linked, fsize>>
    \/ /\ method \in {"GET", "HEAD"}
       /\ Goto("method", "attr")
       /\ UNCHANGED <<fsVars, reqVars, fname, attr, linked, fsize, respVars>>

\* Variant: the name is looked up before it is checked.
FileAttrLate(n) == CASE kind[n] = "absent"  -> NOT_EXISTING
                     [] kind[n] = "dir"     -> FILE_IS_DIR
                     [] kind[n] = "private" -> FILE_NO_PERM
                     [] kind[n] = "file"    -> size[n]

\* file_attr(n)
FileAttr(n) == IF url = "escape" THEN FILE_NO_PERM
               ELSE CASE kind[n] = "absent"  -> NOT_EXISTING
                      [] kind[n] = "dir"     -> FILE_IS_DIR
                      [] kind[n] = "private" -> FILE_NO_PERM
                      [] kind[n] = "file"    -> size[n]

Attr ==
    /\ \/ Goto("attr", "isDir")
       \/ Goto("index", "decide")
    /\ \/ attr' = FileAttr(fname)
       \/ "calls" \in faults /\ url # "escape" /\ attr' = NOT_EXISTING
    /\ quiet' = TRUE
    /\ UNCHANGED <<kind, size, faults, seen, reqVars, fname, linked, fsize, respVars>>

\* strcat(fname, "/index.html"): for "/" fname is a string constant.
IsDir ==
    \/ /\ attr = FILE_IS_DIR /\ url = "root"
       /\ Goto("isDir", "crashed")
       /\ UNCHANGED <<fsVars, reqVars, fname, attr, linked, fsize, respVars>>
    \/ /\ attr = FILE_IS_DIR /\ url # "root"
       /\ Goto("isDir", "index")
       /\ fname' = "index"
       /\ UNCHANGED <<fsVars, reqVars, attr, linked, fsize, respVars>>
    \/ /\ attr # FILE_IS_DIR
       /\ Goto("isDir", "decide")
       /\ UNCHANGED <<fsVars, reqVars, fname, attr, linked, fsize, respVars>>

\* Variant: the two error pages are exchanged.
DecideSwapped ==
    /\ attr \in {NOT_EXISTING, FILE_NO_PERM}
    /\ Goto("decide", "done")
    /\ Respond(IF attr = NOT_EXISTING THEN 403 ELSE 404)
    /\ UNCHANGED <<fsVars, reqVars, fname, attr, linked, fsize>>

Decide ==
    \/ /\ attr \in {NOT_EXISTING, FILE_NO_PERM}
       /\ Goto("decide", "done")
       /\ Respond(IF attr = NOT_EXISTING THEN 404 ELSE 403)
       /\ UNCHANGED <<fsVars, reqVars, fname, attr, linked, fsize>>
    \/ /\ attr \notin {NOT_EXISTING, FILE_NO_PERM}
       /\ Goto("decide", "open")
       /\ UNCHANGED <<fsVars, reqVars, fname, attr, linked, fsize, respVars>>

\* open() of a directory for reading succeeds.  Whatever it fails for is
\* answered 404.
Open ==
    \/ /\ kind[fname] \in {"absent", "private"} \/ "calls" \in faults
       /\ Goto("open", "done")
       /\ Respond(404)
       /\ UNCHANGED <<fsVars, reqVars, fname, attr, linked, fsize>>
    \/ /\ kind[fname] # "absent"
       /\ Goto("open", "head")
       /\ linked' = TRUE
       /\ fsize' = IF kind[fname] = "dir" THEN 0 ELSE size[fname]
       /\ UNCHANGED <<fsVars, reqVars, fname, attr, respVars>>

Head ==
    /\ Goto("head", "send")
    /\ status' = 200 /\ length' = attr
    /\ UNCHANGED <<fsVars, reqVars, fname, attr, linked, fsize, body>>

\* Variant: everything is sent, up to the end of the file.
SendAll ==
    /\ Goto("send", "done")
    /\ body' = fsize
    /\ UNCHANGED <<fsVars, reqVars, fname, attr, linked, fsize, status, length>>

\* Variant: sendfile starts at an offset other than 0.
SendFromOne ==
    /\ Goto("send", "done")
    /\ body' = IF attr < 0 \/ fsize < attr + 1 THEN (IF fsize = 0 THEN 0 ELSE fsize - 1) ELSE attr
    /\ UNCHANGED <<fsVars, reqVars, fname, attr, linked, fsize, status, length>>

\* What sendfile() has to send and can: it refuses a count of FILE_IS_DIR, the
\* largest size_t but one, and stops at the end of the file or at its limit.
Least(a, b) == IF a < b THEN a ELSE b
Sendable    == IF attr < 0 THEN 0 ELSE Least(Least(attr, fsize), SendLimit)

\* One call of sendfile, whose result is not looked at: it may fail or stop
\* early.
SendFile ==
    /\ Goto("send", "done")
    /\ body' \in 0 .. Sendable
    /\ faults = {} => body' = Sendable
    /\ UNCHANGED <<fsVars, reqVars, fname, attr, linked, fsize, status, length>>

\* A write to a client that is gone may raise SIGPIPE.
Killed ==
    /\ pc \in {"method", "decide", "open", "head", "send"} /\ "peer" \in faults
    /\ pc' = "crashed"
    /\ UNCHANGED <<fsVars, reqVars, fname, attr, linked, fsize, respVars>>

Server == Method \/ Attr \/ IsDir \/ Decide \/ Open \/ Head \/ SendFile \/ Killed

----------------------------------------------------------------------------
(* Other programs, and the system. *)

\* The tree a request finds is any tree: changes matter once it is looked at.
Serving == pc \notin {"method", "done", "crashed"}

\* Another file, or none, takes the place of a node.
Change(n) ==
    /\ Serving
    /\ \E k \in Kinds, z \in 0 .. MaxSize :
         /\ kind' = [kind EXCEPT ![n] = k]
         /\ size' = [size EXCEPT ![n] = z]
         /\ seen' = seen \cup {k}
    /\ quiet' = (quiet /\ n # fname)
    /\ linked' = (linked /\ n # fname)
    /\ UNCHANGED <<pc, faults, reqVars, fname, attr, fsize, respVars>>

\* A file is truncated or written to in place, and so is f if it is that file.
Resize(n) ==
    /\ Serving /\ kind[n] \in {"file", "private"}
    /\ \E z \in 0 .. MaxSize :
         /\ size' = [size EXCEPT ![n] = z]
         /\ fsize' = IF linked /\ n = fname THEN z ELSE fsize
    /\ quiet' = (quiet /\ n # fname)
    /\ UNCHANGED <<pc, kind, faults, seen, reqVars, fname, attr, linked, respVars>>

\* From now on something may go wrong.
Fault(x) ==
    /\ Serving /\ x \notin faults
    /\ faults' = faults \cup {x}
    /\ UNCHANGED <<pc, kind, size, seen, quiet, reqVars, fname, attr, linked, fsize, respVars>>

Next == \/ Server
        \/ \E n \in Nodes : Change(n) \/ Resize(n)
        \/ \E x \in Faults : Fault(x)

Spec == Init /\ [][Next]_vars

----------------------------------------------------------------------------
(* Properties. *)

\* A name with ".." in it or an absolute one is never served, whatever the
\* file system looks like when it is looked up.  An error is made up only
\* where calls fail for want of descriptors or the like, which is answered
\* 404: otherwise a node the request leads to was absent or unreadable at some
\* moment of the request (http.c:40-55, 133-158).
StatusJustified ==
    /\ url = "escape" => status # 200
    /\ status = 404 => "absent" \in seen \/ "private" \in seen \/ "calls" \in faults
    /\ status = 403 => url = "escape" \/ "private" \in seen

\* However the file changes after file_attr, the body is never longer than
\* the Content-length announced.  Where nothing changes and nothing fails it
\* is as long, up to the limit of the one sendfile() there is; and when
\* index.html is itself a directory the length announced is -2 and nothing is
\* sent (http.c:140-172).
BodyRight ==
    status = 200 =>
        /\ length >= 0 => body <= length
        /\ pc = "done" /\ quiet /\ faults = {} =>
             \/ 0 <= length /\ length <= SendLimit /\ body = length
             \/ SendLimit < length /\ body = SendLimit
             \/ length = FILE_IS_DIR /\ fname = "index" /\ kind["index"] = "dir" /\ body = 0

=============================================================================

--------------------------- MODULE HttpReqProofs ---------------------------
(***************************************************************************)
(* Proofs about HttpReq, for files of any size and any limit of sendfile(). *)
(***************************************************************************)
EXTENDS HttpReq, TLAPS

----------------------------------------------------------------------------
(* The inductive invariant. *)

\* Every node the request could have met is remembered.
SeenInv == \A n \in Nodes : kind[n] \in seen

\* What file_attr's result tells of the past, once it was called.
AttrInv ==
    /\ attr = NOT_EXISTING => "absent" \in seen \/ "calls" \in faults
    /\ attr = FILE_NO_PERM => url = "escape" \/ "private" \in seen
    /\ url = "escape" => attr = FILE_NO_PERM \/ pc \in {"method", "attr", "crashed"}
                          \/ (pc = "done" /\ status = 501)

\* What it tells of the present: the node is as it was, if nobody has changed
\* it since, and so is the open file.
QuietInv ==
    /\ pc \in {"isDir", "decide", "open", "head", "send"} /\ quiet =>
         /\ attr = FILE_IS_DIR => kind[fname] = "dir"
         /\ attr >= 0 => kind[fname] = "file" /\ size[fname] = attr
    /\ pc \in {"head", "send"} /\ quiet => linked
    /\ linked /\ pc \in {"head", "send"} =>
         fsize = (IF kind[fname] = "dir" THEN 0 ELSE size[fname])

\* Where the checks of the result lead to.
PathInv ==
    /\ pc \in {"open", "head", "send"} => attr \notin {NOT_EXISTING, FILE_NO_PERM}
    /\ pc \in {"decide", "open", "head", "send"} /\ attr = FILE_IS_DIR => fname = "index"
    /\ pc = "index" => fname = "index" /\ url # "escape"
    /\ pc \notin {"send", "done", "crashed"} => status = 0 /\ body = 0
    /\ status = 200 => pc \in {"send", "done", "crashed"} /\ url # "escape" /\ length = attr
    /\ pc = "send" => status = 200 /\ body = 0

\* The response that was made is justified.
ResponseInv == StatusJustified /\ BodyRight

Inv == TypeOK /\ SeenInv /\ AttrInv /\ QuietInv /\ PathInv /\ ResponseInv

LEMMA InitInv == Init => Inv
  <1> SUFFICES ASSUME Init PROVE Inv
    OBVIOUS
  <1> USE MaxSizeIsNat DEF Init
  <1>1. TypeOK
    <2>1. seen \subseteq Kinds
      OBVIOUS
    <2>2. fname \in Nodes
      BY DEF Nodes
    <2>3. attr \in FILE_NO_PERM .. MaxSize /\ length \in FILE_NO_PERM .. MaxSize
      BY DEF FILE_NO_PERM
    <2>4. fsize \in 0 .. MaxSize /\ body \in 0 .. MaxSize
      OBVIOUS
    <2>5. status \in {0, 200, 403, 404, 501} /\ quiet \in BOOLEAN /\ linked \in BOOLEAN
      OBVIOUS
    <2> QED  BY <2>1, <2>2, <2>3, <2>4, <2>5 DEF TypeOK
  <1>2. SeenInv
    BY DEF SeenInv
  <1>3. AttrInv /\ PathInv
    BY DEF AttrInv, PathInv, NOT_EXISTING, FILE_NO_PERM, FILE_IS_DIR
  <1>4. QuietInv
    BY DEF QuietInv
  <1>5. ResponseInv
    BY DEF ResponseInv, StatusJustified, BodyRight
  <1> QED  BY <1>1, <1>2, <1>3, <1>4, <1>5 DEF Inv

\* The result of file_attr: a size for a file that may be read, or the code
\* for what is there instead.
LEMMA FileAttrIs ==
  ASSUME TypeOK, NEW n \in Nodes
  PROVE  /\ FileAttr(n) \in FILE_NO_PERM .. MaxSize
         /\ url = "escape" => FileAttr(n) = FILE_NO_PERM
         /\ FileAttr(n) = NOT_EXISTING => kind[n] = "absent"
         /\ FileAttr(n) = FILE_NO_PERM => url = "escape" \/ kind[n] = "private"
         /\ FileAttr(n) = FILE_IS_DIR => kind[n] = "dir"
         /\ FileAttr(n) >= 0 => kind[n] = "file" /\ FileAttr(n) = size[n]
  <1> USE MaxSizeIsNat DEF FILE_NO_PERM, NOT_EXISTING, FILE_IS_DIR
  <1>1. kind[n] \in Kinds /\ size[n] \in 0 .. MaxSize
    BY DEF TypeOK
  <1>2. CASE url = "escape"
    BY <1>1, <1>2 DEF FileAttr
  <1>3. CASE url # "escape"
    BY <1>1, <1>3 DEF FileAttr, Kinds
  <1> QED  BY <1>2, <1>3

\* Every step keeps the invariant, whether the server or another program takes it.
LEMMA StepInv == Inv /\ [Next]_vars => Inv'
  <1> SUFFICES ASSUME Inv, [Next]_vars PROVE Inv'
    OBVIOUS
  <1> USE DEF fsVars, reqVars, respVars
  <1>t. TypeOK                           BY DEF Inv
  <1>s. SeenInv                          BY DEF Inv
  <1>a. AttrInv                          BY DEF Inv
  <1>q. QuietInv                         BY DEF Inv
  <1>p. PathInv                          BY DEF Inv
  <1>r. StatusJustified /\ BodyRight     BY DEF Inv, ResponseInv
  <1>1. CASE Method
    <2>1. TypeOK'
      BY <1>1, <1>t DEF Method, Goto, Respond, TypeOK
    <2>2. SeenInv'
      BY <1>1, <1>t, <1>s DEF Method, Goto, Respond, SeenInv, TypeOK
    <2>3. AttrInv'
      BY <1>1, <1>s, <1>a DEF Method, Goto, Respond, AttrInv
    <2>4. QuietInv'
      BY <1>1, <1>q DEF Method, Goto, Respond, QuietInv
    <2>5. PathInv'
      BY <1>1, <1>a, <1>p DEF Method, Goto, Respond, AttrInv, PathInv
    <2>6. StatusJustified'
      BY <1>1, <1>a, <1>p, <1>r DEF Method, Goto, Respond, AttrInv, PathInv, StatusJustified
    <2>7. BodyRight'
      BY <1>1, <1>p, <1>r DEF Method, Goto, Respond, PathInv, BodyRight
    <2> QED  BY <2>1, <2>2, <2>3, <2>4, <2>5, <2>6, <2>7 DEF Inv, ResponseInv
  <1>2. CASE Attr
    <2>a. /\ fname \in Nodes
          /\ \/ attr' = FileAttr(fname)
             \/ "calls" \in faults /\ url # "escape" /\ attr' = NOT_EXISTING
      BY <1>2, <1>t DEF Attr, TypeOK
    <2>0. /\ \/ pc = "attr" /\ pc' = "isDir"
             \/ pc = "index" /\ pc' = "decide"
          /\ UNCHANGED <<kind, size, faults, seen, url, method, fname, linked, fsize, status, length, body>>
          /\ quiet' = TRUE
      BY <1>2 DEF Attr, Goto
    <2>v. /\ attr' \in FILE_NO_PERM .. MaxSize
          /\ url = "escape" => attr' = FILE_NO_PERM
          /\ attr' = NOT_EXISTING => kind[fname] = "absent" \/ "calls" \in faults
          /\ attr' = FILE_NO_PERM => url = "escape" \/ kind[fname] = "private"
          /\ attr' = FILE_IS_DIR => kind[fname] = "dir"
          /\ attr' >= 0 => kind[fname] = "file" /\ attr' = size[fname]
      <3>1. CASE attr' = FileAttr(fname)
        BY <2>a, <3>1, <1>t, FileAttrIs
      <3>2. CASE "calls" \in faults /\ url # "escape" /\ attr' = NOT_EXISTING
        BY <3>2, MaxSizeIsNat DEF NOT_EXISTING, FILE_NO_PERM, FILE_IS_DIR
      <3> QED  BY <2>a, <3>1, <3>2
    <2>1. TypeOK'
      BY <2>0, <2>v, <1>t DEF TypeOK
    <2>2. SeenInv'
      BY <2>0, <1>s DEF SeenInv
    <2>3. AttrInv'
      BY <2>a, <2>0, <2>v, <1>s DEF AttrInv, SeenInv
    <2>4. QuietInv'
      BY <2>0, <2>v DEF QuietInv
    <2>5. PathInv'
      BY <2>0, <1>p DEF PathInv
    <2>6. StatusJustified'
      BY <2>0, <1>r DEF StatusJustified
    <2>7. BodyRight'
      BY <2>0, <1>p DEF PathInv, BodyRight
    <2> QED  BY <2>1, <2>2, <2>3, <2>4, <2>5, <2>6, <2>7 DEF Inv, ResponseInv
  <1>3. CASE IsDir
    <2>1. TypeOK'
      BY <1>3, <1>t DEF IsDir, Goto, TypeOK, Nodes
    <2>2. SeenInv'
      BY <1>3, <1>t, <1>s DEF IsDir, Goto, SeenInv, TypeOK
    <2>3. AttrInv'
      BY <1>3, <1>s, <1>a DEF IsDir, Goto, AttrInv
    <2>4. QuietInv'
      BY <1>3, <1>q DEF IsDir, Goto, QuietInv
    <2>5. PathInv'
      BY <1>3, <1>a, <1>p DEF IsDir, Goto, AttrInv, PathInv, FILE_IS_DIR, FILE_NO_PERM
    <2>6. StatusJustified'
      BY <1>3, <1>a, <1>p, <1>r DEF IsDir, Goto, AttrInv, PathInv, StatusJustified
    <2>7. BodyRight'
      BY <1>3, <1>p, <1>r DEF IsDir, Goto, PathInv, BodyRight
    <2> QED  BY <2>1, <2>2, <2>3, <2>4, <2>5, <2>6, <2>7 DEF Inv, ResponseInv
  <1>4. CASE Decide
    <2>1. TypeOK'
      BY <1>4, <1>t DEF Decide, Goto, Respond, TypeOK
    <2>2. SeenInv'
      BY <1>4, <1>t, <1>s DEF Decide, Goto, Respond, SeenInv, TypeOK
    <2>3. AttrInv'
      BY <1>4, <1>s, <1>a DEF Decide, Goto, Respond, AttrInv
    <2>4. QuietInv'
      BY <1>4, <1>q DEF Decide, Goto, Respond, QuietInv
    <2>5. PathInv'
      BY <1>4, <1>a, <1>p DEF Decide, Goto, Respond, AttrInv, PathInv
    <2>6. StatusJustified'
      BY <1>4, <1>a, <1>p, <1>r DEF Decide, Goto, Respond, AttrInv, PathInv, StatusJustified
    <2>7. BodyRight'
      BY <1>4, <1>p, <1>r DEF Decide, Goto, Respond, PathInv, BodyRight
    <2> QED  BY <2>1, <2>2, <2>3, <2>4, <2>5, <2>6, <2>7 DEF Inv, ResponseInv
  <1>5. CASE Open
    <2>0. fsize' \in 0 .. MaxSize
      BY <1>5, <1>t, MaxSizeIsNat DEF Open, TypeOK
    <2>1. TypeOK'
      <3>1. status' \in {404, status} /\ pc' \in {"done", "head"}
        BY <1>5 DEF Open, Goto, Respond
      <3>3. linked' \in BOOLEAN
        BY <1>5, <1>t DEF Open, TypeOK
      <3>2. UNCHANGED <<kind, size, faults, seen, quiet, url, method, fname, attr, length, body>>
        BY <1>5 DEF Open, Respond
      <3> QED  BY <2>0, <3>1, <3>2, <3>3, <1>t DEF TypeOK
    <2>2. SeenInv'
      BY <1>5, <1>t, <1>s DEF Open, Goto, Respond, SeenInv, TypeOK
    <2>3. AttrInv'
      BY <1>5, <1>s, <1>a DEF Open, Goto, Respond, AttrInv
    <2>4. QuietInv'
      BY <1>5, <1>q DEF Open, Goto, Respond, QuietInv
    <2>5. PathInv'
      BY <1>5, <1>a, <1>p DEF Open, Goto, Respond, AttrInv, PathInv
    <2>6. StatusJustified'
      BY <1>5, <1>t, <1>s, <1>p, <1>r DEF Open, Goto, Respond, SeenInv, PathInv, StatusJustified, TypeOK
    <2>7. BodyRight'
      BY <1>5, <1>p, <1>r DEF Open, Goto, Respond, PathInv, BodyRight
    <2> QED  BY <2>1, <2>2, <2>3, <2>4, <2>5, <2>6, <2>7 DEF Inv, ResponseInv
  <1>6. CASE Head
    <2>1. TypeOK'
      BY <1>6, <1>t DEF Head, Goto, TypeOK
    <2>2. SeenInv'
      BY <1>6, <1>t, <1>s DEF Head, Goto, SeenInv, TypeOK
    <2>3. AttrInv'
      BY <1>6, <1>s, <1>a DEF Head, Goto, AttrInv
    <2>4. QuietInv'
      BY <1>6, <1>q DEF Head, Goto, QuietInv
    <2>5. PathInv'
      BY <1>6, <1>a, <1>p DEF Head, Goto, AttrInv, PathInv
    <2>6. StatusJustified'
      BY <1>6, <1>a, <1>p, <1>r DEF Head, Goto, AttrInv, PathInv, StatusJustified
    <2>7. BodyRight'
      BY <1>6, <1>t, <1>p DEF Head, Goto, PathInv, BodyRight, TypeOK, FILE_NO_PERM
    <2> QED  BY <2>1, <2>2, <2>3, <2>4, <2>5, <2>6, <2>7 DEF Inv, ResponseInv
  <1>7. CASE SendFile
    <2>s. /\ Sendable \in 0 .. MaxSize
          /\ attr >= 0 => Sendable <= attr
          /\ attr < 0 => Sendable = 0
          /\ attr >= 0 /\ fsize = attr /\ attr <= SendLimit => Sendable = attr
          /\ attr >= 0 /\ fsize = attr /\ SendLimit < attr => Sendable = SendLimit
      BY <1>t, MaxSizeIsNat, SendLimitIsNat DEF Sendable, Least, TypeOK, FILE_NO_PERM
    <2>0. /\ body' \in 0 .. Sendable /\ (faults = {} => body' = Sendable)
          /\ pc = "send" /\ pc' = "done"
          /\ UNCHANGED <<kind, size, faults, seen, quiet, url, method, fname, attr, linked, fsize,
                         status, length>>
      BY <1>7 DEF SendFile, Goto
    <2>1. TypeOK'
      <3>1. body' \in 0 .. MaxSize
        BY <2>0, <2>s, MaxSizeIsNat
      <3> QED  BY <2>0, <3>1, <1>t DEF TypeOK
    <2>2. SeenInv'
      BY <2>0, <1>s DEF SeenInv
    <2>3. AttrInv'
      BY <2>0, <1>a DEF AttrInv
    <2>4. QuietInv'
      BY <2>0 DEF QuietInv
    <2>5. PathInv'
      BY <2>0, <1>p DEF PathInv
    <2>6. StatusJustified'
      BY <2>0, <1>r DEF StatusJustified
    <2>7. BodyRight'
      <3>1. length = attr /\ attr \in FILE_NO_PERM .. MaxSize
        BY <2>0, <1>p, <1>t DEF PathInv, TypeOK
      <3>2. attr >= 0 => body' <= attr
        BY <2>0, <2>s, <3>1, MaxSizeIsNat DEF FILE_NO_PERM
      <3>3. ASSUME quiet, faults = {}
            PROVE  \/ 0 <= attr /\ attr <= SendLimit /\ body' = attr
                   \/ SendLimit < attr /\ body' = SendLimit
                   \/ attr = FILE_IS_DIR /\ fname = "index" /\ kind["index"] = "dir" /\ body' = 0
        <4>1. CASE attr >= 0
          <5>1. fsize = attr
            BY <3>3, <4>1, <2>0, <1>q DEF QuietInv
          <5> QED  BY <5>1, <4>1, <3>1, <3>3, <2>0, <2>s, MaxSizeIsNat, SendLimitIsNat
                   DEF FILE_NO_PERM
        <4>2. CASE attr < 0
          <5>1. attr = FILE_IS_DIR
            BY <4>2, <3>1, <2>0, <1>p, MaxSizeIsNat
               DEF PathInv, FILE_NO_PERM, FILE_IS_DIR, NOT_EXISTING
          <5>2. fname = "index" /\ kind["index"] = "dir"
            BY <5>1, <3>3, <2>0, <1>p, <1>q DEF PathInv, QuietInv
          <5> QED  BY <5>1, <5>2, <4>2, <3>3, <2>0, <2>s
        <4> QED  BY <4>1, <4>2, <3>1 DEF FILE_NO_PERM
      <3> QED  BY <2>0, <3>1, <3>2, <3>3 DEF BodyRight
    <2> QED  BY <2>1, <2>2, <2>3, <2>4, <2>5, <2>6, <2>7 DEF Inv, ResponseInv
  <1>8. ASSUME NEW n \in Nodes, Change(n) PROVE Inv'
    <2>1. TypeOK'
      BY <1>8, <1>t DEF Change, Serving, TypeOK
    <2>2. SeenInv'
      BY <1>8, <1>t, <1>s DEF Change, Serving, SeenInv, TypeOK
    <2>3. AttrInv'
      BY <1>8, <1>s, <1>a DEF Change, Serving, AttrInv
    <2>4. QuietInv'
      <3>1. CASE n = fname
        BY <1>8, <3>1, <1>t, <1>q DEF Change, QuietInv, TypeOK
      <3>2. CASE n # fname
        <4>1. /\ kind'[fname] = kind[fname] /\ size'[fname] = size[fname]
              /\ fsize' = fsize /\ (quiet' <=> quiet) /\ (linked' <=> linked)
          BY <1>8, <3>2, <1>t DEF Change, TypeOK
        <4> QED  BY <1>8, <4>1, <1>q DEF Change, QuietInv
      <3> QED  BY <3>1, <3>2
    <2>5. PathInv'
      BY <1>8, <1>a, <1>p DEF Change, Serving, AttrInv, PathInv
    <2>6. StatusJustified'
      BY <1>8, <1>a, <1>p, <1>r DEF Change, Serving, AttrInv, PathInv, StatusJustified
    <2>7. BodyRight'
      BY <1>8, <1>p, <1>r DEF Change, Serving, PathInv, BodyRight
    <2> QED  BY <2>1, <2>2, <2>3, <2>4, <2>5, <2>6, <2>7 DEF Inv, ResponseInv
  <1>9. ASSUME NEW n \in Nodes, Resize(n) PROVE Inv'
    <2>1. TypeOK'
      BY <1>9, <1>t DEF Resize, Serving, TypeOK
    <2>2. SeenInv'
      BY <1>9, <1>t, <1>s DEF Resize, Serving, SeenInv, TypeOK
    <2>3. AttrInv'
      BY <1>9, <1>s, <1>a DEF Resize, Serving, AttrInv
    <2>4. QuietInv'
      <3>1. CASE n = fname
        <4>1. /\ kind'[fname] # "dir" /\ fname' = fname /\ ~quiet'
          BY <1>9, <3>1 DEF Resize
        <4>2. linked => fsize' = size'[fname]
          <5>1. PICK z \in 0 .. MaxSize : /\ size' = [size EXCEPT ![n] = z]
                                          /\ fsize' = IF linked /\ n = fname THEN z ELSE fsize
            BY <1>9 DEF Resize
          <5> QED  BY <5>1, <3>1, <1>t DEF TypeOK
        <4> QED  BY <1>9, <4>1, <4>2 DEF Resize, QuietInv
      <3>2. CASE n # fname
        <4>1. /\ kind'[fname] = kind[fname] /\ size'[fname] = size[fname]
              /\ fsize' = fsize /\ (quiet' <=> quiet) /\ (linked' <=> linked)
          BY <1>9, <3>2, <1>t DEF Resize, TypeOK
        <4> QED  BY <1>9, <4>1, <1>q DEF Resize, QuietInv
      <3> QED  BY <3>1, <3>2
    <2>5. PathInv'
      BY <1>9, <1>a, <1>p DEF Resize, Serving, AttrInv, PathInv
    <2>6. StatusJustified'
      BY <1>9, <1>a, <1>p, <1>r DEF Resize, Serving, AttrInv, PathInv, StatusJustified
    <2>7. BodyRight'
      BY <1>9, <1>p, <1>r DEF Resize, Serving, PathInv, BodyRight
    <2> QED  BY <2>1, <2>2, <2>3, <2>4, <2>5, <2>6, <2>7 DEF Inv, ResponseInv
  <1>11. ASSUME NEW x \in Faults, Fault(x) PROVE Inv'
    <2>0. /\ faults' = faults \cup {x} /\ faults' # {}
          /\ UNCHANGED <<pc, kind, size, seen, quiet, url, method, fname, attr, linked, fsize,
                         status, length, body>>
          /\ pc # "done"
      BY <1>11 DEF Fault, Serving
    <2>1. TypeOK' /\ SeenInv' /\ AttrInv' /\ PathInv'
      BY <2>0, <1>t, <1>s, <1>a, <1>p DEF TypeOK, SeenInv, AttrInv, PathInv
    <2>2. QuietInv' /\ StatusJustified' /\ BodyRight'
      BY <2>0, <1>q, <1>r DEF QuietInv, StatusJustified, BodyRight
    <2> QED  BY <2>1, <2>2 DEF Inv, ResponseInv
  <1>12. CASE Killed
    <2>0. /\ pc' = "crashed" /\ pc # "done"
          /\ UNCHANGED <<kind, size, faults, seen, quiet, url, method, fname, attr, linked, fsize,
                         status, length, body>>
      BY <1>12 DEF Killed
    <2>1. TypeOK' /\ SeenInv' /\ AttrInv'
      BY <2>0, <1>t, <1>s, <1>a DEF TypeOK, SeenInv, AttrInv
    <2>2. QuietInv' /\ PathInv'
      BY <2>0, <1>p DEF QuietInv, PathInv
    <2>3. StatusJustified' /\ BodyRight'
      BY <2>0, <1>r DEF StatusJustified, BodyRight
    <2> QED  BY <2>1, <2>2, <2>3 DEF Inv, ResponseInv
  <1>10. CASE UNCHANGED vars
    <2>1. TypeOK' /\ SeenInv' /\ AttrInv' /\ PathInv'
      BY <1>10, <1>t, <1>s, <1>a, <1>p DEF vars, TypeOK, SeenInv, AttrInv, PathInv
    <2>2. QuietInv' /\ StatusJustified' /\ BodyRight'
      BY <1>10, <1>q, <1>r DEF vars, QuietInv, StatusJustified, BodyRight
    <2> QED  BY <2>1, <2>2 DEF Inv, ResponseInv
  <1> QED
    BY <1>1, <1>2, <1>3, <1>4, <1>5, <1>6, <1>7, <1>8, <1>9, <1>10, <1>11, <1>12
       DEF Next, Server

LEMMA Invariant == Spec => []Inv
  BY InitInv, StepInv, PTL DEF Spec

----------------------------------------------------------------------------
(* The theorems. *)

\* The request stays well typed: lengths, codes and bytes sent are in their
\* ranges for every change of the tree.
THEOREM TypeCorrect == Spec => []TypeOK
  <1>1. Inv => TypeOK
    BY DEF Inv
  <1> QED  BY Invariant, <1>1, PTL

\* Whatever other programs do between stat and open: names that escape are
\* never served, and every error is true of something that was there, or calls
\* were failing, which is answered 404 whatever is there.
THEOREM ErrorsAreJustified == Spec => []StatusJustified
  <1>1. Inv => StatusJustified
    BY DEF Inv, ResponseInv
  <1> QED  BY Invariant, <1>1, PTL

\* Whatever other programs do between stat and sendfile: the body never goes
\* beyond Content-length.  If the file was left alone and nothing failed, the
\* body fills it, up to what one sendfile() sends at most.
THEOREM BodyIsRight == Spec => []BodyRight
  <1>1. Inv => BodyRight
    BY DEF Inv, ResponseInv
  <1> QED  BY Invariant, <1>1, PTL

=============================================================================

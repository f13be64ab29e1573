----------------------------- MODULE TomlProofs -----------------------------
(***************************************************************************)
(* What holds of the tree of hw07/toml.c while a text is parsed, for every *)
(* set of keys and types, every length of a path and every text.           *)
(*                                                                         *)
(* The invariant is TreeInv.  The properties of Toml say what a reader of  *)
(* the tree finds; they are not inductive.  Names need that a reference    *)
(* leads to a table made later than the one with the entry, so that there  *)
(* are no ways in circles; what an array says must also hold of the array  *)
(* that is still being read, whose call is on the stack; and the way to    *)
(* the current table must avoid the arrays that calls in progress add to,  *)
(* for walk_tabpath takes the last table of an array.  Each function that  *)
(* changes the tree has a lemma, each action another.                      *)
(***************************************************************************)
EXTENDS Toml, SequenceTheorems, WellFoundedInduction, TLAPS

-----------------------------------------------------------------------------
(* The tokens, and the types of the tree. *)

\* What a token's text, a key or the type of a value can be.
Word == Keys \cup {BadKey, "stuck", ""} \cup ValTypes

\* A token is well formed; it has no text at the end.
TokOK(t) == t.text \in Word /\ t.twin \in BOOLEAN /\ (t.eof => t.text = "")

\* A token is well formed, and where a value is read it is never "m".
LEMMA NextToken ==
    ASSUME TokOK(tok)
    PROVE  /\ \A b \in BOOLEAN : \A t \in next_token(b) : TokOK(t)
           /\ \A t \in next_token(FALSE) : t.text # "m"
  <1>1. "m" \notin ValTypes
    BY TomlAssumption
  <1>2. \A q : /\ TokOK(Token(q)) /\ Token(q).text = "" /\ ~Token(q).eof
               /\ TokOK(Twin(q)) /\ Twin(q).text = ""
    BY DEF TokOK, Token, Twin, Word
  <1>w. /\ \A v \in Word : TokOK(String(v)) /\ String(v).text = v
        /\ TokOK(Eof) /\ Eof.text = ""
    BY DEF TokOK, Token, String, Eof, Word
  <1>3. \A t \in Marks : TokOK(t) /\ t.text \in {"", "stuck"}
    BY <1>2, <1>w DEF Marks, Stuck, Word
  <1>4. \A b \in BOOLEAN : \A t \in Tokens(b) : TokOK(t)
    BY <1>2, <1>w, <1>3 DEF Tokens, Word
  <1>5. \A t \in Tokens(FALSE) : t.text # "m"
    BY <1>1, <1>w, <1>3 DEF Tokens, Word
  <1>6. CASE Stays
    <2>1. \A b \in BOOLEAN : next_token(b) = {tok}
      BY <1>6 DEF next_token
    <2>2. tok.text # "m"
      BY <1>6 DEF Stays, TokOK, Stuck, String, Token
    <2> QED  BY <2>1, <2>2
  <1>7. CASE ~Stays /\ tok.twin
    <2>1. \A b \in BOOLEAN : next_token(b) \subseteq {Token(tok.tok), Twin(tok.tok)}
      BY <1>7 DEF next_token
    <2> QED  BY <2>1, <1>2
  <1>8. CASE ~Stays /\ ~tok.twin
    <2>1. \A b \in BOOLEAN : next_token(b) \subseteq {Eof} \cup Tokens(b)
      BY <1>8 DEF next_token
    <2> QED  BY <2>1, <1>w, <1>4, <1>5
  <1> QED  BY <1>6, <1>7, <1>8

-----------------------------------------------------------------------------
\* Entries, tables, items, arrays and trees.
Kinds == {"v", "a", "t"}
Ent == [key : Word, kind : Kinds, ref : Nat \cup Word]
Tab == [implicit : BOOLEAN, readonly : BOOLEAN, ents : Seq(Ent), defs : Nat]
Item == [kind : Kinds, ref : Nat \cup Word]
Arr == [kind : Kinds \cup {"0", "m"}, type : Word \cup {"0", "m"}, items : Seq(Item)]
Doc == [tabs : Seq(Tab), arrs : Seq(Arr), cur : Nat, head : Seq(Word)]

\* New tables and arrays are empty, and so is the tree without its root.
LEMMA NewOnes ==
    /\ NewTable \in Tab /\ NewTable.ents = <<>> /\ NewTable.defs = 0 /\ NewTable.implicit = FALSE
    /\ [NewTable EXCEPT !.implicit = TRUE] \in Tab
    /\ \A q \in {"0", "t"} : NewArray(q) \in Arr /\ NewArray(q).items = <<>> /\ NewArray(q).kind = q
    /\ EmptyDoc \in Doc /\ NoDoc \in Doc /\ NoDoc.tabs = <<>> /\ NoDoc.cur = 0 /\ NoDoc.arrs = <<>>
    /\ EmptyDoc.tabs = <<NewTable>> /\ EmptyDoc.arrs = <<>> /\ EmptyDoc.cur = Root /\ EmptyDoc.head = <<>>
  <1>0. <<>> \in Seq(Ent) /\ <<>> \in Seq(Item) /\ <<>> \in Seq(Word) /\ <<>> \in Seq(Tab) /\ <<>> \in Seq(Arr)
    OBVIOUS
  <1>1. NewTable \in Tab /\ NewTable.ents = <<>> /\ NewTable.defs = 0 /\ NewTable.implicit = FALSE
    BY <1>0, Zenon DEF NewTable, Tab
  <1>2. [NewTable EXCEPT !.implicit = TRUE] \in Tab
    BY <1>1, Zenon DEF Tab
  <1>3. \A q \in {"0", "t"} : NewArray(q) \in Arr /\ NewArray(q).items = <<>> /\ NewArray(q).kind = q
    BY <1>0 DEF NewArray, Arr, Kinds
  <1>4. <<NewTable>> \in Seq(Tab)
    BY <1>1
  <1>5. EmptyDoc \in Doc
    BY <1>0, <1>4 DEF EmptyDoc, Doc, Root
  <1>6. NoDoc \in Doc
    BY <1>0, <1>5 DEF NoDoc, Doc
  <1>7. NoDoc.tabs = <<>> /\ NoDoc.cur = 0 /\ NoDoc.arrs = <<>>
    /\ EmptyDoc.tabs = <<NewTable>> /\ EmptyDoc.arrs = <<>> /\ EmptyDoc.cur = Root /\ EmptyDoc.head = <<>>
    BY DEF EmptyDoc, NoDoc
  <1> QED  BY <1>1, <1>2, <1>3, <1>5, <1>6, <1>7

\* The types of the parts of a tree.
LEMMA Parts ==
    ASSUME NEW d \in Doc
    PROVE  /\ d.tabs \in Seq(Tab) /\ d.arrs \in Seq(Arr) /\ d.cur \in Nat /\ d.head \in Seq(Word)
           /\ Len(d.tabs) \in Nat /\ DOMAIN d.tabs = 1 .. Len(d.tabs)
           /\ Len(d.arrs) \in Nat /\ DOMAIN d.arrs = 1 .. Len(d.arrs)
           /\ \A t \in DOMAIN d.tabs : /\ d.tabs[t] \in Tab /\ d.tabs[t].ents \in Seq(Ent)
                                       /\ Len(d.tabs[t].ents) \in Nat /\ d.tabs[t].defs \in Nat
                                       /\ DOMAIN d.tabs[t].ents = 1 .. Len(d.tabs[t].ents)
                                       /\ \A q \in DOMAIN d.tabs[t].ents : d.tabs[t].ents[q] \in Ent
           /\ \A a \in DOMAIN d.arrs : /\ d.arrs[a] \in Arr /\ d.arrs[a].items \in Seq(Item)
                                       /\ Len(d.arrs[a].items) \in Nat
                                       /\ DOMAIN d.arrs[a].items = 1 .. Len(d.arrs[a].items)
                                       /\ \A q \in DOMAIN d.arrs[a].items : d.arrs[a].items[q] \in Item
  <1>1. d.tabs \in Seq(Tab) /\ d.arrs \in Seq(Arr) /\ d.cur \in Nat /\ d.head \in Seq(Word)
    BY DEF Doc
  <1>2. /\ Len(d.tabs) \in Nat /\ DOMAIN d.tabs = 1 .. Len(d.tabs)
        /\ Len(d.arrs) \in Nat /\ DOMAIN d.arrs = 1 .. Len(d.arrs)
        /\ \A t \in DOMAIN d.tabs : d.tabs[t] \in Tab
        /\ \A a \in DOMAIN d.arrs : d.arrs[a] \in Arr
    BY <1>1
  <1>3. \A r \in Tab : r.ents \in Seq(Ent) /\ r.defs \in Nat
    BY DEF Tab
  <1>4. \A r \in Arr : r.items \in Seq(Item)
    BY DEF Arr
  <1>5. \A S : \A s \in Seq(S) : Len(s) \in Nat /\ DOMAIN s = 1 .. Len(s) /\ \A q \in DOMAIN s : s[q] \in S
    OBVIOUS
  <1> QED  BY <1>1, <1>2, <1>3, <1>4, <1>5

\* check_key finds an entry of that key, or there is none.
LEMMA CheckKey ==
    ASSUME NEW d \in Doc, NEW t \in DOMAIN d.tabs, NEW key
    PROVE  LET es == d.tabs[t].ents
               e == check_key(d, t, key)
           IN \/ e.kind = "none" /\ \A q \in DOMAIN es : es[q].key # key
              \/ \E q \in DOMAIN es : es[q] = e /\ es[q].key = key /\ e.kind \in Kinds
  <1> DEFINE es == d.tabs[t].ents
             E == Entries(d, t, key)
             First(k) == CHOOSE e \in E : e.kind = k
  <1>1. es \in Seq(Ent)
    BY Parts
  <1>2. E = {x \in {es[q] : q \in DOMAIN es} : x.key = key}
    BY DEF Entries, Range
  <1>3. \A e \in E : e.kind \in Kinds /\ \E q \in DOMAIN es : es[q] = e /\ es[q].key = key
    <2>1. \A q \in DOMAIN es : es[q].kind \in Kinds
      BY Parts DEF Ent
    <2> QED  BY <1>2, <2>1
  <1>4. CASE E = {}
    BY <1>2, <1>4 DEF check_key
  <1>5. CASE E # {}
    <2>1. \A k \in Kind(d, t, key) : First(k) \in E /\ First(k).kind = k
      BY DEF Kind
    <2>2. \E k \in Kind(d, t, key) : k = IF "v" \in Kind(d, t, key) THEN "v" ELSE IF "a" \in Kind(d, t, key) THEN "a" ELSE "t"
      BY <1>3, <1>5 DEF Kind, Kinds
    <2>3. check_key(d, t, key) \in E
      BY <1>5, <2>1, <2>2 DEF check_key
    <2> QED  BY <1>3, <2>3
  <1> QED  BY <1>4, <1>5

-----------------------------------------------------------------------------
\* Sequences of one more, or of a changed element.
LEMMA Grown ==
    ASSUME NEW S, NEW s \in Seq(S), NEW x \in S
    PROVE  /\ Append(s, x) \in Seq(S) /\ Len(Append(s, x)) = Len(s) + 1
           /\ DOMAIN Append(s, x) = 1 .. Len(s) + 1
           /\ Append(s, x)[Len(s) + 1] = x
           /\ \A q \in DOMAIN s : q \in DOMAIN Append(s, x) /\ Append(s, x)[q] = s[q]
           /\ \A q \in DOMAIN Append(s, x) : q = Len(s) + 1 \/ q \in DOMAIN s
  OBVIOUS

\* The same for a sequence in which one element is another one.
LEMMA Changed ==
    ASSUME NEW S, NEW s \in Seq(S), NEW p \in DOMAIN s, NEW x \in S
    PROVE  /\ [s EXCEPT ![p] = x] \in Seq(S)
           /\ Len([s EXCEPT ![p] = x]) = Len(s) /\ DOMAIN [s EXCEPT ![p] = x] = DOMAIN s
           /\ [s EXCEPT ![p] = x][p] = x
           /\ \A q \in DOMAIN s : q # p => [s EXCEPT ![p] = x][q] = s[q]
  <1> DEFINE z == [s EXCEPT ![p] = x]
  <1>1. DOMAIN z = 1 .. Len(s) /\ Len(s) \in Nat /\ \A q \in 1 .. Len(s) : z[q] \in S
    OBVIOUS
  <1>2. z \in [1 .. Len(s) -> S]
    BY <1>1
  <1>3. z \in Seq(S) /\ Len(z) = Len(s)
    BY <1>1, <1>2
  <1> QED  BY <1>1, <1>3

\* A table given one more entry, or marked.
LEMMA EntryAdded ==
    ASSUME NEW d \in Doc, NEW t \in DOMAIN d.tabs, NEW x \in Ent
    PROVE  LET e == AddEntry(d, t, x.key, x.kind, x.ref)
           IN /\ e \in Doc /\ e.arrs = d.arrs /\ e.cur = d.cur /\ e.head = d.head
              /\ Len(e.tabs) = Len(d.tabs) /\ DOMAIN e.tabs = DOMAIN d.tabs
              /\ e.tabs[t].ents = Append(d.tabs[t].ents, x)
              /\ e.tabs[t].implicit = d.tabs[t].implicit /\ e.tabs[t].readonly = d.tabs[t].readonly
              /\ e.tabs[t].defs = d.tabs[t].defs
              /\ \A u \in DOMAIN d.tabs : u # t => e.tabs[u] = d.tabs[u]
  <1> DEFINE r == [d.tabs[t] EXCEPT !.ents = Append(@, x)]
             z == [d.tabs EXCEPT ![t] = r]
             e == [d EXCEPT !.tabs = z]
  <1>1. x = [key |-> x.key, kind |-> x.kind, ref |-> x.ref]
    BY DEF Ent
  <1>2. AddEntry(d, t, x.key, x.kind, x.ref) = e
    BY <1>1 DEF AddEntry
  <1>3. d.tabs \in Seq(Tab) /\ d.tabs[t] \in Tab /\ d.tabs[t].ents \in Seq(Ent)
    BY Parts
  <1>4. Append(d.tabs[t].ents, x) \in Seq(Ent)
    BY <1>3, Grown
  <1>5. /\ r \in Tab /\ r.ents = Append(d.tabs[t].ents, x) /\ r.implicit = d.tabs[t].implicit
        /\ r.readonly = d.tabs[t].readonly /\ r.defs = d.tabs[t].defs
    BY <1>3, <1>4, Zenon DEF Tab
  <1> HIDE DEF r
  <1>6. /\ z \in Seq(Tab) /\ Len(z) = Len(d.tabs) /\ DOMAIN z = DOMAIN d.tabs
        /\ z[t] = r /\ \A u \in DOMAIN d.tabs : u # t => z[u] = d.tabs[u]
    BY <1>3, <1>5, Changed
  <1> HIDE DEF z
  <1>7. e \in Doc /\ e.tabs = z /\ e.arrs = d.arrs /\ e.cur = d.cur /\ e.head = d.head
    BY <1>6 DEF Doc
  <1> HIDE DEF e
  <1> QED  BY <1>2, <1>5, <1>6, <1>7

\* The same for the marks of a table.
LEMMA Marked ==
    ASSUME NEW d \in Doc, NEW t \in DOMAIN d.tabs, NEW r \in Tab
    PROVE  LET e == [d EXCEPT !.tabs[t] = r]
           IN /\ e \in Doc /\ e.arrs = d.arrs /\ e.cur = d.cur /\ e.head = d.head
              /\ Len(e.tabs) = Len(d.tabs) /\ DOMAIN e.tabs = DOMAIN d.tabs
              /\ e.tabs[t] = r
              /\ \A u \in DOMAIN d.tabs : u # t => e.tabs[u] = d.tabs[u]
  <1> DEFINE z == [d.tabs EXCEPT ![t] = r]
             e == [d EXCEPT !.tabs = z]
  <1>3. d.tabs \in Seq(Tab)
    BY Parts
  <1>6. /\ z \in Seq(Tab) /\ Len(z) = Len(d.tabs) /\ DOMAIN z = DOMAIN d.tabs
        /\ z[t] = r /\ \A u \in DOMAIN d.tabs : u # t => z[u] = d.tabs[u]
    BY <1>3, Changed
  <1> HIDE DEF z
  <1>7. e \in Doc /\ e.tabs = z /\ e.arrs = d.arrs /\ e.cur = d.cur /\ e.head = d.head
    BY <1>6 DEF Doc
  <1>8. [d EXCEPT !.tabs[t] = r] = e
    BY DEF z
  <1> HIDE DEF e
  <1> QED  BY <1>6, <1>7, <1>8

\* Another array in the place of one.
LEMMA ArrayChanged ==
    ASSUME NEW d \in Doc, NEW a \in DOMAIN d.arrs, NEW r \in Arr
    PROVE  LET e == [d EXCEPT !.arrs[a] = r]
           IN /\ e \in Doc /\ e.tabs = d.tabs /\ e.cur = d.cur /\ e.head = d.head
              /\ Len(e.arrs) = Len(d.arrs) /\ DOMAIN e.arrs = DOMAIN d.arrs
              /\ e.arrs[a] = r
              /\ \A b \in DOMAIN d.arrs : b # a => e.arrs[b] = d.arrs[b]
  <1> DEFINE z == [d.arrs EXCEPT ![a] = r]
             e == [d EXCEPT !.arrs = z]
  <1>3. d.arrs \in Seq(Arr)
    BY Parts
  <1>6. /\ z \in Seq(Arr) /\ Len(z) = Len(d.arrs) /\ DOMAIN z = DOMAIN d.arrs
        /\ z[a] = r /\ \A b \in DOMAIN d.arrs : b # a => z[b] = d.arrs[b]
    BY <1>3, Changed
  <1> HIDE DEF z
  <1>7. e \in Doc /\ e.arrs = z /\ e.tabs = d.tabs /\ e.cur = d.cur /\ e.head = d.head
    BY <1>6 DEF Doc
  <1>8. [d EXCEPT !.arrs[a] = r] = e
    BY DEF z
  <1> HIDE DEF e
  <1> QED  BY <1>6, <1>7, <1>8

\* One more table at the end.
LEMMA TableAdded ==
    ASSUME NEW d \in Doc, NEW r \in Tab
    PROVE  LET e == [d EXCEPT !.tabs = Append(@, r)]
           IN /\ e \in Doc /\ e.arrs = d.arrs /\ e.cur = d.cur /\ e.head = d.head
              /\ Len(e.tabs) = Len(d.tabs) + 1 /\ DOMAIN e.tabs = 1 .. Len(d.tabs) + 1
              /\ e.tabs[Len(d.tabs) + 1] = r
              /\ \A u \in DOMAIN d.tabs : u \in DOMAIN e.tabs /\ e.tabs[u] = d.tabs[u]
  <1> DEFINE z == Append(d.tabs, r)
             e == [d EXCEPT !.tabs = z]
  <1>3. d.tabs \in Seq(Tab)
    BY Parts
  <1>6. /\ z \in Seq(Tab) /\ Len(z) = Len(d.tabs) + 1 /\ DOMAIN z = 1 .. Len(d.tabs) + 1
        /\ z[Len(d.tabs) + 1] = r /\ \A u \in DOMAIN d.tabs : u \in DOMAIN z /\ z[u] = d.tabs[u]
    BY <1>3, Grown
  <1> HIDE DEF z
  <1>7. e \in Doc /\ e.tabs = z /\ e.arrs = d.arrs /\ e.cur = d.cur /\ e.head = d.head
    BY <1>6 DEF Doc
  <1>8. [d EXCEPT !.tabs = Append(@, r)] = e
    BY DEF z
  <1> HIDE DEF e
  <1> QED  BY <1>6, <1>7, <1>8

\* One more array at the end.
LEMMA ArrayAdded ==
    ASSUME NEW d \in Doc, NEW r \in Arr
    PROVE  LET e == [d EXCEPT !.arrs = Append(@, r)]
           IN /\ e \in Doc /\ e.tabs = d.tabs /\ e.cur = d.cur /\ e.head = d.head
              /\ Len(e.arrs) = Len(d.arrs) + 1 /\ DOMAIN e.arrs = 1 .. Len(d.arrs) + 1
              /\ e.arrs[Len(d.arrs) + 1] = r
              /\ \A b \in DOMAIN d.arrs : b \in DOMAIN e.arrs /\ e.arrs[b] = d.arrs[b]
  <1> DEFINE z == Append(d.arrs, r)
             e == [d EXCEPT !.arrs = z]
  <1>3. d.arrs \in Seq(Arr)
    BY Parts
  <1>6. /\ z \in Seq(Arr) /\ Len(z) = Len(d.arrs) + 1 /\ DOMAIN z = 1 .. Len(d.arrs) + 1
        /\ z[Len(d.arrs) + 1] = r /\ \A b \in DOMAIN d.arrs : b \in DOMAIN z /\ z[b] = d.arrs[b]
    BY <1>3, Grown
  <1> HIDE DEF z
  <1>7. e \in Doc /\ e.arrs = z /\ e.tabs = d.tabs /\ e.cur = d.cur /\ e.head = d.head
    BY <1>6 DEF Doc
  <1>8. [d EXCEPT !.arrs = Append(@, r)] = e
    BY DEF z
  <1> HIDE DEF e
  <1> QED  BY <1>6, <1>7, <1>8

-----------------------------------------------------------------------------
(* What makes a tree sound: names, references and the kinds of arrays. *)

Ents(d, t)  == d.tabs[t].ents
Items(d, a) == d.arrs[a].items

\* An entry of table t leads to what there is, and to tables made after t.
Leads(d, t, x) ==
    /\ x.kind = "t" => x.ref \in DOMAIN d.tabs /\ x.ref > t
    /\ x.kind = "a" => /\ x.ref \in DOMAIN d.arrs
                       /\ \A q \in DOMAIN Items(d, x.ref) :
                            Items(d, x.ref)[q].kind = "t" => Items(d, x.ref)[q].ref > t

\* A key is there once, a table defined once and not before it is explicit.
TabOK(d, t) ==
    /\ d.tabs[t].defs <= 1 /\ (d.tabs[t].implicit => d.tabs[t].defs = 0)
    /\ \A p, q \in DOMAIN Ents(d, t) : Ents(d, t)[p].key = Ents(d, t)[q].key => p = q
    /\ \A q \in DOMAIN Ents(d, t) : Leads(d, t, Ents(d, t)[q])

\* What an array says of its items.
Claims(r) ==
    /\ r.kind \in Kinds => \A q \in DOMAIN r.items : r.items[q].kind = r.kind
    /\ r.kind = "0" => r.items = <<>>
    /\ r.kind = "m" => \E p, q \in DOMAIN r.items : r.items[p].kind # r.items[q].kind
    /\ r.kind = "v" => \/ r.type = r.items[1].ref /\ \A p, q \in DOMAIN r.items : r.items[p].ref = r.items[q].ref
                       \/ r.type = "m" /\ \E p, q \in DOMAIN r.items : r.items[p].ref # r.items[q].ref

\* An item is a value of a type, or a table that there is.
ItemOK(d, x) ==
    /\ x.kind = "v" => x.ref # "m"
    /\ x.kind = "t" => x.ref \in DOMAIN d.tabs

ArrOK(d, a) == Claims(d.arrs[a]) /\ \A q \in DOMAIN Items(d, a) : ItemOK(d, Items(d, a)[q])

\* No array is under two names.
Once(d) ==
    \A t, u \in DOMAIN d.tabs : \A p \in DOMAIN Ents(d, t), q \in DOMAIN Ents(d, u) :
        Ents(d, t)[p].kind = "a" /\ Ents(d, u)[q].kind = "a" /\ Ents(d, t)[p].ref = Ents(d, u)[q].ref
          => t = u /\ p = q

\* An array that says what it has has something.
Filled(d, a) == d.arrs[a].kind # "0" => Items(d, a) # <<>>

\* A tree as it may be within a step, and between the steps.
Sound(d) ==
    /\ d \in Doc /\ d.cur \in DOMAIN d.tabs
    /\ \A t \in DOMAIN d.tabs : TabOK(d, t)
    /\ \A a \in DOMAIN d.arrs : ArrOK(d, a)
    /\ Once(d)

Well(d) == Sound(d) /\ \A a \in DOMAIN d.arrs : Filled(d, a)

\* e is d with more in it; only the arrays in A have more items.
Later(d, e, A) ==
    /\ e.cur = d.cur /\ e.head = d.head
    /\ Len(d.tabs) <= Len(e.tabs) /\ Len(d.arrs) <= Len(e.arrs)
    /\ \A t \in DOMAIN d.tabs : \A q \in DOMAIN Ents(d, t) :
          q \in DOMAIN Ents(e, t) /\ Ents(e, t)[q] = Ents(d, t)[q]
    /\ \A a \in DOMAIN d.arrs \ A : e.arrs[a] = d.arrs[a]

\* The key is there.
Named(d, t, key) == \E q \in DOMAIN Ents(d, t) : Ents(d, t)[q].key = key

\* Growing twice is growing.
LEMMA LaterStill ==
    ASSUME NEW d \in Doc, NEW e \in Doc, NEW g \in Doc, NEW A, NEW B, Later(d, e, A), Later(e, g, B)
    PROVE  Later(d, g, A \cup B)
  <1>1. /\ \A t \in DOMAIN d.tabs : t \in DOMAIN e.tabs
        /\ \A a \in DOMAIN d.arrs : a \in DOMAIN e.arrs
    BY Parts DEF Later
  <1>2. Len(d.tabs) <= Len(g.tabs) /\ Len(d.arrs) <= Len(g.arrs)
    BY Parts DEF Later
  <1> QED  BY <1>1, <1>2 DEF Later

\* An entry under a new key leaves the tree sound.
LEMMA AddsEntry ==
    ASSUME NEW d, Sound(d), NEW t \in DOMAIN d.tabs, NEW x \in Ent, ~Named(d, t, x.key), Leads(d, t, x),
           x.kind = "a" => \A u \in DOMAIN d.tabs : \A q \in DOMAIN Ents(d, u) :
                              Ents(d, u)[q].kind = "a" => Ents(d, u)[q].ref # x.ref
    PROVE  LET e == AddEntry(d, t, x.key, x.kind, x.ref)
           IN /\ Sound(e) /\ Later(d, e, {}) /\ e.arrs = d.arrs /\ Len(e.tabs) = Len(d.tabs)
              /\ \A u \in DOMAIN d.tabs : e.tabs[u].defs = d.tabs[u].defs /\ e.tabs[u].implicit = d.tabs[u].implicit
              /\ \E q \in DOMAIN Ents(e, t) : Ents(e, t)[q] = x
  <1> DEFINE e == AddEntry(d, t, x.key, x.kind, x.ref)
             n == Len(Ents(d, t))
  <1>1. d \in Doc
    BY DEF Sound
  <1>2. /\ e \in Doc /\ e.arrs = d.arrs /\ e.cur = d.cur /\ e.head = d.head
        /\ Len(e.tabs) = Len(d.tabs) /\ DOMAIN e.tabs = DOMAIN d.tabs
        /\ e.tabs[t].ents = Append(d.tabs[t].ents, x)
        /\ e.tabs[t].implicit = d.tabs[t].implicit /\ e.tabs[t].readonly = d.tabs[t].readonly
        /\ e.tabs[t].defs = d.tabs[t].defs
        /\ \A u \in DOMAIN d.tabs : u # t => e.tabs[u] = d.tabs[u]
    BY <1>1, EntryAdded
  <1>3. /\ n \in Nat /\ DOMAIN Ents(d, t) = 1 .. n
        /\ DOMAIN Ents(e, t) = 1 .. n + 1 /\ Ents(e, t)[n + 1] = x
        /\ \A q \in 1 .. n : Ents(e, t)[q] = Ents(d, t)[q]
    <2>1. Ents(d, t) \in Seq(Ent) /\ n \in Nat /\ DOMAIN Ents(d, t) = 1 .. n
      BY <1>1, Parts DEF Ents
    <2>2. Ents(e, t) = Append(Ents(d, t), x)
      BY <1>2 DEF Ents
    <2> HIDE DEF e, n
    <2> QED  BY <2>1, <2>2, Grown DEF n
  <1>4. \A u \in DOMAIN d.tabs : u # t => Ents(e, u) = Ents(d, u)
    BY <1>2 DEF Ents
  <1>5. \A u, y : Leads(e, u, y) <=> Leads(d, u, y)
    BY <1>2 DEF Leads, Items
  <1> HIDE DEF e, n
  <1>6. ASSUME NEW u \in DOMAIN d.tabs PROVE TabOK(e, u)
    <2>1. TabOK(d, u)
      BY DEF Sound
    <2>2. CASE u # t
      BY <1>2, <1>4, <1>5, <2>1, <2>2 DEF TabOK
    <2>3. CASE u = t
      <3>1. e.tabs[t].defs <= 1 /\ (e.tabs[t].implicit => e.tabs[t].defs = 0)
        BY <1>2, <2>1, <2>3 DEF TabOK
      <3>2. \A p, q \in DOMAIN Ents(e, t) : Ents(e, t)[p].key = Ents(e, t)[q].key => p = q
        <4>1. \A p, q \in 1 .. n : Ents(d, t)[p].key = Ents(d, t)[q].key => p = q
          BY <1>3, <2>1, <2>3 DEF TabOK
        <4>2. \A p \in 1 .. n : Ents(d, t)[p].key # x.key
          BY <1>3 DEF Named
        <4> QED  BY <1>3, <4>1, <4>2
      <3>3. \A q \in DOMAIN Ents(e, t) : Leads(e, t, Ents(e, t)[q])
        <4>1. \A p \in 1 .. n : Leads(d, t, Ents(d, t)[p])
          BY <1>3, <2>1, <2>3 DEF TabOK
        <4>2. \A q \in 1 .. n + 1 : q \in 1 .. n \/ q = n + 1
          BY <1>3
        <4> QED  BY <1>3, <1>5, <4>1, <4>2
      <3> QED  BY <2>3, <3>1, <3>2, <3>3 DEF TabOK
    <2> QED  BY <2>2, <2>3
  <1>7. \A a \in DOMAIN e.arrs : ArrOK(e, a)
    BY <1>2 DEF Sound, ArrOK, Items, ItemOK
  <1>8. Once(e)
    <2>1. Once(d)
      BY DEF Sound
    <2>2. ASSUME NEW u \in DOMAIN d.tabs, NEW p \in DOMAIN Ents(e, u), Ents(e, u)[p].kind = "a"
          PROVE  \/ p \in DOMAIN Ents(d, u) /\ Ents(e, u)[p] = Ents(d, u)[p]
                 \/ u = t /\ p = n + 1 /\ Ents(e, u)[p] = x
      BY <1>3, <1>4
    <2>3. \A u \in DOMAIN d.tabs : \A q \in DOMAIN Ents(d, u) :
             x.kind = "a" /\ Ents(d, u)[q].kind = "a" => Ents(d, u)[q].ref # x.ref
      OBVIOUS
    <2>4. DOMAIN e.tabs = DOMAIN d.tabs
      BY <1>2
    <2> QED  BY <2>1, <2>2, <2>3, <2>4 DEF Once
  <1>9. Later(d, e, {})
    <2>1. Len(d.tabs) <= Len(e.tabs) /\ Len(d.arrs) <= Len(e.arrs)
      BY <1>1, <1>2, Parts
    <2>2. \A u \in DOMAIN d.tabs : \A q \in DOMAIN Ents(d, u) :
             q \in DOMAIN Ents(e, u) /\ Ents(e, u)[q] = Ents(d, u)[q]
      BY <1>3, <1>4
    <2> QED  BY <1>2, <2>1, <2>2 DEF Later, Items
  <1>10. \E q \in DOMAIN Ents(e, t) : Ents(e, t)[q] = x
    BY <1>3
  <1>11. \A u \in DOMAIN d.tabs : e.tabs[u].defs = d.tabs[u].defs /\ e.tabs[u].implicit = d.tabs[u].implicit
    BY <1>2
  <1>12. Sound(e)
    <2>1. d.cur \in DOMAIN d.tabs
      BY DEF Sound
    <2> QED  BY <1>2, <1>6, <1>7, <1>8, <2>1 DEF Sound
  <1> QED  BY <1>2, <1>9, <1>10, <1>11, <1>12 DEF e

-----------------------------------------------------------------------------
(* The ways the tree grows by one table, array, mark or item: AddEntry, AddItem. *)

\* One more table, that no name leads to yet.
LEMMA AddsTable ==
    ASSUME NEW d, Sound(d), NEW r \in Tab, r.ents = <<>>, r.defs = 0
    PROVE  LET e == [d EXCEPT !.tabs = Append(@, r)]
           IN /\ Sound(e) /\ Later(d, e, {}) /\ e.arrs = d.arrs /\ Len(e.tabs) = Len(d.tabs) + 1
              /\ e.tabs[Len(d.tabs) + 1] = r
              /\ \A u \in DOMAIN d.tabs : e.tabs[u] = d.tabs[u]
  <1> DEFINE e == [d EXCEPT !.tabs = Append(@, r)]
             n == Len(d.tabs) + 1
  <1>1. d \in Doc /\ d.cur \in DOMAIN d.tabs
    BY DEF Sound
  <1>2. /\ e \in Doc /\ e.arrs = d.arrs /\ e.cur = d.cur /\ e.head = d.head
        /\ Len(e.tabs) = n /\ DOMAIN e.tabs = 1 .. n /\ e.tabs[n] = r
        /\ \A u \in DOMAIN d.tabs : u \in DOMAIN e.tabs /\ e.tabs[u] = d.tabs[u]
    BY <1>1, TableAdded
  <1>3. /\ DOMAIN d.tabs = 1 .. Len(d.tabs) /\ Len(d.tabs) \in Nat /\ Len(d.arrs) \in Nat
        /\ \A u \in DOMAIN e.tabs : u = n \/ u \in DOMAIN d.tabs
    BY <1>1, <1>2, Parts
  <1>4. DOMAIN Ents(e, n) = {}
    BY <1>2 DEF Ents
  <1>5. \A u \in DOMAIN d.tabs : Ents(e, u) = Ents(d, u)
    BY <1>2 DEF Ents
  <1>6. \A u, y : Leads(d, u, y) => Leads(e, u, y)
    BY <1>2 DEF Leads, Items
  <1> HIDE DEF e
  <1>7. ASSUME NEW u \in DOMAIN e.tabs PROVE TabOK(e, u)
    <2>1. CASE u = n
      BY <1>2, <1>4, <2>1 DEF TabOK
    <2>2. CASE u # n
      <3>1. u \in DOMAIN d.tabs /\ TabOK(d, u)
        BY <1>3, <2>2 DEF Sound
      <3> QED  BY <1>2, <1>5, <1>6, <3>1 DEF TabOK
    <2> QED  BY <2>1, <2>2
  <1>8. \A a \in DOMAIN e.arrs : ArrOK(e, a)
    BY <1>2 DEF Sound, ArrOK, Items, ItemOK
  <1>9. Once(e)
    BY <1>3, <1>4, <1>5 DEF Sound, Once
  <1>10. Later(d, e, {})
    BY <1>2, <1>3, <1>5 DEF Later, Items
  <1>11. Sound(e)
    BY <1>1, <1>2, <1>7, <1>8, <1>9 DEF Sound
  <1> QED  BY <1>2, <1>10, <1>11 DEF e

\* One more array, empty.
MoreArrays(d, q) == [d EXCEPT !.arrs = Append(@, NewArray(q))]

\* It leaves the tree sound and takes nothing away.
LEMMA AddsArray ==
    ASSUME NEW d, Sound(d), NEW q \in {"0", "t"}
    PROVE  LET e == MoreArrays(d, q)
               n == Len(d.arrs) + 1
           IN /\ Sound(e) /\ Later(d, e, {}) /\ e.tabs = d.tabs /\ Len(e.arrs) = n /\ n \in DOMAIN e.arrs
              /\ e.arrs[n] = NewArray(q) /\ e.arrs[n].kind = q /\ Items(e, n) = <<>>
              /\ \A b \in DOMAIN e.arrs : b # n => b \in DOMAIN d.arrs /\ e.arrs[b] = d.arrs[b]
              /\ \A t \in DOMAIN e.tabs : \A x \in DOMAIN Ents(e, t) :
                    Ents(e, t)[x].kind = "a" => Ents(e, t)[x].ref # n
  <1> DEFINE e == MoreArrays(d, q)
             n == Len(d.arrs) + 1
  <1>1. d \in Doc /\ d.cur \in DOMAIN d.tabs
    BY DEF Sound
  <1>2. /\ e \in Doc /\ e.tabs = d.tabs /\ e.cur = d.cur /\ e.head = d.head
        /\ Len(e.arrs) = n /\ DOMAIN e.arrs = 1 .. n /\ e.arrs[n] = NewArray(q)
        /\ \A b \in DOMAIN d.arrs : b \in DOMAIN e.arrs /\ e.arrs[b] = d.arrs[b]
    BY <1>1, NewOnes, ArrayAdded DEF MoreArrays
  <1>3. /\ DOMAIN d.arrs = 1 .. Len(d.arrs) /\ Len(d.arrs) \in Nat /\ Len(d.tabs) \in Nat
        /\ n \in DOMAIN e.arrs
        /\ \A b \in DOMAIN e.arrs : b = n \/ b \in DOMAIN d.arrs
    BY <1>1, <1>2, Parts
  <1>4. e.arrs[n].kind = q /\ Items(e, n) = <<>> /\ DOMAIN Items(e, n) = {}
    BY <1>2, NewOnes DEF Items
  <1>5. /\ \A u : Ents(e, u) = Ents(d, u)
        /\ \A a \in DOMAIN d.arrs : Items(e, a) = Items(d, a)
    BY <1>2 DEF Ents, Items
  <1> HIDE DEF e, n
  <1>6. \A u, y : Leads(d, u, y) => Leads(e, u, y)
    BY <1>2, <1>5 DEF Leads
  <1>7. \A u \in DOMAIN e.tabs : TabOK(e, u)
    BY <1>2, <1>5, <1>6 DEF Sound, TabOK
  <1>8. ASSUME NEW a \in DOMAIN e.arrs PROVE ArrOK(e, a)
    <2>1. CASE a = n
      <3>1. Claims(e.arrs[n])
        BY <1>2, <1>4, NewOnes DEF Claims, Kinds, Items, NewArray
      <3> QED  BY <1>4, <2>1, <3>1 DEF ArrOK
    <2>2. CASE a # n
      <3>1. a \in DOMAIN d.arrs /\ ArrOK(d, a)
        BY <1>3, <2>2 DEF Sound
      <3> QED  BY <1>2, <1>5, <3>1 DEF ArrOK, ItemOK
    <2> QED  BY <2>1, <2>2
  <1>9. Once(e)
    BY <1>2, <1>5 DEF Sound, Once
  <1>10. Later(d, e, {})
    BY <1>2, <1>3, <1>5 DEF Later, n
  <1>11. Sound(e)
    BY <1>1, <1>2, <1>7, <1>8, <1>9 DEF Sound
  <1>12. \A t \in DOMAIN e.tabs : \A x \in DOMAIN Ents(e, t) :
            Ents(e, t)[x].kind = "a" => Ents(e, t)[x].ref # n
    <2>1. \A t \in DOMAIN d.tabs : \A x \in DOMAIN Ents(d, t) :
            Ents(d, t)[x].kind = "a" => Ents(d, t)[x].ref \in 1 .. Len(d.arrs)
      BY <1>3 DEF Sound, TabOK, Leads
    <2>2. n \notin 1 .. Len(d.arrs)
      BY <1>3 DEF n
    <2> QED  BY <1>2, <1>5, <2>1, <2>2
  <1> QED  BY <1>2, <1>3, <1>4, <1>10, <1>11, <1>12 DEF e, n

\* Other marks on a table.
LEMMA MarksTable ==
    ASSUME NEW d, Sound(d), NEW t \in DOMAIN d.tabs, NEW r \in Tab, r.ents = d.tabs[t].ents,
           r.defs <= 1, r.implicit => r.defs = 0
    PROVE  LET e == [d EXCEPT !.tabs[t] = r]
           IN /\ Sound(e) /\ Later(d, e, {}) /\ e.arrs = d.arrs /\ Len(e.tabs) = Len(d.tabs)
              /\ e.tabs[t] = r
              /\ \A u \in DOMAIN d.tabs : u # t => e.tabs[u] = d.tabs[u]
  <1> DEFINE e == [d EXCEPT !.tabs[t] = r]
  <1>1. d \in Doc /\ d.cur \in DOMAIN d.tabs
    BY DEF Sound
  <1>2. /\ e \in Doc /\ e.arrs = d.arrs /\ e.cur = d.cur /\ e.head = d.head
        /\ Len(e.tabs) = Len(d.tabs) /\ DOMAIN e.tabs = DOMAIN d.tabs /\ e.tabs[t] = r
        /\ \A u \in DOMAIN d.tabs : u # t => e.tabs[u] = d.tabs[u]
    BY <1>1, Marked
  <1> HIDE DEF e
  <1>3. \A u \in DOMAIN d.tabs : Ents(e, u) = Ents(d, u)
    BY <1>2 DEF Ents
  <1>4. \A u, y : Leads(e, u, y) <=> Leads(d, u, y)
    BY <1>2 DEF Leads, Items
  <1>5. ASSUME NEW u \in DOMAIN e.tabs PROVE TabOK(e, u)
    <2>1. TabOK(d, u)
      BY <1>2 DEF Sound
    <2>2. e.tabs[u].defs <= 1 /\ (e.tabs[u].implicit => e.tabs[u].defs = 0)
      BY <1>2, <2>1 DEF TabOK
    <2> QED  BY <1>2, <1>3, <1>4, <2>1, <2>2 DEF TabOK
  <1>6. \A a \in DOMAIN e.arrs : ArrOK(e, a)
    BY <1>2 DEF Sound, ArrOK, Items, ItemOK
  <1>7. Once(e)
    BY <1>2, <1>3 DEF Sound, Once
  <1>8. Later(d, e, {})
    <2>1. Len(d.tabs) \in Nat /\ Len(d.arrs) \in Nat
      BY <1>1, Parts
    <2> QED  BY <1>2, <1>3, <2>1 DEF Later, Items
  <1>9. Sound(e)
    BY <1>1, <1>2, <1>5, <1>6, <1>7 DEF Sound
  <1> QED  BY <1>2, <1>8, <1>9 DEF e

\* One more item in an array.
\* A table put into array a is younger than those with an entry for a.
Ahead(d, a, x) ==
    x.kind = "t" => \A t \in DOMAIN d.tabs : \A q \in DOMAIN Ents(d, t) :
                       Ents(d, t)[q].kind = "a" /\ Ents(d, t)[q].ref = a => x.ref > t
Replaced(d, e, a, r) ==
    /\ Sound(e) /\ Later(d, e, {a}) /\ e.tabs = d.tabs /\ Len(e.arrs) = Len(d.arrs)
    /\ e.arrs[a] = r
    /\ \A b \in DOMAIN e.arrs : b \in DOMAIN d.arrs /\ (b # a => e.arrs[b] = d.arrs[b])

WithArray(d, a, r) == [d EXCEPT !.arrs[a] = r]

\* The tree stays sound when the array's claims do.
LEMMA AddsItem ==
    ASSUME NEW d, Sound(d), NEW a \in DOMAIN d.arrs, NEW x \in Item, ItemOK(d, x),
           Ahead(d, a, x),
           NEW r \in Arr, r.items = Append(Items(d, a), x), Claims(r)
    PROVE  Replaced(d, WithArray(d, a, r), a, r)
  <1> DEFINE e == WithArray(d, a, r)
             n == Len(Items(d, a))
  <1>1. d \in Doc /\ d.cur \in DOMAIN d.tabs
    BY DEF Sound
  <1>2. /\ e \in Doc /\ e.tabs = d.tabs /\ e.cur = d.cur /\ e.head = d.head
        /\ Len(e.arrs) = Len(d.arrs) /\ DOMAIN e.arrs = DOMAIN d.arrs /\ e.arrs[a] = r
        /\ \A b \in DOMAIN d.arrs : b # a => e.arrs[b] = d.arrs[b]
    BY <1>1, ArrayChanged DEF WithArray
  <1>3. /\ n \in Nat /\ DOMAIN Items(d, a) = 1 .. n
        /\ DOMAIN Items(e, a) = 1 .. n + 1 /\ Items(e, a)[n + 1] = x
        /\ \A q \in 1 .. n : Items(e, a)[q] = Items(d, a)[q]
    <2>1. Items(d, a) \in Seq(Item) /\ n \in Nat /\ DOMAIN Items(d, a) = 1 .. n
      BY <1>1, Parts DEF Items
    <2>2. Items(e, a) = Append(Items(d, a), x)
      BY <1>2 DEF Items
    <2> HIDE DEF e, n
    <2> QED  BY <2>1, <2>2, Grown DEF n
  <1>4. /\ \A u : Ents(e, u) = Ents(d, u)
        /\ \A b \in DOMAIN d.arrs : b # a => Items(e, b) = Items(d, b)
    BY <1>2 DEF Ents, Items
  <1> HIDE DEF e, n
  <1>5. \A q \in DOMAIN Items(e, a) : q \in 1 .. n \/ q = n + 1
    BY <1>3
  <1>6. ASSUME NEW t \in DOMAIN d.tabs, NEW q \in DOMAIN Ents(d, t) PROVE Leads(e, t, Ents(d, t)[q])
    <2> DEFINE y == Ents(d, t)[q]
    <2>1. Leads(d, t, y)
      BY DEF Sound, TabOK
    <2>2. y.kind = "a" /\ y.ref = a /\ x.kind = "t" => x.ref > t
      BY DEF Ahead
    <2> HIDE DEF y
    <2>3. CASE y.kind = "a" /\ y.ref = a
      <3>1. \A p \in 1 .. n : Items(d, a)[p].kind = "t" => Items(d, a)[p].ref > t
        BY <1>3, <2>1, <2>3 DEF Leads
      <3>2. \A p \in DOMAIN Items(e, a) : Items(e, a)[p].kind = "t" => Items(e, a)[p].ref > t
        BY <1>3, <1>5, <2>2, <2>3, <3>1
      <3> QED  BY <1>2, <2>3, <3>2 DEF Leads, y
    <2>4. CASE ~(y.kind = "a" /\ y.ref = a)
      BY <1>2, <1>4, <2>1, <2>4 DEF Leads, y
    <2> QED  BY <2>3, <2>4
  <1>7. \A u \in DOMAIN e.tabs : TabOK(e, u)
    BY <1>2, <1>4, <1>6 DEF Sound, TabOK
  <1>8. ASSUME NEW b \in DOMAIN e.arrs PROVE ArrOK(e, b)
    <2>1. \A y : ItemOK(e, y) <=> ItemOK(d, y)
      BY <1>2 DEF ItemOK
    <2>2. b \in DOMAIN d.arrs /\ ArrOK(d, b)
      BY <1>2 DEF Sound
    <2>3. CASE b = a
      <3>1. \A p \in 1 .. n : ItemOK(d, Items(d, a)[p])
        BY <1>3, <2>2, <2>3 DEF ArrOK
      <3> QED  BY <1>2, <1>3, <1>5, <2>1, <2>3, <3>1 DEF ArrOK
    <2>4. CASE b # a
      BY <1>2, <1>4, <2>1, <2>2, <2>4 DEF ArrOK
    <2> QED  BY <2>3, <2>4
  <1>9. Once(e)
    BY <1>2, <1>4 DEF Sound, Once
  <1>10. Later(d, e, {a})
    <2>1. Len(d.tabs) \in Nat /\ Len(d.arrs) \in Nat
      BY <1>1, Parts
    <2> QED  BY <1>2, <1>4, <2>1 DEF Later
  <1>11. Sound(e)
    BY <1>1, <1>2, <1>7, <1>8, <1>9 DEF Sound
  <1> QED  BY <1>2, <1>10, <1>11 DEF e, Replaced

-----------------------------------------------------------------------------
(* What an array says of its items, when one more is appended. *)

\* The parts of an array, by name.
LEMMA ArrOf ==
    \A q \in Kinds \cup {"0", "m"}, z \in Word \cup {"0", "m"}, is \in Seq(Item) :
        [kind |-> q, type |-> z, items |-> is] \in Arr
  BY DEF Arr

\* What an array says stays true when an array or a table is put into it.
LEMMA ClaimsWithItem ==
    ASSUME NEW r \in Arr, Claims(r), NEW x \in Item, x.kind # "v",
           (r.kind # "0" => r.items # <<>>) \/ r.kind = x.kind
    PROVE  LET s == [kind |-> KindWith(r, x.kind), type |-> r.type, items |-> Append(r.items, x)]
           IN s \in Arr /\ Claims(s) /\ s.kind # "0"
  <1> DEFINE s == [kind |-> KindWith(r, x.kind), type |-> r.type, items |-> Append(r.items, x)]
             n == Len(r.items)
             k == KindWith(r, x.kind)
  <1>1. r.items \in Seq(Item) /\ r.kind \in Kinds \cup {"0", "m"} /\ r.type \in Word \cup {"0", "m"}
    BY DEF Arr
  <1>2. x.kind \in {"a", "t"} /\ \A y \in Item : y.kind \in Kinds
    BY DEF Item, Kinds
  <1>3. /\ n \in Nat /\ DOMAIN r.items = 1 .. n /\ Append(r.items, x) \in Seq(Item)
        /\ DOMAIN Append(r.items, x) = 1 .. n + 1 /\ Append(r.items, x)[n + 1] = x
        /\ \A q \in 1 .. n : Append(r.items, x)[q] = r.items[q] /\ r.items[q] \in Item
    BY <1>1, Grown
  <1>4. \/ k = x.kind /\ r.kind \in {"0", x.kind}
        \/ k = "m" /\ r.kind \in (Kinds \cup {"m"}) \ {x.kind}
    BY <1>1 DEF KindWith
  <1>5. s.kind = k /\ s.type = r.type /\ s.items = Append(r.items, x)
    OBVIOUS
  <1>6. s \in Arr
    <2>1. k \in Kinds \cup {"0", "m"}
      BY <1>2, <1>4 DEF Kinds
    <2>2. r.type \in Word \cup {"0", "m"} /\ Append(r.items, x) \in Seq(Item)
      BY <1>1, <1>3
    <2> QED  BY <2>1, <2>2, ArrOf
  <1> HIDE DEF s, k, n
  <1>7. CASE k = x.kind /\ r.kind \in {"0", x.kind}
    <2>1. \A q \in 1 .. n : r.items[q].kind = x.kind
      <3>1. r.kind = "0" => n = 0
        BY <1>1 DEF Claims, n
      <3> QED  BY <1>2, <1>3, <1>7, <3>1 DEF Claims, Kinds
    <2>2. \A q \in DOMAIN s.items : s.items[q].kind = x.kind
      BY <1>3, <1>5, <2>1
    <2> QED  BY <1>2, <1>5, <1>6, <1>7, <2>2 DEF Claims, s
  <1>8. CASE k = "m" /\ r.kind \in (Kinds \cup {"m"}) \ {x.kind}
    <2>1. \E p, q \in DOMAIN s.items : s.items[p].kind # s.items[q].kind
      <3>1. CASE r.kind = "m"
        BY <1>3, <1>5, <3>1 DEF Claims
      <3>2. CASE r.kind # "m"
        <4>1. r.kind \in Kinds /\ r.kind # "0"
          BY <1>8, <3>2 DEF Kinds
        <4>2. n # 0 /\ 1 \in 1 .. n /\ 1 \in 1 .. n + 1 /\ n + 1 \in 1 .. n + 1
          <5>1. r.items # <<>>
            BY <1>8, <4>1
          <5> QED  BY <1>1, <1>3, <5>1 DEF n
        <4>3. r.items[1].kind # x.kind
          BY <1>3, <1>8, <4>1, <4>2 DEF Claims
        <4> QED  BY <1>3, <1>5, <4>2, <4>3
      <3> QED  BY <3>1, <3>2
    <2> QED  BY <1>5, <1>6, <1>8, <2>1 DEF Claims, Kinds, s
  <1> QED  BY <1>4, <1>7, <1>8

\* And when a value is.
LEMMA ClaimsWithValue ==
    ASSUME NEW r \in Arr, Claims(r), NEW v \in Word, v # "m", r.kind # "0" => r.items # <<>>,
           \A q \in DOMAIN r.items : r.items[q].kind = "v" => r.items[q].ref # "m"
    PROVE  LET s == [kind  |-> KindWith(r, "v"),
                     type  |-> IF r.items = <<>> \/ r.type = v THEN v ELSE "m",
                     items |-> Append(r.items, [kind |-> "v", ref |-> v])]
           IN s \in Arr /\ Claims(s) /\ s.kind # "0"
  <1> DEFINE x == [kind |-> "v", ref |-> v]
             y == IF r.items = <<>> \/ r.type = v THEN v ELSE "m"
             k == KindWith(r, "v")
             s == [kind |-> k, type |-> y, items |-> Append(r.items, x)]
             n == Len(r.items)
  <1>1. r.items \in Seq(Item) /\ r.kind \in Kinds \cup {"0", "m"} /\ r.type \in Word \cup {"0", "m"}
    BY DEF Arr
  <1>2. x \in Item /\ x.kind = "v" /\ x.ref = v /\ \A z \in Item : z.kind \in Kinds
    BY DEF Item, Kinds
  <1> HIDE DEF x
  <1>3. /\ n \in Nat /\ DOMAIN r.items = 1 .. n /\ Append(r.items, x) \in Seq(Item)
        /\ DOMAIN Append(r.items, x) = 1 .. n + 1 /\ Append(r.items, x)[n + 1] = x
        /\ \A q \in 1 .. n : Append(r.items, x)[q] = r.items[q] /\ r.items[q] \in Item
    BY <1>1, <1>2, Grown
  <1>4. \/ k = "v" /\ r.kind \in {"0", "v"}
        \/ k = "m" /\ r.kind \in {"a", "t", "m"}
    BY <1>1 DEF KindWith, Kinds
  <1>5. s.kind = k /\ s.type = y /\ s.items = Append(r.items, x)
    OBVIOUS
  <1>6. s \in Arr
    <2>1. k \in Kinds \cup {"0", "m"} /\ y \in Word \cup {"0", "m"}
      BY <1>4 DEF Kinds
    <2>2. Append(r.items, x) \in Seq(Item)
      BY <1>3
    <2> HIDE DEF k, y
    <2> QED  BY <2>1, <2>2, ArrOf
  <1>0. r.items = <<>> <=> n = 0
    BY <1>1 DEF n
  <1> HIDE DEF s, k, n
  <1>7. CASE k = "v" /\ r.kind \in {"0", "v"}
    <2>0. r.kind = "0" => n = 0
      BY <1>0 DEF Claims
    <2>1. \A q \in 1 .. n : r.items[q].kind = "v" /\ r.items[q].ref # "m"
      <3>1. \A q \in 1 .. n : r.items[q].kind = "v"
        BY <1>3, <1>7, <2>0 DEF Claims, Kinds
      <3> QED  BY <1>3, <3>1
    <2>2. \A q \in DOMAIN s.items : s.items[q].kind = "v"
      BY <1>2, <1>3, <1>5, <2>1
    <2>3. \/ s.type = s.items[1].ref /\ \A p, q \in DOMAIN s.items : s.items[p].ref = s.items[q].ref
          \/ s.type = "m" /\ \E p, q \in DOMAIN s.items : s.items[p].ref # s.items[q].ref
      <3>1. CASE n = 0
        <4>1. s.type = v
          BY <1>0, <1>5, <3>1
        <4>2. DOMAIN s.items = {1} /\ s.items[1].ref = v
          BY <1>2, <1>3, <1>5, <3>1
        <4> QED  BY <4>1, <4>2
      <3>2. CASE n # 0
        <4>0. 1 \in 1 .. n /\ 1 \in DOMAIN s.items /\ n + 1 \in DOMAIN s.items
              /\ s.items[1] = r.items[1] /\ s.items[n + 1].ref = v
          BY <1>2, <1>3, <1>5, <3>2
        <4>1. y = IF r.type = v THEN v ELSE "m"
          BY <1>0, <3>2
        <4>2. r.kind = "v"
          BY <1>7, <2>0, <3>2
        <4>3. CASE r.type = r.items[1].ref /\ \A p, q \in DOMAIN r.items : r.items[p].ref = r.items[q].ref
          <5>1. CASE r.type = v
            <6>1. \A p \in DOMAIN s.items : s.items[p].ref = v
              <7>1. \A p \in 1 .. n : r.items[p].ref = v
                BY <1>3, <4>0, <4>3, <5>1
              <7>2. \A p \in 1 .. n + 1 : p \in 1 .. n \/ p = n + 1
                BY <1>3
              <7> QED  BY <1>2, <1>3, <1>5, <7>1, <7>2
            <6> QED  BY <1>5, <4>0, <4>1, <5>1, <6>1
          <5>2. CASE r.type # v
            BY <1>5, <4>0, <4>1, <4>3, <5>2
          <5> QED  BY <5>1, <5>2
        <4>4. CASE r.type = "m" /\ \E p, q \in DOMAIN r.items : r.items[p].ref # r.items[q].ref
          <5>1. \E p, q \in DOMAIN s.items : s.items[p].ref # s.items[q].ref
            BY <1>3, <1>5, <4>4
          <5> QED  BY <1>5, <4>1, <4>4, <5>1
        <4> QED  BY <4>2, <4>3, <4>4 DEF Claims
      <3> QED  BY <3>1, <3>2
    <2>4. s.kind = "v"
      BY <1>5, <1>7
    <2> QED  BY <1>6, <2>2, <2>3, <2>4 DEF Claims, s, k, y, x
  <1>8. CASE k = "m" /\ r.kind \in {"a", "t", "m"}
    <2>1. \E p, q \in DOMAIN s.items : s.items[p].kind # s.items[q].kind
      <3>1. CASE r.kind = "m"
        BY <1>3, <1>5, <3>1 DEF Claims
      <3>2. CASE r.kind # "m"
        <4>1. r.kind \in Kinds /\ r.kind # "0" /\ r.kind # "v"
          BY <1>8, <3>2 DEF Kinds
        <4>2. n # 0 /\ 1 \in 1 .. n /\ 1 \in 1 .. n + 1 /\ n + 1 \in 1 .. n + 1
          BY <1>0, <1>3, <4>1
        <4>3. r.items[1].kind # "v"
          BY <1>3, <4>1, <4>2 DEF Claims
        <4> QED  BY <1>2, <1>3, <1>5, <4>2, <4>3
      <3> QED  BY <3>1, <3>2
    <2> QED  BY <1>5, <1>6, <1>8, <2>1 DEF Claims, Kinds, s, k, y, x
  <1> QED  BY <1>4, <1>7, <1>8

-----------------------------------------------------------------------------
(* create_keyval and create_keytable. *)

\* A tree that is whole is a tree, not the error.
LEMMA WellIsDoc ==
    ASSUME NEW d, Well(d)
    PROVE  d \in Doc /\ d # NoDoc /\ Sound(d) /\ d.cur \in DOMAIN d.tabs
  BY NewOnes DEF Well, Sound

\* Growing by nothing is growing.
LEMMA NeverLater == \A d : d \in Doc => Later(d, d, {})
  BY Parts DEF Later

\* What is found under a key that is not there yet.
LEMMA FreshKey ==
    ASSUME NEW d \in Doc, NEW t \in DOMAIN d.tabs, NEW key, check_key(d, t, key).kind = "none"
    PROVE  ~Named(d, t, key)
  <1>1. \A q \in DOMAIN d.tabs[t].ents : d.tabs[t].ents[q].key # key
    BY CheckKey DEF Kinds
  <1> QED  BY <1>1 DEF Named, Ents

\* The only entry of a key is the one check_key finds.
LEMMA TheEntry ==
    ASSUME NEW d, Sound(d), NEW t \in DOMAIN d.tabs, NEW q \in DOMAIN Ents(d, t)
    PROVE  check_key(d, t, Ents(d, t)[q].key) = Ents(d, t)[q]
  <1>1. d \in Doc /\ TabOK(d, t)
    BY DEF Sound
  <1> DEFINE key == Ents(d, t)[q].key
             e == check_key(d, t, key)
  <1>2. PICK p \in DOMAIN Ents(d, t) : Ents(d, t)[p] = e /\ Ents(d, t)[p].key = key
    BY <1>1, CheckKey DEF Ents
  <1>3. p = q
    BY <1>1, <1>2 DEF TabOK
  <1> QED  BY <1>2, <1>3

\* create_keyval: the error, or the tree with one more value.
LEMMA MadeKeyval ==
    ASSUME NEW d, Well(d), NEW t \in DOMAIN d.tabs, NEW key \in Word, NEW v \in Word
    PROVE  LET e == create_keyval(d, t, key, v)
           IN e = NoDoc \/ (Well(e) /\ Later(d, e, {}))
  <1> DEFINE x == [key |-> key, kind |-> "v", ref |-> v]
             e == AddEntry(d, t, x.key, x.kind, x.ref)
  <1>1. d \in Doc /\ Sound(d)
    BY WellIsDoc
  <1>2. x \in Ent /\ x.kind = "v" /\ x.key = key /\ x.ref = v
    BY DEF Ent, Kinds
  <1>3. CASE check_key(d, t, key).kind # "none" \/ ~normalize_key(key)
    BY <1>3 DEF create_keyval
  <1>4. CASE check_key(d, t, key).kind = "none" /\ normalize_key(key)
    <2>1. ~Named(d, t, x.key) /\ Leads(d, t, x) /\ x.kind # "a"
      BY <1>1, <1>2, <1>4, FreshKey DEF Leads
    <2>2. create_keyval(d, t, key, v) = e
      BY <1>4 DEF create_keyval
    <2> HIDE DEF x
    <2>3. Sound(e) /\ Later(d, e, {}) /\ e.arrs = d.arrs
      BY <1>1, <1>2, <2>1, AddsEntry
    <2>4. Well(e)
      BY <2>3 DEF Well, Filled, Items
    <2> QED  BY <2>2, <2>3, <2>4
  <1> QED  BY <1>3, <1>4

\* A table under a new key.
LEMMA NewKeytable ==
    ASSUME NEW d, Well(d), NEW t \in DOMAIN d.tabs, NEW key \in Word, ~Named(d, t, key),
           NEW r \in Tab, r.ents = <<>>, r.defs = 0
    PROVE  LET n == Len(d.tabs) + 1
               e == AddEntry([d EXCEPT !.tabs = Append(@, r)], t, key, "t", n)
           IN /\ Well(e) /\ Later(d, e, {}) /\ e.arrs = d.arrs /\ n \in DOMAIN e.tabs
              /\ e.tabs[n].defs = 0 /\ e.tabs[n].implicit = r.implicit
              /\ \E q \in DOMAIN Ents(e, t) : Ents(e, t)[q] = [key |-> key, kind |-> "t", ref |-> n]
  <1> DEFINE n == Len(d.tabs) + 1
             c == [d EXCEPT !.tabs = Append(@, r)]
             x == [key |-> key, kind |-> "t", ref |-> n]
             e == AddEntry(c, t, x.key, x.kind, x.ref)
  <1>1. d \in Doc /\ Sound(d)
    BY WellIsDoc
  <1>2. /\ Sound(c) /\ Later(d, c, {}) /\ c.arrs = d.arrs /\ Len(c.tabs) = n /\ c.tabs[n] = r
        /\ \A u \in DOMAIN d.tabs : c.tabs[u] = d.tabs[u]
    BY <1>1, AddsTable
  <1>3. /\ Len(d.tabs) \in Nat /\ DOMAIN d.tabs = 1 .. Len(d.tabs) /\ n \in Nat /\ n > t
        /\ c \in Doc /\ DOMAIN c.tabs = 1 .. n /\ n \in DOMAIN c.tabs /\ t \in DOMAIN c.tabs
    <2>1. c \in Doc
      BY <1>2 DEF Sound
    <2>2. Len(d.tabs) \in Nat /\ DOMAIN d.tabs = 1 .. Len(d.tabs) /\ DOMAIN c.tabs = 1 .. Len(c.tabs)
      BY <1>1, <2>1, Parts
    <2> HIDE DEF c
    <2> QED  BY <1>2, <2>1, <2>2
  <1>4. x \in Ent /\ x.kind = "t" /\ x.key = key /\ x.ref = n
    BY <1>3 DEF Ent, Kinds
  <1>5. ~Named(c, t, x.key)
    BY <1>2, <1>4 DEF Named, Ents
  <1>6. Leads(c, t, x)
    BY <1>3, <1>4 DEF Leads
  <1>8. e = AddEntry([d EXCEPT !.tabs = Append(@, r)], t, key, "t", n)
    OBVIOUS
  <1> HIDE DEF c, x, n
  <1>7. /\ Sound(e) /\ Later(c, e, {}) /\ e.arrs = c.arrs /\ Len(e.tabs) = Len(c.tabs)
        /\ \A u \in DOMAIN c.tabs : e.tabs[u].defs = c.tabs[u].defs /\ e.tabs[u].implicit = c.tabs[u].implicit
        /\ \E q \in DOMAIN Ents(e, t) : Ents(e, t)[q] = x
    <2>1. x.kind # "a"
      BY <1>4
    <2> QED  BY <1>2, <1>3, <1>4, <1>5, <1>6, <2>1, AddsEntry
  <1> HIDE DEF e
  <1>9. e \in Doc /\ DOMAIN e.tabs = 1 .. n
    BY <1>2, <1>7, Parts DEF Sound
  <1>10. Later(d, e, {})
    <2>1. Later(d, e, {} \cup {})
      BY <1>1, <1>2, <1>3, <1>7, <1>9, LaterStill
    <2> QED  BY <2>1
  <1>11. Well(e)
    BY <1>2, <1>7 DEF Well, Filled, Items
  <1>12. n \in DOMAIN e.tabs /\ e.tabs[n].defs = 0 /\ e.tabs[n].implicit = r.implicit
    BY <1>2, <1>3, <1>7, <1>9
  <1> QED  BY <1>2, <1>7, <1>8, <1>10, <1>11, <1>12 DEF n, x

\* An entry of kind "t" leads to a table made later, on which no mark is lost.
Leading(d, t, key, u) == \E q \in DOMAIN Ents(d, t) : Ents(d, t)[q] = [key |-> key, kind |-> "t", ref |-> u]

\* create_keytable: the error, or a table that is explicit and not yet defined.
LEMMA MadeKeytable ==
    ASSUME NEW d, Well(d), NEW t \in DOMAIN d.tabs, NEW key \in Word
    PROVE  LET c == create_keytable(d, t, key)
           IN \/ c.doc = NoDoc /\ c.tab = 0
              \/ /\ Well(c.doc) /\ Later(d, c.doc, {}) /\ c.doc.arrs = d.arrs /\ c.tab \in DOMAIN c.doc.tabs
                 /\ c.doc.tabs[c.tab].defs = 0 /\ c.doc.tabs[c.tab].implicit = FALSE
                 /\ Leading(c.doc, t, key, c.tab)
  <1> DEFINE e == check_key(d, t, key)
             n == Len(d.tabs) + 1
             r == [d.tabs[e.ref] EXCEPT !.implicit = FALSE]
  <1>1. d \in Doc /\ Sound(d) /\ TabOK(d, t)
    BY WellIsDoc DEF Sound
  <1>2. CASE e.kind = "t" /\ d.tabs[e.ref].implicit
    <2> DEFINE g == [d EXCEPT !.tabs[e.ref] = r]
               c == [doc |-> g, tab |-> e.ref]
    <2>1. create_keytable(d, t, key) = c
      <3>1. g = [d EXCEPT !.tabs[e.ref].implicit = FALSE]
        OBVIOUS
      <3> QED  BY <1>2, <3>1 DEF create_keytable
    <2>2. PICK q \in DOMAIN Ents(d, t) : Ents(d, t)[q] = e /\ Ents(d, t)[q].key = key
      BY <1>1, <1>2, CheckKey DEF Ents
    <2> HIDE DEF e
    <2>3. e \in Ent /\ e.key = key
      BY <1>1, <2>2, Parts DEF Ents
    <2>4. e = [key |-> key, kind |-> "t", ref |-> e.ref]
      BY <1>2, <2>3 DEF Ent
    <2>5. e.ref \in DOMAIN d.tabs
      BY <1>1, <1>2, <2>2 DEF TabOK, Leads
    <2>6. d.tabs[e.ref] \in Tab /\ TabOK(d, e.ref)
      BY <1>1, <2>5, Parts DEF Sound
    <2>7. r \in Tab /\ r.ents = d.tabs[e.ref].ents /\ r.defs = d.tabs[e.ref].defs /\ r.implicit = FALSE
      BY <2>6, Zenon DEF Tab
    <2>8. r.defs = 0
      BY <1>2, <2>6, <2>7 DEF TabOK
    <2> HIDE DEF r
    <2>9. /\ Sound(g) /\ Later(d, g, {}) /\ g.arrs = d.arrs /\ Len(g.tabs) = Len(d.tabs)
          /\ g.tabs[e.ref] = r
      BY <1>1, <2>5, <2>7, <2>8, MarksTable
    <2> HIDE DEF g
    <2>10. Well(g) /\ DOMAIN g.tabs = DOMAIN d.tabs
      BY <1>1, <2>9, Parts DEF Well, Filled, Items, Sound
    <2>11. Leading(g, t, key, e.ref)
      BY <2>2, <2>4, <2>9 DEF Later, Leading
    <2>12. c.doc = g /\ c.tab = e.ref
      OBVIOUS
    <2> HIDE DEF c
    <2> QED  BY <2>1, <2>5, <2>7, <2>8, <2>9, <2>10, <2>11, <2>12
  <1>3. CASE e.kind = "none" /\ normalize_key(key)
    <2> DEFINE g == AddEntry([d EXCEPT !.tabs = Append(@, NewTable)], t, key, "t", n)
               c == [doc |-> g, tab |-> n]
    <2>1. create_keytable(d, t, key) = c
      BY <1>3 DEF create_keytable
    <2>2. ~Named(d, t, key)
      BY <1>1, <1>3, FreshKey
    <2>3. /\ Well(g) /\ Later(d, g, {}) /\ g.arrs = d.arrs /\ n \in DOMAIN g.tabs
          /\ g.tabs[n].defs = 0 /\ g.tabs[n].implicit = FALSE
          /\ \E q \in DOMAIN Ents(g, t) : Ents(g, t)[q] = [key |-> key, kind |-> "t", ref |-> n]
      <3>1. NewTable \in Tab /\ NewTable.ents = <<>> /\ NewTable.defs = 0
        BY NewOnes
      <3>2. NewTable.implicit = FALSE
        BY NewOnes, Zenon
      <3>3. /\ Well(g) /\ Later(d, g, {}) /\ g.arrs = d.arrs /\ n \in DOMAIN g.tabs
            /\ g.tabs[n].defs = 0 /\ g.tabs[n].implicit = NewTable.implicit
            /\ \E q \in DOMAIN Ents(g, t) : Ents(g, t)[q] = [key |-> key, kind |-> "t", ref |-> n]
        BY <2>2, <3>1, NewKeytable
      <3> HIDE DEF g, n
      <3>4. g.tabs[n].implicit = FALSE
        BY <3>2, <3>3, Zenon
      <3> QED  BY <3>3, <3>4
    <2>4. c.doc = g /\ c.tab = n
      OBVIOUS
    <2>5. Leading(g, t, key, n)
      BY <2>3 DEF Leading
    <2> HIDE DEF c, g, n
    <2> QED  BY <2>1, <2>3, <2>4, <2>5
  <1>4. CASE ~(e.kind = "t" /\ d.tabs[e.ref].implicit) /\ ~(e.kind = "none" /\ normalize_key(key))
    <2>1. create_keytable(d, t, key) = [doc |-> NoDoc, tab |-> 0]
      BY <1>4 DEF create_keytable
    <2> QED  BY <2>1
  <1> QED  BY <1>2, <1>3, <1>4

-----------------------------------------------------------------------------
(* create_keyarray, AddValue and AddItem. *)

\* The key is there for the k that is n.
Keyed(d, t, key, k, n) == \E q \in DOMAIN Ents(d, t) : Ents(d, t)[q] = [key |-> key, kind |-> k, ref |-> n]

\* create_keyarray: the error, or the tree with one more array.
LEMMA MadeKeyarray ==
    ASSUME NEW d, Well(d), NEW t \in DOMAIN d.tabs, NEW key \in Word, NEW k \in {"0", "t"}
    PROVE  LET c == create_keyarray(d, t, key, k)
               n == Len(d.arrs) + 1
           IN \/ c.doc = NoDoc /\ c.arr = 0
              \/ /\ Sound(c.doc) /\ Later(d, c.doc, {}) /\ Len(c.doc.tabs) = Len(d.tabs)
                 /\ c.arr = n /\ n \in DOMAIN c.doc.arrs /\ c.doc.arrs[n].kind = k /\ Items(c.doc, n) = <<>>
                 /\ \A b \in DOMAIN c.doc.arrs \ {n} : Filled(c.doc, b)
                 /\ Keyed(c.doc, t, key, "a", n)
                 /\ \A u \in DOMAIN d.tabs : \A q \in DOMAIN Ents(d, u) :
                       Ents(d, u)[q].kind = "a" => Ents(d, u)[q].ref # n
  <1> DEFINE n == Len(d.arrs) + 1
             c == MoreArrays(d, k)
             x == [key |-> key, kind |-> "a", ref |-> n]
             e == AddEntry(c, t, x.key, x.kind, x.ref)
  <1>1. d \in Doc /\ Sound(d)
    BY WellIsDoc
  <1>2. CASE check_key(d, t, key).kind # "none" \/ ~normalize_key(key)
    <2>1. create_keyarray(d, t, key, k) = [doc |-> NoDoc, arr |-> 0]
      BY <1>2 DEF create_keyarray
    <2> QED  BY <2>1
  <1>3. CASE check_key(d, t, key).kind = "none" /\ normalize_key(key)
    <2>1. create_keyarray(d, t, key, k) = [doc |-> e, arr |-> n]
      BY <1>3 DEF create_keyarray, MoreArrays
    <2>2. /\ Sound(c) /\ Later(d, c, {}) /\ c.tabs = d.tabs /\ Len(c.arrs) = n /\ n \in DOMAIN c.arrs
          /\ c.arrs[n] = NewArray(k) /\ c.arrs[n].kind = k /\ Items(c, n) = <<>>
          /\ \A b \in DOMAIN c.arrs : b # n => b \in DOMAIN d.arrs /\ c.arrs[b] = d.arrs[b]
          /\ \A u \in DOMAIN c.tabs : \A q \in DOMAIN Ents(c, u) :
                Ents(c, u)[q].kind = "a" => Ents(c, u)[q].ref # n
      BY <1>1, AddsArray
    <2>3. x \in Ent /\ x.kind = "a" /\ x.key = key /\ x.ref = n
      <3>1. n \in Nat
        BY <1>1, Parts
      <3> QED  BY <3>1 DEF Ent, Kinds
    <2>4. ~Named(c, t, x.key)
      <3>1. ~Named(d, t, key)
        BY <1>1, <1>3, FreshKey
      <3> HIDE DEF c
      <3> QED  BY <2>2, <3>1 DEF Named, Ents
    <2> HIDE DEF c, x, n
    <2>5. Leads(c, t, x)
      <3>1. DOMAIN Items(c, n) = {}
        BY <2>2
      <3> QED  BY <2>2, <2>3, <3>1 DEF Leads
    <2>6. c \in Doc /\ t \in DOMAIN c.tabs
      BY <2>2 DEF Sound
    <2>7. /\ Sound(e) /\ Later(c, e, {}) /\ e.arrs = c.arrs /\ Len(e.tabs) = Len(c.tabs)
          /\ \E q \in DOMAIN Ents(e, t) : Ents(e, t)[q] = x
      BY <2>2, <2>3, <2>4, <2>5, <2>6, AddsEntry
    <2> HIDE DEF e
    <2>8. Later(d, e, {})
      <3>1. e \in Doc
        BY <2>7 DEF Sound
      <3>2. Later(d, e, {} \cup {})
        BY <1>1, <2>2, <2>6, <2>7, <3>1, LaterStill
      <3> QED  BY <3>2
    <2>9. \A b \in DOMAIN e.arrs \ {n} : Filled(e, b)
      BY <2>2, <2>7 DEF Well, Filled, Items
    <2>10. Keyed(e, t, key, "a", n)
      BY <2>7 DEF Keyed, x
    <2>11. n \in DOMAIN e.arrs /\ e.arrs[n].kind = k /\ Items(e, n) = <<>> /\ Len(e.tabs) = Len(d.tabs)
      BY <2>2, <2>7 DEF Items
    <2>12. \A u \in DOMAIN d.tabs : \A q \in DOMAIN Ents(d, u) :
                       Ents(d, u)[q].kind = "a" => Ents(d, u)[q].ref # n
      BY <2>2 DEF Ents
    <2>13. [doc |-> e, arr |-> n].doc = e /\ [doc |-> e, arr |-> n].arr = n
      OBVIOUS
    <2> QED  BY <2>1, <2>7, <2>8, <2>9, <2>10, <2>11, <2>12, <2>13 DEF n
  <1> QED  BY <1>2, <1>3

\* AddValue: the claims of the array stay true.
LEMMA AddedValue ==
    ASSUME NEW d, Well(d), NEW a \in DOMAIN d.arrs, NEW v \in Word, v # "m"
    PROVE  LET e == AddValue(d, a, v)
           IN Well(e) /\ Later(d, e, {a}) /\ e.tabs = d.tabs /\ Len(e.arrs) = Len(d.arrs)
  <1> DEFINE r == d.arrs[a]
             x == [kind |-> "v", ref |-> v]
             s == [kind  |-> KindWith(r, "v"),
                   type  |-> IF r.items = <<>> \/ r.type = v THEN v ELSE "m",
                   items |-> Append(r.items, [kind |-> "v", ref |-> v])]
             e == WithArray(d, a, s)
  <1>1. d \in Doc /\ Sound(d)
    BY WellIsDoc
  <1>2. r \in Arr /\ ArrOK(d, a) /\ Filled(d, a) /\ Items(d, a) = r.items
    BY <1>1, Parts DEF Well, Sound, Items
  <1>3. AddValue(d, a, v) = e
    BY DEF AddValue, WithArray
  <1>4. Claims(r) /\ \A q \in DOMAIN r.items : r.items[q].kind = "v" => r.items[q].ref # "m"
    BY <1>2 DEF ArrOK, ItemOK
  <1>5. r.kind # "0" => r.items # <<>>
    BY <1>2 DEF Filled
  <1>6. s.items = Append(Items(d, a), x)
    BY <1>2
  <1>7. x \in Item /\ ItemOK(d, x) /\ Ahead(d, a, x)
    BY DEF Item, ItemOK, Kinds, Ahead
  <1> HIDE DEF r, x
  <1>8. s \in Arr /\ Claims(s) /\ s.kind # "0"
    BY <1>2, <1>4, <1>5, ClaimsWithValue, Zenon
  <1> HIDE DEF s
  <1>9. /\ Sound(e) /\ Later(d, e, {a}) /\ e.tabs = d.tabs /\ Len(e.arrs) = Len(d.arrs)
        /\ e.arrs[a] = s
        /\ \A b \in DOMAIN e.arrs : b \in DOMAIN d.arrs /\ (b # a => e.arrs[b] = d.arrs[b])
    <2>1. Replaced(d, e, a, s)
      BY <1>1, <1>6, <1>7, <1>8, AddsItem
    <2> QED  BY <2>1 DEF Replaced
  <1> HIDE DEF e
  <1>10. \A b \in DOMAIN e.arrs : Filled(e, b)
    <2>1. s.items # <<>>
      BY <1>1, <1>2, <1>6, <1>7, Parts, Grown DEF Items
    <2> QED  BY <1>9, <2>1 DEF Well, Filled, Items
  <1> QED  BY <1>3, <1>9, <1>10 DEF Well

\* An array or a table is appended to an array: AddItem.
LEMMA AddedItem ==
    ASSUME NEW d, Sound(d), NEW a \in DOMAIN d.arrs, NEW k \in {"a", "t"}, NEW n \in Nat,
           k = "t" => n \in DOMAIN d.tabs /\ \A t \in DOMAIN d.tabs : DOMAIN Ents(d, t) # {} => n > t,
           \A b \in DOMAIN d.arrs \ {a} : Filled(d, b),
           Filled(d, a) \/ d.arrs[a].kind = k
    PROVE  LET e == AddItem(d, a, k, n)
           IN /\ Well(e) /\ Later(d, e, {a}) /\ e.tabs = d.tabs /\ Len(e.arrs) = Len(d.arrs)
              /\ e.arrs[a].kind = KindWith(d.arrs[a], k)
              /\ Items(e, a) = Append(Items(d, a), [kind |-> k, ref |-> n])
              /\ \A b \in DOMAIN d.arrs \ {a} : e.arrs[b] = d.arrs[b]
  <1> DEFINE r == d.arrs[a]
             x == [kind |-> k, ref |-> n]
             s == [kind |-> KindWith(r, x.kind), type |-> r.type, items |-> Append(r.items, x)]
             e == WithArray(d, a, s)
  <1>1. d \in Doc
    BY DEF Sound
  <1>2. r \in Arr /\ ArrOK(d, a) /\ Items(d, a) = r.items
    BY <1>1, Parts DEF Sound, Items
  <1>3. AddItem(d, a, k, n) = e
    BY DEF AddItem, WithArray
  <1>5. (r.kind # "0" => r.items # <<>>) \/ r.kind = k
    BY <1>2 DEF Filled
  <1>6. s.items = Append(Items(d, a), x)
    BY <1>2
  <1>7. x \in Item /\ x.kind = k /\ x.ref = n /\ x.kind # "v"
    BY DEF Item, Kinds
  <1>4. ItemOK(d, x)
    BY <1>7 DEF ItemOK
  <1>11. Ahead(d, a, x)
    BY <1>7 DEF Ahead
  <1> HIDE DEF r, x
  <1>8. s \in Arr /\ Claims(s) /\ s.kind # "0"
    <2>1. Claims(r)
      BY <1>2 DEF ArrOK, r
    <2>2. (r.kind # "0" => r.items # <<>>) \/ r.kind = x.kind
      BY <1>5, <1>7
    <2> QED  BY <1>2, <1>7, <2>1, <2>2, ClaimsWithItem, Zenon
  <1>12. s.kind = KindWith(r, k)
    BY <1>7
  <1> HIDE DEF s
  <1>9. /\ Sound(e) /\ Later(d, e, {a}) /\ e.tabs = d.tabs /\ Len(e.arrs) = Len(d.arrs)
        /\ e.arrs[a] = s
        /\ \A b \in DOMAIN e.arrs : b \in DOMAIN d.arrs /\ (b # a => e.arrs[b] = d.arrs[b])
    <2> HIDE DEF e
    <2>1. x \in Item /\ s \in Arr /\ Claims(s)
      BY <1>7, <1>8
    <2>2. Replaced(d, WithArray(d, a, s), a, s)
      BY <1>4, <1>6, <1>11, <2>1, AddsItem
    <2> QED  BY <2>2 DEF Replaced, e
  <1>14. e \in Doc
    BY <1>9 DEF Sound
  <1>15. DOMAIN e.arrs = DOMAIN d.arrs
    BY <1>1, <1>9, <1>14, Parts
  <1> HIDE DEF e
  <1>10. \A b \in DOMAIN e.arrs : Filled(e, b)
    <2>1. s.items # <<>>
      BY <1>1, <1>2, <1>6, <1>7, Parts, Grown DEF Items
    <2> QED  BY <1>9, <2>1 DEF Well, Filled, Items
  <1>13. Items(e, a) = Append(Items(d, a), [kind |-> k, ref |-> n])
    BY <1>6, <1>9 DEF Items, x
  <1> QED  BY <1>3, <1>9, <1>10, <1>12, <1>13, <1>15 DEF Well, r

-----------------------------------------------------------------------------
(* create_array_in_array, create_table_in_array and the marks of a table. *)

\* create_array_in_array: the new array is the last item of a.
LEMMA ArrayInArray ==
    ASSUME NEW d, Well(d), NEW a \in DOMAIN d.arrs
    PROVE  LET e == create_array_in_array(d, a)
           IN /\ Well(e) /\ Later(d, e, {a}) /\ e.tabs = d.tabs
              /\ Len(e.arrs) = Len(d.arrs) + 1 /\ Len(e.arrs) \in DOMAIN e.arrs
  <1> DEFINE n == Len(d.arrs) + 1
             c == MoreArrays(d, "0")
             e == AddItem(c, a, "a", n)
  <1>1. d \in Doc /\ Sound(d)
    BY WellIsDoc
  <1>2. create_array_in_array(d, a) = e
    BY DEF create_array_in_array, MoreArrays
  <1>3. /\ Sound(c) /\ Later(d, c, {}) /\ c.tabs = d.tabs /\ Len(c.arrs) = n
        /\ c.arrs[n].kind = "0"
        /\ \A b \in DOMAIN c.arrs : b # n => b \in DOMAIN d.arrs /\ c.arrs[b] = d.arrs[b]
    BY <1>1, AddsArray
  <1>4. n \in Nat /\ DOMAIN d.arrs = 1 .. Len(d.arrs) /\ Len(d.arrs) \in Nat
    BY <1>1, Parts
  <1> HIDE DEF c
  <1>5. c \in Doc /\ DOMAIN c.arrs = 1 .. n
    BY <1>3, Parts DEF Sound
  <1>6. a \in DOMAIN c.arrs /\ n \in DOMAIN c.arrs
    BY <1>4, <1>5
  <1> HIDE DEF n
  <1>7. \A b \in DOMAIN c.arrs : Filled(c, b)
    BY <1>3 DEF Well, Filled, Items
  <1>8. Well(e) /\ Later(c, e, {a}) /\ e.tabs = c.tabs /\ Len(e.arrs) = Len(c.arrs)
    <2>1. "a" \in {"a", "t"} /\ "a" # "t"
      OBVIOUS
    <2>2. Filled(c, a) /\ \A b \in DOMAIN c.arrs \ {a} : Filled(c, b)
      BY <1>6, <1>7
    <2> QED  BY <1>3, <1>4, <1>6, <2>1, <2>2, AddedItem
  <1> HIDE DEF e
  <1>9. e \in Doc /\ Len(e.arrs) \in DOMAIN e.arrs
    <2>1. e \in Doc
      BY <1>8, WellIsDoc
    <2>2. DOMAIN e.arrs = 1 .. Len(e.arrs) /\ Len(e.arrs) = Len(d.arrs) + 1
      BY <1>3, <1>8, <2>1, Parts DEF n
    <2> QED  BY <1>4, <2>1, <2>2
  <1>10. Later(d, e, {a})
    <2>1. Later(d, e, {} \cup {a})
      BY <1>1, <1>3, <1>5, <1>8, <1>9, LaterStill
    <2> QED  BY <2>1
  <1> QED  BY <1>2, <1>3, <1>8, <1>9, <1>10 DEF n

\* create_table_in_array: the new table is the last item of a.
LEMMA TableInArray ==
    ASSUME NEW d, Sound(d), NEW a \in DOMAIN d.arrs,
           \A b \in DOMAIN d.arrs \ {a} : Filled(d, b), Filled(d, a) \/ d.arrs[a].kind = "t"
    PROVE  LET e == create_table_in_array(d, a)
               n == Len(d.tabs) + 1
           IN /\ Well(e) /\ Later(d, e, {a}) /\ Len(e.tabs) = n /\ n \in DOMAIN e.tabs /\ e.tabs[n] = NewTable
              /\ Len(e.arrs) = Len(d.arrs) /\ Items(e, a) = Append(Items(d, a), [kind |-> "t", ref |-> n])
              /\ e.arrs[a].kind = KindWith(d.arrs[a], "t")
              /\ \A b \in DOMAIN d.arrs \ {a} : e.arrs[b] = d.arrs[b]
  <1> DEFINE n == Len(d.tabs) + 1
             c == [d EXCEPT !.tabs = Append(@, NewTable)]
             e == AddItem(c, a, "t", n)
  <1>1. d \in Doc
    BY DEF Sound
  <1>2. create_table_in_array(d, a) = e
    BY DEF create_table_in_array
  <1>3. /\ Sound(c) /\ Later(d, c, {}) /\ c.arrs = d.arrs /\ Len(c.tabs) = n
        /\ c.tabs[n] = NewTable
        /\ \A u \in DOMAIN d.tabs : c.tabs[u] = d.tabs[u]
    <2>1. NewTable \in Tab /\ NewTable.ents = <<>> /\ NewTable.defs = 0
      BY NewOnes
    <2> QED  BY <1>1, <2>1, AddsTable
  <1>4. n \in Nat /\ DOMAIN d.tabs = 1 .. Len(d.tabs) /\ Len(d.tabs) \in Nat
    BY <1>1, Parts
  <1> HIDE DEF c
  <1>5. c \in Doc /\ DOMAIN c.tabs = 1 .. n
    BY <1>3, Parts DEF Sound
  <1>6. n \in DOMAIN c.tabs /\ \A t \in DOMAIN c.tabs : DOMAIN Ents(c, t) # {} => n > t
    <2>1. \A t \in DOMAIN c.tabs : t = n \/ n > t
      BY <1>4, <1>5
    <2>2. Ents(c, n) = <<>>
      BY <1>3, NewOnes DEF Ents
    <2> QED  BY <1>4, <1>5, <2>1, <2>2
  <1> HIDE DEF n
  <1>7. /\ a \in DOMAIN c.arrs /\ \A b \in DOMAIN c.arrs \ {a} : Filled(c, b)
        /\ Filled(c, a) \/ c.arrs[a].kind = "t"
    BY <1>3 DEF Filled, Items
  <1>8. /\ Well(e) /\ Later(c, e, {a}) /\ e.tabs = c.tabs /\ Len(e.arrs) = Len(c.arrs)
        /\ e.arrs[a].kind = KindWith(c.arrs[a], "t")
        /\ Items(e, a) = Append(Items(c, a), [kind |-> "t", ref |-> n])
        /\ \A b \in DOMAIN c.arrs \ {a} : e.arrs[b] = c.arrs[b]
    <2>1. "t" \in {"a", "t"}
      OBVIOUS
    <2> QED  BY <1>3, <1>4, <1>6, <1>7, <2>1, AddedItem
  <1> HIDE DEF e
  <1>9. e \in Doc
    BY <1>8, WellIsDoc
  <1>10. Later(d, e, {a})
    <2>1. Later(d, e, {} \cup {a})
      BY <1>1, <1>3, <1>5, <1>8, <1>9, LaterStill
    <2> QED  BY <2>1
  <1>11. Items(c, a) = Items(d, a)
    BY <1>3 DEF Items
  <1> QED  BY <1>2, <1>3, <1>6, <1>8, <1>10, <1>11 DEF n

\* A table is defined by a header or by {...}.
LEMMA DefinedNow ==
    ASSUME NEW d, Well(d), NEW t \in DOMAIN d.tabs, d.tabs[t].defs = 0, d.tabs[t].implicit = FALSE
    PROVE  LET e == Defined(d, t)
           IN Well(e) /\ Later(d, e, {}) /\ e.arrs = d.arrs /\ Len(e.tabs) = Len(d.tabs)
  <1> DEFINE r == [d.tabs[t] EXCEPT !.defs = @ + 1]
             e == [d EXCEPT !.tabs[t] = r]
  <1>1. d \in Doc /\ Sound(d)
    BY WellIsDoc
  <1>2. Defined(d, t) = e
    BY DEF Defined
  <1>3. d.tabs[t] \in Tab
    BY <1>1, Parts
  <1>4. r \in Tab /\ r.ents = d.tabs[t].ents /\ r.implicit = FALSE /\ r.defs = d.tabs[t].defs + 1
    <2>1. d.tabs[t].defs + 1 \in Nat
      OBVIOUS
    <2> QED  BY <1>3, <2>1, Zenon DEF Tab
  <1>5. r.defs <= 1
    BY <1>4
  <1> HIDE DEF r
  <1>6. Sound(e) /\ Later(d, e, {}) /\ e.arrs = d.arrs /\ Len(e.tabs) = Len(d.tabs)
    BY <1>1, <1>4, <1>5, MarksTable
  <1> HIDE DEF e
  <1>7. Well(e)
    BY <1>6 DEF Well, Filled, Items
  <1> QED  BY <1>2, <1>6, <1>7

\* parse_inline_table closes its table to more keys.
LEMMA ReadonlyNow ==
    ASSUME NEW d, Well(d), NEW t \in DOMAIN d.tabs
    PROVE  LET e == [d EXCEPT !.tabs[t].readonly = TRUE]
           IN Well(e) /\ Later(d, e, {}) /\ e.arrs = d.arrs /\ Len(e.tabs) = Len(d.tabs)
  <1> DEFINE r == [d.tabs[t] EXCEPT !.readonly = TRUE]
             e == [d EXCEPT !.tabs[t] = r]
  <1>1. d \in Doc /\ Sound(d) /\ TabOK(d, t)
    BY WellIsDoc DEF Sound
  <1>2. [d EXCEPT !.tabs[t].readonly = TRUE] = e
    OBVIOUS
  <1>3. d.tabs[t] \in Tab
    BY <1>1, Parts
  <1>4. r \in Tab /\ r.ents = d.tabs[t].ents /\ r.implicit = d.tabs[t].implicit /\ r.defs = d.tabs[t].defs
    BY <1>3, Zenon DEF Tab
  <1>5. r.defs <= 1 /\ (r.implicit => r.defs = 0)
    BY <1>1, <1>4 DEF TabOK
  <1> HIDE DEF r
  <1>6. Sound(e) /\ Later(d, e, {}) /\ e.arrs = d.arrs /\ Len(e.tabs) = Len(d.tabs)
    BY <1>1, <1>4, <1>5, MarksTable
  <1> HIDE DEF e
  <1>7. Well(e)
    BY <1>6 DEF Well, Filled, Items
  <1> QED  BY <1>2, <1>6, <1>7

\* The current table is another one: ctx->curtab.
Headed(d, t, path) == [d EXCEPT !.cur = t, !.head = path]

\* Nothing else changes in the tree.
LEMMA HeadedNow ==
    ASSUME NEW d, Well(d), NEW t \in DOMAIN d.tabs, NEW path \in Seq(Word)
    PROVE  LET e == Headed(d, t, path)
           IN /\ Well(e) /\ e.tabs = d.tabs /\ e.arrs = d.arrs
              /\ e.cur = t /\ e.head = path
  <1> DEFINE e == Headed(d, t, path)
  <1>1. d \in Doc /\ Sound(d)
    BY WellIsDoc
  <1>2. t \in Nat
    BY <1>1, Parts
  <1>3. e \in Doc /\ e.tabs = d.tabs /\ e.arrs = d.arrs /\ e.cur = t /\ e.head = path
    BY <1>1, <1>2 DEF Doc, Headed
  <1> HIDE DEF e
  <1>4. \A u \in DOMAIN e.tabs : TabOK(e, u)
    BY <1>1, <1>3 DEF Sound, TabOK, Ents, Leads, Items
  <1>5. \A a \in DOMAIN e.arrs : ArrOK(e, a) /\ Filled(e, a)
    BY <1>1, <1>3 DEF Well, Sound, ArrOK, ItemOK, Items, Filled
  <1>6. Once(e)
    BY <1>1, <1>3 DEF Sound, Once, Ents
  <1> QED  BY <1>3, <1>4, <1>5, <1>6 DEF Well, Sound, e

-----------------------------------------------------------------------------
(* The way from the root to a table, and that it lasts while the tree grows. *)

\* An entry of table t for key leads to table u, which is younger, and through
\* no array of A.
Follows(d, t, key, u, A) ==
    \E q \in DOMAIN Ents(d, t) :
        LET x == Ents(d, t)[q]
        IN /\ x.key = key
           /\ \/ x.kind = "t" /\ x.ref = u
              \/ /\ x.kind = "a" /\ x.ref \in DOMAIN d.arrs \ A /\ d.arrs[x.ref].kind = "t"
                 /\ Items(d, x.ref) # <<>> /\ Last(Items(d, x.ref)).ref = u

\* The first m keys of path lead from the root to table u.
Reaches(d, path, m, u, A) ==
    \E h \in [0 .. m -> Nat] :
        /\ h[0] = Root /\ h[m] = u
        /\ \A i \in 0 .. m : h[i] \in DOMAIN d.tabs /\ h[i] <= u /\ (h[i] = u => i = m)
        /\ \A i \in 1 .. m : Follows(d, h[i - 1], path[i], h[i], A)

\* The root is reached by no key.
LEMMA ReachesRoot ==
    ASSUME NEW d, Sound(d), NEW path, NEW A PROVE Reaches(d, path, 0, Root, A)
  <1> DEFINE h == [i \in 0 .. 0 |-> Root]
  <1>1. Root \in Nat /\ 0 .. 0 = {0} /\ 1 .. 0 = {}
    BY DEF Root
  <1>2. h \in [0 .. 0 -> Nat] /\ h[0] = Root
    BY <1>1
  <1>3. Root \in DOMAIN d.tabs
    <2>1. d \in Doc /\ d.cur \in DOMAIN d.tabs
      BY DEF Sound
    <2>2. DOMAIN d.tabs = 1 .. Len(d.tabs) /\ Len(d.tabs) \in Nat
      BY <2>1, Parts
    <2> QED  BY <2>1, <2>2 DEF Root
  <1>4. Root <= Root
    BY <1>1
  <1> HIDE DEF h
  <1>5. \A i \in 0 .. 0 : h[i] \in DOMAIN d.tabs /\ h[i] <= Root /\ (h[i] = Root => i = 0)
    BY <1>1, <1>2, <1>3, <1>4
  <1>6. \A i \in 1 .. 0 : Follows(d, h[i - 1], path[i], h[i], A)
    BY <1>1
  <1> QED  BY <1>2, <1>5, <1>6 DEF Reaches

\* A table that the next key leads to is reached.
LEMMA ReachesOneMore ==
    ASSUME NEW d, NEW path, NEW m \in Nat, NEW u, NEW A, Reaches(d, path, m, u, A),
           NEW v \in Nat, v \in DOMAIN d.tabs, u < v, Follows(d, u, path[m + 1], v, A)
    PROVE  Reaches(d, path, m + 1, v, A)
  <1>1. PICK h \in [0 .. m -> Nat] :
          /\ h[0] = Root /\ h[m] = u
          /\ \A i \in 0 .. m : h[i] \in DOMAIN d.tabs /\ h[i] <= u /\ (h[i] = u => i = m)
          /\ \A i \in 1 .. m : Follows(d, h[i - 1], path[i], h[i], A)
    BY DEF Reaches
  <1> DEFINE g == [i \in 0 .. m + 1 |-> IF i = m + 1 THEN v ELSE h[i]]
  <1>2. /\ g \in [0 .. m + 1 -> Nat] /\ g[m + 1] = v
        /\ \A i \in 0 .. m : g[i] = h[i]
        /\ \A i \in 0 .. m + 1 : i = m + 1 \/ i \in 0 .. m
    OBVIOUS
  <1>3. 0 \in 0 .. m /\ m \in 0 .. m /\ m + 1 - 1 = m
    OBVIOUS
  <1>4. \A i \in 1 .. m + 1 : i = m + 1 \/ (i \in 1 .. m /\ i \in 0 .. m /\ i - 1 \in 0 .. m)
    OBVIOUS
  <1> HIDE DEF g
  <1>5. g[0] = Root /\ g[m] = u
    BY <1>1, <1>2, <1>3
  <1>6. ASSUME NEW i \in 0 .. m + 1
        PROVE  g[i] \in DOMAIN d.tabs /\ g[i] <= v /\ (g[i] = v => i = m + 1)
    <2>1. CASE i = m + 1
      BY <1>2, <2>1
    <2>2. CASE i # m + 1
      <3>1. i \in 0 .. m /\ g[i] = h[i] /\ h[i] \in DOMAIN d.tabs /\ h[i] <= u /\ h[i] \in Nat
        BY <1>1, <1>2, <2>2
      <3>2. u \in Nat
        BY <1>1, <1>3
      <3> QED  BY <3>1, <3>2
    <2> QED  BY <2>1, <2>2
  <1>7. ASSUME NEW i \in 1 .. m + 1 PROVE Follows(d, g[i - 1], path[i], g[i], A)
    <2>1. CASE i = m + 1
      BY <1>2, <1>3, <1>5, <2>1
    <2>2. CASE i # m + 1
      BY <1>1, <1>2, <1>4, <2>2
    <2> QED  BY <2>1, <2>2
  <1> QED  BY <1>2, <1>5, <1>6, <1>7 DEF Reaches

\* What is added to the tree leaves the tables that were reached reachable.
LEMMA StillFollows ==
    ASSUME NEW d, NEW e, d \in Doc, NEW B, Later(d, e, B), NEW A, B \subseteq A,
           NEW C, C \cap DOMAIN d.arrs \subseteq A, e \in Doc,
           NEW t \in DOMAIN d.tabs, NEW key, NEW u, Follows(d, t, key, u, A)
    PROVE  Follows(e, t, key, u, C)
  <1>1. PICK q \in DOMAIN Ents(d, t) :
          LET x == Ents(d, t)[q]
          IN /\ x.key = key
             /\ \/ x.kind = "t" /\ x.ref = u
                \/ /\ x.kind = "a" /\ x.ref \in DOMAIN d.arrs \ A /\ d.arrs[x.ref].kind = "t"
                   /\ Items(d, x.ref) # <<>> /\ Last(Items(d, x.ref)).ref = u
    BY DEF Follows
  <1>2. q \in DOMAIN Ents(e, t) /\ Ents(e, t)[q] = Ents(d, t)[q]
    BY DEF Later
  <1>3. \A a \in DOMAIN d.arrs \ A : a \in DOMAIN e.arrs \ C /\ e.arrs[a] = d.arrs[a]
    BY Parts DEF Later
  <1> QED  BY <1>1, <1>2, <1>3 DEF Follows, Items

\* The same for a whole way.
LEMMA StillReaches ==
    ASSUME NEW d, NEW e, d \in Doc, e \in Doc, NEW B, Later(d, e, B), NEW A, B \subseteq A,
           NEW C, C \cap DOMAIN d.arrs \subseteq A,
           NEW path, NEW m \in Nat, NEW u, Reaches(d, path, m, u, A)
    PROVE  Reaches(e, path, m, u, C)
  <1>1. PICK h \in [0 .. m -> Nat] :
          /\ h[0] = Root /\ h[m] = u
          /\ \A i \in 0 .. m : h[i] \in DOMAIN d.tabs /\ h[i] <= u /\ (h[i] = u => i = m)
          /\ \A i \in 1 .. m : Follows(d, h[i - 1], path[i], h[i], A)
    BY DEF Reaches
  <1>2. DOMAIN d.tabs \subseteq DOMAIN e.tabs
    BY Parts DEF Later
  <1>3. \A i \in 1 .. m : i - 1 \in 0 .. m
    OBVIOUS
  <1>4. \A i \in 1 .. m : Follows(e, h[i - 1], path[i], h[i], C)
    <2>1. \A i \in 1 .. m : h[i - 1] \in DOMAIN d.tabs /\ Follows(d, h[i - 1], path[i], h[i], A)
      BY <1>1, <1>3
    <2>2. \A t \in DOMAIN d.tabs : \A key, v : Follows(d, t, key, v, A) => Follows(e, t, key, v, C)
      BY StillFollows
    <2> QED  BY <2>1, <2>2
  <1> QED  BY <1>1, <1>2, <1>4 DEF Reaches

\* Other current table, same tree.
LEMMA SameTree ==
    ASSUME NEW d, NEW e, e.tabs = d.tabs, e.arrs = d.arrs, NEW path, NEW m, NEW u, NEW A,
           Reaches(d, path, m, u, A)
    PROVE  Reaches(e, path, m, u, A)
  <1>1. \A t, key, v : Follows(d, t, key, v, A) <=> Follows(e, t, key, v, A)
    BY DEF Follows, Ents, Items
  <1> QED  BY <1>1 DEF Reaches

\* And another path that begins with the same keys.
LEMMA SamePath ==
    ASSUME NEW d, NEW path, NEW p2, NEW m \in Nat, \A i \in 1 .. m : path[i] = p2[i], NEW u, NEW A,
           Reaches(d, path, m, u, A)
    PROVE  Reaches(d, p2, m, u, A)
  BY DEF Reaches

-----------------------------------------------------------------------------
(* walk_tabpath, one key. *)

\* What walk_tabpath has come to: the error, or a table of a grown tree.
Lost == [cur |-> 0, doc |-> NoDoc]
On(d, w) ==
    /\ Well(w.doc) /\ Later(d, w.doc, {}) /\ w.doc.arrs = d.arrs /\ w.cur \in DOMAIN w.doc.tabs
Walks(d) == {w \in [cur : Nat, doc : Doc] : w = Lost \/ On(d, w)}

\* The last table of an array of tables.
LEMMA TheLastTable ==
    ASSUME NEW d, Well(d), NEW t \in DOMAIN d.tabs, NEW q \in DOMAIN Ents(d, t),
           Ents(d, t)[q].kind = "a", d.arrs[Ents(d, t)[q].ref].kind = "t"
    PROVE  LET a == Ents(d, t)[q].ref
           IN /\ a \in DOMAIN d.arrs /\ Items(d, a) # <<>>
              /\ LastTable(d, a) = Last(Items(d, a)).ref
              /\ LastTable(d, a) \in DOMAIN d.tabs /\ LastTable(d, a) > t
  <1> DEFINE a == Ents(d, t)[q].ref
             n == Len(Items(d, a))
  <1>1. d \in Doc /\ Sound(d) /\ Leads(d, t, Ents(d, t)[q])
    BY WellIsDoc DEF Sound, TabOK
  <1>2. a \in DOMAIN d.arrs /\ \A p \in DOMAIN Items(d, a) : Items(d, a)[p].kind = "t" => Items(d, a)[p].ref > t
    BY <1>1 DEF Leads
  <1> HIDE DEF a
  <1>3. ArrOK(d, a) /\ Filled(d, a) /\ d.arrs[a].kind = "t"
    BY <1>1, <1>2 DEF Well, Sound, a
  <1>4. Items(d, a) # <<>>
    BY <1>3 DEF Filled
  <1>5. n \in Nat /\ DOMAIN Items(d, a) = 1 .. n /\ Items(d, a) \in Seq(Item)
    BY <1>1, <1>2, Parts DEF Items
  <1>6. n \in DOMAIN Items(d, a) /\ Last(Items(d, a)) = Items(d, a)[n]
    BY <1>4, <1>5 DEF Last
  <1> HIDE DEF n
  <1>7. Items(d, a)[n].kind = "t"
    BY <1>3, <1>6 DEF ArrOK, Claims, Kinds, Items
  <1>8. Items(d, a)[n].ref \in DOMAIN d.tabs
    BY <1>3, <1>6, <1>7 DEF ArrOK, ItemOK
  <1>9. LastTable(d, a) = Last(Items(d, a)).ref
    BY DEF LastTable, Items
  <1> QED  BY <1>2, <1>4, <1>6, <1>7, <1>8, <1>9 DEF a

\* One key of walk_tabpath goes on, or it is lost.
LEMMA WalkedKey ==
    ASSUME NEW d, d \in Doc, NEW w \in Walks(d), NEW key \in Word
    PROVE  LET v == WalkKey(w, key)
           IN /\ v \in Walks(d)
              /\ v.cur # 0 => /\ On(d, w) /\ Later(w.doc, v.doc, {})
                              /\ w.cur < v.cur /\ Follows(v.doc, w.cur, key, v.cur, {})
  <1> DEFINE v == WalkKey(w, key)
             e == check_key(w.doc, w.cur, key)
             n == Len(w.doc.tabs) + 1
             new == [NewTable EXCEPT !.implicit = TRUE]
  <1>1. w \in [cur : Nat, doc : Doc] /\ (w = Lost \/ On(d, w))
    BY DEF Walks
  <1>2. CASE w = Lost
    <2>1. v = w /\ v.cur = 0
      BY <1>2 DEF WalkKey, Lost
    <2> QED  BY <1>1, <2>1
  <1>3. CASE On(d, w)
    <2>1. /\ w.doc \in Doc /\ Sound(w.doc) /\ Well(w.doc) /\ Later(d, w.doc, {}) /\ w.doc.arrs = d.arrs
          /\ w.cur \in DOMAIN w.doc.tabs /\ w.cur \in Nat /\ w.cur # 0
      <3>1. w.doc \in Doc /\ Sound(w.doc) /\ w.cur \in DOMAIN w.doc.tabs
        BY <1>3, WellIsDoc DEF On
      <3>2. w.cur \in Nat /\ w.cur # 0
        BY <3>1, Parts
      <3> QED  BY <1>3, <3>1, <3>2 DEF On
    <2>2. CASE e.kind \in {"t", "a"} /\ (e.kind = "a" => w.doc.arrs[e.ref].kind = "t")
      <3> DEFINE u == IF e.kind = "t" THEN e.ref ELSE LastTable(w.doc, e.ref)
      <3>1. PICK q \in DOMAIN Ents(w.doc, w.cur) : Ents(w.doc, w.cur)[q] = e /\ Ents(w.doc, w.cur)[q].key = key
        BY <2>1, <2>2, CheckKey DEF Ents
      <3>2. v = [w EXCEPT !.cur = u]
        BY <2>1, <2>2 DEF WalkKey
      <3> HIDE DEF e
      <3>3. /\ u \in DOMAIN w.doc.tabs /\ u > w.cur
            /\ e.kind = "a" => /\ e.ref \in DOMAIN w.doc.arrs /\ Items(w.doc, e.ref) # <<>>
                               /\ Last(Items(w.doc, e.ref)).ref = u
        <4>1. CASE e.kind = "t"
          BY <2>1, <3>1, <4>1 DEF Sound, TabOK, Leads
        <4>2. CASE e.kind = "a"
          <5>1. /\ e.ref \in DOMAIN w.doc.arrs /\ Items(w.doc, e.ref) # <<>>
                /\ LastTable(w.doc, e.ref) = Last(Items(w.doc, e.ref)).ref
                /\ LastTable(w.doc, e.ref) \in DOMAIN w.doc.tabs /\ LastTable(w.doc, e.ref) > w.cur
            BY <2>1, <2>2, <3>1, <4>2, TheLastTable
          <5> QED  BY <4>2, <5>1
        <4> QED  BY <2>2, <4>1, <4>2
      <3>4. e.kind = "t" => e.ref = u
        OBVIOUS
      <3> HIDE DEF u
      <3>5. Follows(w.doc, w.cur, key, u, {})
        BY <2>2, <3>1, <3>3, <3>4 DEF Follows
      <3>6. u \in Nat /\ w.cur < u
        BY <2>1, <3>3, Parts
      <3>7. v.cur = u /\ v.doc = w.doc /\ v \in [cur : Nat, doc : Doc]
        BY <1>1, <3>2, <3>6
      <3> HIDE DEF v
      <3>8. On(d, v)
        BY <2>1, <3>3, <3>7 DEF On
      <3>9. v \in Walks(d)
        BY <3>7, <3>8 DEF Walks
      <3>10. Later(w.doc, v.doc, {})
        BY <2>1, <3>7, NeverLater
      <3> QED  BY <1>3, <3>5, <3>6, <3>7, <3>9, <3>10 DEF v
    <2>3. CASE e.kind = "none"
      <3> DEFINE g == AddEntry([w.doc EXCEPT !.tabs = Append(@, new)], w.cur, key, "t", n)
      <3>1. v = [cur |-> n, doc |-> g]
        BY <2>1, <2>3 DEF WalkKey
      <3>2. ~Named(w.doc, w.cur, key)
        BY <2>1, <2>3, FreshKey
      <3>3. new \in Tab /\ new.ents = <<>> /\ new.defs = 0
        BY NewOnes DEF NewTable
      <3> HIDE DEF new
      <3>4. /\ Well(g) /\ Later(w.doc, g, {}) /\ g.arrs = w.doc.arrs /\ n \in DOMAIN g.tabs
            /\ \E q \in DOMAIN Ents(g, w.cur) : Ents(g, w.cur)[q] = [key |-> key, kind |-> "t", ref |-> n]
        BY <2>1, <3>2, <3>3, NewKeytable
      <3>5. n \in Nat /\ w.cur < n
        BY <2>1, Parts
      <3> HIDE DEF g, n
      <3>6. v.cur = n /\ v.doc = g
        BY <3>1
      <3>7. g \in Doc
        BY <3>4, WellIsDoc
      <3>8. v \in [cur : Nat, doc : Doc]
        BY <3>1, <3>5, <3>7
      <3>9. Follows(g, w.cur, key, n, {})
        BY <3>4 DEF Follows
      <3>10. Later(d, g, {})
        <4>1. Later(d, g, {} \cup {})
          BY <2>1, <3>4, <3>7, LaterStill
        <4> QED  BY <4>1
      <3> HIDE DEF v
      <3>11. v \in Walks(d)
        BY <2>1, <3>4, <3>6, <3>8, <3>10 DEF Walks, On
      <3> QED  BY <1>3, <3>4, <3>5, <3>6, <3>9, <3>11 DEF v
    <2>4. CASE e.kind \notin {"t", "none"} /\ ~(e.kind = "a" /\ w.doc.arrs[e.ref].kind = "t")
      <3>1. v = Lost
        BY <2>1, <2>4 DEF WalkKey, Lost
      <3>2. Lost \in [cur : Nat, doc : Doc] /\ Lost.cur = 0
        BY NewOnes DEF Lost
      <3> HIDE DEF v
      <3> QED  BY <3>1, <3>2 DEF Walks, v
    <2> QED  BY <2>2, <2>3, <2>4
  <1> QED  BY <1>1, <1>2, <1>3

-----------------------------------------------------------------------------
(* FoldLeft, and walk_tabpath over the whole path.  The definition of the fold
   is recursive over sets of indices: the iteration it stands for is shown to
   exist by induction, the induction by the least element of a set of numbers. *)

\* A set of natural numbers has a least one.
LEMMA Least == ASSUME NEW S, S \subseteq Nat, S # {} PROVE \E n \in S : \A m \in S : n <= m
  <1> DEFINE R == {ss \in Nat \X Nat : ss[1] < ss[2]}
  <1>1. R = OpToRel(<, Nat)
    BY Zenon DEF OpToRel
  <1>2. IsWellFoundedOn(R, Nat)
    BY <1>1, NatLessThanWellFounded
  <1>3. PICK n \in S : \A m \in S : ~ (<<m, n>> \in R)
    <2> HIDE DEF R
    <2> QED BY <1>2, WFMin
  <1>4. ASSUME NEW m \in S PROVE n <= m
    <2>1. ~ (<<m, n>> \in R)
      BY <1>3
    <2>2. m \in Nat /\ n \in Nat
      OBVIOUS
    <2>3. <<m,n>> \in Nat \X Nat /\ <<m,n>>[1] = m /\ <<m,n>>[2] = n
      BY <2>2
    <2> HIDE DEF R
    <2>4. ~(m < n)
       BY <2>1, <2>3, Zenon DEF R
    <2> QED BY <2>2, <2>4
  <1> QED BY <1>4

\* Induction over the natural numbers, for sets.
LEMMA Inductive == ASSUME NEW S, S \subseteq Nat, 0 \in S, \A n \in S : n + 1 \in S PROVE S = Nat
  <1> SUFFICES ASSUME Nat \ S # {} PROVE FALSE
    OBVIOUS
  <1>1. PICK n \in Nat \ S : \A m \in Nat \ S : n <= m
    BY Least
  <1>2. n # 0 /\ n - 1 \in S
    BY <1>1
  <1> QED BY <1>2

\* A set of indices has a greatest one.
LEMMA MaxOfInterval == ASSUME NEW n \in Nat, NEW S \in SUBSET (1 .. n), S # {}
    PROVE Max(S) \in S /\ \A m \in S : m <= Max(S)
  <1> DEFINE Bounds == {b \in Nat : \A m \in S : m <= b}
  <1>1. n \in Bounds
    OBVIOUS
  <1>2. PICK b \in Bounds : \A c \in Bounds : b <= c
    BY <1>1, Least
  <1>3. b \in S
    <2> SUFFICES ASSUME b \notin S PROVE FALSE
      OBVIOUS
    <2>1. PICK m \in S : TRUE
      OBVIOUS
    <2>2. b >= 1
      BY <2>1, <1>2
    <2>3. \A l \in S : l <= b - 1
      BY <1>2, <2>2
    <2>4. b - 1 \in Bounds
      BY <2>2, <2>3
    <2> QED BY <2>4, <1>2
  <1>4. \E x \in S : \A y \in S : x >= y
    BY <1>2, <1>3
  <1> QED BY <1>4 DEF Max

\* The greatest of 1 .. n + 1, and what is left without it.
LEMMA MaxOf == ASSUME NEW n \in Nat PROVE Max(1 .. n + 1) = n + 1 /\ (1 .. n + 1) \ {n + 1} = 1 .. n
  BY DEF Max

\* The greatest of a set that ends at m.
LEMMA MaxIsLast == ASSUME NEW m \in Nat, NEW S \in SUBSET (1 .. m), m \in S PROVE Max(S) = m
  <1>1. S # {}
    OBVIOUS
  <1>2. Max(S) \in S /\ m <= Max(S)
    BY <1>1, MaxOfInterval
  <1>3. Max(S) \in 1 .. m
    BY <1>2
  <1> QED  BY <1>2, <1>3

\* g is FoldLeft's iteration of F from base, on the sets of indices up to n.
FoldsBy(g, n, base, F) ==
    \A S \in SUBSET (1 .. n) : g[S] = IF S = {} THEN base ELSE F[<<g[S \ {Max(S)}], Max(S)>>]

\* Such an iteration exists, and FoldLeft is its last value.
LEMMA FoldExists ==
    ASSUME NEW n \in Nat, NEW D, NEW base \in D, NEW F \in [D \X (1 .. n) -> D]
    PROVE  \E g \in [SUBSET (1 .. n) -> D] :
             FoldsBy(g, n, base, F)
  <1> DEFINE Iter(m, g) == \A S \in SUBSET (1 .. m) :
                           g[S] = IF S = {} THEN base ELSE F[<<g[S \ {Max(S)}], Max(S)>>]
             P(m) == m <= n => \E g \in [SUBSET (1 .. m) -> D] : Iter(m, g)
             Good == {m \in Nat : P(m)}
  <1>1. P(0)
    <2> DEFINE g == [S \in SUBSET (1 .. 0) |-> base]
    <2>1. g \in [SUBSET (1 .. 0) -> D]
      OBVIOUS
    <2>2. \A S \in SUBSET (1 .. 0) : S = {}
      OBVIOUS
    <2>3. Iter(0, g)
      BY <2>2
    <2> QED  BY <2>1, <2>3
  <1>2. ASSUME NEW m \in Nat, P(m) PROVE P(m + 1)
    <2> SUFFICES ASSUME m + 1 <= n
                 PROVE  \E h \in [SUBSET (1 .. m + 1) -> D] : Iter(m + 1, h)
      OBVIOUS
    <2>1. PICK g \in [SUBSET (1 .. m) -> D] : Iter(m, g)
      BY <1>2
    <2>0. m \in Nat /\ m + 1 \in Nat /\ m + 1 \in 1 .. n
      OBVIOUS
    <2> DEFINE h == [S \in SUBSET (1 .. m + 1) |->
                       IF m + 1 \in S THEN F[<<g[S \ {m + 1}], m + 1>>] ELSE g[S]]
    <2>2. ASSUME NEW S \in SUBSET (1 .. m + 1)
          PROVE  /\ S \ {m + 1} \in SUBSET (1 .. m)
                 /\ m + 1 \notin S => S \in SUBSET (1 .. m)
                 /\ m + 1 \in S => Max(S) = m + 1
      <3>1. S \ {m + 1} \in SUBSET (1 .. m)
        BY <2>0
      <3>2. ASSUME m + 1 \notin S PROVE S \in SUBSET (1 .. m)
        BY <2>0, <3>2
      <3>3. ASSUME m + 1 \in S PROVE Max(S) = m + 1
        BY <3>3, <2>0, MaxIsLast
      <3> QED  BY <3>1, <3>2, <3>3
    <2>3. h \in [SUBSET (1 .. m + 1) -> D]
      <3>1. ASSUME NEW S \in SUBSET (1 .. m + 1)
            PROVE  (IF m + 1 \in S THEN F[<<g[S \ {m + 1}], m + 1>>] ELSE g[S]) \in D
        BY <2>0, <2>1, <2>2
      <3> QED  BY <3>1
    <2>4. ASSUME NEW S \in SUBSET (1 .. m + 1)
          PROVE  h[S] = IF S = {} THEN base ELSE F[<<h[S \ {Max(S)}], Max(S)>>]
      <3>1. CASE m + 1 \in S
        <4>1. h[S] = F[<<g[S \ {m + 1}], m + 1>>] /\ Max(S) = m + 1
          BY <3>1, <2>2
        <4>2. h[S \ {m + 1}] = g[S \ {m + 1}]
          <5>1. S \ {m + 1} \in SUBSET (1 .. m + 1)
            OBVIOUS
          <5> QED  BY <5>1
        <4> QED  BY <3>1, <4>1, <4>2
      <3>2. CASE m + 1 \notin S
        <4>1. S \in SUBSET (1 .. m) /\ h[S] = g[S]
          BY <3>2, <2>2
        <4>2. g[S] = IF S = {} THEN base ELSE F[<<g[S \ {Max(S)}], Max(S)>>]
          BY <4>1, <2>1
        <4>3. h[S \ {Max(S)}] = g[S \ {Max(S)}]
          BY <3>2
        <4> QED  BY <4>1, <4>2, <4>3
      <3> QED  BY <3>1, <3>2
    <2> HIDE DEF h
    <2> QED  BY <2>3, <2>4
  <1> HIDE DEF P
  <1>3. Good = Nat
    <2>1. Good \subseteq Nat /\ 0 \in Good /\ \A m \in Good : m + 1 \in Good
      BY <1>1, <1>2
    <2> HIDE DEF Good
    <2> QED  BY <2>1, Inductive
  <1>4. P(n) /\ n <= n
    BY <1>3
  <1>5. \E g \in [SUBSET (1 .. n) -> D] : Iter(n, g)
    <2> HIDE DEF Iter
    <2> QED  BY <1>4 DEF P
  <1> QED  BY <1>5 DEF FoldsBy

\* walk_tabpath is WalkKey, key after key.
LEMMA WalkIterates ==
    ASSUME NEW d, Well(d), NEW path \in Seq(Word)
    PROVE  \E h \in [0 .. Len(path) -> Walks(d)] :
              /\ h[0] = [cur |-> Root, doc |-> d] /\ h[Len(path)] = walk_tabpath(d, path)
              /\ \A m \in 1 .. Len(path) : h[m] = WalkKey(h[m - 1], path[m])
  <1> DEFINE n == Len(path)
             D == Walks(d)
             base == [cur |-> Root, doc |-> d]
             F == [x \in D \X (1 .. n) |-> WalkKey(x[1], path[x[2]])]
             Iter(g) == g = [S \in SUBSET DOMAIN path |->
                             IF S = {} THEN base ELSE WalkKey(g[S \ {Max(S)}], path[Max(S)])]
  <1>0. d \in Doc /\ Sound(d)
    BY WellIsDoc
  <1>1. n \in Nat /\ DOMAIN path = 1 .. n /\ \A m \in 1 .. n : path[m] \in Word
    OBVIOUS
  <1>2. base \in D
    <2>1. Root \in DOMAIN d.tabs
      <3>1. d.cur \in DOMAIN d.tabs
        BY <1>0 DEF Sound
      <3>2. DOMAIN d.tabs = 1 .. Len(d.tabs) /\ Len(d.tabs) \in Nat
        BY <1>0, Parts
      <3> QED  BY <3>1, <3>2 DEF Root
    <2>2. base \in [cur : Nat, doc : Doc] /\ base.cur = Root /\ base.doc = d
      BY <1>0 DEF Root
    <2> HIDE DEF base
    <2> QED  BY <1>0, <2>1, <2>2, NeverLater DEF Walks, On
  <1>3. \A x \in D, m \in 1 .. n : WalkKey(x, path[m]) \in D
    BY <1>0, <1>1, WalkedKey
  <1> HIDE DEF base, D, n
  <1>4. F \in [D \X (1 .. n) -> D] /\ \A x \in D, m \in 1 .. n : F[<<x, m>>] = WalkKey(x, path[m])
    BY <1>3
  <1> HIDE DEF F
  <1>5. PICK g \in [SUBSET (1 .. n) -> D] :
          \A S \in SUBSET (1 .. n) : g[S] = IF S = {} THEN base ELSE F[<<g[S \ {Max(S)}], Max(S)>>]
    <2>1. n \in Nat
      BY <1>1
    <2>2. \E g \in [SUBSET (1 .. n) -> D] : FoldsBy(g, n, base, F)
      BY <2>1, <1>2, <1>4, FoldExists
    <2> QED  BY <2>2 DEF FoldsBy
  <1>6. Iter(g)
    <2>1. ASSUME NEW S \in SUBSET (1 .. n)
          PROVE  g[S] = IF S = {} THEN base ELSE WalkKey(g[S \ {Max(S)}], path[Max(S)])
      <3>1. CASE S = {}
        BY <3>1, <1>5
      <3>2. CASE S # {}
        <4>1. Max(S) \in 1 .. n
          BY <3>2, <1>1, MaxOfInterval
        <4>2. S \ {Max(S)} \in SUBSET (1 .. n) /\ g[S \ {Max(S)}] \in D
          BY <1>5
        <4> QED  BY <3>2, <4>1, <4>2, <1>4, <1>5
      <3> QED  BY <3>1, <3>2
    <2>2. g = [S \in SUBSET (1 .. n) |-> g[S]]
      BY <1>5
    <2> QED  BY <2>1, <2>2, <1>1
  <1>7. PICK w : Iter(w) /\ walk_tabpath(d, path) = w[1 .. n]
    <2>1. Iter(CHOOSE w : Iter(w))
      BY <1>6
    <2>2. walk_tabpath(d, path) = (CHOOSE w : Iter(w))[DOMAIN path]
      BY DEF walk_tabpath, FoldLeft, MapThenFoldSet, base
    <2> QED  BY <2>1, <2>2, <1>1
  <1>8. w[{}] = base /\ \A S \in SUBSET (1 .. n) : S # {} => w[S] = WalkKey(w[S \ {Max(S)}], path[Max(S)])
    BY <1>7, <1>1
  <1> HIDE DEF Iter
  <1>9. ASSUME NEW k \in 1 .. n PROVE w[1 .. k] = WalkKey(w[1 .. k - 1], path[k])
    <2>1. k - 1 \in Nat /\ (k - 1) + 1 = k
      BY <1>1
    <2>2. Max(1 .. k) = k /\ (1 .. k) \ {k} = 1 .. k - 1
      <3> DEFINE p == k - 1
      <3>1. p \in Nat /\ p + 1 = k
        BY <2>1
      <3> HIDE DEF p
      <3>2. Max(1 .. p + 1) = p + 1 /\ (1 .. p + 1) \ {p + 1} = 1 .. p
        BY <3>1, MaxOf
      <3> QED  BY <3>1, <3>2 DEF p
    <2>3. 1 .. k \in SUBSET (1 .. n) /\ 1 .. k # {}
      <3>1. k \in 1 .. k
        BY <2>1
      <3>2. \A m \in 1 .. k : m \in 1 .. n
        BY <1>1
      <3> QED  BY <3>1, <3>2
    <2> QED  BY <1>8, <2>2, <2>3
  <1> DEFINE P(k) == k <= n => w[1 .. k] \in D
             Good == {k \in Nat : P(k)}
  <1>10. P(0)
    <2>1. 1 .. 0 = {}
      OBVIOUS
    <2> QED  BY <2>1, <1>2, <1>8
  <1>11. ASSUME NEW k \in Nat, P(k) PROVE P(k + 1)
    <2> SUFFICES ASSUME k + 1 <= n PROVE w[1 .. k + 1] \in D
      OBVIOUS
    <2>1. k + 1 \in 1 .. n /\ k + 1 - 1 = k /\ k <= n
      BY <1>1
    <2>2. w[1 .. k + 1] = WalkKey(w[1 .. k], path[k + 1])
      BY <1>9, <2>1
    <2> QED  BY <1>3, <1>11, <2>1, <2>2
  <1> HIDE DEF P
  <1>12. Good = Nat
    <2>1. Good \subseteq Nat /\ 0 \in Good /\ \A m \in Good : m + 1 \in Good
      BY <1>10, <1>11
    <2> HIDE DEF Good
    <2> QED  BY <2>1, Inductive
  <1> DEFINE h == [k \in 0 .. n |-> w[1 .. k]]
  <1>13. h \in [0 .. n -> D]
    <2>1. \A k \in 0 .. n : k \in Nat /\ k <= n
      BY <1>1
    <2>2. \A k \in 0 .. n : w[1 .. k] \in D
      BY <1>12, <2>1 DEF P
    <2> QED  BY <2>2
  <1>14. h[0] = base /\ h[n] = walk_tabpath(d, path)
    <2>1. 0 \in 0 .. n /\ n \in 0 .. n /\ 1 .. 0 = {}
      BY <1>1
    <2> QED  BY <1>7, <1>8, <2>1
  <1>15. \A m \in 1 .. n : h[m] = WalkKey(h[m - 1], path[m])
    <2>1. \A m \in 1 .. n : m \in 0 .. n /\ m - 1 \in 0 .. n
      BY <1>1
    <2> QED  BY <1>9, <2>1
  <1> HIDE DEF h
  <1> QED  BY <1>13, <1>14, <1>15 DEF n, D, base

\* It comes to the table that the path leads to in the grown tree, or is lost.
LEMMA WalkedPath ==
    ASSUME NEW d, Well(d), NEW path \in Seq(Word)
    PROVE  LET w == walk_tabpath(d, path)
           IN /\ w \in Walks(d)
              /\ w.cur # 0 => On(d, w) /\ Reaches(w.doc, path, Len(path), w.cur, {})
  <1> DEFINE n == Len(path)
             base == [cur |-> Root, doc |-> d]
  <1>0. d \in Doc /\ Sound(d) /\ n \in Nat /\ \A m \in 1 .. n : path[m] \in Word
    BY WellIsDoc
  <1>1. PICK h \in [0 .. n -> Walks(d)] :
              /\ h[0] = base /\ h[n] = walk_tabpath(d, path)
              /\ \A m \in 1 .. n : h[m] = WalkKey(h[m - 1], path[m])
    BY WalkIterates
  <1> HIDE DEF n
  <1> DEFINE P(m) == m <= n => (h[m].cur # 0 => Reaches(h[m].doc, path, m, h[m].cur, {}))
             Good == {m \in Nat : P(m)}
  <1>2. P(0)
    <2>1. h[0].cur = Root /\ h[0].doc = d
      BY <1>1
    <2> QED  BY <1>0, <2>1, ReachesRoot
  <1>3. ASSUME NEW m \in Nat, P(m) PROVE P(m + 1)
    <2> SUFFICES ASSUME m + 1 <= n, h[m + 1].cur # 0
                 PROVE  Reaches(h[m + 1].doc, path, m + 1, h[m + 1].cur, {})
      OBVIOUS
    <2> DEFINE w == h[m]
               v == h[m + 1]
               key == path[m + 1]
    <2>1. m + 1 \in 1 .. n /\ m + 1 - 1 = m /\ m \in 0 .. n /\ m + 1 \in 0 .. n /\ m <= n
      BY <1>0
    <2>2. w \in Walks(d) /\ v = WalkKey(w, key) /\ key \in Word
      BY <1>0, <1>1, <2>1
    <2>3. h[m + 1].cur = v.cur /\ P(m)
      BY <1>3
    <2> HIDE DEF v, key
    <2>4. /\ v \in Walks(d) /\ On(d, w) /\ Later(w.doc, v.doc, {})
          /\ w.cur < v.cur /\ Follows(v.doc, w.cur, key, v.cur, {})
      BY <1>0, <2>2, <2>3, WalkedKey
    <2>5. On(d, v)
      <3>1. v # Lost
        BY <2>3 DEF Lost
      <3> QED  BY <2>4, <3>1 DEF Walks
    <2>6. w.cur \in DOMAIN w.doc.tabs /\ w.doc \in Doc /\ v.doc \in Doc /\ v.cur \in DOMAIN v.doc.tabs
      BY <2>4, <2>5, WellIsDoc DEF On
    <2>7. w.cur # 0 /\ v.cur \in Nat
      BY <2>6, Parts
    <2>8. Reaches(w.doc, path, m, w.cur, {})
      BY <2>1, <2>3, <2>7
    <2> HIDE DEF w
    <2>9. Reaches(v.doc, path, m, w.cur, {})
      <3>1. {} \cap DOMAIN w.doc.arrs \subseteq {} /\ {} \subseteq {}
        OBVIOUS
      <3> QED  BY <2>4, <2>6, <2>8, <3>1, StillReaches
    <2>10. Follows(v.doc, w.cur, path[m + 1], v.cur, {})
      BY <2>4 DEF key
    <2>11. Reaches(v.doc, path, m + 1, v.cur, {})
      BY <2>4, <2>6, <2>7, <2>9, <2>10, ReachesOneMore
    <2> QED  BY <2>11 DEF v
  <1> HIDE DEF P
  <1>4. Good = Nat
    <2>1. Good \subseteq Nat /\ 0 \in Good /\ \A m \in Good : m + 1 \in Good
      BY <1>2, <1>3
    <2> HIDE DEF Good
    <2> QED  BY <2>1, Inductive
  <1>5. n \in 0 .. n /\ n <= n /\ n \in Nat
    BY <1>0
  <1>6. P(n) /\ h[n] \in Walks(d)
    BY <1>1, <1>4, <1>5
  <1>7. h[n].cur # 0 => On(d, h[n])
    <2>1. Lost.cur = 0
      BY DEF Lost
    <2> QED  BY <1>6, <2>1 DEF Walks
  <1> QED  BY <1>1, <1>5, <1>6, <1>7 DEF P, n

-----------------------------------------------------------------------------
(* SelectTable and SelectArray: the headers [x.y.z] and [[x.y.z]]. *)

\* The current table is the one that the header's path leads to.
Selected(e, path) ==
    /\ Well(e) /\ e.head = path /\ e.cur \in DOMAIN e.tabs
    /\ Reaches(e, path, Len(path), e.cur, {})

\* A path without its last key.
LEMMA PathParts ==
    ASSUME NEW path \in Seq(Word), path # <<>>
    PROVE  /\ Front(path) \in Seq(Word) /\ Len(Front(path)) = Len(path) - 1
           /\ Len(path) - 1 \in Nat /\ Len(path) - 1 + 1 = Len(path)
           /\ \A i \in 1 .. Len(path) - 1 : Front(path)[i] = path[i]
           /\ Last(path) = path[Len(path)] /\ Last(path) \in Word
  <1>1. Len(path) \in Nat /\ Len(path) # 0 /\ \A i \in 1 .. Len(path) : path[i] \in Word
    OBVIOUS
  <1>2. Front(path) = SubSeq(path, 1, Len(path) - 1)
    BY DEF Front
  <1>3. Len(path) - 1 \in Nat /\ Len(path) - 1 + 1 = Len(path) /\ Len(path) \in 1 .. Len(path)
    BY <1>1
  <1>4. \A i \in 1 .. Len(path) - 1 : i \in 1 .. Len(path)
    BY <1>1
  <1> DEFINE n == Len(path) - 1
  <1>5. n \in Nat /\ 1 \in Int /\ \A i \in 1 .. n : path[i] \in Word
    BY <1>1, <1>3, <1>4
  <1> HIDE DEF n
  <1>6. /\ SubSeq(path, 1, n) \in Seq(Word)
        /\ Len(SubSeq(path, 1, n)) = IF 1 <= n THEN n - 1 + 1 ELSE 0
        /\ \A i \in 1 .. n - 1 + 1 : SubSeq(path, 1, n)[i] = path[1 + i - 1]
    BY <1>5, SubSeqProperties
  <1>8. /\ Len(SubSeq(path, 1, n)) = n
        /\ \A i \in 1 .. n : SubSeq(path, 1, n)[i] = path[i]
    BY <1>5, <1>6
  <1>7. /\ Front(path) \in Seq(Word) /\ Len(Front(path)) = Len(path) - 1
        /\ \A i \in 1 .. Len(path) - 1 : Front(path)[i] = path[i]
    BY <1>2, <1>6, <1>8 DEF n
  <1> QED  BY <1>1, <1>3, <1>7 DEF Last

\* A table is defined and made the current one.
LEMMA DefinedAndHeaded ==
    ASSUME NEW d, Well(d), NEW t \in DOMAIN d.tabs, d.tabs[t].defs = 0, d.tabs[t].implicit = FALSE,
           NEW path \in Seq(Word), Reaches(d, path, Len(path), t, {})
    PROVE  Selected(Headed(Defined(d, t), t, path), path)
  <1> DEFINE g == Defined(d, t)
             e == Headed(g, t, path)
  <1>1. Well(g) /\ Later(d, g, {}) /\ g.arrs = d.arrs /\ Len(g.tabs) = Len(d.tabs)
    BY DefinedNow
  <1> HIDE DEF g
  <1>2. d \in Doc /\ g \in Doc
    BY <1>1, WellIsDoc
  <1>3. t \in DOMAIN g.tabs
    BY <1>1, <1>2, Parts
  <1>4. Len(path) \in Nat
    OBVIOUS
  <1>5. Reaches(g, path, Len(path), t, {})
    <2>1. {} \cap DOMAIN d.arrs \subseteq {} /\ {} \subseteq {}
      OBVIOUS
    <2> QED  BY <1>1, <1>2, <1>4, <2>1, StillReaches
  <1>6. Well(e) /\ e.tabs = g.tabs /\ e.arrs = g.arrs /\ e.cur = t /\ e.head = path
    BY <1>1, <1>3, HeadedNow
  <1> HIDE DEF e
  <1>7. Reaches(e, path, Len(path), t, {})
    BY <1>5, <1>6, SameTree
  <1> QED  BY <1>3, <1>6, <1>7 DEF Selected, e, g

\* [x.y.z]: the error, or the tree with the header's table.
LEMMA SelectedTable ==
    ASSUME NEW d, Well(d), NEW path \in Seq(Word), path # <<>>
    PROVE  LET e == SelectTable(d, path) IN e = NoDoc \/ Selected(e, path)
  <1> DEFINE f == Front(path)
             m == Len(path) - 1
             key == Last(path)
             w == walk_tabpath(d, f)
             c == create_keytable(w.doc, w.cur, key)
             e == Headed(Defined(c.doc, c.tab), c.tab, path)
  <1>1. /\ f \in Seq(Word) /\ Len(f) = m /\ m \in Nat /\ m + 1 = Len(path)
        /\ \A i \in 1 .. m : f[i] = path[i]
        /\ key = path[m + 1] /\ key \in Word
    BY PathParts
  <1>2. SelectTable(d, path) = IF w.cur = 0 \/ c.tab = 0 THEN NoDoc ELSE e
    BY DEF SelectTable, Headed
  <1>9. d \in Doc
    BY WellIsDoc
  <1>3. w \in Walks(d) /\ (w.cur # 0 => On(d, w) /\ Reaches(w.doc, f, m, w.cur, {}))
    BY <1>1, WalkedPath
  <1> HIDE DEF w, m, f, key
  <1>4. CASE w.cur = 0
    BY <1>2, <1>4
  <1>5. CASE w.cur # 0
    <2>1. Well(w.doc) /\ w.cur \in DOMAIN w.doc.tabs /\ Reaches(w.doc, f, m, w.cur, {})
      BY <1>3, <1>5 DEF On
    <2>2. \/ c.doc = NoDoc /\ c.tab = 0
          \/ /\ Well(c.doc) /\ Later(w.doc, c.doc, {}) /\ c.doc.arrs = w.doc.arrs /\ c.tab \in DOMAIN c.doc.tabs
             /\ c.doc.tabs[c.tab].defs = 0 /\ c.doc.tabs[c.tab].implicit = FALSE
             /\ Leading(c.doc, w.cur, key, c.tab)
      BY <1>1, <2>1, MadeKeytable
    <2> HIDE DEF c
    <2>3. CASE c.tab = 0
      BY <1>2, <2>3
    <2>4. CASE c.tab # 0
      <3>1. /\ Well(c.doc) /\ Later(w.doc, c.doc, {}) /\ c.tab \in DOMAIN c.doc.tabs
            /\ c.doc.tabs[c.tab].defs = 0 /\ c.doc.tabs[c.tab].implicit = FALSE
            /\ Leading(c.doc, w.cur, key, c.tab)
        BY <2>2, <2>4
      <3>2. w.doc \in Doc /\ c.doc \in Doc /\ Sound(c.doc)
        BY <2>1, <3>1, WellIsDoc
      <3>3. w.cur \in DOMAIN c.doc.tabs
        BY <2>1, <3>1, <3>2, Parts DEF Later
      <3>4. c.tab \in Nat /\ w.cur < c.tab /\ Follows(c.doc, w.cur, path[m + 1], c.tab, {})
        <4>1. PICK q \in DOMAIN Ents(c.doc, w.cur) :
                 Ents(c.doc, w.cur)[q] = [key |-> key, kind |-> "t", ref |-> c.tab]
          BY <3>1 DEF Leading
        <4>2. Leads(c.doc, w.cur, Ents(c.doc, w.cur)[q])
          BY <3>2, <3>3 DEF Sound, TabOK
        <4>3. c.tab > w.cur
          BY <4>1, <4>2 DEF Leads
        <4>4. Follows(c.doc, w.cur, key, c.tab, {})
          BY <4>1 DEF Follows
        <4>5. c.tab \in Nat /\ w.cur \in Nat
          BY <3>1, <3>2, <3>3, Parts
        <4> QED  BY <1>1, <4>3, <4>4, <4>5
      <3>5. Reaches(c.doc, path, m, w.cur, {})
        <4>1. {} \cap DOMAIN w.doc.arrs \subseteq {} /\ {} \subseteq {}
          OBVIOUS
        <4>2. Reaches(c.doc, f, m, w.cur, {})
          BY <1>1, <2>1, <3>1, <3>2, <4>1, StillReaches
        <4> QED  BY <1>1, <4>2, SamePath
      <3>6. Reaches(c.doc, path, Len(path), c.tab, {})
        BY <1>1, <3>1, <3>4, <3>5, ReachesOneMore
      <3>7. Selected(e, path)
        BY <3>1, <3>6, DefinedAndHeaded
      <3> QED  BY <1>2, <1>5, <2>4, <3>7
    <2> QED  BY <2>3, <2>4
  <1> QED  BY <1>4, <1>5

\* The way to a table does not lead through the arrays that have their names in it.
LEMMA Avoids ==
    ASSUME NEW d, Sound(d), NEW path, NEW m \in Nat, NEW u \in DOMAIN d.tabs, Reaches(d, path, m, u, {}),
           NEW q \in DOMAIN Ents(d, u), Ents(d, u)[q].kind = "a"
    PROVE  Reaches(d, path, m, u, {Ents(d, u)[q].ref})
  <1> DEFINE a == Ents(d, u)[q].ref
  <1>1. PICK h \in [0 .. m -> Nat] :
          /\ h[0] = Root /\ h[m] = u
          /\ \A i \in 0 .. m : h[i] \in DOMAIN d.tabs /\ h[i] <= u /\ (h[i] = u => i = m)
          /\ \A i \in 1 .. m : Follows(d, h[i - 1], path[i], h[i], {})
    BY DEF Reaches
  <1>2. ASSUME NEW i \in 1 .. m PROVE Follows(d, h[i - 1], path[i], h[i], {a})
    <2>1. i - 1 \in 0 .. m /\ i - 1 # m
      OBVIOUS
    <2>2. h[i - 1] # u /\ h[i - 1] \in DOMAIN d.tabs
      BY <1>1, <2>1
    <2>3. \A p \in DOMAIN Ents(d, h[i - 1]) : Ents(d, h[i - 1])[p].kind = "a" => Ents(d, h[i - 1])[p].ref # a
      BY <2>2 DEF Sound, Once
    <2>4. Follows(d, h[i - 1], path[i], h[i], {})
      BY <1>1
    <2> HIDE DEF a
    <2> QED  BY <2>3, <2>4 DEF Follows
  <1> QED  BY <1>1, <1>2 DEF Reaches

\* One more table of an array, for a header.
LEMMA AppendedTable ==
    ASSUME NEW d, Sound(d), NEW a \in DOMAIN d.arrs, d.arrs[a].kind = "t",
           \A b \in DOMAIN d.arrs \ {a} : Filled(d, b),
           NEW path \in Seq(Word), NEW m \in Nat, m + 1 = Len(path), NEW u \in DOMAIN d.tabs,
           Reaches(d, path, m, u, {a}), Keyed(d, u, path[m + 1], "a", a)
    PROVE  LET t == create_table_in_array(d, a)
               n == Len(t.tabs)
           IN Selected(Headed(Defined(t, n), n, path), path)
  <1> DEFINE t == create_table_in_array(d, a)
             n == Len(d.tabs) + 1
             x == [kind |-> "t", ref |-> n]
  <1>1. /\ Well(t) /\ Later(d, t, {a}) /\ Len(t.tabs) = n /\ n \in DOMAIN t.tabs /\ t.tabs[n] = NewTable
        /\ Len(t.arrs) = Len(d.arrs) /\ Items(t, a) = Append(Items(d, a), [kind |-> "t", ref |-> n])
        /\ t.arrs[a].kind = KindWith(d.arrs[a], "t")
    BY TableInArray
  <1> HIDE DEF t
  <1>2. d \in Doc /\ t \in Doc
    BY <1>1, WellIsDoc DEF Sound
  <1>3. n \in Nat /\ u < n /\ u \in Nat /\ a \in DOMAIN t.arrs
    BY <1>1, <1>2, Parts
  <1>4. t.arrs[a].kind = "t"
    BY <1>1 DEF KindWith
  <1>5. Items(t, a) # <<>> /\ Last(Items(t, a)).ref = n
    <2>1. Items(d, a) \in Seq(Item) /\ x \in Item /\ x.ref = n
      BY <1>2, <1>3, Parts DEF Items, Item, Kinds
    <2> HIDE DEF x
    <2>2. Items(t, a) = Append(Items(d, a), x)
      BY <1>1 DEF x
    <2> QED  BY <2>1, <2>2 DEF Last
  <1> HIDE DEF n
  <1>6. Follows(t, u, path[m + 1], n, {})
    <2>1. PICK q \in DOMAIN Ents(d, u) : Ents(d, u)[q] = [key |-> path[m + 1], kind |-> "a", ref |-> a]
      BY DEF Keyed
    <2>2. q \in DOMAIN Ents(t, u) /\ Ents(t, u)[q] = Ents(d, u)[q]
      BY <1>1 DEF Later
    <2> QED  BY <1>3, <1>4, <1>5, <2>1, <2>2 DEF Follows
  <1>7. Reaches(t, path, m, u, {})
    <2>1. {} \cap DOMAIN d.arrs \subseteq {a} /\ {a} \subseteq {a}
      OBVIOUS
    <2> QED  BY <1>1, <1>2, <2>1, StillReaches
  <1>8. Reaches(t, path, Len(path), n, {})
    BY <1>1, <1>3, <1>6, <1>7, ReachesOneMore
  <1>9. t.tabs[n].defs = 0 /\ t.tabs[n].implicit = FALSE
    BY <1>1, NewOnes, Zenon
  <1>10. Selected(Headed(Defined(t, n), n, path), path)
    BY <1>1, <1>8, <1>9, DefinedAndHeaded
  <1> QED  BY <1>1, <1>10 DEF t

\* [[x.y.z]]: the error, or the tree with one more table of the array.
LEMMA SelectedArray ==
    ASSUME NEW d, Well(d), NEW path \in Seq(Word), path # <<>>
    PROVE  LET e == SelectArray(d, path) IN e = NoDoc \/ Selected(e, path)
  <1> DEFINE f == Front(path)
             m == Len(path) - 1
             key == Last(path)
             w == walk_tabpath(d, f)
             z == {x \in Entries(w.doc, w.cur, key) : x.kind = "a"}
             c == IF z # {} THEN [doc |-> w.doc, arr |-> (CHOOSE x \in z : TRUE).ref]
                  ELSE create_keyarray(w.doc, w.cur, key, "t")
             t == create_table_in_array(c.doc, c.arr)
             e == Headed(Defined(t, Len(t.tabs)), Len(t.tabs), path)
  <1>1. /\ f \in Seq(Word) /\ Len(f) = m /\ m \in Nat /\ m + 1 = Len(path)
        /\ \A i \in 1 .. m : f[i] = path[i]
        /\ key = path[m + 1] /\ key \in Word
    BY PathParts
  <1>2. SelectArray(d, path) = IF w.cur = 0 THEN NoDoc
                               ELSE IF c.arr = 0 THEN NoDoc
                               ELSE IF c.doc.arrs[c.arr].kind # "t" THEN NoDoc
                               ELSE e
    BY DEF SelectArray, Headed
  <1>3. w \in Walks(d) /\ (w.cur # 0 => On(d, w) /\ Reaches(w.doc, f, m, w.cur, {}))
    BY <1>1, WalkedPath
  <1> HIDE DEF w, m, f, key
  <1> SUFFICES ASSUME w.cur # 0, c.arr # 0, c.doc.arrs[c.arr].kind = "t" PROVE Selected(e, path)
    BY <1>2
  <1>4. Well(w.doc) /\ w.cur \in DOMAIN w.doc.tabs
    BY <1>3 DEF On
  <1>5. w.doc \in Doc /\ Sound(w.doc)
    BY <1>4, WellIsDoc
  <1>6. Reaches(w.doc, path, m, w.cur, {})
    BY <1>1, <1>3, SamePath
  <1>7. /\ Sound(c.doc) /\ c.arr \in DOMAIN c.doc.arrs /\ w.cur \in DOMAIN c.doc.tabs
        /\ \A b \in DOMAIN c.doc.arrs \ {c.arr} : Filled(c.doc, b)
        /\ Reaches(c.doc, path, m, w.cur, {c.arr}) /\ Keyed(c.doc, w.cur, key, "a", c.arr)
    <2>1. CASE z # {}
      <3>1. PICK x \in z : c = [doc |-> w.doc, arr |-> x.ref]
        BY <2>1
      <3>2. x.kind = "a" /\ x.key = key /\ \E q \in DOMAIN Ents(w.doc, w.cur) : x = Ents(w.doc, w.cur)[q]
        BY <3>1 DEF Entries, Range, Ents
      <3>3. PICK q \in DOMAIN Ents(w.doc, w.cur) : x = Ents(w.doc, w.cur)[q]
        BY <3>2
      <3>4. c.doc = w.doc /\ c.arr = x.ref
        BY <3>1
      <3> HIDE DEF c
      <3>5. x \in Ent
        BY <1>4, <1>5, <3>3, Parts DEF Ents
      <3>6. x = [key |-> key, kind |-> "a", ref |-> x.ref]
        BY <3>2, <3>5 DEF Ent
      <3>7. x.ref \in DOMAIN w.doc.arrs
        BY <1>4, <1>5, <3>2, <3>3 DEF Sound, TabOK, Leads
      <3>8. Reaches(w.doc, path, m, w.cur, {x.ref})
        BY <1>1, <1>4, <1>5, <1>6, <3>2, <3>3, Avoids
      <3>9. Keyed(w.doc, w.cur, key, "a", x.ref)
        BY <3>3, <3>6 DEF Keyed
      <3>10. \A b \in DOMAIN w.doc.arrs \ {x.ref} : Filled(w.doc, b)
        BY <1>4 DEF Well
      <3> QED  BY <1>4, <1>5, <3>4, <3>7, <3>8, <3>9, <3>10
    <2>2. CASE z = {}
      <3> DEFINE n == Len(w.doc.arrs) + 1
      <3>1. c = create_keyarray(w.doc, w.cur, key, "t")
        BY <2>2
      <3> HIDE DEF c
      <3>2. \/ c.doc = NoDoc /\ c.arr = 0
            \/ /\ Sound(c.doc) /\ Later(w.doc, c.doc, {}) /\ Len(c.doc.tabs) = Len(w.doc.tabs)
               /\ c.arr = n /\ n \in DOMAIN c.doc.arrs
               /\ \A b \in DOMAIN c.doc.arrs \ {n} : Filled(c.doc, b)
               /\ Keyed(c.doc, w.cur, key, "a", n)
        BY <1>1, <1>4, <3>1, MadeKeyarray
      <3>3. /\ Sound(c.doc) /\ Later(w.doc, c.doc, {}) /\ Len(c.doc.tabs) = Len(w.doc.tabs)
            /\ c.arr = n /\ n \in DOMAIN c.doc.arrs
            /\ \A b \in DOMAIN c.doc.arrs \ {n} : Filled(c.doc, b)
            /\ Keyed(c.doc, w.cur, key, "a", n)
        BY <3>2
      <3>4. c.doc \in Doc
        BY <3>3 DEF Sound
      <3>5. w.cur \in DOMAIN c.doc.tabs /\ n \notin DOMAIN w.doc.arrs
        BY <1>4, <1>5, <3>3, <3>4, Parts
      <3> HIDE DEF n
      <3>6. Reaches(c.doc, path, m, w.cur, {n})
        <4>1. {n} \cap DOMAIN w.doc.arrs \subseteq {} /\ {} \subseteq {}
          BY <3>5
        <4> QED  BY <1>1, <1>5, <1>6, <3>3, <3>4, <4>1, StillReaches
      <3> QED  BY <3>3, <3>5, <3>6
    <2> QED  BY <2>1, <2>2
  <1> HIDE DEF c
  <1>8. Keyed(c.doc, w.cur, path[m + 1], "a", c.arr)
    BY <1>1, <1>7
  <1> QED  BY <1>1, <1>7, <1>8, AppendedTable

-----------------------------------------------------------------------------
(* What a reader finds under a path: Found, which is a fold too. *)

\* One key of Found.
Goes(d, t, key) ==
    LET e == check_key(d, t, key)
    IN IF t \notin DOMAIN d.tabs THEN 0 ELSE
       CASE e.kind = "t" -> e.ref
         [] e.kind = "a" /\ d.arrs[e.ref].kind = "t" -> Last(d.arrs[e.ref].items).ref
         [] OTHER -> 0

\* It goes where the entry leads, if there is one.
LEMMA GoesOn ==
    ASSUME NEW d, Well(d)
    PROVE  /\ \A t \in Nat, key \in Word : Goes(d, t, key) \in Nat
           /\ \A t \in DOMAIN d.tabs, key \in Word : \A u : Follows(d, t, key, u, {}) => Goes(d, t, key) = u
  <1>0. d \in Doc /\ Sound(d)
    BY WellIsDoc
  <1>1. ASSUME NEW t \in Nat, NEW key \in Word PROVE Goes(d, t, key) \in Nat
    <2> DEFINE e == check_key(d, t, key)
    <2>1. CASE t \notin DOMAIN d.tabs
      BY <2>1 DEF Goes
    <2>2. CASE t \in DOMAIN d.tabs /\ e.kind = "t"
      <3>1. PICK q \in DOMAIN Ents(d, t) : Ents(d, t)[q] = e
        BY <1>0, <2>2, CheckKey DEF Ents
      <3>2. e.ref \in DOMAIN d.tabs
        BY <1>0, <2>2, <3>1 DEF Sound, TabOK, Leads
      <3>3. e.ref \in Nat
        <4> HIDE DEF e
        <4> QED  BY <1>0, <3>2, Parts
      <3> QED  BY <2>2, <3>3 DEF Goes
    <2>3. CASE t \in DOMAIN d.tabs /\ e.kind = "a" /\ d.arrs[e.ref].kind = "t"
      <3>1. PICK q \in DOMAIN Ents(d, t) : Ents(d, t)[q] = e
        BY <1>0, <2>3, CheckKey DEF Ents
      <3>2. Goes(d, t, key) = LastTable(d, e.ref)
        BY <2>3 DEF Goes, LastTable
      <3> HIDE DEF e
      <3>3. LastTable(d, e.ref) \in DOMAIN d.tabs
        BY <2>3, <3>1, TheLastTable
      <3> QED  BY <1>0, <3>2, <3>3, Parts
    <2>4. CASE t \in DOMAIN d.tabs /\ e.kind # "t" /\ ~(e.kind = "a" /\ d.arrs[e.ref].kind = "t")
      BY <2>4 DEF Goes
    <2> QED  BY <2>1, <2>2, <2>3, <2>4
  <1>2. ASSUME NEW t \in DOMAIN d.tabs, NEW key \in Word, NEW u, Follows(d, t, key, u, {})
        PROVE  Goes(d, t, key) = u
    <2>1. PICK q \in DOMAIN Ents(d, t) :
            LET x == Ents(d, t)[q]
            IN /\ x.key = key
               /\ \/ x.kind = "t" /\ x.ref = u
                  \/ /\ x.kind = "a" /\ x.ref \in DOMAIN d.arrs \ {} /\ d.arrs[x.ref].kind = "t"
                     /\ Items(d, x.ref) # <<>> /\ Last(Items(d, x.ref)).ref = u
      BY <1>2 DEF Follows
    <2>2. check_key(d, t, key) = Ents(d, t)[q]
      BY <1>0, <2>1, TheEntry
    <2> QED  BY <2>1, <2>2 DEF Goes, Items
  <1> QED  BY <1>1, <1>2

\* And what a reader finds is Goes, key after key.
LEMMA FindIterates ==
    ASSUME NEW d, Well(d), NEW path \in Seq(Word)
    PROVE  \E h \in [0 .. Len(path) -> Nat] :
              /\ h[0] = Root /\ h[Len(path)] = Found(d, path)
              /\ \A m \in 1 .. Len(path) : h[m] = Goes(d, h[m - 1], path[m])
  <1> DEFINE n == Len(path)
             D == Nat
             base == Root
             F == [x \in D \X (1 .. n) |-> Goes(d, x[1], path[x[2]])]
             Iter(g) == g = [S \in SUBSET DOMAIN path |->
                             IF S = {} THEN base ELSE Goes(d, g[S \ {Max(S)}], path[Max(S)])]
  <1>0. d \in Doc /\ Sound(d)
    BY WellIsDoc
  <1>1. n \in Nat /\ DOMAIN path = 1 .. n /\ \A m \in 1 .. n : path[m] \in Word
    OBVIOUS
  <1>2. base \in D
    BY DEF Root
  <1>3. \A x \in D, m \in 1 .. n : Goes(d, x, path[m]) \in D
    BY <1>1, GoesOn
  <1> HIDE DEF base, D, n
  <1>4. F \in [D \X (1 .. n) -> D] /\ \A x \in D, m \in 1 .. n : F[<<x, m>>] = Goes(d, x, path[m])
    BY <1>3
  <1> HIDE DEF F
  <1>5. PICK g \in [SUBSET (1 .. n) -> D] :
          \A S \in SUBSET (1 .. n) : g[S] = IF S = {} THEN base ELSE F[<<g[S \ {Max(S)}], Max(S)>>]
    <2>1. n \in Nat
      BY <1>1
    <2>2. \E g \in [SUBSET (1 .. n) -> D] : FoldsBy(g, n, base, F)
      BY <2>1, <1>2, <1>4, FoldExists
    <2> QED  BY <2>2 DEF FoldsBy
  <1>6. Iter(g)
    <2>1. ASSUME NEW S \in SUBSET (1 .. n)
          PROVE  g[S] = IF S = {} THEN base ELSE Goes(d, g[S \ {Max(S)}], path[Max(S)])
      <3>1. CASE S = {}
        BY <3>1, <1>5
      <3>2. CASE S # {}
        <4>1. Max(S) \in 1 .. n
          BY <3>2, <1>1, MaxOfInterval
        <4>2. S \ {Max(S)} \in SUBSET (1 .. n) /\ g[S \ {Max(S)}] \in D
          BY <1>5
        <4> QED  BY <3>2, <4>1, <4>2, <1>4, <1>5
      <3> QED  BY <3>1, <3>2
    <2>2. g = [S \in SUBSET (1 .. n) |-> g[S]]
      BY <1>5
    <2> QED  BY <2>1, <2>2, <1>1
  <1>7. PICK w : Iter(w) /\ Found(d, path) = w[1 .. n]
    <2>1. Iter(CHOOSE w : Iter(w))
      BY <1>6
    <2>2. Found(d, path) = (CHOOSE w : Iter(w))[DOMAIN path]
      BY DEF Found, Goes, FoldLeft, MapThenFoldSet, base
    <2> QED  BY <2>1, <2>2, <1>1
  <1>8. w[{}] = base /\ \A S \in SUBSET (1 .. n) : S # {} => w[S] = Goes(d, w[S \ {Max(S)}], path[Max(S)])
    BY <1>7, <1>1
  <1> HIDE DEF Iter
  <1>9. ASSUME NEW k \in 1 .. n PROVE w[1 .. k] = Goes(d, w[1 .. k - 1], path[k])
    <2>1. k - 1 \in Nat /\ (k - 1) + 1 = k
      BY <1>1
    <2>2. Max(1 .. k) = k /\ (1 .. k) \ {k} = 1 .. k - 1
      <3> DEFINE p == k - 1
      <3>1. p \in Nat /\ p + 1 = k
        BY <2>1
      <3> HIDE DEF p
      <3>2. Max(1 .. p + 1) = p + 1 /\ (1 .. p + 1) \ {p + 1} = 1 .. p
        BY <3>1, MaxOf
      <3> QED  BY <3>1, <3>2 DEF p
    <2>3. 1 .. k \in SUBSET (1 .. n) /\ 1 .. k # {}
      <3>1. k \in 1 .. k
        BY <2>1
      <3>2. \A m \in 1 .. k : m \in 1 .. n
        BY <1>1
      <3> QED  BY <3>1, <3>2
    <2> QED  BY <1>8, <2>2, <2>3
  <1> DEFINE P(k) == k <= n => w[1 .. k] \in D
             Good == {k \in Nat : P(k)}
  <1>10. P(0)
    <2>1. 1 .. 0 = {}
      OBVIOUS
    <2> QED  BY <2>1, <1>2, <1>8
  <1>11. ASSUME NEW k \in Nat, P(k) PROVE P(k + 1)
    <2> SUFFICES ASSUME k + 1 <= n PROVE w[1 .. k + 1] \in D
      OBVIOUS
    <2>1. k + 1 \in 1 .. n /\ k + 1 - 1 = k /\ k <= n
      BY <1>1
    <2>2. w[1 .. k + 1] = Goes(d, w[1 .. k], path[k + 1])
      BY <1>9, <2>1
    <2> QED  BY <1>3, <1>11, <2>1, <2>2
  <1> HIDE DEF P
  <1>12. Good = Nat
    <2>1. Good \subseteq Nat /\ 0 \in Good /\ \A m \in Good : m + 1 \in Good
      BY <1>10, <1>11
    <2> HIDE DEF Good
    <2> QED  BY <2>1, Inductive
  <1> DEFINE h == [k \in 0 .. n |-> w[1 .. k]]
  <1>13. h \in [0 .. n -> D]
    <2>1. \A k \in 0 .. n : k \in Nat /\ k <= n
      BY <1>1
    <2>2. \A k \in 0 .. n : w[1 .. k] \in D
      BY <1>12, <2>1 DEF P
    <2> QED  BY <2>2
  <1>14. h[0] = base /\ h[n] = Found(d, path)
    <2>1. 0 \in 0 .. n /\ n \in 0 .. n /\ 1 .. 0 = {}
      BY <1>1
    <2> QED  BY <1>7, <1>8, <2>1
  <1>15. \A m \in 1 .. n : h[m] = Goes(d, h[m - 1], path[m])
    <2>1. \A m \in 1 .. n : m \in 0 .. n /\ m - 1 \in 0 .. n
      BY <1>1
    <2> QED  BY <1>9, <2>1
  <1> HIDE DEF h
  <1> QED  BY <1>13, <1>14, <1>15 DEF n, D, base

\* A reader finds the table that the path leads to.
LEMMA FoundWhereReached ==
    ASSUME NEW d, Well(d), NEW path \in Seq(Word), NEW u, Reaches(d, path, Len(path), u, {})
    PROVE  Found(d, path) = u
  <1> DEFINE n == Len(path)
  <1>0. n \in Nat /\ \A m \in 1 .. n : path[m] \in Word
    OBVIOUS
  <1>1. PICK g \in [0 .. n -> Nat] :
              /\ g[0] = Root /\ g[n] = Found(d, path)
              /\ \A m \in 1 .. n : g[m] = Goes(d, g[m - 1], path[m])
    BY FindIterates
  <1>2. PICK h \in [0 .. n -> Nat] :
          /\ h[0] = Root /\ h[n] = u
          /\ \A m \in 0 .. n : h[m] \in DOMAIN d.tabs
          /\ \A m \in 1 .. n : Follows(d, h[m - 1], path[m], h[m], {})
    BY DEF Reaches
  <1> HIDE DEF n
  <1> DEFINE P(m) == m <= n => g[m] = h[m]
             Good == {m \in Nat : P(m)}
  <1>3. P(0)
    BY <1>1, <1>2
  <1>4. ASSUME NEW m \in Nat, P(m) PROVE P(m + 1)
    <2> SUFFICES ASSUME m + 1 <= n PROVE g[m + 1] = h[m + 1]
      OBVIOUS
    <2>1. m + 1 \in 1 .. n /\ m + 1 - 1 = m /\ m \in 0 .. n /\ m <= n
      BY <1>0
    <2>2. g[m + 1] = Goes(d, g[m], path[m + 1]) /\ g[m] = h[m]
      BY <1>1, <1>4, <2>1
    <2>3. Follows(d, h[m], path[m + 1], h[m + 1], {}) /\ h[m] \in DOMAIN d.tabs
      BY <1>2, <2>1
    <2>4. path[m + 1] \in Word
      BY <1>0, <2>1
    <2> QED  BY <2>2, <2>3, <2>4, GoesOn
  <1> HIDE DEF P
  <1>5. Good = Nat
    <2>1. Good \subseteq Nat /\ 0 \in Good /\ \A m \in Good : m + 1 \in Good
      BY <1>3, <1>4
    <2> HIDE DEF Good
    <2> QED  BY <2>1, Inductive
  <1>6. P(n) /\ n <= n
    BY <1>0, <1>5
  <1> QED  BY <1>1, <1>2, <1>6 DEF P

-----------------------------------------------------------------------------
(* The calls in progress. *)

\* The places of the calls, by what the call is about.
Places == {"doc", "line", "keyval", "dotted", "value", "array", "arrayNext", "inline", "inlineNext",
           "open", "path", "pathNext", "close", "header"}
OfTable  == {"keyval", "dotted", "value", "inline", "inlineNext"}
OfArray  == {"array", "arrayNext"}
OfHeader == {"open", "path", "pathNext", "close", "header"}
Frames == [at : Places, id : Nat, key : Word, path : Seq(Word), llb : BOOLEAN]

\* A call has a table or an array that there is.
FrameOK(d, f) ==
    /\ f.at \in OfTable => f.id \in DOMAIN d.tabs
    /\ f.at \in OfArray => f.id \in DOMAIN d.arrs
    /\ f.at = "pathNext" => f.path # <<>>

\* toml_parse is the outermost call, parse_select is called by it alone, and an
\* array waits for an element in the innermost call only.
StackOK(d, s) ==
    /\ s \in Seq(Frames)
    /\ \A i \in DOMAIN s : /\ FrameOK(d, s[i])
                           /\ s[i].at = "doc" <=> i = Len(s)
                           /\ s[i].at \in OfHeader => i + 1 = Len(s)
                           /\ s[i].at = "array" => i = 1

\* Calls that one more can be made from.
Under(d, s) == StackOK(d, s) /\ s # <<>> /\ \A i \in DOMAIN s : s[i].at # "array"

\* The arrays that calls in progress are in.
Open(s) == {s[i].id : i \in {j \in DOMAIN s : s[j].at \in OfArray}}

\* The frames that are made are frames.
LEMMA FramesAre ==
    /\ \A p \in Places, n \in Nat : /\ Frame(p, n) \in Frames /\ Frame(p, n).at = p /\ Frame(p, n).id = n
                                    /\ Frame(p, n).path = <<>>
    /\ \A p \in Places, n \in Nat, w \in Word :
          KeyFrame(p, n, w) \in Frames /\ KeyFrame(p, n, w).at = p /\ KeyFrame(p, n, w).id = n
    /\ \A f \in Frames, p \in Places : [f EXCEPT !.at = p] \in Frames /\ [f EXCEPT !.at = p].at = p
                                       /\ [f EXCEPT !.at = p].path = f.path
    /\ \A f \in Frames, b \in BOOLEAN : [f EXCEPT !.llb = b] \in Frames /\ [f EXCEPT !.llb = b].at = f.at
    /\ \A f \in Frames, w \in Word :
          LET g == [f EXCEPT !.at = "pathNext", !.path = Append(@, w)]
          IN g \in Frames /\ g.at = "pathNext" /\ g.path # <<>>
  <1>0. <<>> \in Seq(Word) /\ "" \in Word
    BY DEF Word
  <1>1. ASSUME NEW p \in Places, NEW n \in Nat
        PROVE  Frame(p, n) \in Frames /\ Frame(p, n).at = p /\ Frame(p, n).id = n /\ Frame(p, n).path = <<>>
    BY <1>0, Zenon DEF Frame, Frames
  <1>2. ASSUME NEW p \in Places, NEW n \in Nat, NEW w \in Word
        PROVE  KeyFrame(p, n, w) \in Frames /\ KeyFrame(p, n, w).at = p /\ KeyFrame(p, n, w).id = n
    <2>1. KeyFrame(p, n, w) = [Frame(p, n) EXCEPT !.key = w]
      BY DEF KeyFrame
    <2> DEFINE f == Frame(p, n)
    <2>2. f \in Frames /\ f.at = p /\ f.id = n
      BY <1>1
    <2> HIDE DEF f
    <2>3. [f EXCEPT !.key = w] \in Frames /\ [f EXCEPT !.key = w].at = p /\ [f EXCEPT !.key = w].id = n
      BY <2>2, Zenon DEF Frames
    <2> QED  BY <2>1, <2>3 DEF f
  <1>3. ASSUME NEW f \in Frames, NEW p \in Places
        PROVE  [f EXCEPT !.at = p] \in Frames /\ [f EXCEPT !.at = p].at = p /\ [f EXCEPT !.at = p].path = f.path
    BY Zenon DEF Frames
  <1>4. ASSUME NEW f \in Frames, NEW b \in BOOLEAN
        PROVE  [f EXCEPT !.llb = b] \in Frames /\ [f EXCEPT !.llb = b].at = f.at
    BY Zenon DEF Frames
  <1>5. ASSUME NEW f \in Frames, NEW w \in Word
        PROVE  LET g == [f EXCEPT !.at = "pathNext", !.path = Append(@, w)]
               IN g \in Frames /\ g.at = "pathNext" /\ g.path # <<>>
    <2>1. f.path \in Seq(Word)
      BY DEF Frames
    <2> DEFINE q == Append(f.path, w)
    <2>2. q \in Seq(Word) /\ q # <<>>
      BY <2>1
    <2> HIDE DEF q
    <2>3. "pathNext" \in Places
      BY DEF Places
    <2> DEFINE g == [f EXCEPT !.at = "pathNext", !.path = q]
    <2>4. g \in Frames /\ g.at = "pathNext" /\ g.path = q
      BY <2>2, <2>3, Zenon DEF Frames
    <2>5. g \in Frames /\ g.at = "pathNext" /\ g.path # <<>>
      BY <2>2, <2>4
    <2> QED  BY <2>5 DEF q
  <1> QED  BY <1>1, <1>2, <1>3, <1>4, <1>5

\* The first of these facts, for one frame.
LEMMA PlainFrame ==
    ASSUME NEW p \in Places, NEW n \in Nat
    PROVE  Frame(p, n) \in Frames /\ Frame(p, n).at = p /\ Frame(p, n).id = n
  BY FramesAre

\* The second, for one frame.
LEMMA KeyedFrame ==
    ASSUME NEW p \in Places, NEW n \in Nat, NEW w \in Word
    PROVE  KeyFrame(p, n, w) \in Frames /\ KeyFrame(p, n, w).at = p /\ KeyFrame(p, n, w).id = n
  BY FramesAre

\* The call on top returns.
LEMMA Popped ==
    ASSUME NEW d, NEW s, StackOK(d, s), s # <<>>, Head(s).at # "doc"
    PROVE  /\ Under(d, Tail(s)) /\ Open(Tail(s)) \subseteq Open(s)
           /\ Head(s).at \in OfHeader => Len(Tail(s)) = 1 /\ Open(Tail(s)) = {}
           /\ Head(s).at \in OfArray => Head(s).id \in Open(s)
  <1> DEFINE r == Tail(s)
  <1>1. s \in Seq(Frames) /\ Len(s) \in Nat /\ Len(s) # 0 /\ DOMAIN s = 1 .. Len(s) /\ Head(s) = s[1] /\ 1 \in DOMAIN s
    BY DEF StackOK
  <1>2. 1 # Len(s)
    BY <1>1 DEF StackOK
  <1>3. /\ r \in Seq(Frames) /\ Len(r) = Len(s) - 1 /\ DOMAIN r = 1 .. Len(s) - 1
        /\ \A i \in 1 .. Len(s) - 1 : r[i] = s[i + 1]
    BY <1>1
  <1> HIDE DEF r
  <1>4. \A i \in DOMAIN r : i + 1 \in DOMAIN s /\ r[i] = s[i + 1] /\ i \in Nat /\ i # 0
    BY <1>1, <1>3
  <1>5. ASSUME NEW i \in DOMAIN r
        PROVE  /\ FrameOK(d, r[i])
               /\ r[i].at = "doc" <=> i = Len(r)
               /\ r[i].at \in OfHeader => i + 1 = Len(r)
               /\ r[i].at # "array"
    <2>1. /\ FrameOK(d, s[i + 1])
          /\ s[i + 1].at = "doc" <=> i + 1 = Len(s)
          /\ s[i + 1].at \in OfHeader => i + 1 + 1 = Len(s)
          /\ s[i + 1].at = "array" => i + 1 = 1
      BY <1>4 DEF StackOK
    <2>2. (i + 1 = Len(s) <=> i = Len(r)) /\ (i + 1 + 1 = Len(s) <=> i + 1 = Len(r)) /\ i + 1 # 1
      BY <1>1, <1>3, <1>4
    <2> QED  BY <1>4, <2>1, <2>2
  <1>6. r # <<>>
    BY <1>1, <1>2, <1>3
  <1>7. Open(r) \subseteq Open(s)
    BY <1>4 DEF Open
  <1>8. ASSUME Head(s).at \in OfHeader PROVE Len(r) = 1 /\ Open(r) = {}
    <2>1. 1 + 1 = Len(s)
      BY <1>1, <1>8 DEF StackOK
    <2>2. Len(r) = 1 /\ DOMAIN r = {1}
      <3>1. Len(s) - 1 = 1 /\ 1 .. 1 = {1}
        BY <2>1
      <3> QED  BY <1>3, <3>1
    <2>3. r[1].at = "doc"
      BY <1>5, <2>2
    <2> QED  BY <2>2, <2>3 DEF Open, OfArray
  <1>9. Head(s).at \in OfArray => Head(s).id \in Open(s)
    BY <1>1 DEF Open
  <1> QED  BY <1>3, <1>5, <1>6, <1>7, <1>8, <1>9 DEF Under, StackOK, r

\* A call is made.
LEMMA Pushed ==
    ASSUME NEW d, NEW s, Under(d, s), NEW f \in Frames, FrameOK(d, f), f.at # "doc",
           f.at \in OfHeader => Len(s) = 1
    PROVE  LET r == <<f>> \o s
           IN /\ StackOK(d, r) /\ r # <<>> /\ Head(r) = f
              /\ f.at # "array" => Under(d, r)
              /\ Open(r) \subseteq Open(s) \cup (IF f.at \in OfArray THEN {f.id} ELSE {})
  <1> DEFINE r == <<f>> \o s
  <1>1. s \in Seq(Frames) /\ Len(s) \in Nat /\ Len(s) # 0 /\ DOMAIN s = 1 .. Len(s)
    BY DEF Under, StackOK
  <1>2. /\ r \in Seq(Frames) /\ Len(r) = Len(s) + 1 /\ DOMAIN r = 1 .. Len(s) + 1
        /\ r[1] = f /\ \A i \in 1 .. Len(s) : r[i + 1] = s[i]
    BY <1>1
  <1> HIDE DEF r
  <1>3. \A i \in DOMAIN r : i = 1 \/ (i - 1 \in DOMAIN s /\ i - 1 + 1 = i /\ i # 1)
    BY <1>1, <1>2
  <1>4. \A i \in DOMAIN r : i # 1 => r[i] = s[i - 1]
    BY <1>1, <1>2, <1>3
  <1>5. ASSUME NEW i \in DOMAIN r
        PROVE  /\ FrameOK(d, r[i])
               /\ r[i].at = "doc" <=> i = Len(r)
               /\ r[i].at \in OfHeader => i + 1 = Len(r)
               /\ r[i].at = "array" => i = 1
    <2>1. CASE i = 1
      BY <1>1, <1>2, <2>1
    <2>2. CASE i # 1
      <3>1. /\ FrameOK(d, s[i - 1])
            /\ s[i - 1].at = "doc" <=> i - 1 = Len(s)
            /\ s[i - 1].at \in OfHeader => i - 1 + 1 = Len(s)
            /\ s[i - 1].at # "array"
        BY <1>3, <2>2 DEF Under, StackOK
      <3>2. (i - 1 = Len(s) <=> i = Len(r)) /\ (i - 1 + 1 = Len(s) <=> i + 1 = Len(r))
        BY <1>1, <1>2, <1>3, <2>2
      <3> QED  BY <1>4, <2>2, <3>1, <3>2
    <2> QED  BY <2>1, <2>2
  <1>6. r # <<>> /\ Head(r) = f
    BY <1>1, <1>2
  <1>7. StackOK(d, r)
    BY <1>2, <1>5 DEF StackOK
  <1>8. f.at # "array" => Under(d, r)
    <2>1. \A i \in DOMAIN r : i # 1 => r[i].at # "array"
      BY <1>5
    <2> QED  BY <1>2, <1>6, <1>7, <2>1 DEF Under
  <1>9. Open(r) \subseteq Open(s) \cup (IF f.at \in OfArray THEN {f.id} ELSE {})
    BY <1>2, <1>3, <1>4 DEF Open
  <1> QED  BY <1>6, <1>7, <1>8, <1>9 DEF r

\* The calls stay possible while the tree grows.
LEMMA StillOK ==
    ASSUME NEW d, NEW e, d \in Doc, e \in Doc, NEW B, Later(d, e, B), NEW s
    PROVE  (StackOK(d, s) => StackOK(e, s)) /\ (Under(d, s) => Under(e, s))
  <1>1. DOMAIN d.tabs \subseteq DOMAIN e.tabs /\ DOMAIN d.arrs \subseteq DOMAIN e.arrs
    BY Parts DEF Later
  <1>2. \A f : FrameOK(d, f) => FrameOK(e, f)
    BY <1>1 DEF FrameOK
  <1> QED  BY <1>2 DEF StackOK, Under

-----------------------------------------------------------------------------
(* The invariant, and what a step has to show for it. *)

\* The tree is sound, the calls are about what is in it, and the current table is
\* where the last header's path leads, through no array a call may still add to.
Good(d, s) == Well(d) /\ StackOK(d, s) /\ Reaches(d, d.head, Len(d.head), d.cur, Open(s))

\* The invariant, of a token, a tree and calls: the error has no calls, any
\* other tree is good, and no element of an array is "m".
Ok(t, d, s) ==
    /\ TokOK(t)
    /\ d = NoDoc => s = <<>>
    /\ d # NoDoc => Good(d, s)
    /\ s # <<>> /\ Head(s).at = "array" => t.text # "m"

TreeInv == Ok(tok, doc, stack)

\* What a step makes of the tree, and calls it may leave behind.
Grows(e)   == Well(e) /\ \E B \in SUBSET Open(stack) : Later(doc, e, B)
Fit(e, r)  == StackOK(e, r) /\ Open(r) \cap DOMAIN doc.arrs \subseteq Open(stack)
Room(e, r) == Under(e, r) /\ Open(r) \cap DOMAIN doc.arrs \subseteq Open(stack)

\* goto fail: no tree, no calls.
LEMMA FailsOK == ASSUME fail PROVE TreeInv'
  <1>1. stack' = <<>> /\ doc' = NoDoc /\ tok' = Eof
    BY DEF fail
  <1>2. TokOK(Eof)
    BY DEF TokOK, Eof, Token, Word
  <1> QED  BY <1>1, <1>2 DEF TreeInv, Ok

\* A step that takes the next token in a good tree keeps the invariant.
LEMMA Continues ==
    ASSUME TokOK(tok), NEW b \in BOOLEAN, NEW s, NEW d, Continue(b, s, d), d = NoDoc \/ Good(d, s),
           s # <<>> /\ Head(s).at = "array" => b = FALSE
    PROVE  TreeInv'
  <1>1. CASE fail
    BY <1>1, FailsOK
  <1>2. CASE d # NoDoc /\ tok' \in next_token(b) /\ stack' = s /\ doc' = d
    <2>1. TokOK(tok') /\ (b = FALSE => (tok').text # "m")
      BY <1>2, NextToken
    <2> QED  BY <1>2, <2>1 DEF TreeInv, Ok
  <1> QED  BY <1>1, <1>2 DEF Continue

\* And it does when the tree grows and the calls fit it.
LEMMA GoesOnTo ==
    ASSUME TreeInv, stack # <<>>, NEW b \in BOOLEAN, NEW r, NEW e, Continue(b, r, e),
           e = NoDoc \/ (Grows(e) /\ Fit(e, r)), r # <<>> /\ Head(r).at = "array" => b = FALSE
    PROVE  TreeInv'
  <1>1. TokOK(tok) /\ doc # NoDoc /\ Good(doc, stack)
    BY DEF TreeInv, Ok
  <1>2. CASE e = NoDoc
    BY <1>1, <1>2, Continues
  <1>3. CASE Grows(e) /\ Fit(e, r)
    <2>1. PICK B \in SUBSET Open(stack) : Later(doc, e, B)
      BY <1>3 DEF Grows
    <2>2. doc \in Doc /\ e \in Doc /\ Well(e)
      BY <1>1, <1>3, WellIsDoc DEF Grows, Good
    <2>3. e.head = doc.head /\ e.cur = doc.cur
      BY <2>1 DEF Later
    <2>4. Len(doc.head) \in Nat
      BY <2>2, Parts
    <2>5. Reaches(e, doc.head, Len(doc.head), doc.cur, Open(r))
      <3>1. B \subseteq Open(stack) /\ Open(r) \cap DOMAIN doc.arrs \subseteq Open(stack)
        BY <1>3 DEF Fit
      <3>2. Reaches(doc, doc.head, Len(doc.head), doc.cur, Open(stack))
        BY <1>1 DEF Good
      <3> QED  BY <2>1, <2>2, <2>4, <3>1, <3>2, StillReaches
    <2>6. Good(e, r)
      BY <1>3, <2>2, <2>3, <2>5 DEF Good, Fit
    <2> QED  BY <1>1, <2>6, Continues
  <1> QED  BY <1>2, <1>3

\* The tree as it is.
LEMMA SameGrows ==
    ASSUME TreeInv, stack # <<>>
    PROVE  /\ Grows(doc) /\ Good(doc, stack) /\ doc \in Doc /\ TokOK(tok) /\ Well(doc)
           /\ top \in Frames /\ FrameOK(doc, top) /\ top.id \in Nat /\ top.key \in Word /\ top.path \in Seq(Word)
           /\ \A e, B : Well(e) /\ Later(doc, e, B) /\ B \subseteq Open(stack) => Grows(e)
  <1>1. TokOK(tok) /\ doc # NoDoc /\ Good(doc, stack)
    BY DEF TreeInv, Ok
  <1>2. Well(doc) /\ doc \in Doc
    BY <1>1, WellIsDoc DEF Good
  <1>3. Later(doc, doc, {})
    BY <1>2, NeverLater
  <1>4. top \in Frames /\ FrameOK(doc, top)
    BY <1>1 DEF Good, StackOK, top
  <1>5. top.id \in Nat /\ top.key \in Word /\ top.path \in Seq(Word)
    BY <1>4 DEF Frames
  <1> QED  BY <1>1, <1>2, <1>3, <1>4, <1>5 DEF Grows

\* The stack, and the stack without the call on top, leave room for calls.
LEMMA RoomLeft ==
    ASSUME TreeInv, stack # <<>>
    PROVE  /\ \A e : top.at # "doc" /\ Grows(e) => Room(e, rest)
           /\ top.at = "doc" => Room(doc, stack) /\ Len(stack) = 1
           /\ top.at \in OfArray => top.id \in Open(stack)
           /\ top.at \in OfHeader => Len(rest) = 1 /\ Open(rest) = {} /\ Under(doc, rest)
           /\ \A e : top.at # "array" /\ Grows(e) => Room(e, stack)
           /\ \A e : Grows(e) => Fit(e, stack)
  <1>1. Good(doc, stack) /\ doc \in Doc /\ StackOK(doc, stack)
    BY SameGrows DEF Good
  <1>2. ASSUME NEW e, Grows(e) PROVE (\A s : Under(doc, s) => Under(e, s)) /\ (\A s : StackOK(doc, s) => StackOK(e, s))
    <2>1. e \in Doc /\ \E B : Later(doc, e, B)
      BY <1>2, WellIsDoc DEF Grows
    <2> QED  BY <1>1, <2>1, StillOK
  <1>3. top.at # "doc" => Under(doc, rest) /\ Open(rest) \subseteq Open(stack)
    BY <1>1, Popped DEF top, rest
  <1>4. top.at \in OfArray => top.id \in Open(stack)
    <2>1. top.at \in OfArray => top.at # "doc"
      BY DEF OfArray
    <2> QED  BY <1>1, <2>1, Popped DEF top
  <1>5. top.at \in OfHeader => Len(rest) = 1 /\ Open(rest) = {} /\ Under(doc, rest)
    <2>1. top.at \in OfHeader => top.at # "doc"
      BY DEF OfHeader
    <2> QED  BY <1>1, <2>1, Popped DEF top, rest
  <1>6. top.at # "array" => Under(doc, stack)
    <2>1. \A i \in DOMAIN stack : i # 1 => stack[i].at # "array"
      BY <1>1 DEF StackOK
    <2>2. Head(stack) = stack[1]
      BY <1>1 DEF StackOK
    <2> QED  BY <1>1, <2>1, <2>2 DEF Under, top
  <1>7. top.at = "doc" => Len(stack) = 1
    <2>1. stack \in Seq(Frames) /\ 1 \in DOMAIN stack /\ Head(stack) = stack[1]
      BY <1>1 DEF StackOK
    <2>2. stack[1].at = "doc" => 1 = Len(stack)
      BY <1>1, <2>1 DEF StackOK
    <2> QED  BY <2>1, <2>2 DEF top
  <1>8. \A e : top.at # "doc" /\ Grows(e) => Room(e, rest)
    BY <1>2, <1>3 DEF Room
  <1>9. \A e : top.at # "array" /\ Grows(e) => Room(e, stack)
    BY <1>2, <1>6 DEF Room
  <1>10. \A e : Grows(e) => Fit(e, stack)
    BY <1>1, <1>2 DEF Fit
  <1>11. top.at = "doc" => Room(doc, stack)
    BY <1>9, SameGrows
  <1> QED  BY <1>4, <1>5, <1>7, <1>8, <1>9, <1>10, <1>11

\* Such a stack fits as it is.
LEMMA RoomFits ==
    ASSUME NEW e, NEW r, Room(e, r)
    PROVE  Fit(e, r) /\ r # <<>> /\ Head(r).at # "array"
  <1>1. r \in Seq(Frames) /\ r # <<>> /\ 1 \in DOMAIN r /\ Head(r) = r[1]
    <2>1. r \in Seq(Frames) /\ r # <<>>
      BY DEF Room, Under, StackOK
    <2> QED  BY <2>1
  <1> QED  BY <1>1 DEF Room, Under, Fit

\* A call for a table or an array that there is fits on it.
LEMMA Calls ==
    ASSUME NEW e, NEW r, Room(e, r), NEW f \in Frames, FrameOK(e, f), f.at # "doc",
           f.at \in OfHeader => Len(r) = 1,
           f.at \in OfArray => f.id \in Open(stack) \/ f.id \notin DOMAIN doc.arrs
    PROVE  /\ Fit(e, <<f>> \o r) /\ Head(<<f>> \o r) = f
           /\ f.at # "array" => Room(e, <<f>> \o r)
  <1> DEFINE q == <<f>> \o r
  <1>1. /\ StackOK(e, q) /\ q # <<>> /\ Head(q) = f
        /\ f.at # "array" => Under(e, q)
        /\ Open(q) \subseteq Open(r) \cup (IF f.at \in OfArray THEN {f.id} ELSE {})
    BY Pushed DEF Room
  <1> HIDE DEF q
  <1>2. Open(q) \cap DOMAIN doc.arrs \subseteq Open(stack)
    <2>1. Open(r) \cap DOMAIN doc.arrs \subseteq Open(stack)
      BY DEF Room
    <2> QED  BY <1>1, <2>1
  <1> QED  BY <1>1, <1>2 DEF Fit, Room, q

-----------------------------------------------------------------------------
(* Keys and values: parse_keyval. *)

\* Where the parser is: the cases of At.
LEMMA AtPlace ==
    ASSUME NEW p, At(p) PROVE stack # <<>> /\ top.at = p
  BY DEF At, top

\* A call in the place of the one that is left, for table or array n.
LEMMA CallsNext ==
    ASSUME NEW e, NEW r, Room(e, r), NEW p \in Places \ {"doc"}, NEW n \in Nat, p \notin {"pathNext"},
           p \in OfTable => n \in DOMAIN e.tabs, p \in OfArray => n \in DOMAIN e.arrs,
           p \in OfHeader => Len(r) = 1,
           p \in OfArray => n \in Open(stack) \/ n \notin DOMAIN doc.arrs
    PROVE  /\ Fit(e, <<Frame(p, n)>> \o r) /\ Head(<<Frame(p, n)>> \o r).at = p
           /\ p # "array" => Room(e, <<Frame(p, n)>> \o r)
  <1>1. Frame(p, n) \in Frames /\ Frame(p, n).at = p /\ Frame(p, n).id = n
    BY PlainFrame
  <1>2. FrameOK(e, Frame(p, n))
    BY <1>1 DEF FrameOK
  <1> QED  BY <1>1, <1>2, Calls

\* parse_keyval, wherever it is called from.
LEMMA KeyvalCalled ==
    ASSUME TreeInv, stack # <<>>, NEW t \in DOMAIN doc.tabs, NEW s, Room(doc, s), parse_keyval(t, s)
    PROVE  TreeInv'
  <1> DEFINE f == KeyFrame("keyval", t, tok.text)
  <1>1. CASE fail
    BY <1>1, FailsOK
  <1>2. CASE Continue(TRUE, <<f>> \o s, doc)
    <2>1. Grows(doc) /\ t \in Nat /\ tok.text \in Word
      <3>1. Grows(doc) /\ doc \in Doc /\ TokOK(tok)
        BY SameGrows
      <3>2. t \in Nat
        BY <3>1, Parts
      <3> QED  BY <3>1, <3>2 DEF TokOK
    <2>2. f \in Frames /\ f.at = "keyval" /\ f.id = t
      <3>1. "keyval" \in Places
        BY DEF Places
      <3> QED  BY <2>1, <3>1, KeyedFrame
    <2> HIDE DEF f
    <2>3. FrameOK(doc, f) /\ f.at \notin OfHeader /\ f.at \notin OfArray /\ f.at # "doc"
      BY <2>2 DEF FrameOK, OfHeader, OfArray
    <2>4. Fit(doc, <<f>> \o s) /\ Head(<<f>> \o s).at # "array"
      BY <2>2, <2>3, Calls
    <2> QED  BY <1>2, <2>1, <2>4, GoesOnTo
  <1> QED  BY <1>1, <1>2 DEF parse_keyval

\* key.subkey
LEMMA DottedKeyOK == ASSUME TreeInv, DottedKey PROVE TreeInv'
  <1> DEFINE e == check_key(doc, top.id, top.key)
             c == create_keytable(doc, top.id, top.key)
             E == Entries(doc, top.id, top.key)
  <1>1. stack # <<>> /\ top.at = "keyval"
    BY AtPlace DEF DottedKey
  <1>2. /\ Grows(doc) /\ doc \in Doc /\ Well(doc) /\ Sound(doc) /\ top.id \in DOMAIN doc.tabs /\ top.key \in Word
    BY <1>1, SameGrows DEF FrameOK, OfTable, Well
  <1>3. CASE (\E x \in E : x.kind = "t") /\ Continue(TRUE, <<Frame("dotted", e.ref)>> \o rest, doc)
    <2>1. PICK x \in E : x.kind = "t"
      BY <1>3
    <2>2. PICK q \in DOMAIN Ents(doc, top.id) : x = Ents(doc, top.id)[q] /\ x.key = top.key
      BY <2>1 DEF Entries, Range, Ents
    <2>3. e = x
      BY <1>2, <2>2, TheEntry
    <2>4. x.ref \in DOMAIN doc.tabs
      BY <1>2, <2>1, <2>2 DEF Sound, TabOK, Leads
    <2>5. x.ref \in Nat
      BY <1>2, <2>4, Parts
    <2>6. Room(doc, rest)
      BY <1>1, <1>2, RoomLeft
    <2>7. Fit(doc, <<Frame("dotted", x.ref)>> \o rest) /\ Head(<<Frame("dotted", x.ref)>> \o rest).at = "dotted"
      BY <2>4, <2>5, <2>6, CallsNext DEF Places, OfTable, OfArray, OfHeader
    <2>8. Continue(TRUE, <<Frame("dotted", x.ref)>> \o rest, doc)
      BY <1>3, <2>3
    <2> QED  BY <1>1, <1>2, <2>7, <2>8, GoesOnTo
  <1>4. CASE Continue(TRUE, <<Frame("dotted", c.tab)>> \o rest, c.doc)
    <2>1. \/ c.doc = NoDoc
          \/ Well(c.doc) /\ Later(doc, c.doc, {}) /\ c.tab \in DOMAIN c.doc.tabs
      BY <1>2, MadeKeytable
    <2> HIDE DEF c
    <2>2. ASSUME Well(c.doc), Later(doc, c.doc, {}), c.tab \in DOMAIN c.doc.tabs
          PROVE  /\ Grows(c.doc) /\ Fit(c.doc, <<Frame("dotted", c.tab)>> \o rest)
                 /\ Head(<<Frame("dotted", c.tab)>> \o rest).at = "dotted"
      <3>1. Grows(c.doc)
        BY <2>2 DEF Grows
      <3>2. c.tab \in Nat
        BY <2>2, WellIsDoc, Parts
      <3>3. Room(c.doc, rest)
        BY <1>1, <3>1, RoomLeft
      <3> QED  BY <2>2, <3>1, <3>2, <3>3, CallsNext DEF Places, OfTable, OfArray, OfHeader
    <2>3. TRUE \in BOOLEAN
      OBVIOUS
    <2>4. CASE c.doc = NoDoc
      <3>1. TokOK(tok)
        BY DEF TreeInv, Ok
      <3> QED  BY <1>4, <2>4, FailsOK DEF Continue
    <2>5. CASE Well(c.doc) /\ Later(doc, c.doc, {}) /\ c.tab \in DOMAIN c.doc.tabs
      BY <1>1, <1>4, <2>2, <2>3, <2>5, GoesOnTo
    <2> QED  BY <2>1, <2>4, <2>5
  <1> QED  BY <1>3, <1>4 DEF DottedKey

\* The key after the dot.
LEMMA SubKeyOK == ASSUME TreeInv, SubKey PROVE TreeInv'
  <1>1. stack # <<>> /\ top.at = "dotted" /\ parse_keyval(top.id, rest)
    BY AtPlace DEF SubKey
  <1>2. Grows(doc) /\ top.id \in DOMAIN doc.tabs
    BY <1>1, SameGrows DEF FrameOK, OfTable
  <1>3. Room(doc, rest)
    BY <1>1, <1>2, RoomLeft
  <1> QED  BY <1>1, <1>2, <1>3, KeyvalCalled

\* key =
LEMMA EqualOK == ASSUME TreeInv, Equal PROVE TreeInv'
  <1> DEFINE f == KeyFrame("value", top.id, top.key)
  <1>1. stack # <<>> /\ top.at = "keyval" /\ Continue(FALSE, <<f>> \o rest, doc)
    BY AtPlace DEF Equal
  <1>2. Grows(doc) /\ top.id \in DOMAIN doc.tabs /\ top.id \in Nat /\ top.key \in Word
    BY <1>1, SameGrows DEF FrameOK, OfTable
  <1>3. Room(doc, rest)
    BY <1>1, <1>2, RoomLeft
  <1>4. f \in Frames /\ f.at = "value" /\ f.id = top.id
    <2>1. "value" \in Places
      BY DEF Places
    <2> QED  BY <1>2, <2>1, KeyedFrame
  <1> HIDE DEF f
  <1>5. FrameOK(doc, f) /\ f.at \notin OfHeader /\ f.at \notin OfArray /\ f.at # "doc"
    BY <1>2, <1>4 DEF FrameOK, OfHeader, OfArray
  <1>6. Fit(doc, <<f>> \o rest)
    BY <1>3, <1>4, <1>5, Calls
  <1> QED  BY <1>1, <1>2, <1>6, GoesOnTo

\* key = value
LEMMA StringValueOK == ASSUME TreeInv, StringValue PROVE TreeInv'
  <1> DEFINE e == create_keyval(doc, top.id, top.key, tok.text)
  <1>1. stack # <<>> /\ top.at = "value" /\ Continue(TRUE, rest, e)
    BY AtPlace DEF StringValue
  <1>2. Well(doc) /\ top.id \in DOMAIN doc.tabs /\ top.key \in Word /\ tok.text \in Word
    BY <1>1, SameGrows DEF FrameOK, OfTable, TokOK
  <1>3. e = NoDoc \/ (Well(e) /\ Later(doc, e, {}))
    BY <1>2, MadeKeyval
  <1> HIDE DEF e
  <1>4. e = NoDoc \/ Grows(e)
    BY <1>3 DEF Grows
  <1>5. Grows(e) => Fit(e, rest) /\ Head(rest).at # "array"
    <2>1. Grows(e) => Room(e, rest)
      BY <1>1, RoomLeft
    <2> QED  BY <2>1, RoomFits
  <1>6. CASE e = NoDoc
    BY <1>1, <1>6, FailsOK DEF Continue
  <1>7. CASE Grows(e)
    BY <1>1, <1>5, <1>7, GoesOnTo
  <1> QED  BY <1>4, <1>6, <1>7

-----------------------------------------------------------------------------
(* Arrays, tables and their elements: parse_array. *)

\* With the error for a tree the step is goto fail.
LEMMA NoDocFails == ASSUME NEW b, NEW s, Continue(b, s, NoDoc) PROVE TreeInv'
  <1>1. fail
    BY DEF Continue
  <1> QED  BY <1>1, FailsOK

\* key = [
LEMMA ArrayValueOK == ASSUME TreeInv, ArrayValue PROVE TreeInv'
  <1> DEFINE c == create_keyarray(doc, top.id, top.key, "0")
             n == Len(doc.arrs) + 1
             r == <<Frame("array", c.arr)>> \o rest
  <1>1. stack # <<>> /\ top.at = "value" /\ Continue(FALSE, r, c.doc)
    BY AtPlace DEF ArrayValue
  <1>2. Well(doc) /\ doc \in Doc /\ top.id \in DOMAIN doc.tabs /\ top.key \in Word
    BY <1>1, SameGrows DEF FrameOK, OfTable
  <1>3. \/ c.doc = NoDoc
        \/ /\ Sound(c.doc) /\ Later(doc, c.doc, {}) /\ c.arr = n /\ n \in DOMAIN c.doc.arrs
           /\ c.doc.arrs[n].kind = "0"
           /\ \A x \in DOMAIN c.doc.arrs \ {n} : Filled(c.doc, x)
    BY <1>2, MadeKeyarray
  <1> HIDE DEF c
  <1>4. CASE c.doc = NoDoc
    BY <1>1, <1>4, NoDocFails
  <1>5. CASE /\ Sound(c.doc) /\ Later(doc, c.doc, {}) /\ c.arr = n /\ n \in DOMAIN c.doc.arrs
             /\ c.doc.arrs[n].kind = "0"
             /\ \A x \in DOMAIN c.doc.arrs \ {n} : Filled(c.doc, x)
    <2>1. Grows(c.doc)
      BY <1>5 DEF Grows, Well, Filled
    <2>2. n \in Nat /\ n \notin DOMAIN doc.arrs
      BY <1>2, Parts
    <2>3. Room(c.doc, rest)
      BY <1>1, <2>1, RoomLeft
    <2> HIDE DEF n
    <2>4. "array" \in Places \ {"doc"} /\ "array" \notin OfTable \cup OfHeader
      BY DEF Places, OfTable, OfHeader
    <2>5. Fit(c.doc, r)
      BY <1>5, <2>2, <2>3, <2>4, CallsNext
    <2> HIDE DEF r
    <2> QED  BY <1>1, <2>1, <2>5, GoesOnTo
  <1> QED  BY <1>3, <1>4, <1>5

\* key = {
LEMMA TableValueOK == ASSUME TreeInv, TableValue PROVE TreeInv'
  <1> DEFINE c == create_keytable(doc, top.id, top.key)
             e == Defined(c.doc, c.tab)
             r == <<Frame("inline", c.tab)>> \o rest
  <1>1. stack # <<>> /\ top.at = "value" /\ (IF c.doc = NoDoc THEN fail ELSE Continue(TRUE, r, e))
    BY AtPlace DEF TableValue
  <1>2. Well(doc) /\ doc \in Doc /\ top.id \in DOMAIN doc.tabs /\ top.key \in Word
    BY <1>1, SameGrows DEF FrameOK, OfTable
  <1>3. \/ c.doc = NoDoc
        \/ /\ Well(c.doc) /\ Later(doc, c.doc, {}) /\ c.tab \in DOMAIN c.doc.tabs
           /\ c.doc.tabs[c.tab].defs = 0 /\ c.doc.tabs[c.tab].implicit = FALSE
    BY <1>2, MadeKeytable
  <1> HIDE DEF c
  <1>4. CASE c.doc = NoDoc
    BY <1>1, <1>4, FailsOK
  <1>5. CASE c.doc # NoDoc
    <2>1. /\ Well(c.doc) /\ Later(doc, c.doc, {}) /\ c.tab \in DOMAIN c.doc.tabs
          /\ c.doc.tabs[c.tab].defs = 0 /\ c.doc.tabs[c.tab].implicit = FALSE
      BY <1>3, <1>5
    <2>2. Well(e) /\ Later(c.doc, e, {}) /\ Len(e.tabs) = Len(c.doc.tabs)
      BY <2>1, DefinedNow
    <2> HIDE DEF e
    <2>3. c.doc \in Doc /\ e \in Doc
      BY <2>1, <2>2, WellIsDoc
    <2>4. Later(doc, e, {} \cup {})
      BY <1>2, <2>1, <2>2, <2>3, LaterStill
    <2>5. Grows(e)
      BY <2>2, <2>4 DEF Grows
    <2>6. c.tab \in Nat /\ c.tab \in DOMAIN e.tabs
      BY <2>1, <2>2, <2>3, Parts
    <2>7. Room(e, rest)
      BY <1>1, <2>5, RoomLeft
    <2>8. "inline" \in Places \ {"doc"} /\ "inline" \notin OfArray \cup OfHeader
      BY DEF Places, OfArray, OfHeader
    <2>9. Fit(e, r) /\ Head(r).at = "inline"
      BY <2>6, <2>7, <2>8, CallsNext
    <2> HIDE DEF r
    <2> QED  BY <1>1, <1>5, <2>5, <2>9, GoesOnTo
  <1> QED  BY <1>4, <1>5

\* Line ends within an array.
LEMMA SkipNewlinesOK == ASSUME TreeInv, skip_newlines PROVE TreeInv'
  <1>1. stack # <<>> /\ Continue(FALSE, stack, doc)
    BY DEF skip_newlines, At
  <1>2. Grows(doc) /\ Fit(doc, stack)
    BY <1>1, SameGrows, RoomLeft
  <1> QED  BY <1>1, <1>2, GoesOnTo

\* The stack with the array after its element.
LEMMA ElementRoom ==
    ASSUME TreeInv, stack # <<>>, top.at = "array", NEW e, Grows(e)
    PROVE  Room(e, Next_element) /\ Fit(e, Next_element) /\ Head(Next_element).at = "arrayNext"
  <1>1. top.id \in DOMAIN doc.arrs /\ top.id \in Open(stack) /\ top.id \in Nat
    BY SameGrows, RoomLeft DEF FrameOK, OfArray
  <1>2. top.id \in DOMAIN e.arrs
    <2>1. doc \in Doc /\ e \in Doc /\ \E B : Later(doc, e, B)
      BY SameGrows, WellIsDoc DEF Grows
    <2> QED  BY <1>1, <2>1, Parts DEF Later
  <1>3. Room(e, rest)
    BY RoomLeft
  <1>4. "arrayNext" \in Places \ {"doc"} /\ "arrayNext" \notin OfTable \cup OfHeader
    BY DEF Places, OfTable, OfHeader
  <1> QED  BY <1>1, <1>2, <1>3, <1>4, CallsNext DEF Next_element

\* An element: a value, an array or a table.
LEMMA ArrayElementOK == ASSUME TreeInv, ArrayElement PROVE TreeInv'
  <1> DEFINE a == top.id
             v == AddValue(doc, a, tok.text)
             d1 == create_array_in_array(doc, a)
             d2 == create_table_in_array(doc, a)
             n1 == Len(d1.arrs)
             n2 == Len(d2.tabs)
             d3 == Defined(d2, n2)
  <1>1. stack # <<>> /\ top.at = "array"
    BY AtPlace DEF ArrayElement
  <1>2. Well(doc) /\ doc \in Doc /\ a \in DOMAIN doc.arrs /\ a \in Open(stack) /\ TokOK(tok) /\ tok.text # "m"
    <2>1. tok.text # "m"
      BY <1>1 DEF TreeInv, Ok, top
    <2> QED  BY <1>1, <2>1, SameGrows, RoomLeft DEF FrameOK, OfArray
  <1>9. \A e : Well(e) /\ Later(doc, e, {a}) => Grows(e)
    BY <1>2 DEF Grows
  <1>3. CASE Continue(FALSE, Next_element, v)
    <2>1. Well(v) /\ Later(doc, v, {a})
      BY <1>2, AddedValue DEF TokOK
    <2> HIDE DEF v
    <2>2. Grows(v)
      BY <1>9, <2>1
    <2> QED  BY <1>1, <1>3, <2>2, ElementRoom, GoesOnTo
  <1>4. CASE Continue(FALSE, <<Frame("array", n1)>> \o Next_element, d1)
    <2> DEFINE r == <<Frame("array", n1)>> \o Next_element
    <2>1. Well(d1) /\ Later(doc, d1, {a}) /\ n1 = Len(doc.arrs) + 1 /\ n1 \in DOMAIN d1.arrs
      BY <1>2, ArrayInArray
    <2> HIDE DEF d1
    <2>2. Grows(d1)
      BY <1>9, <2>1
    <2>3. n1 \in Nat /\ n1 \notin DOMAIN doc.arrs
      BY <1>2, <2>1, Parts
    <2> HIDE DEF n1
    <2>4. Room(d1, Next_element)
      BY <1>1, <2>2, ElementRoom
    <2>5. "array" \in Places \ {"doc"} /\ "array" \notin OfTable \cup OfHeader
      BY DEF Places, OfTable, OfHeader
    <2>6. Fit(d1, r)
      BY <2>1, <2>3, <2>4, <2>5, CallsNext
    <2>7. Continue(FALSE, r, d1)
      BY <1>4
    <2> HIDE DEF r
    <2> QED  BY <1>1, <2>2, <2>6, <2>7, GoesOnTo
  <1>5. CASE Continue(TRUE, <<Frame("inline", n2)>> \o Next_element, d3)
    <2> DEFINE r == <<Frame("inline", n2)>> \o Next_element
    <2>1. /\ Well(d2) /\ Later(doc, d2, {a}) /\ n2 \in DOMAIN d2.tabs /\ d2.tabs[n2] = NewTable
      <3>1. Sound(doc) /\ \A x \in DOMAIN doc.arrs : Filled(doc, x)
        BY <1>2 DEF Well
      <3> DEFINE n == Len(doc.tabs) + 1
      <3>2. Filled(doc, a) /\ \A x \in DOMAIN doc.arrs \ {a} : Filled(doc, x)
        BY <1>2, <3>1
      <3>3. Well(d2) /\ Later(doc, d2, {a}) /\ Len(d2.tabs) = n /\ n \in DOMAIN d2.tabs /\ d2.tabs[n] = NewTable
        <4> HIDE DEF a, n
        <4> QED  BY <1>2, <3>1, <3>2, TableInArray DEF n
      <3> HIDE DEF d2, n
      <3> QED  BY <3>3
    <2>2. d2.tabs[n2].defs = 0 /\ d2.tabs[n2].implicit = FALSE
      BY <2>1, NewOnes, Zenon
    <2> HIDE DEF d2, n2
    <2>3. Well(d3) /\ Later(d2, d3, {}) /\ Len(d3.tabs) = Len(d2.tabs)
      BY <2>1, <2>2, DefinedNow
    <2> HIDE DEF d3
    <2>4. d2 \in Doc /\ d3 \in Doc
      BY <2>1, <2>3, WellIsDoc
    <2>5. Later(doc, d3, {a} \cup {})
      BY <1>2, <2>1, <2>3, <2>4, LaterStill
    <2>6. Grows(d3)
      <3>1. {a} \cup {} = {a}
        OBVIOUS
      <3> QED  BY <1>9, <2>3, <2>5, <3>1
    <2>7. n2 \in Nat /\ n2 \in DOMAIN d3.tabs
      BY <2>1, <2>3, <2>4, Parts
    <2>8. Room(d3, Next_element)
      BY <1>1, <2>6, ElementRoom
    <2>9. "inline" \in Places \ {"doc"} /\ "inline" \notin OfArray \cup OfHeader
      BY DEF Places, OfArray, OfHeader
    <2>10. Fit(d3, r) /\ Head(r).at = "inline"
      BY <2>7, <2>8, <2>9, CallsNext
    <2>11. Continue(TRUE, r, d3)
      BY <1>5
    <2> HIDE DEF r
    <2> QED  BY <1>1, <2>6, <2>10, <2>11, GoesOnTo
  <1>6. CASE fail
    BY <1>6, FailsOK
  <1> HIDE DEF v, d1, d2, d3
  <1> QED  BY <1>3, <1>4, <1>5, <1>6 DEF ArrayElement, v, d1, d2, d3

-----------------------------------------------------------------------------
(* Returns, inline tables and headers: parse_inline_table, parse_select. *)

\* A call returns and the tree stays.
LEMMA Returns ==
    ASSUME TreeInv, stack # <<>>, top.at # "doc", NEW e, Grows(e), NEW b \in BOOLEAN, Continue(b, rest, e)
    PROVE  TreeInv'
  <1>1. Fit(e, rest) /\ Head(rest).at # "array"
    BY RoomLeft, RoomFits
  <1> QED  BY <1>1, GoesOnTo

\* After an element: a comma or the bracket.
LEMMA ArrayNextOK == ASSUME TreeInv, ArrayNext PROVE TreeInv'
  <1> DEFINE r == <<Frame("array", top.id)>> \o rest
  <1>1. stack # <<>> /\ top.at = "arrayNext"
    BY AtPlace DEF ArrayNext
  <1>2. Grows(doc) /\ top.id \in DOMAIN doc.arrs /\ top.id \in Open(stack) /\ top.id \in Nat
    BY <1>1, SameGrows, RoomLeft DEF FrameOK, OfArray
  <1>3. CASE Continue(FALSE, r, doc)
    <2>1. Room(doc, rest)
      BY <1>1, <1>2, RoomLeft
    <2>2. "array" \in Places \ {"doc"} /\ "array" \notin OfTable \cup OfHeader
      BY DEF Places, OfTable, OfHeader
    <2>3. Fit(doc, r)
      BY <1>2, <2>1, <2>2, CallsNext
    <2> HIDE DEF r
    <2> QED  BY <1>1, <1>2, <1>3, <2>3, GoesOnTo
  <1>4. CASE Continue(TRUE, rest, doc)
    BY <1>1, <1>2, <1>4, Returns
  <1>5. CASE fail
    BY <1>5, FailsOK
  <1>6. Continue(FALSE, r, doc) \/ Continue(TRUE, rest, doc) \/ fail
    <2>1. CASE Is("COMMA")
      BY <2>1 DEF ArrayNext, Is
    <2>2. CASE Is("RBRACKET")
      BY <2>2 DEF ArrayNext, Is
    <2>3. CASE ~Is("COMMA") /\ ~Is("RBRACKET")
      BY <2>3 DEF ArrayNext
    <2> QED  BY <2>1, <2>2, <2>3
  <1> QED  BY <1>3, <1>4, <1>5, <1>6

\* The bracket after a comma, or of an empty array.
LEMMA ArrayEndOK == ASSUME TreeInv, ArrayEnd PROVE TreeInv'
  <1>1. stack # <<>> /\ top.at = "array" /\ Continue(TRUE, rest, doc)
    BY AtPlace DEF ArrayEnd
  <1> QED  BY <1>1, SameGrows, Returns

\* A key in { ... }.
LEMMA InlineKeyOK == ASSUME TreeInv, InlineKey PROVE TreeInv'
  <1> DEFINE r == <<Frame("inlineNext", top.id)>> \o rest
  <1>1. stack # <<>> /\ top.at = "inline" /\ parse_keyval(top.id, r)
    BY AtPlace DEF InlineKey
  <1>2. Grows(doc) /\ top.id \in DOMAIN doc.tabs /\ top.id \in Nat
    BY <1>1, SameGrows DEF FrameOK, OfTable
  <1>3. Room(doc, rest)
    BY <1>1, <1>2, RoomLeft
  <1>4. "inlineNext" \in Places \ {"doc"} /\ "inlineNext" \notin OfArray \cup OfHeader
    BY DEF Places, OfArray, OfHeader
  <1>5. Room(doc, r)
    BY <1>2, <1>3, <1>4, CallsNext
  <1> QED  BY <1>1, <1>2, <1>5, KeyvalCalled

\* A comma in { ... }.
LEMMA InlineCommaOK == ASSUME TreeInv, InlineComma PROVE TreeInv'
  <1> DEFINE r == <<Frame("inline", top.id)>> \o rest
  <1>1. stack # <<>> /\ top.at = "inlineNext" /\ Continue(TRUE, r, doc)
    BY AtPlace DEF InlineComma
  <1>2. Grows(doc) /\ top.id \in DOMAIN doc.tabs /\ top.id \in Nat
    BY <1>1, SameGrows DEF FrameOK, OfTable
  <1>3. Room(doc, rest)
    BY <1>1, <1>2, RoomLeft
  <1>4. "inline" \in Places \ {"doc"} /\ "inline" \notin OfArray \cup OfHeader
    BY DEF Places, OfArray, OfHeader
  <1>5. Fit(doc, r) /\ Head(r).at = "inline"
    BY <1>2, <1>3, <1>4, CallsNext
  <1> HIDE DEF r
  <1> QED  BY <1>1, <1>2, <1>5, GoesOnTo

\* The end of { ... }: the table is closed.
LEMMA InlineEndOK == ASSUME TreeInv, InlineEnd PROVE TreeInv'
  <1> DEFINE e == [doc EXCEPT !.tabs[top.id].readonly = TRUE]
  <1>1. stack # <<>> /\ top.at \in {"inline", "inlineNext"} /\ Continue(TRUE, rest, e)
    BY AtPlace DEF InlineEnd
  <1>2. Well(doc) /\ top.id \in DOMAIN doc.tabs
    BY <1>1, SameGrows DEF FrameOK, OfTable
  <1>3. Well(e) /\ Later(doc, e, {})
    BY <1>2, ReadonlyNow
  <1> HIDE DEF e
  <1>4. Grows(e)
    BY <1>3 DEF Grows
  <1> QED  BY <1>1, <1>4, Returns

-----------------------------------------------------------------------------
\* A call of parse_select, on the lines of the document.
LEMMA HeaderCalled ==
    ASSUME TreeInv, stack # <<>>, NEW r, Room(doc, r), Len(r) = 1, NEW f \in Frames, f.at \in OfHeader,
           f.at = "pathNext" => f.path # <<>>, Continue(TRUE, <<f>> \o r, doc)
    PROVE  TreeInv'
  <1>1. f.at # "doc" /\ f.at \notin OfTable /\ f.at \notin OfArray /\ f.at # "array"
    BY DEF OfHeader, OfTable, OfArray
  <1>2. FrameOK(doc, f)
    BY <1>1 DEF FrameOK
  <1>3. Fit(doc, <<f>> \o r) /\ Head(<<f>> \o r) = f
    BY <1>1, <1>2, Calls
  <1>4. Grows(doc)
    BY SameGrows
  <1> QED  BY <1>1, <1>3, <1>4, GoesOnTo

\* The document alone is left when the header returns.
LEMMA HeaderRoom ==
    ASSUME TreeInv, stack # <<>>, top.at \in OfHeader
    PROVE  Room(doc, rest) /\ Len(rest) = 1 /\ top \in Frames
  <1>1. top.at # "doc"
    BY DEF OfHeader
  <1> QED  BY <1>1, SameGrows, RoomLeft

\* [ or [[
LEMMA OpenHeaderOK == ASSUME TreeInv, OpenHeader PROVE TreeInv'
  <1> DEFINE p == IF tok.twin THEN "open" ELSE "path"
             g == Frame(p, 0)
             f == [g EXCEPT !.llb = tok.twin]
  <1>1. stack # <<>> /\ top.at = "doc" /\ Continue(TRUE, <<f>> \o stack, doc)
    BY AtPlace DEF OpenHeader
  <1>2. Room(doc, stack) /\ Len(stack) = 1 /\ tok.twin \in BOOLEAN
    BY <1>1, SameGrows, RoomLeft DEF TokOK
  <1>3. p \in Places /\ p \in OfHeader /\ p # "pathNext"
    BY DEF Places, OfHeader
  <1> HIDE DEF p
  <1>4. g \in Frames /\ g.at = p
    BY <1>3, PlainFrame
  <1> HIDE DEF g
  <1>5. f \in Frames /\ f.at = p
    BY <1>2, <1>4, FramesAre
  <1> HIDE DEF f
  <1> QED  BY <1>1, <1>2, <1>3, <1>5, HeaderCalled

\* The place within the header is another one: [[ or a key or a dot was read.
LEMMA HeaderGoesOn ==
    ASSUME TreeInv, stack # <<>>, top.at \in OfHeader, NEW p \in OfHeader \ {"pathNext"},
           Continue(TRUE, <<[top EXCEPT !.at = p]>> \o rest, doc)
    PROVE  TreeInv'
  <1> DEFINE f == [top EXCEPT !.at = p]
  <1>1. Room(doc, rest) /\ Len(rest) = 1 /\ top \in Frames
    BY HeaderRoom
  <1>2. p \in Places
    BY DEF Places, OfHeader
  <1>3. f \in Frames /\ f.at = p
    BY <1>1, <1>2, FramesAre
  <1>4. Continue(TRUE, <<f>> \o rest, doc)
    OBVIOUS
  <1> HIDE DEF f
  <1> QED  BY <1>1, <1>3, <1>4, HeaderCalled

\* A key of the path.
LEMMA PathKeyOK == ASSUME TreeInv, PathKey PROVE TreeInv'
  <1> DEFINE f == [top EXCEPT !.at = "pathNext", !.path = Append(@, tok.text)]
  <1>1. stack # <<>> /\ top.at = "path" /\ (Continue(TRUE, <<f>> \o rest, doc) \/ fail)
    BY AtPlace DEF PathKey
  <1>2. CASE Continue(TRUE, <<f>> \o rest, doc)
    <2>1. Room(doc, rest) /\ Len(rest) = 1 /\ top \in Frames
      BY <1>1, HeaderRoom DEF OfHeader
    <2>2. tok.text \in Word
      BY <1>1, SameGrows DEF TokOK
    <2>3. f \in Frames /\ f.at = "pathNext" /\ f.path # <<>>
      BY <2>1, <2>2, FramesAre
    <2>4. f.at \in OfHeader
      BY <2>3 DEF OfHeader
    <2> HIDE DEF f
    <2> QED  BY <1>1, <1>2, <2>1, <2>3, <2>4, HeaderCalled
  <1>3. CASE fail
    BY <1>3, FailsOK
  <1> QED  BY <1>1, <1>2, <1>3

\* The header is complete: the tree has its table, which is the current one.
LEMMA HeaderClosed ==
    ASSUME TreeInv, stack # <<>>, top.at = "pathNext", NEW p \in {"close", "header"},
           NEW e, e = NoDoc \/ Selected(e, top.path), Continue(TRUE, <<Frame(p, 0)>> \o rest, e)
    PROVE  TreeInv'
  <1> DEFINE f == Frame(p, 0)
             r == <<f>> \o rest
  <1>1. /\ Len(rest) = 1 /\ Open(rest) = {} /\ Under(doc, rest) /\ TokOK(tok)
        /\ doc \in Doc /\ Well(doc)
    BY SameGrows, RoomLeft DEF OfHeader
  <1>2. CASE e = NoDoc
    BY <1>2, NoDocFails
  <1>3. CASE Selected(e, top.path)
    <2>1. /\ rest \in Seq(Frames) /\ rest # <<>> /\ DOMAIN rest = {1} /\ rest[1].at = "doc"
      <3>1. rest \in Seq(Frames) /\ rest # <<>> /\ DOMAIN rest = {1}
        BY <1>1 DEF Under, StackOK
      <3> QED  BY <1>1, <3>1 DEF Under, StackOK
    <2>2. FrameOK(e, rest[1])
      BY <2>1 DEF FrameOK, OfTable, OfArray
    <2>3. Under(e, rest)
      <3>1. \A i \in DOMAIN rest : i = 1
        BY <2>1
      <3>2. "doc" \notin OfHeader /\ "doc" # "array"
        BY DEF OfHeader
      <3> QED  BY <1>1, <2>1, <2>2, <3>1, <3>2 DEF Under, StackOK
    <2>4. f \in Frames /\ f.at = p
      <3>1. p \in Places
        BY DEF Places
      <3> QED  BY <3>1, PlainFrame
    <2> HIDE DEF f
    <2>5. FrameOK(e, f) /\ f.at \notin OfArray /\ f.at # "doc" /\ f.at # "array"
      BY <2>4 DEF FrameOK, OfTable, OfArray
    <2>6. StackOK(e, r) /\ Head(r) = f /\ Open(r) \subseteq {}
      BY <1>1, <2>3, <2>4, <2>5, Pushed
    <2> HIDE DEF r
    <2>7. Open(r) = {}
      BY <2>6
    <2>8. Good(e, r)
      BY <1>3, <2>6, <2>7 DEF Good, Selected
    <2>9. Continue(TRUE, r, e)
      BY DEF r, f
    <2> QED  BY <1>1, <2>5, <2>6, <2>8, <2>9, Continues
  <1> QED  BY <1>2, <1>3

\* The bracket that ends the path.
LEMMA CloseHeaderOK == ASSUME TreeInv, CloseHeader PROVE TreeInv'
  <1>1. stack # <<>> /\ top.at = "pathNext"
    BY AtPlace DEF CloseHeader
  <1>2. Well(doc) /\ top.path \in Seq(Word) /\ top.path # <<>>
    BY <1>1, SameGrows DEF FrameOK
  <1>3. CASE fail
    BY <1>3, FailsOK
  <1>4. CASE Continue(TRUE, <<Frame("close", 0)>> \o rest, SelectArray(doc, top.path))
    <2> DEFINE e == SelectArray(doc, top.path)
    <2>1. e = NoDoc \/ Selected(e, top.path)
      BY <1>2, SelectedArray
    <2>2. "close" \in {"close", "header"} /\ Continue(TRUE, <<Frame("close", 0)>> \o rest, e)
      BY <1>4
    <2> HIDE DEF e
    <2> QED  BY <1>1, <2>1, <2>2, HeaderClosed
  <1>5. CASE Continue(TRUE, <<Frame("header", 0)>> \o rest, SelectTable(doc, top.path))
    <2> DEFINE e == SelectTable(doc, top.path)
    <2>1. e = NoDoc \/ Selected(e, top.path)
      BY <1>2, SelectedTable
    <2>2. "header" \in {"close", "header"} /\ Continue(TRUE, <<Frame("header", 0)>> \o rest, e)
      BY <1>5
    <2> HIDE DEF e
    <2> QED  BY <1>1, <2>1, <2>2, HeaderClosed
  <1>6. CASE top.llb
    BY <1>3, <1>4, <1>6 DEF CloseHeader
  <1>7. CASE ~top.llb
    BY <1>3, <1>5, <1>7 DEF CloseHeader
  <1> QED  BY <1>6, <1>7

\* The second bracket.
LEMMA CloseTwinOK == ASSUME TreeInv, CloseTwin PROVE TreeInv'
  <1>1. stack # <<>> /\ top.at = "close" /\ Continue(TRUE, <<Frame("header", 0)>> \o rest, doc)
    BY AtPlace DEF CloseTwin
  <1>2. Room(doc, rest) /\ Len(rest) = 1
    BY <1>1, HeaderRoom DEF OfHeader
  <1>3. "header" \in Places /\ "header" \in OfHeader /\ "header" # "pathNext"
    BY DEF Places, OfHeader
  <1>4. Frame("header", 0) \in Frames /\ Frame("header", 0).at = "header"
    BY <1>3, PlainFrame
  <1> QED  BY <1>1, <1>2, <1>3, <1>4, HeaderCalled

\* The end of the header's line.
LEMMA HeaderEndOK == ASSUME TreeInv, HeaderEnd PROVE TreeInv'
  <1>1. stack # <<>> /\ top.at = "header"
    BY AtPlace DEF HeaderEnd
  <1>2. CASE fail
    BY <1>2, FailsOK
  <1>3. CASE stack' = rest /\ UNCHANGED <<tok, text, doc, ret>>
    <2>1. /\ Grows(doc) /\ Good(doc, stack) /\ TokOK(tok) /\ Open(rest) = {} /\ Well(doc) /\ doc \in Doc
      BY <1>1, SameGrows, RoomLeft DEF OfHeader
    <2>2. Fit(doc, rest) /\ Head(rest).at # "array"
      BY <1>1, <2>1, RoomLeft, RoomFits
    <2>3. Later(doc, doc, {}) /\ Len(doc.head) \in Nat
      BY <2>1, NeverLater, Parts
    <2>4. Reaches(doc, doc.head, Len(doc.head), doc.cur, Open(rest))
      <3>1. {} \subseteq Open(stack) /\ Open(rest) \cap DOMAIN doc.arrs \subseteq Open(stack)
        BY <2>1
      <3>2. Reaches(doc, doc.head, Len(doc.head), doc.cur, Open(stack))
        BY <2>1 DEF Good
      <3> QED  BY <2>1, <2>3, <3>1, <3>2, StillReaches
    <2>5. Good(doc, rest) /\ doc # NoDoc
      BY <2>1, <2>2, <2>4, WellIsDoc DEF Good, Fit
    <2> QED  BY <1>3, <2>1, <2>2, <2>5 DEF TreeInv, Ok
  <1> QED  BY <1>2, <1>3 DEF HeaderEnd

-----------------------------------------------------------------------------
\* The lines of the document.
LEMMA LinesOK == ASSUME TreeInv, EmptyLine \/ KeyLine \/ LineEnd PROVE TreeInv'
  <1>1. CASE EmptyLine
    <2>1. stack # <<>> /\ top.at = "doc" /\ Continue(TRUE, stack, doc)
      BY <1>1, AtPlace DEF EmptyLine
    <2>2. Fit(doc, stack) /\ Grows(doc) /\ Head(stack).at # "array"
      BY <2>1, SameGrows, RoomLeft DEF top
    <2> QED  BY <2>1, <2>2, GoesOnTo
  <1>2. CASE KeyLine
    <2> DEFINE r == <<Frame("line", 0)>> \o stack
    <2>1. stack # <<>> /\ top.at = "doc" /\ parse_keyval(doc.cur, r)
      BY <1>2, AtPlace DEF KeyLine
    <2>2. doc.cur \in DOMAIN doc.tabs /\ Room(doc, stack)
      BY <2>1, SameGrows, RoomLeft, WellIsDoc
    <2>3. "line" \in Places \ {"doc"} /\ "line" \notin OfArray \cup OfHeader \cup OfTable
      BY DEF Places, OfArray, OfHeader, OfTable
    <2>4. Room(doc, r)
      BY <2>2, <2>3, CallsNext
    <2> QED  BY <2>1, <2>2, <2>4, KeyvalCalled
  <1>3. CASE LineEnd
    <2>1. stack # <<>> /\ top.at = "line" /\ (Continue(TRUE, rest, doc) \/ fail)
      BY <1>3, AtPlace DEF LineEnd
    <2> QED  BY <2>1, SameGrows, Returns, FailsOK
  <1> QED  BY <1>1, <1>2, <1>3

\* The end of the text: toml_parse returns the root.
LEMMA ParsedOK == ASSUME TreeInv, Parsed PROVE TreeInv'
  <1>1. /\ stack # <<>> /\ top.at = "doc" /\ stack' = <<>> /\ tok' = tok /\ doc' = doc
    BY AtPlace DEF Parsed
  <1>2. Good(doc, stack) /\ TokOK(tok) /\ doc \in Doc /\ Well(doc)
    BY <1>1, SameGrows
  <1>3. doc # NoDoc
    BY <1>2, WellIsDoc
  <1>4. StackOK(doc, <<>>) /\ Open(<<>>) = {}
    BY DEF StackOK, Open
  <1>5. Reaches(doc, doc.head, Len(doc.head), doc.cur, {})
    <2>1. Later(doc, doc, {}) /\ Len(doc.head) \in Nat
      BY <1>2, NeverLater, Parts
    <2>2. {} \subseteq Open(stack) /\ {} \cap DOMAIN doc.arrs \subseteq Open(stack)
      OBVIOUS
    <2>3. Reaches(doc, doc.head, Len(doc.head), doc.cur, Open(stack))
      BY <1>2 DEF Good
    <2> QED  BY <1>2, <2>1, <2>2, <2>3, StillReaches
  <1>6. Good(doc, <<>>)
    BY <1>2, <1>4, <1>5 DEF Good
  <1> QED  BY <1>1, <1>2, <1>3, <1>6 DEF TreeInv, Ok

-----------------------------------------------------------------------------
(* The whole parser. *)

\* The remaining steps within a header: the second bracket of [[, and a dot.
LEMMA OpenTwinOK == ASSUME TreeInv, OpenTwin PROVE TreeInv'
  <1>1. stack # <<>> /\ top.at = "open" /\ Continue(TRUE, <<[top EXCEPT !.at = "path"]>> \o rest, doc)
    BY AtPlace DEF OpenTwin
  <1>2. "path" \in OfHeader \ {"pathNext"} /\ "open" \in OfHeader
    BY DEF OfHeader
  <1> QED  BY <1>1, <1>2, HeaderGoesOn

\* A dot of the path.
LEMMA PathDotOK == ASSUME TreeInv, PathDot PROVE TreeInv'
  <1>1. stack # <<>> /\ top.at = "pathNext" /\ Continue(TRUE, <<[top EXCEPT !.at = "path"]>> \o rest, doc)
    BY AtPlace DEF PathDot
  <1>2. "path" \in OfHeader \ {"pathNext"} /\ "pathNext" \in OfHeader
    BY DEF OfHeader
  <1> QED  BY <1>1, <1>2, HeaderGoesOn

\* The empty document is a sound tree.
LEMMA StartOK == Init => TreeInv
  <1> SUFFICES ASSUME Init PROVE TreeInv
    OBVIOUS
  <1> DEFINE f == Frame("doc", 0)
  <1>1. tok = Token("NEWLINE") /\ stack = <<f>> /\ doc = EmptyDoc
    BY DEF Init
  <1>2. TokOK(tok)
    BY <1>1 DEF TokOK, Token, Word
  <1>3. f \in Frames /\ f.at = "doc"
    <2>1. "doc" \in Places /\ 0 \in Nat
      BY DEF Places
    <2> QED  BY <2>1, PlainFrame
  <1> HIDE DEF f
  <1>4. /\ stack \in Seq(Frames) /\ stack # <<>> /\ DOMAIN stack = {1} /\ Len(stack) = 1
        /\ Head(stack) = f /\ stack[1] = f
    BY <1>1, <1>3
  <1>5. StackOK(doc, stack)
    <2>1. f.at \notin OfHeader /\ FrameOK(doc, f)
      BY <1>3 DEF OfHeader, FrameOK, OfTable, OfArray
    <2>2. \A m \in DOMAIN stack : m = 1
      BY <1>4
    <2> QED  BY <1>3, <1>4, <2>1, <2>2 DEF StackOK
  <1>6. /\ doc \in Doc /\ doc.tabs = <<NewTable>> /\ doc.arrs = <<>> /\ doc.cur = Root /\ doc.head = <<>>
        /\ NewTable.ents = <<>> /\ NewTable.defs = 0 /\ NewTable.implicit = FALSE
    BY <1>1, NewOnes
  <1>7. /\ DOMAIN doc.tabs = {1} /\ doc.tabs[1] = NewTable /\ DOMAIN doc.arrs = {} /\ Len(doc.head) = 0
        /\ doc.cur \in DOMAIN doc.tabs
    BY <1>6 DEF Root
  <1>8. Ents(doc, 1) = <<>> /\ DOMAIN Ents(doc, 1) = {}
    BY <1>6, <1>7 DEF Ents
  <1>9. TabOK(doc, 1)
    <2>1. doc.tabs[1].defs <= 1 /\ (doc.tabs[1].implicit => doc.tabs[1].defs = 0)
      BY <1>6, <1>7
    <2> QED  BY <1>8, <2>1 DEF TabOK
  <1>10. \A t \in DOMAIN doc.tabs : t = 1
    BY <1>7
  <1>11. Once(doc)
    BY <1>8, <1>10 DEF Once
  <1>12. Sound(doc) /\ Well(doc)
    BY <1>6, <1>7, <1>9, <1>10, <1>11 DEF Sound, Well
  <1>13. Reaches(doc, doc.head, Len(doc.head), doc.cur, Open(stack))
    BY <1>6, <1>7, <1>12, ReachesRoot
  <1>14. doc # NoDoc
    BY <1>12, WellIsDoc
  <1>15. Head(stack).at # "array"
    BY <1>3, <1>4
  <1> QED  BY <1>2, <1>5, <1>12, <1>13, <1>14, <1>15 DEF TreeInv, Ok, Good

\* Every action keeps the invariant, one lemma or goto fail for each.
LEMMA StepOK == ASSUME TreeInv, Next PROVE TreeInv'
  <1>1. CASE Keyval
    BY <1>1, DottedKeyOK, SubKeyOK, EqualOK, StringValueOK, ArrayValueOK, TableValueOK, FailsOK
       DEF Keyval, NoEqual, NoValue
  <1>2. CASE Array
    BY <1>2, SkipNewlinesOK, ArrayElementOK, ArrayNextOK, ArrayEndOK DEF Array
  <1>3. CASE Inline
    BY <1>3, InlineKeyOK, InlineCommaOK, InlineEndOK, FailsOK DEF Inline, InlineBad
  <1>4. CASE Select
    BY <1>4, OpenHeaderOK, OpenTwinOK, PathKeyOK, PathDotOK, CloseHeaderOK, CloseTwinOK, HeaderEndOK, FailsOK
       DEF Select, PathBad
  <1>5. CASE EmptyLine \/ KeyLine \/ LineEnd
    BY <1>5, LinesOK
  <1>6. CASE BadLine
    BY <1>6, FailsOK DEF BadLine
  <1>7. CASE Parsed
    BY <1>7, ParsedOK
  <1> QED  BY <1>1, <1>2, <1>3, <1>4, <1>5, <1>6, <1>7 DEF Next

\* So does a step that changes nothing.
LEMMA StutterOK == ASSUME TreeInv, UNCHANGED vars PROVE TreeInv'
  <1>1. tok' = tok /\ doc' = doc /\ stack' = stack
    BY DEF vars
  <1> QED  BY <1>1 DEF TreeInv

\* The tree is sound at every step of the parser, whatever the text is
\* (toml.c: every function that makes an entry, a table, an array or an item,
\* and every call that is given one).
THEOREM TreeSound == Spec => []TreeInv
  <1>1. Init => TreeInv
    BY StartOK
  <1>2. TreeInv /\ [Next]_vars => TreeInv'
    BY StepOK, StutterOK
  <1> QED  BY <1>1, <1>2, PTL DEF Spec

\* A sound tree has sound names.
LEMMA NamesOK == ASSUME TreeInv PROVE NamesSound
  <1>1. CASE doc = NoDoc
    BY <1>1, NewOnes DEF NamesSound, KeysUnique, DefinedOnce
  <1>2. CASE doc # NoDoc
    <2>1. \A t \in DOMAIN doc.tabs : TabOK(doc, t)
      BY <1>2 DEF TreeInv, Ok, Good, Well, Sound
    <2> QED  BY <2>1 DEF NamesSound, KeysUnique, DefinedOnce, TabOK, Ents
  <1> QED  BY <1>1, <1>2

\* A key stands for one thing in its table, and a table is defined by one
\* header or one {...} at most (toml.c:718-802).
THEOREM NamesAreSound == Spec => []NamesSound
  BY TreeSound, NamesOK, PTL

\* What Claims says by index, for the set of items.
LEMMA ArrayTrue ==
    ASSUME NEW r \in Arr, Claims(r), r.kind # "0" => r.items # <<>>
    PROVE  LET is == Range(r.items)
           IN /\ r.kind \in {"v", "a", "t"} => \A i \in is : i.kind = r.kind
              /\ r.kind = "m" => \E i, j \in is : i.kind # j.kind
              /\ r.kind = "t" => is # {}
              /\ r.kind = "v" => r.type = (IF \A i, j \in is : i.ref = j.ref
                                           THEN Head(r.items).ref ELSE "m")
  <1> DEFINE is == Range(r.items)
  <1>1. is = {r.items[q] : q \in DOMAIN r.items}
    BY DEF Range
  <1>2. r.items \in Seq(Item)
    BY DEF Arr
  <1>3. r.items # <<>> => Head(r.items) = r.items[1] /\ 1 \in DOMAIN r.items
    BY <1>2
  <1> HIDE DEF is
  <1>4. r.kind \in {"v", "a", "t"} => \A i \in is : i.kind = r.kind
    BY <1>1 DEF Claims, Kinds
  <1>5. r.kind = "m" => \E i, j \in is : i.kind # j.kind
    BY <1>1 DEF Claims
  <1>6. r.kind = "t" => is # {}
    BY <1>1, <1>3
  <1>7. r.kind = "v" => r.type = (IF \A i, j \in is : i.ref = j.ref THEN Head(r.items).ref ELSE "m")
    BY <1>1, <1>3 DEF Claims
  <1> QED  BY <1>4, <1>5, <1>6, <1>7 DEF is

\* The arrays of a sound tree are true.
LEMMA ArraysOK == ASSUME TreeInv PROVE ArraysTrue
  <1>1. CASE doc = NoDoc
    BY <1>1, NewOnes DEF ArraysTrue
  <1>2. CASE doc # NoDoc
    <2>1. Well(doc) /\ doc \in Doc
      BY <1>2, WellIsDoc DEF TreeInv, Ok, Good
    <2>2. \A a \in DOMAIN doc.arrs :
            doc.arrs[a] \in Arr /\ Claims(doc.arrs[a]) /\ (doc.arrs[a].kind # "0" => doc.arrs[a].items # <<>>)
      BY <2>1, Parts DEF Well, Sound, ArrOK, Filled, Items
    <2> QED  BY <2>2, ArrayTrue DEF ArraysTrue
  <1> QED  BY <1>1, <1>2

\* What an array says of its items is true of them (toml.c:1013-1110,
\* toml.c:806-867).
THEOREM ArraysAreTrue == Spec => []ArraysTrue
  BY TreeSound, ArraysOK, PTL

\* The current table of a sound tree is found under its path.
LEMMA HeaderOK == ASSUME TreeInv PROVE HeaderHolds
  <1>1. CASE doc = NoDoc
    BY <1>1, NewOnes DEF HeaderHolds
  <1>2. CASE doc # NoDoc
    <2>1. Well(doc) /\ doc \in Doc /\ Reaches(doc, doc.head, Len(doc.head), doc.cur, Open(stack))
      BY <1>2, WellIsDoc DEF TreeInv, Ok, Good
    <2>2. Later(doc, doc, {}) /\ Len(doc.head) \in Nat /\ doc.head \in Seq(Word)
      BY <2>1, NeverLater, Parts
    <2>3. {} \subseteq Open(stack) /\ {} \cap DOMAIN doc.arrs \subseteq Open(stack)
      OBVIOUS
    <2>4. Reaches(doc, doc.head, Len(doc.head), doc.cur, {})
      BY <2>1, <2>2, <2>3, StillReaches
    <2> QED  BY <2>1, <2>2, <2>4, FoundWhereReached DEF HeaderHolds
  <1> QED  BY <1>1, <1>2

\* key = value lines go to the table a reader finds under the last header,
\* although tables and arrays are added in the meantime and walk_tabpath
\* follows the last table of every array (toml.c:1200-1280).
THEOREM HeaderAlwaysHolds == Spec => []HeaderHolds
  BY TreeSound, HeaderOK, PTL
=============================================================================

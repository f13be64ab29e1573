-------------------------------- MODULE Toml --------------------------------
(***************************************************************************)
(* The TOML parser of hw07/toml.c, which reads the configuration of the    *)
(* file size daemon (the same file is in project/, for the remote          *)
(* builder).  The parser is a recursive descent over tokens; the call      *)
(* stack of the C functions is the variable stack, its head the innermost  *)
(* call and the place it has come to.  The text is chosen token by token   *)
(* as next_token asks for it, so that every text within the bounds of      *)
(* Texts is parsed.  The tree the parser builds is doc.                    *)
(*                                                                         *)
(* Abstracted: the characters of keys and values (a key is a member of     *)
(* Keys or is one with a character normalize_key refuses, a value is its   *)
(* valtype), line numbers and messages.  Allocations succeed.              *)
(***************************************************************************)
EXTENDS Naturals, Sequences, SequencesExt

CONSTANTS Keys,       \* keys that may be written in the text
          BadKey,     \* a key with a forbidden character
          ValTypes,   \* what valtype may say of a value
          PathMax,    \* context_t.tpath holds that many keys (10 in the code)
          Texts       \* bounds: the tokens a text is made of, and how many of them

ASSUME TomlAssumption ==
    /\ BadKey \notin Keys
    /\ PathMax \in Nat \ {0}
    /\ \A x \in Texts : x.left \in Nat
    /\ "m" \notin ValTypes

VARIABLES
    tok,     \* context_t.tok
    text,    \* the marks the text is made of, and the tokens it still has
    stack,   \* the calls in progress
    doc,     \* the tables and arrays made so far, and context_t.curtab
    ret      \* what toml_parse has returned: "none", "root" or "null"

vars == <<tok, text, stack, doc, ret>>

-----------------------------------------------------------------------------
\* Tokens.  twin says that the next character is the same bracket: [[ or ]].

Token(k) == [tok |-> k, text |-> "", twin |-> FALSE, eof |-> FALSE]
Twin(k)  == [Token(k) EXCEPT !.twin = TRUE]
String(s) == [Token("STRING") EXCEPT !.text = s]
Eof      == [Token("NEWLINE") EXCEPT !.eof = TRUE]

\* A character no token begins with makes scan_string return a STRING of
\* length 0, and next_token then stays where it is.
Stuck == String("stuck")

Marks == {Token(k) : k \in text.marks \ {"DOT"}} \cup {Stuck}
           \cup {Twin(k) : k \in text.marks \cap {"LBRACKET", "RBRACKET"}}

\* The text of a STRING read as a key or as a value.
Tokens(dotisspecial) ==
    IF dotisspecial
    THEN Marks \cup {Token(k) : k \in text.marks \cap {"DOT"}} \cup {String(k) : k \in Keys \cup {BadKey}}
    ELSE Marks \cup {String(v) : v \in ValTypes}

\* The tokens that count for Texts; the others only follow on these.
\* The second bracket of [[ does not count.
Cost(t) == IF t.tok \in {"STRING", "NEWLINE", "LBRACE", "LBRACKET"} /\ ~(tok.twin /\ ~t.twin) THEN 1 ELSE 0

\* At the end of the text, and where it cannot go on, next_token stays.
Stays == tok = Stuck \/ tok.eof

\* The tokens next_token may find after tok.
next_token(dotisspecial) ==
    CASE Stays -> {tok}
      [] ~Stays /\ tok.twin -> {Token(tok.tok)} \cup {t \in {Twin(tok.tok)} : Cost(t) <= text.left}
      [] ~Stays /\ ~tok.twin /\ text.left = 0 -> {Eof} \cup {t \in Tokens(dotisspecial) : Cost(t) = 0}
      [] OTHER -> Tokens(dotisspecial)

-----------------------------------------------------------------------------
\* The tree.  An entry of a table and an item of an array say what they are
\* ('v'alue, 'a'rray or 't'able) and which one (for a value: its type).

NewTable == [implicit |-> FALSE, readonly |-> FALSE, ents |-> <<>>, defs |-> 0]
NewArray(k) == [kind |-> k, type |-> "0", items |-> <<>>]
Root == 1

\* head is the path of the last header, defs how often a header or {...} has
\* defined a table: neither is kept by the program.
EmptyDoc == [tabs |-> <<NewTable>>, arrs |-> <<>>, cur |-> Root, head |-> <<>>]

Entries(d, t, key) == {e \in Range(d.tabs[t].ents) : e.key = key}
Kind(d, t, key) == {e.kind : e \in Entries(d, t, key)}

\* What check_key finds first: values before arrays before tables.
check_key(d, t, key) ==
    LET es == Entries(d, t, key)
        First(k) == CHOOSE e \in es : e.kind = k
    IN IF es = {} THEN [key |-> key, kind |-> "none", ref |-> 0]
       ELSE First(IF "v" \in Kind(d, t, key) THEN "v" ELSE IF "a" \in Kind(d, t, key) THEN "a" ELSE "t")

\* normalize_key refuses a character that a bare key may not have.
normalize_key(key) == key # BadKey

AddEntry(d, t, key, kind, ref) ==
    [d EXCEPT !.tabs[t].ents = Append(@, [key |-> key, kind |-> kind, ref |-> ref])]

NoDoc == [EmptyDoc EXCEPT !.tabs = <<>>, !.cur = 0]

\* Variant: a key that is an array or a table is not noticed.
create_keyval_values_only(d, t, key, val) ==
    IF ~normalize_key(key) \/ check_key(d, t, key).kind = "v"
    THEN NoDoc ELSE AddEntry(d, t, key, "v", val)

\* create_keyval_in_table; NoDoc stands for the error.
create_keyval(d, t, key, val) ==
    IF ~normalize_key(key) \/ check_key(d, t, key).kind # "none"
    THEN NoDoc ELSE AddEntry(d, t, key, "v", val)

\* Variant: a table stays implicit when it is defined.
create_keytable_twice(d, t, key) ==
    LET e == check_key(d, t, key)
        n == Len(d.tabs) + 1
    IN CASE e.kind = "t" /\ d.tabs[e.ref].implicit -> [doc |-> d, tab |-> e.ref]
         [] e.kind = "none" /\ normalize_key(key) ->
              [doc |-> AddEntry([d EXCEPT !.tabs = Append(@, NewTable)], t, key, "t", n), tab |-> n]
         [] OTHER -> [doc |-> NoDoc, tab |-> 0]

\* create_keytable_in_table: an implicit table is made explicit and taken.
create_keytable(d, t, key) ==
    LET e == check_key(d, t, key)
        n == Len(d.tabs) + 1
    IN CASE e.kind = "t" /\ d.tabs[e.ref].implicit ->
              [doc |-> [d EXCEPT !.tabs[e.ref].implicit = FALSE], tab |-> e.ref]
         [] e.kind = "none" /\ normalize_key(key) ->
              [doc |-> AddEntry([d EXCEPT !.tabs = Append(@, NewTable)], t, key, "t", n), tab |-> n]
         [] OTHER -> [doc |-> NoDoc, tab |-> 0]

\* create_keyarray_in_table
create_keyarray(d, t, key, kind) ==
    LET n == Len(d.arrs) + 1
    IN IF ~normalize_key(key) \/ check_key(d, t, key).kind # "none"
       THEN [doc |-> NoDoc, arr |-> 0]
       ELSE [doc |-> AddEntry([d EXCEPT !.arrs = Append(@, NewArray(kind))], t, key, "a", n), arr |-> n]

\* Variant: the kind is set by the first element only.
KindWith_first(a, k) == IF a.kind = "0" THEN k ELSE a.kind

\* The kind of an array after one more element of kind k.
KindWith(a, k) == IF a.kind \in {"0", k} THEN k ELSE "m"

\* parse_array's case STRING, with create_value_in_array
AddValue(d, a, v) ==
    LET r == d.arrs[a]
        type == IF r.items = <<>> \/ r.type = v THEN v ELSE "m"
    IN [d EXCEPT !.arrs[a] = [kind |-> KindWith(r, "v"), type |-> type,
                              items |-> Append(r.items, [kind |-> "v", ref |-> v])]]

\* create_array_in_array, create_table_in_array: the new item comes last.
AddItem(d, a, k, ref) ==
    [d EXCEPT !.arrs[a] = [kind |-> KindWith(@, k), type |-> @.type,
                           items |-> Append(@.items, [kind |-> k, ref |-> ref])]]
create_array_in_array(d, a) ==
    AddItem([d EXCEPT !.arrs = Append(@, NewArray("0"))], a, "a", Len(d.arrs) + 1)
create_table_in_array(d, a) ==
    AddItem([d EXCEPT !.tabs = Append(@, NewTable)], a, "t", Len(d.tabs) + 1)
-----------------------------------------------------------------------------
\* The calls.  A frame says in which function the parser is and where.

Frame(at, id)  == [at |-> at, id |-> id, key |-> "", path |-> <<>>, llb |-> FALSE]
KeyFrame(at, t, key) == [Frame(at, t) EXCEPT !.key = key]

At(place) == stack # <<>> /\ Head(stack).at = place
top       == Head(stack)
rest      == Tail(stack)
Is(k)     == tok.tok = k

\* goto fail: the tree is freed and toml_parse returns 0.
fail ==
    /\ ret' = "null" /\ stack' = <<>> /\ doc' = NoDoc /\ tok' = Eof /\ text' = [marks |-> {}, left |-> 0]

\* There may be more characters, and they may begin a string that scan_string
\* finds unterminated or wrongly escaped.
BadString == text.left > 0 /\ ~tok.eof /\ ~tok.twin /\ tok # Stuck

\* Take the next token, the calls being s and the tree d from now on; d is
\* NoDoc when making an entry failed.
Continue(dotisspecial, s, d) ==
    \/ (d = NoDoc \/ BadString) /\ fail
    \/ /\ d # NoDoc
       /\ tok' \in next_token(dotisspecial)
       /\ text' = [text EXCEPT !.left = IF @ = 0 THEN 0 ELSE @ - Cost(tok')]
       /\ stack' = s
       /\ doc' = d
       /\ ret' = ret

\* Enter parse_keyval for table t; the STRING is its key.
parse_keyval(t, s) ==
    IF Is("STRING") /\ ~doc.tabs[t].readonly
    THEN Continue(TRUE, <<KeyFrame("keyval", t, tok.text)>> \o s, doc)
    ELSE fail

\* key.subkey: go on in the table key, which is made if need be.
DottedKey ==
    /\ At("keyval") /\ Is("DOT")
    /\ LET e == check_key(doc, top.id, top.key)
           c == create_keytable(doc, top.id, top.key)
       IN IF \E x \in Entries(doc, top.id, top.key) : x.kind = "t"
          THEN Continue(TRUE, <<Frame("dotted", e.ref)>> \o rest, doc)
          ELSE Continue(TRUE, <<Frame("dotted", c.tab)>> \o rest, c.doc)

SubKey == At("dotted") /\ parse_keyval(top.id, rest)

Equal ==
    /\ At("keyval") /\ Is("EQUAL")
    /\ Continue(FALSE, <<KeyFrame("value", top.id, top.key)>> \o rest, doc)

NoEqual == At("keyval") /\ ~Is("DOT") /\ ~Is("EQUAL") /\ fail

\* key = value, key = [...] and key = {...}
StringValue ==
    /\ At("value") /\ Is("STRING")
    /\ Continue(TRUE, rest, create_keyval(doc, top.id, top.key, tok.text))

ArrayValue ==
    /\ At("value") /\ Is("LBRACKET")
    /\ LET c == create_keyarray(doc, top.id, top.key, "0")
       IN Continue(FALSE, <<Frame("array", c.arr)>> \o rest, c.doc)

Defined(d, t) == [d EXCEPT !.tabs[t].defs = @ + 1]

TableValue ==
    /\ At("value") /\ Is("LBRACE")
    /\ LET c == create_keytable(doc, top.id, top.key)
       IN IF c.doc = NoDoc THEN fail
          ELSE Continue(TRUE, <<Frame("inline", c.tab)>> \o rest, Defined(c.doc, c.tab))

NoValue == At("value") /\ ~Is("STRING") /\ ~Is("LBRACKET") /\ ~Is("LBRACE") /\ fail

-----------------------------------------------------------------------------
\* parse_array: "array" before an element, "arrayNext" after one.

\* Variant: the loop goes on at the end of the text.
SkipsForever == Is("NEWLINE")

\* The loop of skip_newlines goes on.
Skips == Is("NEWLINE") /\ ~tok.eof

skip_newlines ==
    (At("array") \/ At("arrayNext")) /\ Skips /\ Continue(FALSE, stack, doc)

Next_element == <<Frame("arrayNext", top.id)>> \o rest

ArrayElement ==
    /\ At("array")
    /\ \/ Is("STRING") /\ Continue(FALSE, Next_element, AddValue(doc, top.id, tok.text))
       \/ LET d == create_array_in_array(doc, top.id)
          IN Is("LBRACKET") /\ Continue(FALSE, <<Frame("array", Len(d.arrs))>> \o Next_element, d)
       \/ LET d == create_table_in_array(doc, top.id)
          IN Is("LBRACE") /\ Continue(TRUE, <<Frame("inline", Len(d.tabs))>> \o Next_element,
                                      Defined(d, Len(d.tabs)))
       \/ tok.tok \in {"COMMA", "EQUAL", "RBRACE", "NEWLINE"} /\ ~Skips /\ fail

ArrayNext ==
    /\ At("arrayNext") /\ ~Skips
    /\ CASE Is("COMMA") -> Continue(FALSE, <<Frame("array", top.id)>> \o rest, doc)
         [] Is("RBRACKET") -> Continue(TRUE, rest, doc)
         [] OTHER -> fail

ArrayEnd == At("array") /\ Is("RBRACKET") /\ Continue(TRUE, rest, doc)

\* parse_inline_table: "inline" before a key, "inlineNext" after a value.
InlineKey == At("inline") /\ ~Is("RBRACE") /\ parse_keyval(top.id, <<Frame("inlineNext", top.id)>> \o rest)

InlineComma ==
    At("inlineNext") /\ Is("COMMA") /\ Continue(TRUE, <<Frame("inline", top.id)>> \o rest, doc)

InlineEnd ==
    /\ (At("inline") \/ At("inlineNext")) /\ Is("RBRACE")
    /\ Continue(TRUE, rest, [doc EXCEPT !.tabs[top.id].readonly = TRUE])

InlineBad == At("inlineNext") /\ ~Is("COMMA") /\ ~Is("RBRACE") /\ fail

-----------------------------------------------------------------------------
\* parse_select: [x.y.z] and [[x.y.z]]

OpenHeader ==
    /\ At("doc") /\ Is("LBRACKET")
    /\ Continue(TRUE, <<[Frame(IF tok.twin THEN "open" ELSE "path", 0) EXCEPT !.llb = tok.twin]>> \o stack, doc)

OpenTwin ==
    At("open") /\ Continue(TRUE, <<[top EXCEPT !.at = "path"]>> \o rest, doc)

\* fill_tabpath: a key, then a dot or the bracket.
PathKey ==
    /\ At("path")
    /\ IF Is("STRING") /\ normalize_key(tok.text) /\ Len(top.path) < PathMax
       THEN Continue(TRUE, <<[top EXCEPT !.at = "pathNext", !.path = Append(@, tok.text)]>> \o rest, doc)
       ELSE fail

PathDot ==
    At("pathNext") /\ Is("DOT") /\ Continue(TRUE, <<[top EXCEPT !.at = "path"]>> \o rest, doc)

PathBad == At("pathNext") /\ ~Is("DOT") /\ ~Is("RBRACKET") /\ fail

\* Variant: the first table of an array.
FirstTable(d, a) == Head(d.arrs[a].items).ref

\* The table an array stands for in a path: its last one.
LastTable(d, a) == Last(d.arrs[a].items).ref

\* One key of walk_tabpath: tables on the way are made, and are implicit.
WalkKey(w, key) ==
    LET e == check_key(w.doc, w.cur, key)
        n == Len(w.doc.tabs) + 1
        new == [NewTable EXCEPT !.implicit = TRUE]
    IN IF w.cur = 0 THEN w ELSE
       CASE e.kind = "t" -> [w EXCEPT !.cur = e.ref]
         [] e.kind = "a" /\ w.doc.arrs[e.ref].kind = "t" -> [w EXCEPT !.cur = LastTable(w.doc, e.ref)]
         [] e.kind = "none" ->
              [cur |-> n, doc |-> AddEntry([w.doc EXCEPT !.tabs = Append(@, new)], w.cur, key, "t", n)]
         [] OTHER -> [cur |-> 0, doc |-> NoDoc]

walk_tabpath(d, path) == FoldLeft(WalkKey, [cur |-> Root, doc |-> d], path)

\* [x.y.z]: the table z of x.y, which must not be defined yet.
SelectTable(d, path) ==
    LET w == walk_tabpath(d, Front(path))
        c == create_keytable(w.doc, w.cur, Last(path))
    IN IF w.cur = 0 \/ c.tab = 0 THEN NoDoc
       ELSE [Defined(c.doc, c.tab) EXCEPT !.cur = c.tab, !.head = path]

\* [[x.y.z]]: one more table of the array z, made if need be.
SelectArray(d, path) ==
    LET w == walk_tabpath(d, Front(path))
        z == {e \in Entries(w.doc, w.cur, Last(path)) : e.kind = "a"}
        c == IF z # {} THEN [doc |-> w.doc, arr |-> (CHOOSE e \in z : TRUE).ref]
             ELSE create_keyarray(w.doc, w.cur, Last(path), "t")
        t == create_table_in_array(c.doc, c.arr)
    IN IF w.cur = 0 THEN NoDoc
       ELSE IF c.arr = 0 THEN NoDoc
       ELSE IF c.doc.arrs[c.arr].kind # "t" THEN NoDoc
       ELSE [Defined(t, Len(t.tabs)) EXCEPT !.cur = Len(t.tabs), !.head = path]

CloseHeader ==
    /\ At("pathNext") /\ Is("RBRACKET")
    /\ IF top.llb /\ ~tok.twin THEN fail
       ELSE Continue(TRUE, <<Frame(IF top.llb THEN "close" ELSE "header", 0)>> \o rest,
                     IF top.llb THEN SelectArray(doc, top.path) ELSE SelectTable(doc, top.path))

CloseTwin == At("close") /\ Continue(TRUE, <<Frame("header", 0)>> \o rest, doc)

HeaderEnd ==
    /\ At("header")
    /\ IF Is("NEWLINE") THEN stack' = rest /\ UNCHANGED <<tok, text, doc, ret>> ELSE fail

-----------------------------------------------------------------------------
\* toml_parse: the loop over the lines.

Init ==
    /\ tok = Token("NEWLINE") /\ text \in Texts
    /\ stack = <<Frame("doc", 0)>> /\ doc = EmptyDoc /\ ret = "none"

EmptyLine == At("doc") /\ Is("NEWLINE") /\ ~tok.eof /\ Continue(TRUE, stack, doc)

KeyLine == At("doc") /\ Is("STRING") /\ parse_keyval(doc.cur, <<Frame("line", 0)>> \o stack)

LineEnd == At("line") /\ (IF Is("NEWLINE") THEN Continue(TRUE, rest, doc) ELSE fail)

BadLine ==
    At("doc") /\ tok.tok \in {"DOT", "COMMA", "EQUAL", "LBRACE", "RBRACE", "RBRACKET"} /\ fail

Parsed ==
    At("doc") /\ tok.eof /\ ret' = "root" /\ stack' = <<>> /\ UNCHANGED <<tok, text, doc>>

Keyval == DottedKey \/ SubKey \/ Equal \/ NoEqual \/ StringValue \/ ArrayValue \/ TableValue \/ NoValue
Array  == skip_newlines \/ ArrayElement \/ ArrayNext \/ ArrayEnd
Inline == InlineKey \/ InlineComma \/ InlineEnd \/ InlineBad
Select == OpenHeader \/ OpenTwin \/ PathKey \/ PathDot \/ PathBad \/ CloseHeader \/ CloseTwin \/ HeaderEnd
Next   == Keyval \/ Array \/ Inline \/ Select \/ EmptyLine \/ KeyLine \/ LineEnd \/ BadLine \/ Parsed

\* The parser is one thread that waits for nothing.
Spec == Init /\ [][Next]_vars /\ WF_vars(Next)

-----------------------------------------------------------------------------
\* A key has one meaning in a table: create_keyval_in_table and its two
\* siblings look it up among values, arrays and tables, and walk_tabpath
\* makes a table only when there is none of the three.
KeysUnique ==
    \A t \in DOMAIN doc.tabs : LET es == doc.tabs[t].ents
                                IN \A i, j \in DOMAIN es : es[i].key = es[j].key => i = j

\* A table is defined once, by a header or by {...}: only a table that was
\* made on the way to another one is still open to it, and the definition
\* uses that up (create_keytable_in_table).
DefinedOnce == \A t \in DOMAIN doc.tabs : doc.tabs[t].defs <= 1

\* A name stands for one thing and that is defined once: both of the above
\* (toml.c:718-802).
NamesSound == KeysUnique /\ DefinedOnce

\* What an array says of its items is true, whatever was appended in which
\* order; walk_tabpath trusts it when it goes on in the last table.
ArraysTrue ==
    \A a \in DOMAIN doc.arrs :
        LET r == doc.arrs[a]
            is == Range(r.items)
        IN /\ r.kind \in {"v", "a", "t"} => \A i \in is : i.kind = r.kind
           /\ r.kind = "m" => \E i, j \in is : i.kind # j.kind
           /\ r.kind = "t" => is # {}
           /\ r.kind = "v" => r.type = (IF \A i, j \in is : i.ref = j.ref
                                        THEN Head(r.items).ref ELSE "m")

\* The table that key = value lines go to (ctx->curtab) is the one a reader
\* finds under the path of the last header, through the last table of every
\* array on the way.
Found(d, path) ==
    FoldLeft(LAMBDA t, key :
               LET e == check_key(d, t, key)
               IN IF t \notin DOMAIN d.tabs THEN 0 ELSE
                  CASE e.kind = "t" -> e.ref
                    [] e.kind = "a" /\ d.arrs[e.ref].kind = "t" -> Last(d.arrs[e.ref].items).ref
                    [] OTHER -> 0,
             Root, path)
HeaderHolds == doc.cur # 0 => Found(doc, doc.head) = doc.cur

\* Every text is answered, with the tree or with 0, also one that ends
\* within an array (skip_newlines) or stands on a character no token begins
\* with (scan_string).
ParseEnds == <>(ret # "none")
=============================================================================

------------------------------ MODULE Detector ------------------------------
(***************************************************************************)
(* jpeg_zip_detector (src/hw02): looks for the markers of a jpeg and then, *)
(* in what is left of the file, for the headers of a zip archive.  The      *)
(* registers that the bytes are shifted through are sequences of bytes      *)
(* here.  Of a central directory header the fields but the length of the    *)
(* name are left out.                                                       *)
(***************************************************************************)
EXTENDS Naturals, Sequences, FiniteSets, SequencesExt

CONSTANTS
    BUFF_LEN,    \* 256: room for a name
    Pieces,      \* what a file is put together from, as bytes: Signatures, Strays, Entries
    MaxPieces,   \* bound: pieces of a file
    MaxCut       \* bound: bytes missing at the end

VARIABLES
    scan,      \* "start", "jpeg", "zip", "done" or, buff overrun, "undefined"
    file,      \* the bytes of the file
    made,      \* history: the pieces the file was put together from
    cut,       \* history: how many bytes are missing
    pos,       \* where the next fread() begins
    read,      \* the variable i: bytes read, as printed
    sign,      \* jpeg_sign or zip_sign
    found,     \* [scan -> found_sign_count]
    files, catalogs   \* file_count, catalog_count

vars == <<scan, file, made, cut, pos, read, sign, found, files, catalogs>>

\* The signatures of sign.h.
JpegSigns == {<<255, b>> : b \in {216, 192, 193, 194, 196, 219, 221, 218, 254, 217}
                                   \cup 208 .. 223 \cup 224 .. 239}
EOI       == <<255, 217>>
CDH       == <<80, 75, 1, 2>>
LFH       == <<80, 75, 3, 4>>
ZipSigns  == {LFH, CDH, <<80, 75, 6, 8>>, <<80, 75, 5, 5>>, <<80, 75, 6, 6>>, <<80, 75, 6, 7>>,
              <<80, 75, 5, 6>>}

HeaderSize == 2      \* sizeof(cfh): the two bytes of name_len

\* Pieces: a signature; other bytes, none of them a K, that hold no marker; a
\* central directory header with its name.
Signatures == JpegSigns \cup (ZipSigns \ {CDH})
Strays     == {p \in Pieces : /\ p # <<>> /\ p[Len(p)] # 255
                              /\ \A q \in DOMAIN p : p[q] # 75
                              /\ \A q \in 1 .. Len(p) - 1 : <<p[q], p[q + 1]>> \notin JpegSigns}
Entries    == {p \in Pieces : /\ Len(p) >= 6 /\ Len(p) = 6 + p[5] + 256 * p[6]
                              /\ p[1] = 80 /\ p[2] = 75 /\ p[3] = 1 /\ p[4] = 2
                              /\ \A q \in DOMAIN p : p[q] # 255}

Init ==
    /\ scan = "start" /\ file = <<>> /\ made = <<>> /\ cut = 0 /\ pos = 1 /\ read = 0
    /\ sign = <<0, 0>> /\ found = [s \in {"jpeg", "zip"} |-> 0] /\ files = 0 /\ catalogs = 0

Open ==
    /\ scan = "start" /\ scan' = "jpeg"
    /\ made' \in UNION {[1 .. n -> Pieces] : n \in 0 .. MaxPieces}
    /\ LET bytes == FlattenSeq(made')
       IN  \E c \in 0 .. MaxCut : /\ c <= Len(bytes) /\ cut' = c
                                  /\ file' = SubSeq(bytes, 1, Len(bytes) - c)
    /\ UNCHANGED <<pos, read, sign, found, files, catalogs>>

Eof        == pos > Len(file)
Shift(reg) == Append(Tail(reg), file[pos])

\* One turn of the first loop; EOI ends it.
JpegByte ==
    /\ scan = "jpeg" /\ ~Eof
    /\ pos' = pos + 1 /\ read' = read + 1
    /\ LET s == Shift(sign)
       IN  /\ found' = [found EXCEPT !["jpeg"] = @ + (IF s \in JpegSigns THEN 1 ELSE 0)]
           /\ IF s = EOI THEN scan' = "zip" /\ sign' = <<0, 0, 0, 0>>
                         ELSE sign' = s /\ UNCHANGED scan
    /\ UNCHANGED <<file, made, cut, files, catalogs>>

\* There is no rewind(): after a first loop that met no EOI nothing is left.
JpegEof ==
    /\ scan = "jpeg" /\ Eof
    /\ scan' = "zip" /\ sign' = <<0, 0, 0, 0>>
    /\ UNCHANGED <<file, made, cut, pos, read, found, files, catalogs>>

ZipByte ==
    /\ scan = "zip" /\ ~Eof /\ Shift(sign) # CDH
    /\ pos' = pos + 1 /\ read' = read + 1
    /\ sign' = Shift(sign)
    /\ found' = [found EXCEPT !["zip"] = @ + (IF sign' \in ZipSigns THEN 1 ELSE 0)]
    /\ UNCHANGED <<scan, file, made, cut, files, catalogs>>

Whole(p, n) == p + n - 1 <= Len(file)     \* fread() returns an item

\* Variant: the header is looked at where it is, the name is not read.
CentralHeaderPeek ==
    /\ scan = "zip" /\ ~Eof /\ Shift(sign) = CDH
    /\ sign' = Shift(sign)
    /\ found' = [found EXCEPT !["zip"] = @ + 1]
    /\ pos' = pos + 1 /\ read' = read + 1
    /\ files' = files + 1
    /\ UNCHANGED <<scan, file, made, cut, catalogs>>

\* The header and the name are read whole or, at the end of the file, not
\* counted; nor is an empty name, of which fread() returns no item.  A name is
\* read into buff whatever its length (main.c:107).
CentralHeader ==
    /\ scan = "zip" /\ ~Eof /\ Shift(sign) = CDH
    /\ sign' = Shift(sign)
    /\ found' = [found EXCEPT !["zip"] = @ + 1]
    /\ LET head == pos + 1
           name == head + HeaderSize
           size == file[head] + 256 * file[head + 1]        \* name_len
       IN  IF ~Whole(head, HeaderSize)
             THEN pos' = Len(file) + 1 /\ read' = read + 1 /\ UNCHANGED <<scan, files, catalogs>>
             ELSE IF size > BUFF_LEN /\ Whole(name, BUFF_LEN + 1)
             THEN scan' = "undefined" /\ UNCHANGED <<pos, read, files, catalogs>>
             ELSE IF size = 0 \/ ~Whole(name, size)
             THEN /\ pos' = (IF size = 0 THEN name ELSE Len(file) + 1)
                  /\ read' = read + 1 + HeaderSize /\ UNCHANGED <<scan, files, catalogs>>
             ELSE /\ pos' = name + size /\ read' = read + 1 + HeaderSize + size /\ UNCHANGED scan
                  /\ IF file[name + size - 1] = 47
                       THEN catalogs' = catalogs + 1 /\ UNCHANGED files
                       ELSE files' = files + 1 /\ UNCHANGED catalogs
    /\ UNCHANGED <<file, made, cut>>

ZipEof ==
    /\ scan = "zip" /\ Eof /\ scan' = "done"
    /\ UNCHANGED <<file, made, cut, pos, read, sign, found, files, catalogs>>

Next == Open \/ JpegByte \/ JpegEof \/ ZipByte \/ CentralHeader \/ ZipEof

----------------------------------------------------------------------------
(* Properties. *)

\* Where in the making of the file the scan for zip headers begins.
ZipFrom == IF \E n \in DOMAIN made : made[n] = EOI
             THEN 1 + (CHOOSE n \in DOMAIN made : made[n] = EOI /\ \A k \in 1 .. n - 1 : made[k] # EOI)
             ELSE Len(made) + 1

Among(from, to, kinds) == Cardinality({n \in from .. to : made[n] \in kinds})

\* The entries by their names: those of files, of catalogs, and too long ones.
FileNames    == {p \in Entries : Len(p) > 6 /\ p[Len(p)] # 47}
CatalogNames == {p \in Entries : Len(p) > 6 /\ p[Len(p)] = 47}
LongNames    == {p \in Entries : Len(p) > 6 + BUFF_LEN}

\* Of a file that is not cut off: every marker up to the first EOI and every zip
\* signature after it is counted once, whatever bytes lie between them and
\* whatever is in a name, signatures included; a name is counted as that of a file
\* or of a catalog, an empty one as neither; and the size printed is the file's.
\* But nothing is sure once a name behind the first EOI is longer than buff, and
\* such a name never passes unharmed (main.c:36-145).
ScanRight ==
    cut = 0 =>
        /\ scan = "done" =>
             /\ found["jpeg"] = Among(1, ZipFrom - 1, JpegSigns)
             /\ found["zip"] = Among(ZipFrom, Len(made), (ZipSigns \ {CDH}) \cup Entries)
             /\ files = Among(ZipFrom, Len(made), FileNames)
             /\ catalogs = Among(ZipFrom, Len(made), CatalogNames)
             /\ read = Len(file)
        /\ scan = "done" => Among(ZipFrom, Len(made), LongNames) = 0
        /\ scan = "undefined" => Among(ZipFrom, Len(made), LongNames) > 0

=============================================================================

----------------------------- MODULE MCPrograms -----------------------------
(* Small instances of the programs of Programs. *)
EXTENDS Programs

\* Four names, the first a prefix of the second.
MCPrefix == {<<1, 1>>, <<2, 2>>, <<3, 3>>, <<4, 4>>, <<1, 2>>}

\* Requests of three words, of one with two letters, and of too few or empty ones.
MCRequests == {<<<<"G">>, <<"u">>, <<"H">>>>, <<<<"G">>, <<"u", "v">>, <<"H">>>>,
               <<<<"G">>, <<>>, <<"H">>>>, <<<<"G">>, <<"u">>>>, <<<<"G">>>>, <<<<>>>>}
MCSizes    == {<<"1", "2">>}
MCReferers == {<<"-">>, <<"r", "s", "t">>, <<"t", "o", "o", "s", "w", "i", "d", "e">>, <<>>}

\* Code points of ASCII and at the edges of the lengths, up to four digits and up
\* to 31 bits.
MCCodes    == {65, 97, 128, 2047, 2048, 65535}
MCUcsCodes == {-1, 0, 127, 128, 2047, 2048, 55295, 57343, 57344, 65533, 65535, 65536,
               2097151, 2097152, 67108863, 67108864, 2147483647}

\* A method and a path of each kind have no room; the third header fits with its
\* CR and LF, the others are shorter or longer.
MCMethods == {<<"G">>, <<"G", "E", "T">>, <<"P", "O", "S", "T">>}
MCPaths   == {<<"/">>, <<"/", "a">>, <<"/", "a", "b">>}
MCHeaders == {<<"h">>, <<"h", "s", "a", "b", "c", "d", "e">>,
              <<"h", "s", "a", "b", "c", "d", "e", "f">>,
              <<"h", "s", "a", "b", "c", "d", "e", "f", "g">>,
              <<"h", "s", "a", "b", "c", "d", "e", "f", "g", "h">>}

\* Markers, the beginnings of signatures, other bytes, signatures, and names that
\* are empty, a file's, a catalog's, like a signature, and too long for buff.
MCNames  == {<<>>, <<97>>, <<97, 47>>, <<80, 75, 3, 4>>, <<97, 97, 97, 97, 47>>}
MCPieces == {<<255, 216>>, <<255, 209>>, <<255, 217>>, <<255, 80, 80>>, <<0>>,
             <<80, 75, 3, 4>>, <<80, 75, 5, 6>>}
              \cup {<<80, 75, 1, 2, Len(name), 0>> \o name : name \in MCNames}

MCValues == {-4, -1, 0, 3}

=============================================================================

------------------------------ MODULE MCWebDav ------------------------------
(***************************************************************************)
(* WebDav with two workers, buffers of five units, and one file, in a      *)
(* directory that may be missing.  A body is shorter than a buffer or one  *)
(* unit longer, Content-Length is at or below what follows the headers,    *)
(* and header blocks end before the end of the buffer, with it, or not at  *)
(* all.                                                                    *)
(***************************************************************************)
EXTENDS WebDav

CONSTANTS cardDir, cardFile, letter

MCBytes == {Cr, Lf, letter} \cup 1..12

MCAbove == [x \in {cardDir, cardFile} |-> IF x = cardFile THEN {cardDir} ELSE {}]

Short == <<Cr, Lf, Cr, Lf>>
Full  == <<letter, Cr, Lf, Cr, Lf>>
Long  == <<letter, letter, Cr, Lf, Cr, Lf>>

Request(head, method, path) ==
    [head |-> head, body |-> <<>>, parses |-> TRUE, method |-> method, path |-> path, length |-> 0]

Put(head, body, length) ==
    [Request(head, "PUT", cardFile) EXCEPT !.body = body, !.length = length]

MCRequests ==
    {Put(Short, <<1, 2, 3, 4, 5, 6>>, 6), Put(Full, <<11, 12>>, 1)}
    \cup {Request(Short, m, cardFile) : m \in {"GET", "DELETE"}}

MCOddRequests ==
    {Request(Short, "HEAD", cardFile), Request(Short, "PROPFIND", cardDir), Request(Short, "MKCOL", cardDir),
     Request(Short, "DELETE", cardDir), Request(Short, "GET", DotDot), Request(Short, "LOCK", Root),
     [Request(Short, "PUT", cardFile) EXCEPT !.parses = FALSE], Request(Long, "OPTIONS", cardFile)}

MCAll == MCRequests \cup MCOddRequests

=============================================================================

---------------------------- MODULE MCMenuLoader ---------------------------
(***************************************************************************)
(* MenuLoader with pages of two rows and up to five entries; of the        *)
(* strings one is empty, one has a pipe and a blank in it and is too long  *)
(* for the block, and one is longer than MaxString.                        *)
(***************************************************************************)
EXTENDS MenuLoader

CONSTANTS a, b

MCChars == {a, b, Pipe, Hash, Blank}

Enter   == [kind |-> "enter", n |-> 0]
Jump(n) == [kind |-> "jump", n |-> n]

MCKeys    == {Move(1), Move(-1), Page(1), Page(-1), Jump(2), Jump(8), Enter}
MCFiles   == {[size |-> 1, capacity |-> 2], [size |-> 2, capacity |-> 2], [size |-> 2, capacity |-> 0]}

Comment   == <<Blank, Hash, a, Pipe, b>>
Malformed == <<a, Blank, b>>

One == <<Comment, <<>>, <<a, Blank, Pipe, Blank, b, Blank>>, Malformed>>
Two == <<<<Pipe, a>>, <<Blank>>, <<b, b, b, Pipe>>>>
Six == <<<<a, Pipe, a>>, <<a, Pipe, Blank>>, Malformed, <<Blank, a, Pipe, a, Pipe, Blank, b>>,
         <<b, Pipe, b, a, a, a, a>>, Comment, <<b, Pipe, b>>, <<b, Pipe, a>>>>

MCMenuFiles == {Missing, <<Comment, Malformed>>, One, Two, Six}
OnlySix     == {Six}

MCScripts == {<<>>, <<Move(1), Move(1)>>, <<Jump(8), Page(-1), Enter>>}
Script    == {<<Jump(2), Move(1), Enter>>}

=============================================================================

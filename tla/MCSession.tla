----------------------------- MODULE MCSession -----------------------------
(***************************************************************************)
(* A small instance of Session: two players and a third id whose default   *)
(* name one of them may take, a fresh name and an overlong one, one stream *)
(* of the caller and two files of the library.                             *)
(***************************************************************************)
EXTENDS Session

CONSTANTS name0, name1, name2, red, long, caller, file1, file2

ThreeIds  == 0..2
TwoPlayers == {0, 1}
SomeNames == {name0, name1, name2, red, long}
SomeDefaults == [i \in ThreeIds |-> IF i = 0 THEN name0 ELSE IF i = 1 THEN name1
                                   ELSE name2]
TooLong   == {long}
TwoTicks  == {1, 2}
OneStream == {caller}
TwoFiles  == {file1, file2}
=============================================================================

---------------------------- MODULE MCRoomGraph ----------------------------
(***************************************************************************)
(* Small instances of the room graph for TLC.                              *)
(***************************************************************************)
EXTENDS GraphProps

CONSTANTS ra, rb, rc, rd, re

Names == {ra, rb, rc, rd, re}

(* Four rooms on a path with a chord that costs more than the walk around  *)
(* it; a fifth room that finds the map full if it comes last; a room       *)
(* linked to itself; costs of 0 and above the cap.                         *)
MapReports   == {<<ra, rb, 1>>, <<rb, rc, 1>>, <<ra, rc, 3>>, <<rc, rd, 1>>,
                 <<rb, re, 1>>, <<rb, rb, 1>>, <<ra, rb, 0>>, <<ra, rb, 20>>}
MapClosures  == {<<rc, rb>>, <<ra, rc>>, <<ra, ra>>}
============================================================================

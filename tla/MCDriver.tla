------------------------------ MODULE MCDriver ------------------------------
(***************************************************************************)
(* The driver's own instance: its players, its rooms and its calls.        *)
(***************************************************************************)
EXTENDS Driver

Cast  == {red, orange, yellow, pink, lime, blue, gray, white, brown, darkTeal, green}
Seats == red :> 0 @@ orange :> 1 @@ yellow :> 2 @@ pink :> 4 @@ lime :> 5
         @@ blue :> 6 @@ gray :> 8 @@ white :> 9 @@ brown :> 11 @@ darkTeal :> 12
         @@ green :> 13
Skeld4   == {cafeteria, admin, medbay, storage}
OneSkeld == {Skeld}
NoSelf   == {Nobody}
None     == {}

PlayedSightings == Played("player")
PlayedBodies    == Played("body")
PlayedTasks     == Played("task")
PlayedEjections == Played("ejection")
PlayedVents     == Played("vent")
PlayedCounts    == Played("config")
PlayedClaims    == Played("claim")
PlayedVotes     == Played("vote")
PlayedDefenses  == Played("defense")
=============================================================================

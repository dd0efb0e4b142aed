-------------------------- MODULE BeliefsProgress --------------------------
(***************************************************************************)
(* Why fd_run returns with claims, votes and weights on the agenda.  The   *)
(* belief rules write no fact of Detective, so their own work comes after  *)
(* its: contradictions and corroborations to derive, suspicions to retract *)
(* and to open, terms to assert.                                           *)
(***************************************************************************)
EXTENDS Beliefs, Progress

LaterWork ==
  << ContradictionLHS, CorroborationLHS, RetractSuspicionLHS, SuspicionEnsureLHS,
     Missing(PriorTerms \cup Band90Terms) >>
AllWork == [i \in 1..30 |-> IF i <= 25 THEN Work[i] ELSE LaterWork[i - 25]]

(* Every rule that fires leaves less to do, those that take logical terms  *)
(* away with their evidence included (suspicion.clp, claims.clp).          *)
BeliefsMakeProgress ==
  [][DetectiveRule \/ BeliefRule => Less(AllWork', AllWork)]_everyVar
=============================================================================

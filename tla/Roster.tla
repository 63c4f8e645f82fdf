------------------------------- MODULE Roster -------------------------------
(***************************************************************************)
(* The players in the game (Game::players), which every link between two   *)
(* players relies on: a pointer to a player is good while it is here.      *)
(***************************************************************************)
EXTENDS Integers, Sequences

CONSTANTS
  Players,
  None

ASSUME RosterAssumption == None \notin Players

VARIABLE online

\* Game::addPlayer and Game::removePlayer.
Enters(p) == p \notin online /\ online' = online \cup {p}
Leaves(p) == p \in online /\ online' = online \ {p}
=============================================================================

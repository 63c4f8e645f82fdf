------------------------------- MODULE Logins -------------------------------
(***************************************************************************)
(* Log-ins on a full server: the sessions of Session.tla, whose logins ask *)
(* the list of WaitingList.tla (ProtocolGame::login).  A client that is    *)
(* told to wait is disconnected and comes back as another session; one     *)
(* that the list lets in may still fail to load or to be placed, and has   *)
(* lost its entry; a character that is in the game is taken over without a *)
(* look at the list.                                                       *)
(*                                                                         *)
(* The other scene has the list alone, with more clients and the clock.    *)
(***************************************************************************)
EXTENDS Session, WaitingList, TLC

CONSTANT Scenes  \* bound: what the behaviours are about

ASSUME LoginsAssumption == Names \subseteq Players

VARIABLE scene

loginsVars == <<scene, sessionVars, listVars>>

Init == scene \in Scenes /\ SessionInit /\ ListInit

\* The bans are before the list; the load and the placing are after it.
LoginRefusedByAny(s) ==
  LoginRefused(s) /\ (UNCHANGED <<lists, told>> \/ LetIn(name[s]) \/ HeldBack(name[s]))
LoginLetIn(s) == LoginPlaced(s) /\ LetIn(name[s])

InGame == {name[o] : o \in placed}
SessionStep ==
  /\ scene = "sessions"
  /\ \/ \E s \in Sessions : LoginRefusedByAny(s) \/ LoginLetIn(s)
     \/ OtherStep /\ UNCHANGED <<lists, told>>
  /\ online' = InGame'
  /\ UNCHANGED <<scene, now>>

QueueStep == scene = "queue" /\ ListNext /\ UNCHANGED <<scene, sessionVars>>

Next == SessionStep \/ QueueStep

Spec == Init /\ [][Next]_loginsVars
-----------------------------------------------------------------------------
Symmetry == Permutations(Sessions)
=============================================================================

---------------------------- MODULE ProposalBoard ----------------------------
(***************************************************************************)
(* What the proposal workflow promises, with no requests in it: a board of *)
(* cards.  In one indivisible step an entitled person pins a new draft or  *)
(* moves a card along one legal edge of the life cycle; the person who     *)
(* takes a review decision is the card's reviewer of record.               *)
(***************************************************************************)
EXTENDS CadastralRules

CONSTANTS Users, RolesOf, CardIds, Absent, Nobody

VARIABLE board  \* card id -> [state, author, reviewer], or Absent

May(u, roles) == RolesOf[u] \cap roles # {}

Pin(u, id) ==
  /\ May(u, Authors)
  /\ board[id] = Absent
  /\ board' = [board EXCEPT ![id] =
                 [state |-> "draft", author |-> u, reviewer |-> Nobody]]

Advance(u, id, to) ==
  /\ board[id] # Absent
  /\ to \in AuthoringTargets
  /\ CanProposalTransition(board[id].state, to)
  /\ \/ u = board[id].author /\ May(u, RouteRoles.transitionProposal)
     \/ May(u, {"admin"})
  /\ board' = [board EXCEPT ![id].state = to]

Decide(u, id, to) ==
  /\ board[id] # Absent
  /\ to \in ReviewTargets
  /\ CanProposalTransition(board[id].state, to)
  /\ u # board[id].author /\ May(u, Reviewers)
  /\ board' = [board EXCEPT ![id] =
                 [state |-> to, author |-> @.author, reviewer |-> u]]

Init == board = [id \in CardIds |-> Absent]

Next == \E u \in Users, id \in CardIds :
          \/ Pin(u, id)
          \/ \E to \in ProposalStates : Advance(u, id, to) \/ Decide(u, id, to)

Spec == Init /\ [][Next]_board
==============================================================================

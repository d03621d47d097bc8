--------------------------- MODULE CadastralRules ---------------------------
(***************************************************************************)
(* The life cycles and permissions every component of ParcelGraph shares:  *)
(* the transition tables of backend/internal/constants, the role list of   *)
(* each route, and the checks the services make on an actor.  Pure: no     *)
(* variables.                                                              *)
(***************************************************************************)

Roles == {"surveyor", "gis_analyst", "reviewer", "auditor", "admin"}

(***************************************************************************)
(* Boundary proposals.                                                     *)
(***************************************************************************)
ProposalStates == {"draft", "validated", "submitted", "reviewed",
                   "revision", "accepted", "rejected"}

ProposalTransitions ==
  { <<"draft", "validated">>, <<"validated", "submitted">>,
    <<"submitted", "reviewed">>, <<"reviewed", "accepted">>,
    <<"reviewed", "rejected">>, <<"reviewed", "revision">>,
    <<"revision", "draft">> }

CanProposalTransition(from, to) == <<from, to>> \in ProposalTransitions

\* isProposalReviewTransition: the targets that record a reviewer.
ReviewTargets == {"reviewed", "accepted", "rejected", "revision"}
AuthoringTargets == ProposalStates \ ReviewTargets

(***************************************************************************)
(* Topology conflicts.                                                     *)
(***************************************************************************)
ConflictStates == {"detected", "confirmed", "false_positive",
                   "resolution_proposed", "resolved", "closed"}

ConflictTransitions ==
  { <<"detected", "confirmed">>, <<"detected", "false_positive">>,
    <<"confirmed", "resolution_proposed">>, <<"false_positive", "closed">>,
    <<"resolution_proposed", "resolved">>, <<"resolved", "closed">> }

CanConflictTransition(from, to) == <<from, to>> \in ConflictTransitions

(***************************************************************************)
(* Survey observations.                                                    *)
(***************************************************************************)
ObservationStates == {"accepted", "rejected", "superseded"}

ObservationTransitions ==
  { <<"accepted", "rejected">>, <<"accepted", "superseded">>,
    <<"rejected", "accepted">> }

CanTransitionObservation(from, to) == <<from, to>> \in ObservationTransitions

(***************************************************************************)
(* The roles RBACMiddleware lets through to each state-changing route.     *)
(***************************************************************************)
Authors   == {"surveyor", "gis_analyst", "admin"}
Reviewers == {"reviewer", "admin"}
Analysts  == {"gis_analyst", "admin"}

RouteRoles ==
  [ createParcel          |-> Authors,
    updateParcel          |-> Authors,
    importObservation     |-> Authors,
    transitionObservation |-> Authors,
    createProposal        |-> Authors,
    transitionProposal    |-> Authors \cup {"reviewer"},
    detectConflicts       |-> Analysts,
    transitionConflict    |-> Reviewers,
    applySuggestion       |-> Reviewers ]
=============================================================================

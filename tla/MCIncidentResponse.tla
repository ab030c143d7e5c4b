------------------------- MODULE MCIncidentResponse -------------------------
(***************************************************************************)
(* The actions of a small instance of IncidentResponse: what the operator's*)
(* buttons do directly, and what the agent must ask for.                   *)
(***************************************************************************)
EXTENDS IncidentResponse

MCActions == Direct \cup Tools
=============================================================================

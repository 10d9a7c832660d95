----------------------------- MODULE VideoState -----------------------------
(***************************************************************************)
(* The canonical state machine of a video                                  *)
(* (backend/internal/domain/videostate).  The Go package keeps the edges   *)
(* as a map from a state to the list of its targets; here they are a set   *)
(* of pairs, grouped the way the comment above the map groups them.        *)
(***************************************************************************)

\* The thirteen values of the status column.
State ==
    {"new", "script_pending", "script_review", "script_approved", "recording",
     "voice_processing", "scenes_pending", "scenes_review", "queued",
     "rendering", "final_review", "released", "blocked"}

\* The linear chain new -> ... -> released.
ChainEdges ==
    {<<"new", "script_pending">>, <<"script_pending", "script_review">>,
     <<"script_review", "script_approved">>, <<"script_approved", "recording">>,
     <<"recording", "voice_processing">>, <<"voice_processing", "scenes_pending">>,
     <<"scenes_pending", "scenes_review">>, <<"scenes_review", "queued">>,
     <<"queued", "rendering">>, <<"rendering", "final_review">>,
     <<"final_review", "released">>}

\* RejectScript and RequestRerender.
ReverseEdges == {<<"script_review", "script_pending">>, <<"final_review", "queued">>}

\* Every state may become blocked, and blocked may resume anywhere, itself included.
BlockEdges == {<<s, "blocked">> : s \in State} \cup {<<"blocked", s>> : s \in State}

Edges == ChainEdges \cup ReverseEdges \cup BlockEdges

CanTransition(from, to) == <<from, to>> \in Edges
=============================================================================

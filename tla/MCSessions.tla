----------------------------- MODULE MCSessions -----------------------------
(***************************************************************************)
(* The two halves of a served session: a behaviour is one of LiveServe     *)
(* (sockets, DELETE and the sweep of one session of the transport) or one  *)
(* of Serving (pages, watches and requests of admitted sessions).          *)
(***************************************************************************)
EXTENDS LiveServe, Serving

VARIABLE part

MCInit == part \in {"live", "pages"} /\ Init /\ ServingInit

LivePart == part = "live" /\ Next /\ UNCHANGED <<part, servingVars>>
PagesPart == part = "pages" /\ ServingNext /\ UNCHANGED <<part, vars>>

\* The fairness of LiveServe's FairSpec: none of its actions is enabled in
\* the initial state, where the behaviours of Serving leave it.
MCSpec == MCInit /\ [][LivePart \/ PagesPart]_<<part, vars, servingVars>> /\ Fairness
=============================================================================

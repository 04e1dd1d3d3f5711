----------------------------- MODULE MCRecovery -----------------------------
(***************************************************************************)
(* What recovery achieves after publishers were killed.  A behaviour is    *)
(* one of Publication with nobody else around, or one of IndexLock, where  *)
(* the reclaim that is a single step of the former meets Git.              *)
(***************************************************************************)
EXTENDS MCPublication, IndexLock

VARIABLE part

MCInit == part \in {"publication", "lock"} /\ Init /\ LockInit

PublicationPart == part = "publication" /\ Next /\ UNCHANGED <<part, lockFileVars>>
LockPart == part = "lock" /\ LockNext /\ UNCHANGED <<part, vars>>

\* The fairness of FairSpec, for the behaviours of Publication.
MCSpec ==
    /\ MCInit /\ [][PublicationPart \/ LockPart]_<<part, vars, lockFileVars>>
    /\ \A p \in Publishers :
         WF_vars(part = "publication" /\ p \in scope.publishers /\ Run(p))
=============================================================================

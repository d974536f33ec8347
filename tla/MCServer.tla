------------------------------- MODULE MCServer -------------------------------
(***************************************************************************)
(* Model checking of Server.                                               *)
(***************************************************************************)
EXTENDS ServerSafety, TLC

Symmetry == Permutations(Requests) \cup Permutations(Conns)

\* One route of each kind: the others differ from AddWorkspaceMember, ListUsers from
\* GetUser, in their statuses only.
Kinds == {"Healthz", "Readyz", "GetUser", "Me", "CreateUser", "DeleteUser",
          "AddWorkspaceMember"}
LiveKinds == Kinds \ {"Healthz", "Readyz"}

FairSpec == Spec /\ Fairness
=============================================================================

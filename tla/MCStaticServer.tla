--------------------------- MODULE MCStaticServer ---------------------------
(* Small instances of StaticServer. *)
EXTENDS StaticServer, TLC

\* Requests of one priority differ in nothing but their identity.
SameClass == Permutations(InteractiveRequest) \cup Permutations(BatchRequest)
=============================================================================

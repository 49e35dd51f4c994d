------------------------- MODULE MCSessionCatalogue -------------------------
(* Two processes that each register, delete, select and play, and clients  *)
(* that create, change, delete and look at a scenario and its session.     *)
EXTENDS SessionCatalogue, TLC

Symmetry == Permutations(Providers) \union Permutations(Processes)
            \union Permutations(Requests) \union Permutations(Jobs)

=============================================================================

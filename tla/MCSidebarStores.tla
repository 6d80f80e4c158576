-------------------------- MODULE MCSidebarStores --------------------------
(* Sessions are interchangeable, and so are groups. *)
EXTENDS SidebarStores

Symmetry == Permutations(Sessions) \cup Permutations(Groups)
=============================================================================

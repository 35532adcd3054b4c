----------------------------- MODULE MCCatalog -----------------------------
(* The instance of Catalog that TLC checks. *)
EXTENDS CatalogProperties, TLC

CONSTANTS c1, c2, q1, q2

Base == [name |-> 2, roles |-> {"qa"}, mode |-> "create", command |-> TRUE, image |-> TRUE,
         target |-> FALSE, timeout |-> 0, tail |-> 0]

\* A command for a container of its own, one for a container that is there,
\* and one that has nowhere to run.
Proposals ==
  {Base, [Base EXCEPT !.name = 1, !.mode = "exec", !.image = FALSE, !.target = TRUE],
   [Base EXCEPT !.mode = "logs"]}

\* Updates that change a name and the roles, or a field that the mode needs.
Edits == {[name |-> 3, roles |-> {"data"}], [mode |-> "exec"], [target |-> TRUE]}

Slots == Permutations({c1, c2}) \cup Permutations({q1, q2})

=============================================================================

------------------------------- MODULE MCFill -------------------------------
(* Instances of Fill: small Roots with an object twice, an object of both    *)
(* Roots, a list with two branches, and a Registry nobody has yet.           *)
EXTENDS Fill, TLC

CONSTANTS r1, r2, reg, y, node1, node2, node3, z, f1, f2

Hashes == {r1, r2, reg, y, node1, node2, node3, z}
RootsOf == [f \in {f1, f2} |-> IF f = f1 THEN r1 ELSE r2]

\* the references of some objects, of the others none
Graph(g) == g @@ [k \in Hashes |-> <<>>]

\* an object with a reference, in both Roots
Shared == Graph((r1 :> <<y>>) @@ (r2 :> <<y>>) @@ (y :> <<z>>))
\* a list of two nodes, its element in the other Root
Deep == Graph((r1 :> <<node1>>) @@ (node1 :> <<node2>>) @@ (node2 :> <<y>>) @@ (r2 :> <<y>>))
\* an object twice in one Root
Twice == Graph(r1 :> <<y, y>>)
\* a node of a list twice in one Root
NodeTwice == Graph((r1 :> <<node1, node1>>) @@ (node1 :> <<y>>))
\* a node with two branches
Wide == Graph((r1 :> <<node1>>) @@ (node1 :> <<node2, node3>>) @@ (node2 :> <<y>>) @@ (node3 :> <<y>>))
\* a Root with one object
Flat == Graph(r1 :> <<y>>)

World(graph, tooLarge, known, n) ==
  [kids |-> graph, large |-> tooLarge, known |-> known, rounds |-> n]

SmallWorlds ==
  {World(Shared, {}, TRUE, 2), World(Deep, {}, TRUE, 2),
   World(Twice, {}, TRUE, 2), World(Twice, {y}, TRUE, 2), World(NodeTwice, {}, TRUE, 1),
   World(Wide, {}, TRUE, 1), World(Wide, {node2}, TRUE, 1),
   World(Flat, {}, FALSE, 2), World(Flat, {reg}, FALSE, 2)}
Nodes == {node1, node2, node3}
Counted == {0, 1}
=============================================================================

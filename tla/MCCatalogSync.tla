--------------------------- MODULE MCCatalogSync ---------------------------
(* Instances of CatalogSync for TLC. *)
EXTENDS CatalogSync, TLC

\* Two films on one page and a starship, which SWAPI moves from one film to the
\* other.  SWAPI may also come to serve the second film as a null.
NoPeople == << << <<"f1", "f2">> >>, << <<"s1">> >> >>

NoPeopleLinks ==
    "f1" :> [e \in {0} |-> {}] @@
    "f2" :> [e \in 0 .. 1 |-> {}] @@
    "s1" :> [e \in 0 .. 1 |-> IF e = 0 THEN {"f1"} ELSE {"f2"}]

BrokenFilm == {<<"f2", 1>>}

\* One record of each resource, the person with links to both of the others.
TinyCatalog == << << <<"f1">> >>, << <<"s1">> >>, << <<"c1">> >> >>

TinyLinks ==
    "f1" :> [e \in {0} |-> {}] @@
    "s1" :> [e \in {0} |-> {"f1"}] @@
    "c1" :> [e \in {0} |-> {"f1", "s1"}]

\* SWAPI drops the only film of the starship.
DroppedLinks ==
    "f1" :> [e \in {0} |-> {}] @@
    "s1" :> [e \in 0 .. 1 |-> IF e = 0 THEN {"f1"} ELSE {}] @@
    "c1" :> [e \in {0} |-> {"s1"}]

Symmetry == Permutations(Run)
=============================================================================

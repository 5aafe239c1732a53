------------------------------ MODULE MCListing ------------------------------
(***************************************************************************)
(* A small instance of Listing: four notifications of the caller, two of   *)
(* them created at the same instant and one whose link no longer parses.   *)
(***************************************************************************)
EXTENDS Listing

CONSTANTS p1, x1, x2, x3, x4

MCIds == {x1, x2, x3, x4}
MCRecipients == {p1}
MCOwnerOf == [x \in MCIds |-> p1]
MCCreatedAt == [x \in MCIds |-> CASE x = x1 -> 1 [] x = x4 -> 3 [] OTHER -> 2]
MCRank == [x \in MCIds |-> CASE x = x1 -> 2 [] x = x2 -> 1 [] x = x3 -> 3
                             [] x = x4 -> 4]
MCCorrupt == {x1}
MCFirsts == {0, 9}

=============================================================================

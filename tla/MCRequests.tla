----------------------------- MODULE MCRequests -----------------------------
(***************************************************************************)
(* Small instances of Requests: two recipients, three notifications and    *)
(* the requests that can meet on them.                                     *)
(***************************************************************************)
EXTENDS Requests

CONSTANTS p1, p2, x1, x2, x3, marker, markall, remover, purger, helper, robot

MCIds == {x1, x2, x3}
MCRecipients == {p1, p2}
MCOwnerOf == [x \in MCIds |-> IF x = x3 THEN p2 ELSE p1]

\* helper is p2 behind the passport of p1, robot is another service.
MCRequestsSet == {marker, markall, remover, purger, helper, robot}
MCOpOf == [t \in MCRequestsSet |->
             CASE t = marker -> "mark" [] t = remover -> "delete"
               [] t = purger -> "delete_many" [] OTHER -> "mark_all"]
MCTargetsOf == [t \in MCRequestsSet |->
             CASE t = marker -> {x1} [] t = remover -> {x1}
               [] t = purger -> MCIds [] OTHER -> {}]
MCPassportOf == [t \in MCRequestsSet |->
             CASE t = robot -> [user |-> NoOne, by |-> NoOne]
               [] t = helper -> [user |-> p1, by |-> p2]
               [] OTHER -> [user |-> p1, by |-> NoOne]]

=============================================================================

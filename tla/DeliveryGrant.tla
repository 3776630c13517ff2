---------------------------- MODULE DeliveryGrant ----------------------------
(* What the confirmation of a delivery to another conversation promises: a
   request is used at most once, only after it was granted, and a request that
   was refused, withdrawn or left to expire is never used. *)
CONSTANT Requests

VARIABLE grant

(* "new": no request; "asked": waiting for the user; "granted": approved, the
   message not handed to the platform; "used": handed to it; "over": the tool
   call has returned after that; "void": it will never be used. *)
Grants == {"new", "asked", "granted", "used", "over", "void"}

Init == grant = [q \in Requests |-> "new"]

Move(q, from, to) == grant[q] \in from /\ grant' = [grant EXCEPT ![q] = to]

Ask(q) == Move(q, {"new"}, "asked")
Approve(q) == Move(q, {"asked"}, "granted")
Use(q) == Move(q, {"granted"}, "used")
Finish(q) == Move(q, {"used"}, "over")

(* The end of a run voids all its requests at once. *)
Void(qs) ==
    /\ \A q \in qs : grant[q] \in {"new", "asked", "granted"}
    /\ grant' = [q \in Requests |-> IF q \in qs THEN "void" ELSE grant[q]]

Next == \/ \E q \in Requests : Ask(q) \/ Approve(q) \/ Use(q) \/ Finish(q)
        \/ \E qs \in SUBSET Requests : Void(qs)

Spec == Init /\ [][Next]_grant
=============================================================================

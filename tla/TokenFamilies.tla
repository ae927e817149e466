---------------------------- MODULE TokenFamilies ---------------------------
(***************************************************************************)
(* What the sessions of a user promise: each login starts a family, which  *)
(* is held by one generation of its refresh token at a time, passes to a   *)
(* new generation only from the one that holds it, and ends once.          *)
(***************************************************************************)
CONSTANT Requests

VARIABLES
    holder,     \* for each family: "unborn", "over", or the generation holding it
    issued      \* the generations there have been

Init ==
    /\ holder = [f \in Requests |-> "unborn"]
    /\ issued = {}

Begin(f) ==
    /\ holder[f] = "unborn"
    /\ f \notin issued
    /\ holder' = [holder EXCEPT ![f] = f]
    /\ issued' = issued \union {f}

Renew(f, g) ==
    /\ holder[f] \in issued
    /\ g \notin issued
    /\ holder' = [holder EXCEPT ![f] = g]
    /\ issued' = issued \union {g}

End(F) ==
    /\ \A f \in F : holder[f] \in issued
    /\ holder' = [f \in Requests |-> IF f \in F THEN "over" ELSE holder[f]]
    /\ issued' = issued

Next ==
    \/ \E f \in Requests : Begin(f)
    \/ \E f, g \in Requests : Renew(f, g)
    \/ \E F \in SUBSET Requests : End(F)

Spec == Init /\ [][Next]_<<holder, issued>>

=============================================================================

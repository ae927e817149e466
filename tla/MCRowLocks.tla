----------------------------- MODULE MCRowLocks -----------------------------
(* Workers are alike, and all bookings want the same slot. *)
EXTENDS RowLocks, TLC

AnyWorker == Permutations(Workers)

SameSlot == {p \in Bookings \X Bookings : p[1] # p[2]}
=============================================================================

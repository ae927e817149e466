--------------------------- MODULE MCBrowserLogin ---------------------------
(* Instance of BrowserLogin for TLC: two tabs, the calls in the first.  A  *)
(* login, then two calls that may need the same refresh.                   *)
EXTENDS BrowserLogin, TLC

CONSTANTS t1, t2, x1, x2, x3

MCTabOf == [x \in Calls |-> t1]

MCKinds ==
    (x1 :> {"login"}) @@ (x2 :> {"read"}) @@ (x3 :> {"logout", "change_password"})
=============================================================================

------------------------------ MODULE MCSession ------------------------------
(* Session on a small instance, for TLC. *)
EXTENDS Session, TLC

CONSTANTS p1, t1, t2, r1, r2

MCPhoneOf == t1 :> p1 @@ t2 :> p1
MCTabOf == r1 :> t1 @@ r2 :> t1

(* Tokens are alike, and so are handlers. *)
MCSymmetry == Permutations(TokenIds) \cup Permutations(Handlers)
=============================================================================

--------------------------------- MODULE Common ---------------------------------
(* What the modules of the platform and of its cloud share. *)
EXTENDS Naturals, FiniteSets, TLC

CONSTANT None  \* an absent value

(* The function f with x mapped to v. *)
Put(f, x, v) == [y \in DOMAIN f \cup {x} |-> IF y = x THEN v ELSE f[y]]
===============================================================================

------------------------- MODULE MCCommandBoundary --------------------------
(* Three calls, with every mix of kinds that shares a key and a resource.  *)
EXTENDS CommandBoundary, TLC

CONSTANTS c1, c2, c3, k1, k2, b1, b2

Ask(kind, key, body, expects) ==
  [kind |-> kind, key |-> key, body |-> body, expects |-> expects]

(* c1 and c2 share key k1 and, or not, the body; c3 is any call of any     *)
(* kind that may legally share the key.                                    *)
MCPlans ==
  LET Of(p) == (c1 :> p[1] @@ c2 :> p[2] @@ c3 :> p[3])
  IN {Of(p) : p \in
       {<<Ask(a, k1, b1, 1), Ask(a, k1, b, 1), Ask(a, k, b1, 1)>> :
            a \in Keyed, b \in Bodies, k \in Keys}
       \union
       {<<Ask("patch", k1, b1, 1), Ask("patch", k1, b1, n), Ask(a, k2, b1, 1)>> :
            n \in 1..2, a \in Kinds}
       \union
       {<<Ask("decide", k1, b1, 1), Ask("decide", k1, b1, 1), Ask("transition", k2, b1, 1)>>}}
=============================================================================

------------------------ MODULE MCPropertyIdentity --------------------------
(* Three properties and three transactions of every kind.                  *)
EXTENDS PropertyIdentity, TLC

CONSTANTS t1, t2, t3, x, y

MCProperties == 1..3

Asks(kind, pair, decision, property, to) ==
  [kind |-> kind, pair |-> pair, decision |-> decision, property |-> property, place |-> to]

Same(pair, canonical) == Asks("review", pair, "CONFIRMED_SAME", canonical, None)
Other(pair, decision) == Asks("review", pair, decision, None, None)
Generate(focus)       == Asks("generate", <<1, 2>>, "UNSURE", focus, None)
Write(kind, p)        == Asks(kind, <<1, 2>>, "UNSURE", p, y)

Reviews == {Same(pr, pr[i]) : pr \in Pairs, i \in {1, 2}}
             \union {Other(<<1, 2>>, d) : d \in {"CONFIRMED_DISTINCT", "UNSURE"}}
Plan(a, b, c) == t1 :> a @@ t2 :> b @@ t3 :> c

(* Two reviews and a third, a generate, or a writer; two generates and a   *)
(* patch, or a review.                                                     *)
MCPlans ==
  {Plan(Same(<<1, 2>>, 2), b, c) : b \in Reviews,
      c \in {Same(<<1, 3>>, 1), Generate(None)} \union {Write(k, 1) : k \in Writing}}
  \union
  {Plan(Generate(None), b, c) : b \in {Generate(None), Generate(2), Same(<<1, 3>>, 3)},
      c \in {Write("patch", 2), Write("match", 3), Same(<<2, 3>>, 2)}}

(* A violation needs only one review and one writer.                       *)
MCTwo == {Plan(Same(<<1, 2>>, 2), Write("offer", 1), Write("patch", 3))}

MCWorlds ==
  LET together == [p \in MCProperties |-> x]
      nobody   == [p \in MCProperties |-> None]
  IN {[place |-> together, aliasOf |-> nobody, status |-> [pr \in Pairs |-> "none"]],
      [place |-> together, aliasOf |-> nobody,
       status |-> [pr \in Pairs |-> IF pr = <<1, 2>> THEN "UNSURE" ELSE "PENDING_REVIEW"]],
      [place |-> together, aliasOf |-> [nobody EXCEPT ![1] = 2],
       status |-> [pr \in Pairs |-> CASE pr = <<1, 2>> -> "CONFIRMED_SAME"
                                      [] pr = <<2, 3>> -> "PENDING_REVIEW"
                                      [] pr = <<1, 3>> -> "UNSURE"]]}
=============================================================================

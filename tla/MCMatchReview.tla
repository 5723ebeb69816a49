--------------------------- MODULE MCMatchReview ----------------------------
(* Three transactions on the matches of one request.                       *)
EXTENDS MatchReview, TLC

CONSTANTS t1, t2, t3

MCIds == 1..7

Do(kind, p) == [kind |-> kind, property |-> p, into |-> p, fact |-> Request, value |-> "VALID"]
Write(f, v) == [kind |-> "write", property |-> 1, into |-> 1, fact |-> f, value |-> v]
Bind(f)     == [kind |-> "bind", property |-> 1, into |-> 1, fact |-> f, value |-> "VALID"]
Merge(p, q) == [kind |-> "consolidate", property |-> p, into |-> q, fact |-> Request, value |-> "VALID"]
Plan(a, b, c) == t1 :> a @@ t2 :> b @@ t3 :> c

Approve(p) == Do("APPROVED", p)
Run == Do("run", 1)

(* Reviews of one match; approvals, shares and closes that meet a writer, a*)
(* binding, a run or a consolidation; and two runs.                        *)
MCPlans ==
  {Plan(Approve(1), b, c) :
     b \in {Do("REJECTED", 1), Do("NEED_MORE_INFORMATION", 1), Approve(2), Do("share", 1)},
     c \in {Merge(1, 2), Merge(2, 1), Write(Request, "NEEDS_CONFIRMATION"), Run}}
  \union
  {Plan(Do("share", 1), b, c) :
     b \in {Do("revalidate", 1), Do("close", 1), Approve(2), Bind(<<"offer", 1>>), Bind(<<"property", 1>>)},
     c \in {Write(<<"binding", 1>>, "INVALID"), Write(<<"offer", 1>>, "VALID"),
            Write(<<"property", 1>>, "INVALID"), Merge(1, 2)}}
  \union
  {Plan(Run, b, Write(<<"offer", 1>>, v)) :
     b \in {Run, Approve(1), Do("NEED_MORE_INFORMATION", 1)},
     v \in {"VALID", "NEEDS_CONFIRMATION"}}

MCCircle == {Plan(Approve(1), Merge(1, 2), Do("close", 2))}
MCNames  == {Plan(Merge(2, 3), Do("revalidate", 1), Do("close", 1))}

New == [status |-> "NEW", validity |-> "VALID"]

(* Matches on the properties of `on`, a property's n-th one made by the    *)
(* n-th run, with opportunities made of those in `open`.                   *)
Start(on, open, aliases) ==
  LET round(i) == Cardinality({k \in 1..i : on[k] = on[i]})
      rounds   == 1 + Len(on) - Cardinality({on[i] : i \in DOMAIN on})
  IN [matches |-> [i \in DOMAIN on |->
                    [property |-> on[i], input |-> <<round(i), round(i), round(i), round(i)>>,
                     eligibility |-> "ELIGIBLE", at |-> round(i)]],
      rounds  |-> rounds,
      review  |-> [i \in MCIds |-> IF i \in open THEN "APPROVED" ELSE None],
      opp     |-> [i \in MCIds |-> IF i \in open THEN New ELSE None],
      aliasOf |-> aliases]

Nobody == [p \in Properties |-> None]

MCWorlds ==
  {Start(<<1, 2>>, {}, Nobody), Start(<<1, 2>>, {1}, Nobody), Start(<<1, 2>>, {2}, Nobody),
   Start(<<1, 2>>, {1, 2}, Nobody), Start(<<1, 2>>, {2}, [Nobody EXCEPT ![2] = 1]),
   Start(<<1, 2, 1>>, {1}, Nobody)}

MCNetWorlds == {Start(<<1, 2, 3>>, {1, 2}, [Nobody EXCEPT ![1] = 3])}
=============================================================================

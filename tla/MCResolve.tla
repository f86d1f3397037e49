----------------------------- MODULE MCResolve -----------------------------
(* Two accounts, two names; lists with a comment, with a name twice, and with
   ids that are right, stale or missing; more lines than one worker and its
   queue hold. *)
EXTENDS Resolve, TLC

CONSTANTS w1, w2, a, b, id1, id2, comment, nobody

MCNames == {a, b}
MCIds == {id1, id2}
MCWorkers == {w1, w2}
MCThreads == {{w1}, {w1, w2}}

Bare(n) == [name |-> n, id |-> nobody]
With(n, i) == [name |-> n, id |-> i]
Remark == Bare(comment)

MCLists ==
    { <<Remark, Bare(b), With(b, id1)>>,
      <<With(a, id1), Bare(b), With(a, id1), Bare(b)>> }
MCHolders == { a :> id1 @@ b :> id2 }
=============================================================================

----------------------------- MODULE MCExecutor -----------------------------
(***************************************************************************)
(* Plans for model-checking Executor: the shapes that make scheduling      *)
(* hard, on at most three steps.                                           *)
(***************************************************************************)
EXTENDS Executor

CONSTANTS a, b, c

Shape(order, deps, confirm) ==
    [order |-> order, deps |-> deps, confirm |-> confirm]

\* Two roots held for confirmation, a join behind them: skips and
\* completions in either order.
HeldJoin ==
    Shape(<<a, b, c>>, a :> {} @@ b :> {} @@ c :> {a, b}, {a, b})

\* A chain with a confirmation in the middle whose last step depends on both
\* others: a join over two batches.
Chain == Shape(<<a, b, c>>, a :> {} @@ b :> {a} @@ c :> {a, b}, {b})

\* More independent steps than a batch of two admits.
Wide == Shape(<<c, b, a>>, a :> {} @@ b :> {} @@ c :> {}, {})

\* Dependencies nobody validates: on the step itself, and on one of no plan.
Broken == Shape(<<a, b>>, a :> {} @@ b :> {b, c}, {})

MCPlans == {HeldJoin, Chain, Wide, Broken}
=============================================================================

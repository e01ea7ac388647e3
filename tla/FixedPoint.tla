----------------------------- MODULE FixedPoint -----------------------------
(***************************************************************************)
(* The integer arithmetic the Rust sources compute with: division rounds    *)
(* toward zero, a clamp is symmetric, a counter has a width.                *)
(***************************************************************************)
EXTENDS Integers

Abs(x) == IF x < 0 THEN -x ELSE x
Sign(x) == IF x < 0 THEN -1 ELSE 1

\* x.clamp(-b, b)
Clamp(x, b) == IF x > b THEN b ELSE IF x < -b THEN -b ELSE x

AtMost(x, b) == IF x > b THEN b ELSE x
AtLeast(x, b) == IF x < b THEN b ELSE x

\* `/` on i64: toward zero, where \div rounds down
Quot(x, y) == IF x < 0 THEN -((-x) \div y) ELSE x \div y
=============================================================================

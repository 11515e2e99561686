-------------------------- MODULE IncrementPromise --------------------------
(***************************************************************************)
(* What the pipeline of runner-cli/pipeline promises its user: "With       *)
(* depth=5, input 0 becomes 6 (incremented at 6 levels)".  Inputs 0, 1, 2, *)
(* ... go in; each comes out once, in order, incremented Depth + 1 times.  *)
(***************************************************************************)
EXTENDS Naturals, Sequences

CONSTANTS Depth,     \* the number of forked levels
          NumValues  \* the number of inputs

VARIABLES in,  \* how many inputs went in
          out  \* what came out

Init == in = 0 /\ out = <<>>

Put == /\ in < NumValues
       /\ in' = in + 1
       /\ UNCHANGED out

\* The next input to come out is the one as many outputs in.
Emit == /\ Len(out) < in
        /\ out' = Append(out, Len(out) + Depth + 1)
        /\ UNCHANGED in

Next == Put \/ Emit

Spec == Init /\ [][Next]_<<in, out>>
=============================================================================

---------------------------- MODULE SlidingWindow ----------------------------
(***************************************************************************)
(* What the error history promises to the PID and to the warm-up test: it  *)
(* is the sequence of the last Width values pushed, oldest first.          *)
(* ErrorHistory implements this with an array and a fill index.            *)
(***************************************************************************)
EXTENDS Naturals, Sequences

CONSTANTS Width,  \* how many values are remembered
          Value   \* the values that may be pushed

VARIABLE window

Init == window = <<>>

Push(v) ==
    window' = IF Len(window) < Width
              THEN Append(window, v)
              ELSE Append(Tail(window), v)

Next == \E v \in Value : Push(v)

Spec == Init /\ [][Next]_window
==============================================================================

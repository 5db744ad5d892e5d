--------------------------- MODULE CircularArray ---------------------------
(***************************************************************************)
(* CircularArray (circular_array.go) as operators on records.  xs is the   *)
(* slice, cap its capacity; internal indices count from 0 as in the code,  *)
(* so slot i of the slice is xs[i + 1].                                    *)
(***************************************************************************)
EXTENDS Integers, Sequences

NewCircularArray(n) == [Offset |-> 0, xs |-> <<>>, cap |-> n]

\* The internal index of an external one.
Index(a, i) == (i + a.Offset) % a.cap

LastIndex(a) == Index(a, Len(a.xs) - 1)

\* Push that writes where the array started before it was rotated.
PushNoRotate(a, x) ==
  IF Len(a.xs) < a.cap
  THEN [a EXCEPT !.xs = Append(@, x)]
  ELSE [a EXCEPT !.xs[LastIndex(a) + 1] = x, !.Offset = (@ + 1) % a.cap]

\* Push that lets the offset grow beyond the capacity.
PushUnwrapped(a, x) ==
  IF Len(a.xs) < a.cap
  THEN [a EXCEPT !.xs = Append(@, x)]
  ELSE LET b == [a EXCEPT !.Offset = @ + 1]
       IN [b EXCEPT !.xs = [@ EXCEPT ![LastIndex(b) + 1] = x]]

\* An array that is not full grows; a full one forgets its oldest element.
Push(a, x) ==
  IF Len(a.xs) < a.cap
  THEN [a EXCEPT !.xs = Append(@, x)]
  ELSE LET b == [a EXCEPT !.Offset = (@ + 1) % a.cap]
       IN [b EXCEPT !.xs = [@ EXCEPT ![LastIndex(b) + 1] = x]]

At(a, i) == a.xs[Index(a, i) + 1]

Last(a) == At(a, Len(a.xs) - 1)

\* The elements in the order of their external indices.
Floats(a) == [i \in 1 .. Len(a.xs) |-> At(a, i - 1)]

\* The arrays over S of capacity n: only a full array is rotated.
CircularArrays(S, n) ==
  {a \in [Offset : 0 .. n - 1, xs : Seq(S), cap : {n}] :
    /\ Len(a.xs) <= n
    /\ Len(a.xs) < n => a.Offset = 0}
=============================================================================

------------------------------- MODULE Queues -------------------------------
(***************************************************************************)
(* Operators on finite sequences that the models share, as functions over  *)
(* the indices: SharedLemmas proves what they do.                           *)
(***************************************************************************)
EXTENDS Integers, Sequences

\* What is selected of the first i elements of s, for every i: the elements at
\* the indices in places, in their order.
Selections(s, places) ==
  LET kept[i \in 0 .. Len(s)] ==
        IF i = 0 THEN <<>>
        ELSE IF i \in places THEN Append(kept[i - 1], s[i]) ELSE kept[i - 1]
  IN kept

ElementsAt(s, places) == Selections(s, places)[Len(s)]

\* The sum of the first i numbers of w, for every i.
Totals(w) ==
  LET sum[i \in 0 .. Len(w)] == IF i = 0 THEN 0 ELSE sum[i - 1] + w[i]
  IN sum

Total(w) == Totals(w)[Len(w)]
=============================================================================

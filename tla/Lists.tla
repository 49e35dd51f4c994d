------------------------------- MODULE Lists -------------------------------
(***************************************************************************)
(* What the code does with its lists: keep some entries (Vec::retain), or  *)
(* set the one with a key, pushing it when there is none.                  *)
(***************************************************************************)
EXTENDS Integers, Sequences

\* What list has at the given places, in its order.
Kept(list, places) ==
    LET kept[i \in 0..Len(list)] ==
          IF i = 0 THEN <<>>
          ELSE IF i \in places THEN Append(kept[i - 1], list[i]) ELSE kept[i - 1]
    IN  kept[Len(list)]

\* The function with one of its values set.
Put(f, key, value) == [k \in DOMAIN f \union {key} |-> IF k = key THEN value ELSE f[k]]

=============================================================================

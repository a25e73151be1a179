--------------------------------- MODULE Lists ---------------------------------
(* Filtering a list by membership, as Python's list comprehensions do. *)
EXTENDS Integers, Sequences, SequencesExt

\* [x for x in s if x in S]
Keep(s, S) ==
  LET F[i \in 0 .. Len(s)] ==
        IF i = 0 THEN <<>>
        ELSE IF s[i] \in S THEN Append(F[i - 1], s[i]) ELSE F[i - 1]
  IN  F[Len(s)]
===============================================================================

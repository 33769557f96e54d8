------------------------------ MODULE Selection ------------------------------
(* Array.prototype.filter, as a function: what is taken from a sequence is   *)
(* given as a set.                                                           *)
EXTENDS Integers, Sequences

(* The elements of s that are in taken, in their order. *)
Only(s, taken) ==
  LET only[i \in 0..Len(s)] ==
        IF i = 0 THEN <<>>
        ELSE IF s[i] \in taken THEN Append(only[i - 1], s[i]) ELSE only[i - 1]
  IN only[Len(s)]
=============================================================================

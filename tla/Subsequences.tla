---------------------------- MODULE Subsequences ----------------------------
(***************************************************************************)
(* What a loop over a list keeps of it.  SelectSeq and SetToSortSeq say    *)
(* the same, but by a recursion of their own and by a sort, about which    *)
(* nothing can be proved.                                                  *)
(***************************************************************************)
EXTENDS Integers, Sequences

(* The positions up to n that are in chosen, in order.                     *)
InOrder(chosen, n) ==
  LET upto[i \in 0 .. n] ==
        IF i = 0 THEN <<>>
        ELSE IF i \in chosen THEN Append(upto[i - 1], i) ELSE upto[i - 1]
  IN  upto[n]

(* What a sequence has at them.                                            *)
Kept(s, chosen) ==
  LET positions == InOrder(chosen, Len(s))
  IN  [k \in DOMAIN positions |-> s[positions[k]]]
=============================================================================

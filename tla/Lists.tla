------------------------------- MODULE Lists --------------------------------
(****************************************************************************)
(* What Rust's loops and iterator adapters do to a list: fold, retain and    *)
(* filter, position and find, remove.  The definitions rest on Folds and     *)
(* FiniteSetsExt alone: SequencesExt, which has the like, extends Bags, and  *)
(* every obligation of a proof that reaches Bags costs tlapm ten times more. *)
(****************************************************************************)
EXTENDS Sequences, FiniteSetsExt

\* f applied to an accumulator and each element of s, from the first to the last.
FoldList(f(_, _), base, s) ==
  MapThenFoldSet(LAMBDA x, acc : f(acc, x), base, LAMBDA i : s[i], LAMBDA S : Max(S), DOMAIN s)

\* The elements of s that are in S, in order.
Keep(s, S) == FoldList(LAMBDA kept, x : IF x \in S THEN Append(kept, x) ELSE kept, << >>, s)

\* The sequences of ss, one after the other.
Concat(ss) == FoldList(LAMBDA all, s : all \o s, << >>, ss)

\* Where the first element of s that passes Test is; 0 if there is none.
Position(s, Test(_)) ==
  LET passing == {i \in 1 .. Len(s) : Test(s[i])}
  IN  IF passing = {} THEN 0 ELSE Min(passing)

\* s without its i-th element.
Without(s, i) == SubSeq(s, 1, i - 1) \o SubSeq(s, i + 1, Len(s))
=============================================================================

------------------------------- MODULE Paging -------------------------------
(***************************************************************************)
(* The lists that a provider serves page by page, and the filters that the  *)
(* adapters apply to them.                                                  *)
(***************************************************************************)
EXTENDS Integers, Sequences, SequencesExt, FiniteSetsExt

(* Page n of a list, at per entries a page (external). *)
pageOf(s, n, per) == SubSeq(s, (n - 1) * per + 1, Min({n * per, Len(s)}))

(* A list without the elements of a set, in its order. *)
Without(s, S) ==
  LET kept[i \in 0..Len(s)] ==
        IF i = 0 THEN <<>>
        ELSE IF s[i] \in S THEN kept[i - 1] ELSE Append(kept[i - 1], s[i])
  IN  kept[Len(s)]
=============================================================================

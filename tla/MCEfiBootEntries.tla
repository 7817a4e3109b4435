-------------------------- MODULE MCEfiBootEntries -------------------------
(***************************************************************************)
(* The instances of EfiBootEntries that TLC checks.  The firmware's numbers *)
(* are interchangeable.                                                    *)
(***************************************************************************)
EXTENDS EfiBootEntries, TLC

Numbers == Permutations(Ids)

(* Keep is the library's SelectSeq.                                        *)
ASSUME KeepIsSelectSeq ==
    \A s \in Orders, S \in SUBSET Ids : Keep(s, S) = SelectSeq(s, LAMBDA i : i \in S)
=============================================================================

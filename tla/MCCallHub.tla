----------------------------- MODULE MCCallHub -----------------------------
(***************************************************************************)
(* Small instances of CallHub for TLC.  The phones that no constant        *)
(* singles out are interchangeable, so a safety run may identify states    *)
(* that differ only by a permutation of them.                              *)
(***************************************************************************)
EXTENDS CallHub, TLC

Interchangeable == Permutations((Phones \ AutoAnswer) \ Ackers)
                     \cup Permutations(Ackers \ AutoAnswer)
=============================================================================

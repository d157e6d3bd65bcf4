-------------------------------- MODULE Seqs --------------------------------
(***************************************************************************)
(* What the data modules say of vectors besides what Sequences has.        *)
(***************************************************************************)
EXTENDS Integers, Sequences

\* A finite sequence, whatever its elements.
IsSeq(s) == s \in Seq({s[i] : i \in DOMAIN s})

\* s with the elements left out whose index drop is true of.
Without(s, drop) ==
  LET kept[k \in 0 .. Len(s)] ==
        IF k = 0 THEN << >>
        ELSE IF drop[k] THEN kept[k - 1] ELSE Append(kept[k - 1], s[k])
  IN kept[Len(s)]
=============================================================================

------------------------------ MODULE GoSlices ------------------------------
(* Go slices as sequences: the loop that copies what it keeps.  SelectSeq   *)
(* says the same; as a recursive function it can be reasoned about.         *)
EXTENDS Naturals, Sequences

(* for _, e := range s { if keep { out = append(out, e) } }, where keep are *)
(* the elements that stay                                                   *)
Filter(s, keep) ==
  LET out[i \in 0 .. Len(s)] ==
        IF i = 0 THEN << >>
        ELSE IF s[i] \in keep THEN Append(out[i - 1], s[i])
        ELSE out[i - 1]
  IN  out[Len(s)]
=============================================================================

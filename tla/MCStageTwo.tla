----------------------------- MODULE MCStageTwo -----------------------------
(* StageTwo and MmioEmulation for TLC: four blocks of two pages of two       *)
(* words; RAM begins at the second block and the hypervisor in the third.    *)
(* The ranges are of every alignment: words, pages and blocks, inside and    *)
(* across each other.                                                        *)
EXTENDS MmioEmulation

MCRanges == {<<0, 4>>, <<1, 3>>, <<4, 12>>, <<4, 6>>, <<5, 2>>, <<7, 8>>, <<10, 6>>}

\* Aligned and not, inside a word, across words, and across pages.
MCAccesses == {1, 13, 32, 35} \X {4, 8} \X {1, 5}
=============================================================================

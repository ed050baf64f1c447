--------------------------- MODULE MCFirmwareBoot ---------------------------
(* FirmwareBoot for TLC.  Five-bit addresses for the handoff; six-bit PMU    *)
(* registers and four ticks to a second; a low window of three pages, a hole *)
(* and up to eight pages of guest RAM, of which four are kept.               *)
EXTENDS FirmwareBoot

\* Nothing; a display whose first mode does not fit; one with fewer modes, of
\* which the first is unusable.
MCNoOffer == [timings |-> <<>>, colors |-> <<>>]

MCMode(size, err) == [size |-> size, err |-> err]

MCOffers ==
    {MCNoOffer,
     [timings |-> <<MCMode(3, 0), MCMode(2, 0), MCMode(1, 1)>>, colors |-> <<FALSE, TRUE>>],
     [timings |-> <<MCMode(1, 2), MCMode(2, 1)>>, colors |-> <<TRUE>>]}

\* Behind and ahead of the raw counter, a counter that wraps during the boot
\* and so shows a negative time, and the end of the last year.
MCClocks == {[counter |-> 5,  time |-> 20], [counter |-> 40, time |-> 21],
             [counter |-> 62, time |-> 20], [counter |-> 3,  time |-> 45]}

\* Nothing allocated, the boundary of the extent inside free memory and at
\* the end of it, and a low window with too little left.
MCUsedSets == {{}, {0, 5}, {8, 9}, {0, 1, 7}}

\* RAM that ends before, inside and behind the place of the copies or wraps;
\* sources before it, inside it, and across its ends.
MCMachines ==
    {m \in [ram : {4, 9}, size : {6, 20, 28}, adtSize : {0, 1, 3, 5},
            adtFrom : {0, 3, 4, 5, 7}, argsFrom : {5, 9, 11}, prefix : {4, 7},
            prefixEnd : {6, 9}, heap : {13, 17}, image : {2, 5}] :
        m.argsFrom < m.heap /\ m.ram + m.adtFrom + m.adtSize <= m.heap}
=============================================================================

--------------------------- MODULE MCAutoreplyOnce ---------------------------
EXTENDS AutoreplyOnce, TLC

\* Addresses as octet strings: "ab", "ba", "bb" all have one length;
\* "a" and "bab" are shorter and longer.
AB  == <<97, 98>>
BA  == <<98, 97>>
BB  == <<98, 98>>
A1  == <<97>>
BAB == <<98, 97, 98>>

MCRcptsEqual == {AB, BA, BB}
MCRcptsMixed == {A1, AB, BAB}

MCSymmetry == Permutations(Deliveries)
=============================================================================

------------------------------ MODULE MCEngine ------------------------------
EXTENDS Engine, TLC

CONSTANTS s1, s2, p1, none, row, odd, bad, h1, h2, b1, b2

MCServer == {s1, s2}
MCPath == {p1}
MCRow == {none, row, bad}
MCCorrupt == {bad}
MCServer1 == {s1}
MCRow2 == {none, odd}
MCUnsupported2 == {odd}
MCHandler == {h1, h2}
MCHandler1 == {h1}
MCBundle == {b1, b2}
Symmetry == Permutations(MCServer) \cup Permutations(MCHandler) \cup Permutations(MCBundle)
=============================================================================

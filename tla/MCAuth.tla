-------------------------------- MODULE MCAuth --------------------------------
EXTENDS Auth

CONSTANTS c1, c2, g1, g2, g3, g4, g5

MCGenerated == {g1, g2, g3, g4, g5}
MCClient == {c1, c2}
===============================================================================

----------------------------- MODULE MCDebouncer -----------------------------
EXTENDS Debouncer, TLC

CONSTANTS plex, abs, k1, k2

MCServer == {plex, abs}
MCKey == {k1, k2}
MCServerOf == k1 :> plex @@ k2 :> abs
==============================================================================

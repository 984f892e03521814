-------------------------------- MODULE MCPool --------------------------------
EXTENDS Pool, TLC

CONSTANTS m, s1, s2, am, a1

\* A master and two servers behind one address (two names of the same host).
MCEntries == {m, s1, s2}
MCAddr == (m :> am) @@ (s1 :> a1) @@ (s2 :> a1)
=============================================================================

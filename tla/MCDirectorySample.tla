-------------------------- MODULE MCDirectorySample --------------------------
EXTENDS DirectorySample, Sequences

CONSTANT a

MCRoot == <<>>
MCTrails == {<<>>, <<a>>, <<a, a>>}
MCUpTo == [t \in MCTrails |-> {SubSeq(t, 1, n) : n \in 0..Len(t)}]
=============================================================================

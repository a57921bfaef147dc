--------------------------- MODULE MCConnections ---------------------------
(* Small instances of Connections for TLC.                                 *)
EXTENDS Connections, TLC

CONSTANTS c1, c2, c3, c4, politics, sport, id1, id2

TwoConns    == {c1, c2}
ThreeConns  == {c1, c2, c3}
FourConns   == {c1, c2, c3, c4}
OneChannel  == {politics}
TwoChannels == {politics, sport}
OneId       == {id1}
TwoIds      == {id1, id2}

(* Connections, channels and ids are only compared for equality.           *)
Symmetry2 == Permutations(TwoConns) \cup Permutations(TwoChannels) \cup Permutations(TwoIds)
Symmetry3 == Permutations(ThreeConns)
Symmetry4 == Permutations(FourConns)
=============================================================================

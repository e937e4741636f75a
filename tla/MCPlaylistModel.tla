--------------------------- MODULE MCPlaylistModel ---------------------------
(* A small instance of PlaylistModel for TLC: four files, one of which may   *)
(* disappear; additions of one and of several files, with a repetition.      *)
EXTENDS PlaylistModel

CONSTANTS a, b, c, d

MCBatches == {<<d>>, <<a, b, a>>, <<b, d, c>>}
=============================================================================

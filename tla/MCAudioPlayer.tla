---------------------------- MODULE MCAudioPlayer ----------------------------
(* Small instances of AudioPlayer for TLC.                                   *)
EXTENDS AudioPlayer

CONSTANTS a, b, c

OneAlbum == {<<a, b>>}
Albums == {<<a, b>>, <<c, a, b>>, <<c>>}
Pairs == {<<a, b>>, <<a, c>>}
TwoBatches == {<<c>>, <<b, c>>}
=============================================================================

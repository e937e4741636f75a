----------------------- MODULE MCPresetPackDownloader -----------------------
(* A small instance of PresetPackDownloader for TLC: two of three presets    *)
(* count as the full pack, and the working directory has none, one or two.   *)
EXTENDS PresetPackDownloader

SomeLocals == {0, 1, 2}
=============================================================================

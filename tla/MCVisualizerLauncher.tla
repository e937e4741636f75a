------------------------ MODULE MCVisualizerLauncher ------------------------
(***************************************************************************)
(* VisualizerLauncher with the values around its limits: half seconds      *)
(* below, between and above the bounds of each duration, and a disk with   *)
(* the program and both libraries, or without one of the three.            *)
(***************************************************************************)
EXTENDS VisualizerLauncher

SomeDisks == {{"CURATED", "projectMSDL"}, {"CURATED", "ALL", "projectMSDL"},
              {"ALL", "projectMSDL"}, {"CURATED", "ALL"}}
=============================================================================

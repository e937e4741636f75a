---------------------------- MODULE MCFilterGraph ----------------------------
(***************************************************************************)
(* FilterGraph with a stereo source and six channels in two layouts, one   *)
(* of which has a bass management of its own; a number above every range.  *)
(***************************************************************************)
EXTENDS FilterGraph

SomeFormats == {[channels |-> 2, layout |-> "stereo"],
                [channels |-> 6, layout |-> "5.1(side)"],
                [channels |-> 6, layout |-> "hexagonal"]}
SomeAsked == {300}
=============================================================================

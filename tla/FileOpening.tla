----------------------------- MODULE FileOpening -----------------------------
(***************************************************************************)
(* What opening files with Magnetofon promises, whichever process serves   *)
(* it: the files a launch names are opened by one player at most, and the  *)
(* launch reports success only when they are open.  A launch need not      *)
(* report success, and files may be opened although it has given up.       *)
(***************************************************************************)
EXTENDS FiniteSets

CONSTANT Launches  \* starts of the program, each with the files it names

VARIABLES asked,   \* launches so far
          opened,  \* pairs of a launch and the player that opened its files
          told     \* launches that reported success

vars == <<asked, opened, told>>

Init == asked = {} /\ opened = {} /\ told = {}

Ask(l) ==
    /\ l \notin asked
    /\ asked' = asked \cup {l}
    /\ UNCHANGED <<opened, told>>

Open(l, player) ==
    /\ l \in asked
    /\ \A other \in Launches : <<l, other>> \notin opened
    /\ opened' = opened \cup {<<l, player>>}
    /\ UNCHANGED <<asked, told>>

Tell(l) ==
    /\ \E player \in Launches : <<l, player>> \in opened
    /\ told' = told \cup {l}
    /\ UNCHANGED <<asked, opened>>

Next == \E l, player \in Launches : Ask(l) \/ Open(l, player) \/ Tell(l)

Spec == Init /\ [][Next]_vars
=============================================================================

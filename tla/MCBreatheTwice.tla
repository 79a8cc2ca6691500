--------------------------- MODULE MCBreatheTwice ---------------------------
(* An instance of BreatheTwice for TLC: app 1 feeds two apps that feed     *)
(* each other.                                                             *)
EXTENDS BreatheTwice

ThreeApps == 1 .. 3
Ring      == {{<<1, 2>>, <<1, 3>>, <<2, 3>>, <<3, 2>>}}
Inhaler   == {{1}}
AllPush   == {ThreeApps}

=============================================================================

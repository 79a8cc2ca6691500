------------------------------- MODULE MCLink -------------------------------
(* Instances of Link for TLC.                                              *)
EXTENDS Link

CONSTANTS a, b

TwoLinks == {a, b}
OneLink  == {a}

=============================================================================

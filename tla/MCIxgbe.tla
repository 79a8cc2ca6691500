------------------------------ MODULE MCIxgbe -------------------------------
(* An instance of Ixgbe for TLC.                                           *)
EXTENDS Ixgbe

LastFrame == {MaxFrames}

=============================================================================

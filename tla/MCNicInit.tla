----------------------------- MODULE MCNicInit ------------------------------
(* Instances of NicInit and NicStats for TLC.                              *)
EXTENDS NicStats

\* Whatever may be at a PCI address.
AllDevices == {"82599", "virtio", "no_network_card", "absent"}

\* No link, one at an unknown speed, and one at 10 Gbit/s.
SomeLinks == {[up |-> FALSE, speed |-> 0], [up |-> TRUE, speed |-> 0],
              [up |-> TRUE, speed |-> 3]}

=============================================================================

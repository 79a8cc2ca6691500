------------------------------ MODULE MCEngine ------------------------------
(* Instances of Engine for TLC.                                            *)
EXTENDS Engine

Net(kinds, links) == [kind |-> kinds, links |-> links]

\* Source.tx -> Tee.rx, Tee.tx1 -> Sink.rx1, Tee.tx2 -> Sink.rx2, as in the
\* test basic1 of main.rs.
Basic1 == Net(<<"Source", "Tee", "Sink">>, {<<1, 2, 1>>, <<2, 3, 1>>, <<2, 3, 2>>})

\* A Source feeds two Tees that feed each other and a Sink.
Cycle == Net(<<"Source", "Tee", "Tee", "Sink">>,
             {<<1, 2, 1>>, <<1, 3, 1>>, <<2, 3, 1>>, <<3, 2, 1>>, <<3, 4, 1>>})

\* An adapter that forwards to itself through a Tee.
Forward == Net(<<"Nic", "Tee">>, {<<1, 2, 1>>, <<2, 1, 1>>})

\* A Tee that is linked to itself.
SelfLink == Net(<<"Nic", "Tee">>, {<<1, 2, 1>>, <<2, 2, 1>>})

FourNetworks == {Basic1, Cycle, Forward, SelfLink}

=============================================================================

-------------------------- MODULE MCPacketPipeline --------------------------
(***************************************************************************)
(* Instances of PacketPipeline for TLC.                                     *)
(***************************************************************************)
EXTENDS PacketPipeline

CONSTANTS p1, p2

TwoPublishers == {p1, p2}

=============================================================================

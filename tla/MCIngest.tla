------------------------------ MODULE MCIngest ------------------------------
(***************************************************************************)
(* An instance of Ingest for TLC.                                           *)
(***************************************************************************)
EXTENDS Ingest

CONSTANT c1

OneClient == {c1}

=============================================================================

------------------------------ MODULE MCDemos -------------------------------
(* Demos for TLC. *)
EXTENDS Demos

MCRom   == <<"h1", "h2", "r1", "r2">>
MCTexts == {<<1, 2>>, <<2>>}

=============================================================================

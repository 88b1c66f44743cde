---------------------------- MODULE MCStreamData ----------------------------
(* Messages of one to three blocks, one of them empty *)
EXTENDS StreamData

MCBlocks == {<<3>>, <<1, 2>>, <<2, 0, 1>>, <<1, 1>>}
=============================================================================

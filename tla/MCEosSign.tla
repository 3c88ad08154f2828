------------------------------ MODULE MCEosSign ------------------------------
(***************************************************************************)
(* Numbers of two octets around the limits of EosSign.                     *)
(***************************************************************************)
EXTENDS EosSign

MCOrder == <<254, 186>>

(* Below, at and above the order; one octet of <<255, 0>> is smaller.      *)
MCCandidates == {<<1, 2>>, <<253, 255>>, <<254, 185>>, <<254, 186>>, <<255, 0>>, <<255, 255>>}

MCNumbers == {<<0, 1>>, <<0, 127>>, <<0, 128>>, <<1, 0>>, <<64, 129>>, <<127, 255>>, <<128, 0>>,
              <<254, 185>>}
=============================================================================

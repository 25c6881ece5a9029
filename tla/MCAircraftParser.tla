------------------------- MODULE MCAircraftParser -------------------------
(* Small instances of AircraftParser: messages of three to five bytes,     *)
(* some with an STX in the payload.                                        *)
EXTENDS AircraftParser

SmallPayloads == {<<>>, <<0>>, <<STX, 1>>}
GpsOnly       == {<<0>>}
Attitudes     == {<<0, 0>>}
=============================================================================

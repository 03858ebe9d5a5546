------------------------------- MODULE MCCodec -------------------------------
(* Values for the constants of Codec: every version, and numbers around the *)
(* ends of a VarInt's bytes.                                                *)
EXTENDS Codec

MCChecked    == Versions
MCIds        == {-256, -255, -1, 0, 1, 3, 4, 16, 64, 255}
MCLongIds    == {-1, 0, 512, 767}
MCThresholds == {-1, 0, 1, 6, 60}

===============================================================================

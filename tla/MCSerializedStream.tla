------------------------- MODULE MCSerializedStream -------------------------
(***************************************************************************)
(* Instances of SerializedStream: four messages are enough for a gap that  *)
(* is half filled while a later message still waits behind another gap.    *)
(***************************************************************************)
EXTENDS SerializedStream

CONSTANT m1, m2

MessagesOrNull == {m1, m2, Null}
=============================================================================

------------------------- MODULE MCParamGeneration -------------------------
(* ParamGeneration for every subtype, an unknown one and an unknown type.  *)
EXTENDS ParamGeneration

AnySubtype == Subtypes7 \cup Subtypes11 \cup {"unknown", NoSubtype}
=============================================================================

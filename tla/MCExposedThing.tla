--------------------------- MODULE MCExposedThing ---------------------------
(* A small instance of ExposedThing for TLC: action handlers call the whole  *)
(* API, property write handlers none of it.                                  *)
EXTENDS ExposedThing

ActionsCallBack == [k \in Kinds |-> IF k = "action" THEN Ops ELSE {}]
=============================================================================

--------------------------- MODULE MCObjectCreation ---------------------------
(***************************************************************************)
(* ObjectCreation with three deferred objects: all use a root signature,   *)
(* and a state object also uses another one, a collection.                 *)
(***************************************************************************)
EXTENDS ObjectCreation, TLC

CONSTANTS w1, w2, rootSignature, collection, stateObject, pipeline

Chain ==
  (collection :> {rootSignature}) @@ (pipeline :> {rootSignature})
    @@ (stateObject :> {rootSignature, collection})
=============================================================================

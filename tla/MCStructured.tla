---------------------------- MODULE MCStructured ----------------------------
(* A schema that accepts the record body, and one that does not.          *)
EXTENDS StructuredApi, TLC

CONSTANTS r1, lax, strict, plain

(* One client's transaction beside one request.                           *)
MCUsesAt == <<{"client"}, {"read", "request", "batch"}>>
MCConforms == {<<lax, plain>>}
=============================================================================

------------------------------- MODULE MCWire -------------------------------
(* Requests of all operations, and the conversions, on small numbers.      *)
EXTENDS M70Wire, M70Util
=============================================================================

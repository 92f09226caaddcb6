------------------------------ MODULE Nothing ------------------------------
(* The values that the data of the plugins has where there is nothing.      *)
CONSTANTS
  None,   \* nothing: no Database, no call, no snapshot
  Null,   \* std::nullopt, a null EncodableValue, a key that is missing
  Empty   \* the empty text
=============================================================================

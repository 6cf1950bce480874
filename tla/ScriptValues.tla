---------------------------- MODULE ScriptValues ----------------------------
(***************************************************************************)
(* The values that scripts store in lists and dicts (mila.h).              *)
(***************************************************************************)
CONSTANTS
  Values,  \* the items that scripts store
  None     \* null, and the pointer to nothing
=============================================================================

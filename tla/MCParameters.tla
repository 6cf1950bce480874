---------------------------- MODULE MCParameters ----------------------------
(* Parameters for TLC: what a caller may see under the names of two of them. *)
EXTENDS Parameters, TLC

MCParamNames == <<"a", "b", "c">>
MCOuters == {<<>>, "b" :> "var", ("c" :> "const") @@ ("b" :> "var"), "c" :> "var"}
=============================================================================

--------------------------- MODULE MCExpressions ---------------------------
(* Expressions for TLC, written down as the documentation describes them.   *)
EXTENDS Expressions, TLC

MCOps == {"||", "==", "+"}
MCOperands == {<<"n">>, <<"x">>, <<"e">>}

\* `!` is read with the highest precedence, so that it applies to the operand that
\* follows it and to nothing behind it.  eval_primary evaluates the whole rest of the
\* expression for it.
NotBindsTightest == "not_binds" \in Writing => ReadsBack
=============================================================================

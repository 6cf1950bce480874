----------------------------- MODULE MilaParts -----------------------------
(***************************************************************************)
(* The parts of the interpreter that work by themselves, side by side.     *)
(* They share no state: what one does, the others do not see.  mode says   *)
(* which of them a behaviour is about, and the others stay in one initial  *)
(* state of theirs.  The parts that share values, scopes and threads are   *)
(* composed in MilaEnv, CallChain and MilaThreads.                         *)
(***************************************************************************)
EXTENDS ControlStructure, LineEditor, Containers, ModuleLoading, Operators,
        Parameters, Wildcards, Numbers, Texts

CONSTANTS
  Ops, Operands, MaxCombined, Writing,                             \* Expressions
  JsonHalf, JsonDigits, Atoms, KeysUsed, MaxSize                   \* Json

VARIABLES
  mode,
  expr, grown,                     \* Expressions
  value, value_size, functions     \* Json

Grammar == INSTANCE Expressions WITH MaxGrow <- MaxCombined
JsonTexts == INSTANCE Json WITH written <- value_size, Half <- JsonHalf,
                                MaxDigits <- JsonDigits

expression_vars == <<expr, grown>>
json_vars == <<value, value_size, functions>>
vars == << mode, control_vars, expression_vars, operator_vars, wildcard_vars, list_vars,
           dict_vars, json_vars, line_vars, module_vars, string_vars,
           number_vars, call_vars >>

Parts == { "control", "expressions", "operators", "wildcards", "lists", "dicts", "json",
           "line", "modules", "strings", "numbers", "calls" }

\* What a part that is not looked at starts with.
FirstProgram == CHOOSE p \in Programs : TRUE
FirstOperand == CHOOSE operand \in Operands : TRUE
FirstStart == CHOOSE v \in Start : TRUE
FirstPattern == CHOOSE p \in Beginnings : TRUE
FirstAtom == CHOOSE atom \in Atoms : TRUE
FirstOuter == CHOOSE callers \in Outers : TRUE

Init ==
  /\ mode \in Parts
  /\ ControlInit /\ (mode # "control" => program = FirstProgram)
  /\ Grammar!Init /\ (mode # "expressions" => expr = FirstOperand)
  /\ OperatorInit /\ (mode # "operators" => acc = FirstStart)
  /\ WildcardInit /\ (mode # "wildcards" => pattern = FirstPattern)
  /\ JsonTexts!Init /\ (mode # "json" => value = FirstAtom /\ functions)
  /\ NumberInit /\ (mode # "numbers" => number = Signed(0))
  /\ CallsInit /\ (mode # "calls" => outer = FirstOuter)
  /\ ll_create /\ DictInit /\ LineInit /\ LoadingInit /\ StringInit

\* What belongs to the other parts stays.
Only(part) ==
  /\ UNCHANGED mode
  /\ IF part = "control" THEN TRUE ELSE UNCHANGED control_vars
  /\ IF part = "expressions" THEN TRUE ELSE UNCHANGED expression_vars
  /\ IF part = "operators" THEN TRUE ELSE UNCHANGED operator_vars
  /\ IF part = "wildcards" THEN TRUE ELSE UNCHANGED wildcard_vars
  /\ IF part = "lists" THEN TRUE ELSE UNCHANGED list_vars
  /\ IF part = "dicts" THEN TRUE ELSE UNCHANGED dict_vars
  /\ IF part = "json" THEN TRUE ELSE UNCHANGED json_vars
  /\ IF part = "line" THEN TRUE ELSE UNCHANGED line_vars
  /\ IF part = "modules" THEN TRUE ELSE UNCHANGED module_vars
  /\ IF part = "strings" THEN TRUE ELSE UNCHANGED string_vars
  /\ IF part = "numbers" THEN TRUE ELSE UNCHANGED number_vars
  /\ IF part = "calls" THEN TRUE ELSE UNCHANGED call_vars

ControlStep == mode = "control" /\ Step /\ Only("control")

Next ==
  \/ ControlStep
  \/ mode = "control" /\ Idle /\ Only("control")
  \/ mode = "expressions" /\ Grammar!Next /\ Only("expressions")
  \/ mode = "operators" /\ OperatorNext /\ Only("operators")
  \/ mode = "wildcards" /\ WildcardNext /\ Only("wildcards")
  \/ mode = "lists" /\ ListNext /\ Only("lists")
  \/ mode = "dicts" /\ DictNext /\ Only("dicts")
  \/ mode = "json" /\ JsonTexts!Next /\ Only("json")
  \/ mode = "line" /\ LineNext /\ Only("line")
  \/ mode = "modules" /\ LoadingNext /\ Only("modules")
  \/ mode = "strings" /\ StringNext /\ Only("strings")
  \/ mode = "numbers" /\ Grow /\ Only("numbers")
  \/ mode = "calls" /\ CallsNext /\ Only("calls")

\* The interpreter runs its statements until the script ends; nothing makes a script
\* call another function or a user press another key.
Spec == Init /\ [][Next]_vars /\ WF_vars(ControlStep)

---------------------------------------------------------------------------
(* Properties, besides those of the modules that this one extends.         *)

\* A script whose conditions become false ends (mila.c): the position never returns to
\* statements that ran, except to repeat a loop.
Finishes == mode = "control" => <>Finished

\* The text of an expression, parentheses only where precedence_of asks for them, is
\* evaluated in the order of its tree (parse_expr in mila.c).  A ! is written in front of
\* the whole rest, as the code reads it; that the documentation says otherwise is the
\* subject of NotBindsTightest in MCExpressions.
ExpressionReadsBack == mode = "expressions" => Grammar!ReadsBack

\* An expression that is skipped ends where the same expression ends when it is
\* evaluated (the skip_ functions of mila.c).
SkipAgrees == mode = "expressions" => Grammar!SkipAgrees

\* An error in a first operand, an element or an argument is the value of the whole
\* expression, however deep it happened (mila.c; a right operand's error is lost).
ErrorsSurface == mode = "expressions" => Grammar!ErrorsSurface

\* What dumps writes, loads reads back, up to what the text cannot tell (ml_json.c).
JsonReadsBack == mode = "json" => JsonTexts!ReadsBack

\* Loading a text that is broken ends, but for the brackets that the code looks for without
\* end (ml_json.c).
BadTextEnds == mode = "json" => JsonTexts!BadTextEnds
=============================================================================

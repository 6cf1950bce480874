-------------------------- MODULE ControlStructure --------------------------
(***************************************************************************)
(* Structured programs: what a script means when its statements are read as *)
(* a tree.  The tree of a program is a pair [main, fun] of statement lists; *)
(* main may call fun.  Tokens writes it down as the text ControlFlow reads, *)
(* and Meaning runs the tree itself, asking a recorded trace for the        *)
(* outcome of every condition, expression and iterable it meets.            *)
(***************************************************************************)
EXTENDS ControlFlow

Simple(t) == [k |-> t]
Clause(braced, list) == [braced |-> braced, list |-> list]
IfChain(clauses, else) == [k |-> "if", clauses |-> clauses, else |-> else]
Loop(kind, list) == [k |-> kind, list |-> list]     \* while, foreach, catch, {

RECURSIVE Tokens(_), TokensOf(_)

Braced(list) == <<"{">> \o Tokens(list) \o <<"}">>
ClauseTokens(c) == IF c.braced THEN Braced(c.list) ELSE Tokens(c.list)

TokensOf(st) ==
  CASE st.k = "if" ->
         FlattenSeq([i \in 1 .. Len(st.clauses) |->
           (CASE i = 1 -> <<"if", "cond">>
              [] i = Len(st.clauses) /\ st.else -> <<"else">>
              [] OTHER -> <<"elif", "cond">>) \o ClauseTokens(st.clauses[i])])
    [] st.k = "while" -> <<"while", "cond">> \o Braced(st.list)
    [] st.k \in {"foreach", "catch", "catch_const", "catch_bare"} -> <<st.k>> \o Braced(st.list)
    [] st.k = "{" -> Braced(st.list)
    [] st.k = "text" -> <<"quote", "}", "quote">>    \* a string with a brace in it
    [] OTHER -> <<st.k>>

Tokens(list) == FlattenSeq([i \in 1 .. Len(list) |-> TokensOf(list[i])])

\* What the trace says of the token at p of src: its outcome, "wait" when it is not
\* recorded yet, "wrong" when something else happened there.
Outcome(src, p, tr) ==
  CASE tr = <<>> -> "wait"
    [] tr # <<>> /\ <<Head(tr)[1], Head(tr)[2]>> = <<src, p>> -> Head(tr)[3]
    [] OTHER -> "wrong"

Rest(tr) == IF tr = <<>> THEN tr ELSE Tail(tr)
Did(tr, out) == [tr |-> tr, out |-> out]

\* A tree and its text, as ControlFlow runs it.
Program(tree) == [main |-> Tokens(tree.main), fun |-> Tokens(tree.fun), tree |-> tree]

RECURSIVE Run(_, _, _, _, _), RunClauses(_, _, _, _, _, _), RunWhile(_, _, _, _, _),
          RunItems(_, _, _, _, _, _), RunOne(_, _, _, _, _)

\* The statements of a list that starts at p, in order, up to one that ends it.
Run(prog, src, list, p, tr) ==
  IF list = <<>> THEN Did(tr, "value")
  ELSE LET r == RunOne(prog, src, Head(list), p, tr)
       IN IF r.out # "value" THEN r
          ELSE Run(prog, src, Tail(list), p + Len(TokensOf(Head(list))), r.tr)

\* Exactly one clause: the first whose condition is true, else the last.
RunClauses(prog, src, st, i, p, tr) ==
  IF i > Len(st.clauses) THEN Did(tr, "value")
  ELSE LET c == st.clauses[i]
           last == i = Len(st.clauses) /\ st.else
           o == Outcome(src, p + 1, tr)
           body == p + (IF last THEN 1 ELSE 2)
           start == body + (IF c.braced THEN 1 ELSE 0)
       IN CASE last -> Run(prog, src, c.list, start, tr)
            [] ~last /\ o = "T" -> Run(prog, src, c.list, start, Rest(tr))
            [] ~last /\ o = "F" ->
                 RunClauses(prog, src, st, i + 1, body + Len(ClauseTokens(c)), Rest(tr))
            [] ~last /\ o \notin {"T", "F"} -> Did(Rest(tr), o)

RunWhile(prog, src, st, p, tr) ==
  LET o == Outcome(src, p + 1, tr)
      r == Run(prog, src, st.list, p + 3, Rest(tr))
  IN CASE o = "F" -> Did(Rest(tr), "value")
       [] o # "T" /\ o # "F" -> Did(Rest(tr), o)
       [] o = "T" -> CASE r.out \in {"value", "continue", "skip2"} ->
                            RunWhile(prog, src, st, p, r.tr)
                       [] r.out = "break" -> Did(r.tr, "value")
                       [] OTHER -> r

\* n items are left; `continue 2` goes on after the next one.
RunItems(prog, src, st, n, p, tr) ==
  IF n = 0 THEN Did(tr, "value")
  ELSE LET r == Run(prog, src, st.list, p + 2, tr)
       IN CASE r.out \in {"value", "continue"} -> RunItems(prog, src, st, n - 1, p, r.tr)
            [] r.out = "skip2" -> RunItems(prog, src, st, IF n = 1 THEN 0 ELSE n - 2, p, r.tr)
            [] r.out = "break" -> Did(r.tr, "value")
            [] OTHER -> r

RunOne(prog, src, st, p, tr) ==
  LET o == Outcome(src, p, tr) IN
  CASE st.k \in {"act", "text"} -> Did(Rest(tr), o)
    [] st.k \in {"break", "continue", "skip2", "return"} -> Did(tr, st.k)
    [] st.k = "call" -> LET r == Run(prog, "fun", prog.fun, 1, tr)
                        IN IF r.out = "return" THEN Did(r.tr, "value") ELSE r
    [] st.k = "if" -> RunClauses(prog, src, st, 1, p, tr)
    [] st.k = "while" -> RunWhile(prog, src, st, p, tr)
    [] st.k = "foreach" ->
         IF o \in {"wait", "wrong", "error"} THEN Did(Rest(tr), o)
         ELSE RunItems(prog, src, st, Head(tr)[4], p, Rest(tr))
    [] st.k = "catch_const" ->
         LET r == Run(prog, src, st.list, p + 2, tr)
         IN IF r.out \in {"wait", "wrong"} THEN r ELSE Did(r.tr, "error")
    [] st.k = "catch" ->
         LET r == Run(prog, src, st.list, p + 2, tr)
         IN IF r.out = "error" THEN Did(r.tr, "value") ELSE r
    \* Without an id the error is handed on, as the code does (docs/Basics.md:423 says
    \* "All they do is capture an error.").
    [] st.k = "catch_bare" -> Run(prog, src, st.list, p + 2, tr)
    [] st.k = "{" -> Run(prog, src, st.list, p + 1, tr)

Meaning(prog, tr) ==
  LET r == Run(prog, "main", prog.main, 1, tr)
  IN IF r.out \in {"return", "break", "continue", "skip2"} THEN Did(r.tr, "value") ELSE r
-----------------------------------------------------------------------------
\* Moving the position about does what the structure of the program says: no
\* statement is run that the reading of the program as a tree does not run next
\* under the same outcomes, and at the end none is missing and the result, error or
\* fatal error or value, is the one of the tree (eval_statement in mila.c).
FollowsStructure ==
  LET m == Meaning(program.tree, trace)
  IN /\ m.out # "wrong"
     /\ m.out # "wait" => m.tr = <<>>
     /\ Finished => m.out = (IF val \in Errors THEN val ELSE "value")
=============================================================================

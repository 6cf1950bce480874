---------------------------- MODULE ControlFlow ----------------------------
(***************************************************************************)
(* How MiLa runs statements (mila.c).  There is no syntax tree: a source   *)
(* is evaluated where it stands, and every statement moves the position s  *)
(* of its source, forward over what it skips and back to repeat a loop.    *)
(* break, continue, return and errors are values that a handler gives back *)
(* to the handler that called it.  A source is a sequence of tokens; an    *)
(* expression, with its semicolon or its parentheses, is one token.        *)
(***************************************************************************)
EXTENDS Integers, SequencesExt, FiniteSetsExt

CONSTANTS
  Programs,  \* what is run: [main, fun -> Seq(token)], and the tree that they come from
  MaxTrace,  \* no condition is true once the trace is this long
  MaxItems   \* a foreach meets at most this many items

VARIABLES
  program, \* a member of Programs
  at,      \* the Srcs that are read: a stack of [src, pos]
  stack,   \* the C handlers that wait, innermost last
  val,     \* what the innermost handler is told, see Values
  trace,   \* what the script did: <<src, pos, what>>
  envs,    \* Envs allocated and not freed
  iters    \* iterators initialised and not cleaned up

control_vars == <<program, at, stack, val, trace, envs, iters>>

\* "loop": the handler goes on; "stmt": eval_statement is called; otherwise the
\* value that a called handler returned. skip2 is `continue 2`.
Results == {"loop", "stmt", "value", "break", "continue", "skip2", "return",
           "error", "fatal"}
Errors == {"error", "fatal"}
Catches == {"catch", "catch_const", "catch_bare"}
Controls == {"break", "continue", "skip2", "return"}
\* Tokens that start a statement of their own; a word that stands anywhere else, as an
\* else without its if, is an expression.
Starters == {"if", "while", "foreach", "call", "{", "eof"} \cup Catches \cup Controls

Top == Last(stack)
Src == program[Last(at).src]
Pos == Last(at).pos
End(t) == Len(t) + 1
Peek(t, p) == IF p \in 1 .. Len(t) THEN t[p] ELSE "eof"
MoveTo(p) == at' = [at EXCEPT ![Len(at)].pos = p]
Record(p, what) == trace' = Append(trace, <<Last(at).src, p, what>>)
Push(f) == stack' = Append(stack, f)
Pop == stack' = Front(stack)

\* skip_block: braces are counted up to the one that closes the first, those in
\* strings and comments too.
Depth(t, p, q) == Len(SelectSeq(SubSeq(t, p, q), LAMBDA x : x = "{"))
                    - Len(SelectSeq(SubSeq(t, p, q), LAMBDA x : x = "}"))
SkipBlock(t, p) ==
  LET ends == {q \in p .. Len(t) : t[q] = "}" /\ Depth(t, p, q) = 0}
  IN IF Peek(t, p) # "{" THEN p
     ELSE IF ends = {} THEN End(t) ELSE Min(ends) + 1

\* An expression statement: one token, or a string with what stands in it. What
\* starts no expression is null, and the position stays.
SkipExpr(t, p) ==
  LET ends == {q \in p + 1 .. Len(t) : t[q] = "quote"}
  IN CASE Peek(t, p) = "quote" -> IF ends = {} THEN End(t) ELSE Min(ends) + 1
       [] Peek(t, p) \in {"{", "}", "eof"} -> p
       [] OTHER -> p + 1

\* The parser that skips, rule by rule: skip[rule, p] is where the text goes on behind
\* what the rule reads at p. A block of statements ends at a brace or with the text.
\* The code's parser gives up at a catch without an id (3716); of what is skipped here,
\* the block of another catch and a clause without braces, no program has one in it.
Skip(t) ==
  LET skip[rule \in {"statement", "statements", "body", "bodies"}, p \in Nat] ==
        LET word == Peek(t, p)
            block(q) == skip["statements", q + 1] + 1
        IN CASE rule = "statements" ->
                  IF word \in {"}", "eof"} THEN p ELSE skip["statements", skip["statement", p]]
             [] rule = "body" -> IF word = "{" THEN block(p) ELSE skip["statement", p]
             [] rule = "bodies" ->
                  CASE word = "elif" -> skip["bodies", skip["body", p + 2]]
                    [] word = "else" -> skip["body", p + 1]
                    [] OTHER -> p
             [] rule = "statement" ->
                  CASE word = "if" -> skip["bodies", skip["body", p + 2]]
                    [] word = "while" -> skip["body", p + 2]
                    [] word = "foreach" -> skip["body", p + 1]
                    [] word \in Catches -> block(p + 1)
                    [] word = "{" -> block(p)
                    [] OTHER -> SkipExpr(t, p)
  IN skip

SkipStatement(t, p) == Skip(t)["statement", p]
SkipParseBlock(t, p) == Skip(t)["statements", p + 1] + 1

\* The clause of an if that is not run: skip_block for a block, the statement
\* parser for anything else.
SkipClause(t, p) == IF Peek(t, p) = "{" THEN SkipBlock(t, p) ELSE SkipStatement(t, p)

CleanElifChain(t, p) ==
  LET clean[q \in Nat] ==
        CASE Peek(t, q) = "elif" -> clean[SkipClause(t, q + 2)]
          [] Peek(t, q) = "else" -> SkipClause(t, q + 1)
          [] OTHER -> q
  IN clean[p]

---------------------------------------------------------------------------

ControlInit ==
  /\ program \in Programs
  /\ at = <<[src |-> "main", pos |-> 1]>>
  /\ stack = <<[fn |-> "source"]>>
  /\ val = "loop"
  /\ trace = <<>>
  /\ envs = 0
  /\ iters = 0

Finished == stack = <<>>

\* A handler returns v to its caller.
Return(v) == Pop /\ val' = v

\* eval_source: statements up to the end of the source, an error or a return. The
\* value of the last one is handed on: the text of a function is one statement.
\* The Env of a call is freed with its source (call_function).
EndSource(v) ==
  /\ Return(v)
  /\ at' = Front(at)
  /\ envs' = envs - (IF Len(at) = 1 THEN 0 ELSE 1)
  /\ UNCHANGED <<program, trace, iters>>

EvalSource ==
  /\ ~Finished
  /\ Top.fn = "source"
  /\ \/ /\ val \notin Errors \cup {"return", "stmt"}
        /\ Pos < End(Src)
        /\ val' = "stmt"
        /\ UNCHANGED <<program, at, stack, trace, envs, iters>>
     \/ /\ val \notin Errors \cup {"return", "stmt"}
        /\ Pos = End(Src)
        /\ EndSource(IF val = "loop" THEN "value" ELSE val)
     \/ val = "return" /\ EndSource("value")
     \/ val \in Errors /\ EndSource(val)

LeaveKeeping(v) ==
  /\ Return(v)
  /\ envs' = envs - (IF Top.own /\ v = "value" THEN 1 ELSE 0)
  /\ UNCHANGED <<program, trace, iters>>

\* eval_block and eval_block_raw: the frame of the first is freed on each way out.
Leave(v) ==
  /\ Return(v)
  /\ envs' = envs - (IF Top.own THEN 1 ELSE 0)
  /\ UNCHANGED <<program, trace, iters>>

EvalBlock ==
  /\ ~Finished
  /\ Top.fn = "block"
  /\ \/ /\ val \in {"loop", "value"}
        /\ Peek(Src, Pos) \notin {"}", "eof"}
        /\ val' = "stmt"
        /\ UNCHANGED <<program, at, stack, trace, envs, iters>>
     \/ /\ val \in {"loop", "value"}
        /\ Peek(Src, Pos) \in {"}", "eof"}
        /\ MoveTo(Pos + 1)
        /\ Leave("value")
     \/ /\ val \in Errors \cup Controls
        /\ UNCHANGED at
        /\ Leave(val)

\* A block is entered at p, where its brace must stand; own: with an Env of its own.
\* f is the stack of the handlers that wait for it.
EnterBlock(f, p, own) ==
  /\ Peek(Src, p) = "{"
  /\ MoveTo(p + 1)
  /\ stack' = Append(f, [fn |-> "block", own |-> own])
  /\ val' = "loop"

\* A clause of an if is a block, run in the Env of the statement, or a statement.
EnterClause(f, p) ==
  \/ EnterBlock(f, p, FALSE)
  \/ /\ Peek(Src, p) # "{"
     /\ MoveTo(p)
     /\ stack' = f
     /\ val' = "stmt"

At(token) == ~Finished /\ val = "stmt" /\ Peek(Src, Pos) = token

---------------------------------------------------------------------------
(* eval_statement.                                                         *)

\* An expression: it does something, and is a value or an error.
Expression ==
  /\ ~Finished
  /\ val = "stmt"
  /\ Peek(Src, Pos) \notin Starters
  /\ \E w \in {"value", "error", "fatal"} : val' = w /\ Record(Pos, w)
  /\ MoveTo(SkipExpr(Src, Pos))
  /\ UNCHANGED <<program, stack, envs, iters>>

\* break, continue, continue 2 and return (of a value) are returned as values.
Jump ==
  /\ ~Finished
  /\ val = "stmt"
  /\ Peek(Src, Pos) \in Controls
  /\ MoveTo(Pos + 1)
  /\ val' = Peek(Src, Pos)
  /\ UNCHANGED <<program, stack, trace, envs, iters>>

\* An expression that calls the function: a Src and an Env of its own.
Call ==
  /\ At("call")
  /\ at' = Append([at EXCEPT ![Len(at)].pos = Pos + 1], [src |-> "fun", pos |-> 1])
  /\ Push([fn |-> "source"])
  /\ val' = "loop"
  /\ envs' = envs + 1
  /\ UNCHANGED <<program, trace, iters>>

\* A block as a statement: eval_statement and eval_block allocate an Env each.
Block ==
  /\ At("{")
  /\ EnterBlock(Append(stack, [fn |-> "scope"]), Pos, TRUE)
  /\ envs' = envs + 2
  /\ UNCHANGED <<program, trace, iters>>

EndScope ==
  /\ ~Finished
  /\ Top.fn = "scope"
  /\ val \notin {"stmt", "loop"}
  /\ Return(val)
  /\ envs' = envs - 1
  /\ UNCHANGED <<program, at, trace, iters>>

\* The condition of an if or elif at p: an error counts as true and is lost.
Test(p, f) ==
  /\ \/ /\ Len(trace) < MaxTrace
        /\ Record(p, "T")
        /\ EnterClause(Append(f, [fn |-> "clause", chain |-> TRUE]), p + 1)
     \/ /\ Record(p, "F")
        /\ MoveTo(SkipClause(Src, p + 1))
        /\ stack' = Append(f, [fn |-> "elif"])
        /\ val' = "loop"
  /\ UNCHANGED <<program, envs, iters>>

If == At("if") /\ Test(Pos + 1, stack)

\* After a clause that was skipped.
Elif ==
  /\ ~Finished
  /\ Top.fn = "elif"
  /\ val = "loop"
  /\ \/ /\ Peek(Src, Pos) = "elif"
        /\ Test(Pos + 1, Front(stack))
     \/ /\ Peek(Src, Pos) = "else"
        /\ EnterClause(Append(Front(stack), [fn |-> "clause", chain |-> FALSE]), Pos + 1)
        /\ UNCHANGED <<program, trace, envs, iters>>
     \/ /\ Peek(Src, Pos) \notin {"elif", "else"}
        /\ Return("value")
        /\ UNCHANGED <<program, at, trace, envs, iters>>

EndClauseOnly ==
  /\ ~Finished
  /\ Top.fn = "clause"
  /\ val \notin {"stmt", "loop"}
  /\ Return(val)
  /\ UNCHANGED <<program, at, trace, envs, iters>>

\* After a clause that was run: the other clauses are skipped, and its value is
\* handed on.
EndClause ==
  /\ ~Finished
  /\ Top.fn = "clause"
  /\ val \notin {"stmt", "loop"}
  /\ Return(val)
  /\ MoveTo(IF Top.chain THEN CleanElifChain(Src, Pos) ELSE Pos)
  /\ UNCHANGED <<program, trace, envs, iters>>

While ==
  /\ At("while")
  /\ Push([fn |-> "while", cond |-> Pos + 1, body |-> Pos + 2, end |-> SkipBlock(Src, Pos + 2)])
  /\ val' = "loop"
  /\ UNCHANGED <<program, at, trace, envs, iters>>

WhileTest ==
  /\ ~Finished
  /\ Top.fn = "while"
  /\ val \in {"loop", "value", "continue", "skip2"}
  /\ UNCHANGED <<program, iters>>
  /\ \/ /\ Len(trace) < MaxTrace
        /\ Record(Top.cond, "T")
        /\ EnterBlock(stack, Top.body, TRUE)
        /\ envs' = envs + 1
     \/ /\ Record(Top.cond, "F")
        /\ MoveTo(Top.end) /\ Return("value") /\ UNCHANGED envs
     \/ /\ Record(Top.cond, "error")
        /\ MoveTo(Top.cond) /\ Return("error") /\ UNCHANGED envs

EndWhile ==
  /\ ~Finished
  /\ Top.fn = "while"
  /\ val \in Errors \cup {"break", "return"}
  /\ MoveTo(Top.end)
  /\ Return(IF val = "break" THEN "value" ELSE val)
  /\ UNCHANGED <<program, trace, envs, iters>>

\* foreach over n items: an iterator that is stepped, or an array that a method of the
\* value made, where max is one past the last item. Or over what has no items.
Foreach ==
  /\ At("foreach")
  /\ UNCHANGED <<program, envs>>
  /\ \/ \E kind \in {"iterator", "array"}, n \in 0 .. MaxItems :
          /\ Push([fn |-> "foreach", kind |-> kind, i |-> 1, max |-> n + 1,
                   body |-> Pos + 1, end |-> SkipBlock(Src, Pos + 1)])
          /\ iters' = iters + (IF kind = "iterator" THEN 1 ELSE 0)
          /\ trace' = Append(trace, <<Last(at).src, Pos, "items", n>>)
          /\ val' = "loop"
          /\ UNCHANGED at
     \/ /\ Record(Pos, "error")
        /\ val' = "error"
        /\ MoveTo(Pos + 1)
        /\ UNCHANGED <<stack, iters>>

\* The loop ends with v, and cleans its iterator up.
EndLoop(v, held) ==
  /\ MoveTo(Top.end)
  /\ Return(v)
  /\ envs' = envs - held
  /\ iters' = iters - (IF Top.kind = "iterator" THEN 1 ELSE 0)
  /\ UNCHANGED <<program, trace>>

\* The items from i on: an Env for the variable of one item. held is 1 when the Env of
\* the item before, which is freed before the result is looked at, is still there.
LoopItem(i, held) ==
  IF i < Top.max
  THEN /\ EnterBlock(Append(Front(stack), [Top EXCEPT !.i = i]), Top.body, FALSE)
       /\ envs' = envs - held + 1
       /\ UNCHANGED <<program, trace, iters>>
  ELSE EndLoop("value", held)

FirstItem == ~Finished /\ Top.fn = "foreach" /\ val = "loop" /\ LoopItem(1, 0)

AfterItemAgain ==
  /\ ~Finished
  /\ Top.fn = "foreach"
  /\ \/ val = "value" /\ LoopItem(Top.i + 1, 1)
     \/ val \in {"continue", "skip2"} /\ LoopItem(Top.i, 1)
     \/ val = "break" /\ EndLoop("value", 1)
     \/ val \in Errors \cup {"return"} /\ EndLoop(val, 1)

\* `continue 2` takes one item more from the iterator, or adds one to the index.
AfterItem ==
  /\ ~Finished
  /\ Top.fn = "foreach"
  /\ \/ val \in {"value", "continue"} /\ LoopItem(Top.i + 1, 1)
     \/ val = "skip2" /\ LoopItem(Top.i + 2, 1)
     \/ val = "break" /\ EndLoop("value", 1)
     \/ val \in Errors \cup {"return"} /\ EndLoop(val, 1)

\* catch id { }: the end of the block is looked for first, then the block is run in the
\* Env of the statement.
Catch ==
  /\ ~Finished
  /\ val = "stmt"
  /\ Peek(Src, Pos) \in Catches
  /\ EnterBlock(Append(stack, [fn |-> Peek(Src, Pos), end |-> SkipParseBlock(Src, Pos + 1)]),
                Pos + 1, FALSE)
  /\ UNCHANGED <<program, trace, envs, iters>>

\* With an id an error that is not fatal is stored in it; without one it is handed on.
\* An id that is a constant makes an error of whatever the block gave.
EndCatch ==
  /\ ~Finished
  /\ Top.fn \in Catches
  /\ val \notin {"stmt", "loop"}
  /\ LET stores == Top.fn = "catch" /\ val = "error"
     IN /\ MoveTo(IF val = "error" /\ Top.fn # "catch_const" THEN Top.end ELSE Pos)
        /\ Return(CASE Top.fn = "catch_const" -> "error" [] stores -> "value" [] OTHER -> val)
  /\ UNCHANGED <<program, trace, envs, iters>>

Idle == Finished /\ UNCHANGED control_vars

Step ==
  \/ EvalSource \/ EvalBlock \/ Expression \/ Jump \/ Call \/ Block \/ EndScope
  \/ If \/ Elif \/ EndClause \/ While \/ WhileTest \/ EndWhile
  \/ Foreach \/ FirstItem \/ AfterItem \/ Catch \/ EndCatch

ControlNext == Step \/ Idle

\* The interpreter is one thread that runs until the script ends.
ControlSpec == ControlInit /\ [][ControlNext]_control_vars /\ WF_control_vars(Step)

---------------------------------------------------------------------------
(* Properties.                                                             *)

\* Every Env that is allocated belongs to a handler that still waits: whatever value,
\* jump or error ends a block, a loop or a call, it frees the Env it made, once.
RunsItem(k) == stack[k].fn = "foreach" /\ ~(k = Len(stack) /\ val = "loop")
OwnsEnv(k) ==
  \/ stack[k].fn = "block" /\ stack[k].own
  \/ stack[k].fn = "scope"
  \/ RunsItem(k)
  \/ stack[k].fn = "source" /\ k # 1  \* a call
EnvsOwned == envs = Cardinality({k \in DOMAIN stack : OwnsEnv(k)})

\* A foreach that ends in any way has cleaned its iterator up, and none that runs has.
IteratorsClosed ==
  iters = Cardinality({k \in DOMAIN stack :
                         stack[k].fn = "foreach" /\ stack[k].kind = "iterator"})

\* Blocks, loops and calls free their Env and clean their iterator up, once, on every way
\* out: end, jump, return or error (the handlers of mila.c).
HandlersOwn == EnvsOwned /\ IteratorsClosed
=============================================================================

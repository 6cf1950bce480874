# A TLA+ model of MiLa

MiLa is a small scripting language: an interpreter in C that evaluates source
text as it reads it (`mila.c`), with reference-counted values, dynamically
linked scopes and POSIX threads, and a library of native functions
(`ml_*.c`). This directory holds TLA+ modules translated from that code, the
configurations that model-check them with TLC, and theorems about them that the
TLA+ proof system checks.

Source lines are quoted as `file:line`, relative to the root of the repository.

## 1. The system

| Component | State | Operations | What must hold |
|---|---|---|---|
| Reference-counted values (`mila.c:677-706, 2097-2243`) | `refcount`, contents | `val_new`, `val_retain`, `val_release` | counts equal holders; nothing used after it was freed; a strong count is never taken for the weak mark |
| Scopes and variable statements (`mila.c:2444-2850, 6360-6652`) | `Env`: a list of `Var` with a flag, a parent | `set`, `set op=`, `var`, `const`, `alias`, `forget`, blocks | scripts see plain values; a constant keeps its value |
| Calls and closures (`mila.c:4766-4880, 5136-5233, 7097-7206`) | a closure `Env` per function value, `closure->parent` | literal, `fn`, call, parameters and defaults, return, name lookup | a name resolves in the caller's own live scopes, and every lookup ends; every argument reaches its parameter |
| Threads (`ml_threading.c`) | registry, `ThreadContext` (status, is_cancelled, is_daemon, on_kill) | `thread.make`, `join`, `cancel`, `check_cancel`, `set_daemon`, `status`, cleanup at exit | `on_kill` runs once, after the end; no context is used after it was freed; `cancel` and the exit come back |
| Control flow and errors (`mila.c:6653-7096`) | control and error values | `if`, `while`, `foreach`, `break`, `continue`, `return`, `catch` | the statements that run are those of the program's tree; every way out frees what the block holds |
| Expressions (`mila.c:3126-3453, 4935-5118, 5780-6089`) | - | precedence climbing; a second parser that only skips | an expression is evaluated in the order of its tree, and skipped to the same place |
| Operators and numbers (`mila.c:5388-5777, 3968-4024`) | - | `binary_op` on every pair of types, literals, printing, casts | numbers are ordered; what is printed is read back |
| Wildcard patterns (`mila.c:782-1226`) | - | match, search, replace, greedy and not | a match means what the pattern says |
| Linked lists (`ml_ll.c`, `ml_primitives.c`) | nodes, head, tail, size, iterators | append, insert, get, set, pop, slice, iterate | a list is a sequence; an iterator never meets a freed node |
| Dicts (`ml_dict.c`, `ml_primitives.c`) | buckets, size, capacity | set, get, remove, resize, copy, keys | a dict is a map, across resizes |
| Strings (`ml_primitives.c`, `ml_string.c`, `mila.c:188-338, 1406-1484`) | - | slice, find, replace, split, join, `${name}` | what scripts are told of a string is what it holds |
| JSON (`ml_json.c`) | - | `dumps`, `loads`, with functions or without | what is written is read back, as far as the two forms agree; broken texts end |
| Modules and search path (`ml_builtins.c:869-969`, `mila.c:7496-7640`, `ml_paths.c`) | table of modules, search path | main file and its setup file, `require`, `run` | the path follows the files that run; `require` gives the file that was named |
| Line editor (`blr.c`) | buffer, cursor, history, saved line | keys, history, save, load | the line ends with its NUL; the draft is not lost |
| Arrays and ranges, maths, builtins, native libraries, lifecycle, add-ons, `mlpkg`, `udb`, `mtags`, syntax and LSP | - | wrappers, parsers, tools | not modelled, see section 7 |

How they interact: a statement evaluates expressions into C locals that own a
reference each, and stores them in `Env`s, which own references of their own.
A call makes an `Env` below the function's closure, whose parent pointer it
moves to the caller. A thread runs a call on a stack of its own and shares
function values, and so closures, with the others. `thread.join`, `cancel` and
the cleanup at exit call back into the evaluator (`on_kill`).

There is no syntax tree: loops, clauses and function bodies are positions in a
text, and what is not run is skipped by parsers of their own.

What is hard here, and hard to test: the order of releases and retains in
each statement; two parsers that must agree on where everything ends; jumps
that leave loops, blocks and calls which each hold memory; which `Env` a statement changes and which one it looks in; one
parent pointer shared by all the running calls of a function; thread contexts
read without the lock; script code that runs with the lock of the registry
held; what happens when the main program ends first. `PROJECT.json` lists each
hazard at its line.

## 2. The modules

| Module | What it is |
|---|---|
| `MilaScopes` | the abstract variables: every place holds a value of its own |
| `MilaEnv` | values with counts, `Env`s, the statements; implements `MilaScopes` |
| `MilaEnvProofs` | theorems about `MilaEnv`, and that it implements `MilaScopes` |
| `CallChain` | the parent chain of `Env`s, calls, threads, lookups step by step |
| `CallChainProofs` | theorems about `CallChain` |
| `ThreadLives` | the abstract promise of `thread.make` for each thread |
| `MilaThreads` | registry, workers, join, cancel, cleanup; implements `ThreadLives` |
| `MilaThreadsProofs` | theorems about `MilaThreads`, and that it implements `ThreadLives` |
| `ControlFlow` | statements as texts that handlers walk through, skip and repeat |
| `ControlStructure` | the abstract meaning of control flow: programs as trees |
| `Expressions` | the evaluating and the skipping parser of expressions |
| `Operators` | `binary_op` on values of every type |
| `Numbers` | number literals read, skipped, printed and cast |
| `Characters` | the characters that mean something in patterns and strings |
| `Wildcards` | the matcher, the searches and the replacements, and the words a pattern means |
| `ScriptValues` | the values that lists and dicts refer to |
| `ItemList`, `LinkedLists` | a list as a sequence; a list as nodes, implements `ItemList` |
| `ValueMap`, `Dicts` | a dict as a map; a dict as buckets, implements `ValueMap` |
| `Containers`, `ContainersProofs` | what must hold of both; the theorems about them and their refinements |
| `Texts` | string natives and the substitution of `${name}` |
| `Json` | the writer and the reader of JSON |
| `Paths`, `ModuleLoading` | the texts that name files; files that run files |
| `ModuleLoadingProofs` | theorems about `require` and the search path |
| `TextLine`, `LineEditor` | what a person edits; the buffer and its bytes, implements `TextLine` |
| `TextProofs` | theorems about the line editor's buffer, that it implements `TextLine`, about the wildcards, number literals, and strings |
| `Parameters` | how a call binds its arguments |
| `EvaluatorProofs` | theorems about what handlers own, operators, and the binding of arguments |
| `ListLemmas` | lemmas that several proofs cite: parts of sequences and what they are put together to, how often something stands in one, the least number and the last position at which something fails, recursion over positions |
| `MilaParts` | the modules from `ControlFlow` on, side by side |
| `MCMilaEnv`, `MCCallChain`, `MCMilaThreads`, `MCMilaParts`, `MCExpressions`, `MCParameters`, `MCDicts` | instances for TLC |

**Parts.** The modules of `MilaParts` share no state in the code either: a list
does not see the search path. Those with theorems (`ControlFlow`, `Operators`,
`Parameters`, `LineEditor`, `Containers`, `ModuleLoading`, `Wildcards`, `Numbers`, `Texts`) are extended, so that the run checks the very
definitions the theorems are about, and the assumptions on their constants; the
others are instances. `mode` says which of them a behaviour is about;
the others stay in one initial state. So one run covers all of them at the cost
of the sum of their state spaces, and each property speaks of one mode. Where
two parts give a name to different things, `MilaParts` renames: `ItemValues`
(`Values` of lists and dicts), `Nothing` (their `None`), `DictKeys`, `JsonHalf`,
`EditedChars`, `PlainForm`, `MaxCombined`.

**Slips.** The three modules about values, scopes and threads have a constant
`Slips`: the things a script (or the
system) may do that the interpreter is known to get wrong. With `Slips = {}` the
model is the interpreter with scripts that avoid them, and all properties hold;
each violation run adds one slip and shows what it breaks. The code is the same
in both, only the inputs differ.

| Module | Slip | What it leads to |
|---|---|---|
| `MilaEnv` | `forget_outer`: forget a name that only an outer `Env` binds | run `env_forget` |
| | `alias_itself`: alias a variable to its own name | `NoUseAfterFree` fails |
| `CallChain` | `reentry`: call a function that is running | runs `chain_recursion`, `chain_shared` |
| | `drop_running`: drop the last reference to a running function | `SearchesLiveEnvs` fails: the closure below a running frame is freed |
| `MilaThreads` | `unjoined`: end the main program before a thread | run `threads_cleanup`; `ContextsOutliveUse` fails too |
| | `hook_asks`: call `thread.*` in `on_kill` at the exit | run `threads_halt` |
| | `shared`: join or cancel one thread from two tasks | `ToldAfterEnd`, `ImplementsThreadLives` fail |
| | `create_fails`: `pthread_create` fails | `ContextsOutliveUse` fails: the context is freed, but stays registered |

Four of these are enabled in no run: `alias_itself`, `drop_running`, `shared` and
`create_fails`. What they lead to was seen while the modules were written and can be
seen by adding them to `Slips`; the project does not check it. All runs and
theorems exclude them, so no property says anything about scripts or systems that do these
things.

Recursion is a slip because of `mila.c:4779`: a recursive call makes
`closure->parent` a cycle. A lookup of a name that one of the function's own
running calls binds still ends, since `env_get` meets it on its way round. A
name that is bound only behind the cycle is never reached: global variables, natives, and
the name of the function itself, so that `f(2)` of
`fn f(n) { if (n == 0) { return 1; } return n * f(n - 1); }` hangs at the second
call, which looks `f` up.

Three other modules have a constant of this kind:

| Module | Constant | Values | |
|---|---|---|---|
| `Expressions` | `Writing` | `not_binds`: scripts that expect `!` to take one operand, as `docs/Basics.md:161` says | run `expressions_not` |
| `Dicts` | `Reseeds` | `hash.set_seed` while there is a dict with keys | run `dict_reseeded` |
| `LinkedLists` | `ListSlips` | `pops_next`: pop the item that `foreach` takes next; `pops_empty`: pop from an empty list; `asks_length`: ask whether the list contains its length plus one | enabled in no run |

### MilaEnv

State: `heap` (counts, contents, references lost for good, "freed memory was
used", "abort() ran"), `at` (what each *place* refers to), `konst` (the
`VAR_CONST` flags), `depth` (the current `Env`), `args` (the argument arrays of
the running calls). A place is a variable of an `Env` or a C local (slot) of the
handlers that evaluate in it. `Retain`, `Release`, `Alloc` are the calls of
those names; a handler composes them in the order of the code. Contents are
opaque payloads. Each statement is one action, because the interpreter is
single-threaded between two statements and calls of the same stack; evaluation
of a statement's operands happens in earlier actions, so other statements
(of a block or call inside the expression) come between.

A conjunct `Running` stops the model after `abort()` or after a use of freed
memory, where C promises nothing. Statements whose result is a fresh null value
that nobody can see leave the slot empty instead.

### CallChain

State: `parent` (per `Env`), `stack` (what each frame of a task was made for),
`alive` (function values), `look` (the `Env` a lookup is about to search). The
walk of `env_get` is one action per step, so that calls, threads and losses come
between its steps. `Found` stands for the test of the names in one `Env`:
which names are bound is left open, so both outcomes are always possible.
A thread starts with a call whose caller is `NULL` (`ml_threading.c:67`), so the
global `Env` is not on its chain.

### MilaThreads

State: the registered contexts, `count`, whether the cleanup holds the lock,
and for each task where it is and which call it is in. Locked sections that do
not call out (`thread_registry_add`, `thread_registry_get`) are single actions
that need the lock to be free; the cleanup holds it over many actions.
`thread.make` is two actions, the registration and `pthread_create`.
Setting the status to 2 and the return of the worker are one action, since the
worker touches nothing in between. `pthread_join` of oneself, or of a thread
that another task joins, is undefined and may return at once (slip `shared`).
`on_kill` functions may ask about threads, but do not make or join any.

### ControlFlow and ControlStructure

State: `text` (the sources: the main script and one function body, as tokens),
`at` (the stack of `Src` records that are read, each a source and a position),
`stack` (the C handlers that wait for the innermost one), `val` (the value or
control value it gives back), `trace` (what ran, with the outcome of every
condition), `envs` and `iters` (the `Env`s and iterators that are allocated).
An action is one handler, or what it does between two calls that it makes, and moves
the position as the code does: `eval_while` sets it back to the condition, a
clause that is not taken is skipped by counting braces, a jump in a block leaves
the rest unread. Conditions and errors are nondeterministic.

`ControlStructure` says what the same program means as a tree. `Tokens` writes the
tree down, `Meaning` runs it and asks the trace for the outcomes.
`FollowsStructure` says that the trace is a run of the tree: skipping, jumping and
repeating text is never seen. `break 2` acts as `continue 2` in the code
(`mila.c:1237`), so the programs of the instance use `break`, `continue` and
`continue 2`; texts with a brace in a string make a skip end early. A `catch` without
an id hands its error on (`mila.c:7093`), and so does the tree, though
`docs/Basics.md:423` says that catch blocks "capture an error"; the parser that skips
gives up at one (`mila.c:3716`), so no program has it where that parser goes.

### Expressions, Operators, Numbers

An expression grows from operands by prefixes, operators, subscripts and calls.
It is written down with the parentheses that `precedence_of` asks for. `Prec`,
`Climb` and `Primary` read it back into a tree, as `eval_expr_prec` and
`eval_primary` do; `SkipPrec` and its siblings move the position, as the `skip_`
functions do. In the code `!` takes the whole rest of the expression as its operand
(`mila.c:5132`), where `docs/Basics.md:161` gives it the highest precedence. In the
run `parts` expressions are written as the code reads them (`Writing = {}`), so
`ExpressionReadsBack` does not say that `!` is as documented; the run
`expressions_not` writes them as documented, and shows that they are read otherwise.

`Operators` applies `binary_op` to an accumulator again and again: integers wrap at
`Width` bits, a float is a fraction, division by zero kills the process for
integers and gives an infinity for floats, dicts may overload. The items of a list
are plain values: a list in a list is compared by the same function again, and adds
nothing that the properties tell apart (`binary_op_items`). `OrderIsTotal`
compares every two numbers of all three types.

`Numbers` prints integers and lets literals grow by characters. The scan takes
hexadecimal digits in any literal, one point or one `x`; the skipping parser takes
any number of them. Characters are their codes, and integers go from `-MaxLong - 1` to
`MaxLong`. `LiteralEnd` and `Span` say where the loops of the two parsers stop;
`Worth` and `Decimal` are what `strtol` and `printf` compute, digit by digit.

### Wildcards

State: a pattern that grows by a character and the string it is matched with. What
the code does by recursion is a function of the position in the pattern, whose value
comes from positions further on; that of `do_match` says whether the rest of the string
is matched, that of the searches where a match ends. A position stands for a C
pointer, `NoMatch` for `NULL`. `match_end` and `greedy_match_end` differ in which of the
possible ends of a `*` or a `{set}` they prefer (`Preferred`).

The meaning is written without backtracking: a pattern is a sequence of pieces
(`PieceAt`), each with the characters it takes, and `WordEnds` has the places where the words may end
that they denote. A set is closed by the first bracket behind an even number of
backslashes, where the code skips escaped characters from the left.

### LinkedLists and ItemList, Dicts and ValueMap

`heap` maps the addresses of nodes to records with a `next`; freed addresses leave
its domain. Each operation changes the links that the code changes, in that
order. `iter` is the pointer a `foreach` keeps; `refs` counts the references that
the list has to give back. `ItemList` has a sequence and the turn of the `foreach`,
that is, how many items it has met, adjusted by what its body inserts and pops.
`ItemList` promises what the documentation promises: an item is contained if it equals
one (`docs/Builtins.md:191`), a pop from an empty list is null (`:183`). The code
also compares the slot behind the items, which holds their number plus one
(`ml_primitives.c:146`), and makes an error of that pop; `ListSlips` excludes
scripts that ask for either. Slices start inside the list or at its end, and their
length is -1 or more: the code clamps the length only, and reads past its array behind
the end (`ml_ll.c:163`).

A dict has buckets of chains, by the hash under `HASH_SEED`, one variable for the
whole process that `hash.set_seed` changes at any time; before a key is set in a dict more than three
quarters full they are doubled. `answer` holds what an operation was asked and
gave until the script takes it, so that refinement compares answers too: that
`get` finds what was set, also after `resize`, `remove` and `copy`.

### Texts, Json

`Texts` lets a string grow by fragments that contain placeholders, quotes,
backslashes and braces, and applies the natives to it. What the code does in a loop over
a string (`substitute_text`, `vstring_replace`, `strtok_r` in `str.split`) is a function
of the position where the loop stands: `AfterTurn` says where a turn goes on, `Written`
what it writes. The meaning of substitution is written without turns: each character is
met in a state (`AfterChar`: in code, in a literal, behind a backslash, in so many
braces, in a placeholder) and becomes what it becomes there (`Becomes`). To say that
replacement can be taken back, `Spare` is a character that no string has. A join of
no parts is `NoText`, a string whose contents are `NULL` (`ml_primitives.c:817-835`):
nothing is asked of it, since `str.split` would crash on it, and `split` undoes the
join of one part or more. `native_str_contains` and `native_str_find` take the
needle first, as the code does; `docs/Builtins.md:370` and `:379` name the string first.

`Json` builds values and writes and reads them. Tokens stand for characters where
nothing tells them apart: a string is a sequence of code points and escapes, a
number is its value, and `MaxDigits` says when its text is too long to be read
(`mila.c:4015`; three characters in the instance, 19 in the code). `ReadsBack` is about values up to
what JSON cannot tell: an unsigned number comes back signed, and a function of `json`
as null (`Plain`). `Sayable` excludes what is not read back:

- numbers of `MaxDigits` characters or more, as 10^18, which abort the reader, and
  with them unsigned numbers from 2^63 on;
- characters above 0xFFFF, and `\b`, which is read as `b`;
- keys that are no strings, and keys with a backslash: keys are written in another way
  than strings (`ml_json.c:354`);
- with functions, more than one parameter (they are written twice), defaults (written
  without `=`), contextuals and return types (not written).

`BadTextEnds` removes a token from a text and asks that the reader ends inside of it.
After an error in a list it counts brackets up to the one that closes the list, those
in strings and bodies too (`ml_json.c:117-127`), so the property is about texts whose
strings, keys and bodies have as many closing brackets as opening ones, and about other
tokens than closing brackets: `[1 "["]` runs past its end. No string here
has a closing bracket before its opening one, behind which the reader would go on inside
the string.

### ModuleLoading and Paths

State: the search path, the table of modules, the files that run (`frames`), the
runs so far (`ran`), the frames of files which could not be opened and left their
directory on the path (`left`), the last answer of `require`. An action is a start of
a file, by the main program, `require` or `run`, or its end with a value, null or an
error. What the file does in between is other actions. The main file looks for
`init.setup-mila` first; the frame that waits for it is below that of the setup file.
`invoke` is registered as `native_run` (`ml_builtins.c:1922`) and runs no setup file,
though `docs/Builtins.md:628-636` says that it does; `native_invoke` and
`invoke_file_keep_res` are reached by no script and are not modelled.

`PathFollowsFiles` compares the directory that was put on the path for each file with
the one the file is in (`Directory` of its canonical name, not the text the code
computed). A main file that is named by an absolute text is excepted: the code joins
the working directory and the text's directory (`mila.c:7595-7604`), which names
another directory or none.

`require` frees the path it found before it builds the key from it
(`ml_builtins.c:957`), so the key may be anything that is there afterwards:
`KeyAfterFree` is the path or `Garbage`.

### LineEditor and TextLine

State: the buffer of `BLR_MAX_LINE` bytes with its length and cursor, the line that
was saved when the history was entered, the history and the place in it. A key is
the bytes that the terminal sends for it; `Press` does what the edit loop does. A
line can also come from a pipe, and the history from a file. `TextLine` has two
strings, left and right of the cursor, a draft and a history.

### Parameters

State: the parameter list that `parse_param_list` reads, the number of arguments,
and what the caller has under the same names. `call_function` is an operator: the
loop over parameters, the inner loop over defaults, stored with `env_set_raw`, and
the one null behind them.

## 3. What the runs check

| Run | Instance | Result |
|---|---|---|
| `env` | 2 cells, 2 payloads, 2 names, 2 slots, 2 nested `Env`s, `ML_MAX_REFS` = 5; symmetry on all four sets | about 155 600 states: `TypeOK`, `NoUseAfterFree`, `Accounting`, `NeverWeak`, `ConstantsKeepTheirValue`, `ImplementsScopes` hold |
| `env_forget` | 1 payload, 1 slot | violated, see section 6 |
| `chain` | main and one thread, 2 functions, 3 frames each | about 604 700 states: `TypeOK`, `Linked`, `StaysInOwnScopes`, `SearchesLiveEnvs`, `SearchGoesOut`, `LookupEnds` hold |
| `chain_recursion`, `chain_shared` | the same | violated |
| `threads` | main and two threads | about 17 400 states: `TypeOK`, `ContextsOutliveUse`, `ImplementsThreadLives`, `HooksRun`, `CancelReturns` hold, no deadlock |
| `threads_cleanup`, `threads_halt` | the same | violated |
| `parts` | the twelve parts of `MilaParts`, see below | about 454 700 states: its 23 properties hold |
| `expressions_not` | 3 operators, 3 operands, 2 steps | violated |
| `missing_arguments` | 3 parameters, up to 4 arguments | violated |
| `dict_reseeded` | `Dicts` alone, two seeds | violated |

The properties of `parts`, and the bounds that make them interesting:

| Properties | What they say | Bounds |
|---|---|---|
| `FollowsStructure`, `HandlersOwn`, `Finishes` | statements run as the tree says; every `Env` and iterator has an owner that frees it; a script whose conditions become false ends | every kind of statement around every kind of jump, in a loop or before one, with a call that returns from within; `MaxTrace` 8 lets a loop of two statements repeat, `MaxItems` 2 |
| `ExpressionReadsBack`, `SkipAgrees`, `ErrorsSurface` | evaluation follows the tree; skipping ends where evaluation ends; an error in a first operand, element or argument is the result | one operator of five levels of precedence, `MaxCombined` 2 steps, so that each stands left, right and under each other |
| `OrderIsTotal`, `OperatorsInvert` | of `<`, `==`, `>` one holds of two numbers of any types; `+` and `-` undo each other; `!=` negates `==`, but for lists | all integers of `Width` 3 bits, fractions with terms up to `MaxFloat` 6, strings up to `MaxText` 1 |
| `MatchMeans`, `LeftmostLongest`, `ReplaceKeepsTheRest` | the matcher agrees with the set of words; the greedy search gives the first place and the longest match; the replacement loses nothing | patterns of `MaxWritten` 3 characters behind 5 beginnings, strings up to `MaxSubject` 3 |
| `ContainersSound`, `ImplementsItemList`, `ImplementsValueMap` | links, tail, size and counts agree; every entry is in its bucket once; the refinements | `MaxNodes` 3, one lost reference (`MaxLost`), two values; capacity 2 to 8, four keys of which three collide, two seeds (changed while the dict is empty) |
| `JsonReadsBack`, `BadTextEnds` | see `Json` | values of up to `MaxSize` 3 atoms of every type but float; numbers of 3 characters are too long (`JsonDigits`), integers have eight bits (`JsonHalf`) |
| `Terminated`, `ImplementsTextLine` | see `LineEditor` | `MaxLine` 2, `MaxEntries` 2, a letter and a space |
| `PathFollowsFiles`, `RequireGivesTheFile` | however files end, the path is the directories of the files that run; what `require` gives is a run of the file the name means | `MaxRuns` 4, one name for two files, setup files, files that cannot be opened, names with `${V}`, `~`, `\` and doubled slashes, a main file named by an absolute text |
| `TextsKeepTheirMeaning` | substitution in code only; `split` undoes `join`; searches, parts and replacement agree | `MaxGrow` 4 fragments |
| `NumbersReadBack` | printed numbers are read back, literals are skipped to where they end | integers of four bits (`MaxLong` 7), `MaxLiteral` 4, `MaxNumberDigits` 4, so that some literals are too long and some saturate |
| `ArgumentsBound` | arguments reach their parameters, in order; a default is used for a last missing one; only variables of parameters with defaults are written | 3 parameters, `MaxGiven` 4, callers that have the names as variables or constants |

Bounds of the others. Two names and two cells are enough for one variable to be
aliased, rebound and forgotten while another shares its value; two `Env`s give one
outer binding and one local one; two slots let an operand be held while a statement
stores another. `ML_MAX_REFS` is 5, so that a count of 6 references from 4
variable places and 4 slots reaches it. Three frames allow a call within a call
within a block; with two functions and two tasks every sharing of a closure
occurs. Two threads allow a thread that makes and joins another while the main
program joins or cancels the first. A third thread exceeds the time limit
because of the liveness properties.

`env` turns the deadlock check off: after `abort()` or when every cell is in use
and the scripts have no step left, the system stops. `parts`,
`expressions_not` and `missing_arguments` do too: a value, a pattern or a text stops growing at its
bound. `threads` keeps it on, with the exit of the process as the only final
state; `threads_halt` turns it off to show the blocked exit as a violation of
`HooksRun`.

Fairness. `CallChain`: weak fairness of each step of a lookup, a loop that waits
for nobody. `ControlFlow` and `MilaParts`: weak fairness of the steps of a running
script, which waits for nobody either; `Finishes` holds because the conditions are
bounded by `MaxTrace`, and says that jumps do not repeat statements by themselves.
`MilaThreads`: weak fairness of native code (thread creation and start, return from
`pthread_join`, the hook test, the cleanup loop), since the system schedules every
thread; strong fairness of the return of `on_kill`, which may ask about threads in
between, and of `Halt`: `docs/Builtins.md` requires a thread that may be cancelled
to keep calling `thread.check_cancel`. Nothing makes any other thread end, and no
property assumes that it does.

## 4. What is proved

All proofs are for every value of the constants, under the assumption
`Slips = {}` where the module has slips, and the named assumptions of the module
(`EnvAssumption`, `ChainAssumption`, `EnvsDistinct`, `ThreadsAssumption`).

`MilaEnvProofs`: `TypeOK`, `NoUseAfterFree`, `Accounting` and `NeverWeak` are
invariants. The inductive invariant is their conjunction with the shape of the
state: without `Accounting` no step can show that a value it releases is still
counted, and without the bound on counts `Accounting` breaks at the weak mark.
Lemmas about `Retain`, `Release`, `ReleaseAll` and `Alloc` say how each changes
the number of references that are owed; `CountMove` and its siblings say how
the number of holders changes when places are rebound. A handler's proof then
composes them as the handler composes the calls.

The same module proves `ImplementsScopes` and `ConstantsKeepTheirValue`. The counts
show that a cell which a place refers to keeps its contents through every
`Retain` and `Release`, and that `Alloc` takes a cell nobody refers to. So a place
that refers after a step to what some place referred to before has the same
contents as that place (`SameVal`), and every handler is one step of `MilaScopes`.
That constants keep their values follows from the steps of `MilaScopes`.

`MilaThreadsProofs`: `TypeOK` and `ContextsOutliveUse`. The invariant says where
freed contexts can be: behind the place the cleanup has reached (`FreedBehind`).
The cleanup starts when every registered thread is over (`SweepsAlone`) and keeps
the lock until the process is gone, so no task is inside a call that reads one.

The same module proves `ImplementsThreadLives`, and that `on_kill` follows the end of
the thread. A thread is settled by one task (`SettledByOne`); a thread whose
`on_kill` is about to be looked at is over (`EndedBeforeHook`); what was told was
told once, and the hook is marked as run or is running (`ToldOnce`).

`ModuleLoadingProofs`: `RequireGivesTheFile`, under `GarbageIsNoFile` (what is read
from the freed path names no file). Every entry of the table names a run of the
file that its key means, and every frame names the run it belongs to; both outlive
all nesting of `require`, `run`, the main file and its setup file. The functions that
search and clean texts stay opaque: the proof holds for any of them. With the same frames, the path at
every moment is the start path, then the directories that files which could not be
opened have left, then those of the frames from the outermost to the innermost; the
invariant counts how often each directory is on the path, since the code removes
only the first occurrence, the one added last, and leaves the others. That each of
them is the directory its file is in (`OwnInv`) rests on `DirnamesAreRight`: the
dirname of a text that names a file, and of a relative name of a main file behind the
working directory, stands for the directory of the file. `path_dirname_alloc` and
`transform_path` stay opaque, so this is assumed; it fails for files that lie in `/` itself
and where a directory has `~` or `${` in its name. TLC checks `PathFollowsFiles` with the
functions of `Paths` themselves.

`CallChainProofs`: `TypeOK`, `Linked`, `StaysInOwnScopes` and
`SearchesLiveEnvs` are invariants, and `SearchGoesOut` holds of every step. The
strengthening is `OnceOnly`: a function appears once on all the stacks together,
which is what makes one parent pointer per closure enough; it is exactly what
recursion and functions shared by threads break. `Outwards` shows that every
step of a lookup decreases `Rank`, the argument for its termination;
`LookupEnds` itself needs fairness and is left to TLC.

`EvaluatorProofs` has theorems about three modules. `HandlersOwn` of `ControlFlow`
holds for any program and every choice of conditions and errors. The invariant
(`ControlInv`) counts the sources, the `Env`s and the iterators by the handlers that
wait for the innermost one, and knows the one moment at which a `foreach` has given up
its `Env` before it says so (`Pending`).

`OrderIsTotal` and `OperatorsInvert` of `Operators` hold for integers of every width,
under `OperatorConstants` (what a script writes are values). The invariant is that the
accumulator is a value of one of the types (`OperatorsKeep`); it needs that every
operator gives such a value. Two numbers of any types stand for two integers with the
same order (`NumbersCompare`: fractions by their cross products, unsigned numbers
by what they wrap to), and lists are ordered by the first items that differ. That `+`
and `-` undo each other, and that `/` and `%` of C belong together, rests on lemmas about
reduction modulo a power of two (`Remainder`, `Reduced`, `Wraps`).

`ArgumentsBound` of `Parameters` holds for lists of parameters and arguments of every
length, under `CallConstants` (the parameters of a function have different names). The
loops over parameters and over defaults are recursive functions on a range of numbers;
what they have stored up to each turn is proved by the least turn at which it fails. The
difficult part is `DefaultsKeep`: a default is stored with `env_set_raw`, which
may write to the caller, so the proof shows that it writes to no name of an argument.

`TextProofs`: `Terminated` and `ImplementsTextLine`, under `LineConstants` (the
buffer has room for the NUL, the history for a line). The invariant (`LineInv`) says
that the buffer and the saved line each hold a text without NUL and one NUL behind
it, and that the place in the history is in the history. What stands behind the NUL
is anything: the proof shows that no key, not even a kill behind the cursor or a
walk through the history, brings it back.

The same module proves `MatchMeans`, `LeftmostLongest` and `ReplaceKeepsTheRest` of
`Wildcards` for every pattern and string, under `WildcardConstants` (a C string has no 0
in it). All state the invariant needs is that both are strings; the work is in the
functions. `Descends` of `ListLemmas` shows that a function exists whose values come
from later positions, and `NoLast` that what holds at a position if it holds at all
later ones holds everywhere. With these, `ClosingIs` shows that skipping escaped
characters finds the bracket behind an even number of backslashes, `SetsAgree` that the
loop of `set_match` finds the members of a set, and `PieceIs` that the matcher takes one
piece as it is meant. That the greedy search finds the longest match although each run
decides for itself, without trying shorter ones once the rest fits, is not obvious: it
holds because no word from a place further on ends before the longest one from here
(`LongerLater`), and that holds because a run that may begin further on may end
where it ended, or ends later (`StopsLater`). The replacement is proved from
the end of the string: what is appended and what is still to be read are together
always the rest of the string (`TurnKeeps`, `ReplacingKeeps`), for any count.

`NumbersReadBack` is proved there too, under `NumberConstants`: for every `LONG_MAX`,
every `MAX_NUMBER_DIGITS` and whatever characters a literal grows by. The invariant says
that a number that was just printed stands in the text. `DecimalDigits` shows that
the digits which are printed of a number are worth that number, by the least number
for which they are not (a number without its last digit is smaller); `StrtolReads`
that `strtol` reads the digits behind the sign; `ParsesDigits` and `SkipsAlike`
that both parsers stop behind them. That no printed number saturates is
where the range of the integers comes in, and that the casts undo each other needs
`Remainder`. What the property leaves out is what the code gets wrong: numbers whose text has
`MAX_NUMBER_DIGITS` characters abort the interpreter. Unsigned numbers above `LONG_MAX`
are left out too: the parser makes `LONG_MAX` of them.

`TextsKeepTheirMeaning` is proved for every string, name and value, under
`TextConstants` (no string has a 0 in it, and no fragment has `Spare`). Its invariant is
that the string is one of such characters. For the substitution, `LiteralPasses`, `BracesPass` and `HolePasses`
show that a turn which begins in the state of code ends in it, and that no character it
passes is met in that state; so what a turn writes is what its characters become, one by
one (`TurnCopies`, `TurnReplaces`), and from the last turn back the whole result is put
together of them (`SubstitutesByState`). A join is taken back if it has a part. `SplitShift` shows that a string is split
behind another one as it is alone, from which `SplitJoined` follows by the number of
tokens. `RoundTrip` and `ReplacedIsGone` follow the searches of `vstring_replace` from
the last match back: between two matches stands nothing of what is replaced, and no match
can begin in front of a `Spare` and end behind it (`NotAround`).

`ContainersProofs`: `ContainersSound`, `ImplementsItemList` and `ImplementsValueMap`,
under `ListConstants`, `DictConstants`, `ListSlips = {}` and `~Reseeds`. For a list the
invariant (`ListInv`) is one sequence of different addresses that the links walk
through, from `head` to `tail`, with as many members as `size`; the list of items is
read off it. For a dict (`DictInv`) it says that each entry is in the bucket its hash
points to, that no key is stored twice, and that `size` and the references count the
entries. Both argue about *how often* something is stored (`Stored`, `Among`), which
needs no order: a doubling moves every entry and reverses chains, but stores each
as often as before. The loops of `dict_resize` and the copy are recursive functions
on a range of numbers; where the proofs need induction over it they take the least
number at which a statement fails (`Loops`, `NoFirst` of `ListLemmas`), which
first-order provers can do.

`ListLemmas` has what the proofs share. `ListSlips = {}` and `~Reseeds` exclude the scripts that
the code gets wrong (section 6), not states of the others. What no list here does,
with slips or without, is slice from behind its end.

Only model-checked:

- all liveness (`LookupEnds`, `HooksRun`, `CancelReturns`, `Finishes`): it needs
  fairness, and `ENABLED`;
- what recursive operators compute: `FollowsStructure`, `ExpressionReadsBack`,
  `SkipAgrees`, `ErrorsSurface`, `JsonReadsBack`, `BadTextEnds`. These are parsers and printers written
  with `RECURSIVE`, most of them about data of any depth; the provers have no induction
  over data.

## 5. How properties are tested

Every property of a passing run has a mutant in `PROJECT.json`: a definition of
the module changed the way a plausible bug would change the code (a retain left
out, a flag not looked at, a pointer linked once only, an operand parsed one level
too low, a directory that a failed setup file leaves behind), under which TLC finds
the property violated. The mutated forms stand beside the definitions they replace
(`EndSetupEarly`, `CopiedNoChar`, `PrecGoesOn`, ...) and are used by nothing else, or are a part of them (`skip_digits`).

## 6. Findings

All were reproduced with the interpreter as well.

1. `forget` of an outer variable inside a block frees a value that is still
   bound (`mila.c:6627`); run `env_forget`.
2. `!` takes the whole rest of the expression (`mila.c:5132`), where the
   documentation gives it the highest precedence (`docs/Basics.md:161`): `!0 == 1` is
   true; run `expressions_not`.
3. A recursive function hangs on the first name that none of its own calls binds, a
   global one or its own among them (`mila.c:4779`); run `chain_recursion`.
4. Threads that share a function overwrite its parent pointer (`mila.c:4779`);
   run `chain_shared`.
5. The cleanup calls `on_kill` with "normal" before a non-daemon thread has
   ended, and joins nothing (`ml_threading.c:326`); run `threads_cleanup`.
6. An `on_kill` that calls `thread.status` at the exit deadlocks with the
   cleanup that called it (`ml_threading.c:317`); run `threads_halt`.
7. Of several missing arguments one is made null, the others keep what the caller
   has under their names (`mila.c:4817`); run `missing_arguments`. A default can be
   overwritten by that null, and is stored in the caller's variable of its name
   where there is one (`mila.c:4793`).
8. `hash.set_seed` changes where every dict looks for its keys, but moves none
   (`ml_builtins.c:1434`): a dict that has keys no longer finds them, nor does the
   table of loaded modules (`mila.c:7840`); run `dict_reseeded`.

The models follow the code in these points too, which the properties
state as exceptions or the slips leave out:

- `const` on an existing variable stores the value and does not make it a constant
  (`mila.c:2695`).
- A `catch` without an id hands its error on (`mila.c:7093`; `docs/Basics.md:423`).
- `alias x : "x"` releases the value before retaining it (`mila.c:6648`, `2673`).
- `break 2` leaves the inner loop and continues the outer one (`mila.c:1237`);
  skipping a block counts braces in strings.
- An error in a right operand is a value of the operator and is lost.
- `[1, 2] != [1, 3]` is false, as is `==`; integer division by zero kills the process.
- `list.pop()` pops the first item, of an empty list it is an error
  (`docs/Builtins.md:183`: null); an iterator whose next item is popped points to
  freed memory; a list seems to contain its length plus one (`ml_primitives.c:146`);
  a slice from behind the end reads past its array (`ml_ll.c:163`).
- A literal of 19 characters aborts (`mila.c:4015`), in JSON too; `+5` has no value.
- `dumps` writes characters above 0xFFFF as `\u` with five digits, unsigned numbers
  from 2^63 on as negative ones, the parameters of a function twice, and no
  contextuals or return type; `loads` of an unclosed list, or one that lacks a comma before
  a bracket in a string, reads past the end of its text.
- `str.join` of an empty list is a string with no contents, on which `str.split`
  crashes (`ml_primitives.c:817-835`); `str.contains` and `str.find` take the needle first
  (`docs/Builtins.md:370`, `:379`: last).
- `invoke` is `run` (`ml_builtins.c:1922`; `docs/Builtins.md:628-636`); a main file named by an
  absolute path puts a directory that is not its own on the search path (`mila.c:7595-7604`).
- `require` builds its key from freed memory, so a module may run again; a file that
  cannot be opened leaves its directory on the search path.

## 7. Not modelled

- In `MilaEnv`: contextuals, `sync`, weak references, `val_kill`, `copy`, type
  annotations and subscripts. Contextuals borrow a value without retaining it
  (`mila.c:2634`), and typed parameters share one string (`mila.c:4411`): both are
  listed as hazards without a property.
- In `ControlFlow`: errors that carry a tag, and errors in conditions beyond their
  counting as true. In `Expressions`: dict literals, namespaced calls, formatted
  strings.
- Two threads in `require` or in the search path: readers and writers take
  different mutexes (`ml_paths.c:566`), a data race of which nothing can be promised.
- Arrays are one bounds check; the ranges of the primitives are not called by
  anything in `src/`. Script mutexes are plain pthread mutexes.
- Maths works on 128-bit floats. Native libraries are shared objects; that
  `da_append` drops the element which makes it grow is listed as a hazard.
- The other builtins, the socket and HTTP add-ons, `mlpkg`, `udb`, `mtags`, the
  language server and the header generator are input and output, or text in and
  text out without state.

## 8. Plan

What would come next, in this order.

1. `MilaEnv` extended by contextuals, weak references and `sync`, and subscripts
   that borrow a variable; the proofs of `MilaEnvProofs` with them.
2. `Json` with recursive functions over positions of a text instead of
   recursive operators, as `Texts` has them; what it says of flat values could then be
   proved by the last position at which it fails.
3. `require` by several threads, with the table and the path as arrays that move.
4. `ControlFlow` on top of `MilaEnv`, so that jumps release operands and `Env`s of
   one state.

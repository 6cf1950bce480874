----------------------------- MODULE Parameters -----------------------------
(***************************************************************************)
(* How a call binds arguments to parameters (call_function in mila.c).     *)
(* Parameters have defaults, and one may take the rest of the arguments.   *)
(* The Env of the call is found before the caller's, which the body of the *)
(* function can see too.  A function and its call grow, and the properties *)
(* are about the binding of the two at any time.  An argument that failed  *)
(* does not get here: eval_primary gives it back (ErrorsSurface of         *)
(* Expressions).                                                           *)
(***************************************************************************)
EXTENDS Integers, Sequences, FiniteSetsExt

CONSTANTS
  ParamNames,  \* the names of the parameters, a sequence
  Outers,      \* what a caller may see: functions from names to "var" or "const"
  MaxGiven     \* bound: the arguments of a call

\* Two parameters of one name would be one variable.
ASSUME CallConstants ==
  /\ ParamNames \in Seq(Range(ParamNames))
  /\ \A i, j \in DOMAIN ParamNames : ParamNames[i] = ParamNames[j] => i = j
  /\ \A seen \in Outers : seen \in [DOMAIN seen -> {"var", "const"}]

VARIABLES
  params,  \* Seq of [name, default, rest]
  argc,    \* the number of arguments
  outer    \* what the caller sees under these names, a member of Outers

call_vars == <<params, argc, outer>>

null == <<"null">>
Arg(i) == <<"arg", i>>
Default(i) == <<"default", i>>
RestFrom(i) == <<"list", i, argc>>   \* the arguments i to the last
NamesOf(ps) == {ps[i].name : i \in DOMAIN ps}

\* The Env of the call, and what the caller has under the names that were written through.
NoEnv == [frame |-> <<>>, written |-> <<>>]
Stored(f, name, v) == [n \in DOMAIN f \cup {name} |-> IF n = name THEN v ELSE f[n]]
env_set_local_raw(e, name, v) == [e EXCEPT !.frame = Stored(@, name, v)]

\* The nearest Env that has the name; a constant stays as it is.
env_set_raw(e, name, v) ==
  CASE name \in DOMAIN e.frame -> env_set_local_raw(e, name, v)
    [] name \notin DOMAIN e.frame /\ name \in DOMAIN outer ->
         IF outer[name] = "const" THEN e ELSE [e EXCEPT !.written = Stored(@, name, v)]
    [] OTHER -> env_set_local_raw(e, name, v)

\* The parameters have their arguments, up to the first that has none or takes the rest.
Ordinary == Min({i \in DOMAIN params : i > argc \/ params[i].rest} \cup {Len(params) + 1}) - 1
Bound[i \in 0 .. Len(params)] ==
  IF i = 0 THEN NoEnv ELSE env_set_local_raw(Bound[i - 1], params[i].name, Arg(i))

\* From the first parameter without an argument on, up to one without a default.
Defaults(e, i) ==
  LET last == Min({j \in i .. Len(params) : ~params[j].default} \cup {Len(params) + 1}) - 1
      Set[j \in 0 .. Len(params)] ==
        IF j < i THEN e ELSE env_set_raw(Set[j - 1], params[j].name, Default(j))
  IN Set[last]

\* at: the parameter where the binding stopped.
Stops(e, at) == [env |-> e, at |-> at]

Bind ==
  LET i == Ordinary + 1 IN
  CASE i > Len(params) -> Stops(Bound[Ordinary], Ordinary)
    [] i <= Len(params) /\ i > argc -> Stops(Defaults(Bound[Ordinary], i), i)
    [] OTHER -> Stops(env_set_local_raw(Bound[Ordinary], params[i].name, RestFrom(i)), argc)

\* Parameters behind the one where the binding stopped make that one null, and it only.
NullToTheLast(bound) ==
  IF bound.at > 0 /\ bound.at <= Len(params)
  THEN env_set_local_raw(bound.env, params[bound.at].name, null) ELSE bound.env
NullBehind(bound) ==
  IF bound.at < Len(params) THEN env_set_local_raw(bound.env, params[bound.at].name, null)
  ELSE bound.env

call_function == NullBehind(Bind)

---------------------------------------------------------------------------
CallsInit == params = <<>> /\ argc = 0 /\ outer \in Outers

parse_param_list ==
  /\ Len(params) < Len(ParamNames) /\ argc = 0
  /\ \E default, rest \in BOOLEAN :
       params' = Append(params, [name |-> ParamNames[Len(params) + 1], default |-> default, rest |-> rest])
  /\ UNCHANGED <<argc, outer>>
Give == argc < MaxGiven /\ argc' = argc + 1 /\ UNCHANGED <<params, outer>>

CallsNext == parse_param_list \/ Give
CallsSpec == CallsInit /\ [][CallsNext]_call_vars

---------------------------------------------------------------------------
(* Properties.                                                             *)

CallFrame == call_function.frame
FirstRest == Min({i \in DOMAIN params : params[i].rest} \cup {Len(params) + 1})

\* Every parameter before the one that takes the rest has its argument, in order, and that
\* one, if it is the last, all the others (call_function in mila.c).
ArgumentsInOrder ==
  /\ \A i \in 1 .. argc : i < FirstRest /\ i <= Len(params) => CallFrame[params[i].name] = Arg(i)
  /\ FirstRest = Len(params) /\ FirstRest <= argc =>
       CallFrame[params[FirstRest].name] = RestFrom(FirstRest)

\* A default is used for the last parameter, if it is the only one without an argument and
\* the caller has no variable of its name. A call writes to variables of the caller only
\* under the names of parameters that have a default and no argument (call_function in
\* mila.c).
DefaultsUsed ==
  LET last == Len(params)
  IN /\ last = argc + 1 /\ params[last].default /\ params[last].name \notin DOMAIN outer
          /\ FirstRest >= last => CallFrame[params[last].name] = Default(last)
     /\ \A name \in DOMAIN call_function.written :
          /\ outer[name] = "var"
          /\ \E i \in argc + 1 .. last : params[i].name = name /\ params[i].default

\* A call binds the arguments it has to the parameters they stand for, and a default where
\* one is missing; it leaves the caller's other variables alone (call_function in mila.c).
ArgumentsBound == ArgumentsInOrder /\ DefaultsUsed

\* The comment at mila.c:4788: "if fewer args provided, bind null". Every parameter is
\* a variable of the call's own Env.
MissingAreBound == NamesOf(params) \subseteq DOMAIN CallFrame
=============================================================================

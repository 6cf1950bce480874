-------------------------------- MODULE Paths --------------------------------
(***************************************************************************)
(* Texts that name files (ml_paths.c).  A text is a sequence of the        *)
(* characters that matter here, each run of ordinary letters being one     *)
(* member: "/", "\\", "~", "$", "{", "}", ":", "." and words.              *)
(***************************************************************************)
EXTENDS Integers, SequencesExt, FiniteSetsExt

CONSTANTS
  Home,   \* $HOME
  Getenv  \* a function from the variables that are set, as texts, to their values

Slash == <<"/">>
First(t, c, from) == LET at == {i \in from .. Len(t) : t[i] = c} IN
  IF at = {} THEN 0 ELSE Min(at)

normalize_slashes(t) ==
  LET put(out, c) == LET d == IF c = "\\" THEN "/" ELSE c IN
        IF d = "/" /\ out # <<>> /\ Last(out) = "/" THEN out ELSE Append(out, d)
  IN FoldLeft(put, <<>>, t)

expand_home(t) == IF t # <<>> /\ Head(t) = "~" THEN Home \o Tail(t) ELSE t

get_env(name) == IF name \in DOMAIN Getenv THEN Getenv[name] ELSE <<>>

\* ${VAR} and ${VAR:default}, the text between the braces.
Variable(t) ==
  LET colon == First(t, ":", 1)
      name == IF colon = 0 THEN t ELSE SubSeq(t, 1, colon - 1)
  IN IF get_env(name) = <<>> /\ colon > 0 THEN SubSeq(t, colon + 1, Len(t)) ELSE get_env(name)

\* from[i]: what becomes of the text from its place i on.
expand_env(t) ==
  LET from[i \in 1 .. Len(t) + 1] ==
        LET close == First(t, "}", i + 2) IN
        CASE i > Len(t) -> <<>>
          [] i + 2 <= Len(t) /\ t[i] = "$" /\ t[i + 1] = "{" /\ close > 0 ->
               Variable(SubSeq(t, i + 2, close - 1)) \o from[close + 1]
          [] OTHER -> <<t[i]>> \o from[i + 1]
  IN from[1]

transform_path(t) == normalize_slashes(expand_env(expand_home(t)))

path_join_alloc(t, part) == normalize_slashes(t \o Slash \o part)

\* Slashes made one, and none at the end.
Trimmed(t) == LET n == normalize_slashes(t) IN
  IF Len(n) > 1 /\ Last(n) = "/" THEN Front(n) ELSE n
LastSlash(t) == Max({i \in DOMAIN t : t[i] = "/"} \union {0})

path_dirname_alloc(t) ==
  LET u == Trimmed(t)
      at == LastSlash(u)
  IN CASE t = <<>> \/ at = 0 -> <<".">>
       [] at = 1 -> u  \* "/f" is its own directory
       [] OTHER -> SubSeq(u, 1, at - 1)

IsAbsolute(t) == t # <<>> /\ Head(t) \in {"/", "\\"}
\* A file under a directory of the search path.
Under(root, t) == root \o (IF root # <<>> /\ Last(root) # "/" THEN Slash ELSE <<>>) \o t
=============================================================================

---------------------------- MODULE ModuleLoading ----------------------------
(***************************************************************************)
(* Files that run files: require and run, the search path they look in and *)
(* grow for as long as a file runs, the init.setup-mila that the main file *)
(* is preceded by, and the table of modules that require keeps             *)
(* (ml_builtins.c, mila.c, ml_paths.c).  Scripts know run as invoke too.   *)
(* What a file does between two of these steps is left open; one thread    *)
(* runs them.                                                              *)
(***************************************************************************)
EXTENDS Paths

CONSTANTS
  Cwd,         \* the working directory
  Files,       \* the files that exist, as absolute texts
  Unreadable,  \* those of Files that cannot be opened
  Mains,       \* what the program may be started with
  Names,       \* what a file may ask for
  SetupName,   \* "init.setup-mila"
  Extra,       \* "~/.local/mila"
  MaxRuns      \* bound: how many times a file is run, or cannot be

VARIABLES
  search,   \* mila_search_path
  modules,  \* mila_cached_modules: a set of [key, value]
  frames,   \* the files that run, the last one innermost: [file, dir, how, key, run]
  ran,      \* the files that were run, in that order; a run is named by its place
  left,     \* the files that could not be opened and left their directories there, as frames
  module_answer    \* what the last require found and gave: [file, value]

module_vars == <<search, modules, frames, ran, left, module_answer>>

NoRun == 0
Garbage == <<"garbage">>
Outcomes == {"value", "null", "error", "tagged"}
Base == <<transform_path(Cwd), transform_path(Extra)>>

(***************************************************************************)
(* What stat makes of a text.                                              *)
(***************************************************************************)
Canonical(t) ==
  LET absolute == IF IsAbsolute(t) THEN t ELSE Cwd \o Slash \o t
      plain(out, i) == IF absolute[i] = "." /\ i > 1 /\ absolute[i - 1] = "/"
                       THEN out ELSE Append(out, absolute[i])
  IN normalize_slashes(FoldLeft(plain, <<>>, [i \in DOMAIN absolute |-> i]))
file_exists(t) == Canonical(t) \in Files
\* The directory that a text of the search path stands for, and the one that a file is in.
Located(t) == Trimmed(Canonical(t))
Directory(file) == LET at == LastSlash(file) IN IF at = 1 THEN Slash ELSE SubSeq(file, 1, at - 1)

(***************************************************************************)
(* The search path.                                                        *)
(***************************************************************************)
path_list_add_top(path, t) == <<transform_path(t)>> \o path
path_list_remove(path, t) ==
  LET at == {i \in DOMAIN path : path[i] = transform_path(t)} IN
  IF at = {} THEN path ELSE RemoveAt(path, Min(at))
\* <<>>: not found.
path_list_find(path, t) ==
  LET file == transform_path(t)
      at == {i \in DOMAIN path : file_exists(Under(path[i], file))}
  IN CASE IsAbsolute(file) -> IF file_exists(file) THEN file ELSE <<>>
       [] at # {} -> Under(path[Min(at)], file)
       [] OTHER -> <<>>

(***************************************************************************)
(* A file is run: first its directory goes on top of the search path.      *)
(***************************************************************************)
\* key: what require keeps its result under.
Frame(file, dir, how) == [file |-> file, dir |-> dir, how |-> how, key |-> file, run |-> NoRun]
Opens(t) == Canonical(t) \notin Unreadable
More == Len(ran) + Len(left) < MaxRuns

\* The innermost frame is f, opened now over the frames below.
Open(path, below, f) ==
  IF Opens(f.file)
  THEN /\ search' = path
       /\ frames' = Append(below, [f EXCEPT !.run = Len(ran) + 1])
       /\ ran' = Append(ran, Canonical(f.file))
       /\ UNCHANGED left
  ELSE /\ search' = path
       /\ frames' = below
       /\ left' = Append(left, f)
       /\ UNCHANGED ran

run_file_keep_res(file, how, key) ==
  LET dir == path_dirname_alloc(file) IN
  Open(path_list_add_top(search, dir), frames, [Frame(file, dir, how) EXCEPT !.key = key])

\* With a setup file, that one runs first; it is a frame over the one of the
\* main file, which waits for it.
invoke_main_file(file) ==
  LET dir == path_join_alloc(Cwd, path_dirname_alloc(file))
      path == path_list_add_top(search, dir)
      setup == path_list_find(path, SetupName)
      f == Frame(file, dir, "main")
      sdir == path_dirname_alloc(setup)
      spath == path_list_add_top(path, sdir)
      g == Frame(setup, sdir, "setup")
  IN IF setup = <<>> THEN Open(path, frames, f)
     ELSE IF Opens(setup)
     THEN Open(spath, Append(frames, f), g)
     ELSE /\ search' = path_list_remove(spath, dir) \* the setup file's directory stays
          /\ left' = Append(left, g)
          /\ UNCHANGED <<frames, ran>>

(***************************************************************************)
(* The natives that the innermost file calls.                              *)
(***************************************************************************)
Running == frames # <<>> /\ More

native_run(name) ==
  LET file == path_list_find(search, name) IN
  /\ Running /\ file # <<>>
  /\ run_file_keep_res(file, "run", file)
  /\ UNCHANGED <<modules, module_answer>>

ModuleKeyName(file, name) == name
ModuleKey(file, name) == file

\* The dict gives the newest value of a key; a module that is null is not kept.
Cached(key) == LET at == {m \in modules : m.key = key} IN
  IF at = {} THEN NoRun ELSE (CHOOSE m \in at : TRUE).value

native_require(name) ==
  LET file == path_list_find(search, name)
      key == ModuleKey(file, name)
  IN /\ Running /\ file # <<>>
     /\ IF Cached(key) # NoRun
        THEN /\ module_answer' = [file |-> Canonical(file), value |-> Cached(key)]
             /\ UNCHANGED <<search, frames, ran, left>>
        ELSE run_file_keep_res(file, "require", key) /\ UNCHANGED module_answer
     /\ UNCHANGED modules

Main(name) ==
  /\ ran = <<>> /\ frames = <<>> /\ left = <<>> /\ file_exists(name) /\ Opens(name)
  /\ invoke_main_file(name)
  /\ UNCHANGED <<modules, module_answer>>

(***************************************************************************)
(* A file ends.                                                            *)
(***************************************************************************)
\* require frees the path that it found, and copies it for the key after
\* that: the key is what is then there.
KeyAfterFree(path) == {path, Garbage}
Keep(key, value) == modules' = {m \in modules : m.key # key} \union {[key |-> key, value |-> value]}

EndRequire(f, outcome) ==
  LET value == IF outcome = "null" THEN NoRun ELSE f.run IN
  IF outcome = "error" THEN UNCHANGED <<modules, module_answer>>
  ELSE /\ \E key \in KeyAfterFree(f.key) : Keep(key, value)
       /\ module_answer' = [file |-> Canonical(f.file), value |-> value]

EndSetupEarly(f, outcome) ==
  LET path == path_list_remove(search, f.dir)
      below == Front(frames)
      waiting == Last(below)
  IN IF outcome \in {"error", "tagged"}
     THEN search' = path /\ frames' = Front(below) /\ UNCHANGED <<ran, left>>
     ELSE Open(path, Front(below), waiting)

EndSetup(f, outcome) ==
  LET path == path_list_remove(search, f.dir)
      below == Front(frames)
      waiting == Last(below)
  IN IF outcome \in {"error", "tagged"}
     THEN /\ search' = path_list_remove(path, waiting.dir)
          /\ frames' = Front(below)
          /\ UNCHANGED <<ran, left>>
     ELSE Open(path, Front(below), waiting)

EndFile(outcome) ==
  LET f == Last(frames) IN
  /\ frames # <<>>
  /\ IF f.how = "setup" THEN EndSetup(f, outcome)
     ELSE search' = path_list_remove(search, f.dir) /\ frames' = Front(frames) /\ UNCHANGED <<ran, left>>
  /\ IF f.how = "require" THEN EndRequire(f, outcome) ELSE UNCHANGED <<modules, module_answer>>

LoadingInit ==
  /\ search = Base
  /\ modules = {} /\ frames = <<>> /\ ran = <<>> /\ left = <<>>
  /\ module_answer = [file |-> <<>>, value |-> NoRun]

LoadingNext ==
  \/ \E name \in Mains : Main(name)
  \/ \E name \in Names : native_require(name) \/ native_run(name)
  \/ \E outcome \in Outcomes : EndFile(outcome)

LoadingSpec == LoadingInit /\ [][LoadingNext]_module_vars

(***************************************************************************)
(* Properties.                                                             *)
(***************************************************************************)
Count(list, t) == Cardinality({i \in DOMAIN list : list[i] = t})
DirsOf(fs) == Reverse([i \in DOMAIN fs |-> transform_path(fs[i].dir)])

\* What run_file_keep_res and invoke_main_file put on the path for a file is the
\* directory that the file is in.  A main file that is named by an absolute text is left
\* out: for that one it is the working directory and the text's directory behind it.
OwnDirectory(f) ==
  (f.how = "main" => ~IsAbsolute(f.file)) =>
    Located(transform_path(f.dir)) = Directory(Canonical(f.file))

\* The search path is the two directories it starts with below the
\* directories of the files that run, the innermost on top: however a file and
\* its setup file end, what they put there is gone (path_list_add_top and
\* path_list_remove in run_file_keep_res and invoke_main_file).  The
\* directories of files that could not be opened are the only ones that stay.
PathFollowsFiles ==
  /\ \A f \in Range(frames) \cup Range(left) : OwnDirectory(f)
  /\ LET running == DirsOf(frames)
         failed == DirsOf(left)
     IN IF left = <<>> THEN search = running \o Base
        ELSE \A t \in Range(search \o running \o Base \o failed) :
               Count(search, t) = Count(running \o Base \o failed, t)

\* What require gives comes from a run of the very file that the name means
\* where it is asked for, be it run now or taken from the table
\* (native_require: a name means different files to different files).
RequireGivesTheFile ==
  module_answer.value # NoRun => ran[module_answer.value] = module_answer.file

=============================================================================

------------------------ MODULE ModuleLoadingProofs -------------------------
(***************************************************************************)
(* Theorems about ModuleLoading: whatever files run files, and however     *)
(* they end, require gives what the file it found gave, for every set of   *)
(* files, every search path and every meaning of the texts that name them. *)
(***************************************************************************)
EXTENDS ModuleLoading, ListLemmas

-----------------------------------------------------------------------------
(* What the operations on the search path return.                           *)

LEMMA ListRemove == ASSUME NEW s, IsList(s), NEW t PROVE IsList(path_list_remove(s, t))
<1> DEFINE at == {i \in DOMAIN s : s[i] = transform_path(t)}
<1>1. s \in Seq(Range(s)) /\ DOMAIN s = 1 .. Len(s) /\ Len(s) \in Nat
  BY DEF IsList
<1>2. CASE at = {}
  BY <1>2 DEF path_list_remove
<1>3. CASE at # {}
  <2> DEFINE i == Min(at)
  <2>1. i \in 1 .. Len(s)
    <3>1. at \in SUBSET Nat
      BY <1>1
    <3>2. i \in at
      BY <1>3, <3>1, MinIsIn
    <3> QED BY <1>1, <3>2
  <2> HIDE DEF i
  <2>2. SubSeq(s, 1, i - 1) \in Seq(Range(s)) /\ SubSeq(s, i + 1, Len(s)) \in Seq(Range(s))
    BY <1>1, <2>1, SubSeqProperties
  <2>3. RemoveAt(s, Min(at)) \in Seq(Range(s))
    BY <2>2, ConcatProperties DEF RemoveAt, i
  <2> QED BY <1>3, <2>3, IsListOver DEF path_list_remove
<1> QED BY <1>2, <1>3

\* path_list_find gives a file that is there.
LEMMA FindExists ==
  ASSUME NEW path, IsList(path), NEW name, path_list_find(path, name) # <<>>
  PROVE  file_exists(path_list_find(path, name))
<1> DEFINE file == transform_path(name)
           at == {i \in DOMAIN path : file_exists(Under(path[i], file))}
<1>1. at \in SUBSET Nat
  BY DEF IsList
<1>2. at # {} => Min(at) \in at
  BY <1>1, MinIsIn
<1> HIDE DEF file
<1> QED BY <1>2 DEF path_list_find, file

-----------------------------------------------------------------------------
(* The inductive invariant.                                                 *)

\* What require finds in memory that it freed is the name of no file: if it were one,
\* a later require of that file would be given the result of another.
GarbageIsNoFile == ~file_exists(Garbage)

\* The run named n is one of file.
HasRun(n, file, runs) == n \in 1 .. Len(runs) /\ runs[n] = Canonical(file)

\* A frame that require made will keep its result under the file it runs, and a
\* file that waits for its setup file has no run yet.
GoodFrame(f, runs) ==
  /\ f = [file |-> f.file, dir |-> f.dir, how |-> f.how, key |-> f.key, run |-> f.run]
  /\ f.how = "require" => f.key = f.file
  /\ f.run # NoRun => HasRun(f.run, f.file, runs)

GoodFrames(fs, runs) ==
  /\ IsList(fs)
  /\ \A i \in DOMAIN fs : GoodFrame(fs[i], runs)
  /\ fs # <<>> => fs[1].how # "setup"

\* What is kept under the name of a file is a run of that file.
GoodTable(runs) ==
  \A m \in modules : m.value # NoRun => m.key = Garbage \/ HasRun(m.value, m.key, runs)

\* The last answer stays true when more files are run.
GoodAnswer == module_answer.value # NoRun =>
                module_answer.value \in 1 .. Len(ran) /\ ran[module_answer.value] = module_answer.file

Shape == IsList(search) /\ IsList(ran) /\ GoodFrames(frames, ran)

LoadingInv ==
  /\ Shape
  /\ GoodTable(ran)
  /\ GoodAnswer

\* A run keeps its name when another one follows.
Extends == /\ IsList(ran')
           /\ \A n, file : HasRun(n, file, ran) => HasRun(n, file, ran')
           /\ GoodAnswer /\ UNCHANGED module_answer => GoodAnswer'

LEMMA NothingRun ==
  ASSUME IsList(ran), UNCHANGED ran PROVE Extends
BY DEF Extends, GoodAnswer

LEMMA StillGood ==
  ASSUME Extends, NEW fs, GoodFrames(fs, ran) PROVE GoodFrames(fs, ran')
BY DEF Extends, GoodFrames, GoodFrame

LEMMA AppendGood ==
  ASSUME NEW runs, NEW fs, GoodFrames(fs, runs), NEW f, GoodFrame(f, runs),
         fs = <<>> => f.how # "setup"
  PROVE  GoodFrames(Append(fs, f), runs)
<1> DEFINE gs == Append(fs, f)
<1>1. /\ IsList(gs) /\ DOMAIN fs = 1 .. Len(fs) /\ Len(fs) \in Nat
      /\ DOMAIN gs = 1 .. Len(fs) + 1
      /\ \A i \in 1 .. Len(fs) : gs[i] = fs[i]
      /\ gs[Len(fs) + 1] = f
  BY ListAppend DEF GoodFrames
<1>2. fs = <<>> <=> Len(fs) = 0
  BY DEF GoodFrames, IsList
<1> HIDE DEF gs
<1>3. ASSUME NEW i \in DOMAIN gs PROVE GoodFrame(gs[i], runs)
  <2>1. i \in 1 .. Len(fs) \/ i = Len(fs) + 1
    BY <1>1
  <2> QED BY <1>1, <2>1 DEF GoodFrames
<1>4. gs[1].how # "setup"
  <2>1. CASE Len(fs) = 0
    BY <1>1, <1>2, <2>1
  <2>2. CASE Len(fs) # 0
    <3>1. 1 \in 1 .. Len(fs)
      BY <1>1, <2>2
    <3> QED BY <1>1, <1>2, <2>2, <3>1 DEF GoodFrames
  <2> QED BY <2>1, <2>2
<1> QED BY <1>1, <1>3, <1>4 DEF GoodFrames, gs

\* Opening a file, whether it can be opened or not.
LEMMA OpenGood ==
  ASSUME IsList(ran), NEW path, IsList(path), NEW below, GoodFrames(below, ran),
         NEW f, GoodFrame(f, ran), below = <<>> => f.how # "setup", Open(path, below, f)
  PROVE  search' = path /\ GoodFrames(frames', ran') /\ Extends
<1>1. CASE ~Opens(f.file)
  BY <1>1, NothingRun DEF Open
<1>2. CASE Opens(f.file)
  <2> DEFINE g == [f EXCEPT !.run = Len(ran) + 1]
  <2>1. ran' = Append(ran, Canonical(f.file)) /\ frames' = Append(below, g) /\ search' = path
    BY <1>2 DEF Open
  <2>2. Extends
    BY <2>1, ListAppend DEF Extends, HasRun, GoodAnswer
  <2>3. g = [file |-> f.file, dir |-> f.dir, how |-> f.how, key |-> f.key, run |-> Len(ran) + 1]
    BY DEF GoodFrame
  <2>4. HasRun(Len(ran) + 1, f.file, ran')
    BY <2>1, ListAppend DEF HasRun
  <2> HIDE DEF g
  <2>5. GoodFrame(g, ran') /\ g.how = f.how
    BY <2>3, <2>4 DEF GoodFrame
  <2>6. GoodFrames(Append(below, g), ran')
    BY <2>2, <2>5, StillGood, AppendGood
  <2> QED BY <2>1, <2>2, <2>6
<1> QED BY <1>1, <1>2

\* The frames without the innermost one.
LEMMA FrontGood ==
  ASSUME NEW fs, GoodFrames(fs, ran), fs # <<>>
  PROVE  /\ GoodFrames(Front(fs), ran) /\ GoodFrame(Last(fs), ran)
         /\ Front(fs) = <<>> => Last(fs).how # "setup"
<1> DEFINE gs == Front(fs)
<1>1. /\ IsList(gs) /\ Len(fs) \in Nat \ {0} /\ DOMAIN fs = 1 .. Len(fs)
      /\ Len(gs) = Len(fs) - 1 /\ DOMAIN gs = 1 .. Len(fs) - 1
      /\ \A i \in 1 .. Len(fs) - 1 : gs[i] = fs[i]
      /\ Last(fs) = fs[Len(fs)]
  BY ListFront DEF GoodFrames
<1>2. gs = <<>> <=> Len(gs) = 0
  BY <1>1 DEF IsList
<1> HIDE DEF gs
<1>3. GoodFrame(fs[Len(fs)], ran) /\ \A i \in DOMAIN gs : GoodFrame(gs[i], ran)
  BY <1>1 DEF GoodFrames
<1>4. CASE Len(fs) = 1
  BY <1>1, <1>2, <1>3, <1>4 DEF GoodFrames, gs
<1>5. CASE Len(fs) # 1
  <2>1. 1 \in 1 .. Len(fs) - 1
    BY <1>1, <1>5
  <2> QED BY <1>1, <1>2, <1>3, <1>5, <2>1 DEF GoodFrames, gs
<1> QED BY <1>4, <1>5

-----------------------------------------------------------------------------
(* The steps.                                                               *)

LEMMA InitGood == LoadingInit => LoadingInv
<1> SUFFICES ASSUME LoadingInit PROVE LoadingInv
  OBVIOUS
<1>1. Base \in Seq(Range(Base)) /\ <<>> \in Seq({})
  BY DEF Base, Range
<1>2. IsList(Base) /\ IsList(<<>>)
  BY <1>1, IsListOver
<1> QED BY <1>2 DEF LoadingInit, LoadingInv, Shape, GoodFrames, GoodTable, GoodAnswer

\* A file that is run by require, with what it is kept under, or by run.
LEMMA RunGood ==
  ASSUME Shape, NEW file, NEW how, NEW key, how # "setup", how = "require" => key = file,
         run_file_keep_res(file, how, key)
  PROVE  Shape' /\ Extends
<1> DEFINE dir == path_dirname_alloc(file)
           f == [Frame(file, dir, how) EXCEPT !.key = key]
<1>1. f = [file |-> file, dir |-> dir, how |-> how, key |-> key, run |-> NoRun]
  BY DEF Frame
<1>2. Open(path_list_add_top(search, dir), frames, f)
  BY DEF run_file_keep_res
<1>3. IsList(path_list_add_top(search, dir))
  BY ListOnTop DEF Shape, path_list_add_top
<1> HIDE DEF f
<1>4. GoodFrame(f, ran)
  BY <1>1 DEF GoodFrame
<1>5. f.how # "setup"
  BY <1>1
<1> QED BY <1>2, <1>3, <1>4, <1>5, OpenGood DEF Shape, Extends

LEMMA InvokeGood ==
  ASSUME Shape, NEW file, invoke_main_file(file)
  PROVE  Shape' /\ Extends
<1> DEFINE dir == path_join_alloc(Cwd, path_dirname_alloc(file))
           path == path_list_add_top(search, dir)
           setup == path_list_find(path, SetupName)
           sdir == path_dirname_alloc(setup)
           spath == path_list_add_top(path, sdir)
           f == Frame(file, dir, "main")
           g == Frame(setup, sdir, "setup")
<1>1. IsList(path) /\ IsList(spath)
  BY ListOnTop DEF Shape, path_list_add_top
<1>2. GoodFrame(f, ran) /\ GoodFrame(g, ran) /\ f.how # "setup"
  BY DEF GoodFrame, Frame
<1>3. CASE setup = <<>>
  <2>1. Open(path, frames, f)
    BY <1>3 DEF invoke_main_file
  <2> HIDE DEF path, f
  <2> QED BY <1>1, <1>2, <2>1, OpenGood DEF Shape, Extends
<1>4. CASE setup # <<>> /\ Opens(setup)
  <2>1. Open(spath, Append(frames, f), g)
    BY <1>4 DEF invoke_main_file
  <2>2. GoodFrames(Append(frames, f), ran) /\ Append(frames, f) # <<>>
    <3>1. GoodFrames(Append(frames, f), ran)
      BY <1>2, AppendGood DEF Shape
    <3>2. Len(Append(frames, f)) = Len(frames) + 1 /\ Len(frames) \in Nat
      BY ListAppend DEF Shape, GoodFrames
    <3> QED BY <3>1, <3>2
  <2> HIDE DEF spath, f, g
  <2> QED BY <1>1, <1>2, <2>1, <2>2, OpenGood DEF Shape, Extends
<1>5. CASE setup # <<>> /\ ~Opens(setup)
  <2>1. search' = path_list_remove(spath, dir) /\ UNCHANGED <<frames, ran>>
    BY <1>5 DEF invoke_main_file
  <2> QED BY <1>1, <2>1, ListRemove, NothingRun DEF Shape, Extends
<1> QED BY <1>3, <1>4, <1>5

\* What neither changes the table nor the answer.
LEMMA OthersGood ==
  ASSUME LoadingInv, Shape', Extends, UNCHANGED <<modules, module_answer>>
  PROVE  LoadingInv'
BY DEF LoadingInv, Extends, GoodTable

LEMMA RequireGood ==
  ASSUME GarbageIsNoFile, LoadingInv, NEW name, native_require(name) PROVE LoadingInv'
<1> DEFINE file == path_list_find(search, name)
<1>1. file # <<>> /\ file_exists(file)
  BY FindExists DEF native_require, LoadingInv, Shape
<1>2. file # Garbage
  BY <1>1 DEF GarbageIsNoFile
<1>3. CASE Cached(file) = NoRun
  <2>1. run_file_keep_res(file, "require", file) /\ UNCHANGED <<modules, module_answer>>
    BY <1>3 DEF native_require, ModuleKey
  <2> HIDE DEF file
  <2> QED BY <2>1, RunGood, OthersGood DEF LoadingInv
<1>4. CASE Cached(file) # NoRun
  <2>1. /\ module_answer' = [file |-> Canonical(file), value |-> Cached(file)]
        /\ UNCHANGED <<search, frames, ran, modules>>
    BY <1>4 DEF native_require, ModuleKey
  <2>2. PICK m \in modules : m.key = file /\ m.value = Cached(file)
    BY <1>4 DEF Cached
  <2>3. HasRun(Cached(file), file, ran)
    BY <1>2, <1>4, <2>2 DEF LoadingInv, GoodTable
  <2> HIDE DEF file
  <2> QED BY <2>1, <2>3 DEF LoadingInv, Shape, GoodTable, GoodAnswer, HasRun
<1> QED BY <1>3, <1>4

\* A file ends, and the one that waited for its setup file starts.
LEMMA EndShape ==
  ASSUME Shape, NEW outcome, EndFile(outcome)
  PROVE  Shape' /\ Extends /\ frames # <<>> /\ GoodFrame(Last(frames), ran)
<1> DEFINE f == Last(frames)
<1>1. /\ frames # <<>> /\ GoodFrames(Front(frames), ran) /\ GoodFrame(f, ran)
      /\ Front(frames) = <<>> => f.how # "setup"
  BY FrontGood DEF EndFile, Shape
<1>2. CASE f.how = "setup"
  <2> DEFINE path == path_list_remove(search, f.dir)
             below == Front(frames)
             waiting == Last(below)
  <2>1. EndSetup(f, outcome)
    BY <1>2 DEF EndFile
  <2>2. IsList(path)
    BY ListRemove DEF Shape
  <2>3. /\ GoodFrames(Front(below), ran) /\ GoodFrame(waiting, ran)
        /\ Front(below) = <<>> => waiting.how # "setup"
    <3>1. below # <<>>
      BY <1>1, <1>2
    <3> QED BY <1>1, <3>1, FrontGood
  <2>4. CASE outcome \in {"error", "tagged"}
    <3>1. /\ search' = path_list_remove(path, waiting.dir)
          /\ frames' = Front(below) /\ UNCHANGED ran
      BY <2>1, <2>4 DEF EndSetup
    <3> QED BY <1>1, <2>2, <2>3, <3>1, ListRemove, NothingRun DEF Shape
  <2>5. CASE outcome \notin {"error", "tagged"}
    <3>1. Open(path, Front(below), waiting)
      BY <2>1, <2>5 DEF EndSetup
    <3> HIDE DEF path, below, waiting
    <3> QED BY <1>1, <2>2, <2>3, <3>1, OpenGood DEF Shape, Extends
  <2> QED BY <2>4, <2>5
<1>3. CASE f.how # "setup"
  <2>1. search' = path_list_remove(search, f.dir) /\ frames' = Front(frames) /\ UNCHANGED ran
    BY <1>3 DEF EndFile
  <2> QED BY <1>1, <2>1, ListRemove, NothingRun DEF Shape
<1> QED BY <1>2, <1>3

LEMMA EndGood == ASSUME LoadingInv, NEW outcome, EndFile(outcome) PROVE LoadingInv'
<1> DEFINE f == Last(frames)
<1>1. Shape' /\ Extends /\ frames # <<>> /\ GoodFrame(f, ran)
  BY EndShape DEF LoadingInv
<1>2. CASE UNCHANGED <<modules, module_answer>>
  BY <1>1, <1>2, OthersGood
<1>3. CASE f.how = "require" /\ outcome # "error"
  <2> DEFINE value == IF outcome = "null" THEN NoRun ELSE f.run
  <2>1. UNCHANGED ran
    BY <1>3 DEF EndFile
  <2>2. PICK key \in {f.key, Garbage} : Keep(key, value)
    BY <1>3 DEF EndFile, EndRequire, KeyAfterFree
  <2>3. module_answer' = [file |-> Canonical(f.file), value |-> value]
    BY <1>3 DEF EndFile, EndRequire
  <2>4. value # NoRun => HasRun(value, f.file, ran) /\ f.key = f.file
    BY <1>1, <1>3 DEF GoodFrame
  <2> HIDE DEF value, f
  <2>5. GoodTable(ran)'
    BY <2>1, <2>2, <2>4 DEF GoodTable, Keep, LoadingInv
  <2>6. GoodAnswer'
    BY <2>1, <2>3, <2>4 DEF GoodAnswer, HasRun
  <2> QED BY <1>1, <2>5, <2>6 DEF LoadingInv
<1> QED BY <1>2, <1>3 DEF EndFile, EndRequire

LEMMA LoadingStep == ASSUME GarbageIsNoFile, LoadingInv, [LoadingNext]_module_vars PROVE LoadingInv'
<1>1. ASSUME NEW name \in Mains, Main(name) PROVE LoadingInv'
  BY <1>1, InvokeGood, OthersGood DEF Main, LoadingInv
<1>2. ASSUME NEW name \in Names, native_require(name) PROVE LoadingInv'
  BY <1>2, RequireGood
<1>3. ASSUME NEW name \in Names, native_run(name) PROVE LoadingInv'
  BY <1>3, RunGood, OthersGood DEF native_run, LoadingInv
<1>4. ASSUME NEW outcome \in Outcomes, EndFile(outcome) PROVE LoadingInv'
  BY <1>4, EndGood
<1>5. CASE UNCHANGED module_vars
  BY <1>5 DEF module_vars, LoadingInv, Shape, GoodFrames, GoodTable, GoodAnswer
<1> QED BY <1>1, <1>2, <1>3, <1>4, <1>5 DEF LoadingNext

LEMMA LoadingInvHolds == ASSUME GarbageIsNoFile PROVE LoadingSpec => []LoadingInv
<1>1. LoadingInv /\ [LoadingNext]_module_vars => LoadingInv'
  BY LoadingStep
<1> QED BY <1>1, InitGood, PTL DEF LoadingSpec

\* require gives the result of a run of the file that the name means where it is asked for
\* (native_require in ml_builtins.c), for every file system, search path and meaning of
\* names: also with the key that it builds from memory it has freed.
THEOREM RequireSound == ASSUME GarbageIsNoFile PROVE LoadingSpec => []RequireGivesTheFile
<1>1. LoadingInv => RequireGivesTheFile
  BY DEF LoadingInv, GoodAnswer, RequireGivesTheFile
<1> QED BY <1>1, LoadingInvHolds, PTL

-----------------------------------------------------------------------------
(* The search path.  A file puts its directory on top when it starts, and   *)
(* takes the uppermost of that name away when it ends: that this is its own *)
(* needs the path to be, at every moment, what the frames say.  A file that *)
(* cannot be opened breaks the order, but not how often a directory occurs. *)

LEMMA DirsAppend ==
  ASSUME NEW fs, IsList(fs), NEW f
  PROVE  DirsOf(Append(fs, f)) = <<transform_path(f.dir)>> \o DirsOf(fs) /\ IsList(DirsOf(fs))
<1> DEFINE n == Len(fs)
           gs == Append(fs, f)
           d == [i \in 1 .. n |-> transform_path(fs[i].dir)]
           T == Range(d) \cup {transform_path(f.dir)}
           x == transform_path(f.dir)
<1>1. /\ n \in Nat /\ DOMAIN fs = 1 .. n /\ DOMAIN gs = 1 .. n + 1
      /\ \A i \in 1 .. n : gs[i] = fs[i]
      /\ gs[n + 1] = f
  BY ListAppend
<1> HIDE DEF gs, n
<1>2. DirsOf(fs) = [i \in 1 .. n |-> d[n - i + 1]]
  <2>1. Len(d) = n
    BY <1>1
  <2>2. DirsOf(fs) = Reverse(d)
    BY <1>1 DEF DirsOf
  <2> QED BY <2>1, <2>2 DEF Reverse
<1>3. DirsOf(gs) = [i \in 1 .. n + 1 |-> IF i = 1 THEN x ELSE d[n - i + 2]]
  <2> DEFINE e == [i \in 1 .. n + 1 |-> transform_path(gs[i].dir)]
  <2>1. Len(e) = n + 1
    BY <1>1
  <2>2. DirsOf(gs) = [i \in 1 .. n + 1 |-> e[n + 1 - i + 1]]
    BY <1>1, <2>1 DEF DirsOf, Reverse
  <2>3. ASSUME NEW i \in 1 .. n + 1 PROVE e[n + 1 - i + 1] = IF i = 1 THEN x ELSE d[n - i + 2]
    <3>1. n + 1 - i + 1 \in 1 .. n + 1 /\ n + 1 - i + 1 = n - i + 2
      BY <1>1
    <3>2. CASE i = 1
      <4>1. n + 1 - i + 1 = n + 1
        BY <1>1, <3>2
      <4> QED BY <1>1, <3>1, <3>2, <4>1
    <3>3. CASE i # 1
      <4>1. n - i + 2 \in 1 .. n
        BY <1>1, <3>3
      <4> QED BY <1>1, <3>1, <3>3, <4>1
    <3> QED BY <3>2, <3>3
  <2> HIDE DEF e, d, x
  <2> QED BY <2>2, <2>3
<1>4. \A i \in 1 .. n : d[i] \in T
  BY DEF Range
<1> HIDE DEF d
<1>5. DirsOf(fs) \in Seq(T) /\ Len(DirsOf(fs)) = n
  <2>1. \A i \in 1 .. n : d[n - i + 1] \in T
    BY <1>1, <1>4
  <2> QED BY <1>1, <1>2, <2>1
<1>6. DirsOf(gs) \in Seq(T) /\ Len(DirsOf(gs)) = n + 1
  <2>1. \A i \in 1 .. n + 1 : i # 1 => d[n - i + 2] \in T
    BY <1>1, <1>4
  <2>2. x \in T
    OBVIOUS
  <2> HIDE DEF T, x
  <2> QED BY <1>1, <1>3, <2>1, <2>2
<1> HIDE DEF T
<1>7. <<x>> \in Seq(T)
  BY DEF T
<1> HIDE DEF x
<1>8. /\ <<x>> \o DirsOf(fs) \in Seq(T)
      /\ Len(<<x>> \o DirsOf(fs)) = n + 1
      /\ \A i \in 1 .. n + 1 :
           (<<x>> \o DirsOf(fs))[i] = IF i =< 1 THEN <<x>>[i] ELSE DirsOf(fs)[i - 1]
  BY <1>1, <1>5, <1>7, ConcatProperties
<1>9. ASSUME NEW i \in 1 .. n + 1 PROVE DirsOf(gs)[i] = (<<x>> \o DirsOf(fs))[i]
  <2>1. CASE i = 1
    BY <1>3, <1>8, <2>1
  <2>2. CASE i # 1
    <3>1. i - 1 \in 1 .. n /\ n - (i - 1) + 1 = n - i + 2 /\ ~(i =< 1)
      BY <1>1, <2>2
    <3>2. DirsOf(fs)[i - 1] = d[n - i + 2]
      BY <1>2, <3>1
    <3> QED BY <1>3, <1>8, <2>2, <3>1, <3>2
  <2> QED BY <2>1, <2>2
<1>10. DirsOf(gs) = <<x>> \o DirsOf(fs)
  BY <1>1, <1>6, <1>8, <1>9, SeqEqual
<1> QED BY <1>5, <1>10, IsListOver DEF gs, x

\* path is the search path when the files of fs run and those of failed left their
\* directories behind.
Follows(path, fs, failed) ==
  /\ failed = <<>> => path = DirsOf(fs) \o Base
  /\ \A t : Occurs(path, t) = Occurs(DirsOf(fs), t) + Occurs(Base, t) + Occurs(DirsOf(failed), t)

LEMMA DirsAreList == ASSUME NEW fs, IsList(fs) PROVE IsList(DirsOf(fs))
BY DirsAppend

LEMMA BaseIsList ==
  IsList(Base) /\ IsList(<<>>) /\ DirsOf(<<>>) = <<>> /\ \A t : Occurs(<<>>, t) = 0
<1>1. Base \in Seq(Range(Base)) /\ <<>> \in Seq({})
  BY DEF Base, Range
<1>2. \A t : Marks(<<>>, t) = {}
  BY DEF Marks
<1>3. DirsOf(<<>>) = <<>>
  BY DEF DirsOf, Reverse
<1> QED BY <1>1, <1>2, <1>3, IsListOver, FS_EmptySet DEF Occurs, Among

LEMMA FollowsPush ==
  ASSUME NEW path, IsList(path), NEW fs, IsList(fs), NEW failed, IsList(failed),
         Follows(path, fs, failed), NEW f
  PROVE  /\ Follows(path_list_add_top(path, f.dir), Append(fs, f), failed)
         /\ IsList(path_list_add_top(path, f.dir)) /\ IsList(Append(fs, f))
<1> DEFINE x == transform_path(f.dir)
<1>1. DirsOf(Append(fs, f)) = <<x>> \o DirsOf(fs) /\ IsList(DirsOf(fs))
  BY DirsAppend
<1>2. path_list_add_top(path, f.dir) = <<x>> \o path
  BY DEF path_list_add_top
<1>3. IsList(<<x>> \o path) /\ IsList(Append(fs, f))
  BY ListOnTop, ListAppend
<1> HIDE DEF x
<1>4. ASSUME failed = <<>> PROVE <<x>> \o path = (<<x>> \o DirsOf(fs)) \o Base
  <2>1. path = DirsOf(fs) \o Base
    BY <1>4 DEF Follows
  <2>3. (<<x>> \o DirsOf(fs)) \o Base = <<x>> \o (DirsOf(fs) \o Base)
    <3>1. IsList(<<x>>)
      BY OneIsList
    <3> QED BY <1>1, <3>1, BaseIsList, ListsAssociate
  <2> QED BY <2>1, <2>3
<1>5. ASSUME NEW t
      PROVE  Occurs(<<x>> \o path, t) =
               Occurs(<<x>> \o DirsOf(fs), t) + Occurs(Base, t) + Occurs(DirsOf(failed), t)
  <2>1. Occurs(<<x>> \o path, t) = Occurs(path, t) + (IF x = t THEN 1 ELSE 0)
    BY OccursOnTop
  <2>2. Occurs(<<x>> \o DirsOf(fs), t) = Occurs(DirsOf(fs), t) + (IF x = t THEN 1 ELSE 0)
    BY <1>1, OccursOnTop
  <2>3. Occurs(path, t) = Occurs(DirsOf(fs), t) + Occurs(Base, t) + Occurs(DirsOf(failed), t)
    BY DEF Follows
  <2>4. Occurs(DirsOf(fs), t) \in Nat /\ Occurs(Base, t) \in Nat /\ Occurs(DirsOf(failed), t) \in Nat
    BY <1>1, BaseIsList, DirsAreList, MarksFinite
  <2> QED BY <2>1, <2>2, <2>3, <2>4
<1> QED BY <1>1, <1>2, <1>3, <1>4, <1>5 DEF Follows

\* path_list_remove takes one occurrence away.
LEMMA OccursRemoved ==
  ASSUME NEW path, IsList(path), NEW d, NEW t, Occurs(path, transform_path(d)) # 0
  PROVE  Occurs(path_list_remove(path, d), t) =
           Occurs(path, t) - (IF transform_path(d) = t THEN 1 ELSE 0)
<1> DEFINE at == {i \in DOMAIN path : path[i] = transform_path(d)}
<1>1. at # {}
  BY FS_EmptySet DEF Occurs, Among, Marks
<1>2. Min(at) \in at
  <2>1. at \in SUBSET Nat
    BY DEF IsList
  <2> HIDE DEF at
  <2> QED BY <1>1, <2>1, MinIsIn
<1>3. path_list_remove(path, d) = RemoveAt(path, Min(at))
  BY <1>1 DEF path_list_remove
<1>4. Min(at) \in DOMAIN path /\ path[Min(at)] = transform_path(d)
  BY <1>2
<1> HIDE DEF at
<1>5. Occurs(RemoveAt(path, Min(at)), t) =
        Occurs(path, t) - (IF path[Min(at)] = t THEN 1 ELSE 0)
  BY <1>4, OccursRemove
<1> QED BY <1>3, <1>4, <1>5

LEMMA RemoveTop ==
  ASSUME NEW s, IsList(s), NEW d
  PROVE  path_list_remove(<<transform_path(d)>> \o s, d) = s
<1> DEFINE x == transform_path(d)
           u == <<x>> \o s
           at == {i \in DOMAIN u : u[i] = x}
           T == {x} \cup Range(s)
<1>1. <<x>> \in Seq(T) /\ s \in Seq(T)
  <2>1. s \in [1 .. Len(s) -> T] /\ Len(s) \in Nat
    BY DEF IsList, Range
  <2> QED BY <2>1
<1> HIDE DEF T
<1>2. /\ u \in Seq(T) /\ Len(u) = 1 + Len(s) /\ Len(s) \in Nat
      /\ \A i \in 1 .. 1 + Len(s) : u[i] = IF i =< 1 THEN <<x>>[i] ELSE s[i - 1]
  BY <1>1, ConcatProperties
<1> HIDE DEF u, x
<1>3. u[1] = x /\ DOMAIN u = 1 .. 1 + Len(s)
  BY <1>2
<1>4. 1 \in at /\ at \in SUBSET Nat /\ \A i \in at : 1 =< i
  BY <1>2, <1>3
<1>5. Min(at) = 1
  <2> HIDE DEF at
  <2>1. Min(at) \in at /\ Min(at) =< 1
    BY <1>4, MinIsIn
  <2>2. Min(at) \in Nat /\ 1 =< Min(at)
    BY <1>4, <2>1
  <2> QED BY <2>1, <2>2
<1>6. path_list_remove(u, d) = RemoveAt(u, Min(at))
  BY <1>4 DEF path_list_remove, x
<1>7. SubSeq(u, 1, 1 - 1) = <<>> /\ SubSeq(u, 1 + 1, Len(u)) = s
  <2>1. SubSeq(u, 1, 1 - 1) = <<>>
    BY <1>2, SubSeqProperties
  <2>2. 1 + 1 = 2 /\ Len(u) - 2 + 1 = Len(s)
    BY <1>2
  <2>3. /\ SubSeq(u, 2, Len(u)) \in Seq(T)
        /\ Len(SubSeq(u, 2, Len(u))) = IF 2 =< Len(u) THEN Len(u) - 2 + 1 ELSE 0
        /\ \A i \in 1 .. Len(u) - 2 + 1 : SubSeq(u, 2, Len(u))[i] = u[2 + i - 1]
    <3>1. \A i \in 2 .. Len(u) : u[i] \in T
      BY <1>2
    <3> QED BY <1>2, <3>1, SubSeqProperties
  <2>4. ASSUME NEW i \in 1 .. Len(s) PROVE SubSeq(u, 2, Len(u))[i] = s[i]
    <3>1. 2 + i - 1 \in 1 .. 1 + Len(s) /\ ~(2 + i - 1 =< 1) /\ 2 + i - 1 - 1 = i
      BY <1>2
    <3> QED BY <1>2, <2>2, <2>3, <3>1
  <2>5. Len(SubSeq(u, 2, Len(u))) = Len(s)
    BY <1>2, <2>2, <2>3
  <2>6. SubSeq(u, 2, Len(u)) = s
    BY <1>1, <2>3, <2>4, <2>5, SeqEqual
  <2> QED BY <2>1, <2>2, <2>6
<1>8. RemoveAt(u, 1) = s
  BY <1>1, <1>7 DEF RemoveAt
<1> QED BY <1>5, <1>6, <1>8 DEF u, x

\* The innermost file ends.
LEMMA FollowsPop ==
  ASSUME NEW path, IsList(path), NEW fs, IsList(fs), fs # <<>>, NEW failed, IsList(failed),
         Follows(path, fs, failed)
  PROVE  /\ Follows(path_list_remove(path, Last(fs).dir), Front(fs), failed)
         /\ IsList(path_list_remove(path, Last(fs).dir)) /\ IsList(Front(fs))
<1> DEFINE d == Last(fs).dir
           x == transform_path(d)
           below == Front(fs)
<1>1. IsList(below) /\ fs = Append(below, Last(fs))
  BY ListFront, FrontAndLast
<1> HIDE DEF below
<1>2. DirsOf(fs) = <<x>> \o DirsOf(below) /\ IsList(DirsOf(below))
  BY <1>1, DirsAppend
<1>3. IsList(path_list_remove(path, d))
  BY ListRemove
<1>4. ASSUME failed = <<>> PROVE path_list_remove(path, d) = DirsOf(below) \o Base
  <2>1. path = (<<x>> \o DirsOf(below)) \o Base
    BY <1>2, <1>4 DEF Follows
  <2>2. (<<x>> \o DirsOf(below)) \o Base = <<x>> \o (DirsOf(below) \o Base)
    <3>1. IsList(<<x>>)
      BY OneIsList
    <3> QED BY <1>2, <3>1, BaseIsList, ListsAssociate
  <2>3. IsList(DirsOf(below) \o Base)
    BY <1>2, BaseIsList, ListCat
  <2> QED BY <2>1, <2>2, <2>3, RemoveTop
<1>5. ASSUME NEW t
      PROVE  Occurs(path_list_remove(path, d), t) =
               Occurs(DirsOf(below), t) + Occurs(Base, t) + Occurs(DirsOf(failed), t)
  <2>1. \A u : /\ Occurs(DirsOf(below), u) \in Nat /\ Occurs(Base, u) \in Nat
               /\ Occurs(DirsOf(failed), u) \in Nat
    BY <1>2, BaseIsList, DirsAreList, MarksFinite
  <2> HIDE DEF x
  <2>2. \A u : Occurs(path, u) = Occurs(DirsOf(below), u) + (IF x = u THEN 1 ELSE 0)
                                   + Occurs(Base, u) + Occurs(DirsOf(failed), u)
    BY <1>2, OccursOnTop DEF Follows
  <2>3. Occurs(path, x) # 0
    BY <2>1, <2>2
  <2>4. Occurs(path_list_remove(path, d), t) = Occurs(path, t) - (IF x = t THEN 1 ELSE 0)
    BY <2>3, OccursRemoved DEF x
  <2> QED BY <2>1, <2>2, <2>4
<1> QED BY <1>1, <1>3, <1>4, <1>5 DEF Follows, below

\* The innermost file could not be opened: its directory stays.
LEMMA FollowsLeft ==
  ASSUME NEW path, NEW fs, IsList(fs), NEW failed, IsList(failed), NEW f,
         Follows(path, Append(fs, f), failed)
  PROVE  /\ Follows(path, fs, Append(failed, f))
         /\ IsList(Append(failed, f)) /\ Append(failed, f) # <<>>
<1> DEFINE x == transform_path(f.dir)
<1>1. /\ DirsOf(Append(fs, f)) = <<x>> \o DirsOf(fs) /\ IsList(DirsOf(fs))
      /\ DirsOf(Append(failed, f)) = <<x>> \o DirsOf(failed) /\ IsList(DirsOf(failed))
  BY DirsAppend
<1>2. IsList(Append(failed, f)) /\ Append(failed, f) # <<>>
  <2>1. IsList(Append(failed, f)) /\ Len(Append(failed, f)) = Len(failed) + 1 /\ Len(failed) \in Nat
    BY ListAppend
  <2> QED BY <2>1
<1> HIDE DEF x
<1>3. ASSUME NEW t
      PROVE  Occurs(path, t) =
               Occurs(DirsOf(fs), t) + Occurs(Base, t) + Occurs(DirsOf(Append(failed, f)), t)
  <2>1. Occurs(path, t) =
          Occurs(<<x>> \o DirsOf(fs), t) + Occurs(Base, t) + Occurs(DirsOf(failed), t)
    BY <1>1 DEF Follows
  <2>2. Occurs(<<x>> \o DirsOf(fs), t) = Occurs(DirsOf(fs), t) + (IF x = t THEN 1 ELSE 0)
    BY <1>1, OccursOnTop
  <2>3. Occurs(DirsOf(Append(failed, f)), t) = Occurs(DirsOf(failed), t) + (IF x = t THEN 1 ELSE 0)
    BY <1>1, OccursOnTop
  <2>4. Occurs(DirsOf(fs), t) \in Nat /\ Occurs(Base, t) \in Nat /\ Occurs(DirsOf(failed), t) \in Nat
    BY <1>1, BaseIsList, MarksFinite
  <2> QED BY <2>1, <2>2, <2>3, <2>4
<1> QED BY <1>2, <1>3 DEF Follows

PathInv == Shape /\ IsList(left) /\ Follows(search, frames, left)

LEMMA FollowsOpen ==
  ASSUME IsList(ran), IsList(left), NEW path, IsList(path), NEW below, IsList(below),
         NEW f, GoodFrame(f, ran), Follows(path, Append(below, f), left), Open(path, below, f)
  PROVE  Follows(search', frames', left') /\ IsList(left') /\ search' = path
<1>1. CASE Opens(f.file)
  <2> DEFINE g == [f EXCEPT !.run = Len(ran) + 1]
  <2>1. search' = path /\ frames' = Append(below, g) /\ left' = left
    BY <1>1 DEF Open
  <2>2. g.dir = f.dir
    BY DEF GoodFrame
  <2>3. DirsOf(Append(below, g)) = DirsOf(Append(below, f))
    BY <2>2, DirsAppend
  <2> HIDE DEF g
  <2> QED BY <2>1, <2>3 DEF Follows
<1>2. CASE ~Opens(f.file)
  BY <1>2, FollowsLeft DEF Open
<1> QED BY <1>1, <1>2

LEMMA PathInit == LoadingInit => PathInv
<1> SUFFICES ASSUME LoadingInit PROVE PathInv
  OBVIOUS
<1>1. Shape /\ IsList(left) /\ frames = <<>> /\ left = <<>> /\ search = Base
  BY InitGood, BaseIsList DEF LoadingInit, LoadingInv
<1>2. DirsOf(<<>>) = <<>>
  BY DEF DirsOf, Reverse
<1>3. <<>> \o Base = Base
  <2>1. Base \in Seq(Range(Base))
    BY DEF Base, Range
  <2> QED BY <2>1
<1>4. \A t : Occurs(Base, t) = 0 + Occurs(Base, t) + 0
  BY BaseIsList, MarksFinite
<1> QED BY <1>1, <1>2, <1>3, <1>4, BaseIsList DEF PathInv, Follows

LEMMA RunFollows ==
  ASSUME PathInv, NEW file, NEW how, NEW key, run_file_keep_res(file, how, key),
         how # "setup", how = "require" => key = file
  PROVE  PathInv'
<1> DEFINE dir == path_dirname_alloc(file)
           path == path_list_add_top(search, dir)
           f == [Frame(file, dir, how) EXCEPT !.key = key]
<1>1. f = [file |-> file, dir |-> dir, how |-> how, key |-> key, run |-> NoRun]
  BY DEF Frame
<1>2. Open(path, frames, f)
  BY DEF run_file_keep_res
<1>3. Shape' /\ IsList(frames)
  BY RunGood DEF PathInv, Shape, GoodFrames
<1> HIDE DEF f
<1>4. GoodFrame(f, ran) /\ f.dir = dir
  BY <1>1 DEF GoodFrame
<1>5. Follows(path, Append(frames, f), left) /\ IsList(path)
  BY <1>3, <1>4, FollowsPush DEF PathInv, Shape
<1> HIDE DEF path
<1> QED BY <1>2, <1>3, <1>4, <1>5, FollowsOpen DEF PathInv, Shape

LEMMA InvokeFollows ==
  ASSUME PathInv, NEW file, invoke_main_file(file)
  PROVE  PathInv'
<1> DEFINE dir == path_join_alloc(Cwd, path_dirname_alloc(file))
           path == path_list_add_top(search, dir)
           setup == path_list_find(path, SetupName)
           sdir == path_dirname_alloc(setup)
           spath == path_list_add_top(path, sdir)
           f == Frame(file, dir, "main")
           g == Frame(setup, sdir, "setup")
<1>1. Shape' /\ IsList(frames)
  BY InvokeGood DEF PathInv, Shape, GoodFrames
<1>2. f.dir = dir /\ g.dir = sdir /\ GoodFrame(f, ran) /\ GoodFrame(g, ran)
  BY DEF Frame, GoodFrame
<1>3. CASE setup = <<>>
  <2>1. Open(path, frames, f)
    BY <1>3 DEF invoke_main_file
  <2> HIDE DEF f
  <2>2. Follows(path, Append(frames, f), left) /\ IsList(path)
    BY <1>1, <1>2, FollowsPush DEF PathInv, Shape
  <2> HIDE DEF path
  <2> QED BY <1>1, <1>2, <2>1, <2>2, FollowsOpen DEF PathInv, Shape
<1>4. CASE setup # <<>>
  <2> HIDE DEF f, g, setup
  <2>1. Follows(path, Append(frames, f), left) /\ IsList(path) /\ IsList(Append(frames, f))
    BY <1>1, <1>2, FollowsPush DEF PathInv, Shape
  <2> HIDE DEF path
  <2>2. /\ Follows(spath, Append(Append(frames, f), g), left)
        /\ IsList(spath) /\ IsList(Append(Append(frames, f), g))
    BY <1>2, <2>1, FollowsPush DEF PathInv
  <2> HIDE DEF spath
  <2>3. CASE Opens(setup)
    <3>1. Open(spath, Append(frames, f), g)
      BY <1>4, <2>3 DEF invoke_main_file, path, spath, setup, f, g
    <3> QED BY <1>1, <1>2, <2>1, <2>2, <3>1, FollowsOpen DEF PathInv, Shape
  <2>4. CASE ~Opens(setup)
    <3> DEFINE x == transform_path(dir)
    <3>1. /\ search' = path_list_remove(spath, dir) /\ frames' = frames
          /\ left' = Append(left, g)
      BY <1>4, <2>4 DEF invoke_main_file, path, spath, setup, f, g
    <3>2. /\ Follows(spath, Append(frames, f), Append(left, g)) /\ IsList(Append(left, g))
          /\ Append(left, g) # <<>>
      BY <2>1, <2>2, FollowsLeft DEF PathInv
    <3>3. DirsOf(Append(frames, f)) = <<x>> \o DirsOf(frames) /\ IsList(DirsOf(frames))
      BY <1>1, <1>2, DirsAppend
    <3>4. \A t : /\ Occurs(DirsOf(frames), t) \in Nat /\ Occurs(Base, t) \in Nat
                 /\ Occurs(DirsOf(Append(left, g)), t) \in Nat
      BY <3>2, <3>3, BaseIsList, DirsAreList, MarksFinite
    <3>5. \A t : Occurs(spath, t) = Occurs(DirsOf(frames), t) + (IF x = t THEN 1 ELSE 0)
                                       + Occurs(Base, t) + Occurs(DirsOf(Append(left, g)), t)
      <4> HIDE DEF x
      <4>1. \A t : Occurs(<<x>> \o DirsOf(frames), t)
                     = Occurs(DirsOf(frames), t) + (IF x = t THEN 1 ELSE 0)
        BY <3>3, OccursOnTop
      <4> QED BY <3>2, <3>3, <4>1 DEF Follows
    <3>6. ASSUME NEW t
          PROVE  Occurs(path_list_remove(spath, dir), t) = Occurs(spath, t) - (IF x = t THEN 1 ELSE 0)
      <4>1. Occurs(spath, x) # 0
        <5> HIDE DEF x
        <5> QED BY <3>4, <3>5
      <4> QED BY <2>2, <4>1, OccursRemoved
    <3> HIDE DEF x
    <3>7. \A t : Occurs(path_list_remove(spath, dir), t)
                   = Occurs(DirsOf(frames), t) + Occurs(Base, t) + Occurs(DirsOf(Append(left, g)), t)
      BY <3>4, <3>5, <3>6
    <3> QED BY <1>1, <3>1, <3>2, <3>7 DEF PathInv, Follows
  <2> QED BY <2>3, <2>4
<1> QED BY <1>3, <1>4

LEMMA EndFollows == ASSUME PathInv, NEW outcome, EndFile(outcome) PROVE PathInv'
<1> DEFINE f == Last(frames)
           path == path_list_remove(search, f.dir)
           below == Front(frames)
<1>1. /\ Shape' /\ frames # <<>> /\ IsList(frames) /\ GoodFrames(below, ran)
      /\ below = <<>> => f.how # "setup"
  BY EndShape, FrontGood DEF PathInv, Shape, GoodFrames
<1>2. Follows(path, below, left) /\ IsList(path) /\ IsList(below)
  BY <1>1, FollowsPop DEF PathInv, Shape
<1>3. CASE f.how # "setup"
  <2>1. search' = path /\ frames' = below /\ left' = left
    BY <1>3 DEF EndFile
  <2> QED BY <1>1, <1>2, <2>1 DEF PathInv
<1>4. CASE f.how = "setup"
  <2> DEFINE waiting == Last(below)
  <2>1. EndSetup(f, outcome) /\ below # <<>>
    BY <1>1, <1>4 DEF EndFile
  <2> HIDE DEF path
  <2>2. CASE outcome \in {"error", "tagged"}
    <3>1. search' = path_list_remove(path, waiting.dir) /\ frames' = Front(below) /\ left' = left
      BY <2>1, <2>2 DEF EndSetup, path
    <3> QED BY <1>1, <1>2, <2>1, <3>1, FollowsPop DEF PathInv
  <2>3. CASE outcome \notin {"error", "tagged"}
    <3>1. Open(path, Front(below), waiting)
      BY <2>1, <2>3 DEF EndSetup, path
    <3>2. GoodFrame(waiting, ran)
      BY <1>1, <2>1, FrontGood DEF PathInv, Shape
    <3>3. below = Append(Front(below), waiting) /\ IsList(Front(below))
      BY <1>2, <2>1, ListFront, FrontAndLast
    <3> HIDE DEF waiting
    <3> QED BY <1>1, <1>2, <3>1, <3>2, <3>3, FollowsOpen DEF PathInv, Shape
  <2> QED BY <2>2, <2>3
<1> QED BY <1>3, <1>4

LEMMA PathStep == ASSUME PathInv, [LoadingNext]_module_vars PROVE PathInv'
<1>1. ASSUME NEW name \in Mains, Main(name) PROVE PathInv'
  BY <1>1, InvokeFollows DEF Main
<1>2. ASSUME NEW name \in Names, native_require(name) PROVE PathInv'
  <2> DEFINE file == path_list_find(search, name)
  <2>1. CASE Cached(file) = NoRun
    <3>1. run_file_keep_res(file, "require", file)
      BY <1>2, <2>1 DEF native_require, ModuleKey
    <3> HIDE DEF file
    <3> QED BY <3>1, RunFollows
  <2>2. CASE Cached(file) # NoRun
    <3>1. UNCHANGED <<search, frames, ran, left>>
      BY <1>2, <2>2 DEF native_require, ModuleKey
    <3> QED BY <3>1 DEF PathInv, Shape
  <2> QED BY <2>1, <2>2
<1>3. ASSUME NEW name \in Names, native_run(name) PROVE PathInv'
  BY <1>3, RunFollows DEF native_run
<1>4. ASSUME NEW outcome \in Outcomes, EndFile(outcome) PROVE PathInv'
  BY <1>4, EndFollows
<1>5. CASE UNCHANGED module_vars
  BY <1>5 DEF module_vars, PathInv, Shape
<1> QED BY <1>1, <1>2, <1>3, <1>4, <1>5 DEF LoadingNext

-----------------------------------------------------------------------------
(* The directories that are put on the path are those of the files.         *)

\* What ml_paths.c gives for the directory of a file that is there, or of the main
\* file, stands for that directory. It does not for a file in "/" itself, which is made
\* its own directory, nor for directories with "~" or "${" in their names.
DirnamesAreRight ==
  /\ \A t : file_exists(t) =>
       Located(transform_path(path_dirname_alloc(t))) = Directory(Canonical(t))
  /\ \A name \in Mains : file_exists(name) /\ ~IsAbsolute(name) =>
       Located(transform_path(path_join_alloc(Cwd, path_dirname_alloc(name)))) =
         Directory(Canonical(name))

OwnFrames(fs) == IsList(fs) /\ \A i \in DOMAIN fs : OwnDirectory(fs[i])

OwnInv == Shape /\ OwnFrames(frames) /\ OwnFrames(left)

LEMMA OwnAppend ==
  ASSUME NEW fs, OwnFrames(fs), NEW f, OwnDirectory(f) PROVE OwnFrames(Append(fs, f))
<1> DEFINE gs == Append(fs, f)
<1>1. /\ IsList(gs) /\ DOMAIN fs = 1 .. Len(fs) /\ Len(fs) \in Nat
      /\ DOMAIN gs = 1 .. Len(fs) + 1
      /\ \A i \in 1 .. Len(fs) : gs[i] = fs[i]
      /\ gs[Len(fs) + 1] = f
  BY ListAppend DEF OwnFrames
<1> HIDE DEF gs
<1>2. ASSUME NEW i \in DOMAIN gs PROVE OwnDirectory(gs[i])
  <2>1. i \in 1 .. Len(fs) \/ i = Len(fs) + 1
    BY <1>1
  <2> QED BY <1>1, <2>1 DEF OwnFrames
<1> QED BY <1>1, <1>2 DEF OwnFrames, gs

LEMMA OwnFront ==
  ASSUME NEW fs, OwnFrames(fs), fs # <<>> PROVE OwnFrames(Front(fs)) /\ OwnDirectory(Last(fs))
<1> DEFINE gs == Front(fs)
<1>1. /\ IsList(gs) /\ Len(fs) \in Nat \ {0} /\ DOMAIN fs = 1 .. Len(fs)
      /\ DOMAIN gs = 1 .. Len(fs) - 1
      /\ \A i \in 1 .. Len(fs) - 1 : gs[i] = fs[i]
      /\ Last(fs) = fs[Len(fs)]
  BY ListFront DEF OwnFrames
<1> HIDE DEF gs
<1> QED BY <1>1 DEF OwnFrames, gs

LEMMA OwnOpen ==
  ASSUME IsList(ran), OwnFrames(left), NEW path, NEW below, OwnFrames(below),
         NEW f, GoodFrame(f, ran), OwnDirectory(f), Open(path, below, f)
  PROVE  OwnFrames(frames') /\ OwnFrames(left')
<1>1. CASE Opens(f.file)
  <2> DEFINE g == [f EXCEPT !.run = Len(ran) + 1]
  <2>1. frames' = Append(below, g) /\ left' = left
    BY <1>1 DEF Open
  <2>2. g.dir = f.dir /\ g.file = f.file /\ g.how = f.how
    BY DEF GoodFrame
  <2> HIDE DEF g
  <2>3. OwnDirectory(g)
    BY <2>2 DEF OwnDirectory
  <2> QED BY <2>1, <2>3, OwnAppend
<1>2. CASE ~Opens(f.file)
  BY <1>2, OwnAppend DEF Open
<1> QED BY <1>1, <1>2

LEMMA RunOwn ==
  ASSUME DirnamesAreRight, OwnInv, NEW file, file_exists(file), NEW how, NEW key,
         run_file_keep_res(file, how, key), how \notin {"setup", "main"},
         how = "require" => key = file
  PROVE  OwnInv'
<1> DEFINE dir == path_dirname_alloc(file)
           path == path_list_add_top(search, dir)
           f == [Frame(file, dir, how) EXCEPT !.key = key]
<1>1. f = [file |-> file, dir |-> dir, how |-> how, key |-> key, run |-> NoRun]
  BY DEF Frame
<1>2. Open(path, frames, f)
  BY DEF run_file_keep_res
<1>3. Shape'
  BY RunGood DEF OwnInv
<1> HIDE DEF f, path
<1>4. GoodFrame(f, ran) /\ OwnDirectory(f)
  BY <1>1 DEF GoodFrame, OwnDirectory, DirnamesAreRight
<1> QED BY <1>2, <1>3, <1>4, OwnOpen DEF OwnInv, Shape

LEMMA MainOwn ==
  ASSUME DirnamesAreRight, OwnInv, NEW file \in Mains, file_exists(file), invoke_main_file(file)
  PROVE  OwnInv'
<1> DEFINE dir == path_join_alloc(Cwd, path_dirname_alloc(file))
           path == path_list_add_top(search, dir)
           setup == path_list_find(path, SetupName)
           sdir == path_dirname_alloc(setup)
           spath == path_list_add_top(path, sdir)
           f == Frame(file, dir, "main")
           g == Frame(setup, sdir, "setup")
<1>1. Shape' /\ IsList(path)
  BY InvokeGood, ListOnTop DEF OwnInv, Shape, path_list_add_top
<1>2. GoodFrame(f, ran) /\ GoodFrame(g, ran) /\ OwnDirectory(f)
  BY DEF Frame, GoodFrame, OwnDirectory, DirnamesAreRight
<1>3. CASE setup = <<>>
  <2>1. Open(path, frames, f)
    BY <1>3 DEF invoke_main_file
  <2> HIDE DEF f, path
  <2> QED BY <1>1, <1>2, <2>1, OwnOpen DEF OwnInv, Shape
<1>4. CASE setup # <<>>
  <2>1. OwnDirectory(g)
    <3>1. file_exists(setup)
      BY <1>1, <1>4, FindExists
    <3> HIDE DEF setup
    <3> QED BY <3>1 DEF Frame, OwnDirectory, DirnamesAreRight
  <2>2. CASE Opens(setup)
    <3>1. Open(spath, Append(frames, f), g)
      BY <1>4, <2>2 DEF invoke_main_file
    <3> HIDE DEF f, g, spath
    <3> QED BY <1>1, <1>2, <2>1, <3>1, OwnAppend, OwnOpen DEF OwnInv, Shape
  <2>3. CASE ~Opens(setup)
    <3>1. frames' = frames /\ left' = Append(left, g)
      BY <1>4, <2>3 DEF invoke_main_file
    <3> HIDE DEF g
    <3> QED BY <1>1, <2>1, <3>1, OwnAppend DEF OwnInv
  <2> QED BY <2>2, <2>3
<1> QED BY <1>3, <1>4

LEMMA EndOwn == ASSUME OwnInv, NEW outcome, EndFile(outcome) PROVE OwnInv'
<1> DEFINE f == Last(frames)
           path == path_list_remove(search, f.dir)
           below == Front(frames)
<1>1. /\ Shape' /\ frames # <<>> /\ GoodFrames(below, ran) /\ OwnFrames(below)
      /\ below = <<>> => f.how # "setup"
  BY EndShape, FrontGood, OwnFront DEF OwnInv, Shape, GoodFrames
<1>2. CASE f.how # "setup"
  <2>1. frames' = below /\ left' = left
    BY <1>2 DEF EndFile
  <2> QED BY <1>1, <2>1 DEF OwnInv
<1>3. CASE f.how = "setup"
  <2> DEFINE waiting == Last(below)
  <2>1. EndSetup(f, outcome) /\ below # <<>>
    BY <1>1, <1>3 DEF EndFile
  <2>2. OwnFrames(Front(below)) /\ OwnDirectory(waiting) /\ GoodFrame(waiting, ran)
    BY <1>1, <2>1, FrontGood, OwnFront DEF OwnInv, Shape
  <2>3. CASE outcome \in {"error", "tagged"}
    <3>1. frames' = Front(below) /\ left' = left
      BY <2>1, <2>3 DEF EndSetup
    <3> QED BY <1>1, <2>2, <3>1 DEF OwnInv
  <2>4. CASE outcome \notin {"error", "tagged"}
    <3>1. Open(path, Front(below), waiting)
      BY <2>1, <2>4 DEF EndSetup
    <3> HIDE DEF path, below, waiting
    <3> QED BY <1>1, <2>2, <3>1, OwnOpen DEF OwnInv, Shape
  <2> QED BY <2>3, <2>4
<1> QED BY <1>2, <1>3

LEMMA OwnStep == ASSUME DirnamesAreRight, OwnInv, [LoadingNext]_module_vars PROVE OwnInv'
<1>1. ASSUME NEW name \in Mains, Main(name) PROVE OwnInv'
  BY <1>1, MainOwn DEF Main
<1>2. ASSUME NEW name \in Names, native_require(name) PROVE OwnInv'
  <2> DEFINE file == path_list_find(search, name)
  <2>1. CASE Cached(file) = NoRun
    <3>1. run_file_keep_res(file, "require", file) /\ file_exists(file)
      BY <1>2, <2>1, FindExists DEF native_require, ModuleKey, OwnInv, Shape
    <3> HIDE DEF file
    <3> QED BY <3>1, RunOwn
  <2>2. CASE Cached(file) # NoRun
    <3>1. UNCHANGED <<search, frames, ran, left>>
      BY <1>2, <2>2 DEF native_require, ModuleKey
    <3> QED BY <3>1 DEF OwnInv, Shape
  <2> QED BY <2>1, <2>2
<1>3. ASSUME NEW name \in Names, native_run(name) PROVE OwnInv'
  <2> DEFINE file == path_list_find(search, name)
  <2>1. run_file_keep_res(file, "run", file) /\ file_exists(file)
    BY <1>3, FindExists DEF native_run, OwnInv, Shape
  <2> HIDE DEF file
  <2> QED BY <2>1, RunOwn
<1>4. ASSUME NEW outcome \in Outcomes, EndFile(outcome) PROVE OwnInv'
  BY <1>4, EndOwn
<1>5. CASE UNCHANGED module_vars
  BY <1>5 DEF module_vars, OwnInv, Shape
<1> QED BY <1>1, <1>2, <1>3, <1>4, <1>5 DEF LoadingNext

LEMMA OwnInit == LoadingInit => OwnInv
<1> SUFFICES ASSUME LoadingInit PROVE OwnInv
  OBVIOUS
<1>1. Shape /\ frames = <<>> /\ left = <<>> /\ IsList(<<>>)
  BY InitGood, BaseIsList DEF LoadingInit, LoadingInv
<1>2. DOMAIN <<>> = {}
  OBVIOUS
<1> QED BY <1>1, <1>2 DEF OwnInv, OwnFrames

LEMMA PathIsFollowed == PathInv /\ OwnInv => PathFollowsFiles
<1> SUFFICES ASSUME PathInv, OwnInv PROVE PathFollowsFiles
  OBVIOUS
<1> DEFINE running == DirsOf(frames)
           failed == DirsOf(left)
<1>1. /\ IsList(running) /\ IsList(failed) /\ IsList(Base)
      /\ Follows(search, frames, left)
  BY DirsAreList, BaseIsList DEF PathInv, Shape, GoodFrames
<1>2. ASSUME NEW t PROVE Count(search, t) = Count(running \o Base \o failed, t)
  <2> DEFINE both == running \o Base
  <2>1. IsList(both) /\ Occurs(both, t) = Occurs(running, t) + Occurs(Base, t)
    BY <1>1, ListCat, OccursCat
  <2> HIDE DEF both
  <2>2. Occurs(both \o failed, t) = Occurs(both, t) + Occurs(failed, t)
    BY <1>1, <2>1, OccursCat
  <2>3. Occurs(search, t) = Occurs(both \o failed, t)
    BY <1>1, <2>1, <2>2 DEF Follows
  <2> QED BY <2>3 DEF Count, Occurs, Among, Marks, both
<1>3. left = <<>> => search = running \o Base
  BY <1>1 DEF Follows
<1>4. \A f \in Range(frames) \cup Range(left) : OwnDirectory(f)
  BY DEF OwnInv, OwnFrames, Range
<1> QED BY <1>2, <1>3, <1>4 DEF PathFollowsFiles

\* The search path is the directories of the files that run, in order, behind what it was
\* at the start: whatever files run files, and however they and their setup files end, for
\* every set of files and every meaning of the texts that name them (path_list_add_top and
\* path_list_remove, called in mila.c).
THEOREM PathFollows == ASSUME DirnamesAreRight PROVE LoadingSpec => []PathFollowsFiles
<1>1. PathInv /\ [LoadingNext]_module_vars => PathInv'
  BY PathStep
<1>2. OwnInv /\ [LoadingNext]_module_vars => OwnInv'
  BY OwnStep
<1>3. LoadingInit => PathInv /\ OwnInv
  BY PathInit, OwnInit
<1>4. PathInv /\ OwnInv => PathFollowsFiles
  BY PathIsFollowed
<1> QED BY <1>1, <1>2, <1>3, <1>4, PTL DEF LoadingSpec
=============================================================================

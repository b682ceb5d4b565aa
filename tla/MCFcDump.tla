------------------------------ MODULE MCFcDump ------------------------------
(***************************************************************************)
(* What fcdump is given: each input is about a few options, and leaves the *)
(* others alone.                                                           *)
(***************************************************************************)
EXTENDS FcDump

Keys(total, local, calls) ==
  [k \in SortKeys \ {"name"} |->
     CASE k \in {"total", "max", "lmax"} -> total [] k = "calls" -> calls [] OTHER -> local]
(* two functions with the same local time *)
MCTimes == 10 :> Keys(9, 2, 1) @@ 20 :> Keys(5, 4, 6) @@ 30 :> Keys(7, 2, 2)

Program == [opt |-> "", arg |-> "a.out"]
Opt(opt) == [opt |-> opt]
With(opt, arg) == [opt |-> opt, arg |-> arg]

Object(ok, syms, files) == [ok |-> ok, syms |-> syms, files |-> files]
Full == Object(TRUE, 10 :> TRUE @@ 20 :> FALSE @@ 30 :> TRUE @@ 40 :> TRUE, TRUE)
Short == Object(TRUE, 10 :> TRUE @@ 20 :> FALSE, TRUE)
Holes == Object(TRUE, 10 :> TRUE @@ 40 :> TRUE, TRUE)
Stripped == Object(TRUE, <<>>, FALSE)
NoObject == Object(FALSE, <<>>, FALSE)
Lib(files) == Object(TRUE, 20 :> TRUE @@ 90 :> TRUE, files)

None == [l \in Lists |-> 0]
Plain == [argv |-> <<Program>>, exe |-> Full, libs |-> <<>>, file |-> "good", lists |-> None]
Of(words) == [Plain EXCEPT !.argv = words \o <<Program>>]

SortedInputs ==
  { Of(<<With("-rsort", "calls"), Opt("-no-cycles"), Opt("-rgraph")>>),
    Of(<<With("-rsort", "name"), Opt("-cumul"), With("-sort", "none"), Opt("-no-graph")>>),
    Of(<<Opt("-cumul"), With("-rsort", "name"), Opt("-no-cycles")>>),
    Of(<<With("-sort", "name"), Opt("-no-names")>>),
    [Of(<<With("-sort", "name"), Opt("-no-flat"), Opt("-flat")>>) EXCEPT !.exe = Short] }

SelectedInputs ==
  { Of(<<With("-not", <<10, 0, -20>>), With("-not", <<77>>), Opt("-rgraph")>>),
    Of(<<With("-only", <<-10, 20>>), With("-only", <<-30>>), Opt("-no-names")>>),
    Of(<<With("-only", <<0, 10, 20>>)>>),
    Of(<<With("-only", <<10, 20>>), With("-not", <<30>>), Opt("-propagate")>>),
    [Of(<<With("-not", <<0, 10, -20>>), Opt("-force-names"), Opt("-no-flat")>>)
       EXCEPT !.exe = NoObject] }

NamedInputs ==
  { [Plain EXCEPT !.exe = Holes, !.libs = <<Lib(TRUE), Lib(FALSE)>>],
    [Of(<<Opt("-vcg")>>) EXCEPT !.libs = <<NoObject, Lib(TRUE), Lib(FALSE)>>],
    [Plain EXCEPT !.libs = <<Lib(FALSE)>>],
    [Plain EXCEPT !.exe = NoObject],
    [Of(<<Opt("-vcg"), Opt("-info"), With("-rsort", "min")>>) EXCEPT !.exe = Stripped] }

MemoryInputs ==
  { [Of(<<Opt("-no-memory"), Opt("-memory"), Opt("-no-mem-free"), Opt("-no-graph")>>)
       EXCEPT !.lists = [None EXCEPT !["leaks"] = 2]],
    [Plain EXCEPT !.file = "old"], [Plain EXCEPT !.file = "missing"] }

RefusedInputs ==
  { Of(<<Opt("-sort")>>), [Plain EXCEPT !.argv = <<Opt("-flat")>>], Of(<<Program>>),
    Of(<<Opt("-v"), Opt("-none")>>), [Plain EXCEPT !.argv = <<Program, Opt("-only")>>] }

MCInputs ==
  {Plain} \cup SortedInputs \cup SelectedInputs \cup NamedInputs \cup MemoryInputs
    \cup RefusedInputs
=============================================================================

------------------------------ MODULE FcNames -------------------------------
(***************************************************************************)
(* The names of functions (fcdump/fc_names.c).                             *)
(*                                                                         *)
(* An object file, as BFD reads it (external): whether it is one ("ok"),   *)
(* its functions ("syms": from addresses to whether they are exported) and *)
(* whether its debugging information names the source files ("files").     *)
(* The name of a function is a number, the address it has in the           *)
(* executable; names of a library are in "syms" likewise.  Demangling      *)
(* changes all names in the same way and is left out.                      *)
(***************************************************************************)
EXTENDS Integers, FiniteSetsExt, SequencesExt

NoName == 0       \* NULL
InvalidName == -1 \* FC_INVALID_NAME
GarbageName == -2 \* what is left of a buffer of fc_extract_dynamic

(* a finite set of numbers as a sequence, in their order *)
InOrder(S) ==
  CHOOSE s \in [1 .. Cardinality(S) -> S] : \A i, j \in DOMAIN s : i < j => s[i] < s[j]

(* fc_open_bfd_file and fc_init_extract_dynamic *)
HasSymbols(object) == object.ok /\ DOMAIN object.syms # {}

OutOfTable(syms, addr) == addr < Min(DOMAIN syms) \/ addr > Max(DOMAIN syms)

(* fc_extract_dynamic_base: the function that an address lies in, except   *)
(* for those outside of the table of symbols                               *)
ExtractBase(table, addr) ==
  LET syms == InOrder(DOMAIN table)
      at == {i \in 1 .. Len(syms) - 1 : addr >= syms[i] /\ addr < syms[i + 1]}
  IN  IF OutOfTable(table, addr) \/ at = {} THEN addr ELSE syms[Min(at)]

(* fc_extract_dynamic and what the loop over the functions makes of it.    *)
(* Outside of the table a local buffer is returned, which is no more: what *)
(* is found there, or NULL, as compilers have it.                          *)
ExtractName(syms, f, lost) ==
  LET named(name, ok) == [f EXCEPT !.name = name, !.ok = ok]
  IN  CASE OutOfTable(syms, f.symbol) -> named(lost, IF lost = InvalidName THEN "bad" ELSE "ndef")
        [] f.symbol \in DOMAIN syms -> named(f.symbol, IF syms[f.symbol] THEN "ok" ELSE "ndef")
        [] OTHER -> named(InvalidName, "bad")

(* fc_find_symbol_by_name *)
FindSymbol(object, name) == name \in DOMAIN object.syms /\ object.syms[name]

(* the libraries that the loop over the libraries takes a file name from *)
Sources(libs, fncs) ==
  {lib \in Range(libs) : HasSymbols(lib) /\ \E f \in Range(fncs) : f.ok = "ndef" /\ FindSymbol(lib, f.name)}

(* A function without details gets those of a library that exports its name. *)
WithLibraries(libs, fncs) ==
  [i \in DOMAIN fncs |->
     IF fncs[i].ok = "ndef" /\ \E lib \in Range(libs) : HasSymbols(lib) /\ FindSymbol(lib, fncs[i].name)
       THEN [fncs[i] EXCEPT !.ok = "ok"] ELSE fncs[i]]

(* strdup of the name of a file that there is not.  A library is looked at *)
(* only for what the libraries before it do not have.                      *)
NoFileName(libs, fncs) ==
  \E i \in DOMAIN libs :
    ~libs[i].files /\ libs[i] \in Sources(libs, WithLibraries(SubSeq(libs, 1, i - 1), fncs))

(* fc_search_function_by_name, fc_check_address: entries of -not get the   *)
(* address of their function, or none                                      *)
SolveEntry(fncs, e) ==
  LET named == SelectSeq(fncs, LAMBDA f : f.name = e.name)
  IN  [e EXCEPT !.addr =
         IF e.addr = 0 THEN IF named = <<>> THEN 0 ELSE named[1].symbol
         ELSE IF e.addr \in {f.symbol : f \in Range(fncs)} THEN e.addr ELSE 0]

(* -only: the loop looks at the entries of -not instead of its own.  It    *)
(* reads what is not there when -not has fewer.                            *)
BeyondNot(only, not) == Len(only) > Len(not)
SolveNamed(fncs, e) == IF e.addr = 0 THEN SolveEntry(fncs, e) ELSE e
=============================================================================

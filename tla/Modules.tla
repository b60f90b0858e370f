------------------------------ MODULE Modules ------------------------------
(***************************************************************************)
(* Importing files: the IMPORT instruction and link_to_imported of         *)
(* src/core/vm/vm.c over the module table and the constant cache of        *)
(* src/core/vm/tl.c.                                                       *)
(*                                                                         *)
(* The parser takes import statements at the top level of a file only      *)
(* (EXPECT_GLOBAL_SCOPE), so a statement is executed while the top level   *)
(* of its file runs, once.  What a statement says and what a file contains *)
(* are fixed by the text, which is read when it is first needed.           *)
(***************************************************************************)
EXTENDS Naturals, FiniteSets, Sequences, SequencesExt

CONSTANTS
  Path,      \* resolved import paths
  Main,      \* the program the interpreter was started with
  Null,
  Statement, \* the import statements of a program, numbered from 1
  Wants,     \* the names a program uses of the module of each statement
  Exports,   \* the sets of names a module may export
  MaxCalls   \* bound on nested imports and calls, tl->stack_max in the code

Name == {"fn", "class", "const"}

ASSUME ModulesAssumption ==
  /\ Main \notin Path
  /\ IsFiniteSet(Statement) /\ Statement = 1 .. Cardinality(Statement)
  /\ Wants \in [Statement -> SUBSET Name] /\ Exports \subseteq SUBSET Name
  /\ MaxCalls \in Nat \ {0}

Prog == Path \cup {Main}
Site == Prog \X Statement
(* Where an au_program_data lives: the main program's, the variable        *)
(* "program" of the activation that executes an IMPORT, the heap.          *)
MainData == <<"main", 0>>
Stack(d) == <<"stack", d>>
Heap(p) == <<"heap", p>>
Address == {MainData} \cup {Stack(d) : d \in 1 .. MaxCalls} \cup {Heap(p) : p \in Path}

ASSUME NullAssumption == Null \notin Prog \cup Nat \cup Address

(* Constants: nil, a value without pointers, a function value.             *)
Unset == [of |-> Null, p_data |-> Null]
Plain == [of |-> Null, p_data |-> MainData]
FnValue == [of : Prog, p_data : Address]

VARIABLES
  text,               \* the path in each import statement, Null when not read yet
  exports,            \* what each module exports
  loaded_modules_map, \* the slot of each path, Null when it has none
  loaded_modules,     \* slots: Null until the module is loaded
  activations,        \* calls of au_vm_exec_unverified, the running one last
  p_data_cached,      \* imported_func.p_data_cached of the functions used
  classes,            \* p_data->classes[] of the classes used
  tl_constant_start,  \* p_data->tl_constant_start
  const_cache,        \* tl->const_cache
  error               \* tl->error.result, with the path of the import

tables == <<loaded_modules_map, loaded_modules>>
links == <<p_data_cached, classes>>
consts == <<tl_constant_start, const_cache>>
vars == <<text, exports, tables, activations, links, consts, error>>

Activation ==
  [prog : Prog, p_data : Address, body : BOOLEAN,
   import : Statement \cup {0}, slot : Nat]

ErrorType == {"ok", "raised", "import", "circular"}

TypeOK ==
  /\ text \in [Site -> Path \cup {Null}]
  /\ exports \in [Path -> SUBSET Name]
  /\ loaded_modules_map \in [Path -> Nat \cup {Null}]
  /\ loaded_modules \in Seq({Heap(p) : p \in Path} \cup {Null})
  /\ activations \in Seq(Activation) /\ Len(activations) <= MaxCalls
  /\ p_data_cached \in [Site -> Address \cup {Null}]
  /\ classes \in [Site -> Path \cup {Null}]
  /\ tl_constant_start \in [Prog -> Nat]
  /\ const_cache \in Seq({Unset, Plain} \cup FnValue)
  /\ error \in [type : ErrorType, path : Path \cup {Null}]

(* data_val.len: one constant of its own and one for each module imported. *)
DataLen == Cardinality(Statement) + 1
Own == 1
Imported(s) == s + 1

NoError == [type |-> "ok", path |-> Null]

Init ==
  /\ text = [x \in Site |-> Null]
  /\ exports = [p \in Path |-> {}]
  /\ loaded_modules_map = [p \in Path |-> Null]
  /\ loaded_modules = <<>>
  /\ activations = <<[prog |-> Main, p_data |-> MainData, body |-> TRUE,
                      import |-> 0, slot |-> 0]>>
  /\ p_data_cached = [x \in Site |-> Null]
  /\ classes = [x \in Site |-> Null]
  /\ tl_constant_start = [p \in Prog |-> 0]
  /\ const_cache = [k \in 1 .. DataLen |-> Unset]
  /\ error = NoError

-----------------------------------------------------------------------------
Running == activations # <<>> /\ error.type = "ok"

top == Last(activations)

(* The program data found at an address now.                               *)
IsLoaded(p) == Heap(p) \in ToSet(loaded_modules)

PData(a) ==
  CASE a = MainData -> Main
    [] a[1] = "heap" -> IF IsLoaded(a[2]) THEN a[2] ELSE Null
    [] OTHER -> LET d == a[2] + 1
                IN IF d <= Len(activations) /\ activations[d].body
                   THEN activations[d].prog ELSE Null

(* RAISE: the activation that raises returns. *)
Fail(stack, type, p) ==
  /\ activations' = Front(stack)
  /\ error' = [type |-> type, path |-> p]

(* The instruction is done, the activation goes on. *)
Continue(stack) ==
  activations' = [stack EXCEPT ![Len(stack)].import = 0, ![Len(stack)].slot = 0]

-----------------------------------------------------------------------------
(* link_to_imported: functions, then classes, then constants; the first    *)
(* name that the module does not export ends it with an error.             *)

(* Mutant of SetFunctions: the address of the importing variable is kept.  *)
SetStackAddress(x, p) ==
  p_data_cached' = [p_data_cached EXCEPT ![x] = Stack(Len(activations))]

SetFunctions(x, p) == p_data_cached' = [p_data_cached EXCEPT ![x] = Heap(p)]

ConstantOf(p) == const_cache[tl_constant_start[p] + Own]

CopyConstant(q, s, p) ==
  const_cache' =
    [const_cache EXCEPT ![tl_constant_start[q] + Imported(s)] = ConstantOf(p)]

Link(stack, s, has, p) ==
  LET q == Last(stack).prog
      x == <<q, s>>
      wants == Wants[s]
      missing == wants \ has
  IN \/ (* some functions may have been linked before the one that fails *)
        /\ "fn" \in missing
        /\ SetFunctions(x, p) \/ UNCHANGED p_data_cached
        /\ Fail(stack, "import", p)
        /\ UNCHANGED <<classes, const_cache>>
     \/ /\ "fn" \notin missing
        /\ IF "fn" \in wants THEN SetFunctions(x, p) ELSE UNCHANGED p_data_cached
        /\ IF "class" \in wants \cap has THEN classes' = [classes EXCEPT ![x] = p]
           ELSE UNCHANGED classes
        /\ IF missing = {} /\ "const" \in wants THEN CopyConstant(q, s, p)
           ELSE UNCHANGED const_cache
        /\ IF missing = {} THEN Continue(stack) /\ UNCHANGED error
           ELSE Fail(stack, "import", p)

-----------------------------------------------------------------------------
(* IMPORT *)

Reads(s, path) ==
  LET x == <<top.prog, s>> IN
  /\ Running
  /\ top.body /\ text[x] = Null
  /\ text' = [text EXCEPT ![x] = path]

get_module(p) ==
  IF loaded_modules_map[p] = Null THEN Null
  ELSE loaded_modules[loaded_modules_map[p] + 1]

(* The path does not begin with ./ or ../ *)
ImportUnresolved ==
  /\ Running /\ top.body
  /\ Fail(activations, "import", Null)
  /\ UNCHANGED <<text, exports, tables, links, consts>>

ImportLoaded(s, path) ==
  /\ Reads(s, path)
  /\ get_module(path) # Null
  /\ Link(activations, s, exports[path], path)
  /\ UNCHANGED <<exports, tables, tl_constant_start>>

(* reserve_module finds the path in its map. *)
ImportCircular(s, path) ==
  /\ Reads(s, path)
  /\ get_module(path) = Null /\ loaded_modules_map[path] # Null
  /\ Fail(activations, "circular", path)
  /\ UNCHANGED <<exports, tables, links, consts>>

(* Mutant of Reserve: the slot is not entered into the map. *)
ReserveUnnamed(p, slot) ==
  /\ loaded_modules_map[p] = Null
  /\ loaded_modules' = Append(loaded_modules, slot)
  /\ UNCHANGED loaded_modules_map

Reserve(p, slot) ==
  /\ loaded_modules_map[p] = Null
  /\ loaded_modules_map' = [loaded_modules_map EXCEPT ![p] = Len(loaded_modules)]
  /\ loaded_modules' = Append(loaded_modules, slot)

(* No such file, a library that does not load, or a syntax error: nothing  *)
(* takes the slot back, and no CALL_CATCH catches the error.               *)
ImportFails(s, path) ==
  /\ Reads(s, path)
  /\ Reserve(path, Null)
  /\ Fail(activations, "import", path)
  /\ UNCHANGED <<exports, links, consts>>

(* A library whose load function returns a null pointer. *)
ImportNoModule(s, path) ==
  /\ Reads(s, path)
  /\ Reserve(path, Null)
  /\ UNCHANGED <<exports, activations, links, consts, error>>

ImportLibrary(s, path, has) ==
  /\ Reads(s, path)
  /\ "const" \notin has
  /\ Reserve(path, Heap(path))
  /\ exports' = [exports EXCEPT ![path] = has]
  /\ Link(activations, s, has, path)
  /\ UNCHANGED tl_constant_start

(* Mutant of ConstStart: one cell too early. *)
ConstStartEarly == Len(const_cache) - 1

ConstStart == Len(const_cache)

(* A source file: its top level runs before the module is entered. *)
ImportSource(s, path, has) ==
  LET n == Len(activations) IN
  /\ Reads(s, path)
  /\ n < MaxCalls
  /\ Reserve(path, Null)
  /\ exports' = [exports EXCEPT ![path] = has]
  /\ tl_constant_start' =
       [tl_constant_start EXCEPT ![path] = ConstStart]
  /\ const_cache' = const_cache \o [k \in 1 .. DataLen |-> Unset]
  /\ activations' =
       Append([activations EXCEPT ![n].import = s,
                                  ![n].slot = Len(loaded_modules) + 1],
              [prog |-> path, p_data |-> Stack(n), body |-> TRUE,
               import |-> 0, slot |-> 0])
  /\ UNCHANGED <<links, error>>

(* Mutant of AddModule: the data goes to the last slot reserved. *)
AddToLast(slot, p) ==
  loaded_modules' = [loaded_modules EXCEPT ![Len(loaded_modules)] = Heap(p)]

AddModule(slot, p) == loaded_modules' = [loaded_modules EXCEPT ![slot] = Heap(p)]

BodyEnds ==
  LET rest == Front(activations)
      importer == Last(rest)
      s == importer.import
      p == top.prog
  IN /\ Running
     /\ top.body /\ rest # <<>>
     /\ loaded_modules[importer.slot] = Null  \* add_module aborts otherwise
     /\ AddModule(importer.slot, p)
     /\ Link(rest, s, exports[p], p)
     /\ UNCHANGED <<text, exports, loaded_modules_map, tl_constant_start>>

MainEnds ==
  /\ Running
  /\ Len(activations) = 1
  /\ activations' = <<>>
  /\ UNCHANGED <<text, exports, tables, links, consts, error>>

-----------------------------------------------------------------------------
(* Calls, constants and errors of the running programs *)

(* Mutant of Enter: no look at the stack that is left. *)
EnterDeep(p, a) ==
  /\ Running
  /\ Len(activations) <= MaxCalls
  /\ activations' = Append(activations,
       [prog |-> p, p_data |-> a, body |-> FALSE, import |-> 0, slot |-> 0])
  /\ UNCHANGED <<text, exports, tables, links, consts, error>>

Enter(p, a) ==
  /\ Running
  /\ Len(activations) < MaxCalls
  /\ activations' = Append(activations,
       [prog |-> p, p_data |-> a, body |-> FALSE, import |-> 0, slot |-> 0])
  /\ UNCHANGED <<text, exports, tables, links, consts, error>>

CallOwn == Enter(top.prog, top.p_data)

(* au_fn_call_internal follows p_data_cached; before the import has been   *)
(* executed that is a null pointer and the call has no defined outcome.    *)
CallImported(s) ==
  LET a == p_data_cached[<<top.prog, s>>] IN
  /\ Running
  /\ a # Null /\ PData(a) \in Path
  /\ Enter(PData(a), a)

Return ==
  /\ Running
  /\ ~top.body
  /\ activations' = Front(activations)
  /\ UNCHANGED <<text, exports, tables, links, consts, error>>

(* Mutant of SetConst: the last value stays. *)
SetConstAgain(v) ==
  /\ Running
  /\ top.body
  /\ const_cache' = [const_cache EXCEPT ![tl_constant_start[top.prog] + Own] = v]
  /\ UNCHANGED <<text, exports, tables, activations, links, tl_constant_start,
                 error>>

(* const is a statement of the top level; the first value stays. *)
SetConst(v) ==
  LET k == tl_constant_start[top.prog] + Own IN
  /\ Running
  /\ top.body
  /\ const_cache[k] = Unset
  /\ const_cache' = [const_cache EXCEPT ![k] = v]
  /\ UNCHANGED <<text, exports, tables, activations, links, tl_constant_start,
                 error>>

Value == {Plain, [of |-> top.prog, p_data |-> top.p_data]}

RaiseStatement ==
  /\ Running
  /\ Fail(activations, "raised", Null)
  /\ UNCHANGED <<text, exports, tables, links, consts>>

(* RAISE_BT after a failed call or a failed import. *)
Propagate ==
  /\ activations # <<>> /\ error.type # "ok"
  /\ activations' = Front(activations)
  /\ UNCHANGED <<text, exports, tables, links, consts, error>>

(* CALL_CATCH takes a raised value, from calls only. *)
Catch ==
  /\ activations # <<>> /\ error.type = "raised"
  /\ top.import = 0
  /\ error' = NoError
  /\ UNCHANGED <<text, exports, tables, activations, links, consts>>

-----------------------------------------------------------------------------
ImportSome ==
  \E s \in Statement, path \in Path :
    \/ ImportLoaded(s, path) \/ ImportCircular(s, path)
    \/ ImportFails(s, path) \/ ImportNoModule(s, path)
    \/ \E has \in Exports : ImportLibrary(s, path, has) \/ ImportSource(s, path, has)

Next ==
  \/ ImportUnresolved \/ ImportSome \/ BodyEnds \/ MainEnds
  \/ CallOwn \/ (\E s \in Statement : CallImported(s)) \/ Return
  \/ (Running /\ \E v \in Value : SetConst(v))
  \/ RaiseStatement \/ Propagate \/ Catch

Spec == Init /\ [][Next]_vars
-----------------------------------------------------------------------------
(* Properties *)

Loading(p) == {i \in 1 .. Len(activations) : activations[i].body
                                            /\ activations[i].prog = p}

(***************************************************************************)
(* However often and from wherever a file is imported, its top level is    *)
(* run by one import only (tests/imports/3.au, 4.au), and a path has a     *)
(* slot from before its top level starts.                                  *)
(***************************************************************************)
LoadedOnce ==
  \A p \in Path :
    /\ Cardinality(Loading(p))
         + Cardinality({k \in DOMAIN loaded_modules : loaded_modules[k] = Heap(p)}) <= 1
    /\ Loading(p) # {} => loaded_modules_map[p] # Null

(***************************************************************************)
(* The map and the array of tl.c agree: each path's slot is its own, holds *)
(* its module or nothing, and the slot that an unfinished import is going  *)
(* to fill is still empty, so that add_module never aborts.                *)
(***************************************************************************)
SlotsAgree ==
  /\ \A p \in Path : loaded_modules_map[p] # Null =>
       /\ loaded_modules_map[p] < Len(loaded_modules)
       /\ get_module(p) \in {Null, Heap(p)}
       /\ \A q \in Path \ {p} : loaded_modules_map[q] # loaded_modules_map[p]
  /\ \A i \in 1 .. Len(activations) : activations[i].import # 0 =>
       loaded_modules[activations[i].slot] = Null

(***************************************************************************)
(* What an import statement has cached, functions and classes, is that of  *)
(* the module it names, at an address that holds the module for good.      *)
(***************************************************************************)
LinksLive ==
  \A x \in Site :
    /\ p_data_cached[x] # Null =>
         text[x] # Null /\ PData(p_data_cached[x]) = text[x]
    /\ classes[x] # Null => text[x] # Null /\ classes[x] = text[x]

(***************************************************************************)
(* The constants of two programs of a thread never share a cell, although  *)
(* the cache grows while the importers of a module are still running.      *)
(***************************************************************************)
Started == {Main} \cup {p \in Path : exports[p] # {} /\ tl_constant_start[p] > 0}
Cells(p) == tl_constant_start[p] + 1 .. tl_constant_start[p] + DataLen

ConstRanges ==
  \A p \in Started :
    /\ Cells(p) \subseteq DOMAIN const_cache
    /\ \A q \in Started \ {p} : Cells(p) \cap Cells(q) = {}

(***************************************************************************)
(* A constant never changes once it has a value (SET_CONST keeps the first *)
(* one), whatever is imported later and however often.                     *)
(***************************************************************************)
ConstFixed ==
  [][\A k \in DOMAIN const_cache :
       const_cache[k] # Unset => const_cache'[k] = const_cache[k]]_vars

(***************************************************************************)
(* An import that binds a module's functions and goes on without an error  *)
(* has bound the classes and constants that the statement uses as well.    *)
(***************************************************************************)
Binds(x) == p_data_cached[x] = Null /\ p_data_cached'[x] # Null

WholeOrError ==
  [][\A x \in Site : Binds(x) /\ error'.type = "ok" =>
       /\ "class" \in Wants[x[2]] => classes'[x] = text'[x]
       /\ "const" \in Wants[x[2]] =>
            const_cache'[tl_constant_start'[x[1]] + Imported(x[2])]
              = const_cache'[tl_constant_start'[text'[x]] + Own]]_vars
=============================================================================

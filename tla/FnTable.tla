----------------------------- MODULE FnTable --------------------------------
(***************************************************************************)
(* The table of functions that the parser builds in one pass: forward      *)
(* references, redefinitions, methods that turn a function into a dispatch *)
(* function, functions of modules, and whether a function may fail         *)
(* (src/core/parser/impl/resolve.c, stmt.c, expr.c); linking, and what a   *)
(* call by index runs at last (src/core/vm/vm.c, src/core/fn/call.h).      *)
(*                                                                         *)
(* A source is any sequence of the constructs that read or change this     *)
(* table.  defs and uses record what the source said, for the properties   *)
(* to judge the table by; the parser does not read them.  A class is its   *)
(* name.                                                                   *)
(***************************************************************************)
EXTENDS Naturals, FiniteSets, Sequences, SequencesExt

CONSTANTS
  Name,          \* names of functions
  OwnClass,      \* classes declared in this file
  ModuleClass,   \* classes of the module this file imports
  NoClass,       \* CLASS_ID_NONE
  Arity,         \* numbers of arguments in the source; a method's with self
  MaxSize        \* bound on a source: definitions, uses and different names

ASSUME FnTableAssumption ==
  /\ NoClass \notin Name \cup OwnClass \cup ModuleClass /\ OwnClass \cap ModuleClass = {}
  /\ Arity \subseteq Nat
  /\ MaxSize \in Nat

Class == OwnClass \cup ModuleClass
Object == Class \cup {NoClass}  \* the class of a first argument, if it has one

VARIABLES
  fns,       \* p_data->fns; indices count from 1, 0 is none
  fn_map,    \* p_data->fn_map
  module_map,\* fn_map of the imported module
  class_map, \* the classes declared so far
  imported,  \* the import statement has been read
  cur,       \* the function being parsed: func_p, or the main program
  defs,      \* history: the definitions read
  uses,      \* history: the calls and function values read
  exports,   \* what the module turned out to contain
  res        \* p->res, "parsing" until the end, "linked" when all is well

tables == <<fns, fn_map, module_map, class_map, imported>>
vars == <<tables, cur, defs, uses, exports, res>>

CallingType == {"normal", "guarded"}  \* guarded: with ? or !, alike to the table
Flag == {"exported", "has_class", "may_fail"}
Index == 0 .. 2 * MaxSize
Body == 0 .. MaxSize
External == MaxSize  \* the body of whatever the module exports
Error == 0

Instance == [fn : Index, class : Object]
Function ==
  [type : {"none", "bc", "importer", "dispatch"}, flags : SUBSET Flag,
   num_args : Nat, class : Object, body : Body,
   inst : Seq(Instance), fallback : Index]
Parsing ==
  [name : Name \cup {NoClass}, value : Index, flags : SUBSET Flag,
   num_args : Nat, class : Object, body : Body, no_fail : BOOLEAN]
Definition ==
  [name : Name, class : Object, num_args : Nat, exported : BOOLEAN,
   may_fail : BOOLEAN]
Use ==
  [name : Name, of_module : BOOLEAN, self : BOOLEAN, kind : CallingType \cup {"value"},
   num_args : Nat, fn : Index, by : Body]
(* What a name is in the module; what is not there or not exported is all  *)
(* one to an importer.                                                     *)
Missing == [exported |-> FALSE, num_args |-> 0, may_fail |-> FALSE]
Export == {Missing} \cup [exported : {TRUE}, num_args : Arity, may_fail : BOOLEAN]

TypeOK ==
  /\ fns \in Seq(Function)
  /\ fn_map \in [Name -> 0 .. Len(fns)] /\ module_map \in [Name -> 0 .. Len(fns)]
  /\ class_map \subseteq OwnClass /\ imported \in BOOLEAN
  /\ cur \in Parsing
  /\ defs \in Seq(Definition)
  /\ uses \in Seq(Use)
  /\ exports \in [Name -> Export]
  /\ res \in {"parsing", "wrong_args", "unknown_function", "unknown_class", "fatal",
              "unknown_module", "duplicate_class", "duplicate_module", "parsed", "linked"}

(* A slot that the definition under way, or a later one, is to fill. *)
Forward(num_args) ==
  [type |-> "none", flags |-> {}, num_args |-> num_args, class |-> NoClass,
   body |-> 0, inst |-> <<>>, fallback |-> 0]

MainProgram ==
  [name |-> NoClass, value |-> 0, flags |-> {}, num_args |-> 0, class |-> NoClass,
   body |-> 0, no_fail |-> FALSE]

Init ==
  /\ fns = <<>>
  /\ fn_map = [n \in Name |-> 0] /\ module_map = [n \in Name |-> 0]
  /\ class_map = {} /\ imported = FALSE
  /\ cur = MainProgram
  /\ defs = <<>> /\ uses = <<>>
  /\ exports = [n \in Name |-> Missing]
  /\ res = "parsing"

Fits(ds, us) ==
  Len(ds) + Len(us) + Cardinality({x.name : x \in ToSet(ds) \cup ToSet(us)}) <= MaxSize

Global == res = "parsing" /\ cur = MainProgram  \* EXPECT_GLOBAL_SCOPE

Reject(why) == res' = why /\ UNCHANGED <<tables, cur, exports>>

-----------------------------------------------------------------------------
(* struct and import statements.  They come first here: what follows only  *)
(* asks whether they are there.                                            *)

Preamble == Global /\ defs = <<>> /\ uses = <<>>

Struct(c) ==
  /\ Preamble
  /\ IF c \in class_map THEN Reject("duplicate_class")
     ELSE /\ class_map' = class_map \cup {c}
          /\ UNCHANGED <<fns, fn_map, module_map, imported, cur, exports, res>>
  /\ UNCHANGED <<defs, uses>>

Import ==
  /\ Preamble
  /\ IF imported THEN Reject("duplicate_module")
     ELSE /\ imported' = TRUE
          /\ UNCHANGED <<fns, fn_map, module_map, class_map, cur, exports, res>>
  /\ UNCHANGED <<defs, uses>>

-----------------------------------------------------------------------------
(* Definitions.  Place(d) is the table when the head of d has been read,   *)
(* and the index its body will have.                                       *)

FnFlags(d) ==
  (IF d.exported THEN {"exported"} ELSE {})
    \cup (IF d.class # NoClass THEN {"has_class"} ELSE {})

AppendSlot(table) == [fns |-> Append(table, Forward(0)), value |-> Len(table) + 1]

SameVisibility(old, flags) == ("exported" \in old.flags) = ("exported" \in flags)

AddInstance(at, d) ==
  AppendSlot([fns EXCEPT ![at].inst =
                Append(@, [fn |-> Len(fns) + 1, class |-> d.class])])

(* Mutant of ToDispatch: the old function stays where it was. *)
ToDispatchInPlace(at, d) ==
  LET new == [fn |-> Len(fns) + 1, class |-> d.class]
  IN AppendSlot([fns EXCEPT ![at].type = "dispatch", ![at].flags = @ \cup {"has_class"},
                            ![at].inst = <<new>>, ![at].fallback = at])

(* The old function moves behind the table, as an instance if it is a      *)
(* method and as what no instance applies to otherwise.                    *)
ToDispatch(at, d) ==
  LET old == fns[at]
      moved == Len(fns) + 1
      method == "has_class" \in old.flags /\ old.type = "bc"
      first == IF method THEN <<[fn |-> moved, class |-> old.class]>> ELSE <<>>
      dispatch == [type |-> "dispatch", flags |-> old.flags \cup {"has_class"},
                   num_args |-> old.num_args, class |-> NoClass, body |-> 0,
                   inst |-> Append(first, [fn |-> moved + 1, class |-> d.class]),
                   fallback |-> IF method THEN 0 ELSE moved]
  IN AppendSlot(Append([fns EXCEPT ![at] = dispatch], old))

Place(d) ==
  LET at == fn_map[d.name]
      flags == FnFlags(d)
  IN CASE at = 0 -> AppendSlot(fns)
       [] at # 0 /\ fns[at].type = "none" -> [fns |-> fns, value |-> at]
       [] at # 0 /\ fns[at].type # "none" ->
            IF SameVisibility(fns[at], flags) /\ "has_class" \in fns[at].flags \cup flags
            THEN IF fns[at].type = "dispatch" THEN AddInstance(at, d) ELSE ToDispatch(at, d)
            ELSE [fns |-> [fns EXCEPT ![at] = Forward(0)], value |-> at]

(* The class in a method's head must be known; one of a module is taken on *)
(* trust until the module is linked.                                       *)
Unknown(d) ==
  CASE d.class \in OwnClass \ class_map -> "unknown_class"
    [] d.class \in ModuleClass /\ ~imported -> "unknown_module"
    [] OTHER -> "none"

(* Mutant of ExpectedArgs: a redefinition may take other arguments. *)
ExpectedNew(d) ==
  LET at == fn_map[d.name]
  IN IF at # 0 /\ fns[at].type = "none" THEN fns[at].num_args ELSE d.num_args

(* expected_num_args: what is in the name's slot before this definition. *)
ExpectedArgs(d) == LET at == fn_map[d.name] IN IF at = 0 THEN d.num_args ELSE fns[at].num_args

(* Mutant of ExpectedNoFail: only a forward call expects the function not to fail. *)
ForwardNoFail(d) ==
  LET at == fn_map[d.name]
  IN at # 0 /\ "may_fail" \notin fns[at].flags /\ fns[at].type = "none"

ExpectedNoFail(d) ==
  LET at == fn_map[d.name] IN at # 0 /\ "may_fail" \notin fns[at].flags

FuncHead(d) ==
  LET place == Place(d) IN
  /\ Global
  /\ defs' = Append(defs, d)
  /\ Fits(defs', uses)
  /\ IF Unknown(d) # "none" THEN Reject(Unknown(d))
     ELSE IF d.num_args # ExpectedArgs(d) THEN Reject("wrong_args")
     ELSE /\ fns' = place.fns
          /\ fn_map' = IF fn_map[d.name] # 0 THEN fn_map
                       ELSE [fn_map EXCEPT ![d.name] = place.value]
          /\ cur' = [name |-> d.name, value |-> place.value, flags |-> FnFlags(d),
                     num_args |-> d.num_args, class |-> d.class, body |-> Len(defs) + 1,
                     no_fail |-> ExpectedNoFail(d)]
          /\ UNCHANGED <<module_map, class_map, imported, exports, res>>
  /\ UNCHANGED uses

(* The calls of the function itself are filled in, and its slot. *)
FuncEnd ==
  LET fails == "may_fail" \in cur.flags
      filled == [u \in DOMAIN uses |->
                   IF uses[u].self /\ uses[u].kind # "value" /\ uses[u].by = cur.body
                   THEN [uses[u] EXCEPT !.fn = cur.value] ELSE uses[u]]
  IN /\ res = "parsing" /\ cur # MainProgram
     /\ IF cur.no_fail /\ fails THEN Reject("fatal") /\ UNCHANGED uses
        ELSE /\ fns' = [fns EXCEPT ![cur.value] =
                          [type |-> "bc", flags |-> cur.flags, num_args |-> cur.num_args,
                           class |-> cur.class, body |-> cur.body, inst |-> <<>>,
                           fallback |-> 0]]
             /\ uses' = filled
             /\ cur' = MainProgram
             /\ UNCHANGED <<fn_map, module_map, class_map, imported, exports, res>>
     /\ defs' = [defs EXCEPT ![cur.body].may_fail = fails]

(* raise; in the main program nothing reads the flag. *)
RaiseStatement ==
  /\ res = "parsing" /\ cur # MainProgram
  /\ cur' = [cur EXCEPT !.flags = @ \cup {"may_fail"}]
  /\ UNCHANGED <<tables, defs, uses, exports, res>>

-----------------------------------------------------------------------------
(* Uses of a name.  au_parser_resolve_fn adds what it does not find.       *)

(* Mutant of IsSelf: the function's own name is looked up like any other. *)
IsNotSelf(u) == FALSE

IsSelf(u) == ~u.of_module /\ u.name = cur.name

Found(u) == IF u.of_module THEN module_map[u.name] ELSE fn_map[u.name]

Added(u) ==
  IF u.of_module THEN [Forward(u.num_args) EXCEPT !.type = "importer", !.body = External]
  ELSE Forward(u.num_args)

(* Mutant of Enter: one past the slot that was added. *)
EnterPast(u, map) == [map EXCEPT ![u.name] = Len(fns) + 2]

Enter(u, map) == [map EXCEPT ![u.name] = Len(fns) + 1]

(* The table after the use, the name in it entered, with the flag of a new *)
(* function that is first called with ? or !.                              *)
Resolve(u, flags) ==
  IF Found(u) # 0 \/ IsSelf(u) THEN UNCHANGED <<fns, fn_map, module_map>>
  ELSE /\ fns' = Append(fns, [Added(u) EXCEPT !.flags = flags])
       /\ module_map' = IF u.of_module THEN Enter(u, module_map) ELSE module_map
       /\ fn_map' = IF u.of_module THEN fn_map ELSE Enter(u, fn_map)

Record(u, fn) == uses' = Append(uses, [u EXCEPT !.fn = fn])

ResolvedAt(u) == IF Found(u) # 0 THEN Found(u) ELSE Len(fns) + 1

(* What the parser knows of the function when it reads the call. *)
CalledArgs(u) ==
  CASE IsSelf(u) -> cur.num_args
    [] ~IsSelf(u) /\ Found(u) # 0 -> fns[Found(u)].num_args
    [] OTHER -> u.num_args
CalledFlags(u) ==
  CASE IsSelf(u) -> cur.flags
    [] ~IsSelf(u) /\ Found(u) # 0 -> fns[Found(u)].flags
    [] OTHER -> IF u.kind = "normal" THEN {} ELSE {"may_fail"}

Call(u) ==
  /\ res = "parsing" /\ Fits(defs, Append(uses, u))
  /\ u.kind \in CallingType
  /\ IF u.of_module /\ ~imported THEN Reject("unknown_module") /\ Record(u, 0)
     ELSE IF u.num_args # CalledArgs(u) THEN Reject("wrong_args") /\ Record(u, 0)
     ELSE IF u.kind = "normal" /\ "may_fail" \in CalledFlags(u)
          THEN Reject("fatal") /\ Record(u, 0)
     ELSE /\ Resolve(u, CalledFlags(u))
          /\ Record([u EXCEPT !.self = IsSelf(u)], IF IsSelf(u) THEN 0 ELSE ResolvedAt(u))
          /\ cur' = IF u.kind = "normal" \/ cur = MainProgram THEN cur
                    ELSE [cur EXCEPT !.flags = @ \cup {"may_fail"}]
          /\ UNCHANGED <<class_map, imported, exports, res>>
  /\ UNCHANGED defs

(* LOAD_FUNC for .f; within f itself the index is left at the first        *)
(* function.  What is not found is taken to have one argument.             *)
Load(u) ==
  /\ res = "parsing" /\ Fits(defs, Append(uses, u))
  /\ u.kind = "value" /\ u.num_args = 1
  /\ IF u.of_module /\ ~imported THEN Reject("unknown_module") /\ Record(u, 0)
     ELSE /\ Resolve(u, {})
          /\ Record([u EXCEPT !.self = IsSelf(u)], IF IsSelf(u) THEN 1 ELSE ResolvedAt(u))
          /\ UNCHANGED <<class_map, imported, cur, exports, res>>
  /\ UNCHANGED defs

-----------------------------------------------------------------------------
(* The import statement has something to link. *)
AsksModule == \E n \in Name : module_map[n] # 0

EndOfFile ==
  /\ Global
  /\ res' = CASE \E i \in DOMAIN fns : fns[i].type = "none" -> "unknown_function"
              [] (\A i \in DOMAIN fns : fns[i].type # "none") /\ AsksModule -> "parsed"
              [] OTHER -> "linked"
  /\ UNCHANGED <<tables, cur, defs, uses, exports>>

(* link_to_imported: each function used must be one the module exports. *)
Linked(e) ==
  \A n \in Name : module_map[n] # 0 =>
    LET f == fns[module_map[n]]
    IN /\ e[n].exported
       /\ f.num_args = e[n].num_args
       /\ ("may_fail" \in f.flags) = e[n].may_fail

Link(e) ==
  /\ res = "parsed"
  /\ \A n \in Name : module_map[n] = 0 => e[n] = exports[n]  \* not asked for
  /\ exports' = e
  /\ res' = IF Linked(e) THEN "linked" ELSE "fatal"
  /\ UNCHANGED <<tables, cur, defs, uses>>

-----------------------------------------------------------------------------
(* A method counts self, its first argument. *)
NewDefinition ==
  {d \in [name : Name, class : Object, num_args : Arity, exported : BOOLEAN,
          may_fail : {FALSE}] : d.class # NoClass => d.num_args > 0}

NewUse ==
  [name : Name, of_module : BOOLEAN, self : {FALSE}, kind : CallingType \cup {"value"},
   num_args : Arity, fn : {0}, by : {cur.body}]

Next ==
  \/ (\E c \in OwnClass : Struct(c)) \/ Import
  \/ (\E d \in NewDefinition : FuncHead(d)) \/ FuncEnd \/ RaiseStatement
  \/ (\E u \in NewUse : Call(u) \/ Load(u))
  \/ EndOfFile
  \/ \E e \in [Name -> Export] : Link(e)

Spec == Init /\ [][Next]_vars
-----------------------------------------------------------------------------
(* What a call of an index runs: au_fn_call_internal with a first argument *)
(* of class c, as the number of a definition.                              *)

OfMethod(i, c) ==
  IF "has_class" \in fns[i].flags /\ fns[i].class # c THEN Error ELSE fns[i].body

Reached(i, c) ==
  LET f == fns[i]
      fits == {k \in DOMAIN f.inst : f.inst[k].class = c}
  IN CASE f.type # "dispatch" -> OfMethod(i, c)
       [] f.type = "dispatch" /\ c # NoClass /\ fits # {} ->
            OfMethod(f.inst[CHOOSE k \in fits : \A j \in fits : k <= j].fn, c)
       [] OTHER -> IF c = NoClass \/ f.fallback = 0 THEN Error ELSE OfMethod(f.fallback, c)

-----------------------------------------------------------------------------
(* Properties.  What a name means is told from the definitions alone: those *)
(* in force are the last ones, from the last that replaced the earlier ones *)
(* because it is the only function of the name or differs in visibility.    *)

Joined(group, k) ==
  IF \/ group = <<>>
     \/ defs[group[1]].exported # defs[k].exported
     \/ \A j \in ToSet(group) \cup {k} : defs[j].class = NoClass
  THEN <<k>> ELSE Append(group, k)

InForce(n) ==
  LET of_name == SelectSeq([k \in 1 .. Len(defs) |-> k], LAMBDA k : defs[k].name = n)
  IN FoldLeft(Joined, <<>>, of_name)

(* The first definition for the class of the argument; otherwise the first *)
(* definition, if it is for no class; a choice needs an object.            *)
Meant(n, c) ==
  LET group == InForce(n)
      fits == {j \in DOMAIN group : defs[group[j]].class = c}
      plain == defs[group[1]].class = NoClass
  IN CASE c = NoClass /\ Len(group) > 1 -> Error
       [] c # NoClass /\ fits # {} ->
            group[CHOOSE j \in fits : \A k \in fits : j <= k]
       [] OTHER -> IF plain THEN group[1] ELSE Error

Runs == res = "linked"

(***************************************************************************)
(* However a function came into the table, used before it was defined,     *)
(* redefined, or made one method of several afterwards: an index recorded  *)
(* in bytecode long before still reaches, for every first argument, the    *)
(* definition that the name means (docs/tour.md, "Dynamic dispatch").  A   *)
(* function that names itself reaches that or its own definition.          *)
(***************************************************************************)
CallsReach ==
  Runs => \A k \in DOMAIN uses, c \in Object :
    LET u == uses[k] IN
    IF u.of_module THEN Reached(u.fn, c) = External
    ELSE IF ~u.self THEN Reached(u.fn, c) = Meant(u.name, c)
    ELSE u.kind # "value" => Reached(u.fn, c) \in {Meant(u.name, c), u.by, Error}

(***************************************************************************)
(* A function is never entered with another number of arguments than it    *)
(* takes; its frame takes as many from the caller's array as it declares.  *)
(***************************************************************************)
TakesArgs(n, b) == IF b = External THEN exports[n].num_args ELSE defs[b].num_args

ArityAgrees ==
  Runs => \A k \in DOMAIN uses, c \in Object :
    LET u == uses[k]
        b == Reached(u.fn, c)
    IN u.kind # "value" /\ b # Error => TakesArgs(u.name, b) = u.num_args

(***************************************************************************)
(* A call that neither catches nor passes on an error never reaches a      *)
(* function that may fail, wherever the function's raise stands; except    *)
(* the function's own calls of itself, which may come before its raise.    *)
(***************************************************************************)
Fails(n, b) == IF b = External THEN exports[n].may_fail ELSE b # Error /\ defs[b].may_fail

MayFailSound ==
  Runs => \A k \in DOMAIN uses, c \in Object :
    LET u == uses[k]
    IN u.kind = "normal" /\ ~u.self => ~Fails(u.name, Reached(u.fn, c))

(***************************************************************************)
(* A source is rejected for its arguments or for an unknown function only  *)
(* if some name is used or defined with different numbers of arguments, or *)
(* has no definition: never because of a slot that is yet to be filled.    *)
(***************************************************************************)
Arities(n, of_module) ==
  {uses[k].num_args : k \in {j \in DOMAIN uses : uses[j].name = n
                                                /\ uses[j].of_module = of_module}}
    \cup IF of_module THEN {}
          ELSE {defs[k].num_args : k \in {j \in DOMAIN defs : defs[j].name = n}}

RejectedRightly ==
  /\ res = "wrong_args" =>
       \E n \in Name, m \in BOOLEAN : Cardinality(Arities(n, m)) > 1
  /\ res = "unknown_function" =>
       \E k \in DOMAIN uses : ~uses[k].of_module /\ InForce(uses[k].name) = <<>>
=============================================================================

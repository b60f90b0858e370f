# A verification of Aument in TLA+

Aument is a small dynamic language: a parser that emits register bytecode in one
pass, an interpreter with a reference-counting collector, modules loaded at run
time, a C back end, and a standard library. This directory models the parts whose
correctness rests on *when* things happen, model-checks them with TLC and proves
with TLAPS, for every size, what matters most about six of them: the interpreter's
memory, the hash table of names, modules, the table of functions, the parser's registers
and values, and the counts of compiled programs.

Everything is modelled in the default build: Linux, delayed reference counting
(`AU_FEAT_DELAYED_RC`, the default of `meson.build`), `alloca`, the interpreter.
The interpreter is single-threaded (every piece of its state is thread-local), so
interleavings are those of *nested* activity: a collection inside an allocation,
an import inside a running program, a free inside a sweep, an error in the middle
of any of them.

## 1. Inventory

| component | source (under `src/src/`) | state | operations | what makes it correct |
|---|---|---|---|---|
| memory manager, collector | `core/rt/malloc/gc.c` | list of objects with `rc`, `marked`; byte counters | `au_obj_malloc/realloc/ref/deref`, `au_obj_malloc_collect`, `au_data_*` | nothing reachable is freed; nothing freed twice; a collection ends; counts cover the holders; `heap_size` is the sum of sizes |
| counting of values | `core/rt/value/ref.h` | none | `au_value_ref`, `au_value_deref` | reach the count of strings, structures and function values, and of nothing else |
| interpreter | `core/vm/vm.c`, `fn/call.h`, `vm/frame_link.h` | frames (registers, locals, self, return value) linked from `tl->current_frame` | one per opcode; call, return, raise, catch | registers hold without counting, everything else counts; an error unwinds exactly the frames of its callers |
| thread-local state | `core/vm/tl.c` | constant cache, module slots and their map, error record, back trace | reserve/add/get module, grow/delete constants | a slot per path; disjoint constant ranges; constants outlive the program |
| modules | `core/vm/module.c`, `vm.c` (`IMPORT`, `link_to_imported`), `fn/main.c`, `program.c` | resolved path, program data on the C stack and then on the heap, import caches of functions and classes | resolve, load, run top level, link | one execution per file; no link to anything but the module named; circularity reported iff there is one |
| arrays, tuples, instances | `core/rt/au_array.c`, `au_tuple.c`, `au_class.c` | elements | push, pop, insert, get, set, delete | each element counted once |
| dictionaries | `core/rt/au_dict.c` | Robin Hood table of values | get, set, resize, delete | a map; keys and values counted once |
| table of names | `core/hm_vars.c` | Robin Hood table of strings | get, add, resize | a map; calls return; probe invariants |
| function values | `core/rt/fn_value/int_impl.c` | function, program data, bound arguments | make, bind, call, delete | the program data lives; arguments counted once |
| parser | `core/parser/impl/*` | registers in use, cached locals, scopes | new/pop/pin register, one handler per construct | a register is not reused while needed; a cached local is current; every jump is patched |
| table of functions | `core/parser/impl/resolve.c`, `stmt.c`, `fn/call.h` | functions by index, indices by name, classes, modules' functions | define, redefine, add a method, use, link, dispatch | an index in bytecode reaches what its name means, with its arguments; a call that does not catch reaches nothing that may fail |
| lexer | `core/parser/lexer.c` | position, lookahead queue | next, peek | what is peeked is what comes next |
| values and operators | `core/rt/value/main.h`, `vm.c:565-802` | self-rewriting bytecode | arithmetic, comparison, specialise, despecialise | a rewritten instruction computes what the generic one does |
| C back end | `compiler/c_comp.c`, `core/rt/malloc/static.c`, `fn_value/comp_impl.c` | generated text, counted locals | one per opcode | counts are balanced on every path |
| standard library | `stdlib/*` | none of its own | native functions | arguments dereferenced exactly as callers expect |
| strings, UTF-8, fast division, OS layer, printer, command line | `core/rt/au_string.c`, `core/utf8.h`, `platform/fastdiv.h`, `os/*`, `core/int_error/*`, `main.c` | little or none | pure computations, wrappers of system calls | – |

How they interact. The interpreter calls the allocator; the allocator calls back
into the thread-local state and the frames to find roots, and into the `del_fn` of
the objects it frees, which change the counts of objects the same sweep is still to
visit. `IMPORT` calls the parser and then, recursively, the interpreter; both use
the thread's one constant cache and module table. Natives are called with counted
arguments and share the duty of giving the counts back with the `CALL` instruction.
The parser, the program data, classes and module table all keep names in `hm_vars`.
The parser writes indices of functions into bytecode before it knows the functions; the
call follows them at run time, through dispatch functions and links to modules. The C
back end walks the same bytecode and replaces the interpreter and its collector by C
statements that count every variable.

The hard behaviours are listed with their lines under `hazards` in `PROJECT.json`.

## 2. Modules

| module | models | role |
|---|---|---|
| `VmState` | `gc.c` (objects, counts, malloc), `ref.h`, frames of `vm.h`, constant cache and error record of `tl.h` | state, type invariant, counting operators |
| `Collector` | `collect_if_needed`, `au_obj_malloc_collect`, `mark`, `should_free`, the `del_fn`s | EXTENDS `VmState`; one step per object of the sweep |
| `Interp` | the instructions of `vm.c`, and the container, class, function-value and native functions they call | EXTENDS `Collector`; the specification and its properties |
| `InterpProofs` | – | theorems about `Interp` for all constants: any programs; counting and exactly counting programs |
| `MCInterp` | – | instruction sets and symmetry for TLC |
| `HmVars` | `hm_vars.c` | one step per turn of a probe loop |
| `TableSpec` | what `hm_vars.h` promises | abstract map that `HmVars` implements |
| `HmVarsProofs` | – | theorems about `HmVars`, with the refinement |
| `Modules` | `IMPORT`, `link_to_imported`, `tl.c`, `module.c`, `au_fn_fill_import_cache`, calls between modules | nested activations over the module table and the constant cache |
| `MCModules` | – | instances |
| `ModulesProofs` | – | theorems about `Modules` |
| `Registers` | `regs.c`, the `local_to_reg` array | the parser's register allocator as operators on one record |
| `Compile` | `expr.c`, `stmt.c` (expressions, assignments, `let`, `print`, `return`, `if`, `while`, blocks), the instructions they emit | parser, machine and source evaluation side by side |
| `MCCompile` | – | instance |
| `CompileProofs`, `CompileRegsProofs`, `CompileValueProofs` | – | theorems about `Compile`: types and places of locals; registers; values |
| `FnTable`, `MCFnTable` | `resolve.c`, function, struct and import statements of `stmt.c`, calls and `.f` of `expr.c`, `link_to_imported`, the dispatch of `fn/call.h` | the table of functions against what the source said |
| `FnTableProofs` | – | theorems about `FnTable` |
| `Dict`, `MCDict` | `au_dict.c`, `hash.c`, `DICT_NEW`, `IDX_GET`, `IDX_SET` | the dictionary's own Robin Hood table with counts, and a collector |
| `DictSpec` | what `tests/features/dict-basic.au` expects | abstract dictionary that `Dict` implements |
| `Operators`, `MCOperators` | `value/main.h`, `platform/arithmetic.h`, the operator and branch instructions of `vm.c` | self-rewriting instructions against the runtime's functions |
| `CCode`, `MCCode` | `c_comp.c`, `stdlib_begin.h`, `malloc/static.c`, `fn_value/comp_impl.c` | the counts of compiled programs |
| `CCodeProofs` | – | theorems about `CCode` |

### Memory and the interpreter (`VmState`, `Collector`, `Interp`)

A *value* is an object or `None`; `None` is every value that owns no memory (nil,
numbers, booleans, errors), which is exactly what the counting code tells apart. An
object is an address of `Obj` with a `kind` (string, array, tuple, class instance,
function value), a count `rc`, and the values it owns: `data[<<o, i>>]`, of which
`len[o]` are in use. `obj_list` is `malloc_data.obj_list`; `cur` is the sweep's
cursor in it (0 outside a collection), `marked` the marked objects. `frames[d]` has
the registers, locals and `self` of the frame at depth `d`. Addresses are reused
after a free, as with `malloc`.

The program is arbitrary bytecode over the set `Ops` of instructions: the next
instruction and its operands are any. Each action is a whole instruction with the
functions it calls. Because any program point may precede an allocation, and the
allocation functions collect *before* they touch the heap, a collection is its own
step that may come between any two instructions. Marking is one step (nothing runs
in its loops); sweeping is a step per object, because `del_fn` lowers the counts
the rest of the sweep reads.

An operation on freed memory has no defined outcome: guards on `Live` end the
behaviour there. They hide nothing: the state *before* the read already has a holder
of freed memory, which `NoDangling` or one of its parts reports.

Raising pops the frame and fills the error record (`Raise`, `Fault`); `Propagate` is
`RAISE_BT` in each caller; `Catch` is `CALL_CATCH`. `DelConstCache` is what `main`
does after the main frame, before its last collection.

`Ops` separates what keeps the counts from what does not. `UncountedOps` are the
instructions that were found to store without counting, or to give back counts that
are not theirs: `SET_CONST`, `IDX_SET`, `CLASS_SET_INNER`, `LOAD_FUNC`, `CALL` of a
native. The theorems hold for every `Ops` disjoint from them; the run
`NativeConst` shows what one of the offenders breaks, section 6 says what the others do.
`ExactOps` are the instructions that keep every count exact.

### Table of names (`HmVars`, `TableSpec`)

`buckets`, `size`, `nitems` are the fields of `au_hm_vars`; `pc`, `i`, `n`, `key`,
`entry`, `placed`, `old`, `oi` the variables of the loops of `hm_get`, `hm_insert`
and `hm_resize`. A key's bytes and `key_bytes` are one value. `hash` is any function,
fixed in a behaviour, so collisions of every shape occur. `placed` and `ret` carry
`entry_initialized` and the result. The refinement maps the concrete table to the
pairs in the buckets, in the entry under way (once it is the table's), and in the
part of the old table not yet moved; a call takes effect when it returns.

### Modules (`Modules`)

`activations` is the stack of `au_vm_exec_unverified` calls; one that executes an
`IMPORT` of a source file remembers the statement and the slot it reserved, and the
module's top level runs above it. `text` and `exports` are what a file says: fixed,
but chosen when first read, so that one run covers every program of two files with
two import statements each. Program data has an address: the main program's, a
variable of an activation (`Stack(d)`), or the heap (`Heap(p)`), and `PData` says
what an address holds *now*. Where an assertion or `au_fatal` would end the process, a guard
ends the behaviour; `SlotsAgree` says that the one of `add_module` never does.

### Parser (`Registers`, `Compile`)

A record `p` is the allocator: `rstack`, `used_regs`, `pinned_regs` and `local_to_reg`
(`cache`), whether an allocation failed (`full`) and whether the assertion of
`set_reg_unused` has held (`sound`). Each function of `regs.c` is an operator on it.
`CACHED_REG_NONE` is 255 in the code, also the number of the last register; `NoReg`
keeps that coincidence.

`Compile` reads an arbitrary function body: every action is the next construct that the
grammar allows, `todo` is the stack of C calls under way (each item with what its call
remembers in local variables: a register noted earlier, the arguments taken so far) and
`need` is what the innermost one reads next. As the parser emits an instruction, the
machine `m` executes it; as the source is read, `s` evaluates it, with scopes that map
names to values and no registers. Only one path is executed: a jump sets `at` to its
label, and nothing is executed until the parser places that label. Since the condition
may be any literal or variable, the behaviours together follow every path; a loop's jump
back is not followed, because the code forgets everything cached where a loop begins.
Values are digests (0 to 2), which tell an operand from another and true from false.
An operator that binds tighter than the one before it is covered by parentheses, which
lead to the same registers; a call without arguments, a function value or an empty
container takes a register as a literal does.

The cache of locals in registers is unsound in shapes that section 6 lists. So that what
works can be stated and kept working, `Careful` limits the sources to those without these
shapes, by four guards that say exactly what the code would have to ensure: `SafeFlush`
(nothing cached waits as an operand where `&&` and `||` forget the cache), `SafeStore` (a
local whose cached register another local or an operand shares is not stored to),
`SafeCompound` (a compound assignment is a statement of its own, of a cached local),
`SafeElse` (a then part that ends in a return has it at its own level), and by the
limits in `EndBinary` (an expression fits the registers) and `Bind` (it is not the right
operand of anything); `FieldOp` takes the operators of `@f op= e` for commuting ones, since the code
swaps their operands. With `Careful` FALSE nothing is excluded; the run `CompileIf` uses it.

### Table of functions (`FnTable`)

`fns`, `fn_map`, `module_map`, `class_map` are the parser's tables, `cur` the function
whose body is being read (`func_p`), and each action a construct: a struct or import
statement, the head of a function, its end, a `raise`, a call, a `.f`. Bodies are numbers
of definitions. `defs` and `uses` are history: what the source said, in order. The
properties compute from `defs` alone what a name *means* (`InForce`, `Meant`) and compare
it with what an index recorded in `uses` reaches through the table (`Reached`, which is
`au_fn_call_internal`). Struct and import statements come first in a source here; they
only add names that later constructs look for. A module's exports are chosen when it is
linked, among all that the importer can tell apart. `cur.no_fail` is the local
`expected_no_fail`; `FuncEnd` fills the calls of the function itself, as
`self_fill_call` does.

### Dictionaries (`Dict`, `DictSpec`)

Unlike `HmVars`, a call is one step here, since none is interrupted; what is at stake is
the counts. A string key is an object with a count and a content, so two different objects
can be equal; integers have a content only; doubles have a hash and equal nothing, as in
`au_value_eq`. `Probe` is the loop of `hm_insert`, with the count of the key given back
for a duplicate, `Reinsert` an entry's way through `hm_resize`. Registers keep without
counting, and `Free` is the collector. The refinement maps the buckets to the value of
each content.

### Operators (`Operators`)

One instruction (`op`) is executed over and over with any operands and rewrites itself. `form`
is what `bc[0]` was left as, `at` the form whose code runs now. An execution reads its
operands and goes to the code of `form` (`Fetch`); a special form looks at the types again
and goes back to the generic one if it does not take them, the generic one looks for a
special form that does (`Rewrite`), until one gives the result (`Result`). A special form
that reads an operand of another type as its own meets the `abort()` of `au_value_get_int`
or `au_value_get_double` (`Aborted`). Integers have `Width` bits; a double is an exact fraction, with a zero
denominator for the infinities and NaN, so rounding is left out. What C leaves undefined
(`Defined`: remainder by zero, shifts out of range, negating the least integer) is not
executed. A result is packed into a word as the default build does (NaN tagging), with any
bits for a NaN, and what is read back is what counts (`Words`, `Read`); the low part of a
word has `Width + 1` bits in place of 48. `Compiled` is what `c_comp.c` emits a call of: the
same `au_value_*` functions the generic instructions use.

### Compiled programs (`CCode`)

A function that `aument build` writes is a list of C statements, one group per
instruction; the model runs any list of them. `frames` are the C functions that are
running with their registers, local and object, `const` is a static variable of a
constant. There is no collector: a block is born with one reference and the dereference
that takes the last one frees it and its content (`Deref`). `due` says how many
dereferences of each block the running statements still have to do; each is a step, the
one that frees a block adds its content to `due`, and no instruction begins before all
are done. In the code they come in a fixed order; the model takes them in any, since they
only lower counts. Where the code takes or gives
back a reference that it should not, the model counts it in `stolen` or `lost` at that
statement and nowhere else, so that `Balance` says exactly which statements are wrong and
that all the others are right. A native dereferences its arguments and may answer with one of
them; `CallNative` calls one by name, `CallNativeValue` through a function value.

## 3. Runs

| run | question | bounds |
|---|---|---|
| `InterpCounted` | do counting instructions, with calls, errors and collections, keep `NoDangling` and `RcCovers`? | 2 addresses, 1 constant, 2 registers, 1 local, 1 element, 2 frames, counts to 3 |
| `InterpExact` | are counts exact through cascades, and does a collection end? | 3 addresses, 1 frame, the instructions that keep the documented GC invariant |
| `InterpAnyOp` | with *every* instruction: is the list intact, are frame-held strings and structures kept? | 2 addresses, 1 frame, counts to 2 |
| `HmVars` | probe invariants, one copy per key, refinement of `TableSpec`, every call returns | 3 keys, 2 values, hashes 0, 3 and 7, 1 to 8 buckets, load 512/1024 |
| `Modules` | one execution, agreeing slots, live links, disjoint and fixed constants | 2 files, 2 import statements per program, stack of 3 |
| `Compile` | in the careful shapes: are waiting operands, cached locals, fields, scopes and branches right at every point of every function? | 4 registers, 2 parameters, 4 locals, 7 tokens, nesting of 6 |
| `FnTable` | does every index in bytecode reach what its name means, with its arguments and errors, and is only what is wrong rejected? | 2 names, a class of the file, a class of the module, 0 or 1 arguments; definitions, uses and names together 5 |
| `Dict` | are buckets covered and keys counted exactly, and does reading give what was set last? | 2 equal strings, an integer and a double as keys, a counted and a plain value, hashes 0 and 3, 5 entries, counts to 2 |
| `Operators` | does a rewritten instruction compute what the generic one does, does it end, and do comparisons agree? | all integers of 3 bits, six fractions, doubles with infinities and NaN, 4 strings, booleans, nil, a function |
| `CCode` | is every reference of compiled code given back once? | 2 blocks, 2 registers, 2 functions deep, counts to 3 |
| `CompileIf`, `NativeConst` | each shows one finding of section 6 | as above, with the constructs or instructions it takes |

Why these bounds are enough to be interesting. Two addresses make reuse of an
address, an object inside another and inside itself; three (`InterpExact`) make a
chain, so that a free makes an object both *behind* and *ahead* of the cursor
collectable, and a cycle that is never freed. Two frames with an argument and a
result cover hand-over in both directions; a third adds only more of the same roots.
A count reaching its maximum is reached in the runs (the process aborts there, so the
model stops). In `HmVars` the table grows 1 → 2 → 4 → 8. With 1 and 2 buckets it gets
full, since the threshold is rounded down; the code's load of 870/1024 would not leave
a bucket empty before a resize until there are 8 buckets and 7 keys, so the instance
scales `Load` down to see a resize skip empty buckets with 3 keys. The hashes 0, 3 and
7 give collisions that last, collisions that a resize separates, wrap-around at each
size, swaps and re-insertion in another order. In `Modules` two files suffice for circular,
repeated and nested imports, and statement 1 wants a function and a constant,
statement 2 a function and a class, against modules that export any of four sets.

In `Compile`, tokens bound the operands, operators, brackets and keywords of the function.
Seven are enough for each unsound shape that section 6 lists, for a block in a block, a store in both parts of
an `if`, and a local that takes the place of one whose block has ended. Four registers
are used up by three waiting operands and a result, so the run meets the last register,
which doubles as "none".

In `FnTable`, five makes three definitions of a name with a use anywhere among them, or
two definitions and two uses; with two names, three definitions and uses between them. So
a forward slot becomes a function, then a dispatch over it and a method, then over one
more; a third method would only append to the dispatch. A method takes its object, so no
arguments and one are two numbers that can disagree and one that only functions have. In `Dict` the table grows 1 → 2 → 4 → 8: with one and two buckets the rounded
threshold lets it fill up, and the double, which is never found, fills it by itself. In
`Operators` the integers are all that have three bits, so that every operation overflows, and
the doubles include the halves that an integer division gives. In `CCode` two blocks make one that holds the other and itself; a
function of two registers has an operand and a result, and a second function is the caller
or the callee of the first.

Symmetry is used on addresses, paths, names, equal strings, blocks and registers only,
which no action or property tells apart, and not in the runs that check liveness. Deadlock
is not checked where a program may end or abort (`Interp`, `Modules`, `Compile`, `FnTable`,
`CCode`); it is checked in `HmVars`, `Dict` and `Operators`.

Fairness. `InterpExact`: weak fairness of `Sweep` only – a collection is one C call
that runs its loop to the end; nothing is assumed of the program. `HmVars`: weak
fairness of the loop steps, not of the calls: a call that has begun goes on. `Operators`:
weak fairness of `Execute`, the code of one instruction, whose gotos nothing interrupts; not
of `Fetch` and `DISPATCH`, since a program need not come back to the instruction.

Every property has a mutant in `PROJECT.json`: a plausible bug in a modelled
definition under which TLC finds that property violated.

## 4. What is proved

Every theorem holds for every value of the constants that the assumptions allow; each
inductive invariant was first checked by TLC on the instance of the component's run.

### Memory of the interpreter

For any number of objects, registers, locals, frames, constants, elements and any maximum
count. `ConstAssumption` of `VmState` asks that they are finite or positive numbers and
that the slot names are distinct.

- `Typing` (`InterpProofs`): `Spec => []TypeOK`, over any instruction set.
- `NothingDangles` (`InterpProofs`): if `Ops` has none of `UncountedOps`, then
  `Spec => []NoDangling`: no frame, cell, constant or error field names freed memory.
- `CountsCover` (`InterpProofs`): under the same assumption `Spec => []RcCovers`.
- `CountsAreExact` (`InterpProofs`): if `Ops` is within `ExactOps`, then
  `Spec => []RcExact`: nothing is counted that is not held.
- `ListStaysWhole`, `FramesKeepTheirValues` (`InterpProofs`): over any instruction set,
  `Spec => []ListIntegrity` and `Spec => KeepsFrameValues`.

`NoDangling` is not inductive: that an object with count 0 may be freed
is safe only if no counting holder has it (`RcCovers`) and every frame that holds it
has marked it. Marks are taken once, when the collection starts, and the sweep runs
long after: `MarksCover` says that during a collection everything a frame holds is
marked. The mark passes over function values, so the invariant also needs that there
are none (`NoFunctions`, which follows from `LOAD_FUNC` not being in `Ops`). So

    IInv == TypeOK /\ NoDangling /\ RcCovers /\ NoFunctions /\ MarksCover

with one step per action. `RcCovers` compares cardinalities of sets of holders; its
lemmas say how storing into one cell, clearing an object's cells, or filling a frame
changes them, and that `Deref` takes no more off a count than the holders that go.

For exact counts, "one more" must mean that the place was not a holder before:
`ExactInv` adds to `IInv` that cells past an array's end and the error record are empty
where an instruction writes to them, and that a freed object leaves none behind.

With instructions that miscount, `NoDangling` is false, and yet what a frame holds
is safe as long as the mark reaches it. `HeapInv == TypeOK /\ ListIntegrity /\ MarksHold`:
the list names each live object once, so the cursor of a sweep never meets an object twice,
and what frames hold is marked, but for function values, which is what the code does not
do for them.

### The table of names

For any keys, values, hash function, number of buckets and load (`TableAssumption`): the
proof needs `Load` below 1024, so that an insertion leaves a bucket empty; the code has 870.

- `TypeCorrect`, `RobinHoodOrder`, `OneCopyOfAKey` (`HmVarsProofs`): `Spec => []TypeOK`,
  `[]RobinHood`, `[]OneCopy`.
- `Refinement`: `Spec => ImplementsMap`, that is, the table with its loops implements
  `TableSpec`, step by step.

The order of Robin Hood hashing is stated by the code between neighbours. What a search
relies on is global: from the home of any key in the table to its bucket, every
bucket is used by an entry at least as far from its own home (`Ways`). That form needs no
induction along the probe path, so it can be proved, and `RobinHood` follows from it.
`Searches` says what a loop under way has passed, `Distinct` that no two of bucket, old
table and entry in flight have one key. For the refinement, the abstract map is described
by what each key shows (`Shows`), which a swap and a step of a resize leave as they are.

### Modules

For any number of files, import statements and nested calls (`ModulesAssumption`,
`NullAssumption`: names are distinct, statements are numbered from 1 as the parser
numbers them).

- `TypeCorrect`, `FilesLoadOnce`, `MapAndSlotsAgree`, `LinksStayLive`, `ConstantsApart`,
  `ConstantsStay`, `ImportsAreWhole` (`ModulesProofs`): `Spec` has `TypeOK`, `LoadedOnce`,
  `SlotsAgree`, `LinksLive`, `ConstRanges`, `ConstFixed` and `WholeOrError`. The last, that an
  import which goes on has bound all that its statement uses, no run checks.

The invariant `ModulesInv` ties the stack of activations to the tables: an activation that
waits for an import has the running top level above it, or an error on its way down
(`Importing`); a top level runs in one activation only and its slot is reserved and empty
(`Frames`); every path has a slot of its own (`Slots`); ranges of the constant cache are
apart (`Ranges`); the cell that an import will fill is empty until then (`FreeCells`),
without which `ConstFixed` would not follow.

### The table of functions

For any names, classes, numbers of arguments (none included) and bound on the source
(`FnTableAssumption`: numbers of arguments are natural numbers, the two kinds of classes are apart, and `NoClass` is neither a class
nor a name, since `cur.name` uses it for the main program).

- `TypeCorrect`, `ArityIsRight`, `FailuresAreMarked` (`FnTableProofs`):
  `Spec => []TypeOK`, `[]ArityAgrees`, `[]MayFailSound` (which leaves out a function's own
  calls of itself).

Both properties speak of a linked program; what has to be carried there is what the
bytecode that is already written counts on. While a function is being read its slot is
blank, so a slot's promise (`Args`, `Trusted`) is then what its head said and what
`expected_no_fail` demands. `FnInv` says that each recorded use agrees with the promise of
its slot (`Uses`), that a definition, an importer or a dispatch function keeps the promise
of its slot, a dispatch function through every target (`Slots`), and that no two names
share a slot (`Maps`). Every step keeps the promises already made (`Keeps`); most of the
work is the head of a definition, where a function may move behind a dispatch function
that takes its place.

### The parser

For functions of any length and nesting, any names, and any number of registers and locals
(`CompileAssumption`: the parameters are different names and fit the locals, and a method
has one; the literals are values of the model).

- `TypeCorrect`, `DistinctLocals` (`CompileProofs`): `Spec => []TypeOK`, `[]LocalsDistinct`.

Neither is inductive without the shape of `todo`, which the code has in its C stack. The
invariant `CoreInv` says which construct may be inside which (`Nested`), what each one has
noted (`Notes`), what may be read next in it (`Fits`), how many operands wait for all of
them together (`ShapeInv`: the sum of `Held` over `todo`, and one if an operand is just
complete), that the source has as many scopes as `todo` has blocks that open one, and that
the locals of a scope are numbered after those of the scopes around it (`PlaceInv`,
`Placed`). `CloseScope` subtracts the number of names of the scope from `placed`;
that this gives back exactly the places of those names is what `DistinctLocals` rests on.
Sums are cardinalities of sets of units (`Total`), since sums by recursion need induction
over data. There is one lemma per action; most are instances of a few steps (`SameStep`,
`PopStep`, `SwapStep`, `PushStep`, `OpenStep`, `EndStep`, `StatementStep`, `ScopeStep`).

- `ReservedRegisters`, `AssertionKept` (`CompileRegsProofs`): if `Careful`, then
  `Spec => []RegistersReserved` and `Spec => []AssertionHolds`.

These need to know who owns a register. `RegInv`, on top of `CoreInv`, says of the parser
while it has found a register each time: what `RegistersReserved` says; that two operands,
or an operand and an argument, are in one register only if that is the cached register
of a local (`Alloc`), so that giving one back does not free the other: a cached register is
pinned; that an argument which its call will free is in no cached register; that the
register of an array under construction is no local's, and that nothing which waits
outside a right operand of `&&` or `||` is in a register that the end of the operator
will forget (`Apart`); and that the register a construct has noted is still the one of
its operand (`Noted`). `Careful` is used where the code needs it: `SafeFlush` where `&&` and
`||` unpin the cached registers, `SafeStore` where an assignment unpins the register
cached before, `SafeCompound` and the guard of `Bind`. The lemmas `Alloc...` say what each
operation of the allocator does to that, `...Draw` and `...Regs` what each action draws
from it. A step that finds no register leaves `RegInv` behind; that the registers it gave
back before were in use is `Firm`.

- `OperandsStay`, `CacheStaysFaithful`, `FollowsSource` (`CompileValueProofs`): if `Careful`,
  then `Spec => []OperandsKept`, `[]CacheFaithful`, `[]SourceAgrees`.

All three speak of an execution that runs, and a path that skips instructions comes back at
the end of the construct it skips. So the invariant `ValueInv`, on top of `CoreInv` and
`RegInv`, has to say what holds on the paths skipped as well. `Sourced`: the label that an
execution is on its way to belongs to a construct under way, whose position is noted in
`todo`; and whatever was there before it began to skip (operands, arguments and names of
the constructs outside) is still known to the source, except the left operand of `&&` and
`||` once it has been tested (`Tested`) and the value of a compound assignment that is a
statement (`Dropped`), which nobody reads. `Followed`: machine and source are at the same
place, and each value that the source knows is in the register or local it belongs to.
`Backed`: only locals in scope have a cached register, which has the local's value if the
execution runs; a branch forgets all of them (`FlushCached`) where the paths part and where
they meet, and that is what makes the claim hold again where a skipped path lands. The last
load still holds what it loaded (`LoadKept`), which is why `return` may read the local in
its place; and after a `return` at the end of a `then` part nothing runs up to the end of
it (`Silent`), which is why the jump over the `else` part may be left out.

`Careful` is used where `RegInv` uses it, and for the operands of `@f op= e` and `SafeElse`:
without the latter the run `CompileIf` finds the wrong path. There is one lemma per action
(`...Values`); those that only compute a value are instances of `ResultValues`, those that
compute none of `RestsValues`, and those that begin or end a path of `TurnValues`.

### Compiled programs

For any number of blocks and registers, any depth of calls and any bound on the counts
(`CCodeAssumption`: blocks and registers are finite, and `None` is no block).

- `TypesKept`, `CountsBalance`, `FaultsNeedArguments` (`CCodeProofs`): `Spec => []TypeOK`,
  `[]Balance`, `[]FaultNeedsArgument`.

The invariant `CountInv` adds two facts: a function other than the top level was called
into a register of its caller (`Callers`), which is the register a return writes; and a
block that was given back holds nothing (`FreedEmpty`), so that one born at its address
starts empty. `Balance` compares a count with the number of the block's holders, which is
a sum of cardinalities of sets of places, since a sum over frames and registers would need
induction. The lemmas about `Tally` say how such a cardinality changes when one place is
written, and `RegWritten`, `LocalWritten`, `FramePushed`, `FramePopped` and `CellWritten`
what a written register or local, a call, a return and a written content do to the
holders. `Settled` then asks of a step only that it adds as many references as holders,
apart from `stolen` and `lost`. `FaultNeedsArgument` follows from the balance (`Dangling`):
a block with count 0 that something still holds can only come from `stolen`.

### Only model-checked

- Liveness (`CollectionEnds`, `CallsReturn`, `ExecutionEnds`): fairness and `ENABLED` are out of the prover's reach.
- `CallsReach` and `RejectedRightly`: what a name means is a fold over the definitions,
  whose value for every sequence needs induction over data.
- Dictionaries and operators: `Dict` has a RECURSIVE probe loop, and `Operators` takes
  bitwise operators from a module that no theorem may reach.

## 5. Not modelled, and why

- Jumps at run time, and operators as part of the interpreter's memory: in `Interp` a
  program point can be followed by any instruction, so memory safety does not depend on
  them; `Operators` takes an instruction by itself.
- Byte counts and the collection threshold: a collection may start at any time, which
  includes whenever the threshold says so. Rounding of doubles.
- Frames of more than 255 values, whose registers `au_value_calloc` takes from the
  heap and which may therefore collect while the frame is half built.
- `array::insert` and `repeat`, calls of function values in the interpreter, class
  interface counts.
- The argument array of `CALL` (see `vm.c:870` below).
- In the parser: `const`; what `raise`, functions, structures and
  imports do beside the table of functions. The sizes of jumps: `&&` and `||` do not
  check that an offset fits 16 bits (`expr.c:279`), the other constructs do.
- In the C back end: the text, modules that a program imports, errors (it has no case
  for raising and catching) and structures other than their counts.
- The lexer, number conversion (vendored), strings, UTF-8, fast division, formatting of
  errors, system calls: pure computations or input and output.

## 6. Findings

Shown by a run (quoted with their lines in `PROJECT.json`):

1. `NativeConst` – a native dereferences its arguments and `CALL` does so again; a
   constant passed to a native loses the cache's count and is freed (`vm.c:884`).
2. `CompileIf` – the jump over the else part is left out after a return in a nested
   block (`stmt.c:675`).

Seen while modelling, without a run; several were observed with the built program.

*Interpreter.* `CLASS_SET_INNER` stores into a field uncounted (`vm.c:1233`).
`CLASS_NEW_INITIALIZED` first stores the object into its own field numbered `class_id`; when
the class has no such field the store is outside the object (`vm.c:1214`, the size is that of
`au_class.c:51`); the model has the others. Setting an
element of an array or tuple dereferences the new value in place of the replaced one
(`au_array.c:100`). `SET_CONST` stores a counted holder's value uncounted (`vm.c:512`).
`mark` passes over function values, which registers hold at count 0 (`gc.c:129`).
Function values made by a module's top level point to the importer's C stack
(`vm.c:1346`). `IDX_GET` and `CALL` leave a count that nobody gives back under delayed
counting (`vm.c:1070-1089`, `857-858`), which is a leak: `RcCovers` allows it and
`RcExact` leaves those instructions out. A failing callee makes the caller free an
argument array that `alloca` made (`vm.c:870`). A library that exports nothing, imported
twice, is "circular" (`vm.c:1300`). `array::insert` moves bytes where it means elements
(`au_array.c:68`). `au_data_realloc` forgets `heap_size` when the block does not move
(`gc.c:255`).

*Values, dictionaries.* nil is both `==` and `!=` nil, since `au_value_neq` has no case for it
(`main.h:598`), where `docs/tour.md:17` says that comparisons work as one would expect; `1 == 1.0` is false while
`1 <= 1.0` holds; two equal doubles are `==` in the interpreter and not in compiled
programs; so a dictionary never finds a double or a structure. Values leak when a
dictionary is resized, read or destroyed (`au_dict.c:268`). A dictionary literal with
entries aborts the parser (`expr.c:1277-1280`).

*Registers.* `&&` and `||` unpin a cached register that waits as the left operand of an
enclosing operator, as in `x + (x && y)` (`expr.c:243`), which trips the assertion of
`regs.c:63`. After `x = y` both locals are cached in one register, and storing to one
leaves the other's cached register unpinned, or changed by a compound assignment
(`expr.c:167-170`, `197`); a compound assignment to an uncached local leaves an extra
register on the stack and caches it unpinned (`expr.c:199-204`), so that `1 + (x += 2)`
adds the wrong operand; binding leaves the bound value's register on the stack
(`expr.c:705-714`); a binary expression ignores that an operator found no register
(`expr.c:480`). `@f op= e` computes `e op @f`, so that `@f -= 1` is `1 - @f`
(`expr.c:138-139`). Parameters are not counted in `max_locals` (`stmt.c:474`): a function with
parameters and no `let` does not compile as C. `(-a + b)` negates the sum
(`expr.c:909-918`). A constant declared in a function aborts.

*Functions.* `.f` within `f` loads the first function of the program (`expr.c:948`); a
`.g` before `g` is defined fixes its arguments to one. A method that names itself reaches
its own definition and not the dispatch; a definition for no class after a method is
never reached. Without an object as first argument a dispatch is an error although it has
a function for no class; compiled code calls that function (`c_comp.c:1455`).
`fill_class_cache` reads before the class table for a method without a class
(`fn/main.c:44-50`). A redefinition that may fail aborts the parser (`stmt.c:524`). The
names of functions fall out of step with the table when a dispatch is made
(`stmt.c:397-408`). A function's own call of itself before its first `raise` is not
rejected (`expr.c:761`).

*Compiled programs.* Arguments of calls are not counted, while the callee dereferences
them (`c_comp.c:754`): a use after free. A call of a function value dereferences its
arguments once more (`comp_impl.c:91`). Constants are not counted (`c_comp.c:603`). A
module imported by an imported module takes its importer's number, and `_M1_main_init` is
written twice (`c_comp.c:976`). There is no case for raising, for calls that catch, for
new dictionaries and for shifts, and imported constants are not supported; linking does
not compare whether functions may fail. Two headers are missing from the list that a build
copies (`platform/fastdiv.h`, `limits.h`).

## 7. Plan

1. *(done)* `VmState`, `Collector`, `Interp`: the interpreter's memory; its theorems.
2. *(done)* `HmVars` over `TableSpec`; `Modules`.
3. *(done)* `Dict` over `DictSpec`: dictionaries with their counts.
4. *(done)* `Operators`: self-specialising instructions against the generic operators.
5. *(done)* `Registers` and `Compile`: the parser's registers, cached locals, logical
   operators and blocks against an evaluation of the source.
6. *(done)* `FnTable`: functions used before they are defined, methods, modules, MAY_FAIL
   flags. Left: `raise` and `const` in `Compile`.
7. *(done)* `CCode`: counts in compiled programs, on every path. Left: its imports.
8. `Heap`: byte counters, threshold, `realloc`.
9. Proofs. *(done)* the interpreter's memory, `HmVars` with its refinement, `Modules`,
   arity and failures in `FnTable`, types, places of locals, registers and values in
   `Compile`, the counts of `CCode`.

------------------------------- MODULE Compile -------------------------------
(***************************************************************************)
(* The body of one function on its way through the parser (expr.c, stmt.c) *)
(* while three things happen side by side: the parser chooses registers    *)
(* (p), the virtual machine executes the instructions as they are emitted  *)
(* (m), and the source text is evaluated as it is read (s).  The source    *)
(* text is arbitrary: each action is the next construct of the grammar,    *)
(* and todo holds the constructs that are not yet complete.                *)
(*                                                                         *)
(* A branch is followed along the one path the values choose: a jump sets  *)
(* "at" to its target, instructions are skipped until the target is        *)
(* reached, and the parser goes on as it does in any case.                 *)
(***************************************************************************)
EXTENDS Registers

CONSTANTS Names,        \* names of local variables
          Params,       \* the names of the function's parameters, in order
          HasSelf,      \* the first one is the "self" of a method
          Literals,     \* literals of the source
          MaxLocals,    \* local slots of the machine
          MaxDepth,     \* bound on Len(todo)
          MaxTokens,    \* bound on the constructs of a function
          Forms,        \* the constructs a source may use
          Careful       \* TRUE: only in the shapes that Safe... describe

\* Values are digests: enough to tell an operand from another and 0 from the rest.
Val == 0 .. 2

ASSUME CompileAssumption ==
    /\ MaxLocals \in Nat /\ MaxDepth \in Nat \ {0} /\ MaxTokens \in Nat
    /\ Params \in Seq(Names) /\ Len(Params) <= MaxLocals
    /\ \A i, j \in DOMAIN Params : Params[i] = Params[j] => i = j
    /\ HasSelf \in BOOLEAN /\ (HasSelf => Params # <<>>)
    /\ Careful \in BOOLEAN /\ Literals \subseteq Val

Unknown == 3                    \* of a source value nobody may rely on
Mix(a, b) == IF Unknown \in {a, b} THEN Unknown ELSE (2 * a + b + 1) % 3
Not(a) == IF a = Unknown THEN Unknown ELSE IF a = 0 THEN 1 ELSE 0
Truth(a) == IF a = Unknown THEN Unknown ELSE IF a = 0 THEN 0 ELSE 1

\* Where an execution is: running, or on its way to the label of the construct
\* at a position of todo, or past its end.
Run == [pos |-> 0, to |-> "run"]
Stop == [pos |-> 0, to |-> "stop"]
ElseOf(n) == [pos |-> n, to |-> "else"]
EndOf(n) == [pos |-> n, to |-> "end"]

VARIABLES
    p,          \* the parser's registers
    m,          \* the machine: regs, locals, field, at, ret
    s,          \* the source's evaluation: vals (operands), env (scopes), field, at, ret
    vars,       \* scopes, innermost last: name -> local
    placed,     \* local_placement
    max_locals,
    todo,       \* constructs under way, innermost last
    need,       \* what the parser is about to read
    last,       \* the instruction emitted last
    tokens

vars_ == <<p, m, s, vars, placed, max_locals, todo, need, last, tokens>>

-----------------------------------------------------------------------------
Item(k) == [k |-> k, op |-> 0, reg |-> 0, x |-> 0, params |-> <<>>]
Top == todo[Len(todo)]
Below == Front(todo)
Here == Len(todo)

Other == [op |-> "other", reg |-> 0, local |-> 0, depth |-> 0]

Running(e) == e.at = Run
Jump(e, label) == IF Running(e) THEN [e EXCEPT !.at = label] ELSE e
JumpIf(c, e, label) == IF c THEN Jump(e, label) ELSE e
Land(e, label) == IF e.at = label THEN [e EXCEPT !.at = Run] ELSE e

\* The machine writes a register or a local.
Put(e, r, v) == IF Running(e) THEN [e EXCEPT !.regs[r] = v] ELSE e
PutLocal(e, l, v) == IF Running(e) THEN [e EXCEPT !.locals[l] = v] ELSE e

\* The source replaces its last n operands by a value.
Drop(e, n) == [e EXCEPT !.vals = SubSeq(@, 1, Len(@) - n)]
Yield(e, n, v) ==
    [Drop(e, n) EXCEPT !.vals = Append(@, IF Running(e) THEN v ELSE Unknown)]
Operand(e, n) == e.vals[Len(e.vals) - n]        \* n = 0 is the last one

\* Name resolution: the innermost scope that has the name.
Declared(x) == \E i \in DOMAIN vars : x \in DOMAIN vars[i]
ScopeOf(x) == CHOOSE i \in DOMAIN vars :
                 /\ x \in DOMAIN vars[i]
                 /\ \A j \in DOMAIN vars : x \in DOMAIN vars[j] => j <= i
LocalOf(x) == vars[ScopeOf(x)][x]
SetVar(e, x, v) == IF Running(e) THEN [e EXCEPT !.env[ScopeOf(x)][x] = v] ELSE e

\* The register an instruction writes: the one just taken.
Dest(q) == IF q.full THEN 0 ELSE LastReg(q)

\* Instruction of two operands, or of one, at the top of the register stack.
Apply2(q) == NewReg(PopReg(PopReg(q)))
Apply1(q) == NewReg(PopReg(q))
TopReg(q, n) == q.rstack[Len(q.rstack) - n]

-----------------------------------------------------------------------------
(* Expressions.  need = "value": an operand comes next; "more": an operand   *)
(* is complete and an operator may follow; "closed": an operand is complete  *)
(* and has eaten all operators; "done": the expression is complete.          *)

\* The parser reads on unless it has found no register (EXPECT_BYTECODE).  What it
\* does after the end of the path followed is seen on the paths that get there.
Reads(n) == need = n /\ ~p.full /\ m.at # Stop
Spend(n) == tokens + n <= MaxTokens /\ tokens' = tokens + n
SpendBefore(n) == tokens + n < MaxTokens /\ Spend(n)    \* leaves one for an operand
Go(q, e, f) == p' = q /\ m' = e /\ s' = f
SameScope == UNCHANGED <<vars, placed, max_locals>>
Open(item) == todo' = todo \o <<item, Item("expr")>> /\ need' = "value"
Room == Len(todo) + 2 <= MaxDepth

\* A value that takes a new register: a literal, a function, an empty array.
Literal(v) ==
    /\ Reads("value") /\ Spend(1)
    /\ LET q == NewReg(p) IN Go(q, Put(m, Dest(q), v), Yield(s, 0, v))
    /\ need' = "more" /\ last' = Other
    /\ SameScope /\ UNCHANGED todo

\* au_parser_exec_value, identifiers: load the local, or use its cached register.
Identifier(x) ==
    /\ Reads("value") /\ Spend(1) /\ Declared(x)
    /\ LET l == LocalOf(x)
           g == Grown(p, l)
           r == CachedReg(g, l)
           q == NewReg(g)
       IN  IF r = NoReg
           THEN /\ Go([q EXCEPT !.cache[l + 1] = IF q.full THEN @ ELSE LastReg(q),
                                !.pinned = IF q.full THEN @ ELSE @ \union {LastReg(q)}],
                      Put(m, Dest(q), m.locals[l]),
                      Yield(s, 0, s.env[ScopeOf(x)][x]))
                /\ last' = [op |-> "load", reg |-> Dest(q), local |-> l, depth |-> 0]
           ELSE /\ Go([PushReg(g, r) EXCEPT !.pinned = @ \union {r}], m,
                      Yield(s, 0, s.env[ScopeOf(x)][x]))
                /\ UNCHANGED last
    /\ need' = "more"
    /\ SameScope /\ UNCHANGED todo

\* operator_info_generate, for the operator that waits for its right operand.
Generated ==
    IF Top.op = 0 THEN [p |-> p, m |-> m, s |-> s, last |-> last]
    ELSE LET q == Apply2(p)
         IN  [p |-> q,
              m |-> Put(m, Dest(q), Mix(m.regs[TopReg(p, 1)], m.regs[TopReg(p, 0)])),
              s |-> Yield(s, 2, Mix(Operand(s, 1), Operand(s, 0))),
              last |-> Other]

\* An operator first completes the one before it. A tighter one, which would not,
\* keeps the same registers as an expression in parentheses.
Operator ==
    /\ Reads("more") /\ SpendBefore(1) /\ "operator" \in Forms
    /\ LET g == Generated IN Go(g.p, g.m, g.s) /\ last' = g.last
    /\ todo' = Append(Below, [Top EXCEPT !.op = 1])
    /\ need' = "value"
    /\ SameScope

\* The end of au_parser_exec_binary_expr, which ignores what generate returns.
EndBinary ==
    /\ Reads("more") \/ Reads("closed")
    /\ LET g == Generated
       IN  (Careful => ~g.p.full) /\ Go(g.p, g.m, g.s) /\ last' = g.last
    /\ todo' = Below
    /\ need' = "done"
    /\ SameScope /\ UNCHANGED tokens

-----------------------------------------------------------------------------
(* && and ||.  The code emitted for "or" leaves its register unset until the *)
(* end; "and" clears it first.                                               *)

CachedRegs == {p.cache[l] : l \in DOMAIN p.cache} \ {NoReg}
ParamRegs == UNION {{o.reg : o \in Range(todo[i].params)} : i \in DOMAIN todo}
Pending(q) == Range(Front(q.rstack)) \union ParamRegs

\* Forgetting the cached registers also unpins those that wait as operands.
SafeFlush == Pending(Generated.p) \intersect CachedRegs = {}

Logical(kind) ==
    /\ Reads("more") /\ SpendBefore(1) /\ kind \in Forms /\ Len(todo) < MaxDepth /\ ~Generated.p.full
    /\ Careful => SafeFlush
    /\ LET g == Generated
           q == NewReg(FlushCached(g.p))
           e == IF kind = "and" THEN Put(g.m, Dest(q), 0) ELSE g.m
           cond == e.regs[LastReg(g.p)]
           left == Operand(g.s, 0)
           taken(v) == IF kind = "and" THEN v = 0 ELSE v # 0
           at == Len(todo)
       IN  /\ IF q.full THEN Go(q, g.m, g.s)
              ELSE Go(PopReg(SwapTop(q)),
                      JumpIf(taken(cond), e, EndOf(at)),
                      JumpIf(taken(left), Yield(g.s, 1, Unknown), EndOf(at)))
           /\ todo' = Below \o <<[Item(kind) EXCEPT !.reg = Dest(q)], Item("expr")>>
    /\ need' = "value" /\ last' = Other
    /\ SameScope

EndLogical ==
    /\ Reads("done") /\ Top.k \in {"and", "or"}
    /\ LET q == PopReg(FlushCached(p))
           short == IF Top.k = "and" THEN 0 ELSE 1
           at == Len(todo)
           value(e, right) ==           \* of the machine's or the source's operator
               IF e.at = EndOf(at) THEN short
               ELSE Truth(right)
           e == Land(m, EndOf(at))
           f == Land(s, EndOf(at))
       IN  Go(q, Put(e, Top.reg, value(m, m.regs[LastReg(p)])),
              Yield(f, 2, value(s, Operand(s, 0))))
    /\ todo' = Below /\ need' = "done" /\ last' = Other
    /\ SameScope /\ UNCHANGED tokens

-----------------------------------------------------------------------------
(* Parentheses, unary operators and indexing.                                *)

\* "(", "(-", "!" and "~" read a whole expression.
Prefix(kind) ==
    /\ Reads("value") /\ SpendBefore(1) /\ kind \in Forms /\ Room
    /\ Open(Item(kind))
    /\ SameScope /\ UNCHANGED <<p, m, s, last>>

EndPrefix ==
    /\ Reads("done") /\ Top.k \in {"paren", "not"}
    /\ IF Top.k = "paren" THEN UNCHANGED <<p, m, s, last>>
       ELSE LET q == Apply1(p)
            IN  /\ Go(q, Put(m, Dest(q), Not(m.regs[LastReg(p)])),
                      Yield(s, 1, Not(Operand(s, 0))))
                /\ last' = Other
    /\ todo' = Below
    /\ need' = IF Top.k = "paren" THEN "more" ELSE "closed"
    /\ SameScope /\ UNCHANGED tokens

\* au_parser_exec_index_expr notes the collection's register before the index.
Index ==
    /\ Reads("more") /\ SpendBefore(1) /\ "index" \in Forms /\ Room
    /\ Open([Item("index") EXCEPT !.reg = LastReg(p)])
    /\ SameScope /\ UNCHANGED <<p, m, s, last>>

\* Free the two registers below the last one and keep the last.
Collapse(q) ==
    IF q.full THEN q
    ELSE LET n == Len(q.rstack)
             f == SetUnused(SetUnused(q, q.rstack[n - 2]), q.rstack[n - 1])
         IN  [f EXCEPT !.rstack = Append(SubSeq(@, 1, n - 3), LastReg(q))]

IdxGet ==
    /\ Reads("done") /\ Top.k = "index"
    /\ LET q == NewReg(p)
       IN  Go(Collapse(q),
              Put(m, Dest(q), Mix(m.regs[Top.reg], m.regs[LastReg(p)])),
              Yield(s, 2, Mix(Operand(s, 1), Operand(s, 0))))
    /\ todo' = Below /\ need' = "more" /\ last' = Other
    /\ SameScope /\ UNCHANGED tokens

\* "a[i] = e" and "a[i] op= e"; op = 1 for the second.
IdxSet(op) ==
    /\ Reads("done") /\ Top.k = "index" /\ SpendBefore(1)
    /\ todo' = Below \o <<[Item("idxset") EXCEPT !.op = op, !.reg = Top.reg, !.x = LastReg(p)],
                          Item("expr")>>
    /\ need' = "value"
    /\ SameScope /\ UNCHANGED <<p, m, s, last>>

EndIdxSet ==
    /\ Reads("done") /\ Top.k = "idxset"
    /\ IF Top.op = 0
       THEN Go(Collapse(p), m, Yield(s, 3, Operand(s, 0)))
       ELSE LET q == NewReg(p)
                e == Put(m, Dest(q), Mix(m.regs[Top.reg], m.regs[Top.x]))
            IN  Go(IF q.full THEN q ELSE Collapse(PopReg(SwapTop(q))),
                   Put(e, Dest(q), Mix(e.regs[Dest(q)], e.regs[LastReg(p)])),
                   Yield(s, 3, Mix(Mix(Operand(s, 2), Operand(s, 1)), Operand(s, 0))))
    /\ todo' = Below /\ need' = "closed" /\ last' = Other
    /\ SameScope /\ UNCHANGED tokens

\* ".f" without arguments binds the value and leaves its register on the stack.
Bind ==
    /\ Reads("more") /\ Spend(2) /\ "bind" \in Forms
    /\ Careful => Len(s.vals) = 1
    /\ LET q == NewReg(p)
       IN  Go(q, Put(m, Dest(q), Mix(0, m.regs[LastReg(p)])),
              Yield(s, 1, Mix(0, Operand(s, 0))))
    /\ last' = Other
    /\ SameScope /\ UNCHANGED <<todo, need>>

-----------------------------------------------------------------------------
(* Lists of expressions: arguments, array elements, initialisers.            *)

\* The last operand as an argument, with the value that the source gives it.
Param == [reg |-> TopOwned(p).reg, owned |-> TopOwned(p).owned, val |-> Operand(s, 0)]

\* A call of a named function, of a method of the last operand, or of the last
\* operand; "new C { ... }" collects its initialisers in the same way.
Call(kind) ==
    /\ SpendBefore(2) /\ kind \in Forms /\ Room
    /\ \/ kind \in {"call", "new"} /\ Reads("value") /\ Open(Item(kind)) /\ UNCHANGED <<p, s>>
       \/ kind = "fncall" /\ Reads("more") /\ Open(Item(kind)) /\ UNCHANGED <<p, s>>
       \/ /\ kind = "method" /\ Reads("more")
          /\ p' = TakeTop(p) /\ s' = Drop(s, 1)
          /\ Open([Item(kind) EXCEPT !.params = <<Param>>])
    /\ SameScope /\ UNCHANGED <<m, last>>

\* Take an argument; then a comma or the end of the list follows.
Argument ==
    /\ Reads("done") /\ Top.k \in {"call", "method", "fncall", "new"}
    /\ p' = TakeTop(p) /\ s' = Drop(s, 1)
    /\ todo' = Append(Below, [Top EXCEPT !.params = Append(@, Param)])
    /\ need' = "comma"
    /\ SameScope /\ UNCHANGED <<m, last, tokens>>

Comma ==
    /\ Reads("comma") /\ tokens < MaxTokens /\ Len(todo) < MaxDepth
    /\ todo' = Append(todo, Item("expr")) /\ need' = "value"
    /\ SameScope /\ UNCHANGED <<p, m, s, last, tokens>>

\* Of a callee and its arguments, which tells their order.
Weighed(values) ==
    UNION {{i} \X (1 .. values[i] * (1 + (i % 2))) : i \in DOMAIN values}
MixAll(first, values) ==
    IF Unknown \in {first} \union Range(values) THEN Unknown
    ELSE (first + Cardinality(Weighed(values))) % 3
Passed == [i \in DOMAIN Top.params |-> m.regs[Top.params[i].reg]]
Meant == [i \in DOMAIN Top.params |-> Top.params[i].val]

\* The end of au_parser_exec_call, and of the call of a function value.
EndCall ==
    /\ Reads("comma") /\ Top.k \in {"call", "method", "fncall"}
    /\ LET byValue == Top.k = "fncall"
           q == NewReg(IF byValue THEN PopReg(p) ELSE p)
           callee == IF byValue THEN m.regs[LastReg(p)] ELSE 0
           source == IF byValue THEN Operand(s, 0) ELSE 0
       IN  Go(IF q.full THEN q ELSE ReleaseAll(q, Top.params),
              Put(m, Dest(q), MixAll(callee, Passed)),
              Yield(s, IF byValue THEN 1 ELSE 0, MixAll(source, Meant)))
    /\ todo' = Below /\ need' = "more" /\ last' = Other
    /\ SameScope /\ UNCHANGED tokens

\* au_parser_exec_new_expr frees the initialisers twice over.
EndNew ==
    /\ Reads("comma") /\ Top.k = "new"
    /\ LET q == NewReg(p)
       IN  Go(IF q.full THEN q ELSE ReleaseAll(SetAllUnused(q, Top.params), Top.params),
              Put(m, Dest(q), MixAll(0, Passed)),
              Yield(s, 0, MixAll(0, Meant)))
    /\ todo' = Below /\ need' = "more" /\ last' = Other
    /\ SameScope /\ UNCHANGED tokens

\* "[e, ...]" and "#[e, ...]": the array is there first, and is pushed to.
Array ==
    /\ Reads("value") /\ SpendBefore(1) /\ "array" \in Forms /\ Room
    /\ LET q == NewReg(p)
       IN  /\ Go(q, Put(m, Dest(q), 0), Yield(s, 0, 0))
           /\ Open([Item("array") EXCEPT !.reg = Dest(q)])
    /\ last' = Other
    /\ SameScope

Element ==
    /\ Reads("done") /\ Top.k = "array"
    /\ Go(PopReg(p), Put(m, Top.reg, Mix(m.regs[Top.reg], m.regs[LastReg(p)])),
          Yield(s, 2, Mix(Operand(s, 1), Operand(s, 0))))
    /\ need' = "comma" /\ last' = Other
    /\ SameScope /\ UNCHANGED <<todo, tokens>>

EndArray ==
    /\ Reads("comma") /\ Top.k = "array"
    /\ todo' = Below /\ need' = "more"
    /\ SameScope /\ UNCHANGED <<p, m, s, last, tokens>>

-----------------------------------------------------------------------------
(* Assignments.                                                              *)

\* The cached register of a local may be that of another, or an operand's.
SafeStore(l) ==
    LET r == LastReg(p)
        old == CachedReg(p, l)
    IN  l < Len(p.cache) =>
          /\ Sharers(p, r) \subseteq {l + 1} /\ Sharers(p, old) \subseteq {l + 1}
          /\ old = r \/ old \notin Pending(p) \union (p.pinned \intersect {NoReg})

Assign(k, x) ==
    /\ Reads("value") /\ SpendBefore(1) /\ k \in Forms /\ Declared(x) /\ Room
    /\ Open([Item(k) EXCEPT !.x = x])
    /\ SameScope /\ UNCHANGED <<p, m, s, last>>

\* "x = e": the register of e becomes the cached one.
EndAssign ==
    /\ Reads("done") /\ Top.k = "assign"
    /\ LET l == LocalOf(Top.x)
       IN  /\ Careful => SafeStore(l)
           /\ Go(CacheStored(p, l, LastReg(p)),
                 PutLocal(m, l, m.regs[LastReg(p)]),
                 SetVar(s, Top.x, Operand(s, 0)))
    /\ todo' = Below /\ need' = "closed" /\ last' = Other
    /\ SameScope /\ UNCHANGED tokens

\* A compound assignment that is a whole statement, of a local whose register
\* is cached and serves nothing else.
IsStatement ==
    /\ Len(todo) > 2 /\ todo[Len(todo) - 2].k = "effect"
    /\ todo[Len(todo) - 1].op = 0
SafeCompound(l) ==
    /\ IsStatement
    /\ CachedReg(p, l) # NoReg /\ Sharers(p, CachedReg(p, l)) = {l + 1}

\* "x op= e": an uncached local gets a new register, which stays on the stack
\* and becomes its cached register unpinned.
EndCompound ==
    /\ Reads("done") /\ Top.k = "compound"
    /\ LET l == LocalOf(Top.x)
           r == CachedReg(p, l)
           modifier == LastReg(p)
           q == NewReg(Grown(p, l))
           dest == IF r # NoReg THEN r ELSE Dest(q)
           e == Put(m, dest, m.locals[l])
           f == Put(e, dest, Mix(e.regs[dest], e.regs[modifier]))
           v == Mix(s.env[ScopeOf(Top.x)][Top.x], Operand(s, 0))
       IN  /\ Careful => SafeCompound(l)
           /\ Go(IF r # NoReg THEN p
                 ELSE [q EXCEPT !.cache[l + 1] = IF q.full THEN @ ELSE dest],
                 PutLocal(f, l, f.regs[dest]),
                 Yield(SetVar(s, Top.x, v), 1, IF IsStatement THEN Unknown ELSE v))
    /\ todo' = Below /\ need' = "closed" /\ last' = Other
    /\ SameScope /\ UNCHANGED tokens

-----------------------------------------------------------------------------
(* A field of the object a method is called for, "@f".  No register caches   *)
(* it.                                                                       *)

SetField(e, v) == IF Running(e) THEN [e EXCEPT !.field = v] ELSE e

Field ==
    /\ Reads("value") /\ Spend(1) /\ HasSelf /\ "field" \in Forms
    /\ LET q == NewReg(p) IN Go(q, Put(m, Dest(q), m.field), Yield(s, 0, s.field))
    /\ need' = "more" /\ last' = Other
    /\ SameScope /\ UNCHANGED todo

AssignField(k) ==
    /\ Reads("value") /\ SpendBefore(1) /\ HasSelf /\ k \in Forms /\ Room
    /\ Open(Item(k))
    /\ SameScope /\ UNCHANGED <<p, m, s, last>>

EndAssignField ==
    /\ Reads("done") /\ Top.k = "fieldset"
    /\ Go(p, SetField(m, m.regs[LastReg(p)]), SetField(s, Operand(s, 0)))
    /\ todo' = Below /\ need' = "closed" /\ last' = Other
    /\ SameScope /\ UNCHANGED tokens

\* "@f op= e" computes "e op @f": what the source says for "+" and "*" only.
Commuting(a, b) == IF Unknown \in {a, b} THEN Unknown ELSE (a + b + 1) % 3
FieldOp(a, b) == IF Careful THEN Commuting(a, b) ELSE Mix(a, b)

EndCompoundField ==
    /\ Reads("done") /\ Top.k = "fieldop"
    /\ LET q == NewReg(p)
           r == Apply2(q)
           e == Put(m, Dest(q), m.field)
           f == Put(e, Dest(r), FieldOp(e.regs[TopReg(q, 1)], e.regs[TopReg(q, 0)]))
           v == FieldOp(s.field, Operand(s, 0))
       IN  IF q.full THEN Go(q, m, s)
           ELSE Go(r, SetField(f, f.regs[Dest(r)]), Yield(SetField(s, v), 1, v))
    /\ todo' = Below /\ need' = "closed" /\ last' = Other
    /\ SameScope /\ UNCHANGED tokens

-----------------------------------------------------------------------------
(* Statements.                                                               *)

Blocks == {"func", "then", "else", "loop"}

\* A statement is over: flush_free_regs, but not between "else" and "if".
Over(q, f, below) ==
    /\ p' = IF below # <<>> /\ below[Len(below)].k = "elif" THEN q ELSE FlushFree(q)
    /\ s' = [f EXCEPT !.vals = <<>>]
    /\ todo' = below /\ need' = "stmt"

Begin(k) ==
    /\ Reads("stmt") /\ Top.k \in Blocks /\ k \in Forms /\ Room
    /\ IF k = "effect" THEN tokens < MaxTokens /\ UNCHANGED tokens ELSE SpendBefore(1)
    /\ UNCHANGED <<m, s, last>> /\ SameScope

\* An expression as a statement, "print e", "return e", "let x = e".
Statement(k) ==
    /\ Begin(k) /\ Open(Item(k)) /\ UNCHANGED p

Let(x) ==
    /\ Begin("let") /\ placed < MaxLocals
    /\ Open([Item("let") EXCEPT !.x = x]) /\ UNCHANGED p

EndEffect ==
    /\ Reads("done") /\ Top.k = "effect"
    /\ Over(p, s, Below)
    /\ SameScope /\ UNCHANGED <<m, last, tokens>>

PrintValue ==
    /\ Reads("done") /\ Top.k = "print"
    /\ \/ Over(PopReg(p), s, Below) /\ UNCHANGED tokens
       \/ /\ tokens < MaxTokens /\ UNCHANGED tokens                 \* ", e"
          /\ p' = PopReg(p) /\ s' = Drop(s, 1)
          /\ todo' = Append(todo, Item("expr")) /\ need' = "value"
    /\ last' = Other
    /\ SameScope /\ UNCHANGED m

\* The last load is rewritten to RET_LOCAL if it loaded the value returned.
Return ==
    /\ Reads("done") /\ Top.k = "return"
    /\ LET r == LastReg(p)
           loaded == last.op = "load" /\ last.reg = r
           v == IF loaded THEN m.locals[last.local] ELSE m.regs[r]
       IN  /\ m' = Jump([m EXCEPT !.ret = IF Running(m) THEN v ELSE @], Stop)
           /\ Over(PopReg(p), Jump([s EXCEPT !.ret = IF Running(s) THEN Operand(s, 0) ELSE @], Stop),
                   Below)
           /\ last' = [Other EXCEPT !.op = "ret", !.depth = Len(Below)]
    /\ SameScope /\ UNCHANGED tokens

\* A scope with one name more.
With(f, x, v) == [y \in DOMAIN f \union {x} |-> IF y = x THEN v ELSE f[y]]

EndLet ==
    /\ Reads("done") /\ Top.k = "let"
    /\ LET x == Top.x
           n == Len(vars)
           old == x \in DOMAIN vars[n]
           l == IF old THEN vars[n][x] ELSE placed
           v == Operand(s, 0)
           declare(f) == IF old THEN f ELSE [f EXCEPT !.env[n] = With(@, x, Unknown)]
           store(f) == IF Running(f) THEN [f EXCEPT !.env[n][x] = v] ELSE f
       IN  /\ Careful /\ old => SafeStore(l)
           /\ m' = PutLocal(m, l, m.regs[LastReg(p)])
           /\ Over(IF old THEN CacheStored(p, l, LastReg(p)) ELSE p, store(declare(s)), Below)
           /\ vars' = IF old THEN vars ELSE [vars EXCEPT ![n] = With(@, x, placed)]
           /\ placed' = IF old THEN placed ELSE placed + 1
           /\ max_locals' = IF placed' > max_locals THEN placed' ELSE max_locals
    /\ last' = Other /\ UNCHANGED tokens

\* A block opens a scope; closing it gives the places of its locals back.
OpenScope == vars' = Append(vars, <<>>) /\ UNCHANGED <<placed, max_locals>>

(* Mutant of CloseScope: the locals of every scope are given back. *)
CloseScopes ==
    /\ vars' = Front(vars)
    /\ placed' = placed - Cardinality(UNION {DOMAIN vars[i] : i \in DOMAIN vars})
    /\ UNCHANGED max_locals

CloseScope ==
    /\ vars' = Front(vars)
    /\ placed' = placed - Cardinality(DOMAIN vars[Len(vars)])
    /\ UNCHANGED max_locals
InScope(f) == [f EXCEPT !.env = Append(@, <<>>)]
OutOfScope(f) == [f EXCEPT !.env = Front(@)]

Branch(k) ==            \* "if" or "while"
    /\ Begin(k) /\ Open(Item(k))
    /\ p' = FlushCached(p)

\* The condition of "if" or "while" is known: JNIF to the else part or the end.
Body ==
    /\ Reads("done") /\ Top.k \in {"if", "while"}
    /\ LET label == IF Top.k = "if" THEN ElseOf(Here) ELSE EndOf(Here)
       IN  Go(PopReg(FlushCached(p)),
              JumpIf(m.regs[LastReg(p)] = 0, m, label),
              InScope(Drop(JumpIf(Operand(s, 0) = 0, s, label), 1)))
    /\ todo' = Append(Below, Item(IF Top.k = "if" THEN "then" ELSE "loop"))
    /\ need' = "stmt" /\ last' = Other
    /\ OpenScope /\ UNCHANGED tokens

\* The jump over the else part is left out after a return instruction.
Returned == last.op = "ret"
SafeElse == Returned => last.depth = Here

(* Mutant of SkipElse: the then part runs on into the else part. *)
NoSkip(e) == e

SkipElse(e) == IF Returned THEN e ELSE Jump(e, EndOf(Here))
AfterSkip == last' = IF Returned THEN last ELSE Other

EndIf ==
    /\ Reads("stmt") /\ Top.k = "then"
    /\ m' = Land(Land(SkipElse(m), ElseOf(Here)), EndOf(Here))
    /\ Over(FlushCached(p),
            OutOfScope(Land(Land(s, ElseOf(Here)), EndOf(Here))), Below)
    /\ AfterSkip /\ CloseScope /\ UNCHANGED tokens

Else ==
    /\ Reads("stmt") /\ Top.k = "then" /\ "else" \in Forms /\ tokens < MaxTokens
    /\ Careful => SafeElse
    /\ Go(FlushCached(p), Land(SkipElse(m), ElseOf(Here)),
          InScope(OutOfScope(Land(Jump(s, EndOf(Here)), ElseOf(Here)))))
    /\ todo' = Append(Below, Item("else"))
    /\ vars' = Append(Front(vars), <<>>)
    /\ placed' = placed - Cardinality(DOMAIN vars[Len(vars)])
    /\ AfterSkip /\ UNCHANGED <<max_locals, need, tokens>>

ElseIf ==
    /\ Reads("stmt") /\ Top.k = "then" /\ "else" \in Forms /\ Room
    /\ SpendBefore(1)
    /\ Careful => SafeElse
    /\ Go(FlushCached(p), Land(SkipElse(m), ElseOf(Here)),
          OutOfScope(Land(Jump(s, EndOf(Here)), ElseOf(Here))))
    /\ todo' = Below \o <<Item("elif"), Item("if"), Item("expr")>>
    /\ need' = "value"
    /\ AfterSkip /\ CloseScope

\* The jump at the end of the else part goes to the next instruction.
EndElse ==
    /\ Reads("stmt") /\ Top.k \in {"else", "elif"}
    /\ m' = Land(m, EndOf(Here))
    /\ LET f == Land(s, EndOf(Here))
       IN  IF Top.k = "elif"
           THEN Over(FlushCached(p), f, Below) /\ SameScope
           ELSE Over(FlushCached(p), OutOfScope(f), Below) /\ CloseScope
    /\ AfterSkip /\ UNCHANGED tokens

\* A path that takes the jump back is not followed: the loop begins with nothing
\* cached, so that a second turn is like the first with other locals.
EndLoop ==
    /\ Reads("stmt") /\ Top.k = "loop"
    /\ m' = Land(Jump(m, Stop), EndOf(Here))
    /\ Over(FlushCached(p), OutOfScope(Land(Jump(s, Stop), EndOf(Here))), Below)
    /\ last' = Other
    /\ CloseScope /\ UNCHANGED tokens

EndFunction ==
    /\ Reads("stmt") /\ Top.k = "func"
    /\ m' = Jump(m, Stop) /\ s' = Jump(s, Stop)
    /\ need' = "end"
    /\ SameScope /\ UNCHANGED <<p, todo, last, tokens>>

-----------------------------------------------------------------------------
\* A parameter takes a place; only "self" goes through au_parser_bump_local.
Init ==
    LET args == Range(Params)
        place == [x \in args |-> (CHOOSE i \in DOMAIN Params : Params[i] = x) - 1]
        given == [l \in 0 .. MaxLocals - 1 |-> IF l < Len(Params) THEN (l + 1) % 3 ELSE 0]
    IN  /\ p = NoRegsUsed
        /\ m = [regs |-> [r \in Reg |-> 0], locals |-> given, field |-> 0,
                at |-> Run, ret |-> 0]
        /\ s = [vals |-> <<>>, env |-> << [x \in args |-> given[place[x]]] >>,
                field |-> 0, at |-> Run, ret |-> 0]
        /\ vars = <<place>>
        /\ placed = Len(Params) /\ max_locals = IF HasSelf THEN 1 ELSE 0
        /\ todo = <<Item("func")>> /\ need = "stmt" /\ last = Other
        /\ tokens = 0

Value ==
    \/ \E v \in Literals : Literal(v)
    \/ \E x \in Names : Identifier(x)
    \/ \E k \in {"paren", "not"} : Prefix(k)
    \/ \E k \in {"assign", "compound"}, x \in Names : Assign(k, x)
    \/ Field \/ Array
    \/ \E k \in {"fieldset", "fieldop"} : AssignField(k)

Operators ==
    \/ Operator \/ EndBinary
    \/ \E k \in {"and", "or"} : Logical(k)
    \/ EndLogical \/ EndPrefix
    \/ Index \/ IdxGet \/ EndIdxSet \/ Bind
    \/ \E op \in 0 .. 1 : IdxSet(op)

Lists ==
    \/ \E k \in {"call", "method", "fncall", "new"} : Call(k)
    \/ Argument \/ Comma \/ EndCall \/ EndNew \/ Element \/ EndArray

Statements ==
    \/ \E k \in {"effect", "print", "return"} : Statement(k)
    \/ \E x \in Names : Let(x)
    \/ EndEffect \/ PrintValue \/ Return \/ EndLet \/ EndAssign \/ EndCompound
    \/ EndAssignField \/ EndCompoundField

BlocksOf ==
    \/ \E k \in {"if", "while"} : Branch(k)
    \/ Body \/ EndIf \/ Else \/ ElseIf \/ EndElse \/ EndLoop \/ EndFunction

Next == Value \/ Operators \/ Lists \/ Statements \/ BlocksOf

Spec == Init /\ [][Next]_vars_

-----------------------------------------------------------------------------
TypeOK ==
    /\ p \in RegState
    /\ m.regs \in [Reg -> Val] /\ m.locals \in [0 .. MaxLocals - 1 -> Val]
    /\ m.field \in Val /\ m.ret \in Val /\ s.ret \in Val \union {Unknown}
    /\ s.vals \in Seq(Val \union {Unknown})
    /\ \A i \in DOMAIN vars :
         /\ DOMAIN vars[i] \subseteq Names /\ DOMAIN vars[i] = DOMAIN s.env[i]
         /\ \A x \in DOMAIN vars[i] : vars[i][x] \in 0 .. MaxLocals - 1
    /\ placed \in 0 .. MaxLocals /\ max_locals \in 0 .. MaxLocals
    /\ Len(todo) \in 1 .. MaxDepth /\ tokens \in 0 .. MaxTokens

Following == Running(m) /\ Running(s) /\ ~p.full
Operands == {p.rstack[i] : i \in {j \in DOMAIN p.rstack : j > Len(p.rstack) - Len(s.vals)}}
Agrees(r, v) == v = Unknown \/ m.regs[r] = v

\* Every operand that waits to be used, on the register stack or in an argument
\* list, is in its register what the source says it is: no register is taken for
\* something else, or changed by an assignment, while an operand is in it.
OperandsKept ==
    Following =>
        /\ Len(p.rstack) >= Len(s.vals)
        /\ \A n \in 0 .. Len(s.vals) - 1 : Agrees(TopReg(p, n), Operand(s, n))
        /\ \A i \in DOMAIN todo : \A o \in Range(todo[i].params) : Agrees(o.reg, o.val)

\* The register that a variable's next reading will use, instead of a load, has
\* the variable's value, whatever statements and branches came in between.
CacheFaithful ==
    Following =>
        \A i \in DOMAIN vars : \A x \in DOMAIN vars[i] :
            LET r == CachedReg(p, vars[i][x])
            IN  r # NoReg => m.regs[r] = m.locals[vars[i][x]]

\* Variables, the field, the value returned and the path taken are the source's.
SourceAgrees ==
    /\ ~p.full => m.at = s.at /\ m.ret = s.ret
    /\ Following => m.field = s.field
    /\ Following => \A i \in DOMAIN vars : \A x \in DOMAIN vars[i] :
                        m.locals[vars[i][x]] = s.env[i][x]

\* A register that holds an operand, an argument or a cached local is not free,
\* and at the end of a statement the cached ones stay so: they are pinned.
RegistersReserved ==
    ~p.full =>
        /\ Operands \union ParamRegs \union p.pinned \subseteq p.used
        /\ CachedRegs \subseteq p.pinned

\* No two variables that are in scope share a local, shadowed ones included.
LocalsDistinct ==
    \A i, j \in DOMAIN vars : \A x \in DOMAIN vars[i], y \in DOMAIN vars[j] :
        vars[i][x] = vars[j][y] => i = j /\ x = y

\* regs.c:63 asserts that a register given back was in use.
AssertionHolds == p.sound

\* The then part ends with a jump over the else part (stmt.c:755): only one runs.
PathAgrees == m.at = s.at
=============================================================================

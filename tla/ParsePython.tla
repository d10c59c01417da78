---------------------------- MODULE ParsePython ----------------------------
(***************************************************************************)
(* Which calls of a Python file become CALLS edges: parse_file of          *)
(* parse_python.py, which resolves bare callees by name, and               *)
(* _shadowed_parameter_calls, which finds the calls that a CodeGraph       *)
(* snapshot may have bound to an import although the callee is a           *)
(* parameter.  Both are compared with Python's own scoping (of 3.12 and    *)
(* later, which the project requires).                                     *)
(*                                                                         *)
(* A file is a sequence of the syntax nodes that matter to names, in the   *)
(* order in which _shadowed_parameter_calls visits them, parents before    *)
(* children.  Node i is [kind, name, up, line, place], up being its parent *)
(* or 0 for the module:                                                    *)
(*   def, class, lambda    open a scope; def and class bind name           *)
(*   genexpr               a generator expression, a scope                 *)
(*   listcomp              a list, set or dict comprehension, a scope that *)
(*                         Python compiles into the one around it          *)
(*   block                 if, for, with, try: opens none                  *)
(*   param                 a parameter of the def or lambda up             *)
(*   assign                the first target of an assignment               *)
(*   target                every other target: of a for or with, the       *)
(*                         second of a = b = ..., or of a comprehension,   *)
(*                         after the calls in the iterable it stands for   *)
(*   import                from ... import name                            *)
(*   call                  name()                                          *)
(*   header                name() in a default, annotation or base of the  *)
(*                         def, class or lambda up                         *)
(* What else stands in a default, or in the first iterable of a            *)
(* comprehension, is a node of the scope around.  line is the line a scope *)
(* begins in, place orders the scopes of a line as symtable enters them.   *)
(* Symtable takes defaults before keyword-only defaults and before the     *)
(* annotations of parameters, the annotation of a variable before its      *)
(* value, and the value of a dict comprehension before its key.  The visit *)
(* does the opposite; otherwise both agree.                                *)
(*                                                                         *)
(* global and nonlocal, names that a class makes private, calls and reads  *)
(* in the target of a comprehension, type parameters, postponed            *)
(* annotations and definitions named like a comprehension are left out.    *)
(***************************************************************************)
EXTENDS Naturals, Sequences, FiniteSets, FiniteSetsExt

Kinds == {"def", "class", "lambda", "genexpr", "listcomp", "block", "param", "assign", "target",
          "import", "call", "header"}

Scopes         == {"def", "class", "lambda", "genexpr", "listcomp"}
Functions      == {"def", "lambda", "genexpr", "listcomp"}
Comprehensions == {"genexpr", "listcomp"}
Tabled         == Scopes \ {"listcomp"}
Binders        == {"def", "class", "param", "assign", "target", "import"}

\* Python has statements in the module and in the bodies of blocks, defs and
\* classes; parameters in defs and lambdas; headers where there is something to head.
Statements == {"def", "class", "block", "assign", "import"}
Parents(kind) ==
  CASE kind = "param"      -> {"def", "lambda"}
    [] kind = "header"     -> {"def", "class", "lambda"}
    [] kind \in Statements -> {"module", "def", "class", "block"}
    [] OTHER               -> {"module"} \cup Kinds

WellFormed(t) ==
  /\ Len(t) \in Nat /\ DOMAIN t = 1..Len(t)
  /\ \A i \in DOMAIN t :
       /\ t[i].kind \in Kinds /\ t[i].up \in 0..(i - 1) /\ t[i].place \in Nat
       /\ (IF t[i].up = 0 THEN "module" ELSE t[t[i].up].kind) \in Parents(t[i].kind)

\* Nodes of a kind.
Of(t, K) == {i \in DOMAIN t : t[i].kind \in K}

AllCalls(t) == Of(t, {"call", "header"})

\* The node that i is evaluated in: a header is outside of what it heads.
Outer(t, i) == IF t[i].kind = "header" THEN t[t[i].up].up ELSE t[i].up

\* The nodes around i, the module excluded, that have a kind of K.
Around(t, i, K) ==
  LET around[j \in 0..Len(t)] == IF j = 0 THEN {} ELSE around[t[j].up] \cup {j}
  IN around[Outer(t, i)] \cap Of(t, K)

\* The innermost of them, or the module.
Inner(t, i, K) == Max(Around(t, i, K) \cup {0})

-----------------------------------------------------------------------------
(* Python.                                                                 *)

\* Parameters belong to their function; anything else to the innermost scope.
Bound(t, scope, name) ==
  \E i \in Of(t, Binders) : t[i].name = name /\ Inner(t, i, Scopes) = scope

Parameter(t, scope, name) ==
  \E i \in Of(t, {"param"}) : t[i].name = name /\ t[i].up = scope

\* A class body is seen by the code directly in it and by no function inside.
Sees(t, i, scope) ==
  \/ scope = 0
  \/ scope \in Around(t, i, Functions)
  \/ scope \in Around(t, i, {"class"}) /\ scope = Inner(t, i, Scopes)

\* The scopes whose binding of the callee is meant: one, or none for a builtin.
Resolves(t, i) ==
  LET found == {s \in 0..Len(t) : Sees(t, i, s) /\ Bound(t, s, t[i].name)}
  IN IF found = {} THEN {} ELSE {Max(found)}

-----------------------------------------------------------------------------
(* parse_file.                                                             *)

\* walk_defs: the definitions whose scope is the module.
module_defs(t) == {t[i].name : i \in {j \in Of(t, {"def", "class"}) : Around(t, j, {"def", "class"}) = {}}}

\* collect_imports, wherever the import stands.
imported(t) == {t[i].name : i \in Of(t, {"import"})}

param_names(t, d) == {t[i].name : i \in {j \in Of(t, {"param"}) : t[j].up = d}}

\* The scan stops at nested definitions, whose names it takes, and at
\* assignments, of which it takes the left side.
body_local_names(t, d) ==
  {t[i].name : i \in {j \in Of(t, {"def", "class", "assign"}) : Inner(t, j, {"def", "class"}) = d}}

\* Mutant of local_names: parameters are forgotten.
local_names_body(t, i) == UNION {body_local_names(t, d) : d \in Around(t, i, {"def"})}

\* walk_calls: the names local to the functions around a call.
local_names(t, i) ==
  UNION {param_names(t, d) \cup body_local_names(t, d) : d \in Around(t, i, {"def"})}

\* What a callee is resolved to; a local definition is preferred to an import.
Target(t, i) ==
  IF t[i].name \in local_names(t, i) THEN "none"
  ELSE IF t[i].name \in module_defs(t) THEN "def"
  ELSE IF t[i].name \in imported(t) THEN "import"
  ELSE "none"

\* Only the bodies of definitions are walked, but the whole of a lambda.
Walked(t, i) == t[i].kind = "header" => t[t[i].up].kind = "lambda"

NativeCalls(t) == {i \in AllCalls(t) : Walked(t, i) /\ Target(t, i) # "none"}

-----------------------------------------------------------------------------
(* symtable.                                                               *)

\* A comprehension that is compiled into the scope around leaves its names in
\* the table of that scope, unless the scope has a symbol of the name itself.
\* What the name is then is decided by the first comprehension that has it.
HasSymbol(t, scope, name) ==
  \E i \in Of(t, Binders) \cup AllCalls(t) : t[i].name = name /\ Inner(t, i, Scopes) = scope

Merged(t, scope, name) ==
  LET inlined == {c \in Of(t, {"listcomp"}) : Inner(t, c, Tabled) = scope /\ HasSymbol(t, c, name)}
  IN ~HasSymbol(t, scope, name) /\ inlined # {} /\ Bound(t, Min(inlined), name)

\* The tables know a name that is bound in a function further out as free.
IsFree(t, scope, name) ==
  /\ ~Bound(t, scope, name) /\ ~Merged(t, scope, name)
  /\ \E s \in Around(t, scope, Functions) : Bound(t, s, name)

-----------------------------------------------------------------------------
(* _shadowed_parameter_calls.                                              *)

\* What get_name and get_lineno do not tell apart.  (All lambdas have one name.)
Alike(t, i) == {c \in Of(t, {t[i].kind}) : t[c].name = t[i].name /\ t[c].line = t[i].line}

First(t, found) == CHOOSE c \in found : \A d \in found : t[c].place <= t[d].place

\* The node whose table a scope is given, or 0 if there is none: among the
\* children of the table on top of the stack, the first of its name and line,
\* which no scope visited before has been given; generator expressions share.
Table(t) ==
  LET table[i \in 0..Len(t)] ==
        IF i = 0 \/ t[i].kind \notin Tabled THEN 0
        ELSE LET top   == table[Max({s \in Around(t, i, Tabled) : table[s] # 0} \cup {0})]
                 used  == {table[j] : j \in {c \in Alike(t, i) : c < i}}
                 found == {c \in Alike(t, i) : /\ Inner(t, c, Tabled) = top
                                               /\ t[i].kind = "genexpr" \/ c \notin used}
             IN IF found = {} THEN 0 ELSE First(t, found)
  IN table

\* A generator expression can do without a table, the others cannot: ValueError.
Unmatched(t) == \E i \in Of(t, Tabled \ {"genexpr"}) : Table(t)[i] = 0

\* The targets that a comprehension has collected by the time the call is visited.
Masked(t, i, scope) ==
  /\ t[scope].kind \in Comprehensions
  /\ \E j \in Of(t, {"target"}) : t[j].name = t[i].name /\ t[j].up = scope /\ j < i

\* function_scope is set by the time a class is reached.
Skipped(t, i, scope) ==
  t[scope].kind = "class" /\ \E s \in Around(t, i, Functions) : s > scope

\* The search for the callee ends at a scope around the call: at a mask, or at a
\* table that has the name and does not have it from further out.  (If nobody
\* binds it further out, there is nothing to find there.)
Ends(t, i, scope) ==
  \/ Masked(t, i, scope)
  \/ /\ Table(t)[scope] # 0 /\ ~Skipped(t, i, scope)
     /\ ~IsFree(t, Table(t)[scope], t[i].name)

\* Mutant of Shadowed: captured parameters are not looked for.
ShadowedDirectly(t) ==
  {i \in AllCalls(t) : Parameter(t, Inner(t, i, Scopes), t[i].name)}

\* The calls found to be bound to a parameter.
Shadowed(t) ==
  {i \in AllCalls(t) :
     \E s \in Around(t, i, Scopes) :
       /\ Parameter(t, Table(t)[s], t[i].name)
       /\ \A inner \in Around(t, i, Scopes) : inner > s => ~Ends(t, i, inner)}

=============================================================================

--------------------------- MODULE MCExtraction ---------------------------
(* Small instances of Extraction for TLC.                                    *)
EXTENDS Extraction, TLC

CONSTANTS launcher, helper, Middle

\* Without line and place, which Laid adds: a line for each node, or one for some.
Node(kind, name, up) == [kind |-> kind, name |-> name, up |-> up]

Laid(t, line, place) ==
  [i \in DOMAIN t |-> [kind |-> t[i].kind, name |-> t[i].name, up |-> t[i].up,
                       line |-> line[i], place |-> place[i]]]

Apart(t) == Laid(t, [i \in DOMAIN t |-> i], [i \in DOMAIN t |-> i])

Bodies == {"module", "def", "class", "block"}

\* Parameters differ, and targets of a comprehension stand in it.
Fits(t, n) ==
  LET up == IF n.up = 0 THEN "module" ELSE t[n.up].kind IN
  /\ up \in Parents(n.kind)
  /\ n.kind = "param"  => \A i \in DOMAIN t : t[i] # n
  /\ n.kind = "target" => up \in Bodies \cup Comprehensions
  /\ n.kind \in {"lambda", "genexpr", "listcomp", "call"} => up \in Bodies \cup {"lambda"} \cup Comprehensions

\* Depth first: the next node hangs on the last or on one around it.  The order
\* of siblings makes no difference, so that the call can come last.
Open(t) ==
  LET path[j \in 0..Len(t)] == IF j = 0 THEN {0} ELSE path[t[j].up] \cup {j} IN path[Len(t)]

\* What may bind f, or stand around a call of it.
Pieces(t) ==
  {n \in {Node(k, x, up) : k \in Kinds \ {"call", "header"}, x \in {"f", "g"}, up \in Open(t)} :
     (n.name = "f" \/ n.kind \in {"def", "class"}) /\ Fits(t, n)}

\* A module that defines or imports f, or not, and up to Middle further nodes.
Small ==
  LET of[k \in 0..Middle] ==
        IF k = 0 THEN {<<Node("def", "f", 0)>>, <<Node("import", "f", 0)>>, <<Node("def", "g", 0)>>}
        ELSE UNION {{Append(t, n) : n \in Pieces(t)} : t \in of[k - 1]}
  IN UNION {of[k] : k \in 0..Middle}

\* In a module that defines f: three scopes within each other, each of which
\* binds f or not.
Layers == {<<scope, binder>> \in Scopes \X (Binders \cup {"none"}) : binder \notin {"def", "class"}}

Layer(t, l) ==
  LET inner == Max(Of(t, Scopes \ {"def"}) \cup {i \in Of(t, {"def"}) : t[i].name = "g"} \cup {0})
      scope == Append(t, Node(l[1], "g", inner))
  IN IF l[2] = "none" THEN scope ELSE Append(scope, Node(l[2], "f", Len(scope)))

Nested ==
  {t \in {Layer(Layer(Layer(<<Node("def", "f", 0)>>, l[1]), l[2]), l[3]) : l \in [1..3 -> Layers]} :
     \A i \in DOMAIN t : Fits(SubSeq(t, 1, i - 1), t[i])}

\* In a function with a parameter f, up to three nodes: comprehensions, lambdas,
\* functions and classes in and beside each other, calls before and after targets.
InFunction ==
  LET of[k \in 0..3] ==
        IF k = 0 THEN {<<Node("def", "f", 0), Node("def", "g", 0), Node("param", "f", 2)>>}
        ELSE UNION {{Append(t, n) :
                       n \in {m \in {Node(k1, IF k1 \in {"target", "call"} THEN "f" ELSE "g", up) :
                                       k1 \in {"def", "class", "lambda", "genexpr", "listcomp", "target", "call"},
                                       up \in Open(t) \ {0}} :
                                Fits(t, m) /\ (m.kind = "target" => t[m.up].kind \in Comprehensions)}} :
                      t \in of[k - 1]}
  IN {t \in of[3] : t[6].kind \in {"call", "target"}}

\* Two lambdas or generator expressions of one line, which bind f or not, with a
\* call of f in each, in a function that binds f or not; the second call may be in
\* a lambda of its own.  Symtable may enter them in the other order.
OnOneLine ==
  LET Scope(t, kind, up, binds) ==
        LET scope == Append(t, Node(kind, "", up))
        IN IF binds THEN Append(scope, Node(IF kind = "lambda" THEN "param" ELSE "target", "f", Len(scope)))
                    ELSE scope
      Call(t, inner) ==
        LET scope == Max(Of(t, {"lambda", "genexpr"}))
            deep  == IF inner THEN Append(t, Node("lambda", "", scope)) ELSE t
        IN Append(deep, Node("call", "f", IF inner THEN Len(deep) ELSE scope))
      Files == {Call(Scope(Call(Scope(
                  <<Node("import", "f", 0), Node("def", "g", 0), Node(own, "f", 2)>>,
                  kind, 2, first), FALSE), other, 2, second), inner) :
                own \in {"param", "block"}, kind, other \in {"lambda", "genexpr"},
                first, second, inner \in BOOLEAN}
  IN {Laid(t, [i \in DOMAIN t |-> IF t[i].kind \in {"lambda", "genexpr"} THEN 1 ELSE i + 1],
           [i \in DOMAIN t |-> IF swapped THEN 10 - i ELSE i]) : t \in Files, swapped \in BOOLEAN}

\* In a function with a parameter f: a scope with a list comprehension over f in
\* it, and a call of f in a scope beside the comprehension.
Beside ==
  LET Files == {<<Node("def", "f", 0), Node("def", "g", 0), Node("param", "f", 2), Node(outer, "g", 2),
                  Node("listcomp", "g", 4), Node(first, "f", 5), Node("target", "f", 5),
                  Node(inner, "h", 4), Node("call", "f", 8)>> :
                  outer, inner \in Scopes, first \in {"call", "target"}}
  IN {t \in Files : \A i \in DOMAIN t : Fits(SubSeq(t, 1, i - 1), t[i])}

MCNativeFiles ==
  {Apart(t) : t \in
     UNION {{Append(t, c) : c \in {n \in {Node(k, "f", up) : k \in {"call", "header"}, up \in Open(t)} : Fits(t, n)}} :
              t \in Small}
       \cup {Append(t, Node("call", "f", Max(Of(t, Scopes)))) : t \in Nested}
       \cup InFunction \cup Beside}
    \cup OnOneLine

\* Two definitions of f, one in g, three calls, one of them to a parameter that
\* g captures; and a file without definitions.
MCCodegraphFiles ==
  {Apart(t) : t \in
     {<<Node("def", "f", 0), Node("def", "g", 0), Node("param", "f", 2), Node("call", "f", 2),
        Node("lambda", "", 2), Node("call", "f", 5), Node("def", "f", 0), Node("call", "f", 7)>>,
      <<Node("def", "f", 0), Node("def", "g", 0), Node("def", "f", 2), Node("call", "f", 2),
        Node("call", "f", 2)>>,
      <<Node("call", "f", 0)>>}}

\* A parameter called in a class inside a class that has an attribute of its name.
MCBehindClass ==
  {Apart(<<Node("def", "f", 0), Node("def", "g", 0), Node("param", "f", 2), Node("class", "A", 2),
           Node("assign", "f", 4), Node("class", "B", 4), Node("call", "f", 6)>>)}

\* def g(f): return sum(f for f in a) + sum(f(x) for x in b)
MCSharedLine ==
  {Laid(<<Node("def", "f", 0), Node("def", "g", 0), Node("param", "f", 2), Node("genexpr", "", 2),
          Node("target", "f", 4), Node("genexpr", "", 2), Node("call", "f", 6)>>,
        <<1, 2, 2, 3, 3, 3, 3>>, <<1, 2, 3, 4, 5, 6, 7>>)}

\* from m import f; x: (lambda: 1) = lambda f: f()
MCOtherOrder ==
  {Laid(<<Node("def", "f", 0), Node("lambda", "", 0), Node("param", "f", 2), Node("call", "f", 2),
          Node("lambda", "", 0)>>, <<1, 2, 2, 2, 2>>, <<1, 3, 4, 5, 2>>)}
=============================================================================

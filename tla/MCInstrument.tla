---------------------------- MODULE MCInstrument ----------------------------
EXTENDS Instrument, CoreModules

MCSignal(i) == <<[t \in 0 .. 2 |-> <<1, 2, 4>>[t + 1]], [t \in 0 .. 2 |-> <<3, 0, 2>>[t + 1]]>>[i + 1]

(* The syntax trees are put together by these. *)
I(x) == [dir |-> "in", name |-> x, const |-> FALSE]
O(x) == [dir |-> "out", name |-> x, const |-> FALSE]
R(v) == <<"real", v>>
B(b) == <<"bool", b>>
a == <<"read", "a">>
b == <<"read", "b">>
v == <<"read", "v">>
r == <<"read", "r">>
q == <<"read", "q">>
e == <<"read", "e">>
Call(m, args) == <<"call", m, args>>
Do(items) == <<"scope", items>>
Set(x, value) == <<"assign", x, <<>>, value>>
SetAt(x, i, value) == <<"assign", x, i, value>>
Let(x, value) == <<"declare", x, FALSE, value>>
LetConst(x, value) == <<"declare", x, TRUE, value>>
For(x, array, items) == <<"for", x, FALSE, array, Do(items)>>
If(c, then) == <<"if", c, Do(then), <<>>>>
IfElse(c, then, else) == <<"if", c, Do(then), Do(else)>>
Break == <<"break">>
Continuing == <<"continue">>
Return(value) == <<"return", value>>
Eval(call) == <<"expression", call>>
Arr(elements) == <<"array", elements>>
Add(x, y) == Call("addition", <<x, y>>)
Sub(x, y) == Call("subtraction", <<x, y>>)
Mul(x, y) == Call("multiplication", <<x, y>>)
Neg(x) == Call("negation", <<x>>)
Not(x) == Call("not", <<x>>)
At(x, i) == Call("subscript$real", <<x, i>>)
Later(x, n) == Call("add_latency$real", <<x, R(n)>>)
Delayed(n, x) == Call("delay_samples$real", <<R(n), x>>)
LatencyOf(x) == Call("get_latency$real", <<x>>)
CountTo(n) == Call("range$stop", <<n>>)

Def(params, void, items) == [params |-> params, void |-> void, body |-> Do(items)]
Entry(params, modules, items) == [params |-> params, modules |-> modules, body |-> Do(items)]
One(items) == Entry(<<I("a"), O("x")>>, <<>>, items \o <<Return(B(TRUE))>>)
Two(items) == Entry(<<I("a"), I("b"), O("x")>>, <<>>, items \o <<Return(B(TRUE))>>)

(* Every way to combine some operands twice: the rules of arithmetic. *)
Operands == {a, b, R(0), R(1), Neg(a)}
Arithmetic == {Two(<<Set("x", Call(m, <<x, y>>))>>) :
                 m \in {"addition", "subtraction", "multiplication"}, x \in Operands, y \in Operands}

(* One combination within another, where rules enable rules. *)
Nested == {Two(<<Set("x", Call(m, <<b, Call(n, <<y, z>>)>>))>>) :
             m \in {"addition", "subtraction"}, n \in {"subtraction", "multiplication"},
             y \in {a, R(0)}, z \in {b, R(0), R(1)}}

(* Comparisons, logic and selection. *)
Greater == Call("greater", <<a, b>>)
Conditions == {B(TRUE), Greater, Not(Greater), Not(Not(Greater)), Not(Call("less", <<a, R(2)>>)),
               Call("and", <<B(TRUE), Greater>>), Call("and", <<Greater, B(FALSE)>>),
               Call("or", <<B(FALSE), Call("equal$real", <<R(2), a>>)>>), Call("or", <<Greater, B(TRUE)>>)}
Selections == {Entry(<<I("a"), I("b"), O("x")>>, <<>>,
                     <<Set("x", Call("select$real", <<c, x, R(1)>>)),
                       Return(Call("select$bool", <<c, Greater, Not(Greater)>>))>>) :
                 c \in Conditions, x \in {a, R(0)}}

(* Delays of delays, and values that are late by construction. *)
Delays == {Two(<<Set("x", Add(Delayed(i, a), Delayed(j, Delayed(k, y))))>>) :
             i \in 0 .. 1, j \in 0 .. 2, k \in 0 .. 1, y \in {a, b, R(0)}}
  \cup {One(<<Let("v", Delayed(1, a)), Let("q", Delayed(1, v)), Set("x", Delayed(i, q))>>) : i \in 0 .. 1}
  \cup {Two(<<Let("v", Add(Add(b, b), a)), Let("q", Add(Neg(v), Mul(v, R(2)))),
              Set("x", Add(Delayed(1, Delayed(2, a)), b))>>)}
Latencies == {
    Two(<<Let("v", Later(a, i)), Set("x", Add(v, Later(b, j))),
          Let("r", Arr(<<v>>)), SetAt("r", R(0), Later(b, j)), Let("q", Arr(<<v, a>>)),
          Set("x", Add(<<"read", "x">>, Add(At(r, R(0)), Mul(At(q, R(1)), LatencyOf(v)))))>>) :
      i \in 0 .. 2, j \in 0 .. 2}
  \cup {Entry(<<I("a"), O("x"), O("y")>>, <<>>,
              <<Set("x", a), Set("y", Later(a, 1)),
                Return(Call("add_latency$bool", <<Call("greater", <<a, R(1)>>), R(2)>>))>>)}

(* Arrays: built, ranged over, combined and changed in place. *)
Walk(skip, stop) ==
    Def(<<I("a"), I("b"), O("v")>>, TRUE,
           <<Let("r", Arr(<<a, R(2), b>>)), Set("v", R(0)),
             For("e", r, <<If(B(skip), <<Continuing>>), Set("v", Add(v, e)), If(B(stop), <<Break>>),
                           IfElse(B(stop), <<>>, <<Set("v", Neg(v))>>)>>)>>)
Arrays == {
    Entry(<<I("a"), I("b"), O("x")>>, "walk" :> Walk(skip, stop),
          <<Let("r", Arr(<<a, R(2), b>>)), Do(<<Let("q", R(0)), Eval(Call("walk", <<a, b, "q">>)),
            SetAt("r", R(0), q)>>), Set("x", Add(At(r, R(0)), a)), Return(B(TRUE))>>) :
      skip \in BOOLEAN, stop \in BOOLEAN}
  \cup {Two(<<Let("v", a), LetConst("n", R(n)), For("e", CountTo(<<"read", "n">>), <<Set("v", Mul(v, e))>>),
             Let("q", Call("combine$real", <<Arr(<<v, a>>), CountTo(R(n))>>)),
             Set("x", Add(At(q, Mul(a, R(0))), Call("count$real", <<q>>)))>>) : n \in 0 .. 2}

(* Modules of the script, the ends of scopes, and equal calls. *)
Twice == Def(<<I("a"), O("v")>>, FALSE,
                <<Set("v", Add(a, a)), IfElse(B(TRUE), <<Return(Neg(v))>>, <<Return(R(7))>>)>>)
Change == Def(<<I("a"), O("v")>>, TRUE,
                 <<Set("v", Mul(a, R(2))), <<"return", <<>>>>, Set("v", R(9))>>)
Calls == {Entry(<<I("a"), I("b"), O("x")>>, "twice" :> Twice @@ "change" :> Change,
                <<Let("v", a), <<"declare", "q", FALSE, <<>>>>,
                  Eval(Call("change", <<x, "v">>)),
                  Set("x", Add(Call("twice", <<y, "q">>), Add(v, q))),
                  Eval(Call("addition", <<a, b>>)),
                  Return(Call("greater", <<Add(a, b), Add(a, b)>>))>>) :
            x \in {a, R(1)}, y \in {a, Add(a, b), Add(R(1), R(2))}}
  \cup {Two(<<Let("v", Add(a, b)), Let("q", Add(Neg(v), Mul(v, R(2)))), Set("x", a)>>)}

(* What is refused: a failed assertion, an index out of range (the optimizer finds one), too deep a call. *)
Refused == {
    One(<<Eval(Call("assert", <<B(ok)>>)), Set("x", At(Arr(<<a, R(1)>>), R(i)))>>) :
      ok \in BOOLEAN, i \in {1, 2}}
  \cup {One(<<Let("r", Arr(<<a>>)), SetAt("r", R(1), a), Set("x", a)>>),
         One(<<Set("x", At(Arr(<<a>>), Add(R(3), Mul(a, R(0)))))>>),
         One(<<Set("x", Later(a, -1))>>), One(<<Set("x", Delayed(-1, a))>>),
         Two(<<Set("x", At(Arr(<<a>>), Sub(R(0), Add(Mul(a, R(0)), R(2)))))>>),
         One(<<Set("x", Neg(Neg(Neg(Neg(Neg(a))))))>>)}

(* An array changed by way of one of two variables that hold it. *)
Copies == {Two(<<Let("r", Arr(<<a, R(2), b>>)), Let("q", r), SetAt("q", R(i), R(7)),
                 Set("x", Add(At(q, R(j)), At(r, R(k))))>>) : i \in 0 .. 2, j \in 0 .. 2, k \in 0 .. 2}

(* Values that stay in use along a chain of others. *)
KeptAlive == {One(<<Let("v", Add(a, R(1))), Let("q", Mul(v, R(2))), Let("r", Add(q, R(3))),
                    Let("e", Mul(r, R(4))), Set("x", Add(v, Add(q, Add(r, e))))>>)}

(***************************************************************************)
(* Module bodies of one or two statements with scopes in scopes, some      *)
(* returning a value and some not: what is refused of them.                *)
(***************************************************************************)
Assigning == Set("x", R(1))
Simple(end) == {<<>>, <<Assigning>>, <<end>>, <<Assigning, end>>}
Compound(end) ==
    {Do(s) : s \in Simple(end)} \cup {If(B(TRUE), s) : s \in Simple(end)}
    \cup {IfElse(B(TRUE), s, t) : s \in Simple(end), t \in Simple(end)}
Statements(end) == {Assigning, end} \cup Compound(end)
Bodies(end, first) == {<<first>>} \cup {<<first, s>> : s \in Statements(end)}
    \cup {<<IfElse(B(TRUE), <<first>>, <<s>>)>> : s \in Statements(end)}
AllOf(modules) ==
    FoldSet(LAMBDA m, f : ("f" \o ToString(Cardinality(DOMAIN f))) :> m @@ f, <<>>, modules)
Checked(void, end) ==
    {Entry(<<I("a"), O("x")>>, AllOf({Def(<<O("x")>>, void, s) : s \in Bodies(end, first)}),
           <<Set("x", a), Return(B(TRUE))>>) : first \in Statements(end)}

(* Faults of other kinds: names, loops, the type that is returned. *)
Faulty == {One(<<Set("x", a), Break>>), One(<<Set("x", a), Let("x", R(1))>>), One(<<Set("x", v)>>),
           One(<<Set("x", a), For("x", CountTo(R(1)), <<Continuing>>)>>),
           Entry(<<I("a"), I("a"), O("x")>>, <<>>, <<Set("x", a), <<"return", <<>>>>>>)}

MCPrograms ==
    Arithmetic \cup Nested \cup Selections \cup Delays \cup Latencies \cup Arrays \cup Calls
    \cup Refused \cup KeptAlive \cup Faulty
    \cup Checked(TRUE, <<"return", <<>>>>) \cup Checked(FALSE, Return(R(1)))

(* A loop that may not be run at all returns the value. *)
Looping == {Entry(<<I("a"), O("x")>>, "first" :> Def(<<>>, FALSE, <<For("e", CountTo(R(n)), <<Return(e)>>)>>),
                  <<Set("x", Call("first", <<>>)), Return(B(TRUE))>>) : n \in 0 .. 2}
=============================================================================

---------------------------- MODULE CoreModules ----------------------------
(***************************************************************************)
(* Native modules of the libraries core, array and delay, with what each   *)
(* computes and the optimization rules registered for them.  A real is an  *)
(* integer; division, comparisons of bools, and what only differs from a   *)
(* module of these by a type or a unit (delay_seconds) are left out.       *)
(*                                                                         *)
(* What a module means for signals is what its task function is to do.     *)
(***************************************************************************)
EXTENDS GraphMeaning

(* The ways the modules declare an argument: wl_argument(direction [ref] [const | const?] type[]). *)
Argument(dir, prim, array, mut, access) ==
    [dir |-> dir, prim |-> prim, array |-> array, up |-> 1, mut |-> mut, access |-> access]
InConst(prim) == Argument("in", prim, FALSE, Constant, "value")
InDependent(prim) == Argument("in", prim, FALSE, DependentConstant, "value")
InRef(prim, array, mut) == Argument("in", prim, array, mut, "reference")
OutConst(prim, array) == Argument("out", prim, array, Constant, "value")
OutDependent(prim) == Argument("out", prim, FALSE, DependentConstant, "value")
OutRef(prim, array, mut) == Argument("out", prim, array, mut, "reference")

Callable(args) == [args |-> args, call |-> TRUE]
NotCallable(args) == [args |-> args, call |-> FALSE]
Unary(from, to) == Callable(<<InDependent(from), OutDependent(to)>>)
Binary(from, to) == Callable(<<InDependent(from), InDependent(from), OutDependent(to)>>)
Select(prim) ==
    Callable(<<InDependent("bool"), InDependent(prim), InDependent(prim), OutDependent(prim)>>)
AddLatency(prim) ==
    Callable(<<InRef(prim, FALSE, Variable), InConst("real"), OutRef(prim, FALSE, Variable)>>)
Delay(prim) ==
    NotCallable(<<InConst("real"), InRef(prim, FALSE, Variable), OutRef(prim, FALSE, Variable)>>)

RealOperators == {"addition", "subtraction", "multiplication"}
Comparisons == {"equal$real", "not_equal$real", "greater", "less", "greater_equal", "less_equal"}
BoolOperators == {"and", "or"}

CoreNativeModules ==
    [m \in RealOperators |-> Binary("real", "real")]
    @@ [m \in Comparisons |-> Binary("real", "bool")]
    @@ [m \in BoolOperators |-> Binary("bool", "bool")]
    @@ "negation" :> Unary("real", "real")
    @@ "not" :> Unary("bool", "bool")
    @@ "select$real" :> Select("real")
    @@ "select$bool" :> Select("bool")
    @@ "assert" :> Callable(<<InConst("bool")>>)
    @@ "get_latency$real" :> Callable(<<InRef("real", FALSE, Variable), OutConst("real", FALSE)>>)
    @@ "add_latency$real" :> AddLatency("real")
    @@ "add_latency$bool" :> AddLatency("bool")
    @@ "subscript$real" :> Callable(<<InRef("real", TRUE, DependentConstant), InDependent("real"),
                                      OutRef("real", FALSE, DependentConstant)>>)
    @@ "count$real" :> Callable(<<InRef("real", TRUE, Variable), OutConst("real", FALSE)>>)
    @@ "combine$real" :> Callable(<<InRef("real", TRUE, DependentConstant),
                                    InRef("real", TRUE, DependentConstant),
                                    OutRef("real", TRUE, DependentConstant)>>)
    @@ "range$stop" :> Callable(<<InConst("real"), OutConst("real", TRUE)>>)
    @@ "delay_samples$real" :> Delay("real")
    @@ "delay_samples$bool" :> Delay("bool")

(* The modules whose task function declares its result unshared with its signal. *)
CoreUnshared == {"delay_samples$real"}

-----------------------------------------------------------------------------
(* What the modules that work on values compute. *)
Compute(m, v) ==
    CASE m = "negation" -> -v[1]
      [] m = "addition" -> v[1] + v[2]
      [] m = "subtraction" -> v[1] - v[2]
      [] m = "multiplication" -> v[1] * v[2]
      [] m = "equal$real" -> v[1] = v[2]
      [] m = "not_equal$real" -> v[1] # v[2]
      [] m = "greater" -> v[1] > v[2]
      [] m = "less" -> v[1] < v[2]
      [] m = "greater_equal" -> v[1] >= v[2]
      [] m = "less_equal" -> v[1] <= v[2]
      [] m = "not" -> ~v[1]
      [] m = "and" -> v[1] /\ v[2]
      [] m = "or" -> v[1] \/ v[2]
      [] m \in {"select$real", "select$bool"} -> IF v[1] THEN v[2] ELSE v[3]

(* get_and_validate_native_module_array_index() *)
ValidIndex(i, count) == 0 <= i /\ i < count

(* The compile-time calls; get_latency$real is answered by the caller itself. *)
Returns(out) == [error |-> FALSE, outs |-> <<out>>]
Reports == [error |-> TRUE, outs |-> <<>>]

RunCore(m, v, latency) ==
    CASE m = "assert" -> [error |-> ~v[1], outs |-> <<>>]
      [] m = "get_latency$real" -> Returns(<<"value", "real", latency>>)
      [] m \in {"add_latency$real", "add_latency$bool"} ->
            IF v[2] < 0 THEN Reports ELSE Returns(<<"node", v[1]>>)
      [] m = "subscript$real" ->
            IF ValidIndex(v[2], Len(v[1])) THEN Returns(<<"node", v[1][v[2] + 1]>>) ELSE Reports
      [] m = "count$real" -> Returns(<<"value", "real", Len(v[1])>>)
      [] m = "combine$real" -> Returns(<<"nodes", v[1] \o v[2]>>)
      [] m = "range$stop" -> Returns(<<"values", "real", [i \in 1 .. v[1] |-> i - 1]>>)
      [] OTHER -> LET outs == OutArgs(m) IN Returns(<<"value", outs[1].prim, Compute(m, v)>>)

(* add_latency_get_latency(), and delay_samples_validate_arguments() *)
CoreLatency(m, v) == IF m \in {"add_latency$real", "add_latency$bool"} THEN v[2] ELSE 0
CoreAccepts(m, v) == m \in {"delay_samples$real", "delay_samples$bool"} => v[1] >= 0

(***************************************************************************)
(* What a call means for signals: values sample by sample, a delay from    *)
(* the samples before; added latency says that the signal is behind, so    *)
(* that the sample meant for a time is found that much later.              *)
(***************************************************************************)
CoreMeaning(m, v, latency) ==
    CASE m \in {"delay_samples$real", "delay_samples$bool"} -> Shifted(v[2], v[1][0])
      [] m \in {"add_latency$real", "add_latency$bool"} -> Shifted(v[1], -v[2][0])
      [] m = "subscript$real" ->
            [t \in Times |-> IF ValidIndex(v[2][t], Len(v[1])) THEN v[1][v[2][t] + 1][t] ELSE 0]
      [] m = "combine$real" -> v[1] \o v[2]
      [] m = "count$real" -> Always(Len(v[1]))
      [] m = "get_latency$real" -> Always(latency)
      [] m = "range$stop" -> [i \in 1 .. v[1][0] |-> Always(i - 1)]
      [] m = "assert" -> <<>>
      [] OTHER -> [t \in Times |-> Compute(m, [i \in DOMAIN v |-> v[i][t]])]

-----------------------------------------------------------------------------
(* Patterns of rules, and the rules in the order they are registered. *)
Symbols(kind) == <<<<kind>>>>
Variables == Symbols("variable")
Constants == Symbols("constant")
Anything == Symbols("any")
Back(i) == <<<<"back", i>>>>
Real(v) == <<<<"real", v>>>>
Bool(b) == <<<<"bool", b>>>>
Of(m, patterns) == <<<<"module", m>>>> \o FlattenSeq(patterns) \o <<<<"end">>>>

X == Back(1)
Y == Back(2)
Rule(source, target) == [source |-> source, target |-> target]
Swapped(m, to) == Rule(Of(m, <<Constants, Variables>>), Of(to, <<Y, X>>))
Negated(m, to) ==
    <<Rule(Of("not", <<Of(m, <<Variables, Variables>>)>>), Of(to, <<X, Y>>)),
      Rule(Of("not", <<Of(m, <<Variables, Constants>>)>>), Of(to, <<X, Y>>))>>
SelectRules(m) ==
    FlattenSeq([k \in 1 .. 3 |->
        LET choice == <<<<Variables, Variables>>, <<Constants, Variables>>, <<Variables, Constants>>>>[k]
        IN  <<Rule(Of(m, <<Bool(TRUE)>> \o choice), X), Rule(Of(m, <<Bool(FALSE)>> \o choice), Y)>>])

ArithmeticRules == <<
    Rule(Of("negation", <<Of("negation", <<Variables>>)>>), X),
    Swapped("addition", "addition"),
    Rule(Of("addition", <<Variables, Of("negation", <<Variables>>)>>), Of("subtraction", <<X, Y>>)),
    Rule(Of("addition", <<Of("negation", <<Variables>>), Variables>>), Of("subtraction", <<Y, X>>)),
    Rule(Of("addition", <<Of("negation", <<Variables>>), Constants>>), Of("subtraction", <<Y, X>>)),
    Rule(Of("addition", <<Variables, Real(0)>>), X),
    Rule(Of("subtraction", <<Variables, Constants>>), Of("addition", <<X, Of("negation", <<Y>>)>>)),
    Rule(Of("subtraction", <<Constants, Of("negation", <<Variables>>)>>), Of("addition", <<Y, X>>)),
    Rule(Of("subtraction", <<Variables, Of("negation", <<Variables>>)>>), Of("addition", <<X, Y>>)),
    Rule(Of("subtraction", <<Real(0), Variables>>), Of("negation", <<X>>)),
    Swapped("multiplication", "multiplication"),
    Rule(Of("multiplication", <<Variables, Real(0)>>), Real(0)),
    Rule(Of("multiplication", <<Variables, Real(1)>>), X),
    Rule(Of("multiplication", <<Variables, Real(-1)>>), Of("negation", <<X>>))>>

ComparisonRules ==
    <<Swapped("equal$real", "equal$real")>>
    \o Negated("equal$real", "not_equal$real")
    \o <<Swapped("not_equal$real", "not_equal$real")>>
    \o Negated("not_equal$real", "equal$real")
    \o <<Swapped("greater", "less_equal")>> \o Negated("greater", "less_equal")
    \o <<Swapped("less", "greater_equal")>> \o Negated("less", "greater_equal")
    \o <<Swapped("greater_equal", "less")>> \o Negated("greater_equal", "less")
    \o <<Swapped("less_equal", "greater")>> \o Negated("less_equal", "greater")

LogicRules == <<
    Rule(Of("not", <<Of("not", <<Variables>>)>>), X),
    Swapped("and", "and"),
    Rule(Of("and", <<Variables, Bool(FALSE)>>), Bool(FALSE)),
    Rule(Of("and", <<Variables, Bool(TRUE)>>), X),
    Swapped("or", "or"),
    Rule(Of("or", <<Variables, Bool(FALSE)>>), X),
    Rule(Of("or", <<Variables, Bool(TRUE)>>), Bool(TRUE))>>

DelayRules(m, zero) == <<
    Rule(Of(m, <<Real(0), Anything>>), X),
    Rule(Of(m, <<Constants, zero>>), zero),
    Rule(Of(m, <<Constants, Of(m, <<Constants, Anything>>)>>),
         Of(m, <<Of("addition", <<X, Y>>), Back(3)>>))>>

CoreRules ==
    ArithmeticRules \o LogicRules \o ComparisonRules
    \o SelectRules("select$real") \o SelectRules("select$bool")
    \o DelayRules("delay_samples$real", Real(0)) \o DelayRules("delay_samples$bool", Bool(FALSE))

=============================================================================

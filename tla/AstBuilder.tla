----------------------------- MODULE AstBuilder -----------------------------
(***************************************************************************)
(* c_ast_builder_visitor in the bodies of modules: it visits a body        *)
(* statement by statement with a stack of tracked scopes, in which it      *)
(* finds names and notes whether variables have been assigned and whether  *)
(* the scope has been left, and at the end of the body it refuses a module *)
(* that may leave an out argument unassigned or may not return.            *)
(*                                                                         *)
(* The form of the syntax trees is told in InstrumentBuilder.  An          *)
(* "else if" is an if within an else there too (enter_else_if).  A         *)
(* declaration is known by its name, for no two that can be seen from one  *)
(* place may have the same; types and overloads are left out.              *)
(***************************************************************************)
EXTENDS Naturals, Sequences, FiniteSets, SequencesExt

CONSTANTS
    Programs  \* a set of [params, body, modules]: the entry point and the script modules

VARIABLES
    program,    \* the syntax tree
    unvisited,  \* modules whose bodies have not been left
    tracked,    \* m_tracked_scopes, without the namespace: [type, items, declared, events, other]
    faults      \* the errors reported: <<module, error>>

astVars == <<unvisited, tracked, faults>>

EntryPoint == "voice_main"
ModuleNamed(m) ==
    IF m = EntryPoint THEN [params |-> program.params, void |-> FALSE, body |-> program.body]
    ELSE program.modules[m]
(* The order does not matter. *)
Module == CHOOSE m \in unvisited : TRUE
Current == ModuleNamed(Module)
Fault(error) == {<<Module, error>>}

(***************************************************************************)
(* e_tracked_event_state, in its order.  The events of a scope are the     *)
(* names of the variables assigned in it, and its own end.                 *)
(***************************************************************************)
DidNotOccur == 0
MaybeOccurred == 1
Occurred == 2

EndsOfScope == {"return", "break", "continue"}

(***************************************************************************)
(* items: what is still to be visited.  other: the events of the true      *)
(* scope while the false scope, of type k_if_statement like it, is visited.*)
(***************************************************************************)
TrackedScope(type, items, declared) ==
    [type |-> type, items |-> items, declared |-> declared, events |-> <<>>, other |-> <<>>]

StateIn(events, event) == IF event \in DOMAIN events THEN events[event] ELSE DidNotOccur

(* update_event_state() *)
UpdatedState(scope, current) ==
    LET ends == {StateIn(scope.events, e) : e \in EndsOfScope}
    IN  CASE Max(ends) = Occurred -> current
          [] Max(ends) = MaybeOccurred -> Max({current, MaybeOccurred})
          [] Max(ends) = DidNotOccur -> Occurred

Issue(scope, event) ==
    [scope EXCEPT !.events = (event :> UpdatedState(scope, StateIn(@, event))) @@ @]
IssueAll(scope, events) == FoldSet(LAMBDA event, s : Issue(s, event), scope, events)

(* What happened in children happened here; certainly so only if both branches agree. *)
Inherit(scope, events, Inherited(_)) ==
    [scope EXCEPT !.events = [e \in DOMAIN @ \cup events |-> Max({StateIn(@, e), Inherited(e)})]]

MergeChildScope(scope, child) ==
    Inherit(scope, DOMAIN child, LAMBDA e : StateIn(child, e))
MergeOptionalChildScope(scope, child) ==
    Inherit(scope, DOMAIN child, LAMBDA e : Min({StateIn(child, e), MaybeOccurred}))
(* Mutant: one branch is enough. *)
MergeEitherBranch(scope, true, false) ==
    Inherit(scope, DOMAIN true \cup DOMAIN false, LAMBDA e : Max({StateIn(true, e), StateIn(false, e)}))

MergeIfStatementScopes(scope, true, false) ==
    Inherit(scope, DOMAIN true \cup DOMAIN false, LAMBDA e : Min({StateIn(true, e), StateIn(false, e)}))

-----------------------------------------------------------------------------
(* The names an expression refers to, and the variables its calls assign through out arguments. *)
IsOut(m, i) == m \in DOMAIN program.modules /\ program.modules[m].params[i].dir = "out"

RECURSIVE NamesIn(_), OutsIn(_)
NamesIn(e) ==
    CASE e = <<>> -> {}
      [] e # <<>> /\ e[1] = "read" -> {e[2]}
      [] e # <<>> /\ e[1] = "array" -> UNION {NamesIn(x) : x \in ToSet(e[2])}
      [] e # <<>> /\ e[1] = "call" ->
            UNION {IF IsOut(e[2], i) THEN {e[3][i]} ELSE NamesIn(e[3][i]) : i \in DOMAIN e[3]}
      [] OTHER -> {}
OutsIn(e) ==
    CASE e # <<>> /\ e[1] = "array" -> UNION {OutsIn(x) : x \in ToSet(e[2])}
      [] e # <<>> /\ e[1] = "call" ->
            UNION {IF IsOut(e[2], i) THEN {e[3][i]} ELSE OutsIn(e[3][i]) : i \in DOMAIN e[3]}
      [] OTHER -> {}

(* lookup_declarations_by_name(), outwards from the innermost scope *)
Declared(x) ==
    \/ x \in DOMAIN program.modules \cup {EntryPoint}
    \/ \E i \in DOMAIN tracked : x \in tracked[i].declared

Unresolved(names) ==
    IF \A x \in names : Declared(x) THEN {} ELSE Fault("identifier_resolution_failed")
Conflict(x) == IF Declared(x) THEN Fault("declaration_conflict") ELSE {}

Scope == Last(tracked)
Item == Head(Scope.items)
Visiting(kind) == tracked # <<>> /\ Scope.items # <<>> /\ Item[1] = kind

(* The item is behind the scope, which is now as given. *)
Behind(scope) == Append(Front(tracked), [scope EXCEPT !.items = Tail(@)])
Report(new) == faults' = faults \cup new /\ UNCHANGED <<program, unvisited>>

VisitDeclaration ==
    /\ Visiting("declare")
    /\ LET declared == [IssueAll(Scope, OutsIn(Item[4])) EXCEPT !.declared = @ \cup {Item[2]}]
       IN  tracked' = Behind(IF Item[4] = <<>> THEN declared ELSE Issue(declared, Item[2]))
    /\ Report(Unresolved(NamesIn(Item[4])) \cup Conflict(Item[2]))

VisitAssignment ==
    /\ Visiting("assign")
    /\ tracked' = Behind(Issue(IssueAll(Scope, OutsIn(Item[3]) \cup OutsIn(Item[4])), Item[2]))
    /\ Report(Unresolved({Item[2]} \cup NamesIn(Item[3]) \cup NamesIn(Item[4])))

VisitExpression ==
    /\ Visiting("expression")
    /\ tracked' = Behind(IssueAll(Scope, OutsIn(Item[2])))
    /\ Report(Unresolved(NamesIn(Item[2])))

(* validate_current_module_return_type(), as far as void goes *)
VisitReturn ==
    /\ Visiting("return")
    /\ tracked' = Behind(Issue(IssueAll(Scope, OutsIn(Item[2])), "return"))
    /\ Report(Unresolved(NamesIn(Item[2]))
               \cup IF (Item[2] = <<>>) = Current.void THEN {} ELSE Fault("return_type_mismatch"))

IsLoopInScopeStack == \E i \in DOMAIN tracked : tracked[i].type = "for_loop"

VisitBreakOrContinue ==
    /\ Visiting("break") \/ Visiting("continue")
    /\ tracked' = Behind(Issue(Scope, Item[1]))
    /\ Report(IF IsLoopInScopeStack THEN {} ELSE Fault("illegal_" \o Item[1] \o "_statement"))

-----------------------------------------------------------------------------
(* A statement with a scope stays the first item until its scopes are left. *)
Enter(outer, inner) == tracked' = Append(Append(Front(tracked), outer), inner)
Outer == tracked[Len(tracked) - 1]
Statement == Head(Outer.items)
Left(type) == tracked # <<>> /\ Scope.type = type /\ Scope.items = <<>>
LeaveInto(outer) ==
    tracked' = Append(SubSeq(tracked, 1, Len(tracked) - 2), [outer EXCEPT !.items = Tail(@)])

EnterBlock ==
    /\ Visiting("scope")
    /\ Enter(Scope, TrackedScope("local", Item[2], {}))
    /\ Report({})

EnterTrueScope ==
    /\ Visiting("if")
    /\ Enter(IssueAll(Scope, OutsIn(Item[2])), TrackedScope("if_statement", Item[3][2], {}))
    /\ Report(Unresolved(NamesIn(Item[2])))

(* The loop's variable is declared and assigned in the loop's scope. *)
EnterLoop ==
    /\ Visiting("for")
    /\ Enter(IssueAll(Scope, OutsIn(Item[4])),
             Issue(TrackedScope("for_loop", Item[5][2], {Item[2]}), Item[2]))
    /\ Report(Unresolved(NamesIn(Item[4])) \cup Conflict(Item[2]))

(* exit_for_loop_scope() too merges with merge_child_scope(). *)
LeaveBlockOrLoop ==
    /\ Left("local") \/ Left("for_loop")
    /\ LeaveInto(MergeChildScope(Outer, Scope.events))
    /\ Report({})

LeaveIfStatement ==
    /\ Left("if_statement") /\ Statement[4] = <<>>
    /\ LeaveInto(MergeOptionalChildScope(Outer, Scope.events))
    /\ Report({})

EnterFalseScope ==
    /\ Left("if_statement") /\ Statement[4] # <<>>
    /\ tracked' = Append(Front(tracked),
                         [TrackedScope("false_scope", Statement[4][2], {}) EXCEPT !.other = Scope.events])
    /\ Report({})

LeaveIfElseStatement ==
    /\ Left("false_scope")
    /\ LeaveInto(MergeIfStatementScopes(Outer, Scope.other, Scope.events))
    /\ Report({})

-----------------------------------------------------------------------------
Names(params) == {params[i].name : i \in DOMAIN params}
NamesOf(params, dir) == {params[i].name : i \in {j \in DOMAIN params : params[j].dir = dir}}

EnterModuleBody ==
    /\ tracked = <<>> /\ unvisited # {}
    /\ tracked' = <<IssueAll(TrackedScope("module", Current.body[2], Names(Current.params)),
                             NamesOf(Current.params, "in"))>>
    /\ Report(UNION {Conflict(x) : x \in Names(Current.params)}
               \cup IF Cardinality(Names(Current.params)) = Len(Current.params) THEN {}
                    ELSE Fault("duplicate_argument") \cup Fault("declaration_conflict"))

LeaveModuleBody ==
    /\ Left("module")
    /\ faults' = faults
          \cup (IF \A x \in NamesOf(Current.params, "out") : StateIn(Scope.events, x) = Occurred THEN {}
                ELSE Fault("unassigned_out_argument"))
          \cup (IF Current.void \/ StateIn(Scope.events, "return") = Occurred THEN {}
                ELSE Fault("missing_return_statement"))
    /\ tracked' = <<>>
    /\ unvisited' = unvisited \ {Module}
    /\ UNCHANGED program

AstInit ==
    /\ program \in Programs
    /\ unvisited = DOMAIN program.modules \cup {EntryPoint}
    /\ tracked = <<>> /\ faults = {}

AstNext ==
    \/ EnterModuleBody \/ LeaveModuleBody \/ VisitDeclaration \/ VisitAssignment \/ VisitExpression
    \/ VisitReturn \/ VisitBreakOrContinue \/ EnterBlock \/ EnterTrueScope \/ EnterLoop
    \/ LeaveBlockOrLoop \/ LeaveIfStatement \/ EnterFalseScope \/ LeaveIfElseStatement

-----------------------------------------------------------------------------
(***************************************************************************)
(* The paths through statements without loops, whatever the conditions     *)
(* are: the variables assigned, and how the path ends.                     *)
(***************************************************************************)
Path(assigned, end) == [assigned |-> assigned, end |-> end]
Then(p, q) == Path(p.assigned \cup q.assigned, q.end)

Scopes(item) ==
    CASE item[1] = "scope" -> <<item[2]>>
      [] item[1] = "if" -> IF item[4] = <<>> THEN <<item[3][2]>> ELSE <<item[3][2], item[4][2]>>
      [] item[1] = "for" -> <<item[5][2]>>
      [] OTHER -> <<>>

RECURSIVE Paths(_)
PathsOf(item) ==
    CASE item[1] = "declare" ->
            {Path(OutsIn(item[4]) \cup IF item[4] = <<>> THEN {} ELSE {item[2]}, "on")}
      [] item[1] = "assign" -> {Path(OutsIn(item[3]) \cup OutsIn(item[4]) \cup {item[2]}, "on")}
      [] item[1] = "expression" -> {Path(OutsIn(item[2]), "on")}
      [] item[1] = "return" -> {Path(OutsIn(item[2]), "return")}
      [] item[1] \in {"break", "continue"} -> {Path({}, item[1])}
      [] item[1] = "scope" -> Paths(item[2])
      [] item[1] = "if" ->
            {Then(Path(OutsIn(item[2]), "on"), p) :
                p \in UNION {Paths(s) : s \in ToSet(Scopes(item))}
                      \cup IF item[4] = <<>> THEN {Path({}, "on")} ELSE {}}
Paths(items) ==
    IF items = <<>> THEN {Path({}, "on")}
    ELSE UNION {IF p.end # "on" THEN {p} ELSE {Then(p, q) : q \in Paths(Tail(items))} :
                  p \in PathsOf(Head(items))}

(***************************************************************************)
(* No loops, and what follows a statement by which some path leaves the    *)
(* scope is out of reach and has no scope of its own.                      *)
(***************************************************************************)
Leaves(item) == \E p \in PathsOf(item) : p.end # "on"
RECURSIVE Plain(_)
Plain(items) ==
    /\ \A i \in DOMAIN items :
          /\ items[i][1] # "for"
          /\ \A s \in ToSet(Scopes(items[i])) : Plain(s)
    /\ \A i, j \in DOMAIN items :
          i < j /\ Leaves(items[i]) => /\ \A p \in PathsOf(items[i]) : p.end # "on"
                                       /\ Scopes(items[j]) = <<>>

(***************************************************************************)
(* A plain module is refused when, and only when, one of its paths leaves  *)
(* an out argument unassigned or does not return a value ("might not be    *)
(* assigned a value", "might not return a value", exit_module_body).       *)
(***************************************************************************)
Deserves(module, error) ==
    \E p \in Paths(module.body[2]) :
        CASE error = "unassigned_out_argument" -> ~(NamesOf(module.params, "out") \subseteq p.assigned)
          [] error = "missing_return_statement" -> ~module.void /\ p.end # "return"

ChecksExact ==
    unvisited = {} =>
        \A m \in DOMAIN program.modules \cup {EntryPoint} :
            Plain(ModuleNamed(m).body[2]) =>
                \A error \in {"unassigned_out_argument", "missing_return_statement"} :
                    <<m, error>> \in faults <=> Deserves(ModuleNamed(m), error)

=============================================================================

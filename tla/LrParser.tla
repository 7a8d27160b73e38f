------------------------------ MODULE LrParser ------------------------------
(***************************************************************************)
(* c_lr_parser driven by the tables of the generator, and the visit of the *)
(* parse tree by the class the visitor generator writes: a grammar file is *)
(* made into a parser, which is given any source file.                     *)
(***************************************************************************)
EXTENDS LrParserGenerator, Derivations

VARIABLES
  tokens,      \* the tokens handed over by get_next_token
  ended,       \* current_token is the end of input
  stateStack,  \* state_stack
  nodes,       \* m_nodes of the parse tree
  root,        \* m_root_node_index, 0 when there is none
  visits,      \* node_stack of the visitor
  contexts     \* the nodes whose m_node_contexts is not s_no_context_value

parseVars == <<tokens, ended, stateStack, nodes, root>>
visitVars == <<visits, contexts>>
vars == <<generatorVars, parseVars, visitVars>>

Node(symbol, index) == [symbol |-> symbol, index |-> index, sibling |-> 0, child |-> 0]

CurrentToken == IF ended THEN EndOfInput ELSE Last(tokens)

\* The lexer stops the compilation at an invalid token: the first terminal does
\* not reach the parser.
SourceTokens == ToSet(productionSet.terminals) \ {productionSet.terminals[1], EndOfInput}

\* get_next_token
NextToken ==
  \/ /\ ended' = TRUE
     /\ UNCHANGED tokens
  \/ /\ ~ended /\ Len(tokens) < MaxTokens
     /\ \E t \in SourceTokens : tokens' = Append(tokens, t)
     /\ UNCHANGED ended

TableAction == actionTable[Last(stateStack).state][CurrentToken]

Init ==
  /\ GeneratorInit
  /\ tokens = <<>> /\ ended = FALSE
  /\ stateStack = <<>> /\ nodes = <<>> /\ root = 0
  /\ visits = <<>> /\ contexts = {}

Generate ==
  /\ GeneratorNext
  /\ UNCHANGED <<parseVars, visitVars>>

Begin ==
  /\ stage = "start"
  /\ NextToken
  /\ stage' = "parse"
  /\ stateStack' = <<[state |-> 1, node |-> 0]>>
  /\ UNCHANGED <<grammar, productionSet, itemVars, tableVars>>
  /\ UNCHANGED <<nodes, root, visitVars>>

Shift ==
  /\ stage = "parse" /\ TableAction.type = "shift"
  /\ stateStack' = Append(stateStack, [state |-> TableAction.index, node |-> Len(nodes) + 1])
  /\ nodes' = Append(nodes, Node(CurrentToken, Len(tokens)))
  /\ NextToken
  /\ UNCHANGED <<generatorVars, root, visitVars>>

\* make_first_child_node
WithFirstChild(known, parent, child) ==
  [known EXCEPT ![child].sibling = known[parent].child, ![parent].child = child]

Reduce ==
  /\ stage = "parse" /\ TableAction.type = "reduce"
  /\ LET production == Productions[TableAction.index]
         popped == IF production.rhs[1] = Epsilon THEN 0 ELSE Len(production.rhs)
         parent == Len(nodes) + 1
         left == SubSeq(stateStack, 1, Len(stateStack) - popped)
         children == [i \in 1 .. popped |-> stateStack[Len(stateStack) + 1 - i].node]
     IN  /\ nodes' = FoldLeft(LAMBDA known, child : WithFirstChild(known, parent, child),
                              Append(nodes, Node(production.lhs, TableAction.index)), children)
         /\ stateStack' = Append(left,
              [state |-> gotoTable[Last(left).state][production.lhs], node |-> parent])
  /\ UNCHANGED <<generatorVars, tokens, ended, root, visitVars>>

\* The tree is complete, and a visitor starts at its root.
Accept ==
  /\ stage = "parse" /\ TableAction.type = "accept"
  /\ root' = Last(stateStack).node
  /\ stage' = "visit"
  /\ visits' = <<[node |-> Last(stateStack).node, entered |-> FALSE, into |-> FALSE]>>
  /\ stateStack' = <<>>
  /\ UNCHANGED <<grammar, productionSet, itemVars, tableVars>>
  /\ UNCHANGED <<tokens, ended, nodes, contexts>>

Error ==
  /\ stage = "parse" /\ TableAction = Invalid
  /\ stage' = "error"
  /\ UNCHANGED <<grammar, productionSet, itemVars, tableVars>>
  /\ UNCHANGED <<parseVars, visitVars>>

-----------------------------------------------------------------------------
(* The generated visitor                                                   *)

\* get_child_node_indices
Children(n) ==
  LET from[c \in 0 .. Len(nodes)] ==
        IF c = 0 THEN <<>> ELSE <<c>> \o from[nodes[c].sibling]
  IN  from[nodes[n].child]

IsTerminal(n) == nodes[n].symbol \in ToSet(productionSet.terminals)

HasFunction(n) == ~IsTerminal(n) /\ Rules(grammar)[nodes[n].index].function

\* The contexts instantiated on entering a node and deinstantiated on exiting it.
OwnContexts(n) ==
  IF IsTerminal(n) THEN {}
  ELSE {c \in ToSet(Children(n)) \cup ({n} \cap {root}) : nodes[c].symbol \in Typed(grammar)}

\* enter_node, and then the first child.
Enter ==
  /\ stage = "visit" /\ visits # <<>>
  /\ ~Last(visits).entered
  /\ LET n == Last(visits).node
     IN  \E into \in BOOLEAN :
           /\ IsTerminal(n) => ~into
           /\ into \/ IsTerminal(n) \/ HasFunction(n)
           /\ contexts' = contexts \cup OwnContexts(n)
           /\ visits' =
                Append(Front(visits), [node |-> n, entered |-> TRUE, into |-> into])
                \o (IF into /\ nodes[n].child # 0
                    THEN <<[node |-> nodes[n].child, entered |-> FALSE, into |-> FALSE]>>
                    ELSE <<>>)
  /\ UNCHANGED <<generatorVars, parseVars>>

\* A mutated LeftContexts: what was not entered is not left.
LeftContextsIfEntered(n, into) == IF into THEN OwnContexts(n) ELSE {}

\* The contexts exit_node deinstantiates, whether or not it calls the function.
LeftContexts(n, into) == OwnContexts(n)

\* exit_node, and then the next sibling.
Exit ==
  /\ stage = "visit" /\ visits # <<>>
  /\ Last(visits).entered
  /\ LET n == Last(visits).node
     IN  /\ contexts' = contexts \ LeftContexts(n, Last(visits).into)
         /\ visits' =
              Front(visits)
              \o (IF nodes[n].sibling = 0 THEN <<>>
                  ELSE <<[node |-> nodes[n].sibling, entered |-> FALSE, into |-> FALSE]>>)
  /\ UNCHANGED <<generatorVars, parseVars>>

EndVisit ==
  /\ stage = "visit" /\ visits = <<>>
  /\ stage' = "done"
  /\ UNCHANGED <<grammar, productionSet, itemVars, tableVars>>
  /\ UNCHANGED <<parseVars, visitVars>>

Next ==
  Generate \/ Begin \/ Shift \/ Reduce \/ Accept \/ Error \/ Enter \/ Exit \/ EndVisit

Spec == Init /\ [][Next]_vars

-----------------------------------------------------------------------------
\* The derivation tree below every node, with the tokens at its leaves.
Built ==
  FoldLeft(LAMBDA built, n :
             LET children == Children(n)
             IN  Append(built,
                   IF IsTerminal(n) THEN [tree |-> Leaf(nodes[n].symbol), leaves |-> <<nodes[n].index>>]
                   ELSE [tree |-> [rule |-> nodes[n].index, symbol |-> nodes[n].symbol,
                                   children |-> [i \in DOMAIN children |-> built[children[i]].tree]],
                         leaves |-> FlattenSeq([i \in DOMAIN children |-> built[children[i]].leaves])]),
           <<>>, [n \in DOMAIN nodes |-> n])

\* A file is accepted with a derivation tree of its tokens, each of them at its
\* place; otherwise the token reported is the first with which what was read is
\* not the beginning of any file (parse_token_stream, with the tables of
\* compute_item_sets).
ParsesTheLanguage ==
  /\ stage = "done" =>
       /\ [tree |-> Built[root].tree, yield |-> tokens] \in Trees[grammar][Whole(grammar)]
       /\ Built[root].leaves = [i \in DOMAIN tokens |-> i]
  /\ stage = "error" =>
       IF ended THEN tokens \notin Sentences[grammar]
       ELSE Front(tokens) \in Openings[grammar] /\ tokens \notin Openings[grammar]

\* The nodes from one down its last, or its first, children.
Spine(n, Pick(_)) ==
  LET down[m \in DOMAIN nodes] ==
        IF nodes[m].child = 0 THEN {m} ELSE {m} \cup down[Pick(Children(m))]
  IN  down[n]

Rhs(n) == IF IsTerminal(n) THEN <<>> ELSE Rules(grammar)[nodes[n].index].rhs
IsOperator(t) == t \in ToSet(productionSet.terminals) /\ productionSet.associativity[t] # "none"

\* A node of a rule like E -> E op E or E -> - E.
TakesLeft(n) == Len(Rhs(n)) > 1 /\ Rhs(n)[1] = nodes[n].symbol /\ IsOperator(Rhs(n)[2])
TakesRight(n) == Len(Rhs(n)) > 1 /\ Last(Rhs(n)) = nodes[n].symbol

Binds(n, op, side) ==
  LET ofRule == Productions[nodes[n].index].precedence
      ofOperator == productionSet.precedence[op]
  IN  \/ side = "left" /\ ofRule > ofOperator
      \/ side = "right" /\ ofOperator > ofRule
      \/ ofRule = ofOperator /\ productionSet.associativity[op] = side

\* Between a rule that ends with an operand and an operator after that operand,
\* the one of the higher precedence gets it, and of two equal ones the left one if
\* the operator is left-associative and the right one if it is right-associative,
\* however deep in the tree the two meet (try_resolve_shift_reduce_conflict).
PrecedenceDecides ==
  stage = "done" =>
    \A n, m \in DOMAIN nodes :
      nodes[n].symbol = nodes[m].symbol =>
        /\ TakesLeft(n) /\ TakesRight(m) /\ m \in Spine(Children(n)[1], Last) =>
             Binds(m, Rhs(n)[2], "left")
        /\ TakesRight(n) /\ TakesLeft(m) /\ m \in Spine(Last(Children(n)), Head) =>
             Binds(n, Rhs(m)[2], "right")

Unranked == \A t \in ToSet(productionSet.terminals) : productionSet.associativity[t] = "none"

\* The generator refuses a grammar only if some file has two derivation trees, but
\* for conflicts at the first terminal, which stands for epsilon in the table; and
\* a grammar it takes without precedences gives no file two trees (compute_item_sets,
\* set_action).  Every unambiguous grammar of the instance is LR(1).
ConflictsAreReal ==
  /\ conflict \ {FirstTerminal(grammar)} # {} => Ambiguous(grammar)
  /\ stage = "start" /\ Unranked => ~Ambiguous(grammar)

\* The visitor gives every function the contexts of its node and of its children
\* alive, starts each of them once, and leaves none alive behind it (enter_node and
\* exit_node as visitor_class_generator.cpp writes them, and the assertion after
\* the visit).
ContextsAlive ==
  /\ stage = "visit" /\ visits # <<>> =>
       LET n == Last(visits).node
           own == {n} \cap {c \in DOMAIN nodes : nodes[c].symbol \in Typed(grammar)}
       IN  IF Last(visits).entered THEN own \cup OwnContexts(n) \subseteq contexts
           ELSE own \ {root} \subseteq contexts /\ contexts \cap ToSet(Children(n)) = {}
  /\ stage = "done" => contexts = {}
=============================================================================

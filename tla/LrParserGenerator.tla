------------------------- MODULE LrParserGenerator --------------------------
(***************************************************************************)
(* c_lr_parser_generator: the item sets of a grammar, found one from the   *)
(* other, and the action and goto tables filled on the way, where two      *)
(* actions for one terminal are settled by precedence or reported.         *)
(***************************************************************************)
EXTENDS Grammar

VARIABLES
  grammar,        \* the grammar file
  stage,          \* what is done to it: "grammar", "properties", "items", "gotos", "reduces",
                  \* then the parser's; or "conflict"
  productionSet,  \* m_production_set
  properties,     \* m_symbol_properties_table: the nullable symbols and the first sets
  itemSets,       \* m_item_sets, the start set first
  itemSet,        \* item_set_index
  reduces,        \* items the loop of reduce and accept actions has not looked at
  actionTable,    \* m_action_table, a row of terminals for every item set
  gotoTable,      \* m_goto_table, 0 for k_invalid_state_index
  conflict        \* the terminal of an s_lr_conflict

itemVars == <<properties, itemSets, itemSet, reduces>>
tableVars == <<actionTable, gotoTable, conflict>>
generatorVars == <<grammar, stage, productionSet, itemVars, tableVars>>

Productions == productionSet.productions
Symbols ==
  {Epsilon} \cup ToSet(productionSet.terminals) \cup ToSet(productionSet.nonterminals)
Item == [production : DOMAIN Productions, pointer : Nat, lookahead : Symbols]

\* get_rhs_symbol_or_epsilon
AfterPointer(item) ==
  LET rhs == Productions[item.production].rhs
  IN  IF item.pointer < Len(rhs) THEN rhs[item.pointer + 1] ELSE Epsilon

\* What can follow the nonterminal at the pointer.
Follow(item) ==
  LET rhs == Productions[item.production].rhs
  IN  StringFirstSet(properties, SubSeq(rhs, item.pointer + 2, Len(rhs)) \o <<item.lookahead>>)

Added(item) ==
  [production : {q \in DOMAIN Productions : Productions[q].lhs = AfterPointer(item)},
   pointer : {0}, lookahead : Follow(item)]

\* compute_closure
Closure(items) ==
  LET grown[s \in SUBSET Item] ==
        LET more == s \cup UNION {Added(item) : item \in s}
        IN  IF more = s THEN s ELSE grown[more]
  IN  grown[items]

\* compute_goto
Goto(items, symbol) ==
  Closure({[item EXCEPT !.pointer = @ + 1] :
             item \in {i \in items : AfterPointer(i) = symbol}})

-----------------------------------------------------------------------------
(* Actions and their conflicts                                             *)

Action(type, index) == [type |-> type, index |-> index]
Invalid == Action("invalid", 0)

\* A mutated ShiftOrReduce: the sides of the associativities are swapped.
ShiftOrReduceSwapped(t, shift, reduce) ==
  LET ofShift == IF productionSet.associativity[t] = "none" THEN -1 ELSE productionSet.precedence[t]
      ofReduce == Productions[reduce.index].precedence
  IN  IF ofShift < 0 \/ ofReduce < 0 THEN Invalid
      ELSE IF ofShift > ofReduce \/ (ofShift = ofReduce /\ productionSet.associativity[t] = "left") THEN shift
      ELSE IF ofShift < ofReduce \/ productionSet.associativity[t] = "right" THEN reduce
      ELSE Invalid

\* try_resolve_shift_reduce_conflict
ShiftOrReduce(t, shift, reduce) ==
  LET ofShift == IF productionSet.associativity[t] = "none" THEN -1 ELSE productionSet.precedence[t]
      ofReduce == Productions[reduce.index].precedence
  IN  IF ofShift < 0 \/ ofReduce < 0 THEN Invalid
      ELSE IF ofShift > ofReduce \/ (ofShift = ofReduce /\ productionSet.associativity[t] = "right") THEN shift
      ELSE IF ofShift < ofReduce \/ productionSet.associativity[t] = "left" THEN reduce
      ELSE Invalid

\* try_resolve_reduce_reduce_conflict
ReduceOrReduce(a, b) ==
  LET Of(x) == Productions[x.index].precedence
  IN  IF Of(a) < 0 \/ Of(b) < 0 \/ Of(a) = Of(b) THEN Invalid
      ELSE IF Of(a) > Of(b) THEN a ELSE b

\* set_action: the action that stays, or Invalid for a conflict.
Settled(t, old, new) ==
  IF new = old \/ old = Invalid THEN new
  ELSE IF <<new.type, old.type>> = <<"shift", "reduce">> THEN ShiftOrReduce(t, new, old)
  ELSE IF <<new.type, old.type>> = <<"reduce", "shift">> THEN ShiftOrReduce(t, old, new)
  ELSE ReduceOrReduce(new, old)

-----------------------------------------------------------------------------
GeneratorInit ==
  /\ grammar \in DOMAIN Grammars
  /\ stage = "grammar"
  /\ productionSet = <<>> /\ properties = <<>>
  /\ itemSets = <<>> /\ itemSet = 0 /\ reduces = {}
  /\ actionTable = <<>> /\ gotoTable = <<>> /\ conflict = {}

CreateProductionSet ==
  /\ stage = "grammar"
  /\ productionSet' = ProductionSet(grammar)
  /\ stage' = "properties"
  /\ UNCHANGED <<grammar, itemVars, tableVars>>

\* compute_symbols_properties
ComputeProperties ==
  /\ stage = "properties"
  /\ LET productions == ToSet(Productions)
         nullable == NullableSymbols(productions)
     IN  properties' = [nullable |-> nullable,
                        first |-> FirstSets(productions, nullable,
                                            {Epsilon} \cup ToSet(productionSet.terminals))]
  /\ stage' = "items"
  /\ UNCHANGED <<grammar, productionSet, itemSets, itemSet, reduces, tableVars>>

StartItemSet ==
  /\ stage = "items"
  /\ LET item == [production |-> Len(Productions), pointer |-> 0, lookahead |-> EndOfInput]
     IN  itemSets' = <<Closure({item})>>
  /\ itemSet' = 1
  /\ stage' = "gotos"
  /\ UNCHANGED <<grammar, productionSet, properties, reduces, tableVars>>

\* The first loop over an item set: a goto set for every terminal, then for every
\* nonterminal, new unless it equals one there is; the shift actions and the gotos.
AddGotos ==
  /\ stage = "gotos"
  /\ LET Found(known, s) ==
           LET target == Goto(itemSets[itemSet], s)
               sets == IF target \in ToSet(known.sets) \cup {{}} THEN known.sets
                       ELSE Append(known.sets, target)
           IN  [sets |-> sets,
                match |-> known.match @@
                  (s :> IF target = {} THEN 0 ELSE CHOOSE i \in DOMAIN sets : sets[i] = target)]
         found == FoldLeft(Found, [sets |-> itemSets, match |-> <<>>],
                           productionSet.terminals \o productionSet.nonterminals)
     IN  /\ itemSets' = found.sets
         /\ actionTable' = Append(actionTable,
              [t \in ToSet(productionSet.terminals) |->
                 IF found.match[t] = 0 THEN Invalid ELSE Action("shift", found.match[t])])
         /\ gotoTable' = Append(gotoTable,
              [n \in ToSet(productionSet.nonterminals) |-> found.match[n]])
  /\ reduces' = {item \in itemSets[itemSet] : AfterPointer(item) = Epsilon}
  /\ stage' = "reduces"
  /\ UNCHANGED <<grammar, productionSet, properties, itemSet, conflict>>

\* The second loop, item by item, in any order.  The index of epsilon is 0.
AddReduce ==
  /\ stage = "reduces"
  /\ \E item \in reduces :
       LET accepts == Productions[item.production].lhs = Start
           t == IF accepts THEN EndOfInput
                ELSE IF item.lookahead = Epsilon THEN productionSet.terminals[1]
                ELSE item.lookahead
           new == IF accepts THEN Action("accept", 0) ELSE Action("reduce", item.production)
           settled == Settled(t, actionTable[itemSet][t], new)
       IN  /\ reduces' = reduces \ {item}
           /\ IF settled = Invalid
              THEN /\ stage' = "conflict"
                   /\ conflict' = {t}
                   /\ UNCHANGED actionTable
              ELSE /\ actionTable' = [actionTable EXCEPT ![itemSet][t] = settled]
                   /\ UNCHANGED <<stage, conflict>>
  /\ UNCHANGED <<grammar, productionSet, properties, itemSets, itemSet, gotoTable>>

NextItemSet ==
  /\ stage = "reduces" /\ reduces = {} /\ itemSet < Len(itemSets)
  /\ itemSet' = itemSet + 1
  /\ stage' = "gotos"
  /\ UNCHANGED <<grammar, productionSet, properties, itemSets, reduces, tableVars>>

\* The production set and the tables are written out and the generator ends.
WriteParser ==
  /\ stage = "reduces" /\ reduces = {} /\ itemSet = Len(itemSets)
  /\ stage' = "start"
  /\ itemSets' = <<>> /\ itemSet' = 0 /\ properties' = <<>>
  /\ UNCHANGED <<grammar, productionSet, reduces, tableVars>>

GeneratorNext ==
  \/ CreateProductionSet \/ ComputeProperties \/ StartItemSet
  \/ AddGotos \/ AddReduce \/ NextItemSet \/ WriteParser
=============================================================================

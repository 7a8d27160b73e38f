------------------------------ MODULE Grammar -------------------------------
(***************************************************************************)
(* Grammars as the parser generator reads them (s_grammar), the production *)
(* set it makes of one, the symbols that can be empty and the terminals    *)
(* each symbol can begin with, epsilon among them.  A symbol is its name.  *)
(***************************************************************************)
EXTENDS Integers, Sequences, FiniteSets, SequencesExt

CONSTANT Grammars   \* Grammars[g]: what grammar_parser read from the file g

Epsilon == "epsilon"
EndOfInput == "end_of_input"
Start == "start"

\* Terminals come in groups of one precedence, in increasing order.
Groups(g) == Grammars[g].terminals
Rules(g) == Grammars[g].rules
Listed(g) == FlattenSeq(Groups(g))
Typed(g) == Grammars[g].typed   \* the nonterminals with a context type

\* The first terminal is the one with index 0.
FirstTerminal(g) == Listed(g)[1].value
Terminals(g) == [i \in DOMAIN Listed(g) |-> Listed(g)[i].value] \o <<EndOfInput>>
Nonterminals(g) == Grammars[g].nonterminals \o <<Start>>

Associativity(g, t) ==
  IF t = EndOfInput THEN "none"
  ELSE (CHOOSE x \in ToSet(Listed(g)) : x.value = t).associativity

Precedence(g, t) ==
  (CHOOSE i \in DOMAIN Groups(g) : \E x \in ToSet(Groups(g)[i]) : x.value = t) - 1

\* read_terminal, read_nonterminal, finalize_and_validate: what a grammar must
\* be for the generator to be run on it.
ValidGrammar(g) ==
  LET names == Grammars[g].nonterminals
      values == {x.value : x \in ToSet(Listed(g))}
      known == values \cup ToSet(names)
  IN  /\ names # <<>>
      /\ Cardinality(values) = Len(Listed(g)) /\ values \cap ToSet(names) = {}
      /\ \A r \in ToSet(Rules(g)) :
           /\ r.lhs \in ToSet(names) /\ ToSet(r.rhs) \subseteq known
           /\ r.override # "" => r.override \in values

ASSUME GrammarAssumption == \A g \in DOMAIN Grammars : ValidGrammar(g)

-----------------------------------------------------------------------------
\* The override, or the leftmost terminal that has an associativity.
ProductionPrecedence(g, r) ==
  LET ranked == SelectSeq(r.rhs, LAMBDA s : s \in ToSet(Terminals(g)) /\ Associativity(g, s) # "none")
  IN  IF r.override # "" THEN Precedence(g, r.override)
      ELSE IF ranked # <<>> THEN Precedence(g, ranked[1])
      ELSE -1

\* create_production_set: the rules, and the start rule behind them.
ProductionSet(g) ==
  [terminals |-> Terminals(g), nonterminals |-> Nonterminals(g),
   associativity |-> [t \in ToSet(Terminals(g)) |-> Associativity(g, t)],
   precedence |-> [t \in ToSet(Terminals(g)) \ {EndOfInput} |-> Precedence(g, t)],
   productions |->
     [i \in DOMAIN Rules(g) |->
        [lhs |-> Rules(g)[i].lhs,
         rhs |-> IF Rules(g)[i].rhs = <<>> THEN <<Epsilon>> ELSE Rules(g)[i].rhs,
         precedence |-> ProductionPrecedence(g, Rules(g)[i])]]
     \o <<[lhs |-> Start, rhs |-> <<Nonterminals(g)[1]>>, precedence |-> -1]>>]

\* "If all symbols on the RHS are nullable, then the LHS is also nullable.
\* Repeat this until nothing changes."
NullableSymbols(productions) ==
  LET grown[n \in SUBSET {p.lhs : p \in productions}] ==
        LET more == n \cup {p.lhs : p \in {q \in productions : ToSet(q.rhs) \subseteq n}}
        IN  IF more = n THEN n ELSE grown[more]
  IN  grown[{p.lhs : p \in {q \in productions : q.rhs[1] = Epsilon}}]

\* A mutated Reached: no symbol is taken to be empty.
ReachedFirst(nullable, str) == {1}

\* The positions of a string that only nullable symbols precede.
Reached(nullable, str) == {i \in DOMAIN str : \A j \in 1 .. i - 1 : str[j] \in nullable}

\* compute_symbols_first_set: epsilon is a member wherever it is one of a symbol
\* on the way, whether or not the whole right-hand side can be empty.
FirstSets(productions, nullable, terminals) ==
  LET symbols == terminals \cup {p.lhs : p \in productions}
      begins(f, s) ==
        UNION {UNION {f[p.rhs[i]] : i \in Reached(nullable, p.rhs)} :
                 p \in {q \in productions : q.lhs = s}}
      grown[f \in [symbols -> SUBSET terminals]] ==
        LET more == [s \in symbols |-> f[s] \cup begins(f, s)]
        IN  IF more = f THEN f ELSE grown[more]
  IN  grown[[s \in symbols |-> {s} \cap terminals]]

\* A mutated StringFirstSet: the loop goes on after a symbol that cannot be empty.
StringFirstSetAll(properties, str) == UNION {properties.first[str[i]] : i \in DOMAIN str}

\* compute_symbol_string_first_set
StringFirstSet(properties, str) ==
  UNION {properties.first[str[i]] : i \in Reached(properties.nullable, str)}
=============================================================================

---------------------------- MODULE Derivations -----------------------------
(***************************************************************************)
(* What a grammar means, whatever the parser: the derivation trees of its  *)
(* symbols with at most MaxTokens leaves, the sentences they derive, and   *)
(* the beginnings of sentences.  Every nonterminal derives something.      *)
(***************************************************************************)
EXTENDS Grammar

CONSTANTS
  MaxTokens,   \* bound: tokens of a source file
  MaxHeight    \* bound: height of a derivation tree of that many tokens

Leaf(t) == [rule |-> 0, symbol |-> t, children |-> <<>>]

Short(words) == {w \in words : Len(w) =< MaxTokens}

\* Derived: a tree and its yield.  Forests: lists of trees for a list of symbols.
Forests(trees, rhs) ==
  FoldLeft(LAMBDA done, s :
             {[trees |-> Append(x[1].trees, x[2].tree), yield |-> x[1].yield \o x[2].yield] :
                x \in {y \in done \X trees[s] : Len(y[1].yield) + Len(y[2].yield) =< MaxTokens}},
           {[trees |-> <<>>, yield |-> <<>>]}, rhs)

Taller(g, trees) ==
  [s \in DOMAIN trees |->
     trees[s] \cup UNION {
       {[tree |-> [rule |-> i, symbol |-> s, children |-> f.trees], yield |-> f.yield] :
          f \in Forests(trees, Rules(g)[i].rhs)} : i \in {j \in DOMAIN Rules(g) : Rules(g)[j].lhs = s}}]

Names(g) == ToSet(Terminals(g)) \cup ToSet(Grammars[g].nonterminals)

TreesUpTo(g, height) ==
  FoldLeft(LAMBDA trees, k : Taller(g, trees),
           [s \in Names(g) |->
              IF s \in ToSet(Terminals(g)) THEN {[tree |-> Leaf(s), yield |-> <<s>>]} ELSE {}],
           [k \in 1 .. height |-> k])

Trees == [g \in DOMAIN Grammars |-> TreesUpTo(g, MaxHeight)]

ASSUME DerivationsAssumption ==
  /\ MaxTokens \in Nat
  /\ \A g \in DOMAIN Grammars : Taller(g, Trees[g]) = Trees[g]

Whole(g) == Grammars[g].nonterminals[1]

Sentences == [g \in DOMAIN Grammars |-> {d.yield : d \in Trees[g][Whole(g)]}]

\* The beginnings of what the symbols of a string derive.
Begun(g, begins, rhs) ==
  UNION {Short({f.yield \o w : f \in Forests(Trees[g], SubSeq(rhs, 1, i - 1)), w \in begins[rhs[i]]}) :
           i \in DOMAIN rhs}

Beginnings(g) ==
  LET grown[b \in [Names(g) -> SUBSET Seq(Names(g))]] ==
        LET more == [s \in Names(g) |->
              b[s] \cup UNION {Begun(g, b, r.rhs) : r \in {q \in ToSet(Rules(g)) : q.lhs = s}}]
        IN  IF more = b THEN b ELSE grown[more]
  IN  grown[[s \in Names(g) |->
              IF s \in ToSet(Terminals(g)) /\ MaxTokens > 0 THEN {<<>>, <<s>>} ELSE {<<>>}]]

Openings == [g \in DOMAIN Grammars |-> Beginnings(g)[Whole(g)]]

Ambiguous(g) ==
  \E d, e \in Trees[g][Whole(g)] : d.yield = e.yield /\ d.tree # e.tree
=============================================================================

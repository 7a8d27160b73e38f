---------------------------- MODULE MCLrParser -----------------------------
(***************************************************************************)
(* Instance of LrParser for TLC: small grammars, one for each thing that   *)
(* makes parsing hard, and every source file of at most MaxTokens tokens.  *)
(***************************************************************************)
EXTENDS LrParser

T(v) == [value |-> v, associativity |-> "none"]
L(v) == [value |-> v, associativity |-> "left"]
R(v) == [value |-> v, associativity |-> "right"]

Rule(lhs, rhs) == [lhs |-> lhs, rhs |-> rhs, override |-> "", function |-> FALSE]
Call(lhs, rhs) == [lhs |-> lhs, rhs |-> rhs, override |-> "", function |-> TRUE]

G(groups, nonterminals, typed, rules) ==
  [terminals |-> <<<<T("invalid")>>>> \o groups, nonterminals |-> nonterminals,
   typed |-> typed, rules |-> rules]

MCGrammars == [
  \* Operators of two precedences, a right one below them, a prefix above them.
  sums |-> G(<<<<T("x")>>, <<R("=")>>, <<L("+"), L("-")>>, <<L("*")>>, <<R("neg")>>>>,
             <<"E">>, {"E"},
             <<Rule("E", <<"E", "=", "E">>), Rule("E", <<"E", "+", "E">>),
               Rule("E", <<"E", "-", "E">>), Rule("E", <<"E", "*", "E">>),
               [Rule("E", <<"-", "E">>) EXCEPT !.override = "neg"], Rule("E", <<"x">>)>>),
  \* An else without and with a precedence above that of the if.
  dangling |-> G(<<<<T("if")>>, <<T("else")>>, <<T("x")>>>>, <<"S">>, {},
                 <<Rule("S", <<"if", "S">>), Rule("S", <<"if", "S", "else", "S">>),
                   Rule("S", <<"x">>)>>),
  settled |-> G(<<<<R("if")>>, <<R("else")>>, <<T("x")>>>>, <<"S">>, {},
                <<Rule("S", <<"if", "S">>), Rule("S", <<"if", "S", "else", "S">>),
                  Rule("S", <<"x">>)>>),
  \* LR(1) and not LALR.
  pairs |-> G(<<<<T("u")>>, <<T("v")>>, <<T("c")>>, <<T("d")>>, <<T("e")>>>>,
              <<"S", "A", "B">>, {},
              <<Rule("S", <<"u", "A", "d">>), Rule("S", <<"v", "B", "d">>),
                Rule("S", <<"u", "B", "e">>), Rule("S", <<"v", "A", "e">>),
                Rule("A", <<"c">>), Rule("B", <<"c">>)>>),
  \* Lists as wavelang_grammar.txt has them, with contexts.
  list |-> G(<<<<T("(")>>, <<T(")")>>, <<T("x")>>, <<T(",")>>>>,
             <<"P", "I", "M", "Q">>, {"P", "I", "M"},
             <<Call("P", <<"I">>), Call("I", <<>>), Call("I", <<"I", "Q">>),
               Rule("Q", <<"(", "M", ")">>),
               Call("M", <<"x">>), Call("M", <<"M", ",", "x">>)>>),
  \* Something optional in the middle.
  optional |-> G(<<<<T("t")>>, <<T("=")>>, <<T(";")>>>>, <<"D", "T", "O">>, {"T", "O"},
                 <<Call("D", <<"T", "O", ";">>), Call("T", <<"t">>),
                   Call("O", <<>>), Call("O", <<"=", "t">>)>>),
  \* Nested brackets, empty inside.
  nested |-> G(<<<<T("(")>>, <<T(")")>>>>, <<"S">>, {"S"},
               <<Call("S", <<>>), Call("S", <<"(", "S", ")", "S">>)>>),
  \* Two readings of one token, without and with precedences to choose by.
  readings |-> G(<<<<T("x")>>>>, <<"S", "A", "B">>, {},
                 <<Rule("S", <<"A">>), Rule("S", <<"B">>), Rule("A", <<"x">>), Rule("B", <<"x">>)>>),
  chosen |-> G(<<<<T("x")>>, <<L("low")>>, <<L("high")>>>>, <<"S", "A", "B">>, {},
               <<Rule("S", <<"A">>), Rule("S", <<"B">>),
                 [Rule("A", <<"x">>) EXCEPT !.override = "low"],
                 [Rule("B", <<"x">>) EXCEPT !.override = "high"]>>),
  \* LR(1), but with symbols that can be empty behind the two readings of c.
  empty |-> G(<<<<T("u")>>, <<T("c")>>, <<T("x")>>, <<T("y")>>, <<T("d")>>, <<T("e")>>>>,
              <<"S", "A", "B", "X", "Y">>, {},
              <<Rule("S", <<"u", "A", "X", "d">>), Rule("S", <<"u", "B", "Y", "e">>),
                Rule("A", <<"c">>), Rule("B", <<"c">>),
                Rule("X", <<>>), Rule("X", <<"x">>), Rule("Y", <<>>), Rule("Y", <<"y">>)>>),
  \* An operator that cannot be repeated.
  compared |-> G(<<<<T("x")>>, <<[value |-> "<", associativity |-> "nonassoc"]>>>>,
                 <<"E">>, {},
                 <<Rule("E", <<"E", "<", "E">>), Rule("E", <<"x">>)>>)]
=============================================================================

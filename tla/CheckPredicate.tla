--------------------------- MODULE CheckPredicate ---------------------------
(***************************************************************************)
(* The CHECK constraint grammar of streamed DDL                            *)
(* (src/live/ddl_semantics/transform/check_constraint.rs): tokens are      *)
(* parsed by recursive descent into a predicate, which is rendered for     *)
(* MySQL and compared as structure.                                        *)
(*                                                                         *)
(* The tokens are AND, OR, =, the parentheses and the atoms: string        *)
(* comparisons, which are unknown for a NULL, and IS NULL tests.  The      *)
(* other atoms, JSON_VALID, OCTET_LENGTH and IN, stand where a comparison  *)
(* stands but are no operands of =.  A predicate is a tuple: <<atom>> or   *)
(* <<operator, left, right>>.                                              *)
(***************************************************************************)
EXTENDS Naturals, Sequences, SequencesExt, FiniteSetsExt

CONSTANTS Comparisons, NullTests

RECURSIVE Conjunction(_, _), MoreAnd(_, _, _), BooleanTerm(_, _), GroupOrAtom(_, _), MoreOr(_, _, _)
RECURSIVE Disjuncts(_, _, _), Render(_), SqlValue(_, _), TreeValue(_, _)

Atoms == Comparisons \cup NullTests
Fail == [ok |-> FALSE, tree |-> <<>>, next |-> 0]
Parsed(tree, next) == [ok |-> TRUE, tree |-> tree, next |-> next]
Then(r, Op(_, _)) == IF r.ok THEN Op(r.tree, r.next) ELSE Fail
At(tokens, i, token) == i \in DOMAIN tokens /\ tokens[i] = token

parse_predicate(tokens, i) ==
  IF i \in DOMAIN tokens /\ tokens[i] \in Atoms THEN Parsed(<<tokens[i]>>, i + 1) ELSE Fail

MoreOr(tokens, left, i) ==
  IF ~At(tokens, i, "OR") THEN Parsed(left, i)
  ELSE Then(Conjunction(tokens, i + 1), LAMBDA right, j : MoreOr(tokens, <<"or", left, right>>, j))

(* parse_group_or_atom *)
GroupOrAtom(tokens, i) ==
  IF ~At(tokens, i, "(") THEN parse_predicate(tokens, i)
  ELSE Then(Then(Conjunction(tokens, i + 1), LAMBDA first, j : MoreOr(tokens, first, j)),
            LAMBDA all, j : IF At(tokens, j, ")") THEN Parsed(all, j + 1) ELSE Fail)

(* parse_boolean_term: = only between a comparison and an IS NULL test,    *)
(* both in parentheses                                                     *)
Equality(left, right, next) ==
  IF \E c \in Comparisons, n \in NullTests : {left, right} = {<<c>>, <<n>>}
  THEN Parsed(<<"=", left, right>>, next) ELSE Fail
BooleanTerm(tokens, i) ==
  Then(GroupOrAtom(tokens, i), LAMBDA left, j :
    IF ~At(tokens, j, "=") THEN Parsed(left, j)
    ELSE IF At(tokens, i, "(") /\ At(tokens, j + 1, "(")
    THEN Then(GroupOrAtom(tokens, j + 1), LAMBDA right, k : Equality(left, right, k))
    ELSE Fail)

MoreAnd(tokens, left, i) ==
  IF ~At(tokens, i, "AND") THEN Parsed(left, i)
  ELSE Then(BooleanTerm(tokens, i + 1), LAMBDA right, j : MoreAnd(tokens, <<"and", left, right>>, j))

(* parse_conjunction *)
Conjunction(tokens, i) ==
  Then(BooleanTerm(tokens, i), LAMBDA left, j : MoreAnd(tokens, left, j))

(* The disjuncts of parse_named_check, from token i to the closing parenthesis *)
Disjuncts(tokens, i, before) ==
  Then(Conjunction(tokens, i), LAMBDA one, j :
    IF At(tokens, j, ")") THEN Parsed(Append(before, one), j + 1)
    ELSE IF At(tokens, j, "OR") THEN Disjuncts(tokens, j + 1, Append(before, one))
    ELSE Fail)

(* parse_named_check of a whole definition: CHECK ( tokens ) *)
parse_named_check(tokens) ==
  Then(Disjuncts(tokens \o <<")">>, 1, <<>>),
       LAMBDA body, j : IF j = Len(tokens) + 2 THEN Parsed(body, j) ELSE Fail)

-----------------------------------------------------------------------------
(* Rendering and comparison *)

OperatorName(tree) == CASE tree[1] = "and" -> "AND" [] tree[1] = "or" -> "OR" [] OTHER -> "="

(* render_predicate of an operator *)
RenderOperator(tree) ==
  <<"(">> \o Render(tree[2]) \o <<")", OperatorName(tree), "(">> \o Render(tree[3]) \o <<")">>
Render(tree) == IF Len(tree) = 1 THEN tree ELSE RenderOperator(tree)

render_check_constraint(disjuncts) ==
  FoldLeft(LAMBDA text, d : text \o <<"OR">> \o Render(d), Render(Head(disjuncts)), Tail(disjuncts))

(* The structure of a constraint: its disjuncts under nested ORs *)
Structure(disjuncts) == FoldLeft(LAMBDA left, right : <<"or", left, right>>, Head(disjuncts), Tail(disjuncts))

(* canonical_check_expression: of the clause that the server reports *)
canonical_check_expression(clause) ==
  LET OrUnmodelled(constraint) == IF constraint.ok THEN Structure(constraint.tree) ELSE <<"unmodelled">>
  IN OrUnmodelled(parse_named_check(clause))

-----------------------------------------------------------------------------
(* What SQL means: OR binds weaker than AND, AND weaker than =, all from   *)
(* the left, with 0 for false, 1 for unknown and 2 for true.               *)

SqlOr(a, b) == Max({a, b})
SqlAnd(a, b) == Min({a, b})
SqlEquals(a, b) == IF 1 \in {a, b} THEN 1 ELSE IF a = b THEN 2 ELSE 0

Depth(tokens, i) ==
  Cardinality({j \in 1 .. i : tokens[j] = "("}) - Cardinality({j \in 1 .. i : tokens[j] = ")"})
Splits(tokens, operator) == {i \in DOMAIN tokens : tokens[i] = operator /\ Depth(tokens, i) = 0}

SqlValue(tokens, env) ==
  LET Part(operator, Op(_, _)) ==
        LET i == Max(Splits(tokens, operator))
        IN Op(SqlValue(SubSeq(tokens, 1, i - 1), env), SqlValue(SubSeq(tokens, i + 1, Len(tokens)), env))
  IN CASE Splits(tokens, "OR") # {} -> Part("OR", SqlOr)
       [] Splits(tokens, "OR") = {} /\ Splits(tokens, "AND") # {} -> Part("AND", SqlAnd)
       [] Splits(tokens, "OR") = {} /\ Splits(tokens, "AND") = {} /\ Splits(tokens, "=") # {} -> Part("=", SqlEquals)
       [] OTHER -> IF tokens[1] = "(" THEN SqlValue(SubSeq(tokens, 2, Len(tokens) - 1), env) ELSE env[tokens[1]]

TreeValue(tree, env) ==
  IF Len(tree) = 1 THEN env[tree[1]]
  ELSE LET left == TreeValue(tree[2], env)
           right == TreeValue(tree[3], env)
       IN CASE tree[1] = "or" -> SqlOr(left, right)
            [] tree[1] = "and" -> SqlAnd(left, right)
            [] OTHER -> SqlEquals(left, right)
=============================================================================

-------------------------- MODULE RuleExpressions --------------------------
(***************************************************************************)
(* The small interpreters of the backend: the expressions in the rules of  *)
(* an action type (action_executor.py, SafeExprEvaluator), the policies of *)
(* the embedded evaluator (opa_client.py, _SafeEval), and beside them the  *)
(* Filter node of module Filters, which has the values.                    *)
(*                                                                         *)
(* An expression is the syntax tree that ast.parse returns, written as the *)
(* sequence of its nodes: each after its parts, which it names by their    *)
(* places, and the root last.                                              *)
(*                                                                         *)
(* A job is one call of _validate_rules, of OPAClient.evaluate, or the     *)
(* filters of one item.                                                    *)
(***************************************************************************)
EXTENDS Filters

\* A scope has the values of its names, and the items of its dictionaries by
\* their keys; an item of the object is a column of its row.
CONSTANTS
  RuleJobs,     \* records [rules, scope]: the rules of an action type
  PolicyJobs,   \* records [bundle, scope]: the policies, and the input
  Nesting       \* how deep lists hold lists

Numbered(s) == Len(s) \in Nat /\ DOMAIN s = 1..Len(s)

Kinds == {"Constant", "Name", "Item", "List", "BinOp", "USub", "Compare", "BoolOp", "IfExp", "Not", "Call"}

Shaped(n) ==
  /\ n.node \in Kinds
  /\ Numbered(n.kids)
  /\ n.node = "BoolOp" => Len(n.kids) > 1
  /\ n.node = "IfExp" => Len(n.kids) = 3
  /\ n.node = "BinOp" => Len(n.kids) = 2
  /\ n.node \in {"Item", "USub", "Not", "Call"} => Len(n.kids) = 1
  /\ n.node = "Compare" => Numbered(n.ops) /\ Len(n.ops) > 0 /\ Len(n.kids) = Len(n.ops) + 1

Tree(e) ==
  /\ Numbered(e) /\ Len(e) > 0
  /\ \A i \in DOMAIN e : Shaped(e[i]) /\ \A k \in DOMAIN e[i].kids : e[i].kids[k] \in 1..(i - 1)

\* A bundle holds policies, a policy lines, and a line the operands of its "or"
\* and perhaps a comment behind them.
ASSUME RuleAssumption ==
  /\ Nesting \in Nat
  /\ \A j \in RuleJobs :
       /\ Numbered(j.rules)
       /\ \A i \in DOMAIN j.rules : j.rules[i].rule_type = "expression" => Tree(j.rules[i].policy)
  /\ \A j \in PolicyJobs :
       /\ Numbered(j.bundle)
       /\ \A r \in DOMAIN j.bundle :
            /\ Numbered(j.bundle[r]) /\ Len(j.bundle[r]) > 0
            /\ \A l \in DOMAIN j.bundle[r] :
                 /\ Numbered(j.bundle[r][l].operands)
                 /\ \A d \in DOMAIN j.bundle[r][l].operands : Tree(j.bundle[r][l].operands[d])

VARIABLE
  verdict       \* what the caller is told, Untold before

ruleVars == <<filterVars, verdict>>

-----------------------------------------------------------------------------
(* What expressions evaluate to beside the values of a property.            *)

\* Elements are only compared, so a flag among them may stand as its number.
List(s)    == <<"list", [i \in DOMAIN s |-> IF Number(s[i]) THEN Num(s[i][2]) ELSE s[i]]>>
Dict(keys) == <<"dict", keys>>
Object     == <<"object", 1>>
Raises     == <<"raises", 0>>

Raised(v)     == v[1] = "raises"
AnyRaised(vs) == \E i \in DOMAIN vs : Raised(vs[i])

-----------------------------------------------------------------------------
(* What both evaluators share.                                              *)

First(S) == CHOOSE i \in S : \A j \in S : i <= j

Lists(p) == p[1][1] = "list" /\ p[2][1] = "list"

\* Where two lists differ.
Apart(p) == {i \in DOMAIN p[1][2] \cap DOMAIN p[2][2] : ~Equal(p[1][2][i], p[2][2][i])}

\* Two lists are ordered by the first elements in which they differ, and by their
\* lengths when one begins with the other.
Elements(p, i) == <<p[1][2][i], p[2][2][i]>>
Differing(p) ==
  IF Lists(p) /\ Apart(p) # {} THEN Elements(p, First(Apart(p))) ELSE p
Lengths(p) ==
  IF Lists(p) THEN <<Num(Len(p[1][2])), Num(Len(p[2][2]))>> ELSE p

\* What decides the order of two values.
Deciders(p) ==
  LET D[n \in 0..Nesting] == IF n = 0 THEN p ELSE Differing(D[n - 1])
  IN  Lengths(D[Nesting])

InOrder(op, p) ==
  IF Comparable(p[1], p[2]) THEN Bool(Below(p[1], p[2]) \/ (op = "<=" /\ Equal(p[1], p[2]))) ELSE Raises

\* An element of a list, or a key of a dictionary, which has none that cannot
\* be hashed.
Holding(v, a) == \E i \in DOMAIN v[2] : Equal(a, v[2][i])
Hashable(a)   == a[1] \notin {"list", "dict"}

\* A comparison by its operator.  Membership of None is asked without an
\* error by the policies only.
Compared(who, op, a, b) ==
  IF op = "==" THEN Bool(Equal(a, b))
  ELSE IF op = "!=" THEN Bool(~Equal(a, b))
  ELSE IF op \in {"<", "<="} THEN InOrder(op, Deciders(<<a, b>>))
  \* "in"
  ELSE IF b[1] = "list" \/ (b[1] = "dict" /\ Hashable(a)) THEN Bool(Holding(b, a))
  ELSE IF a[1] = "str" /\ b[1] = "str" THEN Bool(Within(a, b))
  ELSE IF b = None /\ who = "policies" THEN Bool(FALSE) ELSE Raises

Pair(who, op, a, b) == IF Raised(a) \/ Raised(b) THEN Raises ELSE Compared(who, op, a, b)

\* Pair by pair, until one is false or fails.
UntilFalse(pairs) ==
  LET stops == {i \in DOMAIN pairs : Raised(pairs[i]) \/ ~Truth(pairs[i])}
  IN  IF stops = {} THEN Bool(TRUE) ELSE pairs[First(stops)]

\* Mutant of Chain: each comparison starts from the first operand.
ChainFromFirst(who, ops, vs) ==
  UntilFalse([i \in DOMAIN ops |-> Pair(who, ops[i], vs[1], vs[i + 1])])

\* a < b < c
Chain(who, ops, vs) ==
  UntilFalse([i \in DOMAIN ops |-> Pair(who, ops[i], vs[i], vs[i + 1])])

\* The operand that decides a join: the first false one of an "and", the
\* first true one of an "or", else the last.
Deciding(op, vs) ==
  LET at == {i \in DOMAIN vs : Raised(vs[i]) \/ Truth(vs[i]) = (op = "or")}
  IN  IF at = {} THEN vs[Len(vs)] ELSE vs[First(at)]

Floor(a, b) == IF b > 0 THEN a \div b ELSE (-a) \div (-b)
Arithmetic(op, a, b) ==
  IF ~(Number(a) /\ Number(b)) \/ (op = "//" /\ b[2] = 0) THEN Raises
  ELSE Num(IF op = "-" THEN a[2] - b[2] ELSE Floor(a[2], b[2]))

\* base[key] and base.key: a dictionary has items, the object row has columns.
ItemOf(base, how, key, scope) ==
  IF \/ base[1] = "dict" /\ how = "Subscript" /\ Holding(base, key)
     \/ base = Object /\ how = "Attribute" /\ key \in DOMAIN scope.items
  THEN scope.items[key] ELSE Raises

-----------------------------------------------------------------------------
(* SafeExprEvaluator: the rules of an action type.  Every call fails: it    *)
(* looks the function up as an attribute of __builtins__, which is a        *)
(* dictionary in an imported module.  "not" is not among ALLOWED_OPS.       *)

\* The value of a node, from the values of its parts.
VisitNode(n, vs, scope) ==
  IF n.node = "Constant" THEN n.value
  ELSE IF n.node = "Name" THEN IF n.id \in DOMAIN scope.names THEN scope.names[n.id] ELSE Raises
  ELSE IF n.node = "Compare" THEN Chain("rules", n.ops, vs)
  ELSE IF n.node = "IfExp"
       THEN IF Raised(vs[1]) THEN Raises ELSE IF Truth(vs[1]) THEN vs[2] ELSE vs[3]
  ELSE IF n.node \in {"Not", "Call"} \/ AnyRaised(vs) THEN Raises
  ELSE IF n.node = "Item"  THEN ItemOf(vs[1], n.how, n.key, scope)
  ELSE IF n.node = "List"  THEN List(vs)
  ELSE IF n.node = "BinOp" THEN Arithmetic(n.op, vs[1], vs[2])
  ELSE IF n.node = "USub"  THEN Arithmetic("-", Num(0), vs[1])
  \* "BoolOp"
  ELSE IF Len(vs) = 2 THEN Deciding(n.op, vs) ELSE Bool(Truth(Deciding(n.op, vs)))

-----------------------------------------------------------------------------
(* _SafeEval: the policies.  What is not there is None; only count() can be *)
(* called; a conditional and a minus sign are refused.                      *)

Count(v) ==
  IF v = None THEN Num(0)
  ELSE IF v[1] \in {"list", "dict"} THEN Num(Len(v[2]))
  ELSE IF v[1] = "str" THEN Num(v[2])
  ELSE Raises

Evaluate(n, vs, scope) ==
  IF n.node = "Constant" THEN n.value
  ELSE IF n.node = "Name" THEN IF n.id \in DOMAIN scope.names THEN scope.names[n.id] ELSE None
  ELSE IF n.node = "Compare" THEN Chain("policies", n.ops, vs)
  ELSE IF n.node \in {"IfExp", "USub"} \/ AnyRaised(vs) THEN Raises
  ELSE IF n.node = "Item"
       THEN IF vs[1] = None THEN None
            ELSE IF vs[1][1] # "dict" THEN Raises
            ELSE IF Holding(vs[1], n.key) THEN scope.items[n.key] ELSE None
  ELSE IF n.node = "List"   THEN List(vs)
  ELSE IF n.node = "BinOp"  THEN IF n.op = "//" THEN Raises ELSE Arithmetic(n.op, vs[1], vs[2])
  ELSE IF n.node = "BoolOp" THEN Deciding(n.op, vs)
  ELSE IF n.node = "Not"    THEN Bool(~Truth(vs[1]))
  \* "Call"
  ELSE IF n.func = "count" THEN Count(vs[1]) ELSE Raises

\* What Python's eval would answer, where it answers otherwise than VisitNode:
\* "and" and "or" stop at the operand that decides and return it, a < b < c
\* is a < b and b < c, and "not" and len() work.
Python(n, vs, scope) ==
  IF n.node = "BoolOp" THEN Deciding(n.op, vs)
  ELSE IF n.node = "Compare"
       THEN Deciding("and", [i \in DOMAIN n.ops |-> Pair("rules", n.ops[i], vs[i], vs[i + 1])])
  ELSE IF n.node \in {"Not", "Call"}
       THEN IF Raised(vs[1]) THEN Raises
            ELSE IF n.node = "Not" THEN Bool(~Truth(vs[1]))
            ELSE IF vs[1][1] \in {"list", "str", "dict"} THEN Count(vs[1]) ELSE Raises
  ELSE VisitNode(n, vs, scope)

NodeValue(who, n, vs, scope) ==
  IF who = "rules" THEN VisitNode(n, vs, scope)
  ELSE IF who = "policies" THEN Evaluate(n, vs, scope)
  ELSE Python(n, vs, scope)

\* The value of every node of an expression, and that of its root.
Values(who, e, scope) ==
  LET V[i \in DOMAIN e] ==
        NodeValue(who, e[i], [k \in DOMAIN e[i].kids |-> V[e[i].kids[k]]], scope)
  IN  V
Value(who, e, scope) == Values(who, e, scope)[Len(e)]

-----------------------------------------------------------------------------
(* The jobs.                                                                *)

\* A rule of another type than "expression" is not looked at.
RuleValue(rule, scope) ==
  IF rule.rule_type # "expression" THEN Bool(TRUE) ELSE Value("rules", rule.policy, scope)

\* The lines of a policy are joined by the word "and" before they are parsed,
\* so a comment swallows the lines after its own.
Reached(lines) == {l \in DOMAIN lines : \A m \in 1..(l - 1) : ~lines[m].comment}

\* One line that does not parse (it has no operands, or is a comment alone)
\* empties the whole bundle: every action passes.
Parsed(bundle) ==
  LET rules == [r \in DOMAIN bundle |-> [l \in Reached(bundle[r]) |-> bundle[r][l].operands]]
  IN  IF \E r \in DOMAIN rules : \E l \in DOMAIN rules[r] : Len(rules[r][l]) = 0 THEN <<>> ELSE rules

\* The join binds the last operand of a line to the first of the next.  So a
\* term of the joined expression begins at an operand after an "or", and goes
\* on through the lines that have no "or".
Places(lines) == UNION {{l} \X (DOMAIN lines[l]) : l \in DOMAIN lines}
Begins(p)     == p[2] > 1 \/ p = <<1, 1>>
Term(lines, s) ==
  {p \in Places(lines) :
     \/ p = s
     \/ /\ s[2] = Len(lines[s[1]]) /\ s[1] < p[1] /\ p[2] = 1
        /\ \A l \in (s[1] + 1)..(p[1] - 1) : Len(lines[l]) = 1}

\* The truth of a policy; the evaluator visits every operand.
Joined(lines, scope) ==
  LET val == [p \in Places(lines) |-> Value("policies", lines[p[1]][p[2]], scope)]
  IN  IF AnyRaised(val) THEN Raises
      ELSE Bool(\E s \in Places(lines) : Begins(s) /\ \A p \in Term(lines, s) : Truth(val[p]))

Untold == <<"untold", 0>>

RuleInit ==
  /\ \/ (\E j \in RuleJobs : job = [kind |-> "rules", call |-> j]) /\ seen = <<>>
     \/ (\E j \in PolicyJobs : job = [kind |-> "policies", call |-> j]) /\ seen = <<>>
     \/ FilterInit
  /\ verdict = Untold

\* _validate_rules raises after its first rule, whatever that is worth: the
\* record of the evaluation it builds has not the fields the schema asks for.
ValidateRule ==
  /\ job.kind = "rules"
  /\ verdict = Untold
  /\ Len(job.call.rules) > 0
  /\ seen' = <<RuleValue(job.call.rules[1], job.call.scope)>>
  /\ verdict' = Raises
  /\ UNCHANGED job

NoRules ==
  /\ job.kind = "rules"
  /\ verdict = Untold
  /\ Len(job.call.rules) = 0
  /\ verdict' = Bool(TRUE)
  /\ UNCHANGED <<job, seen>>

\* Mutant of Denies: a policy that raises denies.
DeniesOnError(v) == Raised(v) \/ ~Truth(v)

\* A policy whose evaluation fails allows.
Denies(v) == ~Raised(v) /\ ~Truth(v)

\* OPAClient.evaluate, one rule: the first that denies is reported.
EvaluatePolicy ==
  LET rules == Parsed(job.call.bundle)
  IN  /\ job.kind = "policies"
      /\ verdict = Untold
      /\ Next1 \in DOMAIN rules
      /\ LET v == Joined(rules[Next1], job.call.scope)
         IN  /\ seen' = Append(seen, v)
             /\ verdict' = IF Denies(v) THEN <<"denied", Next1>> ELSE Untold
      /\ UNCHANGED job

PolicyAllows ==
  /\ job.kind = "policies"
  /\ verdict = Untold
  /\ Len(seen) = Len(Parsed(job.call.bundle))
  /\ verdict' = <<"allow", 0>>
  /\ UNCHANGED <<job, seen>>

FilterItem == ApplyFilter /\ UNCHANGED verdict

RuleNext == ValidateRule \/ NoRules \/ EvaluatePolicy \/ PolicyAllows \/ FilterItem

RuleSpec == RuleInit /\ [][RuleNext]_ruleVars

-----------------------------------------------------------------------------
(* What the properties say of an expression.                                *)

\* A node with its parts and theirs: the least set that holds the parts of
\* its nodes.
Parts(e, i) ==
  {j \in DOMAIN e :
     \A S \in SUBSET DOMAIN e :
       i \in S /\ (\A x \in S : \A k \in DOMAIN e[x].kids : e[x].kids[k] \in S) => j \in S}

\* A join of three or more operands answers a flag, not its operand.
Long(n) == n.node = "BoolOp" /\ Len(n.kids) > 2
LongWithin(e, i) ==
  \E x \in Parts(e, i) : /\ e[x].node \in {"Compare", "BinOp", "USub", "Item", "List"}
                          /\ \E y \in Parts(e, x) : Long(e[y])

\* Nothing a rule may not use, and no operand that fails when it is reached
\* although Python would have stopped before it.
Strict(e, i, scope) ==
  LET py == Values("python", e, scope)
  IN  \A x \in Parts(e, i) :
        /\ e[x].node \notin {"Not", "Call"}
        /\ e[x].node = "BoolOp" => \A k \in DOMAIN e[x].kids : ~Raised(py[e[x].kids[k]])

-----------------------------------------------------------------------------
(* Properties.                                                              *)

\* The evaluator stands in for eval (action_executor.py:34-37).  When it gives
\* a value, Python gives one of the same truth, except where a comparison reads
\* a join of three operands; and it fails only where Python fails, on "not",
\* on a call, or on an operand Python would not have reached.
RuleAsPython ==
  job.kind = "rules" =>
    \A i \in DOMAIN seen :
      LET rule  == job.call.rules[i]
          e     == rule.policy
          scope == job.call.scope
          py    == Value("python", e, scope)
      IN  rule.rule_type = "expression" =>
            /\ ~Raised(seen[i]) /\ ~LongWithin(e, Len(e)) => ~Raised(py) /\ Truth(py) = Truth(seen[i])
            /\ Raised(seen[i]) /\ Strict(e, Len(e), scope) /\ ~LongWithin(e, Len(e)) => Raised(py)

\* Of the lines of a policy up to the first with a comment: it denies only when
\* each of them can be evaluated and one is false; when no line holds an "or",
\* the action is denied by exactly the first such policy, whatever the policies
\* that fail to evaluate say (opa_client.py:120-127, 289-291, 307-312).
PolicyByLines ==
  job.kind = "policies" /\ verdict # Untold =>
    LET bundle == job.call.bundle
        Operands(r, l) == DOMAIN bundle[r][l].operands
        Of(r, l, d) == Value("policies", bundle[r][l].operands[d], job.call.scope)
        Sound(r) == \A l \in Reached(bundle[r]) : \A d \in Operands(r, l) : ~Raised(Of(r, l, d))
        Holds(r, l) == \E d \in Operands(r, l) : Truth(Of(r, l, d))
        False(r) == Sound(r) /\ \E l \in Reached(bundle[r]) : ~Holds(r, l)
        Plain(r) == \A l \in Reached(bundle[r]) : Len(bundle[r][l].operands) = 1
    IN  /\ verdict[1] = "denied" => False(verdict[2])
        /\ (\A r \in DOMAIN bundle : Plain(r)) =>
             verdict = IF \E r \in DOMAIN bundle : False(r)
                       THEN <<"denied", CHOOSE r \in DOMAIN bundle :
                                          False(r) /\ \A s \in 1..(r - 1) : ~False(s)>>
                       ELSE <<"allow", 0>>
=============================================================================

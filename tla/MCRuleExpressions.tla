------------------------- MODULE MCRuleExpressions -------------------------
(***************************************************************************)
(* Bounded rules, policies and filters.  Rules: every comparison of one or *)
(* two operators over seven operands, and of lists, every join of two or   *)
(* three operands out of nine, and what joins may hold.  Policies: bundles *)
(* of one and two rules, of one and two lines, some with a comment.        *)
(* Filters: every pair of values.                                          *)
(***************************************************************************)
EXTENDS RuleExpressions, SequencesExt

\* The node n over its parts: the nodes of each part move behind those before it.
Over(n, parts) ==
  LET Moved(e, by) == [i \in DOMAIN e |-> [e[i] EXCEPT !.kids = [k \in DOMAIN @ |-> @[k] + by]]]
      all == FoldLeft(LAMBDA done, e :
                        [nodes |-> done.nodes \o Moved(e, Len(done.nodes)),
                         roots |-> Append(done.roots, Len(done.nodes) + Len(e))],
                      [nodes |-> <<>>, roots |-> <<>>], parts)
  IN  Append(all.nodes, [kids |-> all.roots] @@ n)

C(v)           == Over([node |-> "Constant", value |-> v], <<>>)
N(x)           == Over([node |-> "Name", id |-> x], <<>>)
It(b, how, k)  == Over([node |-> "Item", how |-> how, key |-> k], <<b>>)
Cmp(a, ops, b) == Over([node |-> "Compare", ops |-> ops], <<a>> \o b)
Jn(op, es)     == Over([node |-> "BoolOp", op |-> op], es)
Neg(e)         == Over([node |-> "Not"], <<e>>)
Fn(f, e)       == Over([node |-> "Call", func |-> f], <<e>>)
If(t, b, o)    == Over([node |-> "IfExp"], <<t, b, o>>)
Ar(op, a, b)   == Over([node |-> "BinOp", op |-> op], <<a, b>>)
Minus(e)       == Over([node |-> "USub"], <<e>>)
Lst(es)        == Over([node |-> "List"], es)

\* The item the object has, one it has not, and a column of the object.
K == Str(1)
M == Str(2)
Present == It(N("properties"), "Subscript", K)
Missing == It(N("properties"), "Subscript", M)
Column  == It(N("obj"), "Attribute", K)

\* An object with a property, and none at all.
Scopes == {[names |-> [properties |-> Dict(<<K>>), obj |-> Object], items |-> K :> v] :
             v \in {None, Num(1), Str(0), List(<<Bool(TRUE)>>)}}
            \union {[names |-> [properties |-> Dict(<<>>), obj |-> None], items |-> <<>>]}

Simple   == {C(Num(0)), C(Num(1)), C(K), C(Bool(TRUE)), Present, Missing, N("properties")}
Operands == Simple \union {Lst(<<C(Num(1))>>), Lst(<<C(Num(1)), C(K)>>)}
Ops      == {"==", "!=", "<", "<=", "in"}
Plain    == {C(Num(0)), C(Num(1)), C(K)}

Comparisons ==
  {Cmp(a, <<o>>, <<b>>) : a \in Operands, o \in Ops, b \in Operands \union {Column}}
    \union {Cmp(a, <<o, p>>, <<b, c>>) : a \in Simple, o \in {"<", "=="}, p \in {"<=", "in"},
                                           b \in Simple, c \in Simple}

Joinable == {C(Num(0)), C(Num(2)), C(None), Present, Missing, Column,
             Cmp(Present, <<"==">>, <<C(Num(1))>>), Neg(Present), Fn("len", N("properties"))}

Joins == {Jn(o, <<a, b>>) : o \in {"and", "or"}, a \in Joinable, b \in Joinable}
           \union {Jn(o, <<a, b, c>>) : o \in {"and", "or"}, a \in Joinable, b \in Joinable, c \in Joinable}

Short == {Jn("or", <<C(Num(2)), Present>>), Jn("and", <<Present, C(Num(2)), C(Num(1))>>)}

Others ==
  {Cmp(j, <<"==">>, <<C(Num(2))>>) : j \in Short}
    \union {If(t, b, C(Num(0))) : t \in Joinable, b \in Joinable}
    \union {Ar(o, C(Num(1)), r) : o \in {"-", "//"}, r \in Operands}
    \union {Minus(r) : r \in Operands}
    \union {Cmp(r, <<"in">>, <<Lst(<<C(Num(1)), s>>)>>) : r \in Operands, s \in Simple}
    \union {Cmp(Lst(<<Lst(<<C(Num(1)), a>>), b>>), <<o>>, <<Lst(<<Lst(<<c>>), C(Num(0))>>)>>) :
              o \in {"<", "<="}, a \in Plain, b \in Plain, c \in Plain}
    \union {N("unknown"), It(N("properties"), "Attribute", K)}

Expression(e) == [rule_type |-> "expression", policy |-> e]
Opa           == [rule_type |-> "opa", policy |-> N("unknown")]

MCRuleJobs ==
  {[rules |-> <<Expression(e)>>, scope |-> s] : e \in Comparisons \union Joins \union Others, s \in Scopes}
    \union {[rules |-> <<Opa, Expression(e)>>, scope |-> s] : e \in Joinable, s \in Scopes}
    \union {[rules |-> <<>>, scope |-> s] : s \in Scopes}

\* The input's item, an unknown one, what fails, and the negations.
In(k)  == It(N("input"), "Attribute", k)
Atoms  == {In(K), Neg(In(K)), Cmp(In(K), <<"<=">>, <<C(Num(1))>>),
           Cmp(Fn("count", In(M)), <<"<=">>, <<C(Num(0))>>), Cmp(C(Num(1)), <<"in">>, <<In(M)>>),
           Cmp(C(K), <<"in">>, <<N("input")>>)}
Failing == {Fn("len", In(K)), It(In(K), "Subscript", K), Minus(C(Num(1)))}

Line(s)      == [operands |-> s, comment |-> FALSE]
Commented(s) == [operands |-> s, comment |-> TRUE]

Operanded == {<<a>> : a \in Atoms \union Failing} \union {<<a, b>> : a \in Atoms, b \in Atoms}
Lines == {Line(s) : s \in Operanded}
Alone == {Line(<<a>>) : a \in Atoms \union Failing}
Policies == {<<l>> : l \in Lines} \union {<<l, m>> : l \in Lines, m \in Lines}
              \union {<<Commented(s), m>> : s \in Operanded, m \in Alone}
Inputs == {[names |-> [input |-> Dict(<<K>>)], items |-> K :> v] : v \in {None, Num(1), Num(2), Str(1)}}

\* &&, || and ! of the module's own comment (opa_client.py:39) do not parse; nor
\* does a comment alone, but behind another comment nothing is parsed.
False    == Line(<<C(Num(0))>>)
Unparsed == Line(<<>>)
Broken   == {<<<<False>>, <<Unparsed>>>>, <<<<False, Commented(<<>>)>>>>, <<<<Commented(<<C(Num(0))>>), Unparsed>>>>}

MCPolicyJobs ==
  {[bundle |-> <<p>>, scope |-> s] : p \in Policies, s \in Inputs}
    \union {[bundle |-> <<<<l>>, <<m>>>>, scope |-> s] : l \in Lines, m \in Alone, s \in Inputs}
    \union {[bundle |-> b, scope |-> s] : b \in Broken \union {<<>>}, s \in Inputs}

MCFilterJobs ==
  LET Comparands == {None, Num(0), Num(1), Bool(TRUE), Str(0), Str(2), <<"text:int", 1>>, <<"text:bool", 0>>,
                 <<"text:bool", 1>>, <<"text:nan", 0>>, <<"text:padded", 2>>}
  IN  [item : Comparands, value : Comparands]
=============================================================================

------------------------------ MODULE Filters ------------------------------
(***************************************************************************)
(* The Filter node of a Workshop app (services/workshop_runtime_helpers.py)*)
(* and the values it compares.  A job is one property of an item under     *)
(* every operator, one after the other, with the filter's value.           *)
(*                                                                         *)
(* Values are typed numbers: the number of a text stands for its place     *)
(* among the texts, and a number, a flag or a text with blanks around it   *)
(* may be written as a text too.                                           *)
(***************************************************************************)
EXTENDS Integers, Sequences

CONSTANT FilterJobs   \* records [item, value]: a property, and the filter's value

None     == <<"none", 0>>
Bool(b)  == <<"bool", IF b THEN 1 ELSE 0>>
Num(n)   == <<"int", n>>
Str(n)   == <<"str", n>>              \* Str(0) is the empty text
NaN      == <<"nan", 1>>

(* What JSON holds in a property or a filter's value, maps and lists apart *)
Written   == {"bool", "int", "str", "text:int", "text:bool", "text:nan", "text:padded"}
Comparand == (Written \X Int) \cup {None, NaN}

ASSUME FilterAssumption == FilterJobs \subseteq [item : Comparand, value : Comparand]

VARIABLES
  job,          \* what was called
  seen          \* the values computed so far, in order

filterVars == <<job, seen>>

-----------------------------------------------------------------------------
(* Comparisons.                                                             *)

Number(v) == v[1] \in {"bool", "int"}
Truth(v)  == IF v[1] \in {"list", "dict"} THEN v[2] # <<>> ELSE v[2] # 0

\* Python's ==: a flag is a number, and nothing equals nan.
Equal(a, b) ==
  /\ NaN \notin {a, b}
  /\ \/ a[1] = b[1]
     \/ Number(a) /\ Number(b)
  /\ a[2] = b[2]

\* Python's < on values it can order; on others it raises TypeError.
Comparable(a, b) ==
  LET Real(v) == Number(v) \/ v = NaN
  IN  \/ a[1] = "str" /\ b[1] = "str"
      \/ Real(a) /\ Real(b)
Below(a, b) == NaN \notin {a, b} /\ a[2] < b[2]

\* One text within another, over texts that hold only themselves and "".
Within(a, b) == a = Str(0) \/ a = b

-----------------------------------------------------------------------------
(* Both sides are read as numbers and flags where they can be, and then     *)
(* compared; what Python cannot compare is no match.                        *)

Operators == <<"==", "!=", ">", ">=", "<", "<=", "contains", "in", "like">>

coerce_compare(v) ==
  IF v[1] = "text:int" THEN Num(v[2])
  ELSE IF v[1] = "text:bool" THEN Bool(v[2] = 1)
  ELSE IF v[1] = "text:nan" THEN NaN
  ELSE IF v[1] = "text:padded" THEN Str(v[2])
  ELSE v

\* Mutant of Reads: the filter's value is compared as it was typed.
ReadsTyped(op, item, value) ==
  <<coerce_compare(item), IF op = "!=" THEN value ELSE coerce_compare(value)>>

Reads(op, item, value) == <<coerce_compare(item), coerce_compare(value)>>

eval_filter(item, op, value) ==
  LET haystack == Reads(op, item, value)[1]
      needle   == Reads(op, item, value)[2]
      Less(a, b) == Comparable(a, b) /\ Below(a, b)
  IN \/ op = "==" /\ Equal(haystack, needle)
     \/ op = "!=" /\ ~Equal(haystack, needle)
     \/ op = "<"  /\ Less(haystack, needle)
     \/ op = ">"  /\ Less(needle, haystack)
     \/ /\ op \in {"<=", ">="}
        /\ Comparable(haystack, needle)
        /\ \/ Equal(haystack, needle)
           \/ op = "<=" /\ Below(haystack, needle)
           \/ op = ">=" /\ Below(needle, haystack)
     \/ op = "contains" /\ None \notin {haystack, needle} /\ Within(needle, haystack)
     \/ /\ op = "in"
        /\ needle # None
        /\ IF needle[1] = "str"
           THEN Within(needle, IF Truth(haystack) THEN haystack ELSE Str(0))
           ELSE Equal(haystack, needle)

-----------------------------------------------------------------------------
FilterInit ==
  /\ \E j \in FilterJobs : job = [kind |-> "filters", call |-> j]
  /\ seen = <<>>

Next1 == Len(seen) + 1

\* The item under the next operator of the Filter node.
ApplyFilter ==
  /\ job.kind = "filters"
  /\ Next1 \in DOMAIN Operators
  /\ seen' = Append(seen, Bool(eval_filter(job.call.item, Operators[Next1], job.call.value)))
  /\ UNCHANGED job

FilterSpec == FilterInit /\ [][ApplyFilter]_filterVars

-----------------------------------------------------------------------------
(* Property.                                                                *)

\* The filters of one value split the items: == and != keep each item in
\* exactly one of them, < and >= in exactly one unless the two cannot be
\* ordered, and then in none; <= keeps what < or == keeps, but not an equal
\* item that cannot be ordered (workshop_runtime_helpers.py:120-144).
FiltersPartition ==
  job.kind = "filters" /\ Len(seen) = Len(Operators) =>
    LET Keeps(op) == seen[CHOOSE i \in DOMAIN Operators : Operators[i] = op] = Bool(TRUE)
        h == coerce_compare(job.call.item)
        n == coerce_compare(job.call.value)
    IN  /\ Keeps("==") # Keeps("!=")
        /\ IF Comparable(h, n) /\ NaN \notin {h, n}
           THEN /\ Keeps("<") # Keeps(">=")
                /\ Keeps(">") # Keeps("<=")
                /\ Keeps("<=") = (Keeps("<") \/ Keeps("=="))
           ELSE \A op \in {"<", "<=", ">", ">="} : ~Keeps(op)
=============================================================================

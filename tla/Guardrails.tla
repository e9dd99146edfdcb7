------------------------------ MODULE Guardrails ------------------------------
(***************************************************************************)
(* GuardrailsService.check_output without its optional backends: what it   *)
(* finds in an answer, what it takes out of it, and what the log says was  *)
(* done.  The scores are in hundredths.                                    *)
(*                                                                         *)
(* A text is what the checks tell apart: the personal data it holds, the   *)
(* markers of uncertainty, and the numbers in it that the context lacks.   *)
(* Which pattern matches which datum, in whole or in part, is in Matching. *)
(***************************************************************************)
EXTENDS Naturals, FiniteSets

(* id: the 18 figures of a person born in the 20th century; card: 16 figures *)
Secrets == {"phone", "email", "id", "card"}

Text == [holds : SUBSET Secrets, hedges : Nat, numbers : Nat, plain : BOOLEAN]

(* PII_PATTERNS: what matches a datum.  The year of birth begins a telephone
   number, and fifteen figures of a bank card are an identity card *)
Matching == [phone |-> {"phone_cn"},
             email |-> {"email"},
             id    |-> {"phone_cn", "id_card", "bank_card"},
             card  |-> {"id_card", "bank_card"}]

Found(t) == UNION {Matching[s] : s \in t.holds}

AtMost(n, bound) == IF n < bound THEN n ELSE bound
Blocks(score) == score >= 50

(* Mutant of PiiScore: a pattern is worth a tenth *)
PiiScoreTenth(t) == AtMost(10 * Cardinality(Found(t)), 100)

(* _check_pii: each pattern counts once, however often it matches *)
PiiScore(t) == AtMost(25 * Cardinality(Found(t)), 100)

(* check_output takes the redacted text only when the data alone are enough to
   block; a single pattern is neither counted nor taken out *)
Redacts(t) == Blocks(PiiScore(t))

(* Every match was found in the text as it came, and is replaced in the text that
   the earlier patterns have left.  So a datum is broken by the first one that
   matches a part of it, and the rest of it stays: no datum is left whole *)
Kept(t) == IF Redacts(t) THEN {} ELSE t.holds

(* _check_ontology_consistency, if there is a context, and _check_format, for
   which "markdown" is no format to be checked *)
NumbersScore(t, context) == IF context THEN AtMost(10 * t.numbers, 50) ELSE 0
FormatScore(t, format) ==
    IF format \in {"json", "xml"} /\ t.plain THEN 50 ELSE 0

OutputScore(t, context, format) ==
    AtMost((IF Redacts(t) THEN PiiScore(t) ELSE 0) + 5 * t.hedges
           + (IF Blocks(NumbersScore(t, context)) THEN 50 ELSE 0)
           + FormatScore(t, format), 100)

(* log_check: what the row says was done *)
Action(t, context, format) ==
    IF Redacts(t) THEN "redacted"
    ELSE IF Blocks(OutputScore(t, context, format)) THEN "blocked"
    ELSE "allowed"
=============================================================================

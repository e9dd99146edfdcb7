----------------------------- MODULE MCLlmCalls -----------------------------
(* Three requests of every kind, on one template that is there and one that may
   be created *)
EXTENDS LlmCalls, TLC

CONSTANTS r1, r2, r3, t1, t2

Says(secrets, n) == [holds |-> secrets, hedges |-> 2, numbers |-> n, plain |-> TRUE]
Setting(path, t, changes) == [path |-> path, template |-> t, changes |-> changes,
                              clean |-> TRUE, llama |-> FALSE, answer |-> Says({}, 0)]
Llm(path, t) == [path |-> path, template |-> t, changes |-> {},
                 clean |-> TRUE, llama |-> FALSE, answer |-> Says({"email"}, 5)]

MCRequests == {r1, r2, r3}
Symmetry == Permutations(MCRequests)
MCTemplates == {t1, t2}
MCCalls ==
    {Setting("create", NoTemplate, {}), Setting("delete", t1, {"off"}),
     Setting("update", t1, {"text"}), Setting("update", t1, {"text", "on"}),
     Setting("post_budget", NoTemplate, Fields),
     Setting("put_budget", NoTemplate, {"cap"}),
     Setting("put_budget", NoTemplate, {"threshold"}),
     [Llm("chat", t1) EXCEPT !.answer = Says({"email", "phone"}, 1)],
     [Llm("stream", NoTemplate) EXCEPT !.answer = Says({"id"}, 2)],
     [Llm("chat", NoTemplate) EXCEPT !.clean = FALSE],
     [Llm("rag", t1) EXCEPT !.llama = TRUE]}
=============================================================================

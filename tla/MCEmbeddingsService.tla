------------------------- MODULE MCEmbeddingsService -------------------------
(***************************************************************************)
(* An instance of EmbeddingsService for TLC: a request of every kind that  *)
(* vLLM may answer with anything, next to a plain one.  The settings keep  *)
(* their order: a query may have two tokens, a text three, a request three *)
(* inputs.                                                                 *)
(***************************************************************************)
EXTENDS EmbeddingsService

CONSTANTS r1, r2

\* Token counts at and beyond each limit, and of what is left of a clipped text:
\* nothing, what the query lane takes, the whole context, and more.
Text(n) == [tokens |-> n, clipped |-> n]
InputLists ==
    {<<Text(1)>>, <<Text(2)>>, <<Text(3)>>, <<Text(1), Text(1)>>,
     <<Text(1), Text(1), Text(1)>>, <<Text(1), Text(1), Text(1), Text(1)>>}
    \cup {<<[tokens |-> 4, clipped |-> n]>> : n \in {0, 2, 3, 5}}
    \cup {<<Text(2), [tokens |-> 4, clipped |-> n]>> : n \in {0, 5}}

AnyBody == [model : {"voyage-4-nano", "voyage-4-large"},
            input_type : {"query", "document", "none"}, truncation : BOOLEAN,
            output_dimension : {FALSE}, inputs : InputLists]
        \cup {[model |-> "voyage-4-nano", input_type |-> "query", truncation |-> TRUE,
               output_dimension |-> TRUE, inputs |-> <<Text(1)>>]}

PlainQuery == [model |-> "voyage-4-nano", input_type |-> "query", truncation |-> TRUE,
               output_dimension |-> FALSE, inputs |-> <<Text(1)>>]

Bodies == [r \in Request |-> IF r = r1 THEN AnyBody ELSE {PlainQuery}]

Settings ==
    [query_batching : BOOLEAN, document_batching : BOOLEAN, query_max_tokens : {2},
     max_inputs : {3}, context : {3}, batch_worker_model : {"voyage-4-nano"}]

Entry == [embedding : 1..2 \cup {Absent, Invalid}, index : 0..2 \cup {Absent, Invalid}]

\* Every answer of at most two entries.
ShortAnswers == UNION {[1..n -> Entry] : n \in 0..2}

\* Answers of three entries: any indexes, and the right ones in any order.
Numbered(vectors, indexes) ==
    [k \in 1..3 |-> [embedding |-> vectors[k], index |-> indexes[k]]]
LongAnswers ==
    {Numbered(<<1, 2, 3>>, i) : i \in [1..3 -> 0..2 \cup {Absent}]}
    \cup {Numbered(v, [k \in 1..3 |-> v[k] - 1]) : v \in [1..3 -> 1..3]}

\* A faithful answer, and one that is none.
FewAnswers == {<<[embedding |-> 1, index |-> 0]>>, Absent}

Answers ==
    [r \in Request |-> IF r = r1 THEN {Absent} \cup ShortAnswers \cup LongAnswers
                                 ELSE FewAnswers]

=============================================================================

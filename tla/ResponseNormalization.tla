------------------------ MODULE ResponseNormalization ------------------------
(***************************************************************************)
(* normalize_vllm_embedding_data (response_normalization.py): what a       *)
(* gateway or a worker accepts of a vLLM answer, and in which order.       *)
(*                                                                         *)
(* An answer is its data list, a sequence of entries, or Absent when it    *)
(* has none.  A field of an entry is a value the schema accepts, Absent    *)
(* when it is missing, or Invalid when EmbeddingData refuses it.  An       *)
(* entry that is no object is one whose embedding is Absent.               *)
(***************************************************************************)
EXTENDS Integers, Sequences, FiniteSets

CONSTANTS
    Absent,     \* a field, or a list, that is not there
    Invalid     \* a field of a type the schema refuses

ASSUME MarkersAssumption == Absent \notin Nat /\ Invalid \notin Nat /\ Absent # Invalid

\* What is made of an answer: "bad_gateway" is the HTTPException of a check,
\* "error" the schema's own exception, which nobody turns into a status.
Normalized(status, data) == [status |-> status, data |-> data]

EntryStatus(e) ==
    CASE e.embedding = Absent -> "bad_gateway"
      [] e.embedding = Invalid \/ e.index = Invalid -> "error"
      [] OTHER -> "ok"

\* The loop raises at the first entry that is not ok.
FirstFault(raw) ==
    CHOOSE k \in 1..Len(raw) :
        /\ EntryStatus(raw[k]) # "ok"
        /\ \A j \in 1..(k - 1) : EntryStatus(raw[j]) = "ok"

\* An entry without an index gets its position in the answer, counted from 0.
Indexed(raw) ==
    [k \in 1..Len(raw) |->
        [embedding |-> raw[k].embedding,
         index |-> IF raw[k].index = Absent THEN k - 1 ELSE raw[k].index]]

\* Mutant: the sort is not stable.
AheadOfEqual(s, k) ==
    {j \in 1..Len(s) : \/ s[j].index < s[k].index
                       \/ s[j].index = s[k].index /\ j > k}

\* list.sort is stable: an entry goes behind those of a smaller index and behind
\* the earlier ones of its own.
Ahead(s, k) ==
    {j \in 1..Len(s) : \/ s[j].index < s[k].index
                       \/ s[j].index = s[k].index /\ j < k}

\* Mutant: the list is not sorted.
InAnswerOrder(s) == s

SortedByIndex(s) ==
    [p \in 1..Len(s) |->
        s[CHOOSE k \in 1..Len(s) : Cardinality(Ahead(s, k)) = p - 1]]

Normalize(raw, expected) ==
    IF raw = Absent \/ Len(raw) # expected
    THEN Normalized("bad_gateway", <<>>)
    ELSE IF \E k \in 1..Len(raw) : EntryStatus(raw[k]) # "ok"
    THEN Normalized(EntryStatus(raw[FirstFault(raw)]), <<>>)
    ELSE Normalized("ok", SortedByIndex(Indexed(raw)))

----------------------------------------------------------------------------
(* Reference definitions, for the properties and the theorem. *)

\* The answer is faithful: entries are well formed, their indexes (or positions,
\* where an index is missing) number the inputs, and each entry holds the vector
\* of the input it is numbered for.
Faithful(raw, vectors) ==
    LET s == Indexed(raw)
    IN  /\ raw # Absent
        /\ Len(raw) = Len(vectors)
        /\ \A k \in 1..Len(raw) : /\ EntryStatus(raw[k]) = "ok"
                                  /\ s[k].index \in 0..(Len(raw) - 1)
                                  /\ s[k].embedding = vectors[s[k].index + 1]
        /\ \A j, k \in 1..Len(raw) : s[j].index = s[k].index => j = k

\* t is s rearranged so that indexes do not decrease and equal ones keep their order.
StableSort(s, t) ==
    /\ Len(t) = Len(s)
    /\ \E perm \in [1..Len(s) -> 1..Len(s)] :
          /\ \A p, q \in 1..Len(s) :
                p < q => \/ s[perm[p]].index < s[perm[q]].index
                         \/ s[perm[p]].index = s[perm[q]].index /\ perm[p] < perm[q]
          /\ \A p \in 1..Len(s) : t[p] = s[perm[p]]

=============================================================================

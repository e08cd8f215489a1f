----------------------------- MODULE ServiceProofs -----------------------------
(***************************************************************************)
(* What the sort of normalize_vllm_embedding_data makes of an answer, and  *)
(* what a request of EmbeddingsService is handed and answered, for every   *)
(* setting, body and answer of vLLM: the inputs arrive whole at one path,  *)
(* a 200 has their vectors in input order, and every request is counted.   *)
(***************************************************************************)
EXTENDS EmbeddingsService, FiniteSetTheorems, SequenceTheorems, TLAPS

----------------------------------------------------------------------------
(* Normalization: the sort of an answer of any length. *)

Rank(s, k) == Cardinality(Ahead(s, k))

\* An answer's entries, with integer indexes.
IsIndexed(s) ==
    /\ s = [k \in 1..Len(s) |-> s[k]]
    /\ Len(s) \in Nat
    /\ \A k \in 1..Len(s) : s[k].index \in Int

\* The sizes of the two intervals that positions and indexes range over.
LEMMA IntervalSizes ==
    ASSUME NEW n \in Nat
    PROVE  /\ IsFiniteSet(1..n) /\ Cardinality(1..n) = n
           /\ IsFiniteSet(0..(n - 1)) /\ Cardinality(0..(n - 1)) = n
<1>1. /\ IsFiniteSet(1..n)
      /\ Cardinality(1..n) = IF 1 > n THEN 0 ELSE n - 1 + 1
  <2>1. 1 \in Int /\ n \in Int OBVIOUS
  <2> QED BY <2>1, FS_Interval, Zenon
<1>2. /\ IsFiniteSet(0..(n - 1))
      /\ Cardinality(0..(n - 1)) = IF 0 > n - 1 THEN 0 ELSE (n - 1) - 0 + 1
  <2>1. 0 \in Int /\ n - 1 \in Int OBVIOUS
  <2> QED BY <2>1, FS_Interval, Zenon
<1> QED BY <1>1, <1>2

\* The entries ahead of one are other entries of the list.
LEMMA AheadIsSmall ==
    ASSUME NEW s, Len(s) \in Nat, NEW k \in 1..Len(s), IsIndexed(s)
    PROVE  /\ IsFiniteSet(Ahead(s, k))
           /\ Rank(s, k) \in 0..(Len(s) - 1)
<1>1. IsFiniteSet(1..Len(s)) /\ Cardinality(1..Len(s)) = Len(s)
    BY IntervalSizes
<1>2. Ahead(s, k) \in SUBSET (1..Len(s)) /\ k \notin Ahead(s, k)
    BY DEF Ahead, IsIndexed
<1>3. IsFiniteSet(Ahead(s, k)) /\ Cardinality(Ahead(s, k)) <= Len(s)
    BY <1>1, <1>2, FS_Subset
<1>4. Cardinality(Ahead(s, k)) # Len(s)
    BY <1>1, <1>2, FS_Subset
<1>5. Cardinality(Ahead(s, k)) \in Nat
    BY <1>3, FS_CardinalityType
<1> QED BY <1>3, <1>4, <1>5 DEF Rank

\* An entry ahead of another has the smaller rank.
LEMMA AheadIsRankedLower ==
    ASSUME NEW s, IsIndexed(s), NEW k \in 1..Len(s), NEW j \in Ahead(s, k)
    PROVE  Rank(s, j) < Rank(s, k)
<1>1. Len(s) \in Nat /\ j \in 1..Len(s)
    BY DEF IsIndexed, Ahead
<1>2. Ahead(s, j) \in SUBSET Ahead(s, k)
    BY <1>1 DEF Ahead, IsIndexed
<1>3. j \notin Ahead(s, j)
    BY <1>1 DEF Ahead, IsIndexed
<1>4. IsFiniteSet(Ahead(s, k)) /\ Rank(s, k) \in Nat /\ Rank(s, j) \in Nat
    BY <1>1, AheadIsSmall
<1>5. Cardinality(Ahead(s, j)) <= Cardinality(Ahead(s, k))
    BY <1>2, <1>4, FS_Subset
<1>6. Cardinality(Ahead(s, j)) # Cardinality(Ahead(s, k))
    BY <1>2, <1>3, <1>4, FS_Subset
<1> QED BY <1>4, <1>5, <1>6 DEF Rank

\* Of two entries one is ahead of the other.
LEMMA AheadIsTotal ==
    ASSUME NEW s, IsIndexed(s), NEW j \in 1..Len(s), NEW k \in 1..Len(s), j # k
    PROVE  j \in Ahead(s, k) \/ k \in Ahead(s, j)
BY DEF Ahead, IsIndexed

\* Every rank below the length is some entry's, and only one's.
LEMMA RanksNumberTheEntries ==
    ASSUME NEW s, IsIndexed(s), NEW p \in 1..Len(s)
    PROVE  /\ \E k \in 1..Len(s) : Rank(s, k) = p - 1
           /\ \A j, k \in 1..Len(s) : Rank(s, j) = Rank(s, k) => j = k
<1> DEFINE n == Len(s)
           rank == [k \in 1..n |-> Rank(s, k)]
<1>1. n \in Nat
    BY DEF IsIndexed
<1>2. \A k \in 1..n : Rank(s, k) \in 0..(n - 1)
    BY <1>1, AheadIsSmall
<1>3. \A j, k \in 1..n : Rank(s, j) = Rank(s, k) => j = k
  <2>1. SUFFICES ASSUME NEW j \in 1..n, NEW k \in 1..n, j # k
                 PROVE  Rank(s, j) # Rank(s, k)
      OBVIOUS
  <2>2. CASE j \in Ahead(s, k)
    <3>1. Rank(s, j) < Rank(s, k) BY <2>2, AheadIsRankedLower
    <3> QED BY <3>1, <1>1, <1>2
  <2>3. CASE k \in Ahead(s, j)
    <3>1. Rank(s, k) < Rank(s, j) BY <2>3, AheadIsRankedLower
    <3> QED BY <3>1, <1>1, <1>2
  <2> QED BY <2>1, <2>2, <2>3, AheadIsTotal
<1>4. rank \in Injection(1..n, 0..(n - 1))
  <2>1. rank \in [1..n -> 0..(n - 1)] BY <1>2
  <2> QED BY <2>1, <1>3 DEF Injection, IsInjective
<1>5. /\ IsFiniteSet(0..(n - 1)) /\ Cardinality(0..(n - 1)) = n
      /\ Cardinality(1..n) = n
    BY <1>1, IntervalSizes
<1>6. rank \in Surjection(1..n, 0..(n - 1))
    BY <1>4, <1>5, FS_Injection
<1>7. p - 1 \in 0..(n - 1)
    BY <1>1
<1>8. \E k \in 1..n : rank[k] = p - 1
    BY <1>6, <1>7 DEF Surjection
<1> QED BY <1>3, <1>8

----------------------------------------------------------------------------
\* The position of the entry that comes p-th.
Place(s, p) == CHOOSE k \in 1..Len(s) : Rank(s, k) = p - 1

LEMMA PlaceIsRanked ==
    ASSUME NEW s, IsIndexed(s), NEW p \in 1..Len(s)
    PROVE  Place(s, p) \in 1..Len(s) /\ Rank(s, Place(s, p)) = p - 1
BY RanksNumberTheEntries DEF Place

\* SortedByIndex is the stable sort by index, whatever the indexes: every entry is
\* kept, once, and entries of one index keep their order (normalized.sort).
THEOREM SortedByIndexIsStable ==
    ASSUME NEW s, IsIndexed(s)
    PROVE  StableSort(s, SortedByIndex(s))
<1> DEFINE n == Len(s)
           t == SortedByIndex(s)
           perm == [p \in 1..n |-> Place(s, p)]
<1>1. n \in Nat
    BY DEF IsIndexed
<1>2. t = [p \in 1..n |-> s[Place(s, p)]]
    BY DEF SortedByIndex, Place, Rank
<1>3. t \in Seq({s[k] : k \in 1..n}) /\ Len(t) = n
  <2>1. \A p \in 1..n : s[Place(s, p)] \in {s[k] : k \in 1..n}
      BY PlaceIsRanked
  <2>2. t \in [1..n -> {s[k] : k \in 1..n}]
      BY <1>2, <2>1
  <2> QED BY <1>1, <2>2
<1>4. perm \in [1..n -> 1..n]
    BY PlaceIsRanked
<1>5. ASSUME NEW p \in 1..n, NEW q \in 1..n, p < q
      PROVE  perm[p] \in Ahead(s, perm[q])
  <2>1. perm[p] \in 1..n /\ perm[q] \in 1..n
      BY <1>4
  <2>2. Rank(s, perm[p]) = p - 1 /\ Rank(s, perm[q]) = q - 1
      BY PlaceIsRanked
  <2>3. perm[p] # perm[q]
      BY <2>2, <1>5, <1>1
  <2>4. ASSUME perm[q] \in Ahead(s, perm[p]) PROVE FALSE
    <3>1. Rank(s, perm[q]) < Rank(s, perm[p])
        BY <2>1, <2>4, AheadIsRankedLower
    <3> QED BY <3>1, <2>2, <1>5, <1>1
  <2> QED BY <2>1, <2>3, <2>4, AheadIsTotal
<1>6. \A p, q \in 1..n :
          p < q => \/ s[perm[p]].index < s[perm[q]].index
                   \/ s[perm[p]].index = s[perm[q]].index /\ perm[p] < perm[q]
    BY <1>5 DEF Ahead
<1>7. \A p \in 1..n : t[p] = s[perm[p]]
    BY <1>2
<1> QED BY <1>3, <1>4, <1>6, <1>7 DEF StableSort

----------------------------------------------------------------------------
\* The indexes are 0 to the length less one, each of one entry.
NumbersTheInputs(s) ==
    /\ \A k \in 1..Len(s) : s[k].index \in 0..(Len(s) - 1)
    /\ \A j, k \in 1..Len(s) : s[j].index = s[k].index => j = k

\* Then an entry's rank is its index.
LEMMA RankIsIndex ==
    ASSUME NEW s, IsIndexed(s), NumbersTheInputs(s), NEW k \in 1..Len(s)
    PROVE  Rank(s, k) = s[k].index
<1> DEFINE n == Len(s)
           i == s[k].index
           index == [j \in 1..n |-> s[j].index]
           lower == [j \in Ahead(s, k) |-> s[j].index]
<1>1. n \in Nat /\ i \in 0..(n - 1)
    BY DEF IsIndexed, NumbersTheInputs
<1>2. index \in Injection(1..n, 0..(n - 1))
  <2>1. index \in [1..n -> 0..(n - 1)] BY DEF NumbersTheInputs
  <2> QED BY <2>1 DEF NumbersTheInputs, Injection, IsInjective
<1>3. index \in Surjection(1..n, 0..(n - 1))
    BY <1>1, <1>2, IntervalSizes, FS_Injection
<1>4. \A j \in Ahead(s, k) : j \in 1..n /\ s[j].index \in 0..(i - 1)
    BY <1>1 DEF Ahead, NumbersTheInputs
<1>5. lower \in Injection(Ahead(s, k), 0..(i - 1))
  <2>1. lower \in [Ahead(s, k) -> 0..(i - 1)] BY <1>4
  <2> QED BY <2>1, <1>4 DEF NumbersTheInputs, Injection, IsInjective
<1>6. ASSUME NEW v \in 0..(i - 1) PROVE \E j \in Ahead(s, k) : lower[j] = v
  <2>1. v \in 0..(n - 1) /\ v < i BY <1>1
  <2>2. PICK j \in 1..n : index[j] = v BY <1>3, <2>1 DEF Surjection
  <2>3. j \in Ahead(s, k) BY <2>1, <2>2 DEF Ahead
  <2> QED BY <2>2, <2>3
<1>7. lower \in Surjection(Ahead(s, k), 0..(i - 1))
    BY <1>5, <1>6 DEF Injection, Surjection
<1>8. IsFiniteSet(0..(i - 1)) /\ Cardinality(0..(i - 1)) = i
    BY <1>1, IntervalSizes
<1>9. Cardinality(Ahead(s, k)) = Cardinality(0..(i - 1))
    BY <1>5, <1>7, <1>8, FS_Injection
<1> QED BY <1>8, <1>9 DEF Rank

\* A faithful answer of vLLM, in any order and with or without indexes, is
\* normalized to the vectors of the inputs in input order.  This is what the worker's
\* zip of items and data relies on, and the direct path's response.
THEOREM FaithfulAnswersAreAligned ==
    ASSUME NEW E, NEW raw \in Seq(E), NEW V, NEW vectors \in Seq(V),
           Faithful(raw, vectors)
    PROVE  Normalize(raw, Len(vectors)) =
               Normalized("ok", [p \in 1..Len(vectors) |->
                                    [embedding |-> vectors[p], index |-> p - 1]])
<1> DEFINE n == Len(raw)
           s == Indexed(raw)
<1>1. /\ n \in Nat /\ n = Len(vectors) /\ raw # Absent
      /\ \A k \in 1..n : EntryStatus(raw[k]) = "ok"
    BY DEF Faithful
<1>2. /\ s = [k \in 1..n |-> s[k]] /\ Len(s) = n
      /\ \A k \in 1..n : s[k] = [embedding |-> s[k].embedding, index |-> s[k].index]
  <2>1. s \in Seq({s[k] : k \in 1..n}) /\ Len(s) = n /\ s = [k \in 1..n |-> s[k]]
      BY <1>1 DEF Indexed
  <2> QED BY <2>1 DEF Indexed
<1>3. \A k \in 1..n : /\ s[k].index \in 0..(n - 1)
                      /\ s[k].embedding = vectors[s[k].index + 1]
    BY DEF Faithful
<1>4. IsIndexed(s) /\ NumbersTheInputs(s)
    BY <1>1, <1>2, <1>3 DEF IsIndexed, NumbersTheInputs, Faithful
<1>5. ASSUME NEW p \in 1..n
      PROVE  s[Place(s, p)] = [embedding |-> vectors[p], index |-> p - 1]
  <2>1. Place(s, p) \in 1..n /\ Rank(s, Place(s, p)) = p - 1
      BY <1>2, <1>4, PlaceIsRanked
  <2>2. s[Place(s, p)].index = p - 1
      BY <2>1, <1>2, <1>4, RankIsIndex
  <2>3. s[Place(s, p)].embedding = vectors[p]
      BY <2>1, <2>2, <1>3
  <2> QED BY <2>1, <2>2, <2>3, <1>2
<1>6. SortedByIndex(s) = [p \in 1..n |-> s[Place(s, p)]]
    BY <1>2 DEF SortedByIndex, Place, Rank
<1>7. SortedByIndex(s) = [p \in 1..n |-> [embedding |-> vectors[p], index |-> p - 1]]
    BY <1>5, <1>6
<1> QED BY <1>1, <1>7 DEF Normalize


----------------------------------------------------------------------------
(* The service. *)

\* The token counts of what a request was handed.
Counts(r) == [k \in 1..Len(handed[r]) |-> handed[r][k].tokens]

\* Where a request is, and what it was handed on the way.
RequestOK(r) ==
    /\ pc[r] \in {"idle", "done"} \cup Lane
    /\ pc[r] = "idle" => handed[r] = <<>>
    /\ pc[r] # "done" => answered[r] = Absent /\ reply[r] = NoReply
    /\ pc[r] \in Lane => handed[r] # <<>>
    /\ reply[r].status = "ok" => /\ handed[r] # <<>>
                                 /\ reply[r].usage = Total(Counts(r))

\* An input's count is its own and within the context, unless the input is beyond
\* it and the request asked for truncation.
CountOK(b, k, count) ==
    \/ count = b.inputs[k].tokens /\ count <= config.context
    \/ b.truncation /\ b.inputs[k].tokens > config.context

HandedOK(r) ==
    handed[r] # <<>> =>
        /\ body[r] \in Body[r]
        /\ Len(handed[r]) = Len(body[r].inputs)
        /\ [k \in 1..Len(handed[r]) |-> handed[r][k].input] = Vectors(body[r])
        /\ \A k \in 1..Len(handed[r]) : CountOK(body[r], k, handed[r][k].tokens)
        /\ Total(Counts(r)) = Total(ModelInputs(body[r]))

\* AnswersCoverInputs and DirectDataIsSorted, of one request.
Covered(r) ==
    LET vectors == Vectors(body[r])
    IN  /\ reply[r].status = "ok"
        /\ answered[r] # Absent => Faithful(answered[r], vectors)
        => reply[r].data = [i \in 1..Len(vectors) |->
                               [embedding |-> vectors[i], index |-> i - 1]]

Sorted(r) ==
    reply[r].status = "ok" /\ answered[r] # Absent =>
        StableSort(Indexed(answered[r]), reply[r].data)

ServiceInv ==
    /\ config \in Config
    /\ /\ DOMAIN pc = Request /\ DOMAIN body = Request /\ DOMAIN handed = Request
       /\ DOMAIN answered = Request /\ DOMAIN reply = Request
    /\ \A r \in Request : RequestOK(r) /\ HandedOK(r) /\ Covered(r) /\ Sorted(r)

----------------------------------------------------------------------------
(* Bodies and what is handed over. *)

LEMMA BodyParts ==
    ASSUME NEW r \in Request, NEW b \in Body[r], config \in Config
    PROVE  /\ Len(b.inputs) \in Nat /\ Len(b.inputs) > 0
           /\ config.context \in Nat
           /\ \A i \in 1..Len(b.inputs) : /\ b.inputs[i].tokens \in Nat
                                          /\ b.inputs[i].clipped \in Nat
<1>1. /\ b.inputs \in Seq([tokens : Nat, clipped : Nat]) /\ b.inputs # <<>>
      /\ config.context \in Nat
  BY ServiceAssumption
<1>2. ASSUME NEW i \in 1..Len(b.inputs)
      PROVE  b.inputs[i] \in [tokens : Nat, clipped : Nat]
  <2> DEFINE Texts == [tokens : Nat, clipped : Nat]
  <2>1. b.inputs \in Seq(Texts)
    BY <1>1
  <2> HIDE DEF Texts
  <2>2. b.inputs[i] \in Texts
    BY <2>1, <1>2
  <2> QED BY <2>2 DEF Texts
<1>3. Len(b.inputs) \in Nat /\ Len(b.inputs) > 0
  BY <1>1
<1> QED
  BY <1>1, <1>2, <1>3

\* The model's inputs: as many, and each counted as it should be if the body is
\* not refused.
LEMMA InputsFit ==
    ASSUME NEW r \in Request, NEW b \in Body[r], config \in Config
    PROVE  /\ ModelInputs(b) \in Seq(Nat)
           /\ Len(ModelInputs(b)) = Len(b.inputs)
           /\ ~ Refused(b) => \A i \in 1..Len(b.inputs) : CountOK(b, i, ModelInputs(b)[i])
<1> DEFINE n == Len(b.inputs)
           m == ModelInputs(b)
<1>1. /\ n \in Nat /\ config.context \in Nat
      /\ \A i \in 1..n : b.inputs[i].tokens \in Nat /\ b.inputs[i].clipped \in Nat
  BY BodyParts
<1>2. m = [i \in 1..n |-> IF b.truncation /\ b.inputs[i].tokens > config.context
                          THEN b.inputs[i].clipped ELSE b.inputs[i].tokens]
  BY DEF ModelInputs
<1> HIDE DEF m
<1>3. m \in Seq(Nat) /\ Len(m) = n
  <2>1. m \in [1..n -> Nat]
    BY <1>1, <1>2
  <2> QED BY <1>1, <1>2, <2>1, SeqDef
<1>4. ASSUME ~ Refused(b), NEW i \in 1..n
      PROVE  CountOK(b, i, m[i])
  <2>1. b.truncation \/ ~ (b.inputs[i].tokens > config.context)
    BY <1>4 DEF Refused
  <2>2. CASE b.truncation /\ b.inputs[i].tokens > config.context
    BY <2>2 DEF CountOK
  <2>3. CASE ~ (b.inputs[i].tokens > config.context)
    BY <1>1, <1>2, <2>3 DEF CountOK
  <2> QED BY <2>1, <2>2, <2>3
<1> QED
  BY <1>3, <1>4 DEF m

LEMMA TotalOfOne ==
    ASSUME NEW t \in Nat
    PROVE  Total(<<t>>) = t
<1> DEFINE Adds(f) == f = [k \in 0..Len(<<t>>) |-> IF k = 0 THEN 0 ELSE f[k - 1] + <<t>>[k]]
           f0 == [k \in 0..1 |-> IF k = 0 THEN 0 ELSE t]
           sum == CHOOSE f : Adds(f)
<1>1. Adds(f0)
  OBVIOUS
<1>2. Adds(sum)
  <2> HIDE DEF Adds
  <2> QED BY <1>1, Zenon
<1>3. Total(<<t>>) = sum[1]
  BY DEF Total
<1> HIDE DEF sum
<1>4. sum[1] = sum[0] + t /\ sum[0] = 0
  BY <1>2
<1> QED
  BY <1>3, <1>4

\* What a request that is not refused is handed.
LEMMA HandedIsWhole ==
    ASSUME NEW r \in Request, NEW b \in Body[r], config \in Config, ~ Refused(b)
    PROVE  LET h == HandedTo(PathOf(b), b)
           IN  /\ PathOf(b) \in Lane
               /\ h # <<>>
               /\ Len(h) = Len(b.inputs)
               /\ [k \in 1..Len(h) |-> h[k].input] = Vectors(b)
               /\ \A k \in 1..Len(h) : CountOK(b, k, h[k].tokens)
               /\ Total([k \in 1..Len(h) |-> h[k].tokens]) = Total(ModelInputs(b))
<1> DEFINE h == HandedTo(PathOf(b), b)
           tokens == ModelInputs(b)
           n == Len(b.inputs)
<1>1. /\ n \in Nat /\ n > 0
      /\ tokens \in Seq(Nat) /\ Len(tokens) = n
      /\ \A i \in 1..n : CountOK(b, i, tokens[i])
  BY BodyParts, InputsFit
<1>2. PathOf(b) \in Lane /\ (PathOf(b) = "query_batch" => n = 1)
  BY DEF PathOf, Lane, QueryWorkload
<1> HIDE DEF tokens
<1>3. CASE PathOf(b) = "query_batch"
  <2>1. n = 1 /\ tokens = <<tokens[1]>> /\ tokens[1] \in Nat
    BY <1>1, <1>2, <1>3
  <2>2. Total(tokens) = tokens[1]
    BY <2>1, TotalOfOne
  <2>3. h = <<[input |-> 1, tokens |-> tokens[1]]>>
    BY <1>3, <2>2 DEF HandedTo, tokens
  <2>4. [k \in 1..Len(h) |-> h[k].tokens] = tokens
    BY <2>1, <2>3
  <2> QED BY <1>1, <1>2, <2>1, <2>3, <2>4 DEF Vectors, tokens
<1>4. CASE PathOf(b) # "query_batch"
  <2>1. h = [i \in 1..n |-> [input |-> i, tokens |-> tokens[i]]]
    BY <1>1, <1>4 DEF HandedTo, tokens
  <2>2. Len(h) = n /\ h # <<>>
    <3>1. h \in Seq([input : Nat, tokens : Nat])
      BY <1>1, <2>1, SeqDef
    <3> QED BY <1>1, <2>1, <3>1
  <2>3. [k \in 1..Len(h) |-> h[k].tokens] = tokens
    BY <1>1, <2>1, <2>2
  <2>4. [k \in 1..Len(h) |-> h[k].input] = Vectors(b)
    BY <1>1, <2>1, <2>2 DEF Vectors
  <2>5. \A k \in 1..Len(h) : CountOK(b, k, h[k].tokens)
    BY <1>1, <2>1, <2>2
  <2>6. Total([k \in 1..Len(h) |-> h[k].tokens]) = Total(ModelInputs(b))
    BY <2>3, Zenon DEF tokens
  <2> QED BY <1>2, <2>2, <2>4, <2>5, <2>6, Zenon
<1> QED BY <1>3, <1>4

----------------------------------------------------------------------------
(* The answers of vLLM. *)

\* Of the entries that are not ok, one is the first.
LEMMA FirstFaultIsFaulty ==
    ASSUME NEW raw \in Seq(AnyEntry),
           \E k \in 1..Len(raw) : EntryStatus(raw[k]) # "ok"
    PROVE  EntryStatus(raw[FirstFault(raw)]) # "ok"
<1> DEFINE n == Len(raw)
           s == [k \in 1..n |-> [index |-> IF EntryStatus(raw[k]) = "ok" THEN 1 ELSE 0]]
           first == Place(s, 1)
<1>1. PICK f \in 1..n : EntryStatus(raw[f]) # "ok"
  OBVIOUS
<1>2. n \in Nat /\ 1 \in 1..n
  BY <1>1
<1>3. IsIndexed(s) /\ Len(s) = n
  <2>1. s \in Seq([index : Int])
    BY <1>2, SeqDef
  <2> QED BY <1>2, <2>1 DEF IsIndexed
<1> HIDE DEF s
<1>4. first \in 1..n /\ Rank(s, first) = 0
  BY <1>2, <1>3, PlaceIsRanked
<1> HIDE DEF first
<1>5. Ahead(s, first) = {}
  BY <1>2, <1>3, <1>4, AheadIsSmall, FS_EmptySet DEF Rank
<1>6. \A j \in 1..n : /\ ~ (s[j].index < s[first].index)
                      /\ s[j].index = s[first].index => ~ (j < first)
  BY <1>3, <1>4, <1>5 DEF Ahead
<1>7. /\ EntryStatus(raw[first]) # "ok"
      /\ \A j \in 1..(first - 1) : EntryStatus(raw[j]) = "ok"
  <2>1. \A j \in 1..n : s[j].index = IF EntryStatus(raw[j]) = "ok" THEN 1 ELSE 0
    BY <1>2 DEF s
  <2>2. s[first].index = 0
    <3>1. f \in 1..n /\ s[f].index = 0 /\ s[first].index \in {0, 1}
      BY <1>1, <1>4, <2>1
    <3>2. ~ (s[f].index < s[first].index)
      BY <1>6, <3>1
    <3> QED BY <3>1, <3>2
  <2>3. EntryStatus(raw[first]) # "ok"
    BY <1>4, <2>1, <2>2
  <2>4. ASSUME NEW j \in 1..(first - 1)
        PROVE  EntryStatus(raw[j]) = "ok"
    <3>1. j \in 1..n /\ j < first
      BY <1>2, <1>4
    <3> QED BY <1>6, <2>1, <2>2, <3>1
  <2> QED BY <2>3, <2>4
<1> QED
  BY <1>4, <1>7 DEF FirstFault

\* An answer that is accepted is well formed and sorted.
LEMMA AcceptedIsSorted ==
    ASSUME NEW raw \in Seq(AnyEntry) \cup {Absent}, NEW n \in Nat,
           Normalize(raw, n).status = "ok"
    PROVE  StableSort(Indexed(raw), Normalize(raw, n).data)
<1>1. raw # Absent /\ raw \in Seq(AnyEntry)
  BY DEF Normalize, Normalized
<1>2. \A k \in 1..Len(raw) : EntryStatus(raw[k]) = "ok"
  BY <1>1, FirstFaultIsFaulty DEF Normalize, Normalized
<1>3. Normalize(raw, n).data = SortedByIndex(Indexed(raw))
  BY <1>1, <1>2 DEF Normalize, Normalized
<1> DEFINE s == Indexed(raw)
<1>4. IsIndexed(s)
  <2>1. Len(raw) \in Nat /\ \A k \in 1..Len(raw) : raw[k] \in AnyEntry
    BY <1>1
  <2>2. \A k \in 1..Len(raw) : raw[k].index = Absent \/ raw[k].index \in Int
    BY <1>2, <2>1 DEF EntryStatus, AnyEntry
  <2>3. s \in Seq({s[k] : k \in 1..Len(raw)}) /\ Len(s) = Len(raw) /\ s = [k \in 1..Len(raw) |-> s[k]]
    BY <2>1 DEF Indexed
  <2>4. \A k \in 1..Len(raw) : s[k].index \in Int
    BY <2>1, <2>2 DEF Indexed
  <2> QED BY <2>1, <2>3, <2>4 DEF IsIndexed
<1> QED
  BY <1>3, <1>4, SortedByIndexIsStable

----------------------------------------------------------------------------
(* The steps. *)

OneRequest(r) == RequestOK(r) /\ HandedOK(r) /\ Covered(r) /\ Sorted(r)

LEMMA InitServiceInv == Init => ServiceInv
BY DEF Init, ServiceInv, RequestOK, HandedOK, Covered, Sorted, NoReply, Reply, Lane

\* A step that leaves the other requests alone keeps what is known of them.
LEMMA OthersKeep ==
    ASSUME ServiceInv, config' = config, NEW r \in Request, NEW q \in Request, q # r,
           /\ pc'[q] = pc[q] /\ body'[q] = body[q] /\ handed'[q] = handed[q]
           /\ answered'[q] = answered[q] /\ reply'[q] = reply[q]
    PROVE  OneRequest(q)'
<1>1. OneRequest(q)
  BY DEF ServiceInv, OneRequest
<1>2. RequestOK(q)'
  BY <1>1 DEF OneRequest, RequestOK, Counts
<1>3. HandedOK(q)'
  BY <1>1 DEF OneRequest, HandedOK, Counts, ModelInputs, CountOK
<1>4. Covered(q)' /\ Sorted(q)'
  BY <1>1 DEF OneRequest, Covered, Sorted
<1> QED BY <1>2, <1>3, <1>4 DEF OneRequest

\* Refuse and TokenizerRaises: done, and nothing handed over.
LEMMA StopsEarly ==
    ASSUME ServiceInv, NEW r \in Request, NEW b \in Body[r],
           Refuse(r, b) \/ TokenizerRaises(r, b)
    PROVE  OneRequest(r)'
<1>1. OneRequest(r) /\ pc[r] = "idle"
  BY DEF ServiceInv, OneRequest, Refuse, TokenizerRaises
<1>2. /\ pc'[r] = "done" /\ handed'[r] = <<>> /\ reply'[r].status # "ok"
  BY <1>1 DEF ServiceInv, OneRequest, RequestOK, Refuse, TokenizerRaises, Fail, Reply
<1> QED
  BY <1>2 DEF OneRequest, RequestOK, HandedOK, Covered, Sorted, Lane

LEMMA IsDispatched ==
    ASSUME ServiceInv, NEW r \in Request, NEW b \in Body[r], Dispatch(r, b)
    PROVE  OneRequest(r)'
<1>1. OneRequest(r) /\ pc[r] = "idle" /\ config \in Config /\ ~ Refused(b)
  BY DEF ServiceInv, OneRequest, Dispatch
<1>2. /\ pc'[r] = PathOf(b) /\ body'[r] = b /\ handed'[r] = HandedTo(PathOf(b), b)
      /\ answered'[r] = Absent /\ reply'[r] = NoReply /\ config' = config
  BY <1>1 DEF ServiceInv, OneRequest, RequestOK, Dispatch
<1> DEFINE h == HandedTo(PathOf(b), b)
<1>3. /\ PathOf(b) \in Lane
      /\ h # <<>>
      /\ Len(h) = Len(b.inputs)
      /\ [k \in 1..Len(h) |-> h[k].input] = Vectors(b)
      /\ \A k \in 1..Len(h) : CountOK(b, k, h[k].tokens)
      /\ Total([k \in 1..Len(h) |-> h[k].tokens]) = Total(ModelInputs(b))
  BY <1>1, HandedIsWhole, Zenon
<1> HIDE DEF h
<1>4. RequestOK(r)' /\ Covered(r)' /\ Sorted(r)'
  BY <1>2, <1>3 DEF RequestOK, Covered, Sorted, NoReply, Reply, Lane, h
<1>5. HandedOK(r)'
  BY <1>2, <1>3 DEF HandedOK, Counts, ModelInputs, CountOK, h
<1> QED BY <1>4, <1>5 DEF OneRequest

\* BatchRaises, VllmRaises and an answer that is refused: done, without data.
LEMMA Fails ==
    ASSUME ServiceInv, NEW r \in Request, pc[r] \in Lane, config' = config,
           body' = body, handed' = handed,
           pc'[r] = "done", reply'[r].status # "ok"
    PROVE  OneRequest(r)'
<1>1. OneRequest(r)
  BY DEF ServiceInv, OneRequest
<1>2. RequestOK(r)' /\ Covered(r)' /\ Sorted(r)'
  BY DEF RequestOK, Covered, Sorted, Lane
<1>3. HandedOK(r)'
  BY <1>1 DEF OneRequest, HandedOK, Counts, ModelInputs, CountOK
<1> QED BY <1>2, <1>3 DEF OneRequest

\* Succeed: the usage is that of the children handed over.
LEMMA Succeeds ==
    ASSUME ServiceInv, NEW r \in Request, NEW data, pc[r] \in Lane,
           Succeed(r, data), config' = config, body' = body, handed' = handed
    PROVE  RequestOK(r)' /\ HandedOK(r)' /\ reply'[r] = Reply("ok", data, Total(Counts(r)))
<1>1. OneRequest(r) /\ handed[r] # <<>>
  BY DEF ServiceInv, OneRequest, RequestOK
<1>2. reply'[r] = Reply("ok", data, Total(Counts(r))) /\ pc'[r] = "done"
  BY <1>1 DEF Succeed, OneRequest, HandedOK, ServiceInv
<1>3. RequestOK(r)'
  BY <1>1, <1>2 DEF RequestOK, Counts, Reply
<1>4. HandedOK(r)'
  BY <1>1 DEF OneRequest, HandedOK, Counts, ModelInputs, CountOK
<1> QED BY <1>2, <1>3, <1>4

LEMMA BatchIsReturned ==
    ASSUME ServiceInv, NEW r \in Request, BatchReturns(r)
    PROVE  OneRequest(r)'
<1> DEFINE data == [k \in 1..Len(handed[r]) |->
                       [embedding |-> handed[r][k].input, index |-> k - 1]]
<1>1. /\ OneRequest(r) /\ pc[r] \in Lane /\ handed[r] # <<>>
      /\ config' = config /\ body' = body /\ handed' = handed /\ answered' = answered
      /\ Succeed(r, data) /\ answered[r] = Absent
  BY DEF ServiceInv, OneRequest, RequestOK, BatchReturns, Lane
<1> HIDE DEF data
<1>2. RequestOK(r)' /\ HandedOK(r)' /\ reply'[r] = Reply("ok", data, Total(Counts(r)))
  BY <1>1, Succeeds
<1>3. [k \in 1..Len(handed[r]) |-> handed[r][k].input] = Vectors(body[r])
  BY <1>1 DEF OneRequest, HandedOK
<1>4. Len(handed[r]) = Len(Vectors(body[r]))
  <2>1. body[r] \in Body[r] /\ config \in Config /\ Len(handed[r]) = Len(body[r].inputs)
    BY <1>1 DEF OneRequest, HandedOK, ServiceInv
  <2>2. Len(body[r].inputs) \in Nat
    BY <2>1, BodyParts
  <2>3. Vectors(body[r]) \in Seq(Nat)
    BY <2>2, SeqDef DEF Vectors
  <2> QED BY <2>1, <2>2, <2>3 DEF Vectors
<1>5. data = [i \in 1..Len(Vectors(body[r])) |->
                 [embedding |-> Vectors(body[r])[i], index |-> i - 1]]
  <2> DEFINE v == Vectors(body[r])
  <2> HIDE DEF v
  <2>1. \A k \in 1..Len(v) : handed[r][k].input = v[k]
    BY <1>3, <1>4 DEF v
  <2> QED BY <1>4, <2>1 DEF data, v
<1>6. Covered(r)' /\ Sorted(r)'
  BY <1>1, <1>2, <1>5 DEF Covered, Sorted, Reply
<1> QED BY <1>2, <1>6 DEF OneRequest

LEMMA IsAnswered ==
    ASSUME ServiceInv, NEW r \in Request, NEW raw \in Answer[r], VllmAnswers(r, raw)
    PROVE  OneRequest(r)'
<1> DEFINE n == Len(handed[r])
           result == Normalize(raw, n)
           v == Vectors(body[r])
<1>1. /\ OneRequest(r) /\ pc[r] \in Lane /\ handed[r] # <<>>
      /\ config' = config /\ body' = body /\ handed' = handed
      /\ answered'[r] = raw
      /\ IF result.status = "ok" THEN Succeed(r, result.data)
                                 ELSE Fail(r, "direct", result.status)
  BY DEF ServiceInv, OneRequest, RequestOK, VllmAnswers, Lane
<1> HIDE DEF result
<1>2. CASE result.status # "ok"
  <2>1. pc'[r] = "done" /\ reply'[r].status # "ok"
    BY <1>1, <1>2 DEF Fail, Reply, ServiceInv
  <2> QED BY <1>1, <2>1, Fails
<1>3. CASE result.status = "ok"
  <2>1. /\ RequestOK(r)' /\ HandedOK(r)'
        /\ reply'[r] = Reply("ok", result.data, Total(Counts(r)))
    BY <1>1, <1>3, Succeeds
  <2>2. body[r] \in Body[r] /\ config \in Config /\ n = Len(body[r].inputs)
    BY <1>1 DEF OneRequest, HandedOK, ServiceInv
  <2>3. n \in Nat
    BY <2>2, BodyParts
  <2>4. v \in Seq(Nat) /\ Len(v) = n
    <3>1. v \in Seq(Nat)
      BY <2>2, <2>3, SeqDef DEF Vectors
    <3> QED BY <2>2, <2>3, <3>1 DEF Vectors
  <2>5. raw \in Seq(AnyEntry) \cup {Absent}
    BY ServiceAssumption
  <2>6. Sorted(r)'
    <3>1. StableSort(Indexed(raw), result.data)
      BY <1>3, <2>3, <2>5, AcceptedIsSorted DEF result
    <3> QED BY <1>1, <2>1, <3>1 DEF Sorted, Reply
  <2>7. Covered(r)'
    <3> DEFINE numbered == [i \in 1..Len(v) |-> [embedding |-> v[i], index |-> i - 1]]
    <3>1. ASSUME Faithful(raw, v)
          PROVE  result.data = numbered
      <4>1. raw \in Seq(AnyEntry)
        BY <2>5, <3>1 DEF Faithful
      <4> HIDE DEF v
      <4>2. result = Normalized("ok", numbered)
        BY <2>4, <3>1, <4>1, FaithfulAnswersAreAligned DEF result
      <4> QED BY <4>2 DEF Normalized
    <3>2. Faithful(answered'[r], v) => reply'[r].data = numbered
      BY <1>1, <2>1, <3>1 DEF Reply
    <3>3. raw # Absent
      BY <1>3 DEF result, Normalize, Normalized
    <3> QED BY <1>1, <3>2, <3>3, Zenon DEF Covered
  <2> QED BY <2>1, <2>6, <2>7 DEF OneRequest
<1> QED BY <1>2, <1>3

LEMMA ServiceStep == ServiceInv /\ [Next]_vars => ServiceInv'
<1> SUFFICES ASSUME ServiceInv, [Next]_vars
             PROVE  ServiceInv'
  OBVIOUS
<1>1. ASSUME NEW r \in Request, OneRequest(r)', config' = config,
             /\ DOMAIN pc' = Request /\ DOMAIN body' = Request /\ DOMAIN handed' = Request
             /\ DOMAIN answered' = Request /\ DOMAIN reply' = Request,
             \A q \in Request \ {r} :
                 /\ pc'[q] = pc[q] /\ body'[q] = body[q] /\ handed'[q] = handed[q]
                 /\ answered'[q] = answered[q] /\ reply'[q] = reply[q]
      PROVE  ServiceInv'
  <2>1. \A q \in Request : OneRequest(q)'
    BY <1>1, OthersKeep
  <2> QED BY <1>1, <2>1 DEF ServiceInv, OneRequest
<1>2. ASSUME NEW r \in Request, NEW b \in Body[r], Refuse(r, b) \/ TokenizerRaises(r, b)
      PROVE  ServiceInv'
  <2>1. OneRequest(r)'
    BY <1>2, StopsEarly
  <2> QED BY <1>1, <1>2, <2>1 DEF Refuse, TokenizerRaises, Fail, ServiceInv
<1>3. ASSUME NEW r \in Request, NEW b \in Body[r], Dispatch(r, b)
      PROVE  ServiceInv'
  <2>1. OneRequest(r)'
    BY <1>3, IsDispatched
  <2> QED BY <1>1, <1>3, <2>1 DEF Dispatch, ServiceInv
<1>4. ASSUME NEW r \in Request, BatchReturns(r)
      PROVE  ServiceInv'
  <2>1. OneRequest(r)'
    BY <1>4, BatchIsReturned
  <2> QED BY <1>1, <1>4, <2>1 DEF BatchReturns, Succeed, ServiceInv
<1>5. ASSUME NEW r \in Request, NEW s \in {"bad_gateway", "timeout", "unavailable", "error"},
             BatchRaises(r, s) \/ VllmRaises(r, s)
      PROVE  ServiceInv'
  <2>1. /\ pc[r] \in Lane /\ config' = config /\ body' = body /\ handed' = handed
        /\ pc'[r] = "done" /\ reply'[r].status # "ok"
    BY <1>5 DEF BatchRaises, VllmRaises, Fail, Reply, ServiceInv, Lane
  <2>2. OneRequest(r)'
    BY <2>1, Fails
  <2> QED BY <1>1, <1>5, <2>2 DEF BatchRaises, VllmRaises, Fail, ServiceInv
<1>6. ASSUME NEW r \in Request, NEW raw \in Answer[r], VllmAnswers(r, raw)
      PROVE  ServiceInv'
  <2>1. OneRequest(r)'
    BY <1>6, IsAnswered
  <2> QED BY <1>1, <1>6, <2>1 DEF VllmAnswers, Succeed, Fail, ServiceInv
<1>7. CASE UNCHANGED vars
  BY <1>7 DEF vars, ServiceInv, RequestOK, HandedOK, Covered, Sorted, Counts,
              ModelInputs, CountOK
<1> QED BY <1>2, <1>3, <1>4, <1>5, <1>6, <1>7 DEF Next

\* What is known of the requests holds of every state.
THEOREM ServiceInvariant == Spec => []ServiceInv
<1> QED BY InitServiceInv, ServiceStep, PTL DEF Spec

----------------------------------------------------------------------------
(* The theorems. *)

\* AnswersCoverInputs, of any number of requests: a 200 of create_embeddings has the
\* vector of every input, in input order, for every faithful answer of vLLM.
THEOREM AnswersCoverInputsInvariant == Spec => []AnswersCoverInputs
<1>1. ServiceInv => AnswersCoverInputs
  BY Zenon DEF ServiceInv, Covered, AnswersCoverInputs
<1> QED BY <1>1, ServiceInvariant, PTL

\* DirectDataIsSorted: what the direct path returns is what vLLM answered, sorted
\* stably by index, whatever the indexes were (normalize_vllm_embedding_data).
THEOREM DirectDataIsSortedInvariant == Spec => []DirectDataIsSorted
<1>1. ServiceInv => DirectDataIsSorted
  BY Zenon DEF ServiceInv, Sorted, DirectDataIsSorted
<1> QED BY <1>1, ServiceInvariant, PTL

\* NothingDropped: whichever path a request takes, its inputs are handed over whole
\* and in order, their counts are the inputs' own but for what was truncated, and
\* they add up to the usage, whatever a clipped text is read back as.  The query
\* lane gets one input with the total of all, which is right because a query has
\* one input.
THEOREM NothingDroppedInvariant == Spec => []NothingDropped
<1>1. ServiceInv => NothingDropped
  <2> SUFFICES ASSUME ServiceInv, NEW r \in Request, handed[r] # <<>>
               PROVE  /\ [k \in 1..Len(handed[r]) |-> handed[r][k].input] = Vectors(body[r])
                      /\ \A k \in 1..Len(handed[r]) :
                            CountOK(body[r], k, Counts(r)[k])
                      /\ reply[r].status = "ok" => reply[r].usage = Total(Counts(r))
    BY Zenon DEF NothingDropped, CountOK, Counts
  <2>1. RequestOK(r) /\ HandedOK(r)
    BY DEF ServiceInv
  <2>2. \A k \in 1..Len(handed[r]) : CountOK(body[r], k, Counts(r)[k])
    BY <2>1 DEF HandedOK, Counts
  <2> QED BY <2>1, <2>2, Zenon DEF RequestOK, HandedOK
<1> QED BY <1>1, ServiceInvariant, PTL

----------------------------------------------------------------------------
(* The counters. *)

At(p) == {r \in Request : pc[r] = p}

Pathless == {r \in Request : pc[r] = "done" /\ handed[r] = <<>>}

CountersTyped ==
    /\ routed \in [Lane -> Nat]
    /\ counted \in [Path \X Outcome -> Nat]
    /\ timed \in [Path -> Nat]

\* Requests need not be finite in number; those that have started are.
FewStarted == IsFiniteSet(Pathless) /\ \A p \in Lane : IsFiniteSet(At(p))

Timed == \A p \in Path : timed[p] = counted[<<p, "success">>] + counted[<<p, "error">>]

CountersInv ==
    /\ CountersTyped
    /\ FewStarted
    /\ Timed
    /\ \A p \in Lane : routed[p] = timed[p] + Cardinality(At(p))
    /\ counted[<<"unknown", "error">>] = Cardinality(Pathless)

\* Count keeps the sums and adds one to its path.
LEMMA CountAddsOne ==
    ASSUME CountersTyped, Timed, NEW path \in Path, NEW outcome \in Outcome, Count(path, outcome)
    PROVE  /\ counted' \in [Path \X Outcome -> Nat] /\ timed' \in [Path -> Nat]
           /\ timed'[path] = timed[path] + 1
           /\ counted'[<<path, outcome>>] = counted[<<path, outcome>>] + 1
           /\ \A p \in Path \ {path} : timed'[p] = timed[p]
           /\ \A p \in Path \ {path}, o \in Outcome : counted'[<<p, o>>] = counted[<<p, o>>]
           /\ Timed'
<1>1. /\ counted' = [counted EXCEPT ![<<path, outcome>>] = @ + 1]
      /\ timed' = [timed EXCEPT ![path] = @ + 1]
  BY DEF Count
<1>2. /\ \A p \in Path, o \in Outcome : <<p, o>> \in Path \X Outcome
      /\ counted \in [Path \X Outcome -> Nat] /\ timed \in [Path -> Nat]
  BY DEF CountersTyped
<1>3. \A p \in Path, o \in Outcome :
          counted'[<<p, o>>] = IF p = path /\ o = outcome THEN counted[<<p, o>>] + 1 ELSE counted[<<p, o>>]
  BY <1>1, <1>2
<1>4. \A p \in Path : timed'[p] = IF p = path THEN timed[p] + 1 ELSE timed[p]
  BY <1>1, <1>2
<1>5. counted' \in [Path \X Outcome -> Nat] /\ timed' \in [Path -> Nat]
  BY <1>1, <1>2
<1>6. ASSUME NEW p \in Path
      PROVE  timed'[p] = counted'[<<p, "success">>] + counted'[<<p, "error">>]
  <2>1. /\ counted[<<p, "success">>] \in Nat /\ counted[<<p, "error">>] \in Nat
        /\ timed[p] = counted[<<p, "success">>] + counted[<<p, "error">>]
    BY <1>2 DEF Timed, Outcome
  <2>2. outcome = "success" \/ outcome = "error"
    BY DEF Outcome
  <2> QED BY <1>3, <1>4, <2>1, <2>2 DEF Outcome
<1> QED
  BY <1>3, <1>4, <1>5, <1>6 DEF Timed

\* A request that ends before it has a path.
LEMMA PathlessIsCounted ==
    ASSUME ServiceInv, CountersInv, NEW r \in Request, pc[r] = "idle",
           Count("unknown", "error"), pc' = [pc EXCEPT ![r] = "done"], UNCHANGED <<handed, routed>>
    PROVE  CountersInv'
<1>0. /\ DOMAIN pc = Request /\ handed[r] = <<>>
      /\ "unknown" \in Path /\ "unknown" \notin Lane /\ "error" \in Outcome /\ Lane \subseteq Path
      /\ "idle" \notin Lane /\ "done" \notin Lane
  BY DEF ServiceInv, RequestOK, Path, Lane, Outcome
<1>1. CountersTyped /\ Timed /\ FewStarted
  BY DEF CountersInv
<1>2. /\ counted' \in [Path \X Outcome -> Nat] /\ timed' \in [Path -> Nat]
      /\ counted'[<<"unknown", "error">>] = counted[<<"unknown", "error">>] + 1
      /\ \A p \in Lane : timed'[p] = timed[p]
      /\ Timed'
  BY <1>0, <1>1, CountAddsOne
<1>3. Pathless' = Pathless \cup {r} /\ r \notin Pathless
  BY <1>0 DEF Pathless
<1>4. ASSUME NEW p \in Lane PROVE At(p)' = At(p)
  BY <1>0, <1>4 DEF At
<1>5. IsFiniteSet(Pathless') /\ Cardinality(Pathless') = Cardinality(Pathless) + 1
  BY <1>1, <1>3, FS_AddElement DEF FewStarted
<1>6. /\ CountersTyped' /\ FewStarted'
  BY <1>1, <1>2, <1>4, <1>5 DEF CountersTyped, FewStarted
<1>7. \A p \in Lane : routed'[p] = timed'[p] + Cardinality(At(p))'
  BY <1>2, <1>4 DEF CountersInv
<1> QED
  BY <1>2, <1>5, <1>6, <1>7 DEF CountersInv

\* A request that sets out on a path.
LEMMA DispatchIsCounted ==
    ASSUME ServiceInv, CountersInv, NEW r \in Request, pc[r] = "idle", NEW path \in Lane,
           routed' = [routed EXCEPT ![path] = @ + 1], pc' = [pc EXCEPT ![r] = path],
           \A q \in Request \ {r} : handed'[q] = handed[q], UNCHANGED <<counted, timed>>
    PROVE  CountersInv'
<1>0. /\ DOMAIN pc = Request /\ "idle" \notin Lane /\ "done" \notin Lane
      /\ routed \in [Lane -> Nat] /\ timed \in [Path -> Nat] /\ Lane \subseteq Path
  BY DEF ServiceInv, Lane, Path, CountersInv, CountersTyped
<1>1. Pathless' = Pathless
  BY <1>0 DEF Pathless
<1>2. At(path)' = At(path) \cup {r} /\ r \notin At(path)
  BY <1>0 DEF At
<1>3. ASSUME NEW p \in Lane, p # path PROVE At(p)' = At(p)
  BY <1>0, <1>3 DEF At
<1>4. IsFiniteSet(At(path)') /\ Cardinality(At(path)') = Cardinality(At(path)) + 1
      /\ Cardinality(At(path)) \in Nat
  BY <1>2, FS_AddElement, FS_CardinalityType DEF CountersInv, FewStarted
<1>5. FewStarted'
  BY <1>1, <1>3, <1>4 DEF CountersInv, FewStarted
<1>6. ASSUME NEW p \in Lane PROVE routed'[p] = timed'[p] + Cardinality(At(p)')
  <2>1. routed[p] = timed[p] + Cardinality(At(p)) /\ timed[p] \in Nat
    BY <1>0 DEF CountersInv
  <2>2. CASE p = path
    BY <1>0, <1>4, <2>1, <2>2
  <2>3. CASE p # path
    BY <1>0, <1>3, <2>1, <2>3
  <2> QED BY <2>2, <2>3
<1>7. CountersTyped' /\ Timed'
  BY <1>0 DEF CountersInv, CountersTyped, Timed
<1>8. (counted[<<"unknown", "error">>] = Cardinality(Pathless))'
  BY <1>1 DEF CountersInv
<1> QED
  BY <1>5, <1>6, <1>7, <1>8 DEF CountersInv

\* A request that ends on its path.
LEMMA EndIsCounted ==
    ASSUME ServiceInv, CountersInv, NEW r \in Request, NEW path \in Lane, pc[r] = path,
           NEW outcome \in Outcome, Count(path, outcome), pc' = [pc EXCEPT ![r] = "done"],
           UNCHANGED <<handed, routed>>
    PROVE  CountersInv'
<1>0. /\ DOMAIN pc = Request /\ handed[r] # <<>> /\ path \in Path /\ path # "done"
      /\ "unknown" \in Path /\ path # "unknown" /\ "error" \in Outcome /\ Lane \subseteq Path
      /\ "done" \notin Lane
  BY DEF ServiceInv, RequestOK, Path, Lane, Outcome
<1>1. CountersTyped /\ Timed /\ FewStarted
  BY DEF CountersInv
<1>2. /\ counted' \in [Path \X Outcome -> Nat] /\ timed' \in [Path -> Nat]
      /\ timed'[path] = timed[path] + 1
      /\ \A p \in Path \ {path} : timed'[p] = timed[p]
      /\ \A p \in Path \ {path}, o \in Outcome : counted'[<<p, o>>] = counted[<<p, o>>]
      /\ Timed'
  BY <1>0, <1>1, CountAddsOne
<1>3. Pathless' = Pathless
  BY <1>0 DEF Pathless
<1>4. At(path)' = At(path) \ {r} /\ r \in At(path)
  BY <1>0 DEF At
<1>5. ASSUME NEW p \in Lane, p # path PROVE At(p)' = At(p)
  BY <1>0, <1>5 DEF At
<1>6. /\ IsFiniteSet(At(path)') /\ Cardinality(At(path)') = Cardinality(At(path)) - 1
      /\ Cardinality(At(path)) \in Nat
  BY <1>1, <1>4, FS_RemoveElement, FS_CardinalityType DEF FewStarted
<1>7. CountersTyped' /\ FewStarted'
  BY <1>1, <1>2, <1>3, <1>5, <1>6 DEF CountersTyped, FewStarted
<1>8. ASSUME NEW p \in Lane PROVE routed'[p] = timed'[p] + Cardinality(At(p)')
  <2>1. routed[p] = timed[p] + Cardinality(At(p)) /\ timed[p] \in Nat
    BY <1>0 DEF CountersInv, CountersTyped
  <2>2. CASE p = path
    BY <1>2, <1>6, <2>1, <2>2
  <2>3. CASE p # path
    BY <1>0, <1>2, <1>5, <2>1, <2>3
  <2> QED BY <2>2, <2>3
<1>9. (counted[<<"unknown", "error">>] = Cardinality(Pathless))'
  BY <1>0, <1>2, <1>3 DEF CountersInv
<1> QED
  BY <1>2, <1>7, <1>8, <1>9 DEF CountersInv

LEMMA StepIsCounted ==
    ASSUME ServiceInv, CountersInv, [Next]_vars
    PROVE  CountersInv'
<1>1. ASSUME NEW r \in Request, NEW b \in Body[r], Refuse(r, b) \/ TokenizerRaises(r, b)
      PROVE  CountersInv'
  BY <1>1, PathlessIsCounted DEF Refuse, TokenizerRaises, Fail
<1>2. ASSUME NEW r \in Request, NEW b \in Body[r], Dispatch(r, b)
      PROVE  CountersInv'
  <2>1. PathOf(b) \in Lane
    BY DEF PathOf, Lane
  <2>2. /\ pc[r] = "idle" /\ pc' = [pc EXCEPT ![r] = PathOf(b)]
        /\ routed' = [routed EXCEPT ![PathOf(b)] = @ + 1] /\ UNCHANGED <<counted, timed>>
        /\ \A q \in Request \ {r} : handed'[q] = handed[q]
    BY <1>2 DEF Dispatch, ServiceInv
  <2>3. ASSUME NEW path \in Lane, PathOf(b) = path
        PROVE  CountersInv'
    BY <2>2, <2>3, DispatchIsCounted
  <2> QED BY <2>1, <2>3
<1>3. ASSUME NEW r \in Request, pc[r] \in Lane, NEW outcome \in Outcome, Count(pc[r], outcome),
             pc' = [pc EXCEPT ![r] = "done"], UNCHANGED <<handed, routed>>
      PROVE  CountersInv'
  <2>1. ASSUME NEW path \in Lane, pc[r] = path PROVE CountersInv'
    BY <1>3, <2>1, EndIsCounted
  <2> QED BY <1>3, <2>1
<1>4. ASSUME NEW r \in Request, BatchReturns(r)
      PROVE  CountersInv'
  <2>1. pc[r] \in Lane /\ "success" \in Outcome
    BY <1>4 DEF BatchReturns, Lane, Outcome
  <2> QED BY <1>3, <1>4, <2>1 DEF BatchReturns, Succeed
<1>5. ASSUME NEW r \in Request, NEW s, BatchRaises(r, s) \/ VllmRaises(r, s)
      PROVE  CountersInv'
  <2>1. pc[r] \in Lane /\ "error" \in Outcome
    BY <1>5 DEF BatchRaises, VllmRaises, Lane, Outcome
  <2>2. Count(pc[r], "error") /\ pc' = [pc EXCEPT ![r] = "done"] /\ UNCHANGED <<handed, routed>>
    BY <1>5 DEF BatchRaises, VllmRaises, Fail
  <2> QED BY <1>3, <2>1, <2>2
<1>6. ASSUME NEW r \in Request, NEW raw, VllmAnswers(r, raw)
      PROVE  CountersInv'
  <2>1. pc[r] \in Lane /\ "error" \in Outcome /\ "success" \in Outcome
    BY <1>6 DEF VllmAnswers, Lane, Outcome
  <2>2. /\ Count(pc[r], "error") \/ Count(pc[r], "success")
        /\ pc' = [pc EXCEPT ![r] = "done"] /\ UNCHANGED <<handed, routed>>
    BY <1>6 DEF VllmAnswers, Succeed, Fail
  <2> QED BY <1>3, <2>1, <2>2
<1>7. CASE UNCHANGED vars
  BY <1>7 DEF vars, CountersInv, CountersTyped, FewStarted, Timed, At, Pathless
<1> QED
  BY <1>1, <1>2, <1>4, <1>5, <1>6, <1>7 DEF Next

----------------------------------------------------------------------------
(* The errors. *)

Failed(s) == {r \in Request : reply[r].status = s}

ErrorsInv ==
    /\ errors \in [Failure -> Nat]
    /\ \A s \in Failure : IsFiniteSet(Failed(s)) /\ errors[s] = Cardinality(Failed(s))

\* A request that fails had no reply yet.
LEMMA FailIsCounted ==
    ASSUME ServiceInv, ErrorsInv, NEW r \in Request, pc[r] # "done",
           NEW path, NEW status \in Failure, Fail(r, path, status)
    PROVE  ErrorsInv'
<1>1. /\ reply[r].status = "none" /\ DOMAIN reply = Request
      /\ reply' = [reply EXCEPT ![r] = Reply(status, <<>>, 0)]
      /\ errors' = [errors EXCEPT ![status] = @ + 1]
      /\ errors \in [Failure -> Nat]
  BY DEF ServiceInv, RequestOK, NoReply, Reply, Fail, ErrorsInv
<1>2. /\ \A q \in Request \ {r} : reply'[q] = reply[q]
      /\ reply'[r].status = status
  BY <1>1 DEF Reply
<1>3. Failed(status)' = Failed(status) \cup {r} /\ r \notin Failed(status)
  BY <1>1, <1>2 DEF Failed, Failure
<1>4. ASSUME NEW s \in Failure, s # status PROVE Failed(s)' = Failed(s)
  BY <1>1, <1>2, <1>4 DEF Failed, Failure
<1>5. /\ IsFiniteSet(Failed(status)')
      /\ Cardinality(Failed(status)') = Cardinality(Failed(status)) + 1
  BY <1>3, FS_AddElement DEF ErrorsInv
<1>6. ASSUME NEW s \in Failure
      PROVE  IsFiniteSet(Failed(s)') /\ errors'[s] = Cardinality(Failed(s)')
  <2>1. IsFiniteSet(Failed(s)) /\ errors[s] = Cardinality(Failed(s))
    BY DEF ErrorsInv
  <2>2. CASE s = status
    BY <1>1, <1>5, <2>1, <2>2
  <2>3. CASE s # status
    BY <1>1, <1>4, <2>1, <2>3
  <2> QED BY <2>2, <2>3
<1> QED
  BY <1>1, <1>6 DEF ErrorsInv

\* A step that answers no error counts none.
LEMMA NoErrorIsCounted ==
    ASSUME ErrorsInv, errors' = errors,
           \A s \in Failure : Failed(s)' = Failed(s)
    PROVE  ErrorsInv'
BY DEF ErrorsInv

LEMMA StepCountsErrors ==
    ASSUME ServiceInv, ErrorsInv, [Next]_vars
    PROVE  ErrorsInv'
<1>1. ASSUME NEW r \in Request, NEW b \in Body[r], Refuse(r, b) \/ TokenizerRaises(r, b)
      PROVE  ErrorsInv'
  <2>1. /\ pc[r] # "done"
        /\ Fail(r, "unknown", "bad_request") \/ Fail(r, "unknown", "error")
    BY <1>1 DEF Refuse, TokenizerRaises
  <2> QED BY <2>1, FailIsCounted DEF Failure
<1>2. ASSUME NEW r \in Request, NEW b \in Body[r], Dispatch(r, b)
      PROVE  ErrorsInv'
  BY <1>2, NoErrorIsCounted DEF Dispatch, Failed
<1>3. ASSUME NEW r \in Request, pc[r] \in Lane, NEW data, Succeed(r, data)
      PROVE  ErrorsInv'
  <2>1. /\ reply[r].status = "none" /\ DOMAIN reply = Request
        /\ reply'[r].status = "ok" /\ errors' = errors
        /\ \A q \in Request \ {r} : reply'[q] = reply[q]
    BY <1>3 DEF ServiceInv, RequestOK, NoReply, Reply, Succeed, Lane
  <2>2. \A s \in Failure : Failed(s)' = Failed(s)
    BY <2>1 DEF Failed, Failure
  <2> QED BY <2>1, <2>2, NoErrorIsCounted
<1>4. ASSUME NEW r \in Request, BatchReturns(r)
      PROVE  ErrorsInv'
  BY <1>3, <1>4 DEF BatchReturns, Lane
<1>5. ASSUME NEW r \in Request, NEW s \in {"bad_gateway", "timeout", "unavailable", "error"},
             BatchRaises(r, s) \/ VllmRaises(r, s)
      PROVE  ErrorsInv'
  <2>1. pc[r] # "done" /\ s \in Failure /\ \E path : Fail(r, path, s)
    BY <1>5 DEF BatchRaises, VllmRaises, Failure
  <2> QED BY <2>1, FailIsCounted
<1>6. ASSUME NEW r \in Request, NEW raw \in Answer[r], VllmAnswers(r, raw)
      PROVE  ErrorsInv'
  <2> DEFINE result == Normalize(raw, Len(handed[r]))
  <2>1. pc[r] \in Lane /\ pc[r] # "done"
    BY <1>6 DEF VllmAnswers, Lane
  <2>2. result.status \in {"ok"} \cup Failure
    <3>1. raw \in Seq(AnyEntry) \cup {Absent}
      BY ServiceAssumption
    <3>2. \A e : EntryStatus(e) \in {"bad_gateway", "error", "ok"}
      BY DEF EntryStatus
    <3> QED BY <3>1, <3>2 DEF Normalize, Normalized, Failure
  <2>3. CASE result.status = "ok"
    <3>1. Succeed(r, result.data)
      BY <1>6, <2>3 DEF VllmAnswers
    <3> QED BY <1>3, <2>1, <3>1
  <2>4. CASE result.status # "ok"
    <3>1. Fail(r, "direct", result.status)
      BY <1>6, <2>4 DEF VllmAnswers
    <3> HIDE DEF result
    <3> QED BY <2>1, <2>2, <2>4, <3>1, FailIsCounted
  <2> QED BY <2>3, <2>4
<1>7. CASE UNCHANGED vars
  BY <1>7 DEF vars, ErrorsInv, Failed
<1> QED
  BY <1>1, <1>2, <1>4, <1>5, <1>6, <1>7 DEF Next

\* MetricsAgree, of any number of requests: whatever ends a request, and however
\* requests interleave, it is counted and timed once, under the path it took, and
\* once more as an error of its kind if that is how it ended.
THEOREM MetricsAgreeInvariant == Spec => []MetricsAgree
<1>1. Init => CountersInv
  <2> SUFFICES ASSUME Init PROVE CountersInv
    OBVIOUS
  <2>1. Pathless = {} /\ \A p \in Lane : At(p) = {}
    BY DEF Init, Pathless, At, Lane
  <2>2. CountersTyped
    BY DEF Init, CountersTyped
  <2>3. /\ \A p \in Path : timed[p] = 0 /\ counted[<<p, "success">>] = 0 /\ counted[<<p, "error">>] = 0
        /\ \A p \in Lane : routed[p] = 0
    BY DEF Init, Outcome
  <2>4. "unknown" \in Path /\ Lane \subseteq Path
    BY DEF Path
  <2>5. Cardinality({}) = 0 /\ IsFiniteSet({})
    BY FS_EmptySet
  <2>6. FewStarted /\ Timed
    BY <2>1, <2>3, <2>5 DEF FewStarted, Timed
  <2>7. ASSUME NEW p \in Lane PROVE routed[p] = timed[p] + Cardinality(At(p))
    <3>1. routed[p] = 0 /\ timed[p] = 0 /\ Cardinality(At(p)) = 0
      BY <2>1, <2>3, <2>4, <2>5
    <3> QED BY <3>1
  <2> QED BY <2>1, <2>2, <2>3, <2>4, <2>5, <2>6, <2>7 DEF CountersInv
<1>2. ServiceInv /\ CountersInv /\ [Next]_vars => CountersInv'
  BY StepIsCounted
<1>3. Init => ErrorsInv
  <2> SUFFICES ASSUME Init PROVE ErrorsInv
    OBVIOUS
  <2>1. \A s \in Failure : Failed(s) = {}
    BY DEF Init, Failed, Failure, NoReply, Reply
  <2>2. Cardinality({}) = 0 /\ IsFiniteSet({})
    BY FS_EmptySet
  <2>3. errors \in [Failure -> Nat] /\ \A s \in Failure : errors[s] = 0
    BY DEF Init
  <2> QED BY <2>1, <2>2, <2>3 DEF ErrorsInv
<1>4. ServiceInv /\ ErrorsInv /\ [Next]_vars => ErrorsInv'
  BY StepCountsErrors
<1>5. CountersInv /\ ErrorsInv => MetricsAgree
  BY Zenon DEF CountersInv, ErrorsInv, Timed, At, Pathless, Failed, MetricsAgree
<1> QED
  BY <1>1, <1>2, <1>3, <1>4, <1>5, ServiceInvariant, PTL DEF Spec

=============================================================================

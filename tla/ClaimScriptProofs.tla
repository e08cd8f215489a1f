-------------------------- MODULE ClaimScriptProofs --------------------------
EXTENDS ClaimScript, SequenceTheorems, WellFoundedInduction, TLAPS

LEMMA LeastNumber ==
    ASSUME NEW T, T \subseteq Nat, T # {}
    PROVE  \E m \in T : \A k \in T : m <= k
<1> DEFINE R == {p \in Nat \X Nat : p[1] < p[2]}
<1>1. R = OpToRel(<, Nat)
  BY Zenon DEF OpToRel
<1>2. IsWellFoundedOn(R, Nat)
  <2> HIDE DEF R
  <2> QED BY NatLessThanWellFounded, <1>1, Zenon
<1> SUFFICES ASSUME \A m \in T : \E k \in T : k < m
             PROVE  FALSE
  OBVIOUS
<1>3. \A m \in T : \E k \in T : <<k, m>> \in R
  OBVIOUS
<1> HIDE DEF R
<1>4. \E m \in T : \A k \in T : ~ (<<k, m>> \in R)
  BY <1>2, WFMin, Zenon
<1> QED
  BY <1>3, <1>4

\* The loop's states satisfy the equation they are defined by: the recursive
\* function exists.  A least length without a solution would have one, the
\* solution for one iteration less, extended by one iteration.
LEMMA LoopStatesEquation ==
    ASSUME NEW w, Len(w) \in Nat, NEW budget, NEW dead, NEW tok
    PROVE  LoopStates(w, budget, dead, tok) =
             [k \in 0..Len(w) |->
                IF k = 0 THEN LoopStart
                ELSE LoopBody(LoopStates(w, budget, dead, tok)[k - 1], w[k],
                              budget, dead, tok)]
<1> DEFINE Body(s, k) == LoopBody(s, w[k], budget, dead, tok)
           Solves(f, n) == f = [k \in 0..n |-> IF k = 0 THEN LoopStart
                                                       ELSE Body(f[k - 1], k)]
           Unsolved == {n \in Nat : \A f : ~ Solves(f, n)}
<1> HIDE DEF Body
<1>1. Unsolved = {}
  <2> SUFFICES ASSUME Unsolved # {} PROVE FALSE
    OBVIOUS
  <2>1. PICK m \in Unsolved : \A k \in Unsolved : m <= k
    BY LeastNumber
  <2>2. CASE m = 0
    <3> DEFINE f == [k \in 0..0 |-> LoopStart]
    <3>1. Solves(f, 0)
      OBVIOUS
    <3> QED BY <2>1, <2>2, <3>1
  <2>3. CASE m # 0
    <3>1. m - 1 \in Nat /\ m - 1 \notin Unsolved
      <4>1. m \in Nat /\ m - 1 \in Nat /\ ~ (m <= m - 1)
        BY <2>3
      <4> HIDE DEF Unsolved
      <4> QED BY <2>1, <4>1
    <3>2. PICK g : Solves(g, m - 1)
      BY <3>1
    <3> DEFINE f == [k \in 0..m |-> IF k = m THEN Body(g[m - 1], m) ELSE g[k]]
    <3>3. ASSUME NEW k \in 0..m
          PROVE  f[k] = IF k = 0 THEN LoopStart ELSE Body(f[k - 1], k)
      BY <2>1, <2>3, <3>2
    <3>4. Solves(f, m)
      BY <3>3
    <3> QED BY <2>1, <3>4
  <2> QED BY <2>2, <2>3
<1>2. \E f : Solves(f, Len(w))
  BY <1>1
<1>3. Solves(LoopStates(w, budget, dead, tok), Len(w))
  <2> DEFINE F == CHOOSE f : Solves(f, Len(w))
  <2>1. LoopStates(w, budget, dead, tok) = F
    BY DEF LoopStates, Body
  <2>2. Solves(F, Len(w))
    BY <1>2
  <2> QED BY <2>1, <2>2
<1> QED
  BY <1>3 DEF Body

----------------------------------------------------------------------------
(* The loop invariant. *)

ItemsOf(s, n) == {s[j] : j \in 1..n}

\* f adds up the token counts of items, one item after the other.
AddsUp(f, items, tok) ==
    f = [k \in 0..Len(items) |-> IF k = 0 THEN 0 ELSE f[k - 1] + tok[items[k]]]

Totals(items, total, tok) == \E f : AddsUp(f, items, tok) /\ f[Len(items)] = total

\* One more item adds its count.
LEMMA TotalsOfAppend ==
    ASSUME NEW S, NEW items \in Seq(S), NEW raw \in S, NEW total, NEW tok,
           Totals(items, total, tok)
    PROVE  Totals(Append(items, raw), total + tok[raw], tok)
<1> DEFINE n == Len(items)
           more == Append(items, raw)
<1>1. /\ n \in Nat /\ Len(more) = n + 1
      /\ more[n + 1] = raw /\ \A k \in 1..n : more[k] = items[k]
  BY LenProperties, AppendProperties
<1>2. PICK f : AddsUp(f, items, tok) /\ f[n] = total
  BY DEF Totals
<1> DEFINE g == [k \in 0..(n + 1) |-> IF k = n + 1 THEN total + tok[raw] ELSE f[k]]
<1> HIDE DEF n, more
<1>3. f = [k \in 0..n |-> IF k = 0 THEN 0 ELSE f[k - 1] + tok[items[k]]]
  BY <1>2 DEF AddsUp, n
<1>4. ASSUME NEW k \in 0..(n + 1)
      PROVE  g[k] = IF k = 0 THEN 0 ELSE g[k - 1] + tok[more[k]]
  <2>1. CASE k = n + 1
    BY <1>1, <1>2, <2>1
  <2>2. CASE k # n + 1
    <3>1. k \in 0..n /\ g[k] = f[k] /\ (k # 0 => k \in 1..n /\ g[k - 1] = f[k - 1])
      BY <1>1, <2>2
    <3>2. f[k] = IF k = 0 THEN 0 ELSE f[k - 1] + tok[items[k]]
      BY <1>3, <3>1
    <3> HIDE DEF g
    <3> QED BY <1>1, <3>1, <3>2
  <2> QED BY <2>1, <2>2
<1>5. AddsUp(g, more, tok) /\ g[Len(more)] = total + tok[raw]
  BY <1>1, <1>4 DEF AddsUp
<1> QED
  BY <1>5 DEF Totals, more

\* items are some of the first n entries of w, in the order of w, each entry at
\* most once.
Picks(items, w, n) ==
    \E at \in [1..Len(items) -> 1..n] :
        /\ \A i \in 1..Len(items) : items[i] = w[at[i]]
        /\ \A i, j \in 1..Len(items) : i < j => at[i] < at[j]

\* Looking at more entries, or at a longer list, picks the same ones.
LEMMA PicksOfMore ==
    ASSUME NEW items, NEW w, NEW q, NEW m \in Nat, NEW n \in Nat, m <= n,
           \A k \in 1..m : w[k] = q[k], Picks(items, w, m)
    PROVE  Picks(items, q, n)
<1>1. PICK at \in [1..Len(items) -> 1..m] :
          /\ \A i \in 1..Len(items) : items[i] = w[at[i]]
          /\ \A i, j \in 1..Len(items) : i < j => at[i] < at[j]
  BY DEF Picks
<1>2. \A k \in 1..m : k \in 1..n
  OBVIOUS
<1>3. at \in [1..Len(items) -> 1..n]
  BY <1>2
<1>4. \A i \in 1..Len(items) : items[i] = q[at[i]]
  BY <1>1
<1> QED
  BY <1>1, <1>3, <1>4 DEF Picks

\* The next entry may be picked next.
LEMMA PicksOfAppend ==
    ASSUME NEW S, NEW items \in Seq(S), NEW w, NEW k \in Nat \ {0}, w[k] \in S,
           Picks(items, w, k - 1)
    PROVE  Picks(Append(items, w[k]), w, k)
<1> DEFINE n == Len(items)
           more == Append(items, w[k])
<1>1. /\ n \in Nat /\ Len(more) = n + 1
      /\ more[n + 1] = w[k] /\ \A i \in 1..n : more[i] = items[i]
  BY LenProperties, AppendProperties
<1>2. PICK at \in [1..n -> 1..(k - 1)] :
          /\ \A i \in 1..n : items[i] = w[at[i]]
          /\ \A i, j \in 1..n : i < j => at[i] < at[j]
  BY DEF Picks
<1> HIDE DEF n, more
<1> DEFINE wider == [i \in 1..(n + 1) |-> IF i = n + 1 THEN k ELSE at[i]]
<1>3. \A i \in 1..(n + 1) : i # n + 1 => i \in 1..n
  BY <1>1
<1>4. \A i \in 1..n : at[i] \in 1..k /\ at[i] < k
  OBVIOUS
<1>5. wider \in [1..(n + 1) -> 1..k]
  BY <1>3, <1>4
<1>6. \A i \in 1..(n + 1) : more[i] = w[wider[i]]
  BY <1>1, <1>2, <1>3
<1>7. \A i, j \in 1..(n + 1) : i < j => wider[i] < wider[j]
  <2> SUFFICES ASSUME NEW i \in 1..(n + 1), NEW j \in 1..(n + 1), i < j
               PROVE  wider[i] < wider[j]
    OBVIOUS
  <2>1. i \in 1..n /\ wider[i] = at[i]
    BY <1>1
  <2>2. CASE j = n + 1
    BY <1>4, <2>1, <2>2
  <2>3. CASE j # n + 1
    <3>1. j \in 1..n /\ wider[j] = at[j]
      BY <1>3, <2>3
    <3> QED BY <1>2, <2>1, <3>1
  <2> QED BY <2>2, <2>3
<1> HIDE DEF wider
<1> QED
  BY <1>1, <1>5, <1>6, <1>7 DEF Picks, more

\* After k iterations over the window w, whose items are in S: the script has
\* walked over the first removed items, selected exactly the live ones among
\* them, in order and each once, added up their counts, and spent no more than
\* the budget unless on a single item.
LoopInv(s, k, w, S, budget, dead, tok) ==
    /\ s = [selected |-> s.selected, total |-> s.total,
            removed |-> s.removed, broke |-> s.broke]
    /\ s.selected \in Seq(S)
    /\ s.total \in Nat
    /\ Totals(s.selected, s.total, tok)
    /\ s.removed \in 0..k
    /\ s.broke \in BOOLEAN
    /\ s.broke => s.selected # <<>>
    /\ ~ s.broke => s.removed = k
    /\ Len(s.selected) <= 1 \/ s.total <= budget
    /\ ItemsOf(s.selected, Len(s.selected)) = ItemsOf(w, s.removed) \ dead
    /\ Picks(s.selected, w, s.removed)

\* One iteration keeps the loop invariant.
LEMMA LoopBodyKeepsInv ==
    ASSUME NEW S, NEW w \in Seq(S), NEW budget \in Nat, NEW dead,
           NEW tok \in [S -> Nat], NEW k \in 1..Len(w), NEW s,
           LoopInv(s, k - 1, w, S, budget, dead, tok)
    PROVE  LoopInv(LoopBody(s, w[k], budget, dead, tok), k, w, S, budget, dead, tok)
<1> SUFFICES ASSUME NEW t, t = LoopBody(s, w[k], budget, dead, tok)
             PROVE  LoopInv(t, k, w, S, budget, dead, tok)
  OBVIOUS
<1>0. w[k] \in S /\ Len(w) \in Nat
  BY ElementOfSeq, LenProperties
<1>1. CASE s.broke
  <2>1. t = s
    BY <1>1 DEF LoopBody
  <2>2. s.removed \in 0..k
    BY DEF LoopInv
  <2>3. LoopInv(s, k, w, S, budget, dead, tok)
    BY <1>1, <2>2 DEF LoopInv
  <2> QED BY <2>1, <2>3
<1>2. CASE ~ s.broke /\ w[k] \in dead
  <2>1. t = Drop(s)
    BY <1>2 DEF LoopBody
  <2>2. /\ t = [selected |-> s.selected, total |-> s.total,
                removed |-> k, broke |-> FALSE]
        /\ s.removed = k - 1
    <3>1. s.removed = k - 1
      BY <1>2 DEF LoopInv
    <3>2. s.removed + 1 = k
      BY <3>1
    <3> QED BY <2>1, <3>1, <3>2 DEF Drop
  <2>3. ItemsOf(w, k) = ItemsOf(w, k - 1) \cup {w[k]}
    BY DEF ItemsOf
  <2>4. Picks(s.selected, w, k)
    <3>1. k - 1 \in Nat /\ k \in Nat /\ k - 1 <= k
      BY <1>0
    <3>2. Picks(s.selected, w, k - 1)
      BY <2>2 DEF LoopInv
    <3> QED BY <3>1, <3>2, PicksOfMore
  <2> QED BY <1>2, <2>2, <2>3, <2>4 DEF LoopInv
<1>3. CASE ~ s.broke /\ w[k] \notin dead /\ Fits(s, w[k], budget, tok)
  <2>1. t = Select(s, w[k], tok)
    BY <1>3 DEF LoopBody
  <2>2. /\ t = [selected |-> Append(s.selected, w[k]), total |-> s.total + tok[w[k]],
                removed |-> k, broke |-> FALSE]
        /\ s.removed = k - 1
    <3>1. s.removed = k - 1
      BY <1>3 DEF LoopInv
    <3>2. t = [selected |-> Append(s.selected, w[k]), total |-> s.total + tok[w[k]],
               removed |-> s.removed + 1, broke |-> FALSE]
      BY <2>1, Zenon DEF Select
    <3>3. s.removed + 1 = k
      BY <3>1
    <3> QED BY <3>1, <3>2, <3>3
  <2>3. ItemsOf(w, k) = ItemsOf(w, k - 1) \cup {w[k]}
    BY DEF ItemsOf
  <2>4. /\ t.selected \in Seq(S)
        /\ Len(t.selected) = Len(s.selected) + 1
        /\ \A i \in 1..Len(s.selected) : t.selected[i] = s.selected[i]
        /\ t.selected[Len(s.selected) + 1] = w[k]
        /\ Len(s.selected) \in Nat
    BY <1>0, <2>2, AppendProperties, LenProperties DEF LoopInv
  <2>5. ItemsOf(t.selected, Len(t.selected)) = ItemsOf(s.selected, Len(s.selected)) \cup {w[k]}
    <3> DEFINE n == Len(s.selected)
    <3>0. n \in Nat
      BY <2>4
    <3> HIDE DEF n
    <3>1. 1..(n + 1) = 1..n \cup {n + 1}
      BY <3>0
    <3>2. \A i \in 1..n : t.selected[i] = s.selected[i]
      BY <2>4 DEF n
    <3>3. t.selected[n + 1] = w[k] /\ Len(t.selected) = n + 1
      BY <2>4 DEF n
    <3>4. {t.selected[j] : j \in 1..n \cup {n + 1}} = {s.selected[j] : j \in 1..n} \cup {w[k]}
      BY <3>2, <3>3, Zenon
    <3> QED BY <3>1, <3>3, <3>4 DEF ItemsOf, n
  <2>6. Len(t.selected) <= 1 \/ t.total <= budget
    <3> QED BY <1>3, <2>2, <2>4 DEF LoopInv, Fits
  <2>7. t.total \in Nat
    <3>1. s.total \in Nat /\ tok[w[k]] \in Nat
      BY <1>0 DEF LoopInv
    <3>2. t.total = s.total + tok[w[k]]
      BY <2>2
    <3> QED BY <3>1, <3>2
  <2>8. ItemsOf(t.selected, Len(t.selected)) = ItemsOf(w, t.removed) \ dead
    BY <1>3, <2>2, <2>3, <2>5 DEF LoopInv
  <2>9. Totals(t.selected, t.total, tok)
    BY <1>0, <2>2, TotalsOfAppend DEF LoopInv
  <2>10. /\ t = [selected |-> t.selected, total |-> t.total,
                 removed |-> t.removed, broke |-> t.broke]
         /\ t.removed = k /\ t.broke = FALSE
    BY <2>2
  <2>11. t.removed \in 0..k /\ t.broke \in BOOLEAN
    <3>1. k \in 0..k
      BY <1>0
    <3> QED BY <2>10, <3>1, Zenon
  <2>12. Picks(t.selected, w, t.removed)
    <3>1. k \in Nat \ {0}
      BY <1>0
    <3>2. Picks(s.selected, w, k - 1) /\ s.selected \in Seq(S)
      BY <2>2 DEF LoopInv
    <3>3. Picks(Append(s.selected, w[k]), w, k)
      BY <1>0, <3>1, <3>2, PicksOfAppend
    <3> QED BY <2>2, <3>3
  <2> QED BY <2>4, <2>6, <2>7, <2>8, <2>9, <2>10, <2>11, <2>12, Zenon DEF LoopInv
<1>4. CASE ~ s.broke /\ w[k] \notin dead /\ ~ Fits(s, w[k], budget, tok)
  <2>1. t = Break(s)
    BY <1>4 DEF LoopBody
  <2>2. t = [selected |-> s.selected, total |-> s.total,
             removed |-> s.removed, broke |-> TRUE]
    BY <1>4, <2>1 DEF LoopInv, Break
  <2>3. s.selected # <<>> /\ s.removed \in 0..k
    BY <1>4 DEF LoopInv, Fits
  <2> QED BY <2>2, <2>3 DEF LoopInv
<1> QED
  BY <1>1, <1>2, <1>3, <1>4 DEF LoopInv

\* The loop invariant holds after every iteration.
LEMMA LoopInvAlways ==
    ASSUME NEW S, NEW w \in Seq(S), NEW budget \in Nat, NEW dead,
           NEW tok \in [S -> Nat]
    PROVE  \A k \in 0..Len(w) :
              LoopInv(LoopStates(w, budget, dead, tok)[k], k, w, S, budget, dead, tok)
<1> DEFINE f == LoopStates(w, budget, dead, tok)
           Bad == {k \in 0..Len(w) : ~ LoopInv(f[k], k, w, S, budget, dead, tok)}
<1>0. Len(w) \in Nat
  BY LenProperties
<1>1. f = [k \in 0..Len(w) |->
             IF k = 0 THEN LoopStart ELSE LoopBody(f[k - 1], w[k], budget, dead, tok)]
  BY <1>0, LoopStatesEquation
<1> HIDE DEF f
<1>2. LoopInv(f[0], 0, w, S, budget, dead, tok)
  <2>1. f[0] = LoopStart
    BY <1>0, <1>1
  <2>2. Totals(<<>>, 0, tok)
    <3> DEFINE sum == [k \in 0..0 |-> 0]
    <3>1. AddsUp(sum, <<>>, tok) /\ sum[Len(<<>>)] = 0
      BY DEF AddsUp
    <3> QED BY <3>1 DEF Totals
  <2>3. Picks(<<>>, w, 0)
    <3> DEFINE at == [i \in 1..0 |-> 0]
    <3>1. /\ at \in [1..Len(<<>>) -> 1..0]
          /\ \A i \in 1..Len(<<>>) : <<>>[i] = w[at[i]]
          /\ \A i, j \in 1..Len(<<>>) : i < j => at[i] < at[j]
      OBVIOUS
    <3> HIDE DEF at
    <3> QED BY <3>1 DEF Picks
  <2> QED BY <2>1, <2>2, <2>3 DEF LoopInv, LoopStart, ItemsOf
<1>3. ASSUME NEW k \in 1..Len(w), LoopInv(f[k - 1], k - 1, w, S, budget, dead, tok)
      PROVE  LoopInv(f[k], k, w, S, budget, dead, tok)
  <2>1. f[k] = LoopBody(f[k - 1], w[k], budget, dead, tok)
    BY <1>0, <1>1
  <2> QED BY <1>3, <2>1, LoopBodyKeepsInv
<1>4. Bad = {}
  <2> SUFFICES ASSUME Bad # {} PROVE FALSE
    OBVIOUS
  <2>1. PICK m \in Bad : \A k \in Bad : m <= k
    <3>1. Bad \subseteq Nat
      BY <1>0
    <3> HIDE DEF Bad
    <3> QED BY <3>1, LeastNumber
  <2>2. m # 0
    BY <1>2
  <2>3. m - 1 \in 0..Len(w) /\ m - 1 \notin Bad
    BY <1>0, <2>1, <2>2
  <2> QED BY <1>0, <1>3, <2>2, <2>3
<1> QED
  BY <1>4 DEF f

\* And at the end.
LEMMA LoopInvHolds ==
    ASSUME NEW S, NEW w \in Seq(S), NEW budget \in Nat, NEW dead,
           NEW tok \in [S -> Nat]
    PROVE  LoopInv(LoopEnd(w, budget, dead, tok), Len(w), w, S, budget, dead, tok)
<1>1. Len(w) \in 0..Len(w)
  BY LenProperties
<1> QED
  BY <1>1, LoopInvAlways DEF LoopEnd

----------------------------------------------------------------------------
(* The script as a whole. *)

\* The window is a prefix of the list, and empty only if the list is.
LEMMA WindowIsPrefix ==
    ASSUME NEW S, NEW q \in Seq(S), NEW maxItems \in Nat
    PROVE  LET w == Window(q, maxItems)
           IN  /\ w \in Seq(S)
               /\ Len(w) \in 0..Len(q)
               /\ q # <<>> => Len(w) > 0
               /\ \A k \in 1..Len(w) : w[k] = q[k]
<1>1. Len(q) \in Nat /\ (q # <<>> => Len(q) > 0)
  BY LenProperties, EmptySeq
<1>2. CASE maxItems = 0 \/ maxItems > Len(q)
  BY <1>1, <1>2 DEF Window
<1>3. CASE ~ (maxItems = 0 \/ maxItems > Len(q))
  <2>1. Window(q, maxItems) = SubSeq(q, 1, maxItems)
    BY <1>3 DEF Window
  <2>2. maxItems \in 1..Len(q)
    BY <1>1, <1>3
  <2>3. /\ SubSeq(q, 1, maxItems) \in Seq(S)
        /\ Len(SubSeq(q, 1, maxItems)) = maxItems
        /\ \A k \in 1..maxItems : SubSeq(q, 1, maxItems)[k] = q[k]
    BY <1>1, <2>2, SubSeqProperties, Z3
  <2> QED BY <1>1, <2>1, <2>2, <2>3
<1> QED
  BY <1>2, <1>3

\* It is the whole list or has max_items items.
LEMMA WindowLength ==
    ASSUME NEW S, NEW q \in Seq(S), NEW maxItems \in Nat
    PROVE  LET w == Window(q, maxItems)
           IN  Len(w) \in Nat /\ IF maxItems = 0 \/ maxItems > Len(q)
                                 THEN Len(w) = Len(q) ELSE Len(w) = maxItems
<1>1. Len(q) \in Nat
  BY LenProperties
<1>2. CASE maxItems = 0 \/ maxItems > Len(q)
  BY <1>1, <1>2 DEF Window
<1>3. CASE ~ (maxItems = 0 \/ maxItems > Len(q))
  <2>1. Window(q, maxItems) = SubSeq(q, 1, maxItems) /\ maxItems \in 1..Len(q)
    BY <1>1, <1>3 DEF Window
  <2>2. Len(SubSeq(q, 1, maxItems)) = maxItems
    BY <1>1, <2>1, SubSeqProperties, Z3
  <2> QED BY <1>1, <1>3, <2>1, <2>2
<1> QED
  BY <1>2, <1>3

\* Once the loop has broken, its variables stay as they are.
LEMMA LoopStaysBroken ==
    ASSUME NEW w, Len(w) \in Nat, NEW budget, NEW dead, NEW tok,
           NEW j \in 0..Len(w), LoopStates(w, budget, dead, tok)[j].broke
    PROVE  LoopEnd(w, budget, dead, tok) = LoopStates(w, budget, dead, tok)[j]
<1> DEFINE f == LoopStates(w, budget, dead, tok)
           Moved == {k \in j..Len(w) : f[k] # f[j]}
<1>1. f = [k \in 0..Len(w) |->
             IF k = 0 THEN LoopStart ELSE LoopBody(f[k - 1], w[k], budget, dead, tok)]
  BY LoopStatesEquation
<1>2. f[j].broke
  OBVIOUS
<1> HIDE DEF f
<1>3. Moved = {}
  <2> SUFFICES ASSUME Moved # {} PROVE FALSE
    OBVIOUS
  <2>1. PICK m \in Moved : \A k \in Moved : m <= k
    <3>1. Moved \subseteq Nat
      OBVIOUS
    <3> HIDE DEF Moved
    <3> QED BY <3>1, LeastNumber
  <2>2. m \in j..Len(w) /\ m # j /\ m \in Nat
    BY <2>1
  <2>3. m - 1 \in j..Len(w) /\ m - 1 \in 0..Len(w) /\ m \in 0..Len(w) /\ m # 0
    BY <2>2
  <2>4. f[m - 1] = f[j]
    BY <2>1, <2>3
  <2>5. f[m] = LoopBody(f[m - 1], w[m], budget, dead, tok)
    BY <1>1, <2>3
  <2>6. f[m] = f[j]
    BY <1>2, <2>4, <2>5 DEF LoopBody
  <2> QED BY <2>1, <2>6
<1>4. Len(w) \in j..Len(w)
  OBVIOUS
<1> QED
  BY <1>3, <1>4 DEF LoopEnd, f

\* A claim walks over the first n items of its window, and removes these from the
\* list; it broke at none of them.  It selects the live ones among them, in list
\* order and each once, and selects nothing only if the whole window is dead.
LEMMA ClaimWalk ==
    ASSUME NEW S, NEW q \in Seq(S), NEW maxItems \in Nat, NEW budget \in Nat,
           NEW dead, NEW tok \in [S -> Nat]
    PROVE  LET c == Claim(q, maxItems, budget, dead, tok)
               w == Window(q, maxItems)
           IN  /\ c.selected \in Seq(S)
               /\ \E n \in 0..Len(w) :
                     /\ c.rest = SubSeq(q, n + 1, Len(q))
                     /\ ItemsOf(c.selected, Len(c.selected)) = ItemsOf(q, n) \ dead
                     /\ Picks(c.selected, q, n)
                     /\ c.selected = <<>> => n = Len(w)
                     /\ \A k \in 1..n : ~ LoopStates(w, budget, dead, tok)[k - 1].broke
<1> DEFINE w == Window(q, maxItems)
           s == LoopEnd(w, budget, dead, tok)
<1>1. /\ w \in Seq(S) /\ Len(w) \in 0..Len(q)
      /\ \A k \in 1..Len(w) : w[k] = q[k]
  BY WindowIsPrefix
<1>2. Len(q) \in Nat /\ Len(w) \in Nat
  BY <1>1, LenProperties
<1>3. /\ Claim(q, maxItems, budget, dead, tok).selected = s.selected
      /\ Claim(q, maxItems, budget, dead, tok).rest = SubSeq(q, s.removed + 1, Len(q))
  BY DEF Claim, Trimmed
<1> HIDE DEF w
<1>4. \A j \in 0..Len(w) :
         LoopInv(LoopStates(w, budget, dead, tok)[j], j, w, S, budget, dead, tok)
  BY <1>1, LoopInvAlways
<1>5. s = LoopStates(w, budget, dead, tok)[Len(w)]
  BY DEF LoopEnd
<1>6. LoopInv(s, Len(w), w, S, budget, dead, tok)
  BY <1>2, <1>4, <1>5
<1>7. ASSUME NEW k \in 1..s.removed, LoopStates(w, budget, dead, tok)[k - 1].broke
      PROVE  FALSE
  <2>1. s.removed \in 0..Len(w)
    BY <1>6 DEF LoopInv
  <2>2. k - 1 \in 0..Len(w) /\ ~ (k <= k - 1) /\ k <= s.removed
    BY <1>2, <2>1
  <2>3. s = LoopStates(w, budget, dead, tok)[k - 1]
    BY <1>2, <1>7, <2>2, LoopStaysBroken
  <2>4. s.removed \in 0..(k - 1)
    BY <1>4, <2>2, <2>3 DEF LoopInv
  <2> QED BY <2>2, <2>4
<1> HIDE DEF s
<1>8. /\ s.selected \in Seq(S) /\ s.removed \in 0..Len(w)
      /\ s.selected = <<>> => s.removed = Len(w)
      /\ ItemsOf(s.selected, Len(s.selected)) = ItemsOf(w, s.removed) \ dead
      /\ Picks(s.selected, w, s.removed)
  BY <1>6 DEF LoopInv
<1>9. ItemsOf(q, s.removed) = ItemsOf(w, s.removed) /\ Picks(s.selected, q, s.removed)
  <2>1. \A k \in 1..s.removed : w[k] = q[k]
    BY <1>1, <1>2, <1>8
  <2>2. ItemsOf(q, s.removed) = ItemsOf(w, s.removed)
    BY <2>1, Zenon DEF ItemsOf
  <2>3. s.removed \in Nat /\ s.removed <= s.removed
    BY <1>8
  <2> QED BY <1>8, <2>1, <2>2, <2>3, PicksOfMore
<1>10. \E n \in 0..Len(w) :
          /\ Claim(q, maxItems, budget, dead, tok).rest = SubSeq(q, n + 1, Len(q))
          /\ ItemsOf(s.selected, Len(s.selected)) = ItemsOf(q, n) \ dead
          /\ Picks(s.selected, q, n)
          /\ s.selected = <<>> => n = Len(w)
          /\ \A k \in 1..n : ~ LoopStates(w, budget, dead, tok)[k - 1].broke
  BY <1>3, <1>7, <1>8, <1>9, Zenon
<1> QED
  BY <1>3, <1>8, <1>10, Zenon DEF w

\* What a claim removes is a prefix of the list, never an empty one while the
\* list has items; what it returns is exactly the live items of that prefix, in
\* list order and each entry once.  So a claim loses no live item, returns no
\* dead one, repeats and reorders none, and always makes progress.
THEOREM ClaimTakesLivePrefix ==
    ASSUME NEW S, NEW q \in Seq(S), NEW maxItems \in Nat, NEW budget \in Nat,
           NEW dead, NEW tok \in [S -> Nat]
    PROVE  LET c == Claim(q, maxItems, budget, dead, tok)
           IN  /\ c.selected \in Seq(S)
               /\ c.rest \in Seq(S)
               /\ \E n \in 0..Len(q) :
                     /\ q # <<>> => n > 0
                     /\ c.rest = SubSeq(q, n + 1, Len(q))
                     /\ ItemsOf(c.selected, Len(c.selected)) = ItemsOf(q, n) \ dead
                     /\ Picks(c.selected, q, n)
<1> DEFINE c == Claim(q, maxItems, budget, dead, tok)
           w == Window(q, maxItems)
<1>1. Len(w) \in 0..Len(q) /\ (q # <<>> => Len(w) > 0) /\ Len(q) \in Nat
  BY WindowIsPrefix, LenProperties
<1>2. c.selected \in Seq(S)
  BY ClaimWalk
<1>3. PICK n \in 0..Len(w) :
         /\ c.rest = SubSeq(q, n + 1, Len(q))
         /\ ItemsOf(c.selected, Len(c.selected)) = ItemsOf(q, n) \ dead
         /\ Picks(c.selected, q, n)
         /\ c.selected = <<>> => n = Len(w)
         /\ \A k \in 1..n : ~ LoopStates(w, budget, dead, tok)[k - 1].broke
  BY ClaimWalk, Zenon
<1> HIDE DEF c, w
<1>4. n \in 0..Len(q)
  BY <1>1
<1>5. c.rest \in Seq(S)
  BY <1>1, <1>3, <1>4, SubSeqProperties
<1>6. q # <<>> => n > 0
  <2> SUFFICES ASSUME q # <<>>, n = 0 PROVE FALSE
    BY <1>4
  <2>1. c.selected # <<>>
    BY <1>1, <1>3
  <2>2. Len(c.selected) \in Nat /\ Len(c.selected) > 0
    BY <1>2, <2>1, LenProperties, EmptySeq
  <2>3. c.selected[1] \in ItemsOf(c.selected, Len(c.selected))
    BY <2>2 DEF ItemsOf
  <2>4. ItemsOf(q, 0) = {}
    BY DEF ItemsOf
  <2> QED BY <1>3, <2>3, <2>4
<1> QED
  BY <1>2, <1>3, <1>4, <1>5, <1>6 DEF c

\* A claim exceeds the budget only with a single item: what it returns adds up to
\* no more than the budget, or it returns at most one item.
THEOREM ClaimKeepsBudget ==
    ASSUME NEW S, NEW q \in Seq(S), NEW maxItems \in Nat, NEW budget \in Nat,
           NEW dead, NEW tok \in [S -> Nat]
    PROVE  LET c == Claim(q, maxItems, budget, dead, tok)
           IN  \/ Len(c.selected) <= 1
               \/ \E total \in 0..budget : Totals(c.selected, total, tok)
<1> DEFINE w == Window(q, maxItems)
           s == LoopEnd(w, budget, dead, tok)
<1>1. w \in Seq(S)
  BY WindowIsPrefix
<1> HIDE DEF w
<1>2. LoopInv(s, Len(w), w, S, budget, dead, tok)
  BY <1>1, LoopInvHolds
<1>3. Claim(q, maxItems, budget, dead, tok).selected = s.selected
  BY DEF Claim, w
<1> HIDE DEF s
<1> QED
  BY <1>2, <1>3 DEF LoopInv

=============================================================================

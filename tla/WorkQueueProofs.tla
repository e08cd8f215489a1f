-------------------------- MODULE WorkQueueProofs --------------------------
(***************************************************************************)
(* Proofs about WorkQueue, for every set of entries and of workers, every  *)
(* kind each entry may be of, and all values of the lane's settings, of    *)
(* the clocks' differences and of the horizon.                             *)
(***************************************************************************)
EXTENDS WorkQueue, ClaimScriptProofs, FiniteSetTheorems, FunctionTheorems

\* The entries with a fate.
Of(f) == {e \in Entry : fate[e] = f}

Types == TypeOK /\ kind \in Kinds /\ Delay <= clock

\* The list holds the queued entries, each once, in the order of their pushes.
ListIsQueue ==
    /\ \A e \in Entry : e \in Queued <=> fate[e] = "queued"
    /\ \A i, j \in 1..Len(list) :
          i < j => list[i] # list[j] /\ pushed[list[i]] <= pushed[list[j]]

\* What was pushed was pushed in the past, and created at most Skew after that and
\* at most Delay before it.
PushesArePast ==
    \A e \in Entry :
        fate[e] # "unsent" =>
            /\ pushed[e] <= clock
            /\ created[e] <= pushed[e] + Skew
            /\ pushed[e] <= created[e] + Delay

\* What a worker knows of the time at each point of its loop.
LoopTimes ==
    \A w \in Worker :
        /\ now[w] <= Clock(w)
        /\ pc[w] \in {"down", "peek", "window"} => wake[w] = 0
        /\ pc[w] = "claim" => wake[w] + Lead[w] <= now[w]
        /\ pc[w] = "pause" => wake[w] <= clock + Pause
        /\ pc[w] # "embed" => batch[w] = <<>>

\* What vLLM embeds was claimed, so its creation is not written any more.
BatchIsClaimed ==
    \A w \in Worker : \A k \in 1..Len(batch[w]) : fate[batch[w][k]] = "batched"

\* Nothing in the list was pushed before the entry a worker saw at its head.
PeekedIsFirst ==
    \A w \in Worker :
        peeked[w] # None =>
            /\ fate[peeked[w]] # "unsent"
            /\ \A e \in Queued : pushed[peeked[w]] <= pushed[e]

\* No sleep lasts longer than an entry of the list may wait for it.
SleepsAreShort ==
    \A w \in Worker : \A e \in Queued :
        /\ pc[w] = "asleep" => wake[w] <= pushed[e] + MaxWait + Skew
        /\ pc[w] = "pause" => \/ wake[w] <= pushed[e] + Pause
                              \/ MaxItems # 0 /\ walked[w] = MaxItems

\* A worker that keeps up does not oversleep.
PromptWakes ==
    \A w \in Prompt : pc[w] \in {"asleep", "pause"} => clock <= wake[w]

FiniteLoss == IsFiniteSet(Of("dropped")) /\ IsFiniteSet(Of("lost"))

QueueInv ==
    /\ Types
    /\ ListIsQueue
    /\ PushesArePast
    /\ LoopTimes
    /\ BatchIsClaimed
    /\ PeekedIsFirst
    /\ SleepsAreShort
    /\ PromptWakes
    /\ FiniteLoss
    /\ DropsOnlyDead
    /\ BatchOutlivedWindow

----------------------------------------------------------------------------
(* A claim. *)

LEMMA Numbers ==
    /\ TargetTokens \in Nat /\ MaxItems \in Nat /\ MaxWait \in Nat /\ Pause \in Nat
    /\ Timeout \in Nat /\ Delay \in Nat /\ Skew \in Nat
    /\ LastArrival \in Nat /\ Horizon \in Nat /\ Delay <= Horizon
    /\ \A w \in Worker : Lead[w] \in Nat
<1>1. /\ TargetTokens \in Nat /\ MaxItems \in Nat /\ MaxWait \in Nat /\ Pause \in Nat
      /\ Timeout \in Nat /\ Delay \in Nat /\ Skew \in Nat
      /\ LastArrival \in Nat /\ Horizon \in Nat
      /\ \A w \in Worker : Lead[w] \in Nat
  BY QueueAssumption
<1>2. Delay < Timeout /\ LastArrival + Skew + Timeout < Horizon
  BY QueueAssumption
<1> QED
  BY <1>1, <1>2

LEMMA QueuedIsItems == list \in Seq(Entry) => Queued = ItemsOf(list, Len(list))
BY DEF Queued, ItemsOf

\* What the script does with the clock t: it removes the first n entries, at most
\* max_items and none it fails on, and returns the live ones.  When none is live
\* it removed the whole list or max_items entries.
LEMMA ClaimOutcome ==
    ASSUME list \in Seq(Entry), NEW t \in Nat
    PROVE  LET c == Claim(list, MaxItems, TargetTokens, Dead(t), TokenView)
           IN  /\ c.selected \in Seq(Entry)
               /\ \E n \in 0..Len(list) :
                     /\ c.rest = SubSeq(list, n + 1, Len(list))
                     /\ ItemsOf(c.selected, Len(c.selected)) = ItemsOf(list, n) \ Dead(t)
                     /\ MaxItems # 0 => n <= MaxItems
                     /\ c.selected = <<>> => n = Len(list) \/ (MaxItems # 0 /\ n = MaxItems)
                     /\ ~ Aborts(t) => \A k \in 1..n : kind[list[k]] # "abort"
<1> DEFINE c == Claim(list, MaxItems, TargetTokens, Dead(t), TokenView)
           w == Window(list, MaxItems)
           states == LoopStates(w, TargetTokens, Dead(t), TokenView)
<1>1. Len(list) \in Nat /\ Queued \subseteq Entry /\ list \in Seq(Queued)
  <2>1. Len(list) \in Nat /\ \A k \in 1..Len(list) : list[k] \in Entry
    BY LenProperties, ElementOfSeq
  <2>2. list = [k \in 1..Len(list) |-> list[k]] /\ \A k \in 1..Len(list) : list[k] \in Queued
    BY LenProperties DEF Queued
  <2>3. list \in Seq(Queued)
    BY <2>1, <2>2
  <2> QED BY <2>1, <2>3 DEF Queued
<1>2. TokenView \in [Queued -> Nat]
  BY <1>1, QueueAssumption DEF TokenView
<1>3. /\ c.selected \in Seq(Queued)
      /\ \E n \in 0..Len(w) :
            /\ c.rest = SubSeq(list, n + 1, Len(list))
            /\ ItemsOf(c.selected, Len(c.selected)) = ItemsOf(list, n) \ Dead(t)
            /\ Picks(c.selected, list, n)
            /\ c.selected = <<>> => n = Len(w)
            /\ \A k \in 1..n : ~ states[k - 1].broke
  BY <1>1, <1>2, Numbers, ClaimWalk
<1>4. /\ Len(w) \in 0..Len(list)
      /\ \A k \in 1..Len(w) : w[k] = list[k]
  BY Numbers, WindowIsPrefix
<1>5. /\ Len(w) = Len(list) \/ (MaxItems # 0 /\ Len(w) = MaxItems)
      /\ MaxItems # 0 => Len(w) <= MaxItems
  BY <1>1, Numbers, WindowLength
<1>6. Aborts(t) <=> \E k \in 1..Len(w) : kind[w[k]] = "abort" /\ ~ states[k - 1].broke
  BY DEF Aborts
<1>7. PICK n \in 0..Len(w) :
            /\ c.rest = SubSeq(list, n + 1, Len(list))
            /\ ItemsOf(c.selected, Len(c.selected)) = ItemsOf(list, n) \ Dead(t)
            /\ Picks(c.selected, list, n)
            /\ c.selected = <<>> => n = Len(w)
            /\ \A k \in 1..n : ~ states[k - 1].broke
  BY <1>3
<1> HIDE DEF c, w, states
<1>8. n \in 0..Len(list) /\ (MaxItems # 0 => n <= MaxItems)
  BY <1>1, <1>4, <1>5, Numbers
<1>9. ~ Aborts(t) => \A k \in 1..n : kind[list[k]] # "abort"
  <2>1. \A k \in 1..n : k \in 1..Len(w)
    BY <1>1, <1>4
  <2> QED BY <1>4, <1>6, <1>7, <2>1
<1>10. c.selected \in Seq(Entry)
  BY <1>1, <1>3
<1>11. c.selected = <<>> => n = Len(list) \/ (MaxItems # 0 /\ n = MaxItems)
  BY <1>5, <1>7
<1> QED
  BY <1>7, <1>8, <1>9, <1>10, <1>11, Zenon DEF c

\* What became of e when a worker claimed the first n entries of the list.
ClaimedFate(e, n, t, valid) ==
    IF e \notin ItemsOf(list, n) THEN fate[e]
    ELSE IF e \in Dead(t) THEN "dropped"
    ELSE IF valid THEN "batched" ELSE "lost"

\* A claim by w of the first n entries of the list, of which it returned s.
ClaimOf(w, n, s) ==
    /\ list' = SubSeq(list, n + 1, Len(list))
    /\ fate' = [e \in Entry |-> ClaimedFate(e, n, now[w], Validates(s))]
    /\ Queued' = Queued \ ItemsOf(list, n)
    /\ ItemsOf(s, Len(s)) = ItemsOf(list, n) \ Dead(now[w])
    /\ MaxItems # 0 => n <= MaxItems
    /\ s = <<>> => n = Len(list) \/ (MaxItems # 0 /\ n = MaxItems)
    /\ \A k \in 1..n : kind[list[k]] # "abort"
    /\ \/ /\ s = <<>>
          /\ pc' = [pc EXCEPT ![w] = "pause"]
          /\ wake' = [wake EXCEPT ![w] = Later(Pause)]
          /\ walked' = [walked EXCEPT ![w] = n]
          /\ UNCHANGED batch
       \/ /\ s # <<>> /\ Validates(s)
          /\ pc' = [pc EXCEPT ![w] = "embed"]
          /\ batch' = [batch EXCEPT ![w] = s]
          /\ UNCHANGED <<wake, walked>>
       \/ /\ ~Validates(s)
          /\ pc' = [pc EXCEPT ![w] = "down"]
          /\ wake' = [wake EXCEPT ![w] = 0]
          /\ UNCHANGED <<walked, batch>>
    /\ now' = [now EXCEPT ![w] = 0]
    /\ UNCHANGED <<kind, clock, created, pushed, peeked>>

\* ClaimBatch is such a claim: since each entry is in the list once, what is left
\* holds none of those it walked over.
LEMMA ClaimSteps ==
    ASSUME TypeOK, ListIsQueue, NEW w \in Worker, ClaimBatch(w)
    PROVE  /\ pc[w] = "claim"
           /\ \E n \in 0..Len(list), s \in Seq(Entry) : ClaimOf(w, n, s)
<1> DEFINE c == Claim(list, MaxItems, TargetTokens, Dead(now[w]), TokenView)
           s == c.selected
           rest == c.rest
<1>1. list \in Seq(Entry) /\ now[w] \in Nat /\ Len(list) \in Nat
  BY LenProperties DEF TypeOK
<1>2. pc[w] = "claim" /\ ~ Aborts(now[w])
  BY DEF ClaimBatch
<1>3. PICK n \in 0..Len(list) :
         /\ rest = SubSeq(list, n + 1, Len(list))
         /\ ItemsOf(s, Len(s)) = ItemsOf(list, n) \ Dead(now[w])
         /\ MaxItems # 0 => n <= MaxItems
         /\ s = <<>> => n = Len(list) \/ (MaxItems # 0 /\ n = MaxItems)
         /\ ~ Aborts(now[w]) => \A k \in 1..n : kind[list[k]] # "abort"
  BY <1>1, ClaimOutcome, Zenon
<1>4. s \in Seq(Entry)
  BY <1>1, ClaimOutcome
<1>5. /\ list' = rest
      /\ fate' = [e \in Entry |->
                     IF e \notin Queued \ {rest[k] : k \in 1..Len(rest)} THEN fate[e]
                     ELSE IF e \notin {s[k] : k \in 1..Len(s)} THEN "dropped"
                     ELSE IF Validates(s) THEN "batched" ELSE "lost"]
  BY Zenon DEF ClaimBatch
<1>6. /\ \/ /\ s = <<>>
            /\ pc' = [pc EXCEPT ![w] = "pause"]
            /\ wake' = [wake EXCEPT ![w] = Later(Pause)]
            /\ walked' = [walked EXCEPT ![w] = Len(list) - Len(rest)]
            /\ UNCHANGED batch
         \/ /\ s # <<>> /\ Validates(s)
            /\ pc' = [pc EXCEPT ![w] = "embed"]
            /\ batch' = [batch EXCEPT ![w] = s]
            /\ UNCHANGED <<wake, walked>>
         \/ /\ ~Validates(s)
            /\ pc' = [pc EXCEPT ![w] = "down"]
            /\ wake' = [wake EXCEPT ![w] = 0]
            /\ UNCHANGED <<walked, batch>>
      /\ now' = [now EXCEPT ![w] = 0]
      /\ UNCHANGED <<kind, clock, created, pushed, peeked>>
  BY Zenon DEF ClaimBatch
<1> HIDE DEF s, rest
<1>7. /\ Len(rest) = Len(list) - n
      /\ \A k \in 1..Len(rest) : rest[k] = list[n + k]
  BY <1>1, <1>3, SubSeqProperties
<1>8. {rest[k] : k \in 1..Len(rest)} = Queued \ ItemsOf(list, n)
  <2>1. ASSUME NEW k \in 1..Len(rest)
        PROVE  rest[k] \in Queued /\ rest[k] \notin ItemsOf(list, n)
    <3>1. n + k \in 1..Len(list) /\ rest[k] = list[n + k]
      BY <1>1, <1>7
    <3>2. \A j \in 1..n : j \in 1..Len(list) /\ j < n + k
      BY <1>1
    <3>3. \A j \in 1..n : list[j] # list[n + k]
      BY <3>1, <3>2 DEF ListIsQueue
    <3> QED BY <3>1, <3>3 DEF Queued, ItemsOf
  <2>2. ASSUME NEW e \in Queued, e \notin ItemsOf(list, n)
        PROVE  e \in {rest[k] : k \in 1..Len(rest)}
    <3>1. PICK k \in 1..Len(list) : e = list[k]
      BY DEF Queued
    <3>2. k \notin 1..n
      BY <2>2, <3>1 DEF ItemsOf
    <3>3. k - n \in 1..Len(rest) /\ rest[k - n] = list[k]
      <4>1. k - n \in 1..Len(rest) /\ n + (k - n) = k
        BY <1>1, <1>7, <3>2
      <4> QED BY <1>7, <4>1
    <3> QED BY <3>1, <3>3
  <2> QED BY <2>1, <2>2
<1>9. ItemsOf(list, n) \subseteq Queued
  BY <1>1 DEF ItemsOf, Queued
<1>10. fate' = [e \in Entry |-> ClaimedFate(e, n, now[w], Validates(s))]
  <2>1. {s[k] : k \in 1..Len(s)} = ItemsOf(list, n) \ Dead(now[w])
    BY <1>3 DEF ItemsOf
  <2>2. Queued \ {rest[k] : k \in 1..Len(rest)} = ItemsOf(list, n)
    BY <1>8, <1>9
  <2>3. \A e \in Entry :
           ClaimedFate(e, n, now[w], Validates(s)) =
             IF e \notin Queued \ {rest[k] : k \in 1..Len(rest)} THEN fate[e]
             ELSE IF e \notin {s[k] : k \in 1..Len(s)} THEN "dropped"
             ELSE IF Validates(s) THEN "batched" ELSE "lost"
    BY <2>1, <2>2 DEF ClaimedFate
  <2> QED BY <1>5, <2>3
<1>11. Queued' = Queued \ ItemsOf(list, n)
  <2>1. Queued' = {rest[k] : k \in 1..Len(rest)}
    BY <1>5 DEF Queued
  <2> QED BY <1>8, <2>1
<1>12. Len(list) - Len(rest) = n
  BY <1>1, <1>7
<1>13. ClaimOf(w, n, s)
  BY <1>2, <1>3, <1>5, <1>6, <1>10, <1>11, <1>12, Zenon DEF ClaimOf
<1> QED
  BY <1>2, <1>4, <1>13

----------------------------------------------------------------------------
(* Types and times. *)

LEMMA LaterIsSoon ==
    ASSUME Types, NEW ticks \in Nat
    PROVE  /\ Later(ticks) \in 0..Horizon
           /\ clock <= Later(ticks) /\ Later(ticks) <= clock + ticks
BY Numbers DEF Types, TypeOK, Later

\* A window is never longer than max_wait_ms.
LEMMA RemainingIsShort ==
    ASSUME Types, NEW e \in Entry, NEW t \in Nat, Remaining(e, t) > 0
    PROVE  Remaining(e, t) \in Nat /\ Remaining(e, t) <= MaxWait
BY Numbers DEF Types, TypeOK, Remaining

LEMMA TypesInit == Init => Types
<1> SUFFICES ASSUME Init PROVE Types
  OBVIOUS
<1>1. Delay \in 0..Horizon /\ 0 \in 0..Horizon
  BY Numbers
<1>2. <<>> \in Seq(Entry)
  OBVIOUS
<1> QED
  BY <1>1, <1>2 DEF Init, Types, TypeOK, Fate, Ready

\* A step of a worker other than a claim.
LEMMA TypesOfLoop ==
    ASSUME Types, NEW w \in Worker,
           \/ Start(w) \/ PeekOldest(w) \/ WaitForWindow(w) \/ Awake(w) \/ PauseEnds(w)
           \/ ClaimRaises(w) \/ FinishBatch(w)
    PROVE  Types'
<1>0. /\ clock \in Nat /\ MaxWait \in Nat /\ 0 \in 0..Horizon /\ clock \in 0..Horizon
      /\ Clock(w) \in Nat /\ <<>> \in Seq(Entry)
  BY Numbers DEF Types, TypeOK, Clock
<1>1. UNCHANGED listVars
  BY DEF Start, PeekOldest, WaitForWindow, Awake, PauseEnds, ClaimRaises, FinishBatch
<1>2. /\ clock' \in 0..Horizon /\ list' \in Seq(Entry)
      /\ created' \in [Entry -> Nat] /\ pushed' \in [Entry -> Nat]
      /\ fate' \in [Entry -> Fate] /\ kind' \in Kinds /\ Delay <= clock'
  BY <1>1 DEF listVars, Types, TypeOK
<1>3. pc' \in [Worker -> Ready \cup {"asleep", "pause", "embed", "down"}]
  BY DEF Types, TypeOK, Ready, Start, PeekOldest, WaitForWindow, Awake, PauseEnds,
         ClaimRaises, FinishBatch
<1>4. peeked' \in [Worker -> Entry \cup {None}]
  <2>1. CASE PeekOldest(w)
    <3>1. list # <<>> => Head(list) \in Entry
      BY HeadTailProperties DEF Types, TypeOK
    <3> QED BY <2>1, <3>1 DEF Types, TypeOK, PeekOldest
  <2>2. CASE ~ PeekOldest(w)
    BY <2>2 DEF Types, TypeOK, Start, WaitForWindow, Awake, PauseEnds, ClaimRaises,
                FinishBatch
  <2> QED BY <2>1, <2>2
<1>5. /\ now' \in [Worker -> Nat] /\ wake' \in [Worker -> 0..Horizon]
      /\ \A v \in Worker : pc'[v] = "asleep" => wake'[v] <= clock' + MaxWait
  <2>1. CASE WaitForWindow(w)
    <3>1. CASE pc'[w] = "asleep"
      <4>1. PICK e \in Entry : /\ Remaining(e, Clock(w)) > 0
                               /\ wake' = [wake EXCEPT ![w] = Later(Remaining(e, Clock(w)))]
        <5>1. /\ peeked[w] # None /\ Remaining(peeked[w], Clock(w)) > 0
              /\ wake' = [wake EXCEPT ![w] = Later(Remaining(peeked[w], Clock(w)))]
          BY <2>1, <3>1 DEF WaitForWindow, Types, TypeOK
        <5>2. peeked[w] \in Entry
          BY <5>1 DEF Types, TypeOK
        <5> QED BY <5>1, <5>2
      <4> DEFINE wait == Remaining(e, Clock(w))
      <4>2. Later(wait) \in 0..Horizon /\ Later(wait) <= clock + MaxWait
        <5>1. wait \in Nat /\ wait <= MaxWait
          BY <1>0, <4>1, RemainingIsShort
        <5> HIDE DEF wait
        <5>2. Later(wait) \in 0..Horizon /\ Later(wait) <= clock + wait
          BY <5>1, LaterIsSoon
        <5>3. Later(wait) \in Nat
          BY <5>2, Numbers
        <5> QED BY <1>0, <5>1, <5>2, <5>3
      <4> HIDE DEF wait
      <4>3. now' = [now EXCEPT ![w] = Clock(w)] /\ \A v \in Worker \ {w} : pc'[v] = pc[v]
        BY <2>1 DEF WaitForWindow, Types, TypeOK
      <4>4. wake' = [wake EXCEPT ![w] = Later(wait)]
        BY <4>1 DEF wait
      <4> QED BY <1>0, <1>1, <4>2, <4>3, <4>4 DEF Types, TypeOK, listVars
    <3>2. CASE pc'[w] # "asleep"
      <4>1. /\ wake' = wake /\ now' = [now EXCEPT ![w] = Clock(w)]
            /\ \A v \in Worker \ {w} : pc'[v] = pc[v]
        BY <2>1, <3>2 DEF WaitForWindow, Types, TypeOK
      <4> QED BY <1>0, <1>1, <3>2, <4>1 DEF Types, TypeOK, listVars
    <3> QED BY <3>1, <3>2
  <2>2. CASE ~ WaitForWindow(w)
    <3>0. /\ pc \in [Worker -> Ready \cup {"asleep", "pause", "embed", "down"}]
          /\ now \in [Worker -> Nat] /\ wake \in [Worker -> 0..Horizon]
          /\ Clock(w) \in Nat /\ 0 \in 0..Horizon /\ 0 \in Nat
      BY <1>0, Numbers DEF Types, TypeOK
    <3>1. /\ pc' \in {[pc EXCEPT ![w] = s] : s \in {"peek", "window", "claim", "down"}}
          /\ now' \in {now, [now EXCEPT ![w] = Clock(w)], [now EXCEPT ![w] = 0]}
          /\ wake' \in {wake, [wake EXCEPT ![w] = 0]}
      BY <2>2 DEF Start, PeekOldest, Awake, PauseEnds, ClaimRaises, FinishBatch
    <3>2. now' \in [Worker -> Nat] /\ wake' \in [Worker -> 0..Horizon]
      BY <3>0, <3>1
    <3>3. pc'[w] # "asleep" /\ \A v \in Worker \ {w} : pc'[v] = pc[v] /\ wake'[v] = wake[v]
      BY <3>0, <3>1
    <3>4. UNCHANGED clock /\ \A v \in Worker : pc[v] = "asleep" => wake[v] <= clock + MaxWait
      BY <1>1 DEF Types, TypeOK, listVars
    <3> QED BY <3>2, <3>3, <3>4
  <2> QED BY <2>1, <2>2
<1>6. batch' \in [Worker -> Seq(Entry)] /\ walked' \in [Worker -> Nat]
  <2>1. batch' = batch \/ batch' = [batch EXCEPT ![w] = <<>>]
    BY DEF Start, PeekOldest, WaitForWindow, Awake, PauseEnds, ClaimRaises, FinishBatch
  <2>2. walked' = walked \/ walked' = [walked EXCEPT ![w] = 0]
    BY DEF Start, PeekOldest, WaitForWindow, Awake, PauseEnds, ClaimRaises, FinishBatch
  <2>3. batch \in [Worker -> Seq(Entry)] /\ walked \in [Worker -> Nat] /\ 0 \in Nat
    BY DEF Types, TypeOK
  <2> QED BY <1>0, <2>1, <2>2, <2>3
<1> QED
  BY <1>2, <1>3, <1>4, <1>5, <1>6 DEF Types, TypeOK

LEMMA TypesOfClaim ==
    ASSUME Types, ListIsQueue, NEW w \in Worker, ClaimBatch(w)
    PROVE  Types'
<1>1. PICK n \in 0..Len(list), s \in Seq(Entry) : ClaimOf(w, n, s)
  BY ClaimSteps DEF Types
<1>2. Len(list) \in Nat /\ list \in Seq(Entry)
  BY LenProperties DEF Types, TypeOK
<1>3. list' \in Seq(Entry)
  <2>1. SubSeq(list, n + 1, Len(list)) \in Seq(Entry)
    BY <1>2, SubSeqProperties
  <2> QED BY <1>1, <2>1 DEF ClaimOf
<1>4. fate' \in [Entry -> Fate]
  BY <1>1 DEF ClaimOf, ClaimedFate, Types, TypeOK, Fate
<1>5. Later(Pause) \in 0..Horizon /\ 0 \in 0..Horizon
  <2>1. Pause \in Nat /\ 0 \in 0..Horizon
    BY Numbers
  <2> QED BY <2>1, LaterIsSoon
<1>6. /\ pc' \in [Worker -> Ready \cup {"asleep", "pause", "embed", "down"}]
      /\ wake' \in [Worker -> 0..Horizon]
      /\ batch' \in [Worker -> Seq(Entry)] /\ walked' \in [Worker -> Nat]
      /\ pc'[w] # "asleep"
      /\ \A v \in Worker \ {w} : pc'[v] = pc[v] /\ wake'[v] = wake[v]
  <2>1. CASE ~ (s # <<>> /\ Validates(s))
    <3>0. UNCHANGED batch
      BY <1>1, <2>1, Zenon DEF ClaimOf
    <3>1. PICK p \in {"pause", "down"}, t \in 0..Horizon :
              pc' = [pc EXCEPT ![w] = p] /\ wake' = [wake EXCEPT ![w] = t]
      <4>1. \/ pc' = [pc EXCEPT ![w] = "pause"] /\ wake' = [wake EXCEPT ![w] = Later(Pause)]
            \/ pc' = [pc EXCEPT ![w] = "down"] /\ wake' = [wake EXCEPT ![w] = 0]
        BY <1>1, <2>1, Zenon DEF ClaimOf
      <4> QED BY <1>5, <4>1
    <3>2. walked' = [walked EXCEPT ![w] = n] \/ UNCHANGED walked
      BY <1>1, <2>1, Zenon DEF ClaimOf
    <3>3. n \in Nat
      BY <1>2
    <3>4. walked' \in [Worker -> Nat]
      BY <3>2, <3>3 DEF Types, TypeOK
    <3> QED BY <3>0, <3>1, <3>4 DEF Types, TypeOK
  <2>2. CASE s # <<>> /\ Validates(s)
    <3>1. /\ pc' = [pc EXCEPT ![w] = "embed"]
          /\ batch' = [batch EXCEPT ![w] = s]
          /\ UNCHANGED <<wake, walked>>
      BY <1>1, <2>2, Zenon DEF ClaimOf
    <3> QED BY <3>1 DEF Types, TypeOK
  <2> QED BY <2>1, <2>2
<1>7. /\ now' \in [Worker -> Nat]
      /\ UNCHANGED <<kind, clock, created, pushed, peeked>>
  BY <1>1, <1>5 DEF ClaimOf, Types, TypeOK
<1> QED
  BY <1>3, <1>4, <1>6, <1>7 DEF Types, TypeOK

LEMMA TypesStep ==
    ASSUME Types, ListIsQueue, [Next]_vars
    PROVE  Types'
<1>1. CASE Tick
  <2>1. clock \in 0..Horizon /\ clock < Horizon /\ clock' = clock + 1 /\ Delay <= clock
    BY <1>1 DEF Tick, Types, TypeOK
  <2>2. clock' \in 0..Horizon /\ Delay <= clock' /\ clock <= clock'
    BY <2>1, Numbers
  <2>3. UNCHANGED <<kind, list, created, pushed, fate, pc, peeked, now, wake, walked, batch>>
    BY <1>1 DEF Tick
  <2>4. \A w \in Worker : pc[w] = "asleep" => wake[w] <= clock' + MaxWait
    BY <2>1, Numbers DEF Types, TypeOK
  <2> QED BY <2>2, <2>3, <2>4 DEF Types, TypeOK
<1>2. CASE \E e \in Entry : Arrive(e)
  <2>1. PICK e \in Entry : Arrive(e)
    BY <1>2
  <2>2. PICK t \in (clock - Delay)..(clock + Skew) : created' = [created EXCEPT ![e] = t]
    BY <2>1 DEF Arrive
  <2>3. clock \in Nat /\ t \in Nat
    BY Numbers DEF Types, TypeOK
  <2>4. /\ created' \in [Entry -> Nat] /\ pushed' \in [Entry -> Nat]
    BY <2>1, <2>2, <2>3 DEF Arrive, Types, TypeOK
  <2>5. list' \in Seq(Entry) /\ fate' \in [Entry -> Fate]
    BY <2>1 DEF Arrive, Types, TypeOK, Fate
  <2> QED BY <2>1, <2>4, <2>5 DEF Arrive, Types, TypeOK
<1>3. CASE \E w \in Worker : WorkerStep(w)
  BY <1>3, TypesOfLoop, TypesOfClaim DEF WorkerStep
<1>4. CASE UNCHANGED vars
  BY <1>4 DEF vars, listVars, Types, TypeOK
<1> QED
  BY <1>1, <1>2, <1>3, <1>4 DEF Next

----------------------------------------------------------------------------
(* The list. *)

\* Only the clock, a push and a claim change what listVars hold.
LEMMA ListSteps ==
    ASSUME [Next]_vars
    PROVE  \/ Tick
           \/ \E e \in Entry : Arrive(e)
           \/ \E w \in Worker : ClaimBatch(w)
           \/ UNCHANGED listVars
BY DEF Next, vars, WorkerStep, Start, PeekOldest, WaitForWindow, Awake, PauseEnds,
       ClaimRaises, FinishBatch

\* A push adds one new entry at the end.
LEMMA ArriveSteps ==
    ASSUME Types, ListIsQueue, NEW e \in Entry, Arrive(e)
    PROVE  /\ Len(list') = Len(list) + 1 /\ Len(list) \in Nat
           /\ list'[Len(list) + 1] = e
           /\ \A k \in 1..Len(list) : list'[k] = list[k] /\ list[k] \in Queued
           /\ e \notin Queued /\ Queued' = Queued \cup {e}
<1>1. list \in Seq(Entry) /\ list' = Append(list, e) /\ fate[e] = "unsent"
  BY DEF Arrive, Types, TypeOK
<1>2. /\ Len(list') = Len(list) + 1 /\ Len(list) \in Nat
      /\ list'[Len(list) + 1] = e
      /\ \A k \in 1..Len(list) : list'[k] = list[k]
  BY <1>1, AppendProperties, LenProperties
<1>3. \A k \in 1..Len(list) : list[k] \in Queued
  BY DEF Queued
<1>4. e \notin Queued
  BY <1>1 DEF ListIsQueue
<1>5. Queued' = Queued \cup {e}
  <2>1. Queued' = {list'[k] : k \in 1..(Len(list) + 1)}
    BY <1>2 DEF Queued
  <2>2. 1..(Len(list) + 1) = 1..Len(list) \cup {Len(list) + 1}
    BY <1>2
  <2>3. {list'[k] : k \in 1..Len(list) \cup {Len(list) + 1}}
          = {list[k] : k \in 1..Len(list)} \cup {e}
    BY <1>2, Zenon
  <2> QED BY <2>1, <2>2, <2>3 DEF Queued
<1> QED
  BY <1>2, <1>3, <1>4, <1>5

LEMMA QueuedIsEntries == Types => Queued \subseteq Entry
<1> SUFFICES ASSUME Types PROVE Queued \subseteq Entry
  OBVIOUS
<1>1. list \in Seq(Entry)
  BY DEF Types, TypeOK
<1> QED
  BY <1>1, ElementOfSeq, LenProperties DEF Queued

LEMMA ListIsQueueStep ==
    ASSUME Types, ListIsQueue, PushesArePast, [Next]_vars
    PROVE  ListIsQueue'
<1>1. CASE Tick \/ UNCHANGED listVars
  <2>1. UNCHANGED <<list, pushed, fate>>
    BY <1>1 DEF Tick, listVars
  <2> QED BY <2>1 DEF ListIsQueue, Queued
<1>2. CASE \E e \in Entry : Arrive(e)
  <2>1. PICK e \in Entry : Arrive(e)
    BY <1>2
  <2>2. /\ Len(list') = Len(list) + 1 /\ Len(list) \in Nat
        /\ list'[Len(list) + 1] = e
        /\ \A k \in 1..Len(list) : list'[k] = list[k] /\ list[k] \in Queued
        /\ e \notin Queued /\ Queued' = Queued \cup {e}
    BY <2>1, ArriveSteps
  <2>3. /\ fate' = [fate EXCEPT ![e] = "queued"] /\ fate \in [Entry -> Fate]
        /\ pushed' = [pushed EXCEPT ![e] = clock] /\ pushed \in [Entry -> Nat]
        /\ clock \in Nat
    BY <2>1 DEF Arrive, Types, TypeOK
  <2>4. \A f \in Entry : f \in Queued' <=> fate'[f] = "queued"
    BY <2>2, <2>3 DEF ListIsQueue
  <2>5. \A f \in Queued :
           f \in Entry /\ f # e /\ pushed'[f] = pushed[f] /\ pushed[f] <= clock
    <3>1. \A f \in Queued : f \in Entry /\ f # e /\ fate[f] = "queued"
      BY <2>2, QueuedIsEntries DEF ListIsQueue
    <3> QED BY <2>3, <3>1 DEF PushesArePast
  <2>6. ASSUME NEW i \in 1..Len(list'), NEW j \in 1..Len(list'), i < j
        PROVE  list'[i] # list'[j] /\ pushed'[list'[i]] <= pushed'[list'[j]]
    <3>1. i \in 1..Len(list)
      BY <2>2, <2>6
    <3>2. CASE j \in 1..Len(list)
      <4>1. list[i] # list[j] /\ pushed[list[i]] <= pushed[list[j]]
        BY <2>6, <3>1, <3>2 DEF ListIsQueue
      <4> QED BY <2>2, <2>5, <3>1, <3>2, <4>1
    <3>3. CASE j \notin 1..Len(list)
      <4>1. j = Len(list) + 1
        BY <2>2, <3>3
      <4>2. list'[j] = e /\ list'[i] = list[i] /\ list[i] \in Queued
        BY <2>2, <3>1, <4>1
      <4>3. pushed'[e] = clock
        BY <2>3
      <4> QED BY <2>5, <4>2, <4>3
    <3> QED BY <3>2, <3>3
  <2> QED BY <2>4, <2>6 DEF ListIsQueue
<1>3. CASE \E w \in Worker : ClaimBatch(w)
  <2>1. PICK w \in Worker : ClaimBatch(w)
    BY <1>3
  <2>2. PICK n \in 0..Len(list), s \in Seq(Entry) : ClaimOf(w, n, s)
    BY <2>1, ClaimSteps DEF Types
  <2>3. list \in Seq(Entry) /\ Len(list) \in Nat
    BY LenProperties DEF Types, TypeOK
  <2>4. /\ Len(list') = Len(list) - n
        /\ \A k \in 1..Len(list') : list'[k] = list[n + k]
    BY <2>2, <2>3, SubSeqProperties DEF ClaimOf
  <2>5. ASSUME NEW e \in Entry
        PROVE  e \in Queued' <=> fate'[e] = "queued"
    <3>1. fate'[e] = ClaimedFate(e, n, now[w], Validates(s))
      BY <2>2 DEF ClaimOf
    <3>2. e \in Queued' <=> e \in Queued /\ e \notin ItemsOf(list, n)
      BY <2>2 DEF ClaimOf
    <3> QED BY <3>1, <3>2 DEF ClaimedFate, ListIsQueue
  <2>6. ASSUME NEW i \in 1..Len(list'), NEW j \in 1..Len(list'), i < j
        PROVE  list'[i] # list'[j] /\ pushed'[list'[i]] <= pushed'[list'[j]]
    <3>1. n + i \in 1..Len(list) /\ n + j \in 1..Len(list) /\ n + i < n + j
      BY <2>3, <2>4, <2>6
    <3>2. pushed' = pushed
      BY <2>2 DEF ClaimOf
    <3> QED BY <2>4, <3>1, <3>2 DEF ListIsQueue
  <2> QED BY <2>5, <2>6 DEF ListIsQueue
<1> QED
  BY <1>1, <1>2, <1>3, ListSteps

LEMMA PushesArePastStep ==
    ASSUME Types, ListIsQueue, PushesArePast, [Next]_vars
    PROVE  PushesArePast'
<1>1. CASE Tick \/ UNCHANGED listVars
  <2>1. UNCHANGED <<created, pushed, fate>> /\ clock \in Nat /\ (clock' = clock + 1 \/ clock' = clock)
    BY <1>1 DEF Tick, listVars, Types, TypeOK
  <2> QED BY <2>1 DEF PushesArePast, Types, TypeOK
<1>2. CASE \E e \in Entry : Arrive(e)
  <2>1. PICK e \in Entry : Arrive(e)
    BY <1>2
  <2>2. PICK t \in (clock - Delay)..(clock + Skew) : created' = [created EXCEPT ![e] = t]
    BY <2>1 DEF Arrive
  <2>3. /\ clock \in Nat /\ clock' = clock /\ t <= clock + Skew /\ clock <= t + Delay
        /\ pushed' = [pushed EXCEPT ![e] = clock]
        /\ fate' = [fate EXCEPT ![e] = "queued"]
    BY <2>1, Numbers DEF Types, TypeOK, Arrive
  <2> QED BY <2>2, <2>3 DEF PushesArePast, Types, TypeOK
<1>3. CASE \E w \in Worker : ClaimBatch(w)
  <2>1. PICK w \in Worker : ClaimBatch(w)
    BY <1>3
  <2>2. PICK n \in 0..Len(list), s \in Seq(Entry) : ClaimOf(w, n, s)
    BY <2>1, ClaimSteps DEF Types
  <2>3. UNCHANGED <<clock, created, pushed>>
    BY <2>2 DEF ClaimOf
  <2>4. ASSUME NEW e \in Entry
        PROVE  fate'[e] # "unsent" => fate[e] # "unsent"
    <3>1. fate'[e] = ClaimedFate(e, n, now[w], Validates(s))
      BY <2>2 DEF ClaimOf
    <3>2. e \in ItemsOf(list, n) => e \in Queued
      BY LenProperties DEF ItemsOf, Queued, Types, TypeOK
    <3> QED BY <3>1, <3>2 DEF ClaimedFate, ListIsQueue
  <2> QED BY <2>3, <2>4 DEF PushesArePast
<1> QED
  BY <1>1, <1>2, <1>3, ListSteps

----------------------------------------------------------------------------
(* What the script throws away, and what is lost with a worker. *)

\* n places hold at most n items, and exactly n if no two hold the same.
LEMMA ItemsAreFew ==
    ASSUME NEW s, NEW n \in Nat
    PROVE  /\ IsFiniteSet(ItemsOf(s, n))
           /\ Cardinality(ItemsOf(s, n)) \in Nat
           /\ Cardinality(ItemsOf(s, n)) <= n
           /\ (\A i, j \in 1..n : i < j => s[i] # s[j]) => Cardinality(ItemsOf(s, n)) = n
<1> DEFINE f == [k \in 1..n |-> s[k]]
<1>1. f \in Surjection(1..n, ItemsOf(s, n))
  BY DEF Surjection, ItemsOf
<1>2. IsFiniteSet(1..n) /\ Cardinality(1..n) = n
  BY FS_Interval
<1>3. /\ IsFiniteSet(ItemsOf(s, n))
      /\ Cardinality(ItemsOf(s, n)) <= n
      /\ f \in Injection(1..n, ItemsOf(s, n)) => Cardinality(ItemsOf(s, n)) = n
  BY <1>1, <1>2, FS_Surjection
<1>4. ASSUME \A i, j \in 1..n : i < j => s[i] # s[j]
      PROVE  f \in Injection(1..n, ItemsOf(s, n))
  <2>1. ASSUME NEW i \in 1..n, NEW j \in 1..n, f[i] = f[j]
        PROVE  i = j
    <3>1. s[i] = s[j]
      BY <2>1
    <3>2. ~ (i < j) /\ ~ (j < i)
      BY <1>4, <3>1
    <3> QED BY <3>2
  <2>2. f \in [1..n -> ItemsOf(s, n)]
    BY DEF ItemsOf
  <2> HIDE DEF f
  <2> QED BY <2>1, <2>2, Fun_IsInj
<1> HIDE DEF f
<1> QED
  BY <1>3, <1>4, FS_CardinalityType

\* A claim turns the entries it walked over into dropped, batched or lost ones.
LEMMA FatesOfClaim ==
    ASSUME Types, ListIsQueue, NEW w \in Worker, NEW n \in 0..Len(list),
           NEW s \in Seq(Entry), ClaimOf(w, n, s)
    PROVE  /\ Of("dropped")' = Of("dropped") \cup (ItemsOf(list, n) \cap Dead(now[w]))
           /\ Of("lost")' = Of("lost") \cup
                 IF Validates(s) THEN {} ELSE ItemsOf(list, n) \ Dead(now[w])
           /\ \A e \in ItemsOf(list, n) : e \in Entry /\ fate[e] = "queued"
<1>1. \A e \in ItemsOf(list, n) : e \in Entry /\ fate[e] = "queued"
  <2>1. Len(list) \in Nat
    BY LenProperties DEF Types, TypeOK
  <2>2. ItemsOf(list, n) \subseteq Queued
    BY <2>1 DEF ItemsOf, Queued
  <2> QED BY <2>2, QueuedIsEntries DEF ListIsQueue
<1>2. \A e \in Entry : fate'[e] = ClaimedFate(e, n, now[w], Validates(s))
  BY DEF ClaimOf
<1>3. Of("dropped")' = {e \in Entry : fate'[e] = "dropped"} /\ Of("lost")' = {e \in Entry : fate'[e] = "lost"}
  BY DEF Of
<1> QED
  BY <1>1, <1>2, <1>3 DEF ClaimedFate, Of

\* No other step does.
LEMMA FatesStay ==
    ASSUME Types, [Next]_vars, \A w \in Worker : ~ ClaimBatch(w),
           NEW f \in {"dropped", "lost", "batched"}
    PROVE  /\ \A e \in Entry : fate'[e] = f <=> fate[e] = f
           /\ Of(f)' = Of(f)
<1>1. ASSUME NEW e \in Entry
      PROVE  fate'[e] = f <=> fate[e] = f
  <2>1. CASE \E x \in Entry : Arrive(x)
    <3>1. PICK x \in Entry : Arrive(x)
      BY <2>1
    <3>2. fate[x] = "unsent" /\ fate' = [fate EXCEPT ![x] = "queued"] /\ fate \in [Entry -> Fate]
      BY <3>1 DEF Arrive, Types, TypeOK
    <3> QED BY <3>2
  <2>2. CASE Tick \/ UNCHANGED listVars
    BY <2>2 DEF Tick, listVars
  <2> QED BY <2>1, <2>2, ListSteps
<1> QED
  BY <1>1 DEF Of

LEMMA FiniteLossStep ==
    ASSUME Types, ListIsQueue, FiniteLoss, [Next]_vars
    PROVE  FiniteLoss'
<1>1. CASE \E w \in Worker : ClaimBatch(w)
  <2>1. PICK w \in Worker : ClaimBatch(w)
    BY <1>1
  <2>2. PICK n \in 0..Len(list), s \in Seq(Entry) : ClaimOf(w, n, s)
    BY <2>1, ClaimSteps DEF Types
  <2>3. n \in Nat
    BY LenProperties DEF Types, TypeOK
  <2>4. /\ Of("dropped")' = Of("dropped") \cup (ItemsOf(list, n) \cap Dead(now[w]))
        /\ Of("lost")' = Of("lost") \cup
              IF Validates(s) THEN {} ELSE ItemsOf(list, n) \ Dead(now[w])
    BY <2>2, FatesOfClaim
  <2>5. IsFiniteSet(ItemsOf(list, n)) /\ IsFiniteSet({})
    BY <2>3, ItemsAreFew, FS_EmptySet
  <2>6. /\ IsFiniteSet(ItemsOf(list, n) \cap Dead(now[w]))
        /\ IsFiniteSet(ItemsOf(list, n) \ Dead(now[w]))
    BY <2>5, FS_Intersection, FS_Difference
  <2>7. IsFiniteSet(Of("dropped")')
    BY <2>4, <2>6, FS_Union DEF FiniteLoss
  <2>8. IsFiniteSet(Of("lost")')
    <3> DEFINE more == IF Validates(s) THEN {} ELSE ItemsOf(list, n) \ Dead(now[w])
    <3>1. IsFiniteSet(more)
      BY <2>5, <2>6
    <3>2. Of("lost")' = Of("lost") \cup more
      BY <2>4
    <3> HIDE DEF more
    <3> QED BY <3>1, <3>2, FS_Union DEF FiniteLoss
  <2> QED BY <2>7, <2>8 DEF FiniteLoss
<1>2. CASE \A w \in Worker : ~ ClaimBatch(w)
  BY <1>2, FatesStay DEF FiniteLoss
<1> QED
  BY <1>1, <1>2

----------------------------------------------------------------------------
(* The loop of a worker. *)

LEMMA ClockStep ==
    ASSUME Types, [Next]_vars
    PROVE  /\ clock \in Nat /\ clock' \in Nat /\ clock <= clock'
           /\ Tick \/ clock' = clock
<1>1. (Tick /\ clock' = clock + 1) \/ clock' = clock
  BY DEF Next, vars, listVars, Tick, Arrive, WorkerStep, Start, PeekOldest, WaitForWindow,
         Awake, PauseEnds, ClaimRaises, ClaimBatch, FinishBatch
<1> QED
  BY <1>1 DEF Types, TypeOK

\* A worker's variables change by its own steps only.
LEMMA OthersStay ==
    ASSUME Types, ListIsQueue, NEW v \in Worker, [Next]_vars, ~ WorkerStep(v)
    PROVE  /\ pc'[v] = pc[v] /\ peeked'[v] = peeked[v] /\ now'[v] = now[v]
           /\ wake'[v] = wake[v] /\ walked'[v] = walked[v] /\ batch'[v] = batch[v]
<1>1. CASE Tick \/ (\E e \in Entry : Arrive(e)) \/ UNCHANGED vars
  BY <1>1 DEF Tick, Arrive, vars
<1>2. CASE \E w \in Worker : WorkerStep(w)
  <2>1. PICK w \in Worker : WorkerStep(w)
    BY <1>2
  <2>2. w # v
    BY <2>1
  <2>3. CASE ClaimBatch(w)
    <3>1. PICK n \in 0..Len(list), s \in Seq(Entry) : ClaimOf(w, n, s)
      BY <2>3, ClaimSteps DEF Types
    <3>2. now'[v] = now[v] /\ peeked'[v] = peeked[v]
      BY <2>2, <3>1 DEF ClaimOf, Types, TypeOK
    <3>3. pc'[v] = pc[v] /\ wake'[v] = wake[v] /\ batch'[v] = batch[v]
      BY <2>2, <3>1 DEF ClaimOf, Types, TypeOK
    <3>4. walked'[v] = walked[v]
      <4>1. walked' = [walked EXCEPT ![w] = n] \/ UNCHANGED walked
        BY <3>1, Zenon DEF ClaimOf
      <4> QED BY <2>2, <4>1 DEF Types, TypeOK
    <3> QED BY <3>2, <3>3, <3>4
  <2>4. CASE ~ ClaimBatch(w)
    <3>1. Start(w) \/ PeekOldest(w) \/ Awake(w) \/ PauseEnds(w) \/ ClaimRaises(w) \/ FinishBatch(w)
            => /\ pc'[v] = pc[v] /\ peeked'[v] = peeked[v] /\ now'[v] = now[v]
               /\ wake'[v] = wake[v] /\ walked'[v] = walked[v] /\ batch'[v] = batch[v]
      BY <2>2 DEF Start, PeekOldest, Awake, PauseEnds, ClaimRaises, FinishBatch, Types, TypeOK
    <3>2. WaitForWindow(w)
            => /\ pc'[v] = pc[v] /\ peeked'[v] = peeked[v] /\ now'[v] = now[v]
               /\ wake'[v] = wake[v] /\ walked'[v] = walked[v] /\ batch'[v] = batch[v]
      BY <2>2 DEF WaitForWindow, Types, TypeOK
    <3> QED BY <2>1, <2>4, <3>1, <3>2 DEF WorkerStep
  <2> QED BY <2>3, <2>4
<1> QED
  BY <1>1, <1>2 DEF Next

\* What a worker's own step leaves in its variables.
LEMMA OwnStep ==
    ASSUME Types, ListIsQueue, NEW v \in Worker, WorkerStep(v)
    PROVE  /\ clock' = clock
           /\ \/ Start(v) /\ pc[v] = "down" /\ pc'[v] = "peek"
                 /\ now'[v] = now[v] /\ wake'[v] = wake[v] /\ batch'[v] = batch[v]
              \/ PeekOldest(v) /\ pc[v] = "peek" /\ pc'[v] = "window"
                 /\ now'[v] = now[v] /\ wake'[v] = wake[v] /\ batch'[v] = batch[v]
              \/ WaitForWindow(v) /\ pc[v] = "window" /\ pc'[v] \in {"asleep", "claim"}
                 /\ now'[v] = Clock(v) /\ batch'[v] = batch[v]
                 /\ (pc'[v] = "claim" => wake'[v] = wake[v])
              \/ Awake(v) /\ pc[v] = "asleep" /\ pc'[v] = "claim" /\ wake[v] <= clock
                 /\ now'[v] = Clock(v) /\ wake'[v] = wake[v] /\ batch'[v] = batch[v]
              \/ PauseEnds(v) /\ pc[v] = "pause" /\ pc'[v] = "peek" /\ wake'[v] = 0
                 /\ now'[v] = now[v] /\ batch'[v] = batch[v]
              \/ ClaimRaises(v) /\ pc[v] = "claim" /\ pc'[v] = "down" /\ wake'[v] = 0
                 /\ now'[v] = 0 /\ batch'[v] = batch[v]
              \/ FinishBatch(v) /\ pc[v] = "embed" /\ pc'[v] = "peek" /\ wake'[v] = 0
                 /\ batch'[v] = <<>> /\ now'[v] = now[v]
              \/ /\ ClaimBatch(v) /\ pc[v] = "claim" /\ now'[v] = 0
                 /\ \/ pc'[v] = "pause" /\ wake'[v] = Later(Pause) /\ batch'[v] = batch[v]
                    \/ pc'[v] = "embed" /\ wake'[v] = wake[v]
                    \/ pc'[v] = "down" /\ wake'[v] = 0 /\ batch'[v] = batch[v]
<1>1. CASE Start(v) \/ PeekOldest(v)
  BY <1>1 DEF Start, PeekOldest, listVars, Types, TypeOK
<1>2. CASE WaitForWindow(v)
  BY <1>2 DEF WaitForWindow, listVars, Types, TypeOK
<1>3. CASE Awake(v) \/ PauseEnds(v)
  BY <1>3 DEF Awake, PauseEnds, Due, listVars, Types, TypeOK
<1>4. CASE ClaimRaises(v) \/ FinishBatch(v)
  BY <1>4 DEF ClaimRaises, FinishBatch, listVars, Types, TypeOK
<1>5. CASE ClaimBatch(v)
  <2>1. pc[v] = "claim"
    BY <1>5, ClaimSteps DEF Types
  <2>2. PICK n \in 0..Len(list), s \in Seq(Entry) : ClaimOf(v, n, s)
    BY <1>5, ClaimSteps DEF Types
  <2>3. clock' = clock /\ now'[v] = 0
    BY <2>2 DEF ClaimOf, Types, TypeOK
  <2>4. \/ pc'[v] = "pause" /\ wake'[v] = Later(Pause) /\ batch'[v] = batch[v]
        \/ pc'[v] = "embed" /\ wake'[v] = wake[v]
        \/ pc'[v] = "down" /\ wake'[v] = 0 /\ batch'[v] = batch[v]
    BY <2>2 DEF ClaimOf, Types, TypeOK
  <2> QED BY <1>5, <2>1, <2>3, <2>4
<1> QED
  BY <1>1, <1>2, <1>3, <1>4, <1>5 DEF WorkerStep

LEMMA LoopTimesStep ==
    ASSUME Types, ListIsQueue, LoopTimes, [Next]_vars
    PROVE  LoopTimes'
<1> SUFFICES ASSUME NEW v \in Worker
             PROVE  /\ now'[v] <= clock' + Lead[v]
                    /\ pc'[v] \in {"down", "peek", "window"} => wake'[v] = 0
                    /\ pc'[v] = "claim" => wake'[v] + Lead[v] <= now'[v]
                    /\ pc'[v] = "pause" => wake'[v] <= clock' + Pause
                    /\ pc'[v] # "embed" => batch'[v] = <<>>
  BY DEF LoopTimes, Clock
<1>1. /\ now[v] \in Nat /\ wake[v] \in Nat /\ clock \in Nat /\ clock' \in Nat
      /\ clock <= clock' /\ Pause \in Nat /\ Lead[v] \in Nat
  BY ClockStep, Numbers DEF Types, TypeOK
<1>2. /\ now[v] <= clock + Lead[v]
      /\ pc[v] \in {"down", "peek", "window"} => wake[v] = 0
      /\ pc[v] = "claim" => wake[v] + Lead[v] <= now[v]
      /\ pc[v] = "pause" => wake[v] <= clock + Pause
      /\ pc[v] # "embed" => batch[v] = <<>>
  BY DEF LoopTimes, Clock
<1>3. CASE ~ WorkerStep(v)
  BY <1>1, <1>2, <1>3, OthersStay
<1>4. CASE WorkerStep(v)
  <2>1. Later(Pause) <= clock + Pause
    BY <1>1, LaterIsSoon
  <2>2. clock' = clock
    BY <1>4, OwnStep
  <2>3. now'[v] \in {0, clock + Lead[v], now[v]}
    BY <1>4, OwnStep DEF Clock
  <2>4. pc'[v] \in {"down", "peek", "window"} => wake'[v] = 0
    BY <1>2, <1>4, OwnStep
  <2>5. pc'[v] = "claim" => /\ now'[v] = clock + Lead[v] /\ wake'[v] = wake[v]
                            /\ wake[v] = 0 \/ wake[v] <= clock
    BY <1>2, <1>4, OwnStep DEF Clock
  <2>6. pc'[v] = "pause" => wake'[v] = Later(Pause)
    BY <1>4, OwnStep
  <2>7. pc'[v] # "embed" => batch'[v] = <<>>
    BY <1>2, <1>4, OwnStep
  <2> QED BY <1>1, <1>2, <2>1, <2>2, <2>3, <2>4, <2>5, <2>6, <2>7
<1> QED
  BY <1>3, <1>4

\* An entry that was pushed keeps its times, and one that left the list its fate.
LEMMA EntriesStay ==
    ASSUME Types, ListIsQueue, [Next]_vars, NEW e \in Entry, fate[e] # "unsent"
    PROVE  /\ created'[e] = created[e] /\ pushed'[e] = pushed[e]
           /\ fate'[e] # "unsent"
           /\ fate[e] # "queued" => fate'[e] = fate[e]
<1>1. CASE Tick \/ UNCHANGED listVars
  BY <1>1 DEF Tick, listVars
<1>2. CASE \E x \in Entry : Arrive(x)
  <2>1. PICK x \in Entry : Arrive(x)
    BY <1>2
  <2>2. x # e
    BY <2>1 DEF Arrive
  <2> QED BY <2>1, <2>2 DEF Arrive, Types, TypeOK
<1>3. CASE \E w \in Worker : ClaimBatch(w)
  <2>1. PICK w \in Worker : ClaimBatch(w)
    BY <1>3
  <2>2. PICK n \in 0..Len(list), s \in Seq(Entry) : ClaimOf(w, n, s)
    BY <2>1, ClaimSteps DEF Types
  <2>3. UNCHANGED <<created, pushed>> /\ fate'[e] = ClaimedFate(e, n, now[w], Validates(s))
    BY <2>2 DEF ClaimOf
  <2>4. e \in ItemsOf(list, n) => fate[e] = "queued"
    BY <2>2, FatesOfClaim
  <2> QED BY <2>3, <2>4 DEF ClaimedFate
<1> QED
  BY <1>1, <1>2, <1>3, ListSteps

\* What the script drops is garbage, or overdue by the clock of its worker.
LEMMA DropsOnlyDeadStep ==
    ASSUME Types, ListIsQueue, PushesArePast, LoopTimes, DropsOnlyDead, [Next]_vars
    PROVE  DropsOnlyDead'
<1> SUFFICES ASSUME NEW e \in Entry, fate'[e] = "dropped", kind'[e] # "garbage"
             PROVE  \E w \in Worker : pushed'[e] + Timeout < clock' + Delay + Lead[w]
  BY DEF DropsOnlyDead
<1>1. clock \in Nat /\ pushed[e] \in Nat /\ created[e] \in Nat /\ Timeout \in Nat /\ Delay \in Nat
  BY Numbers DEF Types, TypeOK
<1>2. /\ clock' \in {clock, clock + 1}
      /\ kind' = kind
  BY DEF Next, vars, listVars, Tick, Arrive, WorkerStep, Start, PeekOldest, WaitForWindow,
         Awake, PauseEnds, ClaimRaises, ClaimBatch, FinishBatch
<1>3. CASE fate[e] = "dropped"
  <2>1. PICK w \in Worker : pushed[e] + Timeout < clock + Delay + Lead[w]
    BY <1>2, <1>3 DEF DropsOnlyDead
  <2>2. pushed'[e] = pushed[e] /\ Lead[w] \in Nat
    BY <1>3, EntriesStay, Numbers
  <2> QED BY <1>1, <1>2, <2>1, <2>2
<1>4. CASE fate[e] # "dropped"
  <2>1. PICK w \in Worker : ClaimBatch(w)
    BY <1>4, FatesStay
  <2>2. PICK n \in 0..Len(list), s \in Seq(Entry) : ClaimOf(w, n, s)
    BY <2>1, ClaimSteps DEF Types
  <2>3. UNCHANGED <<pushed, clock>> /\ fate'[e] = ClaimedFate(e, n, now[w], Validates(s))
    BY <2>2 DEF ClaimOf
  <2>4. e \in Dead(now[w]) /\ fate[e] = "queued"
    BY <1>4, <2>2, <2>3, FatesOfClaim DEF ClaimedFate
  <2>5. created[e] + Timeout < now[w]
    BY <1>2, <2>4 DEF Dead, Deadline
  <2>6. pushed[e] <= created[e] + Delay /\ now[w] <= clock + Lead[w]
    BY <2>4 DEF PushesArePast, LoopTimes, Clock
  <2>7. now[w] \in Nat /\ Lead[w] \in Nat
    BY Numbers DEF Types, TypeOK
  <2>8. pushed[e] + Timeout < clock + Delay + Lead[w]
    <3>1. pushed[e] + Timeout < now[w] + Delay
      BY <1>1, <2>5, <2>6, <2>7
    <3>2. now[w] + Delay <= clock + Delay + Lead[w]
      BY <1>1, <2>6, <2>7
    <3> QED BY <1>1, <2>7, <3>1, <3>2
  <2> QED BY <2>3, <2>8
<1> QED
  BY <1>3, <1>4

\* What enters the list is pushed now.
LEMMA QueuedSteps ==
    ASSUME Types, ListIsQueue, [Next]_vars, NEW e \in Queued', e \notin Queued
    PROVE  e \in Entry /\ pushed'[e] = clock /\ clock' = clock /\ Arrive(e)
<1>1. CASE Tick \/ UNCHANGED listVars
  <2>1. Queued' = Queued
    BY <1>1 DEF Tick, listVars, Queued
  <2> QED BY <2>1
<1>2. CASE \E x \in Entry : Arrive(x)
  <2>1. PICK x \in Entry : Arrive(x)
    BY <1>2
  <2>2. Queued' = Queued \cup {x}
    BY <2>1, ArriveSteps
  <2>3. e = x
    BY <2>2
  <2> QED BY <2>1, <2>3 DEF Arrive, Types, TypeOK
<1>3. CASE \E w \in Worker : ClaimBatch(w)
  <2>1. PICK w \in Worker : ClaimBatch(w)
    BY <1>3
  <2>2. PICK n \in 0..Len(list), s \in Seq(Entry) : ClaimOf(w, n, s)
    BY <2>1, ClaimSteps DEF Types
  <2>3. Queued' = Queued \ ItemsOf(list, n)
    BY <2>2 DEF ClaimOf
  <2> QED BY <2>3
<1> QED
  BY <1>1, <1>2, <1>3, ListSteps

\* A batch is what a claim returned, valid items that were live at its clock.
LEMMA BatchSteps ==
    ASSUME Types, ListIsQueue, LoopTimes, NEW v \in Worker, [Next]_vars,
           NEW k \in 1..Len(batch'[v])
    PROVE  \/ batch'[v] = batch[v] /\ wake'[v] = wake[v]
           \/ /\ batch'[v][k] \in Entry /\ fate'[batch'[v][k]] = "batched"
              /\ created'[batch'[v][k]] + Timeout >= now[v]
              /\ pc[v] = "claim" /\ wake'[v] = wake[v]
<1>1. CASE ~ WorkerStep(v)
  BY <1>1, OthersStay
<1>2. CASE WorkerStep(v) /\ ~ ClaimBatch(v)
  <2>1. pc[v] # "embed" => batch[v] = <<>>
    BY DEF LoopTimes
  <2>2. (pc[v] = "embed" /\ batch'[v] = <<>>) \/ (pc[v] # "embed" /\ batch'[v] = batch[v])
    BY <1>2, OwnStep
  <2>3. batch'[v] = <<>>
    BY <2>1, <2>2
  <2>4. Len(batch'[v]) = 0
    BY <2>3
  <2> QED BY <2>4
<1>3. CASE ClaimBatch(v)
  <2>1. pc[v] = "claim"
    BY <1>3, ClaimSteps DEF Types
  <2>2. PICK n \in 0..Len(list), s \in Seq(Entry) : ClaimOf(v, n, s)
    BY <1>3, ClaimSteps DEF Types
  <2>3. batch[v] = <<>>
    BY <2>1 DEF LoopTimes
  <2>4. batch'[v] = s /\ Validates(s) /\ wake' = wake
    <3>1. batch' # batch
      <4>1. Len(batch[v]) = 0
        BY <2>3
      <4> QED BY <4>1
    <3>2. Validates(s) /\ batch' = [batch EXCEPT ![v] = s] /\ wake' = wake
      BY <2>2, <3>1, Zenon DEF ClaimOf
    <3> QED BY <3>2 DEF Types, TypeOK
  <2>5. ItemsOf(s, Len(s)) = ItemsOf(list, n) \ Dead(now[v])
    BY <2>2 DEF ClaimOf
  <2>6. s[k] \in ItemsOf(list, n) /\ s[k] \notin Dead(now[v]) /\ kind[s[k]] = "item"
    BY <2>4, <2>5 DEF ItemsOf, Validates
  <2>7. s[k] \in Entry /\ fate[s[k]] = "queued"
    BY <2>2, <2>6, FatesOfClaim
  <2>8. fate'[s[k]] = "batched"
    <3>1. fate'[s[k]] = ClaimedFate(s[k], n, now[v], Validates(s))
      BY <2>2, <2>7 DEF ClaimOf
    <3> QED BY <2>4, <2>6, <3>1 DEF ClaimedFate
  <2>9. created'[s[k]] + Timeout >= now[v]
    <3>1. created' = created /\ created[s[k]] \in Nat /\ now[v] \in Nat
      BY <2>2, <2>7 DEF ClaimOf, Types, TypeOK
    <3>2. s[k] \in Queued
      BY <2>7 DEF ListIsQueue
    <3>3. ~ (created[s[k]] + Timeout < now[v])
      BY <2>6, <3>2 DEF Dead, Deadline
    <3> QED BY <3>1, <3>3, Numbers
  <2> QED BY <2>1, <2>4, <2>7, <2>8, <2>9
<1> QED
  BY <1>1, <1>2, <1>3

LEMMA BatchIsClaimedStep ==
    ASSUME Types, ListIsQueue, LoopTimes, BatchIsClaimed, [Next]_vars
    PROVE  BatchIsClaimed'
<1> SUFFICES ASSUME NEW v \in Worker, NEW k \in 1..Len(batch'[v])
             PROVE  fate'[batch'[v][k]] = "batched"
  BY DEF BatchIsClaimed
<1>1. CASE batch'[v] = batch[v]
  <2>1. fate[batch[v][k]] = "batched"
    BY <1>1 DEF BatchIsClaimed
  <2>2. batch[v][k] \in Entry
    BY <1>1, ElementOfSeq DEF Types, TypeOK
  <2> QED BY <1>1, <2>1, <2>2, EntriesStay
<1>2. CASE batch'[v] # batch[v]
  BY <1>2, BatchSteps
<1> QED
  BY <1>1, <1>2

LEMMA BatchOutlivedWindowStep ==
    ASSUME Types, ListIsQueue, LoopTimes, BatchIsClaimed, BatchOutlivedWindow, [Next]_vars
    PROVE  BatchOutlivedWindow'
<1> SUFFICES ASSUME NEW v \in Worker, NEW k \in 1..Len(batch'[v])
             PROVE  created'[batch'[v][k]] + Timeout >= wake'[v] + Lead[v]
  BY DEF BatchOutlivedWindow, Deadline
<1>1. CASE batch'[v] = batch[v] /\ wake'[v] = wake[v]
  <2>1. fate[batch[v][k]] = "batched" /\ created[batch[v][k]] + Timeout >= wake[v] + Lead[v]
    BY <1>1 DEF BatchIsClaimed, BatchOutlivedWindow, Deadline
  <2>2. batch[v][k] \in Entry
    BY <1>1, ElementOfSeq DEF Types, TypeOK
  <2>3. created'[batch[v][k]] = created[batch[v][k]]
    BY <2>1, <2>2, EntriesStay
  <2> QED BY <1>1, <2>1, <2>3
<1>2. CASE /\ batch'[v][k] \in Entry
           /\ created'[batch'[v][k]] + Timeout >= now[v]
           /\ pc[v] = "claim" /\ wake'[v] = wake[v]
  <2>1. wake[v] + Lead[v] <= now[v]
    BY <1>2 DEF LoopTimes
  <2>2. /\ wake[v] \in Nat /\ now[v] \in Nat /\ Timeout \in Nat /\ Lead[v] \in Nat
        /\ created'[batch'[v][k]] \in Nat
    <3>1. Types'
      BY TypesStep
    <3>2. created'[batch'[v][k]] \in Nat
      BY <1>2, <3>1 DEF Types, TypeOK
    <3>3. wake[v] \in Nat /\ now[v] \in Nat
      BY Numbers DEF Types, TypeOK
    <3> QED BY <3>2, <3>3, Numbers
  <2> QED BY <1>2, <2>1, <2>2
<1> QED
  BY <1>1, <1>2, BatchSteps

\* What a worker saw at the head stays ahead of what is in the list.
LEMMA PeekedIsFirstStep ==
    ASSUME Types, ListIsQueue, PushesArePast, PeekedIsFirst, [Next]_vars
    PROVE  PeekedIsFirst'
<1> SUFFICES ASSUME NEW v \in Worker, peeked'[v] # None
             PROVE  /\ fate'[peeked'[v]] # "unsent"
                    /\ \A e \in Queued' : pushed'[peeked'[v]] <= pushed'[e]
  BY DEF PeekedIsFirst
<1>1. CASE PeekOldest(v)
  <2>1. UNCHANGED listVars /\ list # <<>> /\ peeked'[v] = Head(list)
    BY <1>1 DEF PeekOldest, Types, TypeOK
  <2>2. list \in Seq(Entry) /\ Len(list) \in Nat /\ Len(list) > 0 /\ Head(list) = list[1]
    BY <2>1, LenProperties, EmptySeq, HeadTailProperties DEF Types, TypeOK
  <2>3. list[1] \in Entry /\ list[1] \in Queued
    BY <2>2, ElementOfSeq DEF Queued
  <2>4. fate[list[1]] # "unsent"
    BY <2>3 DEF ListIsQueue
  <2>5. ASSUME NEW e \in Queued
        PROVE  pushed[list[1]] <= pushed[e]
    <3>1. PICK k \in 1..Len(list) : e = list[k]
      BY DEF Queued
    <3>2. CASE k = 1
      <4>1. pushed[list[1]] \in Nat
        BY <2>3 DEF Types, TypeOK
      <4> QED BY <3>1, <3>2, <4>1
    <3>3. CASE k # 1
      <4>1. 1 \in 1..Len(list) /\ 1 < k
        BY <2>2, <3>3
      <4> QED BY <3>1, <4>1 DEF ListIsQueue
    <3> QED BY <3>2, <3>3
  <2>6. Queued' = Queued
    BY <2>1 DEF listVars, Queued
  <2> QED BY <2>1, <2>2, <2>4, <2>5, <2>6 DEF listVars
<1>2. CASE ~ PeekOldest(v)
  <2>1. peeked'[v] = peeked[v] /\ peeked[v] \in Entry
    <3>1. peeked'[v] = peeked[v]
      <4>1. CASE WorkerStep(v)
        <5>1. CASE ClaimBatch(v)
          BY <5>1, ClaimSteps DEF ClaimOf, Types
        <5>2. CASE ~ ClaimBatch(v)
          BY <1>2, <4>1, <5>2 DEF WorkerStep, Start, WaitForWindow, Awake, PauseEnds,
                                  ClaimRaises, FinishBatch, Types, TypeOK
        <5> QED BY <5>1, <5>2
      <4>2. CASE ~ WorkerStep(v)
        BY <4>2, OthersStay
      <4> QED BY <4>1, <4>2
    <3> QED BY <3>1 DEF Types, TypeOK
  <2>2. fate[peeked[v]] # "unsent" /\ \A e \in Queued : pushed[peeked[v]] <= pushed[e]
    BY <2>1 DEF PeekedIsFirst
  <2>3. fate'[peeked[v]] # "unsent" /\ pushed'[peeked[v]] = pushed[peeked[v]]
    BY <2>1, <2>2, EntriesStay
  <2>4. \A e \in Queued : pushed'[e] = pushed[e]
    BY QueuedIsEntries, EntriesStay DEF ListIsQueue
  <2>5. ASSUME NEW e \in Queued'
        PROVE  pushed[peeked[v]] <= pushed'[e]
    <3>1. CASE e \in Queued
      BY <2>2, <2>4, <3>1
    <3>2. CASE e \notin Queued
      <4>1. pushed'[e] = clock
        BY <3>2, QueuedSteps
      <4> QED BY <2>1, <2>2, <4>1 DEF PushesArePast
    <3> QED BY <3>1, <3>2
  <2> QED BY <2>1, <2>3, <2>5
<1> QED
  BY <1>1, <1>2

----------------------------------------------------------------------------
(* How long a sleep may last. *)

\* A window that opens closes before an entry of the list has waited max_wait_ms,
\* but for the clocks' difference.
LEMMA WindowIsShort ==
    ASSUME Types, PushesArePast, PeekedIsFirst, NEW v \in Worker, NEW e \in Queued,
           WaitForWindow(v), pc'[v] = "asleep"
    PROVE  wake'[v] <= pushed[e] + MaxWait + Skew
<1> DEFINE h == peeked[v]
<1> DEFINE t == Clock(v)
<1>0. t \in Nat /\ clock \in Nat /\ clock <= t
  BY Numbers DEF Types, TypeOK, Clock
<1>1. h # None /\ Remaining(h, t) > 0 /\ wake'[v] = Later(Remaining(h, t))
  BY DEF WaitForWindow, Types, TypeOK
<1> HIDE DEF t
<1>2. h \in Entry /\ e \in Entry
  BY <1>1, QueuedIsEntries DEF Types, TypeOK
<1>3. fate[h] # "unsent" /\ pushed[h] <= pushed[e]
  BY <1>1 DEF PeekedIsFirst
<1>4. created[h] <= pushed[h] + Skew
  BY <1>2, <1>3 DEF PushesArePast
<1>5. wake'[v] <= clock + Remaining(h, t) /\ Remaining(h, t) \in Nat
  BY <1>0, <1>1, <1>2, RemainingIsShort, LaterIsSoon
<1>6. /\ clock \in Nat /\ created[h] \in Nat /\ pushed[h] \in Nat /\ pushed[e] \in Nat
      /\ MaxWait \in Nat /\ Skew \in Nat
  BY <1>2, Numbers DEF Types, TypeOK
<1>7. clock + Remaining(h, t) <= created[h] + MaxWait
  <2>1. CASE created[h] > t
    <3>1. Remaining(h, t) = MaxWait
      BY <1>6, <2>1 DEF Remaining
    <3> QED BY <1>0, <1>6, <2>1, <3>1
  <2>2. CASE ~ (created[h] > t)
    <3>1. Remaining(h, t) = MaxWait - (t - created[h])
      BY <2>2 DEF Remaining
    <3> QED BY <1>0, <1>6, <3>1
  <2> QED BY <2>1, <2>2
<1>8. wake'[v] \in Nat
  BY <1>1, <1>5, LaterIsSoon
<1> HIDE DEF h
<1> QED
  BY <1>3, <1>4, <1>5, <1>6, <1>7, <1>8

\* An empty claim that leaves something in the list walked over max_items entries.
LEMMA EmptyClaimDrops ==
    ASSUME Types, ListIsQueue, NEW v \in Worker,
           ClaimBatch(v), pc'[v] = "pause", NEW e \in Queued'
    PROVE  MaxItems # 0 /\ walked'[v] = MaxItems
<1>1. PICK n \in 0..Len(list), s \in Seq(Entry) : ClaimOf(v, n, s)
  BY ClaimSteps DEF Types
<1>2. pc \in [Worker -> Ready \cup {"asleep", "pause", "embed", "down"}]
  BY DEF Types, TypeOK
<1>3. s = <<>> /\ walked' = [walked EXCEPT ![v] = n]
  BY <1>1, <1>2 DEF ClaimOf
<1>4. Len(list) \in Nat /\ list \in Seq(Entry)
  BY LenProperties DEF Types, TypeOK
<1>5. n # Len(list)
  <2>1. Queued' = Queued \ ItemsOf(list, n)
    BY <1>1 DEF ClaimOf
  <2> QED BY <1>4, <2>1, QueuedIsItems
<1>6. MaxItems # 0 /\ n = MaxItems
  BY <1>1, <1>3, <1>5 DEF ClaimOf
<1> QED
  BY <1>3, <1>6 DEF Types, TypeOK

LEMMA SleepsAreShortStep ==
    ASSUME Types, ListIsQueue, PushesArePast, LoopTimes, PeekedIsFirst,
           SleepsAreShort, [Next]_vars
    PROVE  SleepsAreShort'
<1> SUFFICES ASSUME NEW v \in Worker, NEW e \in Queued'
             PROVE  /\ pc'[v] = "asleep" => wake'[v] <= pushed'[e] + MaxWait + Skew
                    /\ pc'[v] = "pause" => \/ wake'[v] <= pushed'[e] + Pause
                                           \/ MaxItems # 0 /\ walked'[v] = MaxItems
  BY DEF SleepsAreShort
<1>1. /\ clock \in Nat /\ wake[v] \in Nat /\ MaxWait \in Nat /\ Pause \in Nat
      /\ Skew \in Nat
  BY Numbers DEF Types, TypeOK
<1>2. e \in Queued => pushed'[e] = pushed[e]
  BY QueuedIsEntries, EntriesStay DEF ListIsQueue
<1>3. e \notin Queued => pushed'[e] = clock
  BY QueuedSteps
<1>4. CASE ~ WorkerStep(v)
  <2>1. pc'[v] = pc[v] /\ wake'[v] = wake[v] /\ walked'[v] = walked[v]
    BY <1>4, OthersStay
  <2>2. CASE e \in Queued
    <3>1. /\ pc[v] = "asleep" => wake[v] <= pushed[e] + MaxWait + Skew
          /\ pc[v] = "pause" => \/ wake[v] <= pushed[e] + Pause
                                \/ MaxItems # 0 /\ walked[v] = MaxItems
      BY <2>2 DEF SleepsAreShort
    <3> QED BY <1>2, <2>1, <2>2, <3>1
  <2>3. CASE e \notin Queued
    <3>1. /\ pc[v] = "asleep" => wake[v] <= clock + MaxWait
          /\ pc[v] = "pause" => wake[v] <= clock + Pause
      BY DEF Types, TypeOK, LoopTimes
    <3>2. wake[v] <= clock + MaxWait => wake[v] <= clock + MaxWait + Skew
      BY <1>1
    <3> QED BY <1>3, <2>1, <2>3, <3>1, <3>2
  <2> QED BY <2>2, <2>3
<1>5. CASE WorkerStep(v)
  <2>1. pc'[v] = "asleep" => WaitForWindow(v)
    BY <1>5, OwnStep
  <2>2. pc'[v] = "pause" => ClaimBatch(v)
    BY <1>5, OwnStep
  <2>3. CASE pc'[v] = "asleep"
    <3>1. e \in Queued
      BY <2>1, <2>3 DEF WaitForWindow, listVars, Queued
    <3> QED BY <1>2, <2>1, <2>3, <3>1, WindowIsShort
  <2>4. CASE pc'[v] = "pause"
    BY <2>2, <2>4, EmptyClaimDrops
  <2> QED BY <2>3, <2>4
<1> QED
  BY <1>4, <1>5

LEMMA PromptWakesStep ==
    ASSUME Types, ListIsQueue, PromptWakes, [Next]_vars
    PROVE  PromptWakes'
<1> SUFFICES ASSUME NEW v \in Prompt, pc'[v] \in {"asleep", "pause"}
             PROVE  clock' <= wake'[v]
  BY DEF PromptWakes
<1>0. v \in Worker
  BY QueueAssumption
<1>1. clock \in Nat /\ wake[v] \in Nat /\ clock <= clock
  BY <1>0 DEF Types, TypeOK
<1>2. CASE ~ WorkerStep(v)
  <2>1. pc'[v] = pc[v] /\ wake'[v] = wake[v]
    BY <1>0, <1>2, OthersStay
  <2>2. clock <= wake[v]
    BY <2>1 DEF PromptWakes
  <2>3. CASE Tick
    <3>1. clock' = clock + 1 /\ ~ (wake[v] <= clock)
      BY <2>1, <2>3 DEF Tick, Due
    <3> QED BY <1>1, <2>1, <3>1
  <2>4. CASE clock' = clock
    BY <2>1, <2>2, <2>4
  <2> QED BY <2>3, <2>4, ClockStep
<1>3. CASE WorkerStep(v)
  <2>1. clock' = clock
    BY <1>0, <1>3, OwnStep
  <2>2. CASE pc'[v] = "pause"
    <3>1. wake'[v] = Later(Pause)
      BY <1>0, <1>3, <2>2, OwnStep
    <3> QED BY <2>1, <3>1, LaterIsSoon, Numbers
  <2>3. CASE pc'[v] = "asleep"
    <3>1. WaitForWindow(v)
      BY <1>0, <1>3, <2>3, OwnStep
    <3>2. /\ peeked[v] \in Entry /\ Remaining(peeked[v], Clock(v)) > 0
          /\ wake'[v] = Later(Remaining(peeked[v], Clock(v)))
      BY <1>0, <2>3, <3>1 DEF WaitForWindow, Types, TypeOK
    <3>3. Clock(v) \in Nat
      BY <1>0, <1>1, Numbers DEF Clock
    <3>4. Remaining(peeked[v], Clock(v)) \in Nat
      BY <3>2, <3>3, RemainingIsShort
    <3> QED BY <2>1, <3>2, <3>4, LaterIsSoon
  <2> QED BY <2>2, <2>3
<1> QED
  BY <1>2, <1>3

----------------------------------------------------------------------------
(* The invariant and what follows from it. *)

LEMMA QueueInvInit == Init => QueueInv
<1> SUFFICES ASSUME Init PROVE QueueInv
  OBVIOUS
<1>1. Types
  BY TypesInit
<1>2. list = <<>> /\ Len(list) = 0 /\ Queued = {}
  BY DEF Init, Queued
<1>3. ListIsQueue /\ PushesArePast
  BY <1>2 DEF Init, ListIsQueue, PushesArePast
<1>4. LoopTimes
  BY Numbers DEF Init, LoopTimes, Clock
<1>5. \A w \in Worker : Len(batch[w]) = 0
  BY DEF Init
<1>6. BatchIsClaimed /\ BatchOutlivedWindow
  BY <1>5 DEF BatchIsClaimed, BatchOutlivedWindow
<1>7. PeekedIsFirst /\ SleepsAreShort
  BY <1>2 DEF Init, PeekedIsFirst, SleepsAreShort
<1>8. PromptWakes
  BY QueueAssumption DEF Init, PromptWakes
<1>9. Of("dropped") = {} /\ Of("lost") = {}
  BY DEF Init, Of
<1>10. FiniteLoss
  BY <1>9, FS_EmptySet DEF FiniteLoss
<1>11. DropsOnlyDead
  BY DEF Init, DropsOnlyDead
<1> QED
  BY <1>1, <1>3, <1>4, <1>6, <1>7, <1>8, <1>10, <1>11 DEF QueueInv

LEMMA QueueInvStep ==
    ASSUME QueueInv, [Next]_vars
    PROVE  QueueInv'
<1>1. /\ Types /\ ListIsQueue /\ PushesArePast /\ LoopTimes /\ BatchIsClaimed
      /\ PeekedIsFirst /\ SleepsAreShort /\ PromptWakes /\ FiniteLoss
      /\ DropsOnlyDead /\ BatchOutlivedWindow
  BY DEF QueueInv
<1>2. Types' /\ ListIsQueue' /\ PushesArePast'
  BY <1>1, TypesStep, ListIsQueueStep, PushesArePastStep
<1>3. LoopTimes' /\ BatchIsClaimed' /\ BatchOutlivedWindow'
  BY <1>1, LoopTimesStep, BatchIsClaimedStep, BatchOutlivedWindowStep
<1>4. PeekedIsFirst' /\ SleepsAreShort' /\ PromptWakes'
  BY <1>1, PeekedIsFirstStep, SleepsAreShortStep, PromptWakesStep
<1>5. FiniteLoss' /\ DropsOnlyDead'
  BY <1>1, FiniteLossStep, DropsOnlyDeadStep
<1> QED
  BY <1>2, <1>3, <1>4, <1>5 DEF QueueInv

LEMMA QueueInvHolds == Spec => []QueueInv
BY QueueInvInit, QueueInvStep, PTL DEF Spec

\* The variables keep their types, and a batch window is never longer than
\* max_wait_ms, whatever the gateways' clocks say (_wait_for_batch_window).
THEOREM QueueTypeOK == Spec => []TypeOK
<1>1. QueueInv => TypeOK
  BY DEF QueueInv, Types
<1> QED
  BY <1>1, QueueInvHolds, PTL

\* The script throws away garbage, and items whose client has waited for the
\* timeout, less the age of the request when it was pushed and the difference of
\* the clocks: however old the clock a claim was made with, no item sooner.
THEOREM DropsOnlyDeadInvariant == Spec => []DropsOnlyDead
<1>1. QueueInv => DropsOnlyDead
  BY DEF QueueInv
<1> QED
  BY <1>1, QueueInvHolds, PTL

\* What vLLM embeds was live, by its worker's clock, when the worker's last sleep
\* ended: the claim reads the clock again after the batch window.
THEOREM BatchOutlivedWindowInvariant == Spec => []BatchOutlivedWindow
<1>1. QueueInv => BatchOutlivedWindow
  BY DEF QueueInv
<1> QED
  BY <1>1, QueueInvHolds, PTL

\* A worker that keeps up does not sleep while a live item has waited its time
\* out: in the batch window no longer than max_wait_ms and the clocks'
\* difference, and in the pause after an empty claim no longer than the pause,
\* unless that claim met max_items dead entries in front of it.
THEOREM NoIdleWaitingInvariant == Spec => []NoIdleWaiting
<1>1. QueueInv => NoIdleWaiting
  <2> SUFFICES ASSUME QueueInv, NEW w \in Prompt, NEW e \in Queued
               PROVE  /\ pc[w] = "asleep" => clock <= pushed[e] + MaxWait + Skew
                      /\ pc[w] = "pause" => \/ clock <= pushed[e] + Pause
                                            \/ MaxItems # 0 /\ walked[w] = MaxItems
    BY DEF NoIdleWaiting
  <2>1. Types /\ SleepsAreShort /\ PromptWakes /\ w \in Worker
    BY QueueAssumption DEF QueueInv
  <2>2. /\ clock \in Nat /\ wake[w] \in Nat /\ pushed[e] \in Nat
        /\ MaxWait \in Nat /\ Pause \in Nat /\ Skew \in Nat
    BY <2>1, QueuedIsEntries, Numbers DEF Types, TypeOK
  <2>3. pc[w] \in {"asleep", "pause"} => clock <= wake[w]
    BY <2>1 DEF PromptWakes
  <2>4. /\ pc[w] = "asleep" => wake[w] <= pushed[e] + MaxWait + Skew
        /\ pc[w] = "pause" => \/ wake[w] <= pushed[e] + Pause
                              \/ MaxItems # 0 /\ walked[w] = MaxItems
    BY <2>1 DEF SleepsAreShort
  <2> QED BY <2>2, <2>3, <2>4
<1> QED
  BY <1>1, QueueInvHolds, PTL

----------------------------------------------------------------------------
(* The loss. *)

\* The lost entries of a kind.
LostOf(k) == {e \in Entry : fate[e] = "lost" /\ kind[e] = k}

LEMMA LossIs ==
    LossIsBounded <=> Cardinality(LostOf("item")) <= (MaxItems - 1) * Cardinality(LostOf("partial"))
<1>1. \A k \in {"item", "partial"} :
          {e \in Entry : fate[e] = "lost" /\ kind[e] \in {k}} = LostOf(k)
  BY DEF LostOf
<1> QED
  BY <1>1 DEF LossIsBounded

LEMMA LossIsNext ==
    LossIsBounded' <=>
        Cardinality(LostOf("item")') <= (MaxItems - 1) * Cardinality(LostOf("partial")')
<1>1. \A k \in {"item", "partial"} :
          {e \in Entry : fate'[e] = "lost" /\ kind'[e] \in {k}} = LostOf(k)'
  BY DEF LostOf
<1> QED
  BY <1>1 DEF LossIsBounded

LEMMA LossAddsUp ==
    ASSUME NEW m \in Nat, NEW a \in Nat, NEW p \in Nat, NEW i \in Nat, NEW q \in Nat,
           a <= m * p, i + q <= m + 1, q >= 1
    PROVE  a + i <= m * (p + q)
<1>1. PICK r \in Nat : q = r + 1
  <2>1. q - 1 \in Nat /\ q = (q - 1) + 1
    OBVIOUS
  <2> QED BY <2>1
<1>2. m * (p + q) = m * p + m * r + m
  BY <1>1
<1>3. m * r \in Nat /\ m * p \in Nat
  OBVIOUS
<1>4. i <= m
  OBVIOUS
<1> QED
  BY <1>2, <1>3, <1>4

\* A claim that loses items loses an object that is none with them.
LEMMA LossOfClaim ==
    ASSUME MaxItems # 0, Types, ListIsQueue, FiniteLoss, LossIsBounded,
           NEW w \in Worker, NEW n \in 0..Len(list), NEW s \in Seq(Entry), ClaimOf(w, n, s)
    PROVE  LossIsBounded'
<1> DEFINE new(k) == {e \in ItemsOf(list, n) \ Dead(now[w]) : kind[e] = k}
<1>0. LossIsBounded' <=> Cardinality(LostOf("item")') <= (MaxItems - 1) * Cardinality(LostOf("partial")')
  BY LossIsNext
<1>1. /\ Of("lost")' = Of("lost") \cup
            IF Validates(s) THEN {} ELSE ItemsOf(list, n) \ Dead(now[w])
      /\ \A e \in ItemsOf(list, n) : e \in Entry /\ fate[e] = "queued"
  BY FatesOfClaim
<1>2. kind' = kind
  BY DEF ClaimOf
<1>3. ASSUME NEW k
      PROVE  LostOf(k) = {e \in Of("lost") : kind[e] = k}
  BY DEF LostOf, Of
<1>4. ASSUME NEW k
      PROVE  LostOf(k)' = {e \in Of("lost")' : kind[e] = k}
  BY <1>2 DEF LostOf, Of
<1>5. CASE Validates(s)
  <2>1. LostOf("item")' = LostOf("item") /\ LostOf("partial")' = LostOf("partial")
    BY <1>1, <1>3, <1>4, <1>5
  <2> QED BY <1>0, <2>1, LossIs
<1>6. CASE ~ Validates(s)
  <2>1. ASSUME NEW k
        PROVE  LostOf(k)' = LostOf(k) \cup new(k) /\ LostOf(k) \cap new(k) = {}
    <3>1. LostOf(k)' = LostOf(k) \cup new(k)
      BY <1>1, <1>3, <1>4, <1>6
    <3>2. LostOf(k) \cap new(k) = {}
      BY <1>1, <1>3 DEF Of
    <3> QED BY <3>1, <3>2
  <2>2. PICK e \in Entry : e \in new("partial")
    <3>1. PICK j \in 1..Len(s) : kind[s[j]] # "item"
      BY <1>6 DEF Validates
    <3>2. ItemsOf(s, Len(s)) = ItemsOf(list, n) \ Dead(now[w])
      BY DEF ClaimOf
    <3>3. s[j] \in ItemsOf(list, n) /\ s[j] \notin Dead(now[w])
      BY <3>1, <3>2 DEF ItemsOf
    <3>4. s[j] \in Entry /\ s[j] \in Queued
      BY <1>1, <3>3 DEF ListIsQueue
    <3>5. kind[s[j]] # "garbage"
      BY <3>3, <3>4 DEF Dead
    <3>6. kind[s[j]] # "abort"
      BY <3>3 DEF ClaimOf, ItemsOf
    <3>7. kind[s[j]] \in {"item", "garbage", "partial", "abort"}
      BY <3>4, QueueAssumption DEF Types
    <3> QED BY <3>1, <3>3, <3>4, <3>5, <3>6, <3>7
  <2>3. /\ IsFiniteSet(ItemsOf(list, n)) /\ Cardinality(ItemsOf(list, n)) \in Nat
        /\ Cardinality(ItemsOf(list, n)) <= MaxItems
    <3>1. n \in Nat /\ n <= MaxItems
      BY LenProperties DEF ClaimOf, Types, TypeOK
    <3> QED BY <3>1, ItemsAreFew, Numbers
  <2>4. new("item") \cup new("partial") \subseteq ItemsOf(list, n) /\ new("item") \cap new("partial") = {}
    OBVIOUS
  <2>5. LostOf("item") \subseteq Of("lost") /\ LostOf("partial") \subseteq Of("lost")
    BY <1>3
  <2> HIDE DEF new
  <2>6. /\ IsFiniteSet(new("item")) /\ IsFiniteSet(new("partial"))
        /\ IsFiniteSet(LostOf("item")) /\ IsFiniteSet(LostOf("partial"))
    BY <2>3, <2>4, <2>5, FS_Subset DEF FiniteLoss
  <2> DEFINE i == Cardinality(new("item"))
             q == Cardinality(new("partial"))
             a == Cardinality(LostOf("item"))
             p == Cardinality(LostOf("partial"))
  <2>7. i \in Nat /\ q \in Nat /\ a \in Nat /\ p \in Nat
    BY <2>6, FS_CardinalityType
  <2>8. q >= 1
    <3>1. q # 0
      BY <2>2, <2>6, FS_EmptySet
    <3> HIDE DEF q
    <3> QED BY <2>7, <3>1
  <2>9. Cardinality({}) = 0
    BY FS_EmptySet
  <2>10. i + q <= MaxItems
    <3>1. Cardinality(new("item") \cup new("partial")) = i + q - Cardinality({})
      BY <2>4, <2>6, FS_Union
    <3>2. Cardinality(new("item") \cup new("partial")) <= Cardinality(ItemsOf(list, n))
      BY <2>3, <2>4, FS_Subset
    <3> HIDE DEF i, q
    <3> QED BY <2>3, <2>7, <2>9, <3>1, <3>2, Numbers
  <2>11. Cardinality(LostOf("item")') = a + i /\ Cardinality(LostOf("partial")') = p + q
    <3>1. /\ Cardinality(LostOf("item") \cup new("item")) = a + i - Cardinality({})
          /\ Cardinality(LostOf("partial") \cup new("partial")) = p + q - Cardinality({})
      BY <2>1, <2>6, FS_Union
    <3>2. /\ LostOf("item")' = LostOf("item") \cup new("item")
          /\ LostOf("partial")' = LostOf("partial") \cup new("partial")
      BY <2>1
    <3> HIDE DEF i, q, a, p
    <3>3. a + i - 0 = a + i /\ p + q - 0 = p + q
      BY <2>7
    <3> QED BY <2>9, <3>1, <3>2, <3>3, Zenon
  <2>12. a <= (MaxItems - 1) * p
    BY LossIs
  <2> HIDE DEF i, q, a, p
  <2>13. a + i <= (MaxItems - 1) * (p + q)
    <3>1. MaxItems - 1 \in Nat /\ i + q <= (MaxItems - 1) + 1
      BY <2>7, <2>10, Numbers
    <3> QED BY <2>7, <2>8, <2>12, <3>1, LossAddsUp
  <2> QED BY <1>0, <2>11, <2>13
<1> QED
  BY <1>5, <1>6

LEMMA LossStep ==
    ASSUME MaxItems # 0, QueueInv, LossIsBounded, [Next]_vars
    PROVE  LossIsBounded'
<1>0. Types /\ ListIsQueue /\ FiniteLoss
  BY DEF QueueInv
<1>1. CASE \A w \in Worker : ~ ClaimBatch(w)
  <2>1. \A e \in Entry : fate'[e] = "lost" <=> fate[e] = "lost"
    BY <1>0, <1>1, FatesStay
  <2>2. kind' = kind
    BY <1>1, ListSteps DEF Tick, Arrive, listVars
  <2>3. LostOf("item")' = LostOf("item") /\ LostOf("partial")' = LostOf("partial")
    BY <2>1, <2>2 DEF LostOf
  <2>4. LossIsBounded' <=> Cardinality(LostOf("item")') <= (MaxItems - 1) * Cardinality(LostOf("partial")')
    BY LossIsNext
  <2> QED BY <2>3, <2>4, LossIs
<1>2. CASE \E w \in Worker : ClaimBatch(w)
  <2>1. PICK w \in Worker : ClaimBatch(w)
    BY <1>2
  <2>2. PICK n \in 0..Len(list), s \in Seq(Entry) : ClaimOf(w, n, s)
    BY <1>0, <2>1, ClaimSteps DEF Types
  <2> QED BY <1>0, <2>2, LossOfClaim
<1> QED
  BY <1>1, <1>2

\* A malformed object costs at most the rest of the batch it was claimed with:
\* there are never more lost items than max_items - 1 for each lost object.  With
\* max_items = 0 a claim takes the whole list, and there is no bound.
THEOREM LossIsBoundedInvariant ==
    ASSUME MaxItems # 0
    PROVE  Spec => []LossIsBounded
<1>1. Init => LossIsBounded
  <2> SUFFICES ASSUME Init PROVE LossIsBounded
    OBVIOUS
  <2>1. LostOf("item") = {} /\ LostOf("partial") = {}
    BY DEF Init, LostOf
  <2>2. Cardinality({}) = 0 /\ (MaxItems - 1) * 0 = 0
    BY FS_EmptySet, Numbers
  <2> QED BY <2>1, <2>2, LossIs
<1>2. QueueInv /\ LossIsBounded /\ [Next]_vars => LossIsBounded'
  BY LossStep
<1> QED
  BY <1>1, <1>2, QueueInvHolds, PTL DEF Spec

=============================================================================

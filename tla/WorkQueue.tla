------------------------------ MODULE WorkQueue ------------------------------
(***************************************************************************)
(* One work list over time: the batch window of its workers, deadlines     *)
(* against a clock, and entries that are not work items.  The list is      *)
(* shared by every release of the gateway, so its readers meet text they   *)
(* cannot use; the script, the peek and the claim each have their own idea *)
(* of what that is:                                                        *)
(*   item      a valid EmbeddingWorkItem;                                  *)
(*   garbage   cjson cannot decode it: the script drops it;                *)
(*   partial   JSON the script reads (in an object, an array or a string a *)
(*             missing field is 0) and model_validate_json rejects;        *)
(*   abort     JSON the script fails on: a number, a boolean, null, or an  *)
(*             object whose deadline_ms or token_count is no number.       *)
(* Time is counted in ticks of the slowest worker's clock and stops at     *)
(* Horizon, which stands for every later moment.  The other workers'       *)
(* clocks are ahead of it, the gateways' on either side.                   *)
(***************************************************************************)
EXTENDS ClaimScript, Integers, FiniteSets

CONSTANTS
    Entry,        \* the entries pushed to the list
    Kinds,        \* the functions that say what each entry is
    TokenCount,   \* [Entry -> Nat]
    Worker,       \* the batch worker processes of the lane
    TargetTokens, MaxItems, MaxWait,  \* the lane's settings
    Pause,        \* the sleep after an empty claim
    Timeout,      \* from created_at_ms to deadline_ms
    Delay, Skew,  \* created_at_ms may be this far behind, or ahead of, the push
    Lead,         \* [Worker -> how far its clock is ahead of the slowest]
    LastArrival, Horizon,   \* bounds of the clock, for pushes and at all
    Prompt,       \* workers that step before the next tick when they are not waiting
    None          \* no entry

ASSUME QueueAssumption ==
    /\ Kinds \subseteq [Entry -> {"item", "garbage", "partial", "abort"}]
    /\ TokenCount \in [Entry -> Nat]
    /\ Lead \in [Worker -> Nat]
    /\ None \notin Entry
    /\ {TargetTokens, MaxItems, MaxWait, Pause, Timeout, Delay, Skew} \subseteq Nat
    /\ LastArrival \in Nat /\ Horizon \in Nat /\ Prompt \subseteq Worker
    /\ Delay < Timeout /\ LastArrival + Skew + Timeout < Horizon

VARIABLES
    kind,       \* [Entry -> what the entry is]: one of Kinds
    clock,      \* the time, by the slowest worker's clock
    list,       \* Seq(Entry): the work list
    created,    \* [Entry -> Nat]: created_at_ms
    pushed,     \* [Entry -> Nat]: the moment of the RPUSH
    fate,       \* [Entry -> what became of it]
    pc,         \* [Worker -> where its loop is]
    peeked,     \* [Worker -> the entry LINDEX returned, if it is an item]
    now,        \* [Worker -> what it read off its clock, until its claim]
    wake,       \* [Worker -> the end of the last sleep of this turn of its loop]
    walked,     \* [Worker -> how many entries the empty claim it pauses after removed]
    batch       \* [Worker -> Seq(Entry): what vLLM is embedding for it]

listVars == <<kind, clock, list, created, pushed, fate>>
vars == <<listVars, pc, peeked, now, wake, walked, batch>>

\* dropped: by the script.  batched: handed to vLLM.  lost: claimed by a process
\* that ended on it.
Fate == {"unsent", "queued", "dropped", "batched", "lost"}

Ready == {"peek", "window", "claim"}

\* The types, and that no window is longer than max_wait_ms, whatever the clocks.
TypeOK ==
    /\ clock \in 0..Horizon
    /\ list \in Seq(Entry)
    /\ created \in [Entry -> Nat] /\ pushed \in [Entry -> Nat]
    /\ fate \in [Entry -> Fate]
    /\ pc \in [Worker -> Ready \cup {"asleep", "pause", "embed", "down"}]
    /\ peeked \in [Worker -> Entry \cup {None}]
    /\ now \in [Worker -> Nat] /\ wake \in [Worker -> 0..Horizon]
    /\ walked \in [Worker -> Nat]
    /\ \A w \in Worker : pc[w] = "asleep" => wake[w] <= clock + MaxWait
    /\ batch \in [Worker -> Seq(Entry)]

Init ==
    /\ kind \in Kinds
    /\ clock = Delay
    /\ list = <<>>
    /\ created = [e \in Entry |-> 0] /\ pushed = [e \in Entry |-> 0]
    /\ fate = [e \in Entry |-> "unsent"]
    /\ pc = [w \in Worker |-> "down"]
    /\ peeked = [w \in Worker |-> None]
    /\ now = [w \in Worker |-> 0] /\ wake = [w \in Worker |-> 0]
    /\ walked = [w \in Worker |-> 0]
    /\ batch = [w \in Worker |-> <<>>]

----------------------------------------------------------------------------
(* The list and the clock *)

Deadline(e) == created[e] + Timeout
Due(w) == pc[w] \in {"asleep", "pause"} /\ wake[w] <= clock

\* current_time_ms() on the host of a worker.
Clock(w) == clock + Lead[w]

Tick ==
    /\ clock < Horizon
    /\ \A w \in Prompt : pc[w] \notin Ready /\ ~Due(w)
    /\ clock' = clock + 1
    /\ UNCHANGED <<kind, list, created, pushed, fate, pc, peeked, now, wake, walked, batch>>

\* A gateway's RPUSH.  The children of a request carry one created_at_ms, read
\* before the first is pushed on the clock of another host.
Arrive(e) ==
    /\ fate[e] = "unsent" /\ clock <= LastArrival
    /\ \E t \in (clock - Delay)..(clock + Skew) : created' = [created EXCEPT ![e] = t]
    /\ pushed' = [pushed EXCEPT ![e] = clock]
    /\ list' = Append(list, e)
    /\ fate' = [fate EXCEPT ![e] = "queued"]
    /\ UNCHANGED <<kind, clock, pc, peeked, now, wake, walked, batch>>

----------------------------------------------------------------------------
(* A worker *)

Later(ticks) == IF clock + ticks > Horizon THEN Horizon ELSE clock + ticks

\* run_batch_worker connects and enters its loop, for the first time or in the
\* container Kubernetes restarted.
Start(w) ==
    /\ pc[w] = "down"
    /\ pc' = [pc EXCEPT ![w] = "peek"]
    /\ UNCHANGED <<listVars, peeked, now, wake, walked, batch>>

\* LINDEX 0.  What does not validate is left to the claim script.
PeekOldest(w) ==
    /\ pc[w] = "peek"
    /\ peeked' = [peeked EXCEPT ![w] =
                     IF list # <<>> /\ kind[Head(list)] = "item" THEN Head(list) ELSE None]
    /\ pc' = [pc EXCEPT ![w] = "window"]
    /\ UNCHANGED <<listVars, now, wake, walked, batch>>

\* Mutant: the window starts when the worker looks.
RemainingFromNow(e, t) == MaxWait

\* Mutant: the age of an item of the future is negative.
RemainingOfFuture(e, t) == MaxWait - (t - created[e])

\* max_wait_ms less the age by the clock t; an item of the future has no age.
Remaining(e, t) == MaxWait - (IF created[e] > t THEN 0 ELSE t - created[e])

\* The rest of _wait_for_batch_window: sleep out the oldest item's max wait.
WaitForWindow(w) ==
    LET e == peeked[w]
        wait == /\ e # None
                /\ Deadline(e) >= Clock(w)
                /\ Remaining(e, Clock(w)) > 0
    IN  /\ pc[w] = "window"
        /\ now' = [now EXCEPT ![w] = Clock(w)]
        /\ pc' = [pc EXCEPT ![w] = IF wait THEN "asleep" ELSE "claim"]
        /\ wake' = [wake EXCEPT ![w] = IF wait THEN Later(Remaining(e, Clock(w))) ELSE @]
        /\ peeked' = [peeked EXCEPT ![w] = None]
        /\ UNCHANGED <<listVars, walked, batch>>

\* Mutant: the claim uses the clock the window read.
AwakeWithOldClock(w) ==
    /\ pc[w] = "asleep" /\ Due(w)
    /\ pc' = [pc EXCEPT ![w] = "claim"]
    /\ UNCHANGED <<listVars, peeked, now, wake, walked, batch>>

\* The window is over; claim_embedding_batch reads the clock again.
Awake(w) ==
    /\ pc[w] = "asleep" /\ Due(w)
    /\ now' = [now EXCEPT ![w] = Clock(w)]
    /\ pc' = [pc EXCEPT ![w] = "claim"]
    /\ UNCHANGED <<listVars, peeked, wake, walked, batch>>

\* The sleep after an empty claim is over.
PauseEnds(w) ==
    /\ pc[w] = "pause" /\ Due(w)
    /\ pc' = [pc EXCEPT ![w] = "peek"]
    /\ wake' = [wake EXCEPT ![w] = 0]
    /\ walked' = [walked EXCEPT ![w] = 0]
    /\ UNCHANGED <<listVars, peeked, now, batch>>

Queued == {list[k] : k \in 1..Len(list)}

\* Mutant: the script drops what expires within the next window.
DeadSoon(t) ==
    {e \in Queued : \/ kind[e] = "garbage"
                    \/ kind[e] = "item" /\ Deadline(e) < t + MaxWait}

\* What the script throws away with the clock t.
Dead(t) ==
    {e \in Queued : \/ kind[e] = "garbage"
                    \/ kind[e] = "item" /\ Deadline(e) < t}

TokenView == [e \in Queued |-> IF kind[e] = "item" THEN TokenCount[e] ELSE 0]

\* The script raises on the first such entry it walks over, and trims nothing.
Aborts(t) ==
    LET w == Window(list, MaxItems)
        states == LoopStates(w, TargetTokens, Dead(t), TokenView)
    IN  \E k \in 1..Len(w) : kind[w[k]] = "abort" /\ ~states[k - 1].broke

\* The script fails: the exception ends the worker, and the list is as it was.
ClaimRaises(w) ==
    /\ pc[w] = "claim"
    /\ Aborts(now[w])
    /\ pc' = [pc EXCEPT ![w] = "down"]
    /\ now' = [now EXCEPT ![w] = 0]
    /\ wake' = [wake EXCEPT ![w] = 0]
    /\ UNCHANGED <<listVars, peeked, walked, batch>>

\* model_validate_json accepts every entry the script returned.
Validates(s) == \A k \in 1..Len(s) : kind[s[k]] = "item"

\* The script runs, and its reply is parsed: no item, a batch for vLLM, or an
\* exception that ends the process with the claimed entries.
ClaimBatch(w) ==
    LET claim == Claim(list, MaxItems, TargetTokens, Dead(now[w]), TokenView)
        s == claim.selected
        taken == {s[k] : k \in 1..Len(s)}
        trimmed == Queued \ {claim.rest[k] : k \in 1..Len(claim.rest)}
    IN  /\ pc[w] = "claim"
        /\ ~Aborts(now[w])
        /\ list' = claim.rest
        /\ fate' = [e \in Entry |-> IF e \notin trimmed THEN fate[e]
                                    ELSE IF e \notin taken THEN "dropped"
                                    ELSE IF Validates(s) THEN "batched" ELSE "lost"]
        /\ \/ /\ s = <<>>
              /\ pc' = [pc EXCEPT ![w] = "pause"]
              /\ wake' = [wake EXCEPT ![w] = Later(Pause)]
              /\ walked' = [walked EXCEPT ![w] = Len(list) - Len(claim.rest)]
              /\ UNCHANGED batch
           \/ /\ s # <<>> /\ Validates(s)
              /\ pc' = [pc EXCEPT ![w] = "embed"]
              /\ batch' = [batch EXCEPT ![w] = s]
              /\ UNCHANGED <<wake, walked>>
           \/ /\ ~Validates(s)
              /\ pc' = [pc EXCEPT ![w] = "down"]
              /\ wake' = [wake EXCEPT ![w] = 0]
              /\ UNCHANGED <<walked, batch>>
        /\ now' = [now EXCEPT ![w] = 0]
        /\ UNCHANGED <<kind, clock, created, pushed, peeked>>

\* _process_batch ends, however it does, and the loop starts again.
FinishBatch(w) ==
    /\ pc[w] = "embed"
    /\ pc' = [pc EXCEPT ![w] = "peek"]
    /\ batch' = [batch EXCEPT ![w] = <<>>]
    /\ wake' = [wake EXCEPT ![w] = 0]
    /\ UNCHANGED <<listVars, peeked, now, walked>>

WorkerStep(w) ==
    \/ Start(w) \/ PeekOldest(w) \/ WaitForWindow(w) \/ Awake(w) \/ PauseEnds(w)
    \/ ClaimRaises(w) \/ ClaimBatch(w) \/ FinishBatch(w)

Next ==
    \/ Tick
    \/ \E e \in Entry : Arrive(e)
    \/ \E w \in Worker : WorkerStep(w)

Spec == Init /\ [][Next]_vars

\* Time passes, and the loop turns: asyncio wakes a sleeper, vLLM's client has a
\* timeout, and Kubernetes restarts the container.
FairSpec == Spec /\ WF_vars(Tick) /\ \A w \in Worker : WF_vars(WorkerStep(w))

----------------------------------------------------------------------------
(* Properties *)

\* While a worker that keeps up sleeps out a batch window, no live item has been
\* in the list for longer than the max wait (and the clocks' difference): the
\* window is counted from the head's creation, although others may claim the head
\* meanwhile.  While it pauses after an empty claim, no live item has been there
\* for longer than the pause, unless that very claim met max_items dead entries.
NoIdleWaiting ==
    \A w \in Prompt, e \in Queued :
        kind[e] = "item" /\ Deadline(e) >= clock =>
            /\ pc[w] = "asleep" => clock <= pushed[e] + MaxWait + Skew
            /\ pc[w] = "pause" =>
                  \/ clock <= pushed[e] + Pause
                  \/ MaxItems # 0 /\ walked[w] = MaxItems

\* What vLLM embeds was live, by the clock of its worker, when the worker's last
\* sleep ended, so what expired during the window is not in the batch.
BatchOutlivedWindow ==
    \A w \in Worker :
        \A k \in 1..Len(batch[w]) : Deadline(batch[w][k]) >= wake[w] + Lead[w]

\* An item is dropped only when its client has waited for the timeout, or as much
\* less as the request was older than its push, or as the gateway's clock is
\* behind that of some worker; where neither is the case, never while the client
\* still waits.  The only other thing the script drops is garbage.
DropsOnlyDead ==
    \A e \in Entry :
        fate[e] = "dropped" =>
            \/ kind[e] = "garbage"
            \/ \E w \in Worker : pushed[e] + Timeout < clock + Delay + Lead[w]

\* A malformed object costs at most the rest of the batch it was claimed in, and
\* costs it once: valid items are lost in its company only.
LossIsBounded ==
    LET lost(kinds) == {e \in Entry : fate[e] = "lost" /\ kind[e] \in kinds}
    IN  Cardinality(lost({"item"})) <= (MaxItems - 1) * Cardinality(lost({"partial"}))

\* No malformed entry stays in the list for ever (the script's comment on what it
\* drops, redis_batch_queue.py).
MalformedLeaves ==
    \A e \in Entry : kind[e] # "item" => (fate[e] = "queued" ~> fate[e] # "queued")

=============================================================================

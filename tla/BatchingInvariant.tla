-------------------------- MODULE BatchingInvariant --------------------------
(***************************************************************************)
(* The inductive invariants behind the safety properties.  GenuineAnswers  *)
(* is the one of AnswersMatchInputs: everything a child turns into on its  *)
(* way (work item, batch position, vector, result, future) still names     *)
(* that child and its place in its request.  GenuineDelivery adds where    *)
(* things are: who waits for what, and whose queue an answer is in.        *)
(* Whereabouts and EachOnce are behind NeverLost and AtMostOnce: a child   *)
(* is followed from place to place.                                        *)
(***************************************************************************)
EXTENDS BatchingSystem

\* A work item as some gateway built it, a result as some worker derived it.
GoodItem == {item \in Item : item.index = item.id[2]}

GoodResult == {res \in Result : /\ res.index = res.id[2]
                                /\ res.ok => res.embedding = res.id}

WorkIsGenuine ==
    /\ work \in [Lane -> Seq(GoodItem)]
    /\ batch \in [Worker -> Seq(GoodItem)]

ResultsAreGenuine ==
    /\ results \in [Gateway -> Seq(GoodResult)]
    /\ inhand \in [Gateway -> GoodResult \cup {Nil}]

FuturesAreGenuine ==
    \A c \in Child : future[c].state = "done" => /\ future[c].value \in GoodResult
                                                 /\ future[c].value.id = c

\* A worker publishes at a position of its batch, from vectors in batch order.
Publishing == {"publish", "expire", "reexpire"}

AlignedBatch(w) ==
    /\ wpc[w] = "embed" => batch[w] # <<>>
    /\ wpc[w] \in Publishing => pos[w] \in 1..Len(batch[w])
    /\ wpc[w] \notin Publishing => data[w] = <<>>
    /\ data[w] = <<>> \/ data[w] = [k \in 1..Len(batch[w]) |-> batch[w][k].id]

BatchesAligned == \A w \in Worker : AlignedBatch(w)

RequestsAtHome ==
    \A r \in Request : InFlight(r) => /\ home[r] \in Gateway
                                      /\ next[r] \in Indexes(r)

\* An unbroken chain from the gateway's input list to its response.
GenuineAnswers ==
    /\ TypeOK
    /\ WorkIsGenuine
    /\ ResultsAreGenuine
    /\ FuturesAreGenuine
    /\ BatchesAligned
    /\ RequestsAtHome
    /\ AnswersMatchInputs

----------------------------------------------------------------------------
(* Who waits for what. *)

\* What the running requests of g have registered.
Registered(g) == {c \in Child : /\ home[c[1]] = g
                                /\ InFlight(c[1])
                                /\ c[2] <= next[c[1]]}

\* _pending holds what is registered, until stop() forgets it; what coroutines
\* register after that is theirs.  A dead process runs no request.
PendingIsRegistered ==
    \A g \in Gateway :
        /\ gw[g] \in {"up", "stopping"} => pending[g] = Registered(g)
        /\ gw[g] = "stopped" => pending[g] \subseteq Registered(g)
        /\ gw[g] = "down" => pending[g] = {} /\ Registered(g) = {}

\* A future exists only for a registered child, so registering starts from none.
FuturesAreRegistered ==
    \A c \in Child :
        future[c].state # "none" => InFlight(c[1]) /\ c[2] <= next[c[1]]

----------------------------------------------------------------------------
(* Whose queue an answer is in. *)

Sent(c) == phase[c[1]] # "idle"

\* A sent request's home never changes, so these sets only grow.
HomeItem == {item \in GoodItem : Sent(item.id) /\ home[item.id[1]] = item.reply_to}

HomeResult(g) == {res \in GoodResult : Sent(res.id) /\ home[res.id[1]] = g}

ItemsKnowTheirHome ==
    /\ work \in [Lane -> Seq(HomeItem)]
    /\ batch \in [Worker -> Seq(HomeItem)]

ResultsAreHome == \A g \in Gateway : results[g] \in Seq(HomeResult(g))

GenuineDelivery ==
    /\ GenuineAnswers
    /\ PendingIsRegistered
    /\ FuturesAreRegistered
    /\ ItemsKnowTheirHome
    /\ ResultsAreHome

----------------------------------------------------------------------------
(* Where the copies of a child are. *)

\* What a listener holds came out of its own gateway's queue.
HandsAreHome == \A g \in Gateway : inhand[g] = Nil \/ inhand[g] \in HomeResult(g)

\* The clock a worker read is not ahead of the time.
ClocksArePast == \A w \in Worker : seen[w] \subseteq expired

\* A request that was not sent has enqueued no child.
UnsentIsNew == \A r \in Request : phase[r] = "idle" => next[r] = 0

Whereabouts == GenuineDelivery /\ HandsAreHome /\ ClocksArePast /\ UnsentIsNew

\* One copy at most, none before the RPUSH, and none beside a result.
OneCopy(c) ==
    /\ \A p, q \in Copies(c) : p = q
    /\ ~Pushed(c) => Copies(c) = {} /\ future[c].state # "done"
    /\ future[c].state = "done" => Copies(c) = {}

EachOnce == \A c \in Child : OneCopy(c)

=============================================================================

------------------------------ MODULE GenStage ------------------------------
(***************************************************************************)
(* fastactor/otp/gen_stage.py: stages that pass events downstream as demand*)
(* for them comes upstream, with the three dispatchers.                    *)
(*                                                                         *)
(* A stage handles one message at a time and gives way at every send(),    *)
(* which waits while the mailbox of its peer is full.  What a handler has  *)
(* still to send is in `outbox`; `at` is where it goes on after that.      *)
(* Events are numbered as handle_demand makes them.  A stage between two   *)
(* others passes every event on: its handle_events is the identity.        *)
(***************************************************************************)
EXTENDS Naturals, Sequences, FiniteSets, SequencesExt

CONSTANTS Stages,
          Source,         \* the Producer: the stage with a handle_demand
          Subs,           \* the subscriptions, each made at most once
          Up, Down,       \* the producer and the consumer of a subscription
          MaxDemand, MinDemand, Partition,    \* its options
          Hash,           \* hash_fn of the PartitionDispatcher
          Kinds,          \* the dispatchers of this instance
          MailboxSize,    \* settings.mailbox_size
          MaxEvents,      \* bound: handle_demand makes at most MaxEvents
          MaxBatch,       \* the events handle_demand returns at a time
          Workload        \* the operations users perform in this instance

Events == 1..MaxEvents

ASSUME GenStageAssumption ==
    /\ Source \in Stages /\ Subs # {}
    /\ Up \in [Subs -> Stages] /\ Down \in [Subs -> Stages]
    /\ \A s \in Subs : Down[s] # Source
    /\ MaxDemand \in [Subs -> Nat \ {0}] /\ MinDemand \in [Subs -> Nat]
    /\ Partition \in [Subs -> Nat] /\ Hash \in [Events -> Nat]
    /\ \A s, t \in Subs : Up[s] = Up[t] /\ Partition[s] = Partition[t] => s = t
    /\ Kinds \subseteq {"demand", "broadcast", "partition"}
    /\ MailboxSize \in Nat \ {0} /\ MaxEvents \in Nat /\ MaxBatch \in Nat \ {0}
    /\ Workload \subseteq {"cancel", "stop"}

InTheMiddle(x) == x # Source /\ \E s \in Subs : Up[s] = x      \* ProducerConsumer

Message == [type: {"subscribe", "ack", "demand", "events", "cancel", "stop"},
            sub: Subs, count: Nat, events: Seq(Events)]
Signal(type, s) == [type |-> type, sub |-> s, count |-> 0, events |-> <<>>]
Demand(s, n)    == [type |-> "demand", sub |-> s, count |-> n, events |-> <<>>]
Batch(s, evs)   == [type |-> "events", sub |-> s, count |-> 0, events |-> evs]

VARIABLES
    kind,       \* dispatcher_class
    at,         \* where the task of a stage is
    mailbox,    \* the buffered messages
    current,    \* the message in hand
    outbox,     \* the messages its handler has still to send
    producerSubs, demand, buffer,   \* _producer_subs, the dispatcher's _demand,
                                    \* _output_buffer
    status,     \* of a subscription at its consumer: in _consumer_subs or not
    inFlight,   \* in_flight, at the consumer
    made,       \* history: how many events handle_demand has made
    got         \* history: the events handled from each subscription

tasks    == <<at, mailbox, current, outbox>>
upstream == <<producerSubs, demand, buffer>>
history  == <<made, got>>
vars     == <<kind, tasks, upstream, status, inFlight, history>>

None == Signal("stop", CHOOSE s \in Subs : TRUE)      \* no message in hand

Init ==
    /\ kind \in Kinds
    /\ at = [x \in Stages |-> "idle"]
    /\ mailbox = [x \in Stages |-> <<>>]
    /\ current = [x \in Stages |-> None]
    /\ outbox = [x \in Stages |-> <<>>]
    /\ producerSubs = [x \in Stages |-> <<>>]
    /\ demand = [s \in Subs |-> 0]
    /\ buffer = [x \in Stages |-> <<>>]
    /\ status = [s \in Subs |-> "new"]
    /\ inFlight = [s \in Subs |-> 0]
    /\ made = 0
    /\ got = [s \in Subs |-> <<>>]

-----------------------------------------------------------------------------
(* Lists.  The elements of q that are in S, in their order; the sum of the   *)
(* weights that w gives to them; those at the places in S.                   *)

Keep(q, S) ==
    LET keep[n \in 0..Len(q)] ==
            IF n = 0 THEN <<>>
            ELSE IF q[n] \in S THEN Append(keep[n - 1], q[n]) ELSE keep[n - 1]
    IN  keep[Len(q)]

Sum(q, w) ==
    LET sum[n \in 0..Len(q)] == IF n = 0 THEN 0 ELSE sum[n - 1] + w[q[n]]
    IN  sum[Len(q)]

Rank(n, S) == Cardinality({m \in S : m <= n})
At(q, S)   == [k \in 1..Cardinality(S) |-> q[CHOOSE n \in S : Rank(n, S) = k]]

-----------------------------------------------------------------------------
(* The dispatchers: what each subscription gets of a batch.                 *)

Subscribers(x) == ToSet(producerSubs[x])
PositionIn(x, s) == CHOOSE n \in DOMAIN producerSubs[x] : producerSubs[x][n] = s
Smallest(f, S) == IF S = {} THEN 0 ELSE CHOOSE n \in {f[s] : s \in S} : \A s \in S : n <= f[s]

(* DemandDispatcher: the subscription with the most demand first; of equals, *)
(* the one that subscribed first.                                            *)
GreedyFirst(x, d, s, t) ==
    d[s] > d[t] \/ (d[s] = d[t] /\ PositionIn(x, s) < PositionIn(x, t))
Greedy(x, d, evs, s) ==
    LET first == Sum(producerSubs[x], [t \in Subs |-> IF GreedyFirst(x, d, t, s) THEN d[t] ELSE 0])
    IN  {n \in DOMAIN evs : first < n /\ n <= first + d[s]}

(* BroadcastDispatcher: everybody the same, as much as the slowest asked for. *)
Common(x, d, evs, s) == 1 .. IF Smallest(d, Subscribers(x)) < Len(evs)
                             THEN Smallest(d, Subscribers(x)) ELSE Len(evs)

(* PartitionDispatcher: by hash, while the partition has demand. *)
Hashed(x, d, evs, s) ==
    LET mine == {n \in DOMAIN evs : Hash[evs[n]] = Partition[s]}
    IN  {n \in mine : Rank(n, mine) <= d[s]}

Share(x, d, evs, s) == CASE kind = "demand"    -> Greedy(x, d, evs, s)
                         [] kind = "broadcast" -> Common(x, d, evs, s)
                         [] kind = "partition" -> Hashed(x, d, evs, s)

(* Mutant: a broadcast counts all demand. *)
TotalPendingOfAll(x) == Sum(producerSubs[x], demand)
TotalPending(x) == IF kind = "broadcast" THEN Smallest(demand, Subscribers(x))
                                         ELSE Sum(producerSubs[x], demand)

(* _dispatch_events, with demand d and buffer buf: what cannot be dispatched *)
(* goes behind buf.  Mutant: it is dropped.                                  *)
LeftoverNone(x, d, evs) == <<>>
Leftover(x, d, evs) ==
    At(evs, DOMAIN evs \ UNION {Share(x, d, evs, s) : s \in Subscribers(x)})
(* Mutant: what a subscription gets is not taken from its demand. *)
SpentNot(x, d, evs, s) == d[s]
Spent(x, d, evs, s)    == d[s] - Cardinality(Share(x, d, evs, s))
(* Mutant: the newer events go in front. *)
KeptInFront(buf, rest) == rest \o buf
Kept(buf, rest)        == buf \o rest
Dispatch(x, d, buf, evs) ==
    /\ buffer' = [buffer EXCEPT ![x] = Kept(buf, Leftover(x, d, evs))]
    /\ demand' = [s \in Subs |-> IF s \in Subscribers(x) THEN Spent(x, d, evs, s) ELSE d[s]]
    /\ LET batches == [n \in DOMAIN producerSubs[x] |->
                          LET s == producerSubs[x][n] IN Batch(s, At(evs, Share(x, d, evs, s)))]
       IN  outbox' = [outbox EXCEPT ![x] = Keep(batches, {b \in ToSet(batches) : b.events # <<>>})]

-----------------------------------------------------------------------------
(* Sending and receiving. *)

Alive(x)  == at[x] # "stopped"
Ready(x, place) == at[x] = place /\ outbox[x] = <<>>
Parked(x) == Ready(x, "idle") /\ mailbox[x] = <<>>
Room(x)   == Alive(x) /\ (Parked(x) \/ Len(mailbox[x]) < MailboxSize)

(* A message for a stage parked in receive() is handed to it. *)
Deliver(x, m) ==
    /\ Room(x)
    /\ IF Parked(x) THEN /\ at' = [at EXCEPT ![x] = "handling"]
                         /\ current' = [current EXCEPT ![x] = m]
                         /\ UNCHANGED mailbox
                    ELSE /\ mailbox' = [mailbox EXCEPT ![x] = Append(@, m)]
                         /\ UNCHANGED <<at, current>>

Receiver(m) == IF m.type \in {"ack", "events"} THEN Down[m.sub] ELSE Up[m.sub]

(* await peer.send(...) of the message the handler has come to. *)
SendNext(x) ==
    /\ outbox[x] # <<>>
    /\ Deliver(Receiver(Head(outbox[x])), Head(outbox[x]))
    /\ outbox' = [outbox EXCEPT ![x] = Tail(@)]
    /\ UNCHANGED <<kind, upstream, status, inFlight, history>>

(* The peer has stopped.  Events and demand for it are logged as lost.       *)
SendFails(x) ==
    /\ outbox[x] # <<>> /\ Head(outbox[x]).type # "ack"
    /\ ~Alive(Receiver(Head(outbox[x])))
    /\ outbox' = [outbox EXCEPT ![x] = Tail(@)]
    /\ UNCHANGED <<kind, at, mailbox, current, upstream, status, inFlight, history>>

Leaves(x) ==
    /\ at' = [at EXCEPT ![x] = "stopped"]
    /\ mailbox' = [mailbox EXCEPT ![x] = <<>>]
    /\ current' = [current EXCEPT ![x] = None]
    /\ outbox' = [outbox EXCEPT ![x] = <<>>]

(* Nothing catches the error of the acknowledgement: the producer ends. *)
AckFails(x) ==
    /\ outbox[x] # <<>> /\ Head(outbox[x]).type = "ack"
    /\ ~Alive(Receiver(Head(outbox[x])))
    /\ Leaves(x)
    /\ UNCHANGED <<kind, upstream, status, inFlight, history>>

Receive(x) ==
    /\ Ready(x, "idle") /\ mailbox[x] # <<>>
    /\ at' = [at EXCEPT ![x] = "handling"]
    /\ current' = [current EXCEPT ![x] = Head(mailbox[x])]
    /\ mailbox' = [mailbox EXCEPT ![x] = Tail(@)]
    /\ UNCHANGED <<kind, outbox, upstream, status, inFlight, history>>

Handling(x, type) == at[x] = "handling" /\ current[x].type = type
Continue(x, place) == /\ at' = [at EXCEPT ![x] = place]
                      /\ current' = IF place = "idle" THEN [current EXCEPT ![x] = None] ELSE current
                      /\ UNCHANGED mailbox
Sends(x, m) == outbox' = [outbox EXCEPT ![x] = <<m>>]

-----------------------------------------------------------------------------
(* The producer side. *)

DoSubscribe(x) ==
    /\ Handling(x, "subscribe")
    /\ LET s == current[x].sub
       IN  /\ producerSubs' = [producerSubs EXCEPT ![x] = Append(@, s)]
           /\ demand' = [demand EXCEPT ![s] = 0]
           /\ Sends(x, Signal("ack", s))
    /\ Continue(x, "flushing")
    /\ UNCHANGED <<kind, buffer, status, inFlight, history>>

(* The buffer is offered to the new subscription. *)
Flush(x) ==
    /\ Ready(x, "flushing")
    /\ Dispatch(x, demand, <<>>, buffer[x])
    /\ Continue(x, "idle")
    /\ UNCHANGED <<kind, producerSubs, status, inFlight, history>>

DoDemand(x) ==
    /\ Handling(x, "demand")
    /\ LET s == current[x].sub
       IN  IF s \in Subscribers(x)
           THEN /\ Dispatch(x, [demand EXCEPT ![s] = @ + current[x].count], <<>>, buffer[x])
                /\ Continue(x, IF x = Source THEN "producing" ELSE "idle")
           ELSE Continue(x, "idle") /\ UNCHANGED <<demand, buffer, outbox>>
    /\ UNCHANGED <<kind, producerSubs, status, inFlight, history>>

(* handle_demand() makes some events, which go out before it is asked again. *)
Produce(x) ==
    /\ Ready(x, "producing") /\ TotalPending(x) > 0
    /\ \E n \in 1..MaxBatch :
         /\ made + n <= MaxEvents
         /\ made' = made + n
         /\ Dispatch(x, demand, buffer[x], [k \in 1..n |-> made + k])
    /\ UNCHANGED <<kind, at, mailbox, current, producerSubs, status, inFlight, got>>

(* No demand is left, or handle_demand() returned nothing. *)
ProduceEnds(x) ==
    /\ Ready(x, "producing")
    /\ Continue(x, "idle")
    /\ UNCHANGED <<kind, outbox, upstream, status, inFlight, history>>

DoCancel(x) ==
    /\ Handling(x, "cancel")
    /\ LET s == current[x].sub
       IN  /\ producerSubs' = [producerSubs EXCEPT ![x] = Keep(@, Subs \ {s})]
           /\ demand' = [demand EXCEPT ![s] = 0]
    /\ Continue(x, "idle")
    /\ UNCHANGED <<kind, outbox, buffer, status, inFlight, history>>

-----------------------------------------------------------------------------
(* The consumer side. *)

DoSubscribeAck(x) ==
    /\ Handling(x, "ack")
    /\ LET s == current[x].sub
       IN  IF status[s] = "subscribed"
           THEN /\ inFlight' = [inFlight EXCEPT ![s] = @ + MaxDemand[s]]
                /\ Sends(x, Demand(s, MaxDemand[s]))
           ELSE UNCHANGED <<inFlight, outbox>>
    /\ Continue(x, "idle")
    /\ UNCHANGED <<kind, upstream, status, history>>

DoEvents(x) ==
    /\ Handling(x, "events")
    /\ LET s == current[x].sub
           n == Len(current[x].events)
       IN  IF status[s] = "subscribed"
           THEN /\ inFlight' = [inFlight EXCEPT ![s] = IF @ > n THEN @ - n ELSE 0]
                /\ got' = [got EXCEPT ![s] = @ \o current[x].events]
                /\ Continue(x, "passing")
           ELSE Continue(x, "idle") /\ UNCHANGED <<inFlight, got>>
    /\ UNCHANGED <<kind, outbox, upstream, status, made>>

(* What handle_events() of a stage in the middle returned goes downstream.   *)
PassOn(x) ==
    /\ Ready(x, "passing")
    /\ IF InTheMiddle(x) THEN Dispatch(x, demand, buffer[x], current[x].events)
                         ELSE UNCHANGED <<demand, buffer, outbox>>
    /\ Continue(x, "refilling")
    /\ UNCHANGED <<kind, producerSubs, status, inFlight, history>>

(* Mutant: min_demand=0 never asks again. *)
MustRefillBelow(s) == inFlight[s] < MinDemand[s]
MustRefill(s) == inFlight[s] < MinDemand[s] \/ inFlight[s] = 0
Refill(x) ==
    /\ Ready(x, "refilling")
    /\ LET s == current[x].sub
       IN  IF MustRefill(s) /\ inFlight[s] < MaxDemand[s]
           THEN /\ inFlight' = [inFlight EXCEPT ![s] = MaxDemand[s]]
                /\ Sends(x, Demand(s, MaxDemand[s] - inFlight[s]))
           ELSE UNCHANGED <<inFlight, outbox>>
    /\ Continue(x, "idle")
    /\ UNCHANGED <<kind, upstream, status, history>>

-----------------------------------------------------------------------------
(* What other tasks call. *)

SubscribeTo(s) ==
    /\ status[s] = "new" /\ Alive(Down[s])
    /\ Deliver(Up[s], Signal("subscribe", s))
    /\ status' = [status EXCEPT ![s] = "subscribed"]
    /\ UNCHANGED <<kind, outbox, upstream, inFlight, history>>

(* The subscription is forgotten before the producer is told; a stage in the *)
(* middle drops what it has buffered.                                        *)
CancelSubscription(s) ==
    /\ "cancel" \in Workload
    /\ status[s] = "subscribed"
    /\ status' = [status EXCEPT ![s] = "cancelling"]
    /\ buffer' = [buffer EXCEPT ![Down[s]] = <<>>]
    /\ UNCHANGED <<kind, tasks, producerSubs, demand, inFlight, history>>

TellCancelled(s) ==
    /\ status[s] = "cancelling"
    /\ IF Alive(Up[s]) THEN Deliver(Up[s], Signal("cancel", s))
                       ELSE UNCHANGED <<at, mailbox, current>>
    /\ status' = [status EXCEPT ![s] = "cancelled"]
    /\ UNCHANGED <<kind, outbox, upstream, inFlight, history>>

StopStage(x) ==
    /\ "stop" \in Workload
    /\ Deliver(x, None)
    /\ UNCHANGED <<kind, outbox, upstream, status, inFlight, history>>

DoStop(x) ==
    /\ Handling(x, "stop")
    /\ Leaves(x)
    /\ UNCHANGED <<kind, upstream, status, inFlight, history>>

-----------------------------------------------------------------------------
Sending(x) == SendNext(x) \/ SendFails(x) \/ AckFails(x)
Step(x) == \/ Receive(x) \/ DoSubscribe(x) \/ Flush(x) \/ DoDemand(x) \/ Produce(x)
           \/ ProduceEnds(x) \/ DoCancel(x) \/ DoSubscribeAck(x) \/ DoEvents(x)
           \/ PassOn(x) \/ Refill(x) \/ DoStop(x)
Users == \/ \E s \in Subs : SubscribeTo(s) \/ CancelSubscription(s) \/ TellCancelled(s)
         \/ \E x \in Stages : StopStage(x)

(* Nothing is under way. *)
Quiet == /\ \A x \in Stages : Parked(x) \/ ~Alive(x)
         /\ UNCHANGED vars
Next == Users \/ Quiet \/ \E x \in Stages : Sending(x) \/ Step(x)

Spec == Init /\ [][Next]_vars

(* The event loop runs every ready stage, and anyio gives a place that gets  *)
(* free in a mailbox to the sender that has waited longest.                  *)
FairSpec == /\ Spec
            /\ \A x \in Stages : SF_vars(Sending(x)) /\ WF_vars(Step(x))
            /\ \A s \in Subs : SF_vars(TellCancelled(s))

-----------------------------------------------------------------------------
(* Every variable has the type of the attribute it stands for, a mailbox     *)
(* never exceeds its size, and demand and in_flight never get negative.      *)
TypeOK ==
    /\ kind \in Kinds
    /\ at \in [Stages -> {"idle", "handling", "flushing", "producing", "passing",
                          "refilling", "stopped"}]
    /\ mailbox \in [Stages -> Seq(Message)]
    /\ \A x \in Stages : Len(mailbox[x]) <= MailboxSize
    /\ current \in [Stages -> Message] /\ outbox \in [Stages -> Seq(Message)]
    /\ producerSubs \in [Stages -> Seq(Subs)]
    /\ demand \in [Subs -> Nat] /\ inFlight \in [Subs -> Nat]
    /\ buffer \in [Stages -> Seq(Events)]
    /\ status \in [Subs -> {"new", "subscribed", "cancelling", "cancelled"}]
    /\ made \in 0..MaxEvents /\ got \in [Subs -> Seq(Events)]

(* What a subscription has on its way from one stage to another, oldest      *)
(* first: the events, and the demand.                                        *)
InHand(x)      == IF at[x] = "handling" THEN <<current[x]>> ELSE <<>>
Messages(x, y) == InHand(x) \o mailbox[x] \o outbox[y]
EventsFor(s, q) ==
    LET all[n \in 0..Len(q)] ==
            IF n = 0 THEN <<>>
            ELSE IF q[n].sub = s /\ q[n].type = "events" THEN all[n - 1] \o q[n].events
                                                        ELSE all[n - 1]
    IN  all[Len(q)]
OnTheWay(s) == EventsFor(s, Messages(Down[s], Up[s]))
Asks(s)     == [m \in Message |-> IF m.sub = s /\ m.type = "demand" THEN m.count ELSE 0]
AskedFor(s) == Sum(Messages(Up[s], Down[s]), Asks(s))

(* Demand is neither lost nor made up: what a consumer counts as in flight   *)
(* is what its producer owes it, the demand on its way there and the events  *)
(* on their way back.                                                        *)
DemandConserved ==
    \A s \in Subs :
        status[s] = "subscribed" /\ Alive(Up[s]) /\ Alive(Down[s])
            => inFlight[s] = demand[s] + AskedFor(s) + Len(OnTheWay(s))

(* Each stage in the middle has one producer: one with two mixes their       *)
(* events.                                                                   *)
Straight == \A s, t \in Subs : Down[s] = Down[t] /\ InTheMiddle(Down[s]) => s = t

(* A subscription brings events in the order they were made, none twice,     *)
(* whatever was buffered on the way: unless a stage in the middle broadcasts *)
(* and the subscriber that held the others back goes away.                   *)
Route(s)      == got[s] \o OnTheWay(s)
Increasing(q) == \A m, n \in DOMAIN q : m < n => q[m] < q[n]
Outgoing(x)   == {s \in Subs : Up[s] = x}
Overtakes(x)  == /\ kind = "broadcast" /\ InTheMiddle(x)
                 /\ \E s \in Outgoing(x) : status[s] \in {"cancelling", "cancelled"}
InOrder == (\A x \in Stages : ~Overtakes(x)) => \A s \in Subs : Increasing(Route(s))

(* As long as nothing is cancelled or stopped, every event a stage has to    *)
(* pass on is in its buffer or on the route of a subscription, and on that   *)
(* of one only unless events are broadcast.                                  *)
Disturbed == \/ \E s \in Subs : status[s] \in {"cancelling", "cancelled"}
             \/ \E x \in Stages : ~Alive(x)
Handed(x)   == UNION {ToSet(got[s]) : s \in {t \in Subs : Down[t] = x}}
InWork(x)   == IF at[x] = "passing" THEN ToSet(current[x].events) ELSE {}
Accepted(x) == IF x = Source THEN 1..made ELSE Handed(x) \ InWork(x)
EventsAccounted ==
    \A x \in {y \in Stages : y = Source \/ InTheMiddle(y)} :
        /\ ~Disturbed => Accepted(x) = ToSet(buffer[x]) \cup UNION {ToSet(Route(s)) : s \in Outgoing(x)}
        /\ kind # "broadcast" =>
             \A s \in Outgoing(x) :
                 /\ ToSet(Route(s)) \cap ToSet(buffer[x]) = {}
                 /\ \A t \in Outgoing(x) \ {s} : ToSet(Route(s)) \cap ToSet(Route(t)) = {}

(* A producer never makes events ahead of demand by more than the batch that *)
(* its handle_demand() returned.                                             *)
MadeOnDemand == kind # "partition" => Len(buffer[Source]) < MaxBatch

(* Every event is handled at the end of the pipeline once all stages have    *)
(* subscribed, unless something is cancelled or stopped; a partition that no *)
(* consumer has taken keeps its events in the buffer.                        *)
HasWay(e) == kind = "partition" =>
                 \A x \in {y \in Stages : y = Source \/ InTheMiddle(y)} :
                     \E s \in Outgoing(x) : Partition[s] = Hash[e]
EventsArrive ==
    \A e \in Events :
        (e <= made /\ HasWay(e) /\ \A s \in Subs : status[s] = "subscribed")
            ~> (Disturbed \/ \E s \in Subs : e \in ToSet(got[s]) /\ ~InTheMiddle(Down[s]))

-----------------------------------------------------------------------------
(* gen_stage.py:1, "backpressure-aware": a stage does not take more events   *)
(* from upstream than it asks for at a time while it cannot pass them on.    *)
Backpressure == \A s \in Subs : Len(buffer[Down[s]]) <= MaxDemand[s]

(* "Always flush the output buffer first (handles ProducerConsumer backlog)" *)
(* (gen_stage.py:317): no stage sends newer events before its backlog.       *)
BacklogFirst == \A s \in Subs : Increasing(Route(s))

=============================================================================

-------------------------------- MODULE Outbox --------------------------------
(***************************************************************************)
(* The transactional outbox and its workers: claim under a lease, handle   *)
(* outside any transaction, complete if the lease is still one's own.      *)
(* Workers crash and stall, handlers fail, time out after their effect was *)
(* committed, and poison events end up dead until an operator replays      *)
(* them.                                                                   *)
(*                                                                         *)
(* An event is <<a, n>>: the n-th id of aggregate a, ids being uuid7 values *)
(* compared by time.  Everything that emits for an order holds the order's *)
(* row, and takes ids as the rows are flushed, one statement or more after *)
(* the other: ids are in the order of emission (the hosts' clocks agree    *)
(* within the time of these statements).                                   *)
(***************************************************************************)
EXTENDS Integers, Functions

CONSTANTS Orders, Refunds,  \* the aggregates
          MaxEvents,        \* bound: events of all aggregates
          Workers,
          Failures,         \* classes of errors a handler may raise
          AttemptLimit,     \* 8 in the code
          ErrorLimit,       \* 3 in the code
          MaxStalls,        \* bound: how often a worker sleeps through its lease
          MaxCrashes,       \* bound: crashes of workers
          None

ASSUME LimitAssumption == /\ AttemptLimit \in Nat \ {0} /\ ErrorLimit \in Nat \ {0}
                          /\ MaxEvents \in Nat \ {0}
                          /\ MaxCrashes \in Nat /\ MaxStalls \in Nat
ASSUME AggregatesAssumption == Orders \cap Refunds = {}

VARIABLES event,    \* outbox_events
          last,     \* number of events of the aggregate
          effect,   \* audit receipts of the event, or settlements of the refund
          worker,   \* program counter and locals of each worker
          crashes, stalls

vars == <<event, last, effect, worker, crashes, stalls>>

-------------------------------------------------------------------------------
Aggregates == Orders \cup Refunds
Ids == (Orders \X (1..MaxEvents)) \cup (Refunds \X {1})
Kinds == {"receipt", "refund", "reconciliation"}
Error == Failures \cup {"NotImplementedError"}
\* due: next_attempt_at <= now.  lease: the worker whose claim is the newest; a
\* worker handles one event at a time, so it stands for the lease_token.
\* attempts is counted up to AttemptLimit only: nothing looks beyond.
OutboxEvent == [kind: Kinds, status: {"pending", "processing", "published", "dead"},
                attempts: 0..AttemptLimit, lease: Workers \cup {None}, due: BOOLEAN,
                lastError: Error \cup {None}, errors: 0..ErrorLimit]
ASSUME NoneAssumption == /\ None \notin Workers /\ None \notin Ids
                         /\ None \notin Error /\ None \notin OutboxEvent
Idle == [pc |-> "idle", event |-> None, error |-> None]
Worker == [pc: {"check", "effect", "complete"}, event: Ids, error: Error \cup {None}]

TypeOK ==
  /\ event \in [Ids -> {None} \cup OutboxEvent]
  /\ last \in [Aggregates -> 0..MaxEvents]
  /\ effect \in [Ids -> Nat]
  /\ worker \in [Workers -> {Idle} \cup Worker]
  /\ crashes \in 0..MaxCrashes /\ stalls \in 0..MaxStalls

Init == /\ event = [e \in Ids |-> None]
        /\ last = [a \in Aggregates |-> 0]
        /\ effect = [e \in Ids |-> 0]
        /\ worker = [w \in Workers |-> Idle]
        /\ crashes = 0 /\ stalls = 0

-------------------------------------------------------------------------------
(***************************************************************************)
(* emit                                                                    *)
(***************************************************************************)
New(kind) == [kind |-> kind, status |-> "pending", attempts |-> 0, lease |-> None,
              due |-> TRUE, lastError |-> None, errors |-> 0]
Room(a, n) == last[a] + n <= MaxEvents /\ SumFunction(last) + n <= MaxEvents
Cancelled(a) == \E n \in 1..last[a] : event[<<a, n>>].kind = "reconciliation"

\* OrderConfirmed, CheckoutExpired, PaymentFailed or OrderStatusChanged.
EmitOrderEvent(a) ==
  /\ a \in Orders /\ Room(a, 1) /\ ~Cancelled(a)
  /\ event' = [event EXCEPT ![<<a, last[a] + 1>>] = New("receipt")]
  /\ last' = [last EXCEPT ![a] = @ + 1]
  /\ UNCHANGED <<effect, worker, crashes, stalls>>

\* Slip: the reconciliation is emitted before the status is changed.
SlipReconciliationFirst(a) == LET n == last[a] + 1 IN
  /\ a \in Orders /\ Room(a, 2) /\ ~Cancelled(a)
  /\ event' = [event EXCEPT ![<<a, n>>] = New("reconciliation"),
                            ![<<a, n + 1>>] = New("receipt")]
  /\ last' = [last EXCEPT ![a] = n + 1]
  /\ UNCHANGED <<effect, worker, crashes, stalls>>
\* A cancellation emits OrderStatusChanged, which is flushed when release reads the
\* holds, and then CancellationReconciliationRequired, which is flushed at the commit.
\* It is the last thing that happens to an order.
EmitCancellation(a) == LET n == last[a] + 1 IN
  /\ a \in Orders /\ Room(a, 2) /\ ~Cancelled(a)
  /\ event' = [event EXCEPT ![<<a, n>>] = New("receipt"),
                            ![<<a, n + 1>>] = New("reconciliation")]
  /\ last' = [last EXCEPT ![a] = n + 1]
  /\ UNCHANGED <<effect, worker, crashes, stalls>>

\* RefundRequested, once per refund.
EmitRefund(a) ==
  /\ a \in Refunds /\ last[a] = 0 /\ Room(a, 1)
  /\ event' = [event EXCEPT ![<<a, 1>>] = New("refund")]
  /\ last' = [last EXCEPT ![a] = 1]
  /\ UNCHANGED <<effect, worker, crashes, stalls>>

-------------------------------------------------------------------------------
(***************************************************************************)
(* process_one                                                             *)
(***************************************************************************)
\* Slip: a dead event no longer blocks the later ones of its aggregate.
SlipDeadLetsPass(e) == \E n \in 1..e[2] - 1 :
                         event[<<e[1], n>>].status \in {"pending", "processing"}
Blocked(e) == \E n \in 1..e[2] - 1 : event[<<e[1], n>>].status # "published"

\* Slip: an event that is being processed is left to its worker for ever.
SlipNoTakeover(e) == event[e].status = "pending"
Claimable(e) == event[e].status \in {"pending", "processing"}

\* claim.  It takes the smallest id that no other worker has locked (SKIP
\* LOCKED): across aggregates, any.
Claim(w, e) ==
  /\ worker[w] = Idle /\ event[e] # None
  /\ Claimable(e) /\ event[e].due /\ ~Blocked(e)
  /\ event' = [event EXCEPT ![e].status = "processing", ![e].lease = w, ![e].due = FALSE,
                 ![e].attempts = IF @ < AttemptLimit THEN @ + 1 ELSE @]
  /\ worker' = [worker EXCEPT ![w] = [pc |-> "check", event |-> e, error |-> None]]
  /\ UNCHANGED <<last, effect, crashes, stalls>>

\* The handler returns, or raises `error`.
Return(w, error) == worker' = [worker EXCEPT ![w].pc = "complete", ![w].error = error]

\* Slip: the handler does not look whether it was done before.
SlipNeverDone(e) == FALSE
Done(e) == effect[e] > 0

\* Slip: an event nobody handles is acknowledged.
SlipAcknowledged(w) == Return(w, None)
\* No handler: the event needs an operator.
Unhandled(w) == Return(w, "NotImplementedError")

\* The handler reads in a first transaction whether its effect is there: the
\* receipt, or the refund's status "refunded".
Check(w) == LET e == worker[w].event IN
  /\ worker[w].pc = "check"
  /\ \/ event[e].kind = "reconciliation" /\ Unhandled(w)
     \/ event[e].kind # "reconciliation" /\ Done(e) /\ Return(w, None)
     \/ /\ event[e].kind # "reconciliation" /\ ~Done(e)
        /\ worker' = [worker EXCEPT ![w].pc = "effect"]
  /\ UNCHANGED <<event, last, effect, crashes, stalls>>

\* Slip: the refund is settled without looking again.
SlipSettledBlindly(e) == effect[e] + 1
\* The settlement looks again under the row locks of attempt and refund; the
\* receipt is inserted without a second look.
EffectAfter(e) == IF event[e].kind = "refund" /\ Done(e) THEN effect[e] ELSE effect[e] + 1

\* The second transaction commits; the time limit may still strike before the
\* handler has returned.
Apply(w) == LET e == worker[w].event IN
  /\ worker[w].pc = "effect"
  /\ effect' = [effect EXCEPT ![e] = EffectAfter(e)]
  /\ \E error \in Failures \cup {None} : Return(w, error)
  /\ UNCHANGED <<event, last, crashes, stalls>>

\* The provider, the database or the time limit fails the handler.
HandlerFails(w, error) ==
  /\ worker[w].pc \in {"check", "effect"}
  /\ Return(w, error)
  /\ UNCHANGED <<event, last, effect, crashes, stalls>>

\* Slip: whoever finishes decides.
SlipAnyLease(w) == TRUE
OwnLease(w) == event[worker[w].event].lease = w

GivenUp(attempts, errors) == attempts >= AttemptLimit \/ errors >= ErrorLimit

\* The event as the failed handling leaves it.
Failed(v, error) ==
  LET errors == IF v.lastError = error THEN v.errors + 1 ELSE 1 IN
  [v EXCEPT !.status = IF GivenUp(v.attempts, errors) THEN "dead" ELSE "pending",
            !.errors = errors, !.lastError = error, !.due = FALSE]

\* The last transaction of process_one: nothing, if the lease went to another.
Complete(w) == LET e == worker[w].event  error == worker[w].error IN
  /\ worker[w].pc = "complete"
  /\ event' = IF ~OwnLease(w) THEN event
              ELSE IF error = None THEN [event EXCEPT ![e].status = "published"]
              ELSE [event EXCEPT ![e] = Failed(event[e], error)]
  /\ worker' = [worker EXCEPT ![w] = Idle]
  /\ UNCHANGED <<last, effect, crashes, stalls>>

\* The worker process dies; a new one takes its place.
Crash(w) ==
  /\ worker[w] # Idle /\ crashes < MaxCrashes
  /\ worker' = [worker EXCEPT ![w] = Idle]
  /\ crashes' = crashes + 1
  /\ UNCHANGED <<event, last, effect, stalls>>

-------------------------------------------------------------------------------
\* next_attempt_at passes: the back-off, or the lease of a worker that died.
\* A handler is cut off at half its lease, so only a worker that stalls can be
\* overtaken.
Handling(w, e) == worker[w].event = e
Handled(e) == \E w \in Workers : Handling(w, e)
Pass(e) ==
  /\ event[e] # None /\ ~event[e].due
  /\ event[e].status \in {"pending", "processing"}
  /\ event' = [event EXCEPT ![e].due = TRUE]
  /\ \/ ~Handled(e) /\ UNCHANGED stalls
     \/ Handled(e) /\ stalls < MaxStalls /\ stalls' = stalls + 1
  /\ UNCHANGED <<last, effect, worker, crashes>>

\* replay_event: an operator revives a dead event.
Replay(e) ==
  /\ event[e] # None /\ event[e].status = "dead"
  /\ event' = [event EXCEPT ![e] = New(event[e].kind)]
  /\ UNCHANGED <<last, effect, worker, crashes, stalls>>

Handle(w) == Check(w) \/ Apply(w) \/ Complete(w)

Next ==
  \/ \E a \in Aggregates : EmitOrderEvent(a) \/ EmitCancellation(a) \/ EmitRefund(a)
  \/ \E w \in Workers, e \in Ids : Claim(w, e)
  \/ \E w \in Workers : Check(w) \/ Apply(w) \/ Complete(w) \/ Crash(w)
  \/ \E w \in Workers, error \in Failures : HandlerFails(w, error)
  \/ \E e \in Ids : Pass(e) \/ Replay(e)

\* A worker polls for ever and finishes what it claims; time passes; and an
\* event that is claimable again and again is claimed: ids are taken in order
\* and the ones before it are published, given up or put off.
Fairness == /\ \A w \in Workers : WF_vars(Handle(w))
            /\ \A e \in Ids : WF_vars(Pass(e)) /\ SF_vars(\E w \in Workers : Claim(w, e))
Spec == Init /\ [][Next]_vars /\ Fairness

-------------------------------------------------------------------------------
(***************************************************************************)
(* Properties                                                              *)
(***************************************************************************)
Emitted == {e \in Ids : event[e] # None}

\* An acknowledged event was handled, whoever acknowledged it: a published
\* receipt or refund has had its effect, and no reconciliation event is
\* acknowledged without an operator.
PublishedMeansDone == \A e \in Emitted : event[e].status = "published" =>
  event[e].kind # "reconciliation" /\ effect[e] > 0

\* Effects of one aggregate take place in the order of its ids, stalled and
\* restarted workers included.
EffectsInOrder == \A e \in Emitted : effect[e] > 0 =>
  \A n \in 1..e[2] - 1 : event[<<e[1], n>>].status = "published"

\* A refund is settled at most once, although two workers may hold it and ask
\* the provider for it.
RefundSettledOnce == \A e \in Emitted : event[e].kind = "refund" => effect[e] <= 1

\* As long as no worker slept through its lease, two workers never handle one
\* event and it leaves at most one receipt.
OneHandlerAtATime == stalls = 0 =>
  /\ \A e \in Emitted : effect[e] <= 1
  /\ \A v, w \in Workers, e \in Ids : Handling(v, e) /\ Handling(w, e) => v = w

\* Only the worker with the newest claim settles an event: a late one changes
\* nothing, an event is given up only after the limit, and published is final.
VerdictsAreFinal == [][\A e \in Emitted :
  /\ event[e].status = "published" => event'[e] = event[e]
  /\ event'[e].status # event[e].status /\ event[e].status = "processing" =>
       /\ \E w \in Workers : event[e].lease = w /\ worker[w].event = e
       /\ event'[e].status = "dead" => GivenUp(event'[e].attempts, event'[e].errors)]_vars

\* Nothing is lost or retried for ever: an event is published, or given up, or
\* waits behind one whose handler failed.  None waits behind the event of a
\* cancellation that has no handler, though this one is always given up.
GaveUp(e) == event[e] # None /\ event[e].status = "dead"
EveryEventSettles == \A e \in Ids :
  event[e] # None ~> \/ event[e] # None /\ event[e].status = "published"
                     \/ GaveUp(e)
                     \/ \E n \in 1..e[2] - 1 : /\ GaveUp(<<e[1], n>>)
                                              /\ event[<<e[1], n>>].kind # "reconciliation"
===============================================================================

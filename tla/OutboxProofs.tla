----------------------------- MODULE OutboxProofs -----------------------------
(***************************************************************************)
(* Delivery by the outbox for every number of aggregates, events, workers, *)
(* crashes and stalls: no acknowledgement without an effect, effects in    *)
(* the order of the ids, one settlement per refund, and verdicts only by   *)
(* the newest claim.                                                       *)
(***************************************************************************)
EXTENDS Outbox, TLAPS

\* The events of an aggregate are its first ids.
Filled == \A e \in Ids : event[e] # None <=> e[2] <= last[e[1]]

\* What the state of an event says of its effect.
EventOk(e) ==
  /\ event[e] = None => effect[e] = 0
  /\ event[e] # None =>
       /\ event[e].status = "published" => event[e].kind # "reconciliation" /\ effect[e] > 0
       /\ event[e].status \in {"pending", "processing"} => event[e].errors < ErrorLimit
       /\ event[e].kind = "refund" => effect[e] <= 1
       /\ effect[e] > 0 => event[e].kind # "reconciliation" /\ ~Blocked(e)

\* A worker holds an event whose predecessors are published, and one whose
\* lease it still has is being processed.
WorkerOk(w) == LET e == worker[w].event IN
  worker[w] # Idle =>
    /\ event[e] # None /\ ~Blocked(e)
    /\ worker[w].pc = "effect" => event[e].kind # "reconciliation"
    /\ worker[w].pc = "complete" /\ worker[w].error = None =>
         event[e].kind # "reconciliation" /\ effect[e] > 0
    /\ event[e].lease = w => event[e].status = "processing"

\* Without stalls a worker has the lease of its event until it is done.
SoloOk(w) == LET e == worker[w].event IN
  worker[w] # Idle =>
    /\ event[e].status = "processing" /\ event[e].lease = w /\ ~event[e].due
    /\ worker[w].pc = "effect" => effect[e] = 0
Solo == stalls = 0 => (\A e \in Ids : effect[e] <= 1) /\ \A w \in Workers : SoloOk(w)

OInv == /\ TypeOK /\ Filled
        /\ \A e \in Ids : EventOk(e)
        /\ \A w \in Workers : WorkerOk(w)
        /\ Solo

-------------------------------------------------------------------------------
LEMMA OInvInit == Init => OInv
<1>. SUFFICES ASSUME Init PROVE OInv  OBVIOUS
<1>1. TypeOK  BY LimitAssumption DEF Init, TypeOK
<1>2. Filled
  <2>1. ASSUME NEW e \in Ids PROVE e[1] \in Aggregates /\ e[2] \in Nat \ {0}
    BY LimitAssumption DEF Ids, Aggregates
  <2>. QED  BY <2>1 DEF Init, Filled
<1>. QED  BY <1>1, <1>2 DEF Init, OInv, EventOk, WorkerOk, Solo, SoloOk

\* The earlier ids of an aggregate.
LEMMA Predecessors ==
  ASSUME NEW e \in Ids, NEW n \in 1..e[2] - 1
  PROVE  /\ <<e[1], n>> \in Ids /\ <<e[1], n>>[1] = e[1] /\ <<e[1], n>>[2] = n
         /\ n < e[2] /\ e[1] \in Orders
BY LimitAssumption DEF Ids

LEMMA IdParts ==
  ASSUME NEW e \in Ids
  PROVE  e[1] \in Aggregates /\ e[2] \in 1..MaxEvents /\ e = <<e[1], e[2]>>
BY LimitAssumption DEF Ids, Aggregates

\* An event that nothing blocks stays so while published events stay published.
LEMMA ReachKept ==
  ASSUME OInv, NEW e \in Ids, event[e] # None, ~Blocked(e),
         \A d \in Ids : event[d] # None /\ event[d].status = "published"
                          => event'[d].status = "published"
  PROVE  ~Blocked(e)'
<1>1. ASSUME NEW n \in 1..e[2] - 1 PROVE event'[<<e[1], n>>].status = "published"
  <2>1. <<e[1], n>> \in Ids /\ event[<<e[1], n>>].status = "published"
    BY Predecessors DEF Blocked
  <2>2. n <= last[e[1]]
    <3>1. e[2] <= last[e[1]]  BY DEF OInv, Filled
    <3>2. last[e[1]] \in Int /\ e[2] \in Int  BY IdParts, LimitAssumption DEF OInv, TypeOK
    <3>. QED  BY <3>1, <3>2, Predecessors
  <2>3. event[<<e[1], n>>] # None  BY <2>1, <2>2, Predecessors DEF OInv, Filled
  <2>. QED  BY <2>1, <2>3
<1>. QED  BY <1>1 DEF Blocked

\* New events of one aggregate.
LEMMA EmitKeeps ==
  ASSUME OInv, NEW a \in Aggregates, NEW m \in 0..MaxEvents,
         last' = [last EXCEPT ![a] = m],
         event' \in [Ids -> {None} \cup OutboxEvent],
         Filled',
         \A d \in Ids : event[d] # None => event'[d] = event[d],
         \A d \in Ids : event[d] = None /\ event'[d] # None =>
           event'[d].status = "pending" /\ event'[d].errors = 0,
         UNCHANGED <<effect, worker, crashes, stalls>>
  PROVE  OInv'
<1>1. TypeOK'  BY DEF OInv, TypeOK
<1>2. ASSUME NEW e \in Ids, event[e] # None, ~Blocked(e) PROVE ~Blocked(e)'
  BY <1>2, ReachKept
<1>3. ASSUME NEW e \in Ids PROVE EventOk(e)'
  BY <1>2, LimitAssumption DEF OInv, EventOk
<1>4. ASSUME NEW w \in Workers PROVE WorkerOk(w)' /\ (stalls = 0 => SoloOk(w)')
  <2>1. CASE worker[w] = Idle  BY <2>1 DEF WorkerOk, SoloOk
  <2>2. CASE worker[w] # Idle
    <3>1. worker[w].event \in Ids  BY <2>2 DEF OInv, TypeOK, Worker
    <3>2. WorkerOk(w) /\ (stalls = 0 => SoloOk(w))  BY DEF OInv, Solo
    <3>. QED  BY <1>2, <2>2, <3>1, <3>2 DEF WorkerOk, SoloOk
  <2>. QED  BY <2>1, <2>2
<1>. QED  BY <1>1, <1>3, <1>4 DEF OInv, Solo

LEMMA NewOk ==
  ASSUME NEW kind \in Kinds
  PROVE  /\ New(kind) \in OutboxEvent /\ New(kind) # None /\ New(kind).status = "pending"
         /\ New(kind).errors = 0 /\ New(kind).kind = kind /\ New(kind).lease = None
<1>1. 0 \in 0..AttemptLimit /\ 0 \in 0..ErrorLimit  BY LimitAssumption
<1>2. New(kind) \in OutboxEvent  BY <1>1 DEF New, OutboxEvent
<1>3. New(kind) # None  BY <1>2, NoneAssumption
<1>. QED  BY <1>2, <1>3 DEF New

LEMMA EmitOneKeeps ==
  ASSUME OInv, NEW a \in Aggregates, EmitOrderEvent(a) \/ EmitRefund(a)
  PROVE  OInv'
<1>1. PICK kind \in Kinds :
        event' = [event EXCEPT ![<<a, last[a] + 1>>] = New(kind)]
  BY DEF EmitOrderEvent, EmitRefund, Kinds
<1>2. DEFINE new == <<a, last[a] + 1>>
<1>3. /\ last[a] \in Nat /\ last[a] + 1 \in 0..MaxEvents /\ new \in Ids
      /\ last' = [last EXCEPT ![a] = last[a] + 1]
  BY LimitAssumption DEF EmitOrderEvent, EmitRefund, Room, Ids, OInv, TypeOK
<1>4. new[1] = a /\ new[2] = last[a] + 1  OBVIOUS
<1>5. event[new] = None  BY <1>3, <1>4 DEF OInv, Filled
<1>6. /\ event' \in [Ids -> {None} \cup OutboxEvent] /\ event'[new] = New(kind)
      /\ \A d \in Ids \ {new} : event'[d] = event[d]
  BY <1>1, <1>3, NewOk DEF OInv, TypeOK
<1>7. \A d \in Ids : event[d] # None => event'[d] = event[d]  BY <1>5, <1>6
<1>8. Filled'
  <2>1. ASSUME NEW e \in Ids PROVE event'[e] # None <=> e[2] <= last'[e[1]]
    <3>1. e[1] \in Aggregates /\ e[2] \in 1..MaxEvents /\ e = <<e[1], e[2]>>  BY IdParts
    <3>2. event[e] # None <=> e[2] <= last[e[1]]  BY DEF OInv, Filled
    <3>3. CASE e = new  BY <1>3, <1>4, <1>6, <3>3, NewOk DEF OInv, TypeOK
    <3>4. CASE e # new
      <4>1. event'[e] = event[e]  BY <1>6, <3>4
      <4>2. e[1] = a => e[2] # last[a] + 1  BY <3>1, <3>4
      <4>3. last'[e[1]] = IF e[1] = a THEN last[a] + 1 ELSE last[e[1]]
        BY <1>3, <3>1 DEF OInv, TypeOK
      <4>. QED  BY <1>3, <3>1, <3>2, <4>1, <4>2, <4>3, LimitAssumption
    <3>. QED  BY <3>3, <3>4
  <2>. QED  BY <2>1 DEF Filled
<1>9. UNCHANGED <<effect, worker, crashes, stalls>>  BY DEF EmitOrderEvent, EmitRefund
<1>10. \A d \in Ids : event[d] = None /\ event'[d] # None =>
         event'[d].status = "pending" /\ event'[d].errors = 0
  BY <1>6, NewOk
<1>. QED  BY <1>3, <1>6, <1>7, <1>8, <1>9, <1>10, EmitKeeps

LEMMA EmitTwoKeeps ==
  ASSUME OInv, NEW a \in Aggregates, EmitCancellation(a)
  PROVE  OInv'
<1>1. DEFINE n == last[a] + 1
<1>2. event' = [event EXCEPT ![<<a, n>>] = New("receipt"),
                             ![<<a, n + 1>>] = New("reconciliation")]
  BY DEF EmitCancellation
<1>3. /\ a \in Orders /\ last[a] \in Nat /\ n + 1 \in 0..MaxEvents
      /\ last' = [last EXCEPT ![a] = n + 1]
  BY LimitAssumption DEF EmitCancellation, Room, OInv, TypeOK
<1>4. <<a, n>> \in Ids /\ <<a, n + 1>> \in Ids
  BY <1>3, LimitAssumption DEF Ids
<1>5. /\ New("receipt") \in OutboxEvent /\ New("reconciliation") \in OutboxEvent
      /\ New("receipt") # None /\ New("reconciliation") # None
  BY NewOk DEF Kinds
<1>6. DEFINE both == {<<a, n>>, <<a, n + 1>>}
<1>7. both \subseteq Ids  BY <1>4
<1>8. event' \in [Ids -> {None} \cup OutboxEvent]
  BY <1>2, <1>5, <1>7 DEF OInv, TypeOK
<1>9. /\ \A d \in both : event'[d] \in {New("receipt"), New("reconciliation")}
      /\ \A d \in Ids \ both : event'[d] = event[d]
  BY <1>2, <1>7 DEF OInv, TypeOK
<1>10. \A d \in both : event[d] = None
  <2>1. event[<<a, n>>] = None  BY <1>3, <1>4 DEF OInv, Filled
  <2>2. event[<<a, n + 1>>] = None  BY <1>3, <1>4 DEF OInv, Filled
  <2>. QED  BY <2>1, <2>2
<1>11. \A d \in Ids : event[d] # None => event'[d] = event[d]  BY <1>9, <1>10
<1>12. Filled'
  <2>1. ASSUME NEW e \in Ids PROVE event'[e] # None <=> e[2] <= last'[e[1]]
    <3>1. e[1] \in Aggregates /\ e[2] \in 1..MaxEvents /\ e = <<e[1], e[2]>>  BY IdParts
    <3>2. event[e] # None <=> e[2] <= last[e[1]]  BY DEF OInv, Filled
    <3>3. last'[e[1]] = IF e[1] = a THEN n + 1 ELSE last[e[1]]
      BY <1>3, <3>1 DEF OInv, TypeOK
    <3>4. CASE e \in both
      <4>1. e[1] = a /\ (e[2] = n \/ e[2] = n + 1)  BY <3>4
      <4>2. event'[e] # None  BY <1>5, <1>9, <3>4
      <4>. QED  BY <1>3, <3>3, <4>1, <4>2
    <3>5. CASE e \notin both
      <4>1. event'[e] = event[e]  BY <1>9, <3>5
      <4>2. e[1] = a => e[2] # n /\ e[2] # n + 1  BY <3>1, <3>5
      <4>. QED  BY <1>3, <3>1, <3>2, <3>3, <4>1, <4>2, LimitAssumption
    <3>. QED  BY <3>4, <3>5
  <2>. QED  BY <2>1 DEF Filled
<1>13. UNCHANGED <<effect, worker, crashes, stalls>>  BY DEF EmitCancellation
<1>14. \A d \in Ids : event[d] = None /\ event'[d] # None =>
         event'[d].status = "pending" /\ event'[d].errors = 0
  BY <1>9, NewOk DEF Kinds
<1>. QED  BY <1>3, <1>8, <1>11, <1>12, <1>13, <1>14, EmitKeeps

-------------------------------------------------------------------------------
\* A worker moves on with its event, and nothing else changes.
LEMMA WorkerMoves ==
  ASSUME OInv, NEW w \in Workers, NEW row \in {Idle} \cup Worker,
         worker' = [worker EXCEPT ![w] = row],
         row # Idle => worker[w] # Idle /\ row.event = worker[w].event,
         row # Idle /\ row.pc = "effect" =>
           event[row.event].kind # "reconciliation" /\ (stalls = 0 => effect[row.event] = 0),
         row # Idle /\ row.pc = "complete" /\ row.error = None =>
           event[row.event].kind # "reconciliation" /\ effect[row.event] > 0,
         UNCHANGED <<event, last, effect, stalls>>, crashes' \in 0..MaxCrashes
  PROVE  OInv'
<1>1. TypeOK' /\ worker'[w] = row  BY DEF OInv, TypeOK
<1>2. Filled' /\ \A e \in Ids : EventOk(e)' /\ Blocked(e)' = Blocked(e)
  BY DEF OInv, Filled, EventOk, Blocked
<1>3. WorkerOk(w)' /\ (stalls = 0 => SoloOk(w)')
  BY <1>1 DEF OInv, WorkerOk, Solo, SoloOk, Blocked
<1>4. ASSUME NEW v \in Workers, v # w PROVE WorkerOk(v)' /\ (stalls = 0 => SoloOk(v)')
  <2>1. worker'[v] = worker[v]  BY <1>4 DEF OInv, TypeOK
  <2>. QED  BY <2>1 DEF OInv, WorkerOk, Solo, SoloOk, Blocked
<1>. QED  BY <1>1, <1>2, <1>3, <1>4 DEF OInv, Solo

LEMMA IdleOk == Idle.pc = "idle" /\ Idle.event = None /\ Idle \notin Worker
BY DEF Idle, Worker

LEMMA AtWork ==
  ASSUME OInv, NEW w \in Workers, worker[w].pc # "idle" \/ worker[w] # Idle
  PROVE  /\ worker[w] \in Worker /\ worker[w] # Idle /\ worker[w].event \in Ids
         /\ event[worker[w].event] \in OutboxEvent /\ WorkerOk(w)
<1>1. worker[w] \in Worker /\ worker[w] # Idle  BY IdleOk DEF OInv, TypeOK
<1>2. worker[w].event \in Ids /\ WorkerOk(w)  BY <1>1 DEF OInv, Worker
<1>. QED  BY <1>1, <1>2 DEF OInv, TypeOK, WorkerOk

LEMMA CheckKeeps ==
  ASSUME OInv, NEW w \in Workers, Check(w)
  PROVE  OInv'
<1>1. worker[w] \in Worker /\ worker[w] # Idle /\ worker[w].event \in Ids
  BY AtWork DEF Check
<1>2. /\ UNCHANGED <<event, last, effect, crashes, stalls>> /\ crashes \in 0..MaxCrashes
  BY DEF Check, OInv, TypeOK
<1>3. effect[worker[w].event] \in Nat  BY <1>1 DEF OInv, TypeOK
<1>4. ASSUME NEW error \in Error \cup {None}, Return(w, error),
             error = None => /\ event[worker[w].event].kind # "reconciliation"
                             /\ effect[worker[w].event] > 0
      PROVE  OInv'
  <2>1. DEFINE row == [worker[w] EXCEPT !.pc = "complete", !.error = error]
  <2>2. /\ row \in Worker /\ row.event = worker[w].event /\ row.pc = "complete"
        /\ row.error = error
    BY <1>1 DEF Worker
  <2>3. worker' = [worker EXCEPT ![w] = row]  BY <1>4 DEF Return
  <2>. QED  BY <1>1, <1>2, <1>4, <2>2, <2>3, WorkerMoves
<1>5. CASE event[worker[w].event].kind = "reconciliation" /\ Unhandled(w)
  BY <1>4, <1>5, NoneAssumption DEF Unhandled, Error
<1>6. CASE /\ event[worker[w].event].kind # "reconciliation" /\ Done(worker[w].event)
           /\ Return(w, None)
  BY <1>4, <1>6 DEF Done
<1>7. CASE /\ event[worker[w].event].kind # "reconciliation" /\ ~Done(worker[w].event)
           /\ worker' = [worker EXCEPT ![w].pc = "effect"]
  <2>1. DEFINE row == [worker[w] EXCEPT !.pc = "effect"]
  <2>2. row \in Worker /\ row.event = worker[w].event /\ row.pc = "effect"
    BY <1>1 DEF Worker
  <2>3. worker' = [worker EXCEPT ![w] = row]  BY <1>7
  <2>4. effect[worker[w].event] = 0  BY <1>3, <1>7 DEF Done
  <2>. QED  BY <1>1, <1>2, <1>7, <2>2, <2>3, <2>4, WorkerMoves
<1>. QED  BY <1>5, <1>6, <1>7 DEF Check

LEMMA FailsKeeps ==
  ASSUME OInv, NEW w \in Workers, Crash(w) \/ \E error \in Failures : HandlerFails(w, error)
  PROVE  OInv'
<1>1. UNCHANGED <<event, last, effect, stalls>>  BY DEF Crash, HandlerFails
<1>2. CASE Crash(w)
  <2>1. crashes' \in 0..MaxCrashes  BY <1>2, LimitAssumption DEF Crash, OInv, TypeOK
  <2>2. worker' = [worker EXCEPT ![w] = Idle]  BY <1>2 DEF Crash
  <2>. QED  BY <1>1, <2>1, <2>2, WorkerMoves
<1>3. CASE \E error \in Failures : HandlerFails(w, error)
  <2>1. PICK error \in Failures : HandlerFails(w, error)  BY <1>3
  <2>2. worker[w] \in Worker /\ worker[w] # Idle  BY <2>1, AtWork DEF HandlerFails
  <2>3. DEFINE row == [worker[w] EXCEPT !.pc = "complete", !.error = error]
  <2>4. error \in Error /\ error # None  BY NoneAssumption DEF Error
  <2>5. /\ row \in Worker /\ row.event = worker[w].event /\ row.pc = "complete"
        /\ row.error = error
    BY <2>2, <2>4 DEF Worker
  <2>6. worker' = [worker EXCEPT ![w] = row] /\ crashes' \in 0..MaxCrashes
    BY <2>1 DEF HandlerFails, Return, OInv, TypeOK
  <2>. QED  BY <1>1, <2>2, <2>4, <2>5, <2>6, WorkerMoves
<1>. QED  BY <1>2, <1>3

\* The newest claim.
LEMMA ClaimKeeps ==
  ASSUME OInv, NEW w \in Workers, NEW e \in Ids, Claim(w, e)
  PROVE  OInv'
<1>1. DEFINE row == [event[e] EXCEPT !.status = "processing", !.lease = w, !.due = FALSE,
                       !.attempts = IF event[e].attempts < AttemptLimit
                                    THEN event[e].attempts + 1 ELSE event[e].attempts]
             hand == [pc |-> "check", event |-> e, error |-> None]
<1>2. /\ worker[w] = Idle /\ event[e] \in OutboxEvent /\ event[e] # None
      /\ event[e].status \in {"pending", "processing"} /\ event[e].due /\ ~Blocked(e)
  BY DEF Claim, Claimable, OInv, TypeOK
<1>3. /\ event' = [event EXCEPT ![e] = row] /\ worker' = [worker EXCEPT ![w] = hand]
      /\ UNCHANGED <<last, effect, crashes, stalls>>
  BY DEF Claim
<1>4. /\ row \in OutboxEvent /\ row.status = "processing" /\ row.lease = w /\ row.due = FALSE
      /\ row.kind = event[e].kind /\ row.errors = event[e].errors
  <2>1. (IF event[e].attempts < AttemptLimit THEN event[e].attempts + 1 ELSE event[e].attempts)
          \in 0..AttemptLimit
    BY <1>2, LimitAssumption DEF OutboxEvent
  <2>. QED  BY <1>2, <2>1 DEF OutboxEvent
<1>. HIDE DEF row
<1>5. row # None /\ hand \in Worker /\ hand # Idle  BY <1>4, NoneAssumption DEF Worker, Idle
<1>6. /\ event'[e] = row /\ \A d \in Ids \ {e} : event'[d] = event[d]
      /\ worker'[w] = hand /\ \A v \in Workers \ {w} : worker'[v] = worker[v]
  BY <1>3 DEF OInv, TypeOK
<1>7. TypeOK'  BY <1>3, <1>4, <1>5 DEF OInv, TypeOK
<1>8. Filled'  BY <1>2, <1>3, <1>5, <1>6 DEF OInv, Filled
<1>9. ASSUME NEW d \in Ids, event[d] # None, ~Blocked(d) PROVE ~Blocked(d)'
  <2>1. \A c \in Ids : event[c] # None /\ event[c].status = "published"
                         => event'[c].status = "published"
    BY <1>2, <1>6
  <2>. QED  BY <1>9, <2>1, ReachKept
<1>10. ASSUME NEW d \in Ids PROVE EventOk(d)'
  <2>1. EventOk(d)  BY DEF OInv
  <2>2. CASE d = e  BY <1>2, <1>3, <1>4, <1>5, <1>6, <1>9, <2>1, <2>2 DEF EventOk
  <2>3. CASE d # e  BY <1>3, <1>6, <1>9, <2>1, <2>3 DEF EventOk
  <2>. QED  BY <2>2, <2>3
<1>11. ASSUME NEW v \in Workers PROVE WorkerOk(v)'
  <2>1. CASE v = w
    <3>1. worker'[v].event = e /\ worker'[v].pc = "check"  BY <1>6, <2>1
    <3>. QED  BY <1>2, <1>4, <1>5, <1>6, <1>9, <2>1, <3>1 DEF WorkerOk
  <2>2. CASE v # w /\ worker[v] # Idle
    <3>1. WorkerOk(v) /\ worker[v].event \in Ids /\ worker'[v] = worker[v]
      BY <1>6, <2>2, AtWork
    <3>. QED  BY <1>3, <1>4, <1>5, <1>6, <1>9, <2>2, <3>1 DEF WorkerOk
  <2>3. CASE v # w /\ worker[v] = Idle  BY <1>6, <2>3 DEF WorkerOk
  <2>. QED  BY <2>1, <2>2, <2>3
<1>12. ASSUME NEW v \in Workers, stalls = 0 PROVE SoloOk(v)'
  <2>1. CASE v = w
    <3>1. worker'[v].event = e /\ worker'[v].pc = "check"  BY <1>6, <2>1
    <3>. QED  BY <1>4, <1>6, <2>1, <3>1 DEF SoloOk
  <2>2. CASE v # w /\ worker[v] # Idle
    <3>1. SoloOk(v) /\ worker[v].event \in Ids /\ worker'[v] = worker[v]
      BY <1>6, <1>12, <2>2, AtWork DEF OInv, Solo
    <3>2. worker[v].event # e  BY <1>2, <2>2, <3>1 DEF SoloOk
    <3>. QED  BY <1>3, <1>6, <2>2, <3>1, <3>2 DEF SoloOk
  <2>3. CASE v # w /\ worker[v] = Idle  BY <1>6, <2>3 DEF SoloOk
  <2>. QED  BY <2>1, <2>2, <2>3
<1>. QED  BY <1>3, <1>7, <1>8, <1>10, <1>11, <1>12 DEF OInv, Solo

\* The effect of an event.
LEMMA ApplyKeeps ==
  ASSUME OInv, NEW w \in Workers, Apply(w)
  PROVE  OInv'
<1>1. DEFINE e == worker[w].event
<1>2. PICK error \in Failures \cup {None} : Return(w, error)  BY DEF Apply
<1>3. DEFINE row == [worker[w] EXCEPT !.pc = "complete", !.error = error]
<1>4. /\ worker[w] \in Worker /\ worker[w] # Idle /\ e \in Ids /\ worker[w].pc = "effect"
      /\ event[e] # None /\ ~Blocked(e) /\ event[e].kind # "reconciliation"
      /\ event[e].lease = w => event[e].status = "processing"
  BY AtWork DEF Apply, WorkerOk
<1>5. /\ row \in Worker /\ row.event = e /\ row.pc = "complete" /\ row # Idle
  BY <1>4, IdleOk DEF Worker, Error
<1>6. /\ worker' = [worker EXCEPT ![w] = row]
      /\ effect' = [effect EXCEPT ![e] = EffectAfter(e)]
      /\ UNCHANGED <<event, last, crashes, stalls>>
  BY <1>2 DEF Apply, Return
<1>. HIDE DEF row
<1>7. /\ effect[e] \in Nat /\ EffectAfter(e) \in Nat /\ EffectAfter(e) > 0
      /\ event[e].kind = "refund" => EffectAfter(e) <= 1
      /\ EffectAfter(e) <= effect[e] + 1
  BY <1>4 DEF EffectAfter, Done, OInv, TypeOK, EventOk
<1>8. /\ effect'[e] = EffectAfter(e) /\ \A d \in Ids \ {e} : effect'[d] = effect[d]
      /\ worker'[w] = row /\ \A v \in Workers \ {w} : worker'[v] = worker[v]
  BY <1>4, <1>6 DEF OInv, TypeOK
<1>9. TypeOK'  BY <1>5, <1>6, <1>7 DEF OInv, TypeOK
<1>10. Filled' /\ \A d \in Ids : Blocked(d)' = Blocked(d)  BY <1>6 DEF OInv, Filled, Blocked
<1>11. ASSUME NEW d \in Ids PROVE EventOk(d)'
  <2>1. EventOk(d)  BY DEF OInv
  <2>2. CASE d = e  BY <1>4, <1>6, <1>7, <1>8, <1>10, <2>1, <2>2 DEF EventOk
  <2>3. CASE d # e  BY <1>6, <1>8, <1>10, <2>1, <2>3 DEF EventOk
  <2>. QED  BY <2>2, <2>3
<1>12. ASSUME NEW v \in Workers PROVE WorkerOk(v)'
  <2>1. CASE v = w  BY <1>4, <1>5, <1>6, <1>7, <1>8, <1>10, <2>1 DEF WorkerOk
  <2>2. CASE v # w /\ worker[v] # Idle
    <3>1. WorkerOk(v) /\ worker[v].event \in Ids /\ worker'[v] = worker[v]
      BY <1>8, <2>2, AtWork
    <3>2. effect[worker[v].event] > 0 => effect'[worker[v].event] > 0  BY <1>7, <1>8, <3>1
    <3>. QED  BY <1>6, <1>10, <2>2, <3>1, <3>2 DEF WorkerOk
  <2>3. CASE v # w /\ worker[v] = Idle  BY <1>8, <2>3 DEF WorkerOk
  <2>. QED  BY <2>1, <2>2, <2>3
<1>13. ASSUME stalls = 0 PROVE (\A d \in Ids : effect'[d] <= 1) /\ \A v \in Workers : SoloOk(v)'
  <2>1. SoloOk(w) /\ effect[e] = 0  BY <1>4, <1>13 DEF OInv, Solo, SoloOk
  <2>2. \A d \in Ids : effect'[d] <= 1  BY <1>7, <1>8, <1>13, <2>1 DEF OInv, Solo
  <2>3. ASSUME NEW v \in Workers PROVE SoloOk(v)'
    <3>1. SoloOk(v)  BY <1>13 DEF OInv, Solo
    <3>2. CASE v = w  BY <1>4, <1>5, <1>6, <1>8, <2>1, <3>2 DEF SoloOk
    <3>3. CASE v # w /\ worker[v] # Idle
      <4>1. worker[v].event \in Ids /\ worker'[v] = worker[v]  BY <1>8, <3>3, AtWork
      <4>2. worker[v].event # e  BY <1>4, <2>1, <3>1, <3>3 DEF SoloOk
      <4>. QED  BY <1>6, <1>8, <3>1, <3>3, <4>1, <4>2 DEF SoloOk
    <3>4. CASE v # w /\ worker[v] = Idle  BY <1>8, <3>4 DEF SoloOk
    <3>. QED  BY <3>2, <3>3, <3>4
  <2>. QED  BY <2>2, <2>3
<1>. QED  BY <1>6, <1>9, <1>10, <1>11, <1>12, <1>13 DEF OInv, Solo

\* One event changes; workers stay or put theirs down.
LEMMA EventChanges ==
  ASSUME OInv, NEW e \in Ids, NEW row \in OutboxEvent,
         event' = [event EXCEPT ![e] = row], event[e] # None, row.kind = event[e].kind,
         event[e].status # "published",
         row.status = "published" => event[e].kind # "reconciliation" /\ effect[e] > 0,
         row.status \in {"pending", "processing"} => row.errors < ErrorLimit,
         worker' \in [Workers -> {Idle} \cup Worker],
         \A v \in Workers : worker'[v] \in {worker[v], Idle},
         \A v \in Workers : worker'[v] # Idle /\ worker[v].event = e /\ row.lease = v
                             => row.status = "processing",
         stalls' = 0 => stalls = 0,
         stalls' = 0 => \A v \in Workers : worker'[v] = Idle \/ worker[v].event # e,
         stalls' \in 0..MaxStalls, UNCHANGED <<last, effect, crashes>>
  PROVE  OInv'
<1>1. row # None  BY NoneAssumption
<1>2. event'[e] = row /\ \A d \in Ids \ {e} : event'[d] = event[d]  BY DEF OInv, TypeOK
<1>3. TypeOK'  BY DEF OInv, TypeOK
<1>4. Filled'  BY <1>1, <1>2 DEF OInv, Filled
<1>5. ASSUME NEW d \in Ids, event[d] # None, ~Blocked(d) PROVE ~Blocked(d)'
  <2>1. \A c \in Ids : event[c] # None /\ event[c].status = "published"
                         => event'[c].status = "published"
    BY <1>2
  <2>. QED  BY <1>5, <2>1, ReachKept
<1>6. ASSUME NEW d \in Ids PROVE EventOk(d)'
  <2>1. EventOk(d)  BY DEF OInv
  <2>2. CASE d = e  BY <1>1, <1>2, <1>5, <2>1, <2>2 DEF EventOk
  <2>3. CASE d # e  BY <1>2, <1>5, <2>1, <2>3 DEF EventOk
  <2>. QED  BY <2>2, <2>3
<1>7. ASSUME NEW v \in Workers PROVE WorkerOk(v)' /\ (stalls' = 0 => SoloOk(v)')
  <2>1. CASE worker'[v] = Idle  BY <2>1 DEF WorkerOk, SoloOk
  <2>2. CASE worker'[v] # Idle
    <3>1. worker'[v] = worker[v] /\ worker[v] # Idle  BY <2>2
    <3>2. WorkerOk(v) /\ worker[v].event \in Ids /\ (stalls' = 0 => SoloOk(v))
      BY <3>1, AtWork DEF OInv, Solo
    <3>3. WorkerOk(v)'
      <4>1. CASE worker[v].event = e
        BY <1>1, <1>2, <1>5, <2>2, <3>1, <3>2, <4>1 DEF WorkerOk
      <4>2. CASE worker[v].event # e
        BY <1>2, <1>5, <2>2, <3>1, <3>2, <4>2 DEF WorkerOk
      <4>. QED  BY <4>1, <4>2
    <3>4. ASSUME stalls' = 0 PROVE SoloOk(v)'
      <4>1. worker[v].event # e  BY <2>2, <3>4
      <4>. QED  BY <1>2, <3>1, <3>2, <3>4, <4>1 DEF SoloOk
    <3>. QED  BY <3>3, <3>4
  <2>. QED  BY <2>1, <2>2
<1>8. (\A d \in Ids : effect[d] <= 1)' \/ stalls' # 0  BY DEF OInv, Solo
<1>. QED  BY <1>3, <1>4, <1>6, <1>7, <1>8 DEF OInv, Solo

\* A failed handling counts, and leaves a verdict.
LEMMA FailedOk ==
  ASSUME NEW v \in OutboxEvent, NEW error \in Error, v.errors < ErrorLimit
  PROVE  /\ Failed(v, error) \in OutboxEvent /\ Failed(v, error).kind = v.kind
         /\ Failed(v, error).status \in {"pending", "dead"}
         /\ Failed(v, error).status = "pending" => Failed(v, error).errors < ErrorLimit
         /\ Failed(v, error).status = "dead" =>
              GivenUp(Failed(v, error).attempts, Failed(v, error).errors)
<1>1. DEFINE n == IF v.lastError = error THEN v.errors + 1 ELSE 1
             verdict == IF GivenUp(v.attempts, n) THEN "dead" ELSE "pending"
             row == [v EXCEPT !.status = verdict, !.errors = n, !.lastError = error, !.due = FALSE]
<1>2. Failed(v, error) = row  BY DEF Failed
<1>3. n \in 0..ErrorLimit  BY LimitAssumption DEF OutboxEvent
<1>4. verdict \in {"pending", "dead"}  OBVIOUS
<1>. HIDE DEF n, verdict
<1>5. /\ row \in OutboxEvent /\ row.kind = v.kind /\ row.status = verdict /\ row.errors = n
      /\ row.attempts = v.attempts
  BY <1>3, <1>4 DEF OutboxEvent
<1>. HIDE DEF row
<1>6. verdict = "dead" => GivenUp(v.attempts, n)  BY DEF verdict
<1>7. verdict = "pending" => n < ErrorLimit
  <2>1. verdict = "pending" => ~(n >= ErrorLimit)  BY DEF verdict, GivenUp
  <2>. QED  BY <1>3, <2>1, LimitAssumption
<1>. QED  BY <1>2, <1>4, <1>5, <1>6, <1>7

LEMMA CompleteKeeps ==
  ASSUME OInv, NEW w \in Workers, Complete(w)
  PROVE  OInv'
<1>1. DEFINE e == worker[w].event
             error == worker[w].error
<1>2. /\ worker[w] \in Worker /\ e \in Ids /\ worker[w].pc = "complete" /\ worker[w] # Idle
      /\ event[e] \in OutboxEvent /\ event[e] # None /\ WorkerOk(w)
  BY AtWork, NoneAssumption DEF Complete
<1>3. /\ worker' = [worker EXCEPT ![w] = Idle] /\ UNCHANGED <<last, effect, crashes, stalls>>
      /\ crashes \in 0..MaxCrashes /\ stalls \in 0..MaxStalls
  BY DEF Complete, OInv, TypeOK
<1>4. CASE ~OwnLease(w)
  <2>1. event' = event  BY <1>4 DEF Complete
  <2>. QED  BY <1>3, <2>1, WorkerMoves
<1>5. CASE OwnLease(w)
  <2>1. event[e].status = "processing" /\ event[e].lease = w
    BY <1>2, <1>5 DEF OwnLease, WorkerOk
  <2>2. event[e].errors < ErrorLimit  BY <1>2, <2>1 DEF OInv, EventOk
  <2>3. PICK row \in OutboxEvent :
          /\ event' = [event EXCEPT ![e] = row] /\ row.kind = event[e].kind
          /\ row.status = "published" => event[e].kind # "reconciliation" /\ effect[e] > 0
          /\ row.status \in {"pending", "processing"} => row.errors < ErrorLimit
          /\ row.lease = event[e].lease
    <3>1. CASE error = None
      <4>1. DEFINE row == [event[e] EXCEPT !.status = "published"]
      <4>2. row \in OutboxEvent /\ row.kind = event[e].kind /\ row.status = "published"
            /\ row.lease = event[e].lease
        BY <1>2 DEF OutboxEvent
      <4>3. event' = [event EXCEPT ![e] = row]  BY <1>5, <3>1 DEF Complete
      <4>4. event[e].kind # "reconciliation" /\ effect[e] > 0  BY <1>2, <3>1 DEF WorkerOk
      <4>. QED  BY <4>2, <4>3, <4>4
    <3>2. CASE error # None
      <4>1. error \in Error  BY <1>2, <3>2 DEF Worker
      <4>2. event' = [event EXCEPT ![e] = Failed(event[e], error)]
        BY <1>5, <3>2 DEF Complete
      <4>3. Failed(event[e], error).lease = event[e].lease  BY <1>2 DEF Failed, OutboxEvent
      <4>. QED  BY <1>2, <2>2, <4>1, <4>2, <4>3, FailedOk
    <3>. QED  BY <3>1, <3>2
  <2>4. \A v \in Workers : worker'[v] = IF v = w THEN Idle ELSE worker[v]
    BY <1>3 DEF OInv, TypeOK
  <2>5. worker' \in [Workers -> {Idle} \cup Worker]  BY <1>3 DEF OInv, TypeOK
  <2>6. \A v \in Workers : worker'[v] # Idle /\ worker[v].event = e => row.lease # v
    BY <2>1, <2>3, <2>4
  <2>7. ASSUME stalls = 0, NEW v \in Workers, worker'[v] # Idle PROVE worker[v].event # e
    <3>1. v # w /\ worker[v] # Idle  BY <2>4, <2>7
    <3>2. SoloOk(v)  BY <2>7 DEF OInv, Solo
    <3>. QED  BY <2>1, <3>1, <3>2 DEF SoloOk
  <2>8. \A v \in Workers : worker'[v] \in {worker[v], Idle}  BY <2>4
  <2>9. \A v \in Workers : worker'[v] # Idle /\ worker[v].event = e /\ row.lease = v
                           => row.status = "processing"
    BY <2>6
  <2>10. stalls' = 0 => \A v \in Workers : worker'[v] = Idle \/ worker[v].event # e
    BY <1>3, <2>7
  <2>11. stalls' \in 0..MaxStalls /\ (stalls' = 0 => stalls = 0)  BY <1>3
  <2>12. event[e].status # "published"  BY <2>1
  <2>13. e \in Ids /\ event[e] # None /\ UNCHANGED <<last, effect, crashes>>  BY <1>2, <1>3
  <2>. HIDE DEF e, error
  <2>. QED  BY <2>3, <2>5, <2>8, <2>9, <2>10, <2>11, <2>12, <2>13, EventChanges
<1>. QED  BY <1>4, <1>5

LEMMA PassKeeps ==
  ASSUME OInv, NEW e \in Ids, Pass(e)
  PROVE  OInv'
<1>1. DEFINE row == [event[e] EXCEPT !.due = TRUE]
<1>2. /\ event[e] # None /\ event[e] \in OutboxEvent
      /\ event[e].status \in {"pending", "processing"}
      /\ event' = [event EXCEPT ![e] = row] /\ UNCHANGED <<last, effect, worker, crashes>>
  BY DEF Pass, OInv, TypeOK
<1>3. /\ row \in OutboxEvent /\ row.kind = event[e].kind /\ row.status = event[e].status
      /\ row.errors = event[e].errors /\ row.lease = event[e].lease
  BY <1>2 DEF OutboxEvent
<1>4. /\ stalls' \in 0..MaxStalls
      /\ stalls' = 0 => stalls = 0
      /\ stalls' = 0 => ~Handled(e)
  BY LimitAssumption DEF Pass, OInv, TypeOK
<1>5. event[e].errors < ErrorLimit  BY <1>2 DEF OInv, EventOk
<1>6. ASSUME NEW v \in Workers, worker[v] # Idle, worker[v].event = e, event[e].lease = v
      PROVE  event[e].status = "processing"
  BY <1>6, AtWork DEF WorkerOk
<1>7. worker' \in [Workers -> {Idle} \cup Worker]  BY <1>2 DEF OInv, TypeOK
<1>8. stalls' = 0 => \A v \in Workers : worker[v].event # e  BY <1>4 DEF Handled, Handling
<1>. HIDE DEF row
<1>9. event[e].status # "published" /\ row.status # "published"  BY <1>2, <1>3
<1>10. \A v \in Workers : worker'[v] \in {worker[v], Idle}  BY <1>2
<1>11. \A v \in Workers : worker'[v] # Idle /\ worker[v].event = e /\ row.lease = v
                           => row.status = "processing"
  BY <1>2, <1>3, <1>6
<1>12. stalls' = 0 => \A v \in Workers : worker'[v] = Idle \/ worker[v].event # e
  BY <1>2, <1>8
<1>13. row.status \in {"pending", "processing"} => row.errors < ErrorLimit  BY <1>3, <1>5
<1>. QED  BY <1>2, <1>3, <1>4, <1>7, <1>9, <1>10, <1>11, <1>12, <1>13, EventChanges

LEMMA ReplayKeeps ==
  ASSUME OInv, NEW e \in Ids, Replay(e)
  PROVE  OInv'
<1>1. DEFINE row == New(event[e].kind)
<1>2. /\ event[e] # None /\ event[e] \in OutboxEvent /\ event[e].status = "dead"
      /\ event' = [event EXCEPT ![e] = row] /\ UNCHANGED <<last, effect, worker, crashes, stalls>>
  BY DEF Replay, OInv, TypeOK
<1>3. event[e].kind \in Kinds  BY <1>2 DEF OutboxEvent
<1>4. /\ row \in OutboxEvent /\ row.status = "pending" /\ row.errors = 0
      /\ row.kind = event[e].kind /\ row.lease = None
  BY <1>3, NewOk
<1>. HIDE DEF row
<1>5. worker' \in [Workers -> {Idle} \cup Worker] /\ stalls' \in 0..MaxStalls
  BY <1>2 DEF OInv, TypeOK
<1>6. stalls = 0 => \A v \in Workers : worker[v] = Idle \/ worker[v].event # e
  BY <1>2 DEF OInv, Solo, SoloOk
<1>7. 0 < ErrorLimit /\ None \notin Workers  BY LimitAssumption, NoneAssumption
<1>8. event[e].status # "published" /\ row.status # "published"  BY <1>2, <1>4
<1>9. \A v \in Workers : worker'[v] \in {worker[v], Idle}  BY <1>2
<1>10. \A v \in Workers : row.lease # v  BY <1>4, <1>7
<1>11. stalls' = 0 => stalls = 0 /\ \A v \in Workers : worker'[v] = Idle \/ worker[v].event # e
  BY <1>2, <1>6
<1>12. row.status \in {"pending", "processing"} => row.errors < ErrorLimit  BY <1>4, <1>7
<1>. QED  BY <1>2, <1>4, <1>5, <1>8, <1>9, <1>10, <1>11, <1>12, EventChanges

LEMMA OInvNext == OInv /\ [Next]_vars => OInv'
<1>. SUFFICES ASSUME OInv, [Next]_vars PROVE OInv'  OBVIOUS
<1>1. CASE UNCHANGED vars
  <2>1. UNCHANGED <<event, last, effect, worker, crashes, stalls>>  BY <1>1 DEF vars
  <2>2. TypeOK' /\ Filled'  BY <2>1 DEF OInv, TypeOK, Filled
  <2>3. \A d \in Ids : EventOk(d)'  BY <2>1 DEF OInv, EventOk, Blocked
  <2>4. \A w \in Workers : WorkerOk(w)'  BY <2>1 DEF OInv, WorkerOk, Blocked
  <2>5. Solo'  BY <2>1 DEF OInv, Solo, SoloOk
  <2>. QED  BY <2>2, <2>3, <2>4, <2>5 DEF OInv
<1>2. ASSUME NEW a \in Aggregates, EmitOrderEvent(a) \/ EmitCancellation(a) \/ EmitRefund(a)
      PROVE  OInv'
  BY <1>2, EmitOneKeeps, EmitTwoKeeps
<1>3. ASSUME NEW w \in Workers, NEW e \in Ids, Claim(w, e) PROVE OInv'  BY <1>3, ClaimKeeps
<1>4. ASSUME NEW w \in Workers, Check(w) \/ Apply(w) \/ Complete(w) \/ Crash(w) PROVE OInv'
  BY <1>4, CheckKeeps, ApplyKeeps, CompleteKeeps, FailsKeeps
<1>5. ASSUME NEW w \in Workers, NEW error \in Failures, HandlerFails(w, error) PROVE OInv'
  BY <1>5, FailsKeeps
<1>6. ASSUME NEW e \in Ids, Pass(e) \/ Replay(e) PROVE OInv'  BY <1>6, PassKeeps, ReplayKeeps
<1>. QED  BY <1>1, <1>2, <1>3, <1>4, <1>5, <1>6 DEF Next

-------------------------------------------------------------------------------
\* Events, workers and counters are well formed.
THEOREM OutboxType == Spec => []TypeOK
<1>1. OInv => TypeOK  BY DEF OInv
<1>. QED  BY OInvInit, OInvNext, <1>1, PTL DEF Spec

\* What process_one acknowledges was handled.
THEOREM AcknowledgedWasDone == Spec => []PublishedMeansDone
<1>1. OInv => PublishedMeansDone  BY DEF OInv, EventOk, PublishedMeansDone, Emitted
<1>. QED  BY OInvInit, OInvNext, <1>1, PTL DEF Spec

\* claim lets no event overtake an earlier one of its aggregate.
THEOREM OrderedEffects == Spec => []EffectsInOrder
<1>1. OInv => EffectsInOrder  BY DEF OInv, EventOk, EffectsInOrder, Emitted, Blocked
<1>. QED  BY OInvInit, OInvNext, <1>1, PTL DEF Spec

\* The second look under the row locks settles a refund once, with any number
\* of workers that hold it.
THEOREM SettledOnce == Spec => []RefundSettledOnce
<1>1. OInv => RefundSettledOnce  BY DEF OInv, EventOk, RefundSettledOnce, Emitted
<1>. QED  BY OInvInit, OInvNext, <1>1, PTL DEF Spec

\* The lease keeps an event with one worker while nobody stalls.
THEOREM OneHandler == Spec => []OneHandlerAtATime
<1>1. ASSUME OInv, stalls = 0, NEW v \in Workers, NEW w \in Workers, NEW e \in Ids,
             Handling(v, e), Handling(w, e)
      PROVE  v = w
  <2>1. worker[v] # Idle /\ worker[w] # Idle
    BY <1>1, NoneAssumption, IdleOk DEF Handling
  <2>. QED  BY <1>1, <2>1 DEF OInv, Solo, SoloOk, Handling
<1>2. OInv => OneHandlerAtATime  BY <1>1 DEF OInv, Solo, OneHandlerAtATime, Emitted
<1>. QED  BY OInvInit, OInvNext, <1>2, PTL DEF Spec

\* A published event never changes again, and only the newest claim, or the
\* limits, end the processing of an event.
LEMMA VerdictStep ==
  ASSUME OInv, [Next]_vars, NEW e \in Emitted
  PROVE  /\ event[e].status = "published" => event'[e] = event[e]
         /\ event'[e].status # event[e].status /\ event[e].status = "processing" =>
              /\ \E w \in Workers : event[e].lease = w /\ worker[w].event = e
              /\ event'[e].status = "dead" => GivenUp(event'[e].attempts, event'[e].errors)
<1>1. e \in Ids /\ event[e] # None /\ event[e] \in OutboxEvent
  BY DEF Emitted, OInv, TypeOK
<1>2. CASE event' = event  BY <1>2
<1>3. ASSUME NEW a \in Aggregates, EmitOrderEvent(a) \/ EmitCancellation(a) \/ EmitRefund(a)
      PROVE  event'[e] = event[e]
  <2>1. last[a] \in Nat /\ (e[1] = a => e[2] <= last[a] /\ e[2] \in Nat)
    BY <1>1, IdParts, LimitAssumption DEF OInv, TypeOK, Filled
  <2>2. \A n \in Nat : n > last[a] => e # <<a, n>>  BY <2>1
  <2>3. CASE EmitOrderEvent(a)  BY <1>1, <2>1, <2>2, <2>3 DEF EmitOrderEvent, OInv, TypeOK
  <2>4. CASE EmitRefund(a)  BY <1>1, <2>1, <2>2, <2>4 DEF EmitRefund, OInv, TypeOK
  <2>5. CASE EmitCancellation(a)
    <3>1. DEFINE n == last[a] + 1
    <3>2. event' = [event EXCEPT ![<<a, n>>] = New("receipt"),
                                 ![<<a, n + 1>>] = New("reconciliation")]
      BY <2>5 DEF EmitCancellation
    <3>3. n \in Nat /\ n > last[a] /\ n + 1 > last[a]  BY <2>1
    <3>4. e # <<a, n>> /\ e # <<a, n + 1>>  BY <2>2, <3>3
    <3>. QED  BY <1>1, <3>2, <3>4 DEF OInv, TypeOK
  <2>. QED  BY <1>3, <2>3, <2>4, <2>5
<1>4. ASSUME NEW w \in Workers, NEW d \in Ids, Claim(w, d)
      PROVE  /\ event[e].status = "published" => event'[e] = event[e]
             /\ event[e].status = "processing" => event'[e].status = event[e].status
  <2>1. CASE d # e  BY <1>1, <1>4, <2>1 DEF Claim, OInv, TypeOK
  <2>2. CASE d = e
    <3>1. event[e].status # "published"  BY <1>4, <2>2 DEF Claim, Claimable
    <3>2. event'[e].status = "processing"
      BY <1>1, <1>4, <2>2 DEF Claim, OInv, TypeOK, OutboxEvent
    <3>. QED  BY <3>1, <3>2
  <2>. QED  BY <2>1, <2>2
<1>5. ASSUME NEW w \in Workers, Complete(w), event'[e] # event[e]
      PROVE  /\ worker[w].event = e /\ event[e].lease = w /\ event[e].status = "processing"
             /\ event'[e].status = "dead" => GivenUp(event'[e].attempts, event'[e].errors)
  <2>1. /\ worker[w] \in Worker /\ worker[w].event \in Ids /\ WorkerOk(w) /\ worker[w] # Idle
    BY <1>5, AtWork DEF Complete
  <2>2. OwnLease(w) /\ worker[w].event = e  BY <1>1, <1>5, <2>1 DEF Complete, OInv, TypeOK
  <2>3. event[e].lease = w /\ event[e].status = "processing"
    BY <2>1, <2>2 DEF OwnLease, WorkerOk
  <2>4. event[e].errors < ErrorLimit  BY <1>1, <2>3 DEF OInv, EventOk
  <2>5. CASE worker[w].error = None
    <3>1. event'[e] = [event[e] EXCEPT !.status = "published"]
      BY <1>1, <1>5, <2>2, <2>5 DEF Complete, OInv, TypeOK
    <3>. QED  BY <1>1, <2>2, <2>3, <3>1 DEF OutboxEvent
  <2>6. CASE worker[w].error # None
    <3>1. event'[e] = Failed(event[e], worker[w].error)
      BY <1>1, <1>5, <2>2, <2>6 DEF Complete, OInv, TypeOK
    <3>2. worker[w].error \in Error  BY <2>1, <2>6 DEF Worker
    <3>. QED  BY <1>1, <2>2, <2>3, <2>4, <3>1, <3>2, FailedOk
  <2>. QED  BY <2>5, <2>6
<1>6. ASSUME NEW d \in Ids, Pass(d) \/ Replay(d)
      PROVE  /\ event[e].status = "published" => event'[e] = event[e]
             /\ event[e].status = "processing" => event'[e].status = event[e].status
  <2>1. CASE d # e  BY <1>1, <1>6, <2>1 DEF Pass, Replay, OInv, TypeOK
  <2>2. CASE d = e /\ Pass(d)
    <3>1. event'[e] = [event[e] EXCEPT !.due = TRUE]  BY <1>1, <2>2 DEF Pass, OInv, TypeOK
    <3>2. event'[e].status = event[e].status  BY <1>1, <3>1 DEF OutboxEvent
    <3>. QED  BY <2>2, <3>2 DEF Pass
  <2>3. CASE d = e /\ Replay(d)  BY <2>3 DEF Replay
  <2>. QED  BY <1>6, <2>1, <2>2, <2>3
<1>7. ASSUME NEW w \in Workers, Complete(w)
      PROVE  /\ event[e].status = "published" => event'[e] = event[e]
             /\ event'[e].status # event[e].status /\ event[e].status = "processing" =>
                  /\ \E v \in Workers : event[e].lease = v /\ worker[v].event = e
                  /\ event'[e].status = "dead" => GivenUp(event'[e].attempts, event'[e].errors)
  BY <1>5, <1>7
<1>8. ASSUME NEW w \in Workers,
             Check(w) \/ Apply(w) \/ Crash(w) \/ \E error \in Failures : HandlerFails(w, error)
      PROVE  event' = event
  BY <1>8 DEF Check, Apply, Crash, HandlerFails
<1>9. CASE UNCHANGED vars  BY <1>2, <1>9 DEF vars
<1>. QED  BY <1>2, <1>3, <1>4, <1>6, <1>7, <1>8, <1>9 DEF Next

\* A verdict on an event stands: late workers, crashes and replays of others do
\* not change it.
THEOREM FinalVerdicts == Spec => VerdictsAreFinal
<1>1. OInv /\ [Next]_vars =>
        [\A e \in Emitted :
           /\ event[e].status = "published" => event'[e] = event[e]
           /\ event'[e].status # event[e].status /\ event[e].status = "processing" =>
                /\ \E w \in Workers : event[e].lease = w /\ worker[w].event = e
                /\ event'[e].status = "dead" =>
                     GivenUp(event'[e].attempts, event'[e].errors)]_vars
  BY VerdictStep
<1>. QED  BY OInvInit, OInvNext, <1>1, PTL DEF Spec, VerdictsAreFinal
===============================================================================

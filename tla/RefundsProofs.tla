----------------------------- MODULE RefundsProofs -----------------------------
(***************************************************************************)
(* The provider pays only what was authorised, a paid return stands, and   *)
(* what the refunds of an order add up to is covered, for every number of  *)
(* orders, returns, refunds, people and workers.                           *)
(***************************************************************************)
EXTENDS Refunds, SumTheorems, TLAPS

\* The rows that the properties are about have their types.
RowsInv == /\ rma \in [Returns -> {None} \cup Return]
           /\ refund \in [Refs -> {None} \cup Refund]
           /\ worker \in [Workers -> {Idle} \cup [pc: {"call", "settle"}, refund: Refs]]
           /\ paid \subseteq Refs

\* What a refund's approval says of its status and of the people involved.
ApprovalOk(f) == refund[f] # None =>
  /\ refund[f].approval = "pending" => refund[f].status = "awaiting_approval"
  /\ refund[f].amount > Threshold /\ GoneOut(f) => refund[f].approval = "approved"
  /\ refund[f].approval = "approved" => refund[f].decidedBy # refund[f].requestedBy
ApprovalInv == \A f \in Refs : ApprovalOk(f)

\* A refund is for a return that was made.
LinkInv == \A f \in Refs :
  refund[f] # None /\ refund[f].return # None => rma[refund[f].return] # None

\* Workers and the provider only deal with refunds that went out.
WorkInv == /\ \A f \in paid : GoneOut(f)
           /\ \A w \in Workers : worker[w].pc # "idle" => GoneOut(worker[w].refund)

RInv == RowsInv /\ ApprovalInv /\ LinkInv /\ WorkInv /\ PaidReturnsStand

-------------------------------------------------------------------------------
\* Steps that leave returns and refunds alone.
LEMMA RowsKept ==
  ASSUME RInv, UNCHANGED <<rma, refund>>
  PROVE  ApprovalInv' /\ LinkInv' /\ PaidReturnsStand' /\ \A f \in Refs : GoneOut(f)' = GoneOut(f)
BY DEF RInv, ApprovalInv, ApprovalOk, LinkInv, PaidReturnsStand, GoneOut, RefundsFor

\* A refund that a worker holds went out.
LEMMA WorkerHolds ==
  ASSUME RInv, NEW w \in Workers, worker[w].pc # "idle"
  PROVE  worker[w].refund \in Refs /\ GoneOut(worker[w].refund)
<1>1. worker[w] \in [pc: {"call", "settle"}, refund: Refs]  BY DEF RInv, RowsInv, Idle
<1>. QED  BY <1>1 DEF RInv, WorkInv

LEMMA WorkerKeeps ==
  ASSUME RInv, NEW w \in Workers,
         Call(w) \/ Fail(w) \/ \E f \in Refs : Read(w, f)
  PROVE  RInv'
<1>1. UNCHANGED <<rma, refund>>  BY DEF Call, Fail, Read
<1>2. \A f \in Refs : GoneOut(f)' = GoneOut(f)  BY <1>1, RowsKept
<1>3. CASE Call(w)
  <2>1. /\ worker[w] \in [pc: {"call", "settle"}, refund: Refs]
        /\ worker[w].refund \in Refs /\ GoneOut(worker[w].refund)
    BY <1>3 DEF Call, RInv, RowsInv, WorkInv, Idle
  <2>2. paid' = paid \cup {worker[w].refund}  BY <1>3 DEF Call
  <2>3. PICK next \in {Idle, [worker[w] EXCEPT !.pc = "settle"]} :
          worker' = [worker EXCEPT ![w] = next]
    BY <1>3 DEF Call
  <2>4. next = Idle \/ next.refund = worker[w].refund
    BY <2>1, <2>3
  <2>5. next \in {Idle} \cup [pc: {"call", "settle"}, refund: Refs]
    BY <2>1, <2>3
  <2>6. RowsInv'  BY <1>1, <2>1, <2>2, <2>3, <2>5 DEF RInv, RowsInv
  <2>7. \A f \in paid' : GoneOut(f)'
    BY <1>2, <2>1, <2>2 DEF RInv, RowsInv, WorkInv
  <2>8. ASSUME NEW v \in Workers, worker'[v].pc # "idle" PROVE GoneOut(worker[v].refund)'
    <3>1. CASE v = w
      <4>1. worker'[v] = next  BY <2>3, <3>1 DEF RInv, RowsInv
      <4>2. worker'[v].refund = worker[w].refund  BY <2>4, <2>8, <4>1 DEF Idle
      <4>. QED  BY <1>2, <2>1, <4>2
    <3>2. CASE v # w
      <4>1. worker'[v] = worker[v]  BY <2>3, <3>2 DEF RInv, RowsInv
      <4>2. worker[v].refund \in Refs /\ GoneOut(worker[v].refund)
        BY <2>8, <4>1 DEF RInv, RowsInv, WorkInv, Idle
      <4>. QED  BY <1>2, <4>1, <4>2
    <3>. QED  BY <3>1, <3>2
  <2>9. WorkInv'  BY <2>7, <2>8 DEF WorkInv
  <2>. QED  BY <1>1, <2>6, <2>9, RowsKept DEF RInv
<1>4. ASSUME NEW row \in {Idle} \cup [pc: {"call", "settle"}, refund: Refs],
             row # Idle => GoneOut(row.refund),
             worker' = [worker EXCEPT ![w] = row], paid' = paid
      PROVE  RInv'
  <2>1. RowsInv'  BY <1>1, <1>4 DEF RInv, RowsInv
  <2>2. \A f \in paid' : GoneOut(f)'  BY <1>2, <1>4 DEF RInv, RowsInv, WorkInv
  <2>3. ASSUME NEW v \in Workers, worker'[v].pc # "idle" PROVE GoneOut(worker[v].refund)'
    <3>1. worker'[v] = IF v = w THEN row ELSE worker[v]  BY <1>4 DEF RInv, RowsInv
    <3>2. worker'[v].refund \in Refs /\ GoneOut(worker'[v].refund)
      BY <1>4, <2>3, <3>1 DEF RInv, RowsInv, WorkInv, Idle
    <3>. QED  BY <1>2, <3>2 DEF GoneOut
  <2>4. WorkInv'  BY <2>2, <2>3 DEF WorkInv
  <2>. QED  BY <1>1, <2>1, <2>4, RowsKept DEF RInv
<1>5. CASE Fail(w)  BY <1>4, <1>5 DEF Fail
<1>6. ASSUME NEW f \in Refs, Read(w, f) PROVE RInv'
  <2>1. [pc |-> "call", refund |-> f] \in [pc: {"call", "settle"}, refund: Refs]  OBVIOUS
  <2>2. GoneOut(f)  BY <1>6 DEF Read, Executable, GoneOut
  <2>. QED  BY <1>4, <1>6, <2>1, <2>2 DEF Read
<1>. QED  BY <1>3, <1>5, <1>6

LEMMA RequestReturnKeeps ==
  ASSUME RInv, NEW r \in Returns, NEW o \in Orders, NEW q \in 1..Quantity,
         RequestReturn(r, o, q)
  PROVE  RInv'
<1>1. PICK row \in Return : rma' = [rma EXCEPT ![r] = row]
  <2>1. [order |-> o, quantity |-> q, status |-> "requested"] \in Return
    BY DEF Return, ReturnStatus
  <2>. QED  BY <2>1 DEF RequestReturn
<1>2. rma[r] = None /\ UNCHANGED <<refund, worker, paid>>  BY DEF RequestReturn
<1>3. ASSUME NEW p \in Returns, rma[p] # None PROVE rma'[p] = rma[p]
  BY <1>1, <1>2, <1>3 DEF RInv, RowsInv
<1>4. RowsInv' /\ ApprovalInv' /\ WorkInv'
  BY <1>1, <1>2 DEF RInv, RowsInv, ApprovalInv, ApprovalOk, WorkInv, GoneOut
<1>5. \A f \in Refs : refund[f] # None /\ refund[f].return # None =>
        refund[f].return \in Returns /\ rma[refund[f].return] # None
  BY DEF RInv, RowsInv, LinkInv, Refund
<1>6. LinkInv'  BY <1>2, <1>3, <1>5 DEF LinkInv
<1>7. PaidReturnsStand'
  BY <1>2, <1>3, <1>5 DEF RInv, PaidReturnsStand, GoneOut, RefundsFor
<1>. QED  BY <1>4, <1>6, <1>7 DEF RInv

LEMMA AdvanceReturnKeeps ==
  ASSUME RInv, NEW r \in Returns, NEW to \in ReturnStatus, AdvanceReturn(r, to)
  PROVE  RInv'
<1>1. /\ rma[r] \in Return /\ rma[r].status \notin {"refund_pending", "refunded"}
      /\ rma' = [rma EXCEPT ![r].status = to] /\ UNCHANGED <<refund, worker, paid>>
  BY DEF AdvanceReturn, Advances, Rejections, RInv, RowsInv
<1>2. rma'[r] \in Return /\ \A p \in Returns : p # r => rma'[p] = rma[p]
  BY <1>1 DEF RInv, RowsInv, Return
<1>3. RowsInv' /\ ApprovalInv' /\ WorkInv'
  BY <1>1, <1>2 DEF RInv, RowsInv, ApprovalInv, ApprovalOk, WorkInv, GoneOut
<1>4. \A f \in Refs : refund[f] # None /\ refund[f].return # None =>
        refund[f].return \in Returns
  BY DEF RInv, RowsInv, Refund
<1>5. LinkInv'  BY <1>1, <1>2, <1>4, NoneAssumption DEF RInv, LinkInv
<1>6. ASSUME NEW f \in Refs, GoneOut(f), refund[f].return # None
      PROVE  refund[f].return \in Returns /\ refund[f].return # r
  BY <1>1, <1>4, <1>6 DEF RInv, PaidReturnsStand, GoneOut
<1>7. PaidReturnsStand'
  BY <1>1, <1>2, <1>6 DEF RInv, PaidReturnsStand, GoneOut, RefundsFor
<1>. QED  BY <1>3, <1>5, <1>7 DEF RInv

\* A return whose refund goes out now was inspected, hence has no other refund
\* that went out: steps that mark return r for refund f.
LEMMA MarkKeeps ==
  ASSUME RInv, NEW f \in Refs, NEW r \in Returns, Inspected(r), rma' = Marked(r),
         NEW row \in Refund, refund' = [refund EXCEPT ![f] = row],
         row.return = r, row.status = "refund_pending"
  PROVE  LinkInv' /\ PaidReturnsStand' /\ rma' \in [Returns -> {None} \cup Return]
<1>1. rma[r] \in Return /\ rma[r].status = "inspected"
  BY DEF Inspected, RInv, RowsInv
<1>2. /\ rma' \in [Returns -> {None} \cup Return]
      /\ rma'[r] # None /\ rma'[r].status = "refund_pending"
      /\ \A p \in Returns : p # r => rma'[p] = rma[p]
  BY <1>1, NoneAssumption DEF Marked, RInv, RowsInv, Return, ReturnStatus
<1>3. refund'[f] = row /\ \A g \in Refs : g # f => refund'[g] = refund[g]
  BY DEF RInv, RowsInv
<1>4. \A g \in Refs : refund[g] # None /\ refund[g].return # None =>
        refund[g].return \in Returns /\ rma[refund[g].return] # None
  BY DEF RInv, RowsInv, LinkInv, Refund
<1>5. ASSUME NEW g \in Refs, GoneOut(g) PROVE refund[g].return # r
  BY <1>1, <1>5, NoneAssumption DEF RInv, PaidReturnsStand, GoneOut
<1>6. LinkInv'
  <2>1. ASSUME NEW g \in Refs, refund'[g] # None, refund'[g].return # None
        PROVE  rma'[refund'[g].return] # None
    <3>1. CASE g = f  BY <1>2, <1>3, <3>1
    <3>2. CASE g # f  BY <1>2, <1>3, <1>4, <2>1, <3>2
    <3>. QED  BY <3>1, <3>2
  <2>. QED  BY <2>1 DEF LinkInv
<1>7. ASSUME NEW g \in Refs, refund'[g] # None,
             refund'[g].status \in {"refund_pending", "refunded"},
             refund'[g].return # None
      PROVE  /\ rma'[refund'[g].return].status = refund'[g].status
             /\ \A h \in Refs : ( /\ refund'[h] # None /\ refund'[h].return = refund'[g].return
                                 /\ refund'[h].status \in {"refund_pending", "refunded"} )
                               => h = g
  <2>1. CASE g = f
    <3>1. \A h \in Refs : h # f /\ refund'[h] # None
             /\ refund'[h].status \in {"refund_pending", "refunded"} => refund'[h].return # r
      BY <1>3, <1>5 DEF GoneOut
    <3>. QED  BY <1>2, <1>3, <2>1, <3>1
  <2>2. CASE g # f
    <3>1. GoneOut(g) /\ refund'[g] = refund[g] /\ refund[g].return # r
      BY <1>3, <1>5, <1>7, <2>2 DEF GoneOut
    <3>2. refund[g].return \in Returns /\ rma'[refund[g].return] = rma[refund[g].return]
      BY <1>2, <1>4, <1>7, <3>1
    <3>. QED
      BY <1>3, <1>7, <3>1, <3>2 DEF RInv, PaidReturnsStand, GoneOut, RefundsFor
  <2>. QED  BY <2>1, <2>2
<1>8. PaidReturnsStand'  BY <1>7 DEF PaidReturnsStand, GoneOut, RefundsFor
<1>. QED  BY <1>2, <1>6, <1>8

\* A refund row is written and every return stays as it is: what is said of
\* the returns needs only that no refund for a return goes out by this step.
LEMMA RowKeeps ==
  ASSUME RInv, NEW f \in Refs, NEW row \in Refund, refund' = [refund EXCEPT ![f] = row],
         rma' = rma, row.return # None => rma[row.return] # None,
         row.return = None \/ row.status \notin {"refund_pending", "refunded"}
  PROVE  LinkInv' /\ PaidReturnsStand'
<1>1. refund'[f] = row /\ \A g \in Refs : g # f => refund'[g] = refund[g]
  BY DEF RInv, RowsInv
<1>2. LinkInv'  BY <1>1 DEF RInv, LinkInv
<1>3. PaidReturnsStand'  BY <1>1 DEF RInv, PaidReturnsStand, GoneOut, RefundsFor
<1>. QED  BY <1>2, <1>3

\* A written refund row that is in order and, if the old one went out, goes out.
LEMMA RefundRowKeeps ==
  ASSUME RInv, NEW f \in Refs, NEW row \in Refund, refund' = [refund EXCEPT ![f] = row],
         GoneOut(f) => row.status \in {"refund_pending", "refunded"},
         row.approval = "pending" => row.status = "awaiting_approval",
         row.amount > Threshold /\ row.status \in {"refund_pending", "refunded"}
           => row.approval = "approved",
         row.approval = "approved" => row.decidedBy # row.requestedBy
  PROVE  /\ refund' \in [Refs -> {None} \cup Refund]
         /\ ApprovalInv'
         /\ \A g \in Refs : GoneOut(g) => GoneOut(g)'
<1>1. refund' \in [Refs -> {None} \cup Refund]  BY DEF RInv, RowsInv
<1>2. refund'[f] = row /\ \A g \in Refs : g # f => refund'[g] = refund[g]
  BY DEF RInv, RowsInv
<1>3. ApprovalInv'  BY <1>2 DEF RInv, ApprovalInv, ApprovalOk, GoneOut
<1>4. \A g \in Refs : GoneOut(g) => GoneOut(g)'
  BY <1>2, NoneAssumption DEF GoneOut
<1>. QED  BY <1>1, <1>3, <1>4

LEMMA WorkKeeps ==
  ASSUME RInv, UNCHANGED <<worker, paid>>, \A g \in Refs : GoneOut(g) => GoneOut(g)'
  PROVE  WorkInv'
<1>1. \A w \in Workers : worker[w].pc # "idle" => worker[w].refund \in Refs
  BY DEF RInv, RowsInv, Idle
<1>. QED  BY <1>1 DEF RInv, RowsInv, WorkInv

LEMMA RequestRefundKeeps ==
  ASSUME RInv, NEW f \in Refs, NEW by \in Staff, NEW o \in Orders,
         NEW r \in Returns \cup {None}, NEW n \in Amounts, RequestRefund(f, by, o, r, n)
  PROVE  RInv'
<1>. DEFINE new == [order |-> o, return |-> r, amount |-> n, status |-> RefundStatus(n),
                    approval |-> IF NeedsApproval(n) THEN "pending" ELSE None,
                    requestedBy |-> by, decidedBy |-> None]
<1>1. new \in Refund  BY DEF RefundStatus, Refund, Approval
<1>2. PICK row \in Refund : row = new  BY <1>1
<1>3. /\ refund[f] = None /\ refund' = [refund EXCEPT ![f] = row]
      /\ r # None => Inspected(r)
      /\ rma' = IF r # None /\ ~NeedsApproval(n) THEN Marked(r) ELSE rma
      /\ UNCHANGED <<worker, paid>>
  BY <1>2 DEF RequestRefund
<1>4. /\ row.return = r /\ row.amount = n
      /\ n > Threshold => row.status = "awaiting_approval" /\ row.approval = "pending"
      /\ ~(n > Threshold) => row.status = "refund_pending" /\ row.approval = None
  BY <1>2 DEF RefundStatus, NeedsApproval
<1>5. /\ refund' \in [Refs -> {None} \cup Refund]
      /\ ApprovalInv'
      /\ \A g \in Refs : GoneOut(g) => GoneOut(g)'
  <2>1. row.approval = "pending" => row.status = "awaiting_approval"
    BY <1>4, NoneAssumption
  <2>2. row.amount > Threshold => row.status = "awaiting_approval"  BY <1>4
  <2>3. row.approval # "approved"  BY <1>4, NoneAssumption
  <2>4. ~GoneOut(f)  BY <1>3 DEF GoneOut
  <2>. QED  BY <1>3, <2>1, <2>2, <2>3, <2>4, RefundRowKeeps
<1>6. WorkInv'  BY <1>3, <1>5, WorkKeeps
<1>7. CASE r # None /\ ~(n > Threshold)
  <2>1. LinkInv' /\ PaidReturnsStand' /\ rma' \in [Returns -> {None} \cup Return]
    BY <1>3, <1>4, <1>7, MarkKeeps DEF NeedsApproval
  <2>. QED  BY <1>3, <1>5, <1>6, <2>1 DEF RInv, RowsInv
<1>8. CASE ~(r # None /\ ~(n > Threshold))
  <2>1. rma' = rma  BY <1>3, <1>8 DEF NeedsApproval
  <2>2. r # None => rma[r] # None  BY <1>3 DEF Inspected
  <2>3. row.return = None \/ row.status \notin {"refund_pending", "refunded"}
    BY <1>4, <1>8
  <2>4. LinkInv' /\ PaidReturnsStand'  BY <1>3, <1>4, <2>1, <2>2, <2>3, RowKeeps
  <2>. QED  BY <1>3, <1>5, <1>6, <2>1, <2>4 DEF RInv, RowsInv
<1>. QED  BY <1>7, <1>8

LEMMA DecideKeeps ==
  ASSUME RInv, NEW f \in Refs, NEW by \in Staff, NEW verdict \in {"approved", "rejected"},
         Decide(f, by, verdict)
  PROVE  RInv'
<1>1. refund[f] \in Refund /\ refund[f].approval = "pending"
  BY DEF Decide, RInv, RowsInv
<1>2. refund[f].status = "awaiting_approval"
  BY <1>1, NoneAssumption DEF RInv, ApprovalInv, ApprovalOk
<1>3. PICK r \in Returns \cup {None} : r = refund[f].return  BY <1>1 DEF Refund
<1>4. PICK row \in Refund :
        /\ refund' = [refund EXCEPT ![f] = row]
        /\ row.return = r /\ row.amount = refund[f].amount /\ row.approval = verdict
        /\ row.decidedBy = by /\ row.requestedBy = refund[f].requestedBy
        /\ row.status = IF verdict = "approved" THEN "refund_pending" ELSE "rejected"
  <2>. DEFINE new == [refund[f] EXCEPT !.approval = verdict, !.decidedBy = by,
                !.status = IF verdict = "approved" THEN "refund_pending" ELSE "rejected"]
  <2>1. new \in Refund  BY <1>1 DEF Refund, Approval
  <2>2. refund' = [refund EXCEPT ![f] = new]  BY DEF Decide
  <2>3. /\ new.return = r /\ new.amount = refund[f].amount /\ new.approval = verdict
        /\ new.decidedBy = by /\ new.requestedBy = refund[f].requestedBy
        /\ new.status = IF verdict = "approved" THEN "refund_pending" ELSE "rejected"
    BY <1>1, <1>3 DEF Refund
  <2>. QED  BY <2>1, <2>2, <2>3
<1>5. /\ by # refund[f].requestedBy
      /\ verdict = "approved" /\ r # None => Inspected(r)
      /\ rma' = IF verdict = "approved" /\ r # None THEN Marked(r) ELSE rma
      /\ UNCHANGED <<worker, paid>>
  BY <1>3 DEF Decide, OtherPerson, StillInspected
<1>6. /\ refund' \in [Refs -> {None} \cup Refund]
      /\ ApprovalInv'
      /\ \A g \in Refs : GoneOut(g) => GoneOut(g)'
  <2>1. ~GoneOut(f)  BY <1>2 DEF GoneOut
  <2>. QED  BY <1>4, <1>5, <2>1, RefundRowKeeps
<1>7. WorkInv'  BY <1>5, <1>6, WorkKeeps
<1>8. CASE verdict = "approved" /\ r # None
  <2>1. LinkInv' /\ PaidReturnsStand' /\ rma' \in [Returns -> {None} \cup Return]
    BY <1>4, <1>5, <1>8, MarkKeeps
  <2>. QED  BY <1>5, <1>6, <1>7, <2>1 DEF RInv, RowsInv
<1>9. CASE ~(verdict = "approved" /\ r # None)
  <2>1. rma' = rma  BY <1>5, <1>9
  <2>2. r # None => rma[r] # None  BY <1>1, <1>3, NoneAssumption DEF RInv, LinkInv
  <2>3. LinkInv' /\ PaidReturnsStand'  BY <1>4, <1>9, <2>1, <2>2, RowKeeps
  <2>. QED  BY <1>5, <1>6, <1>7, <2>1, <2>3 DEF RInv, RowsInv
<1>. QED  BY <1>8, <1>9

\* The settled refund is the only one that went out for its return, so the two
\* are marked together.
LEMMA SettleKeeps ==
  ASSUME RInv, NEW w \in Workers, Settle(w)
  PROVE  RInv'
<1>1. PICK f \in Refs : f = worker[w].refund /\ GoneOut(f)  BY WorkerHolds DEF Settle
<1>2. refund[f] \in Refund  BY <1>1 DEF RInv, RowsInv, GoneOut
<1>3. PICK r \in Returns \cup {None} : r = refund[f].return  BY <1>2 DEF Refund
<1>4. worker' = [worker EXCEPT ![w] = Idle] /\ paid' = paid  BY DEF Settle
<1>5. /\ worker' \in [Workers -> {Idle} \cup [pc: {"call", "settle"}, refund: Refs]]
      /\ paid' \subseteq Refs
  BY <1>4 DEF RInv, RowsInv
<1>6. ASSUME \A g \in Refs : GoneOut(g) => GoneOut(g)' PROVE WorkInv'
  <2>1. \A v \in Workers : worker'[v].pc # "idle" => worker'[v] = worker[v]
    BY <1>4 DEF RInv, RowsInv, Idle
  <2>2. \A v \in Workers : worker[v].pc # "idle" => worker[v].refund \in Refs
    BY DEF RInv, RowsInv, Idle
  <2>. QED  BY <1>4, <1>6, <2>1, <2>2 DEF RInv, RowsInv, WorkInv
<1>7. CASE UNCHANGED <<refund, rma>>
  <2>1. WorkInv'  BY <1>6, <1>7, RowsKept
  <2>. QED  BY <1>5, <1>7, <2>1, RowsKept DEF RInv, RowsInv
<1>8. CASE /\ refund' = [refund EXCEPT ![f].status = "refunded"]
           /\ rma' = IF r # None THEN [rma EXCEPT ![r].status = "refunded"] ELSE rma
  <2>1. PICK row \in Refund :
          /\ refund' = [refund EXCEPT ![f] = row] /\ row.status = "refunded"
          /\ row.return = r /\ row.amount = refund[f].amount
          /\ row.approval = refund[f].approval /\ row.decidedBy = refund[f].decidedBy
          /\ row.requestedBy = refund[f].requestedBy
    <3>. DEFINE new == [refund[f] EXCEPT !.status = "refunded"]
    <3>1. new \in Refund  BY <1>2 DEF Refund
    <3>2. refund' = [refund EXCEPT ![f] = new]  BY <1>8
    <3>3. /\ new.status = "refunded"
          /\ new.return = r /\ new.amount = refund[f].amount
          /\ new.approval = refund[f].approval /\ new.decidedBy = refund[f].decidedBy
          /\ new.requestedBy = refund[f].requestedBy
      BY <1>2, <1>3 DEF Refund
    <3>. QED  BY <3>1, <3>2, <3>3
  <2>2. /\ refund' \in [Refs -> {None} \cup Refund]
        /\ ApprovalInv'
        /\ \A g \in Refs : GoneOut(g) => GoneOut(g)'
    <3>1. /\ refund[f].approval # "pending"
          /\ refund[f].amount > Threshold => refund[f].approval = "approved"
          /\ refund[f].approval = "approved" => refund[f].decidedBy # refund[f].requestedBy
      BY <1>1 DEF RInv, ApprovalInv, ApprovalOk, GoneOut
    <3>. QED  BY <2>1, <3>1, RefundRowKeeps
  <2>3. WorkInv'  BY <1>6, <2>2
  <2>4. refund'[f] = row /\ \A g \in Refs : g # f => refund'[g] = refund[g]
    BY <2>1 DEF RInv, RowsInv
  <2>5. CASE r = None
    <3>1. rma' = rma  BY <1>8, <2>5
    <3>2. LinkInv' /\ PaidReturnsStand'  BY <2>1, <2>5, <3>1, RowKeeps
    <3>. QED  BY <1>5, <2>2, <2>3, <3>1, <3>2 DEF RInv, RowsInv
  <2>6. CASE r # None
    <3>1. r \in Returns /\ rma[r] \in Return
      BY <1>1, <1>2, <1>3, <2>6 DEF RInv, RowsInv, LinkInv, GoneOut
    <3>2. /\ rma' \in [Returns -> {None} \cup Return]
          /\ rma'[r] # None /\ rma'[r].status = "refunded"
          /\ \A p \in Returns : p # r => rma'[p] = rma[p]
      BY <1>8, <2>6, <3>1, NoneAssumption DEF RInv, RowsInv, Return, ReturnStatus
    <3>3. \A g \in Refs : refund[g] # None /\ refund[g].return # None =>
            refund[g].return \in Returns /\ rma[refund[g].return] # None
      BY DEF RInv, RowsInv, LinkInv, Refund
    <3>4. \A g \in Refs : GoneOut(g) /\ refund[g].return = r => g = f
      BY <1>1, <1>3, <2>6 DEF RInv, PaidReturnsStand, RefundsFor, GoneOut
    <3>5. LinkInv'
      <4>1. ASSUME NEW g \in Refs, refund'[g] # None, refund'[g].return # None
            PROVE  rma'[refund'[g].return] # None
        <5>1. CASE g = f  BY <2>1, <2>4, <3>2, <5>1
        <5>2. CASE g # f  BY <2>4, <3>2, <3>3, <4>1, <5>2
        <5>. QED  BY <5>1, <5>2
      <4>. QED  BY <4>1 DEF LinkInv
    <3>6. ASSUME NEW g \in Refs, refund'[g] # None, refund'[g].return # None,
                 refund'[g].status \in {"refund_pending", "refunded"}
          PROVE  /\ rma'[refund'[g].return].status = refund'[g].status
                 /\ \A h \in Refs :
                      ( /\ refund'[h] # None /\ refund'[h].return = refund'[g].return
                        /\ refund'[h].status \in {"refund_pending", "refunded"} ) => h = g
      <4>1. CASE g = f
        <5>1. rma'[refund'[g].return].status = refund'[g].status
          BY <2>1, <2>4, <3>2, <4>1
        <5>2. ASSUME NEW h \in Refs, h # f, refund'[h] # None, refund'[h].return = r,
                     refund'[h].status \in {"refund_pending", "refunded"}
              PROVE  FALSE
          BY <2>4, <3>4, <5>2 DEF GoneOut
        <5>. QED  BY <2>1, <2>4, <4>1, <5>1, <5>2
      <4>2. CASE g # f
        <5>1. refund'[g] = refund[g] /\ GoneOut(g) /\ refund[g].return # r
          BY <2>4, <3>4, <3>6, <4>2 DEF GoneOut
        <5>2. refund[g].return \in Returns /\ rma'[refund[g].return] = rma[refund[g].return]
          BY <3>2, <3>3, <3>6, <5>1
        <5>3. rma'[refund'[g].return].status = refund'[g].status
          BY <3>6, <5>1, <5>2 DEF RInv, PaidReturnsStand
        <5>4. ASSUME NEW h \in Refs, refund'[h] # None, refund'[h].return = refund'[g].return,
                     refund'[h].status \in {"refund_pending", "refunded"}
              PROVE  h = g
          <6>1. h # f  BY <2>1, <2>4, <5>1, <5>4
          <6>2. GoneOut(h) /\ h \in RefundsFor(refund[g].return)
            BY <2>4, <5>1, <5>4, <6>1 DEF GoneOut, RefundsFor
          <6>. QED  BY <3>6, <5>1, <6>2 DEF RInv, PaidReturnsStand
        <5>. QED  BY <5>3, <5>4
      <4>. QED  BY <4>1, <4>2
    <3>7. PaidReturnsStand'  BY <3>6 DEF PaidReturnsStand, GoneOut, RefundsFor
    <3>. QED  BY <1>5, <2>2, <2>3, <3>2, <3>5, <3>7 DEF RInv, RowsInv
  <2>. QED  BY <2>5, <2>6
<1>. QED  BY <1>1, <1>3, <1>7, <1>8 DEF Settle

-------------------------------------------------------------------------------
LEMMA RInvInit == Init => RInv
BY DEF Init, RInv, RowsInv, ApprovalInv, ApprovalOk, LinkInv, WorkInv, PaidReturnsStand,
       GoneOut, Idle

LEMMA RInvNext == RInv /\ [Next]_vars => RInv'
<1>. SUFFICES ASSUME RInv, [Next]_vars PROVE RInv'  OBVIOUS
<1>1. ASSUME UNCHANGED <<rma, refund, worker, paid>> PROVE RInv'
  <2>1. WorkInv'  BY <1>1, RowsKept, WorkKeeps
  <2>. QED  BY <1>1, <2>1, RowsKept DEF RInv, RowsInv
<1>2. CASE \E o \in Orders : Time(o)  BY <1>1, <1>2 DEF Time
<1>3. CASE UNCHANGED vars  BY <1>1, <1>3 DEF vars
<1>. QED
  BY <1>2, <1>3, RequestReturnKeeps, AdvanceReturnKeeps, RequestRefundKeeps, DecideKeeps,
     WorkerKeeps, SettleKeeps
  DEF Next

\* The strengthened invariant holds in every reachable state.
THEOREM RefundsInvariant == Spec => []RInv
BY RInvInit, RInvNext, PTL DEF Spec

\* The provider pays only what was requested and, above the threshold, approved
\* by a second person; what it has paid is never rejected.
THEOREM RefundsPaidWasAuthorised == Spec => []PaidWasAuthorised
<1>1. RInv => PaidWasAuthorised
  BY DEF RInv, RowsInv, ApprovalInv, ApprovalOk, WorkInv, PaidWasAuthorised, GoneOut
<1>. QED  BY <1>1, RefundsInvariant, PTL

\* A return whose refund went out stays marked and has no other such refund,
\* although inspections, refund requests, approvals and settlements all write it.
THEOREM RefundsPaidReturnsStand == Spec => []PaidReturnsStand
<1>1. RInv => PaidReturnsStand  BY DEF RInv
<1>. QED  BY <1>1, RefundsInvariant, PTL

\* What the settlements add up.
BooksInv == /\ window \in [Orders -> {"undelivered", "open", "closed"}]
            /\ attempt \in [Orders -> [status: AttemptStatus, refunded: Nat]]

LEMMA BooksNext == RInv /\ BooksInv /\ [Next]_vars => BooksInv'
<1>. SUFFICES ASSUME RInv, BooksInv, [Next]_vars PROVE BooksInv'  OBVIOUS
<1>1. CASE UNCHANGED <<window, attempt>>  BY <1>1 DEF BooksInv
<1>2. ASSUME NEW o \in Orders, Time(o) PROVE BooksInv'  BY <1>2 DEF Time, BooksInv
<1>3. ASSUME NEW w \in Workers, Settle(w), attempt' # attempt PROVE BooksInv'
  <2>1. PICK f \in Refs : f = worker[w].refund /\ GoneOut(f)
    BY <1>3, WorkerHolds DEF Settle
  <2>2. refund[f] \in Refund  BY <2>1 DEF RInv, RowsInv, GoneOut
  <2>3. refund[f].order \in Orders /\ refund[f].amount \in Nat
    BY <2>2, AmountsAssumption DEF Refund
  <2>4. PICK o \in Orders, n \in Nat :
          attempt' = [attempt EXCEPT ![o].refunded = @ + n,
                                     ![o].status = AttemptStatusAfter(attempt[o], n)]
    BY <1>3, <2>1, <2>3 DEF Settle
  <2>5. AttemptStatusAfter(attempt[o], n) \in AttemptStatus
    BY DEF AttemptStatusAfter, AttemptStatus
  <2>6. attempt' \in [Orders -> [status: AttemptStatus, refunded: Nat]]
    <3>1. DEFINE row == [attempt[o] EXCEPT !.refunded = attempt[o].refunded + n,
                                           !.status = AttemptStatusAfter(attempt[o], n)]
    <3>2. attempt[o] \in [status: AttemptStatus, refunded: Nat]  BY DEF BooksInv
    <3>3. attempt[o].refunded + n \in Nat  BY <3>2
    <3>4. row \in [status: AttemptStatus, refunded: Nat]  BY <2>5, <3>2, <3>3
    <3>5. attempt' = [attempt EXCEPT ![o] = row]  BY <2>4
    <3>. QED  BY <3>4, <3>5 DEF BooksInv
  <2>. QED  BY <1>3, <2>6 DEF Settle, BooksInv
<1>4. CASE UNCHANGED vars  BY <1>1, <1>4 DEF vars
<1>5. ASSUME NEW w \in Workers, Settle(w), attempt' = attempt PROVE BooksInv'
  BY <1>1, <1>5 DEF Settle
<1>. QED
  BY <1>1, <1>2, <1>3, <1>4, <1>5
  DEF Next, RequestReturn, AdvanceReturn, RequestRefund, Decide, Call, Fail, Read

\* Windows, returns, refunds, the attempts' books, workers and the provider's
\* record are well formed.
THEOREM RefundsType == Spec => []TypeOK
<1>1. Init => BooksInv  BY DEF Init, BooksInv, AttemptStatus
<1>2. RInv /\ BooksInv => TypeOK  BY DEF RInv, RowsInv, BooksInv, TypeOK
<1>. QED  BY <1>1, <1>2, BooksNext, RefundsInvariant, PTL DEF Spec

-------------------------------------------------------------------------------
(* The money: no step of the module changes more than one refund and one   *)
(* return, so each sum changes by one term.                                *)

RefundTable == [Refs -> {None} \cup Refund]
ReturnTable == [Returns -> {None} \cup Return]

\* The sums of the module as operators of the tables they read.
Amount(R, S) == SumFunctionOnSet([f \in S |-> R[f].amount], S)
Units(M, S) == SumFunctionOnSet([r \in S |-> M[r].quantity], S)

\* The refunds of an order that reserve, were settled, or went out for goods.
Reserved(R, o) == {f \in Refs : R[f] # None /\ R[f].order = o /\ R[f].status # "rejected"}
Settled(R, o) == {f \in Refs : R[f] # None /\ R[f].order = o /\ R[f].status = "refunded"}
OutGoods(R, o) == {f \in Refs : /\ R[f] # None /\ R[f].order = o /\ R[f].return # None
                                /\ R[f].status \in {"refund_pending", "refunded"}}
\* The returns of an order that stand.
Standing(M, o) == {r \in Returns : M[r] # None /\ M[r].order = o /\ M[r].status # "rejected"}

-------------------------------------------------------------------------------
\* What row f of a table, written, does to a sum over S that becomes one over T.
AmountEffect(R, Q, f, row, S, T) ==
  /\ Amount(R, S) \in Nat /\ row.amount \in Nat
  /\ f \in S => R[f].amount \in Nat /\ R[f].amount <= Amount(R, S)
  /\ f \notin S /\ f \notin T => Amount(Q, T) = Amount(R, S)
  /\ f \notin S /\ f \in T => Amount(Q, T) = Amount(R, S) + row.amount
  /\ f \in S /\ f \notin T => Amount(Q, T) = Amount(R, S) - R[f].amount
  /\ f \in S /\ f \in T => Amount(Q, T) = Amount(R, S) - R[f].amount + row.amount

\* One refund row is written: what a sum of amounts gains or loses.
LEMMA AmountChange ==
  ASSUME NEW R \in RefundTable, NEW f \in Refs, NEW row \in Refund, NEW Q,
         Q = [R EXCEPT ![f] = row],
         NEW S \in SUBSET Refs, NEW T \in SUBSET Refs, S \ {f} = T \ {f},
         \A x \in S : R[x] # None, \A x \in T : Q[x] # None
  PROVE  AmountEffect(R, Q, f, row, S, T)
<1>. DEFINE a == [x \in S |-> R[x].amount]
            b == [x \in T |-> Q[x].amount]
<1>1. IsFiniteSet(S) /\ IsFiniteSet(T)  BY FS_Subset, FiniteAssumption
<1>2. \A x \in Refund : x.amount \in Nat  BY AmountsAssumption DEF Refund
<1>3. \A x \in S : a[x] \in Nat  BY <1>2 DEF RefundTable
<1>4. \A x \in T : Q[x] \in Refund  BY DEF RefundTable
<1>5. \A x \in T : b[x] \in Nat  BY <1>2, <1>4
<1>6. \A x \in S \ {f} : b[x] = a[x]  BY DEF RefundTable
<1>7. Amount(R, S) = SumFunctionOnSet(a, S) /\ Amount(Q, T) = SumFunctionOnSet(b, T)
  BY DEF Amount
<1>8. /\ f \in S => a[f] = R[f].amount
      /\ f \in T => b[f] = row.amount
  BY DEF RefundTable
<1>. HIDE DEF a, b
<1>9. SumFunctionOnSet(a, S) \in Nat /\ \A x \in S : a[x] <= SumFunctionOnSet(a, S)
  BY <1>1, <1>3, SumPart
<1>10. SumFunctionOnSet(b, T) = SumFunctionOnSet(a, S) - Term(a, S, f) + Term(b, T, f)
  <2>1. (\A x \in S : a[x] \in Int) /\ (\A x \in T : b[x] \in Int)  BY <1>3, <1>5
  <2>. QED  BY <1>1, <1>6, <2>1, SumChange
<1>11. /\ Term(a, S, f) = IF f \in S THEN R[f].amount ELSE 0
       /\ Term(b, T, f) = IF f \in T THEN row.amount ELSE 0
  BY <1>8 DEF Term
<1>12. row.amount \in Nat /\ (f \in S => R[f].amount \in Nat)  BY <1>2, <1>3, <1>8
<1>. QED  BY <1>7, <1>8, <1>9, <1>10, <1>11, <1>12 DEF AmountEffect

UnitsEffect(M, N, r, row, S, T) ==
  /\ Units(M, S) \in Nat /\ row.quantity \in Nat
  /\ r \in S => M[r].quantity \in Nat /\ M[r].quantity <= Units(M, S)
  /\ r \notin S /\ r \notin T => Units(N, T) = Units(M, S)
  /\ r \notin S /\ r \in T => Units(N, T) = Units(M, S) + row.quantity
  /\ r \in S /\ r \notin T => Units(N, T) = Units(M, S) - M[r].quantity
  /\ r \in S /\ r \in T => Units(N, T) = Units(M, S) - M[r].quantity + row.quantity

\* One return row is written: what a sum of units gains or loses.
LEMMA UnitsChange ==
  ASSUME NEW M \in ReturnTable, NEW r \in Returns, NEW row \in Return, NEW N,
         N = [M EXCEPT ![r] = row],
         NEW S \in SUBSET Returns, NEW T \in SUBSET Returns, S \ {r} = T \ {r},
         \A x \in S : M[x] # None, \A x \in T : N[x] # None
  PROVE  UnitsEffect(M, N, r, row, S, T)
<1>. DEFINE a == [x \in S |-> M[x].quantity]
            b == [x \in T |-> N[x].quantity]
<1>1. IsFiniteSet(S) /\ IsFiniteSet(T)  BY FS_Subset, FiniteAssumption
<1>2. \A x \in Return : x.quantity \in Nat  BY AmountsAssumption DEF Return
<1>3. \A x \in S : a[x] \in Nat  BY <1>2 DEF ReturnTable
<1>4. \A x \in T : N[x] \in Return  BY DEF ReturnTable
<1>5. \A x \in T : b[x] \in Nat  BY <1>2, <1>4
<1>6. \A x \in S \ {r} : b[x] = a[x]  BY DEF ReturnTable
<1>7. Units(M, S) = SumFunctionOnSet(a, S) /\ Units(N, T) = SumFunctionOnSet(b, T)
  BY DEF Units
<1>8. /\ r \in S => a[r] = M[r].quantity
      /\ r \in T => b[r] = row.quantity
  BY DEF ReturnTable
<1>. HIDE DEF a, b
<1>9. SumFunctionOnSet(a, S) \in Nat /\ \A x \in S : a[x] <= SumFunctionOnSet(a, S)
  BY <1>1, <1>3, SumPart
<1>10. SumFunctionOnSet(b, T) = SumFunctionOnSet(a, S) - Term(a, S, r) + Term(b, T, r)
  <2>1. (\A x \in S : a[x] \in Int) /\ (\A x \in T : b[x] \in Int)  BY <1>3, <1>5
  <2>. QED  BY <1>1, <1>6, <2>1, SumChange
<1>11. /\ Term(a, S, r) = IF r \in S THEN M[r].quantity ELSE 0
       /\ Term(b, T, r) = IF r \in T THEN row.quantity ELSE 0
  BY <1>8 DEF Term
<1>12. row.quantity \in Nat /\ (r \in S => M[r].quantity \in Nat)  BY <1>2, <1>3, <1>8
<1>. QED  BY <1>7, <1>8, <1>9, <1>10, <1>11, <1>12 DEF UnitsEffect

-------------------------------------------------------------------------------
(***************************************************************************)
(* The steps: at most one refund and one return are written                *)
(***************************************************************************)
NewRefund(f, row) ==
  /\ refund[f] = None /\ row.status \in {"awaiting_approval", "refund_pending"}
  /\ row.amount + Amount(refund, Reserved(refund, row.order)) <= Captured
  /\ row.return # None => /\ rma[row.return] # None /\ rma[row.return].order = row.order
                          /\ row.amount <= Eligible(row.return)
                          /\ rma[row.return].status = "inspected"
DecidedRefund(f, row) ==
  /\ refund[f] \in Refund /\ refund[f].status = "awaiting_approval"
  /\ row.order = refund[f].order /\ row.return = refund[f].return
  /\ row.amount = refund[f].amount /\ row.status \in {"refund_pending", "rejected"}
  /\ row.status = "refund_pending" /\ row.return # None =>
       rma[row.return].status = "inspected"
SettledRefund(f, row) ==
  /\ refund[f] \in Refund /\ refund[f].status = "refund_pending" /\ f \in paid
  /\ row.order = refund[f].order /\ row.return = refund[f].return
  /\ row.amount = refund[f].amount /\ row.status = "refunded"
  /\ attempt' = [attempt EXCEPT
       ![row.order].refunded = @ + row.amount,
       ![row.order].status = AttemptStatusAfter(attempt[row.order], row.amount)]

RefundWritten(f, row) == refund' = [refund EXCEPT ![f] = row]
RefundStep ==
  \/ refund' = refund /\ attempt' = attempt
  \/ \E f \in Refs, row \in Refund : /\ RefundWritten(f, row) /\ attempt' = attempt
                                     /\ NewRefund(f, row) \/ DecidedRefund(f, row)
  \/ \E f \in Refs, row \in Refund : RefundWritten(f, row) /\ SettledRefund(f, row)

\* A settlement is under way only for a refund that was paid.
PaidFirst == \A w \in Workers : worker[w].pc = "settle" => worker[w].refund \in paid

LEMMA SumsAre ==
  ASSUME NEW o
  PROVE  /\ AmountOf(Reserving(RefundsOf(o))) = Amount(refund, Reserved(refund, o))
         /\ AmountOf({f \in RefundsOf(o) : refund[f].status = "refunded"})
              = Amount(refund, Settled(refund, o))
         /\ UnitsOf(StandingReturns(o)) = Units(rma, Standing(rma, o))
<1>1. /\ Reserving(RefundsOf(o)) = Reserved(refund, o)
      /\ {f \in RefundsOf(o) : refund[f].status = "refunded"} = Settled(refund, o)
      /\ StandingReturns(o) = Standing(rma, o)
  BY DEF Reserving, RefundsOf, NotReserving, Reserved, Settled, StandingReturns, Standing
<1>. QED  BY <1>1 DEF AmountOf, Amount, UnitsOf, Units

LEMMA RequestRefundStep ==
  ASSUME RInv, NEW f \in Refs, NEW by \in Staff, NEW o \in Orders,
         NEW r \in Returns \cup {None}, NEW n \in Amounts, RequestRefund(f, by, o, r, n)
  PROVE  \E row \in Refund : RefundWritten(f, row) /\ NewRefund(f, row)
<1>. DEFINE new == [order |-> o, return |-> r, amount |-> n, status |-> RefundStatus(n),
                    approval |-> IF NeedsApproval(n) THEN "pending" ELSE None,
                    requestedBy |-> by, decidedBy |-> None]
<1>1. new \in Refund  BY DEF RefundStatus, Refund, Approval
<1>2. RefundWritten(f, new) /\ refund[f] = None  BY DEF RequestRefund, RefundWritten
<1>3. /\ new.order = o /\ new.return = r /\ new.amount = n
      /\ new.status \in {"awaiting_approval", "refund_pending"}
  BY DEF RefundStatus
<1>. HIDE DEF new
<1>4. new.amount + Amount(refund, Reserved(refund, new.order)) <= Captured
  BY <1>3, SumsAre DEF RequestRefund, WithinCapture
<1>5. ASSUME r # None
      PROVE  rma[r] # None /\ rma[r].order = o /\ n <= Eligible(r) /\ rma[r].status = "inspected"
  <2>1. Inspected(r) /\ rma[r].order = o /\ WithinReturn(r, n)
    BY <1>5 DEF RequestRefund, Refundable
  <2>2. AmountOf(Reserving(RefundsFor(r))) \in Nat
    <3>1. DEFINE S == Reserving(RefundsFor(r))
                 a == [x \in S |-> refund[x].amount]
    <3>2. IsFiniteSet(S)
      BY FS_Subset, FiniteAssumption DEF Reserving, RefundsFor
    <3>3. \A x \in S : refund[x] \in Refund
      BY DEF Reserving, RefundsFor, RInv, RowsInv
    <3>4. \A x \in S : a[x] \in Nat  BY <3>3, AmountsAssumption DEF Refund
    <3>. HIDE DEF S
    <3>5. SumFunctionOnSet(a, S) \in Nat  BY <3>2, <3>4, SumPart
    <3>. QED  BY <3>5 DEF AmountOf, S
  <2>3. Eligible(r) \in Int
    <3>1. rma[r] \in Return  BY <1>5, <2>1 DEF Inspected, RInv, RowsInv
    <3>. QED  BY <3>1, AmountsAssumption DEF Return, Eligible
  <2>4. n \in Nat  BY AmountsAssumption
  <2>. QED  BY <2>1, <2>2, <2>3, <2>4 DEF Inspected, WithinReturn
<1>6. NewRefund(f, new)  BY <1>2, <1>3, <1>4, <1>5 DEF NewRefund
<1>. QED  BY <1>1, <1>2, <1>6

LEMMA DecideStep ==
  ASSUME RInv, NEW f \in Refs, NEW by \in Staff, NEW verdict \in {"approved", "rejected"},
         Decide(f, by, verdict)
  PROVE  \E row \in Refund : RefundWritten(f, row) /\ DecidedRefund(f, row)
<1>1. refund[f] \in Refund /\ refund[f].approval = "pending"
  BY DEF Decide, RInv, RowsInv
<1>2. refund[f].status = "awaiting_approval"
  BY <1>1, NoneAssumption DEF RInv, ApprovalInv, ApprovalOk
<1>. DEFINE new == [refund[f] EXCEPT !.approval = verdict, !.decidedBy = by,
              !.status = IF verdict = "approved" THEN "refund_pending" ELSE "rejected"]
<1>3. new \in Refund  BY <1>1 DEF Refund, Approval
<1>4. RefundWritten(f, new)  BY DEF Decide, RefundWritten
<1>5. /\ new.order = refund[f].order /\ new.return = refund[f].return
      /\ new.amount = refund[f].amount
      /\ new.status = IF verdict = "approved" THEN "refund_pending" ELSE "rejected"
  BY <1>1 DEF Refund
<1>. HIDE DEF new
<1>6. verdict = "approved" /\ new.return # None => rma[new.return].status = "inspected"
  BY <1>5 DEF Decide, StillInspected, Inspected
<1>7. DecidedRefund(f, new)  BY <1>1, <1>2, <1>5, <1>6 DEF DecidedRefund
<1>. QED  BY <1>3, <1>4, <1>7

LEMMA SettleStep ==
  ASSUME RInv, PaidFirst, NEW w \in Workers, Settle(w), ~UNCHANGED <<refund, attempt>>
  PROVE  \E f \in Refs, row \in Refund : RefundWritten(f, row) /\ SettledRefund(f, row)
<1>1. PICK f \in Refs : f = worker[w].refund /\ GoneOut(f) /\ f \in paid
  BY DEF Settle, RInv, RowsInv, WorkInv, Idle, PaidFirst
<1>2. refund[f] \in Refund /\ refund[f].status = "refund_pending"
  BY <1>1 DEF RInv, RowsInv, GoneOut, Settle, Unsettled
<1>. DEFINE new == [refund[f] EXCEPT !.status = "refunded"]
<1>3. new \in Refund  BY <1>2 DEF Refund
<1>4. RefundWritten(f, new)  BY <1>1 DEF Settle, RefundWritten
<1>5. /\ new.order = refund[f].order /\ new.return = refund[f].return
      /\ new.amount = refund[f].amount /\ new.status = "refunded"
  BY <1>2 DEF Refund
<1>. HIDE DEF new
<1>6. attempt' = [attempt EXCEPT
        ![new.order].refunded = @ + new.amount,
        ![new.order].status = AttemptStatusAfter(attempt[new.order], new.amount)]
  BY <1>1, <1>5 DEF Settle
<1>7. SettledRefund(f, new)  BY <1>1, <1>2, <1>5, <1>6 DEF SettledRefund
<1>. QED  BY <1>3, <1>4, <1>7

LEMMA StepsOfRefunds == RInv /\ PaidFirst /\ [Next]_vars => RefundStep
<1>. SUFFICES ASSUME RInv, PaidFirst, [Next]_vars PROVE RefundStep  OBVIOUS
<1>1. CASE refund' = refund /\ attempt' = attempt  BY <1>1 DEF RefundStep
<1>2. ASSUME NEW f \in Refs, NEW by \in Staff, NEW o \in Orders,
             NEW r \in Returns \cup {None}, NEW n \in Amounts, RequestRefund(f, by, o, r, n)
      PROVE  RefundStep
  <2>1. attempt' = attempt  BY <1>2 DEF RequestRefund
  <2>2. PICK row \in Refund : RefundWritten(f, row) /\ NewRefund(f, row)
    BY <1>2, RequestRefundStep
  <2>. QED  BY <2>1, <2>2 DEF RefundStep
<1>3. ASSUME NEW f \in Refs, NEW by \in Staff, NEW verdict \in {"approved", "rejected"},
             Decide(f, by, verdict)
      PROVE  RefundStep
  <2>1. attempt' = attempt  BY <1>3 DEF Decide
  <2>2. PICK row \in Refund : RefundWritten(f, row) /\ DecidedRefund(f, row)
    BY <1>3, DecideStep
  <2>. QED  BY <2>1, <2>2 DEF RefundStep
<1>4. ASSUME NEW w \in Workers, Settle(w) PROVE RefundStep
  <2>1. CASE UNCHANGED <<refund, attempt>>  BY <1>1, <2>1
  <2>2. CASE ~UNCHANGED <<refund, attempt>>  BY <1>4, <2>2, SettleStep DEF RefundStep
  <2>. QED  BY <2>1, <2>2
<1>. QED
  BY <1>1, <1>2, <1>3, <1>4
  DEF Next, Time, RequestReturn, AdvanceReturn, Call, Fail, Read, vars

\* PaidFirst: a worker settles only after its call of the provider.
LEMMA PaidFirstNext == RInv /\ PaidFirst /\ [Next]_vars => PaidFirst'
<1>. SUFFICES ASSUME RInv, PaidFirst, [Next]_vars PROVE PaidFirst'  OBVIOUS
<1>1. CASE UNCHANGED <<worker, paid>>  BY <1>1 DEF PaidFirst
<1>2. ASSUME NEW w \in Workers, NEW row, paid \subseteq paid',
             worker' = [worker EXCEPT ![w] = row],
             row.pc = "settle" => row.refund \in paid'
      PROVE  PaidFirst'
  <2>1. \A v \in Workers : worker'[v] = IF v = w THEN row ELSE worker[v]
    BY <1>2 DEF RInv, RowsInv
  <2>. QED  BY <1>2, <2>1 DEF PaidFirst
<1>3. ASSUME NEW w \in Workers, Call(w) PROVE PaidFirst'
  <2>1. worker[w] \in [pc: {"call", "settle"}, refund: Refs]
    BY <1>3 DEF Call, RInv, RowsInv, Idle
  <2>2. PICK row \in {Idle, [worker[w] EXCEPT !.pc = "settle"]} :
          worker' = [worker EXCEPT ![w] = row]
    BY <1>3 DEF Call
  <2>3. row.pc = "settle" => row.refund = worker[w].refund  BY <2>1, <2>2 DEF Idle
  <2>. QED  BY <1>2, <1>3, <2>2, <2>3 DEF Call
<1>4. ASSUME NEW w \in Workers, NEW f \in Refs, Read(w, f) PROVE PaidFirst'
  BY <1>2, <1>4 DEF Read
<1>5. ASSUME NEW w \in Workers, worker' = [worker EXCEPT ![w] = Idle], paid' = paid
      PROVE  PaidFirst'
  BY <1>2, <1>5 DEF Idle
<1>. QED
  BY <1>1, <1>3, <1>4, <1>5
  DEF Next, Time, RequestReturn, AdvanceReturn, RequestRefund, Decide, Settle, Fail, vars

-------------------------------------------------------------------------------
NewReturn(r, row) == /\ rma[r] = None
                     /\ row.quantity + Units(rma, Standing(rma, row.order)) <= Quantity
ChangedReturn(r, row) == /\ rma[r] \in Return /\ row.order = rma[r].order
                         /\ row.quantity = rma[r].quantity
                         /\ rma[r].status # "rejected"
ReturnStep ==
  \/ rma' = rma
  \/ \E r \in Returns, row \in Return :
       rma' = [rma EXCEPT ![r] = row] /\ (NewReturn(r, row) \/ ChangedReturn(r, row))

LEMMA StatusStep ==
  ASSUME RInv, NEW r \in Returns, rma[r] # None, rma[r].status # "rejected",
         NEW to \in ReturnStatus, rma' = [rma EXCEPT ![r].status = to]
  PROVE  ReturnStep
<1>. DEFINE new == [rma[r] EXCEPT !.status = to]
<1>1. rma[r] \in Return  BY DEF RInv, RowsInv
<1>2. new \in Return  BY <1>1 DEF Return
<1>3. ChangedReturn(r, new)  BY <1>1 DEF ChangedReturn, Return
<1>. QED  BY <1>2, <1>3 DEF ReturnStep

LEMMA StepsOfReturns == RInv /\ [Next]_vars => ReturnStep
<1>. SUFFICES ASSUME RInv, [Next]_vars PROVE ReturnStep  OBVIOUS
<1>1. CASE rma' = rma  BY <1>1 DEF ReturnStep
<1>2. ASSUME NEW r \in Returns, NEW o \in Orders, NEW q \in 1..Quantity, RequestReturn(r, o, q)
      PROVE  ReturnStep
  <2>. DEFINE new == [order |-> o, quantity |-> q, status |-> "requested"]
  <2>1. new \in Return  BY DEF Return, ReturnStatus
  <2>2. NewReturn(r, new)
    <3>1. new.order = o /\ new.quantity = q  OBVIOUS
    <3>. HIDE DEF new
    <3>. QED  BY <1>2, <3>1, SumsAre DEF RequestReturn, NewReturn
  <2>. QED  BY <1>2, <2>1, <2>2 DEF ReturnStep, RequestReturn
<1>3. ASSUME NEW r \in Returns, NEW to \in ReturnStatus, AdvanceReturn(r, to) PROVE ReturnStep
  BY <1>3, StatusStep DEF AdvanceReturn, Advances, Rejections
<1>4. ASSUME NEW r \in Returns, rma' = Marked(r), Inspected(r) PROVE ReturnStep
  BY <1>4, StatusStep DEF Marked, Inspected, ReturnStatus
<1>5. ASSUME NEW f \in Refs, NEW by \in Staff, NEW o \in Orders,
             NEW r \in Returns \cup {None}, NEW n \in Amounts, RequestRefund(f, by, o, r, n)
      PROVE  ReturnStep
  BY <1>1, <1>4, <1>5 DEF RequestRefund
<1>6. ASSUME NEW f \in Refs, NEW by \in Staff, NEW verdict \in {"approved", "rejected"},
             Decide(f, by, verdict)
      PROVE  ReturnStep
  <2>1. refund[f] \in Refund  BY <1>6 DEF Decide, RInv, RowsInv
  <2>2. refund[f].return \in Returns \cup {None}  BY <2>1 DEF Refund
  <2>. QED  BY <1>1, <1>4, <1>6, <2>2 DEF Decide, StillInspected
<1>7. ASSUME NEW w \in Workers, Settle(w) PROVE ReturnStep
  <2>0. worker[w].pc = "settle"  BY <1>7 DEF Settle
  <2>1. PICK f \in Refs : f = worker[w].refund /\ GoneOut(f) /\ refund[f] \in Refund
    <3>1. worker[w].refund \in Refs /\ GoneOut(worker[w].refund)  BY <2>0, WorkerHolds
    <3>2. refund[worker[w].refund] \in Refund  BY <3>1 DEF RInv, RowsInv, GoneOut
    <3>. QED  BY <3>1, <3>2
  <2>2. PICK r \in Returns \cup {None} : r = refund[f].return  BY <2>1 DEF Refund
  <2>3. CASE r # None /\ rma' = [rma EXCEPT ![r].status = "refunded"]
    <3>1. r \in Returns /\ rma[r] # None /\ rma[r].status # "rejected"
      BY <2>1, <2>2, <2>3 DEF RInv, LinkInv, PaidReturnsStand, GoneOut
    <3>. QED  BY <2>3, <3>1, StatusStep DEF ReturnStatus
  <2>. QED  BY <1>1, <1>7, <2>1, <2>2, <2>3 DEF Settle
<1>. QED
  BY <1>1, <1>2, <1>3, <1>5, <1>6, <1>7 DEF Next, Time, Call, Fail, Read, vars

-------------------------------------------------------------------------------
(***************************************************************************)
(* Within the capture                                                      *)
(***************************************************************************)
CaptureOk == \A o \in Orders : Amount(refund, Reserved(refund, o)) <= Captured

LEMMA CaptureNext == RInv /\ CaptureOk /\ RefundStep => CaptureOk'
<1>. SUFFICES ASSUME RInv, CaptureOk, RefundStep, NEW o \in Orders
              PROVE  Amount(refund', Reserved(refund', o)) <= Captured
  BY DEF CaptureOk
<1>1. CASE refund' = refund  BY <1>1 DEF CaptureOk
<1>2. ASSUME NEW f \in Refs, NEW row \in Refund, RefundWritten(f, row),
             NewRefund(f, row) \/ DecidedRefund(f, row) \/ SettledRefund(f, row)
      PROVE  Amount(refund', Reserved(refund', o)) <= Captured
  <2>. DEFINE S == Reserved(refund, o)
              T == Reserved(refund', o)
  <2>1. refund \in RefundTable /\ refund' = [refund EXCEPT ![f] = row]
    BY <1>2 DEF RInv, RowsInv, RefundTable, RefundWritten
  <2>2. refund'[f] = row /\ \A g \in Refs : g # f => refund'[g] = refund[g]
    BY <2>1 DEF RefundTable
  <2>3. /\ S \in SUBSET Refs /\ T \in SUBSET Refs /\ S \ {f} = T \ {f}
        /\ \A x \in S : refund[x] # None
        /\ \A x \in T : refund'[x] # None
    BY <2>2 DEF Reserved
  <2>4. /\ f \in S <=> refund[f] # None /\ refund[f].order = o /\ refund[f].status # "rejected"
        /\ f \in T <=> row.order = o /\ row.status # "rejected"
    BY <2>2, NoneAssumption DEF Reserved
  <2>5. Amount(refund, S) <= Captured  BY DEF CaptureOk
  <2>. HIDE DEF S, T
  <2>6. /\ Amount(refund, S) \in Nat /\ row.amount \in Nat
        /\ f \in S => refund[f].amount \in Nat /\ refund[f].amount <= Amount(refund, S)
        /\ f \notin S /\ f \notin T => Amount(refund', T) = Amount(refund, S)
        /\ f \notin S /\ f \in T => Amount(refund', T) = Amount(refund, S) + row.amount
        /\ f \in S /\ f \notin T => Amount(refund', T) = Amount(refund, S) - refund[f].amount
        /\ f \in S /\ f \in T =>
             Amount(refund', T) = Amount(refund, S) - refund[f].amount + row.amount
    <3>1. AmountEffect(refund, refund', f, row, S, T)  BY <2>1, <2>3, AmountChange
    <3>. QED  BY <3>1 DEF AmountEffect
  <2>7. Captured \in Nat  BY AmountsAssumption
  <2>8. CASE NewRefund(f, row)
    <3>1. f \notin S /\ (f \in T => row.order = o)  BY <2>4, <2>8 DEF NewRefund
    <3>2. row.order = o => row.amount + Amount(refund, S) <= Captured
      BY <2>8 DEF NewRefund, S
    <3>. QED  BY <2>5, <2>6, <2>7, <3>1, <3>2 DEF T
  <2>9. CASE DecidedRefund(f, row) \/ SettledRefund(f, row)
    <3>1. (f \in T => f \in S) /\ row.amount = refund[f].amount
      BY <2>4, <2>9, NoneAssumption DEF DecidedRefund, SettledRefund
    <3>. QED  BY <2>5, <2>6, <2>7, <3>1 DEF T
  <2>. QED  BY <1>2, <2>8, <2>9
<1>. QED  BY <1>1, <1>2 DEF RefundStep

-------------------------------------------------------------------------------
(***************************************************************************)
(* The attempt's books                                                     *)
(***************************************************************************)
BookedStatus(n) == IF n = 0 THEN "captured"
                   ELSE IF n = Captured THEN "refunded" ELSE "partially_refunded"
BooksOk ==
  /\ \A f \in Refs : refund[f] # None /\ refund[f].status = "refunded" => f \in paid
  /\ \A o \in Orders : /\ attempt[o].refunded = Amount(refund, Settled(refund, o))
                       /\ attempt[o].status = BookedStatus(attempt[o].refunded)

LEMMA PaidGrows == [Next]_vars => paid \subseteq paid'
BY DEF Next, Time, RequestReturn, AdvanceReturn, RequestRefund, Decide, Call, Fail, Read,
       Settle, vars

LEMMA BooksOkNext ==
  RInv /\ BooksInv /\ BooksOk /\ RefundStep /\ paid \subseteq paid' => BooksOk'
<1>. SUFFICES ASSUME RInv, BooksInv, BooksOk, RefundStep, paid \subseteq paid' PROVE BooksOk'
  OBVIOUS
<1>1. CASE refund' = refund /\ attempt' = attempt  BY <1>1 DEF BooksOk
<1>2. ASSUME NEW f \in Refs, NEW row \in Refund, RefundWritten(f, row),
             \/ (NewRefund(f, row) \/ DecidedRefund(f, row)) /\ attempt' = attempt
             \/ SettledRefund(f, row)
      PROVE  BooksOk'
  <2>1. refund \in RefundTable /\ refund' = [refund EXCEPT ![f] = row]
    BY <1>2 DEF RInv, RowsInv, RefundTable, RefundWritten
  <2>2. refund'[f] = row /\ \A g \in Refs : g # f => refund'[g] = refund[g]
    BY <2>1 DEF RefundTable
  <2>3. row.status = "refunded" => f \in paid
    BY <1>2 DEF NewRefund, DecidedRefund, SettledRefund
  <2>4. \A g \in Refs : refund'[g] # None /\ refund'[g].status = "refunded" => g \in paid'
    BY <2>2, <2>3 DEF BooksOk
  <2>5. ASSUME NEW o \in Orders
        PROVE  /\ attempt'[o].refunded = Amount(refund', Settled(refund', o))
               /\ attempt'[o].status = BookedStatus(attempt'[o].refunded)
    <3>. DEFINE S == Settled(refund, o)
                T == Settled(refund', o)
    <3>1. /\ S \in SUBSET Refs /\ T \in SUBSET Refs /\ S \ {f} = T \ {f}
          /\ \A x \in S : refund[x] # None
          /\ \A x \in T : refund'[x] # None
      BY <2>2 DEF Settled
    <3>2. /\ f \in S <=> refund[f] # None /\ refund[f].order = o /\ refund[f].status = "refunded"
          /\ f \in T <=> row.order = o /\ row.status = "refunded"
      BY <2>2, NoneAssumption DEF Settled
    <3>3. /\ attempt[o].refunded = Amount(refund, S)
          /\ attempt[o].status = BookedStatus(attempt[o].refunded)
      BY DEF BooksOk
    <3>. HIDE DEF S, T
    <3>4. /\ Amount(refund, S) \in Nat /\ row.amount \in Nat
          /\ f \notin S /\ f \notin T => Amount(refund', T) = Amount(refund, S)
          /\ f \notin S /\ f \in T => Amount(refund', T) = Amount(refund, S) + row.amount
      <4>1. AmountEffect(refund, refund', f, row, S, T)  BY <2>1, <3>1, AmountChange
      <4>. QED  BY <4>1 DEF AmountEffect
    <3>5. f \notin S
      BY <1>2, <3>2 DEF NewRefund, DecidedRefund, SettledRefund
    <3>6. CASE NewRefund(f, row) \/ DecidedRefund(f, row)
      <4>1. f \notin T  BY <3>2, <3>6 DEF NewRefund, DecidedRefund
      <4>2. attempt'[o] = attempt[o]
        BY <1>2, <3>6 DEF NewRefund, DecidedRefund, SettledRefund
      <4>. QED  BY <3>3, <3>4, <3>5, <4>1, <4>2 DEF T
    <3>7. CASE SettledRefund(f, row)
      <4>1. f \in T <=> row.order = o  BY <3>2, <3>7 DEF SettledRefund
      <4>2. CASE row.order # o
        <5>1. attempt'[o] = attempt[o]  BY <3>7, <4>2 DEF SettledRefund, BooksInv
        <5>. QED  BY <3>3, <3>4, <3>5, <4>1, <4>2, <5>1 DEF T
      <4>3. CASE row.order = o
        <5>1. /\ attempt'[o].refunded = attempt[o].refunded + row.amount
              /\ attempt'[o].status = AttemptStatusAfter(attempt[o], row.amount)
          BY <3>7, <4>3 DEF SettledRefund, BooksInv
        <5>2. attempt'[o].refunded = Amount(refund', T)  BY <3>3, <3>4, <3>5, <4>1, <4>3, <5>1
        <5>3. attempt[o].refunded \in Nat /\ row.amount \in Nat \ {0}
          BY AmountsAssumption DEF BooksInv, Refund
        <5>4. attempt'[o].status = BookedStatus(attempt'[o].refunded)
          BY <5>1, <5>3 DEF AttemptStatusAfter, BookedStatus
        <5>. QED  BY <5>2, <5>4 DEF T
      <4>. QED  BY <4>2, <4>3
    <3>. QED  BY <1>2, <3>6, <3>7
  <2>. QED  BY <2>4, <2>5 DEF BooksOk
<1>. QED  BY <1>1, <1>2 DEF RefundStep

-------------------------------------------------------------------------------
(***************************************************************************)
(* The goods are refunded once                                             *)
(***************************************************************************)
\* The value of the goods of a return, by the table of the returns.
EligibleIn(M, r) == (LineTotal * M[r].quantity) \div Quantity

\* A refund for a return is for its order and within the value of its goods.
LinksOk == \A f \in Refs : refund[f] # None /\ refund[f].return # None =>
  /\ rma[refund[f].return].order = refund[f].order
  /\ refund[f].amount <= EligibleIn(rma, refund[f].return)

UnitsOk == \A o \in Orders : Units(rma, Standing(rma, o)) <= Quantity

\* The returns that a set of refunds paid for.
PaidFor(R, S) == {R[f].return : f \in S}
ValueOk(R, M, o) == Amount(R, OutGoods(R, o)) * Quantity
                      <= LineTotal * Units(M, PaidFor(R, OutGoods(R, o)))
GoodsOk == \A o \in Orders : ValueOk(refund, rma, o)

\* A return that was made keeps its order and its quantity.
LEMMA ReturnsKept ==
  ASSUME RInv, ReturnStep, NEW r \in Returns, rma[r] # None
  PROVE  /\ rma'[r] # None /\ rma'[r].order = rma[r].order
         /\ rma'[r].quantity = rma[r].quantity /\ EligibleIn(rma', r) = EligibleIn(rma, r)
<1>1. rma \in ReturnTable  BY DEF RInv, RowsInv, ReturnTable
<1>2. /\ rma'[r] # None /\ rma'[r].order = rma[r].order
      /\ rma'[r].quantity = rma[r].quantity
  BY <1>1, NoneAssumption DEF ReturnStep, ReturnTable, NewReturn, ChangedReturn
<1>. QED  BY <1>2 DEF EligibleIn

LEMMA LinksNext == RInv /\ LinksOk /\ RefundStep /\ ReturnStep => LinksOk'
<1>. SUFFICES ASSUME RInv, LinksOk, RefundStep, ReturnStep,
                     NEW g \in Refs, refund'[g] # None, refund'[g].return # None
              PROVE  /\ rma'[refund'[g].return].order = refund'[g].order
                     /\ refund'[g].amount <= EligibleIn(rma', refund'[g].return)
  BY DEF LinksOk
<1>1. ASSUME NEW r \in Returns, rma[r] # None, refund'[g].return = r,
             rma[r].order = refund'[g].order, refund'[g].amount <= EligibleIn(rma, r)
      PROVE  /\ rma'[refund'[g].return].order = refund'[g].order
             /\ refund'[g].amount <= EligibleIn(rma', refund'[g].return)
  <2>1. rma'[r].order = rma[r].order /\ EligibleIn(rma', r) = EligibleIn(rma, r)
    BY <1>1, ReturnsKept
  <2>. QED  BY <1>1, <2>1
<1>2. CASE refund'[g] = refund[g]
  <2>1. refund[g].return \in Returns /\ rma[refund[g].return] # None
    BY <1>2 DEF RInv, RowsInv, LinkInv, Refund
  <2>. QED  BY <1>1, <1>2, <2>1 DEF LinksOk
<1>3. ASSUME NEW row \in Refund, refund'[g] = row,
             NewRefund(g, row) \/ DecidedRefund(g, row) \/ SettledRefund(g, row)
      PROVE  /\ rma'[refund'[g].return].order = refund'[g].order
             /\ refund'[g].amount <= EligibleIn(rma', refund'[g].return)
  <2>1. row.return \in Returns  BY <1>3 DEF Refund
  <2>2. CASE NewRefund(g, row)
    BY <1>1, <1>3, <2>1, <2>2 DEF NewRefund, Eligible, EligibleIn
  <2>3. CASE DecidedRefund(g, row) \/ SettledRefund(g, row)
    <3>1. /\ refund[g] \in Refund /\ row.order = refund[g].order
          /\ row.return = refund[g].return /\ row.amount = refund[g].amount
      BY <2>3 DEF DecidedRefund, SettledRefund
    <3>2. refund[g] # None  BY <3>1, NoneAssumption
    <3>3. rma[row.return] # None  BY <1>3, <3>1, <3>2 DEF RInv, LinkInv
    <3>4. rma[row.return].order = row.order /\ row.amount <= EligibleIn(rma, row.return)
      BY <1>3, <3>1, <3>2 DEF LinksOk
    <3>. QED  BY <1>1, <1>3, <2>1, <3>3, <3>4
  <2>. QED  BY <1>3, <2>2, <2>3
<1>4. ASSUME NEW f \in Refs, NEW row \in Refund, RefundWritten(f, row)
      PROVE  refund'[g] = refund[g] \/ (g = f /\ refund'[g] = row)
  BY <1>4 DEF RefundWritten, RInv, RowsInv
<1>. QED  BY <1>2, <1>3, <1>4 DEF RefundStep

LEMMA UnitsNext == RInv /\ UnitsOk /\ ReturnStep => UnitsOk'
<1>. SUFFICES ASSUME RInv, UnitsOk, ReturnStep, NEW o \in Orders
              PROVE  Units(rma', Standing(rma', o)) <= Quantity
  BY DEF UnitsOk
<1>1. CASE rma' = rma  BY <1>1 DEF UnitsOk
<1>2. ASSUME NEW r \in Returns, NEW row \in Return, rma' = [rma EXCEPT ![r] = row],
             NewReturn(r, row) \/ ChangedReturn(r, row)
      PROVE  Units(rma', Standing(rma', o)) <= Quantity
  <2>. DEFINE S == Standing(rma, o)
              T == Standing(rma', o)
  <2>1. rma \in ReturnTable  BY DEF RInv, RowsInv, ReturnTable
  <2>2. rma'[r] = row /\ \A p \in Returns : p # r => rma'[p] = rma[p]
    BY <1>2, <2>1 DEF ReturnTable
  <2>3. /\ S \in SUBSET Returns /\ T \in SUBSET Returns /\ S \ {r} = T \ {r}
        /\ \A x \in S : rma[x] # None
        /\ \A x \in T : rma'[x] # None
    BY <2>2 DEF Standing
  <2>4. /\ r \in S <=> rma[r] # None /\ rma[r].order = o /\ rma[r].status # "rejected"
        /\ r \in T <=> row.order = o /\ row.status # "rejected"
    BY <2>2, NoneAssumption DEF Standing
  <2>5. Units(rma, S) <= Quantity  BY DEF UnitsOk
  <2>. HIDE DEF S, T
  <2>6. /\ Units(rma, S) \in Nat /\ row.quantity \in Nat
        /\ r \in S => rma[r].quantity \in Nat /\ rma[r].quantity <= Units(rma, S)
        /\ r \notin S /\ r \notin T => Units(rma', T) = Units(rma, S)
        /\ r \notin S /\ r \in T => Units(rma', T) = Units(rma, S) + row.quantity
        /\ r \in S /\ r \notin T => Units(rma', T) = Units(rma, S) - rma[r].quantity
        /\ r \in S /\ r \in T =>
             Units(rma', T) = Units(rma, S) - rma[r].quantity + row.quantity
    <3>1. UnitsEffect(rma, rma', r, row, S, T)  BY <1>2, <2>1, <2>3, UnitsChange
    <3>. QED  BY <3>1 DEF UnitsEffect
  <2>7. Quantity \in Nat  BY AmountsAssumption
  <2>8. CASE NewReturn(r, row)
    <3>1. r \notin S /\ (r \in T => row.order = o)  BY <2>4, <2>8 DEF NewReturn
    <3>2. row.order = o => row.quantity + Units(rma, S) <= Quantity
      BY <2>8 DEF NewReturn, S
    <3>. QED  BY <2>5, <2>6, <2>7, <3>1, <3>2 DEF T
  <2>9. CASE ChangedReturn(r, row)
    <3>1. (r \in T => r \in S) /\ row.quantity = rma[r].quantity
      BY <2>4, <2>9, NoneAssumption DEF ChangedReturn
    <3>. QED  BY <2>5, <2>6, <2>7, <3>1 DEF T
  <2>. QED  BY <1>2, <2>8, <2>9
<1>. QED  BY <1>1, <1>2 DEF ReturnStep

\* Units of returns that were made are the same after the step.
LEMMA UnitsKept ==
  ASSUME RInv, ReturnStep, NEW S \in SUBSET Returns, \A r \in S : rma[r] # None
  PROVE  Units(rma', S) = Units(rma, S)
<1>. DEFINE a == [r \in S |-> rma[r].quantity]
            b == [r \in S |-> rma'[r].quantity]
<1>1. \A r \in S : a[r] = b[r]  BY ReturnsKept
<1>2. IsFiniteSet(S)  BY FS_Subset, FiniteAssumption
<1>3. Units(rma, S) = SumFunctionOnSet(a, S) /\ Units(rma', S) = SumFunctionOnSet(b, S)
  BY DEF Units
<1>. HIDE DEF a, b
<1>. QED  BY <1>1, <1>2, <1>3, SumSame

\* One more return among those whose units are counted.
LEMMA UnitsAdded ==
  ASSUME NEW M \in ReturnTable, NEW S \in SUBSET Returns, NEW r \in Returns, r \notin S,
         M[r] # None, \A x \in S : M[x] # None
  PROVE  /\ Units(M, S) \in Nat /\ M[r].quantity \in Nat
         /\ Units(M, S \cup {r}) = Units(M, S) + M[r].quantity
<1>1. M[r] \in Return /\ M = [M EXCEPT ![r] = M[r]]  BY DEF ReturnTable
<1>2. S \cup {r} \in SUBSET Returns /\ S \ {r} = (S \cup {r}) \ {r}  OBVIOUS
<1>3. UnitsEffect(M, M, r, M[r], S, S \cup {r})  BY <1>1, <1>2, UnitsChange
<1>. QED  BY <1>3 DEF UnitsEffect

\* What an eligible amount is worth.
LEMMA EligibleValue ==
  ASSUME NEW L \in Nat, NEW q \in Nat, NEW Q \in Nat \ {0}, NEW n \in Nat,
         n <= (L * q) \div Q
  PROVE  n * Q <= L * q
<1>. DEFINE p == L * q
            e == p \div Q
<1>1. p \in Nat  OBVIOUS
<1>. HIDE DEF p
<1>2. e \in Nat /\ e * Q <= p  BY <1>1
<1>3. n <= e  BY DEF p
<1>. HIDE DEF e
<1>4. n * Q <= e * Q  BY <1>2, <1>3
<1>5. n * Q \in Nat /\ e * Q \in Nat  BY <1>2
<1>. QED  BY <1>1, <1>2, <1>4, <1>5 DEF p

LEMMA Distributes ==
  ASSUME NEW A \in Nat, NEW n \in Nat, NEW Q \in Nat, NEW L \in Nat, NEW U \in Nat,
         NEW q \in Nat, A * Q <= L * U, n * Q <= L * q
  PROVE  (A + n) * Q <= L * (U + q)
<1>1. (A + n) * Q = A * Q + n * Q /\ L * (U + q) = L * U + L * q  OBVIOUS
<1>2. A * Q \in Nat /\ n * Q \in Nat /\ L * U \in Nat /\ L * q \in Nat  OBVIOUS
<1>. QED  BY <1>1, <1>2

\* A refund goes out for an inspected return: the return is counted for the
\* first time.
LEMMA GoesOut ==
  ASSUME RInv, NEW o \in Orders, ValueOk(refund, rma, o),
         NEW f \in Refs, NEW row \in Refund, RefundWritten(f, row),
         f \notin OutGoods(refund, o), f \in OutGoods(refund', o),
         row.return # None, rma[row.return] # None,
         rma[row.return].status = "inspected", row.amount <= EligibleIn(rma, row.return)
  PROVE  ValueOk(refund', rma, o)
<1>. DEFINE S == OutGoods(refund, o)
            T == OutGoods(refund', o)
            P == PaidFor(refund, S)
            r == row.return
<1>1. refund \in RefundTable /\ refund' = [refund EXCEPT ![f] = row] /\ rma \in ReturnTable
  BY DEF RInv, RowsInv, RefundTable, ReturnTable, RefundWritten
<1>2. refund'[f] = row /\ \A g \in Refs : g # f => refund'[g] = refund[g]
  BY <1>1 DEF RefundTable
<1>3. /\ S \in SUBSET Refs /\ T \in SUBSET Refs /\ S \ {f} = T \ {f} /\ T = S \cup {f}
      /\ \A x \in S : refund[x] # None
      /\ \A x \in T : refund'[x] # None
  BY <1>2 DEF OutGoods
<1>4. /\ Amount(refund, S) \in Nat /\ row.amount \in Nat
      /\ Amount(refund', T) = Amount(refund, S) + row.amount
  <2>. HIDE DEF S, T
  <2>1. AmountEffect(refund, refund', f, row, S, T)  BY <1>1, <1>3, AmountChange
  <2>. QED  BY <2>1 DEF AmountEffect, S, T
<1>5. r \in Returns  BY DEF Refund
<1>6. /\ P \in SUBSET Returns /\ r \notin P
      /\ \A x \in P : rma[x] # None
  <2>1. \A g \in S : GoneOut(g) /\ refund[g].return # None  BY DEF OutGoods, GoneOut
  <2>2. \A g \in S : refund[g].return \in Returns /\ rma[refund[g].return] # None
    BY <2>1 DEF RInv, RowsInv, LinkInv, Refund, OutGoods
  <2>3. \A g \in S : refund[g].return # r
    BY <2>1 DEF RInv, PaidReturnsStand, GoneOut, OutGoods
  <2>. QED  BY <2>2, <2>3 DEF PaidFor
<1>7. PaidFor(refund', T) = P \cup {r}  BY <1>2, <1>3 DEF PaidFor
<1>8. /\ Units(rma, P) \in Nat /\ rma[r].quantity \in Nat
      /\ Units(rma, P \cup {r}) = Units(rma, P) + rma[r].quantity
  <2>1. rma[r] # None  OBVIOUS
  <2>. HIDE DEF P, r
  <2>. QED  BY <1>1, <1>5, <1>6, <2>1, UnitsAdded
<1>9. row.amount * Quantity <= LineTotal * rma[r].quantity
  <2>. DEFINE q == rma[r].quantity
              n == row.amount
  <2>1. q \in Nat /\ n \in Nat /\ n <= (LineTotal * q) \div Quantity
    BY <1>4, <1>8 DEF EligibleIn
  <2>. HIDE DEF q, n
  <2>2. n * Quantity <= LineTotal * q  BY <2>1, AmountsAssumption, EligibleValue
  <2>. QED  BY <2>2 DEF q, n
<1>10. Amount(refund, S) * Quantity <= LineTotal * Units(rma, P)  BY DEF ValueOk
<1>11. (Amount(refund, S) + row.amount) * Quantity
         <= LineTotal * (Units(rma, P) + rma[r].quantity)
  <2>1. Quantity \in Nat /\ LineTotal \in Nat  BY AmountsAssumption
  <2>. HIDE DEF S, P, r
  <2>. QED  BY <1>4, <1>8, <1>9, <1>10, <2>1, Distributes
<1>. HIDE DEF P, r
<1>. QED  BY <1>4, <1>7, <1>8, <1>11 DEF ValueOk

LEMMA RefundStepValue ==
  ASSUME RInv, LinksOk, RefundStep, NEW o \in Orders, ValueOk(refund, rma, o)
  PROVE  ValueOk(refund', rma, o)
<1>1. CASE refund' = refund  BY <1>1 DEF ValueOk
<1>2. ASSUME NEW f \in Refs, NEW row \in Refund, RefundWritten(f, row),
             NewRefund(f, row) \/ DecidedRefund(f, row) \/ SettledRefund(f, row)
      PROVE  ValueOk(refund', rma, o)
  <2>. DEFINE S == OutGoods(refund, o)
              T == OutGoods(refund', o)
  <2>1. refund \in RefundTable /\ refund' = [refund EXCEPT ![f] = row]
    BY <1>2 DEF RInv, RowsInv, RefundTable, RefundWritten
  <2>2. refund'[f] = row /\ \A g \in Refs : g # f => refund'[g] = refund[g]
    BY <2>1 DEF RefundTable
  <2>3. /\ S \in SUBSET Refs /\ T \in SUBSET Refs /\ S \ {f} = T \ {f}
        /\ \A x \in S : refund[x] # None
        /\ \A x \in T : refund'[x] # None
    BY <2>2 DEF OutGoods
  <2>4. /\ f \in S <=> /\ refund[f] # None /\ refund[f].order = o /\ refund[f].return # None
                       /\ refund[f].status \in {"refund_pending", "refunded"}
        /\ f \in T <=> /\ row.order = o /\ row.return # None
                       /\ row.status \in {"refund_pending", "refunded"}
    BY <2>2, NoneAssumption DEF OutGoods
  <2>5. AmountEffect(refund, refund', f, row, S, T)
    <3>. HIDE DEF S, T
    <3>. QED  BY <2>1, <2>3, AmountChange
  <2>6. CASE f \notin S /\ f \notin T
    <3>1. S = T  BY <2>3, <2>6
    <3>2. Amount(refund', T) = Amount(refund, S)  BY <2>5, <2>6 DEF AmountEffect
    <3>3. \A g \in S : refund'[g].return = refund[g].return  BY <2>2, <2>3, <2>6
    <3>4. PaidFor(refund', T) = PaidFor(refund, S)
      <4>. HIDE DEF S, T
      <4>. QED  BY <3>1, <3>3 DEF PaidFor
    <3>. QED  BY <3>2, <3>4 DEF ValueOk
  <2>7. CASE SettledRefund(f, row)
    <3>1. f \in S <=> f \in T  BY <2>4, <2>7, NoneAssumption DEF SettledRefund
    <3>2. S = T  BY <2>3, <3>1
    <3>3. row.amount = refund[f].amount /\ row.return = refund[f].return
      BY <2>7 DEF SettledRefund
    <3>4. CASE f \in S
      <4>1. Amount(refund', T) = Amount(refund, S)
        BY <2>5, <3>1, <3>3, <3>4 DEF AmountEffect
      <4>2. \A g \in S : refund'[g].return = refund[g].return  BY <2>2, <2>3, <3>3
      <4>3. PaidFor(refund', T) = PaidFor(refund, S)
        <5>. HIDE DEF S, T
        <5>. QED  BY <3>2, <4>2 DEF PaidFor
      <4>. QED  BY <4>1, <4>3 DEF ValueOk
    <3>. QED  BY <2>6, <3>1, <3>4
  <2>8. CASE (NewRefund(f, row) \/ DecidedRefund(f, row)) /\ f \in T
    <3>1. f \notin S  BY <2>4, <2>8 DEF NewRefund, DecidedRefund
    <3>2. row.return # None  BY <2>4, <2>8
    <3>3. /\ rma[row.return] # None /\ rma[row.return].status = "inspected"
          /\ row.amount <= EligibleIn(rma, row.return)
      <4>1. CASE NewRefund(f, row)  BY <3>2, <4>1 DEF NewRefund, Eligible, EligibleIn
      <4>2. CASE DecidedRefund(f, row)
        <5>1. refund[f] # None /\ row.return = refund[f].return /\ row.amount = refund[f].amount
          BY <4>2, NoneAssumption DEF DecidedRefund
        <5>2. rma[row.return].status = "inspected"
          BY <2>4, <2>8, <3>2, <4>2 DEF DecidedRefund
        <5>. QED  BY <3>2, <5>1, <5>2 DEF RInv, LinkInv, LinksOk
      <4>. QED  BY <2>8, <4>1, <4>2
    <3>. QED  BY <1>2, <2>8, <3>1, <3>2, <3>3, GoesOut
  <2>9. f \in S => SettledRefund(f, row)
    BY <1>2, <2>4 DEF NewRefund, DecidedRefund
  <2>. QED  BY <1>2, <2>6, <2>7, <2>8, <2>9
<1>. QED  BY <1>1, <1>2 DEF RefundStep

LEMMA GoodsNext ==
  RInv /\ RInv' /\ LinksOk /\ GoodsOk /\ RefundStep /\ ReturnStep => GoodsOk'
<1>. SUFFICES ASSUME RInv, RInv', LinksOk, GoodsOk, RefundStep, ReturnStep, NEW o \in Orders
              PROVE  ValueOk(refund', rma', o)
  BY DEF GoodsOk
<1>. DEFINE P == PaidFor(refund', OutGoods(refund', o))
<1>1. ValueOk(refund', rma, o)  BY RefundStepValue DEF GoodsOk
<1>2. P \in SUBSET Returns /\ \A r \in P : rma[r] # None
  <2>1. ASSUME NEW f \in Refs, refund'[f] # None, refund'[f].return # None
        PROVE  refund'[f].return \in Returns /\ rma[refund'[f].return] # None
    <3>1. refund'[f] \in Refund  BY <2>1 DEF RInv, RowsInv
    <3>2. refund'[f].return \in Returns  BY <2>1, <3>1 DEF Refund
    <3>3. CASE refund'[f] = refund[f]  BY <2>1, <3>2, <3>3 DEF RInv, LinkInv
    <3>4. ASSUME NEW row \in Refund, refund'[f] = row,
                 NewRefund(f, row) \/ DecidedRefund(f, row) \/ SettledRefund(f, row)
          PROVE  rma[row.return] # None
      BY <2>1, <3>4, NoneAssumption
      DEF NewRefund, DecidedRefund, SettledRefund, RInv, LinkInv
    <3>5. ASSUME NEW g \in Refs, NEW row \in Refund, RefundWritten(g, row)
          PROVE  refund'[f] = refund[f] \/ (g = f /\ refund'[f] = row)
      BY <3>5 DEF RefundWritten, RInv, RowsInv
    <3>. QED  BY <3>2, <3>3, <3>4, <3>5 DEF RefundStep
  <2>. QED  BY <2>1 DEF PaidFor, OutGoods
<1>3. Units(rma', P) = Units(rma, P)
  <2>. HIDE DEF P
  <2>. QED  BY <1>2, UnitsKept
<1>. QED  BY <1>1, <1>3 DEF ValueOk

-------------------------------------------------------------------------------
MoneyInv == PaidFirst /\ CaptureOk /\ BooksOk /\ LinksOk /\ UnitsOk /\ GoodsOk

LEMMA NoRefunds ==
  ASSUME Init, NEW o \in Orders
  PROVE  /\ Amount(refund, Reserved(refund, o)) = 0
         /\ Amount(refund, Settled(refund, o)) = 0
         /\ Amount(refund, OutGoods(refund, o)) = 0
         /\ Units(rma, Standing(rma, o)) = 0
         /\ Units(rma, PaidFor(refund, OutGoods(refund, o))) = 0
<1>1. /\ Reserved(refund, o) = {} /\ Settled(refund, o) = {} /\ OutGoods(refund, o) = {}
      /\ Standing(rma, o) = {}
  BY DEF Init, Reserved, Settled, OutGoods, Standing
<1>2. PaidFor(refund, {}) = {}  BY DEF PaidFor
<1>3. Amount(refund, {}) = 0 /\ Units(rma, {}) = 0  BY SumEmpty DEF Amount, Units
<1>. QED  BY <1>1, <1>2, <1>3

LEMMA MoneyInit == Init => MoneyInv
<1>. SUFFICES ASSUME Init PROVE MoneyInv  OBVIOUS
<1>1. PaidFirst  BY DEF Init, Idle, PaidFirst
<1>2. LinksOk  BY DEF Init, LinksOk
<1>3. CaptureOk /\ UnitsOk  BY NoRefunds, AmountsAssumption DEF CaptureOk, UnitsOk
<1>4. BooksOk  BY NoRefunds DEF Init, BooksOk, BookedStatus
<1>5. GoodsOk
  <2>1. 0 * Quantity = 0 /\ LineTotal * 0 = 0  BY AmountsAssumption
  <2>. QED  BY NoRefunds, <2>1 DEF GoodsOk, ValueOk
<1>. QED  BY <1>1, <1>2, <1>3, <1>4, <1>5 DEF MoneyInv

LEMMA MoneyNext == RInv /\ RInv' /\ BooksInv /\ MoneyInv /\ [Next]_vars => MoneyInv'
<1>. SUFFICES ASSUME RInv, RInv', BooksInv, MoneyInv, [Next]_vars PROVE MoneyInv'  OBVIOUS
<1>1. RefundStep /\ ReturnStep  BY StepsOfRefunds, StepsOfReturns DEF MoneyInv
<1>. QED
  BY <1>1, PaidFirstNext, CaptureNext, BooksOkNext, PaidGrows, LinksNext, UnitsNext, GoodsNext
  DEF MoneyInv

LEMMA MoneyInvariant == Spec => [](RInv /\ BooksInv /\ MoneyInv)
<1>1. Init => BooksInv  BY DEF Init, BooksInv, AttemptStatus
<1>. QED  BY <1>1, RInvInit, RInvNext, BooksNext, MoneyInit, MoneyNext, PTL DEF Spec

\* The refunds of an order, requested or carried out, never exceed what was
\* captured: the amounts_valid constraint stops no settlement.
THEOREM RefundsCaptured == Spec => []RefundsWithinCapture
<1>1. MoneyInv => RefundsWithinCapture
  BY SumsAre DEF MoneyInv, CaptureOk, RefundsWithinCapture
<1>. QED  BY <1>1, MoneyInvariant, PTL

\* The attempt's refunded amount and status are what the settled refunds, each
\* paid by the provider, make them, however often settlements are repeated.
THEOREM RefundsBooked == Spec => []BooksMatchProvider
<1>1. MoneyInv => BooksMatchProvider
  BY SumsAre DEF MoneyInv, BooksOk, BookedStatus, BooksMatchProvider
<1>. QED  BY <1>1, MoneyInvariant, PTL

\* The standing returns of an order are of units that were bought, and what
\* went out for returned goods is within the value of the units returned.
THEOREM RefundsOfGoods == Spec => []GoodsRefundedOnce
<1>1. MoneyInv => GoodsRefundedOnce
  <2>. SUFFICES ASSUME UnitsOk, GoodsOk, NEW o \in Orders
                PROVE  /\ UnitsOf(StandingReturns(o)) <= Quantity
                       /\ LET out == {f \in RefundsOf(o) : refund[f].return # None /\ GoneOut(f)}
                          IN AmountOf(out) * Quantity
                               <= LineTotal * UnitsOf({refund[f].return : f \in out})
    BY DEF MoneyInv, GoodsRefundedOnce, StandingReturns
  <2>1. UnitsOf(StandingReturns(o)) <= Quantity  BY SumsAre DEF UnitsOk
  <2>2. {f \in RefundsOf(o) : refund[f].return # None /\ GoneOut(f)} = OutGoods(refund, o)
    BY DEF RefundsOf, GoneOut, OutGoods
  <2>3. ValueOk(refund, rma, o)  BY DEF GoodsOk
  <2>. QED  BY <2>1, <2>2, <2>3 DEF ValueOk, Amount, AmountOf, Units, UnitsOf, PaidFor
<1>. QED  BY <1>1, MoneyInvariant, PTL
================================================================================

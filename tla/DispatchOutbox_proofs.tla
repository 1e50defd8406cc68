------------------------ MODULE DispatchOutbox_proofs ------------------------
(* Theorems about DispatchOutbox for any rows, dispatchers, attempt limits *)
(* and broker bound.                                                       *)
EXTENDS DispatchOutbox, TLAPS

(* Every reachable state satisfies the inductive invariant. *)
THEOREM InductiveInvariant == Spec => []Inductive
<1>1. Init => Inductive
  BY MaxCopiesAssumption, NoneAssumption
  DEF Init, Inductive, TypeOK, OutboxRow, RowStatus, Claim, Idle, Authority,
      ClaimNamesRow, LiveIsPublishing, HeldCopies, ConfirmedHasCopy,
      PublishedIsDeliverable, HoldsToken
<1>2. Inductive /\ [Next]_vars => Inductive'
  <2> SUFFICES ASSUME Inductive, [Next]_vars PROVE Inductive'
    OBVIOUS
  <2> USE MaxAttemptsAssumption, MaxCopiesAssumption, NoneAssumption
  <2> USE DEF Inductive, TypeOK, OutboxRow, RowStatus, Claim, Idle, Authority,
      ClaimNamesRow, LiveIsPublishing, HeldCopies, ConfirmedHasCopy,
      PublishedIsDeliverable, HoldsToken
  <2>1. ASSUME NEW d \in Dispatcher, NEW r \in Row, ClaimNext(d, r) PROVE Inductive'
    BY <2>1 DEF ClaimNext, Eligible
  <2>2. ASSUME NEW d \in Dispatcher, NEW r \in Row, RecoverOne(d, r) PROVE Inductive'
    <3> USE DEF RecoverOne, AfterAttempt
    <3>1. TypeOK'
      <4>1. outbox' \in [Row -> OutboxRow]
        <5>1. outbox[r] \in OutboxRow
          OBVIOUS
        <5>2. outbox'[r] \in OutboxRow
          BY <2>2, <5>1
        <5>3. \A s \in Row : s # r => outbox'[s] = outbox[s]
          BY <2>2
        <5>4. DOMAIN outbox' = Row /\ outbox' = [s \in DOMAIN outbox' |-> outbox'[s]]
          BY <2>2
        <5> QED BY <5>2, <5>3, <5>4
      <4>2. disp' \in [Dispatcher -> Claim] /\ authority' \in [Row -> Authority]
        BY <2>2
      <4>3. broker' \in [Row -> 0..MaxCopies]
        BY <2>2
      <4>4. deferring' \in [Row -> Nat]
        BY <2>2
      <4> QED BY <4>1, <4>2, <4>3, <4>4
    <3>2. ClaimNamesRow'
      BY <2>2
    <3>3. LiveIsPublishing'
      BY <2>2
    <3>4. HeldCopies'
      BY <2>2
    <3>5. ConfirmedHasCopy'
      BY <2>2
    <3>6. PublishedIsDeliverable'
      BY <2>2
    <3> QED BY <3>1, <3>2, <3>3, <3>4, <3>5, <3>6
  <2>3. ASSUME NEW d \in Dispatcher, PublishConfirmed(d) PROVE Inductive'
    BY <2>3 DEF PublishConfirmed, Enqueue
  <2>4. ASSUME NEW d \in Dispatcher, PublishUnconfirmed(d) PROVE Inductive'
    <3> USE DEF PublishUnconfirmed, Enqueue
    <3>1. TypeOK'
      <4>1. outbox' \in [Row -> OutboxRow]
        BY <2>4
      <4>2. disp' \in [Dispatcher -> Claim] /\ authority' \in [Row -> Authority]
        BY <2>4
      <4>3. broker' \in [Row -> 0..MaxCopies]
        BY <2>4
      <4>4. deferring' \in [Row -> Nat]
        BY <2>4
      <4> QED BY <4>1, <4>2, <4>3, <4>4
    <3>2. ClaimNamesRow'
      BY <2>4
    <3>3. LiveIsPublishing'
      BY <2>4
    <3>4. HeldCopies'
      BY <2>4
    <3>5. ConfirmedHasCopy'
      BY <2>4
    <3>6. PublishedIsDeliverable'
      BY <2>4
    <3> QED BY <3>1, <3>2, <3>3, <3>4, <3>5, <3>6
  <2>5. ASSUME NEW d \in Dispatcher, MarkPublished(d) PROVE Inductive'
    <3> USE DEF MarkPublished
    <3>1. TypeOK'
      BY <2>5
    <3>2. ClaimNamesRow'
      BY <2>5
    <3>3. LiveIsPublishing'
      BY <2>5
    <3>4. HeldCopies'
      BY <2>5
    <3>5. ConfirmedHasCopy'
      BY <2>5
    <3>6. PublishedIsDeliverable'
      BY <2>5
    <3> QED BY <3>1, <3>2, <3>3, <3>4, <3>5, <3>6
  <2>6. ASSUME NEW d \in Dispatcher, ReleaseAfterPublishFailure(d) PROVE Inductive'
    <3> USE DEF ReleaseAfterPublishFailure, AfterAttempt
    <3>1. TypeOK'
      BY <2>6
    <3>2. ClaimNamesRow'
      BY <2>6
    <3>3. LiveIsPublishing'
      BY <2>6
    <3>4. HeldCopies'
      BY <2>6
    <3>5. ConfirmedHasCopy'
      BY <2>6
    <3>6. PublishedIsDeliverable'
      BY <2>6
    <3> QED BY <3>1, <3>2, <3>3, <3>4, <3>5, <3>6
  <2>7. ASSUME NEW d \in Dispatcher, DispatcherCrash(d) PROVE Inductive'
    <3> USE DEF DispatcherCrash, Enqueue
    <3>1. TypeOK'
      BY <2>7
    <3>2. ClaimNamesRow'
      BY <2>7
    <3>3. LiveIsPublishing'
      BY <2>7
    <3>4. HeldCopies'
      BY <2>7
    <3>5. ConfirmedHasCopy'
      BY <2>7
    <3>6. PublishedIsDeliverable'
      BY <2>7
    <3> QED BY <3>1, <3>2, <3>3, <3>4, <3>5, <3>6
  <2>8. ASSUME NEW r \in Row, LeaseExpires(r) PROVE Inductive'
    <3> USE DEF LeaseExpires
    <3>1. TypeOK'
      BY <2>8
    <3>2. ClaimNamesRow'
      BY <2>8
    <3>3. LiveIsPublishing'
      BY <2>8
    <3>4. HeldCopies'
      BY <2>8
    <3>5. ConfirmedHasCopy'
      BY <2>8
    <3>6. PublishedIsDeliverable'
      BY <2>8
    <3> QED BY <3>1, <3>2, <3>3, <3>4, <3>5, <3>6
  <2>9. ASSUME NEW r \in Row, ClaimExact(r) PROVE Inductive'
    <3> USE DEF ClaimExact, Delivered, AckOrLose, Ack
    <3>1. TypeOK'
      <4>1. outbox' \in [Row -> OutboxRow]
        BY <2>9
      <4>2. disp' \in [Dispatcher -> Claim] /\ authority' \in [Row -> Authority]
        BY <2>9
      <4>3. broker' \in [Row -> 0..MaxCopies]
        BY <2>9
      <4>4. deferring' \in [Row -> Nat]
        BY <2>9
      <4> QED BY <4>1, <4>2, <4>3, <4>4
    <3>2. ClaimNamesRow'
      BY <2>9
    <3>3. LiveIsPublishing'
      BY <2>9
    <3>4. HeldCopies'
      BY <2>9
    <3>5. ConfirmedHasCopy'
      BY <2>9
    <3>6. PublishedIsDeliverable'
      BY <2>9
    <3> QED BY <3>1, <3>2, <3>3, <3>4, <3>5, <3>6
  <2>10. ASSUME NEW r \in Row, DeliverDuplicate(r) PROVE Inductive'
    <3> USE DEF DeliverDuplicate, Delivered, AckOrLose, Ack
    <3>1. TypeOK'
      <4>1. outbox' \in [Row -> OutboxRow]
        BY <2>10
      <4>2. disp' \in [Dispatcher -> Claim] /\ authority' \in [Row -> Authority]
        BY <2>10
      <4>3. broker' \in [Row -> 0..MaxCopies]
        BY <2>10
      <4>4. deferring' \in [Row -> Nat]
        BY <2>10
      <4> QED BY <4>1, <4>2, <4>3, <4>4
    <3>2. ClaimNamesRow'
      BY <2>10
    <3>3. LiveIsPublishing'
      BY <2>10
    <3>4. HeldCopies'
      BY <2>10
    <3>5. ConfirmedHasCopy'
      BY <2>10
    <3>6. PublishedIsDeliverable'
      BY <2>10
    <3> QED BY <3>1, <3>2, <3>3, <3>4, <3>5, <3>6
  <2>11. ASSUME NEW r \in Row, DeliverStale(r) PROVE Inductive'
    BY <2>11 DEF DeliverStale, Delivered, Ack
  <2>12. ASSUME NEW r \in Row, CapacityVerdict(r) PROVE Inductive'
    BY <2>12 DEF CapacityVerdict, Delivered
  <2>13. ASSUME NEW r \in Row, DeferPublished(r) PROVE Inductive'
    <3> USE DEF DeferPublished, StillDeferrable, AckOrLose, Ack
    <3>1. TypeOK'
      <4>1. outbox' \in [Row -> OutboxRow]
        <5>1. outbox[r] \in OutboxRow
          OBVIOUS
        <5>2. outbox'[r] \in OutboxRow
          BY <2>13, <5>1
        <5>3. \A s \in Row : s # r => outbox'[s] = outbox[s]
          BY <2>13
        <5>4. DOMAIN outbox' = Row /\ outbox' = [s \in DOMAIN outbox' |-> outbox'[s]]
          BY <2>13
        <5> QED BY <5>2, <5>3, <5>4
      <4>2. disp' \in [Dispatcher -> Claim] /\ authority' \in [Row -> Authority]
        BY <2>13
      <4>3. broker' \in [Row -> 0..MaxCopies]
        BY <2>13
      <4>4. deferring' \in [Row -> Nat]
        BY <2>13
      <4> QED BY <4>1, <4>2, <4>3, <4>4
    <3>2. ClaimNamesRow'
      BY <2>13
    <3>3. LiveIsPublishing'
      BY <2>13
    <3>4. HeldCopies'
      BY <2>13
    <3>5. ConfirmedHasCopy'
      BY <2>13
    <3>6. PublishedIsDeliverable'
      BY <2>13
    <3> QED BY <3>1, <3>2, <3>3, <3>4, <3>5, <3>6
  <2>14. ASSUME NEW r \in Row, DeferUnconfirmed(r) PROVE Inductive'
    BY <2>14 DEF DeferUnconfirmed
  <2>15. ASSUME NEW r \in Row, Withdraw(r) PROVE Inductive'
    BY <2>15 DEF Withdraw
  <2>16. ASSUME UNCHANGED vars PROVE Inductive'
    BY <2>16 DEF vars
  <2> QED
    BY <2>1, <2>2, <2>3, <2>4, <2>5, <2>6, <2>7, <2>8, <2>9, <2>10, <2>11,
       <2>12, <2>13, <2>14, <2>15, <2>16
    DEF Next, DispatcherNext, WorkerNext, DeliverPublicationRace
<1> QED
  BY <1>1, <1>2, PTL DEF Spec

(* The state is well typed: broker counts stay within the bound and never *)
(* below zero. *)
THEOREM TypeCorrect == Spec => []TypeOK
<1>1. Inductive => TypeOK
  BY DEF Inductive
<1> QED
  BY <1>1, InductiveInvariant, PTL

(* No published row whose task waits for it is without a broker copy. *)
THEOREM NoLostPublication == Spec => []PublishedIsDeliverable
<1>1. Inductive => PublishedIsDeliverable
  BY DEF Inductive
<1> QED
  BY <1>1, InductiveInvariant, PTL

(* Only the holder of a live lease moves its row on, and only a confirmed *)
(* claim publishes it. *)
THEOREM LeasesFence == Spec => LeaseFences
<1> DEFINE Fenced(r) ==
      /\ (outbox[r].live /\ outbox'[r].status # "publishing") =>
           disp[outbox[r].token].row = r /\ disp'[outbox[r].token] = Idle
      /\ (outbox[r].status # "published" /\ outbox'[r].status = "published") =>
           outbox[r].live /\ disp[outbox[r].token] = [row |-> r, phase |-> "confirmed"]
<1>1. Inductive /\ [Next]_vars => [\A r \in Row : Fenced(r)]_vars
  <2> SUFFICES ASSUME Inductive, Next, NEW r \in Row PROVE Fenced(r)
    OBVIOUS
  <2> USE DEF Inductive, TypeOK, OutboxRow, RowStatus, Claim, Idle,
      ClaimNamesRow, LiveIsPublishing, HoldsToken
  <2>1. ASSUME NEW d \in Dispatcher, NEW s \in Row, ClaimNext(d, s) PROVE Fenced(r)
    BY <2>1 DEF ClaimNext, Eligible
  <2>2. ASSUME NEW d \in Dispatcher, NEW s \in Row, RecoverOne(d, s) PROVE Fenced(r)
    BY <2>2 DEF RecoverOne, AfterAttempt
  <2>3. ASSUME NEW d \in Dispatcher,
               PublishConfirmed(d) \/ PublishUnconfirmed(d) \/ DispatcherCrash(d)
        PROVE Fenced(r)
    BY <2>3 DEF PublishConfirmed, PublishUnconfirmed, DispatcherCrash
  <2>4. ASSUME NEW d \in Dispatcher, MarkPublished(d) PROVE Fenced(r)
    BY <2>4 DEF MarkPublished
  <2>5. ASSUME NEW d \in Dispatcher, ReleaseAfterPublishFailure(d) PROVE Fenced(r)
    BY <2>5 DEF ReleaseAfterPublishFailure, AfterAttempt
  <2>6. ASSUME NEW s \in Row, LeaseExpires(s) PROVE Fenced(r)
    BY <2>6 DEF LeaseExpires
  <2>7. ASSUME NEW s \in Row, ClaimExact(s) \/ DeliverDuplicate(s) PROVE Fenced(r)
    BY <2>7 DEF ClaimExact, DeliverDuplicate
  <2>8. ASSUME NEW s \in Row,
               DeliverStale(s) \/ CapacityVerdict(s) \/ DeferUnconfirmed(s) \/ Withdraw(s)
        PROVE Fenced(r)
    BY <2>8 DEF DeliverStale, CapacityVerdict, DeferUnconfirmed, Withdraw
  <2>9. ASSUME NEW s \in Row, DeferPublished(s) PROVE Fenced(r)
    BY <2>9 DEF DeferPublished, StillDeferrable
  <2>10. ASSUME NEW s \in Row, DeliverPublicationRace(s) PROVE Fenced(r)
    BY <2>10 DEF DeliverPublicationRace, vars
  <2> QED
    BY <2>1, <2>2, <2>3, <2>4, <2>5, <2>6, <2>7, <2>8, <2>9, <2>10
    DEF Next, DispatcherNext, WorkerNext
<1> QED
  BY <1>1, InductiveInvariant, PTL DEF Spec, LeaseFences

(* The outbox mechanism implements the delivery specification: every step *)
(* takes, spends, gives up or withdraws one row, or is invisible. *)
THEOREM Refinement == Spec => ImplementsOutboxDelivery
<1> DEFINE Phase(row) == CASE row.status \in {"pending", "publishing", "published"} -> "waiting"
                           [] row.status = "consumed" -> "taken"
                           [] OTHER -> "dead"
           ph == [r \in Row |-> Phase(outbox[r])]
<1>1. Init => Delivery!Init
  BY DEF Init, Delivery!Init
<1>2. Inductive /\ [Next]_vars => [Delivery!Next]_(Delivery!vars)
  <2> SUFFICES ASSUME Inductive, [Next]_vars
               PROVE Delivery!Next \/ UNCHANGED <<ph, authority>>
    BY DEF Delivery!vars
  <2> USE DEF Inductive, TypeOK, OutboxRow, RowStatus, HoldsToken
  <2>1. ASSUME NEW d \in Dispatcher, NEW s \in Row, ClaimNext(d, s)
        PROVE UNCHANGED <<ph, authority>>
    BY <2>1 DEF ClaimNext, Eligible
  <2>2. ASSUME NEW d \in Dispatcher, NEW s \in Row, RecoverOne(d, s)
        PROVE Delivery!GiveUp(s) \/ UNCHANGED <<ph, authority>>
    BY <2>2 DEF RecoverOne, AfterAttempt, Delivery!GiveUp
  <2>3. ASSUME NEW d \in Dispatcher,
               PublishConfirmed(d) \/ PublishUnconfirmed(d) \/ DispatcherCrash(d)
        PROVE UNCHANGED <<ph, authority>>
    BY <2>3 DEF PublishConfirmed, PublishUnconfirmed, DispatcherCrash
  <2>4. ASSUME NEW d \in Dispatcher, MarkPublished(d) PROVE UNCHANGED <<ph, authority>>
    BY <2>4 DEF MarkPublished
  <2>5. ASSUME NEW d \in Dispatcher, ReleaseAfterPublishFailure(d)
        PROVE (\E s \in Row : Delivery!GiveUp(s)) \/ UNCHANGED <<ph, authority>>
    <3>1. CASE ~HoldsToken(d, disp[d].row)
      BY <2>5, <3>1 DEF ReleaseAfterPublishFailure
    <3>2. CASE HoldsToken(d, disp[d].row)
      <4>1. PICK s \in Row : s = disp[d].row
        BY <2>5 DEF ReleaseAfterPublishFailure, Idle, ClaimNamesRow
      <4>2. Delivery!GiveUp(s) \/ UNCHANGED <<ph, authority>>
        BY <2>5, <3>2, <4>1 DEF ReleaseAfterPublishFailure, AfterAttempt, Delivery!GiveUp
      <4> QED BY <4>2
    <3> QED BY <3>1, <3>2
  <2>6. ASSUME NEW s \in Row, LeaseExpires(s) PROVE UNCHANGED <<ph, authority>>
    BY <2>6 DEF LeaseExpires
  <2>7. ASSUME NEW s \in Row, ClaimExact(s) PROVE Delivery!Take(s)
    BY <2>7 DEF ClaimExact, Delivery!Take
  <2>8. ASSUME NEW s \in Row, DeliverDuplicate(s)
        PROVE Delivery!Spend(s) \/ UNCHANGED <<ph, authority>>
    BY <2>8 DEF DeliverDuplicate, Delivery!Spend
  <2>9. ASSUME NEW s \in Row,
               DeliverStale(s) \/ CapacityVerdict(s) \/ DeferUnconfirmed(s)
        PROVE UNCHANGED <<ph, authority>>
    BY <2>9 DEF DeliverStale, CapacityVerdict, DeferUnconfirmed
  <2>10. ASSUME NEW s \in Row, DeferPublished(s) PROVE UNCHANGED <<ph, authority>>
    BY <2>10 DEF DeferPublished, StillDeferrable
  <2>11. ASSUME NEW s \in Row, Withdraw(s) PROVE Delivery!Withdraw(s)
    BY <2>11 DEF Withdraw, Delivery!Withdraw
  <2>12. ASSUME UNCHANGED vars PROVE UNCHANGED <<ph, authority>>
    BY <2>12 DEF vars
  <2> QED
    BY <2>1, <2>2, <2>3, <2>4, <2>5, <2>6, <2>7, <2>8, <2>9, <2>10, <2>11, <2>12
    DEF Next, DispatcherNext, WorkerNext, DeliverPublicationRace, Delivery!Next
<1> QED
  BY <1>1, <1>2, InductiveInvariant, PTL DEF Spec, ImplementsOutboxDelivery, Delivery!Spec

=============================================================================

-------------------------- MODULE ReceiptStoreProofs --------------------------
(***************************************************************************)
(* Proofs about ReceiptStore, for any bills, users, objects, writers and   *)
(* workers.                                                                *)
(***************************************************************************)
EXTENDS ReceiptStore, TLAPS

USE NoneAssumption

(* The initial state is well typed. *)
LEMMA InitTypeOK == Init => TypeOK
BY DEF Init, TypeOK, Holding, RowState, WriterPc, WorkerPc, Request, NoRequest

(* Inserting rows keeps the queue a function into row states. *)
LEMMA QueuedType ==
  ASSUME TypeOK, NEW S
  PROVE  Queued(S) \in [Path -> RowState]
BY DEF TypeOK, Queued, RowState

(* The conjuncts of TypeOK about writers. *)
WritersOK ==
  /\ pc \in [Writer -> WriterPc]
  /\ req \in [Writer -> Request]
  /\ held \in [Writer -> Path \cup {NoPath}]
  /\ \A w \in Writer : held[w] # NoPath <=> pc[w] \in Holding

(* A writer that returns leaves the writers well typed. *)
LEMMA ReturnType ==
  ASSUME TypeOK, NEW w \in Writer, Return(w)
  PROVE  WritersOK'
BY DEF TypeOK, WritersOK, Return, WriterPc, Holding, Request, NoRequest

(* So does one that goes on holding its object. *)
LEMMA GotoType ==
  ASSUME TypeOK, NEW w \in Writer, pc[w] \in Holding, NEW l \in Holding, Goto(w, l)
  PROVE  WritersOK'
BY DEF TypeOK, WritersOK, Goto, WriterPc, Holding

(* The two commits: the bill exists and the writer holds an object. *)
LEMMA CommitTypeOK ==
  ASSUME TypeOK, NEW w \in Writer, CommitUpload(w) \/ CommitCompressed(w)
  PROVE  TypeOK'
<1> USE DEF CommitUpload, CommitCompressed, StillCurrent, Owns, storageVars, workerVars
<1>1. req[w].bill \in Bill /\ held[w] \in Path /\ pc[w] \in Holding
  BY DEF TypeOK, Holding
<1>2. PICK c \in BOOLEAN : Supersede(req[w].bill, held[w], c)
  OBVIOUS
<1>3. /\ queue' \in [Path -> RowState]
      /\ bills' = bills /\ owner' = owner
      /\ receipt' \in [Bill -> Path \cup {NoPath}]
      /\ compressed' \in [Bill -> BOOLEAN]
  BY <1>1, <1>2, QueuedType DEF TypeOK, Supersede
<1>4. Return(w) \/ Goto(w, "undo")
  BY DEF Committed
<1>5. WritersOK'
  BY <1>1, <1>4, ReturnType, GotoType DEF Holding
<1> QED
  BY <1>3, <1>5 DEF TypeOK, WritersOK

(* Every step of a writer keeps the types. *)
LEMMA WriterTypeOK ==
  ASSUME TypeOK, NEW w \in Writer, WriterStep(w)
  PROVE  TypeOK'
<1> USE DEF TypeOK, Holding, WriterPc, Request, NoRequest,
            dbVars, storageVars, writerVars, workerVars
<1>1. ASSUME NEW b \in Bill, NEW u \in User, StartUpload(w, b, u)
      PROVE  TypeOK'
  BY <1>1 DEF StartUpload
<1>2. ASSUME NEW b \in Bill, StartCompress(w, b)
      PROVE  TypeOK'
  BY <1>2 DEF StartCompress
<1>3. ASSUME NEW p \in Path, Save(w, p)
      PROVE  TypeOK'
  BY <1>3 DEF Save, StoreNew
<1>4. ASSUME NEW p \in Path, Compress(w, p)
      PROVE  TypeOK'
  BY <1>4 DEF Compress, StoreNew
<1>5. CASE StoreFails(w)
  BY <1>5 DEF StoreFails, Return
<1>6. CASE CommitUpload(w) \/ CommitCompressed(w)
  BY <1>6, CommitTypeOK
<1>8. CASE CommitFails(w)
  BY <1>8 DEF CommitFails, Goto
<1>9. CASE UndoDelete(w)
  BY <1>9 DEF UndoDelete, Return
<1>10. CASE UndoDeleteFails(w)
  BY <1>10 DEF UndoDeleteFails, Goto
<1>11. CASE UndoEnqueue(w)
  BY <1>11 DEF UndoEnqueue, Return, Queued, RowState
<1>12. CASE UndoEnqueueFails(w)
  BY <1>12 DEF UndoEnqueueFails, Return
<1>13. CASE WriterDies(w)
  BY <1>13 DEF WriterDies, Return
<1> QED
  BY <1>1, <1>2, <1>3, <1>4, <1>5, <1>6, <1>8, <1>9, <1>10, <1>11, <1>12, <1>13
     DEF WriterStep

(* Every step of a worker keeps the types. *)
LEMMA WorkerTypeOK ==
  ASSUME TypeOK, NEW k \in Worker, WorkerStep(k)
  PROVE  TypeOK'
<1> USE DEF TypeOK, WorkerPc, RowState, dbVars, storageVars, writerVars, workerVars
<1>1. ASSUME NEW B \in SUBSET Bill, ExpireBills(k, B)
      PROVE  TypeOK'
  BY <1>1 DEF ExpireBills, Queued
<1>2. ASSUME NEW S \in SUBSET Path, Claim(k, S)
      PROVE  TypeOK'
  BY <1>2 DEF Claim
<1>3. CASE ClaimFails(k)
  BY <1>3 DEF ClaimFails
<1>4. ASSUME NEW p \in Path, DeleteObject(k, p)
      PROVE  TypeOK'
  BY <1>4 DEF DeleteObject, Take
<1>5. ASSUME NEW p \in Path, DeleteObjectFails(k, p)
      PROVE  TypeOK'
  BY <1>5 DEF DeleteObjectFails, Take
<1>6. CASE Ack(k)
  BY <1>6 DEF Ack, Settle
<1>7. CASE Retry(k)
  BY <1>7 DEF Retry, Settle
<1>8. CASE SettleFails(k)
  BY <1>8 DEF SettleFails, Settle
<1>9. CASE FinishSweep(k)
  BY <1>9 DEF FinishSweep
<1>10. CASE WorkerDies(k)
  BY <1>10 DEF WorkerDies
<1> QED
  BY <1>1, <1>2, <1>3, <1>4, <1>5, <1>6, <1>7, <1>8, <1>9, <1>10 DEF WorkerStep

(* So do the clocks and the moves of bills: TypeOK is inductive. *)
LEMMA NextTypeOK == TypeOK /\ [Next]_vars => TypeOK'
<1> SUFFICES ASSUME TypeOK, [Next]_vars PROVE TypeOK'
  OBVIOUS
<1> USE DEF dbVars, storageVars, writerVars, workerVars
<1>1. ASSUME NEW p \in Path, LeaseExpires(p) \/ BackoffElapses(p)
      PROVE  TypeOK'
  BY <1>1 DEF LeaseExpires, BackoffElapses, Turns, TypeOK, RowState
<1>2. ASSUME NEW b \in Bill, NEW u \in User \cup {NoUser}, MoveBill(b, u)
      PROVE  TypeOK'
  BY <1>2 DEF MoveBill, TypeOK
<1>3. CASE UNCHANGED vars
  BY <1>3 DEF vars, TypeOK
<1> QED
  BY <1>1, <1>2, <1>3, WriterTypeOK, WorkerTypeOK DEF Next

(***************************************************************************)
(* Every variable keeps its type, a writer holds an object exactly between *)
(* storing and settling it, and a worker has a row in hand exactly between *)
(* deleting the object and settling the row.                               *)
(***************************************************************************)
THEOREM TypeCorrect == Spec => []TypeOK
BY InitTypeOK, NextTypeOK, PTL DEF Spec

-----------------------------------------------------------------------------
(* Orphans.  These facts hold whether or not a commit can be lost.           *)

Condemned(p) ==
  queue[p] # "none" \/ \E k \in Worker : p \in batch[k] \/ item[k] = p

(* A name in use was drawn before, so a fresh name is in use nowhere. *)
UsedIsDrawn ==
  \A p \in Path : Shown(p) \/ Condemned(p) \/ (\E w \in Writer : held[w] = p) => p \in drawn

(* A worker acknowledges a row only when the object is gone for good. *)
AckedIsGone == \A k \in Worker : sweep[k] = "ack" => item[k] \notin objects

OrphanInv == TypeOK /\ UsedIsDrawn /\ AckedIsGone

(* Nothing is drawn, used or acknowledged initially. *)
LEMMA InitOrphanInv == Init => OrphanInv
BY InitTypeOK DEF Init, OrphanInv, UsedIsDrawn, AckedIsGone, Shown, Condemned

(* A writer only uses names it draws, and never touches a drawn object twice. *)
LEMMA WriterOrphanInv ==
  ASSUME OrphanInv, NEW w \in Writer, WriterStep(w), TypeOK'
  PROVE  OrphanInv'
<1> USE DEF OrphanInv, UsedIsDrawn, AckedIsGone, Shown, Condemned, TypeOK,
            dbVars, storageVars, writerVars, workerVars
<1>1. ASSUME NEW b \in Bill, NEW u \in User, StartUpload(w, b, u)
      PROVE  OrphanInv'
  BY <1>1 DEF StartUpload
<1>2. ASSUME NEW b \in Bill, StartCompress(w, b)
      PROVE  OrphanInv'
  BY <1>2 DEF StartCompress
<1>3. ASSUME NEW p \in Path, Save(w, p) \/ Compress(w, p)
      PROVE  OrphanInv'
  BY <1>3 DEF Save, Compress, StoreNew
<1>5. CASE StoreFails(w)
  BY <1>5 DEF StoreFails, Return
<1>6. CASE CommitUpload(w)
  BY <1>6 DEF CommitUpload, Committed, Supersede, Queued, Vacated, Owns, Return, Goto
<1>7. CASE CommitCompressed(w)
  BY <1>7 DEF CommitCompressed, Committed, Supersede, Queued, Vacated, StillCurrent, Owns,
              Return, Goto
<1>8. CASE CommitFails(w)
  BY <1>8 DEF CommitFails, Goto
<1>9. CASE UndoDelete(w)
  BY <1>9 DEF UndoDelete, Return
<1>10. CASE UndoDeleteFails(w)
  BY <1>10 DEF UndoDeleteFails, Goto
<1>11. CASE UndoEnqueue(w)
  BY <1>11 DEF UndoEnqueue, Return, Queued
<1>12. CASE UndoEnqueueFails(w)
  BY <1>12 DEF UndoEnqueueFails, Return
<1>13. CASE WriterDies(w)
  BY <1>13 DEF WriterDies, Return
<1> QED
  BY <1>1, <1>2, <1>3, <1>5, <1>6, <1>7, <1>8, <1>9, <1>10, <1>11, <1>12, <1>13
     DEF WriterStep

(* A worker acknowledges only what it has deleted, and claims only queued names. *)
LEMMA WorkerOrphanInv ==
  ASSUME OrphanInv, NEW k \in Worker, WorkerStep(k), TypeOK'
  PROVE  OrphanInv'
<1> USE DEF OrphanInv, UsedIsDrawn, AckedIsGone, Shown, Condemned, TypeOK,
            dbVars, storageVars, writerVars, workerVars
<1>1. ASSUME NEW B \in SUBSET Bill, ExpireBills(k, B)
      PROVE  OrphanInv'
  BY <1>1 DEF ExpireBills, Queued, Vacated
<1>2. ASSUME NEW S \in SUBSET Path, Claim(k, S)
      PROVE  OrphanInv'
  BY <1>2 DEF Claim, Claimable
<1>3. CASE ClaimFails(k)
  BY <1>3 DEF ClaimFails
<1>4. ASSUME NEW p \in Path, DeleteObject(k, p)
      PROVE  OrphanInv'
  BY <1>4 DEF DeleteObject, Take
<1>5. ASSUME NEW p \in Path, DeleteObjectFails(k, p)
      PROVE  OrphanInv'
  BY <1>5 DEF DeleteObjectFails, Take
<1>6. CASE Ack(k)
  BY <1>6 DEF Ack, Settle
<1>7. CASE Retry(k)
  BY <1>7 DEF Retry, Settle
<1>8. CASE SettleFails(k)
  BY <1>8 DEF SettleFails, Settle
<1>9. CASE FinishSweep(k)
  BY <1>9 DEF FinishSweep
<1>10. CASE WorkerDies(k)
  BY <1>10 DEF WorkerDies
<1> QED
  BY <1>1, <1>2, <1>3, <1>4, <1>5, <1>6, <1>7, <1>8, <1>9, <1>10 DEF WorkerStep

(* OrphanInv is inductive. *)
LEMMA NextOrphanInv == OrphanInv /\ [Next]_vars => OrphanInv'
<1> SUFFICES ASSUME OrphanInv, [Next]_vars PROVE OrphanInv'
  OBVIOUS
<1>0. TypeOK'
  BY NextTypeOK DEF OrphanInv
<1> USE DEF OrphanInv, UsedIsDrawn, AckedIsGone, Shown, Condemned,
            dbVars, storageVars, writerVars, workerVars
<1>1. ASSUME NEW p \in Path, LeaseExpires(p) \/ BackoffElapses(p)
      PROVE  OrphanInv'
  BY <1>0, <1>1 DEF LeaseExpires, BackoffElapses, Turns, TypeOK
<1>2. ASSUME NEW b \in Bill, NEW u \in User \cup {NoUser}, MoveBill(b, u)
      PROVE  OrphanInv'
  BY <1>0, <1>2 DEF MoveBill
<1>3. CASE UNCHANGED vars
  BY <1>0, <1>3 DEF vars
<1> QED
  BY <1>0, <1>1, <1>2, <1>3, WriterOrphanInv, WorkerOrphanInv DEF Next

(* The orphan property of one step. *)
OrphanStep ==
  \A p \in Path : Orphan(p)' /\ ~Orphan(p) =>
    \E w \in Writer : WriterDies(w) \/ UndoEnqueueFails(w) \/ StoreFails(w)

(* A writer that does not die or fail twice leaves no orphan. *)
LEMMA WriterOrphanStep ==
  ASSUME OrphanInv, NEW w \in Writer, WriterStep(w)
  PROVE  OrphanStep
<1> SUFFICES ASSUME NEW p \in Path, Orphan(p)', ~Orphan(p),
                    ~(WriterDies(w) \/ UndoEnqueueFails(w) \/ StoreFails(w))
             PROVE  FALSE
  BY DEF OrphanStep
<1> USE DEF OrphanInv, UsedIsDrawn, Shown, Condemned, TypeOK, Orphan,
            dbVars, storageVars, writerVars, workerVars
<1>1. ASSUME NEW b \in Bill, NEW u \in User, StartUpload(w, b, u)
      PROVE  FALSE
  BY <1>1 DEF StartUpload
<1>2. ASSUME NEW b \in Bill, StartCompress(w, b)
      PROVE  FALSE
  BY <1>2 DEF StartCompress
<1>3. ASSUME NEW q \in Path, Save(w, q) \/ Compress(w, q)
      PROVE  FALSE
  BY <1>3 DEF Save, Compress, StoreNew, Holding
<1>6. CASE CommitUpload(w)
  BY <1>6 DEF CommitUpload, Committed, Supersede, Queued, Vacated, Owns, Return, Goto
<1>7. CASE CommitCompressed(w)
  BY <1>7 DEF CommitCompressed, Committed, Supersede, Queued, Vacated, StillCurrent, Owns,
              Return, Goto
<1>8. CASE CommitFails(w)
  BY <1>8 DEF CommitFails, Goto
<1>9. CASE UndoDelete(w)
  BY <1>9 DEF UndoDelete, Return
<1>10. CASE UndoDeleteFails(w)
  BY <1>10 DEF UndoDeleteFails, Goto
<1>11. CASE UndoEnqueue(w)
  BY <1>11 DEF UndoEnqueue, Return, Queued
<1> QED
  BY <1>1, <1>2, <1>3, <1>6, <1>7, <1>8, <1>9, <1>10, <1>11 DEF WriterStep

(* A worker never leaves an orphan, not even when it dies. *)
LEMMA WorkerOrphanStep ==
  ASSUME OrphanInv, NEW k \in Worker, WorkerStep(k)
  PROVE  OrphanStep
<1> SUFFICES ASSUME NEW p \in Path, Orphan(p)', ~Orphan(p)
             PROVE  FALSE
  BY DEF OrphanStep
<1> USE DEF OrphanInv, AckedIsGone, Shown, TypeOK, Orphan,
            dbVars, storageVars, writerVars, workerVars
<1>1. ASSUME NEW B \in SUBSET Bill, ExpireBills(k, B)
      PROVE  FALSE
  BY <1>1 DEF ExpireBills, Queued, Vacated
<1>2. ASSUME NEW S \in SUBSET Path, Claim(k, S)
      PROVE  FALSE
  BY <1>2 DEF Claim, Claimable
<1>3. CASE ClaimFails(k)
  BY <1>3 DEF ClaimFails
<1>4. ASSUME NEW q \in Path, DeleteObject(k, q) \/ DeleteObjectFails(k, q)
      PROVE  FALSE
  BY <1>4 DEF DeleteObject, DeleteObjectFails, Take
<1>6. CASE Ack(k) \/ Retry(k) \/ SettleFails(k)
  BY <1>6 DEF Ack, Retry, SettleFails, Settle
<1>9. CASE FinishSweep(k)
  BY <1>9 DEF FinishSweep
<1>10. CASE WorkerDies(k)
  BY <1>10 DEF WorkerDies
<1> QED
  BY <1>1, <1>2, <1>3, <1>4, <1>6, <1>9, <1>10 DEF WorkerStep

(* No step but the three faults leaves an orphan. *)
LEMMA NextOrphanStep == OrphanInv /\ [Next]_vars => [OrphanStep]_vars
<1> SUFFICES ASSUME OrphanInv, Next PROVE OrphanStep
  OBVIOUS
<1> USE DEF OrphanInv, Shown, Orphan, dbVars, storageVars, writerVars, workerVars
<1>1. ASSUME NEW p \in Path, LeaseExpires(p) \/ BackoffElapses(p)
      PROVE  OrphanStep
  BY <1>1 DEF LeaseExpires, BackoffElapses, Turns, TypeOK, OrphanStep
<1>2. ASSUME NEW b \in Bill, NEW u \in User \cup {NoUser}, MoveBill(b, u)
      PROVE  OrphanStep
  BY <1>2 DEF MoveBill, OrphanStep
<1> QED
  BY <1>1, <1>2, WriterOrphanStep, WorkerOrphanStep DEF Next

(***************************************************************************)
(* No replacement, lost race, expiry, retry or acknowledgement leaves an   *)
(* object behind that nobody will delete: it takes the death of a writer,  *)
(* a failed upload to the storage that stored the object after all, or     *)
(* the failure of both calls of compensateReceipt.                         *)
(***************************************************************************)
THEOREM OrphansTheorem == Spec => OrphansNeedADoubleFault
<1>1. OrphanInv /\ [Next]_vars => OrphanInv'
  BY NextOrphanInv
<1>2. Spec => []OrphanInv
  BY InitOrphanInv, <1>1, PTL DEF Spec
<1>3. Spec => [][OrphanStep]_vars
  BY <1>2, NextOrphanStep, PTL DEF Spec
<1> QED
  BY <1>3 DEF OrphansNeedADoubleFault, OrphanStep

-----------------------------------------------------------------------------
(* Safety of what is shown, when a commit that reports an error did nothing. *)

HeldIsPrivate ==
  \A w \in Writer : held[w] # NoPath =>
    /\ ~Shown(held[w])
    /\ ~Condemned(held[w])
    /\ \A v \in Writer : held[v] = held[w] => v = w

PendingIsStored ==
  \A w \in Writer : pc[w] \in {"saved", "compressed"} => held[w] \in objects

ShownIsNotCondemned == \A p \in Path : Shown(p) => ~Condemned(p)

(* The inductive invariant: NoDanglingReceipt alone is not inductive, since  *)
(* a worker or an undoing writer could hold the name of a shown object.      *)
SafeInv ==
  /\ OrphanInv
  /\ NoDanglingReceipt
  /\ ReceiptsAreExclusive
  /\ ShownIsNotCondemned
  /\ HeldIsPrivate
  /\ PendingIsStored

(* No bill shows a receipt initially. *)
LEMMA InitSafeInv == Init => SafeInv
BY InitOrphanInv DEF Init, SafeInv, NoDanglingReceipt, ReceiptsAreExclusive,
   ShownIsNotCondemned, HeldIsPrivate, PendingIsStored, Shown, Condemned

(* A writer publishes a stored object that only it knows. *)
LEMMA WriterSafeInv ==
  ASSUME SafeInv, ~CommitMayBeLost, NEW w \in Writer, WriterStep(w), OrphanInv'
  PROVE  SafeInv'
<1> USE DEF OrphanInv, UsedIsDrawn, SafeInv, NoDanglingReceipt, ReceiptsAreExclusive,
            ShownIsNotCondemned, HeldIsPrivate, PendingIsStored, Shown, Condemned, TypeOK,
            dbVars, storageVars, writerVars, workerVars
<1>1. ASSUME NEW b \in Bill, NEW u \in User, StartUpload(w, b, u)
      PROVE  SafeInv'
  BY <1>1 DEF StartUpload
<1>2. ASSUME NEW b \in Bill, StartCompress(w, b)
      PROVE  SafeInv'
  BY <1>2 DEF StartCompress
<1>3. ASSUME NEW p \in Path, Save(w, p) \/ Compress(w, p)
      PROVE  SafeInv'
  BY <1>3 DEF Save, Compress, StoreNew, Holding
<1>5. CASE StoreFails(w)
  BY <1>5 DEF StoreFails, Return, Holding
<1>6. CASE CommitUpload(w)
  BY <1>6 DEF CommitUpload, Committed, Supersede, Queued, Vacated, Owns, Return, Holding
<1>7. CASE CommitCompressed(w)
  BY <1>7 DEF CommitCompressed, Committed, Supersede, Queued, Vacated, StillCurrent, Owns,
              Return, Holding
<1>8. CASE CommitFails(w)
  BY <1>8 DEF CommitFails, Goto
<1>9. CASE UndoDelete(w)
  BY <1>9 DEF UndoDelete, Return, Holding
<1>10. CASE UndoDeleteFails(w)
  BY <1>10 DEF UndoDeleteFails, Goto, Holding
<1>11. CASE UndoEnqueue(w)
  BY <1>11 DEF UndoEnqueue, Return, Queued, Holding
<1>12. CASE UndoEnqueueFails(w)
  BY <1>12 DEF UndoEnqueueFails, Return
<1>13. CASE WriterDies(w)
  BY <1>13 DEF WriterDies, Return
<1> QED
  BY <1>1, <1>2, <1>3, <1>5, <1>6, <1>7, <1>8, <1>9, <1>10, <1>11, <1>12, <1>13
     DEF WriterStep

(* A worker only touches queued objects, which nobody shows. *)
LEMMA WorkerSafeInv ==
  ASSUME SafeInv, NEW k \in Worker, WorkerStep(k), OrphanInv'
  PROVE  SafeInv'
<1> USE DEF OrphanInv, SafeInv, NoDanglingReceipt, ReceiptsAreExclusive,
            ShownIsNotCondemned, HeldIsPrivate, PendingIsStored, Shown, Condemned, TypeOK,
            dbVars, storageVars, writerVars, workerVars
<1>1. ASSUME NEW B \in SUBSET Bill, ExpireBills(k, B)
      PROVE  SafeInv'
  BY <1>1 DEF ExpireBills, Queued, Vacated
<1>2. ASSUME NEW S \in SUBSET Path, Claim(k, S)
      PROVE  SafeInv'
  BY <1>2 DEF Claim, Claimable
<1>3. CASE ClaimFails(k)
  BY <1>3 DEF ClaimFails
<1>4. ASSUME NEW p \in Path, DeleteObject(k, p)
      PROVE  SafeInv'
  BY <1>4 DEF DeleteObject, Take, Holding
<1>5. ASSUME NEW p \in Path, DeleteObjectFails(k, p)
      PROVE  SafeInv'
  BY <1>5 DEF DeleteObjectFails, Take, Holding
<1>6. CASE Ack(k)
  BY <1>6 DEF Ack, Settle
<1>7. CASE Retry(k)
  BY <1>7 DEF Retry, Settle
<1>8. CASE SettleFails(k)
  BY <1>8 DEF SettleFails, Settle
<1>9. CASE FinishSweep(k)
  BY <1>9 DEF FinishSweep
<1>10. CASE WorkerDies(k)
  BY <1>10 DEF WorkerDies
<1> QED
  BY <1>1, <1>2, <1>3, <1>4, <1>5, <1>6, <1>7, <1>8, <1>9, <1>10 DEF WorkerStep

(* SafeInv is inductive when a failed commit did nothing. *)
LEMMA NextSafeInv ==
  ASSUME ~CommitMayBeLost
  PROVE  SafeInv /\ [Next]_vars => SafeInv'
<1> SUFFICES ASSUME SafeInv, [Next]_vars PROVE SafeInv'
  OBVIOUS
<1>0. OrphanInv'
  BY NextOrphanInv DEF SafeInv
<1> USE DEF OrphanInv, SafeInv, NoDanglingReceipt, ReceiptsAreExclusive,
            ShownIsNotCondemned, HeldIsPrivate, PendingIsStored, Shown, Condemned,
            dbVars, storageVars, writerVars, workerVars
<1>1. ASSUME NEW p \in Path, LeaseExpires(p) \/ BackoffElapses(p)
      PROVE  SafeInv'
  BY <1>0, <1>1 DEF LeaseExpires, BackoffElapses, Turns, TypeOK
<1>2. ASSUME NEW b \in Bill, NEW u \in User \cup {NoUser}, MoveBill(b, u)
      PROVE  SafeInv'
  BY <1>0, <1>2 DEF MoveBill
<1>3. CASE UNCHANGED vars
  BY <1>0, <1>3 DEF vars
<1> QED
  BY <1>0, <1>1, <1>2, <1>3, WriterSafeInv, WorkerSafeInv DEF Next

(* SafeInv holds in every reachable state. *)
LEMMA SafeInvIsInvariant ==
  ASSUME ~CommitMayBeLost
  PROVE  Spec => []SafeInv
BY InitSafeInv, NextSafeInv, PTL DEF Spec

(***************************************************************************)
(* As long as a commit that reports an error has not been applied, every   *)
(* receipt a bill shows exists in storage.                                 *)
(***************************************************************************)
THEOREM NoDanglingTheorem ==
  ASSUME ~CommitMayBeLost
  PROVE  Spec => []NoDanglingReceipt
<1>1. SafeInv => NoDanglingReceipt
  BY DEF SafeInv
<1> QED
  BY <1>1, SafeInvIsInvariant, PTL

(***************************************************************************)
(* Under the same assumption nobody is about to delete a shown object: no  *)
(* queue row, no worker with a stale lease, no writer undoing its upload.  *)
(***************************************************************************)
THEOREM NotDoomedTheorem ==
  ASSUME ~CommitMayBeLost
  PROVE  Spec => []ShownIsNotDoomed
<1>1. SafeInv => ShownIsNotDoomed
  BY DEF SafeInv, ShownIsNotDoomed, Doomed, ShownIsNotCondemned, Condemned, HeldIsPrivate
<1> QED
  BY <1>1, SafeInvIsInvariant, PTL

(***************************************************************************)
(* Under the same assumption no object is shown by two bills.              *)
(***************************************************************************)
THEOREM ExclusiveTheorem ==
  ASSUME ~CommitMayBeLost
  PROVE  Spec => []ReceiptsAreExclusive
<1>1. SafeInv => ReceiptsAreExclusive
  BY DEF SafeInv
<1> QED
  BY <1>1, SafeInvIsInvariant, PTL

-----------------------------------------------------------------------------
(* Refinement of ReceiptLifecycle.                                           *)

(* The initial rows and the empty storage map to absent objects. *)
LEMMA InitRefines == Init => Lifecycle!Init
BY DEF Init, Lifecycle!Init, StageOf, Shown

(* When only one object changes its stage, the step is a turn of that object. *)
LEMMA OneTurns ==
  ASSUME NEW p \in Path, NEW from, NEW to,
         StageOf(p) = from, StageOf(p)' = to,
         \A q \in Path \ {p} : StageOf(q)' = StageOf(q),
         receipt' = receipt
  PROVE  Lifecycle!Turn(p, from, to)
BY DEF Lifecycle!Turn

(* When no object changes its stage, the step is a stutter. *)
LEMMA NoneTurns ==
  ASSUME \A q \in Path : StageOf(q)' = StageOf(q), receipt' = receipt
  PROVE  UNCHANGED Lifecycle!lifecycleVars
BY DEF Lifecycle!lifecycleVars

(* What a worker still carries has its row in the queue, or is gone already: *)
(* a lease that expired never lets a worker touch an object of another fate. *)
CarriedIsQueued ==
  \A p \in Path : Condemned(p) /\ queue[p] = "none" => p \notin objects

RefineInv == SafeInv /\ CarriedIsQueued

(* A writer never takes a row out of the queue. *)
LEMMA WriterCarried ==
  ASSUME RefineInv, NEW w \in Writer, WriterStep(w), SafeInv'
  PROVE  CarriedIsQueued'
<1> USE DEF RefineInv, SafeInv, OrphanInv, UsedIsDrawn, CarriedIsQueued, Condemned, TypeOK,
            dbVars, storageVars, writerVars, workerVars
<1>1. ASSUME NEW b \in Bill, NEW u \in User, StartUpload(w, b, u)
      PROVE  CarriedIsQueued'
  BY <1>1 DEF StartUpload
<1>2. ASSUME NEW b \in Bill, StartCompress(w, b)
      PROVE  CarriedIsQueued'
  BY <1>2 DEF StartCompress
<1>3. ASSUME NEW p \in Path, Save(w, p) \/ Compress(w, p)
      PROVE  CarriedIsQueued'
  BY <1>3 DEF Save, Compress, StoreNew
<1>5. CASE StoreFails(w)
  BY <1>5 DEF StoreFails
<1>6. CASE CommitUpload(w) \/ CommitCompressed(w)
  BY <1>6 DEF CommitUpload, CommitCompressed, Supersede, Queued
<1>8. CASE CommitFails(w)
  BY <1>8 DEF CommitFails
<1>9. CASE UndoDelete(w) \/ UndoDeleteFails(w)
  BY <1>9 DEF UndoDelete, UndoDeleteFails
<1>11. CASE UndoEnqueue(w)
  BY <1>11 DEF UndoEnqueue, Queued
<1>12. CASE UndoEnqueueFails(w) \/ WriterDies(w)
  BY <1>12 DEF UndoEnqueueFails, WriterDies
<1> QED
  BY <1>1, <1>2, <1>3, <1>5, <1>6, <1>8, <1>9, <1>11, <1>12 DEF WriterStep

(* A row leaves the queue only by an acknowledgement, after the object is gone. *)
LEMMA WorkerCarried ==
  ASSUME RefineInv, NEW k \in Worker, WorkerStep(k), SafeInv'
  PROVE  CarriedIsQueued'
<1> USE DEF RefineInv, SafeInv, OrphanInv, AckedIsGone, CarriedIsQueued, Condemned, TypeOK,
            dbVars, storageVars, writerVars, workerVars
<1>1. ASSUME NEW B \in SUBSET Bill, ExpireBills(k, B)
      PROVE  CarriedIsQueued'
  BY <1>1 DEF ExpireBills, Queued
<1>2. ASSUME NEW S \in SUBSET Path, Claim(k, S)
      PROVE  CarriedIsQueued'
  BY <1>2 DEF Claim, Claimable
<1>4. ASSUME NEW p \in Path, DeleteObject(k, p) \/ DeleteObjectFails(k, p)
      PROVE  CarriedIsQueued'
  BY <1>4 DEF DeleteObject, DeleteObjectFails, Take
<1>6. CASE Ack(k)
  BY <1>6 DEF Ack, Settle
<1>7. CASE Retry(k) \/ SettleFails(k)
  BY <1>7 DEF Retry, SettleFails, Settle
<1>9. CASE ClaimFails(k) \/ FinishSweep(k) \/ WorkerDies(k)
  BY <1>9 DEF ClaimFails, FinishSweep, WorkerDies
<1> QED
  BY <1>1, <1>2, <1>4, <1>6, <1>7, <1>9 DEF WorkerStep

(* RefineInv is inductive under the same assumption. *)
LEMMA NextRefineInv ==
  ASSUME ~CommitMayBeLost
  PROVE  RefineInv /\ [Next]_vars => RefineInv'
<1> SUFFICES ASSUME RefineInv, [Next]_vars PROVE RefineInv'
  OBVIOUS
<1>0. SafeInv'
  BY NextSafeInv DEF RefineInv
<1> USE DEF RefineInv, CarriedIsQueued, Condemned,
            dbVars, storageVars, writerVars, workerVars
<1>1. ASSUME NEW p \in Path, LeaseExpires(p) \/ BackoffElapses(p)
      PROVE  RefineInv'
  BY <1>0, <1>1 DEF LeaseExpires, BackoffElapses, Turns, SafeInv, OrphanInv, TypeOK
<1>2. ASSUME NEW b \in Bill, NEW u \in User \cup {NoUser}, MoveBill(b, u)
      PROVE  RefineInv'
  BY <1>0, <1>2 DEF MoveBill
<1>3. CASE UNCHANGED vars
  BY <1>0, <1>3 DEF vars
<1> QED
  BY <1>0, <1>1, <1>2, <1>3, WriterCarried, WorkerCarried DEF Next

(* One step of a writer. *)
LEMMA WriterRefines ==
  ASSUME RefineInv, RefineInv', ~CommitMayBeLost, NEW w \in Writer, WriterStep(w)
  PROVE  [Lifecycle!Next]_(Lifecycle!lifecycleVars)
<1> USE DEF RefineInv, SafeInv, OrphanInv, TypeOK, dbVars, storageVars, writerVars, workerVars
<1> DEFINE Stutter == UNCHANGED Lifecycle!lifecycleVars
           Turned == \E p \in Path :
                       \/ Lifecycle!Turn(p, "absent", "staged")
                       \/ Lifecycle!Turn(p, "absent", "lost")
                       \/ Lifecycle!Turn(p, "staged", "condemned")
                       \/ Lifecycle!Turn(p, "staged", "gone")
                       \/ Lifecycle!Turn(p, "staged", "lost")
           Published == \E b \in Bill, p \in Path : Lifecycle!Publish(b, p)
<1>0. Stutter \/ Turned \/ Published => [Lifecycle!Next]_(Lifecycle!lifecycleVars)
  BY DEF Lifecycle!Next, Lifecycle!Step
<1>1. ASSUME NEW b \in Bill, NEW u \in User, StartUpload(w, b, u)
      PROVE  Stutter
  BY <1>1, NoneTurns DEF StartUpload, StageOf, Shown
<1>2. ASSUME NEW b \in Bill, StartCompress(w, b)
      PROVE  Stutter
  BY <1>2, NoneTurns DEF StartCompress, StageOf, Shown
<1>3. ASSUME NEW p \in Path, Save(w, p) \/ Compress(w, p)
      PROVE  Turned
  <2>1. StageOf(p) = "absent"
    BY <1>3 DEF Save, Compress, StoreNew, StageOf, Shown, UsedIsDrawn
  <2>2. StageOf(p)' = "staged"
    BY <1>3 DEF Save, Compress, StoreNew, StageOf, Shown, UsedIsDrawn, Condemned
  <2>3. \A q \in Path \ {p} : StageOf(q)' = StageOf(q)
    BY <1>3 DEF Save, Compress, StoreNew, StageOf, Shown, Holding
  <2>4. receipt' = receipt
    BY <1>3 DEF Save, Compress
  <2> QED
    BY <2>1, <2>2, <2>3, <2>4, OneTurns
<1>4. CASE StoreFails(w)
  <2>1. held' = held
    BY <1>4 DEF StoreFails, Return, Holding
  <2>2. CASE UNCHANGED storageVars
    BY <1>4, <2>1, <2>2, NoneTurns DEF StoreFails, StageOf, Shown
  <2>3. ASSUME NEW p \in Path \ drawn, drawn' = drawn \cup {p}, objects' = objects \cup {p}
        PROVE  Turned
    <3>1. StageOf(p) = "absent" /\ StageOf(p)' = "lost"
      BY <1>4, <2>1, <2>3 DEF StoreFails, StageOf, Shown, UsedIsDrawn, Condemned
    <3>2. \A q \in Path \ {p} : StageOf(q)' = StageOf(q)
      BY <1>4, <2>1, <2>3 DEF StoreFails, StageOf, Shown
    <3>3. receipt' = receipt
      BY <1>4 DEF StoreFails
    <3>4. Lifecycle!Turn(p, "absent", "lost")
      BY <3>1, <3>2, <3>3, OneTurns
    <3> QED
      BY <3>4
  <2>4. \/ UNCHANGED storageVars
        \/ \E p \in Path \ drawn : drawn' = drawn \cup {p} /\ objects' = objects \cup {p}
    BY <1>4 DEF StoreFails
  <2> HIDE DEF Turned, Stutter
  <2> QED
    BY <1>0, <2>2, <2>3, <2>4
<1>5. CASE CommitUpload(w) \/ CommitCompressed(w)
  <2>1. PICK b \in Bill, p \in Path, c \in BOOLEAN :
          /\ held[w] = p /\ req[w].bill = b /\ p \in objects
          /\ Supersede(b, p, c) /\ Return(w) /\ UNCHANGED storageVars
    BY <1>5 DEF CommitUpload, CommitCompressed, Committed, StillCurrent, Owns, Holding,
                PendingIsStored
  <2>2. StageOf(p) = "staged" /\ StageOf(p)' = "live"
    BY <2>1 DEF StageOf, Supersede, Shown, HeldIsPrivate, Condemned
  <2>3. ASSUME NEW q \in Path \ {p}
        PROVE  StageOf(q)' = IF q = receipt[b] THEN "condemned" ELSE StageOf(q)
    <3>1. CASE q = receipt[b]
      BY <2>1, <3>1 DEF StageOf, Supersede, Queued, Vacated, Shown, ReceiptsAreExclusive,
                        NoDanglingReceipt, UsedIsDrawn
    <3>2. CASE q # receipt[b]
      BY <2>1, <3>2 DEF StageOf, Supersede, Queued, Vacated, Shown, Return
    <3> QED
      BY <3>1, <3>2
  <2>4. receipt' = [receipt EXCEPT ![b] = p]
    BY <2>1 DEF Supersede
  <2>5. Lifecycle!Publish(b, p)
    BY <2>1, <2>2, <2>3, <2>4 DEF Lifecycle!Publish
  <2> QED
    BY <1>0, <2>5
<1>6. CASE CommitFails(w)
  BY <1>6, NoneTurns DEF CommitFails, Goto, StageOf, Shown
<1>7. CASE UndoDelete(w) \/ UndoDeleteFails(w)
  <2>1. PICK p \in Path : held[w] = p
    BY <1>7 DEF UndoDelete, UndoDeleteFails, Holding
  <2>2. \A q \in Path \ {p} : StageOf(q)' = StageOf(q)
    BY <1>7, <2>1 DEF UndoDelete, UndoDeleteFails, Return, Goto, StageOf, Shown
  <2>3. receipt' = receipt
    BY <1>7 DEF UndoDelete, UndoDeleteFails
  <2>4. CASE p \in objects /\ p \notin objects'
    <3>1. StageOf(p) = "staged" /\ StageOf(p)' = "gone"
      BY <1>7, <2>1, <2>4 DEF UndoDelete, UndoDeleteFails, StageOf, Shown, HeldIsPrivate, Condemned
    <3>2. Lifecycle!Turn(p, "staged", "gone")
      BY <2>2, <2>3, <3>1, OneTurns
    <3> QED
      BY <1>0, <3>2
  <2>5. CASE ~(p \in objects /\ p \notin objects')
    <3>1. StageOf(p)' = StageOf(p)
      BY <1>7, <2>1, <2>5 DEF UndoDelete, UndoDeleteFails, Return, Goto, StageOf, Shown
    <3> QED
      BY <2>2, <2>3, <3>1, NoneTurns
  <2> QED
    BY <2>4, <2>5
<1>8. CASE UndoEnqueue(w) \/ UndoEnqueueFails(w) \/ WriterDies(w)
  <2>1. CASE held[w] = NoPath
    BY <1>8, <2>1, NoneTurns DEF UndoEnqueue, UndoEnqueueFails, WriterDies, Return, StageOf,
                                 Shown, Holding
  <2>2. ASSUME NEW p \in Path, held[w] = p
        PROVE  Turned \/ Stutter
    <3>1. \A q \in Path \ {p} : StageOf(q)' = StageOf(q)
      BY <1>8, <2>2 DEF UndoEnqueue, UndoEnqueueFails, WriterDies, Return, Queued, StageOf, Shown
    <3>2. receipt' = receipt
      BY <1>8 DEF UndoEnqueue, UndoEnqueueFails, WriterDies
    <3>3. CASE p \notin objects
      <4>1. StageOf(p)' = StageOf(p)
        BY <1>8, <3>3 DEF UndoEnqueue, UndoEnqueueFails, WriterDies, StageOf, Shown
      <4> QED
        BY <3>1, <3>2, <4>1, NoneTurns
    <3>4. CASE p \in objects
      <4>1. StageOf(p) = "staged"
        BY <2>2, <3>4 DEF StageOf, HeldIsPrivate, Condemned
      <4>2. CASE UndoEnqueue(w)
        <5>1. StageOf(p)' = "condemned"
          BY <2>2, <3>4, <4>2 DEF UndoEnqueue, Queued, StageOf, Shown, HeldIsPrivate
        <5> QED
          BY <3>1, <3>2, <4>1, <5>1, OneTurns
      <4>3. CASE UndoEnqueueFails(w) \/ WriterDies(w)
        <5>1. StageOf(p)' = "lost"
          BY <2>2, <3>4, <4>3 DEF UndoEnqueueFails, WriterDies, Return, StageOf, Shown,
                                  HeldIsPrivate, Condemned
        <5> QED
          BY <3>1, <3>2, <4>1, <5>1, OneTurns
      <4> QED
        BY <1>8, <4>2, <4>3
    <3> QED
      BY <3>3, <3>4
  <2> HIDE DEF Turned, Stutter
  <2> QED
    BY <1>0, <1>8, <2>1, <2>2
<1> QED
  BY <1>0, <1>1, <1>2, <1>3, <1>4, <1>5, <1>6, <1>7, <1>8 DEF WriterStep

(* One step of a worker. *)
LEMMA WorkerRefines ==
  ASSUME RefineInv, NEW k \in Worker, WorkerStep(k)
  PROVE  [Lifecycle!Next]_(Lifecycle!lifecycleVars)
<1> USE DEF RefineInv, SafeInv, OrphanInv, TypeOK, dbVars, storageVars, writerVars, workerVars
<1> DEFINE Stutter == UNCHANGED Lifecycle!lifecycleVars
           Erased == \E p \in Path : Lifecycle!Turn(p, "condemned", "gone")
           Retired == \E B \in SUBSET Bill : Lifecycle!Retire(B)
<1>1. ASSUME NEW B \in SUBSET Bill, ExpireBills(k, B)
      PROVE  Retired
  <2>1. ASSUME NEW q \in Path
        PROVE  StageOf(q)' = IF \E b \in B : receipt[b] = q THEN "condemned" ELSE StageOf(q)
    <3>1. CASE \E b \in B : receipt[b] = q
      BY <1>1, <3>1 DEF ExpireBills, Queued, Vacated, StageOf, Shown, ReceiptsAreExclusive,
                        NoDanglingReceipt, UsedIsDrawn
    <3>2. CASE ~\E b \in B : receipt[b] = q
      BY <1>1, <3>2 DEF ExpireBills, Queued, Vacated, StageOf, Shown
    <3> QED
      BY <3>1, <3>2
  <2> QED
    BY <1>1, <2>1 DEF ExpireBills, Lifecycle!Retire
<1>2. ASSUME NEW S \in SUBSET Path, Claim(k, S)
      PROVE  Stutter
  BY <1>2, NoneTurns DEF Claim, Claimable, StageOf, Shown
<1>3. ASSUME NEW p \in Path, DeleteObject(k, p) \/ DeleteObjectFails(k, p)
      PROVE  Erased \/ Stutter
  <2>1. \A q \in Path \ {p} : StageOf(q)' = StageOf(q)
    BY <1>3 DEF DeleteObject, DeleteObjectFails, Take, StageOf, Shown
  <2>2. receipt' = receipt
    BY <1>3 DEF DeleteObject, DeleteObjectFails
  <2>3. CASE p \in objects /\ p \notin objects'
    <3>1. Condemned(p)
      BY <1>3 DEF DeleteObject, DeleteObjectFails, Take, Condemned
    <3>2. StageOf(p) = "condemned" /\ StageOf(p)' = "gone"
      BY <1>3, <2>3, <3>1 DEF DeleteObject, DeleteObjectFails, StageOf, Shown, CarriedIsQueued,
                             ShownIsNotCondemned
    <3> QED
      BY <2>1, <2>2, <3>2, OneTurns
  <2>4. CASE ~(p \in objects /\ p \notin objects')
    <3>1. StageOf(p)' = StageOf(p)
      BY <1>3, <2>4 DEF DeleteObject, DeleteObjectFails, StageOf, Shown
    <3> QED
      BY <2>1, <2>2, <3>1, NoneTurns
  <2> QED
    BY <2>3, <2>4
<1>4. CASE Ack(k) \/ Retry(k) \/ SettleFails(k)
  <2>1. \A q \in Path : StageOf(q)' = StageOf(q)
    BY <1>4 DEF Ack, Retry, SettleFails, Settle, StageOf, Shown, AckedIsGone
  <2> QED
    BY <1>4, <2>1, NoneTurns DEF Ack, Retry, SettleFails, Settle
<1>5. CASE ClaimFails(k) \/ FinishSweep(k) \/ WorkerDies(k)
  BY <1>5, NoneTurns DEF ClaimFails, FinishSweep, WorkerDies, StageOf, Shown
<1>6. Stutter \/ Erased \/ Retired => [Lifecycle!Next]_(Lifecycle!lifecycleVars)
  BY DEF Lifecycle!Next, Lifecycle!Step
<1> QED
  BY <1>1, <1>2, <1>3, <1>4, <1>5, <1>6 DEF WorkerStep

(* Every step is a step of ReceiptLifecycle or a stutter. *)
LEMMA NextRefines ==
  ASSUME ~CommitMayBeLost
  PROVE  RefineInv /\ RefineInv' /\ [Next]_vars => [Lifecycle!Next]_(Lifecycle!lifecycleVars)
<1> SUFFICES ASSUME RefineInv, RefineInv', [Next]_vars
             PROVE  [Lifecycle!Next]_(Lifecycle!lifecycleVars)
  OBVIOUS
<1> USE DEF dbVars, storageVars, writerVars, workerVars
<1>1. ASSUME NEW p \in Path, LeaseExpires(p) \/ BackoffElapses(p)
      PROVE  UNCHANGED Lifecycle!lifecycleVars
  BY <1>1, NoneTurns DEF LeaseExpires, BackoffElapses, Turns, StageOf, Shown, RefineInv, SafeInv,
                         OrphanInv, TypeOK
<1>2. ASSUME NEW b \in Bill, NEW u \in User \cup {NoUser}, MoveBill(b, u)
      PROVE  UNCHANGED Lifecycle!lifecycleVars
  BY <1>2, NoneTurns DEF MoveBill, StageOf, Shown
<1>3. CASE UNCHANGED vars
  BY <1>3, NoneTurns DEF vars, StageOf, Shown
<1> QED
  BY <1>1, <1>2, <1>3, WriterRefines, WorkerRefines DEF Next

(***************************************************************************)
(* The store implements ReceiptLifecycle: what a transaction or a sweep    *)
(* takes from a bill it condemns in the same step, a condemned object can  *)
(* only be erased, and an object is shown only once in its life.           *)
(***************************************************************************)
THEOREM RefinementTheorem ==
  ASSUME ~CommitMayBeLost
  PROVE  Spec => ImplementsLifecycle
<1>1. Init => RefineInv
  BY InitSafeInv DEF Init, RefineInv, CarriedIsQueued
<1>2. Spec => []RefineInv
  BY <1>1, NextRefineInv, PTL DEF Spec
<1> QED
  BY InitRefines, <1>2, NextRefines, PTL DEF Spec, ImplementsLifecycle, Lifecycle!Spec

-----------------------------------------------------------------------------
(* Replacement, whether or not a commit can be lost.                         *)

ReplacementStep ==
  \A b \in Bill : receipt'[b] \notin {receipt[b], NoPath} =>
    \E w \in Writer :
      /\ held[w] = receipt'[b]
      /\ req[w].bill = b /\ req[w].user = owner[b]
      /\ compressed'[b] => req[w].src = receipt[b]

(* Only the two commits and the expiry of bills write a receipt path. *)
LEMMA NextReplacement == TypeOK /\ Next => ReplacementStep
<1> SUFFICES ASSUME TypeOK, Next PROVE ReplacementStep
  OBVIOUS
<1> USE DEF ReplacementStep, TypeOK
<1>1. ASSUME NEW w \in Writer, CommitUpload(w) \/ CommitCompressed(w)
      PROVE  ReplacementStep
  BY <1>1 DEF CommitUpload, CommitCompressed, Supersede, StillCurrent, Owns
<1>2. ASSUME NEW w \in Writer, WriterStep(w), ~(CommitUpload(w) \/ CommitCompressed(w))
      PROVE  receipt' = receipt
  BY <1>2 DEF WriterStep, StartUpload, StartCompress, Save, Compress, StoreFails, CommitFails,
              UndoDelete, UndoDeleteFails, UndoEnqueue, UndoEnqueueFails, WriterDies, dbVars
<1>3. ASSUME NEW k \in Worker, NEW B \in SUBSET Bill, ExpireBills(k, B)
      PROVE  ReplacementStep
  BY <1>3 DEF ExpireBills
<1>4. ASSUME NEW k \in Worker, WorkerStep(k), ~\E B \in SUBSET Bill : ExpireBills(k, B)
      PROVE  receipt' = receipt
  BY <1>4 DEF WorkerStep, Claim, ClaimFails, DeleteObject, DeleteObjectFails, Ack, Retry,
              SettleFails, Settle, FinishSweep, WorkerDies, dbVars
<1>5. ASSUME NEW p \in Path, LeaseExpires(p) \/ BackoffElapses(p)
      PROVE  receipt' = receipt
  BY <1>5 DEF LeaseExpires, BackoffElapses, Turns
<1>6. ASSUME NEW b \in Bill, NEW u \in User \cup {NoUser}, MoveBill(b, u)
      PROVE  receipt' = receipt
  BY <1>6 DEF MoveBill
<1>7. receipt' = receipt => ReplacementStep
  OBVIOUS
<1> HIDE DEF ReplacementStep
<1> QED
  BY <1>1, <1>2, <1>3, <1>4, <1>5, <1>6, <1>7 DEF Next

(***************************************************************************)
(* A receipt is replaced only for the bill's owner of that moment, and by  *)
(* a compressed image only if it was made from the receipt it replaces.    *)
(***************************************************************************)
THEOREM ReplacementTheorem == Spec => ReplacementIsCurrent
<1>1. Spec => [][ReplacementStep]_vars
  BY TypeCorrect, NextReplacement, PTL DEF Spec
<1> QED
  BY <1>1 DEF ReplacementIsCurrent, ReplacementStep

=============================================================================

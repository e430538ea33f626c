----------------------------- MODULE ReceiptStore -----------------------------
(***************************************************************************)
(* Receipt images of bills: the rows of bill_sessions and                  *)
(* receipt_deletion_queue in Postgres, the objects in the receipt storage  *)
(* (local directory or S3), and the processes that move objects between    *)
(* them:                                                                   *)
(*                                                                         *)
(*  - writers: an upload request (handleUploadReceipt) or the compression  *)
(*    goroutine a successful extraction leaves behind (handleExtract).     *)
(*    Both store a new object first, then point the bill at it in one      *)
(*    transaction, and undo the object when the transaction fails          *)
(*    (compensateReceipt);                                                 *)
(*  - workers: the cleanup loop of each server process, which deletes      *)
(*    expired bills and works off the deletion queue under leases.         *)
(*                                                                         *)
(* A transaction is one step; every other call is a step of its own, so    *)
(* processes interleave between calls, any call may fail and any process   *)
(* may die between two calls.  Row ids of the queue are abstracted to the  *)
(* path, which a unique index keeps single; clocks are abstracted to the   *)
(* steps LeaseExpires and BackoffElapses, expiry of a bill to ExpireBills. *)
(***************************************************************************)
EXTENDS Naturals, FiniteSets

CONSTANTS
  Bill,             \* bill_sessions ids
  User,             \* user ids
  Path,             \* object names: 128 random bits, never drawn twice
  Writer,           \* slots for upload requests and compression goroutines
  Worker,           \* cleanup loops, one per server process
  BatchLimit,       \* rows claimed by one sweep (100 in cleanup.go)
  CommitMayBeLost,  \* TRUE: a COMMIT may apply although the caller sees an error
  NoBill, NoUser, NoPath

ASSUME NoneAssumption ==
  NoBill \notin Bill /\ NoUser \notin User /\ NoPath \notin Path
ASSUME BatchAssumption == BatchLimit \in Nat \ {0}
ASSUME CommitAssumption == CommitMayBeLost \in BOOLEAN

VARIABLES
  bills,       \* rows of bill_sessions
  owner,       \* owner_user_id; NoUser is NULL
  receipt,     \* receipt_image_path; NoPath is NULL
  compressed,  \* receipt_image_compressed
  queue,       \* receipt_deletion_queue: state of the row for a path
  objects,     \* objects in the receipt storage
  drawn,       \* object names handed out by randomFilename
  pc,          \* where each writer stands
  req,         \* the bill, user and source path a writer captured
  held,        \* the object a writer stored and no one else knows
  sweep,       \* where each worker stands
  batch,       \* rows a worker claimed and has not tried yet
  item         \* the row a worker has to acknowledge or retry

dbVars == <<bills, owner, receipt, compressed, queue>>
storageVars == <<objects, drawn>>
writerVars == <<pc, req, held>>
workerVars == <<sweep, batch, item>>
vars == <<dbVars, storageVars, writerVars, workerVars>>

RowState == {"none", "due", "leased", "backoff"}
WriterPc == {"idle", "uploading", "saved", "compressing", "compressed",
             "undo", "requeue"}
Holding == {"saved", "compressed", "undo", "requeue"}   \* held names an object
WorkerPc == {"idle", "claim", "delete", "ack", "retry"}
Request == [bill : Bill \cup {NoBill}, user : User \cup {NoUser},
            src : Path \cup {NoPath}]
NoRequest == [bill |-> NoBill, user |-> NoUser, src |-> NoPath]

TypeOK ==
  /\ bills \in SUBSET Bill
  /\ owner \in [Bill -> User \cup {NoUser}]
  /\ receipt \in [Bill -> Path \cup {NoPath}]
  /\ compressed \in [Bill -> BOOLEAN]
  /\ queue \in [Path -> RowState]
  /\ objects \in SUBSET Path
  /\ drawn \in SUBSET Path
  /\ objects \subseteq drawn
  /\ pc \in [Writer -> WriterPc]
  /\ req \in [Writer -> Request]
  /\ held \in [Writer -> Path \cup {NoPath}]
  /\ sweep \in [Worker -> WorkerPc]
  /\ batch \in [Worker -> SUBSET Path]
  /\ item \in [Worker -> Path \cup {NoPath}]
  /\ \A w \in Writer : held[w] # NoPath <=> pc[w] \in Holding
  /\ \A k \in Worker : item[k] # NoPath <=> sweep[k] \in {"ack", "retry"}

(* Bills exist and show no receipt yet; nothing is stored, queued or running. *)
Init ==
  /\ bills = Bill
  /\ owner \in [Bill -> User]
  /\ receipt = [b \in Bill |-> NoPath]
  /\ compressed = [b \in Bill |-> FALSE]
  /\ queue = [p \in Path |-> "none"]
  /\ objects = {}
  /\ drawn = {}
  /\ pc = [w \in Writer |-> "idle"]
  /\ req = [w \in Writer |-> NoRequest]
  /\ held = [w \in Writer |-> NoPath]
  /\ sweep = [k \in Worker |-> "idle"]
  /\ batch = [k \in Worker |-> {}]
  /\ item = [k \in Worker |-> NoPath]

-----------------------------------------------------------------------------
(* Rows.                                                                     *)

Shown(p) == \E b \in Bill : receipt[b] = p

(* Every owner route reads the bill with owner_user_id in the WHERE clause. *)
Owns(u, b) == b \in bills /\ owner[b] = u

(* INSERT ... ON CONFLICT (path) DO NOTHING for every path of S. *)
Queued(S) == [p \in Path |-> IF p \in S /\ queue[p] = "none" THEN "due" ELSE queue[p]]

(* What the bills of B show: a transaction that replaces or deletes it queues it. *)
NotVacated(B) == {}   \* mutant: the INSERT into the deletion queue is missing

Vacated(B) == {receipt[b] : b \in B} \ {NoPath}

(* Mutant: the transaction queues the new path instead of the old one. *)
SupersedeQueuesNew(b, p, c) ==
  /\ receipt' = [receipt EXCEPT ![b] = p]
  /\ compressed' = [compressed EXCEPT ![b] = c]
  /\ queue' = Queued({p})
  /\ UNCHANGED <<bills, owner>>

(* One transaction: the bill shows p, what it showed before is queued. *)
Supersede(b, p, c) ==
  /\ receipt' = [receipt EXCEPT ![b] = p]
  /\ compressed' = [compressed EXCEPT ![b] = c]
  /\ queue' = Queued(Vacated({b}))
  /\ UNCHANGED <<bills, owner>>

(* Mutant: the swap compares the owner only. *)
StillOwned(r) == Owns(r.user, r.bill) /\ ~compressed[r.bill]

(* The compare-and-swap of a compression: owner and source are still current. *)
StillCurrent(r) ==
  /\ Owns(r.user, r.bill)
  /\ receipt[r.bill] = r.src
  /\ ~compressed[r.bill]

-----------------------------------------------------------------------------
(* Writers.                                                                  *)

(* The writer forgets everything: its handler or goroutine returned or died. *)
Return(w) ==
  /\ pc' = [pc EXCEPT ![w] = "idle"]
  /\ req' = [req EXCEPT ![w] = NoRequest]
  /\ held' = [held EXCEPT ![w] = NoPath]

Goto(w, l) ==
  /\ pc' = [pc EXCEPT ![w] = l]
  /\ UNCHANGED <<req, held>>

(* Mutant: the name is not drawn at random and may have been used. *)
StoreAgain(w, p, l) ==
  /\ drawn' = drawn \cup {p}
  /\ objects' = objects \cup {p}
  /\ held' = [held EXCEPT ![w] = p]
  /\ pc' = [pc EXCEPT ![w] = l]
  /\ UNCHANGED req

(* The name is drawn and the object written; the writer goes on at l. *)
StoreNew(w, p, l) ==
  /\ p \notin drawn
  /\ drawn' = drawn \cup {p}
  /\ objects' = objects \cup {p}
  /\ held' = [held EXCEPT ![w] = p]
  /\ pc' = [pc EXCEPT ![w] = l]
  /\ UNCHANGED req

StartUpload(w, b, u) ==
  /\ pc[w] = "idle"
  /\ Owns(u, b)
  /\ pc' = [pc EXCEPT ![w] = "uploading"]
  /\ req' = [req EXCEPT ![w] = [bill |-> b, user |-> u, src |-> NoPath]]
  /\ UNCHANGED <<held, dbVars, storageVars, workerVars>>

Save(w, p) ==
  /\ pc[w] = "uploading"
  /\ StoreNew(w, p, "saved")
  /\ UNCHANGED <<dbVars, workerVars>>

(* The extraction read the receipt and succeeded: its snapshot of the bill   *)
(* (path, owner, not compressed) starts the compression goroutine.           *)
StartCompress(w, b) ==
  /\ pc[w] = "idle"
  /\ b \in bills /\ owner[b] # NoUser
  /\ receipt[b] # NoPath /\ ~compressed[b]
  /\ receipt[b] \in objects
  /\ pc' = [pc EXCEPT ![w] = "compressing"]
  /\ req' = [req EXCEPT ![w] = [bill |-> b, user |-> owner[b], src |-> receipt[b]]]
  /\ UNCHANGED <<held, dbVars, storageVars, workerVars>>

Compress(w, p) ==
  /\ pc[w] = "compressing"
  /\ req[w].src \in objects
  /\ StoreNew(w, p, "compressed")
  /\ UNCHANGED <<dbVars, workerVars>>

(* Save or Compress fails (also: the source is gone).  A PutObject that      *)
(* timed out may have stored the object, whose name nobody keeps.            *)
StoreFails(w) ==
  /\ pc[w] \in {"uploading", "compressing"}
  /\ Return(w)
  /\ \/ UNCHANGED storageVars
     \/ /\ pc[w] = "compressing" => req[w].src \in objects
        /\ \E p \in Path \ drawn : drawn' = drawn \cup {p} /\ objects' = objects \cup {p}
  /\ UNCHANGED <<dbVars, workerVars>>

(* After the transaction committed: done, or the error sends the writer to   *)
(* compensateReceipt although the bill already shows the object.             *)
CommittedButUndone(w) == Goto(w, "undo")    \* mutant: compensation is unconditional
CommittedButHeld(w) == Goto(w, "idle")      \* mutant: the writer keeps the object

Committed(w) == Return(w) \/ (CommitMayBeLost /\ Goto(w, "undo"))

CommitUpload(w) ==
  /\ pc[w] = "saved"
  /\ Owns(req[w].user, req[w].bill)
  /\ Supersede(req[w].bill, held[w], FALSE)
  /\ Committed(w)
  /\ UNCHANGED <<storageVars, workerVars>>

CommitCompressed(w) ==
  /\ pc[w] = "compressed"
  /\ StillCurrent(req[w])
  /\ Supersede(req[w].bill, held[w], TRUE)
  /\ Committed(w)
  /\ UNCHANGED <<storageVars, workerVars>>

(* The row is gone, has another owner or another receipt, or the database fails. *)
CommitFails(w) ==
  /\ pc[w] \in {"saved", "compressed"}
  /\ Goto(w, "undo")
  /\ UNCHANGED <<dbVars, storageVars, workerVars>>

UndoDelete(w) ==
  /\ pc[w] = "undo"
  /\ objects' = objects \ {held[w]}
  /\ Return(w)
  /\ UNCHANGED <<drawn, dbVars, workerVars>>

(* A delete that returned an error may have deleted the object. *)
UndoDeleteFails(w) ==
  /\ pc[w] = "undo"
  /\ objects' \in {objects, objects \ {held[w]}}
  /\ Goto(w, "requeue")
  /\ UNCHANGED <<drawn, dbVars, workerVars>>

UndoEnqueue(w) ==
  /\ pc[w] = "requeue"
  /\ queue' = Queued({held[w]})
  /\ Return(w)
  /\ UNCHANGED <<bills, owner, receipt, compressed, storageVars, workerVars>>

(* Both compensations failed: the handler logs and forgets the object. *)
UndoEnqueueFails(w) ==
  /\ pc[w] = "requeue"
  /\ Return(w)
  /\ UNCHANGED <<dbVars, storageVars, workerVars>>

WriterDies(w) ==
  /\ pc[w] # "idle"
  /\ Return(w)
  /\ UNCHANGED <<dbVars, storageVars, workerVars>>

-----------------------------------------------------------------------------
(* Workers.                                                                  *)

(* sweep's DeleteExpiredBillSessions: any set of bills may have passed       *)
(* expires_at; the empty set is also the query that failed.                  *)
ExpireBills(k, B) ==
  /\ sweep[k] = "idle"
  /\ B \subseteq bills
  /\ bills' = bills \ B
  /\ receipt' = [b \in Bill |-> IF b \in B THEN NoPath ELSE receipt[b]]
  /\ queue' = Queued(Vacated(B))
  /\ sweep' = [sweep EXCEPT ![k] = "claim"]
  /\ UNCHANGED <<owner, compressed, batch, item, storageVars, writerVars>>

Claimable == {p \in Path : queue[p] = "due"}

(* ClaimReceiptDeletions leases up to BatchLimit due rows. *)
Claim(k, S) ==
  /\ sweep[k] = "claim"
  /\ S \subseteq Claimable
  /\ Cardinality(S) <= BatchLimit
  /\ S # Claimable => Cardinality(S) = BatchLimit
  /\ queue' = [p \in Path |-> IF p \in S THEN "leased" ELSE queue[p]]
  /\ batch' = [batch EXCEPT ![k] = S]
  /\ sweep' = [sweep EXCEPT ![k] = "delete"]
  /\ UNCHANGED <<bills, owner, receipt, compressed, item, storageVars, writerVars>>

ClaimFails(k) ==
  /\ sweep[k] = "claim"
  /\ sweep' = [sweep EXCEPT ![k] = "idle"]
  /\ UNCHANGED <<batch, item, dbVars, storageVars, writerVars>>

(* The next item leaves the batch and the worker goes on at l. *)
Take(k, p, l) ==
  /\ sweep[k] = "delete"
  /\ p \in batch[k]
  /\ batch' = [batch EXCEPT ![k] = @ \ {p}]
  /\ item' = [item EXCEPT ![k] = p]
  /\ sweep' = [sweep EXCEPT ![k] = l]

DeleteObject(k, p) ==
  /\ Take(k, p, "ack")
  /\ objects' = objects \ {p}
  /\ UNCHANGED <<drawn, dbVars, writerVars>>

(* A delete that returned an error may have deleted the object. *)
DeleteObjectFails(k, p) ==
  /\ Take(k, p, "retry")
  /\ objects' \in {objects, objects \ {p}}
  /\ UNCHANGED <<drawn, dbVars, writerVars>>

(* The row of the current item becomes s and the worker turns to the next item. *)
Settle(k, s) ==
  /\ queue' = [queue EXCEPT ![item[k]] = s]
  /\ item' = [item EXCEPT ![k] = NoPath]
  /\ sweep' = [sweep EXCEPT ![k] = "delete"]
  /\ UNCHANGED <<bills, owner, receipt, compressed, batch, storageVars, writerVars>>

Ack(k) == sweep[k] = "ack" /\ Settle(k, "none")

RetryDropsRow(k) == sweep[k] = "retry" /\ Settle(k, "none")   \* mutant

(* UPDATE ... WHERE id: no row, no effect. *)
Retry(k) ==
  /\ sweep[k] = "retry"
  /\ Settle(k, IF queue[item[k]] = "none" THEN "none" ELSE "backoff")

(* The acknowledgement or retry failed and is only logged: the row keeps its lease. *)
SettleFails(k) ==
  /\ sweep[k] \in {"ack", "retry"}
  /\ Settle(k, queue[item[k]])

FinishSweep(k) ==
  /\ sweep[k] = "delete"
  /\ batch[k] = {}
  /\ sweep' = [sweep EXCEPT ![k] = "idle"]
  /\ UNCHANGED <<batch, item, dbVars, storageVars, writerVars>>

WorkerDies(k) ==
  /\ sweep[k] # "idle"
  /\ sweep' = [sweep EXCEPT ![k] = "idle"]
  /\ batch' = [batch EXCEPT ![k] = {}]
  /\ item' = [item EXCEPT ![k] = NoPath]
  /\ UNCHANGED <<dbVars, storageVars, writerVars>>

-----------------------------------------------------------------------------
(* Clocks and other routes.                                                  *)

Turns(p, from, to) ==
  /\ queue[p] = from
  /\ queue' = [queue EXCEPT ![p] = to]
  /\ UNCHANGED <<bills, owner, receipt, compressed,
                 storageVars, writerVars, workerVars>>

NoReclaim(p) == FALSE   \* mutant: a claim ignores rows whose lease has expired

LeaseExpires(p) == Turns(p, "leased", "due")      \* processing_until passes
BackoffElapses(p) == Turns(p, "backoff", "due")   \* next_attempt_at arrives

(* A merge of two users moves the bill; deleting a user sets the owner to NULL. *)
MoveBill(b, u) ==
  /\ b \in bills
  /\ owner[b] # u
  /\ owner' = [owner EXCEPT ![b] = u]
  /\ UNCHANGED <<bills, receipt, compressed, queue,
                 storageVars, writerVars, workerVars>>

-----------------------------------------------------------------------------
WriterStep(w) ==
  \/ \E b \in Bill, u \in User : StartUpload(w, b, u)
  \/ \E b \in Bill : StartCompress(w, b)
  \/ \E p \in Path : Save(w, p) \/ Compress(w, p)
  \/ StoreFails(w)
  \/ CommitUpload(w) \/ CommitCompressed(w) \/ CommitFails(w)
  \/ UndoDelete(w) \/ UndoDeleteFails(w)
  \/ UndoEnqueue(w) \/ UndoEnqueueFails(w)
  \/ WriterDies(w)

WorkerStep(k) ==
  \/ \E B \in SUBSET Bill : ExpireBills(k, B)
  \/ \E S \in SUBSET Path : Claim(k, S)
  \/ ClaimFails(k)
  \/ \E p \in Path : DeleteObject(k, p) \/ DeleteObjectFails(k, p)
  \/ Ack(k) \/ Retry(k) \/ SettleFails(k)
  \/ FinishSweep(k)
  \/ WorkerDies(k)

Next ==
  \/ \E w \in Writer : WriterStep(w)
  \/ \E k \in Worker : WorkerStep(k)
  \/ \E p \in Path : LeaseExpires(p) \/ BackoffElapses(p)
  \/ \E b \in Bill, u \in User \cup {NoUser} : MoveBill(b, u)

Spec == Init /\ [][Next]_vars

(***************************************************************************)
(* Fairness of the cleanup loop.  The ticker keeps firing and a worker     *)
(* that is alive finishes what it started (weak fairness).  Strong         *)
(* fairness says that a call which is retried for ever succeeds at last:   *)
(* claims go through in id order, so every due row gets its turn; storage  *)
(* deletes and acknowledgements do not fail each and every time.  Nothing  *)
(* is assumed of writers, of users, or about how often a worker dies.      *)
(***************************************************************************)
Fairness ==
  /\ \A k \in Worker :
       /\ WF_vars(\E B \in SUBSET Bill : ExpireBills(k, B))
       /\ WF_vars(FinishSweep(k))
       /\ WF_vars(Ack(k) \/ Retry(k) \/ SettleFails(k))
  /\ \A p \in Path :
       /\ WF_vars(LeaseExpires(p))
       /\ WF_vars(BackoffElapses(p))
       /\ SF_vars(\E k \in Worker, S \in SUBSET Path : p \in S /\ Claim(k, S))
       /\ SF_vars(\E k \in Worker : DeleteObject(k, p))
       /\ SF_vars(\E k \in Worker : item[k] = p /\ Ack(k))

FairSpec == Spec /\ Fairness

-----------------------------------------------------------------------------
(* Properties.                                                               *)

(***************************************************************************)
(* A receipt a bill shows can be opened: handleGetReceipt and              *)
(* handleExtract, which read the path from the row and open the object in  *)
(* a later call, miss it only if it was replaced in between.               *)
(***************************************************************************)
NoDanglingReceipt == \A b \in Bill : receipt[b] # NoPath => receipt[b] \in objects

(***************************************************************************)
(* No one is about to delete an object that a bill shows: it has no row in *)
(* the deletion queue, no worker carries it from an older claim (a lease   *)
(* that expired included) and no writer is undoing it.                     *)
(***************************************************************************)
Doomed(p) ==
  \/ queue[p] # "none"
  \/ \E k \in Worker : p \in batch[k] \/ item[k] = p
  \/ \E w \in Writer : held[w] = p /\ pc[w] \in {"undo", "requeue"}

ShownIsNotDoomed == \A p \in Path : Shown(p) => ~Doomed(p)

(***************************************************************************)
(* Two bills never show the same object, so the expiry or replacement of   *)
(* one bill's receipt cannot take away the other's.                        *)
(***************************************************************************)
ReceiptsAreExclusive ==
  \A b, c \in Bill : receipt[b] = receipt[c] /\ receipt[b] # NoPath => b = c

(***************************************************************************)
(* An object nobody will ever delete: no bill shows it, no row names it,   *)
(* no writer holds it.  Such an orphan comes into being only when a writer *)
(* dies between storing and committing, when both calls of                 *)
(* compensateReceipt fail, or when a failed PutObject stored the object    *)
(* after all: no replacement, lost race, expiry or acknowledgement leaks.  *)
(***************************************************************************)
Orphan(p) ==
  /\ p \in objects
  /\ ~Shown(p)
  /\ queue[p] = "none"
  /\ \A w \in Writer : held[w] # p

OrphansNeedADoubleFault ==
  [][\A p \in Path : Orphan(p)' /\ ~Orphan(p) =>
       \E w \in Writer : WriterDies(w) \/ UndoEnqueueFails(w) \/ StoreFails(w)]_vars

(***************************************************************************)
(* A bill's receipt is replaced only on behalf of the user who owns the    *)
(* bill at that moment, and by a compressed image only if that image was   *)
(* computed from the very receipt it replaces: an extraction that ran      *)
(* while a new photo was uploaded never brings the old photo back.         *)
(***************************************************************************)
ReplacementIsCurrent ==
  [][\A b \in Bill : receipt'[b] \notin {receipt[b], NoPath} =>
       \E w \in Writer :
         /\ held[w] = receipt'[b]
         /\ req[w].bill = b /\ req[w].user = owner[b]
         /\ compressed'[b] => req[w].src = receipt[b]]_vars

(***************************************************************************)
(* A row of the deletion queue is worked off: in the end the object does   *)
(* not exist and the row is gone, whatever failed before.                  *)
(***************************************************************************)
RowIsWorkedOff ==
  \A p \in Path : queue[p] # "none" ~> (queue[p] = "none" /\ p \notin objects)

(***************************************************************************)
(* Refinement.  The stage of an object is read off the rows, the storage   *)
(* and the writers; an orphan is lost.                                     *)
(***************************************************************************)
StageOf(p) ==
  IF Shown(p) THEN "live"
  ELSE IF p \notin drawn THEN "absent"
  ELSE IF p \notin objects THEN "gone"
  ELSE IF queue[p] # "none" THEN "condemned"
  ELSE IF \E w \in Writer : held[w] = p THEN "staged"
  ELSE "lost"

Lifecycle == INSTANCE ReceiptLifecycle
  WITH current <- receipt, stage <- [p \in Path |-> StageOf(p)]

(***************************************************************************)
(* Every behaviour of the store is one of ReceiptLifecycle: what a bill    *)
(* shows is replaced and condemned in one step, and a condemned object can *)
(* only be erased.                                                         *)
(***************************************************************************)
ImplementsLifecycle == Lifecycle!Spec
=============================================================================

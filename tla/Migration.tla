------------------------------ MODULE Migration ------------------------------
(* The one-time move of the receipts from the local volume to the S3 bucket:  *)
(* the command receipt-migrate (cmd/receipt-migrate, receipts/migration.go),  *)
(* the maintenance window around it, and the server that stores receipts      *)
(* before and after it (ReceiptStore has the details of that).                *)
(*                                                                            *)
(* Runs of the command may overlap, fail or die at any call, and be repeated; *)
(* a PUT may take effect at once, much later, again, or never, and the answer *)
(* to it be lost.                                                             *)
(* The bytes of a receipt are never rewritten, so an object is described by   *)
(* whether its data and its size and sha256 metadata are those of its file.   *)
EXTENDS Naturals
CONSTANTS
  Path,     \* receipt paths, random and used once
  Run,      \* invocations of the command
  Found,    \* objects that may be in the bucket when the window is planned
  None
Object == [data: {"same", "other"}, sha: {"same", "other", "none"}]
ASSUME MigrationAssumption ==
  Found \subseteq Object /\ None \notin Object \cup Path /\ Path \cap Run = {}
VARIABLES
  server,   \* "local" or "s3", its storage, or "stopped"
  refs,     \* receipt_image_path of all bills
  queue,    \* receipt_deletion_queue
  used,     \* paths there were so far
  files,    \* paths with a file in the local volume
  bucket,   \* [Path -> object or None]
  canary,   \* runs whose canary is in the bucket
  late,     \* paths and canaries whose PUT may still take effect
  at,       \* [Run -> call the run stands before, or how it ended]
  mode,     \* [Run -> subcommand]
  broken,   \* runs whose preflight has an error to return
  todo,     \* [Run -> paths its current pass has not reached]
  list,     \* [Run -> paths the run has found in the database]
  path,     \* [Run -> the path it is about to PUT]
  quiet,    \* runs that began after the server had been stopped, which it still is
  passed    \* one of them was "verify" and has passed
serverVars == <<server, refs, queue, used, files>>
storeVars == <<bucket, canary, late>>
localVars == <<broken, list, todo, path>>
windowVars == <<mode, quiet>>
vars == <<serverVars, storeVars, at, localVars, windowVars, passed>>

Mode == {"preflight", "dry run", "migrate", "verify"}
Copy == [data |-> "same", sha |-> "same"]
Calls == {"put canary", "probe canary", "delete canary", "list", "head", "put", "compare"}
Ends == {"ended", "untidy"}

\* The bucket may hold anything, what an earlier attempt has left for instance.
Init ==
  /\ server = "local" /\ queue = {} /\ passed = FALSE
  /\ files \in SUBSET Path /\ refs \in SUBSET Path
  /\ bucket \in [Path -> Found \cup {None}]
  /\ used = files \cup refs \cup {p \in Path : bucket[p] # None}
  /\ canary = {} /\ late = {} /\ broken = {} /\ quiet = {}
  /\ at = [r \in Run |-> "idle"] /\ mode = [r \in Run |-> "preflight"]
  /\ list = [r \in Run |-> {}] /\ todo = [r \in Run |-> {}] /\ path = [r \in Run |-> None]

Goto(r, s) == at' = [at EXCEPT ![r] = s]
\* The process ends and takes its variables with it; "untidy" when it reports that its
\* canary was not removed, or could not do that.
End(r, s) ==
  /\ Goto(r, s)
  /\ mode' = [mode EXCEPT ![r] = "preflight"] /\ path' = [path EXCEPT ![r] = None]
  /\ list' = [list EXCEPT ![r] = {}] /\ todo' = [todo EXCEPT ![r] = {}]
  /\ broken' = broken \ {r} /\ quiet' = quiet \ {r}

-----------------------------------------------------------------------------
(* The server and the operator *)

\* An upload, or the compressed copy of a receipt, reaches the storage and then a bill.
Upload(p) ==
  /\ server # "stopped" /\ p \notin used
  /\ used' = used \cup {p} /\ refs' = refs \cup {p}
  /\ IF server = "local" THEN files' = files \cup {p} /\ bucket' = bucket
     ELSE bucket' = [bucket EXCEPT ![p] = Copy] /\ files' = files
  /\ UNCHANGED <<server, queue, canary, late, at, localVars, windowVars, passed>>

\* A plausible bug: the path is queued while the bill still shows it.
QueueOnly(p) ==
  /\ server # "stopped" /\ p \in refs
  /\ refs' = refs /\ queue' = queue \cup {p}
  /\ UNCHANGED <<server, used, files, storeVars, at, localVars, windowVars, passed>>
\* The bill expires or gets another receipt.
Drop(p) ==
  /\ server # "stopped" /\ p \in refs
  /\ refs' = refs \ {p} /\ queue' = queue \cup {p}
  /\ UNCHANGED <<server, used, files, storeVars, at, localVars, windowVars, passed>>
\* The cleanup deletes from the storage of the day; a missing object counts as deleted.
DeleteQueued(p) ==
  /\ server # "stopped" /\ p \in queue
  /\ queue' = queue \ {p}
  /\ IF server = "local" THEN files' = files \ {p} /\ bucket' = bucket
     ELSE bucket' = [bucket EXCEPT ![p] = None] /\ files' = files
  /\ UNCHANGED <<server, refs, used, canary, late, at, localVars, windowVars, passed>>

StopServer ==
  /\ server = "local" /\ server' = "stopped"
  /\ UNCHANGED <<refs, queue, used, files, storeVars, at, localVars, windowVars, passed>>
\* The window is given up, or the explicit verify has passed and S3 is deployed.
Resume ==
  /\ server = "stopped"
  /\ server' \in IF passed THEN {"local", "s3"} ELSE {"local"}
  /\ quiet' = {} /\ passed' = FALSE
  /\ UNCHANGED <<refs, queue, used, files, storeVars, at, localVars, mode>>

-----------------------------------------------------------------------------
(* preflight: a canary is written, probed and deleted *)

\* The HEAD of the bucket comes first, and may fail.
Start(r) ==
  /\ at[r] = "idle"
  /\ \E m \in Mode :
       /\ mode' = [mode EXCEPT ![r] = m]
       /\ Goto(r, IF m = "dry run" THEN "list" ELSE "put canary")
  /\ quiet' = IF server = "stopped" THEN quiet \cup {r} ELSE quiet
  /\ UNCHANGED <<serverVars, storeVars, localVars, passed>>

\* The client of the SDK repeats a PUT it has no answer for: an attempt may still take
\* effect after the call has returned, with an error or without.
MayLand(x) == late' \in {late, late \cup {x}}

PutCanary(r) ==
  /\ at[r] = "put canary"
  /\ canary' = canary \cup {r} /\ MayLand(r)
  /\ Goto(r, "probe canary")
  /\ UNCHANGED <<serverVars, bucket, localVars, windowVars, passed>>
\* The error of a PUT does not say whether it took effect.
InDoubt(r) == canary' \in {canary, canary \cup {r}} /\ MayLand(r)
\* A plausible bug: the cleanup is deferred after the PUT, so a failed one skips it.
PutCanarySkipsCleanup(r) ==
  /\ at[r] = "put canary" /\ InDoubt(r)
  /\ End(r, "ended")
  /\ UNCHANGED <<serverVars, bucket, passed>>
PutCanaryFails(r) ==
  /\ at[r] = "put canary" /\ InDoubt(r)
  /\ broken' = broken \cup {r}
  /\ Goto(r, "delete canary")
  /\ UNCHANGED <<serverVars, bucket, list, todo, path, windowVars, passed>>

\* Read back, fetched with a presigned URL, and refused without a signature
ProbeCanary(r) ==
  /\ at[r] = "probe canary"
  /\ broken' \in {broken, broken \cup {r}}
  /\ Goto(r, "delete canary")
  /\ UNCHANGED <<serverVars, storeVars, list, todo, path, windowVars, passed>>

\* The end of a run of preflight alone, or the error it returns
DeleteCanary(r) ==
  /\ at[r] = "delete canary" /\ (r \in broken \/ mode[r] = "preflight")
  /\ canary' = canary \ {r}
  /\ End(r, "ended")
  /\ UNCHANGED <<serverVars, bucket, late, passed>>
PassPreflight(r) ==
  /\ at[r] = "delete canary" /\ r \notin broken /\ mode[r] # "preflight"
  /\ canary' = canary \ {r}
  /\ Goto(r, "list")
  /\ UNCHANGED <<serverVars, bucket, late, localVars, windowVars, passed>>
\* "canary cleanup failed"
DeleteCanaryFails(r) ==
  /\ at[r] = "delete canary"
  /\ canary' \in {canary, canary \ {r}}
  /\ End(r, "untidy")
  /\ UNCHANGED <<serverVars, bucket, late, passed>>

-----------------------------------------------------------------------------
(* Migrate *)

\* receiptPaths, once for both passes of migrate
List(r) ==
  /\ at[r] = "list"
  /\ list' = [list EXCEPT ![r] = refs] /\ todo' = [todo EXCEPT ![r] = refs]
  /\ Goto(r, IF mode[r] = "verify" THEN "compare" ELSE "head")
  /\ UNCHANGED <<serverVars, storeVars, broken, path, windowVars, passed>>

\* A plausible bug: an object whose digest differs counts as missing.
OutOfDate(p) == ~(bucket[p] # None /\ bucket[p].sha = "same")
Missing(p) == bucket[p] = None
Skip(r, p) == todo' = [todo EXCEPT ![r] = @ \ {p}]
\* The file is read, then the size and the metadata of the object are compared with it.
HeadFinds(r) ==
  /\ at[r] = "head"
  /\ \E p \in todo[r] \cap files : ~Missing(p) /\ bucket[p].sha = "same" /\ Skip(r, p)
  /\ UNCHANGED <<serverVars, storeVars, at, broken, list, path, windowVars, passed>>
\* A dry run counts the object and goes on.
HeadMisses(r) ==
  /\ at[r] = "head"
  /\ \E p \in todo[r] \cap files :
       /\ Missing(p) /\ Skip(r, p)
       /\ IF mode[r] = "dry run" THEN at' = at /\ path' = path
          ELSE Goto(r, "put") /\ path' = [path EXCEPT ![r] = p]
  /\ UNCHANGED <<serverVars, storeVars, broken, list, windowVars, passed>>

Put(r) ==
  /\ at[r] = "put"
  /\ bucket' = [bucket EXCEPT ![path[r]] = Copy] /\ MayLand(path[r])
  /\ path' = [path EXCEPT ![r] = None] /\ Goto(r, "head")
  /\ UNCHANGED <<serverVars, canary, broken, list, todo, windowVars, passed>>
PutFails(r) ==
  /\ at[r] = "put"
  /\ bucket' \in {bucket, [bucket EXCEPT ![path[r]] = Copy]} /\ MayLand(path[r])
  /\ End(r, "ended")
  /\ UNCHANGED <<serverVars, canary, passed>>

\* The orphans are counted; migrate then verifies the same paths, and a dry run is over.
EndPass(r) ==
  /\ at[r] = "head" /\ todo[r] = {}
  /\ \/ /\ mode[r] = "migrate"
        /\ Goto(r, "compare") /\ todo' = [todo EXCEPT ![r] = list[r]]
        /\ UNCHANGED <<broken, list, path, windowVars>>
     \/ mode[r] = "dry run" /\ End(r, "ended")
  /\ UNCHANGED <<serverVars, storeVars, passed>>

-----------------------------------------------------------------------------
(* Verify *)

\* A plausible bug: the metadata is compared instead of the bytes.
SameDigest(p) == bucket[p] # None /\ bucket[p].sha = "same"
SameBytes(p) == bucket[p] # None /\ bucket[p].data = "same"
Compare(r) ==
  /\ at[r] = "compare"
  /\ \E p \in todo[r] \cap files : SameBytes(p) /\ Skip(r, p)
  /\ UNCHANGED <<serverVars, storeVars, at, broken, list, path, windowVars, passed>>
Verified(r) ==
  /\ at[r] = "compare" /\ todo[r] = {}
  /\ passed' = (passed \/ (r \in quiet /\ mode[r] = "verify"))
  /\ End(r, "ended")
  /\ UNCHANGED <<serverVars, storeVars>>

\* A missing file, a conflict, a mismatch, or any error of a call
Fail(r) ==
  /\ at[r] \in {"list", "head", "compare"}
  /\ End(r, "ended")
  /\ UNCHANGED <<serverVars, storeVars, passed>>
\* The container is stopped, with a call under way or none.
Die(r) ==
  /\ at[r] \in Calls
  /\ late' \in {late} \cup (IF at[r] = "put" THEN {late \cup {path[r]}} ELSE {})
                     \cup (IF at[r] = "put canary" THEN {late \cup {r}} ELSE {})
  /\ End(r, "untidy")
  /\ UNCHANGED <<serverVars, bucket, canary, passed>>

PutLands(p) ==
  /\ p \in late /\ late' = late \ {p}
  /\ bucket' = [bucket EXCEPT ![p] = Copy]
  /\ UNCHANGED <<serverVars, canary, at, localVars, windowVars, passed>>
CanaryLands(r) ==
  /\ r \in late
  /\ canary' = canary \cup {r}
  /\ UNCHANGED <<serverVars, bucket, late, at, localVars, windowVars, passed>>

Command(r) ==
  \/ Start(r) \/ PutCanary(r) \/ PutCanaryFails(r) \/ ProbeCanary(r)
  \/ DeleteCanary(r) \/ PassPreflight(r) \/ DeleteCanaryFails(r)
  \/ List(r) \/ HeadFinds(r) \/ HeadMisses(r) \/ Put(r) \/ PutFails(r)
  \/ EndPass(r) \/ Compare(r) \/ Verified(r) \/ Fail(r) \/ Die(r)
Next ==
  \/ \E p \in Path : Upload(p) \/ Drop(p) \/ DeleteQueued(p) \/ PutLands(p)
  \/ StopServer \/ Resume
  \/ \E r \in Run : Command(r) \/ CanaryLands(r)
Spec == Init /\ [][Next]_vars

-----------------------------------------------------------------------------
(* Properties *)

\* Every variable has its type; no receipt that a bill shows is queued for deletion.
TypeOK ==
  /\ server \in {"local", "stopped", "s3"} /\ passed \in BOOLEAN
  /\ used \subseteq Path /\ files \subseteq used /\ refs \subseteq used
  /\ queue \subseteq used \ refs
  /\ bucket \in [Path -> Object \cup {None}]
  /\ canary \subseteq Run /\ late \subseteq used \cup Run
  /\ at \in [Run -> Calls \cup Ends \cup {"idle"}]
  /\ mode \in [Run -> Mode] /\ broken \subseteq Run /\ quiet \subseteq Run
  /\ list \in [Run -> SUBSET used] /\ todo \in [Run -> SUBSET used]
  /\ path \in [Run -> used \cup {None}]
  /\ \A r \in Run : at[r] = "put" => path[r] # None

\* From the cutover on every receipt a bill shows is in the bucket with its own bytes,
\* whatever was in the bucket before, and however many runs failed, died, overlapped or ran
\* outside of the window before one verify passed (runbook, steps 2 to 6).
CutoverLosesNothing == server = "s3" =>
  \A p \in refs : bucket[p] # None /\ bucket[p].data = "same"

\* "It deliberately refuses to replace an object whose identity cannot be established"
\* (migration.go:36-37), although PUT is unconditional and comes after a HEAD in another
\* call (line 281).  Two runs may both find a path free and both write it, and an attempt
\* may land long after its run: whatever a PUT under way or left behind will find, it is
\* nothing or the very same receipt.  And no step changes an object: it writes the receipt
\* where there was none, or what is there already, or deletes.
Pending(p) == p \in late \/ \E r \in Run : at[r] = "put" /\ path[r] = p
NoObjectIsReplaced == [][\A p \in Path :
  /\ Pending(p) => bucket[p] \in {None, Copy}
  /\ bucket'[p] \notin {bucket[p], None} => bucket[p] = None /\ bucket'[p] = Copy]_vars

\* A run that ends without reporting a failed cleanup, and has not been killed, has left no
\* canary in the bucket, unless an attempt to PUT it lands later (main.go:150-164).
CanaryIsRemoved == \A r \in canary : at[r] = "ended" => r \in late
=============================================================================

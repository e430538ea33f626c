# Formal model of share.simeon.dev

share.simeon.dev splits restaurant bills. A host photographs a receipt, a language
model reads the items, the host assigns them to people, and everybody opens a link
that shows what each one owes. The program is a Go backend (`src/backend`) over
Postgres, Redis and a local or S3 store for receipt images, with a React frontend
(`src/frontend`).

This directory holds TLA+ modules translated from the code, TLC configurations that
check them on small instances, and TLAPS proofs for every instance. `PROJECT.json`
lists the runs, the lines each definition stands for, the mutants that show each
property can fail, the findings and the theorems.

```
tlc -workers 2 -config ScanRaces.cfg MCReceiptScan      # one run
tlapm ReceiptStoreProofs.tla                            # one module of proofs
```

## 1. Inventory

All paths are under `src/backend/internal/` unless they say otherwise.

### State

| where | state | written by |
|---|---|---|
| Postgres `bill_sessions` | owner, receipt path and compressed flag, subtotal, paid total, share token, `extract_count`, expiry | bill routes, receipt routes, scans, merges, cleanup |
| Postgres `people`, `dishes`, `portions` | who takes how many shares of what | bill routes, scans |
| Postgres `receipt_deletion_queue` | paths to delete, attempts, next attempt, lease | receipt transactions, cleanup |
| Postgres `extraction_runs`, `extraction_attempts` | one row per scan, one per provider call | scans |
| Postgres `users`, `sessions`, `webauthn_credentials`, `otp_codes`, ceremonies | identities | auth, cleanup |
| Redis | fixed windows per address, the spend total of a day, one key per reservation | rate limits, scans |
| receipt storage | image objects | uploads, compressions, cleanup |
| memory | admission slots of the image converter; optimistic portions in the browser | converter; browser |

### Components

| component | operations | hard behaviour | what makes it correct | module |
|---|---|---|---|---|
| **Receipt objects of a bill** (`httpapi/receipt.go`, `receipts/`, `store/store.go`) | upload, read, compress after a scan, compensate a failed transaction | object store and database share no transaction; an old compression races a new photo; COMMIT may be applied behind an error | what is shown exists, is not about to be deleted and is shown by one bill; nothing leaks but by a double fault; only the current photo is replaced | `ReceiptStore`, abstract `ReceiptLifecycle` |
| **Deletion queue and cleanup loop** (`cleanup/cleanup.go`) | expire bills, claim under a lease, delete, acknowledge, back off | workers die, leases expire under a slow worker, deletes are repeated | every row is worked off, and no stale lease deletes a live object | `ReceiptStore` |
| **LLM spend ledger** (`ratelimit/ratelimit.go`) | reserve, finalize (Lua scripts) | races for the last cents, midnight, expiring keys, lost answers | the total of today is exact and bounds the provider's bill | `SpendLedger` |
| **Receipt scan** (`httpapi/receipt.go` `handleExtract`) | admit, begin a run, reserve, call, finalize, record, save items, fill in metadata | a dozen calls to four services, each of which may fail; edits of the user in between | limits hold under races; records tell the truth; user entries survive | `ReceiptScan` |
| **Extraction strategies** (`extraction/`) | one to `MaxCalls()` provider calls | partial failures whose price is unknown | an unknown price is not a free call | in `ReceiptScan`, calls and prices only |
| **Fixed windows** (`ratelimit.go` `Allow`) | INCR then EXPIRE | the second command is lost | a window ends | not modelled |
| **Email codes** (`auth/otp.go`) | request, verify | two requests at once, guesses in parallel, failure after consumption | a new code kills the older ones; bounded guesses; a code opens once | `OneTimeCodes`, in `SignIn` |
| **Sessions and identities** (`auth/session.go`, `middleware.go`) | identify, create, rotate, touch, log out | a failing database looks like a missing session; answers of one browser overlap | a valid session is replaced only for a reason; the old token of a sign-in dies | `SignIn` |
| **Merging, passkeys** (`auth/merge.go`, `webauthn.go`) | attach an address or merge, ceremonies | unlocked reads before DELETE, bills made meanwhile | what a merge found is kept; a spelling of an address never collides; a passkey names its user | `SignIn` |
| **Bills, people, dishes, portions** (`store/store.go`, `httpapi/bills.go`) | create, edit, delete, breakdown | checks in separate statements, a subtotal kept by a second statement, four-statement reads | a breakdown adds up, whatever happens around it; a replaced list is whole | `Bill` |
| **Split** (`split/calculate.go`) | `Compute` | rounding, negative prices, unassigned items | amounts add up, are within a cent of the ideal, and the largest remainders get the odd cents | `Split` |
| **Share links** (`store.go`) | create, rotate, open | creation races creation | a link works until it is rotated | in `Bill` |
| **Image converter** (`imageconverter/converter.go`) | preflight, admit, convert | a child process, its pipes and its timeout | slots bound processes, an image is whole, a refusal has a cause, a stuck child is killed | `Converter` |
| **Bill workspace** (`src/frontend/src/screens/BillWorkspace.tsx`) | optimistic portion updates and rollback | answers out of order | the screen ends where the server does | not modelled |
| **Receipt migration** (`receipts/migration.go`, `cmd/receipt-migrate`) | preflight, copy local receipts to S3, verify | runs that overlap, die or leave PUTs behind; receipts that change meanwhile | nothing is overwritten; after the cutover every receipt is there | `Migration` |
| Router, configuration, mail, pool, command-line tools | wiring and I/O | none of their own | | not modelled |

### How they interact

* A bill row points at an object by path. Whoever replaces or deletes the pointer
  inserts the old path into the deletion queue **in the same transaction**; the
  object itself is deleted later, by any server's cleanup loop.
* A scan reads the bill once, then works from that snapshot for minutes: it opens
  the path, reserves and finalizes with Redis, calls the provider, and writes
  telemetry, items and metadata in three transactions. A successful one leaves a
  goroutine behind that compresses the image it read.
* A merge moves bills between users while uploads and scans of those bills run.
* Everything that carries the user's intent is scoped by `owner_user_id`, most of
  it inside the statement, some of it in a statement before
  (`AddPerson`, `AddDish`, `ReplaceDishes`).

## 2. How the project is built

The parts in which several processes and several stores meet came first, the pure
and the single-store parts after.

| modules | composes | abstract specification | runs | theorems |
|---|---|---|---|---|
| `ReceiptLifecycle`, `ReceiptStore`, `MCReceiptStore`, `ReceiptStoreProofs` | storage, rows, writers, cleanup | life cycle of one object | replacement, liveness, lost commit | every safety property and the refinement |
| `SpendLedger`, `ReceiptScan`, `MCReceiptScan`, `ReceiptScanProofs` | the scan over the ledger | | races, unmetered, clobbers | every safety property; what survives of the user's entries |
| `Split`, `Bill`, `MCBill`, `SplitProofs`, `BillProofs` | a breakdown calls `Split` on four reads | largest-remainder rounding | breakdown, disagrees, mixed | every property; how far breakdowns may disagree, when lists stay whole |
| `OneTimeCodes`, `SignIn`, `MCSignIn`, `SignInProofs` | codes, sessions, merges, ceremonies | | signin | every property |
| `Converter`, `ConverterProofs` | service, copying goroutines, child | | converter | every safety property |
| `Migration`, `MCMigration`, `MigrationProofs` | the command, the operator, the server | | migration | every property |
| `SumTheorems` | | | | lemmas about sums and products, used by the proofs of scans and bills |

Modules that carry theorems use no recursive operators; constants have named
assumptions; every property of a passing run has a mutant of mapped code that
breaks it. Mutant operators stand in the modules under "A plausible bug" or
"Mutant" and are used by no action.

Every safety property and every action property that a passing run checks is proved
for all values of the constants, and so is the refinement. Only model-checked are the
two liveness properties, `RowIsWorkedOff` and `RunsEnd`, as fairness is out of the
prover's reach. For each run that refutes a promise of the code a theorem says what is
left of it: `NoDanglingTheorem` (with commits that report truthfully), `SpendTheorem`
(with providers that report usage), `UserTotalTheorem`, `AgreementTheorem` and
`ReplacementTheorem`.

`SumTheorems` has no counterpart in the code. The models add up with
`SumFunctionOnSet` and `MapThenSumSet`, which fold over a set with `CHOOSE`; it proves
that the recursion of the fold is well founded, that a sum does not depend on the
order, how it changes with one term, that rows and columns of a table add up to the
same, and that a product is a multiple of its factors. Induction over sets is there the
choice of a smallest counterexample (`SmallestSubset`), for the library's induction
theorems have an operator parameter that cannot be instantiated.

What would come next, in this order: `FixedWindow` (the two Redis commands of
`Allow`), `PortionSync` (the optimistic portion updates), and `CheckSubtotal` and the
scaled dimensions against reference definitions.

## 3. Receipts: `ReceiptStore`

### Correspondence

| model | code |
|---|---|
| `bills`, `owner`, `receipt`, `compressed` | columns of `bill_sessions` |
| `queue[p]` | the row of `p`: none, `due` (claimable), `leased` (`processing_until` ahead), `backoff` (`next_attempt_at` ahead) |
| `objects`, `drawn` | objects in storage; names `randomFilename` has produced (128 random bits: never drawn twice) |
| `pc`, `req`, `held` | an upload request or a compression goroutine: where it is, what it captured, the object only it knows |
| `sweep`, `batch`, `item` | a cleanup loop: where it is, claimed rows, the row to acknowledge or retry |
| `StartUpload`, `Save`, `CommitUpload` | `handleUploadReceipt`, `SetReceiptImagePath` |
| `StartCompress`, `Compress`, `CommitCompressed` | the goroutine of `handleExtract`, `ReplaceCompressedReceipt` |
| `CommitFails`, `UndoDelete`, `UndoEnqueue` and their failures | `compensateReceipt` |
| `ExpireBills`, `Claim`, `DeleteObject`, `Ack`, `Retry`, `FinishSweep` and their failures | `cleanup.sweep` and `processQueue`, `DeleteExpiredBillSessions`, `ClaimReceiptDeletions`, `AckReceiptDeletion`, `RetryReceiptDeletion` |
| `LeaseExpires`, `BackoffElapses` | the database clock |
| `MoveBill` | `MergeAnonymousInto`, and deleting a user (owner becomes NULL) |

A transaction is one step, every other call one step each. Any call can fail, a
failed storage call may still have taken effect, and any process can die between
two calls. `CommitMayBeLost` says whether COMMIT may apply although its caller
sees an error.

`ReceiptLifecycle` states the promise, one object at a time: absent, staged,
live, condemned, gone, or lost. The step that shows a new object condemns the old
one. `ReceiptStore` implements it under the mapping `StageOf`.

### Runs

| run | question | instance | result |
|---|---|---|---|
| `receipt_replacement` | may concurrent replacements lose, leak, share, doom or resurrect a photo? | 2 bills, 1 user, 3 objects, 2 writers, 1 worker; 588 k states | holds, and implements the life cycle |
| `receipt_liveness` | is every queued deletion done at last? | 1 bill, 2 objects, 1 writer, 1 worker, lost commits | yes, under the fairness below |
| `receipt_lost_commit` | and if a commit is applied behind an error? | 1 bill, 2 objects, 1 writer, 1 worker | **violated** in four steps |

The bounds: two writers are a race, three objects are an old photo, a new one and
a compressed one; a batch of one makes a worker that has to come back for the
rest; the one user may lose a bill to nobody, as when its account is deleted. Two
workers that share a row through an expired lease, and bills that move between two
users, are not in the instance; the proofs cover them, and remove the bounds for
everything but liveness.

Fairness (`FairSpec`): the ticker keeps firing and a live worker finishes what it
started (weak fairness); leases and backoffs elapse (weak fairness: clocks); a
claim that is retried for ever reaches every due row, because the claim orders by
id, and the storage and the database do not fail every time they are asked (strong
fairness of the claim, the delete and the acknowledgement of a path). Nothing is
assumed of users, of writers, or of how often a worker dies.

### Proofs (`ReceiptStoreProofs`)

For any numbers of bills, users, objects, writers and workers:

* `TypeCorrect`, `OrphansTheorem`, `ReplacementTheorem` need no assumption about
  commits. `OrphanInv` strengthens the type invariant by what a queued or held
  object is.
* `NoDanglingTheorem`, `NotDoomedTheorem`, `ExclusiveTheorem` assume
  `~CommitMayBeLost`. None of the three is inductive alone: that a shown object is
  kept needs that nobody is about to delete it, which needs that a held object is
  neither shown, queued nor held twice, and that an object in a worker's batch is
  not shown *and never will be again*, because a name is drawn once. `SafeInv` is
  their conjunction with these facts.
* `RefinementTheorem`: under the same assumption every step of the store is a step
  of `ReceiptLifecycle` or a stutter; the proof goes action by action over
  `StageOf` under the invariant.

`RowIsWorkedOff` is liveness and only model-checked.

## 4. Scans and money: `SpendLedger`, `ReceiptScan`

### Correspondence

| model | code |
|---|---|
| `today`, `keys`, `total`, `resv` | UTC date, key of the day's total, its value, key of a reservation |
| `Reserve`, `Finalize` | `reserveLua`, `finalizeLua` |
| `Midnight`, `TotalExpires`, `ReservationExpires` | the clock; keys live 25 hours, so they outlast their day |
| `extracts`, `CountScan` | `extract_count`, `IncrementExtractCount` |
| `row`, `reconciled` | `extraction_runs.status`, `.spend_reconciled` |
| `calls`, `spent`, `accounted` | provider calls; what they cost, in parts of a cent; `accountedCents` |
| `EstimateCostCents`, `Accounted` | the rounding of a price to whole cents (`extraction/cost.go`); what `buildAttemptTelemetry` adds for a call |
| `meta`, `items` | who wrote a field, or the items, of a bill: nobody, the user, or a scan |
| `Start` .. `PatchBill` | `handleExtract`, one step for each call it makes |
| `CallAgain`, `CallLast` | `baseline` and `feedback` strategies: turns of one `Extractor.Run` |
| `FinalizeFails`, `ReserveFails` | Redis not reached, or its answer lost after the script ran |
| `EditBill`, `EditItems` | the user's routes that race with a scan |

Prices are multiples of a cent's `Part`-th, texts are left out, and a field is its
author. The provider charges fractions of a cent (`config.go:238`), the ledger has
whole cents: `EstimateCostCents` rounds each call to the nearest cent, so a call below
half a cent is accounted as free. Both money properties therefore allow half a cent
per call. A price that nobody reports is taken to be at most `CallReserve`: the
configuration chooses the reservation as an upper bound, and no accounting could do
better. What single scans cost beyond their reservation is visible in
`BilledWithinCap`.

### Runs

| run | question | instance | result |
|---|---|---|---|
| `scan_races` | can concurrent scans spend more than the daily cap, or pass the limit of a bill? is the ledger exact, do the records tell the truth? | 2 scans, 2 bills with one admission each, 2 midnights, cap 2, reservation 2 for 2 calls of a third, two thirds or 2 cents; 1.6 M states | holds |
| `scan_unmetered` | what if the provider answers without usage? | 1 scan, 2 calls | **violated**: accounted as free |
| `scan_clobbers` | does what the user entered survive a scan? | 1 scan, 2 fields | **violated** |

The bounds: a cap of 2 has room for one reservation of 2, so the second scan is
refused unless the first is settled at nothing; a third of a cent is rounded off, two
thirds are rounded up, and 2 cents against a reservation of 1 per call make a scan that
costs more than it reserved; two days and the day after let a scan finish
after midnight against a live, an expired and an absent total. Two scans of one bill
race for its one admission, and two scans of two bills for the budget. Entries of
fields are left to `scan_clobbers`.

All properties are safety properties; the scan has no retry of its own and nothing
is assumed about fairness.

### Proofs (`ReceiptScanProofs`)

For any numbers of scans, bills and days and any prices:

* `TypeCorrect`, `ReconciledTheorem`, `SavedItemsTheorem` from `IInv`, which adds
  to the types what the row, the reservation and the calls of a scan look like at
  every step of the handler (`RowStage`, `CallStage`) and that a scan that wrote
  items is past saving (`Saved`). `ReconciledIsSettled` alone is not inductive: the
  step that closes the row must know that the reservation was gone when the
  finalization answered.
* `SpendTheorem`, assuming `~UsageMayBeMissing`, which the run `scan_unmetered` shows
  to be needed: a scan costs at most half a cent per call more than it is accounted at.
  `RoundingError` has the division behind it.
* `ScanLimitTheorem`: the runs of a bill are at most its counter, with
  `FiniteSetTheorems` for the sets of scans.

* `LedgerTheorem`: `LedgerInv` says that the total of today is the sum over the started
  scans of what each has in it, its reservation or what it was settled at, and that
  days to come have no total. `ReserveStage` adds what a step needs to change both
  sides alike: a scan that has not reserved has nothing booked, and one that calls the
  provider or settles today still has its reservation, whose total is still there.
* `CapTheorem`, assuming `~UsageMayBeMissing`: `CapInv` bounds by the cap what is
  `Held` of each day: the reservation of a scan while it may still call, and
  afterwards what it is accounted at, up to the reservation. The ledger cannot carry
  this, as the total of a past day expires while its scans go on; on the day of a
  reservation what is held is at most what is booked, and the exact ledger makes `Fits`
  a bound on both. What the provider charges is then at most what is held and the
  excess of each scan, by `SpendTheorem`.
* `UserTotalTheorem`: a total that was there when a scan started survives it. The
  invariant `SnapshotHolds` says that a scan that found no total may still rely on it;
  it needs the hypothesis that nobody enters one meanwhile, and `scan_clobbers` shows
  why. The name and the date are written without looking.

### Seen

* The cap bounds what is accounted, and that may stay behind what is charged by half a
  cent per call: with the built-in prices (at most 0.4 cents per 1000 tokens) a call
  of up to 1000 tokens is accounted as free, and any number of them fit under the
  cap. The comment of `EstimateCostCents` (`cost.go:5`) warns of this drift for
  truncation; rounding halves it per call and does not end it. `BilledWithinCap` and
  `SpendIsAccounted` state how far it goes, and fail when the code truncates.

## 5. Bills: `Split`, `Bill`

### Correspondence

| model | code |
|---|---|
| `Compute` and the operators before it | `split.Compute`: shares, raw amounts, scale, floors, remainders |
| `price`, `people`, `share`, `WellFormed` | tables `dishes`, `people`, `portions` and their keys |
| `With` | an insert, an update by key, or `ON CONFLICT ... DO UPDATE` |
| `subtotal`, `paid`, `token` | columns of `bill_sessions`; `token` is what `view_token_hash` is the hash of |
| `links`, `rotated`, `lists` | history: links given out, links replaced, lists inserted |
| `AddDish`, `UpdateDish`, then `Recalculate`, `WriteSubtotal` | the statement of the edit, then `recalculateSubtotalForDish` |
| `BeginReplace`, `CommitReplace` | `ReplaceDishes`: the snapshot of its DELETE, and its commit |
| `DeleteDish`, `AddPerson`, `DeletePerson`, `UpsertPortion`, `UpdateSession` | the statements of these routes, with the cascades |
| `CreateLink`, `RotateLink` | `GetOrCreateShareToken`, `RotateShareToken` |
| `ReadBill` .. `ReadPortions` | the four statements behind `GetBreakdown` and `GetBreakdownByViewToken` |

`Split` computes with exact fractions, by multiplying with a common multiple of the
share counts, where the code has `float64` values. The difference can only show
where exact values are equal: `Precedes` leaves the order of equal remainders open
when their binary sums may differ, and `Rounded` leaves open what becomes of
exactly half a cent. So `Compute` is the set of results the code may return.

### Runs

| run | question | instance | result |
|---|---|---|---|
| `bill_breakdown` | are amounts rounded fairly, and do they add up? do torn breakdowns overcharge? | all bills of 2 dishes and 2 people or 1 dish and 3 people, with prices -1, 2, 5, totals 0, 6, 8, shares 0 to 2; two bills under two edits; 1 reader; 102 k states | holds |
| `bill_disagrees` | do two breakdowns of one bill agree? | 3 dishes, 3 people, 2 readers | **violated** |
| `bill_mixed` | does a replaced list stand alone? | an empty bill, 2 editors | **violated** |

The bounds: three people and two odd cents make a tie that has to be broken; a
negative price is a discount, and with a positive one it makes subtotals of either
sign; 2 edits tear a breakdown at any of its four reads, or delete a dish and leave
the subtotal old. Shares are integers: the screens only offer whole ones, although
the routes accept fractions.

`BreakdownAddsUp` holds although the stored subtotal may be old, because `Compute`
adds up the dishes itself. It asks that every dish has its takers and that the dishes
cost something; `docs/design_decisions.md:54` says "always sum exactly" without either.
The page does not hide the first case: it lists the unassigned dishes. `AmountsAreFair` is the reference definition of
largest-remainder rounding; it says nothing of how `Compute` works.

### Proofs (`SplitProofs`, `BillProofs`)

`SplitProofs` is about `Compute`, for any finite bill with any integer prices, shares
and totals. The winners of a cent are as many as there are cents left, because the
floors miss the exact sum by less than one cent for each person, and no winner has the
remainder 0: hence `ComputeIsFair`. That the raw amounts add up to the assigned dishes is an
exchange of rows and columns of the table of portions, exact because `Unit` is a
multiple of the share count of every dish; with it comes `ComputeAddsUp`: without
discounts never more than the total paid, and exactly that when every dish has its
takers on the list. `ComputeVariesByACent` and `ComputeIsDetermined` compare two calls: they agree when the
total is not half a cent from an integer and equal remainders occur only between people
with the same portions whose sums are not `Noisy`. The last condition is needed: the
three people of `bill_disagrees` have the same portions.

`BillProofs`, for any number of editors, readers and tokens: `Inv` is the conjunction of
`RowsOK` (the tables and their foreign keys), `LinksOK`, `DrawnOK` (what an editor is
about to insert has been drawn already, so nobody else draws it), `EditorsOK` (what an
editor carries between its two steps) and `ReadersOK` (what a reader has read is a bill
with integer prices, torn or not, and what it was told is a result of `Compute` for
it). From it:

* `TypeTheorem`, `FairTheorem`, `AddsUpTheorem` and `OverchargeTheorem`: the four
  properties of the run, also for breakdowns torn by any number of edits.
* `LinksTheorem`: `OnlyRotationEndsALink` with the fact that a missing token was never a
  link, which the step that makes the first link needs.
* `AgreementTheorem`: two breakdowns of one bill are a cent apart at most, and agree
  under the conditions of `ComputeIsDetermined`.
* `ReplacementTheorem`: while no two `ReplaceDishes` overlap, one list is shown at a
  time, although single dishes are added, edited and deleted around them. The
  hypothesis is what `bill_mixed` violates.

Assumed are that the sets of ids are finite (UUIDs have 128 bits) and that a bill to
start from is `WellFormed`: portions refer to its dishes and people, nobody is listed
twice (the keys of `0002_bills.up.sql`).

## 6. Signing in: `OneTimeCodes`, `SignIn`

### Correspondence

| model | code |
|---|---|
| `users`, `email`, `bills`, `owner`, `keyOf`, `session`, `ceremony`, `codes` | tables `users`, `bill_sessions`, `webauthn_credentials`, `sessions`, `webauthn_ceremonies`, `otp_codes` |
| `Address`, `Same` | an address is the set of its spellings; handlers pass on the spelling they were sent, `CITEXT` columns compare addresses. `cooling` and `Live` go by address, `AddressHeld` by spelling, as `hashtext($1)` does |
| `handle` | the user handle the authenticator keeps with a passkey |
| `cookie` | the cookie of a browser |
| `req[r]` | a request: the statement it stands before (`at`), what it was sent for, and the local variables of its handler |
| `Recognise`, `Provision`, `ProvisionBlindly` | `Identify`: found, not found, an error of `verify` |
| `CheckCooldown`, `Invalidate`, `InsertCode` | `RequestOTP` |
| `ReadCode`, `NoCode`, `TooManyTries`, `WrongCode`, `RightCode` | `VerifyOTP`, up to the commit that consumes the code |
| `AddressIsFree`, `AddressIsOwn`, `AddressIsTaken`, `ClaimAddress` | `AttachEmailOrMerge` |
| `SourceIsAnonymous`, `FoldBills`, `FoldKeys`, `DeleteUser` | the statements of both merges |
| `DropOldSession`, `IssueSession`, `Respond` | rotation of the session, the cookie |
| `Begin*`, `Consume*`, `StorePasskey`, `AssertOwn`, `AssertOther` | the two passkey ceremonies |
| `*Expires`, `CodesAge`, `CooldownEnds` | clocks and the sweeps of `cleanup.go` |
| `CodeHeld`, `AddressHeld`, `BillHeld`, `KeyHeld`, `UserLocked`, `UserPinned` | row locks, foreign-key locks and the advisory lock, read off the requests that hold them |

A request takes a step per statement; the statements of a transaction show at its
commit. Rows expire at any time, so sliding the expiry (`touch`) needs no action.
Every statement can fail. A digit, a hash and a signature are what they decide: which
code a guess is right for, which user a passkey names.

### Run

`signin`: two overlapping requests of one browser, each for any of the eight jobs, on
two databases. In the first both codes are out, for one or for two spellings of an
address that nobody has; with two, requests use either spelling and two verifications do
meet on the `UNIQUE` column. In the second one code is out and one may still be issued,
an account has the address, and ceremonies are under way. The second spelling is used
only where a code was sent to it (`CONSTRAINT Spelled`). In both a stranger has a
session and a bill. 1 attempt is allowed; 1.5 M states.
Two requests are every pair of jobs, that is every race between two handlers; one
attempt makes the first wrong guess the last; four users are two settled ones and one
that each request can make. Two merges that lock the same two accounts the other way
round need a third request to set them up; the proof covers them.

### Proofs (`SignInProofs`)

All nine properties hold for any number of browsers, requests, users, codes and
passkeys. `IInv` is the conjunction of the types; `CodesAreSound` (an unissued code is
not live, attempts are bounded); `RowsAreSound` (a session has a used token, a stored
passkey a handle, an owned bill exists); `Local`, for each request, what its handler
may rely on where it stands: the code it has locked is live with the attempts it read,
nobody has the spelling it claims, the bills and passkeys a merge found are its own or
moved and locked, and why its response sets a cookie; and `Apart`, for two requests:
they do not hold the same code or the lock of the same spelling. None of the properties is inductive
without the locks in `Local` and `Apart`: that a merge loses nothing, say, needs that
the rows it has moved and not committed are touched by nobody.

### Seen

* `merge.go:33` announces "Serialize concurrent verifications of the same address", but
  the lock hashes the spelling, which nothing folds to one case on the way
  (`auth_otp.go:40-46`, `89-95`), and `users.email` is `CITEXT UNIQUE`
  (`0001_identity.up.sql:6`). Two verifications that spell the address differently both
  find it free, and the second UPDATE (`merge.go:45`) fails with its code spent. That is
  the one collision `OnlySpellingsCollide` leaves.
* A bill created for a user between the UPDATE and the DELETE of its merge loses its
  owner (`ON DELETE SET NULL`); an address attached in that time goes with the user.
  `MergesLoseNothing` speaks of what the merge found.
* A passkey folded into an account by a code keeps the handle of the deleted user and
  never signs in again.
* Two live codes of one address come from two overlapping requests; a later one kills
  both.
* A request sent with the old token, or any error of `verify`, replaces the cookie of
  a sign-in by a stranger's; `SignInSticks` lists these reasons.
* A sign-in without a valid cookie leaves the token that `Identify` provisioned for it
  alive.
* `docs/design_decisions.md:25` says that sessions are folded in a merge; the code
  deletes them.

## 7. Image converter: `Converter`

### Correspondence

| model | code |
|---|---|
| `waiting`, `Send`, `GiveUp`, `Cancel`, `Deliver` | `Client.Normalize`, its timeout, the context of the request, `Handler` |
| `call[c]`: `at`, `stage`, `ctx`, `verdict` | a call of `Convert`: before or inside the slot, the run of `identify` or of `convert`, its context, its result |
| `sem`, `Enter`, `Busy` | the channel of slots |
| `child`, `ChildWrites`, `ChildExits` | the ImageMagick process |
| `wrote`, `got`, `copier` | each output stream: written by the child, copied into the capped buffer, and where the copying goroutine is |
| `CopierReads`, `CopierEnds`, `CopierIsCut`, `CopierKills` | `cappedBuffer.Write`, `io.Copy` and the kill of `ExecRunner.Run` |
| `Wait`, `ContextKills` | `cmd.Wait`, which closes the pipes, and `exec.CommandContext` |
| `Verdict`, `Answer` | the order of the checks in `Convert` and `identify` |
| `ready`, the call `Preflight` | `main` listens only after a conversion of its own |

A stream is counted in writes; what the bytes say is one of the ways the child ends
(`ok`, `odd` output, `failed`).

### Run and fairness

`converter`: the preflight and two clients that give up and send again, one slot (as in
the program), caps of one write and of none, a pipe of one; 197 k states. That is
enough for a stream within, at and over its cap, and for a child that blocks on a full
pipe. `FairSpec` has weak fairness of the goroutines of the service, of `Cancel` and of
the context's kill: they are runnable goroutines and the Go scheduler is fair. Nothing
is assumed of the child, which may hang, and of clients. `RunsEnd` holds because the
code kills the child when a buffer is full; without that the run would wait for ever.

### Proofs (`ConverterProofs`)

The types and the four other safety properties hold for any number of callers and
slots, and any caps and pipe size. `IInv` adds that the slots taken are the calls inside, and for
each stream that a goroutine that reads is within the cap, one that killed is over it,
and one that saw the end of the stream has all of it from a child that is gone; and
that a child is killed only for a cancelled context or a passed cap. That last part is
what `RefusalsHaveACause` needs and what no single step shows; the part about streams is
what `ImagesAreWhole` and `ExcessIsTold` need, for they compare the verdict with what
the child wrote, not with what is in the buffer. `RunsEnd` is liveness and only
model-checked.

### Seen

`Wait` closes the pipes when the child exits and may cut the output of an `identify`
that ended well; the valid image is then refused as invalid (400) instead of
unavailable (503), as it is when `identify` cannot be started (`converter.go:261-265`).
Output past a cap that was still in the pipe is lost in the same way and not told.
`RefusalsHaveACause` and `ExcessIsTold` name the cut as the exception.
A client that gave up keeps the only slot until its child is dead, so its retry is
told that the converter is busy.

## 8. Migration: `Migration`

### Correspondence

| model | code |
|---|---|
| `refs`, `queue`, `files`, `bucket` | receipt paths of the bills, the deletion queue, the local volume, the S3 bucket |
| `server`, `StopServer`, `Resume` | the maintenance window of `docs/receipt-migration-runbook.md`: the S3 server starts only after an explicit `verify`, begun in the window, has passed |
| `Upload`, `Drop`, `DeleteQueued` | what `ReceiptStore` does in detail, against the storage of the day |
| `at`, `mode`, `list`, `todo`, `path` | a run of `receipt-migrate`: the call it stands before and its variables |
| `PutCanary` .. `DeleteCanaryFails` | `preflightWithHTTP` and its deferred cleanup |
| `List`, `HeadFinds`, `HeadMisses`, `Put`, `EndPass` | `receiptPaths`, `Migrate` |
| `Compare`, `Verified` | `Verify` |
| `late`, `MayLand`, `PutLands`, `CanaryLands` | an attempt of a PUT that takes effect after its call has returned, or its run has died |

An object is described by whether its bytes and its metadata are those of the local
file, which is never rewritten. Paths are taken in any order, where the code sorts
them. Reading a file and asking for its object are one step: nothing that happens to
the file in between shows in the bucket.

### Run

`migration`: 2 receipts, 2 runs that overlap, every selection of files, references and
leftovers in the bucket (a file of the same size under the right digest
metadata, or a copy without metadata); 2.4 M states. Two runs are a run and its
repetition, or one outside of the window and the verify inside; two receipts are one
that has been compared and one that has not. Proper copies in the bucket come from the
first of the runs. Both runs may find a path free and both write it, and any PUT may take
effect once more after its call has returned, as the client of the SDK repeats PUTs on
its own.

### Proofs (`MigrationProofs`)

All four properties hold for any number of receipts and runs. `BucketIsSound`: a path
some run or late PUT may still write is free or holds the same object, and a path never
used is free; without it a PUT that lands after the cutover could overwrite. The first
half is what `NoObjectIsReplaced` says of a second PUT of a path: it is not prevented,
for PUT is unconditional (`migration.go:281`), but it finds only the bytes it carries.
`WindowIsSound`: a `verify` that began in the window and has compared a receipt can
rely on it until the window ends, as no bill gets a receipt meanwhile and nothing that
is there is changed. `CanariesAreSound`: a canary is in the bucket only while its run
can still remove it, or with one of the excuses of `CanaryIsRemoved`.

### Seen

A late PUT may restore an object that the server has deleted meanwhile, and nothing
refers to it. Rows of the deletion queue acknowledged in S3 mode leave their local file
behind. Once the S3 server has a receipt of its own, no run can succeed any more: the
new receipt has no local file.

## 9. Findings

1. **A commit behind an error deletes a live receipt** (`receipt_lost_commit`,
   `receipt.go:164`). The handler treats every error of the transaction as "not
   applied" and deletes the object the bill may already show.
2. **An answer without usage is free** (`scan_unmetered`, `feedback/strategy.go:141`,
   `baseline/baseline.go:95`), against the comments at `ratelimit.go:259` and
   `extraction/extraction.go:46`.
3. **A finishing scan replaces what the user entered** (`scan_clobbers`,
   `receipt.go:389`), against the comment at `receipt.go:384`.

4. **Two breakdowns of one bill may disagree** (`bill_disagrees`,
   `split/calculate.go:75`), against the package comment at `calculate.go:2`. Sums
   are taken in the order of a Go map, and the last bit decides a tie.
5. **Two replacements of the dishes mix** (`bill_mixed`, `store.go:397`), against
   the comment at `store.go:383`.

Seen and not counted as findings: `DeleteDish` leaves `subtotal_cents` as it was,
and so may two concurrent edits of dishes; the screen offers that sum as the total
(`TotalPaidSection.tsx:64`). Two people added at once get the same `sort_order`.
When Redis applies a reservation but its answer
is lost, the run is closed as reconciled at no cost and the reservation stays in
the total until the day ends (`receipt.go:289`). The cap still holds; the day has
less room than it should. `ReconciledIsSettled` therefore speaks of runs that
called the provider.

## 10. Not modelled

* Pixels, prompts, JSON, texts, layout, logging, mail and HTTP wiring: data the
  properties do not tell apart.
* The cryptography of WebAuthn, TLS and S3 signatures: libraries.
* Isolation levels below what the code relies on: the transactions that
  are one step lock the row they decide on (`FOR UPDATE`, `SKIP LOCKED`, or a
  conditional `UPDATE`). `ReplaceDishes` and `recalculateSubtotalForDish` do not, and
  `Bill` gives them two steps; `ReceiptScan`, where who wrote the items matters and
  not which, saves them in one. In `SignIn` a request that waited for a locked code
  goes on with the newest row of the moment it gets it, where Postgres may fall back to
  an older row of its snapshot.
* Partial reads of an image: opening is one step, and an open object stays readable.
* Fixed windows of the rate limits: one counter per key and two Redis commands. When
  the second is lost the key blocks for good; that follows from two consecutive lines
  and touches no other component.
* The optimistic portion updates of the browser: their cache and refetching belong to
  TanStack Query. Every answer makes it fetch the bill again.
* The header transport of sessions, the switch that turns anonymous accounts off, and
  the five seconds of `Shutdown` of the converter.
* Router, configuration, mail, database pool and the two development tools: wiring and
  I/O without a state of their own. Each value they read is a constant here.
* The preview of a split in the browser, listing of bills and passkeys: they only read.

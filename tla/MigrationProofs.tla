--------------------------- MODULE MigrationProofs ---------------------------
(* Proofs about Migration: its type invariant, the cutover, the canaries and  *)
(* that nothing is overwritten, for every number of receipts and of runs of   *)
(* the command, and for any leftovers in the bucket.                          *)
EXTENDS Migration, TLAPS

-----------------------------------------------------------------------------
(* The inductive invariant *)

\* Whatever may still be written finds its path free, or with the same object.
Free(p) == bucket[p] \in {None, Copy}
BucketIsSound ==
  /\ \A p \in Path \ used : bucket[p] = None
  /\ \A p \in late \cap Path : Free(p)
  /\ \A r \in Run : at[r] = "put" => Free(path[r])

\* What a verify that began in the window has compared stays as it was, as no bill gets
\* a receipt until the window ends.
WindowIsSound ==
  /\ quiet # {} \/ passed => server = "stopped"
  /\ \A r \in quiet : at[r] = "compare" /\ mode[r] = "verify" =>
       \A p \in refs \ todo[r] : SameBytes(p)
  /\ passed \/ server = "s3" => \A p \in refs : SameBytes(p)

CanariesAreSound == \A r \in canary :
  at[r] \notin {"probe canary", "delete canary", "untidy"} => r \in late

IInv == TypeOK /\ BucketIsSound /\ WindowIsSound /\ CanariesAreSound

LEMMA CopyIsSound == Copy \in Object /\ Copy # None /\ Copy.data = "same"
BY MigrationAssumption DEF Copy, Object

LEMMA InitIsSound == Init => IInv
<1> SUFFICES ASSUME Init PROVE IInv  OBVIOUS
<1>1. TypeOK  BY MigrationAssumption DEF Init, TypeOK, Calls, Ends, Mode
<1>2. BucketIsSound /\ WindowIsSound /\ CanariesAreSound
  BY DEF Init, BucketIsSound, WindowIsSound, CanariesAreSound
<1> QED  BY <1>1, <1>2 DEF IInv

-----------------------------------------------------------------------------
(* Types *)

\* A run that ends keeps the types of what it had.
LEMMA EndIsTyped ==
  ASSUME TypeOK, NEW r \in Run, NEW s \in Ends, End(r, s)
  PROVE  /\ at' \in [Run -> Calls \cup Ends \cup {"idle"}]
         /\ mode' \in [Run -> Mode] /\ broken' \subseteq Run /\ quiet' \subseteq Run
         /\ list' \in [Run -> SUBSET used] /\ todo' \in [Run -> SUBSET used]
         /\ path' \in [Run -> used \cup {None}]
         /\ \A q \in Run : at'[q] = "put" => path'[q] # None
<1>1. mode' \in [Run -> Mode] /\ broken' \subseteq Run /\ quiet' \subseteq Run
  BY DEF TypeOK, End, Mode
<1>2. /\ list' \in [Run -> SUBSET used] /\ todo' \in [Run -> SUBSET used]
      /\ path' \in [Run -> used \cup {None}]
  BY DEF TypeOK, End
<1>3. /\ at' \in [Run -> Calls \cup Ends \cup {"idle"}]
      /\ \A q \in Run : at'[q] = "put" => path'[q] # None
  BY DEF TypeOK, End, Goto, Ends
<1> QED  BY <1>1, <1>2, <1>3

LEMMA TypesArePreserved == TypeOK /\ [Next]_vars => TypeOK'
<1> SUFFICES ASSUME TypeOK, [Next]_vars PROVE TypeOK'  OBVIOUS
<1> USE DEF serverVars, storeVars, localVars, windowVars, MayLand
<1>1. ASSUME NEW p \in Path, Upload(p) \/ Drop(p) \/ DeleteQueued(p) \/ PutLands(p) PROVE TypeOK'
  <2>1. CASE Upload(p)        BY <2>1, CopyIsSound DEF TypeOK, Upload
  <2>2. CASE Drop(p)          BY <2>2 DEF TypeOK, Drop
  <2>3. CASE DeleteQueued(p)  BY <2>3 DEF TypeOK, DeleteQueued
  <2>4. CASE PutLands(p)      BY <2>4, CopyIsSound DEF TypeOK, PutLands
  <2> QED  BY <1>1, <2>1, <2>2, <2>3, <2>4
<1>2. CASE StopServer \/ Resume  BY <1>2 DEF TypeOK, StopServer, Resume
<1>3. ASSUME NEW r \in Run,
             \/ Start(r) \/ PutCanary(r) \/ PutCanaryFails(r) \/ ProbeCanary(r)
             \/ PassPreflight(r) \/ CanaryLands(r)
      PROVE  TypeOK'
  <2>1. CASE Start(r)           BY <2>1, ZenonT(60) DEF TypeOK, Start, Goto, Calls, Mode
  <2>2. CASE PutCanary(r)       BY <2>2 DEF TypeOK, PutCanary, Goto, Calls
  <2>3. CASE PutCanaryFails(r)  BY <2>3 DEF TypeOK, PutCanaryFails, InDoubt, Goto, Calls
  <2>4. CASE ProbeCanary(r)     BY <2>4 DEF TypeOK, ProbeCanary, Goto, Calls
  <2>5. CASE PassPreflight(r)   BY <2>5 DEF TypeOK, PassPreflight, Goto, Calls
  <2>6. CASE CanaryLands(r)     BY <2>6 DEF TypeOK, CanaryLands
  <2> QED  BY <1>3, <2>1, <2>2, <2>3, <2>4, <2>5, <2>6
<1>4. ASSUME NEW r \in Run,
             \/ List(r) \/ HeadFinds(r) \/ HeadMisses(r) \/ Put(r) \/ Compare(r)
      PROVE  TypeOK'
  <2>1. CASE List(r)        BY <2>1 DEF TypeOK, List, Goto, Calls
  <2>2. CASE HeadFinds(r)   BY <2>2 DEF TypeOK, HeadFinds, Skip
  <2>3. CASE HeadMisses(r)
    <3>1. PICK p \in todo[r] : /\ Skip(r, p)
                              /\ \/ at' = at /\ path' = path
                                 \/ Goto(r, "put") /\ path' = [path EXCEPT ![r] = p]
      BY <2>3 DEF HeadMisses
    <3>2. p \in used /\ p # None  BY <3>1, MigrationAssumption DEF TypeOK
    <3>3. todo' \in [Run -> SUBSET used]  BY <3>1 DEF TypeOK, Skip
    <3>4. path' \in [Run -> used \cup {None}]  BY <3>1, <3>2 DEF TypeOK
    <3>5. at' \in [Run -> Calls \cup Ends \cup {"idle"}]  BY <3>1 DEF TypeOK, Goto, Calls
    <3>6. ASSUME NEW q \in Run, at'[q] = "put" PROVE path'[q] # None
      <4>1. CASE at' = at /\ path' = path  BY <4>1, <3>6 DEF TypeOK
      <4>2. CASE Goto(r, "put") /\ path' = [path EXCEPT ![r] = p]
        <5>1. CASE q = r  BY <4>2, <5>1, <3>2 DEF TypeOK
        <5>2. CASE q # r  BY <4>2, <5>2, <3>6 DEF TypeOK, Goto
        <5> QED  BY <5>1, <5>2
      <4> QED  BY <3>1, <4>1, <4>2
    <3> QED  BY <2>3, <3>3, <3>4, <3>5, <3>6 DEF TypeOK, HeadMisses
  <2>4. CASE Put(r)         BY <2>4, CopyIsSound DEF TypeOK, Put, Goto, Calls
  <2>5. CASE Compare(r)     BY <2>5 DEF TypeOK, Compare, Skip
  <2> QED  BY <1>4, <2>1, <2>2, <2>3, <2>4, <2>5
<1>5. ASSUME NEW r \in Run, EndPass(r) PROVE TypeOK'
  <2>1. CASE mode[r] = "migrate"  BY <1>5, <2>1 DEF TypeOK, EndPass, Goto, Calls
  <2>2. CASE mode[r] # "migrate"
    <3>1. End(r, "ended") /\ "ended" \in Ends  BY <1>5, <2>2 DEF EndPass, Ends
    <3> QED  BY <1>5, <3>1, EndIsTyped DEF TypeOK, EndPass
  <2> QED  BY <2>1, <2>2
<1>6. ASSUME NEW r \in Run,
             \/ DeleteCanary(r) \/ DeleteCanaryFails(r) \/ PutFails(r) \/ Verified(r)
             \/ Fail(r) \/ Die(r)
      PROVE  TypeOK'
  <2>1. PICK s \in Ends : End(r, s)
    BY <1>6 DEF DeleteCanary, DeleteCanaryFails, PutFails, Verified, Fail, Die, Ends
  <2> HIDE DEF localVars, windowVars
  <2>2. UNCHANGED serverVars /\ passed' \in BOOLEAN
    BY <1>6 DEF TypeOK, DeleteCanary, DeleteCanaryFails, PutFails, Verified, Fail, Die
  <2>3. bucket' \in [Path -> Object \cup {None}]
    BY <1>6, CopyIsSound
    DEF TypeOK, DeleteCanary, DeleteCanaryFails, PutFails, Verified, Fail, Die
  <2>4. canary' \subseteq Run
    BY <1>6 DEF TypeOK, DeleteCanary, DeleteCanaryFails, PutFails, Verified, Fail, Die
  <2>5. late' \subseteq used \cup Run
    <3>1. at[r] = "put" => path[r] \in used  BY DEF TypeOK
    <3>2. late' \in {late, late \cup {path[r]}, late \cup {r}}
          /\ (late' = late \cup {path[r]} => late' = late \/ late' = late \cup {r} \/ at[r] = "put")
      BY <1>6 DEF DeleteCanary, DeleteCanaryFails, PutFails, Verified, Fail, Die
    <3> QED  BY <3>1, <3>2 DEF TypeOK
  <2> QED  BY <2>1, <2>2, <2>3, <2>4, <2>5, EndIsTyped DEF TypeOK
<1>7. CASE UNCHANGED vars  BY <1>7 DEF TypeOK, vars
<1> QED  BY <1>1, <1>2, <1>3, <1>4, <1>5, <1>6, <1>7 DEF Next, Command

-----------------------------------------------------------------------------
(* The bucket *)

\* An object is only ever written whole and to a free path, or deleted.
LEMMA WritesAreWhole ==
  ASSUME IInv, [Next]_vars, NEW p \in Path
  PROVE  \/ bucket'[p] = bucket[p]
         \/ bucket[p] = None /\ bucket'[p] = Copy
         \/ bucket'[p] = None /\ server = "s3" /\ p \notin refs
<1> USE DEF serverVars, storeVars
<1>1. CASE bucket' = bucket  BY <1>1
<1>2. ASSUME NEW q \in Path, Upload(q) \/ DeleteQueued(q) \/ PutLands(q)
      PROVE  \/ bucket'[p] = bucket[p]
             \/ bucket[p] = None /\ bucket'[p] = Copy
             \/ bucket'[p] = None /\ server = "s3" /\ p \notin refs
  <2>1. CASE Upload(q)        BY <2>1 DEF IInv, TypeOK, BucketIsSound, Upload
  <2>2. CASE DeleteQueued(q)  BY <2>2 DEF IInv, TypeOK, DeleteQueued
  <2>3. CASE PutLands(q)      BY <2>3 DEF IInv, TypeOK, BucketIsSound, Free, PutLands
  <2> QED  BY <1>2, <2>1, <2>2, <2>3
<1>3. ASSUME NEW r \in Run, Put(r) \/ PutFails(r)
      PROVE  bucket'[p] = bucket[p] \/ (bucket[p] = None /\ bucket'[p] = Copy)
  BY <1>3 DEF IInv, TypeOK, BucketIsSound, Free, Put, PutFails
<1>4. CASE \E q \in Path : Drop(q)  BY <1>4, <1>1 DEF Drop
<1>5. CASE StopServer \/ Resume \/ UNCHANGED vars  BY <1>5, <1>1 DEF StopServer, Resume, vars
<1>6. ASSUME NEW r \in Run, Command(r) \/ CanaryLands(r), ~Put(r), ~PutFails(r)
      PROVE  bucket' = bucket
  BY <1>6 DEF Command, CanaryLands, Start, PutCanary, PutCanaryFails, ProbeCanary, DeleteCanary,
              PassPreflight, DeleteCanaryFails, List, HeadFinds, HeadMisses, EndPass, Compare,
              Verified, Fail, Die
<1> QED  BY <1>1, <1>2, <1>3, <1>4, <1>5, <1>6 DEF Next

\* A path a run is about to write, or a PUT may still reach, is one it has listed.
LEMMA FreeStaysFree ==
  ASSUME IInv, [Next]_vars, NEW p \in Path, Free(p)
  PROVE  Free(p)'
BY WritesAreWhole DEF Free

LEMMA BucketStaysSound == IInv /\ [Next]_vars => BucketIsSound'
<1> SUFFICES ASSUME IInv, [Next]_vars PROVE BucketIsSound'  OBVIOUS
<1> USE DEF serverVars, storeVars, localVars, windowVars, MayLand
<1>1. TypeOK /\ TypeOK' /\ BucketIsSound  BY TypesArePreserved DEF IInv
\* Only an upload uses a path, only a run that found a path free writes it.
<1>2. used \subseteq used' /\ \A p \in Path \ used' : bucket'[p] = bucket[p] \/ bucket'[p] = None
  <2>1. CASE \E q \in Path : Upload(q) \/ DeleteQueued(q) \/ PutLands(q)
    BY <2>1, <1>1, MigrationAssumption DEF TypeOK, Upload, DeleteQueued, PutLands
  <2>2. CASE \E r \in Run : Put(r) \/ PutFails(r)
    BY <2>2, <1>1 DEF TypeOK, Put, PutFails
  <2>3. CASE \E r \in Run : (Command(r) \/ CanaryLands(r)) /\ ~Put(r) /\ ~PutFails(r)
    BY <2>3, ZenonT(60) DEF Command, CanaryLands, Start, PutCanary, PutCanaryFails, ProbeCanary, DeleteCanary,
                PassPreflight, DeleteCanaryFails, List, HeadFinds, HeadMisses, EndPass, Compare,
                Verified, Fail, Die
  <2>4. CASE (\E q \in Path : Drop(q)) \/ StopServer \/ Resume \/ UNCHANGED vars
    BY <2>4 DEF Drop, StopServer, Resume, vars
  <2> QED  BY <2>1, <2>2, <2>3, <2>4 DEF Next
<1>3. ASSUME NEW p \in late' \cap Path, p \notin late
      PROVE  \E r \in Run : at[r] = "put" /\ path[r] = p
  <2>1. CASE \E r \in Run : Put(r) \/ PutFails(r) \/ Die(r)
    BY <1>3, <2>1, MigrationAssumption DEF Put, PutFails, Die
  <2>2. CASE \E r \in Run : PutCanary(r) \/ PutCanaryFails(r)
    <3>1. PICK r \in Run : late' \subseteq late \cup {r}
      BY <2>2 DEF PutCanary, PutCanaryFails, InDoubt
    <3>2. p # r  BY <1>3, MigrationAssumption
    <3> QED  BY <1>3, <3>1, <3>2
  <2>3. CASE \E r \in Run : /\ Command(r) \/ CanaryLands(r)
                            /\ ~Put(r) /\ ~PutFails(r) /\ ~Die(r)
                            /\ ~PutCanary(r) /\ ~PutCanaryFails(r)
    BY <1>3, <2>3, ZenonT(60) DEF Command, CanaryLands, Start, ProbeCanary, DeleteCanary,
                PassPreflight, DeleteCanaryFails, List, HeadFinds, HeadMisses, EndPass,
                Compare, Verified, Fail
  <2>4. CASE \/ \E q \in Path : Upload(q) \/ DeleteQueued(q) \/ PutLands(q) \/ Drop(q)
             \/ StopServer \/ Resume \/ UNCHANGED vars
    BY <1>3, <2>4 DEF Upload, DeleteQueued, PutLands, Drop, StopServer, Resume, vars
  <2> QED  BY <2>1, <2>2, <2>3, <2>4 DEF Next
<1>4. ASSUME NEW r \in Run, at'[r] = "put"
      PROVE  (at[r] = "put" /\ path'[r] = path[r]) \/ bucket'[path'[r]] = None
  <2>1. at \in [Run -> Calls \cup Ends \cup {"idle"}] /\ path \in [Run -> used \cup {None}]
    BY <1>1 DEF TypeOK
  <2>2. ASSUME NEW q \in Run, HeadMisses(q)
        PROVE  (at[r] = "put" /\ path'[r] = path[r]) \/ bucket'[path'[r]] = None
    <3>1. PICK p : /\ bucket[p] = None
                   /\ \/ at' = at /\ path' = path
                      \/ Goto(q, "put") /\ path' = [path EXCEPT ![q] = p]
      BY <2>2 DEF HeadMisses, Missing
    <3>2. bucket' = bucket  BY <2>2 DEF HeadMisses
    <3> QED  BY <1>4, <2>1, <3>1, <3>2 DEF Goto
  <2>3. CASE \E q \in Run : End(q, "ended") \/ End(q, "untidy")
    BY <2>1, <1>4, <2>3 DEF End, Goto
  <2>4. CASE \E q \in Run : \E s : Goto(q, s) /\ s # "put" /\ path' \in {path, [path EXCEPT ![q] = None]}
    BY <2>1, <1>4, <2>4 DEF Goto
  <2>5. CASE at' = at /\ path' = path
    BY <2>5, <1>4
  <2>6. CASE \/ \E q \in Path : Upload(q) \/ DeleteQueued(q) \/ PutLands(q) \/ Drop(q)
             \/ StopServer \/ Resume \/ UNCHANGED vars
    BY <2>5, <2>6 DEF Upload, DeleteQueued, PutLands, Drop, StopServer, Resume, vars
  <2>7. ASSUME NEW q \in Run, Command(q), ~HeadMisses(q)
        PROVE  (at[r] = "put" /\ path'[r] = path[r]) \/ bucket'[path'[r]] = None
    <3>1. CASE HeadFinds(q) \/ Compare(q)  BY <2>5, <3>1 DEF HeadFinds, Compare
    <3>2. CASE \/ Start(q) \/ PutCanary(q) \/ PutCanaryFails(q) \/ ProbeCanary(q)
               \/ PassPreflight(q) \/ List(q)
      <4>1. path' = path
        BY <3>2 DEF Start, PutCanary, PutCanaryFails, ProbeCanary, PassPreflight, List
      <4>2. \/ Goto(q, "list") \/ Goto(q, "put canary") \/ Goto(q, "probe canary")
            \/ Goto(q, "delete canary") \/ Goto(q, "compare") \/ Goto(q, "head")
        BY <3>2 DEF Start, PutCanary, PutCanaryFails, ProbeCanary, PassPreflight, List
      <4> QED  BY <4>1, <4>2, <2>4
    <3>3. CASE Put(q)
      <4>1. path' = [path EXCEPT ![q] = None] /\ Goto(q, "head")  BY <3>3 DEF Put
      <4> QED  BY <4>1, <2>4
    <3>4. CASE EndPass(q)
      <4>1. (path' = path /\ Goto(q, "compare")) \/ End(q, "ended")  BY <3>4 DEF EndPass
      <4> QED  BY <4>1, <2>3, <2>4
    <3>5. CASE \/ DeleteCanary(q) \/ DeleteCanaryFails(q) \/ PutFails(q) \/ Verified(q)
               \/ Fail(q) \/ Die(q)
      BY <3>5, <2>3 DEF DeleteCanary, DeleteCanaryFails, PutFails, Verified, Fail, Die
    <3> QED  BY <2>7, <3>1, <3>2, <3>3, <3>4, <3>5 DEF Command
  <2>8. ASSUME NEW q \in Run, CanaryLands(q) PROVE at' = at /\ path' = path
    BY <2>8 DEF CanaryLands
  <2> QED  BY <2>2, <2>5, <2>6, <2>7, <2>8 DEF Next
<1>5. \A p \in Path \ used' : bucket'[p] = None  BY <1>1, <1>2 DEF BucketIsSound
<1>6. \A r \in Run : at[r] = "put" => path[r] \in Path /\ Free(path[r])
  BY <1>1 DEF TypeOK, BucketIsSound
<1>7. \A p \in late' \cap Path : Free(p)'
  BY <1>1, <1>3, <1>6, FreeStaysFree DEF BucketIsSound
<1>8. ASSUME NEW r \in Run, at'[r] = "put" PROVE bucket'[path'[r]] \in {None, Copy}
  <2>1. CASE at[r] = "put" /\ path'[r] = path[r]
    <3> DEFINE p == path[r]
    <3>1. p \in Path /\ Free(p)  BY <2>1, <1>6
    <3>2. bucket'[p] \in {None, Copy}  BY <3>1, WritesAreWhole DEF Free
    <3> QED  BY <2>1, <3>2
  <2> QED  BY <2>1, <1>4, <1>8
<1> QED  BY <1>5, <1>7, <1>8 DEF BucketIsSound, Free

-----------------------------------------------------------------------------
(* The window *)

\* Objects stay, at least while the server does not delete them.
LEMMA BytesStay ==
  ASSUME IInv, [Next]_vars, NEW p \in Path, p \in refs \/ server # "s3", SameBytes(p)
  PROVE  SameBytes(p)'
BY WritesAreWhole, CopyIsSound DEF SameBytes

\* The steps of the command: none changes the bills or the server.
LEMMA CommandKeepsServer ==
  ASSUME NEW r \in Run, Command(r) \/ CanaryLands(r)
  PROVE  UNCHANGED serverVars
BY DEF Command, CanaryLands, Start, PutCanary, PutCanaryFails, ProbeCanary, DeleteCanary,
       PassPreflight, DeleteCanaryFails, List, HeadFinds, HeadMisses, Put, PutFails, EndPass,
       Compare, Verified, Fail, Die

\* A run that compares has just listed the bills, has compared one more receipt, or is
\* where it was.
Compares(q) == at[q] = "compare" /\ mode[q] = "verify"
LEMMA ComparingGoesOn ==
  ASSUME TypeOK, [Next]_vars, NEW q \in Run, Compares(q)'
  PROVE  \/ todo'[q] = refs
         \/ Compares(q) /\ todo'[q] = todo[q]
         \/ Compares(q) /\ \E p \in todo[q] : SameBytes(p) /\ todo'[q] = todo[q] \ {p}
<1> USE DEF serverVars, storeVars, localVars, windowVars, MayLand
<1>1. /\ at \in [Run -> Calls \cup Ends \cup {"idle"}] /\ mode \in [Run -> Mode]
      /\ todo \in [Run -> SUBSET used]
  BY DEF TypeOK
<1>2. CASE UNCHANGED <<at, mode, todo>>  BY <1>2 DEF Compares
<1>3. ASSUME NEW r \in Run, End(r, "ended") \/ End(r, "untidy")
      PROVE  Compares(q) /\ todo'[q] = todo[q]
  BY <1>1, <1>3 DEF Compares, End, Goto
<1>4. ASSUME NEW r \in Run, NEW s \in Calls \ {"compare"}, Goto(r, s),
             \/ UNCHANGED todo \/ todo' = [todo EXCEPT ![r] = todo'[r]],
             \/ UNCHANGED mode \/ mode' = [mode EXCEPT ![r] = mode'[r]]
      PROVE  Compares(q) /\ todo'[q] = todo[q]
  BY <1>1, <1>4 DEF Compares, Goto
<1>5. CASE \/ \E p \in Path : Upload(p) \/ Drop(p) \/ DeleteQueued(p) \/ PutLands(p)
           \/ StopServer \/ Resume \/ UNCHANGED vars \/ \E r \in Run : CanaryLands(r)
  BY <1>2, <1>5
  DEF Upload, Drop, DeleteQueued, PutLands, StopServer, Resume, CanaryLands, vars
<1>6. ASSUME NEW r \in Run, Command(r)
      PROVE  \/ todo'[q] = refs
             \/ Compares(q) /\ todo'[q] = todo[q]
             \/ Compares(q) /\ \E p \in todo[q] : SameBytes(p) /\ todo'[q] = todo[q] \ {p}
  <2>1. CASE \/ DeleteCanary(r) \/ DeleteCanaryFails(r) \/ PutFails(r) \/ Verified(r)
             \/ Fail(r) \/ Die(r)
    BY <2>1, <1>3 DEF DeleteCanary, DeleteCanaryFails, PutFails, Verified, Fail, Die
  <2>2. CASE \/ PutCanary(r) \/ PutCanaryFails(r) \/ ProbeCanary(r) \/ PassPreflight(r) \/ Put(r)
    <3>1. UNCHANGED todo /\ UNCHANGED mode
      BY <2>2 DEF PutCanary, PutCanaryFails, ProbeCanary, PassPreflight, Put
    <3>2. \/ Goto(r, "probe canary") \/ Goto(r, "delete canary") \/ Goto(r, "list") \/ Goto(r, "head")
      BY <2>2 DEF PutCanary, PutCanaryFails, ProbeCanary, PassPreflight, Put
    <3> QED  BY <3>1, <3>2, <1>4 DEF Calls
  <2>3. CASE Start(r)
    <3>1. PICK m \in Mode : mode' = [mode EXCEPT ![r] = m]  BY <2>3 DEF Start
    <3>2. UNCHANGED todo /\ mode' = [mode EXCEPT ![r] = mode'[r]]
      BY <2>3, <3>1, <1>1 DEF Start
    <3>3. Goto(r, "list") \/ Goto(r, "put canary")  BY <2>3 DEF Start
    <3> QED  BY <3>2, <3>3, <1>4 DEF Calls
  <2>4. CASE List(r)
    <3>1. UNCHANGED mode /\ todo' = [todo EXCEPT ![r] = refs]  BY <2>4 DEF List
    <3>2. at' = [at EXCEPT ![r] = at'[r]]  BY <2>4, <1>1 DEF List, Goto
    <3> QED  BY <3>1, <3>2, <1>1 DEF Compares
  <2>5. CASE HeadFinds(r) \/ HeadMisses(r)
    <3>1. PICK p : todo' = [todo EXCEPT ![r] = todo[r] \ {p}]
      BY <2>5 DEF HeadFinds, HeadMisses, Skip
    <3>2. UNCHANGED mode /\ (at' = at \/ Goto(r, "put")) /\ at[r] = "head"
      BY <2>5 DEF HeadFinds, HeadMisses
    <3> QED  BY <3>1, <3>2, <1>1 DEF Compares, Goto
  <2>6. CASE EndPass(r)
    <3>1. CASE mode[r] = "migrate"
      BY <2>6, <3>1, <1>1 DEF EndPass, Goto, Compares
    <3> QED  BY <2>6, <3>1, <1>3 DEF EndPass
  <2>7. CASE Compare(r)
    <3>1. PICK p \in todo[r] : SameBytes(p) /\ todo' = [todo EXCEPT ![r] = todo[r] \ {p}]
      BY <2>7 DEF Compare, Skip
    <3>2. UNCHANGED <<at, mode>>  BY <2>7 DEF Compare
    <3> QED  BY <3>1, <3>2, <1>1 DEF Compares
  <2> QED  BY <1>6, <2>1, <2>2, <2>3, <2>4, <2>5, <2>6, <2>7 DEF Command
<1> QED  BY <1>5, <1>6 DEF Next

LEMMA WindowStaysSound == IInv /\ [Next]_vars => WindowIsSound'
<1> SUFFICES ASSUME IInv, [Next]_vars PROVE WindowIsSound'  OBVIOUS
<1> USE DEF serverVars, storeVars, localVars, windowVars, MayLand
<1>1. TypeOK /\ TypeOK' /\ WindowIsSound  BY TypesArePreserved DEF IInv
\* What the steps do to the bills, the server and the list of quiet runs
<1>2. CASE \E p \in Path : Upload(p)
  <2>1. PICK p \in Path : Upload(p)  BY <1>2
  <2>2. UNCHANGED <<server, quiet, passed, at, mode, todo>> /\ server # "stopped"  BY <2>1 DEF Upload
  <2>3. quiet = {} /\ ~passed  BY <1>1, <2>2 DEF WindowIsSound
  <2>4. ASSUME server = "s3", NEW q \in refs' PROVE SameBytes(q)'
    <3>1. CASE q \in refs  BY <3>1, <2>4, <1>1, BytesStay DEF WindowIsSound, TypeOK
    <3>2. CASE q = p  BY <3>2, <2>1, <2>4, <1>1, CopyIsSound DEF Upload, SameBytes, TypeOK
    <3> QED  BY <2>1, <3>1, <3>2 DEF Upload
  <2> QED  BY <2>2, <2>3, <2>4 DEF WindowIsSound
<1>3. CASE Resume
  <2>1. quiet' = {} /\ ~passed' /\ refs' = refs /\ (server' = "s3" => passed)
    BY <1>3, <1>1 DEF Resume, TypeOK
  <2>2. server = "stopped"  BY <1>3 DEF Resume
  <2>3. passed => \A p \in refs : SameBytes(p)'
    BY <1>1, <2>2, BytesStay DEF WindowIsSound, TypeOK
  <2> QED  BY <2>1, <2>3 DEF WindowIsSound
<1>4. ASSUME ~Resume, \A p \in Path : ~Upload(p) PROVE WindowIsSound'
  <2>1. /\ refs' \subseteq refs /\ server' \in {server, "stopped"}
        /\ server = "stopped" => UNCHANGED <<server, refs>>
    <3>1. CASE \E p \in Path : Drop(p) \/ DeleteQueued(p) \/ PutLands(p)
      BY <3>1 DEF Drop, DeleteQueued, PutLands
    <3>2. CASE StopServer \/ UNCHANGED vars  BY <3>2 DEF StopServer, vars
    <3>3. CASE \E r \in Run : Command(r) \/ CanaryLands(r)  BY <3>3, CommandKeepsServer
    <3> QED  BY <1>4, <3>1, <3>2, <3>3 DEF Next
  <2>2. /\ quiet' # {} => quiet # {} \/ server = "stopped"
        /\ \A q \in Run : q \in quiet' /\ Compares(q)' => q \in quiet
        /\ passed' => passed \/ \E r \in quiet : Compares(r) /\ todo[r] = {}
    <3>1. CASE UNCHANGED <<quiet, passed>>  BY <3>1
    <3>2. ASSUME NEW r \in Run, quiet' = quiet \ {r}, UNCHANGED passed
          PROVE  /\ quiet' # {} => quiet # {}
                 /\ \A q \in Run : q \in quiet' => q \in quiet
                 /\ passed' => passed
      BY <3>2
    <3>3. ASSUME NEW r \in Run, Start(r)
          PROVE  /\ quiet' # {} => quiet # {} \/ server = "stopped"
                 /\ \A q \in Run : q \in quiet' /\ Compares(q)' => q \in quiet
                 /\ passed' = passed
      <4>1. Goto(r, "list") \/ Goto(r, "put canary")  BY <3>3 DEF Start
      <4>2. at'[r] # "compare"  BY <4>1, <1>1 DEF Goto, TypeOK
      <4> QED  BY <3>3, <4>2 DEF Start, Compares
    <3>4. ASSUME NEW r \in Run, Verified(r)
          PROVE  /\ quiet' = quiet \ {r}
                 /\ passed' => passed \/ (r \in quiet /\ Compares(r) /\ todo[r] = {})
      BY <3>4 DEF Verified, End, Compares
    <3>5. ASSUME NEW r \in Run, \/ DeleteCanary(r) \/ DeleteCanaryFails(r) \/ PutFails(r)
                                \/ Fail(r) \/ Die(r) \/ (EndPass(r) /\ mode[r] # "migrate")
          PROVE  quiet' = quiet \ {r} /\ UNCHANGED passed
      BY <3>5 DEF DeleteCanary, DeleteCanaryFails, PutFails, Fail, Die, EndPass, End
    <3>6. ASSUME NEW r \in Run,
                 \/ PutCanary(r) \/ PutCanaryFails(r) \/ ProbeCanary(r) \/ PassPreflight(r)
                 \/ List(r) \/ HeadFinds(r) \/ HeadMisses(r) \/ Put(r) \/ Compare(r)
                 \/ (EndPass(r) /\ mode[r] = "migrate") \/ CanaryLands(r)
          PROVE  UNCHANGED <<quiet, passed>>
      BY <3>6 DEF PutCanary, PutCanaryFails, ProbeCanary, PassPreflight, List, HeadFinds,
                  HeadMisses, Put, Compare, EndPass, CanaryLands
    <3>7. CASE \/ \E p \in Path : Drop(p) \/ DeleteQueued(p) \/ PutLands(p)
               \/ StopServer \/ UNCHANGED vars
      BY <3>1, <3>7 DEF Drop, DeleteQueued, PutLands, StopServer, vars
    <3>8. CASE \E r \in Run : Command(r) \/ CanaryLands(r)
      <4>1. PICK r \in Run : Command(r) \/ CanaryLands(r)  BY <3>8
      <4>2. CASE Start(r)     BY <4>2, <3>3
      <4>3. CASE Verified(r)  BY <4>3, <3>4
      <4>4. CASE ~Start(r) /\ ~Verified(r)
        <5>1. UNCHANGED <<quiet, passed>> \/ (quiet' = quiet \ {r} /\ UNCHANGED passed)
          BY <4>1, <4>4, <3>5, <3>6 DEF Command
        <5> QED  BY <5>1, <3>1, <3>2
      <4> QED  BY <4>2, <4>3, <4>4
    <3> QED  BY <1>4, <3>7, <3>8 DEF Next
  <2>3. quiet' # {} \/ passed' => server' = "stopped"
    BY <1>1, <2>1, <2>2 DEF WindowIsSound
  <2>4. ASSUME NEW q \in quiet', Compares(q)', NEW p \in refs', p \notin todo'[q]
        PROVE  SameBytes(p)'
    <3>1. q \in Run /\ q \in quiet /\ server = "stopped" /\ refs' = refs /\ p \in Path
      BY <1>1, <2>1, <2>2, <2>4 DEF TypeOK, WindowIsSound
    <3>2. Compares(q) /\ (p \notin todo[q] \/ SameBytes(p))
      BY <2>4, <3>1, <1>1, ComparingGoesOn
    <3>3. SameBytes(p)  BY <1>1, <3>1, <3>2, <2>4 DEF WindowIsSound, Compares
    <3> QED  BY <3>1, <3>3, BytesStay
  <2>5. ASSUME passed' \/ server' = "s3", NEW p \in refs' PROVE SameBytes(p)'
    <3>1. p \in refs /\ p \in Path  BY <1>1, <2>1, <2>5 DEF TypeOK
    <3>2. SameBytes(p)  BY <1>1, <2>1, <2>2, <2>5, <3>1 DEF WindowIsSound, Compares
    <3> QED  BY <3>1, <3>2, BytesStay
  <2> QED  BY <2>3, <2>4, <2>5 DEF WindowIsSound, Compares
<1> QED  BY <1>2, <1>3, <1>4

-----------------------------------------------------------------------------
(* The canaries *)

LEMMA CanariesStaySound == IInv /\ [Next]_vars => CanariesAreSound'
<1> SUFFICES ASSUME IInv, [Next]_vars, NEW r \in canary',
                    at'[r] \notin {"probe canary", "delete canary", "untidy"}
             PROVE  r \in late'
  BY DEF CanariesAreSound
<1> USE DEF serverVars, storeVars, localVars, windowVars, MayLand
<1>1. /\ at \in [Run -> Calls \cup Ends \cup {"idle"}] /\ r \in Run
      /\ CanariesAreSound /\ TypeOK
  <2>1. TypeOK'  BY TypesArePreserved DEF IInv
  <2> QED  BY <2>1 DEF IInv, TypeOK
\* No step removes the PUT of a canary.
<1>2. r \in late => r \in late'
  <2>1. CASE \E p \in Path : PutLands(p)  BY <2>1, <1>1, MigrationAssumption DEF PutLands
  <2>2. CASE \/ \E p \in Path : Upload(p) \/ Drop(p) \/ DeleteQueued(p)
             \/ StopServer \/ Resume \/ UNCHANGED vars
    BY <2>2 DEF Upload, Drop, DeleteQueued, StopServer, Resume, vars
  <2>3. CASE \E q \in Run : Command(q) \/ CanaryLands(q)
    BY <2>3, ZenonT(60) DEF Command, CanaryLands, Start, PutCanary, PutCanaryFails, InDoubt, ProbeCanary,
                DeleteCanary, PassPreflight, DeleteCanaryFails, List, HeadFinds, HeadMisses, Put,
                PutFails, EndPass, Compare, Verified, Fail, Die
  <2> QED  BY <2>1, <2>2, <2>3 DEF Next
<1>3. CASE UNCHANGED <<canary, at>>  BY <1>1, <1>2, <1>3 DEF CanariesAreSound
<1>4. CASE \E q \in Run : Command(q)
  <2>1. PICK q \in Run : Command(q)  BY <1>4
  <2>2. CASE PutCanary(q)       BY <2>2, <1>1, <1>2 DEF PutCanary, Goto, CanariesAreSound
  <2>3. CASE PutCanaryFails(q)
    <3>1. canary' \subseteq canary \cup {q} /\ Goto(q, "delete canary")
      BY <2>3 DEF PutCanaryFails, InDoubt
    <3> QED  BY <3>1, <1>1, <1>2 DEF Goto, CanariesAreSound
  <2>4. CASE ProbeCanary(q)     BY <2>4, <1>1, <1>2 DEF ProbeCanary, Goto, CanariesAreSound
  <2>5. CASE DeleteCanary(q)    BY <2>5, <1>1, <1>2 DEF DeleteCanary, End, Goto, CanariesAreSound
  <2>6. CASE PassPreflight(q)   BY <2>6, <1>1, <1>2 DEF PassPreflight, Goto, CanariesAreSound
  <2>7. CASE DeleteCanaryFails(q) \/ Die(q)
    <3>1. canary' \subseteq canary /\ Goto(q, "untidy")
      BY <2>7 DEF DeleteCanaryFails, Die, End
    <3> QED  BY <3>1, <1>1, <1>2 DEF Goto, CanariesAreSound
  <2>8. CASE \/ Start(q) \/ List(q) \/ HeadFinds(q) \/ HeadMisses(q) \/ Put(q) \/ PutFails(q)
             \/ EndPass(q) \/ Compare(q) \/ Verified(q) \/ Fail(q)
    <3>1. canary' = canary /\ at[q] \notin {"probe canary", "delete canary", "untidy"}
      BY <2>8 DEF Start, List, HeadFinds, HeadMisses, Put, PutFails, EndPass, Compare,
                  Verified, Fail
    <3>2. at' = at \/ \E s : Goto(q, s)
      BY <2>8 DEF Start, List, HeadFinds, HeadMisses, Put, PutFails, EndPass, Compare,
                  Verified, Fail, End
    <3> QED  BY <3>1, <3>2, <1>1, <1>2 DEF Goto, CanariesAreSound
  <2> QED  BY <2>1, <2>2, <2>3, <2>4, <2>5, <2>6, <2>7, <2>8 DEF Command
<1>5. CASE \E q \in Run : CanaryLands(q)
  BY <1>1, <1>2, <1>5 DEF CanaryLands, CanariesAreSound
<1>6. CASE \/ \E p \in Path : Upload(p) \/ Drop(p) \/ DeleteQueued(p) \/ PutLands(p)
           \/ StopServer \/ Resume \/ UNCHANGED vars
  BY <1>3, <1>6 DEF Upload, Drop, DeleteQueued, PutLands, StopServer, Resume, vars
<1> QED  BY <1>4, <1>5, <1>6 DEF Next

-----------------------------------------------------------------------------
(* The theorems *)

LEMMA InvarianceHolds == Spec => []IInv
<1>1. Init => IInv  BY InitIsSound
<1>2. IInv /\ [Next]_vars => IInv'
  BY TypesArePreserved, BucketStaysSound, WindowStaysSound, CanariesStaySound DEF IInv
<1> QED  BY <1>1, <1>2, PTL DEF Spec

\* Every variable keeps its type, and no path is queued for deletion while a bill shows it
\* (main.go:35-105, migration.go:38-136).
THEOREM TypeCorrect == Spec => []TypeOK
<1>1. IInv => TypeOK  BY DEF IInv
<1> QED  BY <1>1, InvarianceHolds, PTL

\* However many runs overlapped, failed, died or left PUTs behind, and whatever the bucket
\* held, the server that reads from S3 has the bytes of every receipt (runbook, 2 to 6).
THEOREM CutoverTheorem == Spec => []CutoverLosesNothing
<1>1. IInv => CutoverLosesNothing  BY DEF IInv, WindowIsSound, CutoverLosesNothing, SameBytes
<1> QED  BY <1>1, InvarianceHolds, PTL

\* Whatever a PUT will find, of any number of runs that overlap or are long over, is
\* nothing or the very receipt it carries, so a second PUT of a path changes nothing; and
\* the server writes only to free paths (migration.go:36-37, 281).
THEOREM WritesTheorem == Spec => NoObjectIsReplaced
<1> DEFINE Step == \A p \in Path :
      /\ Pending(p) => bucket[p] \in {None, Copy}
      /\ bucket'[p] \notin {bucket[p], None} => bucket[p] = None /\ bucket'[p] = Copy
<1>1. IInv /\ [Next]_vars => Step
  <2> SUFFICES ASSUME IInv, [Next]_vars, NEW p \in Path
               PROVE  /\ Pending(p) => bucket[p] \in {None, Copy}
                      /\ bucket'[p] \notin {bucket[p], None} =>
                           bucket[p] = None /\ bucket'[p] = Copy
    OBVIOUS
  <2>1. Pending(p) => bucket[p] \in {None, Copy}
    BY DEF IInv, BucketIsSound, Free, Pending
  <2> QED  BY <2>1, WritesAreWhole
<1>2. Spec => [][Step]_vars  BY <1>1, InvarianceHolds, PTL DEF Spec
<1> QED  BY <1>2 DEF NoObjectIsReplaced

\* A run that ends without a word has no canary in the bucket, but for a PUT that lands
\* after it (main.go:150-164).
THEOREM CanaryTheorem == Spec => []CanaryIsRemoved
<1>1. IInv => CanaryIsRemoved  BY DEF IInv, CanariesAreSound, CanaryIsRemoved
<1> QED  BY <1>1, InvarianceHolds, PTL
=============================================================================

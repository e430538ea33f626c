--------------------------- MODULE ConverterProofs ---------------------------
(* Proofs about Converter: its type invariant, the bound on processes and the *)
(* three properties of an answer, for every number of callers, slots, caps    *)
(* and pipes.                                                                 *)
EXTENDS Converter, FiniteSetTheorems, TLAPS

-----------------------------------------------------------------------------
(* The inductive invariant *)

\* What a copier and the child know of each other in one stream: a copier that reads on
\* is within its cap, one that stopped the child is over it, one that saw the end of the
\* stream has all of it.
StreamIsSound(c, s) ==
  /\ copier[c][s] = "reading" => got[c][s] <= Cap(s)
  /\ copier[c][s] \in {"full", "over"} => got[c][s] > Cap(s)
  /\ copier[c][s] = "eof" => got[c][s] = wrote[c][s] /\ child[c].state # "running"

\* A child lives while its call is running, a call that collects knows how its child
\* ended, and a child is killed only for a cancelled context or a passed cap.
RunIsSound(c) ==
  /\ \A s \in Stream : StreamIsSound(c, s)
  /\ child[c].state = "running" => At(c, "running")
  /\ child[c].state = "exited" => child[c].exit # "none"
  /\ At(c, "collect") => child[c].exit # "none"
  /\ child[c].exit = "killed" => /\ call[c].at \in {"running", "collect"}
                                 /\ call[c].ctx \/ Overflowed(c)

SlotsAreSound == IsFiniteSet(Inside) /\ sem = Cardinality(Inside)
IInv == TypeOK /\ SlotsAreSound /\ \A c \in Call : RunIsSound(c)

Untouched(d) == /\ call'[d] = call[d] /\ child'[d] = child[d] /\ wrote'[d] = wrote[d]
                /\ got'[d] = got[d] /\ copier'[d] = copier[d]

LEMMA CapIsNat == ASSUME NEW s \in Stream PROVE Cap(s) \in Nat
BY ConverterAssumption DEF Cap

\* A step of one call leaves the runs of the others alone.
LEMMA OthersStay ==
  ASSUME TypeOK, NEW c \in Call, NEW d \in Call \ {c},
         \/ Send(c) \/ GiveUp(c) \/ Cancel(c) \/ ContextKills(c)
         \/ Service(c) \/ Child(c) \/ \E s \in Stream : Copier(c, s)
  PROVE  Untouched(d)
<1>1. CASE Send(c) \/ GiveUp(c) \/ Cancel(c) \/ Deliver(c) \/ Refuse(c) \/ Busy(c) \/ Enter(c)
           \/ Identified(c) \/ Wait(c)
  BY <1>1 DEF TypeOK, Untouched, Send, GiveUp, Cancel, Deliver, Refuse, Busy, Enter, Identified,
              Wait, Goto, run
<1>2. CASE Start(c) \/ StartFails(c) \/ Answer(c)
  BY <1>2 DEF TypeOK, Untouched, Start, StartFails, Answer, NewRun, Goto
<1>3. CASE ContextKills(c) \/ Child(c) \/ \E s \in Stream : Copier(c, s)
  BY <1>3 DEF TypeOK, Untouched, ContextKills, Child, ChildExits, ChildWrites, Copier,
              CopierReads, CopierEnds, CopierIsCut, CopierKills
<1> QED  BY <1>1, <1>2, <1>3 DEF Service

LEMMA UntouchedStaysSound ==
  ASSUME NEW d \in Call, Untouched(d), RunIsSound(d)
  PROVE  RunIsSound(d)'
BY DEF Untouched, RunIsSound, StreamIsSound, Overflowed, At

-----------------------------------------------------------------------------
(* Types *)

CallType == [at: {"away", "convert", "start", "running", "collect", "answer"},
             stage: {"none", "identify", "convert"}, ctx: BOOLEAN,
             verdict: Verdicts \cup {"none"}]
ChildType == [state: {"none", "running", "exited"},
              exit: {"none", "ok", "odd", "failed", "killed", "unborn"}]
WithinPipes(c) == \A s \in Stream :
  /\ got[c][s] <= Cap(s) + 1 /\ got[c][s] <= wrote[c][s]
  /\ wrote[c][s] <= got[c][s] + PipeSize

LEMMA NewRunIsTyped ==
  ASSUME TypeOK, NEW c \in Call, NEW p \in ChildType, NEW k \in {"reading", "eof"},
         NewRun(c, p, k)
  PROVE  /\ child' \in [Call -> ChildType]
         /\ wrote' \in [Call -> [Stream -> Nat]] /\ got' \in [Call -> [Stream -> Nat]]
         /\ copier' \in [Call -> [Stream -> {"reading", "full", "over", "eof", "cut"}]]
         /\ \A d \in Call : WithinPipes(d)'
<1>1. Both(0) \in [Stream -> Nat] /\ Both(k) \in [Stream -> {"reading", "full", "over", "eof", "cut"}]
  BY DEF Both
<1>2. /\ child' \in [Call -> ChildType]
      /\ wrote' \in [Call -> [Stream -> Nat]] /\ got' \in [Call -> [Stream -> Nat]]
      /\ copier' \in [Call -> [Stream -> {"reading", "full", "over", "eof", "cut"}]]
  BY <1>1 DEF TypeOK, NewRun, ChildType
<1>3. ASSUME NEW d \in Call, NEW s \in Stream
      PROVE  /\ got'[d][s] <= Cap(s) + 1 /\ got'[d][s] <= wrote'[d][s]
             /\ wrote'[d][s] <= got'[d][s] + PipeSize
  <2>0. Cap(s) \in Nat /\ PipeSize \in Nat  BY CapIsNat, ConverterAssumption
  <2>1. CASE d = c
    <3>1. got'[d] = Both(0) /\ wrote'[d] = Both(0)  BY <2>1 DEF TypeOK, NewRun
    <3>2. got'[d][s] = 0 /\ wrote'[d][s] = 0  BY <3>1 DEF Both
    <3> QED  BY <2>0, <3>2
  <2>2. CASE d # c
    BY <2>2 DEF TypeOK, NewRun
  <2> QED  BY <2>1, <2>2
<1> QED  BY <1>2, <1>3 DEF WithinPipes

LEMMA TypesAreKept ==
  ASSUME IInv, [Next]_vars
  PROVE  TypeOK'
<1> USE DEF IInv
<1>1. TypeOK /\ call \in [Call -> CallType] /\ child \in [Call -> ChildType]
  BY DEF TypeOK, CallType, ChildType
<1>2. sem \in 0..MaxConcurrent /\ MaxConcurrent \in Nat  BY ConverterAssumption DEF TypeOK
<1>3. CASE UNCHANGED vars  BY <1>1, <1>3 DEF vars, run, TypeOK
<1>4. ASSUME NEW c \in Call, Send(c) \/ GiveUp(c) \/ Cancel(c) \/ Deliver(c) \/ Refuse(c)
                             \/ Busy(c) \/ Enter(c) \/ Identified(c) \/ Wait(c)
      PROVE  TypeOK'
  <2>1. UNCHANGED run
    BY <1>4 DEF Send, GiveUp, Cancel, Deliver, Refuse, Busy, Enter, Identified, Wait
  <2>2. call' \in [Call -> CallType]
    <3>1. CASE Deliver(c)
      <4>1. Away \in CallType  BY DEF Away, CallType
      <4> QED  BY <1>1, <3>1, <4>1 DEF Deliver
    <3>2. CASE Send(c) \/ GiveUp(c) \/ Cancel(c) \/ Wait(c)
      <4>1. CASE Send(c)  BY <1>1, <4>1 DEF Send, Goto, CallType
      <4>2. CASE GiveUp(c)  BY <1>1, <4>2 DEF GiveUp
      <4>3. CASE Cancel(c)
        <5>1. call' = [call EXCEPT ![c].ctx = TRUE]  BY <4>3 DEF Cancel
        <5> QED  BY <1>1, <5>1 DEF CallType
      <4>4. CASE Wait(c)  BY <1>1, <4>4 DEF Wait, Goto, CallType
      <4> QED  BY <3>2, <4>1, <4>2, <4>3, <4>4
    <3>3. CASE Refuse(c) \/ Busy(c) \/ Enter(c) \/ Identified(c)
      BY <1>1, <3>3 DEF Refuse, Busy, Enter, Identified, CallType, Verdicts
    <3> QED  BY <1>4, <3>1, <3>2, <3>3
  <2>3. ready' \in BOOLEAN /\ waiting' \subseteq Call
    BY <1>1, <1>4 DEF TypeOK, Send, GiveUp, Cancel, Deliver, Refuse, Busy, Enter, Identified, Wait
  <2>4. sem' \in 0..MaxConcurrent
    BY <1>2, <1>4 DEF Send, GiveUp, Cancel, Deliver, Refuse, Busy, Enter, Identified, Wait
  <2> QED  BY <1>1, <2>1, <2>2, <2>3, <2>4 DEF TypeOK, run, CallType
<1>5. ASSUME NEW c \in Call, Start(c) \/ StartFails(c) \/ Answer(c)
      PROVE  TypeOK'
  <2>1. PICK p \in ChildType, k \in {"reading", "eof"} : NewRun(c, p, k)
    <3>1. /\ [state |-> "running", exit |-> "none"] \in ChildType
          /\ NoChild("unborn") \in ChildType /\ NoChild("none") \in ChildType
          /\ child[c] \in ChildType
      BY <1>1 DEF ChildType, NoChild
    <3>2. CASE Answer(c)  BY <3>1, <3>2 DEF Answer
    <3> QED  BY <1>5, <3>1, <3>2 DEF Start, StartFails
  <2>2. call' \in [Call -> CallType]
    <3>1. Verdict(c) \in Verdicts  BY DEF Verdict, Verdicts
    <3> QED  BY <1>1, <1>5, <3>1 DEF Start, StartFails, Answer, Goto, CallType
  <2>3. sem' \in 0..MaxConcurrent
    <3>1. CASE Answer(c)
      <4>1. c \in Inside  BY <3>1 DEF Answer, Collected, At, Inside
      <4>2. sem # 0
        BY <4>1, FS_EmptySet DEF SlotsAreSound
      <4> QED  BY <1>2, <3>1, <4>2 DEF Answer
    <3> QED  BY <1>2, <1>5, <3>1 DEF Start, StartFails
  <2>4. ready' \in BOOLEAN /\ waiting' \subseteq Call
    BY <1>1, <1>5 DEF TypeOK, Start, StartFails, Answer
  <2> QED  BY <1>1, <2>1, <2>2, <2>3, <2>4, NewRunIsTyped DEF TypeOK, CallType, ChildType, WithinPipes
<1>6. ASSUME NEW c \in Call, ContextKills(c) \/ ChildExits(c)
      PROVE  TypeOK'
  <2>1. child' \in [Call -> ChildType]
    BY <1>1, <1>6 DEF ContextKills, ChildExits, ChildType
  <2>2. UNCHANGED <<ready, waiting, call, sem, wrote, got, copier>>
    BY <1>6 DEF ContextKills, ChildExits
  <2> QED  BY <1>1, <2>1, <2>2 DEF TypeOK, ChildType
<1>7. ASSUME NEW c \in Call, NEW s \in Stream, ChildWrites(c, s)
      PROVE  TypeOK'
  <2>0. got[c][s] \in Nat /\ wrote[c][s] \in Nat /\ PipeSize \in Nat
    BY <1>1, ConverterAssumption DEF TypeOK
  <2>1. wrote' \in [Call -> [Stream -> Nat]]
    BY <1>1, <1>7 DEF TypeOK, ChildWrites
  <2>2. UNCHANGED <<ready, waiting, call, sem, child, got, copier>>
    BY <1>7 DEF ChildWrites
  <2>3. ASSUME NEW d \in Call, NEW t \in Stream
        PROVE  /\ got[d][t] <= Cap(t) + 1 /\ got[d][t] <= wrote'[d][t]
               /\ wrote'[d][t] <= got[d][t] + PipeSize
    <3>1. CASE d = c /\ t = s
      BY <1>1, <1>7, <2>0, <3>1 DEF TypeOK, ChildWrites
    <3>2. CASE ~(d = c /\ t = s)
      <4>1. wrote'[d][t] = wrote[d][t]  BY <1>1, <1>7, <3>2 DEF TypeOK, ChildWrites
      <4> QED  BY <1>1, <4>1 DEF TypeOK
    <3> QED  BY <3>1, <3>2
  <2> QED  BY <1>1, <2>1, <2>2, <2>3 DEF TypeOK
<1>8. ASSUME NEW c \in Call, NEW s \in Stream, CopierReads(c, s)
      PROVE  TypeOK'
  <2>0. got[c][s] \in Nat /\ wrote[c][s] \in Nat /\ PipeSize \in Nat /\ Cap(s) \in Nat
    BY <1>1, ConverterAssumption, CapIsNat DEF TypeOK
  <2>1. /\ got' \in [Call -> [Stream -> Nat]]
        /\ copier' \in [Call -> [Stream -> {"reading", "full", "over", "eof", "cut"}]]
    BY <1>1, <1>8 DEF TypeOK, CopierReads
  <2>2. UNCHANGED <<ready, waiting, call, sem, child, wrote>>
    BY <1>8 DEF CopierReads
  <2>3. ASSUME NEW d \in Call, NEW t \in Stream
        PROVE  /\ got'[d][t] <= Cap(t) + 1 /\ got'[d][t] <= wrote[d][t]
               /\ wrote[d][t] <= got'[d][t] + PipeSize
    <3>1. CASE d = c /\ t = s
      <4>1. got'[c][s] = got[c][s] + 1  BY <1>1, <1>8 DEF TypeOK, CopierReads
      <4>2. got[c][s] < wrote[c][s] /\ copier[c][s] = "reading"  BY <1>8 DEF CopierReads
      <4>3. got[c][s] <= Cap(s)  BY <4>2 DEF RunIsSound, StreamIsSound
      <4>4. wrote[c][s] <= got[c][s] + PipeSize  BY <1>1 DEF TypeOK
      <4> QED  BY <2>0, <3>1, <4>1, <4>2, <4>3, <4>4
    <3>2. CASE ~(d = c /\ t = s)
      <4>1. got'[d][t] = got[d][t]  BY <1>1, <1>8, <3>2 DEF TypeOK, CopierReads
      <4> QED  BY <1>1, <4>1 DEF TypeOK
    <3> QED  BY <3>1, <3>2
  <2> QED  BY <1>1, <2>1, <2>2, <2>3 DEF TypeOK
<1>9. ASSUME NEW c \in Call, NEW s \in Stream,
             CopierEnds(c, s) \/ CopierIsCut(c, s) \/ CopierKills(c, s)
      PROVE  TypeOK'
  <2>1. copier' \in [Call -> [Stream -> {"reading", "full", "over", "eof", "cut"}]]
    <3>1. PICK x \in {"eof", "cut", "over"} : copier' = [copier EXCEPT ![c][s] = x]
      BY <1>9 DEF CopierEnds, CopierIsCut, CopierKills
    <3> QED  BY <1>1, <3>1 DEF TypeOK
  <2>2. child' \in [Call -> ChildType]
    <3>1. Killed(child[c]) \in ChildType  BY <1>1 DEF Killed, ChildType
    <3> QED  BY <1>1, <1>9, <3>1 DEF CopierEnds, CopierIsCut, CopierKills
  <2>3. UNCHANGED <<ready, waiting, call, sem, wrote, got>>
    BY <1>9 DEF CopierEnds, CopierIsCut, CopierKills
  <2> QED  BY <1>1, <2>1, <2>2, <2>3 DEF TypeOK, ChildType
<1> QED
  BY <1>3, <1>4, <1>5, <1>6, <1>7, <1>8, <1>9 DEF Next, Service, Child, Copier
-----------------------------------------------------------------------------
(* Slots *)

LEMMA SlotsAreKept ==
  ASSUME IInv, [Next]_vars
  PROVE  SlotsAreSound'
<1> USE DEF IInv
<1>0. call \in [Call -> CallType] /\ sem \in Nat /\ IsFiniteSet(Inside) /\ sem = Cardinality(Inside)
  BY ConverterAssumption DEF TypeOK, CallType, SlotsAreSound
<1>1. ASSUME Inside' = Inside, sem' = sem PROVE SlotsAreSound'
  BY <1>0, <1>1 DEF SlotsAreSound
<1>2. CASE UNCHANGED vars  BY <1>1, <1>2 DEF vars, Inside
<1>3. ASSUME NEW c \in Call, Send(c) \/ GiveUp(c) \/ Cancel(c) \/ Deliver(c) \/ Refuse(c)
                             \/ Busy(c) \/ Identified(c) \/ Wait(c) \/ Start(c)
                             \/ StartFails(c) \/ ContextKills(c) \/ Child(c)
                             \/ \E s \in Stream : Copier(c, s)
      PROVE  SlotsAreSound'
  <2>1. CASE Send(c) \/ Cancel(c) \/ Refuse(c) \/ Busy(c) \/ Identified(c) \/ Wait(c)
             \/ Start(c) \/ StartFails(c)
    <3>1. sem' = sem
      BY <2>1 DEF Send, Cancel, Refuse, Busy, Identified, Wait, Start, StartFails
    <3>2. Inside' = Inside
      BY <1>0, <2>1 DEF Send, Cancel, Refuse, Busy, Identified, Wait, Start, StartFails, Goto, At,
                        Inside, CallType, Collected
    <3> QED  BY <1>1, <3>1, <3>2
  <2>2. CASE Deliver(c)
    <3>1. Inside' = Inside  BY <1>0, <2>2 DEF Deliver, At, Inside, Away
    <3> QED  BY <1>1, <2>2, <3>1 DEF Deliver
  <2>3. CASE GiveUp(c) \/ ContextKills(c) \/ Child(c) \/ \E s \in Stream : Copier(c, s)
    BY <1>1, <2>3 DEF GiveUp, ContextKills, Child, ChildExits, ChildWrites, Copier, CopierReads,
                      CopierEnds, CopierIsCut, CopierKills, Inside
  <2> QED  BY <1>3, <2>1, <2>2, <2>3
<1>4. ASSUME NEW c \in Call, Enter(c) PROVE SlotsAreSound'
  <2>1. c \notin Inside  BY <1>4 DEF Enter, At, Inside
  <2>2. Inside' = Inside \cup {c}
    BY <1>0, <1>4 DEF Enter, Inside, CallType
  <2>3. sem' = sem + 1  BY <1>4 DEF Enter
  <2> QED  BY <1>0, <2>1, <2>2, <2>3, FS_AddElement DEF SlotsAreSound
<1>5. ASSUME NEW c \in Call, Answer(c) PROVE SlotsAreSound'
  <2>1. c \in Inside  BY <1>5 DEF Answer, Collected, At, Inside
  <2>2. Inside' = Inside \ {c}
    BY <1>0, <1>5 DEF Answer, Inside, CallType
  <2>3. sem' = sem - 1  BY <1>5 DEF Answer
  <2> QED  BY <1>0, <2>1, <2>2, <2>3, FS_RemoveElement DEF SlotsAreSound
<1> QED  BY <1>2, <1>3, <1>4, <1>5 DEF Next, Service

-----------------------------------------------------------------------------
(* Runs *)

\* A run that begins, or is thrown away, is sound.
LEMMA NewRunIsSound ==
  ASSUME TypeOK, NEW c \in Call, NEW p \in ChildType, NEW k \in {"reading", "eof"},
         NewRun(c, p, k), p.state = "running" => k = "reading" /\ At(c, "running")',
         p.state # "exited", p.exit # "killed", At(c, "collect")' => p.exit # "none"
  PROVE  RunIsSound(c)'
<1>1. child'[c] = p /\ wrote'[c] = Both(0) /\ got'[c] = Both(0) /\ copier'[c] = Both(k)
  BY DEF TypeOK, NewRun
<1>2. ASSUME NEW s \in Stream PROVE StreamIsSound(c, s)'
  <2>1. wrote'[c][s] = 0 /\ got'[c][s] = 0 /\ copier'[c][s] = k  BY <1>1 DEF Both
  <2> QED  BY <1>1, <2>1, CapIsNat DEF StreamIsSound
<1> QED  BY <1>1, <1>2 DEF RunIsSound, At

LEMMA RunsAreKept ==
  ASSUME IInv, NEW c \in Call,
         \/ Send(c) \/ GiveUp(c) \/ Cancel(c) \/ ContextKills(c)
         \/ Service(c) \/ Child(c) \/ \E s \in Stream : Copier(c, s)
  PROVE  RunIsSound(c)'
<1>0. /\ TypeOK /\ RunIsSound(c)
      /\ call \in [Call -> CallType] /\ child \in [Call -> ChildType]
  BY DEF IInv, TypeOK, CallType, ChildType
<1>1. CASE Send(c) \/ GiveUp(c) \/ Cancel(c) \/ Deliver(c) \/ Refuse(c) \/ Busy(c) \/ Enter(c)
           \/ Wait(c)
  <2>1. UNCHANGED run
    BY <1>1 DEF Send, GiveUp, Cancel, Deliver, Refuse, Busy, Enter, Wait
  <2>2. \A s \in Stream : StreamIsSound(c, s)'
    BY <1>0, <2>1 DEF run, RunIsSound, StreamIsSound
  <2>3. Overflowed(c)' <=> Overflowed(c)  BY <2>1 DEF run, Overflowed
  <2>4. CASE GiveUp(c)
    BY <1>0, <2>1, <2>2, <2>3, <2>4 DEF GiveUp, RunIsSound, At, run
  <2>5. CASE Send(c) \/ Deliver(c) \/ Refuse(c) \/ Busy(c) \/ Enter(c)
    <3>1. call'[c].at \notin {"running", "collect"} /\ call[c].at \notin {"running", "collect"}
      BY <1>0, <2>5 DEF Send, Deliver, Refuse, Busy, Enter, Goto, At, Away, CallType
    <3> QED  BY <1>0, <2>1, <2>2, <3>1 DEF RunIsSound, At, run
  <2>6. CASE Cancel(c)
    <3>1. call'[c].at = call[c].at /\ call'[c].ctx  BY <1>0, <2>6 DEF Cancel, CallType
    <3> QED  BY <1>0, <2>1, <2>2, <2>3, <3>1 DEF RunIsSound, At, run
  <2>7. CASE Wait(c)
    <3>1. call'[c].at = "collect" /\ call'[c].ctx = call[c].ctx
      BY <1>0, <2>7 DEF Wait, Goto, CallType
    <3>2. child[c].state = "exited" /\ child' = child  BY <2>1, <2>7 DEF Wait, Gone, run
    <3> QED  BY <1>0, <2>1, <2>2, <2>3, <3>1, <3>2 DEF RunIsSound, At, run
  <2> QED  BY <1>1, <2>4, <2>5, <2>6, <2>7
<1>2. CASE Identified(c)
  <2>1. UNCHANGED run /\ child[c].exit = "ok" /\ call'[c].at = "start"
    BY <1>0, <1>2 DEF Identified, Verdict, CallType
  <2>2. At(c, "collect")  BY <1>2 DEF Identified, Collected
  <2> QED  BY <1>0, <2>1, <2>2 DEF RunIsSound, StreamIsSound, At, run
<1>3. CASE Start(c) \/ StartFails(c) \/ Answer(c)
  <2>1. CASE Start(c)
    <3>1. [state |-> "running", exit |-> "none"] \in ChildType  BY DEF ChildType
    <3>2. At(c, "running")'  BY <1>0, <2>1 DEF Start, Goto, At, CallType
    <3> QED  BY <1>0, <2>1, <3>1, <3>2, NewRunIsSound DEF Start, At
  <2>2. CASE StartFails(c)
    <3>1. NoChild("unborn") \in ChildType  BY DEF ChildType, NoChild
    <3> QED  BY <1>0, <2>2, <3>1, NewRunIsSound DEF StartFails, NoChild
  <2>3. CASE Answer(c)
    <3>1. child[c].state # "running"  BY <1>0, <2>3 DEF Answer, Collected, RunIsSound, At
    <3>2. NoChild("none") \in ChildType  BY DEF ChildType, NoChild
    <3>3. ~At(c, "collect")'  BY <1>0, <2>3 DEF Answer, At, CallType
    <3> QED  BY <1>0, <2>3, <3>1, <3>2, <3>3, NewRunIsSound DEF Answer, NoChild
  <2> QED  BY <1>3, <2>1, <2>2, <2>3
<1>4. CASE ContextKills(c) \/ ChildExits(c)
  <2>1. UNCHANGED <<call, wrote, got, copier>> /\ call[c].at = call'[c].at
    BY <1>4 DEF ContextKills, ChildExits
  <2>2. At(c, "running")
    BY <1>0, <1>4 DEF ContextKills, ChildExits, RunIsSound
  <2>3. child'[c].state = "exited" /\ child'[c].exit # "none"
    BY <1>0, <1>4 DEF ContextKills, ChildExits
  <2>4. child'[c].exit = "killed" => call[c].ctx
    BY <1>0, <1>4 DEF ContextKills, ChildExits
  <2> QED  BY <1>0, <2>1, <2>2, <2>3, <2>4 DEF RunIsSound, StreamIsSound, At, Overflowed
<1>5. ASSUME NEW s \in Stream, ChildWrites(c, s) PROVE RunIsSound(c)'
  <2>1. UNCHANGED <<call, child, got, copier>> /\ child[c].state = "running"
    BY <1>5 DEF ChildWrites
  <2>2. \A t \in Stream : StreamIsSound(c, t)'
    BY <1>0, <2>1 DEF RunIsSound, StreamIsSound
  <2> QED  BY <1>0, <2>1, <2>2 DEF RunIsSound, At, Overflowed
<1>6. ASSUME NEW s \in Stream, CopierReads(c, s) PROVE RunIsSound(c)'
  <2>0. got[c][s] \in Nat /\ Cap(s) \in Nat  BY <1>0, CapIsNat DEF TypeOK
  <2>1. UNCHANGED <<call, child, wrote>>  BY <1>6 DEF CopierReads
  <2>2. /\ got'[c][s] = got[c][s] + 1
        /\ copier'[c][s] = IF Full(c, s) THEN "full" ELSE "reading"
        /\ \A t \in Stream \ {s} : got'[c][t] = got[c][t] /\ copier'[c][t] = copier[c][t]
    BY <1>0, <1>6 DEF CopierReads, TypeOK
  <2>3. StreamIsSound(c, s)'
    BY <2>0, <2>2 DEF StreamIsSound, Full
  <2>4. \A t \in Stream \ {s} : StreamIsSound(c, t)'
    BY <1>0, <2>1, <2>2 DEF RunIsSound, StreamIsSound
  <2>5. Overflowed(c) => Overflowed(c)'
    BY <2>0, <2>2 DEF Overflowed
  <2> QED  BY <1>0, <2>1, <2>3, <2>4, <2>5 DEF RunIsSound, At
<1>7. ASSUME NEW s \in Stream, CopierEnds(c, s) \/ CopierIsCut(c, s) PROVE RunIsSound(c)'
  <2>1. UNCHANGED <<call, child, wrote, got>>  BY <1>7 DEF CopierEnds, CopierIsCut
  <2>2. /\ \/ copier'[c][s] = "cut"
           \/ copier'[c][s] = "eof" /\ got[c][s] = wrote[c][s] /\ child[c].state = "exited"
        /\ \A t \in Stream \ {s} : copier'[c][t] = copier[c][t]
    BY <1>0, <1>7 DEF CopierEnds, CopierIsCut, TypeOK
  <2>3. \A t \in Stream : StreamIsSound(c, t)'
    BY <1>0, <2>1, <2>2 DEF RunIsSound, StreamIsSound
  <2> QED  BY <1>0, <2>1, <2>3 DEF RunIsSound, At, Overflowed
<1>8. ASSUME NEW s \in Stream, CopierKills(c, s) PROVE RunIsSound(c)'
  <2>1. UNCHANGED <<call, wrote, got>> /\ copier[c][s] = "full"  BY <1>8 DEF CopierKills
  <2>2. /\ copier'[c][s] = "over" /\ child'[c] = Killed(child[c])
        /\ \A t \in Stream \ {s} : copier'[c][t] = copier[c][t]
    BY <1>0, <1>8 DEF CopierKills, TypeOK
  <2>3. got[c][s] > Cap(s)  BY <1>0, <2>1 DEF RunIsSound, StreamIsSound
  <2>4. child'[c].state # "running" /\ (child'[c] # child[c] => /\ child[c].state = "running"
                                       /\ child'[c] = [state |-> "exited", exit |-> "killed"])
    BY <2>2 DEF Killed
  <2>5. \A t \in Stream : StreamIsSound(c, t)'
    BY <1>0, <2>1, <2>2, <2>3, <2>4 DEF RunIsSound, StreamIsSound
  <2>6. Overflowed(c)'  BY <2>1, <2>3 DEF Overflowed
  <2> QED  BY <1>0, <2>1, <2>4, <2>5, <2>6 DEF RunIsSound, At
<1> QED
  BY <1>1, <1>2, <1>3, <1>4, <1>5, <1>6, <1>7, <1>8 DEF Service, Child, Copier

-----------------------------------------------------------------------------
(* The theorems *)

LEMMA InvarianceHolds == Spec => []IInv
<1>1. Init => IInv
  <2> SUFFICES ASSUME Init PROVE IInv
    OBVIOUS
  <2>1. /\ \A c \in Call : call[c] = Away /\ child[c] = NoChild("none")
        /\ \A c \in Call, s \in Stream : wrote[c][s] = 0 /\ got[c][s] = 0 /\ copier[c][s] = "eof"
    BY DEF Init, Both
  <2>2. TypeOK
    <3>1. call \in [Call -> CallType] /\ child \in [Call -> ChildType]
      BY DEF Init, CallType, ChildType, Away, NoChild
    <3>2. /\ wrote \in [Call -> [Stream -> Nat]] /\ got \in [Call -> [Stream -> Nat]]
          /\ copier \in [Call -> [Stream -> {"reading", "full", "over", "eof", "cut"}]]
      BY DEF Init, Both
    <3>3. ASSUME NEW c \in Call, NEW s \in Stream
          PROVE  /\ got[c][s] <= Cap(s) + 1 /\ got[c][s] <= wrote[c][s]
                 /\ wrote[c][s] <= got[c][s] + PipeSize
      BY <2>1, ConverterAssumption, CapIsNat
    <3>4. ready \in BOOLEAN /\ waiting \subseteq Call  BY DEF Init
    <3>5. sem \in 0..MaxConcurrent  BY ConverterAssumption DEF Init
    <3> QED  BY <3>1, <3>2, <3>3, <3>4, <3>5 DEF TypeOK, CallType, ChildType
  <2>3. Inside = {}  BY <2>1 DEF Inside, Away
  <2>4. SlotsAreSound  BY <2>3, FS_EmptySet DEF SlotsAreSound, Init
  <2>5. \A c \in Call : RunIsSound(c)
    BY <2>1, CapIsNat DEF RunIsSound, StreamIsSound, At, Away, NoChild
  <2> QED  BY <2>2, <2>4, <2>5 DEF IInv
<1>2. IInv /\ [Next]_vars => IInv'
  <2> SUFFICES ASSUME IInv, [Next]_vars PROVE IInv'
    OBVIOUS
  <2>1. ASSUME NEW d \in Call PROVE RunIsSound(d)'
    <3>1. RunIsSound(d) /\ TypeOK  BY DEF IInv
    <3>2. CASE UNCHANGED vars
      BY <3>1, <3>2, UntouchedStaysSound DEF Untouched, vars, run
    <3>3. CASE Next
      BY <3>1, <3>3, OthersStay, UntouchedStaysSound, RunsAreKept DEF Next
    <3> QED  BY <3>2, <3>3
  <2> QED  BY <2>1, TypesAreKept, SlotsAreKept DEF IInv
<1> QED  BY <1>1, <1>2, PTL DEF Spec

\* Every variable has its type, and no stream holds more than its buffer and its pipe.
THEOREM TypeCorrect == Spec => []TypeOK
BY InvarianceHolds, PTL DEF IInv

\* There are never more processes than slots, whoever gives up and sends again: a child is
\* alive only while the call that started it holds its slot.
THEOREM SlotsTheorem == Spec => []SlotsGuardChildren
<1>1. IInv => SlotsGuardChildren
  <2> SUFFICES ASSUME IInv PROVE SlotsGuardChildren
    OBVIOUS
  <2> DEFINE Alive == {c \in Call : child[c].state = "running"}
  <2>1. Alive \subseteq Inside  BY DEF IInv, RunIsSound, At, Inside
  <2>2. IsFiniteSet(Inside) /\ sem = Cardinality(Inside)  BY DEF IInv, SlotsAreSound
  <2>3. Cardinality(Alive) <= Cardinality(Inside) /\ Cardinality(Alive) \in Nat
    BY <2>1, <2>2, FS_Subset, FS_CardinalityType
  <2>4. sem \in 0..MaxConcurrent /\ MaxConcurrent \in Nat
    BY ConverterAssumption DEF IInv, TypeOK
  <2>5. Cardinality(Alive) <= MaxConcurrent  BY <2>2, <2>3, <2>4
  <2> QED  BY <2>2, <2>5 DEF SlotsGuardChildren
<1> QED  BY <1>1, InvarianceHolds, PTL

\* A call that is answered after it was inside takes the step Answer.
LEMMA OnlyAnswerAnswers ==
  ASSUME IInv, [Next]_vars, NEW c \in Call, Answered(c)
  PROVE  Answer(c)
<1>0. TypeOK /\ call \in [Call -> CallType]  BY DEF IInv, TypeOK, CallType
<1>1. call'[c] # call[c] /\ ~UNCHANGED call  BY DEF Answered, At
<1>2. PICK d \in Call : \/ Send(d) \/ GiveUp(d) \/ Cancel(d) \/ ContextKills(d)
                       \/ Service(d) \/ Child(d) \/ \E s \in Stream : Copier(d, s)
  BY <1>1 DEF Next, vars
<1>3. d = c  BY <1>0, <1>1, <1>2, OthersStay DEF Untouched
<1>4. CASE ContextKills(c) \/ Child(c) \/ GiveUp(c) \/ \E s \in Stream : Copier(c, s)
  BY <1>1, <1>4 DEF GiveUp, ContextKills, Child, ChildExits, ChildWrites, Copier, CopierReads,
                    CopierEnds, CopierIsCut, CopierKills
<1>5. CASE Cancel(c) \/ Identified(c)
  BY <1>0, <1>5 DEF Cancel, Identified, Answered, At, CallType
<1>6. CASE Send(c) \/ Deliver(c) \/ Refuse(c) \/ Busy(c) \/ Enter(c) \/ Start(c)
           \/ StartFails(c) \/ Wait(c)
  BY <1>6 DEF Send, Deliver, Refuse, Busy, Enter, Start, StartFails, Wait, Answered, At
<1> QED  BY <1>2, <1>3, <1>4, <1>5, <1>6 DEF Service

\* What is known of the run a call is answered from.
LEMMA AnsweredFrom ==
  ASSUME IInv, [Next]_vars, NEW c \in Call, Answered(c)
  PROVE  /\ Collected(c) /\ RunIsSound(c) /\ TypeOK
         /\ call'[c].verdict = Verdict(c)
         /\ Verdict(c) = "image" => call[c].stage = "convert"
         /\ call[c].stage \in {"none", "identify", "convert"}
         /\ child[c].exit \in {"ok", "odd", "failed", "killed", "unborn"}
<1>1. Answer(c)  BY OnlyAnswerAnswers
<1>2. TypeOK /\ RunIsSound(c) /\ call \in [Call -> CallType] /\ child \in [Call -> ChildType]
  BY DEF IInv, TypeOK, CallType, ChildType
<1>3. call'[c].verdict = Verdict(c)  BY <1>1, <1>2 DEF Answer, CallType
<1>4. child[c].exit # "none"  BY <1>1, <1>2 DEF Answer, Collected, RunIsSound
<1> QED  BY <1>1, <1>2, <1>3, <1>4 DEF Answer, CallType, ChildType

\* An image that is handed out is all its child wrote, within the limit.
THEOREM ImagesTheorem == Spec => ImagesAreWhole
<1> DEFINE Whole ==
      \A c \in Call : (Answered(c) /\ call'[c].verdict = "image") =>
        /\ child[c].exit = "ok" /\ call[c].stage = "convert"
        /\ \A s \in Stream : got[c][s] = wrote[c][s] /\ wrote[c][s] <= Cap(s)
<1>1. IInv /\ [Next]_vars => Whole
  <2> SUFFICES ASSUME IInv, [Next]_vars, NEW c \in Call, Answered(c),
                      call'[c].verdict = "image"
               PROVE  /\ child[c].exit = "ok" /\ call[c].stage = "convert"
                      /\ \A s \in Stream : got[c][s] = wrote[c][s] /\ wrote[c][s] <= Cap(s)
    OBVIOUS
  <2>1. /\ Verdict(c) = "image" /\ call[c].stage = "convert" /\ Collected(c)
        /\ RunIsSound(c) /\ TypeOK
    BY AnsweredFrom
  <2>2. ~Overflowed(c) /\ ~Erred(c) /\ child[c].exit = "ok"  BY <2>1 DEF Verdict
  <2>3. ASSUME NEW s \in Stream PROVE got[c][s] = wrote[c][s] /\ wrote[c][s] <= Cap(s)
    <3>1. got[c][s] \in Nat /\ Cap(s) \in Nat /\ ~(got[c][s] > Cap(s)) /\ copier[c][s] # "cut"
      BY <2>1, <2>2, CapIsNat DEF Overflowed, Erred, TypeOK
    <3>2. copier[c][s] = "eof"
      BY <2>1, <3>1 DEF Collected, RunIsSound, StreamIsSound
    <3> QED  BY <2>1, <3>1, <3>2 DEF RunIsSound, StreamIsSound
  <2> QED  BY <2>1, <2>2, <2>3
<1>2. Spec => [][Whole]_vars
  BY <1>1, InvarianceHolds, PTL DEF Spec
<1> QED  BY <1>2 DEF ImagesAreWhole

\* What a child wrote past a cap makes the converter unavailable, however the child ended:
\* a goroutine that was not cut short has read all of its stream or found it too long.
THEOREM ExcessTheorem == Spec => ExcessIsTold
<1> DEFINE Told == \A c \in Call :
      (Answered(c) /\ \E s \in Stream : wrote[c][s] > Cap(s) /\ copier[c][s] # "cut")
        => call'[c].verdict = "unavailable"
<1>1. IInv /\ [Next]_vars => Told
  <2> SUFFICES ASSUME IInv, [Next]_vars, NEW c \in Call, Answered(c), NEW s \in Stream,
                      wrote[c][s] > Cap(s), copier[c][s] # "cut"
               PROVE  call'[c].verdict = "unavailable"
    OBVIOUS
  <2>1. call'[c].verdict = Verdict(c) /\ Collected(c) /\ RunIsSound(c)
    BY AnsweredFrom
  <2>2. copier[c][s] = "eof" => got[c][s] = wrote[c][s]
    BY <2>1 DEF RunIsSound, StreamIsSound
  <2>3. copier[c][s] = "over" => got[c][s] > Cap(s)
    BY <2>1 DEF RunIsSound, StreamIsSound
  <2>4. Overflowed(c)
    BY <2>1, <2>2, <2>3 DEF Collected, Overflowed
  <2> QED  BY <2>1, <2>4 DEF Verdict
<1>2. Spec => [][Told]_vars
  BY <1>1, InvarianceHolds, PTL DEF Spec
<1> QED  BY <1>2 DEF ExcessIsTold

\* Nothing that got a slot is refused without a cause: a child is killed only for a passed
\* cap or a cancelled request, and then the image is not called invalid.
THEOREM CauseTheorem == Spec => RefusalsHaveACause
<1> DEFINE Caused == \A c \in Call : Answered(c) => LET
          cut == \E s \in Stream : copier[c][s] = "cut"
          exit == child[c].exit IN
        /\ call'[c].verdict = "invalid" =>
             call[c].stage = "identify" /\ (cut \/ exit \in {"odd", "failed", "unborn"})
        /\ call'[c].verdict = "unavailable" =>
             call[c].ctx \/ cut \/ exit # "ok" \/ \E s \in Stream : wrote[c][s] > Cap(s)
<1>1. IInv /\ [Next]_vars => Caused
  <2> SUFFICES ASSUME IInv, [Next]_vars, NEW c \in Call, Answered(c)
               PROVE  LET cut == \E s \in Stream : copier[c][s] = "cut"
                          exit == child[c].exit IN
        /\ call'[c].verdict = "invalid" =>
             call[c].stage = "identify" /\ (cut \/ exit \in {"odd", "failed", "unborn"})
        /\ call'[c].verdict = "unavailable" =>
             call[c].ctx \/ cut \/ exit # "ok" \/ \E s \in Stream : wrote[c][s] > Cap(s)
    OBVIOUS
  <2>1. /\ call'[c].verdict = Verdict(c) /\ RunIsSound(c) /\ TypeOK
        /\ child[c].exit \in {"ok", "odd", "failed", "killed", "unborn"}
    BY AnsweredFrom
  <2>2. child[c].exit = "killed" => call[c].ctx \/ Overflowed(c)  BY <2>1 DEF RunIsSound
  <2>3. Overflowed(c) => \E s \in Stream : wrote[c][s] > Cap(s)
    <3>1. ASSUME NEW s \in Stream, got[c][s] > Cap(s) PROVE wrote[c][s] > Cap(s)
      <4>1. got[c][s] \in Nat /\ wrote[c][s] \in Nat /\ Cap(s) \in Nat
            /\ got[c][s] <= wrote[c][s]
        BY <2>1, CapIsNat DEF TypeOK
      <4> QED  BY <3>1, <4>1
    <3> QED  BY <3>1 DEF Overflowed
  <2>4. CASE Verdict(c) = "invalid"
    BY <2>1, <2>2, <2>4 DEF Verdict, Erred
  <2>5. CASE Verdict(c) = "unavailable"
    BY <2>1, <2>3, <2>5 DEF Verdict, Erred
  <2>6. CASE Verdict(c) = "image"
    BY <2>1, <2>6
  <2> QED  BY <2>1, <2>4, <2>5, <2>6 DEF Verdict
<1>2. Spec => [][Caused]_vars
  BY <1>1, InvarianceHolds, PTL DEF Spec
<1> QED  BY <1>2 DEF RefusalsHaveACause
=============================================================================

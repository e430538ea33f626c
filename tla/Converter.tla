------------------------------ MODULE Converter ------------------------------
(* The image converter (imageconverter/*.go, cmd/image-converter/main.go): an *)
(* HTTP service that runs ImageMagick twice for a conversion, "identify" and  *)
(* then "convert", as a child process whose two output streams are copied     *)
(* into capped buffers by goroutines of their own, while another kills the    *)
(* child when the request is cancelled.                                       *)
(*                                                                            *)
(* A stream is counted in units of one write; what the bytes say is abstract. *)
(* Preflight is the conversion main waits for before it listens; when it      *)
(* fails the process exits and its container starts it again.                 *)
EXTENDS Naturals, FiniteSets
CONSTANTS
  Call,                            \* callers that may convert at the same time
  Preflight,                       \* the conversion at the start, one of them
  MaxConcurrent,                   \* slots of the semaphore
  MaxOutputBytes, MaxStderrBytes,  \* the caps of the buffers
  PipeSize                         \* what fits into a pipe nobody reads
ASSUME ConverterAssumption ==
  /\ Preflight \in Call
  /\ MaxConcurrent \in Nat \ {0} /\ PipeSize \in Nat \ {0}
  /\ MaxOutputBytes \in Nat /\ MaxStderrBytes \in Nat
VARIABLES
  ready,    \* Preflight has succeeded, main listens
  waiting,  \* callers whose Normalize waits for the answer
  call,     \* [Call -> [at, stage, ctx, verdict]], the request in the service
  sem,      \* tokens in the channel of slots
  child,    \* [Call -> [state, exit]], the process of the current run
  wrote,    \* [Call -> [Stream -> what the child has written]]
  got,      \* [Call -> [Stream -> what the copier has read]]
  copier    \* [Call -> [Stream -> what the copying goroutine is doing]]
run == <<child, wrote, got, copier>>
vars == <<ready, waiting, call, sem, run>>

Stream == {"stdout", "stderr"}
Cap(s) == IF s = "stdout" THEN MaxOutputBytes ELSE MaxStderrBytes
Both(x) == [s \in Stream |-> x]
NoChild(e) == [state |-> "none", exit |-> e]
Verdicts == {"image", "invalid", "unavailable"}
Away == [at |-> "away", stage |-> "none", ctx |-> FALSE, verdict |-> "none"]


Init ==
  /\ ready = FALSE /\ sem = 0 /\ waiting = {}
  /\ call = [c \in Call |-> Away]
  /\ child = [c \in Call |-> NoChild("none")]
  /\ wrote = [c \in Call |-> Both(0)] /\ got = [c \in Call |-> Both(0)]
  /\ copier = [c \in Call |-> Both("eof")]

\* A run begins with process p, if it starts; nothing has been written yet.
NewRun(c, p, reading) ==
  /\ child' = [child EXCEPT ![c] = p]
  /\ wrote' = [wrote EXCEPT ![c] = Both(0)] /\ got' = [got EXCEPT ![c] = Both(0)]
  /\ copier' = [copier EXCEPT ![c] = Both(reading)]
At(c, s) == call[c].at = s
Goto(c, s) == call' = [call EXCEPT ![c].at = s]

-----------------------------------------------------------------------------
(* The client *)

\* Normalize posts an image; what it asked before has been answered by the service.
Send(c) ==
  /\ At(c, "away") /\ (c = Preflight <=> ~ready)
  /\ waiting' = waiting \cup {c}
  /\ Goto(c, "convert")
  /\ UNCHANGED <<ready, sem, run>>

\* The timeout of the client or of the preflight, or a lost connection
GiveUp(c) ==
  /\ c \in waiting
  /\ waiting' = waiting \ {c}
  /\ UNCHANGED <<ready, call, sem, run>>

\* The server learns that the client is gone and cancels the context.
Cancel(c) ==
  /\ c \notin waiting /\ ~At(c, "away") /\ ~call[c].ctx
  /\ call' = [call EXCEPT ![c].ctx = TRUE]
  /\ UNCHANGED <<ready, waiting, sem, run>>

\* The status of the response is the category of the error, and back again.
Deliver(c) ==
  /\ At(c, "answer")
  /\ waiting' = waiting \ {c}
  /\ ready' = (ready \/ (c = Preflight /\ call[c].verdict = "image"))
  /\ call' = [call EXCEPT ![c] = Away]
  /\ UNCHANGED <<sem, run>>

-----------------------------------------------------------------------------
(* Convert *)

\* The size or the magic bytes are wrong; main's own image is in order.
Refuse(c) ==
  /\ At(c, "convert") /\ c # Preflight
  /\ call' = [call EXCEPT ![c].at = "answer", ![c].verdict = "invalid"]
  /\ UNCHANGED <<ready, waiting, sem, run>>
Busy(c) ==
  /\ At(c, "convert") /\ sem = MaxConcurrent
  /\ call' = [call EXCEPT ![c].at = "answer", ![c].verdict = "unavailable"]
  /\ UNCHANGED <<ready, waiting, sem, run>>
Enter(c) ==
  /\ At(c, "convert") /\ sem < MaxConcurrent
  /\ sem' = sem + 1
  /\ call' = [call EXCEPT ![c].at = "start", ![c].stage = "identify"]
  /\ UNCHANGED <<ready, waiting, run>>

\* A plausible bug: the error of a copying goroutine is not looked at.
ErredAtExit(c) == child[c].exit \in {"failed", "killed", "unborn"}
\* What Run returns is an error.
Erred(c) == \/ child[c].exit \in {"failed", "killed", "unborn"}
            \/ \E s \in Stream : copier[c][s] = "cut"
Overflowed(c) == \E s \in Stream : got[c][s] > Cap(s)

\* A plausible bug: identify does not ask whether the context was cancelled.
BlamesTheImage(c) ==
  IF Overflowed(c) THEN "unavailable"
  ELSE IF child[c].exit = "ok" /\ ~Erred(c) THEN "image"
  ELSE IF call[c].stage = "identify" THEN "invalid" ELSE "unavailable"
\* What a finished run comes to; an identify that comes to "image" is followed by convert.
Verdict(c) ==
  IF Overflowed(c) \/ (Erred(c) /\ call[c].ctx) THEN "unavailable"
  ELSE IF child[c].exit = "ok" /\ ~Erred(c) THEN "image"
  ELSE IF call[c].stage = "identify" THEN "invalid" ELSE "unavailable"

Collected(c) == At(c, "collect") /\ \A s \in Stream : copier[c][s] \in {"eof", "cut", "over"}
Identified(c) ==
  /\ Collected(c) /\ call[c].stage = "identify" /\ Verdict(c) = "image"
  /\ call' = [call EXCEPT ![c].at = "start", ![c].stage = "convert"]
  /\ UNCHANGED <<ready, waiting, sem, run>>
\* What the runs leave is garbage once the call is answered, but a process is not.
Answer(c) ==
  /\ Collected(c) /\ (call[c].stage = "convert" \/ Verdict(c) # "image")
  /\ call' = [call EXCEPT ![c].at = "answer", ![c].verdict = Verdict(c)]
  /\ sem' = sem - 1
  /\ NewRun(c, IF child[c].state = "running" THEN child[c] ELSE NoChild("none"), "eof")
  /\ UNCHANGED <<ready, waiting>>

-----------------------------------------------------------------------------
(* ExecRunner.Run *)

Start(c) ==
  /\ At(c, "start") /\ ~call[c].ctx
  /\ NewRun(c, [state |-> "running", exit |-> "none"], "reading")
  /\ Goto(c, "running")
  /\ UNCHANGED <<ready, waiting, sem>>
\* Start fails by itself, or because the context is cancelled already.
StartFails(c) ==
  /\ At(c, "start")
  /\ NewRun(c, NoChild("unborn"), "eof")
  /\ Goto(c, "collect")
  /\ UNCHANGED <<ready, waiting, sem>>

\* The child writes while there is room in the pipe, and exits when it likes, with an
\* error or with output that passes the checks of its stage or does not.
ChildWrites(c, s) ==
  /\ child[c].state = "running" /\ wrote[c][s] - got[c][s] < PipeSize
  /\ wrote' = [wrote EXCEPT ![c][s] = @ + 1]
  /\ UNCHANGED <<ready, waiting, call, sem, child, got, copier>>
ChildExits(c) ==
  /\ child[c].state = "running"
  /\ \E e \in {"ok", "odd", "failed"} :
       child' = [child EXCEPT ![c] = [state |-> "exited", exit |-> e]]
  /\ UNCHANGED <<ready, waiting, call, sem, wrote, got, copier>>

\* A plausible bug: the write is compared with what the buffer held before it.
FullLate(c, s) == got[c][s] > Cap(s)
\* cappedBuffer.Write
Full(c, s) == got[c][s] + 1 > Cap(s)
\* A plausible bug: the stream ends at the cap, as with an io.LimitedReader.
CopierReadsLimited(c, s) ==
  /\ copier[c][s] = "reading" /\ ~At(c, "collect") /\ got[c][s] < wrote[c][s]
  /\ got' = [got EXCEPT ![c][s] = IF Full(c, s) THEN @ ELSE @ + 1]
  /\ copier' = [copier EXCEPT ![c][s] = IF Full(c, s) THEN "eof" ELSE "reading"]
  /\ UNCHANGED <<ready, waiting, call, sem, child, wrote>>
CopierReads(c, s) ==
  /\ copier[c][s] = "reading" /\ ~At(c, "collect") /\ got[c][s] < wrote[c][s]
  /\ got' = [got EXCEPT ![c][s] = @ + 1]
  /\ copier' = [copier EXCEPT ![c][s] = IF Full(c, s) THEN "full" ELSE "reading"]
  /\ UNCHANGED <<ready, waiting, call, sem, child, wrote>>
CopierEnds(c, s) ==
  /\ copier[c][s] = "reading" /\ ~At(c, "collect")
  /\ got[c][s] = wrote[c][s] /\ child[c].state = "exited"
  /\ copier' = [copier EXCEPT ![c][s] = "eof"]
  /\ UNCHANGED <<ready, waiting, call, sem, child, wrote, got>>
\* Wait has closed the pipe under the goroutine: what is left in it is lost.
CopierIsCut(c, s) ==
  /\ copier[c][s] = "reading" /\ At(c, "collect")
  /\ copier' = [copier EXCEPT ![c][s] = "cut"]
  /\ UNCHANGED <<ready, waiting, call, sem, child, wrote, got>>
\* A plausible bug: the goroutine ends without killing the child.
Spared(p) == p
Killed(p) == IF p.state = "running" THEN [state |-> "exited", exit |-> "killed"] ELSE p
CopierKills(c, s) ==
  /\ copier[c][s] = "full"
  /\ copier' = [copier EXCEPT ![c][s] = "over"]
  /\ child' = [child EXCEPT ![c] = Killed(@)]
  /\ UNCHANGED <<ready, waiting, call, sem, wrote, got>>

\* CommandContext kills the child of a cancelled context; when that succeeds Wait returns
\* the error of the context, even if the child was only waiting to be reaped.
ContextKills(c) ==
  /\ call[c].ctx /\ At(c, "running") /\ child[c].exit # "killed"
  /\ child' = [child EXCEPT ![c] = [state |-> "exited", exit |-> "killed"]]
  /\ UNCHANGED <<ready, waiting, call, sem, wrote, got, copier>>

\* A plausible bug: Run does not wait for the child of a cancelled request.
GoneOrCancelled(c) == child[c].state = "exited" \/ call[c].ctx
Gone(c) == child[c].state = "exited"
\* Wait reaps the child and closes the pipes.
Wait(c) ==
  /\ At(c, "running") /\ Gone(c)
  /\ Goto(c, "collect")
  /\ UNCHANGED <<ready, waiting, sem, run>>

-----------------------------------------------------------------------------
Service(c) == Refuse(c) \/ Busy(c) \/ Enter(c) \/ Start(c) \/ StartFails(c) \/ Wait(c)
              \/ Identified(c) \/ Answer(c) \/ Deliver(c)
Copier(c, s) == CopierReads(c, s) \/ CopierEnds(c, s) \/ CopierIsCut(c, s) \/ CopierKills(c, s)
Child(c) == ChildExits(c) \/ \E s \in Stream : ChildWrites(c, s)
Next == \E c \in Call :
  \/ Send(c) \/ GiveUp(c) \/ Cancel(c) \/ ContextKills(c)
  \/ Service(c) \/ Child(c) \/ \E s \in Stream : Copier(c, s)
Spec == Init /\ [][Next]_vars
\* Goroutines run and the server sees a closed connection; neither the child nor the
\* client has to do anything.
FairSpec == Spec /\ \A c \in Call :
  /\ WF_vars(Service(c)) /\ WF_vars(Cancel(c)) /\ WF_vars(ContextKills(c))
  /\ \A s \in Stream : WF_vars(Copier(c, s))

-----------------------------------------------------------------------------
(* Properties *)

\* Every variable has its type, and no stream holds more than its buffer and its pipe.
TypeOK ==
  /\ ready \in BOOLEAN /\ sem \in 0..MaxConcurrent
  /\ waiting \subseteq Call
  /\ call \in [Call ->
       [at: {"away", "convert", "start", "running", "collect", "answer"},
        stage: {"none", "identify", "convert"}, ctx: BOOLEAN, verdict: Verdicts \cup {"none"}]]
  /\ child \in [Call -> [state: {"none", "running", "exited"},
                         exit: {"none", "ok", "odd", "failed", "killed", "unborn"}]]
  /\ wrote \in [Call -> [Stream -> Nat]] /\ got \in [Call -> [Stream -> Nat]]
  /\ copier \in [Call -> [Stream -> {"reading", "full", "over", "eof", "cut"}]]
  /\ \A c \in Call, s \in Stream :
       got[c][s] <= Cap(s) + 1 /\ got[c][s] <= wrote[c][s] /\ wrote[c][s] <= got[c][s] + PipeSize

\* A call that was inside is answered.
Answered(c) == At(c, "collect") /\ call'[c].at = "answer"

\* An image that is handed out is all the child wrote, within the limit, and the child
\* ended well: neither the kill, nor the cap, nor Wait closing the pipes under the copying
\* goroutines ever yields the beginning of an image (converter.go:132-144, 235-243).
ImagesAreWhole == [][\A c \in Call :
  (Answered(c) /\ call'[c].verdict = "image") =>
    /\ child[c].exit = "ok" /\ call[c].stage = "convert"
    /\ \A s \in Stream : got[c][s] = wrote[c][s] /\ wrote[c][s] <= Cap(s)]_vars

\* A child that wrote more than a cap, read or not, is told from one that found the image
\* bad, however it ended, unless Wait closed the pipe before the excess was read: the
\* goroutine may not take what is buffered for the whole stream (converter.go:92-93).
ExcessIsTold == [][\A c \in Call :
  (Answered(c) /\ \E s \in Stream : wrote[c][s] > Cap(s) /\ copier[c][s] # "cut")
    => call'[c].verdict = "unavailable"]_vars

\* Nothing is refused without a cause: an image that got a slot is called invalid only when
\* identify ended by itself with an error or odd output, could not be started, or had its
\* output cut short by Wait; the converter is called unavailable only when the request was
\* cancelled, a limit passed, the output cut short or the child failed (converter.go:205-291).
RefusalsHaveACause == [][\A c \in Call : Answered(c) => LET
    cut == \E s \in Stream : copier[c][s] = "cut"
    exit == child[c].exit IN
  /\ call'[c].verdict = "invalid" =>
       call[c].stage = "identify" /\ (cut \/ exit \in {"odd", "failed", "unborn"})
  /\ call'[c].verdict = "unavailable" =>
       call[c].ctx \/ cut \/ exit # "ok" \/ \E s \in Stream : wrote[c][s] > Cap(s)]_vars

\* There are never more ImageMagick processes than slots, also when clients give up and
\* send again, and the slots taken are those of the calls inside (converter.go:213-218).
Inside == {c \in Call : call[c].at \in {"start", "running", "collect"}}
SlotsGuardChildren ==
  /\ sem = Cardinality(Inside)
  /\ Cardinality({c \in Call : child[c].state = "running"}) <= MaxConcurrent

\* A run ends once its request is cancelled, one of its streams is over its cap, or its
\* child is gone: a child stuck on a pipe nobody reads any more is killed
\* (converter.go:116-133).
RunsEnd == \A c \in Call :
  (c \in Inside /\ (call[c].ctx \/ Overflowed(c) \/ child[c].state = "exited"))
    ~> ~At(c, "running")
=============================================================================

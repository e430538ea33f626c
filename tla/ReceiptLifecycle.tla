--------------------------- MODULE ReceiptLifecycle ---------------------------
(***************************************************************************)
(* What receipt storage promises, one stored object at a time.  A bill     *)
(* shows at most one receipt.  The object behind it was staged first, is   *)
(* never touched while it is shown, and once it has been superseded it is  *)
(* condemned durably and can only be erased.  An object that was staged    *)
(* but never shown is discarded, condemned or, when the process that holds *)
(* it dies or both clean-up calls fail, lost.                              *)
(*                                                                         *)
(* ReceiptStore implements this module; see the mapping there.             *)
(***************************************************************************)
CONSTANTS
  Bill,      \* bill identifiers
  Path,      \* names of stored objects, each used for one object only
  NoPath     \* a bill without a receipt

VARIABLES
  current,   \* current[b] is the object bill b shows, or NoPath
  stage      \* how far object p is in its life: absent, staged, live,
             \* condemned, gone or lost

lifecycleVars == <<current, stage>>

Init ==
  /\ current = [b \in Bill |-> NoPath]
  /\ stage = [p \in Path |-> "absent"]

Turn(p, from, to) ==
  /\ stage[p] = from
  /\ stage' = [stage EXCEPT ![p] = to]
  /\ UNCHANGED current

(* Bill b shows p from now on; what it showed before is condemned in the same step. *)
Publish(b, p) ==
  /\ stage[p] = "staged"
  /\ current' = [current EXCEPT ![b] = p]
  /\ stage' = [q \in Path |-> IF q = p THEN "live"
                              ELSE IF q = current[b] THEN "condemned"
                              ELSE stage[q]]

(* The bills of B disappear and what they showed is condemned in the same step. *)
Retire(B) ==
  /\ current' = [b \in Bill |-> IF b \in B THEN NoPath ELSE current[b]]
  /\ stage' = [q \in Path |-> IF \E b \in B : current[b] = q THEN "condemned"
                              ELSE stage[q]]

Step ==
  \/ \E p \in Path :
       \/ Turn(p, "absent", "staged")
       \/ Turn(p, "absent", "lost")
       \/ Turn(p, "staged", "condemned")
       \/ Turn(p, "staged", "gone")
       \/ Turn(p, "staged", "lost")
       \/ Turn(p, "condemned", "gone")
  \/ \E b \in Bill, p \in Path : Publish(b, p)
  \/ \E B \in SUBSET Bill : Retire(B)

(* A step changes something; TLC looks at that before it tries the actions. *)
Next == lifecycleVars' # lifecycleVars /\ Step

Spec == Init /\ [][Next]_lifecycleVars

=============================================================================

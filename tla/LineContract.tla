---------------------------- MODULE LineContract ----------------------------
(***************************************************************************)
(* What the driver of the TP line promises the stack about the frames it   *)
(* hands over: the line gets them one at a time, in order and at most      *)
(* once; a refused frame never goes on the line; and a frame is confirmed  *)
(* once, positively only if the line acknowledged it.  A chip that         *)
(* restarts by itself can add a second confirmation, to a negative one.    *)
(***************************************************************************)
EXTENDS Sequences

CONSTANTS Frame, NoFrame

VARIABLES
  taken,      \* frames the stack handed over
  waiting,    \* frames accepted and not yet given to the line, in order
  atLine,     \* the frame the line has
  acked,      \* frames the line acknowledged
  confs,      \* the confirmations of each frame
  lost,       \* frames whose confirmation was lost
  disturbed   \* the chip lost its supply and restarted by itself

vars == <<taken, waiting, atLine, acked, confs, lost, disturbed>>

NotWaiting == {f \in taken : \A i \in DOMAIN waiting : waiting[i] # f}

Init ==
  /\ taken = {} /\ waiting = <<>> /\ atLine = NoFrame
  /\ acked = {} /\ confs = [f \in Frame |-> <<>>] /\ lost = {}
  /\ disturbed = FALSE

Accept(f) ==
  /\ f \notin taken
  /\ taken' = taken \union {f}
  /\ waiting' = Append(waiting, f)
  /\ UNCHANGED <<atLine, acked, confs, lost, disturbed>>

Refuse(f) ==
  /\ f \notin taken
  /\ taken' = taken \union {f}
  /\ confs' = [confs EXCEPT ![f] = <<FALSE>>]
  /\ UNCHANGED <<waiting, atLine, acked, lost, disturbed>>

Give ==
  /\ waiting # <<>> /\ atLine = NoFrame
  /\ atLine' = Head(waiting)
  /\ waiting' = Tail(waiting)
  /\ UNCHANGED <<taken, acked, confs, lost, disturbed>>

(* The line is done with its frame.                                        *)
Carry(ok) ==
  /\ atLine # NoFrame
  /\ atLine' = NoFrame
  /\ acked' = IF ok THEN acked \union {atLine} ELSE acked
  /\ UNCHANGED <<taken, waiting, confs, lost, disturbed>>

(* The chip restarts, asked to or by itself, and forgets its frame.        *)
Forget ==
  /\ atLine' = NoFrame
  /\ disturbed' \in {disturbed, TRUE}
  /\ UNCHANGED <<taken, waiting, acked, confs, lost>>

(* The first frame or all are given up; the confirmations of frames that   *)
(* do not wait are lost.                                                   *)
GiveUp ==
  /\ \/ UNCHANGED waiting
     \/ waiting # <<>> /\ waiting' = Tail(waiting)
     \/ waiting' = <<>>
  /\ \E gone \in SUBSET NotWaiting' : lost' = lost \union gone
  /\ UNCHANGED <<taken, atLine, acked, confs, disturbed>>

Confirm(f, ok) ==
  /\ f \in NotWaiting
  /\ ok => f \in acked
  /\ confs[f] = <<>> \/ (disturbed /\ confs[f] = <<FALSE>>)
  /\ confs' = [confs EXCEPT ![f] = Append(@, ok)]
  /\ UNCHANGED <<taken, waiting, atLine, acked, lost, disturbed>>

Next ==
  \/ \E f \in Frame : Accept(f) \/ Refuse(f)
  \/ Give \/ Forget \/ GiveUp
  \/ \E ok \in BOOLEAN : Carry(ok)
  \/ \E f \in Frame, ok \in BOOLEAN : Confirm(f, ok)

Spec == Init /\ [][Next]_vars

=============================================================================

--------------------------- MODULE TunnelContract ---------------------------
(***************************************************************************)
(* What the tunnel server promises a client about the frames it offers to  *)
(* a channel: they arrive in order and at most once.  While the channel is *)
(* open only group telegrams are given up, and a frame that does not get   *)
(* in is lost at once; when it closes, the undelivered frames are gone but *)
(* for those already on their way.                                         *)
(***************************************************************************)
EXTENDS Integers, Sequences

CONSTANTS Conns, Lengths, MaxOffered

VARIABLES
  open,       \* the channel is open
  pending,    \* frames offered, neither given up nor delivered
  delivered   \* frames delivered, in order

vars == <<open, pending, delivered>>

Frame == [n : 1 .. MaxOffered, len : Lengths, drop : BOOLEAN]

(* f comes after every frame of c so far.                                  *)
Newest(c, f) ==
  /\ \A g \in pending[c] : g.n < f.n
  /\ \A i \in DOMAIN delivered[c] : delivered[c][i].n < f.n

Init ==
  /\ open = [c \in Conns |-> FALSE]
  /\ pending = [c \in Conns |-> {}]
  /\ delivered = [c \in Conns |-> <<>>]

Open(c) ==
  /\ ~open[c]
  /\ open' = [open EXCEPT ![c] = TRUE]
  /\ pending' = [pending EXCEPT ![c] = {}]
  /\ delivered' = [delivered EXCEPT ![c] = <<>>]

(* A new frame gets in, or is lost; old group telegrams may be given up.   *)
Offer(c) ==
  /\ open[c]
  /\ \E gone \in SUBSET {f \in pending[c] : f.drop} :
       \/ pending' = [pending EXCEPT ![c] = @ \ gone]
       \/ \E f \in Frame :
            /\ Newest(c, f)
            /\ pending' = [pending EXCEPT ![c] = (@ \ gone) \union {f}]
  /\ UNCHANGED <<open, delivered>>

Deliver(c) ==
  \E f \in pending[c] :
    /\ \A g \in pending[c] : f.n <= g.n
    /\ delivered' = [delivered EXCEPT ![c] = Append(@, f)]
    /\ pending' = [pending EXCEPT ![c] = @ \ {f}]
    /\ UNCHANGED open

Close(c) ==
  /\ open[c]
  /\ open' = [open EXCEPT ![c] = FALSE]
  /\ \E left \in SUBSET pending[c] : pending' = [pending EXCEPT ![c] = left]
  /\ UNCHANGED delivered

(* What was on its way when the channel closed is lost as well.            *)
Expire(c) ==
  /\ ~open[c]
  /\ \E left \in SUBSET pending[c] : pending' = [pending EXCEPT ![c] = left]
  /\ UNCHANGED <<open, delivered>>

Next ==
  \E c \in Conns : Open(c) \/ Offer(c) \/ Deliver(c) \/ Close(c) \/ Expire(c)

Spec == Init /\ [][Next]_vars

=============================================================================

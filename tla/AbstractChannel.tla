-------------------------- MODULE AbstractChannel ---------------------------
(***************************************************************************)
(* What one direction of a connection promises its two Handlers: the items *)
(* one produces reach the other's consume complete, in order and each with *)
(* its own handle, until the connection closes; then none is delivered     *)
(* out of turn, and the rest are lost.                                     *)
(***************************************************************************)
EXTENDS Integers, Sequences

CONSTANT Item     \* what can be sent: a message and the handle it carries

VARIABLES
  sent,           \* items taken from the sending Handler, in order
  delivered,      \* items given to the receiving Handler, in order
  open            \* the receiving end is there

vars == <<sent, delivered, open>>

Init ==
  /\ sent = <<>>
  /\ delivered = <<>>
  /\ open = TRUE

Send ==
  /\ \E item \in Item : sent' = Append(sent, item)
  /\ UNCHANGED <<delivered, open>>

Deliver ==
  /\ open
  /\ Len(delivered) < Len(sent)
  /\ delivered' = Append(delivered, sent[Len(delivered) + 1])
  /\ UNCHANGED <<sent, open>>

Close ==
  /\ open
  /\ open' = FALSE
  /\ UNCHANGED <<sent, delivered>>

Next == Send \/ Deliver \/ Close

Spec == Init /\ [][Next]_vars

=============================================================================

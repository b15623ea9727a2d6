------------------------------- MODULE Mailbox -------------------------------
(***************************************************************************)
(* What an agent's durable queue and the engine that reads it promise the  *)
(* agents that write to it, with no channel, process or crash in sight: a  *)
(* message waits, is held by a consumer, or is gone; it is gone only       *)
(* because a consumer said so of this very message, and then for good; a   *)
(* message held and not settled waits again (engine.go:122-125, bus.go,    *)
(* the comments on Delivery and on ack, nack and requeue).                 *)
(***************************************************************************)
CONSTANT Messages

VARIABLES
  place,  \* place[m]: where m is
  said    \* said[m]: the verdicts consumers have given on m

mailboxVars == <<place, said>>

Places == {"absent", "waiting", "held", "acked", "dropped"}

MailboxInit ==
  /\ place = [m \in Messages |-> "absent"]
  /\ said = [m \in Messages |-> {}]

Arrives(m) ==
  /\ place[m] = "absent"
  /\ place' = [place EXCEPT ![m] = "waiting"]
  /\ UNCHANGED said

Handed(m) ==
  /\ place[m] = "waiting"
  /\ place' = [place EXCEPT ![m] = "held"]
  /\ UNCHANGED said

(* The verdict may be about a delivery the broker has taken back already.  *)
Judged(m, v) ==
  /\ place[m] \in {"waiting", "held"}
  /\ said' = [said EXCEPT ![m] = @ \cup {v}]
  /\ UNCHANGED place

Leaves(m) ==
  /\ place[m] = "held"
  /\ \/ "ack" \in said[m] /\ place' = [place EXCEPT ![m] = "acked"]
     \/ "nack" \in said[m] /\ place' = [place EXCEPT ![m] = "dropped"]
  /\ UNCHANGED said

(* One message is requeued, or all that a channel held come back at once.  *)
ComeBack(S) ==
  /\ S # {} /\ \A m \in S : place[m] = "held"
  /\ place' = [m \in Messages |-> IF m \in S THEN "waiting" ELSE place[m]]
  /\ UNCHANGED said

MailboxNext ==
  \/ \E m \in Messages :
       \/ Arrives(m)
       \/ Handed(m)
       \/ \E v \in {"ack", "nack", "requeue"} : Judged(m, v)
       \/ Leaves(m)
  \/ \E S \in SUBSET Messages : ComeBack(S)

MailboxSpec == MailboxInit /\ [][MailboxNext]_mailboxVars
=============================================================================

---------------------------- MODULE WebhookQueue ----------------------------
(***************************************************************************)
(* What the outbound queue promises a consumer (docs/outbound-events.md    *)
(* and ADR-0007, as the dispatcher's code keeps it): per Destination, the  *)
(* messages committed for it form a FIFO queue.  The oldest waiting        *)
(* message is handed over until its acceptance is recorded, so a consumer  *)
(* may see it again, but never sees a later one first, except when staff   *)
(* put an old message back.  A queue disappears only with its Destination. *)
(***************************************************************************)
EXTENDS Naturals

CONSTANTS Dest, MaxSeq

VARIABLES
    open,      \* Destinations that still exist
    last,      \* messages committed for each Destination so far
    sound,     \* those with a payload that can be sent
    wait,      \* those waiting
    accepted,  \* those the consumer has taken at least once
    again      \* those staff put back

vars == <<open, last, sound, wait, accepted, again>>

Seqs == 1..MaxSeq

\* At the start a Destination may have a backlog from before.
Init ==
    /\ open = Dest
    /\ last \in [Dest -> 0..MaxSeq]
    /\ sound \in [Dest -> SUBSET Seqs]
    /\ wait \in [Dest -> SUBSET Seqs] /\ \A d \in Dest : wait[d] \subseteq 1..last[d]
    /\ accepted = [d \in Dest |-> {}]
    /\ again = [d \in Dest |-> {}]

\* A change commits one message for every Destination of D, in commit order.  An
\* unsound one never waits.
Commit(D, isSound) ==
    /\ D \subseteq open /\ \A d \in D : last[d] < MaxSeq
    /\ last' = [d \in Dest |-> IF d \in D THEN last[d] + 1 ELSE last[d]]
    /\ sound' = [d \in Dest |-> IF d \notin D THEN sound[d]
                                ELSE IF isSound THEN sound[d] \cup {last[d] + 1}
                                ELSE sound[d] \ {last[d] + 1}]
    /\ wait' = [d \in Dest |-> IF d \in D /\ isSound THEN wait[d] \cup {last[d] + 1}
                               ELSE wait[d]]
    /\ UNCHANGED <<open, accepted, again>>

\* The consumer takes m: nothing older waits, unless staff put it back meanwhile.
\* A Destination deleted during the attempt may still get its last message.
Accept(d, m) ==
    /\ m \in sound[d]
    /\ d \in open => m \in wait[d]
    /\ \A older \in wait[d] : older < m => older \in again[d]
    /\ accepted' = [accepted EXCEPT ![d] = @ \cup {m}]
    /\ UNCHANGED <<open, last, sound, wait, again>>

\* A message stops waiting because it was accepted, or because it cannot be sent.
Settle(d, m) ==
    /\ m \in wait[d]
    /\ m \in accepted[d] \/ m \notin sound[d]
    /\ wait' = [wait EXCEPT ![d] = @ \ {m}]
    /\ UNCHANGED <<open, last, sound, accepted, again>>

PutBack(d, S) ==
    /\ S \subseteq 1..last[d]
    /\ wait' = [wait EXCEPT ![d] = @ \cup S]
    /\ again' = [again EXCEPT ![d] = @ \cup S]
    /\ UNCHANGED <<open, last, sound, accepted>>

Close(d) ==
    /\ open' = open \ {d}
    /\ wait' = [wait EXCEPT ![d] = {}]
    /\ UNCHANGED <<last, sound, accepted, again>>

Next ==
    \/ \E D \in SUBSET Dest, isSound \in BOOLEAN : Commit(D, isSound)
    \/ \E d \in Dest :
          \/ \E m \in Seqs : Accept(d, m) \/ Settle(d, m)
          \/ \E S \in SUBSET Seqs : PutBack(d, S)
          \/ Close(d)

Spec == Init /\ [][Next]_vars
=============================================================================

------------------------------ MODULE Channel ------------------------------
(***************************************************************************)
(* What the packets between the server and a client amount to: messages    *)
(* that arrive whole, once, and in order, as long as the channel is open.  *)
(* It may close, and then the rest is lost; or it may be cut: a message is *)
(* sent in part or garbled, and then nothing is promised of what arrives   *)
(* after the messages before it.  A message may be lost when it is sent.   *)
(***************************************************************************)
EXTENDS Naturals, Sequences, SequencesExt

VARIABLES
    queue,      \* messages on their way
    got,        \* messages received
    state       \* "open", "closed" or "cut"

vars == <<queue, got, state>>

Init == queue = <<>> /\ got = <<>> /\ state = "open"

Send ==
    /\ state = "open"
    /\ Len(queue') = Len(queue) + 1 /\ IsPrefix(queue, queue')
    /\ UNCHANGED <<got, state>>

Deliver ==
    /\ state # "closed" /\ queue # <<>>
    /\ got' = Append(got, Head(queue))
    /\ queue' = Tail(queue)
    /\ UNCHANGED state

Close ==
    /\ state = "open" /\ state' = "closed"
    /\ queue' = <<>>
    /\ UNCHANGED got

Cut ==
    /\ state = "open" /\ state' = "cut"
    /\ UNCHANGED <<queue, got>>

Garble ==
    /\ state = "cut" /\ queue = <<>>
    /\ IsPrefix(got, got')
    /\ UNCHANGED <<queue, state>>

Next == Send \/ Deliver \/ Close \/ Cut \/ Garble

Spec == Init /\ [][Next]_vars

=============================================================================

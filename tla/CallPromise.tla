---------------------------- MODULE CallPromise ----------------------------
(***************************************************************************)
(* What a service promises the client of each call: the messages of the    *)
(* one right answer, in order and once each, and success only after the    *)
(* last of them.  A call may fail at any time; it ends once.               *)
(***************************************************************************)
EXTENDS Sequences, Naturals

VARIABLES promised,  \* the right answer to each call
          got,       \* the messages its client has received
          status     \* what the client knows: open, ok, failed

Init == /\ got = [c \in DOMAIN promised |-> <<>>]
        /\ status = [c \in DOMAIN promised |-> "open"]

Give(c) == /\ status[c] = "open" /\ Len(got[c]) < Len(promised[c])
           /\ got' = [got EXCEPT ![c] = Append(@, promised[c][Len(@) + 1])]
           /\ UNCHANGED <<promised, status>>

Finish(c) == /\ status[c] = "open" /\ got[c] = promised[c]
             /\ status' = [status EXCEPT ![c] = "ok"]
             /\ UNCHANGED <<promised, got>>

Fail(c) == /\ status[c] = "open"
           /\ status' = [status EXCEPT ![c] = "failed"]
           /\ UNCHANGED <<promised, got>>

Next == \E c \in DOMAIN promised : Give(c) \/ Finish(c) \/ Fail(c)

Spec == Init /\ [][Next]_<<promised, got, status>>
=============================================================================

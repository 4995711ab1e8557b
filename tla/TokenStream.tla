---------------------------- MODULE TokenStream ----------------------------
(***************************************************************************)
(* What a replicated inference session promises at least, whatever else    *)
(* uses the node's transport: tokens reach the caller in the order the     *)
(* peer made them, none twice, none of another session, none after the end.*)
(* It does not promise that every token arrives.                           *)
(***************************************************************************)
EXTENDS Naturals

CONSTANT Streams

VARIABLES
  sent,  \* stream |-> tokens its peer has made so far, numbered from 1
  last,  \* stream |-> number of the last token handed to the caller, or 0
  over   \* stream |-> its channel is closed

vars == <<sent, last, over>>

Init == /\ sent = [s \in Streams |-> 0]
        /\ last = [s \in Streams |-> 0]
        /\ over = [s \in Streams |-> FALSE]

Make(s) ==
  /\ sent' = [sent EXCEPT ![s] = @ + 1]
  /\ UNCHANGED <<last, over>>

Deliver(s) ==
  /\ ~over[s]
  /\ \E n \in last[s] + 1 .. sent[s] : last' = [last EXCEPT ![s] = n]
  /\ UNCHANGED <<sent, over>>

Close(s) ==
  /\ ~over[s]
  /\ over' = [over EXCEPT ![s] = TRUE]
  /\ UNCHANGED <<sent, last>>

Next == \E s \in Streams : Make(s) \/ Deliver(s) \/ Close(s)

Spec == Init /\ [][Next]_vars
=============================================================================

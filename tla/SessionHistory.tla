--------------------------- MODULE SessionHistory ---------------------------
(***************************************************************************)
(* What the session store promises of one session (SessionStorage in        *)
(* packages/session/src/service.ts, ADR 0008): there is one history, it     *)
(* only grows until it is deleted, and nobody is told of an event that is   *)
(* not in it.                                                               *)
(***************************************************************************)
EXTENDS Integers, Sequences

CONSTANT Events

VARIABLES history,  \* what a reader of the session finds
          told      \* what a client has been told, in order

Init == history = <<>> /\ told = <<>>

\* An event commits or none does, and the client may hear more of the history.
Advance ==
    /\ \/ UNCHANGED history
       \/ \E e \in Events : history' = Append(history, e)
    /\ \E n \in Len(told)..Len(history') : told' = SubSeq(history', 1, n)

\* The session is deleted for good.
Forget == history' = <<>> /\ told' = <<>>

Next == Advance \/ Forget

Spec == Init /\ [][Next]_<<history, told>>
=============================================================================

------------------------------- MODULE ErpReads -------------------------------
(***************************************************************************)
(* What ApiClient promises for the read-only endpoints: every reply to a   *)
(* caller is what the ERP answers to that very request, or answered to it  *)
(* less than the time-to-live ago, or an error.                            *)
(***************************************************************************)
EXTENDS Integers

CONSTANTS
  Requests,  \* an endpoint with its path and query parameters
  Values,    \* what the ERP may answer
  Error,     \* an error result
  Ttl        \* time-to-live of a remembered answer

VARIABLES
  clock,     \* the monotonic clock
  told,      \* the ERP's answers so far, with the time each arrived
  reply      \* the last reply given, none at first

reads == <<clock, told, reply>>

Init == clock = 0 /\ told = {} /\ reply = {}

(* The ERP is asked: its answer is the reply.                              *)
AskErp(r) ==
  \/ \E v \in Values : /\ told' = told \cup {[request |-> r, value |-> v, at |-> clock]}
                       /\ reply' = {[request |-> r, value |-> v]}
  \/ told' = told /\ reply' = {[request |-> r, value |-> Error]}

(* A recent answer is given again.                                         *)
Remember(r) ==
  /\ \E a \in told : /\ a.request = r
                     /\ clock < a.at + Ttl
                     /\ reply' = {[request |-> r, value |-> a.value]}
  /\ told' = told

Next ==
  \/ \E r \in Requests : (AskErp(r) \/ Remember(r)) /\ clock' = clock
  \/ clock' = clock + 1 /\ UNCHANGED <<told, reply>>

ReadsSpec == Init /\ [][Next]_reads
=============================================================================

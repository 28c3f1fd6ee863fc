----------------------------- MODULE Conversation -----------------------------
(***************************************************************************)
(* What the agent promises about a conversation, whatever its pipeline     *)
(* does: one question is open at a time; the durable history of a thread   *)
(* is the sequence of its exchanges, each the question and then its answer,*)
(* appended in the order asked and never rewritten; an answered question   *)
(* has its whole exchange in there, a reported one at most the question,   *)
(* and one lost in a crash whatever part of it had been saved.             *)
(***************************************************************************)
EXTENDS Naturals, Sequences

CONSTANTS
  Threads,     \* conversation threads
  Default,     \* the thread a question not yet asked is listed under
  MaxTurns     \* bound: number of questions

VARIABLES
  history,     \* the durable messages of each thread
  log          \* the thread and the fate of each question

Said(role, n) == [role |-> role, turn |-> n]
Exchange(n)   == <<Said("user", n), Said("assistant", n)>>

Init ==
  /\ history = [t \in Threads |-> <<>>]
  /\ log = [n \in 1..MaxTurns |-> [thread |-> Default, fate |-> "unasked"]]

IsOpen(n) == log[n].fate = "running"
Settle(n, fate) == log' = [log EXCEPT ![n].fate = fate]

(* How much of the exchange of n is durable.                               *)
IsDurable(m, n) == \E i \in DOMAIN history[log[n].thread] : history[log[n].thread][i] = m
Recorded(n) ==
  IF IsDurable(Exchange(n)[2], n) THEN 2 ELSE IF IsDurable(Exchange(n)[1], n) THEN 1 ELSE 0

(* The first k messages of the exchange of n are durable from now on.      *)
Record(n, k) ==
  history' = [history EXCEPT ![log[n].thread] =
                @ \o SubSeq(Exchange(n), Recorded(n) + 1, k)]

Ask(n, t) ==
  /\ \A m \in 1..(n - 1) : log[m].fate \notin {"unasked", "running"}
  /\ log[n].fate = "unasked"
  /\ log' = [log EXCEPT ![n] = [thread |-> t, fate |-> "running"]]
  /\ UNCHANGED history

Save(n) ==
  /\ IsOpen(n)
  /\ \E k \in (Recorded(n) + 1)..2 : Record(n, k)
  /\ UNCHANGED log

Answer(n) == IsOpen(n) /\ Record(n, 2) /\ Settle(n, "answered")

Report(n) ==
  /\ IsOpen(n)
  /\ \E k \in Recorded(n)..1 : Record(n, k)
  /\ Settle(n, "reported")

Lose(n) == IsOpen(n) /\ Settle(n, "lost") /\ UNCHANGED history

Next == \E n \in 1..MaxTurns :
          \/ \E t \in Threads : Ask(n, t)
          \/ Save(n) \/ Answer(n) \/ Report(n) \/ Lose(n)

Spec == Init /\ [][Next]_<<history, log>>
=============================================================================

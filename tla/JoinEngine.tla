----------------------------- MODULE JoinEngine -----------------------------
(***************************************************************************)
(* One join step: the nested loop over the rows of two earlier steps, the  *)
(* projection of its pairs, and the entry the join node makes of them.     *)
(*                                                                         *)
(* A row is what the join reads of it, the value of its key.  A value is   *)
(* what keys_match tells apart: its class under Python's ==, the number it *)
(* can be read as (at most one, and none for a bool), and its text,        *)
(* stripped and in lower case.                                             *)
(***************************************************************************)
EXTENDS Integers, SequencesExt, FiniteSets, Orders

CONSTANTS
  Values,    \* key values of rows
  None,      \* the value of a row without the key
  Booleans,  \* the values that are bools
  MaxLeft,   \* bound: rows of the left step
  MaxRight   \* bound: rows of the right step

ASSUME JoinAssumption ==
  /\ None \in Values /\ Booleans \subseteq Values \ {None}
  /\ Values \subseteq [eq : STRING, num : SUBSET Int, text : STRING]
  /\ MaxLeft \in Nat /\ MaxRight \in Nat

(* Keys of ERP rows are scalars: equal ones that are no bools are the same *)
(* number or the same string, and what a text can be read as is a matter   *)
(* of the text.                                                            *)
ASSUME ScalarAssumption ==
  \A v, w \in Values \ (Booleans \cup {None}) :
    /\ v.eq = w.eq => v.num = w.num /\ (v.num = {} => v.text = w.text)
    /\ v.text = w.text => v.num = w.num

VARIABLES
  left, right,  \* the key values of the rows of the two steps
  how, emit,    \* the join's specification
  pc,           \* where the node is
  row, col,     \* the rows the loops are at
  matched,      \* the local of that name
  pairs,        \* the JoinedRows; 0 stands for right = None
  entry         \* the result entry: its status, and the pairs its rows came from

join == <<left, right, how, emit, pc, row, col, matched, pairs, entry>>

NoEntry == [status |-> "none", rows |-> <<>>]

Init ==
  /\ left \in BoundedSeq(Values, MaxLeft)
  /\ right \in BoundedSeq(Values, MaxRight)
  /\ how \in {"inner", "left"} /\ emit \in {"left", "right", "both"}
  /\ pc = "start"
  /\ row = 1 /\ col = 1 /\ matched = FALSE
  /\ pairs = <<>> /\ entry = NoEntry

-----------------------------------------------------------------------------
KeysMatch_NoneToo(l, r) ==
  l.eq = r.eq \/ IF l.num # {} /\ r.num # {} THEN l.num = r.num ELSE l.text = r.text
KeysMatch_TextOnly(l, r) ==
  l # None /\ r # None /\ (l.eq = r.eq \/ l.text = r.text)
KeysMatch(l, r) ==
  /\ l # None /\ r # None
  /\ \/ l.eq = r.eq
     \/ IF l.num # {} /\ r.num # {} THEN l.num = r.num ELSE l.text = r.text

(* A side without rows is an error, and the entry is empty.                *)
MissingRows ==
  /\ pc = "start"
  /\ left = <<>> \/ right = <<>>
  /\ entry' = [status |-> "empty", rows |-> <<>>]
  /\ pc' = "done"
  /\ UNCHANGED <<left, right, how, emit, row, col, matched, pairs>>

Start ==
  /\ pc = "start"
  /\ left # <<>> /\ right # <<>>
  /\ pc' = "loop"
  /\ UNCHANGED <<left, right, how, emit, row, col, matched, pairs, entry>>

(* The inner loop's body.                                                  *)
Compare ==
  /\ pc = "loop" /\ row <= Len(left) /\ col <= Len(right)
  /\ IF KeysMatch(left[row], right[col])
     THEN pairs' = Append(pairs, <<row, col>>) /\ matched' = TRUE
     ELSE UNCHANGED <<pairs, matched>>
  /\ col' = col + 1
  /\ UNCHANGED <<left, right, how, emit, pc, row, entry>>

(* The inner loop is over; the next left row starts unmatched.             *)
EndRow_KeepsMatched ==
  /\ pc = "loop" /\ row <= Len(left) /\ col > Len(right)
  /\ pairs' = IF how = "left" /\ ~matched THEN Append(pairs, <<row, 0>>) ELSE pairs
  /\ row' = row + 1 /\ col' = 1
  /\ UNCHANGED <<left, right, how, emit, pc, matched, entry>>
EndRow ==
  /\ pc = "loop" /\ row <= Len(left) /\ col > Len(right)
  /\ pairs' = IF how = "left" /\ ~matched THEN Append(pairs, <<row, 0>>) ELSE pairs
  /\ row' = row + 1 /\ col' = 1 /\ matched' = FALSE
  /\ UNCHANGED <<left, right, how, emit, pc, entry>>

(* _project keeps of a pair the side, or the merge, that is emitted; the   *)
(* right side of an unmatched left row is not a row.                       *)
Emits(pair) == emit # "right" \/ pair[2] # 0
Projected(list) == Kept(list, {k \in DOMAIN list : Emits(list[k])})

Project ==
  /\ pc = "loop" /\ row > Len(left)
  /\ entry' = [status |-> IF Projected(pairs) = <<>> THEN "empty" ELSE "success",
               rows   |-> Projected(pairs)]
  /\ pc' = "done"
  /\ UNCHANGED <<left, right, how, emit, row, col, matched, pairs>>

Done == pc = "done" /\ UNCHANGED join

Next == MissingRows \/ Start \/ Compare \/ EndRow \/ Project \/ Done

JoinRunSpec == Init /\ [][Next]_join

-----------------------------------------------------------------------------
(* The loop's variables stay in range, and "matched" says whether the left *)
(* row at hand has a pair already.                                         *)
JoinTypeOK ==
  /\ pc \in {"start", "loop", "done"}
  /\ row \in 1..(Len(left) + 1) /\ col \in 1..(Len(right) + 1)
  /\ \A k \in DOMAIN pairs :
       pairs[k][1] \in DOMAIN left /\ pairs[k][2] \in DOMAIN right \cup {0}
  /\ matched = (\E k \in DOMAIN pairs : pairs[k][1] = row)
  /\ entry.status \in {"none", "empty", "success"}

Before(p, q) == p[1] < q[1] \/ (p[1] = q[1] /\ p[2] < q[2])
Matching(i)  == {j \in DOMAIN right : KeysMatch(left[i], right[j])}

(* Whatever the keys, the finished loop has paired each left row with all  *)
(* the right rows that match it, each pair once and in the order of the    *)
(* rows, and a LEFT join has kept exactly the left rows without a match.   *)
PairsAreTheMatches ==
  pc = "done" /\ left # <<>> /\ right # <<>> =>
    /\ ToSet(pairs) =
         UNION {{i} \X (IF Matching(i) = {} /\ how = "left" THEN {0} ELSE Matching(i)) :
                  i \in DOMAIN left}
    /\ \A k, l \in DOMAIN pairs : k < l => Before(pairs[k], pairs[l])

(* What a hash join would put in one bucket: the number, or else the text. *)
Canonical(v) == IF v.num # {} THEN <<v.num, "">> ELSE <<v.num, v.text>>
Hashable     == (ToSet(left) \cup ToSet(right)) \cap Booleans = {}

(* On keys that are numbers and text, the loop joins what a hash join on   *)
(* the canonical key would join, so that the strategy may be replaced      *)
(* (nested_loop.py).  With bools it may not: True matches 1 and "true".    *)
HashJoinAgrees ==
  pc = "done" /\ Hashable =>
    \A i \in DOMAIN left, j \in DOMAIN right :
      <<i, j>> \in ToSet(pairs) <=>
        /\ left[i] # None /\ right[j] # None
        /\ Canonical(left[i]) = Canonical(right[j])

(* Counting the members of parents over the join (planner.md): when the    *)
(* parents' keys differ, every child is emitted at most once, so the       *)
(* number of rows is the number of children that point at a parent (and    *)
(* the child whose key is the text "None" at no parent without a key).     *)
ParentsDiffer ==
  \A i, k \in DOMAIN left :
    left[i] # None /\ left[k] # None /\ Canonical(left[i]) = Canonical(left[k]) => i = k
Members == {j \in DOMAIN right : right[j] # None /\
              \E i \in DOMAIN left : left[i] # None /\ Canonical(left[i]) = Canonical(right[j])}
MembersCountedOnce ==
  pc = "done" /\ Hashable /\ ParentsDiffer /\ how = "inner" =>
    Len(entry.rows) = Cardinality(Members)
=============================================================================

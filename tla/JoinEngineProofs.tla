--------------------------- MODULE JoinEngineProofs ---------------------------
(***************************************************************************)
(* The nested loop pairs exactly the rows whose keys match, for any number *)
(* of rows on either side and any keys, and on keys that are not bools it  *)
(* pairs what a hash join on the canonical key would pair, each child of a *)
(* parent once.                                                            *)
(***************************************************************************)
EXTENDS JoinEngine, FiniteSetTheorems, TLAPS

(* The pair <<i, j>> is due before the loops get to row and col: the rows  *)
(* match, or the left row is over, has no match and is kept.               *)
Due(i, j) ==
  \/ /\ i \in DOMAIN left /\ j \in DOMAIN right
     /\ Before(<<i, j>>, <<row, col>>)
     /\ KeysMatch(left[i], right[j])
  \/ i \in 1..(row - 1) /\ j = 0 /\ how = "left" /\ Matching(i) = {}

Paired(i, j) == \E k \in DOMAIN pairs : pairs[k] = <<i, j>>

(* The loops have made the pairs that are due, in the order of the rows.   *)
LoopInv ==
  /\ left \in Seq(Values) /\ right \in Seq(Values) /\ how \in {"inner", "left"}
  /\ pairs \in Seq(Nat \X Nat) /\ row \in Nat /\ col \in Nat
  /\ pc = "start" => row = 1 /\ col = 1 /\ pairs = <<>> /\ matched = FALSE
  /\ pc = "done" /\ left # <<>> /\ right # <<>> => row = Len(left) + 1
  /\ \A i, j \in Nat : Paired(i, j) <=> Due(i, j)
  /\ \A k, l \in DOMAIN pairs : k < l => Before(pairs[k], pairs[l])

JoinInv == JoinTypeOK /\ LoopInv

-----------------------------------------------------------------------------
(* A pair that is appended is the last.                                    *)
LEMMA AppendPair ==
  ASSUME pairs \in Seq(Nat \X Nat), NEW p \in Nat \X Nat, pairs' = Append(pairs, p)
  PROVE  /\ pairs' \in Seq(Nat \X Nat)
         /\ DOMAIN pairs \subseteq DOMAIN pairs' /\ \A k \in DOMAIN pairs : pairs'[k] = pairs[k]
         /\ \A k \in DOMAIN pairs' : k \in DOMAIN pairs \/ k = Len(pairs) + 1
         /\ Len(pairs) + 1 \in DOMAIN pairs' /\ pairs'[Len(pairs) + 1] = p
         /\ \A k \in DOMAIN pairs : k < Len(pairs) + 1
OBVIOUS

(* Then the pairs are those there were and the new one, and they stay in   *)
(* order when it comes after all of them.                                  *)
LEMMA AppendInOrder ==
  ASSUME LoopInv, NEW p \in Nat \X Nat, pairs' = Append(pairs, p),
         \A k \in DOMAIN pairs : Before(pairs[k], p)
  PROVE  /\ pairs' \in Seq(Nat \X Nat)
         /\ \A i, j \in Nat : Paired(i, j)' <=> Paired(i, j) \/ p = <<i, j>>
         /\ \A k, l \in DOMAIN pairs' : k < l => Before(pairs'[k], pairs'[l])
         /\ \A n : (\E k \in DOMAIN pairs' : pairs'[k][1] = n)
                 <=> p[1] = n \/ \E k \in DOMAIN pairs : pairs[k][1] = n
<1>1. /\ pairs' \in Seq(Nat \X Nat)
      /\ DOMAIN pairs \subseteq DOMAIN pairs' /\ \A k \in DOMAIN pairs : pairs'[k] = pairs[k]
      /\ \A k \in DOMAIN pairs' : k \in DOMAIN pairs \/ k = Len(pairs) + 1
      /\ Len(pairs) + 1 \in DOMAIN pairs' /\ pairs'[Len(pairs) + 1] = p
      /\ \A k \in DOMAIN pairs : k < Len(pairs) + 1
  BY AppendPair DEF LoopInv
<1>2. DOMAIN pairs \subseteq Nat /\ Len(pairs) \in Nat
  BY DEF LoopInv
<1>3. ASSUME NEW k \in DOMAIN pairs', NEW l \in DOMAIN pairs', k < l
      PROVE  Before(pairs'[k], pairs'[l])
  <2>1. k \in DOMAIN pairs
    BY <1>1, <1>2, <1>3
  <2>2. CASE l \in DOMAIN pairs
    BY <1>1, <1>3, <2>1, <2>2 DEF LoopInv
  <2>3. CASE l = Len(pairs) + 1
    BY <1>1, <2>1, <2>3
  <2> QED BY <1>1, <2>2, <2>3
<1>4. \A i, j \in Nat : Paired(i, j)' <=> Paired(i, j) \/ p = <<i, j>>
  BY <1>1 DEF Paired
<1>5. \A n : (\E k \in DOMAIN pairs' : pairs'[k][1] = n)
           <=> p[1] = n \/ \E k \in DOMAIN pairs : pairs[k][1] = n
  BY <1>1
<1> QED BY <1>1, <1>3, <1>4, <1>5

(* Every pair that was made was due.                                       *)
LEMMA PairsAreDue ==
  ASSUME LoopInv, NEW k \in DOMAIN pairs
  PROVE  /\ pairs[k] = <<pairs[k][1], pairs[k][2]>>
         /\ pairs[k][1] \in Nat /\ pairs[k][2] \in Nat
         /\ Due(pairs[k][1], pairs[k][2])
<1>1. pairs[k] \in Nat \X Nat
  BY DEF LoopInv
<1>2. pairs[k] = <<pairs[k][1], pairs[k][2]>> /\ pairs[k][1] \in Nat /\ pairs[k][2] \in Nat
  BY <1>1
<1>3. Paired(pairs[k][1], pairs[k][2])
  BY <1>2 DEF Paired
<1> QED BY <1>2, <1>3 DEF LoopInv

(* At first no pair is due.                                                *)
LEMMA JoinInit == Init => JoinInv
<1> SUFFICES ASSUME Init PROVE JoinInv
  OBVIOUS
<1>1. left \in Seq(Values) /\ right \in Seq(Values)
  <2>1. ASSUME NEW n \in Nat, NEW s \in BoundedSeq(Values, n) PROVE s \in Seq(Values)
    <3>1. PICK m \in 0..n : s \in [1..m -> Values]
      BY <2>1 DEF BoundedSeq, SeqOf
    <3> QED BY <3>1
  <2> QED BY <2>1, JoinAssumption DEF Init
<1>2. Len(left) \in Nat /\ Len(right) \in Nat /\ DOMAIN left = 1..Len(left)
      /\ DOMAIN right = 1..Len(right)
  BY <1>1
<1>3. row = 1 /\ col = 1 /\ pairs = <<>> /\ DOMAIN pairs = {} /\ matched = FALSE /\ pc = "start"
      /\ pairs \in Seq(Nat \X Nat) /\ how \in {"inner", "left"} /\ entry.status = "none"
  BY DEF Init, NoEntry
<1>4. JoinTypeOK
  <2>1. row \in 1..(Len(left) + 1) /\ col \in 1..(Len(right) + 1)
    BY <1>2, <1>3
  <2>2. matched = (\E k \in DOMAIN pairs : pairs[k][1] = row)
    BY <1>3
  <2> QED BY <1>3, <2>1, <2>2 DEF JoinTypeOK
<1>5. ASSUME NEW i \in Nat, NEW j \in Nat PROVE ~Paired(i, j) /\ ~Due(i, j)
  BY <1>2, <1>3 DEF Paired, Due, Before
<1> QED BY <1>1, <1>3, <1>4, <1>5 DEF JoinInv, LoopInv

(* Comparing two rows makes the pair due that lies between the loops'      *)
(* positions before and after, or none.                                    *)
LEMMA CompareKeeps == JoinInv /\ Compare => JoinInv'
<1> SUFFICES ASSUME JoinInv, Compare PROVE JoinInv'
  OBVIOUS
<1>1. /\ Len(left) \in Nat /\ Len(right) \in Nat /\ DOMAIN left = 1..Len(left)
      /\ DOMAIN right = 1..Len(right) /\ row \in Nat \ {0} /\ col \in Nat \ {0}
      /\ row \in DOMAIN left /\ col \in DOMAIN right
  BY DEF JoinInv, LoopInv, JoinTypeOK, Compare
<1>2. /\ UNCHANGED <<left, right, how, emit, pc, row, entry>> /\ pc = "loop" /\ col' = col + 1
      /\ row \in 1..(Len(left) + 1) /\ col' \in 1..(Len(right) + 1)
  BY <1>1 DEF Compare, JoinInv, JoinTypeOK
<1> DEFINE match == KeysMatch(left[row], right[col])
<1>3. \A i, j \in Nat : Due(i, j)' <=> Due(i, j) \/ (match /\ <<row, col>> = <<i, j>>)
  BY <1>1, <1>2 DEF Due, Before, Matching
<1>4. CASE match
  <2>1. pairs' = Append(pairs, <<row, col>>) /\ matched' = TRUE /\ <<row, col>> \in Nat \X Nat
    BY <1>1, <1>4 DEF Compare
  <2>2. \A k \in DOMAIN pairs : Before(pairs[k], <<row, col>>)
    BY <1>1, PairsAreDue DEF JoinInv, Due, Before
  <2>3. /\ pairs' \in Seq(Nat \X Nat)
        /\ \A i, j \in Nat : Paired(i, j)' <=> Paired(i, j) \/ <<row, col>> = <<i, j>>
        /\ \A k, l \in DOMAIN pairs' : k < l => Before(pairs'[k], pairs'[l])
        /\ \A n : (\E k \in DOMAIN pairs' : pairs'[k][1] = n)
                <=> row = n \/ \E k \in DOMAIN pairs : pairs[k][1] = n
    BY <2>1, <2>2, AppendInOrder DEF JoinInv
  <2>4. \A i, j \in Nat : Paired(i, j)' <=> Due(i, j)'
    BY <1>3, <1>4, <2>3 DEF JoinInv, LoopInv
  <2>5. LoopInv'
    BY <1>1, <1>2, <2>3, <2>4 DEF JoinInv, LoopInv
  <2>6. \A k \in DOMAIN pairs' : pairs'[k][1] \in DOMAIN left /\ pairs'[k][2] \in DOMAIN right \cup {0}
    <3>1. pairs' = Append(pairs, <<row, col>>) /\ pairs \in Seq(Nat \X Nat)
      BY <2>1 DEF JoinInv, LoopInv
    <3>2. \A k \in DOMAIN pairs' : \/ k \in DOMAIN pairs /\ pairs'[k] = pairs[k]
                                   \/ pairs'[k] = <<row, col>>
      BY <2>1, <3>1, AppendPair
    <3>3. \A k \in DOMAIN pairs : pairs[k][1] \in DOMAIN left /\ pairs[k][2] \in DOMAIN right \cup {0}
      BY DEF JoinInv, JoinTypeOK
    <3>4. <<row, col>>[1] \in DOMAIN left /\ <<row, col>>[2] \in DOMAIN right \cup {0}
      BY <1>1
    <3> QED BY <3>2, <3>3, <3>4
  <2>7. matched' = (\E k \in DOMAIN pairs' : pairs'[k][1] = row')
    BY <1>2, <2>1, <2>3
  <2> QED BY <1>2, <2>5, <2>6, <2>7 DEF JoinInv, JoinTypeOK
<1>5. CASE ~match
  <2>1. UNCHANGED <<pairs, matched>>
    BY <1>5 DEF Compare
  <2>2. \A i, j \in Nat : Paired(i, j)' <=> Due(i, j)'
    BY <1>3, <1>5, <2>1 DEF JoinInv, LoopInv, Paired
  <2>3. LoopInv'
    BY <1>1, <1>2, <2>1, <2>2 DEF JoinInv, LoopInv
  <2> QED BY <1>2, <2>1, <2>3 DEF JoinInv, JoinTypeOK
<1> QED BY <1>4, <1>5

(* At the end of a row the pair with no right row is due, if the row has   *)
(* no match: "matched" says so.                                            *)
LEMMA EndRowKeeps == JoinInv /\ EndRow => JoinInv'
<1> SUFFICES ASSUME JoinInv, EndRow PROVE JoinInv'
  OBVIOUS
<1>1. /\ Len(left) \in Nat /\ Len(right) \in Nat /\ DOMAIN left = 1..Len(left)
      /\ DOMAIN right = 1..Len(right) /\ row \in Nat \ {0} /\ col \in Nat \ {0}
      /\ row \in DOMAIN left /\ col > Len(right)
  BY DEF JoinInv, LoopInv, JoinTypeOK, EndRow
<1>2. /\ UNCHANGED <<left, right, how, emit, pc, entry>> /\ pc = "loop"
      /\ row' = row + 1 /\ col' = 1 /\ matched' = FALSE
      /\ row' \in 1..(Len(left) + 1) /\ col' \in 1..(Len(right) + 1)
  BY <1>1 DEF EndRow
<1> DEFINE alone == how = "left" /\ ~matched
<1>3. matched <=> \E k \in DOMAIN pairs : pairs[k][1] = row
  BY DEF JoinInv, JoinTypeOK
<1>4. matched <=> Matching(row) # {}
  <2>1. ASSUME NEW j \in Matching(row) PROVE matched
    <3>1. j \in Nat /\ Due(row, j)
      BY <1>1 DEF Matching, Due, Before
    <3>2. Paired(row, j)
      BY <1>1, <3>1 DEF JoinInv, LoopInv
    <3> QED BY <1>3, <3>2 DEF Paired
  <2>2. ASSUME matched PROVE Matching(row) # {}
    <3>1. PICK k \in DOMAIN pairs : pairs[k][1] = row
      BY <1>3, <2>2
    <3>2. Due(row, pairs[k][2])
      BY <3>1, PairsAreDue DEF JoinInv
    <3> QED BY <1>1, <3>2 DEF Due, Matching
  <2> QED BY <2>1, <2>2
<1>5. \A i, j \in Nat : Due(i, j)' <=> Due(i, j) \/ (alone /\ <<row, 0>> = <<i, j>>)
  <2>1. ASSUME NEW i \in Nat, NEW j \in Nat
        PROVE  Due(i, j)' <=> Due(i, j) \/ (alone /\ <<row, 0>> = <<i, j>>)
    <3>1. Matching(i)' = Matching(i)
      BY <1>2 DEF Matching
    <3>2. j \in DOMAIN right => (Before(<<i, j>>, <<row + 1, 1>>) <=> Before(<<i, j>>, <<row, col>>))
      BY <1>1 DEF Before
    <3>3. i \in 1..(row' - 1) <=> i \in 1..(row - 1) \/ i = row
      BY <1>1, <1>2
    <3>4. alone /\ <<row, 0>> = <<i, j>>
            <=> i = row /\ j = 0 /\ how = "left" /\ Matching(i) = {}
      BY <1>4
    <3> HIDE DEF alone
    <3>5. (/\ i \in DOMAIN left' /\ j \in DOMAIN right' /\ Before(<<i, j>>, <<row', col'>>)
           /\ KeysMatch(left'[i], right'[j]))
            <=> (/\ i \in DOMAIN left /\ j \in DOMAIN right /\ Before(<<i, j>>, <<row, col>>)
                 /\ KeysMatch(left[i], right[j]))
      BY <1>2, <3>2
    <3>6. (i \in 1..(row' - 1) /\ j = 0 /\ how' = "left" /\ Matching(i)' = {})
            <=> \/ i \in 1..(row - 1) /\ j = 0 /\ how = "left" /\ Matching(i) = {}
                \/ i = row /\ j = 0 /\ how = "left" /\ Matching(i) = {}
      BY <1>2, <3>1, <3>3, Zenon
    <3> QED BY <3>4, <3>5, <3>6 DEF Due
  <2> QED BY <2>1
<1>6. \A k \in DOMAIN pairs : pairs[k][1] \in 1..row
  BY <1>1, PairsAreDue DEF JoinInv, Due, Before
<1>7. CASE alone
  <2>1. pairs' = Append(pairs, <<row, 0>>) /\ <<row, 0>> \in Nat \X Nat
    BY <1>1, <1>7 DEF EndRow
  <2>2. \A k \in DOMAIN pairs : Before(pairs[k], <<row, 0>>)
    BY <1>1, <1>3, <1>6, <1>7 DEF Before
  <2>3. /\ pairs' \in Seq(Nat \X Nat)
        /\ \A i, j \in Nat : Paired(i, j)' <=> Paired(i, j) \/ <<row, 0>> = <<i, j>>
        /\ \A k, l \in DOMAIN pairs' : k < l => Before(pairs'[k], pairs'[l])
        /\ \A n : (\E k \in DOMAIN pairs' : pairs'[k][1] = n)
                <=> row = n \/ \E k \in DOMAIN pairs : pairs[k][1] = n
    BY <2>1, <2>2, AppendInOrder DEF JoinInv
  <2>4. \A i, j \in Nat : Paired(i, j)' <=> Due(i, j)'
    BY <1>5, <1>7, <2>3 DEF JoinInv, LoopInv
  <2>5. LoopInv'
    BY <1>1, <1>2, <2>3, <2>4 DEF JoinInv, LoopInv
  <2>6. \A k \in DOMAIN pairs' : pairs'[k][1] \in DOMAIN left /\ pairs'[k][2] \in DOMAIN right \cup {0}
    <3>1. pairs' = Append(pairs, <<row, 0>>) /\ pairs \in Seq(Nat \X Nat)
      BY <2>1 DEF JoinInv, LoopInv
    <3>2. \A k \in DOMAIN pairs' : \/ k \in DOMAIN pairs /\ pairs'[k] = pairs[k]
                                   \/ pairs'[k] = <<row, 0>>
      BY <2>1, <3>1, AppendPair
    <3>3. <<row, 0>>[1] \in DOMAIN left /\ <<row, 0>>[2] \in DOMAIN right \cup {0}
      BY <1>1
    <3> QED BY <3>2, <3>3 DEF JoinInv, JoinTypeOK
  <2>7. matched' = (\E k \in DOMAIN pairs' : pairs'[k][1] = row')
    <3>1. ~\E k \in DOMAIN pairs : pairs[k][1] = row + 1
      BY <1>1, <1>6
    <3>2. ~\E k \in DOMAIN pairs' : pairs'[k][1] = row + 1
      <4>1. (\E k \in DOMAIN pairs' : pairs'[k][1] = row + 1)
              <=> row = row + 1 \/ \E k \in DOMAIN pairs : pairs[k][1] = row + 1
        BY <2>3
      <4>2. row # row + 1
        BY <1>1
      <4> QED BY <3>1, <4>1, <4>2
    <3> QED BY <1>2, <3>2
  <2> QED BY <1>2, <2>5, <2>6, <2>7 DEF JoinInv, JoinTypeOK
<1>8. CASE ~alone
  <2>1. UNCHANGED pairs
    BY <1>8 DEF EndRow
  <2>2. \A i, j \in Nat : Paired(i, j)' <=> Due(i, j)'
    BY <1>5, <1>8, <2>1 DEF JoinInv, LoopInv, Paired
  <2>3. LoopInv'
    BY <1>1, <1>2, <2>1, <2>2 DEF JoinInv, LoopInv
  <2>4. matched' = (\E k \in DOMAIN pairs' : pairs'[k][1] = row')
    <3>1. ~\E k \in DOMAIN pairs : pairs[k][1] = row + 1
      BY <1>1, <1>6
    <3> QED BY <1>2, <2>1, <3>1
  <2> QED BY <1>2, <2>1, <2>3, <2>4 DEF JoinInv, JoinTypeOK
<1> QED BY <1>7, <1>8

(* Every step keeps the invariant.                                         *)
LEMMA JoinStep == JoinInv /\ [Next]_join => JoinInv'
<1> SUFFICES ASSUME JoinInv, [Next]_join PROVE JoinInv'
  OBVIOUS
<1>1. CASE MissingRows \/ Start
  <2>1. /\ UNCHANGED <<left, right, how, emit, row, col, matched, pairs>>
        /\ pc = "start" /\ pc' \in {"loop", "done"}
        /\ pc' = "done" => left = <<>> \/ right = <<>>
        /\ entry'.status \in {"none", "empty", "success"}
    BY <1>1 DEF MissingRows, Start, JoinInv, JoinTypeOK
  <2>2. \A i, j \in Nat : Paired(i, j)' <=> Due(i, j)'
    BY <2>1 DEF JoinInv, LoopInv, Paired, Due, Matching
  <2> QED BY <2>1, <2>2 DEF JoinInv, LoopInv, JoinTypeOK
<1>2. CASE Project
  <2>1. /\ UNCHANGED <<left, right, how, emit, row, col, matched, pairs>>
        /\ pc = "loop" /\ pc' = "done" /\ row > Len(left)
        /\ entry'.status \in {"none", "empty", "success"}
    BY <1>2 DEF Project
  <2>3. row = Len(left) + 1
    <3>1. Len(left) \in Nat
      BY DEF JoinInv, LoopInv
    <3>2. row \in 1..(Len(left) + 1)
      BY DEF JoinInv, JoinTypeOK
    <3> QED BY <2>1, <3>1, <3>2
  <2>2. \A i, j \in Nat : Paired(i, j)' <=> Due(i, j)'
    BY <2>1 DEF JoinInv, LoopInv, Paired, Due, Matching
  <2> QED BY <2>1, <2>2, <2>3 DEF JoinInv, LoopInv, JoinTypeOK
<1>3. CASE Done \/ UNCHANGED join
  <2>1. UNCHANGED join
    BY <1>3 DEF Done
  <2>2. \A i, j \in Nat : Paired(i, j)' <=> Due(i, j)'
    BY <2>1 DEF join, JoinInv, LoopInv, Paired, Due, Matching
  <2> QED BY <2>1, <2>2 DEF join, JoinInv, LoopInv, JoinTypeOK
<1> QED BY <1>1, <1>2, <1>3, CompareKeeps, EndRowKeeps DEF Next

(* Hence the invariant holds throughout.                                   *)
LEMMA JoinAlways == JoinRunSpec => []JoinInv
BY JoinInit, JoinStep, PTL DEF JoinRunSpec

(* The loops stay in range, and "matched" never speaks of another row.     *)
THEOREM JoinTypeCorrect == JoinRunSpec => []JoinTypeOK
<1>1. JoinInv => JoinTypeOK
  BY DEF JoinInv
<1> QED BY <1>1, JoinAlways, PTL

(* Each left row is paired with all the right rows that match it, once and *)
(* in order, and a LEFT join keeps exactly the left rows without a match.  *)
THEOREM PairsAlwaysTheMatches == JoinRunSpec => []PairsAreTheMatches
<1>1. ASSUME JoinInv, pc = "done", left # <<>>, right # <<>>
      PROVE  ToSet(pairs) =
               UNION {{i} \X (IF Matching(i) = {} /\ how = "left" THEN {0} ELSE Matching(i)) :
                        i \in DOMAIN left}
  <2>1. /\ row = Len(left) + 1 /\ Len(left) \in Nat /\ DOMAIN left = 1..Len(left)
        /\ DOMAIN right \subseteq Nat
    BY <1>1 DEF JoinInv, LoopInv
  <2> DEFINE Row(i) == IF Matching(i) = {} /\ how = "left" THEN {0} ELSE Matching(i)
  <2>2. ASSUME NEW i \in Nat, NEW j \in Nat
        PROVE  Due(i, j) <=> i \in DOMAIN left /\ j \in Row(i)
    <3>1. 0 \notin DOMAIN right
      BY <1>1 DEF JoinInv, LoopInv
    <3>2. i \in DOMAIN left => Before(<<i, j>>, <<row, col>>)
      BY <2>1 DEF Before
    <3>3. i \in 1..(row - 1) <=> i \in DOMAIN left
      BY <2>1
    <3> QED BY <3>1, <3>2, <3>3 DEF Due, Matching
  <2>3. ASSUME NEW p \in ToSet(pairs)
        PROVE  \E i \in DOMAIN left : p \in {i} \X Row(i)
    <3>1. PICK k \in DOMAIN pairs : p = pairs[k]
      BY <2>3 DEF ToSet
    <3>2. /\ p = <<p[1], p[2]>> /\ p[1] \in Nat /\ p[2] \in Nat /\ Due(p[1], p[2])
      BY <1>1, <3>1, PairsAreDue DEF JoinInv
    <3> QED BY <2>2, <3>2
  <2>4. ASSUME NEW i \in DOMAIN left, NEW j \in Row(i)
        PROVE  <<i, j>> \in ToSet(pairs)
    <3>1. i \in Nat /\ j \in Nat
      BY <2>1, <2>4 DEF Matching
    <3>2. Paired(i, j)
      BY <1>1, <2>2, <3>1 DEF JoinInv, LoopInv
    <3> QED BY <3>2 DEF Paired, ToSet
  <2> HIDE DEF Row
  <2>5. ToSet(pairs) = UNION {{i} \X Row(i) : i \in DOMAIN left}
    BY <2>3, <2>4
  <2> QED BY <2>5 DEF Row
<1>2. JoinInv => PairsAreTheMatches
  BY <1>1 DEF JoinInv, LoopInv, PairsAreTheMatches
<1> QED BY <1>2, JoinAlways, PTL

-----------------------------------------------------------------------------
(* Keys that are no bools match when their canonical forms are the same.   *)
LEMMA MatchIsCanonical ==
  ASSUME NEW v \in Values \ (Booleans \cup {None}), NEW w \in Values \ (Booleans \cup {None})
  PROVE  KeysMatch(v, w) <=> Canonical(v) = Canonical(w)
<1>1. Canonical(v) = Canonical(w) <=> v.num = w.num /\ (v.num = {} => v.text = w.text)
  BY DEF Canonical
<1>2. KeysMatch(v, w)
        <=> \/ v.eq = w.eq
            \/ v.num # {} /\ w.num # {} /\ v.num = w.num
            \/ (v.num = {} \/ w.num = {}) /\ v.text = w.text
  BY DEF KeysMatch
<1>3. /\ v.eq = w.eq => v.num = w.num /\ (v.num = {} => v.text = w.text)
      /\ v.text = w.text => v.num = w.num
  BY ScalarAssumption
<1> QED BY <1>1, <1>2, <1>3

(* On keys that are no bools the nested loop may be replaced by a hash     *)
(* join on the canonical key: both pair the same rows.                     *)
THEOREM HashJoinAlwaysAgrees == JoinRunSpec => []HashJoinAgrees
<1>1. ASSUME JoinInv, pc = "done", Hashable, NEW i \in DOMAIN left, NEW j \in DOMAIN right
      PROVE  <<i, j>> \in ToSet(pairs) <=>
               /\ left[i] # None /\ right[j] # None
               /\ Canonical(left[i]) = Canonical(right[j])
  <2>1. left[i] \in Values \ Booleans /\ right[j] \in Values \ Booleans
    <3>1. left[i] \in ToSet(left) /\ right[j] \in ToSet(right)
      BY DEF ToSet
    <3>2. left[i] \in Values /\ right[j] \in Values
      BY <1>1 DEF JoinInv, LoopInv
    <3> QED BY <1>1, <3>1, <3>2 DEF Hashable
  <2>2. /\ i \in Nat /\ j \in Nat /\ j # 0 /\ Before(<<i, j>>, <<row, col>>)
    <3>1. /\ i \in 1..Len(left) /\ j \in 1..Len(right) /\ Len(left) \in Nat /\ Len(right) \in Nat
      BY <1>1 DEF JoinInv, LoopInv
    <3>2. row = Len(left) + 1
      BY <1>1, <3>1 DEF JoinInv, LoopInv
    <3> QED BY <3>1, <3>2 DEF Before
  <2>3. <<i, j>> \in ToSet(pairs) <=> Paired(i, j)
    BY DEF ToSet, Paired
  <2>4. Due(i, j) <=> KeysMatch(left[i], right[j])
    BY <2>2 DEF Due
  <2>5. <<i, j>> \in ToSet(pairs) <=> KeysMatch(left[i], right[j])
    BY <1>1, <2>2, <2>3, <2>4 DEF JoinInv, LoopInv
  <2>6. CASE left[i] = None \/ right[j] = None
    BY <2>5, <2>6 DEF KeysMatch
  <2>7. CASE left[i] # None /\ right[j] # None
    BY <2>1, <2>5, <2>7, MatchIsCanonical
  <2> QED BY <2>6, <2>7
<1>2. JoinInv => HashJoinAgrees
  BY <1>1 DEF HashJoinAgrees
<1> QED BY <1>2, JoinAlways, PTL

-----------------------------------------------------------------------------
(* The rows of the entry are what the projection keeps of the pairs, or    *)
(* nothing when a side has no rows.                                        *)
EntryInv ==
  /\ pc = "loop" => left # <<>> /\ right # <<>>
  /\ pc = "done" => \/ (left = <<>> \/ right = <<>>) /\ entry.rows = <<>>
                    \/ left # <<>> /\ right # <<>> /\ entry.rows = Projected(pairs)

LEMMA EntryAlways == JoinRunSpec => []EntryInv
<1>1. Init => EntryInv
  BY DEF Init, EntryInv
<1>2. EntryInv /\ [Next]_join => EntryInv'
  <2> SUFFICES ASSUME EntryInv, [Next]_join PROVE EntryInv'
    OBVIOUS
  <2>1. CASE MissingRows
    BY <2>1 DEF MissingRows, EntryInv
  <2>2. CASE Start
    BY <2>2 DEF Start, EntryInv
  <2>3. CASE Compare
    BY <2>3 DEF Compare, EntryInv
  <2>4. CASE EndRow
    BY <2>4 DEF EndRow, EntryInv
  <2>5. CASE Project
    <3>1. /\ pc' = "done" /\ left' = left /\ right' = right /\ pairs' = pairs /\ emit' = emit
          /\ entry'.rows = Projected(pairs)
      BY <2>5 DEF Project
    <3>2. Projected(pairs)' = Projected(pairs)
      BY <3>1 DEF Projected, Emits
    <3>3. left # <<>> /\ right # <<>>
      BY <2>5 DEF Project, EntryInv
    <3> QED BY <3>1, <3>2, <3>3 DEF EntryInv
  <2>6. CASE Done \/ UNCHANGED join
    BY <2>6 DEF Done, join, EntryInv, Projected, Emits
  <2> QED BY <2>1, <2>2, <2>3, <2>4, <2>5, <2>6 DEF Next
<1> QED BY <1>1, <1>2, PTL DEF JoinRunSpec
(* When the parents differ, the right rows of an inner join's pairs are    *)
(* the members, each in one pair.                                          *)
LEMMA PairsAreMembers ==
  ASSUME JoinInv, pc = "done", Hashable, ParentsDiffer, how = "inner", left # <<>>, right # <<>>
  PROVE  [k \in DOMAIN pairs |-> pairs[k][2]] \in Bijection(DOMAIN pairs, Members)
<1> DEFINE child == [k \in DOMAIN pairs |-> pairs[k][2]]
<1>1. /\ row = Len(left) + 1 /\ Len(left) \in Nat /\ DOMAIN left = 1..Len(left)
      /\ DOMAIN right \subseteq Nat /\ 0 \notin DOMAIN right
      /\ DOMAIN pairs \subseteq Nat
  BY DEF JoinInv, LoopInv
<1>2. ASSUME NEW i \in DOMAIN left, NEW j \in DOMAIN right
      PROVE  KeysMatch(left[i], right[j]) <=>
               /\ left[i] # None /\ right[j] # None
               /\ Canonical(left[i]) = Canonical(right[j])
  <2>1. left[i] \in Values \ Booleans /\ right[j] \in Values \ Booleans
    <3>1. left[i] \in ToSet(left) /\ right[j] \in ToSet(right)
      BY DEF ToSet
    <3>2. left[i] \in Values /\ right[j] \in Values
      BY DEF JoinInv, LoopInv
    <3> QED BY <3>1, <3>2 DEF Hashable
  <2>2. CASE left[i] = None \/ right[j] = None
    BY <2>2 DEF KeysMatch
  <2>3. CASE left[i] # None /\ right[j] # None
    BY <2>1, <2>3, MatchIsCanonical
  <2> QED BY <2>2, <2>3
<1>3. ASSUME NEW k \in DOMAIN pairs
      PROVE  /\ pairs[k] = <<pairs[k][1], pairs[k][2]>>
             /\ pairs[k][1] \in DOMAIN left /\ pairs[k][2] \in DOMAIN right
             /\ left[pairs[k][1]] # None /\ right[pairs[k][2]] # None
             /\ Canonical(left[pairs[k][1]]) = Canonical(right[pairs[k][2]])
  <2>1. /\ pairs[k] = <<pairs[k][1], pairs[k][2]>> /\ Due(pairs[k][1], pairs[k][2])
    BY PairsAreDue DEF JoinInv
  <2>2. /\ pairs[k][1] \in DOMAIN left /\ pairs[k][2] \in DOMAIN right
        /\ KeysMatch(left[pairs[k][1]], right[pairs[k][2]])
    BY <2>1 DEF Due
  <2> QED BY <1>2, <2>1, <2>2
<1>4. child \in [DOMAIN pairs -> Members]
  BY <1>3 DEF Members
<1>5. ASSUME NEW k \in DOMAIN pairs, NEW l \in DOMAIN pairs, pairs[k][2] = pairs[l][2]
      PROVE  k = l
  <2>1. Canonical(left[pairs[k][1]]) = Canonical(left[pairs[l][1]])
    BY <1>3, <1>5
  <2>2. pairs[k][1] = pairs[l][1]
    BY <1>3, <2>1 DEF ParentsDiffer
  <2>3. pairs[k] = pairs[l]
    BY <1>3, <1>5, <2>2
  <2>4. \A m, n \in DOMAIN pairs : m < n => Before(pairs[m], pairs[n])
    BY DEF JoinInv, LoopInv
  <2>5. ~Before(pairs[k], pairs[k])
    <3>1. pairs[k][1] \in Nat /\ pairs[k][2] \in Nat
      BY PairsAreDue DEF JoinInv
    <3> QED BY <3>1 DEF Before
  <2>6. ~(k < l) /\ ~(l < k)
    BY <2>3, <2>4, <2>5
  <2> QED BY <1>1, <2>6
<1>6. ASSUME NEW j \in Members PROVE \E k \in DOMAIN pairs : child[k] = j
  <2>1. j \in DOMAIN right /\ right[j] # None
    BY DEF Members
  <2>2. PICK i \in DOMAIN left : left[i] # None /\ Canonical(left[i]) = Canonical(right[j])
    BY DEF Members
  <2>3. KeysMatch(left[i], right[j])
    BY <1>2, <2>1, <2>2
  <2>4. i \in Nat /\ j \in Nat /\ Before(<<i, j>>, <<row, col>>)
    BY <1>1, <2>1 DEF Before
  <2>5. Due(i, j)
    BY <2>1, <2>3, <2>4 DEF Due
  <2>6. Paired(i, j)
    BY <2>4, <2>5 DEF JoinInv, LoopInv
  <2> QED BY <2>6 DEF Paired
<1>7. child \in Injection(DOMAIN pairs, Members)
  BY <1>4, <1>5 DEF Injection, IsInjective
<1>8. child \in Surjection(DOMAIN pairs, Members)
  BY <1>4, <1>6 DEF Surjection
<1> QED BY <1>7, <1>8 DEF Bijection

(* Counting over an inner join with parents that differ counts every       *)
(* member once: as many rows as children that point at a parent.           *)
THEOREM MembersAlwaysCountedOnce == JoinRunSpec => []MembersCountedOnce
<1>1. ASSUME JoinInv, EntryInv, pc = "done", Hashable, ParentsDiffer, how = "inner"
      PROVE  Len(entry.rows) = Cardinality(Members)
  <2>1. CASE left = <<>> \/ right = <<>>
    <3>1. entry.rows = <<>>
      BY <1>1, <2>1 DEF EntryInv
    <3>2. Members = {}
      BY <2>1 DEF Members
    <3> QED BY <3>1, <3>2, FS_EmptySet
  <2>2. CASE left # <<>> /\ right # <<>>
    <3>1. [k \in DOMAIN pairs |-> pairs[k][2]] \in Bijection(DOMAIN pairs, Members)
      BY <1>1, <2>2, PairsAreMembers
    <3>2. /\ DOMAIN pairs = 1..Len(pairs) /\ Len(pairs) \in Nat
          /\ IsFiniteSet(DOMAIN pairs) /\ Cardinality(DOMAIN pairs) = Len(pairs)
      <4>1. pairs \in Seq(Nat \X Nat)
        BY <1>1 DEF JoinInv, LoopInv
      <4>2. DOMAIN pairs = 1..Len(pairs) /\ Len(pairs) \in Nat
        BY <4>1
      <4>3. IsFiniteSet(1..Len(pairs)) /\ Cardinality(1..Len(pairs)) = Len(pairs)
        <5>1. 1 \in Int /\ Len(pairs) \in Int
          BY <4>2
        <5>2. /\ IsFiniteSet(1..Len(pairs))
              /\ Cardinality(1..Len(pairs)) = IF 1 > Len(pairs) THEN 0 ELSE Len(pairs) - 1 + 1
          BY <5>1, FS_Interval
        <5> QED BY <4>2, <5>2
      <4> QED BY <4>2, <4>3
    <3>3. Cardinality(Members) = Len(pairs)
      BY <3>1, <3>2, FS_Bijection DEF ExistsBijection
    <3>4. {k \in DOMAIN pairs : Emits(pairs[k])} = DOMAIN pairs
      <4>1. ASSUME NEW k \in DOMAIN pairs PROVE pairs[k][2] # 0
        <5>1. pairs[k][2] \in Members
          BY <3>1 DEF Bijection, Injection
        <5>2. 0 \notin DOMAIN right
          BY <1>1 DEF JoinInv, LoopInv
        <5> QED BY <5>1, <5>2 DEF Members
      <4> QED BY <4>1 DEF Emits
    <3>5. entry.rows = Kept(pairs, DOMAIN pairs)
      BY <1>1, <2>2, <3>4 DEF EntryInv, Projected
    <3>6. entry.rows = [n \in 1..Len(pairs) |-> pairs[InOrder(DOMAIN pairs)[n]]]
      BY <3>2, <3>5 DEF Kept
    <3>7. Len(entry.rows) = Len(pairs)
      BY <3>2, <3>6
    <3> QED BY <3>3, <3>7
  <2> QED BY <2>1, <2>2
<1>2. JoinInv /\ EntryInv => MembersCountedOnce
  BY <1>1 DEF MembersCountedOnce
<1> QED BY <1>2, JoinAlways, EntryAlways, PTL
===============================================================================

---------------------- MODULE ClarificationDialogueProofs ----------------------
(***************************************************************************)
(* For every set of records, names, messages and questions: what a pending *)
(* clarification offers, and which record a reply is answered for.         *)
(***************************************************************************)
EXTENDS ClarificationDialogue, FiniteSetTheorems, SequenceTheorems, WellFoundedInduction, TLAPS

-----------------------------------------------------------------------------
(* Numbers in order.                                                       *)

Below(S, x) == {y \in S : y < x}

(* The number of smaller ones tells the elements of a finite set apart.    *)
LEMMA BelowGrows ==
  ASSUME NEW S \in SUBSET Int, IsFiniteSet(S), NEW x \in S
  PROVE  /\ IsFiniteSet(Below(S, x)) /\ Cardinality(Below(S, x)) \in Nat
         /\ Cardinality(Below(S, x)) + 1 <= Cardinality(S)
         /\ \A y \in S : x < y => Cardinality(Below(S, x)) < Cardinality(Below(S, y))
<1>1. Below(S, x) \in SUBSET S /\ x \notin Below(S, x)
  BY DEF Below
<1>2. IsFiniteSet(Below(S, x)) /\ Cardinality(Below(S, x)) \in Nat
  BY <1>1, FS_Subset, FS_CardinalityType
<1>3. /\ IsFiniteSet(Below(S, x) \cup {x})
      /\ Cardinality(Below(S, x) \cup {x}) = Cardinality(Below(S, x)) + 1
  BY <1>1, <1>2, FS_AddElement
<1>4. Cardinality(Below(S, x)) + 1 <= Cardinality(S)
  <2>1. Below(S, x) \cup {x} \in SUBSET S
    BY <1>1
  <2> QED BY <1>3, <2>1, FS_Subset
<1>5. ASSUME NEW y \in S, x < y
      PROVE  Cardinality(Below(S, x)) < Cardinality(Below(S, y))
  <2>1. Below(S, x) \cup {x} \in SUBSET Below(S, y)
    <3>1. \A z \in S : z < x => z < y
      BY <1>5
    <3> QED BY <1>5, <3>1 DEF Below
  <2>2. IsFiniteSet(Below(S, y)) /\ Cardinality(Below(S, y)) \in Nat
    <3>1. Below(S, y) \in SUBSET S
      BY DEF Below
    <3> QED BY <3>1, FS_Subset, FS_CardinalityType
  <2>3. Cardinality(Below(S, x)) + 1 <= Cardinality(Below(S, y))
    BY <1>3, <2>1, <2>2, FS_Subset
  <2> QED BY <1>2, <2>2, <2>3
<1> QED BY <1>2, <1>4, <1>5

(* Every place from 1 to the number of elements is taken by one of them.   *)
LEMMA PlaceTaken ==
  ASSUME NEW S \in SUBSET Int, IsFiniteSet(S), NEW n \in 1..Cardinality(S)
  PROVE  \E x \in S : Cardinality(Below(S, x)) + 1 = n
<1> DEFINE place == [x \in S |-> Cardinality(Below(S, x)) + 1]
<1>1. Cardinality(S) \in Nat
  BY FS_CardinalityType
<1>2. \A x \in S : Cardinality(Below(S, x)) \in Nat /\ Cardinality(Below(S, x)) + 1 <= Cardinality(S)
  BY BelowGrows
<1>3. place \in [S -> 1..Cardinality(S)]
  BY <1>1, <1>2
<1>4. \A x, y \in S : place[x] = place[y] => x = y
  <2> SUFFICES ASSUME NEW x \in S, NEW y \in S, place[x] = place[y] PROVE x = y
    OBVIOUS
  <2>1. place[x] = Cardinality(Below(S, x)) + 1 /\ place[y] = Cardinality(Below(S, y)) + 1
    OBVIOUS
  <2>2. ~(x < y) /\ ~(y < x)
    <3>1. Cardinality(Below(S, x)) = Cardinality(Below(S, y))
      BY <1>2, <2>1
    <3>2. /\ x < y => Cardinality(Below(S, x)) < Cardinality(Below(S, y))
          /\ y < x => Cardinality(Below(S, y)) < Cardinality(Below(S, x))
      BY BelowGrows
    <3> QED BY <1>2, <3>1, <3>2
  <2>3. x \in Int /\ y \in Int
    OBVIOUS
  <2> QED BY <2>2, <2>3
<1>5. place \in Injection(S, 1..Cardinality(S))
  BY <1>3, <1>4 DEF Injection, IsInjective
<1>6. IsFiniteSet(1..Cardinality(S)) /\ Cardinality(1..Cardinality(S)) = Cardinality(S)
  BY <1>1, FS_Interval
<1>7. place \in Surjection(S, 1..Cardinality(S))
  BY <1>5, <1>6, FS_Injection
<1>8. PICK x \in S : place[x] = n
  BY <1>7 DEF Surjection
<1> QED BY <1>8

(* InOrder lists a finite set of numbers, each once and increasing.        *)
LEMMA InOrderLists ==
  ASSUME NEW S \in SUBSET Int, IsFiniteSet(S)
  PROVE  /\ Cardinality(S) \in Nat
         /\ InOrder(S) \in Seq(S) /\ Len(InOrder(S)) = Cardinality(S)
         /\ \A n \in 1..Cardinality(S) :
              InOrder(S)[n] \in S /\ Cardinality(Below(S, InOrder(S)[n])) + 1 = n
         /\ IsInjective(InOrder(S))
<1>1. Cardinality(S) \in Nat
  BY FS_CardinalityType
<1>2. InOrder(S) = [n \in 1..Cardinality(S) |->
                      CHOOSE x \in S : Cardinality(Below(S, x)) + 1 = n]
  BY DEF InOrder, SortedBy, Below
<1>3. \A n \in 1..Cardinality(S) :
        InOrder(S)[n] \in S /\ Cardinality(Below(S, InOrder(S)[n])) + 1 = n
  <2> SUFFICES ASSUME NEW n \in 1..Cardinality(S)
               PROVE  InOrder(S)[n] \in S /\ Cardinality(Below(S, InOrder(S)[n])) + 1 = n
    OBVIOUS
  <2>1. \E x \in S : Cardinality(Below(S, x)) + 1 = n
    BY PlaceTaken
  <2>2. InOrder(S)[n] = CHOOSE x \in S : Cardinality(Below(S, x)) + 1 = n
    BY <1>2
  <2> QED BY <2>1, <2>2
<1>4. InOrder(S) \in [1..Cardinality(S) -> S]
  BY <1>2, <1>3
<1>5. InOrder(S) \in Seq(S) /\ Len(InOrder(S)) = Cardinality(S)
  BY <1>1, <1>4
<1>6. IsInjective(InOrder(S))
  BY <1>3, <1>4 DEF IsInjective
<1> QED BY <1>1, <1>3, <1>5, <1>6

(* Min of a set of places is one of them, before the others.               *)
LEMMA MinIsMember ==
  ASSUME NEW S \in SUBSET Nat, S # {}
  PROVE  Min(S) \in S /\ \A y \in S : Min(S) <= y
<1>1. PICK x \in S : \A y \in S : ~(<<y, x>> \in OpToRel(<, Nat))
  BY WFMin, NatLessThanWellFounded
<1>2. ASSUME NEW y \in S PROVE x <= y
  <2>1. ~(<<y, x>> \in OpToRel(<, Nat)) /\ <<y, x>> \in Nat \X Nat
    BY <1>1
  <2> QED BY <2>1 DEF OpToRel
<1> QED BY <1>2 DEF Min

(* Two numbers: Min is the smaller.                                        *)
LEMMA MinOfTwo ==
  ASSUME NEW a \in Nat, NEW b \in Nat
  PROVE  Min({a, b}) = IF a <= b THEN a ELSE b
<1>1. Min({a, b}) \in {a, b} /\ Min({a, b}) <= a /\ Min({a, b}) <= b
  BY MinIsMember
<1> QED BY <1>1

-----------------------------------------------------------------------------
(* What the resolver lists.                                                *)

(* The hits of a query, as options: the first MAX_CANDIDATES of them, each *)
(* once, with the name it has; and a name that contains a query is not     *)
(* empty.                                                                  *)
LEMMA CandidatesListed ==
  ASSUME names \in [Ids -> Names], NEW query \in Seq(Pieces)
  PROVE  /\ IsFiniteSet(Hits(query)) /\ Cardinality(Hits(query)) \in Nat
         /\ Candidates(query) \in Seq(Option)
         /\ Len(Candidates(query)) = Min({MaxCandidates, Cardinality(Hits(query))})
         /\ \A k \in DOMAIN Candidates(query) : Candidates(query)[k].label # <<>>
         /\ IsInjective([k \in DOMAIN Candidates(query) |-> Candidates(query)[k].id])
<1> DEFINE hits == Hits(query)
           size == Cardinality(hits)
           len  == Min({MaxCandidates, size})
           ids  == ListedIds(hits)
<1>1. hits \in SUBSET Int /\ IsFiniteSet(hits) /\ hits \in SUBSET Ids /\ size \in Nat
  <2>1. hits \in SUBSET Ids
    BY DEF Hits
  <2>2. Ids \subseteq Nat /\ IsFiniteSet(Ids)
    BY DialogueAssumption DEF DialogueAssumption
  <2>3. hits \in SUBSET Int
    BY <2>1, <2>2
  <2>4. IsFiniteSet(hits)
    BY <2>1, <2>2, FS_Subset
  <2> QED BY <2>1, <2>3, <2>4, FS_CardinalityType
<1>2. MaxCandidates \in Nat
  BY DialogueAssumption DEF DialogueAssumption
<1>3. len \in Nat /\ len <= size
  BY <1>1, <1>2, MinOfTwo
<1>4. /\ InOrder(hits) \in Seq(hits) /\ Len(InOrder(hits)) = size
      /\ \A n \in 1..size : InOrder(hits)[n] \in hits
      /\ IsInjective(InOrder(hits))
  BY <1>1, InOrderLists
<1>5. ids = SubSeq(InOrder(hits), 1, len)
  BY DEF ListedIds
<1>6. /\ ids \in Seq(hits) /\ Len(ids) = len
      /\ \A n \in 1..len : ids[n] = InOrder(hits)[n]
  <2>1. \A n \in 1..len : InOrder(hits)[n] \in hits
    BY <1>1, <1>3, <1>4
  <2>2. /\ SubSeq(InOrder(hits), 1, len) \in Seq(hits)
        /\ Len(SubSeq(InOrder(hits), 1, len)) = IF 1 <= len THEN len - 1 + 1 ELSE 0
        /\ \A n \in 1..(len - 1 + 1) : SubSeq(InOrder(hits), 1, len)[n] = InOrder(hits)[1 + n - 1]
    <3> HIDE DEF len, hits
    <3> QED BY <1>3, <2>1, SubSeqProperties
  <2>3. \A n \in 1..len : 1 + n - 1 = n
    BY <1>3
  <2> HIDE DEF len, hits
  <2> QED BY <1>3, <1>5, <2>2, <2>3
<1>7. DOMAIN ids = 1..len
  BY <1>6
<1> HIDE DEF len, ids
<1>8. Candidates(query) = [k \in 1..len |-> [id |-> ids[k], label |-> names[ids[k]]]]
  BY <1>7 DEF Candidates, ids
<1>9. \A k \in 1..len : ids[k] \in hits
  BY <1>6
<1>10. \A k \in 1..len : ids[k] \in Ids /\ names[ids[k]] \in Names
  BY <1>1, <1>9
<1>11. \A k \in 1..len : [id |-> ids[k], label |-> names[ids[k]]] \in Option
  BY <1>10 DEF Option
<1>12. Candidates(query) \in [1..len -> Option]
  BY <1>8, <1>11
<1>13. Candidates(query) \in Seq(Option) /\ Len(Candidates(query)) = len
       /\ DOMAIN Candidates(query) = 1..len
  BY <1>3, <1>12
<1>14. \A k \in 1..len : /\ Candidates(query)[k].id = ids[k]
                         /\ Candidates(query)[k].label = names[ids[k]]
  BY <1>8
<1>15. ASSUME NEW k \in 1..len PROVE names[ids[k]] # <<>>
  <2>1. query # <<>> /\ Starts(query, names[ids[k]]) # {}
    BY <1>9 DEF hits, Hits, In
  <2>2. Len(query) \in Nat \ {0}
    BY <2>1
  <2>3. Len(<<>>) - Len(query) + 1 <= 0
    BY <2>2
  <2>4. Starts(query, <<>>) = {}
    BY <2>2, <2>3 DEF Starts
  <2> QED BY <2>1, <2>4
<1>16. \A j, k \in 1..len : ids[j] = ids[k] => j = k
  <2>1. 1..len \subseteq DOMAIN InOrder(hits)
    BY <1>1, <1>3, <1>4
  <2>2. \A j, k \in DOMAIN InOrder(hits) : InOrder(hits)[j] = InOrder(hits)[k] => j = k
    BY <1>4 DEF IsInjective
  <2> QED BY <1>6, <2>1, <2>2
<1>17. IsInjective([k \in DOMAIN Candidates(query) |-> Candidates(query)[k].id])
  BY <1>13, <1>14, <1>16 DEF IsInjective
<1> QED BY <1>1, <1>13, <1>14, <1>15, <1>17 DEF len

-----------------------------------------------------------------------------
(* Types.                                                                  *)

(* A clarification: what was asked, what was searched, what was offered.   *)
Clarification == [question : Seq(Pieces), query : Seq(Pieces), options : Seq(Option)]

Offered(p) ==
  /\ p \in Clarification
  /\ \A i \in DOMAIN p.options : p.options[i].label # <<>>
  /\ p # NoPending => /\ Len(p.options) \in 2..MaxCandidates
                     /\ IsInjective([i \in DOMAIN p.options |-> p.options[i].id])

(* The type invariant, with the shape of the texts and of the message that *)
(* is being answered.                                                      *)
TypeInv ==
  /\ names \in [Ids -> Names]
  /\ pc \in {"idle", "resolve"}
  /\ answer.kind \in {"none", "asked", "found", "nothing", "failed"} /\ answer.id \in Ids \cup {0}
  /\ chosen \in Option \cup {NoOption}
  /\ Offered(pending) /\ Offered(typed.to)
  /\ question \in Seq(Pieces)
  /\ typed \in [text : Seq(Pieces), to : Clarification]
  /\ answer.kind = "asked" => pending # NoPending

LEMMA NothingOffered == Offered(NoPending) /\ NoPending \in Clarification
<1>1. <<>> \in Seq(Pieces) /\ <<>> \in Seq(Option)
  BY EmptySeq
<1> QED BY <1>1 DEF Offered, Clarification, NoPending

(* Names and messages are texts.                                           *)
LEMMA Words ==
  /\ Names \subseteq Seq(Pieces)
  /\ \A text \in Messages : text \in Seq(Pieces) /\ text # <<>>
BY DialogueAssumption DEF DialogueAssumption

(* The places where a stands in b.                                         *)
LEMMA StartsType ==
  ASSUME NEW a \in Seq(Pieces), NEW b \in Seq(Pieces)
  PROVE  /\ Starts(a, b) \in SUBSET Nat
         /\ \A k \in Starts(a, b) : /\ k \in 1..(Len(b) - Len(a) + 1)
                                    /\ SubSeq(b, k, k + Len(a) - 1) = a
BY DEF Starts

(* A part of a text, piece by piece.                                       *)
LEMMA PartIs ==
  ASSUME NEW b \in Seq(Pieces), NEW k \in Nat, NEW m \in Nat, NEW last, last = k + m - 1,
         1 <= k, last <= Len(b),
         NEW c \in [1..m -> Pieces], \A n \in 1..m : b[k + n - 1] = c[n]
  PROVE  SubSeq(b, k, last) = c
<1>1. last \in Int /\ k \in Int /\ last - k + 1 = m /\ \A n \in k..last : b[n] \in Pieces
  OBVIOUS
<1>2. /\ SubSeq(b, k, last) \in Seq(Pieces)
      /\ Len(SubSeq(b, k, last)) = IF k <= last THEN last - k + 1 ELSE 0
      /\ \A n \in 1..(last - k + 1) : SubSeq(b, k, last)[n] = b[k + n - 1]
  BY <1>1, SubSeqProperties
<1>3. Len(SubSeq(b, k, last)) = m
  <2>1. k <= last \/ m = 0
    BY <1>1
  <2>2. m = 0 => ~(k <= last)
    BY <1>1
  <2> QED BY <1>1, <1>2, <2>1, <2>2
<1>4. SubSeq(b, k, last) = [n \in 1..m |-> SubSeq(b, k, last)[n]]
  <2>1. PICK part \in Seq(Pieces) : part = SubSeq(b, k, last) /\ Len(part) = m
    BY <1>2, <1>3
  <2>2. part = [n \in 1..m |-> part[n]]
    BY <2>1
  <2> QED BY <2>1, <2>2
<1>5. \A n \in 1..m : SubSeq(b, k, last)[n] = c[n]
  BY <1>1, <1>2
<1>6. c = [n \in 1..m |-> c[n]]
  OBVIOUS
<1> QED BY <1>4, <1>5, <1>6

(* A text with another in the place of a part of it is a text.             *)
LEMMA ReplacedType ==
  ASSUME NEW a \in Seq(Pieces), NEW b \in Seq(Pieces), NEW c \in Seq(Pieces), In(a, b)
  PROVE  Replaced(a, b, c) \in Seq(Pieces)
<1>0. PICK k : k = Min(Starts(a, b))
  OBVIOUS
<1>1. k \in 1..(Len(b) - Len(a) + 1)
  <2>1. Starts(a, b) # {}
    BY DEF In
  <2>2. k \in Starts(a, b)
    BY <1>0, <2>1, StartsType, MinIsMember
  <2> QED BY <2>2, StartsType
<1>2. Len(a) \in Nat /\ Len(b) \in Nat /\ k \in Nat /\ k >= 1 /\ k + Len(a) - 1 <= Len(b)
  BY <1>1
<1>3. SubSeq(b, 1, k - 1) \in Seq(Pieces)
  <2>1. \A n \in 1..(k - 1) : b[n] \in Pieces
    BY <1>2
  <2> QED BY <1>2, <2>1, SubSeqProperties
<1>4. SubSeq(b, k + Len(a), Len(b)) \in Seq(Pieces)
  <2>1. \A n \in (k + Len(a))..Len(b) : b[n] \in Pieces
    BY <1>2
  <2>2. k + Len(a) \in Int /\ Len(b) \in Int
    BY <1>2
  <2> QED BY <2>1, <2>2, SubSeqProperties
<1>5. SubSeq(b, 1, k - 1) \o c \in Seq(Pieces)
  BY <1>3, ConcatProperties
<1>6. (SubSeq(b, 1, k - 1) \o c) \o SubSeq(b, k + Len(a), Len(b)) \in Seq(Pieces)
  BY <1>4, <1>5, ConcatProperties
<1> QED BY <1>0, <1>6 DEF Replaced

(* A rewritten question is a text.                                         *)
LEMMA RewriteType ==
  ASSUME NEW a \in Seq(Pieces), NEW b \in Seq(Pieces), NEW c \in Seq(Pieces)
  PROVE  RewriteQuestion(b, a, c) \in Seq(Pieces)
<1>1. CASE In(a, b)
  BY <1>1, ReplacedType DEF RewriteQuestion
<1>2. CASE ~In(a, b)
  <2>1. <<" ", "(">> \in Seq(Pieces) /\ <<")">> \in Seq(Pieces)
    <3>1. " " \in Pieces /\ "(" \in Pieces /\ ")" \in Pieces
      BY DialogueAssumption, Zenon DEF DialogueAssumption
    <3>2. ASSUME NEW x \in Pieces, NEW y \in Pieces
          PROVE  <<x, y>> \in Seq(Pieces) /\ <<x>> \in Seq(Pieces)
      OBVIOUS
    <3> QED BY <3>1, <3>2
  <2>2. b \o <<" ", "(">> \in Seq(Pieces)
    BY <2>1, ConcatProperties
  <2>3. (b \o <<" ", "(">>) \o c \in Seq(Pieces)
    BY <2>2, ConcatProperties
  <2>4. ((b \o <<" ", "(">>) \o c) \o <<")">> \in Seq(Pieces)
    BY <2>1, <2>3, ConcatProperties
  <2> QED BY <1>2, <2>4 DEF RewriteQuestion
<1> QED BY <1>1, <1>2

(* What is searched is a text.                                             *)
LEMMA QueriesType ==
  ASSUME NEW text \in Seq(Pieces)
  PROVE  Queries(text) \subseteq Seq(Pieces)
<1>1. \A t \in DOMAIN Entity : Entity[t] \in Seq(Pieces)
  BY DialogueAssumption DEF DialogueAssumption
<1> QED BY <1>1 DEF Queries

(* A message is taken for one of the options it was offered.               *)
LEMMA SelectsOffered ==
  ASSUME NEW text, NEW options
  PROVE  ParseSelection(text, options) \subseteq DOMAIN options
BY DEF ParseSelection, Sole

(* The types hold at first, and every step keeps them.                     *)
LEMMA TypeInitially == Init => TypeInv
<1> SUFFICES ASSUME Init PROVE TypeInv
  OBVIOUS
<1>1. Offered(pending) /\ Offered(typed.to) /\ typed \in [text : Seq(Pieces), to : Clarification]
  BY NothingOffered, EmptySeq DEF Init
<1>2. question \in Seq(Pieces)
  BY EmptySeq DEF Init
<1>3. /\ names \in [Ids -> Names] /\ pc = "idle" /\ chosen = NoOption
      /\ answer.kind = "none" /\ answer.id = 0
  BY DEF Init, NoAnswer
<1> QED BY <1>1, <1>2, <1>3 DEF TypeInv

LEMMA TypeKept == TypeInv /\ [Next]_dialogue => TypeInv'
<1> SUFFICES ASSUME TypeInv, [Next]_dialogue PROVE TypeInv'
  OBVIOUS
<1>1. CASE Say
  <2>1. PICK text \in Messages :
          /\ typed' = [text |-> text, to |-> pending]
          /\ \/ question' = text /\ chosen' = NoOption
             \/ \E i \in ParseSelection(text, pending.options) :
                  /\ chosen' = pending.options[i]
                  /\ question' = RewriteQuestion(pending.question, pending.query, chosen'.label)
    BY <1>1 DEF Say
  <2>2. /\ pending' = NoPending /\ answer' = NoAnswer /\ pc' = "resolve" /\ names' = names
    BY <1>1 DEF Say
  <2>3. text \in Seq(Pieces) /\ pending \in Clarification
    BY Words DEF TypeInv, Offered
  <2>4. question' \in Seq(Pieces) /\ chosen' \in Option \cup {NoOption}
    <3>1. CASE question' = text /\ chosen' = NoOption
      BY <2>3, <3>1
    <3>2. ASSUME NEW i \in ParseSelection(text, pending.options), chosen' = pending.options[i],
                 question' = RewriteQuestion(pending.question, pending.query, chosen'.label)
          PROVE  question' \in Seq(Pieces) /\ chosen' \in Option \cup {NoOption}
      <4>1. /\ pending.options \in Seq(Option) /\ i \in DOMAIN pending.options
            /\ pending.question \in Seq(Pieces) /\ pending.query \in Seq(Pieces)
        BY <2>3, SelectsOffered DEF Clarification
      <4>2. chosen' \in Option
        BY <3>2, <4>1
      <4>3. chosen'.label \in Seq(Pieces)
        BY <4>2, Words DEF Option
      <4> QED BY <3>2, <4>1, <4>2, <4>3, RewriteType
    <3> QED BY <2>1, <3>1, <3>2
  <2>5. typed' \in [text : Seq(Pieces), to : Clarification] /\ typed'.to = pending
    BY <2>1, <2>3
  <2>6. Offered(pending)' /\ Offered(typed.to)'
    BY <2>2, <2>5, NothingOffered DEF TypeInv, Offered
  <2>7. answer'.kind = "none" /\ answer'.id = 0
    BY <2>2 DEF NoAnswer
  <2> QED BY <2>2, <2>4, <2>5, <2>6, <2>7 DEF TypeInv
<1>2. CASE Resolve
  <2>1. /\ pc' = "idle" /\ names' = names /\ question' = question /\ chosen' = chosen /\ typed' = typed
    BY <1>2 DEF Resolve
  <2>2. PICK query \in Queries(question) :
          \/ Found(ById(query)) /\ UNCHANGED pending
          \/ Found(Clear(query)) /\ UNCHANGED pending
          \/ answer' = [kind |-> "nothing", id |-> 0] /\ UNCHANGED pending
          \/ /\ Hits(query) # {} /\ Clear(query) = {}
             /\ answer' = [kind |-> "asked", id |-> 0]
             /\ pending' = [question |-> question, query |-> query, options |-> Candidates(query)]
    BY <1>2 DEF Resolve
  <2>3. query \in Seq(Pieces)
    BY QueriesType DEF TypeInv
  <2>4. ById(query) \subseteq Ids /\ Clear(query) \subseteq Ids
    BY DEF ById, Clear, Sole, Exact, Hits
  <2>5. CASE UNCHANGED pending /\ (Found(ById(query)) \/ Found(Clear(query)))
    <3>1. answer'.kind = "found" /\ answer'.id \in Ids
      BY <2>4, <2>5 DEF Found
    <3> QED BY <2>1, <2>5, <3>1 DEF TypeInv, Offered
  <2>6. CASE UNCHANGED pending /\ answer' = [kind |-> "nothing", id |-> 0]
    BY <2>1, <2>6 DEF TypeInv, Offered
  <2>7. CASE /\ Hits(query) # {} /\ Clear(query) = {}
             /\ answer' = [kind |-> "asked", id |-> 0]
             /\ pending' = [question |-> question, query |-> query, options |-> Candidates(query)]
    <3>1. /\ Cardinality(Hits(query)) \in Nat /\ Candidates(query) \in Seq(Option)
          /\ Len(Candidates(query)) = Min({MaxCandidates, Cardinality(Hits(query))})
          /\ \A k \in DOMAIN Candidates(query) : Candidates(query)[k].label # <<>>
          /\ IsInjective([k \in DOMAIN Candidates(query) |-> Candidates(query)[k].id])
      BY <2>3, CandidatesListed DEF TypeInv
    <3>2. ~(Cardinality(Hits(query)) <= 1)
      BY <2>7 DEF Clear
    <3>3. MaxCandidates \in Nat \ {0, 1}
      BY DialogueAssumption DEF DialogueAssumption
    <3>4. Len(Candidates(query)) \in 2..MaxCandidates
      BY <3>1, <3>2, <3>3, MinOfTwo
    <3>5. /\ pending'.question = question /\ pending'.query = query
          /\ pending'.options = Candidates(query) /\ pending' \in Clarification
      BY <2>3, <2>7, <3>1 DEF TypeInv, Clarification
    <3>6. pending' # NoPending
      <4>1. Len(<<>>) = 0
        OBVIOUS
      <4>2. NoPending.options = <<>>
        BY DEF NoPending
      <4> QED BY <3>3, <3>4, <3>5, <4>1, <4>2
    <3>7. Offered(pending)'
      BY <3>1, <3>4, <3>5 DEF Offered
    <3>8. answer'.kind = "asked" /\ answer'.id = 0
      BY <2>7
    <3> QED BY <2>1, <3>6, <3>7, <3>8 DEF TypeInv, Offered
  <2> QED BY <2>2, <2>5, <2>6, <2>7
<1>3. CASE Unresolved
  <2>1. answer'.kind = "failed" /\ answer'.id = 0
    BY <1>3 DEF Unresolved
  <2> QED BY <1>3, <2>1 DEF Unresolved, TypeInv, Offered
<1>4. CASE Rename
  <2>1. answer'.kind = "none" /\ answer'.id = 0
    BY <1>4 DEF Rename, NoAnswer
  <2>2. names' \in [Ids -> Names]
    <3>1. PICK i \in Ids, n \in Names : names' = [names EXCEPT ![i] = n]
      BY <1>4 DEF Rename
    <3> QED BY <3>1 DEF TypeInv
  <2>3. UNCHANGED <<pending, pc, question, chosen, typed>>
    BY <1>4 DEF Rename
  <2> QED BY <2>1, <2>2, <2>3 DEF TypeInv, Offered
<1>5. CASE UNCHANGED dialogue
  BY <1>5 DEF dialogue, TypeInv, Offered
<1> QED BY <1>1, <1>2, <1>3, <1>4, <1>5 DEF Next

LEMMA AlwaysTyped == DialogueSpec => []TypeInv
<1> QED BY TypeInitially, TypeKept, PTL DEF DialogueSpec

(* The types, and: a clarification that waits offers at least two options  *)
(* and at most MAX_CANDIDATES, each another record, and an answer that     *)
(* asks leaves one waiting.                                                *)
THEOREM DialogueTypeCorrect == DialogueSpec => []DialogueTypeOK
<1>1. TypeInv => DialogueTypeOK
  BY DEF TypeInv, Offered, Clarification, DialogueTypeOK
<1> QED BY <1>1, AlwaysTyped, PTL

-----------------------------------------------------------------------------
(* What a reply is taken for.                                              *)

(* A text that is not empty is part of itself.                             *)
LEMMA InItself ==
  ASSUME NEW text \in Seq(Pieces), text # <<>>
  PROVE  In(text, text)
<1>1. SubSeq(text, 1, 1 + Len(text) - 1) = text
  <2>1. 1 + Len(text) - 1 = Len(text)
    OBVIOUS
  <2> QED BY <2>1, SubSeqFull
<1>2. 1 \in 1..(Len(text) - Len(text) + 1)
  OBVIOUS
<1>3. 1 \in Starts(text, text)
  BY <1>1, <1>2 DEF Starts
<1> QED BY <1>3 DEF In

LEMMA SoleIs ==
  ASSUME NEW S, Sole(S) # {}
  PROVE  Sole(S) = S /\ Cardinality(S) = 1
BY DEF Sole

LEMMA OnlyMember ==
  ASSUME NEW S, IsFiniteSet(S), Cardinality(S) <= 1, NEW x \in S
  PROVE  S = {x}
<1>1. Cardinality(S) \in Nat /\ Cardinality(S) # 0
  BY FS_CardinalityType, FS_EmptySet
<1>2. Cardinality(S) = 1
  BY <1>1
<1>3. \E y : S = {y}
  BY <1>2, FS_Singleton
<1> QED BY <1>3

(* A reply without a number that is an option's whole label selects only   *)
(* options of that label; and only it, when it selects anything and no     *)
(* other option has the label.                                             *)
LEMMA LabelSelects ==
  ASSUME NEW text \in Seq(Pieces), text # <<>>, NEW options \in Seq(Option),
         ParseOrdinal(text) = 0, NEW j \in DOMAIN options, options[j].label = text
  PROVE  ParseSelection(text, options) # {} => ParseSelection(text, options) = {j}
<1> DEFINE matches   == {i \in DOMAIN options : In(text, options[i].label)}
           contained == {i \in DOMAIN options : In(options[i].label, text)}
<1>1. DOMAIN options = 1..Len(options) /\ Len(options) \in Nat
  OBVIOUS
<1>2. ParseSelection(text, options) =
        IF Sole(matches) # {} THEN matches ELSE Sole(contained)
  <2>1. 0 \notin DOMAIN options
    BY <1>1
  <2> QED BY <2>1 DEF ParseSelection
<1>3. j \in matches /\ j \in contained
  BY InItself
<1>4. IsFiniteSet(matches) /\ IsFiniteSet(contained)
  <2>1. IsFiniteSet(DOMAIN options)
    BY <1>1, FS_Interval
  <2>2. matches \in SUBSET DOMAIN options /\ contained \in SUBSET DOMAIN options
    OBVIOUS
  <2> QED BY <2>1, <2>2, FS_Subset
<1> HIDE DEF matches, contained
<1>5. Sole(matches) # {} => matches = {j}
  BY <1>3, <1>4, SoleIs, OnlyMember
<1>6. Sole(contained) # {} => Sole(contained) = {j}
  BY <1>3, <1>4, SoleIs, OnlyMember
<1> QED BY <1>2, <1>5, <1>6

(* The number of an option selects it.                                     *)
LEMMA NumberSelects ==
  ASSUME NEW text \in Seq(Pieces), text # <<>>, NEW options, NEW j \in DOMAIN options,
         IsNumber(text), Number[text] = j
  PROVE  ParseSelection(text, options) = {j}
<1>1. Len(text) \in Nat /\ Len(text) \in 1..Len(text)
  BY EmptySeq
<1>2. SubSeq(text, 1, Len(text)) = text
  BY SubSeqFull
<1>3. Len(text) \in Leading(text) /\ \A n \in Leading(text) : n \in Nat /\ Len(text) >= n
  <2>1. Len(text) \in Leading(text)
    BY <1>1, <1>2 DEF Leading, IsNumber
  <2>2. ASSUME NEW n \in Leading(text) PROVE n \in Nat /\ Len(text) >= n
    <3>1. n \in 1..Len(text)
      BY DEF Leading
    <3> QED BY <1>1, <3>1
  <2> QED BY <2>1, <2>2
<1>4. Max(Leading(text)) = Len(text)
  <2>1. Max(Leading(text)) \in Leading(text) /\ \A y \in Leading(text) : Max(Leading(text)) >= y
    BY <1>3 DEF Max
  <2> QED BY <1>1, <1>3, <2>1
<1>5. ParseOrdinal(text) = j
  BY <1>2, <1>3, <1>4 DEF ParseOrdinal
<1> QED BY <1>5 DEF ParseSelection

(* What the turn answers is what was typed, when that selects nothing, or  *)
(* the pending question with the selected option's label in it.            *)
TurnInv ==
  /\ typed.text # <<>> \/ typed.to = NoPending
  /\ chosen # NoOption => \E i \in ParseSelection(typed.text, typed.to.options) :
                            chosen = typed.to.options[i]
  /\ pc = "resolve" =>
       \/ /\ ParseSelection(typed.text, typed.to.options) = {}
          /\ question = typed.text
       \/ \E i \in ParseSelection(typed.text, typed.to.options) :
            question = RewriteQuestion(typed.to.question, typed.to.query, typed.to.options[i].label)

LEMMA TurnInitially == Init => TurnInv
BY DEF Init, TurnInv

LEMMA TurnKept == TypeInv /\ TurnInv /\ [Next]_dialogue => TurnInv'
<1> SUFFICES ASSUME TypeInv, TurnInv, [Next]_dialogue PROVE TurnInv'
  OBVIOUS
<1>1. CASE Say
  <2>1. PICK text \in Messages :
          /\ typed' = [text |-> text, to |-> pending]
          /\ \/ /\ ParseSelection(text, pending.options) = {}
                /\ question' = text /\ chosen' = NoOption
             \/ \E i \in ParseSelection(text, pending.options) :
                  /\ chosen' = pending.options[i]
                  /\ question' = RewriteQuestion(pending.question, pending.query, chosen'.label)
    BY <1>1 DEF Say
  <2>2. typed'.text = text /\ typed'.to = pending /\ text # <<>>
    BY <2>1, Words
  <2> QED BY <2>1, <2>2 DEF TurnInv
<1>2. CASE Resolve
  BY <1>2 DEF Resolve, TurnInv
<1>3. CASE Unresolved
  BY <1>3 DEF Unresolved, TurnInv
<1>4. CASE Rename
  BY <1>4 DEF Rename, TurnInv
<1>5. CASE UNCHANGED dialogue
  BY <1>5 DEF dialogue, TurnInv
<1> QED BY <1>1, <1>2, <1>3, <1>4, <1>5 DEF Next

LEMMA AlwaysTurned == DialogueSpec => [](TypeInv /\ TurnInv)
<1>1. Init => TypeInv /\ TurnInv
  BY TypeInitially, TurnInitially
<1>2. TypeInv /\ TurnInv /\ [Next]_dialogue => (TypeInv /\ TurnInv)'
  BY TypeKept, TurnKept
<1> QED BY <1>1, <1>2, PTL DEF DialogueSpec

(* A reply that is the whole label of an option, and has no number or      *)
(* ordinal word in it, is never taken for an option with another label,    *)
(* however the labels are parts of each other.                             *)
THEOREM NamedNeverAnother == DialogueSpec => []NamedIsNotAnother
<1>1. ASSUME TypeInv, TurnInv, chosen # NoOption, ParseOrdinal(typed.text) = 0,
             NEW j \in DOMAIN typed.to.options, typed.to.options[j].label = typed.text
      PROVE  chosen.label = typed.text
  <2>1. PICK i \in ParseSelection(typed.text, typed.to.options) : chosen = typed.to.options[i]
    BY <1>1 DEF TurnInv
  <2>2. typed.text \in Seq(Pieces) /\ typed.to.options \in Seq(Option)
    BY <1>1 DEF TypeInv, Clarification
  <2>3. typed.text # <<>>
    <3>1. typed.to # NoPending
      BY <1>1 DEF NoPending
    <3> QED BY <1>1, <3>1 DEF TurnInv
  <2>4. ParseSelection(typed.text, typed.to.options) = {j}
    BY <1>1, <2>1, <2>2, <2>3, LabelSelects
  <2> QED BY <1>1, <2>1, <2>4
<1>2. TypeInv /\ TurnInv => NamedIsNotAnother
  BY <1>1 DEF NamedIsNotAnother
<1> QED BY <1>2, AlwaysTurned, PTL

-----------------------------------------------------------------------------
(* What is searched for the reply, and what is found.                      *)

(* Where the query stands first in the question, the label comes to stand, *)
(* and what is before and after it stays.                                  *)
LEMMA LabelTakesThePlace ==
  ASSUME NEW before \in Seq(Pieces), NEW after \in Seq(Pieces), NEW a \in Seq(Pieces), a # <<>>,
         NEW c \in Seq(Pieces),
         \A k \in Starts(a, (before \o a) \o after) : k > Len(before)
  PROVE  RewriteQuestion((before \o a) \o after, a, c) = (before \o c) \o after
<1>0. PICK b : b = (before \o a) \o after
  OBVIOUS
<1>1. /\ before \o a \in Seq(Pieces) /\ Len(before \o a) = Len(before) + Len(a)
      /\ \A n \in 1..(Len(before) + Len(a)) :
           (before \o a)[n] = IF n <= Len(before) THEN before[n] ELSE a[n - Len(before)]
  BY ConcatProperties
<1>2. /\ b \in Seq(Pieces) /\ Len(b) = Len(before \o a) + Len(after)
      /\ \A n \in 1..(Len(before \o a) + Len(after)) :
           b[n] = IF n <= Len(before \o a) THEN (before \o a)[n] ELSE after[n - Len(before \o a)]
  BY <1>0, <1>1, ConcatProperties
<1>3. PICK p, m, q : p = Len(before) /\ m = Len(a) /\ q = Len(after)
  OBVIOUS
<1>4. /\ p \in Nat /\ m \in Nat /\ q \in Nat /\ m >= 1 /\ Len(b) = p + m + q
      /\ before \in [1..p -> Pieces] /\ a \in [1..m -> Pieces] /\ after \in [1..q -> Pieces]
      /\ b \in [1..(p + m + q) -> Pieces]
  BY <1>1, <1>2, <1>3, EmptySeq
<1>5. \A n \in 1..p : b[n] = before[n]
  <2> SUFFICES ASSUME NEW n \in 1..p PROVE b[n] = before[n]
    OBVIOUS
  <2>1. n \in 1..(p + m) /\ n \in 1..(p + m + q) /\ n <= p /\ n <= p + m
    BY <1>4
  <2>2. (before \o a)[n] = before[n]
    BY <1>1, <1>3, <2>1
  <2> QED BY <1>1, <1>2, <1>3, <2>1, <2>2
<1>6. \A n \in 1..m : b[p + 1 + n - 1] = a[n]
  <2> SUFFICES ASSUME NEW n \in 1..m PROVE b[p + 1 + n - 1] = a[n]
    OBVIOUS
  <2>0. PICK i : i = p + 1 + n - 1
    OBVIOUS
  <2>1. i \in 1..(p + m) /\ i \in 1..(p + m + q) /\ ~(i <= p) /\ i <= p + m /\ i - p = n
    BY <1>4, <2>0
  <2>2. (before \o a)[i] = a[i - p]
    BY <1>1, <1>3, <2>1
  <2>3. b[i] = (before \o a)[i]
    BY <1>1, <1>2, <1>3, <2>1
  <2> QED BY <2>0, <2>1, <2>2, <2>3
<1>7. \A n \in 1..q : b[p + m + 1 + n - 1] = after[n]
  <2> SUFFICES ASSUME NEW n \in 1..q PROVE b[p + m + 1 + n - 1] = after[n]
    OBVIOUS
  <2>0. PICK i : i = p + m + 1 + n - 1
    OBVIOUS
  <2>1. i \in 1..(p + m + q) /\ ~(i <= p + m) /\ i - (p + m) = n
    BY <1>4, <2>0
  <2>2. b[i] = after[i - (p + m)]
    BY <1>1, <1>2, <1>3, <2>1
  <2> QED BY <2>0, <2>1, <2>2
<1>8. SubSeq(b, 1, p) = before
  <2>1. \A n \in 1..p : 1 + n - 1 = n
    BY <1>4
  <2> QED BY <1>4, <1>5, <2>1, PartIs
<1>9. SubSeq(b, p + 1, p + m) = a
  BY <1>4, <1>6, PartIs
<1>10. SubSeq(b, p + m + 1, p + m + q) = after
  BY <1>4, <1>7, PartIs
<1>11. p + 1 \in Starts(a, b)
  <2>1. p + 1 \in 1..(Len(b) - Len(a) + 1) /\ p + 1 + Len(a) - 1 = p + m
    BY <1>3, <1>4
  <2> QED BY <1>9, <2>1 DEF Starts
<1>12. In(a, b)
  BY <1>11 DEF In
<1>13. Min(Starts(a, b)) = p + 1
  <2>1. Starts(a, b) \in SUBSET Nat
    BY <1>2, StartsType
  <2>2. /\ Min(Starts(a, b)) \in Starts(a, b) /\ Min(Starts(a, b)) \in Nat
        /\ Min(Starts(a, b)) <= p + 1
    BY <1>11, <2>1, MinIsMember
  <2>3. Min(Starts(a, b)) > p
    BY <1>0, <1>3, <2>2
  <2> QED BY <1>4, <2>2, <2>3
<1>14. Replaced(a, b, c) = (before \o c) \o after
  <2>1. PICK k : k = p + 1
    OBVIOUS
  <2>2. k - 1 = p /\ k + Len(a) = p + m + 1 /\ Len(b) = p + m + q
    BY <1>3, <1>4, <2>1
  <2>3. Replaced(a, b, c) = (SubSeq(b, 1, k - 1) \o c) \o SubSeq(b, k + Len(a), Len(b))
    BY <1>13, <2>1, Zenon DEF Replaced
  <2> QED BY <1>8, <1>10, <2>2, <2>3, Zenon
<1> QED BY <1>0, <1>12, <1>14 DEF RewriteQuestion

(* Put in the place of the query, a name is what is searched next, and     *)
(* nothing else; and so is a name that is typed alone.                     *)
LEMMA RewriteIsSearched ==
  ASSUME NEW asked \in Clarification, NamesOnce(asked), NEW label \in Names
  PROVE  Queries(RewriteQuestion(asked.question, asked.query, label)) = {label}
<1>1. PICK f \in Forms :
        /\ asked.question = (f.before \o asked.query) \o f.after
        /\ asked.query # <<>>
        /\ \A k \in Starts(asked.query, asked.question) : k > Len(f.before)
  BY DEF NamesOnce
<1>2. /\ f.before \in Seq(Pieces) /\ f.after \in Seq(Pieces)
      /\ asked.query \in Seq(Pieces) /\ label \in Seq(Pieces)
  BY Words, DialogueAssumption DEF DialogueAssumption, Clarification
<1>3. RewriteQuestion(asked.question, asked.query, label) = (f.before \o label) \o f.after
  <2>1. PICK before, after, query : before = f.before /\ after = f.after /\ query = asked.query
    OBVIOUS
  <2>2. \A k \in Starts(query, (before \o query) \o after) : k > Len(before)
    BY <1>1, <2>1
  <2>3. RewriteQuestion((before \o query) \o after, query, label) = (before \o label) \o after
    <3>1. before \in Seq(Pieces) /\ after \in Seq(Pieces) /\ query \in Seq(Pieces) /\ query # <<>>
      BY <1>1, <1>2, <2>1
    <3> QED BY <1>2, <2>2, <3>1, LabelTakesThePlace
  <2> QED BY <1>1, <2>1, <2>3
<1> QED BY <1>3, PlannerAssumption DEF PlannerAssumption

LEMMA LabelIsSearched ==
  ASSUME NEW label \in Names
  PROVE  Queries(label) = {label}
<1> DEFINE alone == [before |-> <<>>, after |-> <<>>]
<1>1. alone \in Forms
  BY PlannerAssumption DEF PlannerAssumption
<1>2. Queries((alone.before \o label) \o alone.after) = {label}
  BY <1>1, PlannerAssumption DEF PlannerAssumption
<1>3. (<<>> \o label) \o <<>> = label
  BY Words, ConcatEmptySeq
<1> QED BY <1>2, <1>3

(* A query that is the name of one record only finds that record: there is *)
(* no question, whatever other names contain it.                           *)
LEMMA OneBearerIsClear ==
  ASSUME NEW label \in Seq(Pieces), label # <<>>, ~IsNumber(label),
         NEW id \in Ids, Bearers(label) = {id}
  PROVE  ById(label) = {} /\ Hits(label) # {} /\ Clear(label) = {id}
<1>1. ById(label) = {}
  BY DEF ById, IsNumber
<1>2. id \in Hits(label)
  <2>1. names[id] = label
    BY DEF Bearers
  <2> QED BY <2>1, InItself DEF Hits
<1>3. Exact(label) = {id}
  BY <1>2 DEF Exact, Bearers, Hits
<1>4. Sole(Exact(label)) = {id}
  BY <1>3, FS_Singleton DEF Sole
<1>5. IsFiniteSet(Hits(label))
  <2>1. Hits(label) \in SUBSET Ids
    BY DEF Hits
  <2> QED BY <2>1, DialogueAssumption, FS_Subset DEF DialogueAssumption
<1>6. Cardinality(Hits(label)) <= 1 => Hits(label) = {id}
  BY <1>2, <1>5, OnlyMember
<1> QED BY <1>1, <1>2, <1>4, <1>6 DEF Clear

(* While the turn resolves, the question it resolves is searched by the    *)
(* label of the option that was meant, and by nothing else.                *)
LEMMA MeantIsSearched ==
  ASSUME TypeInv, TurnInv, pc = "resolve", NamesOnce(typed.to),
         NEW i \in Meant(typed.text, typed.to.options)
  PROVE  /\ i \in DOMAIN typed.to.options /\ typed.to.options[i] \in Option
         /\ typed.to.options[i].label # <<>>
         /\ Queries(question) = {typed.to.options[i].label}
<1> DEFINE options == typed.to.options
           label   == options[i].label
<1>1. /\ typed.to \in Clarification /\ options \in Seq(Option) /\ i \in DOMAIN options
      /\ options[i] \in Option /\ label # <<>>
  BY DEF TypeInv, Offered, Clarification, Meant
<1>2. typed.text \in Seq(Pieces) /\ typed.text # <<>>
  <2>1. typed.to # NoPending
    BY <1>1 DEF NoPending
  <2> QED BY <2>1 DEF TypeInv, TurnInv
<1>3. label \in Names
  BY <1>1 DEF Option
<1>4. /\ ParseSelection(typed.text, options) # {} => ParseSelection(typed.text, options) = {i}
      /\ ParseSelection(typed.text, options) = {} => label = typed.text
  <2>1. CASE IsNumber(typed.text) /\ Number[typed.text] = i
    BY <1>1, <1>2, <2>1, NumberSelects
  <2>2. CASE ParseOrdinal(typed.text) = 0 /\ label = typed.text
    BY <1>1, <1>2, <2>2, LabelSelects
  <2>3. \/ IsNumber(typed.text) /\ Number[typed.text] = i
        \/ ParseOrdinal(typed.text) = 0 /\ label = typed.text
    BY <1>1 DEF Meant
  <2> QED BY <2>1, <2>2, <2>3
<1>5. \/ question = label
      \/ question = RewriteQuestion(typed.to.question, typed.to.query, label)
  BY <1>4 DEF TurnInv
<1>6. Queries(question) = {label}
  BY <1>1, <1>3, <1>5, LabelIsSearched, RewriteIsSearched
<1> QED BY <1>1, <1>6

LEMMA MeantInitially == Init => MeantIsResolved
<1>1. Init => answer.kind = "none"
  BY DEF Init, NoAnswer
<1> QED BY <1>1 DEF MeantIsResolved

LEMMA MeantKept == TypeInv /\ TurnInv /\ MeantIsResolved /\ [Next]_dialogue => MeantIsResolved'
<1> SUFFICES ASSUME TypeInv, TurnInv, MeantIsResolved, [Next]_dialogue PROVE MeantIsResolved'
  OBVIOUS
<1>1. CASE Say
  <2>1. answer'.kind = "none"
    BY <1>1 DEF Say, NoAnswer
  <2> QED BY <2>1 DEF MeantIsResolved
<1>2. CASE Resolve
  <2>1. pc = "resolve" /\ names' = names /\ typed' = typed
    BY <1>2 DEF Resolve
  <2>2. ASSUME NamesOnce(typed.to), NEW i \in Meant(typed.text, typed.to.options),
               Bearers(typed.to.options[i].label) = {typed.to.options[i].id},
               ~IsNumber(typed.to.options[i].label)
        PROVE  answer' = [kind |-> "found", id |-> typed.to.options[i].id]
    <3> DEFINE label == typed.to.options[i].label
               id    == typed.to.options[i].id
    <3>1. typed.to.options[i] \in Option /\ label # <<>> /\ Queries(question) = {label}
      BY <2>1, <2>2, MeantIsSearched
    <3>2. label \in Seq(Pieces) /\ id \in Ids
      BY <3>1, Words DEF Option
    <3>3. ById(label) = {} /\ Hits(label) # {} /\ Clear(label) = {id}
      BY <2>2, <3>1, <3>2, OneBearerIsClear
    <3>4. PICK query \in Queries(question) :
            \/ ById(query) # {}
            \/ Found(Clear(query))
            \/ Hits(query) = {}
            \/ Clear(query) = {}
      BY <1>2 DEF Resolve
    <3>5. query = label
      BY <3>1, <3>4
    <3>6. Found({id})
      BY <3>3, <3>4, <3>5
    <3> QED BY <3>6 DEF Found
  <2>3. \A label : Bearers(label)' = Bearers(label)
    BY <2>1 DEF Bearers
  <2> QED BY <2>1, <2>2, <2>3 DEF MeantIsResolved
<1>3. CASE Unresolved
  <2>1. answer'.kind = "failed"
    BY <1>3 DEF Unresolved
  <2> QED BY <2>1 DEF MeantIsResolved
<1>4. CASE Rename
  <2>1. answer'.kind = "none"
    BY <1>4 DEF Rename, NoAnswer
  <2> QED BY <2>1 DEF MeantIsResolved
<1>5. CASE UNCHANGED dialogue
  BY <1>5 DEF dialogue, MeantIsResolved, Bearers
<1> QED BY <1>1, <1>2, <1>3, <1>4, <1>5 DEF Next

(* Over two turns: the reply that gives an option's number or its label,   *)
(* to a question that names the entity literally, and whose characters do  *)
(* not have the entity's before that, is answered for that very record, as *)
(* long as it alone still bears the label the user was shown, and the      *)
(* label is not itself a number.                                           *)
THEOREM MeantAlwaysResolved == DialogueSpec => []MeantIsResolved
<1>1. Init => TypeInv /\ TurnInv /\ MeantIsResolved
  BY TypeInitially, TurnInitially, MeantInitially
<1>2. TypeInv /\ TurnInv /\ MeantIsResolved /\ [Next]_dialogue => (TypeInv /\ TurnInv /\ MeantIsResolved)'
  BY TypeKept, TurnKept, MeantKept
<1> QED BY <1>1, <1>2, PTL DEF DialogueSpec

=============================================================================

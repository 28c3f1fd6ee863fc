---------------------- MODULE RelationshipResolverProofs ----------------------
(***************************************************************************)
(* Whatever the records and their links, cycles included: every walk keeps *)
(* to its depth, every key whose lookup succeeded is named by the record   *)
(* it points to, every label is of bounded age, and the lookups of an      *)
(* entry are bounded by the keys of the records it reaches.                *)
(***************************************************************************)
EXTENDS RelationshipResolver, SequenceTheorems, FiniteSetTheorems, TLAPS

(* The frames: the outermost one walks the first entry, each one is at a   *)
(* field of its record or past the last, and its record is in the guard.   *)
WalkInv ==
  /\ walk # <<>> => /\ pc = "relationship_resolver" /\ inputs # <<>>
                    /\ walk[1].record = inputs[1].record
  /\ walk = <<>> => visited = {} /\ missed = {} /\ calls = 0
  /\ IsFiniteSet(visited)
  /\ \A i \in DOMAIN walk : /\ walk[i].next <= Len(Links[walk[i].record]) + 1
                            /\ walk[i].record \in visited

(* The labels of a record fit its keys: they name the records the keys     *)
(* point to, as these were at most so long before a given time.            *)
Named(r, labels, at, age) ==
  /\ labels \in Seq(Label \cup {NoLabel})
  /\ Len(labels) = Len(Links[r])
  /\ \A i \in DOMAIN Links[r] :
       labels[i] # NoLabel => labels[i].of = Links[r][i] /\ at - labels[i].at <= age

(* An object's labels were written when it was already fetched, by names   *)
(* from objects not yet expired.                                           *)
GoodObject(r, object) ==
  /\ object.at <= clock /\ object.expires <= object.at + Ttl
  /\ Named(r, object.labels, object.at, Oldest)

(* A snapshot adds the age of the object it was taken of.                  *)
GoodCopy(copy) ==
  /\ copy.at <= clock
  /\ Named(copy.record, copy.labels, copy.at, 2 * Oldest)

LabelsInv ==
  /\ \A r \in Records : GoodObject(r, cached[r])
  /\ \A i \in DOMAIN inputs : GoodCopy(inputs[i])

(* The keys of the entry that the walk is past are named or missed.        *)
EntryInv ==
  walk # <<>> =>
    \A i \in DOMAIN Links[walk[1].record] :
      i < walk[1].next /\ i \notin missed /\ Links[walk[1].record][i] # NoRecord =>
        /\ inputs[1].labels[i].of = Links[walk[1].record][i]
        /\ inputs[1].at - inputs[1].labels[i].at <= Oldest

(* The keys that were looked up: those of the guarded records, without the *)
(* ones a frame has not come to yet.                                       *)
Keys(records) ==
  {l \in records \X (1..MaxFields) : l[2] \in DOMAIN Links[l[1]] /\ Links[l[1]][l[2]] # NoRecord}
Looked(frames, records) ==
  {l \in Keys(records) : \A i \in DOMAIN frames : frames[i].record = l[1] => l[2] < frames[i].next}
CountInv == calls <= Cardinality(Looked(walk, visited))

LinksInv == LinksTypeOK /\ WalkInv /\ LabelsInv /\ EntryInv

-----------------------------------------------------------------------------
(* The walk.                                                               *)

(* The innermost frame.                                                    *)
LEMMA TopFrame ==
  ASSUME LinksTypeOK, WalkInv, walk # <<>>
  PROVE  /\ Len(walk) \in Nat \ {0} /\ DOMAIN walk = 1..Len(walk) /\ Len(walk) \in DOMAIN walk
         /\ 1 \in DOMAIN walk /\ Top = walk[Len(walk)] /\ Top \in Frame
         /\ Field \in Nat \ {0} /\ Top.depth = Len(walk) - 1 /\ Len(walk) <= MaxDepth
         /\ Top.record \in Records /\ Top.record \in visited /\ Field <= Len(Links[Top.record]) + 1
         /\ Top.depth \in Nat /\ (Top.depth = 0 <=> Len(walk) = 1)
         /\ Top.depth = 0 => Top = walk[1]
<1>1. Len(walk) \in Nat \ {0} /\ DOMAIN walk = 1..Len(walk)
  BY EmptySeq DEF LinksTypeOK
<1>2. Top = walk[Len(walk)] /\ Len(walk) \in DOMAIN walk /\ 1 \in DOMAIN walk
  BY <1>1 DEF Top, Last
<1>3. Top \in Frame
  BY <1>2 DEF LinksTypeOK
<1>4. /\ Field \in Nat \ {0} /\ Top.depth \in Nat /\ Top.record \in Records
  BY <1>3 DEF Frame, Field
<1>5. Top.record \in visited /\ Field <= Len(Links[Top.record]) + 1
  BY <1>2 DEF WalkInv, Field
<1>6. Top.depth = Len(walk) - 1 /\ Len(walk) <= MaxDepth
  BY <1>2 DEF LinksTypeOK
<1> QED BY <1>1, <1>2, <1>3, <1>4, <1>5, <1>6

(* The keys of a record.                                                   *)
LEMMA LinksOf ==
  ASSUME NEW r \in Records
  PROVE  /\ Links[r] \in Seq(Records \cup {NoRecord}) /\ Len(Links[r]) \in Nat
         /\ Len(Links[r]) <= MaxFields /\ DOMAIN Links[r] = 1..Len(Links[r])
BY LinksAssumption

(* The field at hand and where it points.                                  *)
LEMMA TheTarget ==
  ASSUME LinksTypeOK, WalkInv, HasField
  PROVE  /\ walk # <<>> /\ Field \in DOMAIN Links[Top.record] /\ Field \in 1..MaxFields
         /\ Target \in Records \cup {NoRecord}
<1>1. walk # <<>> /\ Field <= Len(Links[Top.record])
  BY DEF HasField
<1>2. Field \in Nat \ {0} /\ Top.record \in Records
  BY <1>1, TopFrame
<1>3. MaxFields \in Nat
  BY ResolverAssumption
<1>4. Field \in DOMAIN Links[Top.record] /\ Field \in 1..MaxFields
  BY <1>1, <1>2, <1>3, LinksOf
<1> QED BY <1>1, <1>2, <1>4, LinksOf DEF Target

(* The next field: only the innermost frame moves.                         *)
LEMMA Advancing ==
  ASSUME LinksTypeOK, WalkInv, HasField
  PROVE  /\ Advance \in Seq(Frame) /\ Len(Advance) = Len(walk) /\ DOMAIN Advance = DOMAIN walk
         /\ \A i \in DOMAIN walk :
              /\ Advance[i].record = walk[i].record /\ Advance[i].depth = walk[i].depth
              /\ Advance[i].next = IF i = Len(walk) THEN Field + 1 ELSE walk[i].next
<1>1. /\ Len(walk) \in DOMAIN walk /\ Top = walk[Len(walk)] /\ Top \in Frame
      /\ Field \in Nat \ {0}
  BY TopFrame DEF HasField
<1>2. walk \in Seq(Frame)
  BY DEF LinksTypeOK
<1> DEFINE f == [Top EXCEPT !.next = Field + 1]
<1>3. f \in Frame /\ f.record = Top.record /\ f.depth = Top.depth /\ f.next = Field + 1
  BY <1>1 DEF Frame
<1>4. Advance = [walk EXCEPT ![Len(walk)] = f]
  BY <1>1 DEF Advance, Field
<1> HIDE DEF f
<1> QED BY <1>1, <1>2, <1>3, <1>4

(* A walk whose innermost frame went on to the next field.                 *)
LEMMA AdvancedWalk ==
  ASSUME LinksTypeOK, WalkInv, HasField, walk' = Advance
  PROVE  /\ walk' \in Seq(Frame) /\ walk' # <<>>
         /\ \A i \in DOMAIN walk' : walk'[i].depth = i - 1 /\ i <= MaxDepth
         /\ \A i, j \in DOMAIN walk' : walk'[i].record = walk'[j].record => i = j
         /\ \A i \in DOMAIN walk' : /\ walk'[i].next <= Len(Links[walk'[i].record]) + 1
                                    /\ walk'[i].record \in visited
         /\ walk'[1].record = walk[1].record
<1>1. /\ walk' \in Seq(Frame) /\ Len(walk') = Len(walk) /\ DOMAIN walk' = DOMAIN walk
      /\ \A i \in DOMAIN walk :
           /\ walk'[i].record = walk[i].record /\ walk'[i].depth = walk[i].depth
           /\ walk'[i].next = IF i = Len(walk) THEN Field + 1 ELSE walk[i].next
  BY Advancing
<1>2. /\ Len(walk) \in Nat \ {0} /\ 1 \in DOMAIN walk /\ Top = walk[Len(walk)] /\ Field \in Nat
      /\ Top.record \in Records
  BY TopFrame DEF HasField
<1>3. walk' # <<>>
  BY <1>1, <1>2, EmptySeq
<1>4. Field + 1 <= Len(Links[Top.record]) + 1
  BY <1>2, LinksOf DEF HasField
<1>5. \A i \in DOMAIN walk' : walk'[i].next <= Len(Links[walk'[i].record]) + 1
  BY <1>1, <1>2, <1>4 DEF WalkInv
<1>6. \A i \in DOMAIN walk' : /\ walk'[i].depth = i - 1 /\ i <= MaxDepth
                              /\ walk'[i].record \in visited
  BY <1>1 DEF LinksTypeOK, WalkInv
<1>7. \A i, j \in DOMAIN walk' : walk'[i].record = walk'[j].record => i = j
  BY <1>1 DEF LinksTypeOK
<1>8. walk'[1].record = walk[1].record
  BY <1>1, <1>2
<1> QED BY <1>1, <1>3, <1>5, <1>6, <1>7, <1>8

(* A walk that entered a record it had not visited.                        *)
LEMMA EnteredWalk ==
  ASSUME LinksTypeOK, WalkInv, HasField, NEW f \in Frame, Enters, Target \in Records,
         f.record = Target, f.next = 1, f.depth = Top.depth + 1,
         walk' = Append(Advance, f)
  PROVE  /\ walk' \in Seq(Frame) /\ walk' # <<>>
         /\ \A i \in DOMAIN walk' : walk'[i].depth = i - 1 /\ i <= MaxDepth
         /\ \A i, j \in DOMAIN walk' : walk'[i].record = walk'[j].record => i = j
         /\ \A i \in DOMAIN walk' : /\ walk'[i].next <= Len(Links[walk'[i].record]) + 1
                                    /\ walk'[i].record \in visited \cup {Target}
         /\ walk'[1].record = walk[1].record
<1> DEFINE n == Len(walk)
<1>1. /\ Advance \in Seq(Frame) /\ Len(Advance) = n /\ DOMAIN Advance = DOMAIN walk
      /\ \A i \in DOMAIN walk :
           /\ Advance[i].record = walk[i].record /\ Advance[i].depth = walk[i].depth
           /\ Advance[i].next = IF i = n THEN Field + 1 ELSE walk[i].next
  BY Advancing
<1>2. /\ n \in Nat \ {0} /\ DOMAIN walk = 1..n /\ Top = walk[n] /\ Field \in Nat
      /\ Top.record \in Records /\ Top.depth = n - 1
  BY TopFrame DEF HasField
<1>3. Field + 1 <= Len(Links[Top.record]) + 1
  BY <1>2, LinksOf DEF HasField
<1>4. /\ walk' \in Seq(Frame) /\ Len(walk') = n + 1 /\ DOMAIN walk' = 1..(n + 1)
      /\ \A i \in 1..n : walk'[i] = Advance[i]
      /\ walk'[n + 1] = f
  BY <1>1, <1>2
<1>5. \A i \in DOMAIN walk' : i \in DOMAIN walk \/ i = n + 1
  BY <1>2, <1>4
<1>6. \A i \in DOMAIN walk : /\ walk'[i].record = walk[i].record /\ walk'[i].depth = i - 1
                             /\ walk'[i].record \in visited /\ i <= MaxDepth
                             /\ walk'[i].next <= Len(Links[walk'[i].record]) + 1
  <2>1. \A i \in DOMAIN walk : /\ walk[i].depth = i - 1 /\ i <= MaxDepth
                               /\ walk[i].record \in visited
                               /\ walk[i].next <= Len(Links[walk[i].record]) + 1
    BY DEF LinksTypeOK, WalkInv
  <2>2. \A i \in DOMAIN walk : walk'[i] = Advance[i]
    BY <1>2, <1>4
  <2>3. \A i \in DOMAIN walk : walk'[i].next <= Len(Links[walk'[i].record]) + 1
    BY <1>1, <1>2, <1>3, <2>1, <2>2
  <2> QED BY <1>1, <2>1, <2>2, <2>3
<1>7. /\ walk'[n + 1].record = Target /\ walk'[n + 1].depth = n /\ n + 1 <= MaxDepth
      /\ walk'[n + 1].next <= Len(Links[Target]) + 1 /\ Target \notin visited
  BY <1>2, <1>4, LinksOf, ResolverAssumption DEF Enters
<1>8. \A i, j \in DOMAIN walk' : walk'[i].record = walk'[j].record => i = j
  <2>1. \A i, j \in DOMAIN walk : walk[i].record = walk[j].record => i = j
    BY DEF LinksTypeOK
  <2>2. ASSUME NEW i \in DOMAIN walk', NEW j \in DOMAIN walk', walk'[i].record = walk'[j].record
        PROVE  i = j
    <3>1. CASE i \in DOMAIN walk /\ j \in DOMAIN walk
      BY <1>6, <2>1, <2>2, <3>1
    <3>2. CASE i = n + 1 \/ j = n + 1
      BY <1>5, <1>6, <1>7, <2>2, <3>2
    <3> QED BY <1>5, <3>1, <3>2
  <2> QED BY <2>2
<1>9. walk' # <<>> /\ 1 \in DOMAIN walk
  BY <1>2, <1>4, EmptySeq
<1> HIDE DEF n
<1>10. \A i \in DOMAIN walk' : /\ walk'[i].next <= Len(Links[walk'[i].record]) + 1
                               /\ walk'[i].record \in visited \cup {Target}
                               /\ i <= MaxDepth
  BY <1>5, <1>6, <1>7
<1>11. \A i \in DOMAIN walk' : walk'[i].depth = i - 1
  BY <1>2, <1>5, <1>6, <1>7
<1> QED BY <1>4, <1>6, <1>8, <1>9, <1>10, <1>11

(* All of a sequence but its last element.                                 *)
LEMMA FrontOfWalk ==
  ASSUME NEW S, NEW s \in Seq(S), s # <<>>
  PROVE  /\ Front(s) \in Seq(S) /\ Len(Front(s)) = Len(s) - 1
         /\ DOMAIN Front(s) = 1..(Len(s) - 1) /\ DOMAIN Front(s) \subseteq DOMAIN s
         /\ \A i \in DOMAIN Front(s) : Front(s)[i] = s[i]
         /\ Front(s) = <<>> <=> Len(s) = 1
<1>1. Len(s) \in Nat \ {0} /\ DOMAIN s = 1..Len(s)
  BY EmptySeq
<1>2. 1 \in 1..(Len(s) + 1) /\ Len(s) - 1 \in 0..Len(s)
  BY <1>1
<1>3. ASSUME NEW n \in 0..Len(s), n = Len(s) - 1
      PROVE  /\ Front(s) \in Seq(S) /\ Len(Front(s)) = n
             /\ \A i \in 1..n : Front(s)[i] = s[i]
  <2>1. /\ SubSeq(s, 1, n) \in Seq(S)
        /\ Len(SubSeq(s, 1, n)) = IF 1 <= n THEN n - 1 + 1 ELSE 0
        /\ \A i \in 1..(n - 1 + 1) : SubSeq(s, 1, n)[i] = s[1 + i - 1]
    BY <1>2, SubSeqProperties
  <2>2. n \in Nat /\ n - 1 + 1 = n /\ (1 <= n \/ n = 0) /\ \A i \in 1..n : 1 + i - 1 = i
    BY <1>1
  <2>3. Front(s) = SubSeq(s, 1, n)
    BY <1>3 DEF Front
  <2> QED BY <2>1, <2>2, <2>3
<1>4. Len(Front(s)) = Len(s) - 1
  BY <1>2, <1>3
<1>5. DOMAIN Front(s) = 1..(Len(s) - 1)
  BY <1>2, <1>3, <1>4
<1>6. \A i \in DOMAIN Front(s) : Front(s)[i] = s[i] /\ i \in DOMAIN s
  <2>1. \A i \in 1..(Len(s) - 1) : Front(s)[i] = s[i]
    BY <1>2, <1>3
  <2>2. \A i \in 1..(Len(s) - 1) : i \in 1..Len(s)
    BY <1>1
  <2> QED BY <1>1, <1>5, <2>1, <2>2
<1>7. Front(s) = <<>> <=> Len(s) = 1
  <2>1. Front(s) \in Seq(S)
    BY <1>2, <1>3
  <2>2. Front(s) = <<>> <=> Len(Front(s)) = 0
    BY <2>1, EmptySeq
  <2> QED BY <1>1, <1>4, <2>2
<1> QED BY <1>2, <1>3, <1>4, <1>5, <1>6, <1>7

(* The frames that are left when the innermost call returns.               *)
LEMMA ReturnedWalk ==
  ASSUME LinksTypeOK, WalkInv, walk # <<>>, walk' = Front(walk)
  PROVE  /\ walk' \in Seq(Frame) /\ Len(walk') = Len(walk) - 1
         /\ DOMAIN walk' = 1..(Len(walk) - 1) /\ DOMAIN walk' \subseteq DOMAIN walk
         /\ \A i \in DOMAIN walk' : walk'[i] = walk[i]
         /\ walk' = <<>> <=> Len(walk) = 1
BY FrontOfWalk, EmptySeq DEF LinksTypeOK

-----------------------------------------------------------------------------
(* Labels.                                                                 *)

(* The clock and the ages are natural numbers.                             *)
LEMMA Times ==
  ASSUME LinksTypeOK
  PROVE  clock \in Nat /\ clock \in 0..MaxClock /\ MaxClock \in Nat /\ Ttl \in Nat /\ Oldest \in Nat
BY ResolverAssumption DEF LinksTypeOK, Oldest

(* A record fetched or snapshot without labels.                            *)
LEMMA BlankIsNamed ==
  ASSUME NEW r \in Records, NEW at, NEW age
  PROVE  Named(r, Blank(r), at, age)
<1>1. Blank(r) \in Seq(Label \cup {NoLabel}) /\ Len(Blank(r)) = Len(Links[r])
  BY LinksOf DEF Blank
<1>2. \A i \in DOMAIN Links[r] : Blank(r)[i] = NoLabel
  BY DEF Blank
<1> QED BY <1>1, <1>2 DEF Named

(* What a lookup returns: an object of the cache, or one just fetched; in  *)
(* either case not yet older than the time-to-live.                        *)
LEMMA LookupGood ==
  ASSUME LinksTypeOK, LabelsInv, NEW r \in Records
  PROVE  /\ LookedUp(r) \in Object /\ GoodObject(r, LookedUp(r))
         /\ clock - LookedUp(r).at <= Oldest
<1>1. clock \in Nat /\ clock \in 0..MaxClock /\ Ttl \in Nat
  BY Times
<1>2. CASE IsCached(r)
  <2>1. LookedUp(r) = cached[r]
    BY <1>2 DEF LookedUp, Kept
  <2>2. cached[r] \in Object /\ GoodObject(r, cached[r])
    BY DEF LinksTypeOK, LabelsInv
  <2>3. cached[r].at \in Nat /\ cached[r].expires \in Nat
    BY <2>2, ResolverAssumption DEF Object
  <2>4. clock < cached[r].expires /\ cached[r].expires <= cached[r].at + Ttl
        /\ cached[r].at <= clock
    BY <1>2, <2>2 DEF IsCached, GoodObject
  <2>5. clock - cached[r].at <= Oldest
    BY <1>1, <2>3, <2>4 DEF Oldest
  <2> QED BY <2>1, <2>2, <2>5
<1>3. CASE ~IsCached(r)
  <2>1. LookedUp(r) = Fetched(r)
    BY <1>3 DEF LookedUp
  <2>2. Named(r, Blank(r), clock, Oldest)
    BY BlankIsNamed
  <2>3. Fetched(r) \in Object
    BY <1>1, <2>2 DEF Fetched, Object, Named
  <2>4. GoodObject(r, Fetched(r))
    BY <1>1, <2>2 DEF GoodObject, Fetched
  <2>5. clock - Fetched(r).at <= Oldest
    BY <1>1 DEF Fetched, Oldest
  <2> QED BY <2>1, <2>3, <2>4, <2>5
<1> QED BY <1>2, <1>3

(* Writing a fitting label keeps the labels fitting.                       *)
LEMMA WriteIsNamed ==
  ASSUME NEW r \in Records, NEW labels, NEW at, NEW age, Named(r, labels, at, age),
         NEW i \in DOMAIN Links[r], NEW label \in Label,
         label.of = Links[r][i], at - label.at <= age
  PROVE  Named(r, [labels EXCEPT ![i] = label], at, age)
<1>1. labels \in Seq(Label \cup {NoLabel}) /\ Len(labels) = Len(Links[r])
  BY DEF Named
<1>2. DOMAIN labels = DOMAIN Links[r]
  BY <1>1, LinksOf
<1> DEFINE new == [labels EXCEPT ![i] = label]
<1>3. new \in Seq(Label \cup {NoLabel}) /\ Len(new) = Len(labels)
  BY <1>1
<1>4. \A k \in DOMAIN Links[r] : new[k] = IF k = i THEN label ELSE labels[k]
  BY <1>1, <1>2
<1> HIDE DEF new
<1>5. Named(r, new, at, age)
  BY <1>1, <1>3, <1>4 DEF Named
<1> QED BY <1>5 DEF new

(* Older labels may be older.                                              *)
LEMMA OlderIsNamed ==
  ASSUME NEW r \in Records, NEW labels, NEW at \in Nat, NEW later \in Nat,
         NEW age \in Nat, NEW more \in Nat,
         Named(r, labels, at, age), later - at <= more
  PROVE  Named(r, labels, later, age + more)
<1>1. /\ labels \in Seq(Label \cup {NoLabel}) /\ Len(labels) = Len(Links[r])
      /\ DOMAIN labels = DOMAIN Links[r]
  BY LinksOf DEF Named
<1>2. ASSUME NEW i \in DOMAIN Links[r], labels[i] # NoLabel
      PROVE  labels[i].of = Links[r][i] /\ later - labels[i].at <= age + more
  <2>1. labels[i] \in Label
    BY <1>1, <1>2
  <2>2. labels[i].at \in Nat
    BY <2>1, ResolverAssumption DEF Label
  <2>3. labels[i].of = Links[r][i] /\ at - labels[i].at <= age
    BY <1>2 DEF Named
  <2> QED BY <2>2, <2>3
<1> QED BY <1>1, <1>2 DEF Named

(* The cache after a lookup.                                               *)
LEMMA LookupKeepsObjects ==
  ASSUME LinksTypeOK, LabelsInv, NEW r \in Records
  PROVE  /\ AfterLookup(r) \in [Records -> Object] /\ AfterLookup(r)[r] = LookedUp(r)
         /\ \A q \in Records : GoodObject(q, AfterLookup(r)[q])
<1>1. cached \in [Records -> Object] /\ \A q \in Records : GoodObject(q, cached[q])
  BY DEF LinksTypeOK, LabelsInv
<1>2. LookedUp(r) \in Object /\ GoodObject(r, LookedUp(r))
  BY LookupGood
<1>3. /\ AfterLookup(r) \in [Records -> Object]
      /\ \A q \in Records : AfterLookup(r)[q] = IF q = r THEN LookedUp(r) ELSE cached[q]
  BY <1>1, <1>2 DEF AfterLookup
<1> QED BY <1>1, <1>2, <1>3

(* The label of a target that was just looked up.                          *)
NewLabel == [of |-> Target, at |-> LookedUp(Target).at]

(* It fits the key, and is as recent as what the lookup returned.          *)
LEMMA NewLabelFits ==
  ASSUME LinksTypeOK, WalkInv, LabelsInv, HasField, Target \in Records
  PROVE  /\ NewLabel \in Label /\ NewLabel # NoLabel /\ NewLabel.of = Links[Top.record][Field]
         /\ NewLabel.at \in Nat /\ clock - NewLabel.at <= Oldest
<1>1. LookedUp(Target) \in Object /\ clock - LookedUp(Target).at <= Oldest
  BY LookupGood
<1>2. LookedUp(Target).at \in 0..MaxClock
  BY <1>1 DEF Object
<1>3. Target # NoRecord
  BY LinksAssumption
<1> QED BY <1>1, <1>2, <1>3, ResolverAssumption DEF NewLabel, Label, NoLabel, Target

(* Writing the label into an object the cache holds: the object was        *)
(* fetched before, so the label is as recent for it as it must be.         *)
LEMMA LabelObjectGood ==
  ASSUME LinksTypeOK, WalkInv, LabelsInv, HasField, Target \in Records
  PROVE  /\ LabelObject(AfterLookup(Target), NewLabel) \in [Records -> Object]
         /\ \A q \in Records : GoodObject(q, LabelObject(AfterLookup(Target), NewLabel)[q])
<1> DEFINE objects == AfterLookup(Target)
           r       == Top.record
           written == [objects[r].labels EXCEPT ![Field] = NewLabel]
           new     == [objects[r] EXCEPT !.labels = written]
<1>1. objects \in [Records -> Object] /\ \A q \in Records : GoodObject(q, objects[q])
  BY LookupKeepsObjects
<1>2. r \in Records /\ Field \in DOMAIN Links[r]
  BY TopFrame, TheTarget
<1>3. CASE Top.depth > 0 /\ objects[r].at = Top.at
  <2> HIDE DEF objects
  <2>1. objects[r] \in Object /\ GoodObject(r, objects[r])
    BY <1>1, <1>2
  <2>2. NewLabel \in Label /\ NewLabel.of = Links[r][Field] /\ NewLabel.at \in Nat
        /\ clock - NewLabel.at <= Oldest
    BY NewLabelFits
  <2>3. objects[r].at \in Nat /\ objects[r].at <= clock
    BY <2>1, ResolverAssumption DEF Object, GoodObject
  <2>4. objects[r].at - NewLabel.at <= Oldest
    BY <2>2, <2>3, Times
  <2>5. Named(r, objects[r].labels, objects[r].at, Oldest)
    BY <2>1 DEF GoodObject
  <2>6. Named(r, written, objects[r].at, Oldest)
    BY <1>2, <2>2, <2>4, <2>5, WriteIsNamed
  <2>7. written \in Seq(Label \cup {NoLabel})
    BY <2>6 DEF Named
  <2> HIDE DEF written
  <2>8. new \in Object /\ new.at = objects[r].at /\ new.expires = objects[r].expires
        /\ new.labels = written
    BY <2>1, <2>7 DEF Object
  <2>9. GoodObject(r, new)
    BY <2>1, <2>6, <2>8 DEF GoodObject
  <2>10. LabelObject(objects, NewLabel) = [objects EXCEPT ![r] = new]
    BY <1>3 DEF LabelObject, written
  <2> HIDE DEF new
  <2>11. /\ [objects EXCEPT ![r] = new] \in [Records -> Object]
         /\ \A q \in Records : GoodObject(q, [objects EXCEPT ![r] = new][q])
    BY <1>1, <1>2, <2>8, <2>9
  <2> QED BY <2>10, <2>11 DEF objects
<1>4. CASE ~(Top.depth > 0 /\ objects[r].at = Top.at)
  <2>1. LabelObject(objects, NewLabel) = objects
    BY <1>4 DEF LabelObject
  <2> QED BY <1>1, <2>1
<1> QED BY <1>3, <1>4

(* Writing the label on the entry's copy, when the walk is in the entry    *)
(* itself.                                                                 *)
LEMMA LabelCopyGood ==
  ASSUME LinksTypeOK, WalkInv, LabelsInv, HasField, Target \in Records
  PROVE  /\ LabelCopy(NewLabel) \in Seq(Input) /\ Len(LabelCopy(NewLabel)) = Len(inputs)
         /\ \A i \in DOMAIN inputs : /\ GoodCopy(LabelCopy(NewLabel)[i])
                                     /\ LabelCopy(NewLabel)[i].record = inputs[i].record
                                     /\ LabelCopy(NewLabel)[i].at = inputs[i].at
         /\ Top.depth # 0 => LabelCopy(NewLabel) = inputs
         /\ Top.depth = 0 =>
              /\ Top.record = inputs[1].record
              /\ \A i \in DOMAIN Links[Top.record] :
                   LabelCopy(NewLabel)[1].labels[i] =
                     IF i = Field THEN NewLabel ELSE inputs[1].labels[i]
<1>1. inputs \in Seq(Input) /\ \A i \in DOMAIN inputs : GoodCopy(inputs[i])
  BY DEF LinksTypeOK, LabelsInv
<1>3. CASE Top.depth # 0
  <2>1. LabelCopy(NewLabel) = inputs
    BY <1>3 DEF LabelCopy
  <2> QED BY <1>1, <1>3, <2>1
<1>4. CASE Top.depth = 0
  <2> DEFINE r       == inputs[1].record
             written == [inputs[1].labels EXCEPT ![Field] = NewLabel]
             new     == [inputs[1] EXCEPT !.labels = written]
  <2>1. inputs # <<>> /\ Top.record = r
    BY <1>4, TopFrame DEF WalkInv, HasField
  <2>2. 1 \in DOMAIN inputs
    BY <1>1, <2>1, EmptySeq
  <2>3. inputs[1] \in Input /\ GoodCopy(inputs[1])
    BY <1>1, <2>2
  <2>4. r \in Records /\ Field \in DOMAIN Links[r]
    BY <2>1, TopFrame, TheTarget
  <2>5. NewLabel \in Label /\ NewLabel.of = Links[r][Field] /\ NewLabel.at \in Nat
        /\ clock - NewLabel.at <= Oldest
    BY <2>1, NewLabelFits
  <2>6. inputs[1].at \in Nat /\ inputs[1].at <= clock
    BY <2>3, ResolverAssumption DEF Input, GoodCopy
  <2>7. inputs[1].at - NewLabel.at <= 2 * Oldest
    BY <2>5, <2>6, Times
  <2>8. Named(r, inputs[1].labels, inputs[1].at, 2 * Oldest)
    BY <2>3 DEF GoodCopy
  <2>9. Named(r, written, inputs[1].at, 2 * Oldest)
    BY <2>4, <2>5, <2>7, <2>8, WriteIsNamed
  <2>10. written \in Seq(Label \cup {NoLabel})
    BY <2>9 DEF Named
  <2>11. \A i \in DOMAIN Links[r] : written[i] = IF i = Field THEN NewLabel ELSE inputs[1].labels[i]
    <3>1. inputs[1].labels \in Seq(Label \cup {NoLabel}) /\ DOMAIN inputs[1].labels = DOMAIN Links[r]
      BY <2>4, <2>8, LinksOf DEF Named
    <3> QED BY <3>1
  <2>12. LabelCopy(NewLabel) = [inputs EXCEPT ![1] = new]
    BY <1>4 DEF LabelCopy
  <2> HIDE DEF written
  <2>13. new \in Input /\ new.at = inputs[1].at /\ new.record = r /\ new.labels = written
    BY <2>3, <2>10 DEF Input
  <2>14. GoodCopy(new)
    BY <2>3, <2>9, <2>13 DEF GoodCopy
  <2> HIDE DEF new
  <2>15. /\ [inputs EXCEPT ![1] = new] \in Seq(Input)
         /\ Len([inputs EXCEPT ![1] = new]) = Len(inputs)
         /\ \A i \in DOMAIN inputs : [inputs EXCEPT ![1] = new][i] = IF i = 1 THEN new ELSE inputs[i]
    BY <1>1, <2>2, <2>13
  <2> HIDE DEF r
  <2> QED BY <1>1, <1>4, <2>1, <2>2, <2>11, <2>12, <2>13, <2>14, <2>15 DEF r
<1> QED BY <1>3, <1>4

-----------------------------------------------------------------------------
(* The steps.                                                              *)

(* At first nothing is cached, executed or walked.                         *)
LEMMA LinksInit == Init => LinksInv
<1> SUFFICES ASSUME Init PROVE LinksInv
  OBVIOUS
<1>1. /\ clock = 0 /\ pc = "executor" /\ inputs = <<>> /\ walk = <<>> /\ DOMAIN walk = {}
      /\ DOMAIN inputs = {} /\ visited = {} /\ missed = {} /\ calls = 0
      /\ inputs \in Seq(Input) /\ Len(inputs) = 0 /\ walk \in Seq(Frame)
  BY DEF Init
<1>2. 0 \in 0..MaxClock /\ 0 \in Nat /\ Ttl \in Nat /\ MaxInputs \in Nat
  BY ResolverAssumption
<1>3. ASSUME NEW r \in Records PROVE cached[r] \in Object /\ GoodObject(r, cached[r])
  <2>1. cached[r] = [at |-> 0, expires |-> 0, labels |-> Blank(r)]
    BY DEF Init
  <2>2. Named(r, Blank(r), 0, Oldest)
    BY BlankIsNamed
  <2> QED BY <1>1, <1>2, <2>1, <2>2 DEF Object, GoodObject, Named
<1>4. cached \in [Records -> Object]
  BY <1>3 DEF Init
<1>5. LinksTypeOK
  BY <1>1, <1>2, <1>4 DEF LinksTypeOK
<1>6. IsFiniteSet(visited)
  BY <1>1, FS_EmptySet
<1> QED BY <1>1, <1>3, <1>5, <1>6 DEF LinksInv, WalkInv, LabelsInv, EntryInv

(* The executor runs when no walk is under way.                            *)
LEMMA ExecuteKeeps == LinksInv /\ Execute => LinksInv'
<1> SUFFICES ASSUME LinksInv, Execute PROVE LinksInv'
  OBVIOUS
<1> USE DEF LinksInv
<1>1. UNCHANGED <<clock, pc, walk, visited, missed, calls>> /\ walk = <<>> /\ pc = "executor"
      /\ Len(inputs) < MaxInputs
  BY DEF Execute, WalkInv
<1>2. clock \in Nat /\ clock \in 0..MaxClock /\ Oldest \in Nat /\ 2 * Oldest = Oldest + Oldest
  BY Times
<1>3. PICK r \in Records :
        \/ cached' = AfterLookup(r) /\ inputs' = Snapshot(r, LookedUp(r).labels)
        \/ cached' = cached         /\ inputs' = Snapshot(r, Blank(r))
  BY DEF Execute
<1>4. ASSUME NEW labels, inputs' = Snapshot(r, labels), Named(r, labels, clock, 2 * Oldest)
      PROVE  /\ inputs' \in Seq(Input) /\ Len(inputs') <= MaxInputs
             /\ \A i \in DOMAIN inputs' : GoodCopy(inputs'[i])
  <2> DEFINE copy == [record |-> r, at |-> clock, labels |-> labels]
  <2>1. copy \in Input /\ GoodCopy(copy)
    BY <1>2, <1>4 DEF Input, GoodCopy, Named
  <2>2. inputs \in Seq(Input) /\ inputs' = Append(inputs, copy) /\ MaxInputs \in Nat
    BY <1>4, ResolverAssumption DEF LinksTypeOK, Snapshot
  <2> HIDE DEF copy
  <2>3. inputs' \in Seq(Input) /\ Len(inputs') <= MaxInputs
    BY <1>1, <2>1, <2>2
  <2>4. \A i \in DOMAIN inputs' : (i \in DOMAIN inputs /\ inputs'[i] = inputs[i]) \/ inputs'[i] = copy
    BY <2>1, <2>2
  <2> QED BY <2>1, <2>3, <2>4 DEF LabelsInv
<1>5. /\ inputs' \in Seq(Input) /\ Len(inputs') <= MaxInputs
      /\ \A i \in DOMAIN inputs' : GoodCopy(inputs'[i])
      /\ cached' \in [Records -> Object] /\ \A q \in Records : GoodObject(q, cached'[q])
  <2>1. CASE cached' = AfterLookup(r) /\ inputs' = Snapshot(r, LookedUp(r).labels)
    <3>1. LookedUp(r) \in Object /\ GoodObject(r, LookedUp(r)) /\ clock - LookedUp(r).at <= Oldest
      BY LookupGood
    <3>2. LookedUp(r).at \in Nat /\ Named(r, LookedUp(r).labels, LookedUp(r).at, Oldest)
      BY <3>1, ResolverAssumption DEF Object, GoodObject
    <3>3. Named(r, LookedUp(r).labels, clock, Oldest + Oldest)
      BY <1>2, <3>1, <3>2, OlderIsNamed
    <3> QED BY <1>2, <1>4, <2>1, <3>3, LookupKeepsObjects
  <2>2. CASE cached' = cached /\ inputs' = Snapshot(r, Blank(r))
    BY <1>4, <2>2, BlankIsNamed DEF LinksTypeOK, LabelsInv
  <2> QED BY <1>3, <2>1, <2>2
<1>6. LinksTypeOK'
  BY <1>1, <1>5 DEF LinksTypeOK
<1>7. WalkInv' /\ EntryInv'
  BY <1>1 DEF WalkInv, EntryInv
<1>8. LabelsInv'
  BY <1>1, <1>5 DEF LabelsInv, GoodObject, GoodCopy, Named
<1> QED BY <1>6, <1>7, <1>8

(* Steps that touch no label and no frame.                                 *)
LEMMA OtherStepsKeep == LinksInv /\ (Executed \/ Tick \/ UNCHANGED resolver) => LinksInv'
<1> SUFFICES ASSUME LinksInv, Executed \/ Tick \/ UNCHANGED resolver PROVE LinksInv'
  OBVIOUS
<1> USE DEF LinksInv
<1>1. /\ UNCHANGED <<cached, inputs, walk, visited, missed, calls>>
      /\ pc' \in {pc, "relationship_resolver"}
      /\ clock' \in 0..MaxClock /\ clock <= clock'
  BY Times DEF Executed, Tick, resolver, LinksTypeOK
<1>2. LinksTypeOK'
  BY <1>1 DEF LinksTypeOK
<1>3. WalkInv'
  BY <1>1 DEF WalkInv
<1>4. EntryInv'
  BY <1>1 DEF EntryInv
<1>5. ASSUME NEW at \in 0..MaxClock, at <= clock PROVE at <= clock'
  BY <1>1, <1>5, Times
<1>6. \A r \in Records : cached[r].at \in 0..MaxClock
  BY DEF LinksTypeOK, Object
<1>7. \A i \in DOMAIN inputs : inputs[i].at \in 0..MaxClock
  <2>1. \A i \in DOMAIN inputs : inputs[i] \in Input
    BY DEF LinksTypeOK
  <2> QED BY <2>1 DEF Input
<1>8. LabelsInv'
  BY <1>1, <1>5, <1>6, <1>7 DEF LabelsInv, GoodObject, GoodCopy, Named
<1> QED BY <1>2, <1>3, <1>4, <1>8

(* The walk of an entry begins at its first key.                           *)
LEMMA BeginKeeps == LinksInv /\ Begin => LinksInv'
<1> SUFFICES ASSUME LinksInv, Begin PROVE LinksInv'
  OBVIOUS
<1> USE DEF LinksInv
<1> DEFINE r == inputs[1].record
           f == [record |-> r, at |-> 0, next |-> 1, depth |-> 0]
<1>1. /\ UNCHANGED <<clock, cached, pc, inputs, missed, calls>> /\ pc = "relationship_resolver"
      /\ walk = <<>> /\ inputs # <<>> /\ walk' = <<f>> /\ visited' = {r}
  BY DEF Begin
<1>2. r \in Records
  <2>1. inputs \in Seq(Input)
    BY DEF LinksTypeOK
  <2>2. inputs[1] \in Input
    BY <1>1, <2>1, EmptySeq
  <2> QED BY <2>2 DEF Input
<1>3. f \in Frame /\ f.record = r /\ f.depth = 0 /\ f.next = 1
  BY <1>2, ResolverAssumption DEF Frame
<1> HIDE DEF f
<1>4. /\ walk' \in Seq(Frame) /\ DOMAIN walk' = {1} /\ walk'[1] = f /\ walk' # <<>>
  BY <1>1, <1>3
<1>5. 1 <= MaxDepth /\ 1 <= Len(Links[r]) + 1 /\ 1 \in Nat /\ 0 = 1 - 1
  BY <1>2, LinksOf, ResolverAssumption
<1> HIDE DEF r
<1>6. \A i \in DOMAIN walk' : walk'[i].depth = i - 1 /\ i <= MaxDepth
  BY <1>3, <1>4, <1>5
<1>7. LinksTypeOK'
  BY <1>1, <1>2, <1>4, <1>6 DEF LinksTypeOK
<1>8. IsFiniteSet({r})
  BY FS_Singleton
<1>9. \A i \in DOMAIN walk' : walk'[i].next <= Len(Links[walk'[i].record]) + 1 /\ walk'[i].record \in visited'
  BY <1>1, <1>3, <1>4, <1>5
<1>10. WalkInv'
  BY <1>1, <1>3, <1>4, <1>8, <1>9 DEF WalkInv, r
<1>11. \A i \in DOMAIN Links[r] : ~(i < 1)
  BY <1>2, LinksOf
<1>12. EntryInv'
  BY <1>3, <1>4, <1>11 DEF EntryInv
<1>13. LabelsInv'
  BY <1>1 DEF LabelsInv, GoodObject, GoodCopy, Named
<1> QED BY <1>7, <1>10, <1>12, <1>13

(* A key that is None or whose lookup finds nothing is passed over; in the *)
(* entry itself the latter is missed.                                      *)
LEMMA SkipKeeps == LinksInv /\ (SkipNone \/ Unresolved) => LinksInv'
<1> SUFFICES ASSUME LinksInv, SkipNone \/ Unresolved PROVE LinksInv'
  OBVIOUS
<1> USE DEF LinksInv
<1>1. /\ UNCHANGED <<clock, cached, pc, inputs, visited>> /\ HasField /\ walk' = Advance
      /\ calls' \in {calls, calls + 1} /\ missed \subseteq missed'
  BY DEF SkipNone, Unresolved
<1>2. /\ walk # <<>> /\ Field \in Nat /\ Top.record \in Records
      /\ Top.depth = 0 => Top = walk[1]
      /\ Top.depth = 0 <=> Len(walk) = 1
      /\ 1 \in DOMAIN walk
  BY <1>1, TopFrame, TheTarget
<1>3. /\ walk' \in Seq(Frame) /\ walk' # <<>>
      /\ \A i \in DOMAIN walk' : walk'[i].depth = i - 1 /\ i <= MaxDepth
      /\ \A i, j \in DOMAIN walk' : walk'[i].record = walk'[j].record => i = j
      /\ \A i \in DOMAIN walk' : /\ walk'[i].next <= Len(Links[walk'[i].record]) + 1
                                 /\ walk'[i].record \in visited
      /\ walk'[1].record = walk[1].record
  BY <1>1, AdvancedWalk
<1>4. walk'[1].next = IF Top.depth = 0 THEN Field + 1 ELSE walk[1].next
  BY <1>1, <1>2, Advancing
<1>5. missed' \subseteq Nat /\ calls' \in Nat
  BY <1>1, <1>2 DEF LinksTypeOK, SkipNone, Unresolved
<1>6. LinksTypeOK'
  BY <1>1, <1>3, <1>5 DEF LinksTypeOK
<1>7. WalkInv'
  BY <1>1, <1>2, <1>3 DEF WalkInv
<1>8. LabelsInv'
  BY <1>1 DEF LabelsInv, GoodObject, GoodCopy, Named
<1>9. EntryInv'
  <2>1. SUFFICES ASSUME NEW i \in DOMAIN Links[walk[1].record],
                        i < walk'[1].next, i \notin missed', Links[walk[1].record][i] # NoRecord
                 PROVE  /\ inputs[1].labels[i].of = Links[walk[1].record][i]
                        /\ inputs[1].at - inputs[1].labels[i].at <= Oldest
    BY <1>1, <1>3 DEF EntryInv
  <2>2. CASE i < walk[1].next
    BY <1>1, <1>2, <2>1, <2>2 DEF EntryInv
  <2>3. CASE ~(i < walk[1].next)
    <3>1. walk[1].record \in Records
      <4>1. walk[1] \in Frame
        BY <1>2 DEF LinksTypeOK
      <4> QED BY <4>1 DEF Frame
    <3>2. i \in Nat
      BY <3>1, LinksOf
    <3>3. Top.depth = 0 /\ Top = walk[1]
      BY <1>2, <1>4, <2>1, <2>3
    <3>4. walk[1].next = Field
      BY <3>3 DEF Field
    <3>5. i = Field
      BY <1>2, <1>4, <2>1, <2>3, <3>2, <3>3, <3>4
    <3>6. Target = Links[walk[1].record][i]
      BY <3>3, <3>5 DEF Target
    <3>7. Field \in missed'
      BY <2>1, <3>3, <3>6 DEF SkipNone, Unresolved
    <3> QED BY <2>1, <3>5, <3>7
  <2> QED BY <2>2, <2>3
<1> QED BY <1>6, <1>7, <1>8, <1>9

(* A key that is resolved is named by the record it points to.             *)
LEMMA ResolvedKeeps == LinksInv /\ Resolved => LinksInv'
<1> SUFFICES ASSUME LinksInv, Resolved PROVE LinksInv'
  OBVIOUS
<1> USE DEF LinksInv
<1>1. /\ UNCHANGED <<clock, pc, missed>> /\ HasField /\ Target # NoRecord /\ calls' = calls + 1
      /\ inputs' = LabelCopy(NewLabel)
      /\ cached' = LabelObject(AfterLookup(Target), NewLabel)
  BY DEF Resolved, NewLabel
<1>2. /\ walk # <<>> /\ Field \in Nat /\ Top.record \in Records
      /\ Top.depth = 0 => Top = walk[1]
      /\ Top.depth = 0 <=> Len(walk) = 1
      /\ 1 \in DOMAIN walk /\ Target \in Records /\ Len(walk) \in Nat
      /\ Field \in DOMAIN Links[Top.record] /\ Top.depth \in Nat
  BY <1>1, TopFrame, TheTarget
<1>3. /\ cached' \in [Records -> Object]
      /\ \A q \in Records : GoodObject(q, cached'[q])
  BY <1>1, <1>2, LabelObjectGood
<1>4. /\ inputs' \in Seq(Input) /\ Len(inputs') = Len(inputs)
      /\ \A i \in DOMAIN inputs : /\ GoodCopy(inputs'[i])
                                  /\ inputs'[i].record = inputs[i].record
                                  /\ inputs'[i].at = inputs[i].at
      /\ Top.depth # 0 => inputs' = inputs
      /\ Top.depth = 0 =>
           /\ Top.record = inputs[1].record
           /\ \A i \in DOMAIN Links[Top.record] :
                inputs'[1].labels[i] = IF i = Field THEN NewLabel ELSE inputs[1].labels[i]
  BY <1>1, <1>2, LabelCopyGood
<1>5. /\ inputs \in Seq(Input) /\ DOMAIN inputs' = DOMAIN inputs /\ inputs # <<>>
      /\ inputs' # <<>> /\ 1 \in DOMAIN inputs
  <2>1. inputs \in Seq(Input) /\ inputs # <<>>
    BY <1>2 DEF LinksTypeOK, WalkInv
  <2>2. Len(inputs) \in Nat \ {0}
    BY <2>1, EmptySeq
  <2>3. inputs' # <<>>
    BY <1>4, <2>2, EmptySeq
  <2> QED BY <1>4, <2>1, <2>2, <2>3
<1> DEFINE f == [record |-> Target, at |-> LookedUp(Target).at, next |-> 1, depth |-> Top.depth + 1]
<1>6. f \in Frame /\ f.record = Target /\ f.next = 1 /\ f.depth = Top.depth + 1
  <2>1. LookedUp(Target).at \in 0..MaxClock
    BY <1>2, LookupGood DEF Object
  <2> QED BY <1>2, <2>1 DEF Frame
<1>7. /\ walk' \in Seq(Frame) /\ walk' # <<>>
      /\ \A i \in DOMAIN walk' : walk'[i].depth = i - 1 /\ i <= MaxDepth
      /\ \A i, j \in DOMAIN walk' : walk'[i].record = walk'[j].record => i = j
      /\ \A i \in DOMAIN walk' : /\ walk'[i].next <= Len(Links[walk'[i].record]) + 1
                                 /\ walk'[i].record \in visited'
      /\ walk'[1].record = walk[1].record
      /\ visited' \in {visited, visited \cup {Target}}
      /\ walk'[1].next = IF Top.depth = 0 THEN Field + 1 ELSE walk[1].next
  <2> HIDE DEF f
  <2>1. CASE Enters
    <3>1. walk' = Append(Advance, f) /\ visited' = visited \cup {Target}
      BY <2>1 DEF Resolved, f
    <3>2. Advance \in Seq(Frame) /\ DOMAIN Advance = DOMAIN walk
          /\ Advance[1].next = IF Top.depth = 0 THEN Field + 1 ELSE walk[1].next
      BY <1>1, <1>2, Advancing
    <3>3. walk'[1] = Advance[1]
      BY <1>2, <1>6, <3>1, <3>2
    <3> QED BY <1>1, <1>2, <1>6, <2>1, <3>1, <3>2, <3>3, EnteredWalk
  <2>2. CASE ~Enters
    <3>1. walk' = Advance /\ visited' = visited
      BY <2>2 DEF Resolved
    <3> QED BY <1>1, <1>2, <3>1, AdvancedWalk, Advancing
  <2> QED BY <2>1, <2>2
<1> HIDE DEF f
<1>8. LinksTypeOK'
  <2>1. visited' \subseteq Records /\ calls' \in Nat /\ Len(inputs') <= MaxInputs
    BY <1>1, <1>2, <1>4, <1>7 DEF LinksTypeOK
  <2> QED BY <1>1, <1>3, <1>4, <1>7, <2>1 DEF LinksTypeOK
<1>9. WalkInv'
  <2>1. IsFiniteSet(visited')
    BY <1>7, FS_AddElement DEF WalkInv
  <2>2. walk'[1].record = inputs'[1].record
    BY <1>2, <1>4, <1>5, <1>7 DEF WalkInv
  <2> QED BY <1>1, <1>2, <1>5, <1>7, <2>1, <2>2 DEF WalkInv
<1>10. LabelsInv'
  BY <1>1, <1>3, <1>4, <1>5 DEF LabelsInv, GoodObject, GoodCopy, Named
<1>11. EntryInv'
  <2>1. SUFFICES ASSUME NEW i \in DOMAIN Links[walk[1].record],
                        i < walk'[1].next, i \notin missed, Links[walk[1].record][i] # NoRecord
                 PROVE  /\ inputs'[1].labels[i].of = Links[walk[1].record][i]
                        /\ inputs'[1].at - inputs'[1].labels[i].at <= Oldest
    BY <1>1, <1>7 DEF EntryInv
  <2>2. inputs'[1].at = inputs[1].at
    BY <1>4, <1>5
  <2>3. CASE Top.depth # 0
    BY <1>2, <1>4, <1>7, <2>1, <2>3 DEF EntryInv
  <2>4. CASE Top.depth = 0
    <3>1. Top = walk[1] /\ walk[1].next = Field /\ walk'[1].next = Field + 1
      BY <1>2, <1>7, <2>4 DEF Field
    <3>2. inputs'[1].labels[i] = IF i = Field THEN NewLabel ELSE inputs[1].labels[i]
      BY <1>4, <2>1, <2>4, <3>1
    <3>3. CASE i = Field
      <4>1. inputs[1].at \in Nat /\ inputs[1].at <= clock
        <5>1. inputs[1] \in Input /\ GoodCopy(inputs[1])
          BY <1>5 DEF LabelsInv
        <5> QED BY <5>1, ResolverAssumption DEF Input, GoodCopy
      <4>2. NewLabel.of = Links[Top.record][Field] /\ NewLabel.at \in Nat
            /\ clock - NewLabel.at <= Oldest
        BY <1>1, <1>2, NewLabelFits
      <4> QED BY <2>2, <3>1, <3>2, <3>3, <4>1, <4>2, Times
    <3>4. CASE i # Field
      <4>1. i \in Nat
        BY <1>2, <3>1, LinksOf
      <4>2. i < walk[1].next
        BY <1>2, <2>1, <3>1, <3>4, <4>1
      <4> QED BY <1>2, <2>1, <2>2, <3>2, <3>4, <4>2 DEF EntryInv
    <3> QED BY <3>3, <3>4
  <2> QED BY <2>3, <2>4
<1> QED BY <1>8, <1>9, <1>10, <1>11

(* A call that returns leaves the frames below as they were; the outermost *)
(* one leaves nothing, and its entry is done.                              *)
LEMMA ReturnKeeps == LinksInv /\ Return => LinksInv'
<1> SUFFICES ASSUME LinksInv, Return PROVE LinksInv'
  OBVIOUS
<1> USE DEF LinksInv
<1>1. walk # <<>> /\ ~HasField /\ walk' = Front(walk) /\ UNCHANGED <<clock, cached>>
  BY DEF Return
<1>2. /\ walk' \in Seq(Frame) /\ DOMAIN walk' \subseteq DOMAIN walk
      /\ \A i \in DOMAIN walk' : walk'[i] = walk[i]
      /\ walk' = <<>> <=> Len(walk) = 1
      /\ inputs # <<>> /\ 1 \in DOMAIN walk
  BY <1>1, ReturnedWalk, TopFrame DEF WalkInv
<1>3. /\ \A i \in DOMAIN walk' : walk'[i].depth = i - 1 /\ i <= MaxDepth
      /\ \A i, j \in DOMAIN walk' : walk'[i].record = walk'[j].record => i = j
  BY <1>2 DEF LinksTypeOK
<1>4. CASE Len(walk) = 1
  <2>1. /\ walk' = <<>> /\ DOMAIN walk' = {} /\ inputs' = Tail(inputs)
        /\ visited' = {} /\ missed' = {} /\ calls' = 0
        /\ pc' \in {pc, "executor"}
    BY <1>1, <1>2, <1>4 DEF Return, IsFinished, Forget
  <2>2. /\ inputs \in Seq(Input) /\ Len(inputs) <= MaxInputs /\ MaxInputs \in Nat
        /\ \A i \in DOMAIN inputs : GoodCopy(inputs[i])
    BY ResolverAssumption DEF LinksTypeOK, LabelsInv
  <2>3. /\ inputs' \in Seq(Input) /\ Len(inputs') = Len(inputs) - 1
        /\ DOMAIN inputs' = 1..(Len(inputs) - 1)
        /\ \A i \in 1..(Len(inputs) - 1) : i + 1 \in DOMAIN inputs /\ inputs'[i] = inputs[i + 1]
    BY <1>2, <2>1, <2>2
  <2>4. Len(inputs') <= MaxInputs /\ \A i \in DOMAIN inputs' : GoodCopy(inputs'[i])
    BY <2>2, <2>3
  <2>5. LinksTypeOK'
    BY <1>1, <1>2, <1>3, <2>1, <2>3, <2>4 DEF LinksTypeOK
  <2>6. WalkInv' /\ EntryInv'
    BY <2>1, FS_EmptySet DEF WalkInv, EntryInv
  <2>7. LabelsInv'
    BY <1>1, <2>4 DEF LabelsInv, GoodObject, GoodCopy, Named
  <2> QED BY <2>5, <2>6, <2>7
<1>5. CASE Len(walk) # 1
  <2>1. UNCHANGED <<pc, inputs, visited, missed, calls>> /\ walk' # <<>>
    BY <1>1, <1>2, <1>5 DEF Return, IsFinished
  <2>2. LinksTypeOK'
    BY <1>1, <1>2, <1>3, <2>1 DEF LinksTypeOK
  <2>3. 1 \in DOMAIN walk' /\ walk'[1] = walk[1]
    BY <1>2, <2>1, EmptySeq
  <2>4. WalkInv'
    BY <1>1, <1>2, <2>1, <2>3 DEF WalkInv
  <2>5. EntryInv'
    BY <1>1, <2>1, <2>3 DEF EntryInv
  <2>6. LabelsInv'
    BY <1>1, <2>1 DEF LabelsInv, GoodObject, GoodCopy, Named
  <2> QED BY <2>2, <2>4, <2>5, <2>6
<1> QED BY <1>4, <1>5

(* A look-up that raises ends the node; the labels on objects stay good.   *)
LEMMA RaiseKeeps == LinksInv /\ Raise => LinksInv'
<1> SUFFICES ASSUME LinksInv, Raise PROVE LinksInv'
  OBVIOUS
<1> USE DEF LinksInv
<1>1. /\ UNCHANGED <<clock, cached>> /\ inputs' = <<>> /\ walk' = <<>> /\ pc' = "executor"
      /\ visited' = {} /\ missed' = {} /\ calls' = 0
  BY DEF Raise, Forget
<1>2. /\ inputs' \in Seq(Input) /\ Len(inputs') <= MaxInputs /\ DOMAIN inputs' = {}
      /\ walk' \in Seq(Frame) /\ DOMAIN walk' = {}
  BY <1>1, ResolverAssumption
<1>3. LinksTypeOK'
  BY <1>1, <1>2 DEF LinksTypeOK
<1>4. WalkInv' /\ EntryInv'
  BY <1>1, <1>2, FS_EmptySet DEF WalkInv, EntryInv
<1>5. LabelsInv'
  BY <1>1, <1>2 DEF LabelsInv, GoodObject, Named
<1> QED BY <1>3, <1>4, <1>5

(* Every step keeps the invariant.                                         *)
LEMMA LinksStep == LinksInv /\ [Next]_resolver => LinksInv'
BY ExecuteKeeps, OtherStepsKeep, BeginKeeps, SkipKeeps, ResolvedKeeps, ReturnKeeps, RaiseKeeps
   DEF Next, Resolve

(* Hence it holds throughout.                                              *)
LEMMA LinksAlways == LinksSpec => []LinksInv
BY LinksInit, LinksStep, PTL DEF LinksSpec

(* No call is deeper than the setting allows, and no record is walked      *)
(* within its own walk, whatever cycles the links form.                    *)
THEOREM LinksTypeCorrect == LinksSpec => []LinksTypeOK
<1>1. LinksInv => LinksTypeOK
  BY DEF LinksInv
<1> QED BY <1>1, LinksAlways, PTL

(* Where a finished walk stands: past the last key of the first entry.     *)
LEMMA WhenFinished ==
  ASSUME LinksInv, walk # <<>>, IsFinished
  PROVE  /\ Top = walk[1] /\ Top.record = inputs[1].record /\ Top.record \in Records
         /\ \A i \in DOMAIN Links[Top.record] : i < walk[1].next
         /\ GoodCopy(inputs[1])
<1> USE DEF LinksInv
<1>1. /\ Top.depth = 0 /\ Top = walk[1] /\ Field \in Nat /\ Top.record \in Records
  BY TopFrame DEF IsFinished
<1>2. inputs # <<>> /\ Top.record = inputs[1].record /\ inputs \in Seq(Input)
  BY <1>1 DEF WalkInv, LinksTypeOK
<1>3. 1 \in DOMAIN inputs
  BY <1>2, EmptySeq
<1>4. Len(Links[Top.record]) \in Nat /\ Field > Len(Links[Top.record])
  BY <1>1, LinksOf DEF IsFinished, HasField
<1>5. \A i \in DOMAIN Links[Top.record] : i < walk[1].next
  BY <1>1, <1>4, LinksOf DEF Field
<1> QED BY <1>1, <1>2, <1>3, <1>5 DEF LabelsInv

(* When an entry is finished, every key whose lookup succeeded bears the   *)
(* name of the record it points to, as it was within the time-to-live.     *)
THEOREM KeysAlwaysNamed == LinksSpec => []EveryKeyIsNamed
<1>1. ASSUME LinksInv, walk # <<>> PROVE EveryKeyIsNamed
  BY <1>1, WhenFinished DEF LinksInv, EntryInv, EveryKeyIsNamed
<1>2. ASSUME LinksInv, walk = <<>> PROVE ~IsFinished
  BY <1>2, EmptySeq DEF IsFinished
<1>3. LinksInv => EveryKeyIsNamed
  BY <1>1, <1>2 DEF EveryKeyIsNamed
<1> QED BY <1>3, LinksAlways, PTL

(* Every label on a finished entry, of whatever walk, names the right      *)
(* record as it was less than twice the time-to-live before.               *)
THEOREM LabelsAlwaysRecent == LinksSpec => []LabelsAreRecent
<1>1. ASSUME LinksInv, walk # <<>> PROVE LabelsAreRecent
  BY <1>1, WhenFinished DEF GoodCopy, Named, LabelsAreRecent
<1>2. ASSUME LinksInv, walk = <<>> PROVE ~IsFinished
  BY <1>2, EmptySeq DEF IsFinished
<1>3. LinksInv => LabelsAreRecent
  BY <1>1, <1>2 DEF LabelsAreRecent
<1> QED BY <1>3, LinksAlways, PTL

-----------------------------------------------------------------------------
(* The number of lookups.                                                  *)

(* There are finitely many keys to look up.                                *)
LEMMA LookedIsFinite ==
  ASSUME NEW frames, NEW records, IsFiniteSet(records)
  PROVE  /\ IsFiniteSet(Keys(records)) /\ Looked(frames, records) \in SUBSET Keys(records)
         /\ IsFiniteSet(Looked(frames, records))
<1>1. IsFiniteSet(1..MaxFields)
  BY FS_Interval, ResolverAssumption
<1>2. IsFiniteSet(records \X (1..MaxFields))
  BY <1>1, FS_Product
<1>3. Keys(records) \in SUBSET (records \X (1..MaxFields))
  BY DEF Keys
<1>4. IsFiniteSet(Keys(records))
  BY <1>2, <1>3, FS_Subset
<1>5. Looked(frames, records) \in SUBSET Keys(records)
  BY DEF Looked
<1> QED BY <1>4, <1>5, FS_Subset

(* The bound grows with the keys that were looked up.                      *)
LEMMA CountGrows ==
  ASSUME LinksInv, CountInv, LinksInv',
         Looked(walk, visited) \subseteq Looked(walk', visited'),
         \/ calls' = calls
         \/ /\ calls' = calls + 1
            /\ \E l \in Looked(walk', visited') : l \notin Looked(walk, visited)
  PROVE  CountInv'
<1> DEFINE before == Looked(walk, visited)
           after  == Looked(walk', visited')
<1>1. IsFiniteSet(visited) /\ IsFiniteSet(visited') /\ calls \in Nat
  BY DEF LinksInv, WalkInv, LinksTypeOK
<1>2. IsFiniteSet(before) /\ IsFiniteSet(after)
  BY <1>1, LookedIsFinite
<1>3. before \in SUBSET after /\ calls <= Cardinality(before)
  BY DEF CountInv
<1> HIDE DEF before, after
<1>4. Cardinality(before) \in Nat /\ Cardinality(after) \in Nat
  BY <1>2, FS_CardinalityType
<1>5. Cardinality(before) <= Cardinality(after)
  BY <1>2, <1>3, FS_Subset
<1>6. calls' <= Cardinality(after)
  <2>1. CASE calls' = calls
    BY <1>1, <1>3, <1>4, <1>5, <2>1
  <2>2. CASE calls' = calls + 1 /\ \E l \in after : l \notin before
    <3>1. PICK l \in after : l \notin before
      BY <2>2
    <3>2. Cardinality(before \cup {l}) = Cardinality(before) + 1
      BY <1>2, <3>1, FS_AddElement
    <3>3. before \cup {l} \in SUBSET after
      BY <1>3, <3>1
    <3>4. Cardinality(before \cup {l}) <= Cardinality(after)
      BY <1>2, <3>3, FS_Subset
    <3> QED BY <1>1, <1>3, <1>4, <2>2, <3>2, <3>4
  <2> QED BY <2>1, <2>2 DEF before, after
<1> QED BY <1>6 DEF CountInv, after

(* A frame that goes on leaves one key behind.                             *)
LEMMA AdvanceLooks ==
  ASSUME LinksTypeOK, WalkInv, HasField
  PROVE  /\ Looked(walk, visited) \subseteq Looked(Advance, visited)
         /\ <<Top.record, Field>> \notin Looked(walk, visited)
         /\ Target # NoRecord => <<Top.record, Field>> \in Looked(Advance, visited)
<1>1. /\ Len(walk) \in DOMAIN walk /\ Top = walk[Len(walk)] /\ Field \in Nat
      /\ Top.record \in visited /\ Field = walk[Len(walk)].next
      /\ Field \in DOMAIN Links[Top.record] /\ Field \in 1..MaxFields
  BY TopFrame, TheTarget DEF Field
<1>2. /\ DOMAIN Advance = DOMAIN walk
      /\ \A i \in DOMAIN walk :
           /\ Advance[i].record = walk[i].record
           /\ Advance[i].next = IF i = Len(walk) THEN Field + 1 ELSE walk[i].next
  BY Advancing
<1>3. ASSUME NEW l \in Looked(walk, visited) PROVE l \in Looked(Advance, visited)
  <2>1. l \in Keys(visited) /\ \A i \in DOMAIN walk : walk[i].record = l[1] => l[2] < walk[i].next
    BY DEF Looked
  <2>2. l[2] \in Nat
    BY <2>1, ResolverAssumption DEF Keys
  <2>3. \A i \in DOMAIN Advance : Advance[i].record = l[1] => l[2] < Advance[i].next
    BY <1>1, <1>2, <2>1, <2>2
  <2> QED BY <2>1, <2>3 DEF Looked
<1> DEFINE k == <<Top.record, Field>>
<1>4. k[1] = Top.record /\ k[2] = Field
  OBVIOUS
<1>5. k \notin Looked(walk, visited)
  BY <1>1, <1>4 DEF Looked
<1>6. ASSUME Target # NoRecord PROVE k \in Looked(Advance, visited)
  <2>1. k \in Keys(visited)
    BY <1>1, <1>6 DEF Keys, Target
  <2>2. \A i \in DOMAIN walk : walk[i].record = Top.record => i = Len(walk)
    BY <1>1 DEF LinksTypeOK
  <2>3. \A i \in DOMAIN Advance : Advance[i].record = k[1] => k[2] < Advance[i].next
    BY <1>1, <1>2, <1>4, <2>2
  <2> QED BY <2>1, <2>3 DEF Looked
<1> QED BY <1>3, <1>5, <1>6

(* A record the walk enters for the first time has no key looked up, and   *)
(* takes none away.                                                        *)
LEMMA EnteringLooks ==
  ASSUME LinksTypeOK, WalkInv, HasField, NEW f, f.record = Target, Target \notin visited
  PROVE  Looked(Advance, visited) \subseteq Looked(Append(Advance, f), visited \cup {Target})
<1> DEFINE entered == Append(Advance, f)
<1>1. Advance \in Seq(Frame) /\ DOMAIN Advance = DOMAIN walk /\ Len(Advance) = Len(walk)
      /\ Len(walk) \in Nat
  BY Advancing, TopFrame DEF HasField
<1>2. /\ DOMAIN entered = 1..(Len(Advance) + 1) /\ DOMAIN Advance = 1..Len(Advance)
      /\ \A i \in 1..Len(Advance) : entered[i] = Advance[i]
      /\ entered[Len(Advance) + 1] = f
  BY <1>1
<1>3. \A i \in DOMAIN entered : i \in DOMAIN Advance \/ i = Len(Advance) + 1
  BY <1>1, <1>2
<1>4. \A i \in DOMAIN Advance : entered[i] = Advance[i]
  BY <1>2
<1> HIDE DEF entered
<1>5. ASSUME NEW l \in Looked(Advance, visited) PROVE l \in Looked(entered, visited \cup {Target})
  <2>1. l \in Keys(visited) /\ \A i \in DOMAIN Advance : Advance[i].record = l[1] => l[2] < Advance[i].next
    BY DEF Looked
  <2>2. l[1] \in visited /\ l \in Keys(visited \cup {Target})
    BY <2>1 DEF Keys
  <2>3. l[1] # f.record
    BY <2>2
  <2>4. \A i \in DOMAIN entered : entered[i].record = l[1] => l[2] < entered[i].next
    BY <1>2, <1>3, <1>4, <2>1, <2>3
  <2> QED BY <2>2, <2>4 DEF Looked
<1> QED BY <1>5 DEF entered

(* Every lookup is one of a key that had not been looked up before.        *)
LEMMA CountStep == LinksInv /\ CountInv /\ [Next]_resolver => CountInv'
<1> SUFFICES ASSUME LinksInv, CountInv, [Next]_resolver PROVE CountInv'
  OBVIOUS
<1>1. LinksInv' /\ LinksTypeOK /\ WalkInv
  BY LinksStep DEF LinksInv
<1>2. CASE UNCHANGED <<walk, visited, calls>>
  BY <1>2 DEF CountInv
<1>3. CASE walk' = <<>>
  <2>1. calls' = 0 /\ IsFiniteSet(visited')
    BY <1>1, <1>3 DEF LinksInv, WalkInv
  <2>2. Cardinality(Looked(walk', visited')) \in Nat
    BY <2>1, LookedIsFinite, FS_CardinalityType
  <2> QED BY <2>1, <2>2 DEF CountInv
<1>4. CASE Begin
  <2>1. calls' = 0 /\ IsFiniteSet(visited')
    BY <1>1, <1>4 DEF Begin, LinksInv, WalkInv
  <2>2. Cardinality(Looked(walk', visited')) \in Nat
    BY <2>1, LookedIsFinite, FS_CardinalityType
  <2> QED BY <2>1, <2>2 DEF CountInv
<1>5. CASE SkipNone
  <2>1. HasField /\ walk' = Advance /\ visited' = visited /\ calls' = calls
    BY <1>5 DEF SkipNone
  <2> QED BY <1>1, <2>1, AdvanceLooks, CountGrows
<1>6. CASE Unresolved
  <2>1. HasField /\ Target # NoRecord /\ walk' = Advance /\ visited' = visited /\ calls' = calls + 1
    BY <1>6 DEF Unresolved
  <2> QED BY <1>1, <2>1, AdvanceLooks, CountGrows
<1>7. CASE Resolved
  <2>1. HasField /\ Target # NoRecord /\ calls' = calls + 1
    BY <1>7 DEF Resolved
  <2>2. /\ Looked(walk, visited) \subseteq Looked(Advance, visited)
        /\ <<Top.record, Field>> \notin Looked(walk, visited)
        /\ <<Top.record, Field>> \in Looked(Advance, visited)
    BY <1>1, <2>1, AdvanceLooks
  <2>3. Looked(Advance, visited) \subseteq Looked(walk', visited')
    <3>1. CASE Enters
      <4> DEFINE f == [record |-> Target, at |-> LookedUp(Target).at, next |-> 1,
                       depth |-> Top.depth + 1]
      <4>1. /\ walk' = Append(Advance, f) /\ visited' = visited \cup {Target}
            /\ Target \notin visited /\ f.record = Target
        BY <1>7, <3>1 DEF Resolved, Enters
      <4> HIDE DEF f
      <4> QED BY <1>1, <2>1, <4>1, EnteringLooks
    <3>2. CASE ~Enters
      BY <1>7, <3>2 DEF Resolved
    <3> QED BY <3>1, <3>2
  <2> QED BY <1>1, <2>1, <2>2, <2>3, CountGrows
<1>8. CASE Return /\ walk' # <<>>
  <2>1. walk # <<>> /\ walk' = Front(walk)
    BY <1>8 DEF Return
  <2>2. /\ DOMAIN walk' \subseteq DOMAIN walk /\ \A i \in DOMAIN walk' : walk'[i] = walk[i]
        /\ Len(walk) # 1
    BY <1>1, <1>8, <2>1, ReturnedWalk
  <2>3. visited' = visited /\ calls' = calls
    BY <1>8, <2>2 DEF Return, IsFinished
  <2>4. Looked(walk, visited) \subseteq Looked(walk', visited')
    BY <2>2, <2>3 DEF Looked
  <2> QED BY <1>1, <2>3, <2>4, CountGrows
<1>9. CASE Execute \/ Executed \/ Tick \/ UNCHANGED resolver
  BY <1>2, <1>9 DEF Execute, Executed, Tick, resolver
<1>10. CASE Raise
  BY <1>3, <1>10 DEF Raise
<1> QED BY <1>3, <1>4, <1>5, <1>6, <1>7, <1>8, <1>9, <1>10 DEF Next, Resolve

(* The lookups of an entry are at most the keys of the records its walk    *)
(* entered, each once, however many paths lead to a record.                *)
THEOREM CallsAlwaysBounded == LinksSpec => []CallsAreBounded
<1>1. Init => CountInv
  <2>1. Init => calls = 0 /\ IsFiniteSet(visited)
    BY FS_EmptySet DEF Init
  <2>2. IsFiniteSet(visited) => Cardinality(Looked(walk, visited)) \in Nat
    BY LookedIsFinite, FS_CardinalityType
  <2> QED BY <2>1, <2>2 DEF CountInv
<1>2. LinksInv /\ CountInv => CallsAreBounded
  <2>1. ASSUME LinksInv, CountInv PROVE calls <= Cardinality(Keys(visited))
    <3>1. IsFiniteSet(visited) /\ calls \in Nat /\ calls <= Cardinality(Looked(walk, visited))
      BY <2>1 DEF LinksInv, WalkInv, LinksTypeOK, CountInv
    <3>2. /\ IsFiniteSet(Keys(visited)) /\ Looked(walk, visited) \in SUBSET Keys(visited)
          /\ IsFiniteSet(Looked(walk, visited))
      BY <3>1, LookedIsFinite
    <3>3. Cardinality(Keys(visited)) \in Nat /\ Cardinality(Looked(walk, visited)) \in Nat
      BY <3>2, FS_CardinalityType
    <3>4. Cardinality(Looked(walk, visited)) <= Cardinality(Keys(visited))
      BY <3>2, FS_Subset
    <3> QED BY <3>1, <3>3, <3>4
  <2> QED BY <2>1 DEF CallsAreBounded, Keys
<1> QED BY <1>1, <1>2, CountStep, LinksAlways, PTL DEF LinksSpec
===============================================================================

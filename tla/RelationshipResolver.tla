------------------------ MODULE RelationshipResolver ------------------------
(***************************************************************************)
(* The relationship resolver: every foreign key of an executed record gets *)
(* a readable label beside it, depth first through the records it reaches. *)
(*                                                                         *)
(* The executor hands over snapshots (model_dump).  The records the walk   *)
(* looks up are the very objects the client's cache holds, and the walk    *)
(* writes their labels into them, so that a snapshot taken later carries   *)
(* labels of an earlier walk.  An object is identified by its record and   *)
(* the time it was fetched; a label by the record it names and the time    *)
(* that record was fetched.  A write into an object the cache no longer    *)
(* holds is lost: nothing else refers to it.                               *)
(***************************************************************************)
EXTENDS Integers, SequencesExt, FiniteSets

CONSTANTS
  Records,    \* records of the ERP, of any facet
  NoRecord,   \* a foreign key that is None
  Links,      \* the foreign keys of a record, in the order its facet declares them
  MaxDepth,   \* settings.max_rel_depth
  Ttl,        \* TTLCache._ttl
  MaxFields,  \* bound: foreign keys of one facet
  MaxInputs,  \* bound: entries one turn executes
  MaxClock    \* bound: how long the clock runs

ASSUME LinksAssumption ==
  /\ NoRecord \notin Records
  /\ Links \in [Records -> Seq(Records \cup {NoRecord})]
  /\ \A r \in Records : Len(Links[r]) <= MaxFields
ASSUME ResolverAssumption ==
  /\ MaxDepth \in Nat \ {0} /\ Ttl \in Nat /\ MaxFields \in Nat
  /\ MaxInputs \in Nat /\ MaxClock \in Nat

VARIABLES
  clock,    \* time.monotonic()
  cached,   \* the record objects in the cache; one with expires = 0 is not there
  pc,       \* the node that runs
  inputs,   \* the executed entries the resolver has not finished
  walk,     \* the active calls of _resolve_record, innermost last
  visited,  \* the cycle guard of the entry being resolved
  missed,   \* history: the entry's own keys whose lookup found nothing
  calls     \* history: lookups made for the entry

resolver == <<clock, cached, pc, inputs, walk, visited, missed, calls>>

Label   == [of : Records, at : 0..MaxClock]
NoLabel == [of |-> NoRecord, at |-> 0]
Blank(r) == [i \in DOMAIN Links[r] |-> NoLabel]

Object == [at : 0..MaxClock, expires : Nat, labels : Seq(Label \cup {NoLabel})]
Input  == [record : Records, at : 0..MaxClock, labels : Seq(Label \cup {NoLabel})]
Frame  == [record : Records, at : 0..MaxClock, next : Nat \ {0}, depth : Nat]

Init ==
  /\ clock = 0
  /\ cached = [r \in Records |-> [at |-> 0, expires |-> 0, labels |-> Blank(r)]]
  /\ pc = "executor"
  /\ inputs = <<>> /\ walk = <<>>
  /\ visited = {} /\ missed = {} /\ calls = 0

-----------------------------------------------------------------------------
(* The client's cache in front of the ERP's get_by_id endpoints.           *)

IsCached(r)  == clock < cached[r].expires
Fetched(r)   == [at |-> clock, expires |-> clock + Ttl, labels |-> Blank(r)]
Kept_Slides(r) == [cached[r] EXCEPT !.expires = clock + Ttl]
Kept(r)      == cached[r]
LookedUp(r)  == IF IsCached(r) THEN Kept(r) ELSE Fetched(r)

(* A lookup that is answered leaves its object in the cache.               *)
AfterLookup(r) == [cached EXCEPT ![r] = LookedUp(r)]

-----------------------------------------------------------------------------
(* The executor takes a snapshot of a record it gets by id (the object in  *)
(* the cache), or of a row of a list (whose rows are nobody else's).       *)
Snapshot(r, labels) == Append(inputs, [record |-> r, at |-> clock, labels |-> labels])

Execute ==
  /\ pc = "executor"
  /\ Len(inputs) < MaxInputs
  /\ \E r \in Records :
       \/ cached' = AfterLookup(r) /\ inputs' = Snapshot(r, LookedUp(r).labels)
       \/ cached' = cached         /\ inputs' = Snapshot(r, Blank(r))
  /\ UNCHANGED <<clock, pc, walk, visited, missed, calls>>

Executed ==
  /\ pc = "executor"
  /\ inputs # <<>>
  /\ pc' = "relationship_resolver"
  /\ UNCHANGED <<clock, cached, inputs, walk, visited, missed, calls>>

-----------------------------------------------------------------------------
(* resolve_relationships copies the entry's record, labels included, and   *)
(* walks it with a cycle guard of its own.                                 *)
Begin ==
  /\ pc = "relationship_resolver"
  /\ walk = <<>> /\ inputs # <<>>
  /\ walk' = <<[record |-> inputs[1].record, at |-> 0, next |-> 1, depth |-> 0]>>
  /\ visited' = {inputs[1].record}
  /\ UNCHANGED <<clock, cached, pc, inputs, missed, calls>>

Top     == Last(walk)
Field   == Top.next
HasField == walk # <<>> /\ Field <= Len(Links[Top.record])
Target  == Links[Top.record][Field]
Advance == [walk EXCEPT ![Len(walk)].next = @ + 1]

(* "if fk_value is None: continue"                                         *)
SkipNone_Stays ==
  /\ HasField /\ Target = NoRecord
  /\ walk' = walk
  /\ UNCHANGED <<clock, cached, pc, inputs, visited, missed, calls>>
SkipNone ==
  /\ HasField /\ Target = NoRecord
  /\ walk' = Advance
  /\ UNCHANGED <<clock, cached, pc, inputs, visited, missed, calls>>

(* "if target is None: continue": an error or a 404, neither of which is   *)
(* cached as a record.                                                     *)
Unresolved ==
  /\ HasField /\ Target # NoRecord
  /\ ~IsCached(Target)
  /\ walk' = Advance
  /\ missed' = IF Top.depth = 0 THEN missed \cup {Field} ELSE missed
  /\ calls' = calls + 1
  /\ UNCHANGED <<clock, cached, pc, inputs, visited>>

(* The label goes on the entry's copy, or on the object the cache holds.   *)
LabelCopy_Once(label) ==
  IF Top.depth = 0 /\ Target \notin visited
  THEN [inputs EXCEPT ![1].labels[Field] = label] ELSE inputs
LabelCopy(label) ==
  IF Top.depth = 0 THEN [inputs EXCEPT ![1].labels[Field] = label] ELSE inputs
LabelObject(objects, label) ==
  IF Top.depth > 0 /\ objects[Top.record].at = Top.at
  THEN [objects EXCEPT ![Top.record].labels[Field] = label] ELSE objects

(* _resolve_record of the target returns at once when it was visited.      *)
Enters_Unguarded == Top.depth + 1 < MaxDepth
Enters_TooDeep == Top.depth < MaxDepth /\ Target \notin visited
Enters == Top.depth + 1 < MaxDepth /\ Target \notin visited

Resolved ==
  /\ HasField /\ Target # NoRecord
  /\ LET label == [of |-> Target, at |-> LookedUp(Target).at]
     IN /\ inputs' = LabelCopy(label)
        /\ cached' = LabelObject(AfterLookup(Target), label)
  /\ walk' = IF Enters
             THEN Append(Advance, [record |-> Target, at |-> LookedUp(Target).at,
                                   next |-> 1, depth |-> Top.depth + 1])
             ELSE Advance
  /\ visited' = IF Enters THEN visited \cup {Target} ELSE visited
  /\ calls' = calls + 1
  /\ UNCHANGED <<clock, pc, missed>>

(* A call returns; with the outermost one the entry is finished, and with  *)
(* the last entry the node.  The guard dies with the outermost call.       *)
IsFinished == Len(walk) = 1 /\ ~HasField
Forget == visited' = {} /\ missed' = {} /\ calls' = 0
Return ==
  /\ walk # <<>> /\ ~HasField
  /\ walk' = Front(walk)
  /\ inputs' = IF IsFinished THEN Tail(inputs) ELSE inputs
  /\ pc' = IF IsFinished /\ Len(inputs) = 1 THEN "executor" ELSE pc
  /\ IF IsFinished THEN Forget ELSE UNCHANGED <<visited, missed, calls>>
  /\ UNCHANGED <<clock, cached>>

(* A lookup raises (the login's answer is not JSON, or the key's facet is  *)
(* unknown): the node's update is lost, the labels on the cache's objects  *)
(* are not.                                                                *)
Raise ==
  /\ HasField /\ Target # NoRecord /\ ~IsCached(Target)
  /\ inputs' = <<>> /\ walk' = <<>> /\ pc' = "executor" /\ Forget
  /\ UNCHANGED <<clock, cached>>

Tick ==
  /\ clock < MaxClock
  /\ clock' = clock + 1
  /\ UNCHANGED <<cached, pc, inputs, walk, visited, missed, calls>>

Resolve == Begin \/ SkipNone \/ Unresolved \/ Resolved \/ Return
Next == Execute \/ Executed \/ Resolve \/ Raise \/ Tick

(* The event loop runs the node once it is entered; every request returns  *)
(* (it has a timeout), and nothing obliges one to raise.                   *)
LinksSpec == Init /\ [][Next]_resolver /\ WF_resolver(Resolve)

-----------------------------------------------------------------------------
(* Frames, snapshots and objects keep their shape; no call is deeper than  *)
(* the setting allows, and no record is walked twice at a time.            *)
LinksTypeOK ==
  /\ clock \in 0..MaxClock
  /\ pc \in {"executor", "relationship_resolver"}
  /\ cached \in [Records -> Object]
  /\ inputs \in Seq(Input) /\ Len(inputs) <= MaxInputs
  /\ walk \in Seq(Frame)
  /\ \A i \in DOMAIN walk : walk[i].depth = i - 1 /\ i <= MaxDepth
  /\ \A i, j \in DOMAIN walk : walk[i].record = walk[j].record => i = j
  /\ visited \subseteq Records /\ missed \subseteq Nat /\ calls \in Nat

(* The greatest age of what a lookup returns, in whole ticks.              *)
Oldest == IF Ttl = 0 THEN 0 ELSE Ttl - 1

(* Every key of the answered record whose lookup in this turn succeeded    *)
(* shows the name of the record it points to, also when the walk met that  *)
(* record before, and the name is less than the time-to-live old.          *)
EveryKeyIsNamed ==
  IsFinished =>
    \A i \in DOMAIN Links[Top.record] \ missed :
      Links[Top.record][i] # NoRecord =>
        /\ inputs[1].labels[i].of = Links[Top.record][i]
        /\ inputs[1].at - inputs[1].labels[i].at <= Oldest

(* A key whose lookup failed may still show the label an earlier walk left *)
(* on the cache's object.  It names the right record, and its age is below *)
(* twice the time-to-live: the object's and, when it was written, the      *)
(* target's.  Once the time-to-live is not enough (see the README).        *)
LabelsAreRecent ==
  IsFinished =>
    \A i \in DOMAIN Links[Top.record] :
      inputs[1].labels[i] # NoLabel =>
        /\ inputs[1].labels[i].of = Links[Top.record][i]
        /\ inputs[1].at - inputs[1].labels[i].at <= 2 * Oldest

(* The cycle guard: a walk looks up each key of the records it enters at   *)
(* most once, so its requests grow with the links and not with the paths.  *)
CallsAreBounded ==
  calls <= Cardinality({l \in visited \X (1..MaxFields) :
                          /\ l[2] \in DOMAIN Links[l[1]]
                          /\ Links[l[1]][l[2]] # NoRecord})

(* Chains and cycles of links never keep the node for ever.                *)
WalksEnd == pc = "relationship_resolver" ~> pc = "executor"
=============================================================================

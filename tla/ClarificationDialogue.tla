----------------------- MODULE ClarificationDialogue -----------------------
(***************************************************************************)
(* Asking which of several records is meant, and understanding the reply:  *)
(* the entity resolver's search and disambiguation in one turn, and the    *)
(* clarification resolver's parsing and rewriting in the next.             *)
(*                                                                         *)
(* A text is a sequence of pieces, which are characters or runs of them    *)
(* that nothing divides; blanks are pieces too.  "a in b" says that the    *)
(* pieces of a stand together in b, which may be inside a longer word.     *)
(* (Upper and lower case are one; texts are trimmed.)                      *)
(* There is one facet, whose records are found by their name and whose     *)
(* label is the name (facets.yaml), and one search step per question.      *)
(***************************************************************************)
EXTENDS Integers, SequencesExt, FiniteSetsExt, Orders

CONSTANTS
  Pieces,        \* what texts are made of, blanks and parentheses among it
  Ids,           \* primary keys, in the order the ERP lists its records
  Names,         \* the names a record may have
  Messages,      \* what the user may type
  Number,        \* the texts that are digits, with or without #, with their values
  Ordinal,       \* the ordinal words and their values, in the order of the code
  Forms,         \* what may stand before and after the entity in a question
  Entity,        \* what the planner takes for an entity, and what it searches then
  MaxCandidates, \* MAX_CANDIDATES
  MaxTurns,      \* bound: messages typed
  MaxRenames     \* bound: changes of a name in the ERP

ASSUME DialogueAssumption ==
  /\ {" ", "(", ")"} \subseteq Pieces
  /\ Ids \subseteq Nat /\ IsFiniteSet(Ids)
  /\ Names \subseteq Seq(Pieces) \ {<<>>} /\ Messages \subseteq Seq(Pieces) \ {<<>>}
  /\ \A t \in DOMAIN Number : Number[t] \in Nat
  /\ Ordinal \in Seq([word : Seq(Pieces), value : Nat])
  /\ Forms \subseteq [before : Seq(Pieces), after : Seq(Pieces)]
  /\ \A t \in DOMAIN Entity : Entity[t] \in Seq(Pieces)
  /\ MaxCandidates \in Nat \ {0, 1} /\ MaxTurns \in Nat /\ MaxRenames \in Nat

Option    == [id : Ids, label : Names]
NoOption  == [id |-> 0, label |-> <<>>]
NoPending == [question |-> <<>>, query |-> <<>>, options |-> <<>>]

VARIABLES
  names,     \* the ERP: the name of each record
  pending,   \* the clarification that waits for the next message
  pc,        \* where the turn is
  question,  \* user_input, as typed or as rewritten
  answer,    \* the turn's outcome: asked, found (with the record), nothing, failed
  chosen,    \* the option the clarification resolver took this message for
  typed,     \* history: the message of this turn, and what it replies to
  turns, renames

dialogue == <<names, pending, pc, question, answer, chosen, typed, turns, renames>>

NoAnswer == [kind |-> "none", id |-> 0]

Init ==
  /\ names \in [Ids -> Names]
  /\ pending = NoPending
  /\ pc = "idle" /\ question = <<>> /\ answer = NoAnswer
  /\ chosen = NoOption /\ typed = [text |-> <<>>, to |-> NoPending]
  /\ turns = 0 /\ renames = 0

-----------------------------------------------------------------------------
(* Texts.                                                                  *)

Starts(a, b) == {k \in 1..(Len(b) - Len(a) + 1) : SubSeq(b, k, k + Len(a) - 1) = a}
In(a, b)     == a # <<>> /\ Starts(a, b) # {}

(* The first occurrence of a in b, replaced by c.                          *)
Replaced(a, b, c) ==
  LET k == Min(Starts(a, b))
  IN SubSeq(b, 1, k - 1) \o c \o SubSeq(b, k + Len(a), Len(b))

-----------------------------------------------------------------------------
(* The clarification resolver.                                             *)

(* The digits a text begins with, as many as there are; else the ordinal   *)
(* word the code lists first of those in the text, be it inside another    *)
(* word; 0 if there is neither.                                            *)
Leading(text) == {n \in 1..Len(text) : SubSeq(text, 1, n) \in DOMAIN Number}
WordsIn(text) == {k \in DOMAIN Ordinal : In(Ordinal[k].word, text)}
ParseOrdinal(text) ==
  IF Leading(text) # {} THEN Number[SubSeq(text, 1, Max(Leading(text)))]
  ELSE IF WordsIn(text) # {} THEN Ordinal[Min(WordsIn(text))].value ELSE 0

(* The options that satisfy P, when there is only one; otherwise nothing.  *)
Sole(S) == IF Cardinality(S) = 1 THEN S ELSE {}

(* An ordinal in range, else the one label the message is part of, else    *)
(* the one label that is part of the message.                              *)
ParseSelection_FirstMatch(text, options) ==
  LET n == ParseOrdinal(text)
      matches   == {i \in DOMAIN options : In(text, options[i].label)}
      contained == {i \in DOMAIN options : In(options[i].label, text)}
  IN IF n \in DOMAIN options THEN {n}
     ELSE IF matches # {} THEN {Min(matches)} ELSE Sole(contained)
ParseSelection(text, options) ==
  LET n == ParseOrdinal(text)
      matches   == {i \in DOMAIN options : In(text, options[i].label)}
      contained == {i \in DOMAIN options : In(options[i].label, text)}
  IN IF n \in DOMAIN options THEN {n}
     ELSE IF Sole(matches) # {} THEN matches ELSE Sole(contained)

(* The label takes the place of the query where its characters stand first *)
(* in the question, or follows the question in parentheses.                *)
RewriteQuestion_Appends(original, query, label) == original \o <<" ", "(">> \o label \o <<")">>
RewriteQuestion(original, query, label) ==
  IF In(query, original) THEN Replaced(query, original, label)
  ELSE original \o <<" ", "(">> \o label \o <<")">>

(* The user types a message; whether it is a selection or not, nothing     *)
(* waits for the one after it.                                             *)
Say ==
  /\ pc = "idle" /\ turns < MaxTurns
  /\ turns' = turns + 1
  /\ \E text \in Messages :
       /\ typed' = [text |-> text, to |-> pending]
       /\ \/ /\ ParseSelection(text, pending.options) = {}
             /\ question' = text /\ chosen' = NoOption
          \/ \E i \in ParseSelection(text, pending.options) :
               /\ chosen' = pending.options[i]
               /\ question' = RewriteQuestion(pending.question, pending.query, chosen'.label)
  /\ pending' = NoPending /\ answer' = NoAnswer /\ pc' = "resolve"
  /\ UNCHANGED <<names, renames>>

-----------------------------------------------------------------------------
(* The planner, whose search step names the entity the question is about,  *)
(* in the question's words or in others.  A name that stands in one of the *)
(* forms is searched as it is.                                             *)
Queries(text) ==
  {Entity[t] : t \in {t \in DOMAIN Entity : \E f \in Forms : text = f.before \o t \o f.after}}

ASSUME PlannerAssumption ==
  /\ [before |-> <<>>, after |-> <<>>] \in Forms
  /\ \A f \in Forms, n \in Names : Queries(f.before \o n \o f.after) = {n}

(* The entity resolver.  A bare number is looked up as an id; when that    *)
(* yields no record, it is searched like any other text.                   *)

IsNumber(text) == text \in DOMAIN Number
ById(query)    == IF IsNumber(query) THEN Ids \cap {Number[query]} ELSE {}
Hits(query) == {i \in Ids : In(query, names[i])}

(* Among several hits, the only exact one is meant.                        *)
Exact(query) == {i \in Hits(query) : names[i] = query}
Clear(query) == IF Cardinality(Hits(query)) <= 1 THEN Hits(query) ELSE Sole(Exact(query))

ListedIds_All(S) == InOrder(S)
ListedIds(S) == SubSeq(InOrder(S), 1, Min({MaxCandidates, Cardinality(S)}))
Candidates(query) ==
  [k \in DOMAIN ListedIds(Hits(query)) |->
     [id |-> ListedIds(Hits(query))[k], label |-> names[ListedIds(Hits(query))[k]]]]

Found(S) == \E i \in S : answer' = [kind |-> "found", id |-> i]

Resolve ==
  /\ pc = "resolve"
  /\ \E query \in Queries(question) :
       \/ ById(query) # {} /\ Found(ById(query)) /\ UNCHANGED pending
       \/ Clear(query) # {} /\ Found(Clear(query)) /\ UNCHANGED pending
       \/ /\ Hits(query) = {}
          /\ answer' = [kind |-> "nothing", id |-> 0] /\ UNCHANGED pending
       \/ /\ Hits(query) # {} /\ Clear(query) = {}
          /\ answer' = [kind |-> "asked", id |-> 0]
          /\ pending' = [question |-> question, query |-> query, options |-> Candidates(query)]
  /\ pc' = "idle"
  /\ UNCHANGED <<names, question, chosen, typed, turns, renames>>

(* The search fails, or the question names nothing the planner searches.   *)
Unresolved ==
  /\ pc = "resolve"
  /\ answer' = [kind |-> "failed", id |-> 0]
  /\ pc' = "idle"
  /\ UNCHANGED <<names, pending, question, chosen, typed, turns, renames>>

(* The ERP's data changes between or within turns.                         *)
Rename ==
  /\ renames < MaxRenames
  /\ renames' = renames + 1
  /\ \E i \in Ids, n \in Names : n # names[i] /\ names' = [names EXCEPT ![i] = n]
  /\ answer' = NoAnswer
  /\ UNCHANGED <<pending, pc, question, chosen, typed, turns>>

Next == Say \/ Resolve \/ Unresolved \/ Rename

DialogueSpec == Init /\ [][Next]_dialogue

-----------------------------------------------------------------------------
(* A pending clarification offers at least two options and at most         *)
(* MAX_CANDIDATES, each a different record, and it is what the last        *)
(* answer asked.                                                           *)
DialogueTypeOK ==
  /\ names \in [Ids -> Names]
  /\ pc \in {"idle", "resolve"}
  /\ answer.kind \in {"none", "asked", "found", "nothing", "failed"} /\ answer.id \in Ids \cup {0}
  /\ chosen \in Option \cup {NoOption}
  /\ pending # NoPending =>
       /\ pending.options \in Seq(Option)
       /\ Len(pending.options) \in 2..MaxCandidates
       /\ IsInjective([i \in DOMAIN pending.options |-> pending.options[i].id])
  /\ answer.kind = "asked" => pending # NoPending

(* The option a reply means: the one whose number it is, or the only one   *)
(* whose whole label it is.  (A reply with a number or an ordinal word in  *)
(* it is read as that number, also when it is a label.)                    *)
Meant(text, options) ==
  {i \in DOMAIN options :
     \/ IsNumber(text) /\ Number[text] = i
     \/ /\ ParseOrdinal(text) = 0
        /\ \A j \in DOMAIN options : options[j].label = text <=> j = i}

Bearers(label) == {i \in Ids : names[i] = label}

(* The question has the words that were searched in it where it names the  *)
(* entity, and they do not stand in it before, not even inside a word.     *)
NamesOnce(asked) ==
  \E f \in Forms :
    /\ asked.question = f.before \o asked.query \o f.after
    /\ asked.query # <<>>
    /\ \A k \in Starts(asked.query, asked.question) : k > Len(f.before)

(* Over two turns: the reply that gives an option's number or its label,   *)
(* to a question that names the entity literally, and whose characters do  *)
(* not have the entity's before that, is answered for that very record, as *)
(* long as it alone still bears the label the user was shown, and the      *)
(* label is not itself a number.  (A search that fails finds nobody.)      *)
MeantIsResolved ==
  answer.kind \in {"asked", "found", "nothing"} /\ NamesOnce(typed.to) =>
    \A i \in Meant(typed.text, typed.to.options) :
      LET option == typed.to.options[i]
      IN Bearers(option.label) = {option.id} /\ ~IsNumber(option.label)
           => answer = [kind |-> "found", id |-> option.id]

(* A reply that is the whole label of an option, and has no number or      *)
(* ordinal word in it, is never taken for an option with another label,    *)
(* also when one label is part of the other.                               *)
NamedIsNotAnother ==
  (/\ chosen # NoOption /\ ParseOrdinal(typed.text) = 0
   /\ \E i \in DOMAIN typed.to.options : typed.to.options[i].label = typed.text)
  => chosen.label = typed.text

(* clarification.py: "If [...] this turn's message is a valid selection,   *)
(* rewrite the original question with the chosen entity so the normal      *)
(* pipeline answers it."  A selection is not asked back.                   *)
ChosenIsAnswered == chosen # NoOption => answer.kind # "asked"
=============================================================================

----------------------------- MODULE MCDialogue -----------------------------
(* Names that are parts of each other, as "Al", "Al Smith" and "Al Smith    *)
(* Jr" are, or have an ordinal word in them; replies by number, with what   *)
(* may surround it, and by name; questions by name, by part of a name, by   *)
(* id, with the name's characters inside an earlier word ("salary of Al"),  *)
(* with ordinal words, and with a name the planner spells differently.      *)
EXTENDS ClarificationDialogue

Characters == {"al", "s", "ary", "smith", "jr", "first", "hand", "second", "of", "el",
               "1", "2", "3", "#", " ", "(", ")"}

NestedNames == {<<"al">>, <<"al", " ", "smith">>, <<"al", " ", "smith", " ", "jr">>, <<"first", " ", "smith">>}

Digits ==
  [t \in {<<"1">>, <<"2">>, <<"3">>, <<"#", "2">>} |->
     CASE t = <<"1">> -> 1 [] t = <<"3">> -> 3 [] OTHER -> 2]
Ordinals == <<[word |-> <<"first">>, value |-> 1], [word |-> <<"second">>, value |-> 2]>>

Of     == <<"of", " ">>
Salary(n) == <<"s">> \o n \o <<"ary", " ">> \o Of
Alone  == [before |-> <<>>, after |-> <<>>]
Asking == {Alone, [before |-> Of, after |-> <<>>],
           [before |-> <<"first", "hand", " ">> \o Of, after |-> <<>>]} \cup
          {[before |-> Salary(n), after |-> <<>>] : n \in NestedNames} \cup
          {[before |-> Of, after |-> <<" ", "(">> \o n \o <<")">>] : n \in NestedNames}

Spelled == [t \in NestedNames \cup {<<"smith">>, <<"2">>, <<"el">>} |->
              IF t = <<"el">> THEN <<"al">> ELSE t]

Typed == NestedNames \cup DOMAIN Digits \cup {<<"2", ")">>, <<"second", " ", "first">>} \cup
         {Of \o t : t \in {<<"al">>, <<"al", " ", "smith">>, <<"smith">>, <<"2">>, <<"el">>}} \cup
         {Salary(<<"al">>) \o <<"al">>, <<"first", "hand", " ">> \o Of \o <<"smith">>}
=============================================================================

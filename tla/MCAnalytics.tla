------------------------------ MODULE MCAnalytics ------------------------------
(* Values and filters for model checking the analytics service.            *)
EXTENDS AnalyticsService

CONSTANT word

Clauses(clauses) == {[field |-> c[1], op |-> c[2], value |-> c[3]] : c \in clauses}
SomeFilters == {{}, Clauses({<<"metric", "gt", -1>>}),
                Clauses({<<"group", "ne", word>>, <<"metric", "contains", word>>})}
SomeNumbers == {-1, 2}
SomeTexts   == {word}
Itself      == {<<word, word>>}
SomeLimits  == -1..2

(* Sorting and filtering by places is sorting and filtering.               *)
Lists == UNION {[1..n -> -1..1] : n \in 0..3}
ASSUME OrdersAgree ==
  /\ \A list \in Lists :
       LET Earlier(m, n) == list[m] < list[n] \/ (list[m] = list[n] /\ m < n)
       IN /\ SortedBy(DOMAIN list, Earlier) = SetToSortSeq(DOMAIN list, Earlier)
          /\ Kept(list, {n \in DOMAIN list : list[n] # 0}) = SelectSeq(list, LAMBDA x : x # 0)
  /\ \A S \in SUBSET (-2..2) : InOrder(S) = SetToSortSeq(S, <)
=============================================================================

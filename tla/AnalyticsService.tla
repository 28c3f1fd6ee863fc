--------------------------- MODULE AnalyticsService ---------------------------
(***************************************************************************)
(* AnalyticsService.aggregate: filter, group, aggregate, sort and limit    *)
(* the rows of a list.                                                     *)
(*                                                                         *)
(* A row has a field to group by and a field to compute on; a list of rows *)
(* is handled as the sequence of their positions.  A value is a number, a  *)
(* text (case and surrounding blanks apart), None, or Absent when the row  *)
(* lacks the field.  The result of a computation is a fraction.            *)
(***************************************************************************)
EXTENDS Integers, SequencesExt, Orders

CONSTANTS
  Numbers,   \* numbers and numeric strings
  Texts,     \* texts that are not numbers
  None,      \* Python's None
  Absent,    \* the row has no such key
  Includes,  \* pairs of a value and a value its text contains
  Filters,   \* the lists of filter clauses considered, each as a set
  Limits,    \* the limits considered, 0 for none
  MaxRows    \* bound: longest list

Op       == {"count", "sum", "avg", "min", "max"}
FilterOp == {"eq", "ne", "gt", "gte", "lt", "lte", "contains"}
Values   == Numbers \cup Texts \cup {None}
Clause   == [field : {"group", "metric"}, op : FilterOp, value : Values]

Fraction == [num : Int, den : Nat \ {0}]

ASSUME AnalyticsAssumption ==
  /\ Numbers \subseteq Int /\ MaxRows \in Nat
  /\ {None, Absent} \cap (Numbers \cup Texts) = {} /\ None # Absent
  /\ None \notin Fraction /\ None # "group" /\ Limits \subseteq Int
  /\ \A filters \in Filters : filters \subseteq Clause

(* AggregateSpec.  The metric and the group-by field are None, the empty   *)
(* text or the name of a field.  A negative limit asks for a ranking and   *)
(* cuts nothing.                                                           *)
Spec == [op : Op, metric : {None, "", "metric"}, group : {None, "", "group"},
         filters : Filters, desc : BOOLEAN, limit : Limits]
Row  == [group : Texts \cup {None, Absent}, metric : Values \cup {Absent}]

VARIABLES
  rows,    \* the rows listed so far
  spec,    \* the aggregation computed, none at first
  result   \* its result, none at first

analytics == <<rows, spec, result>>

Init == rows = <<>> /\ spec = {} /\ result = {}

(* row.get(field)                                                          *)
Get(i, field) == IF rows[i][field] = Absent THEN None ELSE rows[i][field]
Metric(i, s)  == IF s.metric = "metric" THEN Get(i, "metric") ELSE None

(* Grouping wants a name; a ranking of single rows, by limit and metric,   *)
(* wants no group-by field, not even an empty one (lines 63 and 80).       *)
ByGroup(s) == s.group = "group"
IsTopN(s)  == s.group = None /\ s.metric # None /\ s.limit # 0

-----------------------------------------------------------------------------
(* _validate: a number is needed and no row has one, or a field named in   *)
(* the request is in no row.                                               *)
Known(field) == \E i \in DOMAIN rows : rows[i][field] # Absent
Rejected(s) ==
  /\ rows # <<>>
  /\ \/ /\ s.op # "count" \/ IsTopN(s)
        /\ \A i \in DOMAIN rows : Metric(i, s) \notin Numbers
     \/ ByGroup(s) /\ ~Known("group")
     \/ \E c \in s.filters : ~Known(c.field)

(* _matches_one: numbers compare as numbers; all else is equal or not.     *)
Satisfies(v, c) ==
  LET numeric == {v, c.value} \subseteq Numbers
  IN \/ c.op = "eq" /\ v = c.value
     \/ c.op = "ne" /\ v # c.value
     \/ c.op = "gt" /\ numeric /\ v > c.value
     \/ c.op = "gte" /\ numeric /\ v >= c.value
     \/ c.op = "lt" /\ numeric /\ v < c.value
     \/ c.op = "lte" /\ numeric /\ v <= c.value
     \/ c.op = "contains" /\ <<v, c.value>> \in Includes
Matched(s) ==
  InOrder({i \in DOMAIN rows : \A c \in s.filters : Satisfies(Get(i, c.field), c)})

-----------------------------------------------------------------------------
(* _scalar: one value over some rows, None when it needs a number and      *)
(* there is none.                                                          *)
Whole(n) == [num |-> n, den |-> 1]
NumbersOf_WithZeros(positions, s) ==
  [n \in DOMAIN positions |->
     IF Metric(positions[n], s) \in Numbers THEN Metric(positions[n], s) ELSE 0]
WithNumber(positions, s) ==
  Kept(positions, {n \in DOMAIN positions : Metric(positions[n], s) \in Numbers})
NumbersOf(positions, s) ==
  LET numeric == WithNumber(positions, s)
  IN [n \in DOMAIN numeric |-> Metric(numeric[n], s)]
Total(nums) == FoldLeft(LAMBDA sum, n : sum + n, 0, nums)

Scalar(positions, s) ==
  LET nums == NumbersOf(positions, s)
  IN IF s.op = "count" THEN Whole(Len(positions))
     ELSE IF nums = <<>> THEN None
     ELSE CASE s.op = "sum" -> Whole(Total(nums))
            [] s.op = "avg" -> [num |-> Total(nums), den |-> Len(nums)]
            [] s.op = "min" -> Whole(Min(ToSet(nums)))
            [] s.op = "max" -> Whole(Max(ToSet(nums)))

(* The buckets of _grouped, in the order in which their keys turn up.      *)
Put(buckets, key, i) ==
  IF \E b \in ToSet(buckets) : b.key = key
  THEN [n \in DOMAIN buckets |->
          IF buckets[n].key = key THEN [buckets[n] EXCEPT !.rows = Append(@, i)]
          ELSE buckets[n]]
  ELSE Append(buckets, [key |-> key, rows |-> <<i>>])
Bucketed_WithoutNone(buckets, i) ==
  IF Get(i, "group") = None THEN buckets ELSE Put(buckets, Get(i, "group"), i)
Bucketed(buckets, i) == Put(buckets, Get(i, "group"), i)

Less(a, b) == a.num * b.den < b.num * a.den

(* list.sort on the values: stable, also in reverse.                       *)
Sorted(groups, s) ==
  LET Before(m, n) ==
        LET a == groups[m].value
            b == groups[n].value
        IN \/ IF s.desc THEN Less(b, a) ELSE Less(a, b)
           \/ (~Less(a, b) /\ ~Less(b, a) /\ m < n)
      order == SortedBy(DOMAIN groups, Before)
  IN [n \in DOMAIN order |-> groups[order[n]]]

Cut_OffByOne(groups, s) ==
  IF s.limit > 0 /\ s.limit < Len(groups) THEN SubSeq(groups, 1, s.limit + 1) ELSE groups
Cut(groups, s) ==
  IF s.limit > 0 /\ s.limit < Len(groups) THEN SubSeq(groups, 1, s.limit) ELSE groups

Best_CutFirst(groups, s) == Sorted(Cut(groups, s), s)
Best(groups, s) == Cut(Sorted(groups, s), s)

(* _grouped: a group without numbers has the value 0.0.                    *)
Grouped(positions, s) ==
  LET buckets == FoldLeft(Bucketed, <<>>, positions)
  IN Best([n \in DOMAIN buckets |->
             [key |-> buckets[n].key, count |-> Len(buckets[n].rows),
              value |-> IF Scalar(buckets[n].rows, s) = None THEN Whole(0)
                        ELSE Scalar(buckets[n].rows, s)]], s)

(* _top_rows: a row's label is its position.                               *)
TopRows(positions, s) ==
  LET numeric == WithNumber(positions, s)
  IN Best([n \in DOMAIN numeric |->
             [key |-> numeric[n], count |-> 1, value |-> Whole(Metric(numeric[n], s))]], s)

Result(s) ==
  LET matched == Matched(s)
      grouped == ByGroup(s) \/ IsTopN(s)
  IN IF Rejected(s) THEN [error |-> TRUE, matched |-> 0, groups |-> <<>>, value |-> None]
     ELSE [error |-> FALSE, matched |-> Len(matched),
           groups |-> IF ByGroup(s) THEN Grouped(matched, s)
                      ELSE IF IsTopN(s) THEN TopRows(matched, s) ELSE <<>>,
           value |-> IF grouped THEN None ELSE Scalar(matched, s)]

-----------------------------------------------------------------------------
(* The ERP lists one more row, in any order.                               *)
ListRow ==
  /\ result = {}
  /\ Len(rows) < MaxRows
  /\ \E row \in Row : rows' = Append(rows, row)
  /\ UNCHANGED <<spec, result>>

Aggregate ==
  /\ result = {}
  /\ \E s \in Spec : spec' = {s} /\ result' = {Result(s)}
  /\ UNCHANGED rows

Next == ListRow \/ Aggregate

AnalyticsSpec == Init /\ [][Next]_analytics

-----------------------------------------------------------------------------
(* What a request means, in terms of the rows alone.                       *)

Selected(s)   == {i \in DOMAIN rows : \A c \in s.filters : Satisfies(Get(i, c.field), c)}
Members(s, k) == {i \in Selected(s) : Get(i, "group") = k}
Numeric(s, S) == {i \in S : Metric(i, s) \in Numbers}

Computable(s, S) == s.op = "count" \/ Numeric(s, S) # {}

(* The aggregate of the rows S, when it can be computed at all.            *)
Value(s, S) ==
  LET N   == Numeric(s, S)
      sum == MapThenSumSet(LAMBDA i : Metric(i, s), N)
  IN CASE s.op = "count" -> Whole(Cardinality(S))
       [] s.op = "sum"   -> Whole(sum)
       [] s.op = "avg"   -> [num |-> sum, den |-> Cardinality(N)]
       [] s.op = "min"   -> Whole(Min({Metric(i, s) : i \in N}))
       [] s.op = "max"   -> Whole(Max({Metric(i, s) : i \in N}))

(* What a group of the rows S is reported with.                            *)
GroupValue(s, S) == IF Computable(s, S) THEN Value(s, S) ELSE Whole(0)

(* A computed result holds a scalar, or groups within the limit, each with *)
(* a key of its own.                                                       *)
AnalyticsTypeOK ==
  /\ rows \in Seq(Row)
  /\ \A s \in spec, r \in result :
       /\ r.matched \in 0..Len(rows)
       /\ s.limit > 0 => Len(r.groups) <= s.limit
       /\ r.groups # <<>> => r.value = None
       /\ \A m, n \in DOMAIN r.groups : r.groups[m].key = r.groups[n].key => m = n

(* A number reported alone is the aggregate of exactly the rows that      *)
(* match, none of whose texts and gaps counts as a number, and it is       *)
(* missing, never made up, when it needs a number and there is none.  A    *)
(* group's number is the aggregate of exactly the matching rows with its   *)
(* key; but a group without a number to compute on is reported as 0        *)
(* (analytics_service.py:182), which is the aggregate of nothing.          *)
NumbersAreExact ==
  \A s \in spec, r \in result :
    /\ r.value # None => Computable(s, Selected(s)) /\ r.value = Value(s, Selected(s))
    /\ r.value = None => r.error \/ ByGroup(s) \/ IsTopN(s) \/ ~Computable(s, Selected(s))
    /\ ByGroup(s) => \A n \in DOMAIN r.groups :
         LET members == Members(s, r.groups[n].key)
         IN /\ r.groups[n].count = Cardinality(members)
            /\ r.groups[n].value = GroupValue(s, members)

(* Grouping neither loses nor repeats a row: the groups of an uncut count  *)
(* or sum add up to the count or the sum of all the rows that match.       *)
GroupsAddUp ==
  \A s \in spec, r \in result :
    ByGroup(s) /\ ~r.error /\ s.limit <= 0 /\ s.op \in {"count", "sum"} =>
      Whole(Total([n \in DOMAIN r.groups |-> r.groups[n].value.num])) = Value(s, Selected(s))

(* A ranking of rows lists the best of them, the best first: it lists rows *)
(* that match and have a number, as many as there are or the limit allows; *)
(* none left out beats a listed one; equal ones are listed as they came.   *)
BestAreListed ==
  \A s \in spec, r \in result :
    IsTopN(s) /\ ~r.error =>
      LET Better(i, j) == IF s.desc THEN Metric(i, s) > Metric(j, s)
                          ELSE Metric(i, s) < Metric(j, s)
          Listed(i, n) == n \in DOMAIN r.groups /\ r.groups[n].key = i
          ranked == Numeric(s, Selected(s))
      IN /\ \A n \in DOMAIN r.groups :
              LET i == r.groups[n].key IN i \in ranked /\ r.groups[n].value = Whole(Metric(i, s))
         /\ \A i \in ranked : \/ \E n \in DOMAIN r.groups : Listed(i, n)
                              \/ s.limit > 0 /\ Len(r.groups) = s.limit
         /\ \A i, j \in ranked :
              Better(i, j) \/ (~Better(j, i) /\ i < j) =>
                \A n \in DOMAIN r.groups : Listed(j, n) => \E m \in 1..(n - 1) : Listed(i, m)

(* So does a ranking of groups: it lists groups that have rows, as many as *)
(* there are or the limit allows, and a group that beats a listed one is   *)
(* listed before it.                                                       *)
BestGroupsAreListed ==
  \A s \in spec, r \in result :
    ByGroup(s) /\ ~r.error =>
      LET keys == {Get(i, "group") : i \in Selected(s)}
          Of(k) == GroupValue(s, Members(s, k))
          Beats(k, l) == IF s.desc THEN Less(Of(l), Of(k)) ELSE Less(Of(k), Of(l))
          Listed(k, n) == n \in DOMAIN r.groups /\ r.groups[n].key = k
      IN /\ \A n \in DOMAIN r.groups : r.groups[n].key \in keys
         /\ \A k \in keys : \/ \E n \in DOMAIN r.groups : Listed(k, n)
                            \/ s.limit > 0 /\ Len(r.groups) = s.limit
         /\ \A k, l \in keys : Beats(k, l) =>
              \A n \in DOMAIN r.groups : Listed(l, n) => \E m \in 1..(n - 1) : Listed(k, m)
=============================================================================

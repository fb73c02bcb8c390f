------------------------------ MODULE GroupBy ------------------------------
(***************************************************************************)
(* What GROUP BY promises, without any table: the answer to the rows seen  *)
(* so far has one line per distinct key, in the order of first appearance, *)
(* with COUNT, SUM (AVG is SUM / COUNT), MIN, MAX and COUNT DISTINCT of    *)
(* the rows of that key.                                                   *)
(***************************************************************************)
EXTENDS Integers, Sequences, FiniteSets, FiniteSetsExt

CONSTANTS Row, NotSelfEqual

VARIABLES rows, answer

\* Row i starts a group: no earlier row equals it.
Leads(rs, i) ==
    \/ rs[i].key \in NotSelfEqual
    \/ \A j \in 1 .. i - 1 : rs[j].key # rs[i].key

\* The rows of the group that row i starts.
Members(rs, i) ==
    IF rs[i].key \in NotSelfEqual
    THEN {i}
    ELSE {j \in DOMAIN rs : rs[j].key = rs[i].key}

Line(rs, i) ==
    LET args == {rs[j].arg : j \in Members(rs, i)}
    IN  [key |-> rs[i].key,
         count |-> Cardinality(Members(rs, i)),
         sum |-> MapThenSumSet(LAMBDA j : rs[j].arg, Members(rs, i)),
         min |-> Min(args),
         max |-> Max(args),
         distinct |-> args]

Leaders(rs) == {i \in DOMAIN rs : Leads(rs, i)}

\* The row that starts the n-th group.
Nth(rs, n) ==
    CHOOSE i \in Leaders(rs) : Cardinality({j \in Leaders(rs) : j <= i}) = n

Answer(rs) == [n \in 1 .. Cardinality(Leaders(rs)) |-> Line(rs, Nth(rs, n))]

Init == rows = <<>> /\ answer = <<>>

Next ==
    \E r \in Row :
        /\ rows' = Append(rows, r)
        /\ answer' = Answer(rows')

Spec == Init /\ [][Next]_<<rows, answer>>
=============================================================================

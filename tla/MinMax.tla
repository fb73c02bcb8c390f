------------------------------- MODULE MinMax -------------------------------
(***************************************************************************)
(* Min/max statistics of a column chunk, and what a MinMaxConstraint makes *)
(* of them.  An absent bound is the empty set.                             *)
(***************************************************************************)
EXTENDS Integers, Sequences

LOCAL INSTANCE FiniteSetsExt

FindMinMax(values) ==
    IF values = <<>>
    THEN [has_min_max |-> FALSE, min |-> 0, max |-> 0]
    ELSE [has_min_max |-> TRUE,
          min |-> Min({values[i] : i \in DOMAIN values}),
          max |-> Max({values[i] : i \in DOMAIN values})]

\* Mutant: an inclusive bound is taken for an exclusive one.
StrictMayMatch(chunk, c) ==
    \/ ~chunk.has_min_max
    \/ /\ \A low \in c.lower : chunk.max > low
       /\ \A high \in c.upper : chunk.min < high
       /\ \A x \in c.not_equal : ~(chunk.min = x /\ chunk.max = x)

ConstraintMayMatch(chunk, c) ==
    \/ ~chunk.has_min_max
    \/ /\ \A low \in c.lower :
              IF c.lower_inclusive THEN chunk.max >= low ELSE chunk.max > low
       /\ \A high \in c.upper :
              IF c.upper_inclusive THEN chunk.min <= high ELSE chunk.min < high
       /\ \A x \in c.not_equal : ~(chunk.min = x /\ chunk.max = x)

\* What a query's predicate asks of the value where it pairs the column with
\* the constraint.
Satisfies(x, c) ==
    /\ \A low \in c.lower : IF c.lower_inclusive THEN x >= low ELSE x > low
    /\ \A high \in c.upper : IF c.upper_inclusive THEN x <= high ELSE x < high
    /\ \A y \in c.not_equal : x # y
=============================================================================

--------------------------------- MODULE Charts ---------------------------------
(***************************************************************************)
(* The figures of the dashboard and of the sprint page                     *)
(* (apps/web/app/(app)/projects/[projectId]).  A list of issues is a       *)
(* function from their ids to one of their fields.                         *)
(***************************************************************************)
EXTENDS Integers, FiniteSets

\* tally: how many issues have a value of the field.
Tally(field, v) == Cardinality({i \in DOMAIN field : field[i] = v})

\* maxStatus, maxType and maxPriority: m is the longest bar, and at least 1.
IsLongest(field, m) ==
    /\ m >= 1
    /\ \A i \in DOMAIN field : Tally(field, field[i]) <= m
    /\ m = 1 \/ \E i \in DOMAIN field : Tally(field, field[i]) = m

\* n may be Math.round((part / whole) * 100): a nearest integer.  Floating-point
\* division decides between the two at a half.
IsPercent(part, whole, n) ==
    IF whole = 0 THEN n = 0
    ELSE 200 * part - whole <= 2 * whole * n /\ 2 * whole * n <= 200 * part + whole

\* The bar of a value, whose width is a percentage of the longest.
IsBar(field, v, m, n) == IsLongest(field, m) /\ IsPercent(Tally(field, v), m, n)

\* "Completion" of the dashboard, and the bar of a sprint.
IsCompletion(status, n) ==
    IsPercent(Tally(status, "done"), Cardinality(DOMAIN status), n)
===============================================================================

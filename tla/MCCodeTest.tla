----------------------------- MODULE MCCodeTest -----------------------------
(***************************************************************************)
(* Every set of failed blocks of every code with small parameters, but for *)
(* those that the code repairs wrongly, which are UnrepairedTests.         *)
(***************************************************************************)
EXTENDS RepairDags, CodeTest

Of(code, n, k, failures) ==
  {[code |-> code, n |-> n, k |-> k, failed |-> f] : f \in failures}
Sets(n, sizes) == {f \in SUBSET (0 .. n - 1) : Cardinality(f) \in sizes}
Singles(code, n, k) == Of(code, n, k, Sets(n, {1}))
All(code, n, k) == Of(code, n, k, Sets(n, 1 .. n - k))

\* The matrix is inverted in GF(2^k), so only inverses whose elements are the
\* same in GF(2^8) are right.
NarrowField ==
  Of("RSCONV", 4, 2, {{0, 1}, {1, 2}})
    \cup Of("RSPIPE", 5, 3, {{0, 1}, {0, 2}, {1, 2}, {1, 3}, {2, 3}})

\* The selected rows are linearly dependent.
Singular ==
  Of("HHXORPlus", 7, 4, {{0, 1, 3}})
    \cup Of("HHXORPlus", 10, 6, {{0, 1, 3}, {0, 1, 3, 9}, {1, 2, 4}, {1, 2, 4, 9},
                                {2, 3, 5}, {2, 3, 5, 9}})

\* The last parity of BUTTERFLY is joined from nothing.
NoCoefficients == UNION {Of("BUTTERFLY", k + 2, k, {{k + 1}}) : k \in 2 .. 4}

\* A survivor is taken for one that is not read.
WrongHelper == Of("Clay", 5, 2, {{2, 4}, {3, 4}})

UnrepairedTests == NarrowField \cup Singular \cup NoCoefficients \cup WrongHelper

\* With k = 8 the fields are the same.
WideField ==
  Of("RSCONV", 10, 8, {{0, 1}, {3, 9}}) \cup Of("RSPIPE", 10, 8, {{2, 7}, {8, 9}})

RepairedTests ==
  (UNION {All("RSCONV", 4, 2), All("RSPIPE", 5, 3), WideField,
          Singles("RDP", 4, 2), Singles("RDP", 6, 4),
          All("HHXORPlus", 7, 4), All("HHXORPlus", 10, 6),
          Singles("BUTTERFLY", 4, 2), Singles("BUTTERFLY", 5, 3),
          Singles("BUTTERFLY", 6, 4),
          All("Clay", 4, 2), All("Clay", 5, 3), All("Clay", 6, 4),
          All("Clay", 5, 2), All("Clay", 6, 3), Singles("Clay", 8, 6)})
    \ UnrepairedTests
----------------------------------------------------------------------------
\* The literal DAGs that the other models start from.
Cases == {CaseOf[s] : s \in DOMAIN CaseOf} \cup {SearchCaseOf[s] : s \in DOMAIN SearchCaseOf}
ArgumentsOf(case) ==
  [code |-> case.code, n |-> case.n, k |-> case.k, failed |-> case.failed]

\* Those of the stripes tested here are the ones the codes decode, ...
CaseIsDecoded ==
  \A case \in Cases : ArgumentsOf(case) = test =>
    decdag.childs = JoinAll(JoinsOf(case)).childs /\ case.w = ecwOf(test)

\* ... and so are the others.
ASSUME OtherCasesAreDecoded ==
  \A case \in {c \in Cases : ArgumentsOf(c) \notin RepairedTests} :
    LET joins == RepairJoins(ArgumentsOf(case))
    IN  /\ case.joins =
             [i \in DOMAIN joins |-> <<joins[i].parent, joins[i].childs \o <<>>>>] \o <<>>
        /\ case.w = ecwOf(ArgumentsOf(case))

\* What is read is what the code promises, and what the other models say it is.
ReadsAreRight == ReadsAsPromised /\ CaseIsDecoded
=============================================================================

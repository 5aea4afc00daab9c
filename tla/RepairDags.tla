------------------------------ MODULE RepairDags ------------------------------
(***************************************************************************)
(* Repair DAGs of small stripes.  Their Joins are those that the modules   *)
(* of the codes decode, which the run CodeTest checks; they are written    *)
(* out because TLC's statistics would expand the codes wherever a DAG is   *)
(* used.  Coefficients only have to be told apart here, so they are        *)
(* numbers.  @@ makes TLC expand a function.                               *)
(***************************************************************************)
EXTENDS ECDag

\* A stripe with failed blocks, w, and its Joins: each a parent and its childs.
Case(code, n, k, w, failed, joins) ==
  [code |-> code, n |-> n, k |-> k, w |-> w, failed |-> failed, joins |-> joins]
XorDataCase ==
  Case("HHXORPlus", 7, 4, 2, {0},
       <<<<1, <<3, 5, 7, 9>>>>, <<17, <<3, 5, 7, 9>>>>, <<15, <<17, 11>>>>,
         <<0, <<2, 15>>>>>>)
CaseOf ==
  [rs |-> Case("RSCONV", 4, 2, 1, {0, 1}, <<<<0, <<2, 3>>>>, <<1, <<2, 3>>>>>>),
   chain |-> Case("RSPIPE", 4, 3, 1, {0}, <<<<4, <<1, 2>>>>, <<0, <<4, 3>>>>>>),
   rspipe |->
     Case("RSPIPE", 5, 3, 1, {0, 1},
          <<<<5, <<2, 3>>>>, <<0, <<5, 4>>>>, <<6, <<2, 3>>>>, <<1, <<6, 4>>>>>>),
   longChains |->
     Case("RSPIPE", 8, 6, 1, {0, 1},
          <<<<8, <<2, 3>>>>, <<9, <<8, 4>>>>, <<10, <<9, 5>>>>, <<11, <<10, 6>>>>,
            <<0, <<11, 7>>>>, <<12, <<2, 3>>>>, <<13, <<12, 4>>>>, <<14, <<13, 5>>>>,
            <<15, <<14, 6>>>>, <<1, <<15, 7>>>>>>),
   rdp |-> Case("RDP", 4, 2, 2, {0}, <<<<0, <<2, 4>>>>, <<1, <<3, 5>>>>>>),
   rdpDiagonal |-> Case("RDP", 4, 2, 2, {3}, <<<<6, <<0, 5>>>>, <<7, <<2, 1>>>>>>),
   butterfly |-> Case("BUTTERFLY", 4, 2, 2, {0}, <<<<0, <<2, 4>>>>, <<1, <<2, 6>>>>>>),
   clay |->
     Case("Clay", 4, 2, 4, {0},
          <<<<28, <<12, 9>>>>, <<0, <<8, 28>>>>, <<20, <<8, 28>>>>, <<2, <<4, 20>>>>,
            <<25, <<12, 9>>>>, <<1, <<25, 13>>>>, <<21, <<25, 13>>>>, <<3, <<5, 21>>>>>>),
   shortClay |->    \* some of its leaves are virtual
     Case("Clay", 5, 3, 8, {0},
          <<<<88, <<40, 18>>>>, <<80, <<32, 25>>>>, <<0, <<16, 88, 24, 80>>>>,
            <<56, <<16, 88, 24, 80>>>>, <<4, <<8, 56>>>>,
            <<89, <<41, 19>>>>, <<73, <<32, 25>>>>, <<1, <<17, 89, 73, 33>>>>,
            <<57, <<17, 89, 73, 33>>>>, <<5, <<9, 57>>>>,
            <<66, <<40, 18>>>>, <<82, <<34, 27>>>>, <<2, <<66, 42, 26, 82>>>>,
            <<58, <<66, 42, 26, 82>>>>, <<6, <<10, 58>>>>,
            <<67, <<41, 19>>>>, <<75, <<34, 27>>>>, <<3, <<67, 43, 75, 35>>>>,
            <<59, <<67, 43, 75, 35>>>>, <<7, <<11, 59>>>>>>),
   xorParity |->
     Case("HHXORPlus", 7, 4, 2, {5},
          <<<<14, <<0, 2, 4, 6>>>>, <<15, <<0, 2>>>>, <<17, <<1, 3, 5, 7>>>>,
            <<10, <<14, 17, 15>>>>, <<11, <<17, 15>>>>>>),
   xorData |-> XorDataCase,
   xorPair |->    \* vertex 0 is used on two levels
     Case("HHXORPlus", 7, 4, 2, {0, 1},
          <<<<14, <<10, 11>>>>, <<0, <<4, 6, 8, 14>>>>, <<2, <<4, 6, 8, 14>>>>,
            <<15, <<0, 2>>>>, <<17, <<11, 15>>>>, <<1, <<5, 7, 9, 17>>>>,
            <<3, <<5, 7, 9, 17>>>>>>),
   xorParities |->    \* the concat vertices are on two levels
     Case("HHXORPlus", 7, 4, 2, {4, 5},
          <<<<8, <<0, 2, 4, 6>>>>, <<14, <<0, 2, 4, 6>>>>, <<15, <<0, 2>>>>,
            <<9, <<1, 3, 5, 7>>>>, <<17, <<1, 3, 5, 7>>>>, <<10, <<14, 17, 15>>>>,
            <<11, <<17, 15>>>>>>)]
SearchCaseOf ==
  [butterfly |-> Case("BUTTERFLY", 4, 2, 2, {1}, <<<<2, <<0, 4>>>>, <<3, <<4, 7>>>>>>),
   twoButterfly |->
     Case("BUTTERFLY", 4, 2, 2, {0, 2}, <<<<0, <<2, 4>>>>, <<1, <<2, 6>>>>>>),
   rdp |-> Case("RDP", 4, 2, 2, {2}, <<<<4, <<0, 2>>>>, <<5, <<1, 3>>>>>>),
   xorParity |->
     Case("HHXORPlus", 5, 2, 2, {4},
          <<<<8, <<0, 2>>>>, <<12, <<>>>>, <<14, <<1, 3>>>>, <<9, <<14, 12>>>>>>),
   xorData |-> XorDataCase]

JoinsOf(case) ==
  [i \in DOMAIN case.joins |->
     LET childs == case.joins[i][2]
     IN  JoinOf(case.joins[i][1], childs, [c \in DOMAIN childs |-> c] \o <<>>)] \o <<>>
DagOfCase(case) == Concact(JoinsOf(case), case.failed, case.w)
Expanded(dag) == [dag EXCEPT !.childs = @ @@ <<>>]

\* The DAGs that genRepairTasks gets, and those of the search programs, which do
\* not refresh them.
RepairDagOf == [s \in DOMAIN CaseOf |-> Expanded(Refresh(DagOfCase(CaseOf[s])))] @@ <<>>
SearchDagOf == [s \in DOMAIN SearchCaseOf |-> Expanded(DagOfCase(SearchCaseOf[s]))] @@ <<>>

\* The order in which the vertices of a DAG got their children.
ParentOrder(case, dag) ==
  SelectSeq([i \in DOMAIN case.joins |-> case.joins[i][1]] \o Reverse(Ascending(dag.concats)),
            LAMBDA v : v \in dag.nodes)
=============================================================================

-------------------------- MODULE BatchQueue_proofs --------------------------
(***************************************************************************)
(* Proofs about BatchQueue for every number of batches and every solution: *)
(* the types, the order and uniqueness of the batches, what the end of     *)
(* Coordinator::repair guarantees, and the safety half of the refinement   *)
(* of BatchRelay.                                                          *)
(***************************************************************************)
EXTENDS BatchQueue, SequenceTheorems, TLAPS

\* The generator inserts only batches it has still to number, only the
\* parallel solution looks at the request flag, and finish_gen is set last.
GenInv ==
  /\ gen_pc \in {"test", "push", "list"} => batchid < NumBatches
  /\ gen_pc \in {"test", "list"} => solution = "parallel"
  /\ solution # "parallel" => batch_list = <<>>
  /\ gen_pc = "done" <=> finish_gen
  /\ finish_gen => batchid = NumBatches

\* The parallel solution pushes nothing before it has seen the request, and
\* nothing has been pushed when it adds a batch to the list.
RequestInv ==
  /\ solution = "parallel" /\ ~batch_request =>
       gen_pc # "push" /\ batch_queue = <<>> /\ handled = <<>>
  /\ gen_pc = "list" => batch_queue = <<>> /\ handled = <<>>

\* The main thread repairs what it has taken, and leaves its loop only when
\* generation is over and the queue is empty.
CoorInv ==
  /\ Len(handled) = IF coor_pc = "repair" THEN Len(repaired) + 1
                                          ELSE Len(repaired)
  /\ \A i \in 1 .. Len(repaired) : repaired[i] = handled[i]
  /\ coor_pc = "hasNextSize" => finish_gen
  /\ coor_pc \in {"join", "done"} => finish_gen /\ batch_queue = <<>>

IInv == TypeOK /\ InOrder /\ GenInv /\ RequestInv /\ CoorInv

USE NumBatchesAssumption, SolutionsAssumption

----------------------------------------------------------------------------
\* Both threads start with nothing made, queued or taken.
LEMMA InitIInv == Init => IInv
<1> SUFFICES ASSUME Init
             PROVE  IInv
  OBVIOUS
<1>1. TypeOK
  <2>1. <<>> \in Seq(0 .. NumBatches - 1)
    BY EmptySeq
  <2>2. 0 \in 0 .. NumBatches
    OBVIOUS
  <2> QED BY <2>1, <2>2, Zenon DEF Init, TypeOK
<1>2. InOrder
  BY DEF Init, InOrder
<1>3. GenInv /\ RequestInv /\ CoorInv
  BY DEF Init, GenInv, RequestInv, CoorInv
<1> QED BY <1>1, <1>2, <1>3 DEF IInv

\* A step that touches neither the queue, the lists nor batchid keeps InOrder.
LEMMA InOrderFrame ==
  ASSUME InOrder,
         UNCHANGED <<batchid, batch_list, handled, batch_queue>>
  PROVE  InOrder'
  BY DEF InOrder

\* Every step of the generation thread keeps the invariant.
LEMMA GenStep == IInv /\ GenNext => IInv'
<1> SUFFICES ASSUME IInv, GenNext
             PROVE  IInv'
  OBVIOUS
<1> USE DEF IInv
<1>1. CASE CentNextBatch
  <2>1. TypeOK' /\ GenInv' /\ RequestInv' /\ CoorInv'
    BY <1>1 DEF CentNextBatch, TypeOK, GenInv, RequestInv, CoorInv, coorVars
  <2>2. InOrder'
    BY <1>1, InOrderFrame DEF CentNextBatch, coorVars
  <2> QED BY <2>1, <2>2
<1>2. CASE OfflineNextBatch
  <2>1. TypeOK' /\ GenInv' /\ RequestInv' /\ CoorInv'
    BY <1>2 DEF OfflineNextBatch, TypeOK, GenInv, RequestInv, CoorInv, coorVars
  <2>2. InOrder'
    BY <1>2, InOrderFrame DEF OfflineNextBatch, coorVars
  <2> QED BY <2>1, <2>2
<1>3. CASE ParallelNextBatch
  <2>1. TypeOK' /\ GenInv' /\ RequestInv' /\ CoorInv'
    BY <1>3 DEF ParallelNextBatch, TypeOK, GenInv, RequestInv, CoorInv, coorVars
  <2>2. InOrder'
    BY <1>3, InOrderFrame DEF ParallelNextBatch, coorVars
  <2> QED BY <2>1, <2>2
<1>4. CASE TestRequest
  <2>1. TypeOK' /\ GenInv' /\ RequestInv' /\ CoorInv'
    BY <1>4 DEF TestRequest, TypeOK, GenInv, RequestInv, CoorInv, coorVars
  <2>2. InOrder'
    BY <1>4, InOrderFrame DEF TestRequest, coorVars
  <2> QED BY <2>1, <2>2
<1>5. CASE PushBatch
  <2>1. TypeOK'
    BY <1>5 DEF PushBatch, TypeOK, GenInv, coorVars
  <2>2. InOrder'
    <3>1. /\ Len(batch_queue') = Len(batch_queue) + 1
          /\ \A i \in 1 .. Len(batch_queue) : batch_queue'[i] = batch_queue[i]
          /\ batch_queue'[Len(batch_queue) + 1] = batchid
      <4>1. batchid \in 0 .. NumBatches - 1
        BY <1>5 DEF PushBatch, TypeOK, GenInv
      <4> QED BY <1>5, <4>1, AppendProperties DEF PushBatch, TypeOK
    <3>2. /\ batchid' = batchid + 1
          /\ UNCHANGED <<batch_list, handled>>
      BY <1>5 DEF PushBatch, coorVars
    <3>3. Len(batch_queue) \in Nat /\ Len(batch_list) \in Nat
              /\ Len(handled) \in Nat
      BY DEF TypeOK
    <3>4. /\ batchid = Len(batch_list) + Len(handled) + Len(batch_queue)
          /\ \A i \in 1 .. Len(batch_queue) :
               batch_queue[i] = Len(batch_list) + Len(handled) + i - 1
      BY DEF InOrder
    <3>5. \A i \in 1 .. Len(batch_queue') :
            batch_queue'[i] = Len(batch_list) + Len(handled) + i - 1
      <4> SUFFICES ASSUME NEW i \in 1 .. Len(batch_queue')
                   PROVE  batch_queue'[i] = Len(batch_list) + Len(handled) + i - 1
        OBVIOUS
      <4>1. i \in 1 .. Len(batch_queue) \/ i = Len(batch_queue) + 1
        BY <3>1, <3>3
      <4> QED BY <3>1, <3>3, <3>4, <4>1
    <3> QED BY <3>1, <3>2, <3>3, <3>4, <3>5 DEF InOrder
  <2>3. GenInv' /\ RequestInv' /\ CoorInv'
    BY <1>5 DEF PushBatch, TypeOK, GenInv, RequestInv, CoorInv, coorVars
  <2> QED BY <2>1, <2>2, <2>3
<1>6. CASE ListBatch
  <2>1. TypeOK'
    BY <1>6 DEF ListBatch, TypeOK, GenInv, coorVars
  <2>2. InOrder'
    <3>1. /\ Len(batch_list') = Len(batch_list) + 1
          /\ \A i \in 1 .. Len(batch_list) : batch_list'[i] = batch_list[i]
          /\ batch_list'[Len(batch_list) + 1] = batchid
      <4>1. batchid \in 0 .. NumBatches - 1
        BY <1>6 DEF ListBatch, TypeOK, GenInv
      <4> QED BY <1>6, <4>1, AppendProperties DEF ListBatch, TypeOK
    <3>2. /\ batchid' = batchid + 1
          /\ UNCHANGED <<batch_queue, handled>>
          /\ Len(batch_queue) = 0 /\ Len(handled) = 0
      BY <1>6, EmptySeq DEF ListBatch, RequestInv, coorVars
    <3>3. Len(batch_list) \in Nat
      BY DEF TypeOK
    <3> QED BY <3>1, <3>2, <3>3 DEF InOrder
  <2>3. GenInv' /\ RequestInv' /\ CoorInv'
    BY <1>6 DEF ListBatch, TypeOK, GenInv, RequestInv, CoorInv, coorVars
  <2> QED BY <2>1, <2>2, <2>3
<1>7. CASE FinishGen
  <2>1. TypeOK' /\ GenInv' /\ RequestInv' /\ CoorInv'
    BY <1>7 DEF FinishGen, TypeOK, GenInv, RequestInv, CoorInv, coorVars
  <2>2. InOrder'
    BY <1>7, InOrderFrame DEF FinishGen, coorVars
  <2> QED BY <2>1, <2>2
<1> QED
  BY <1>1, <1>2, <1>3, <1>4, <1>5, <1>6, <1>7 DEF GenNext

\* Every step of the main thread keeps the invariant.
LEMMA CoorStep == IInv /\ CoorNext => IInv'
<1> SUFFICES ASSUME IInv, CoorNext
             PROVE  IInv'
  OBVIOUS
<1> USE DEF IInv
<1>1. CASE HasNextFlag
  <2>1. TypeOK' /\ GenInv' /\ RequestInv' /\ CoorInv'
    BY <1>1 DEF HasNextFlag, TypeOK, GenInv, RequestInv, CoorInv, genVars
  <2>2. InOrder'
    BY <1>1, InOrderFrame DEF HasNextFlag, genVars
  <2> QED BY <2>1, <2>2
<1>2. CASE HasNextSize
  <2>1. gen_pc # "push" /\ SizeReads = {batch_queue # <<>>}
    BY <1>2 DEF HasNextSize, SizeReads, GenInv, CoorInv
  <2>2. TypeOK' /\ GenInv' /\ RequestInv' /\ CoorInv'
    BY <1>2, <2>1
    DEF HasNextSize, TypeOK, GenInv, RequestInv, CoorInv, genVars
  <2>3. InOrder'
    BY <1>2, InOrderFrame DEF HasNextSize, genVars
  <2> QED BY <2>2, <2>3
<1>3. CASE GetSize
  <2>1. TypeOK' /\ GenInv' /\ RequestInv' /\ CoorInv'
    BY <1>3 DEF GetSize, TypeOK, GenInv, RequestInv, CoorInv, genVars
  <2>2. InOrder'
    BY <1>3, InOrderFrame DEF GetSize, genVars
  <2> QED BY <2>1, <2>2
<1>4. CASE SetRequest
  <2>1. TypeOK' /\ GenInv' /\ RequestInv' /\ CoorInv'
    BY <1>4 DEF SetRequest, TypeOK, GenInv, RequestInv, CoorInv, genVars
  <2>2. InOrder'
    BY <1>4, InOrderFrame DEF SetRequest, genVars
  <2> QED BY <2>1, <2>2
<1>5. CASE Pop
  <2>1. TypeOK'
    BY <1>5 DEF Pop, TypeOK, genVars
  <2>2. InOrder'
    <3>1. /\ Len(batch_queue') = Len(batch_queue) - 1
          /\ \A i \in 1 .. Len(batch_queue') :
               batch_queue'[i] = batch_queue[i + 1]
          /\ Len(batch_queue) \in Nat \ {0}
      BY <1>5, HeadTailProperties, EmptySeq DEF Pop, TypeOK
    <3>2. /\ Len(handled') = Len(handled) + 1
          /\ \A i \in 1 .. Len(handled) : handled'[i] = handled[i]
          /\ handled'[Len(handled) + 1] = batch_queue[1]
      <4>1. Head(batch_queue) = batch_queue[1]
        BY <1>5 DEF Pop, TypeOK
      <4>2. Head(batch_queue) \in 0 .. NumBatches - 1
        BY <1>5, HeadTailProperties, Zenon DEF Pop, TypeOK
      <4> QED BY <1>5, <4>1, <4>2, AppendProperties DEF Pop, TypeOK
    <3>3. UNCHANGED <<batchid, batch_list>>
      BY <1>5 DEF Pop, genVars
    <3>4. Len(batch_list) \in Nat /\ Len(handled) \in Nat
      BY DEF TypeOK
    <3>5. \A i \in 1 .. Len(handled') : handled'[i] = Len(batch_list) + i - 1
      <4>1. 1 \in 1 .. Len(batch_queue)
        BY <3>1
      <4>2. batch_queue[1] = Len(batch_list) + Len(handled)
        <5>1. \A i \in 1 .. Len(batch_queue) :
                batch_queue[i] = Len(batch_list) + Len(handled) + i - 1
          BY DEF InOrder
        <5> QED BY <4>1, <5>1, <3>4
      <4>3. \A i \in 1 .. Len(handled) : handled[i] = Len(batch_list) + i - 1
        BY DEF InOrder
      <4> TAKE i \in 1 .. Len(handled')
      <4>4. CASE i \in 1 .. Len(handled)
        BY <3>2, <4>3, <4>4
      <4>5. CASE i = Len(handled) + 1
        BY <3>2, <3>4, <4>2, <4>5
      <4> QED BY <3>2, <3>4, <4>4, <4>5
    <3>6. \A i \in 1 .. Len(batch_queue') :
            batch_queue'[i] = Len(batch_list) + Len(handled') + i - 1
      <4> SUFFICES ASSUME NEW i \in 1 .. Len(batch_queue')
                   PROVE  batch_queue'[i] = Len(batch_list) + Len(handled') + i - 1
        OBVIOUS
      <4>1. i \in Nat /\ i + 1 \in 1 .. Len(batch_queue)
        BY <3>1
      <4>2. batch_queue[i + 1] = Len(batch_list) + Len(handled) + (i + 1) - 1
        BY <4>1 DEF InOrder
      <4> QED BY <3>1, <3>2, <3>4, <4>1, <4>2
    <3>7. batchid = Len(batch_list) + Len(handled') + Len(batch_queue')
      BY <3>1, <3>2, <3>4 DEF InOrder
    <3> QED BY <3>3, <3>5, <3>6, <3>7 DEF InOrder
  <2>3. GenInv' /\ RequestInv'
    BY <1>5 DEF Pop, TypeOK, GenInv, RequestInv, genVars
  <2>4. CoorInv'
    BY <1>5 DEF Pop, TypeOK, CoorInv, genVars
  <2> QED BY <2>1, <2>2, <2>3, <2>4
<1>6. CASE RepairDone
  <2>1. TypeOK'
    BY <1>6 DEF RepairDone, TypeOK, CoorInv, genVars
  <2>2. InOrder'
    BY <1>6, InOrderFrame DEF RepairDone, genVars
  <2>3. GenInv' /\ RequestInv'
    BY <1>6 DEF RepairDone, GenInv, RequestInv, genVars
  <2>4. CoorInv'
    BY <1>6 DEF RepairDone, TypeOK, CoorInv, genVars
  <2> QED BY <2>1, <2>2, <2>3, <2>4
<1>7. CASE JoinGen
  <2>1. TypeOK' /\ GenInv' /\ RequestInv' /\ CoorInv'
    BY <1>7 DEF JoinGen, TypeOK, GenInv, RequestInv, CoorInv, genVars
  <2>2. InOrder'
    BY <1>7, InOrderFrame DEF JoinGen, genVars
  <2> QED BY <2>1, <2>2
<1> QED
  BY <1>1, <1>2, <1>3, <1>4, <1>5, <1>6, <1>7 DEF CoorNext

\* The conjunction is an inductive invariant of the hand-over.
THEOREM Inductive == Spec => []IInv
<1>1. IInv /\ [Next]_vars => IInv'
  <2> SUFFICES ASSUME IInv, [Next]_vars
               PROVE  IInv'
    OBVIOUS
  <2>1. CASE Next
    BY <2>1, GenStep, CoorStep DEF Next
  <2>2. CASE UNCHANGED vars
    BY <2>2 DEF IInv, TypeOK, InOrder, GenInv, RequestInv, CoorInv, SizeReads,
                vars, genVars, coorVars
  <2> QED BY <2>1, <2>2
<1> QED
  BY InitIInv, <1>1, PTL DEF Spec, SafeSpec

----------------------------------------------------------------------------
\* The generation and main threads only ever hold values of their types.
THEOREM TypeCorrect == Spec => []TypeOK
  BY Inductive, PTL DEF IInv

\* No batch is lost between queue and main thread, taken twice or overtaken.
THEOREM OrderKept == Spec => []InOrder
  BY Inductive, PTL DEF IInv

\* The loop of Coordinator::repair ends only after generation has ended and
\* everything that was ever queued has been repaired.
THEOREM EndIsClean == Spec => []NothingLeftBehind
<1>1. IInv => NothingLeftBehind
  <2> SUFFICES ASSUME IInv, coor_pc \in {"join", "done"}
               PROVE  /\ finish_gen
                      /\ batch_queue = <<>>
                      /\ repaired = handled
                      /\ Len(batch_list) + Len(repaired) = NumBatches
    BY DEF NothingLeftBehind
  <2>1. finish_gen /\ batch_queue = <<>> /\ Len(handled) = Len(repaired)
    BY DEF IInv, CoorInv
  <2>2. repaired = handled
    BY <2>1, SeqEqual, Zenon DEF IInv, TypeOK, CoorInv
  <2> QED
    BY <2>1, <2>2 DEF IInv, TypeOK, InOrder, GenInv
<1> QED
  BY Inductive, <1>1, PTL

\* Every step of the two threads is a step of the abstract relay or leaves it
\* unchanged: the parallel solution drops a batch only before any delivery.
THEOREM RelayRefined == Spec => Relay!SafeSpec
<1>1. Init => Relay!Init
  BY DEF Init, Relay!Init
<1>2. IInv /\ [Next]_vars => [Relay!Next]_(Relay!vars)
  <2> SUFFICES ASSUME IInv, [Next]_vars
               PROVE  [Relay!Next]_(Relay!vars)
    OBVIOUS
  <2>1. CASE PushBatch
    <3>1. Relay!Produce
      BY <2>1 DEF PushBatch, Relay!Produce, IInv, GenInv, coorVars
    <3> QED BY <3>1 DEF Relay!Next
  <2>2. CASE ListBatch
    <3>1. Relay!Drop
      BY <2>2 DEF ListBatch, Relay!Drop, IInv, GenInv, RequestInv, coorVars
    <3> QED BY <3>1 DEF Relay!Next
  <2>3. CASE Pop
    <3>1. Relay!Deliver
      BY <2>3 DEF Pop, Relay!Deliver, genVars
    <3> QED BY <3>1 DEF Relay!Next
  <2>4. CASE CentNextBatch \/ OfflineNextBatch \/ ParallelNextBatch
               \/ TestRequest \/ FinishGen
    BY <2>4 DEF CentNextBatch, OfflineNextBatch, ParallelNextBatch,
                TestRequest, FinishGen, Relay!vars, coorVars
  <2>5. CASE HasNextFlag \/ HasNextSize \/ GetSize \/ SetRequest
               \/ RepairDone \/ JoinGen
    BY <2>5 DEF HasNextFlag, HasNextSize, GetSize, SetRequest, RepairDone,
                JoinGen, Relay!vars, genVars
  <2>6. CASE UNCHANGED vars
    BY <2>6 DEF vars, genVars, coorVars, Relay!vars
  <2> QED
    BY <2>1, <2>2, <2>3, <2>4, <2>5, <2>6 DEF Next, GenNext, CoorNext
<1> QED
  BY Inductive, <1>1, <1>2, PTL DEF Spec, SafeSpec, Relay!SafeSpec
=============================================================================

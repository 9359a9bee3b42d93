---------------------------- MODULE ServerProofs ----------------------------
(***************************************************************************)
(* Theorems about Server, for every pool, capacity, policy and bound: the  *)
(* ring and the wake-ups first, then the order in which requests are       *)
(* served, who owns which descriptor, that answers are counted, and that   *)
(* each step of a thread is a step of the admission protocol.              *)
(***************************************************************************)
EXTENDS ServerAdmission, TLAPS, FiniteSetTheorems

(* Arithmetic modulo the capacity, for the only arguments the ring uses:   *)
(* sums of two indices below it.                                           *)
LEMMA ModCapacity ==
  ASSUME NEW x \in Nat, x < 2 * Capacity
  PROVE  /\ x % Capacity \in Slots
         /\ x % Capacity = IF x < Capacity THEN x ELSE x - Capacity
<1>1. CASE x < Capacity
  BY <1>1, CapacityAssumption DEF Slots
<1>2. CASE x >= Capacity
  <2>1. x = 1 * Capacity + (x - Capacity) /\ x - Capacity \in 0..(Capacity - 1)
    BY <1>2, CapacityAssumption
  <2>2. x % Capacity = x - Capacity
    BY <2>1, CapacityAssumption
  <2> QED BY <1>2, <2>1, <2>2, CapacityAssumption DEF Slots
<1> QED BY <1>1, <1>2, CapacityAssumption

(* The remainders the code computes stay inside the ring.                  *)
LEMMA RingIndices ==
  ASSUME TypeOK
  PROVE  /\ \A i \in Slots : Succ(i) \in Slots
         /\ \A i \in 0..Capacity : Slot(i) \in Slots
         /\ \A s \in Slots : Offset(s) \in Slots
<1>1. ASSUME NEW i \in Slots PROVE Succ(i) \in Slots
  BY <1>1, ModCapacity, CapacityAssumption DEF Succ, Slots
<1>2. ASSUME NEW i \in 0..Capacity PROVE Slot(i) \in Slots
  BY <1>2, ModCapacity, CapacityAssumption DEF Slot, Slots, TypeOK
<1>3. ASSUME NEW s \in Slots PROVE Offset(s) \in Slots
  BY <1>3, ModCapacity, CapacityAssumption DEF Offset, Slots, TypeOK
<1> QED BY <1>1, <1>2, <1>3

(* Moving the head and shortening the distance reach the same slot, and so *)
(* does moving the tail.                                                   *)
LEMMA RingShift ==
  ASSUME NEW h \in Slots, NEW k \in 0..(Capacity - 1)
  PROVE  /\ (Succ(h) + k) % Capacity = (h + (k + 1)) % Capacity
         /\ Succ((h + k) % Capacity) = (h + (k + 1)) % Capacity
<1>0. Capacity \in Nat /\ Capacity > 0 /\ h \in Nat /\ h < Capacity /\ k \in Nat
      /\ k < Capacity
  BY CapacityAssumption DEF Slots
<1>1. Succ(h) = IF h + 1 < Capacity THEN h + 1 ELSE (h + 1) - Capacity
  BY <1>0, ModCapacity DEF Succ
<1>2. (h + (k + 1)) % Capacity =
        IF h + (k + 1) < Capacity THEN h + (k + 1) ELSE (h + (k + 1)) - Capacity
  BY <1>0, ModCapacity
<1>3. (h + k) % Capacity = IF h + k < Capacity THEN h + k ELSE (h + k) - Capacity
  BY <1>0, ModCapacity
<1>4. (Succ(h) + k) % Capacity = (h + (k + 1)) % Capacity
  <2>1. Succ(h) + k \in Nat /\ Succ(h) + k < 2 * Capacity
    BY <1>0, <1>1
  <2>2. (Succ(h) + k) % Capacity =
          IF Succ(h) + k < Capacity THEN Succ(h) + k ELSE (Succ(h) + k) - Capacity
    BY <2>1, ModCapacity
  <2> QED BY <1>0, <1>1, <1>2, <2>2
<1>5. Succ((h + k) % Capacity) = (h + (k + 1)) % Capacity
  <2>1. ((h + k) % Capacity) + 1 \in Nat /\ ((h + k) % Capacity) + 1 < 2 * Capacity
    BY <1>0, <1>3
  <2>2. Succ((h + k) % Capacity) =
          IF ((h + k) % Capacity) + 1 < Capacity THEN ((h + k) % Capacity) + 1
          ELSE (((h + k) % Capacity) + 1) - Capacity
    BY <2>1, ModCapacity DEF Succ
  <2> QED BY <1>0, <1>2, <1>3, <2>2
<1> QED BY <1>4, <1>5

(* requestHandle hands the worker a value of request_result and the client *)
(* three counters.                                                         *)
LEMMA requestHandleType ==
  ASSUME NEW req \in HttpRequest, NEW stats \in thread_info
  PROVE  requestHandle(req, stats) \in Response
<1>1. HomeFile \in File
  BY DEF HomeFile, File
<1> DEFINE uri == requestParseURI(req)
<1>2. uri \in [is_static : {0, 1}, file : File]
  BY <1>1 DEF requestParseURI, HttpRequest
<1>3. \A is_static \in {-1, 0, 1} : buf_stats(stats, is_static) \in thread_info
  BY DEF buf_stats, thread_info
<1>4. requestHandle(req, stats).result \in request_result
  BY <1>2 DEF requestHandle, request_result, ERR501, ERR404, ERR403, DYNAMIC, STATIC
<1> QED
  BY <1>2, <1>3, <1>4 DEF requestHandle, Response, File

(* Closing keeps the kernel's tables well typed.                           *)
LEMMA CloseType ==
  ASSUME TypeOK, NEW fdOf, Close(fdOf)
  PROVE  /\ fdTable' \in [FDs -> {Closed, AFile} \cup Conns]
         /\ reply' \in [Conns -> {"none", "answered", "dropped"}]
         /\ exit' \in {exit, "Close"}
  BY DEF Close, TypeOK

(* requests_list->size is a natural number no larger than the pool.        *)
LEMMA ServingFinite ==
  ASSUME TypeOK
  PROVE  /\ IsFiniteSet(Serving)
         /\ Cardinality(Serving) \in 0..Cardinality(Workers)
<1>1. Serving \subseteq Workers
  BY DEF Serving
<1> QED BY <1>1, WorkersAssumption, FS_Subset, FS_CardinalityType

-----------------------------------------------------------------------------
(***************************************************************************)
(* The structure of the shared state.  CapacityBound is not inductive on   *)
(* its own: the enqueue needs the size to be a number, the list size needs *)
(* to be the number of workers in service, and the size must agree with    *)
(* head and tail.  RingTail is the form of RingConsistent that survives a  *)
(* step.                                                                   *)
(***************************************************************************)
RingTail == tail = Slot(size)

Structure == TypeOK /\ CapacityBound /\ RingTail /\ MutexOwner /\ NoLostWakeup

LEMMA StructureInit == Init => Structure
<1> SUFFICES ASSUME Init PROVE Structure
  OBVIOUS
<1>1. Serving = {}
  BY DEF Init, Serving
<1>2. Cardinality(Serving) = 0 /\ Cardinality(Workers) \in Nat
  BY <1>1, FS_EmptySet, FS_CardinalityType, WorkersAssumption
<1>3. TypeOK
  <2>1. NoRequest \in request_t /\ NoCount \in thread_info /\ NoResponse \in Response
    BY BoundsAssumption DEF NoRequest, request_t, NoCount, thread_info, NoResponse, Response,
           request_result, NoFd, ERR501
  <2> QED
    BY <1>2, <2>1, CapacityAssumption, BoundsAssumption
    DEF Init, TypeOK, Slots, MasterPCs, WorkerPCs
<1>4. CapacityBound
  BY <1>2, CapacityAssumption DEF Init, CapacityBound
<1>5. RingTail
  BY ModCapacity, CapacityAssumption DEF Init, RingTail, Slot
<1>6. MutexOwner /\ NoLostWakeup
  BY WorkersAssumption DEF Init, MutexOwner, NoLostWakeup
<1> QED BY <1>3, <1>4, <1>5, <1>6 DEF Structure

LEMMA StructureNext == Structure /\ [Next]_vars => Structure'
<1> SUFFICES ASSUME Structure, [Next]_vars PROVE Structure'
  OBVIOUS
<1> USE DEF queueVars, listVars, masterVars, workerVars, kernelVars
<1>0. /\ TypeOK /\ CapacityBound /\ RingTail /\ MutexOwner /\ NoLostWakeup
      /\ Cardinality(Workers) \in Nat
  BY WorkersAssumption, FS_CardinalityType DEF Structure
<1>1. CASE MasterAccept
  <2>1. TypeOK'
    <3>1. CASE Free = {}
      BY <1>0, <1>1, <3>1 DEF MasterAccept, TypeOK
    <3>2. CASE Free # {}
      <4>1. accepted + 1 \in Conns /\ accepted + 1 \in 0..MaxConns
        BY <1>0, <1>1, BoundsAssumption DEF MasterAccept, TypeOK, Conns
      <4>2. PICK fd \in FDs :
              /\ fdTable' = [fdTable EXCEPT ![fd] = accepted + 1]
              /\ mreq' = [connfd |-> fd, arrival |-> accepted + 1]
        BY <1>1, <3>2 DEF MasterAccept
      <4>3. mreq' \in request_t /\ accepted' = accepted + 1 /\ mpc' = "lock"
            /\ exit' = exit
        BY <1>1, <3>2, <4>1, <4>2 DEF MasterAccept, request_t
      <4> QED
        BY <1>0, <1>1, <4>1, <4>2, <4>3 DEF MasterAccept, TypeOK, MasterPCs
    <3> QED BY <3>1, <3>2
  <2>2. CapacityBound' /\ RingTail' /\ MutexOwner' /\ NoLostWakeup'
    BY <1>0, <1>1 DEF MasterAccept, CapacityBound, Serving, RingTail, Slot,
                      MutexOwner, NoLostWakeup, Full
  <2> QED BY <2>1, <2>2 DEF Structure
<1>2. CASE MasterLock
  <2>1. TypeOK'
    BY <1>0, <1>2 DEF MasterLock, TypeOK, MasterPCs
  <2>2. CapacityBound' /\ RingTail' /\ MutexOwner' /\ NoLostWakeup'
    BY <1>0, <1>2, WorkersAssumption
    DEF MasterLock, CapacityBound, Serving, RingTail, Slot, MutexOwner,
        NoLostWakeup, Full
  <2> QED BY <2>1, <2>2 DEF Structure
<1>3. CASE MasterEnqueue
  <2>1. size + list_size < Capacity
    BY <1>0, <1>3, CapacityAssumption DEF MasterEnqueue, Full, CapacityBound, TypeOK
  <2>2. Succ(tail) \in Slots /\ Broadcast \in [Workers -> WorkerPCs]
    BY <1>0, RingIndices DEF TypeOK, Broadcast, WorkerPCs
  <2>3. TypeOK'
    BY <1>0, <1>3, <2>1, <2>2, CapacityAssumption
    DEF MasterEnqueue, TypeOK, MasterPCs
  <2>4. CapacityBound'
    <3>1. Serving' = Serving
      BY <1>0, <1>3 DEF MasterEnqueue, Broadcast, Serving, TypeOK
    <3>2. list_size' = list_size /\ size' = size + 1
      BY <1>3 DEF MasterEnqueue
    <3> QED
      BY <1>0, <2>1, <3>1, <3>2, CapacityAssumption DEF CapacityBound, TypeOK
  <2>5. RingTail'
    <3>1. tail = (head + size) % Capacity /\ tail' = Succ(tail)
      BY <1>0, <1>3 DEF MasterEnqueue, RingTail, Slot
    <3>2. head \in Slots /\ size \in 0..(Capacity - 1)
      BY <1>0, <2>1, CapacityAssumption DEF TypeOK
    <3>3. tail' = (head + (size + 1)) % Capacity
      BY <3>1, <3>2, RingShift
    <3> QED BY <1>3, <3>3 DEF MasterEnqueue, RingTail, Slot
  <2>6. MutexOwner' /\ NoLostWakeup'
    BY <1>0, <1>3, WorkersAssumption
    DEF MasterEnqueue, MutexOwner, NoLostWakeup, Broadcast, TypeOK
  <2> QED BY <2>3, <2>4, <2>5, <2>6 DEF Structure
<1>4. CASE block
  <2>1. TypeOK'
    BY <1>0, <1>4 DEF block, TypeOK, MasterPCs
  <2>2. CapacityBound' /\ RingTail' /\ MutexOwner' /\ NoLostWakeup'
    BY <1>0, <1>4, WorkersAssumption
    DEF block, CapacityBound, Serving, RingTail, Slot, MutexOwner, NoLostWakeup, Full
  <2> QED BY <2>1, <2>2 DEF Structure
<1>5. CASE drop_tail
  <2>1. TypeOK'
    BY <1>0, <1>5 DEF drop_tail, TypeOK, MasterPCs
  <2>2. CapacityBound' /\ RingTail' /\ MutexOwner' /\ NoLostWakeup'
    BY <1>0, <1>5, WorkersAssumption
    DEF drop_tail, CapacityBound, Serving, RingTail, Slot, MutexOwner, NoLostWakeup
  <2> QED BY <2>1, <2>2 DEF Structure
<1>6. CASE MasterRefuse
  <2>1. TypeOK'
    BY <1>0, <1>6, CloseType DEF MasterRefuse, TypeOK, MasterPCs
  <2>2. CapacityBound' /\ RingTail' /\ MutexOwner' /\ NoLostWakeup'
    BY <1>0, <1>6, WorkersAssumption
    DEF MasterRefuse, CapacityBound, Serving, RingTail, Slot, MutexOwner, NoLostWakeup
  <2> QED BY <2>1, <2>2 DEF Structure
<1>7. CASE drop_head
  <2>1. TypeOK'
    <3>1. Succ(head) \in Slots /\ size - 1 \in 0..Capacity
      BY <1>0, <1>7, RingIndices, CapacityAssumption DEF drop_head, TypeOK
    <3> QED BY <1>0, <1>7, <3>1, CloseType DEF drop_head, TypeOK
  <2>2. CapacityBound'
    BY <1>0, <1>7, CapacityAssumption DEF drop_head, CapacityBound, Serving, TypeOK
  <2>3. RingTail'
    <3>1. /\ head \in Slots /\ size - 1 \in 0..(Capacity - 1) /\ (size - 1) + 1 = size
          /\ tail = (head + size) % Capacity
      BY <1>0, <1>7, CapacityAssumption DEF drop_head, TypeOK, RingTail, Slot
    <3>2. tail = (Succ(head) + (size - 1)) % Capacity
      BY <3>1, RingShift
    <3> QED BY <1>7, <3>2 DEF drop_head, RingTail, Slot
  <2>4. MutexOwner' /\ NoLostWakeup'
    BY <1>0, <1>7 DEF drop_head, MutexOwner, NoLostWakeup
  <2> QED BY <2>1, <2>2, <2>3, <2>4 DEF Structure
<1>8. CASE drop_random
  <2>1. /\ Limit(size) \in 0..size /\ Limit(size) < size
        /\ size' = Limit(size) /\ tail' = Slot(Limit(size)) /\ head' = head
    BY <1>0, <1>8 DEF drop_random, Limit, TypeOK
  <2>2. items' \in [Slots -> request_t]
    <3>1. PICK pick \in Picks(size) : items' = Compacted(pick)
      BY <1>8 DEF drop_random
    <3>2. ASSUME NEW s \in Slots, Offset(s) < Limit(size)
          PROVE  Slot(pick[Offset(s)]) \in Slots
      <4>1. Offset(s) \in 0..(Limit(size) - 1)
        BY <1>0, <2>1, <3>2, RingIndices, CapacityAssumption DEF Slots, TypeOK
      <4>2. pick[Offset(s)] \in 0..Capacity
        BY <1>0, <4>1, CapacityAssumption DEF Picks, TypeOK
      <4> QED BY <1>0, <4>2, RingIndices
    <3> QED BY <1>0, <3>1, <3>2 DEF Compacted, TypeOK
  <2>3. PICK fdOf : Close(fdOf)
    BY <1>8 DEF drop_random
  <2>4. TypeOK'
    <3>1. Slot(Limit(size)) \in Slots /\ Limit(size) \in 0..Capacity
      BY <1>0, <2>1, RingIndices, CapacityAssumption DEF TypeOK
    <3> QED BY <1>0, <1>8, <2>1, <2>2, <2>3, <3>1, CloseType DEF drop_random, TypeOK
  <2>5. CapacityBound' /\ RingTail'
    BY <1>0, <1>8, <2>1, CapacityAssumption
    DEF drop_random, CapacityBound, Serving, TypeOK, RingTail, Slot
  <2>6. MutexOwner' /\ NoLostWakeup'
    BY <1>0, <1>8, <2>1 DEF drop_random, MutexOwner, NoLostWakeup, TypeOK
  <2> QED BY <2>4, <2>5, <2>6 DEF Structure
<1>9. ASSUME NEW w \in Workers, WorkerLock(w) PROVE Structure'
  <2>1. TypeOK'
    BY <1>0, <1>9 DEF WorkerLock, TypeOK, WorkerPCs
  <2>2. CapacityBound'
    <3>1. Serving' = Serving
      BY <1>0, <1>9 DEF WorkerLock, Serving, TypeOK
    <3> QED BY <1>0, <1>9, <3>1 DEF WorkerLock, CapacityBound
  <2>3. RingTail' /\ MutexOwner' /\ NoLostWakeup'
    BY <1>0, <1>9, WorkersAssumption
    DEF WorkerLock, RingTail, Slot, MutexOwner, NoLostWakeup, Full, TypeOK
  <2> QED BY <2>1, <2>2, <2>3 DEF Structure
<1>10. ASSUME NEW w \in Workers, WorkerWait(w) PROVE Structure'
  <2>1. TypeOK'
    BY <1>0, <1>10 DEF WorkerWait, TypeOK, WorkerPCs
  <2>2. CapacityBound'
    <3>1. Serving' = Serving
      BY <1>0, <1>10 DEF WorkerWait, Serving, TypeOK
    <3> QED BY <1>0, <1>10, <3>1 DEF WorkerWait, CapacityBound
  <2>3. RingTail' /\ MutexOwner' /\ NoLostWakeup'
    BY <1>0, <1>10, WorkersAssumption
    DEF WorkerWait, RingTail, Slot, MutexOwner, NoLostWakeup, Full, TypeOK
  <2> QED BY <2>1, <2>2, <2>3 DEF Structure
<1>11. ASSUME NEW w \in Workers, WorkerDispatch(w) PROVE Structure'
  <2>1. Serving' = Serving \cup {w} /\ w \notin Serving
    BY <1>0, <1>11 DEF WorkerDispatch, Serving, TypeOK
  <2>2. Cardinality(Serving') = Cardinality(Serving) + 1
    BY <1>0, <2>1, ServingFinite, FS_AddElement
  <2>3. Cardinality(Serving') \in 0..Cardinality(Workers)
    <3>1. Serving' \in SUBSET Workers
      BY DEF Serving
    <3> QED BY <3>1, WorkersAssumption, FS_Subset, FS_CardinalityType
  <2>4. TypeOK'
    <3>1. Succ(head) \in Slots /\ size - 1 \in 0..Capacity /\ items[head] \in request_t
      BY <1>0, <1>11, RingIndices, CapacityAssumption DEF WorkerDispatch, TypeOK
    <3>2. list_size + 1 \in 0..Cardinality(Workers)
      BY <1>0, <2>2, <2>3 DEF CapacityBound
    <3>3. Signal \in MasterPCs
      BY <1>0 DEF Signal, TypeOK, MasterPCs
    <3> QED BY <1>0, <1>11, <3>1, <3>2, <3>3 DEF WorkerDispatch, TypeOK, WorkerPCs
  <2>5. CapacityBound'
    BY <1>0, <1>11, <2>2, CapacityAssumption DEF WorkerDispatch, CapacityBound, TypeOK
  <2>6. RingTail'
    <3>1. /\ head \in Slots /\ size - 1 \in 0..(Capacity - 1) /\ (size - 1) + 1 = size
          /\ tail = (head + size) % Capacity
      BY <1>0, <1>11, CapacityAssumption DEF WorkerDispatch, TypeOK, RingTail, Slot
    <3>2. tail = (Succ(head) + (size - 1)) % Capacity
      BY <3>1, RingShift
    <3> QED BY <1>11, <3>2 DEF WorkerDispatch, RingTail, Slot
  <2>7. MutexOwner' /\ NoLostWakeup'
    BY <1>0, <1>11, WorkersAssumption
    DEF WorkerDispatch, MutexOwner, NoLostWakeup, Signal, TypeOK
  <2> QED BY <2>4, <2>5, <2>6, <2>7 DEF Structure
<1>12. ASSUME NEW w \in Workers, WorkerHandle(w) PROVE Structure'
  <2>1. PICK req \in Requests :
          /\ answer' = [answer EXCEPT ![w] = requestHandle(req, stamp[w])]
          /\ wpc' \in {wpc, [wpc EXCEPT ![w] = "close"], [wpc EXCEPT ![w] = "mmap"]}
          /\ reply' \in {reply, Answered(list[w].connfd)}
          /\ exit' \in {exit, "Open"}
          /\ \/ UNCHANGED <<srcfd, fdTable>>
             \/ \E fd \in FDs : /\ srcfd' = [srcfd EXCEPT ![w] = fd]
                                /\ fdTable' = [fdTable EXCEPT ![fd] = AFile]
    BY <1>12 DEF WorkerHandle
  <2>2. requestHandle(req, stamp[w]) \in Response
    BY <1>0, RequestsAssumption, requestHandleType DEF TypeOK
  <2>3. Answered(list[w].connfd) \in [Conns -> {"none", "answered", "dropped"}]
    BY <1>0 DEF Answered, TypeOK
  <2>4. TypeOK'
    BY <1>0, <1>12, <2>1, <2>2, <2>3 DEF WorkerHandle, TypeOK, WorkerPCs
  <2>5. CapacityBound'
    <3>1. Serving' = Serving
      BY <1>0, <1>12, <2>1 DEF WorkerHandle, Serving, TypeOK
    <3> QED BY <1>0, <1>12, <3>1 DEF WorkerHandle, CapacityBound
  <2>6. RingTail' /\ MutexOwner' /\ NoLostWakeup'
    BY <1>0, <1>12, <2>1
    DEF WorkerHandle, RingTail, Slot, MutexOwner, NoLostWakeup, Full, TypeOK
  <2> QED BY <2>4, <2>5, <2>6 DEF Structure
<1>13. ASSUME NEW w \in Workers, WorkerServeStatic(w) PROVE Structure'
  <2>1. Answered(list[w].connfd) \in [Conns -> {"none", "answered", "dropped"}]
    BY <1>0 DEF Answered, TypeOK
  <2>2. TypeOK'
    BY <1>0, <1>13, <2>1 DEF WorkerServeStatic, TypeOK, WorkerPCs
  <2>3. CapacityBound'
    <3>1. Serving' = Serving
      BY <1>0, <1>13 DEF WorkerServeStatic, Serving, TypeOK
    <3> QED BY <1>0, <1>13, <3>1 DEF WorkerServeStatic, CapacityBound
  <2>4. RingTail' /\ MutexOwner' /\ NoLostWakeup'
    BY <1>0, <1>13
    DEF WorkerServeStatic, RingTail, Slot, MutexOwner, NoLostWakeup, Full, TypeOK
  <2> QED BY <2>2, <2>3, <2>4 DEF Structure
<1>14. ASSUME NEW w \in Workers, WorkerStall(w) PROVE Structure'
  <2>1. TypeOK'
    BY <1>0, <1>14 DEF WorkerStall, TypeOK, WorkerPCs
  <2>2. CapacityBound'
    <3>1. Serving' = Serving
      BY <1>0, <1>14 DEF WorkerStall, Serving, TypeOK
    <3> QED BY <1>0, <1>14, <3>1 DEF WorkerStall, CapacityBound
  <2>3. RingTail' /\ MutexOwner' /\ NoLostWakeup'
    BY <1>0, <1>14, WorkersAssumption
    DEF WorkerStall, RingTail, Slot, MutexOwner, NoLostWakeup, Full, TypeOK
  <2> QED BY <2>1, <2>2, <2>3 DEF Structure
<1>15. ASSUME NEW w \in Workers, WorkerHangup(w) PROVE Structure'
  <2>1. TypeOK'
    BY <1>0, <1>15 DEF WorkerHangup, TypeOK, WorkerPCs
  <2>2. CapacityBound'
    <3>1. Serving' = Serving
      BY <1>0, <1>15 DEF WorkerHangup, Serving, TypeOK
    <3> QED BY <1>0, <1>15, <3>1 DEF WorkerHangup, CapacityBound
  <2>3. RingTail' /\ MutexOwner' /\ NoLostWakeup'
    BY <1>0, <1>15, WorkersAssumption
    DEF WorkerHangup, RingTail, Slot, MutexOwner, NoLostWakeup, Full, TypeOK
  <2> QED BY <2>1, <2>2, <2>3 DEF Structure
<1>16. ASSUME NEW w \in Workers, WorkerReset(w) PROVE Structure'
  <2>1. TypeOK'
    BY <1>0, <1>16 DEF WorkerReset, TypeOK, WorkerPCs
  <2>2. CapacityBound'
    <3>1. Serving' = Serving
      BY <1>0, <1>16 DEF WorkerReset, Serving, TypeOK
    <3> QED BY <1>0, <1>16, <3>1 DEF WorkerReset, CapacityBound
  <2>3. RingTail' /\ MutexOwner' /\ NoLostWakeup'
    BY <1>0, <1>16, WorkersAssumption
    DEF WorkerReset, RingTail, Slot, MutexOwner, NoLostWakeup, Full, TypeOK
  <2> QED BY <2>1, <2>2, <2>3 DEF Structure
<1>17. ASSUME NEW w \in Workers, WorkerClose(w) PROVE Structure'
  <2>1. TypeOK'
    BY <1>0, <1>17, CloseType DEF WorkerClose, TypeOK, WorkerPCs
  <2>2. CapacityBound'
    <3>1. Serving' = Serving
      BY <1>0, <1>17 DEF WorkerClose, Serving, TypeOK
    <3> QED BY <1>0, <1>17, <3>1 DEF WorkerClose, CapacityBound
  <2>3. RingTail' /\ MutexOwner' /\ NoLostWakeup'
    BY <1>0, <1>17, WorkersAssumption
    DEF WorkerClose, RingTail, Slot, MutexOwner, NoLostWakeup, Full, TypeOK
  <2> QED BY <2>1, <2>2, <2>3 DEF Structure
<1>18. ASSUME NEW w \in Workers, WorkerFinish(w) PROVE Structure'
  <2>1. Serving' = Serving \ {w} /\ w \in Serving
    BY <1>0, <1>18 DEF WorkerFinish, Serving, TypeOK
  <2>2. Cardinality(Serving') = Cardinality(Serving) - 1
    BY <1>0, <2>1, ServingFinite, FS_RemoveElement
  <2>3. Cardinality(Serving') \in 0..Cardinality(Workers)
    <3>1. Serving' \in SUBSET Workers
      BY DEF Serving
    <3> QED BY <3>1, WorkersAssumption, FS_Subset, FS_CardinalityType
  <2>4. Counted(counters[w], answer[w].result) \in thread_info
    BY <1>0 DEF Counted, TypeOK, thread_info
  <2>5. [list EXCEPT ![w].connfd = NoFd] \in [Workers -> request_t]
    BY <1>0 DEF TypeOK, request_t
  <2>6. TypeOK'
    BY <1>0, <1>18, <2>2, <2>3, <2>4, <2>5
    DEF WorkerFinish, TypeOK, WorkerPCs, MasterPCs, Signal, CapacityBound
  <2>7. CapacityBound'
    BY <1>0, <1>18, <2>2, CapacityAssumption DEF WorkerFinish, CapacityBound, TypeOK
  <2>8. RingTail' /\ MutexOwner' /\ NoLostWakeup'
    BY <1>0, <1>18, WorkersAssumption
    DEF WorkerFinish, RingTail, Slot, MutexOwner, NoLostWakeup, Signal, TypeOK
  <2> QED BY <2>6, <2>7, <2>8 DEF Structure
<1>19. CASE MasterSpurious
  <2>1. TypeOK'
    BY <1>0, <1>19 DEF MasterSpurious, TypeOK, MasterPCs
  <2>2. CapacityBound' /\ RingTail' /\ MutexOwner' /\ NoLostWakeup'
    BY <1>0, <1>19 DEF MasterSpurious, CapacityBound, Serving, RingTail, Slot,
                       MutexOwner, NoLostWakeup
  <2> QED BY <2>1, <2>2 DEF Structure
<1>20. ASSUME NEW w \in Workers, WorkerSpurious(w) PROVE Structure'
  <2>1. TypeOK'
    BY <1>0, <1>20 DEF WorkerSpurious, TypeOK, WorkerPCs
  <2>2. CapacityBound'
    <3>1. Serving' = Serving
      BY <1>0, <1>20 DEF WorkerSpurious, Serving, TypeOK
    <3> QED BY <1>0, <1>20, <3>1 DEF WorkerSpurious, CapacityBound
  <2>3. RingTail' /\ MutexOwner' /\ NoLostWakeup'
    BY <1>0, <1>20, WorkersAssumption
    DEF WorkerSpurious, RingTail, Slot, MutexOwner, NoLostWakeup, Full, TypeOK
  <2> QED BY <2>1, <2>2, <2>3 DEF Structure
<1>21. CASE UNCHANGED vars
  <2>1. TypeOK'
    BY <1>0, <1>21 DEF vars, TypeOK
  <2>2. CapacityBound' /\ RingTail' /\ MutexOwner' /\ NoLostWakeup'
    BY <1>0, <1>21 DEF vars, CapacityBound, Serving, RingTail, Slot, MutexOwner,
                       NoLostWakeup, Full
  <2> QED BY <2>1, <2>2 DEF Structure
<1> QED
  BY <1>1, <1>2, <1>3, <1>4, <1>5, <1>6, <1>7, <1>8, <1>9, <1>10, <1>11, <1>12,
     <1>13, <1>14, <1>15, <1>16, <1>17, <1>18, <1>19, <1>20, <1>21
  DEF Next, Step, Rest, MasterPolicy, WorkerServe

LEMMA StructureInvariant == Spec => []Structure
  BY StructureInit, StructureNext, PTL DEF Spec

(* Every value the threads share or keep has its type, in particular head  *)
(* and tail stay inside the ring's array.                                  *)
THEOREM TypeCorrect == Spec => []TypeOK
  BY StructureInvariant, PTL DEF Structure

(* Ring and list never hold more than queue_capacity requests.             *)
THEOREM CapacityRespected == Spec => []CapacityBound
  BY StructureInvariant, PTL DEF Structure

(* What check_queue asserts holds after every critical section.            *)
THEOREM RingStaysConsistent == Spec => []RingConsistent
<1>1. Structure => RingConsistent
  <2> SUFFICES ASSUME Structure PROVE RingConsistent
    OBVIOUS
  <2>1. /\ head \in Nat /\ head < Capacity /\ size \in Nat /\ size <= Capacity
        /\ Capacity \in Nat /\ Capacity > 0 /\ tail = (head + size) % Capacity
    BY CapacityAssumption DEF Structure, TypeOK, Slots, RingTail, Slot
  <2>2. tail = IF head + size < Capacity THEN head + size ELSE (head + size) - Capacity
    BY <2>1, ModCapacity
  <2>3. CASE size = Capacity
    BY <2>1, <2>2, <2>3 DEF RingConsistent
  <2>4. CASE size < Capacity
    <3>1. (tail + Capacity) - head \in Nat /\ (tail + Capacity) - head < 2 * Capacity
      BY <2>1, <2>2, <2>4
    <3>2. ((tail + Capacity) - head) % Capacity =
            IF (tail + Capacity) - head < Capacity THEN (tail + Capacity) - head
            ELSE ((tail + Capacity) - head) - Capacity
      BY <3>1, ModCapacity
    <3> QED BY <2>1, <2>2, <2>4, <3>2 DEF RingConsistent
  <2> QED BY <2>1, <2>3, <2>4
<1> QED BY <1>1, StructureInvariant, PTL

(* A worker sleeps only while the ring is empty, the master only while it  *)
(* is full: no interleaving loses a wake-up.                               *)
THEOREM WakeupsNotLost == Spec => []NoLostWakeup
  BY StructureInvariant, PTL DEF Structure

-----------------------------------------------------------------------------
(* Distances from the head                                                 *)

(* Distinct distances from the head are distinct slots.                    *)
LEMMA SlotInjective ==
  ASSUME TypeOK, NEW i \in 0..(Capacity - 1), NEW j \in 0..(Capacity - 1),
         Slot(i) = Slot(j)
  PROVE  i = j
<1>1. /\ head \in Nat /\ head < Capacity /\ Capacity \in Nat
      /\ i \in Nat /\ i < Capacity /\ j \in Nat /\ j < Capacity
  BY CapacityAssumption DEF TypeOK, Slots
<1>2. Slot(i) = IF head + i < Capacity THEN head + i ELSE (head + i) - Capacity
  BY <1>1, ModCapacity DEF Slot
<1>3. Slot(j) = IF head + j < Capacity THEN head + j ELSE (head + j) - Capacity
  BY <1>1, ModCapacity DEF Slot
<1>4. (IF head + i < Capacity THEN head + i ELSE (head + i) - Capacity) =
      (IF head + j < Capacity THEN head + j ELSE (head + j) - Capacity)
  BY <1>2, <1>3
<1> QED BY <1>1, <1>4

(* Offset inverts Slot.                                                    *)
LEMMA OffsetOfSlot ==
  ASSUME TypeOK, NEW i \in 0..(Capacity - 1)
  PROVE  Offset(Slot(i)) = i
<1>1. /\ head \in Nat /\ head < Capacity /\ Capacity \in Nat
      /\ i \in Nat /\ i < Capacity
  BY CapacityAssumption DEF TypeOK, Slots
<1>2. Slot(i) = IF head + i < Capacity THEN head + i ELSE (head + i) - Capacity
  BY <1>1, ModCapacity DEF Slot
<1> DEFINE x == Slot(i) + (Capacity - head)
<1>3. x \in Nat /\ x < 2 * Capacity
  BY <1>1, <1>2
<1>4. Offset(Slot(i)) = x % Capacity
  BY DEF Offset
<1>5. x % Capacity = IF x < Capacity THEN x ELSE x - Capacity
  <2> HIDE DEF x
  <2> QED BY <1>3, ModCapacity
<1> QED BY <1>1, <1>2, <1>4, <1>5

-----------------------------------------------------------------------------
(* How the four writers change the queue of waiting requests               *)

LEMMA Pushed ==
  ASSUME Structure, MasterEnqueue
  PROVE  /\ size' = size + 1
         /\ \A i \in 0..size : At(i)' = IF i = size THEN mreq ELSE At(i)
<1>1. size \in 0..(Capacity - 1) /\ TypeOK /\ tail = Slot(size)
  BY CapacityAssumption
  DEF Structure, TypeOK, CapacityBound, RingTail, MasterEnqueue, Full
<1>2. ASSUME NEW i \in 0..size
      PROVE  At(i)' = IF i = size THEN mreq ELSE At(i)
  <2>1. i \in 0..(Capacity - 1) /\ Slot(i) \in Slots
    BY <1>1, RingIndices, CapacityAssumption
  <2>2. i # size => Slot(i) # tail
    BY <1>1, <2>1, SlotInjective
  <2>3. Slot(i)' = Slot(i) /\ items' = [items EXCEPT ![tail] = mreq]
    BY DEF MasterEnqueue, Slot
  <2> QED BY <1>1, <2>1, <2>2, <2>3 DEF At, TypeOK
<1> QED BY <1>2 DEF MasterEnqueue

LEMMA Popped ==
  ASSUME Structure, size # 0,
         head' = Succ(head), size' = size - 1, items' = items
  PROVE  /\ size \in Nat /\ At(0) = items[head]
         /\ \A i \in 0..(size' - 1) : i + 1 \in 0..(size - 1) /\ At(i)' = At(i + 1)
<1>1. /\ size \in 1..Capacity /\ head \in Slots /\ Capacity \in Nat
  BY CapacityAssumption DEF Structure, TypeOK
<1>2. At(0) = items[head]
  BY <1>1, ModCapacity DEF At, Slot, Slots
<1>3. ASSUME NEW i \in 0..(size' - 1)
      PROVE  i + 1 \in 0..(size - 1) /\ At(i)' = At(i + 1)
  <2>1. i + 1 \in 0..(size - 1) /\ i \in 0..(Capacity - 1)
    BY <1>1
  <2>2. Slot(i)' = Slot(i + 1)
    BY <1>1, <2>1, RingShift DEF Slot
  <2> QED BY <2>1, <2>2 DEF At
<1> QED BY <1>1, <1>2, <1>3

LEMMA Compacts ==
  ASSUME Structure, size # 0, NEW pick \in Picks(size),
         head' = head, size' = Limit(size), items' = Compacted(pick)
  PROVE  /\ size \in Nat /\ size' \in 0..(size - 1)
         /\ \A j \in 0..(size' - 1) : pick[j] \in 0..(size - 1) /\ At(j)' = At(pick[j])
<1>1. /\ size \in 1..Capacity /\ TypeOK /\ Capacity \in Nat
      /\ Limit(size) \in 0..(size - 1)
  BY CapacityAssumption DEF Structure, TypeOK, Limit
<1>2. ASSUME NEW j \in 0..(size' - 1)
      PROVE  pick[j] \in 0..(size - 1) /\ At(j)' = At(pick[j])
  <2>1. pick[j] \in 0..(size - 1) /\ j \in 0..(Capacity - 1)
    BY <1>1 DEF Picks
  <2>2. Slot(j)' = Slot(j) /\ Slot(j) \in Slots /\ Offset(Slot(j)) = j
    BY <1>1, <2>1, RingIndices, OffsetOfSlot DEF Slot
  <2>3. j < Limit(size)
    BY <1>1
  <2> QED BY <2>1, <2>2, <2>3 DEF At, Compacted
<1> QED BY <1>1, <1>2

-----------------------------------------------------------------------------
(* Order of arrival.  FirstComeFirstServed is inductive once every arrival *)
(* is known to be in the past, so that the next connection is newer than   *)
(* all of them.                                                            *)

KnownArrivals ==
  /\ \A i \in 0..(size - 1) : At(i).arrival <= accepted
  /\ \A w \in Serving : list[w].arrival <= accepted
  /\ Holding => mreq.arrival <= accepted

Order == FirstComeFirstServed /\ KnownArrivals

(* Arrivals are numbers.                                                   *)
LEMMA ArrivalTypes ==
  ASSUME TypeOK
  PROVE  /\ size \in Nat /\ accepted \in Nat /\ mreq.arrival \in Nat
         /\ \A i \in 0..(size - 1) : At(i) \in request_t /\ At(i).arrival \in Nat
         /\ \A w \in Workers : list[w] \in request_t /\ list[w].arrival \in Nat
<1>1. request_t = [connfd : FDs \cup {NoFd}, arrival : 0..MaxConns]
  BY DEF request_t
<1>2. ASSUME NEW i \in 0..(size - 1) PROVE At(i) \in request_t
  BY RingIndices, CapacityAssumption DEF At, TypeOK
<1> QED BY <1>1, <1>2, BoundsAssumption, CapacityAssumption DEF TypeOK

(* A step that leaves the queue, the arrivals in service and the master's  *)
(* connection alone leaves their order alone.                              *)
LEMMA SameOrder ==
  ASSUME Order, TypeOK, size' = size, \A i \in 0..(size - 1) : At(i)' = At(i),
         Serving' \subseteq Serving,
         \A w \in Serving' : list'[w].arrival = list[w].arrival,
         Holding' => Holding /\ mreq' = mreq,
         accepted' = accepted
  PROVE  Order'
<1>1. FirstComeFirstServed'
  BY DEF Order, FirstComeFirstServed
<1>2. KnownArrivals'
  BY DEF Order, KnownArrivals
<1> QED BY <1>1, <1>2 DEF Order

LEMMA OrderInit == Init => Order
  BY DEF Init, Order, FirstComeFirstServed, KnownArrivals, Holding, Serving

LEMMA OrderNext == Structure /\ Order /\ [Next]_vars => Order'
<1> SUFFICES ASSUME Structure, Order, [Next]_vars PROVE Order'
  OBVIOUS
<1> USE DEF queueVars, listVars, masterVars, workerVars, kernelVars
<1>0. /\ TypeOK /\ Order /\ FirstComeFirstServed /\ KnownArrivals
      /\ size \in Nat /\ accepted \in Nat /\ mreq.arrival \in Nat
      /\ \A i \in 0..(size - 1) : At(i).arrival \in Nat
      /\ \A w \in Workers : list[w].arrival \in Nat
  BY ArrivalTypes DEF Structure, Order
<1>1. CASE MasterAccept
  <2>1. /\ UNCHANGED <<size, list, wpc>> /\ \A i \in 0..(size - 1) : At(i)' = At(i)
        /\ Serving' = Serving
    BY <1>1 DEF MasterAccept, At, Slot, Serving
  <2>2. CASE Free = {}
    BY <1>0, <1>1, <2>1, <2>2, SameOrder DEF MasterAccept, Holding
  <2>3. CASE Free # {}
    <3>1. accepted' = accepted + 1 /\ mreq'.arrival = accepted + 1
      BY <1>1, <2>3 DEF MasterAccept
    <3>2. FirstComeFirstServed'
      BY <1>0, <2>1, <3>1 DEF FirstComeFirstServed, KnownArrivals, Serving
    <3>3. KnownArrivals'
      BY <1>0, <2>1, <3>1 DEF KnownArrivals, Serving
    <3> QED BY <3>2, <3>3 DEF Order
  <2> QED BY <2>2, <2>3
<1>2. CASE MasterLock
  <2>1. Serving' \subseteq Serving
    BY <1>0, <1>2 DEF MasterLock, Serving, TypeOK
  <2> QED BY <1>0, <1>2, <2>1, SameOrder DEF MasterLock, At, Slot, Holding, TypeOK
<1>3. CASE MasterEnqueue
  <2>1. /\ size' = size + 1 /\ list' = list /\ accepted' = accepted /\ ~Holding'
        /\ \A i \in 0..size : At(i)' = IF i = size THEN mreq ELSE At(i)
    BY <1>3, Pushed DEF MasterEnqueue, Holding
  <2>2. Serving' = Serving
    BY <1>0, <1>3 DEF MasterEnqueue, Broadcast, Serving, TypeOK
  <2>3. Holding
    BY <1>3 DEF MasterEnqueue, Holding
  <2>4. FirstComeFirstServed'
    BY <1>0, <2>1, <2>2, <2>3 DEF FirstComeFirstServed, Serving
  <2>5. KnownArrivals'
    BY <1>0, <2>1, <2>2, <2>3 DEF KnownArrivals
  <2> QED BY <2>4, <2>5 DEF Order
<1>4. CASE block
  <2>1. Serving' \subseteq Serving
    BY <1>0, <1>4 DEF block, Serving, TypeOK
  <2> QED BY <1>0, <1>4, <2>1, SameOrder DEF block, At, Slot, Holding, TypeOK
<1>5. CASE drop_tail
  <2>1. Serving' \subseteq Serving
    BY <1>0, <1>5 DEF drop_tail, Serving, TypeOK
  <2> QED BY <1>0, <1>5, <2>1, SameOrder DEF drop_tail, At, Slot, Holding, TypeOK
<1>6. CASE MasterRefuse
  <2>1. Serving' \subseteq Serving
    BY <1>0, <1>6 DEF MasterRefuse, Serving, TypeOK
  <2> QED BY <1>0, <1>6, <2>1, SameOrder DEF MasterRefuse, At, Slot, Holding, TypeOK
<1>7. CASE drop_head
  <2>1. /\ UNCHANGED <<list, mreq, mpc, accepted, wpc>> /\ size' = size - 1
        /\ \A i \in 0..(size' - 1) : i + 1 \in 0..(size - 1) /\ At(i)' = At(i + 1)
    BY <1>7, Popped DEF drop_head
  <2>2. FirstComeFirstServed'
    BY <1>0, <2>1 DEF FirstComeFirstServed, Serving, Holding
  <2>3. KnownArrivals'
    BY <1>0, <2>1 DEF KnownArrivals, Serving, Holding
  <2> QED BY <2>2, <2>3 DEF Order
<1>8. CASE drop_random
  <2>1. PICK pick \in Picks(size) : items' = Compacted(pick)
    BY <1>8 DEF drop_random
  <2>2. /\ UNCHANGED <<list, mreq, mpc, accepted, wpc>> /\ size' = Limit(size)
        /\ head' = head /\ size # 0
    BY <1>8 DEF drop_random
  <2>3. /\ size' \in 0..(size - 1)
        /\ \A j \in 0..(size' - 1) : pick[j] \in 0..(size - 1) /\ At(j)' = At(pick[j])
    BY <2>1, <2>2, Compacts
  <2>4. \A i, j \in 0..(size' - 1) : i < j => pick[i] < pick[j]
    BY <2>2 DEF Picks
  <2>5. FirstComeFirstServed'
    BY <1>0, <2>2, <2>3, <2>4 DEF FirstComeFirstServed, Serving, Holding
  <2>6. KnownArrivals'
    BY <1>0, <2>2, <2>3 DEF KnownArrivals, Serving, Holding
  <2> QED BY <2>5, <2>6 DEF Order
<1>9. ASSUME NEW w \in Workers, WorkerLock(w) PROVE Order'
  <2>1. Serving' \subseteq Serving
    BY <1>0, <1>9 DEF WorkerLock, Serving, TypeOK
  <2> QED BY <1>0, <1>9, <2>1, SameOrder DEF WorkerLock, At, Slot, Holding, TypeOK
<1>10. ASSUME NEW w \in Workers, WorkerWait(w) PROVE Order'
  <2>1. Serving' \subseteq Serving
    BY <1>0, <1>10 DEF WorkerWait, Serving, TypeOK
  <2> QED BY <1>0, <1>10, <2>1, SameOrder DEF WorkerWait, At, Slot, Holding, TypeOK
<1>11. ASSUME NEW w \in Workers, WorkerDispatch(w) PROVE Order'
  <2>1. /\ size' = size - 1 /\ UNCHANGED <<mreq, accepted>> /\ size # 0
        /\ list' = [list EXCEPT ![w] = At(0)] /\ At(0) = items[head]
        /\ \A i \in 0..(size' - 1) : i + 1 \in 0..(size - 1) /\ At(i)' = At(i + 1)
    BY <1>11, Popped DEF WorkerDispatch
  <2>2. Serving' = Serving \cup {w} /\ w \notin Serving
    BY <1>0, <1>11 DEF WorkerDispatch, Serving, TypeOK
  <2>3. Holding' = Holding
    BY <1>0, <1>11 DEF WorkerDispatch, Signal, Holding
  <2>4. list'[w] = At(0) /\ \A v \in Serving : list'[v] = list[v]
    BY <1>0, <2>1, <2>2 DEF TypeOK, Serving
  <2>5. Serving \subseteq Workers /\ 0 \in 0..(size - 1)
    BY <1>0, <2>1 DEF Serving
  <2>6. FirstComeFirstServed'
    BY <1>0, <2>1, <2>2, <2>3, <2>4, <2>5 DEF FirstComeFirstServed
  <2>7. KnownArrivals'
    BY <1>0, <2>1, <2>2, <2>3, <2>4, <2>5 DEF KnownArrivals
  <2> QED BY <2>6, <2>7 DEF Order
<1>12. ASSUME NEW w \in Workers, WorkerHandle(w) PROVE Order'
  <2>1. Serving' \subseteq Serving
    BY <1>0, <1>12 DEF WorkerHandle, Serving, TypeOK
  <2> QED BY <1>0, <1>12, <2>1, SameOrder DEF WorkerHandle, At, Slot, Holding, TypeOK
<1>13. ASSUME NEW w \in Workers, WorkerServeStatic(w) PROVE Order'
  <2>1. Serving' \subseteq Serving
    BY <1>0, <1>13 DEF WorkerServeStatic, Serving, TypeOK
  <2> QED BY <1>0, <1>13, <2>1, SameOrder DEF WorkerServeStatic, At, Slot, Holding, TypeOK
<1>14. ASSUME NEW w \in Workers, WorkerStall(w) PROVE Order'
  <2>1. Serving' \subseteq Serving
    BY <1>0, <1>14 DEF WorkerStall, Serving, TypeOK
  <2> QED BY <1>0, <1>14, <2>1, SameOrder DEF WorkerStall, At, Slot, Holding, TypeOK
<1>15. ASSUME NEW w \in Workers, WorkerHangup(w) PROVE Order'
  <2>1. Serving' \subseteq Serving
    BY <1>0, <1>15 DEF WorkerHangup, Serving, TypeOK
  <2> QED BY <1>0, <1>15, <2>1, SameOrder DEF WorkerHangup, At, Slot, Holding, TypeOK
<1>16. ASSUME NEW w \in Workers, WorkerReset(w) PROVE Order'
  <2>1. Serving' \subseteq Serving
    BY <1>0, <1>16 DEF WorkerReset, Serving, TypeOK
  <2> QED BY <1>0, <1>16, <2>1, SameOrder DEF WorkerReset, At, Slot, Holding, TypeOK
<1>17. ASSUME NEW w \in Workers, WorkerClose(w) PROVE Order'
  <2>1. Serving' \subseteq Serving
    BY <1>0, <1>17 DEF WorkerClose, Serving, TypeOK
  <2> QED BY <1>0, <1>17, <2>1, SameOrder DEF WorkerClose, At, Slot, Holding, TypeOK
<1>18. ASSUME NEW w \in Workers, WorkerFinish(w) PROVE Order'
  <2>1. Serving' \subseteq Serving
    BY <1>0, <1>18 DEF WorkerFinish, Serving, TypeOK
  <2>2. \A v \in Serving' : list'[v].arrival = list[v].arrival
    BY <1>0, <1>18 DEF WorkerFinish, Serving, TypeOK, request_t
  <2>3. Holding' = Holding
    BY <1>0, <1>18 DEF WorkerFinish, Signal, Holding
  <2> QED BY <1>0, <1>18, <2>1, <2>2, <2>3, SameOrder DEF WorkerFinish, At, Slot
<1>19. CASE MasterSpurious
  <2>1. Serving' \subseteq Serving
    BY <1>0, <1>19 DEF MasterSpurious, Serving, TypeOK
  <2> QED BY <1>0, <1>19, <2>1, SameOrder DEF MasterSpurious, At, Slot, Holding, TypeOK
<1>20. ASSUME NEW w \in Workers, WorkerSpurious(w) PROVE Order'
  <2>1. Serving' \subseteq Serving
    BY <1>0, <1>20 DEF WorkerSpurious, Serving, TypeOK
  <2> QED BY <1>0, <1>20, <2>1, SameOrder DEF WorkerSpurious, At, Slot, Holding, TypeOK
<1>21. CASE UNCHANGED vars
  BY <1>0, <1>21, SameOrder DEF vars, At, Slot, Holding, Serving
<1> QED
  BY <1>1, <1>2, <1>3, <1>4, <1>5, <1>6, <1>7, <1>8, <1>9, <1>10, <1>11, <1>12,
     <1>13, <1>14, <1>15, <1>16, <1>17, <1>18, <1>19, <1>20, <1>21
  DEF Next, Step, Rest, MasterPolicy, WorkerServe

(* Requests start in order of arrival and never overtake one another.      *)
THEOREM ServedInOrder == Spec => []FirstComeFirstServed
<1>1. Spec => []Order
  BY OrderInit, OrderNext, StructureInvariant, PTL DEF Spec
<1> QED BY <1>1, PTL DEF Order

-----------------------------------------------------------------------------
(* Ownership of descriptors.  It rests on the order: two places hold       *)
(* requests with different arrivals, so their descriptors, which name      *)
(* those arrivals, differ, and closing one leaves the other open.          *)

FutureUnanswered == \A c \in Conns : c > accepted => reply[c] = "none"

Owned == DescriptorsOwned /\ NoFailedClose /\ FutureUnanswered

(* A descriptor that names connection c is untouched by closing others.    *)
LEMMA CloseOthers ==
  ASSUME TypeOK, NEW fdOf, Close(fdOf), NEW fd \in FDs, NEW c,
         fdTable[fd] = c, \A i \in DOMAIN fdOf : fdOf[i] \in FDs => fdTable[fdOf[i]] # c
  PROVE  fdTable'[fd] = c /\ (c \in Conns => reply'[c] = reply[c])
  BY DEF Close, TypeOK

(* A client none of whose descriptors is closed is not dropped.            *)
LEMMA CloseReplies ==
  ASSUME NEW fdOf, Close(fdOf), NEW c \in Conns,
         \A i \in DOMAIN fdOf : fdTable[fdOf[i]] # c
  PROVE  reply'[c] = reply[c]
<1>1. ~ \E fd \in {fdOf[i] : i \in DOMAIN fdOf} \cap FDs : fdTable[fd] = c
  OBVIOUS
<1>2. reply'[c] = IF /\ reply[c] = "none"
                     /\ \E fd \in {fdOf[i] : i \in DOMAIN fdOf} \cap FDs : fdTable[fd] = c
                  THEN "dropped" ELSE reply[c]
  BY DEF Close
<1> QED BY <1>1, <1>2

(* Close succeeds on distinct open descriptors.                            *)
LEMMA CloseSucceeds ==
  ASSUME NEW fdOf, Close(fdOf), \A i \in DOMAIN fdOf : IsOpen(fdOf[i]),
         \A i, j \in DOMAIN fdOf : fdOf[i] = fdOf[j] => i = j
  PROVE  exit' = exit
  BY DEF Close

(* A connection that a request owns is one of Conns.                       *)
LEMMA OwnsConnection ==
  ASSUME TypeOK, NEW r \in request_t, Owns(r)
  PROVE  r.connfd \in FDs /\ r.arrival \in Conns /\ fdTable[r.connfd] = r.arrival
         /\ r.arrival # Closed /\ r.arrival # AFile
  BY BoundsAssumption DEF Owns, IsOpen, request_t, Conns, Closed, AFile

(* A step that neither opens, closes nor answers, and moves no request.    *)
LEMMA SameOwned ==
  ASSUME Owned, TypeOK, exit = "no",
         size' = size, \A i \in 0..(size - 1) : At(i)' = At(i),
         UNCHANGED <<fdTable, reply, list, srcfd, accepted>>,
         Holding' => Holding /\ mreq' = mreq,
         \A w \in Workers :
           /\ wpc'[w] \in {"handle", "mmap", "stuck", "spin"} =>
                wpc[w] \in {"handle", "mmap", "stuck", "spin"}
           /\ wpc'[w] = "close" => wpc[w] = "close"
           /\ wpc'[w] = "mmap" => wpc[w] = "mmap",
         exit' # "Close"
  PROVE  Owned'
<1>1. \A r : Pending(r) => IsOpen(r.connfd)' /\ fdTable'[r.connfd] = r.arrival
                           /\ reply'[r.arrival] = "none"
  BY DEF Pending, Owns, IsOpen
<1>2. \A i \in 0..(size - 1) : Pending(At(i))'
  BY <1>1 DEF Owned, DescriptorsOwned, Pending, Owns, IsOpen
<1>3. Holding' => Pending(mreq)'
  BY <1>1 DEF Owned, DescriptorsOwned, Pending, Owns, IsOpen
<1>4. ServiceOwned'
  BY <1>1 DEF Owned, DescriptorsOwned, ServiceOwned, Pending, Owns, IsOpen
<1>5. FilesOwned'
  BY DEF Owned, DescriptorsOwned, FilesOwned, IsOpen
<1>6. NoFailedClose' /\ FutureUnanswered'
  BY DEF Owned, NoFailedClose, FutureUnanswered
<1> QED BY <1>2, <1>3, <1>4, <1>5, <1>6 DEF Owned, DescriptorsOwned

LEMMA OwnedInit == Init => Owned
  BY DEF Init, Owned, DescriptorsOwned, NoFailedClose, FutureUnanswered, Holding,
         ServiceOwned, FilesOwned

(* What closing leaves alone: the requests q and the files that stay open, *)
(* and the fate of every connection but those in gone.                     *)
Spares(q) ==
  /\ q.connfd \in FDs /\ fdTable'[q.connfd] = q.arrival
  /\ fdTable'[q.connfd] # Closed /\ reply'[q.arrival] = reply[q.arrival]

ClosedOnly(gone) ==
  /\ exit' = exit
  /\ \A q \in request_t : Owns(q) /\ q.arrival \notin gone => Spares(q)
  /\ \A fd \in FDs : fdTable[fd] = AFile => fdTable'[fd] = AFile
  /\ \A c \in Conns : c \notin gone => reply'[c] = reply[c]

LEMMA CloseOne ==
  ASSUME TypeOK, NEW r \in request_t, Owns(r), Close([i \in {0} |-> r.connfd])
  PROVE  ClosedOnly({r.arrival})
<1> DEFINE fdOf == [i \in {0} |-> r.connfd]
<1>1. Close(fdOf) /\ DOMAIN fdOf = {0} /\ fdOf[0] = r.connfd
  OBVIOUS
<1>2. fdTable[r.connfd] = r.arrival /\ r.arrival \in Conns /\ r.arrival # AFile
      /\ IsOpen(r.connfd)
  BY OwnsConnection DEF Owns
<1> HIDE DEF fdOf
<1>3. exit' = exit
  BY <1>1, <1>2, CloseSucceeds
<1>4. ASSUME NEW q \in request_t, Owns(q), q.arrival # r.arrival PROVE Spares(q)
  <2>1. q.connfd \in FDs /\ fdTable[q.connfd] = q.arrival /\ q.arrival \in Conns
        /\ q.arrival # Closed
    BY <1>4, OwnsConnection
  <2> QED BY <1>1, <1>2, <1>4, <2>1, CloseOthers DEF Spares
<1>5. ASSUME NEW fd \in FDs, fdTable[fd] = AFile PROVE fdTable'[fd] = AFile
  BY <1>1, <1>2, <1>5, CloseOthers
<1>6. ASSUME NEW c \in Conns, c # r.arrival PROVE reply'[c] = reply[c]
  <2>1. \A i \in DOMAIN fdOf : fdTable[fdOf[i]] # c
    BY <1>1, <1>2, <1>6
  <2> QED BY <1>1, <2>1, CloseReplies
<1> QED BY <1>3, <1>4, <1>5, <1>6 DEF ClosedOnly

LEMMA CloseQueued ==
  ASSUME TypeOK, Order, NEW D \in SUBSET (0..(size - 1)),
         \A i \in D : Owns(At(i)), Close([i \in D |-> At(i).connfd])
  PROVE  ClosedOnly({At(i).arrival : i \in D})
<1> DEFINE fdOf == [i \in D |-> At(i).connfd]
<1>1. Close(fdOf) /\ DOMAIN fdOf = D /\ \A i \in D : fdOf[i] = At(i).connfd
  OBVIOUS
<1>2. \A i \in D : /\ At(i) \in request_t /\ fdTable[At(i).connfd] = At(i).arrival
                   /\ At(i).arrival \in Conns /\ At(i).arrival # AFile
                   /\ IsOpen(At(i).connfd)
  BY OwnsConnection, ArrivalTypes DEF Owns
<1> HIDE DEF fdOf
<1>3. exit' = exit
  <2>1. ASSUME NEW i \in D, NEW j \in D, fdOf[i] = fdOf[j] PROVE i = j
    <3>1. At(i).arrival = At(j).arrival
      BY <1>1, <1>2, <2>1
    <3>2. ~(i < j) /\ ~(j < i)
      BY <3>1, ArrivalTypes DEF Order, FirstComeFirstServed
    <3> QED BY <3>2, ArrivalTypes
  <2> QED BY <1>1, <1>2, <2>1, CloseSucceeds
<1>4. ASSUME NEW q \in request_t, Owns(q), q.arrival \notin {At(i).arrival : i \in D}
      PROVE  Spares(q)
  <2>1. q.connfd \in FDs /\ fdTable[q.connfd] = q.arrival /\ q.arrival \in Conns
        /\ q.arrival # Closed
    BY <1>4, OwnsConnection
  <2>2. \A i \in DOMAIN fdOf : fdTable[fdOf[i]] # q.arrival
    BY <1>1, <1>2, <1>4
  <2>3. fdTable'[q.connfd] = q.arrival /\ reply'[q.arrival] = reply[q.arrival]
    BY <1>1, <2>1, <2>2, CloseOthers
  <2> QED BY <2>1, <2>3 DEF Spares
<1>5. ASSUME NEW fd \in FDs, fdTable[fd] = AFile PROVE fdTable'[fd] = AFile
  <2>1. \A i \in DOMAIN fdOf : fdTable[fdOf[i]] # AFile
    BY <1>1, <1>2
  <2> QED BY <1>1, <1>5, <2>1, CloseOthers
<1>6. ASSUME NEW c \in Conns, c \notin {At(i).arrival : i \in D}
      PROVE  reply'[c] = reply[c]
  <2>1. ASSUME NEW i \in DOMAIN fdOf PROVE fdTable[fdOf[i]] # c
    <3>1. i \in D /\ fdTable[fdOf[i]] = At(i).arrival
      BY <1>1, <1>2
    <3>2. At(i).arrival \in {At(k).arrival : k \in D}
      BY <3>1
    <3> QED BY <1>6, <3>1, <3>2
  <2> QED BY <1>1, <2>1, CloseReplies
<1> QED BY <1>3, <1>4, <1>5, <1>6 DEF ClosedOnly

(* What answering changes: the fate of the worker's own connection.        *)
AnsweredOnly(w) ==
  /\ reply'[list[w].arrival] = "answered"
  /\ \A c \in Conns : c # list[w].arrival => reply'[c] = reply[c]

LEMMA AnswerOne ==
  ASSUME TypeOK, NEW w \in Workers, Owns(list[w]), reply' = Answered(list[w].connfd)
  PROVE  AnsweredOnly(w)
<1>1. list[w].arrival \in Conns /\ fdTable[list[w].connfd] = list[w].arrival
      /\ IsOpen(list[w].connfd)
  BY ArrivalTypes, OwnsConnection DEF Owns
<1> QED BY <1>1 DEF Answered, AnsweredOnly

(* A worker that has answered and closed nothing but its own file.         *)
LEMMA AnswerOwned ==
  ASSUME TypeOK, Order, Owned, exit = "no", exit' = exit,
         NEW w \in Workers, w \in Serving, Owns(list[w]), AnsweredOnly(w),
         UNCHANGED <<size, list, mreq, mpc, accepted>>,
         \A i \in 0..(size - 1) : At(i)' = At(i),
         \A q \in request_t : Owns(q) => IsOpen(q.connfd)' /\ fdTable'[q.connfd] = q.arrival,
         wpc'[w] = "close", \A v \in Workers \ {w} : wpc'[v] = wpc[v],
         FilesOwned'
  PROVE  Owned'
<1>0. /\ size \in Nat /\ accepted \in Nat /\ mreq \in request_t
      /\ \A i \in 0..(size - 1) : At(i) \in request_t /\ At(i).arrival \in Nat
      /\ \A v \in Workers : list[v] \in request_t /\ list[v].arrival \in Nat
  BY ArrivalTypes DEF TypeOK
<1>1. /\ \A i \in 0..(size - 1) : Pending(At(i))
      /\ Holding => Pending(mreq)
      /\ ServiceOwned /\ FutureUnanswered
  BY DEF Owned, DescriptorsOwned
<1>2. /\ \A i \in 0..(size - 1) : At(i).arrival # list[w].arrival
      /\ Holding => mreq.arrival # list[w].arrival
      /\ \A v \in Serving : v # w => list[v].arrival # list[w].arrival
      /\ list[w].arrival <= accepted
  BY <1>0 DEF Order, FirstComeFirstServed, KnownArrivals, request_t
<1>3. \A q \in request_t : Pending(q) /\ q.arrival # list[w].arrival =>
        IsOpen(q.connfd)' /\ fdTable'[q.connfd] = q.arrival /\ reply'[q.arrival] = "none"
  BY OwnsConnection DEF Pending, AnsweredOnly
<1>4. \A i \in 0..(size' - 1) : Pending(At(i))'
  BY <1>0, <1>1, <1>2, <1>3 DEF Pending, Owns, IsOpen
<1>5. Holding' => Pending(mreq)'
  BY <1>0, <1>1, <1>2, <1>3 DEF Pending, Owns, IsOpen, Holding
<1>6. ServiceOwned'
  <2>1. Owns(list[w])' /\ reply'[list'[w].arrival] = "answered"
    BY <1>0 DEF Owns, IsOpen, AnsweredOnly
  <2>2. ASSUME NEW v \in Workers, v # w, wpc'[v] \in {"handle", "mmap", "stuck", "spin"}
        PROVE  Pending(list[v])'
    <3>1. v \in Serving /\ Pending(list[v])
      BY <1>1, <2>2 DEF ServiceOwned, Serving
    <3> QED BY <1>0, <1>2, <1>3, <2>2, <3>1 DEF Pending, Owns, IsOpen
  <2>3. ASSUME NEW v \in Workers, v # w, wpc'[v] = "close"
        PROVE  Owns(list[v])' /\ reply'[list'[v].arrival] = "answered"
    <3>1. v \in Serving /\ Owns(list[v]) /\ reply[list[v].arrival] = "answered"
      BY <1>1, <2>3 DEF ServiceOwned, Serving
    <3>2. list[v].arrival \in Conns /\ list[v].arrival # list[w].arrival
      BY <1>0, <1>2, <2>3, <3>1, OwnsConnection
    <3> QED BY <1>0, <3>1, <3>2 DEF Owns, IsOpen, AnsweredOnly
  <2> QED BY <2>1, <2>2, <2>3 DEF ServiceOwned
<1>7. NoFailedClose' /\ FutureUnanswered'
  BY <1>0, <1>1, <1>2 DEF NoFailedClose, FutureUnanswered, AnsweredOnly, Conns
<1> QED BY <1>4, <1>5, <1>6, <1>7 DEF Owned, DescriptorsOwned

LEMMA OwnedStep ==
  ASSUME Structure, Order, Owned, exit = "no", Step
  PROVE  Owned'
<1> USE DEF queueVars, listVars, masterVars, workerVars, kernelVars
<1>0. /\ TypeOK /\ Order /\ Owned /\ exit = "no"
      /\ size \in Nat /\ accepted \in Nat /\ mreq \in request_t
      /\ \A i \in 0..(size - 1) : At(i) \in request_t /\ At(i).arrival \in Nat
      /\ \A w \in Workers : list[w] \in request_t /\ list[w].arrival \in Nat
  BY ArrivalTypes DEF Structure, TypeOK
<1>a. /\ \A i \in 0..(size - 1) : Pending(At(i))
      /\ Holding => Pending(mreq)
      /\ ServiceOwned /\ FilesOwned /\ FutureUnanswered
  BY <1>0 DEF Owned, DescriptorsOwned
<1>b. FirstComeFirstServed /\ KnownArrivals
  BY <1>0 DEF Order
<1>1. CASE MasterAccept
  <2>1. CASE Free = {}
    BY <1>0, <1>1, <2>1, SameOwned DEF MasterAccept, At, Slot, Holding
  <2>2. CASE Free # {}
    <3>1. PICK fd \in FDs : /\ fdTable[fd] = Closed
                            /\ fdTable' = [fdTable EXCEPT ![fd] = accepted + 1]
                            /\ mreq' = [connfd |-> fd, arrival |-> accepted + 1]
      BY <1>1, <2>2 DEF MasterAccept, LowestFree, Free
    <3>2. /\ accepted' = accepted + 1 /\ accepted + 1 \in Conns
          /\ UNCHANGED <<size, reply, exit, list, wpc, srcfd>>
          /\ \A i \in 0..(size - 1) : At(i)' = At(i)
      BY <1>0, <1>1, <2>2, BoundsAssumption DEF MasterAccept, At, Slot, TypeOK, Conns
    <3>3. \A other \in FDs : fdTable[other] # Closed => fdTable'[other] = fdTable[other]
      BY <1>0, <3>1 DEF TypeOK
    <3>4. \A i \in 0..(size - 1) : Pending(At(i))'
      BY <1>a, <3>2, <3>3 DEF Pending, Owns, IsOpen
    <3>5. Pending(mreq)'
      <4>1. reply[accepted + 1] = "none"
        BY <1>0, <1>a, <3>2 DEF FutureUnanswered
      <4>2. fdTable'[fd] = accepted + 1 /\ accepted + 1 # Closed
        BY <1>0, <3>1 DEF TypeOK, Closed
      <4> QED BY <3>1, <3>2, <4>1, <4>2 DEF Pending, Owns, IsOpen
    <3>6. ServiceOwned' /\ FilesOwned'
      BY <1>a, <3>2, <3>3 DEF ServiceOwned, FilesOwned, Pending, Owns, IsOpen
    <3>7. NoFailedClose' /\ FutureUnanswered'
      BY <1>0, <1>a, <3>2 DEF NoFailedClose, FutureUnanswered, Conns
    <3> QED BY <3>2, <3>4, <3>5, <3>6, <3>7 DEF Owned, DescriptorsOwned
  <2> QED BY <2>1, <2>2
<1>2. CASE MasterLock
  BY <1>0, <1>2, SameOwned DEF MasterLock, At, Slot, Holding, TypeOK
<1>3. CASE MasterEnqueue
  <2>1. /\ size' = size + 1 /\ ~Holding' /\ Holding
        /\ UNCHANGED <<fdTable, reply, exit, list, srcfd, accepted>>
        /\ \A i \in 0..size : At(i)' = IF i = size THEN mreq ELSE At(i)
    BY <1>3, Pushed DEF MasterEnqueue, Holding, Structure
  <2>2. \A w \in Workers : wpc[w] # "waiting" => wpc'[w] = wpc[w]
    BY <1>3 DEF MasterEnqueue, Broadcast
  <2>3. \A w \in Workers : wpc[w] = "waiting" => wpc'[w] = "lock"
    BY <1>3 DEF MasterEnqueue, Broadcast
  <2>4. \A i \in 0..(size' - 1) : Pending(At(i))'
    BY <1>0, <1>a, <2>1 DEF Pending, Owns, IsOpen
  <2>5. ServiceOwned' /\ FilesOwned'
    BY <1>a, <2>1, <2>2, <2>3 DEF ServiceOwned, FilesOwned, Pending, Owns, IsOpen
  <2>6. NoFailedClose' /\ FutureUnanswered'
    BY <1>0, <1>a, <2>1 DEF NoFailedClose, FutureUnanswered
  <2> QED BY <2>1, <2>4, <2>5, <2>6 DEF Owned, DescriptorsOwned
<1>4. CASE block
  BY <1>0, <1>4, SameOwned DEF block, At, Slot, Holding, TypeOK
<1>5. CASE drop_tail
  BY <1>0, <1>5, SameOwned DEF drop_tail, At, Slot, Holding, TypeOK
<1>6. CASE MasterRefuse
  <2>1. Holding /\ Pending(mreq) /\ Owns(mreq)
    BY <1>a, <1>6 DEF MasterRefuse, Holding, Pending
  <2>2. ClosedOnly({mreq.arrival})
    BY <1>0, <1>6, <2>1, CloseOne DEF MasterRefuse
  <2>3. /\ UNCHANGED <<size, list, wpc, srcfd, accepted>> /\ ~Holding'
        /\ \A i \in 0..(size - 1) : At(i)' = At(i)
    BY <1>6 DEF MasterRefuse, At, Slot, Holding
  <2>4. /\ \A i \in 0..(size - 1) : At(i).arrival # mreq.arrival
        /\ \A w \in Serving : list[w].arrival # mreq.arrival
    BY <1>0, <1>b, <2>1 DEF FirstComeFirstServed, request_t, Serving
  <2>5. \A i \in 0..(size - 1) : Pending(At(i))'
    BY <1>0, <1>a, <2>2, <2>3, <2>4 DEF ClosedOnly, Spares, Pending, Owns, IsOpen
  <2>6. ServiceOwned'
    BY <1>0, <1>a, <2>2, <2>3, <2>4
    DEF ClosedOnly, Spares, ServiceOwned, Serving, Pending, Owns, IsOpen
  <2>7. FilesOwned'
    BY <1>a, <2>2, <2>3 DEF ClosedOnly, FilesOwned, IsOpen, AFile, Closed
  <2>8. NoFailedClose' /\ FutureUnanswered'
    BY <1>0, <1>a, <1>b, <2>1, <2>2, <2>3
    DEF ClosedOnly, NoFailedClose, FutureUnanswered, KnownArrivals, Conns, request_t
  <2> QED BY <2>3, <2>5, <2>6, <2>7, <2>8 DEF Owned, DescriptorsOwned
<1>7. CASE drop_head
  <2>1. /\ UNCHANGED <<list, mreq, mpc, accepted, wpc, srcfd>> /\ size' = size - 1
        /\ size # 0 /\ At(0) = items[head] /\ {0} \in SUBSET (0..(size - 1))
        /\ \A i \in 0..(size' - 1) : i + 1 \in 0..(size - 1) /\ At(i)' = At(i + 1)
    BY <1>0, <1>7, Popped DEF drop_head
  <2>2. ClosedOnly({At(0).arrival})
    <3>1. Close([i \in {0} |-> At(0).connfd])
      BY <1>7, <2>1 DEF drop_head
    <3> QED BY <1>0, <1>a, <2>1, <3>1, CloseOne DEF Pending
  <2>3. /\ \A i \in 0..(size - 1) : i # 0 => At(i).arrival # At(0).arrival
        /\ \A w \in Serving : list[w].arrival # At(0).arrival
        /\ Holding => mreq.arrival # At(0).arrival
    BY <1>0, <1>b, <2>1 DEF FirstComeFirstServed, Serving, request_t
  <2>4. \A i \in 0..(size' - 1) : Pending(At(i))'
    BY <1>0, <1>a, <2>1, <2>2, <2>3 DEF ClosedOnly, Spares, Pending, Owns, IsOpen
  <2>5. Holding' => Pending(mreq)'
    BY <1>0, <1>a, <2>1, <2>2, <2>3 DEF ClosedOnly, Spares, Pending, Owns, IsOpen, Holding
  <2>6. ServiceOwned'
    BY <1>0, <1>a, <2>1, <2>2, <2>3
    DEF ClosedOnly, Spares, ServiceOwned, Serving, Pending, Owns, IsOpen
  <2>7. FilesOwned'
    BY <1>a, <2>1, <2>2 DEF ClosedOnly, FilesOwned, IsOpen, AFile, Closed
  <2>8. NoFailedClose' /\ FutureUnanswered'
    BY <1>0, <1>a, <1>b, <2>1, <2>2
    DEF ClosedOnly, NoFailedClose, FutureUnanswered, KnownArrivals, Conns
  <2> QED BY <2>4, <2>5, <2>6, <2>7, <2>8 DEF Owned, DescriptorsOwned
<1>8. CASE drop_random
  <2>1. PICK pick \in Picks(size) :
          /\ items' = Compacted(pick)
          /\ Close([i \in (0..(size - 1)) \ {pick[j] : j \in DOMAIN pick} |->
                     items[Slot(i)].connfd])
    BY <1>8 DEF drop_random
  <2> DEFINE D == (0..(size - 1)) \ {pick[j] : j \in DOMAIN pick}
  <2>2. /\ UNCHANGED <<list, mreq, mpc, accepted, wpc, srcfd>> /\ size' = Limit(size)
        /\ head' = head /\ size # 0
    BY <1>8 DEF drop_random
  <2>3. /\ size' \in 0..(size - 1)
        /\ \A j \in 0..(size' - 1) : pick[j] \in 0..(size - 1) /\ At(j)' = At(pick[j])
    BY <2>1, <2>2, Compacts
  <2>4. ClosedOnly({At(i).arrival : i \in D})
    <3>1. Close([i \in D |-> At(i).connfd])
      BY <2>1 DEF At
    <3> QED BY <1>0, <1>a, <3>1, CloseQueued DEF Pending
  <2>5. \A j \in 0..(size' - 1) : pick[j] \notin D
    <3>1. DOMAIN pick = 0..(size' - 1)
      BY <2>2 DEF Picks
    <3> QED BY <3>1
  <2>6. \A i \in 0..(size - 1), k \in 0..(size - 1) :
          At(i).arrival = At(k).arrival => i = k
    BY <1>0, <1>b DEF FirstComeFirstServed
  <2>7. \A j \in 0..(size' - 1) : At(pick[j]).arrival \notin {At(i).arrival : i \in D}
    BY <2>3, <2>5, <2>6
  <2>8. /\ \A w \in Serving : list[w].arrival \notin {At(i).arrival : i \in D}
        /\ Holding => mreq.arrival \notin {At(i).arrival : i \in D}
    BY <1>0, <1>b DEF FirstComeFirstServed, Serving, request_t
  <2>9. \A c \in {At(i).arrival : i \in D} : c <= accepted
    BY <1>b DEF KnownArrivals
  <2> HIDE DEF D
  <2>10. ASSUME NEW j \in 0..(size' - 1) PROVE Pending(At(j))'
    <3>1. /\ pick[j] \in 0..(size - 1) /\ At(pick[j]) \in request_t
          /\ At(j)' = At(pick[j]) /\ Pending(At(pick[j]))
      BY <1>0, <1>a, <2>3
    <3>2. Spares(At(pick[j]))
      BY <2>4, <2>7, <3>1 DEF ClosedOnly, Pending
    <3> QED BY <3>1, <3>2 DEF Spares, Pending, Owns, IsOpen
  <2>11. Holding' => Pending(mreq)'
    BY <1>0, <1>a, <2>2, <2>4, <2>8 DEF ClosedOnly, Spares, Pending, Owns, IsOpen, Holding
  <2>12. ServiceOwned'
    BY <1>0, <1>a, <2>2, <2>4, <2>8
    DEF ClosedOnly, Spares, ServiceOwned, Serving, Pending, Owns, IsOpen
  <2>13. FilesOwned'
    BY <1>a, <2>2, <2>4 DEF ClosedOnly, FilesOwned, IsOpen, AFile, Closed
  <2>14. NoFailedClose' /\ FutureUnanswered'
    BY <1>0, <1>a, <2>2, <2>4, <2>9
    DEF ClosedOnly, NoFailedClose, FutureUnanswered, Conns
  <2> QED BY <2>10, <2>11, <2>12, <2>13, <2>14 DEF Owned, DescriptorsOwned
<1>9. ASSUME NEW w \in Workers, WorkerLock(w) PROVE Owned'
  BY <1>0, <1>9, SameOwned DEF WorkerLock, At, Slot, Holding, TypeOK
<1>10. ASSUME NEW w \in Workers, WorkerWait(w) PROVE Owned'
  BY <1>0, <1>10, SameOwned DEF WorkerWait, At, Slot, Holding, TypeOK
<1>11. ASSUME NEW w \in Workers, WorkerDispatch(w) PROVE Owned'
  <2>0. size # 0 /\ 0 \in 0..(size - 1)
    BY <1>0, <1>11 DEF WorkerDispatch
  <2>1. /\ size' = size - 1
        /\ UNCHANGED <<mreq, accepted, fdTable, reply, exit, srcfd>>
        /\ list' = [list EXCEPT ![w] = At(0)]
        /\ \A i \in 0..(size' - 1) : i + 1 \in 0..(size - 1) /\ At(i)' = At(i + 1)
    BY <1>11, <2>0, Popped DEF WorkerDispatch
  <2>2. wpc' = [wpc EXCEPT ![w] = "handle"] /\ (Holding' <=> Holding)
    BY <1>0, <1>11 DEF WorkerDispatch, Signal, Holding
  <2>3. \A i \in 0..(size' - 1) : Pending(At(i))'
    BY <1>a, <2>1 DEF Pending, Owns, IsOpen
  <2>4. Holding' => Pending(mreq)'
    BY <1>a, <2>1, <2>2 DEF Pending, Owns, IsOpen
  <2>5. Pending(At(0)) /\ list'[w] = At(0) /\ wpc'[w] = "handle"
    BY <1>0, <1>a, <2>0, <2>1, <2>2 DEF TypeOK
  <2>6. \A v \in Workers \ {w} : list'[v] = list[v] /\ wpc'[v] = wpc[v]
    BY <1>0, <2>1, <2>2 DEF TypeOK
  <2>7. ServiceOwned'
    BY <1>a, <2>1, <2>5, <2>6 DEF ServiceOwned, Pending, Owns, IsOpen
  <2>8. FilesOwned'
    BY <1>a, <2>1, <2>5, <2>6 DEF FilesOwned, IsOpen
  <2>9. NoFailedClose' /\ FutureUnanswered'
    BY <1>0, <1>a, <2>1 DEF NoFailedClose, FutureUnanswered
  <2> QED BY <2>3, <2>4, <2>7, <2>8, <2>9 DEF Owned, DescriptorsOwned
<1>12. ASSUME NEW w \in Workers, WorkerHandle(w) PROVE Owned'
  <2>1. /\ UNCHANGED <<size, list, mreq, mpc, accepted>>
        /\ \A i \in 0..(size - 1) : At(i)' = At(i)
        /\ wpc[w] = "handle" /\ Pending(list[w]) /\ Owns(list[w])
        /\ w \in Serving
    BY <1>a, <1>12 DEF WorkerHandle, At, Slot, ServiceOwned, Pending, Serving
  <2>2. CASE UNCHANGED <<wpc, srcfd, fdTable, reply>> /\ exit' = "Open"
    BY <1>0, <2>1, <2>2, SameOwned DEF Holding
  <2>3. CASE /\ UNCHANGED <<srcfd, fdTable, exit>>
             /\ reply' = Answered(list[w].connfd)
             /\ wpc' = [wpc EXCEPT ![w] = "close"]
    <3>1. AnsweredOnly(w)
      BY <1>0, <2>1, <2>3, AnswerOne
    <3>2. wpc'[w] = "close" /\ \A v \in Workers \ {w} : wpc'[v] = wpc[v]
      BY <1>0, <2>3 DEF TypeOK
    <3>3. FilesOwned'
      BY <1>a, <2>1, <2>3, <3>2 DEF FilesOwned, IsOpen
    <3>4. \A q \in request_t : Owns(q) => IsOpen(q.connfd)' /\ fdTable'[q.connfd] = q.arrival
      BY <2>3 DEF Owns, IsOpen
    <3> QED BY <1>0, <2>1, <2>3, <3>1, <3>2, <3>3, <3>4, AnswerOwned
  <2>4. CASE /\ \E fd \in FDs : /\ LowestFree(fd)
                               /\ srcfd' = [srcfd EXCEPT ![w] = fd]
                               /\ fdTable' = [fdTable EXCEPT ![fd] = AFile]
             /\ wpc' = [wpc EXCEPT ![w] = "mmap"]
             /\ UNCHANGED <<reply, exit>>
    <3>1. PICK fd \in FDs : /\ fdTable[fd] = Closed
                            /\ srcfd' = [srcfd EXCEPT ![w] = fd]
                            /\ fdTable' = [fdTable EXCEPT ![fd] = AFile]
      BY <2>4 DEF LowestFree, Free
    <3>2. \A other \in FDs : fdTable[other] # Closed => fdTable'[other] = fdTable[other]
      BY <1>0, <3>1 DEF TypeOK
    <3>3. /\ wpc'[w] = "mmap" /\ srcfd'[w] = fd /\ fdTable'[fd] = AFile
          /\ \A v \in Workers \ {w} : wpc'[v] = wpc[v] /\ srcfd'[v] = srcfd[v]
      BY <1>0, <2>4, <3>1 DEF TypeOK
    <3>4. \A i \in 0..(size' - 1) : Pending(At(i))'
      BY <1>a, <2>1, <2>4, <3>2 DEF Pending, Owns, IsOpen
    <3>5. Holding' => Pending(mreq)'
      BY <1>a, <2>1, <2>4, <3>2 DEF Pending, Owns, IsOpen, Holding
    <3>6. ServiceOwned'
      BY <1>a, <2>1, <2>4, <3>2, <3>3 DEF ServiceOwned, Pending, Owns, IsOpen
    <3>7. FilesOwned'
      BY <1>a, <3>1, <3>2, <3>3 DEF FilesOwned, IsOpen, AFile, Closed
    <3>8. NoFailedClose' /\ FutureUnanswered'
      BY <1>0, <1>a, <2>1, <2>4 DEF NoFailedClose, FutureUnanswered
    <3> QED BY <3>4, <3>5, <3>6, <3>7, <3>8 DEF Owned, DescriptorsOwned
  <2> QED BY <1>12, <2>2, <2>3, <2>4 DEF WorkerHandle
<1>13. ASSUME NEW w \in Workers, WorkerServeStatic(w) PROVE Owned'
  <2>1. /\ UNCHANGED <<size, list, mreq, mpc, accepted>>
        /\ \A i \in 0..(size - 1) : At(i)' = At(i)
        /\ wpc[w] = "mmap" /\ Pending(list[w]) /\ Owns(list[w]) /\ w \in Serving
    BY <1>a, <1>13 DEF WorkerServeStatic, At, Slot, ServiceOwned, Pending, Serving
  <2>2. CASE answer[w].empty
    BY <1>0, <1>13, <2>1, <2>2, SameOwned DEF WorkerServeStatic, Holding
  <2>3. CASE ~answer[w].empty
    <3>1. /\ exit' = IF IsOpen(srcfd[w]) THEN exit ELSE "Close"
          /\ fdTable' = [fd \in FDs |-> IF fd = srcfd[w] THEN Closed ELSE fdTable[fd]]
          /\ reply' = Answered(list[w].connfd)
          /\ srcfd' = [srcfd EXCEPT ![w] = NoFd]
          /\ wpc' = [wpc EXCEPT ![w] = "close"]
      BY <1>13, <2>3 DEF WorkerServeStatic
    <3>2. IsOpen(srcfd[w]) /\ fdTable[srcfd[w]] = AFile /\ exit' = exit
      BY <1>a, <2>1, <3>1 DEF FilesOwned
    <3>3. /\ \A fd \in FDs : fd # srcfd[w] => fdTable'[fd] = fdTable[fd]
          /\ wpc'[w] = "close"
          /\ \A v \in Workers \ {w} : wpc'[v] = wpc[v] /\ srcfd'[v] = srcfd[v]
      BY <1>0, <3>1 DEF TypeOK
    <3>4. AnsweredOnly(w)
      BY <1>0, <2>1, <3>1, AnswerOne
    <3>5. \A q \in request_t : Owns(q) => IsOpen(q.connfd)' /\ fdTable'[q.connfd] = q.arrival
      BY <1>0, <3>2, <3>3, OwnsConnection DEF Owns, IsOpen
    <3>6. FilesOwned'
      BY <1>a, <2>1, <3>3 DEF FilesOwned, IsOpen
    <3> QED BY <1>0, <2>1, <3>2, <3>3, <3>4, <3>5, <3>6, AnswerOwned
  <2> QED BY <2>2, <2>3
<1>14. ASSUME NEW w \in Workers, WorkerStall(w) PROVE Owned'
  BY <1>0, <1>14, SameOwned DEF WorkerStall, At, Slot, Holding, TypeOK
<1>15. ASSUME NEW w \in Workers, WorkerHangup(w) PROVE Owned'
  BY <1>0, <1>15, SameOwned DEF WorkerHangup, At, Slot, Holding, TypeOK
<1>16. ASSUME NEW w \in Workers, WorkerReset(w) PROVE Owned'
  BY <1>0, <1>16, SameOwned DEF WorkerReset, At, Slot, Holding, TypeOK
<1>17. ASSUME NEW w \in Workers, WorkerClose(w) PROVE Owned'
  <2>1. /\ UNCHANGED <<size, list, mreq, mpc, accepted, srcfd>>
        /\ \A i \in 0..(size - 1) : At(i)' = At(i)
        /\ wpc[w] = "close" /\ Owns(list[w]) /\ w \in Serving
    BY <1>a, <1>17 DEF WorkerClose, At, Slot, ServiceOwned, Serving
  <2>2. ClosedOnly({list[w].arrival})
    BY <1>0, <1>17, <2>1, CloseOne DEF WorkerClose
  <2>3. wpc'[w] = "finish" /\ \A v \in Workers \ {w} : wpc'[v] = wpc[v]
    BY <1>0, <1>17 DEF WorkerClose, TypeOK
  <2>4. /\ \A i \in 0..(size - 1) : At(i).arrival # list[w].arrival
        /\ Holding => mreq.arrival # list[w].arrival
        /\ \A v \in Serving : v # w => list[v].arrival # list[w].arrival
        /\ list[w].arrival <= accepted
    BY <1>0, <1>b, <2>1 DEF FirstComeFirstServed, KnownArrivals, request_t
  <2>5. \A i \in 0..(size' - 1) : Pending(At(i))'
    BY <1>0, <1>a, <2>1, <2>2, <2>4 DEF ClosedOnly, Spares, Pending, Owns, IsOpen
  <2>6. Holding' => Pending(mreq)'
    BY <1>0, <1>a, <2>1, <2>2, <2>4 DEF ClosedOnly, Spares, Pending, Owns, IsOpen, Holding
  <2>7. ServiceOwned'
    BY <1>0, <1>a, <2>1, <2>2, <2>3, <2>4
    DEF ClosedOnly, Spares, ServiceOwned, Serving, Pending, Owns, IsOpen
  <2>8. FilesOwned'
    BY <1>a, <2>1, <2>2, <2>3 DEF ClosedOnly, FilesOwned, IsOpen, AFile, Closed
  <2>9. NoFailedClose' /\ FutureUnanswered'
    BY <1>0, <1>a, <2>1, <2>2, <2>4
    DEF ClosedOnly, NoFailedClose, FutureUnanswered, Conns
  <2> QED BY <2>5, <2>6, <2>7, <2>8, <2>9 DEF Owned, DescriptorsOwned
<1>18. ASSUME NEW w \in Workers, WorkerFinish(w) PROVE Owned'
  <2>1. /\ UNCHANGED <<size, mreq, accepted, srcfd, fdTable, reply, exit>>
        /\ \A i \in 0..(size - 1) : At(i)' = At(i)
        /\ (Holding' <=> Holding)
    BY <1>0, <1>18 DEF WorkerFinish, At, Slot, Signal, Holding
  <2>2. /\ wpc'[w] = "lock"
        /\ \A v \in Workers \ {w} : wpc'[v] = wpc[v] /\ list'[v] = list[v]
    BY <1>0, <1>18 DEF WorkerFinish, TypeOK
  <2>3. ServiceOwned' /\ FilesOwned'
    BY <1>a, <2>1, <2>2 DEF ServiceOwned, FilesOwned, Pending, Owns, IsOpen
  <2>4. /\ \A i \in 0..(size' - 1) : Pending(At(i))'
        /\ Holding' => Pending(mreq)'
    BY <1>a, <2>1 DEF Pending, Owns, IsOpen
  <2>5. NoFailedClose' /\ FutureUnanswered'
    BY <1>0, <1>a, <2>1 DEF NoFailedClose, FutureUnanswered
  <2> QED BY <2>3, <2>4, <2>5 DEF Owned, DescriptorsOwned
<1>19. CASE MasterSpurious
  BY <1>0, <1>19, SameOwned DEF MasterSpurious, At, Slot, Holding, TypeOK
<1>20. ASSUME NEW w \in Workers, WorkerSpurious(w) PROVE Owned'
  BY <1>0, <1>20, SameOwned DEF WorkerSpurious, At, Slot, Holding, TypeOK
<1> QED
  BY <1>1, <1>2, <1>3, <1>4, <1>5, <1>6, <1>7, <1>8, <1>9, <1>10, <1>11, <1>12,
     <1>13, <1>14, <1>15, <1>16, <1>17, <1>18, <1>19, <1>20
  DEF Step, MasterPolicy, WorkerServe

LEMMA OwnedNext == Structure /\ Order /\ Owned /\ [Next]_vars => Owned'
<1> SUFFICES ASSUME Structure, Order, Owned, [Next]_vars PROVE Owned'
  OBVIOUS
<1>1. CASE UNCHANGED vars
  BY <1>1 DEF vars, queueVars, listVars, masterVars, workerVars, kernelVars, Owned,
     DescriptorsOwned, NoFailedClose, FutureUnanswered, ServiceOwned, FilesOwned,
     Pending, Owns, IsOpen, At, Slot, Holding
<1> QED BY <1>1, OwnedStep DEF Next, Rest

LEMMA OwnedInvariant == Spec => []Owned
<1>1. Spec => []Order
  BY OrderInit, OrderNext, StructureInvariant, PTL DEF Spec
<1> QED BY <1>1, OwnedInit, OwnedNext, StructureInvariant, PTL DEF Spec

(* Every request that waits, is held or is served owns an open descriptor  *)
(* for its own connection, however descriptors are closed and reused.      *)
THEOREM DescriptorsStayOwned == Spec => []DescriptorsOwned
  BY OwnedInvariant, PTL DEF Owned

(* No thread ever closes a descriptor that is not open.                    *)
THEOREM CloseNeverFails == Spec => []NoFailedClose
  BY OwnedInvariant, PTL DEF Owned

-----------------------------------------------------------------------------
(* Descriptors do not run out.  Each open descriptor has an owner that has *)
(* yet to close it, so the capacity bounds how many are open.              *)

(* Who has a descriptor in hand: a waiting request, the master, a worker   *)
(* for its connection, a worker for its file.                              *)
HasOwner(fd) ==
  \/ \E i \in 0..(size - 1) : At(i).connfd = fd
  \/ Holding /\ mreq.connfd = fd
  \/ \E w \in Workers : wpc[w] \in {"handle", "mmap", "close", "stuck", "spin"} /\ list[w].connfd = fd
  \/ \E w \in Workers : wpc[w] = "mmap" /\ srcfd[w] = fd

(* Nothing stays open that nobody will close: the inductive invariant that *)
(* EnoughDescriptors follows from.                                         *)
NoLeak == exit = "no" => \A fd \in FDs : fdTable[fd] # Closed => HasOwner(fd)

(* At start-up every descriptor is free.                                   *)
LEMMA NoLeakInit == Init => NoLeak
  BY DEF Init, NoLeak

(* A step that leaves the queue and the descriptors alone and lets go of   *)
(* nothing.                                                                *)
LEMMA SameOwners ==
  ASSUME NoLeak, exit = "no", size' = size, \A i \in 0..(size - 1) : At(i)' = At(i),
         Holding => Holding' /\ mreq' = mreq,
         UNCHANGED <<list, srcfd, fdTable>>,
         \A w \in Workers : \/ wpc'[w] = wpc[w]
                            \/ wpc[w] \notin {"handle", "mmap", "close", "stuck", "spin"}
                            \/ wpc[w] = "handle" /\ wpc'[w] \in {"close", "stuck", "spin"}
  PROVE  NoLeak'
PROOF
<1> SUFFICES ASSUME NEW fd \in FDs, fdTable'[fd] # Closed PROVE HasOwner(fd)'
  BY DEF NoLeak
<1>1. HasOwner(fd)
  BY DEF NoLeak
<1> QED BY <1>1 DEF HasOwner

(* What Close() leaves open was open before and is none of those closed.   *)
LEMMA LeftOpen ==
  ASSUME NEW fdOf, Close(fdOf), NEW fd \in FDs, fdTable'[fd] # Closed
  PROVE  fdTable[fd] # Closed /\ \A i \in DOMAIN fdOf : fdOf[i] # fd
PROOF
<1>1. fdTable' = [d \in FDs |-> IF d \in {fdOf[i] : i \in DOMAIN fdOf} THEN Closed ELSE fdTable[d]]
  BY DEF Close
<1>2. fd \notin {fdOf[i] : i \in DOMAIN fdOf} /\ fdTable'[fd] = fdTable[fd]
  BY <1>1
<1> QED BY <1>2

(* Each step that drops a connection or a file from a hand closes it or    *)
(* passes it on.                                                           *)
LEMMA NoLeakStep ==
  ASSUME Structure, NoLeak, exit = "no", Step
  PROVE  NoLeak'
PROOF
<1> USE DEF queueVars, listVars, masterVars, workerVars, kernelVars
<1>0. TypeOK
  BY DEF Structure
<1>1. CASE MasterAccept
  <2>1. CASE Free = {}
    BY <1>1, <2>1 DEF MasterAccept, NoLeak
  <2>2. CASE Free # {}
    <3>1. PICK d \in FDs : /\ fdTable' = [fdTable EXCEPT ![d] = accepted + 1]
                           /\ mreq' = [connfd |-> d, arrival |-> accepted + 1]
      BY <1>1, <2>2 DEF MasterAccept
    <3>2. /\ mpc = "accept" /\ mpc' = "lock" /\ UNCHANGED <<size, list, wpc, srcfd>>
          /\ \A i \in 0..(size - 1) : At(i)' = At(i)
      BY <1>1, <2>2 DEF MasterAccept, At, Slot
    <3>3. ASSUME NEW fd \in FDs, fdTable'[fd] # Closed PROVE HasOwner(fd)'
      <4>1. CASE fd = d
        BY <3>1, <3>2, <4>1 DEF HasOwner, Holding
      <4>2. CASE fd # d
        <5>1. fdTable[fd] # Closed
          BY <1>0, <3>1, <3>3, <4>2 DEF TypeOK
        <5>2. HasOwner(fd) /\ ~Holding
          BY <3>2, <5>1 DEF NoLeak, Holding
        <5> QED BY <3>2, <5>2 DEF HasOwner
      <4> QED BY <4>1, <4>2
    <3> QED BY <3>3 DEF NoLeak
  <2> QED BY <2>1, <2>2
<1>2. CASE MasterLock
  BY <1>2, SameOwners DEF MasterLock, At, Slot, Holding
<1>3. CASE MasterEnqueue
  <2>1. /\ size' = size + 1 /\ size \in Nat
        /\ \A i \in 0..size : At(i)' = IF i = size THEN mreq ELSE At(i)
    BY <1>0, <1>3, Pushed DEF TypeOK
  <2>2. UNCHANGED <<list, srcfd, fdTable, mreq>> /\ wpc' = Broadcast
    BY <1>3 DEF MasterEnqueue
  <2>3. \A w \in Workers : wpc[w] # "waiting" => wpc'[w] = wpc[w]
    BY <2>2 DEF Broadcast
  <2>4. ASSUME NEW fd \in FDs, fdTable'[fd] # Closed PROVE HasOwner(fd)'
    <3>1. HasOwner(fd)
      BY <2>2, <2>4 DEF NoLeak
    <3>2. CASE \E i \in 0..(size - 1) : At(i).connfd = fd
      BY <2>1, <3>2 DEF HasOwner
    <3>3. CASE mreq.connfd = fd
      <4>1. \E i \in 0..size : i = size
        BY <2>1
      <4>2. PICK i \in 0..size : i = size
        BY <4>1
      <4>3. i \in 0..(size' - 1) /\ At(i)' = mreq
        BY <2>1, <4>2
      <4> QED BY <3>3, <4>3 DEF HasOwner
    <3>4. CASE \E w \in Workers : /\ wpc[w] \in {"handle", "mmap", "close", "stuck", "spin"}
                                  /\ list[w].connfd = fd
      BY <2>2, <2>3, <3>4 DEF HasOwner
    <3>5. CASE \E w \in Workers : wpc[w] = "mmap" /\ srcfd[w] = fd
      BY <2>2, <2>3, <3>5 DEF HasOwner
    <3> QED BY <3>1, <3>2, <3>3, <3>4, <3>5 DEF HasOwner
  <2> QED BY <2>4 DEF NoLeak
<1>4. CASE block
  BY <1>4, SameOwners DEF block, At, Slot, Holding
<1>5. CASE drop_tail
  BY <1>5, SameOwners DEF drop_tail, At, Slot, Holding
<1>6. CASE MasterRefuse
  <2>1. /\ Close([i \in {0} |-> mreq.connfd]) /\ UNCHANGED <<size, list, srcfd, wpc>>
        /\ \A i \in 0..(size - 1) : At(i)' = At(i)
    BY <1>6 DEF MasterRefuse, At, Slot
  <2>2. ASSUME NEW fd \in FDs, fdTable'[fd] # Closed PROVE HasOwner(fd)'
    <3> DEFINE fdOf == [i \in {0} |-> mreq.connfd]
    <3>1. fdTable[fd] # Closed /\ mreq.connfd # fd
      <4>1. 0 \in DOMAIN fdOf /\ fdOf[0] = mreq.connfd /\ Close(fdOf)
        BY <2>1
      <4> HIDE DEF fdOf
      <4> QED BY <2>2, <4>1, LeftOpen
    <3>2. HasOwner(fd)
      BY <3>1 DEF NoLeak
    <3> QED BY <2>1, <3>1, <3>2 DEF HasOwner
  <2> QED BY <2>2 DEF NoLeak
<1>7. CASE drop_head
  <2>1. /\ size # 0 /\ size' = size - 1 /\ UNCHANGED <<list, srcfd, wpc, mpc, mreq>>
        /\ Close([i \in {0} |-> items[head].connfd])
        /\ size \in Nat /\ At(0) = items[head]
        /\ \A i \in 0..(size' - 1) : i + 1 \in 0..(size - 1) /\ At(i)' = At(i + 1)
    BY <1>7, Popped DEF drop_head
  <2>2. ASSUME NEW fd \in FDs, fdTable'[fd] # Closed PROVE HasOwner(fd)'
    <3> DEFINE fdOf == [i \in {0} |-> items[head].connfd]
    <3>1. fdTable[fd] # Closed /\ At(0).connfd # fd
      <4>1. 0 \in DOMAIN fdOf /\ fdOf[0] = At(0).connfd /\ Close(fdOf)
        BY <2>1
      <4> HIDE DEF fdOf
      <4> QED BY <2>2, <4>1, LeftOpen
    <3>2. HasOwner(fd)
      BY <3>1 DEF NoLeak
    <3>3. CASE \E i \in 0..(size - 1) : At(i).connfd = fd
      <4>1. PICK i \in 0..(size - 1) : At(i).connfd = fd
        BY <3>3
      <4>2. i # 0
        BY <3>1, <4>1
      <4>3. i - 1 \in 0..(size' - 1) /\ (i - 1) + 1 = i
        BY <2>1, <4>2
      <4>4. At(i - 1)' = At(i)
        BY <2>1, <4>3
      <4> QED BY <4>1, <4>3, <4>4 DEF HasOwner
    <3> QED BY <2>1, <3>2, <3>3 DEF HasOwner, Holding
  <2> QED BY <2>2 DEF NoLeak
<1>8. CASE drop_random
  <2>1. PICK pick \in Picks(size) :
          /\ items' = Compacted(pick)
          /\ Close([i \in (0..(size - 1)) \ {pick[j] : j \in DOMAIN pick} |->
                     items[Slot(i)].connfd])
    BY <1>8 DEF drop_random
  <2>2. /\ UNCHANGED <<list, mreq, mpc, wpc, srcfd>> /\ size' = Limit(size)
        /\ head' = head /\ size # 0
    BY <1>8 DEF drop_random
  <2>3. /\ \A j \in 0..(size' - 1) : pick[j] \in 0..(size - 1) /\ At(j)' = At(pick[j])
        /\ DOMAIN pick = 0..(size' - 1)
    BY <2>1, <2>2, Compacts DEF Picks
  <2>4. ASSUME NEW fd \in FDs, fdTable'[fd] # Closed PROVE HasOwner(fd)'
    <3> DEFINE D == (0..(size - 1)) \ {pick[j] : j \in DOMAIN pick}
               fdOf == [i \in D |-> items[Slot(i)].connfd]
    <3>1. fdTable[fd] # Closed /\ \A i \in D : At(i).connfd # fd
      <4>1. Close(fdOf) /\ DOMAIN fdOf = D /\ \A i \in D : fdOf[i] = At(i).connfd
        BY <2>1 DEF At
      <4> HIDE DEF fdOf, D
      <4> QED BY <2>4, <4>1, LeftOpen
    <3>2. HasOwner(fd)
      BY <3>1 DEF NoLeak
    <3>3. CASE \E i \in 0..(size - 1) : At(i).connfd = fd
      <4>1. PICK i \in 0..(size - 1) : At(i).connfd = fd
        BY <3>3
      <4>2. PICK j \in DOMAIN pick : pick[j] = i
        BY <3>1, <4>1
      <4>3. j \in 0..(size' - 1) /\ At(j)' = At(i)
        BY <2>3, <4>2
      <4> QED BY <4>1, <4>3 DEF HasOwner
    <3> QED BY <2>2, <3>2, <3>3 DEF HasOwner, Holding
  <2> QED BY <2>4 DEF NoLeak
<1>9. ASSUME NEW w \in Workers, WorkerLock(w) PROVE NoLeak'
  BY <1>0, <1>9, SameOwners DEF WorkerLock, At, Slot, Holding, TypeOK
<1>10. ASSUME NEW w \in Workers, WorkerWait(w) PROVE NoLeak'
  BY <1>0, <1>10, SameOwners DEF WorkerWait, At, Slot, Holding, TypeOK
<1>11. ASSUME NEW w \in Workers, WorkerDispatch(w) PROVE NoLeak'
  <2>1. /\ size # 0 /\ size' = size - 1 /\ UNCHANGED <<srcfd, mreq, fdTable>>
        /\ size \in Nat /\ list' = [list EXCEPT ![w] = At(0)]
        /\ \A i \in 0..(size' - 1) : i + 1 \in 0..(size - 1) /\ At(i)' = At(i + 1)
    BY <1>11, Popped DEF WorkerDispatch
  <2>2. /\ wpc[w] = "locked" /\ wpc'[w] = "handle" /\ list'[w] = At(0) /\ (Holding' <=> Holding)
        /\ \A v \in Workers \ {w} : wpc'[v] = wpc[v] /\ list'[v] = list[v]
    BY <1>0, <1>11, <2>1 DEF WorkerDispatch, Signal, Holding, TypeOK
  <2>3. ASSUME NEW fd \in FDs, fdTable'[fd] # Closed PROVE HasOwner(fd)'
    <3>1. HasOwner(fd)
      BY <2>1, <2>3 DEF NoLeak
    <3>2. CASE \E i \in 0..(size - 1) : At(i).connfd = fd
      <4>1. PICK i \in 0..(size - 1) : At(i).connfd = fd
        BY <3>2
      <4>2. CASE i = 0
        BY <2>2, <4>1, <4>2 DEF HasOwner
      <4>3. CASE i # 0
        <5>1. i - 1 \in 0..(size' - 1) /\ (i - 1) + 1 = i
          BY <2>1, <4>3
        <5>2. At(i - 1)' = At(i)
          BY <2>1, <5>1
        <5> QED BY <4>1, <5>1, <5>2 DEF HasOwner
      <4> QED BY <4>2, <4>3
    <3>3. CASE Holding /\ mreq.connfd = fd
      BY <2>1, <2>2, <3>3 DEF HasOwner
    <3>4. CASE \E v \in Workers : /\ wpc[v] \in {"handle", "mmap", "close", "stuck", "spin"}
                                  /\ list[v].connfd = fd
      BY <2>2, <3>4 DEF HasOwner
    <3>5. CASE \E v \in Workers : wpc[v] = "mmap" /\ srcfd[v] = fd
      BY <2>1, <2>2, <3>5 DEF HasOwner
    <3> QED BY <3>1, <3>2, <3>3, <3>4, <3>5 DEF HasOwner
  <2> QED BY <2>3 DEF NoLeak
<1>12. ASSUME NEW w \in Workers, WorkerHandle(w) PROVE NoLeak'
  <2>1. /\ UNCHANGED <<size, list, mreq, mpc>> /\ wpc[w] = "handle"
        /\ \A i \in 0..(size - 1) : At(i)' = At(i)
    BY <1>12 DEF WorkerHandle, At, Slot
  <2>2. CASE exit' = "Open"
    BY <2>2 DEF NoLeak
  <2>3. CASE UNCHANGED <<srcfd, fdTable>> /\ wpc' = [wpc EXCEPT ![w] = "close"]
    BY <1>0, <2>1, <2>3, SameOwners DEF Holding, TypeOK
  <2>4. CASE /\ \E d \in FDs : /\ srcfd' = [srcfd EXCEPT ![w] = d]
                               /\ fdTable' = [fdTable EXCEPT ![d] = AFile]
             /\ wpc' = [wpc EXCEPT ![w] = "mmap"]
    <3>1. PICK d \in FDs : /\ srcfd' = [srcfd EXCEPT ![w] = d]
                           /\ fdTable' = [fdTable EXCEPT ![d] = AFile]
      BY <2>4
    <3>2. /\ wpc'[w] = "mmap" /\ srcfd'[w] = d
          /\ \A v \in Workers \ {w} : wpc'[v] = wpc[v] /\ srcfd'[v] = srcfd[v]
      BY <1>0, <2>4, <3>1 DEF TypeOK
    <3>3. ASSUME NEW fd \in FDs, fdTable'[fd] # Closed PROVE HasOwner(fd)'
      <4>1. CASE fd = d
        BY <3>2, <4>1 DEF HasOwner
      <4>2. CASE fd # d
        <5>1. HasOwner(fd)
          BY <1>0, <3>1, <3>3, <4>2 DEF NoLeak, TypeOK
        <5> QED BY <2>1, <3>2, <5>1 DEF HasOwner, Holding
      <4> QED BY <4>1, <4>2
    <3> QED BY <3>3 DEF NoLeak
  <2> QED BY <1>12, <2>2, <2>3, <2>4 DEF WorkerHandle
<1>13. ASSUME NEW w \in Workers, WorkerServeStatic(w) PROVE NoLeak'
  <2>1. /\ UNCHANGED <<size, list, mreq, mpc>> /\ wpc[w] = "mmap"
        /\ \A i \in 0..(size - 1) : At(i)' = At(i)
    BY <1>13 DEF WorkerServeStatic, At, Slot
  <2>2. CASE answer[w].empty
    BY <1>13, <2>2 DEF WorkerServeStatic, NoLeak
  <2>3. CASE ~answer[w].empty
    <3>1. /\ fdTable' = [fd \in FDs |-> IF fd = srcfd[w] THEN Closed ELSE fdTable[fd]]
          /\ wpc'[w] = "close"
          /\ \A v \in Workers \ {w} : wpc'[v] = wpc[v] /\ srcfd'[v] = srcfd[v]
      BY <1>0, <1>13, <2>3 DEF WorkerServeStatic, TypeOK
    <3>2. ASSUME NEW fd \in FDs, fdTable'[fd] # Closed PROVE HasOwner(fd)'
      <4>1. fdTable[fd] # Closed /\ fd # srcfd[w]
        BY <3>1, <3>2
      <4>2. HasOwner(fd)
        BY <4>1 DEF NoLeak
      <4> QED BY <2>1, <3>1, <4>1, <4>2 DEF HasOwner, Holding
    <3> QED BY <3>2 DEF NoLeak
  <2> QED BY <2>2, <2>3
<1>14. ASSUME NEW w \in Workers, WorkerStall(w) PROVE NoLeak'
  BY <1>0, <1>14, SameOwners DEF WorkerStall, At, Slot, Holding, TypeOK
<1>15. ASSUME NEW w \in Workers, WorkerHangup(w) PROVE NoLeak'
  BY <1>0, <1>15, SameOwners DEF WorkerHangup, At, Slot, Holding, TypeOK
<1>16. ASSUME NEW w \in Workers, WorkerReset(w) PROVE NoLeak'
  BY <1>16 DEF WorkerReset, NoLeak
<1>17. ASSUME NEW w \in Workers, WorkerClose(w) PROVE NoLeak'
  <2>1. /\ UNCHANGED <<size, list, mreq, mpc, srcfd>> /\ wpc[w] = "close"
        /\ \A i \in 0..(size - 1) : At(i)' = At(i)
        /\ Close([i \in {0} |-> list[w].connfd])
    BY <1>17 DEF WorkerClose, At, Slot
  <2>2. wpc'[w] = "finish" /\ \A v \in Workers \ {w} : wpc'[v] = wpc[v]
    BY <1>0, <1>17 DEF WorkerClose, TypeOK
  <2>3. ASSUME NEW fd \in FDs, fdTable'[fd] # Closed PROVE HasOwner(fd)'
    <3> DEFINE fdOf == [i \in {0} |-> list[w].connfd]
    <3>1. fdTable[fd] # Closed /\ list[w].connfd # fd
      <4>1. 0 \in DOMAIN fdOf /\ fdOf[0] = list[w].connfd /\ Close(fdOf)
        BY <2>1
      <4> HIDE DEF fdOf
      <4> QED BY <2>3, <4>1, LeftOpen
    <3>2. HasOwner(fd)
      BY <3>1 DEF NoLeak
    <3> QED BY <2>1, <2>2, <3>1, <3>2 DEF HasOwner, Holding
  <2> QED BY <2>3 DEF NoLeak
<1>18. ASSUME NEW w \in Workers, WorkerFinish(w) PROVE NoLeak'
  <2>1. /\ UNCHANGED <<size, mreq, srcfd, fdTable>> /\ (Holding' <=> Holding)
        /\ \A i \in 0..(size - 1) : At(i)' = At(i)
        /\ wpc[w] = "finish" /\ \A v \in Workers \ {w} : wpc'[v] = wpc[v] /\ list'[v] = list[v]
    BY <1>0, <1>18 DEF WorkerFinish, At, Slot, Signal, Holding, TypeOK
  <2>2. ASSUME NEW fd \in FDs, fdTable'[fd] # Closed PROVE HasOwner(fd)'
    <3>1. HasOwner(fd)
      BY <2>1, <2>2 DEF NoLeak
    <3> QED BY <2>1, <3>1 DEF HasOwner
  <2> QED BY <2>2 DEF NoLeak
<1>19. CASE MasterSpurious
  BY <1>19, SameOwners DEF MasterSpurious, At, Slot, Holding
<1>20. ASSUME NEW w \in Workers, WorkerSpurious(w) PROVE NoLeak'
  BY <1>0, <1>20, SameOwners DEF WorkerSpurious, At, Slot, Holding, TypeOK
<1> QED
  BY <1>1, <1>2, <1>3, <1>4, <1>5, <1>6, <1>7, <1>8, <1>9, <1>10, <1>11, <1>12,
     <1>13, <1>14, <1>15, <1>16, <1>17, <1>18, <1>19, <1>20
  DEF Step, MasterPolicy, WorkerServe

-----------------------------------------------------------------------------
(* As many as a function has arguments, or fewer: its values               *)
LEMMA Values ==
  ASSUME NEW S, IsFiniteSet(S), NEW f, f = [x \in S |-> f[x]]
  PROVE  IsFiniteSet({f[x] : x \in S}) /\ Cardinality({f[x] : x \in S}) <= Cardinality(S)
PROOF
<1> DEFINE T == {f[x] : x \in S}
<1>1. f \in Surjection(S, T)
  BY DEF Surjection
<1> QED BY <1>1, FS_Surjection

(* A union has at most as many elements as its parts together.             *)
LEMMA CardinalityOfUnion ==
  ASSUME NEW S, NEW T, IsFiniteSet(S), IsFiniteSet(T), NEW a \in Nat, NEW b \in Nat,
         Cardinality(S) <= a, Cardinality(T) <= b
  PROVE  IsFiniteSet(S \cup T) /\ Cardinality(S \cup T) <= a + b
PROOF
<1>1. /\ Cardinality(S) \in Nat /\ Cardinality(T) \in Nat /\ Cardinality(S \cap T) \in Nat
      /\ IsFiniteSet(S \cup T)
      /\ Cardinality(S \cup T) = Cardinality(S) + Cardinality(T) - Cardinality(S \cap T)
  BY FS_Union, FS_CardinalityType, FS_Intersection
<1> QED BY <1>1

(* The workers that have a static file open *)
Files == {w \in Workers : wpc[w] = "mmap"}

(* The descriptors in use are no more than those who have one in hand. *)
LEMMA Crowded ==
  ASSUME Structure, NoLeak, exit = "no", Free = {}, NEW h \in {0, 1}, Holding => h = 1
  PROVE  OpenMax - 4 <= size + h + list_size + Cardinality(Files)
PROOF
<1> DEFINE conn == [w \in Serving |-> list[w].connfd]
           file == [w \in Files |-> srcfd[w]]
           wait == [i \in 0..(size - 1) |-> At(i).connfd]
           Q == {wait[i] : i \in 0..(size - 1)}
           C == {conn[w] : w \in Serving}
           F == {file[w] : w \in Files}
           M == IF Holding THEN {mreq.connfd} ELSE {}
<1>1. /\ size \in Nat /\ list_size \in Nat /\ list_size = Cardinality(Serving) /\ TypeOK
      /\ IsFiniteSet(Serving) /\ Files \in SUBSET Serving
  BY ServingFinite, CapacityAssumption DEF Structure, TypeOK, CapacityBound, Files, Serving
<1>2. IsFiniteSet(Files) /\ Cardinality(Files) \in Nat
  BY <1>1, FS_Subset, FS_CardinalityType
<1>3. IsFiniteSet(Q) /\ Cardinality(Q) <= size
  <2>1. IsFiniteSet(0..(size - 1)) /\ Cardinality(0..(size - 1)) = size
    <3>1. 0 \in Int /\ size - 1 \in Int
      BY <1>1
    <3>2. /\ IsFiniteSet(0..(size - 1))
          /\ Cardinality(0..(size - 1)) = IF 0 > size - 1 THEN 0 ELSE (size - 1) - 0 + 1
      BY <3>1, FS_Interval
    <3> QED BY <1>1, <3>2
  <2>2. wait = [i \in 0..(size - 1) |-> wait[i]]
    OBVIOUS
  <2> HIDE DEF wait
  <2> QED BY <2>1, <2>2, Values
<1>4. IsFiniteSet(C) /\ Cardinality(C) <= list_size
  <2>1. conn = [w \in Serving |-> conn[w]]
    OBVIOUS
  <2> HIDE DEF conn
  <2> QED BY <1>1, <2>1, Values
<1>5. IsFiniteSet(F) /\ Cardinality(F) <= Cardinality(Files)
  <2>1. file = [w \in Files |-> file[w]]
    OBVIOUS
  <2> HIDE DEF file
  <2> QED BY <1>2, <2>1, Values
<1>6. IsFiniteSet(M) /\ Cardinality(M) <= h
  <2>1. CASE Holding
    <3>1. M = {mreq.connfd} /\ h = 1
      BY <2>1
    <3>2. IsFiniteSet({mreq.connfd}) /\ Cardinality({mreq.connfd}) = 1
      BY FS_Singleton
    <3> HIDE DEF M
    <3> QED BY <3>1, <3>2
  <2>2. CASE ~Holding
    <3>1. M = {} /\ h >= 0
      BY <2>2
    <3>2. IsFiniteSet({}) /\ Cardinality({}) = 0
      BY FS_EmptySet
    <3> HIDE DEF M
    <3> QED BY <3>1, <3>2
  <2> QED BY <2>1, <2>2
<1>7. FDs \subseteq ((Q \cup M) \cup C) \cup F
  <2> SUFFICES ASSUME NEW fd \in FDs PROVE fd \in Q \/ fd \in M \/ fd \in C \/ fd \in F
    OBVIOUS
  <2>1. HasOwner(fd)
    BY DEF Free, NoLeak
  <2> QED BY <2>1 DEF HasOwner, Serving, Files
<1>8. OpenMax - 4 <= Cardinality(FDs)
  <2>1. 4 \in Int /\ OpenMax - 1 \in Int
    BY BoundsAssumption
  <2>2. Cardinality(FDs) = IF 4 > OpenMax - 1 THEN 0 ELSE (OpenMax - 1) - 4 + 1
    BY <2>1, FS_Interval DEF FDs
  <2> QED BY <2>2, BoundsAssumption
<1> HIDE DEF Q, C, F, M
<1>9. /\ IsFiniteSet(((Q \cup M) \cup C) \cup F)
      /\ Cardinality(((Q \cup M) \cup C) \cup F) <= size + h + list_size + Cardinality(Files)
  <2>1. h \in Nat /\ size + h \in Nat /\ size + h + list_size \in Nat
    BY <1>1
  <2>2. IsFiniteSet(Q \cup M) /\ Cardinality(Q \cup M) <= size + h
    BY <1>1, <1>3, <1>6, <2>1, CardinalityOfUnion
  <2>3. IsFiniteSet((Q \cup M) \cup C) /\ Cardinality((Q \cup M) \cup C) <= size + h + list_size
    BY <1>1, <1>4, <2>1, <2>2, CardinalityOfUnion
  <2> QED BY <1>2, <1>5, <2>1, <2>3, CardinalityOfUnion
<1>10. Cardinality(FDs) <= Cardinality(((Q \cup M) \cup C) \cup F)
  BY <1>7, <1>9, FS_Subset
<1>11. /\ Cardinality(FDs) \in Nat /\ Cardinality(((Q \cup M) \cup C) \cup F) \in Nat
  <2>1. IsFiniteSet(FDs)
    BY <1>7, <1>9, FS_Subset
  <2> QED BY <1>9, <2>1, FS_CardinalityType
<1> QED BY <1>1, <1>2, <1>8, <1>9, <1>10, <1>11, BoundsAssumption

(* Only a full descriptor table makes Accept or Open fail, and then there  *)
(* are fewer descriptors than EnoughDescriptors asks for.                  *)
LEMMA EnoughStep ==
  ASSUME Structure, NoLeak, exit = "no", Step
  PROVE  EnoughDescriptors'
PROOF
<1> DEFINE servable == IF Cardinality(Workers) < Capacity THEN Cardinality(Workers) ELSE Capacity
<1>0. /\ TypeOK /\ size \in Nat /\ list_size \in Nat /\ Cardinality(Workers) \in Nat
      /\ list_size = Cardinality(Serving) /\ IsFiniteSet(Serving)
      /\ size + list_size <= Capacity /\ list_size <= Cardinality(Workers) /\ Capacity \in Nat
      /\ OpenMax \in Nat
  BY ServingFinite, CapacityAssumption, WorkersAssumption, BoundsAssumption, FS_CardinalityType
     DEF Structure, TypeOK, CapacityBound
<1>1. servable \in Nat /\ list_size <= servable
  BY <1>0
<1> SUFFICES ASSUME exit' \in {"Accept", "Open"} PROVE OpenMax - 4 < Capacity + 1 + servable
  BY <1>0, <1>1 DEF EnoughDescriptors
<1> HIDE DEF servable
<1>2. CASE MasterAccept
  <2>1. Free = {} /\ ~Holding
    BY <1>2 DEF MasterAccept, Holding
  <2>2. OpenMax - 4 <= size + 0 + list_size + Cardinality(Files)
    BY <2>1, Crowded
  <2>3. Cardinality(Files) <= list_size /\ Cardinality(Files) \in Nat
    <3>1. Files \in SUBSET Serving
      BY DEF Files, Serving
    <3> QED BY <1>0, <3>1, FS_Subset, FS_CardinalityType
  <2> QED BY <1>0, <1>1, <2>2, <2>3
<1>3. CASE \E w \in Workers : WorkerHandle(w)
  <2>1. PICK w \in Workers : WorkerHandle(w)
    BY <1>3
  <2>2. Free = {} /\ w \in Serving /\ Files \in SUBSET (Serving \ {w})
    BY <2>1 DEF WorkerHandle, Serving, Files
  <2>3. OpenMax - 4 <= size + 1 + list_size + Cardinality(Files)
    BY <2>2, Crowded
  <2>4. Cardinality(Files) <= list_size - 1 /\ Cardinality(Files) \in Nat
    <3>1. IsFiniteSet(Serving \ {w}) /\ Cardinality(Serving \ {w}) = list_size - 1
      BY <1>0, <2>2, FS_RemoveElement
    <3> QED BY <2>2, <3>1, FS_Subset, FS_CardinalityType
  <2> QED BY <1>0, <1>1, <2>3, <2>4
<1>4. CASE ~MasterAccept /\ ~\E w \in Workers : WorkerHandle(w)
  <2> USE DEF queueVars, listVars, masterVars, workerVars, kernelVars
  <2>1. exit' \in {exit, "Close", "Mmap", "Rio"}
    <3>1. ASSUME NEW fdOf, Close(fdOf) PROVE exit' \in {exit, "Close"}
      BY <3>1 DEF Close
    <3>2. CASE MasterLock \/ MasterEnqueue \/ MasterPolicy \/ MasterRefuse \/ MasterSpurious
      BY <3>1, <3>2 DEF MasterLock, MasterEnqueue, MasterPolicy, block, drop_tail, drop_head,
         drop_random, MasterRefuse, MasterSpurious
    <3>3. ASSUME NEW w \in Workers,
                 \/ WorkerLock(w) \/ WorkerWait(w) \/ WorkerDispatch(w) \/ WorkerServeStatic(w)
                 \/ WorkerStall(w) \/ WorkerHangup(w) \/ WorkerReset(w) \/ WorkerClose(w)
                 \/ WorkerFinish(w) \/ WorkerSpurious(w)
          PROVE  exit' \in {exit, "Close", "Mmap", "Rio"}
      BY <3>1, <3>3 DEF WorkerLock, WorkerWait, WorkerDispatch, WorkerServeStatic, WorkerStall,
         WorkerHangup, WorkerReset, WorkerClose, WorkerFinish, WorkerSpurious
    <3> QED BY <1>4, <3>2, <3>3 DEF Step, WorkerServe
  <2> QED BY <2>1
<1> QED BY <1>2, <1>3, <1>4

(* Both facts are kept by every step, the server's rest included.          *)
LEMMA NoLeakNext ==
  Structure /\ NoLeak /\ EnoughDescriptors /\ [Next]_vars => (NoLeak /\ EnoughDescriptors)'
PROOF
<1> SUFFICES ASSUME Structure, NoLeak, EnoughDescriptors, [Next]_vars
             PROVE  (NoLeak /\ EnoughDescriptors)'
  OBVIOUS
<1>1. CASE UNCHANGED vars
  BY <1>1 DEF vars, queueVars, listVars, masterVars, workerVars, kernelVars, NoLeak, HasOwner,
     At, Slot, Holding, EnoughDescriptors
<1> QED BY <1>1, NoLeakStep, EnoughStep DEF Next, Rest

(* With one descriptor for each request the capacity admits, one for the   *)
(* master's connection and one for each file that can be open, accept()    *)
(* and open() never run out of them and end the server.                    *)
THEOREM DescriptorsSuffice == Spec => []EnoughDescriptors
PROOF
<1>1. Init => NoLeak /\ EnoughDescriptors
  BY NoLeakInit DEF Init, EnoughDescriptors
<1> QED BY <1>1, NoLeakNext, StructureInvariant, PTL DEF Spec

(* No descriptor leaks: as long as the server runs, whatever is open in    *)
(* its table belongs to a waiting request, to the master or to a worker.   *)
THEOREM NothingLeaks == Spec => []NoLeak
PROOF
<1>1. Init => NoLeak /\ EnoughDescriptors
  BY NoLeakInit DEF Init, EnoughDescriptors
<1> QED BY <1>1, NoLeakNext, StructureInvariant, PTL DEF Spec


-----------------------------------------------------------------------------
(* Counting.  A worker stamps its counters when it takes a request, and    *)
(* the stamp is still what its counters are when the answer promises one   *)
(* more and when it counts it: nobody else writes them.                    *)

Answers == {c \in Conns : reply[c] = "answered"}

(* The workers that have answered and not yet counted the answer *)
Uncounted == {w \in Workers : wpc[w] \in {"close", "finish"}}

Promised ==
  \A w \in Workers :
    /\ wpc[w] \in {"lock", "locked", "waiting"} => counters[w] = answer[w].header
    /\ wpc[w] \in {"handle", "mmap", "close", "finish"} => stamp[w] = counters[w]
    /\ wpc[w] \in {"mmap", "close", "finish"} =>
         answer[w].header = Counted(stamp[w], answer[w].result)

Counting ==
  /\ IsFiniteSet(Tallies)
  /\ Cardinality(Answers) = Cardinality(Tallies) + Cardinality(Uncounted)
  /\ Promised

(* What the client is told its answer makes of the counters is what the    *)
(* worker makes of them afterwards.                                        *)
LEMMA HeaderIsCounted ==
  ASSUME NEW req \in HttpRequest, NEW stats
  PROVE  requestHandle(req, stats).header = Counted(stats, requestHandle(req, stats).result)
<1> DEFINE uri == requestParseURI(req)
           result == requestHandle(req, stats).result
<1>1. uri.is_static \in {0, 1}
  BY DEF requestParseURI
<1>2. result \in {ERR501, ERR404, ERR403} \/ result = uri.is_static
  BY DEF requestHandle
<1>3. requestHandle(req, stats).header =
        buf_stats(stats, IF result < 0 THEN -1 ELSE uri.is_static)
  BY DEF requestHandle
<1> HIDE DEF uri, result
<1>4. CASE result \in {ERR501, ERR404, ERR403}
  <2>1. result < 0 /\ result # STATIC /\ result # DYNAMIC
    BY <1>4 DEF ERR501, ERR404, ERR403, STATIC, DYNAMIC
  <2> QED BY <1>3, <2>1 DEF buf_stats, Counted, result
<1>5. CASE result = uri.is_static
  <2>1. ~(result < 0) /\ (result = STATIC <=> uri.is_static = 1)
        /\ (result = DYNAMIC <=> uri.is_static = 0)
    BY <1>1, <1>5 DEF STATIC, DYNAMIC
  <2> QED BY <1>3, <2>1 DEF buf_stats, Counted, result
<1> QED BY <1>2, <1>4, <1>5

(* Sets of connections and of workers are finite.                          *)
LEMMA CountsAreNumbers ==
  ASSUME TRUE
  PROVE  /\ IsFiniteSet(Answers) /\ Cardinality(Answers) \in Nat
         /\ IsFiniteSet(Uncounted) /\ Cardinality(Uncounted) \in Nat
<1>1. IsFiniteSet(Conns)
  BY FS_Interval, BoundsAssumption DEF Conns
<1>2. Answers \subseteq Conns /\ Uncounted \subseteq Workers
  BY DEF Answers, Uncounted
<1> QED BY <1>1, <1>2, WorkersAssumption, FS_Subset, FS_CardinalityType

(* Nothing is answered and nothing counted at start-up.                    *)
LEMMA CountingInit == Init => Counting
<1> SUFFICES ASSUME Init PROVE Counting
  OBVIOUS
<1>1. Answers = {} /\ Uncounted = {}
  BY DEF Init, Answers, Uncounted
<1>2. Tallies = {}
  <2>1. \A w \in Workers : counters[w].requests_count = 0
    BY DEF Init, NoCount
  <2>2. 1..0 = {}
    OBVIOUS
  <2> QED BY <2>1, <2>2 DEF Tallies
<1>3. Cardinality({}) = 0 /\ IsFiniteSet({})
  BY FS_EmptySet
<1>4. Promised
  BY DEF Init, Promised, NoResponse
<1> QED BY <1>1, <1>2, <1>3, <1>4 DEF Counting

(* Closing takes no answer back.                                           *)
LEMMA CloseKeepsAnswers ==
  ASSUME TypeOK, NEW fdOf, Close(fdOf)
  PROVE  Answers' = Answers
<1>1. \A c \in Conns : reply'[c] = "answered" <=> reply[c] = "answered"
  BY DEF Close
<1> QED BY <1>1 DEF Answers, Conns

(* A step that answers and counts nothing                                  *)
LEMMA SameCounting ==
  ASSUME Counting, Answers' = Answers, UNCHANGED <<counters, stamp, answer>>,
         \A w \in Workers :
           \/ wpc'[w] = wpc[w]
           \/ wpc[w] \in {"lock", "locked", "waiting"} /\ wpc'[w] \in {"lock", "locked", "waiting"}
           \/ wpc'[w] \in {"stuck", "spin"} /\ wpc[w] = "handle"
           \/ wpc'[w] = "finish" /\ wpc[w] = "close"
  PROVE  Counting'
<1>1. Tallies' = Tallies /\ Uncounted' = Uncounted
  BY DEF Tallies, Uncounted
<1>2. Promised'
  BY DEF Counting, Promised
<1> QED BY <1>1, <1>2 DEF Counting

(* An answer is one more that its worker has to count.                     *)
LEMMA AnswerCounting ==
  ASSUME TypeOK, Counting, NEW w \in Workers,
         list[w].arrival \in Conns, reply[list[w].arrival] = "none", AnsweredOnly(w),
         counters' = counters, stamp' = stamp,
         wpc[w] \in {"handle", "mmap"}, wpc' = [wpc EXCEPT ![w] = "close"],
         answer'[w].header = Counted(stamp[w], answer'[w].result),
         \A v \in Workers \ {w} : answer'[v] = answer[v]
  PROVE  Counting'
<1>1. Answers' = Answers \cup {list[w].arrival} /\ list[w].arrival \notin Answers
  BY DEF AnsweredOnly, Answers, Conns
<1>2. Uncounted' = Uncounted \cup {w} /\ w \notin Uncounted
  BY DEF Uncounted, TypeOK
<1>3. Cardinality(Answers') = Cardinality(Answers) + 1
  BY <1>1, CountsAreNumbers, FS_AddElement
<1>4. Cardinality(Uncounted') = Cardinality(Uncounted) + 1
  BY <1>2, CountsAreNumbers, FS_AddElement
<1>5. Tallies' = Tallies /\ Cardinality(Tallies) \in Nat
  BY FS_CardinalityType DEF Tallies, Counting
<1>6. Promised'
  BY DEF Promised, Counting, TypeOK
<1> QED BY <1>3, <1>4, <1>5, <1>6, CountsAreNumbers DEF Counting

(* The worker that finishes counts the answer it gave, and no other.       *)
LEMMA FinishCounting ==
  ASSUME TypeOK, Counting, NEW w \in Workers, WorkerFinish(w)
  PROVE  Counting'
<1>1. /\ wpc[w] = "finish" /\ wpc' = [wpc EXCEPT ![w] = "lock"]
      /\ counters' = [counters EXCEPT ![w] = Counted(counters[w], answer[w].result)]
      /\ reply' = reply /\ stamp' = stamp /\ answer' = answer
  BY DEF WorkerFinish, kernelVars
<1>2. PICK r \in Nat : r = counters[w].requests_count
  BY DEF TypeOK, thread_info
<1>3. counters'[w].requests_count = r + 1
  BY <1>1, <1>2 DEF TypeOK, Counted
<1>4. \A v \in Workers : v # w => counters'[v] = counters[v]
  BY <1>1 DEF TypeOK
<1>5. Tallies' = Tallies \cup {<<w, r + 1>>} /\ <<w, r + 1>> \notin Tallies
  <2>1. 1..(r + 1) = (1..r) \cup {r + 1} /\ r + 1 \notin 1..r
    BY <1>2
  <2>2. Tallies' = UNION {{v} \X (1..counters'[v].requests_count) : v \in Workers}
    BY DEF Tallies
  <2>3. \A v, k : <<v, k>> \in Tallies <=> v \in Workers /\ k \in 1..counters[v].requests_count
    BY DEF Tallies
  <2>4. \A v, k : <<v, k>> \in Tallies' <=> v \in Workers /\ k \in 1..counters'[v].requests_count
    BY <2>2
  <2>5. \A v, k : <<v, k>> \in Tallies' <=> <<v, k>> \in Tallies \/ (v = w /\ k = r + 1)
    BY <1>2, <1>3, <1>4, <2>1, <2>3, <2>4
  <2>6. \A t \in Tallies' : t = <<t[1], t[2]>>
    BY <2>2
  <2>7. \A t \in Tallies : t = <<t[1], t[2]>>
    BY DEF Tallies
  <2>8. \A t : t \in Tallies' <=> t \in Tallies \cup {<<w, r + 1>>}
    BY <2>5, <2>6, <2>7
  <2>9. <<w, r + 1>> \notin Tallies
    BY <1>2, <2>1, <2>3
  <2> QED BY <2>8, <2>9
<1>6. IsFiniteSet(Tallies') /\ Cardinality(Tallies') = Cardinality(Tallies) + 1
      /\ Cardinality(Tallies) \in Nat
  BY <1>5, FS_AddElement, FS_CardinalityType DEF Counting
<1>7. Uncounted' = Uncounted \ {w} /\ w \in Uncounted
  BY <1>1 DEF Uncounted, TypeOK
<1>8. Cardinality(Uncounted') = Cardinality(Uncounted) - 1
  BY <1>7, CountsAreNumbers, FS_RemoveElement
<1>9. Answers' = Answers
  BY <1>1 DEF Answers, Conns
<1>10. Promised'
  <2> SUFFICES ASSUME NEW v \in Workers
               PROVE  /\ wpc'[v] \in {"lock", "locked", "waiting"} => counters'[v] = answer'[v].header
                      /\ wpc'[v] \in {"handle", "mmap", "close", "finish"} => stamp'[v] = counters'[v]
                      /\ wpc'[v] \in {"mmap", "close", "finish"} =>
                           answer'[v].header = Counted(stamp'[v], answer'[v].result)
    BY DEF Promised, Counted
  <2>1. CASE v = w
    <3>1. wpc'[w] = "lock" /\ counters'[w] = Counted(counters[w], answer[w].result)
      BY <1>1 DEF TypeOK
    <3>2. stamp[w] = counters[w] /\ answer[w].header = Counted(stamp[w], answer[w].result)
      BY <1>1 DEF Counting, Promised
    <3> QED BY <1>1, <2>1, <3>1, <3>2
  <2>2. CASE v # w
    <3>1. wpc'[v] = wpc[v] /\ counters'[v] = counters[v] /\ stamp'[v] = stamp[v] /\ answer'[v] = answer[v]
      BY <1>1, <1>4, <2>2 DEF TypeOK
    <3> QED BY <3>1 DEF Counting, Promised
  <2> QED BY <2>1, <2>2
<1> QED BY <1>6, <1>8, <1>9, <1>10, CountsAreNumbers DEF Counting

(* One case for each action                                                *)
LEMMA CountingStep ==
  ASSUME Structure, Owned, Counting, exit = "no", Step
  PROVE  Counting'
<1> USE DEF queueVars, listVars, masterVars, workerVars, kernelVars
<1>0. TypeOK /\ ServiceOwned /\ (reply' = reply => Answers' = Answers)
      /\ \A w \in Workers : list[w] \in request_t
  BY DEF Structure, Owned, DescriptorsOwned, Answers, TypeOK, Conns
<1>1. CASE MasterAccept \/ MasterLock \/ MasterSpurious \/ block \/ drop_tail
  <2>1. UNCHANGED <<reply, wpc, counters, stamp, answer>>
    BY <1>1 DEF MasterAccept, MasterLock, MasterSpurious, block, drop_tail
  <2> QED BY <1>0, <2>1, SameCounting
<1>2. CASE MasterEnqueue
  <2>1. UNCHANGED <<reply, counters, stamp, answer>> /\ wpc' = Broadcast
    BY <1>2 DEF MasterEnqueue
  <2> QED BY <1>0, <2>1, SameCounting DEF Broadcast
<1>3. CASE MasterRefuse \/ drop_head \/ drop_random
  <2>1. UNCHANGED <<wpc, counters, stamp, answer>>
    BY <1>3 DEF MasterRefuse, drop_head, drop_random
  <2>2. Answers' = Answers
    <3>1. CASE MasterRefuse
      BY <1>0, <3>1, CloseKeepsAnswers DEF MasterRefuse
    <3>2. CASE drop_head
      BY <1>0, <3>2, CloseKeepsAnswers DEF drop_head
    <3>3. CASE drop_random
      BY <1>0, <3>3, CloseKeepsAnswers DEF drop_random
    <3> QED BY <1>3, <3>1, <3>2, <3>3
  <2> QED BY <2>1, <2>2, SameCounting
<1>4. ASSUME NEW w \in Workers, WorkerLock(w) \/ WorkerWait(w) \/ WorkerSpurious(w)
      PROVE  Counting'
  <2>1. UNCHANGED <<reply, counters, stamp, answer>>
    BY <1>4 DEF WorkerLock, WorkerWait, WorkerSpurious
  <2>2. \A v \in Workers : \/ wpc'[v] = wpc[v]
                           \/ wpc[v] \in {"lock", "locked", "waiting"}
                              /\ wpc'[v] \in {"lock", "locked", "waiting"}
    BY <1>0, <1>4 DEF WorkerLock, WorkerWait, WorkerSpurious, TypeOK
  <2> QED BY <1>0, <2>1, <2>2, SameCounting
<1>5. ASSUME NEW w \in Workers, WorkerStall(w) \/ WorkerHangup(w) \/ WorkerReset(w)
      PROVE  Counting'
  <2>1. UNCHANGED <<reply, counters, stamp, answer>>
    BY <1>5 DEF WorkerStall, WorkerHangup, WorkerReset
  <2>2. \A v \in Workers : wpc'[v] = wpc[v] \/ (wpc[v] = "handle" /\ wpc'[v] \in {"stuck", "spin"})
    BY <1>0, <1>5 DEF WorkerStall, WorkerHangup, WorkerReset, TypeOK
  <2> QED BY <1>0, <2>1, <2>2, SameCounting
<1>6. ASSUME NEW w \in Workers, WorkerClose(w)
      PROVE  Counting'
  <2>1. UNCHANGED <<counters, stamp, answer>> /\ wpc[w] = "close" /\ wpc' = [wpc EXCEPT ![w] = "finish"]
    BY <1>6 DEF WorkerClose
  <2>2. Answers' = Answers
    BY <1>0, <1>6, CloseKeepsAnswers DEF WorkerClose
  <2>3. \A v \in Workers : wpc'[v] = wpc[v] \/ (wpc'[v] = "finish" /\ wpc[v] = "close")
    BY <1>0, <2>1 DEF TypeOK
  <2> QED BY <2>1, <2>2, <2>3, SameCounting
<1>7. ASSUME NEW w \in Workers, WorkerDispatch(w)
      PROVE  Counting'
  <2>1. /\ UNCHANGED <<reply, counters, answer>> /\ wpc[w] = "locked"
        /\ wpc' = [wpc EXCEPT ![w] = "handle"] /\ stamp' = [stamp EXCEPT ![w] = counters[w]]
    BY <1>7 DEF WorkerDispatch
  <2>2. Tallies' = Tallies /\ Uncounted' = Uncounted /\ Answers' = Answers
    BY <1>0, <2>1 DEF Tallies, Uncounted, TypeOK
  <2>3. Promised'
    BY <1>0, <2>1 DEF Counting, Promised, TypeOK, Counted
  <2> QED BY <2>2, <2>3 DEF Counting
<1>8. ASSUME NEW w \in Workers, WorkerServeStatic(w)
      PROVE  Counting'
  <2>1. UNCHANGED <<counters, stamp, answer, list>> /\ wpc[w] = "mmap"
    BY <1>8 DEF WorkerServeStatic
  <2>2. CASE answer[w].empty
    BY <1>0, <1>8, <2>1, <2>2, SameCounting DEF WorkerServeStatic
  <2>3. CASE ~answer[w].empty
    <3>1. wpc' = [wpc EXCEPT ![w] = "close"] /\ reply' = Answered(list[w].connfd)
      BY <1>8, <2>3 DEF WorkerServeStatic
    <3>2. Pending(list[w])
      BY <1>0, <2>1 DEF ServiceOwned
    <3>3. list[w].arrival \in Conns /\ reply[list[w].arrival] = "none" /\ AnsweredOnly(w)
      BY <1>0, <3>1, <3>2, OwnsConnection, AnswerOne DEF Pending
    <3>4. answer'[w].header = Counted(stamp[w], answer'[w].result)
      BY <2>1 DEF Counting, Promised
    <3> QED BY <1>0, <2>1, <3>1, <3>3, <3>4, AnswerCounting
  <2> QED BY <2>2, <2>3
<1>9. ASSUME NEW w \in Workers, WorkerHandle(w)
      PROVE  Counting'
  <2>1. UNCHANGED <<counters, stamp, list>> /\ wpc[w] = "handle"
    BY <1>9 DEF WorkerHandle
  <2>2. PICK req \in Requests :
          LET handled == requestHandle(req, stamp[w])
          IN  /\ answer' = [answer EXCEPT ![w] = handled]
              /\ IF handled.result # STATIC
                 THEN /\ reply' = Answered(list[w].connfd)
                      /\ wpc' = [wpc EXCEPT ![w] = "close"]
                 ELSE \/ reply' = reply /\ wpc' = wpc
                      \/ reply' = reply /\ wpc' = [wpc EXCEPT ![w] = "mmap"]
    BY <1>9 DEF WorkerHandle
  <2>3. answer'[w] = requestHandle(req, stamp[w]) /\ \A v \in Workers \ {w} : answer'[v] = answer[v]
    BY <1>0, <2>2 DEF TypeOK
  <2>4. answer'[w].header = Counted(stamp[w], answer'[w].result)
    <3>1. PICK old : old = stamp[w]
      OBVIOUS
    <3>2. req \in HttpRequest
      BY RequestsAssumption
    <3>3. requestHandle(req, old).header = Counted(old, requestHandle(req, old).result)
      BY <3>2, HeaderIsCounted
    <3> QED BY <2>3, <3>1, <3>3
  <2>5. CASE reply' = Answered(list[w].connfd) /\ wpc' = [wpc EXCEPT ![w] = "close"]
    <3>1. Pending(list[w])
      BY <1>0, <2>1 DEF ServiceOwned
    <3>2. list[w].arrival \in Conns /\ reply[list[w].arrival] = "none" /\ AnsweredOnly(w)
      BY <1>0, <2>5, <3>1, OwnsConnection, AnswerOne DEF Pending
    <3> QED BY <1>0, <2>1, <2>3, <2>4, <2>5, <3>2, AnswerCounting
  <2>6. CASE reply' = reply /\ (wpc' = wpc \/ wpc' = [wpc EXCEPT ![w] = "mmap"])
    <3>1. Tallies' = Tallies /\ Uncounted' = Uncounted /\ Answers' = Answers
      BY <1>0, <2>1, <2>6 DEF Tallies, Uncounted, TypeOK
    <3>2. Promised'
      <4>1. Promised
        BY DEF Counting
      <4>2. /\ wpc'[w] \in {"handle", "mmap"} /\ stamp'[w] = counters'[w]
            /\ answer'[w].header = Counted(stamp'[w], answer'[w].result)
        BY <1>0, <2>1, <2>4, <2>6, <4>1 DEF Promised, TypeOK
      <4>3. \A v \in Workers : v # w =>
              wpc'[v] = wpc[v] /\ counters'[v] = counters[v] /\ stamp'[v] = stamp[v] /\ answer'[v] = answer[v]
        BY <1>0, <2>1, <2>3, <2>6 DEF TypeOK
      <4> QED BY <4>1, <4>2, <4>3 DEF Promised
    <3> QED BY <3>1, <3>2 DEF Counting
  <2> QED BY <2>2, <2>5, <2>6
<1>10. ASSUME NEW w \in Workers, WorkerFinish(w)
       PROVE  Counting'
  BY <1>0, <1>10, FinishCounting
<1> QED BY <1>1, <1>2, <1>3, <1>4, <1>5, <1>6, <1>7, <1>8, <1>9, <1>10
        DEF Step, MasterPolicy, WorkerServe

(* The invariant, also of a step that changes nothing                      *)
LEMMA CountingNext == Structure /\ Owned /\ Counting /\ [Next]_vars => Counting'
<1> SUFFICES ASSUME Structure, Owned, Counting, [Next]_vars PROVE Counting'
  OBVIOUS
<1>1. CASE UNCHANGED vars
  <2>1. Answers' = Answers /\ UNCHANGED <<wpc, counters, stamp, answer>>
    BY <1>1 DEF vars, workerVars, kernelVars, Answers
  <2> QED BY <2>1, SameCounting
<1> QED BY <1>1, CountingStep DEF Next, Rest

(* Answers given and answers counted agree, and every header tells the     *)
(* truth about the counters.                                               *)
THEOREM AnswersAreCounted == Spec => []AnswersCounted
<1>1. Counting => AnswersCounted
  BY DEF Counting, Promised, AnswersCounted, Answers, Uncounted
<1>2. Spec => []Counting
  BY CountingInit, CountingNext, StructureInvariant, OwnedInvariant, PTL DEF Spec
<1> QED BY <1>1, <1>2, PTL

-----------------------------------------------------------------------------
(* Server implements Admission                                             *)

(* A worker that has closed its connection has answered it.                *)
AnsweredBeforeFinish ==
  \A w \in Workers : wpc[w] = "finish" =>
    list[w].arrival \in Conns /\ reply[list[w].arrival] = "answered"

(* What the mapping rests on: the ring, the order, the ownership.          *)
Invariant == Structure /\ Order /\ Owned /\ AnsweredBeforeFinish

(* An answer is never taken back.                                          *)
LEMMA AnswersStay ==
  ASSUME TypeOK, exit = "no", Step, NEW c \in Conns, reply[c] = "answered"
  PROVE  reply'[c] = "answered"
PROOF
<1> USE DEF queueVars, listVars, masterVars, workerVars, kernelVars
<1>1. ASSUME NEW fdOf, Close(fdOf) PROVE reply'[c] = "answered"
  BY <1>1 DEF Close
<1>2. CASE MasterAccept \/ MasterLock \/ MasterEnqueue \/ MasterPolicy \/ MasterRefuse
           \/ MasterSpurious
  BY <1>1, <1>2 DEF MasterAccept, MasterLock, MasterEnqueue, MasterPolicy, block, drop_tail,
     drop_head, drop_random, MasterRefuse, MasterSpurious
<1>3. ASSUME NEW w \in Workers,
             \/ WorkerLock(w) \/ WorkerWait(w) \/ WorkerDispatch(w) \/ WorkerServe(w)
             \/ WorkerClose(w) \/ WorkerFinish(w) \/ WorkerSpurious(w)
      PROVE  reply'[c] = "answered"
  BY <1>1, <1>3 DEF WorkerLock, WorkerWait, WorkerDispatch, WorkerServe, WorkerHandle,
     WorkerServeStatic, WorkerStall, WorkerHangup, WorkerReset, WorkerClose, WorkerFinish,
     WorkerSpurious, Answered
<1> QED BY <1>2, <1>3 DEF Step

(* Nobody has been served yet.                                             *)
LEMMA AnsweredInit == Init => AnsweredBeforeFinish
  BY DEF Init, AnsweredBeforeFinish

(* A worker comes to "finish" from "close" only, with its answer sent.     *)
LEMMA AnsweredStep ==
  ASSUME Structure, Owned, AnsweredBeforeFinish, exit = "no", Step
  PROVE  AnsweredBeforeFinish'
PROOF
<1> USE DEF queueVars, listVars, masterVars, workerVars, kernelVars
<1>0. TypeOK
  BY DEF Structure
<1> SUFFICES ASSUME NEW w \in Workers, wpc'[w] = "finish"
             PROVE  list'[w].arrival \in Conns /\ reply'[list'[w].arrival] = "answered"
  BY DEF AnsweredBeforeFinish
<1>1. CASE wpc[w] = "finish"
  <2>1. list'[w] = list[w]
    <3>1. CASE MasterAccept \/ MasterLock \/ MasterEnqueue \/ MasterPolicy \/ MasterRefuse
               \/ MasterSpurious
      BY <3>1 DEF MasterAccept, MasterLock, MasterEnqueue, MasterPolicy, block, drop_tail,
         drop_head, drop_random, MasterRefuse, MasterSpurious
    <3>2. ASSUME NEW v \in Workers,
                 \/ WorkerLock(v) \/ WorkerWait(v) \/ WorkerServe(v)
                 \/ WorkerClose(v) \/ WorkerSpurious(v)
          PROVE  list'[w] = list[w]
      BY <3>2 DEF WorkerLock, WorkerWait, WorkerServe, WorkerHandle,
         WorkerServeStatic, WorkerStall, WorkerHangup, WorkerReset, WorkerClose, WorkerSpurious
    <3>3. ASSUME NEW v \in Workers, WorkerDispatch(v) PROVE list'[w] = list[w]
      BY <1>0, <1>1, <3>3 DEF WorkerDispatch, TypeOK
    <3>4. ASSUME NEW v \in Workers, WorkerFinish(v) PROVE list'[w] = list[w]
      BY <1>0, <1>1, <3>4 DEF WorkerFinish, TypeOK
    <3> QED BY <3>1, <3>2, <3>3, <3>4 DEF Step
  <2> QED BY <1>0, <1>1, <2>1, AnswersStay DEF AnsweredBeforeFinish
<1>2. CASE wpc[w] # "finish"
  <2>1. WorkerClose(w)
    <3>1. CASE MasterAccept \/ MasterLock \/ MasterPolicy \/ MasterRefuse \/ MasterSpurious
      BY <1>2, <3>1 DEF MasterAccept, MasterLock, MasterPolicy, block, drop_tail,
         drop_head, drop_random, MasterRefuse, MasterSpurious
    <3>2. CASE MasterEnqueue
      BY <1>2, <3>2 DEF MasterEnqueue, Broadcast
    <3>3. ASSUME NEW v \in Workers,
                 \/ WorkerLock(v) \/ WorkerWait(v) \/ WorkerDispatch(v) \/ WorkerServe(v)
                 \/ WorkerFinish(v) \/ WorkerSpurious(v)
          PROVE  FALSE
      BY <1>0, <1>2, <3>3 DEF WorkerLock, WorkerWait, WorkerDispatch, WorkerServe, WorkerHandle,
         WorkerServeStatic, WorkerStall, WorkerHangup, WorkerReset, WorkerFinish, WorkerSpurious,
         TypeOK
    <3>4. ASSUME NEW v \in Workers, WorkerClose(v) PROVE v = w
      BY <1>0, <1>2, <3>4 DEF WorkerClose, TypeOK
    <3> QED BY <3>1, <3>2, <3>3, <3>4 DEF Step
  <2>2. Owns(list[w]) /\ reply[list[w].arrival] = "answered" /\ list' = list
    BY <2>1 DEF WorkerClose, Owned, DescriptorsOwned, ServiceOwned
  <2>3. list[w].arrival \in Conns
    BY <1>0, <2>2, ArrivalTypes, OwnsConnection
  <2> QED BY <1>0, <2>2, <2>3, AnswersStay
<1> QED BY <1>1, <1>2

(* The mapping's invariant holds throughout.                               *)
LEMMA MappingInvariant == Spec => []Invariant
PROOF
<1>1. Structure /\ Owned /\ AnsweredBeforeFinish /\ [Next]_vars => AnsweredBeforeFinish'
  <2> SUFFICES ASSUME Structure, Owned, AnsweredBeforeFinish, [Next]_vars
               PROVE  AnsweredBeforeFinish'
    OBVIOUS
  <2>1. CASE UNCHANGED vars
    BY <2>1 DEF vars, queueVars, listVars, masterVars, workerVars, kernelVars,
       AnsweredBeforeFinish
  <2> QED BY <2>1, AnsweredStep DEF Next, Rest
<1>2. Spec => []Order
  BY OrderInit, OrderNext, StructureInvariant, PTL DEF Spec
<1> QED
  BY <1>1, <1>2, AnsweredInit, OwnedInvariant, StructureInvariant, PTL DEF Spec, Invariant

-----------------------------------------------------------------------------
(* The mapping, in the terms of the abstract state                         *)

(* The waiting connections are the queue, oldest first.                    *)
LEMMA Waiting ==
  ASSUME size \in Nat
  PROVE  /\ WaitingSeq = [i \in 1..size |-> At(i - 1).arrival]
         /\ Len(WaitingSeq) = size /\ DOMAIN WaitingSeq = 1..size
         /\ WaitingSeq = <<>> <=> size = 0
PROOF
<1>1. WaitingSeq = [i \in 1..size |-> At(i - 1).arrival]
  BY DEF WaitingSeq, At
<1>2. DOMAIN WaitingSeq = 1..size
  BY <1>1
<1>3. Len(WaitingSeq) = size
  BY <1>2
<1>4. size = 0 => WaitingSeq = <<>>
  BY <1>1
<1> QED BY <1>1, <1>2, <1>3, <1>4

(* No two workers serve the same connection, so there are as many of them  *)
(* in service as requests_list->size says.                                 *)
LEMMA ServiceCount ==
  ASSUME Structure, Order
  PROVE  Cardinality(InService) = list_size
PROOF
<1> DEFINE f == [w \in Serving |-> list[w].arrival]
<1>1. f \in Bijection(Serving, InService)
  <2>1. f \in Injection(Serving, InService)
    BY DEF Order, FirstComeFirstServed, InService, Injection, IsInjective
  <2>2. f \in Surjection(Serving, InService)
    BY DEF InService, Surjection
  <2> QED BY <2>1, <2>2 DEF Bijection
<1>2. IsFiniteSet(Serving)
  BY ServingFinite DEF Structure
<1>3. ExistsBijection(Serving, InService)
  BY <1>1 DEF ExistsBijection
<1>4. Cardinality(InService) = Cardinality(Serving)
  BY <1>2, <1>3, FS_Bijection
<1> QED BY <1>4 DEF Structure, CapacityBound

(* Admission's own copy of Cardinality is the same operator.               *)
LEMMA SameCardinality == \A S : Abstract!Cardinality(S) = Cardinality(S)
  BY DEF Cardinality, Abstract!Cardinality

(* Full means the same in both; the newcomer is there while the master     *)
(* holds it undecided.                                                     *)
LEMMA Decision ==
  ASSUME Invariant, exit = "no"
  PROVE  /\ Abstract!Full <=> Full
         /\ Newcomer # 0 <=> mpc \in {"lock", "check", "blocked"}
         /\ Holding => mreq.arrival \in Conns /\ reply[mreq.arrival] = "none"
PROOF
<1>1. /\ size \in Nat /\ list_size \in Nat /\ Capacity \in Nat /\ size + list_size <= Capacity
      /\ TypeOK /\ Structure /\ Order /\ mreq \in request_t
  BY CapacityAssumption, ServingFinite, FS_CardinalityType
     DEF Invariant, Structure, CapacityBound, TypeOK
<1>2. Abstract!Full <=> Full
  BY <1>1, Waiting, ServiceCount, SameCardinality DEF Abstract!Full, Full
<1>3. Holding => mreq.arrival \in Conns /\ reply[mreq.arrival] = "none"
  BY <1>1, OwnsConnection DEF Invariant, Owned, DescriptorsOwned, Pending
<1>4. mpc \in {"lock", "check", "blocked"} => mreq.arrival # 0
  BY <1>3, BoundsAssumption DEF Holding, Conns
<1> QED BY <1>2, <1>3, <1>4 DEF Newcomer

(* Who is in no thread's or queue's hands twice.                           *)
LEMMA Apart ==
  ASSUME Invariant, exit = "no", NEW w \in Serving
  PROVE  /\ list[w].arrival \in Conns
         /\ Holding => mreq.arrival # list[w].arrival
PROOF
<1>1. w \in Workers /\ TypeOK /\ list[w] \in request_t /\ list[w].arrival \in Nat
      /\ mreq.arrival \in Nat
  BY ArrivalTypes DEF Invariant, Structure, Serving
<1>2. wpc[w] # "finish" => Owns(list[w])
  BY DEF Invariant, Owned, DescriptorsOwned, ServiceOwned, Pending, Serving
<1>3. list[w].arrival \in Conns
  BY <1>1, <1>2, OwnsConnection DEF Invariant, AnsweredBeforeFinish
<1> QED BY <1>1, <1>3 DEF Invariant, Order, FirstComeFirstServed

(* The queue, the service and the fates, when a step leaves them alone.    *)
LEMMA SameWaiting ==
  ASSUME UNCHANGED <<items, head, size>>
  PROVE  WaitingSeq' = WaitingSeq
  BY DEF WaitingSeq, Slot

LEMMA SameService ==
  ASSUME Serving' = Serving, \A w \in Serving : list'[w] = list[w]
  PROVE  InService' = InService
  BY DEF InService

(* The same of the next state.                                             *)
LEMMA WaitingNow == size' \in Nat => WaitingSeq' = [i \in 1..size' |-> At(i - 1)'.arrival]
  BY DEF WaitingSeq, At

(* Closing drops the clients on the other end, if they wait for an answer. *)
LEMMA CloseDrops ==
  ASSUME TypeOK, NEW fdOf, Close(fdOf), \A i \in DOMAIN fdOf : fdOf[i] \in FDs,
         \A i \in DOMAIN fdOf : fdTable[fdOf[i]] \in Conns => reply[fdTable[fdOf[i]]] = "none"
  PROVE  reply' = [c \in Conns |-> IF \E i \in DOMAIN fdOf : fdTable[fdOf[i]] = c
                                   THEN "dropped" ELSE reply[c]]
PROOF
<1>1. ASSUME NEW c \in Conns
      PROVE  reply'[c] = IF \E i \in DOMAIN fdOf : fdTable[fdOf[i]] = c
                         THEN "dropped" ELSE reply[c]
  <2>1. reply'[c] = IF reply[c] = "none" /\ \E fd \in {fdOf[i] : i \in DOMAIN fdOf} \cap FDs :
                                              fdTable[fd] = c
                    THEN "dropped" ELSE reply[c]
    BY DEF Close
  <2>2. (\E fd \in {fdOf[i] : i \in DOMAIN fdOf} \cap FDs : fdTable[fd] = c)
          <=> \E i \in DOMAIN fdOf : fdTable[fdOf[i]] = c
    OBVIOUS
  <2> QED BY <2>1, <2>2
<1>2. reply' = [c \in Conns |-> reply'[c]]
  BY DEF Close
<1> QED BY <1>1, <1>2

-----------------------------------------------------------------------------
(* Step by step                                                            *)

(* The steps that the protocol does not see.                               *)
LEMMA Stutters ==
  ASSUME UNCHANGED <<policy, accepted, items, head, size, mreq, reply>>,
         Serving' = Serving, \A w \in Serving : list'[w] = list[w],
         mpc' = mpc \/ {mpc, mpc'} \subseteq {"lock", "check", "blocked"}
  PROVE  UNCHANGED Abstract!vars
PROOF
<1>1. WaitingSeq' = WaitingSeq /\ InService' = InService
  BY SameWaiting, SameService
<1>2. Newcomer' = Newcomer /\ Fate' = Fate
  BY DEF Newcomer, Fate
<1> QED BY <1>1, <1>2 DEF Abstract!vars

(* accept() brings a newcomer, or fails and ends the process.              *)
LEMMA AcceptArrives ==
  ASSUME Invariant, exit = "no", MasterAccept
  PROVE  Abstract!Arrive \/ UNCHANGED Abstract!vars
PROOF
<1> USE DEF queueVars, listVars, masterVars, workerVars, kernelVars
<1>1. CASE Free = {}
  BY <1>1, Stutters DEF MasterAccept, Serving
<1>2. CASE Free # {}
  <2>1. /\ mpc = "accept" /\ mpc' = "lock" /\ accepted < MaxConns
        /\ accepted' = accepted + 1 /\ mreq'.arrival = accepted + 1
        /\ UNCHANGED <<policy, items, head, size, list, wpc, reply>>
    BY <1>2 DEF MasterAccept
  <2>2. WaitingSeq' = WaitingSeq /\ InService' = InService
    BY <2>1, SameWaiting, SameService DEF Serving
  <2>3. Newcomer = 0 /\ Newcomer' = accepted + 1 /\ Fate' = Fate
    BY <2>1 DEF Newcomer, Fate
  <2> QED BY <2>1, <2>2, <2>3 DEF Abstract!Arrive
<1> QED BY <1>1, <1>2

(* The master's enqueue admits the newcomer behind everyone else.          *)
LEMMA EnqueueAdmits ==
  ASSUME Invariant, exit = "no", MasterEnqueue
  PROVE  Abstract!Admit
PROOF
<1> USE DEF queueVars, listVars, masterVars, workerVars, kernelVars
<1>0. Structure /\ TypeOK /\ size \in Nat /\ mreq.arrival \in Nat
      /\ \A i \in 0..(size - 1) : At(i).arrival \in Nat
  BY ArrivalTypes DEF Invariant, Structure
<1>1. /\ size' = size + 1
      /\ \A i \in 0..size : At(i)' = IF i = size THEN mreq ELSE At(i)
  BY <1>0, Pushed
<1>2. /\ mpc = "check" /\ mpc' = "accept" /\ ~Full
      /\ UNCHANGED <<policy, accepted, list, mreq, reply>>
  BY DEF MasterEnqueue
<1>3. Newcomer = mreq.arrival /\ Newcomer # 0 /\ ~Abstract!Full /\ Newcomer' = 0
  BY <1>2, Decision DEF Newcomer
<1>4. InService' = InService
  <2>1. Serving' = Serving
    BY DEF MasterEnqueue, Broadcast, Serving
  <2> QED BY <1>2, <2>1, SameService
<1>5. WaitingSeq' = Append(WaitingSeq, Newcomer)
  <2>1. WaitingSeq \in Seq(Nat) /\ Len(WaitingSeq) = size
        /\ \A i \in 1..size : WaitingSeq[i] = At(i - 1).arrival
    BY <1>0, Waiting
  <2>2. WaitingSeq' = [i \in 1..(size + 1) |-> At(i - 1)'.arrival]
    BY <1>0, <1>1, WaitingNow
  <2>3. ASSUME NEW i \in 1..(size + 1)
        PROVE  At(i - 1)'.arrival = IF i = size + 1 THEN mreq.arrival ELSE WaitingSeq[i]
    <3>1. i - 1 \in 0..size /\ (i - 1 = size <=> i = size + 1)
          /\ (i # size + 1 => i \in 1..size)
      BY <1>0
    <3> QED BY <1>1, <2>1, <3>1
  <2>4. Append(WaitingSeq, Newcomer) =
          [i \in 1..(size + 1) |-> IF i = size + 1 THEN Newcomer ELSE WaitingSeq[i]]
    BY <1>0, <1>3, <2>1
  <2> QED BY <1>3, <2>2, <2>3, <2>4
<1>6. Fate' = Fate
  BY <1>2 DEF Fate
<1> QED BY <1>2, <1>3, <1>4, <1>5, <1>6 DEF Abstract!Admit

(* drop_tail decides; the close that follows adds nothing.                 *)
LEMMA DropTailRefuses ==
  ASSUME Invariant, exit = "no", drop_tail
  PROVE  Abstract!Refuse
PROOF
<1> USE DEF queueVars, listVars, masterVars, workerVars, kernelVars
<1>0. size \in Nat
  BY ArrivalTypes DEF Invariant, Structure
<1>1. /\ mpc = "check" /\ mpc' = "refuse" /\ Full
      /\ policy = "dt" \/ (policy \in {"dh", "random"} /\ size = 0)
      /\ UNCHANGED <<policy, accepted, items, head, size, list, wpc, mreq, reply>>
  BY DEF drop_tail
<1>2. Newcomer = mreq.arrival /\ Newcomer # 0 /\ Abstract!Full /\ Newcomer' = 0
  BY <1>1, Decision DEF Newcomer
<1>3. WaitingSeq' = WaitingSeq /\ InService' = InService
  BY <1>1, SameWaiting, SameService DEF Serving
<1>4. Fate = reply /\ Fate' = [reply EXCEPT ![mreq.arrival] = "dropped"]
  BY <1>1 DEF Fate
<1>5. size = 0 <=> WaitingSeq = <<>>
  BY <1>0, Waiting
<1> QED BY <1>1, <1>2, <1>3, <1>4, <1>5 DEF Abstract!Refuse

(* The close after drop_tail was counted when drop_tail decided.           *)
LEMMA RefuseStutters ==
  ASSUME Invariant, exit = "no", MasterRefuse
  PROVE  UNCHANGED Abstract!vars
PROOF
<1> USE DEF queueVars, listVars, masterVars, workerVars, kernelVars
<1>1. /\ mpc = "refuse" /\ mpc' = "accept" /\ Close([i \in {0} |-> mreq.connfd])
      /\ UNCHANGED <<policy, accepted, items, head, size, list, wpc, mreq>>
  BY DEF MasterRefuse
<1>2. TypeOK /\ mreq \in request_t /\ Pending(mreq)
  BY <1>1 DEF Invariant, Structure, TypeOK, Owned, DescriptorsOwned, Holding
<1>3. /\ mreq.connfd \in FDs /\ fdTable[mreq.connfd] = mreq.arrival /\ mreq.arrival \in Conns
      /\ reply[mreq.arrival] = "none"
  BY <1>2, OwnsConnection DEF Pending
<1>4. reply' = [reply EXCEPT ![mreq.arrival] = "dropped"]
  <2> DEFINE fdOf == [i \in {0} |-> mreq.connfd]
  <2>1. Close(fdOf) /\ DOMAIN fdOf = {0} /\ fdOf[0] = mreq.connfd
    BY <1>1
  <2> HIDE DEF fdOf
  <2>2. reply' = [c \in Conns |-> IF \E i \in DOMAIN fdOf : fdTable[fdOf[i]] = c
                                  THEN "dropped" ELSE reply[c]]
    BY <1>2, <1>3, <2>1, CloseDrops
  <2>3. \A c \in Conns : (\E i \in DOMAIN fdOf : fdTable[fdOf[i]] = c) <=> c = mreq.arrival
    BY <1>3, <2>1
  <2>4. reply \in [Conns -> {"none", "answered", "dropped"}]
    BY <1>2 DEF TypeOK
  <2> QED BY <1>3, <2>2, <2>3, <2>4
<1>5. WaitingSeq' = WaitingSeq /\ InService' = InService
  BY <1>1, SameWaiting, SameService DEF Serving
<1>6. Newcomer' = Newcomer /\ Fate' = Fate
  BY <1>1, <1>4 DEF Newcomer, Fate
<1> QED BY <1>1, <1>5, <1>6 DEF Abstract!vars

(* Closing waiting connections drops them and nobody else.                 *)
LEMMA QueuedDropped ==
  ASSUME Invariant, exit = "no", NEW D \in SUBSET (0..(size - 1)),
         Close([i \in D |-> At(i).connfd])
  PROVE  reply' = [c \in Conns |-> IF \E i \in D : At(i).arrival = c THEN "dropped" ELSE reply[c]]
PROOF
<1> DEFINE fdOf == [i \in D |-> At(i).connfd]
<1>1. TypeOK /\ \A i \in D : Pending(At(i)) /\ At(i) \in request_t
  BY ArrivalTypes DEF Invariant, Structure, Owned, DescriptorsOwned
<1>2. \A i \in D : /\ At(i).connfd \in FDs /\ fdTable[At(i).connfd] = At(i).arrival
                   /\ reply[At(i).arrival] = "none"
  BY <1>1, OwnsConnection DEF Pending
<1>3. Close(fdOf) /\ DOMAIN fdOf = D /\ \A i \in D : fdOf[i] = At(i).connfd
  OBVIOUS
<1> HIDE DEF fdOf
<1>4. reply' = [c \in Conns |-> IF \E i \in DOMAIN fdOf : fdTable[fdOf[i]] = c
                                THEN "dropped" ELSE reply[c]]
  <2>1. \A i \in DOMAIN fdOf : fdOf[i] \in FDs /\ reply[fdTable[fdOf[i]]] = "none"
    BY <1>2, <1>3
  <2> QED BY <1>1, <1>3, <2>1, CloseDrops
<1>5. \A c \in Conns : (\E i \in DOMAIN fdOf : fdTable[fdOf[i]] = c)
                         <=> \E i \in D : At(i).arrival = c
  BY <1>2, <1>3
<1> QED BY <1>4, <1>5

(* The oldest leaves the queue.                                            *)
LEMMA PoppedSeq ==
  ASSUME Invariant, size # 0, head' = Succ(head), size' = size - 1, items' = items
  PROVE  /\ WaitingSeq # <<>> /\ Head(WaitingSeq) = At(0).arrival
         /\ WaitingSeq' = Tail(WaitingSeq)
PROOF
<1>1. /\ size \in Nat /\ At(0) = items[head]
      /\ \A i \in 0..(size' - 1) : i + 1 \in 0..(size - 1) /\ At(i)' = At(i + 1)
  BY Popped DEF Invariant
<1>2. /\ WaitingSeq = [i \in 1..size |-> At(i - 1).arrival] /\ Len(WaitingSeq) = size
      /\ WaitingSeq # <<>> /\ \A i \in 0..(size - 1) : At(i).arrival \in Nat
  BY <1>1, Waiting, ArrivalTypes DEF Invariant, Structure
<1>3. 1 \in 1..size /\ 1 - 1 = 0
  BY <1>1
<1>4. Head(WaitingSeq) = At(0).arrival
  <2>1. WaitingSeq[1] = At(1 - 1).arrival
    BY <1>2, <1>3
  <2> QED BY <1>3, <2>1
<1>5. WaitingSeq \in Seq(Nat)
  <2>1. ASSUME NEW i \in 1..size PROVE At(i - 1).arrival \in Nat
    <3>1. i - 1 \in 0..(size - 1)
      BY <1>1, <2>1
    <3> QED BY <1>2, <3>1
  <2> QED BY <1>1, <1>2, <2>1
<1>6. Tail(WaitingSeq) = [i \in 1..(size - 1) |-> WaitingSeq[i + 1]]
  BY <1>1, <1>2, <1>5
<1>7. WaitingSeq' = [i \in 1..(size - 1) |-> At(i - 1)'.arrival]
  BY <1>1, WaitingNow
<1>8. ASSUME NEW i \in 1..(size - 1) PROVE At(i - 1)'.arrival = WaitingSeq[i + 1]
  <2>1. i - 1 \in 0..(size' - 1) /\ (i - 1) + 1 = i /\ i + 1 \in 1..size /\ (i + 1) - 1 = i
    BY <1>1
  <2>2. At(i - 1)' = At(i)
    BY <1>1, <2>1
  <2>3. WaitingSeq[i + 1] = At((i + 1) - 1).arrival
    BY <1>2, <2>1
  <2> QED BY <2>1, <2>2, <2>3
<1> QED BY <1>2, <1>4, <1>6, <1>7, <1>8

(* drop_head drops the connection that has waited longest.                 *)
LEMMA DropHeadEvicts ==
  ASSUME Invariant, exit = "no", drop_head
  PROVE  Abstract!EvictOldest
PROOF
<1> USE DEF queueVars, listVars, masterVars, workerVars, kernelVars
<1>1. /\ mpc = "check" /\ Full /\ policy = "dh" /\ size # 0
      /\ head' = Succ(head) /\ size' = size - 1
      /\ UNCHANGED <<policy, accepted, items, mpc, mreq, list, wpc>>
      /\ Close([i \in {0} |-> items[head].connfd])
  BY DEF drop_head
<1>2. /\ WaitingSeq # <<>> /\ Head(WaitingSeq) = At(0).arrival
      /\ WaitingSeq' = Tail(WaitingSeq) /\ At(0) = items[head] /\ size \in Nat
  BY <1>1, PoppedSeq, Popped DEF Invariant
<1>3. reply' = [c \in Conns |-> IF At(0).arrival = c THEN "dropped" ELSE reply[c]]
  <2>1. Close([i \in {0} |-> At(i).connfd])
    BY <1>1, <1>2, Zenon
  <2>2. {0} \in SUBSET (0..(size - 1))
    BY <1>1, <1>2
  <2>3. reply' = [c \in Conns |-> IF \E i \in {0} : At(i).arrival = c THEN "dropped"
                                  ELSE reply[c]]
    BY <2>1, <2>2, QueuedDropped
  <2> QED BY <2>3
<1>4. Fate = reply /\ Fate' = [reply EXCEPT ![Head(WaitingSeq)] = "dropped"]
  <2>1. reply \in [Conns -> {"none", "answered", "dropped"}]
    BY DEF Invariant, Structure, TypeOK
  <2>2. reply' = [reply EXCEPT ![At(0).arrival] = "dropped"]
    BY <1>3, <2>1
  <2> QED BY <1>1, <1>2, <2>2 DEF Fate
<1>5. Newcomer # 0 /\ Abstract!Full /\ Newcomer' = Newcomer /\ InService' = InService
  BY <1>1, Decision, SameService DEF Newcomer, Serving
<1> QED BY <1>1, <1>2, <1>4, <1>5 DEF Abstract!EvictOldest

(* drop_random keeps half of the queue, in its order.                      *)
LEMMA DropRandomEvicts ==
  ASSUME Invariant, exit = "no", drop_random
  PROVE  Abstract!EvictHalf
PROOF
<1> USE DEF queueVars, listVars, masterVars, workerVars, kernelVars
<1>1. PICK pick \in Picks(size) :
        /\ Close([i \in (0..(size - 1)) \ {pick[j] : j \in DOMAIN pick} |->
                   items[Slot(i)].connfd])
        /\ items' = Compacted(pick)
  BY DEF drop_random
<1>2. /\ mpc = "check" /\ Full /\ policy = "random" /\ size # 0
      /\ size' = Limit(size) /\ head' = head
      /\ UNCHANGED <<policy, accepted, mpc, mreq, list, wpc>>
  BY DEF drop_random
<1>3. /\ size \in Nat /\ size' \in 0..(size - 1)
      /\ \A j \in 0..(size' - 1) : pick[j] \in 0..(size - 1) /\ At(j)' = At(pick[j])
  BY <1>1, <1>2, Compacts DEF Invariant
<1>n. size' \in Nat
  BY <1>3
<1>4. /\ DOMAIN pick = 0..(size' - 1) /\ size' = size \div 2
      /\ \A i, j \in DOMAIN pick : i < j => pick[i] < pick[j]
  BY <1>1, <1>2 DEF Picks, Limit
<1>p. \A j \in 1..size' : j - 1 \in 0..(size' - 1)
  <2>1. \A m \in Nat : \A j \in 1..m : j - 1 \in 0..(m - 1)
    OBVIOUS
  <2> QED BY <1>n, <2>1
<1>q. \A i, j \in 1..size' : i < j => i - 1 < j - 1
  BY <1>n
<1> DEFINE kept == [j \in 1..size' |-> pick[j - 1] + 1]
           lost == (1..size) \ {kept[j] : j \in DOMAIN kept}
           D == (0..(size - 1)) \ {pick[j] : j \in DOMAIN pick}
<1>5. /\ kept \in [1..(size \div 2) -> 1..size]
      /\ \A i, j \in DOMAIN kept : i < j => kept[i] < kept[j]
  <2>1. ASSUME NEW j \in 1..size' PROVE j - 1 \in DOMAIN pick /\ pick[j - 1] + 1 \in 1..size
    <3>1. j - 1 \in 0..(size' - 1)
      BY <1>p, <1>q, <2>1
    <3>2. pick[j - 1] \in 0..(size - 1)
      BY <1>3, <3>1
    <3> QED BY <1>3, <1>4, <3>1, <3>2
  <2>2. ASSUME NEW i \in 1..size', NEW j \in 1..size', i < j
        PROVE  pick[i - 1] + 1 < pick[j - 1] + 1
    <3>1. i - 1 < j - 1 /\ i - 1 \in 0..(size' - 1) /\ j - 1 \in 0..(size' - 1)
      BY <1>p, <1>q, <2>2
    <3>2. pick[i - 1] < pick[j - 1] /\ pick[i - 1] \in 0..(size - 1) /\ pick[j - 1] \in 0..(size - 1)
      BY <1>3, <1>4, <3>1
    <3> QED BY <3>2
  <2> QED BY <1>4, <2>1, <2>2
<1>6. WaitingSeq = [i \in 1..size |-> At(i - 1).arrival] /\ Len(WaitingSeq) = size
      /\ WaitingSeq # <<>>
  BY <1>2, <1>3, Waiting
<1>7. WaitingSeq' = [j \in DOMAIN kept |-> WaitingSeq[kept[j]]]
  <2>1. WaitingSeq' = [j \in 1..size' |-> At(j - 1)'.arrival]
    BY <1>3, WaitingNow
  <2>2. ASSUME NEW j \in 1..size' PROVE At(j - 1)'.arrival = WaitingSeq[kept[j]]
    <3>1. j - 1 \in 0..(size' - 1)
      BY <1>p, <1>q, <2>2
    <3>2. pick[j - 1] \in 0..(size - 1) /\ At(j - 1)' = At(pick[j - 1])
      BY <1>3, <3>1
    <3>3. kept[j] = pick[j - 1] + 1 /\ kept[j] \in 1..size /\ kept[j] - 1 = pick[j - 1]
      BY <1>3, <3>2
    <3>4. WaitingSeq[kept[j]] = At(kept[j] - 1).arrival
      BY <1>6, <3>3
    <3> QED BY <3>2, <3>3, <3>4
  <2> QED BY <2>1, <2>2
<1>8. Fate = reply /\ Fate' = [c \in 1..MaxConns |-> IF \E i \in lost : WaitingSeq[i] = c
                                                     THEN "dropped" ELSE reply[c]]
  <2>1. reply' = [c \in Conns |-> IF \E i \in D : At(i).arrival = c THEN "dropped" ELSE reply[c]]
    <3>1. D \in SUBSET (0..(size - 1)) /\ Close([i \in D |-> At(i).connfd])
      BY <1>1 DEF At
    <3> HIDE DEF D
    <3> QED BY <3>1, QueuedDropped
  <2>2. ASSUME NEW c PROVE (\E i \in D : At(i).arrival = c) <=> \E i \in lost : WaitingSeq[i] = c
    <3>1. ASSUME NEW i \in D PROVE i + 1 \in lost /\ WaitingSeq[i + 1] = At(i).arrival
      <4>1. i \in 0..(size - 1) /\ i + 1 \in 1..size /\ (i + 1) - 1 = i
        BY <1>3
      <4>2. ASSUME NEW j \in 1..size', kept[j] = i + 1 PROVE FALSE
        <5>1. j - 1 \in DOMAIN pick
          BY <1>3, <1>4
        <5>2. pick[j - 1] + 1 = i + 1 /\ pick[j - 1] \in 0..(size - 1)
          BY <1>3, <1>4, <4>2, <5>1
        <5>3. pick[j - 1] = i
          BY <4>1, <5>2
        <5> QED BY <3>1, <5>1, <5>3
      <4>3. WaitingSeq[i + 1] = At((i + 1) - 1).arrival
        BY <1>6, <4>1
      <4>4. i + 1 \in lost
        BY <4>1, <4>2
      <4> QED BY <4>1, <4>3, <4>4
    <3>2. ASSUME NEW i \in lost PROVE i - 1 \in D /\ WaitingSeq[i] = At(i - 1).arrival
      <4>1. i \in 1..size /\ i - 1 \in 0..(size - 1) /\ i \in Nat
        BY <1>3
      <4>2. ASSUME NEW j \in DOMAIN pick, pick[j] = i - 1 PROVE FALSE
        <5>1. j \in 0..(size' - 1) /\ j + 1 \in 1..size' /\ (j + 1) - 1 = j
          BY <1>3, <1>4
        <5>2. kept[j + 1] = pick[(j + 1) - 1] + 1
          BY <5>1
        <5>3. kept[j + 1] = i
          BY <4>1, <4>2, <5>1, <5>2
        <5> QED BY <3>2, <5>1, <5>3
      <4>3. i - 1 \in D
        BY <4>1, <4>2
      <4> QED BY <1>6, <4>1, <4>3
    <3> HIDE DEF D, lost
    <3> QED BY <3>1, <3>2
  <2>3. Fate = reply /\ Fate' = reply'
    BY <1>2 DEF Fate
  <2> HIDE DEF D, lost
  <2> QED BY <2>1, <2>2, <2>3 DEF Conns
<1>9. Newcomer # 0 /\ Abstract!Full /\ Newcomer' = Newcomer /\ InService' = InService
  BY <1>2, Decision, SameService DEF Newcomer, Serving
<1>10. \E k \in [1..(Len(WaitingSeq) \div 2) -> 1..Len(WaitingSeq)] :
         /\ \A i, j \in DOMAIN k : i < j => k[i] < k[j]
         /\ WaitingSeq' = [j \in DOMAIN k |-> WaitingSeq[k[j]]]
         /\ Fate' = [c \in 1..MaxConns |->
                      IF \E i \in (1..Len(WaitingSeq)) \ {k[j] : j \in DOMAIN k} : WaitingSeq[i] = c
                      THEN "dropped" ELSE Fate[c]]
  <2>1. Fate' = [c \in 1..MaxConns |->
                      IF \E i \in (1..Len(WaitingSeq)) \ {kept[j] : j \in DOMAIN kept} :
                           WaitingSeq[i] = c
                      THEN "dropped" ELSE Fate[c]]
    BY <1>6, <1>8
  <2>2. kept \in [1..(Len(WaitingSeq) \div 2) -> 1..Len(WaitingSeq)]
    BY <1>5, <1>6
  <2>3. \A i, j \in DOMAIN kept : i < j => kept[i] < kept[j]
    BY <1>5
  <2>4. WaitingSeq' = [j \in DOMAIN kept |-> WaitingSeq[kept[j]]]
    BY <1>7
  <2> HIDE DEF kept
  <2> QED BY <2>1, <2>2, <2>3, <2>4
<1> HIDE DEF kept, lost, D
<1> QED BY <1>2, <1>6, <1>9, <1>10 DEF Abstract!EvictHalf

(* Taking the head of the ring starts the oldest connection.               *)
LEMMA DispatchStarts ==
  ASSUME Invariant, exit = "no", NEW w \in Workers, WorkerDispatch(w)
  PROVE  Abstract!Start
PROOF
<1> USE DEF queueVars, listVars, masterVars, workerVars, kernelVars
<1>1. /\ size # 0 /\ head' = Succ(head) /\ size' = size - 1 /\ wpc[w] = "locked"
      /\ list' = [list EXCEPT ![w] = items[head]] /\ mpc' = Signal
      /\ wpc' = [wpc EXCEPT ![w] = "handle"]
      /\ UNCHANGED <<policy, accepted, items, mreq, reply>>
  BY DEF WorkerDispatch
<1>2. /\ WaitingSeq # <<>> /\ Head(WaitingSeq) = At(0).arrival
      /\ WaitingSeq' = Tail(WaitingSeq) /\ At(0) = items[head]
  BY <1>1, PoppedSeq, Popped DEF Invariant
<1>3. TypeOK /\ Serving \subseteq Workers \ {w}
  BY <1>1 DEF Invariant, Structure, Serving
<1>4. Cardinality(InService) < Cardinality(Workers)
  <2>1. Cardinality(InService) = Cardinality(Serving)
    BY ServiceCount DEF Invariant, Structure, CapacityBound
  <2>2. /\ IsFiniteSet(Workers \ {w}) /\ Cardinality(Workers \ {w}) = Cardinality(Workers) - 1
        /\ Cardinality(Workers) \in Nat
    BY WorkersAssumption, FS_RemoveElement, FS_CardinalityType
  <2>3. Cardinality(Serving) <= Cardinality(Workers \ {w}) /\ Cardinality(Serving) \in Nat
    BY <1>3, <2>2, FS_Subset, FS_CardinalityType
  <2> QED BY <2>1, <2>2, <2>3
<1>5. InService' = InService \cup {Head(WaitingSeq)}
  <2>1. Serving' = Serving \cup {w}
    BY <1>1, <1>3 DEF Serving, TypeOK
  <2>2. list'[w].arrival = At(0).arrival /\ \A v \in Serving : list'[v] = list[v]
    BY <1>1, <1>2, <1>3 DEF TypeOK
  <2> QED BY <1>2, <2>1, <2>2 DEF InService
<1>6. Newcomer' = Newcomer /\ Fate' = Fate
  BY <1>1 DEF Newcomer, Fate, Signal
<1> QED BY <1>1, <1>2, <1>4, <1>5, <1>6, SameCardinality DEF Abstract!Start

(* Answering a connection in service, whatever else is going on.           *)
LEMMA AnswerAnswers ==
  ASSUME Invariant, exit = "no", NEW w \in Workers, wpc[w] \in {"handle", "mmap"},
         reply' = Answered(list[w].connfd), wpc' = [wpc EXCEPT ![w] = "close"],
         UNCHANGED <<policy, accepted, items, head, size, list, mpc, mreq>>
  PROVE  \E c \in InService : Abstract!Answer(c)
PROOF
<1> DEFINE c == list[w].arrival
<1>1. TypeOK /\ w \in Serving /\ list[w] \in request_t /\ Pending(list[w])
  BY ArrivalTypes DEF Invariant, Structure, Owned, DescriptorsOwned, ServiceOwned, Serving
<1>2. /\ c \in Conns /\ c \in InService /\ reply[c] = "none"
      /\ Holding => mreq.arrival # c
  BY <1>1, Apart DEF InService, Pending
<1>3. AnsweredOnly(w)
  BY <1>1, AnswerOne DEF Pending
<1>4. reply' = [reply EXCEPT ![c] = "answered"]
  <2>1. reply \in [Conns -> {"none", "answered", "dropped"}] /\ reply' = [d \in Conns |-> reply'[d]]
    BY <1>1 DEF TypeOK, Answered
  <2> QED BY <1>2, <1>3, <2>1 DEF AnsweredOnly
<1>5. WaitingSeq' = WaitingSeq /\ InService' = InService /\ Newcomer' = Newcomer
  <2>1. Serving' = Serving
    BY <1>1 DEF Serving, TypeOK
  <2> QED BY <2>1, SameWaiting, SameService DEF Newcomer
<1> HIDE DEF c
<1>6. Fate[c] = "none" /\ Fate' = [Fate EXCEPT ![c] = "answered"]
  <2>1. reply \in [Conns -> {"none", "answered", "dropped"}]
    BY <1>1 DEF TypeOK
  <2>2. CASE mpc = "refuse"
    <3>1. mreq.arrival # c
      BY <1>2, <2>2 DEF Holding
    <3> QED BY <1>2, <1>4, <2>1, <2>2, <3>1 DEF Fate
  <2>3. CASE mpc # "refuse"
    BY <1>2, <1>4, <2>3 DEF Fate
  <2> QED BY <2>2, <2>3
<1>7. Abstract!Answer(c)
  BY <1>5, <1>6 DEF Abstract!Answer
<1> QED BY <1>2, <1>7

(* Handling a request answers its connection or changes no promise.        *)
LEMMA HandleAnswers ==
  ASSUME Invariant, exit = "no", NEW w \in Workers, WorkerServe(w)
  PROVE  (\E c \in InService : Abstract!Answer(c)) \/ UNCHANGED Abstract!vars
PROOF
<1> USE DEF queueVars, listVars, masterVars, workerVars, kernelVars
<1>0. TypeOK
  BY DEF Invariant, Structure
<1>1. CASE WorkerHandle(w)
  <2>1. wpc[w] = "handle" /\ UNCHANGED <<policy, accepted, items, head, size, list, mpc, mreq>>
    BY <1>1 DEF WorkerHandle
  <2>2. CASE reply' = Answered(list[w].connfd) /\ wpc' = [wpc EXCEPT ![w] = "close"]
    BY <2>1, <2>2, AnswerAnswers
  <2>3. CASE reply' = reply /\ (wpc' = wpc \/ wpc' = [wpc EXCEPT ![w] = "mmap"])
    <3>1. Serving' = Serving
      BY <1>0, <2>1, <2>3 DEF Serving, TypeOK
    <3> QED BY <2>1, <2>3, <3>1, Stutters
  <2> QED BY <1>1, <2>2, <2>3 DEF WorkerHandle
<1>2. CASE WorkerServeStatic(w)
  <2>1. wpc[w] = "mmap" /\ UNCHANGED <<policy, accepted, items, head, size, list, mpc, mreq>>
    BY <1>2 DEF WorkerServeStatic
  <2>2. CASE reply' = Answered(list[w].connfd) /\ wpc' = [wpc EXCEPT ![w] = "close"]
    BY <2>1, <2>2, AnswerAnswers
  <2>3. CASE reply' = reply /\ wpc' = wpc
    BY <2>1, <2>3, Stutters DEF Serving
  <2> QED BY <1>2, <2>2, <2>3 DEF WorkerServeStatic
<1>3. CASE WorkerStall(w) \/ WorkerHangup(w) \/ WorkerReset(w)
  <2>1. /\ UNCHANGED <<policy, accepted, items, head, size, list, mpc, mreq, reply>>
        /\ Serving' = Serving
    BY <1>0, <1>3 DEF WorkerStall, WorkerHangup, WorkerReset, Serving, TypeOK
  <2> QED BY <2>1, Stutters
<1> QED BY <1>1, <1>2, <1>3 DEF WorkerServe

(* The client behind a descriptor that is closed now has its answer.       *)
LEMMA CloseStutters ==
  ASSUME Invariant, exit = "no", NEW w \in Workers, WorkerClose(w)
  PROVE  UNCHANGED Abstract!vars
PROOF
<1> USE DEF queueVars, listVars, masterVars, workerVars, kernelVars
<1>1. /\ wpc[w] = "close" /\ Close([i \in {0} |-> list[w].connfd])
      /\ wpc' = [wpc EXCEPT ![w] = "finish"]
      /\ UNCHANGED <<policy, accepted, items, head, size, list, mpc, mreq>>
  BY DEF WorkerClose
<1>2. TypeOK /\ Owns(list[w]) /\ reply[list[w].arrival] = "answered"
  BY <1>1 DEF Invariant, Structure, Owned, DescriptorsOwned, ServiceOwned
<1>3. reply' = reply
  <2>1. \A c \in Conns : reply[c] = "none" => fdTable[list[w].connfd] # c
    BY <1>2 DEF Owns
  <2>2. \A c \in Conns : reply'[c] = reply[c]
    BY <1>1, <2>1 DEF Close
  <2>3. reply \in [Conns -> {"none", "answered", "dropped"}] /\ reply' = [c \in Conns |-> reply'[c]]
    BY <1>1, <1>2 DEF TypeOK, Close
  <2> QED BY <2>2, <2>3
<1>4. Serving' = Serving
  BY <1>1, <1>2 DEF Serving, TypeOK
<1> QED BY <1>1, <1>3, <1>4, Stutters

(* Leaving the list ends the service of an answered connection.            *)
LEMMA FinishLeaves ==
  ASSUME Invariant, exit = "no", NEW w \in Workers, WorkerFinish(w)
  PROVE  \E c \in InService : Abstract!Leave(c)
PROOF
<1> USE DEF queueVars, listVars, masterVars, workerVars, kernelVars
<1> DEFINE c == list[w].arrival
<1>1. /\ wpc[w] = "finish" /\ list' = [list EXCEPT ![w].connfd = NoFd] /\ mpc' = Signal
      /\ wpc' = [wpc EXCEPT ![w] = "lock"]
      /\ UNCHANGED <<policy, accepted, items, head, size, mreq, reply>>
  BY DEF WorkerFinish
<1>2. TypeOK /\ w \in Serving /\ Serving \subseteq Workers
  BY <1>1 DEF Invariant, Structure, Serving
<1>3. /\ c \in Conns /\ c \in InService /\ reply[c] = "answered"
      /\ Holding => mreq.arrival # c
  BY <1>1, <1>2, Apart DEF InService, Invariant, AnsweredBeforeFinish
<1>4. InService' = InService \ {c}
  <2>1. Serving' = Serving \ {w}
    BY <1>1, <1>2 DEF Serving, TypeOK
  <2>2. \A v \in Serving \ {w} : list'[v] = list[v] /\ list[v].arrival # c
    BY <1>1, <1>2 DEF Invariant, Order, FirstComeFirstServed, TypeOK
  <2> QED BY <2>1, <2>2 DEF InService
<1>5. WaitingSeq' = WaitingSeq /\ Newcomer' = Newcomer /\ Fate' = Fate
  BY <1>1, SameWaiting DEF Newcomer, Fate, Signal
<1> HIDE DEF c
<1>6. Fate[c] = "answered"
  <2>1. reply \in [Conns -> {"none", "answered", "dropped"}]
    BY <1>2 DEF TypeOK
  <2> QED BY <1>3, <2>1 DEF Fate, Holding
<1>7. Abstract!Leave(c)
  BY <1>1, <1>4, <1>5, <1>6 DEF Abstract!Leave
<1> QED BY <1>3, <1>7

(* Locking, waiting, waking up and blocking are no business of clients.    *)
LEMMA LockingStutters ==
  ASSUME TypeOK,
         \/ MasterLock \/ block \/ MasterSpurious
         \/ \E w \in Workers : WorkerLock(w) \/ WorkerWait(w) \/ WorkerSpurious(w)
  PROVE  UNCHANGED Abstract!vars
PROOF
<1> USE DEF queueVars, listVars, masterVars, workerVars, kernelVars
<1>1. CASE MasterLock \/ block \/ MasterSpurious
  BY <1>1, Stutters DEF MasterLock, block, MasterSpurious, Serving
<1>2. ASSUME NEW w \in Workers, WorkerLock(w) \/ WorkerWait(w) \/ WorkerSpurious(w)
      PROVE  UNCHANGED Abstract!vars
  <2>1. /\ UNCHANGED <<policy, accepted, items, head, size, list, mpc, mreq, reply>>
        /\ Serving' = Serving
    BY <1>2 DEF WorkerLock, WorkerWait, WorkerSpurious, Serving, TypeOK
  <2> QED BY <2>1, Stutters
<1> QED BY <1>1, <1>2

(* The server starts where the protocol starts.                            *)
LEMMA RefinedInit == Init => Abstract!Init
PROOF
<1> SUFFICES ASSUME Init PROVE Abstract!Init
  OBVIOUS
<1>1. size = 0 /\ WaitingSeq = <<>>
  BY Waiting DEF Init
<1>2. InService = {}
  BY DEF Init, InService, Serving
<1>3. Newcomer = 0 /\ Fate = reply
  BY DEF Init, Newcomer, Fate
<1> QED BY <1>1, <1>2, <1>3 DEF Init, Abstract!Init, Conns

(* Every step is a step of the protocol or none.                           *)
LEMMA RefinedNext == Invariant /\ [Next]_vars => [Abstract!Next]_(Abstract!vars)
PROOF
<1> SUFFICES ASSUME Invariant, [Next]_vars PROVE Abstract!Next \/ UNCHANGED Abstract!vars
  OBVIOUS
<1>1. CASE UNCHANGED vars
  BY <1>1, Stutters DEF vars, queueVars, listVars, masterVars, workerVars, kernelVars, Serving
<1>2. CASE exit = "no" /\ Step
  <2>0. TypeOK
    BY DEF Invariant, Structure
  <2>1. CASE MasterAccept \/ MasterEnqueue \/ MasterRefuse
    BY <1>2, <2>1, AcceptArrives, EnqueueAdmits, RefuseStutters DEF Abstract!Next
  <2>2. CASE drop_tail \/ drop_head \/ drop_random
    BY <1>2, <2>2, DropTailRefuses, DropHeadEvicts, DropRandomEvicts DEF Abstract!Next
  <2>3. ASSUME NEW w \in Workers, WorkerDispatch(w) \/ WorkerServe(w)
        PROVE  Abstract!Next \/ UNCHANGED Abstract!vars
    BY <1>2, <2>3, DispatchStarts, HandleAnswers DEF Abstract!Next
  <2>4. ASSUME NEW w \in Workers, WorkerClose(w) \/ WorkerFinish(w)
        PROVE  Abstract!Next \/ UNCHANGED Abstract!vars
    BY <1>2, <2>4, CloseStutters, FinishLeaves DEF Abstract!Next
  <2> QED BY <1>2, <2>0, <2>1, <2>2, <2>3, <2>4, LockingStutters DEF Step, MasterPolicy
<1> QED BY <1>1, <1>2 DEF Next, Rest

(* The server keeps what the admission protocol promises: capacity, order  *)
(* of arrival, one answer, and only the drops its policy allows.           *)
THEOREM ServerImplementsAdmission == Spec => ImplementsAdmission
PROOF
<1>1. Spec => Abstract!Spec
  BY RefinedInit, RefinedNext, MappingInvariant, PTL DEF Spec, Abstract!Spec
<1> QED BY <1>1 DEF ImplementsAdmission

=============================================================================

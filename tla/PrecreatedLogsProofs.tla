------------------------ MODULE PrecreatedLogsProofs ------------------------
(***************************************************************************)
(* Proofs about PrecreatedLogs: type correctness, that no wakeup is lost,  *)
(* and that each log is handed out once, in order of creation, as long as  *)
(* creation succeeds.  They hold for every number of consumers, every ring *)
(* of at least two slots and every number of requests.                     *)
(***************************************************************************)
EXTENDS PrecreatedLogs, TLAPS

\* The slot after i, without %: the form the provers can compute with.
LEMMA NextSlotValue ==
  ASSUME NEW i \in Slots
  PROVE  /\ NextSlot(i) = IF i = PRECREATED_MAX - 1 THEN 0 ELSE i + 1
         /\ NextSlot(i) \in Slots
         /\ NextSlot(i) # i
<1>1. CASE i = PRECREATED_MAX - 1
  <2>1. (i + 1) % PRECREATED_MAX = 0
    BY <1>1, PrecreatedAssumption
  <2> QED
    BY <1>1, <2>1, PrecreatedAssumption DEF NextSlot, Slots
<1>2. CASE i # PRECREATED_MAX - 1
  <2>1. i + 1 \in 0 .. PRECREATED_MAX - 1
    BY <1>2, PrecreatedAssumption DEF Slots
  <2>2. (i + 1) % PRECREATED_MAX = i + 1
    BY <2>1, PrecreatedAssumption
  <2> QED
    BY <1>2, <2>1, <2>2, PrecreatedAssumption DEF NextSlot, Slots
<1> QED
  BY <1>1, <1>2
-----------------------------------------------------------------------------
\* Every reachable state of the ring has its type: in particular both indexes
\* stay within the array whatever the producer and the consumers do.
THEOREM TypeCorrect == Spec => []TypeOK
<1>1. Init => TypeOK
  <2> SUFFICES ASSUME Init PROVE TypeOK
    OBVIOUS
  <2>1. failed \in BOOLEAN
    BY Zenon DEF Init
  <2>2. pc \in [Threads -> {"idle", "get", "check", "create", "publish"}]
    BY DEF Init
  <2>3. taken \in Seq(Nat) /\ waitSet \subseteq Threads /\ created \in Nat
    BY DEF Init
  <2>4. 0 \in Slots /\ precreated_logs \in [Slots -> Nat] /\ requests \in 0 .. MaxRequests
    BY PrecreatedAssumption DEF Init, Slots
  <2> QED
    BY <2>1, <2>2, <2>3, <2>4 DEF Init, TypeOK
<1>2. TypeOK /\ [Next]_vars => TypeOK'
  <2> SUFFICES ASSUME TypeOK, [Next]_vars
               PROVE  TypeOK'
    OBVIOUS
  <2> USE PrecreatedAssumption
  <2>0. Producer \in Threads /\ Consumers \subseteq Threads
    BY DEF Threads
  <2>1. ASSUME NEW c \in Consumers, Request(c)
        PROVE  TypeOK'
    BY <2>0, <2>1 DEF Request, TypeOK, ring
  <2>2. ASSUME NEW c \in Consumers, GetWait(c)
        PROVE  TypeOK'
    BY <2>0, <2>2 DEF GetWait, TypeOK, ring
  <2>3. ASSUME NEW c \in Consumers, GetTake(c)
        PROVE  TypeOK'
    <3>1. waitSet' \subseteq waitSet
      BY <2>3 DEF GetTake, AfterSignal
    <3>2. precreated_front' \in Slots
      BY <2>3, NextSlotValue DEF GetTake, TypeOK
    <3>3. taken' \in Seq(Nat)
      BY <2>3 DEF GetTake, TypeOK
    <3> QED
      BY <2>0, <2>3, <3>1, <3>2, <3>3 DEF GetTake, TypeOK
  <2>4. CASE ProducerWait
    BY <2>0, <2>4 DEF ProducerWait, TypeOK, ring
  <2>5. CASE ProducerProceed
    BY <2>0, <2>5 DEF ProducerProceed, TypeOK, ring
  <2>6. CASE ProducerCreate
    BY <2>0, <2>6 DEF ProducerCreate, TypeOK
  <2>7. CASE ProducerCreateFails
    BY <2>0, <2>7 DEF ProducerCreateFails, TypeOK, ring
  <2>8. CASE ProducerPublish
    <3>1. precreated_back' \in Slots
      BY <2>8, NextSlotValue DEF ProducerPublish, TypeOK
    <3> QED
      BY <2>0, <2>8, <3>1 DEF ProducerPublish, TypeOK
  <2>9. ASSUME NEW t \in Threads, SpuriousWakeup(t)
        PROVE  TypeOK'
    BY <2>9 DEF SpuriousWakeup, TypeOK, ring
  <2>10. CASE UNCHANGED vars
    BY <2>10 DEF vars, TypeOK
  <2> QED
    BY <2>1, <2>2, <2>3, <2>4, <2>5, <2>6, <2>7, <2>8, <2>9, <2>10
       DEF Next, ProducerStep
<1> QED
  BY <1>1, <1>2, PTL DEF Spec

-----------------------------------------------------------------------------
\* Only a producer that is testing its wait condition can be asleep.
ProducerSleepsAtCheck == Producer \in waitSet => pc[Producer] = "check"

WakeupInv == TypeOK /\ NoLostWakeup /\ ProducerSleepsAtCheck

\* No thread of the ring sleeps while what it waits for holds, although one
\* condition variable serves both conditions and gdpfs_log_get_precreated
\* signals a single waiter.  In a nonempty ring the producer is the only
\* thread that can be asleep, so that signal cannot go astray.
THEOREM WakeupsNotLost == Spec => []NoLostWakeup
<1>1. Init => NoLostWakeup /\ ProducerSleepsAtCheck
  BY DEF Init, NoLostWakeup, ProducerSleepsAtCheck
<1>2. WakeupInv /\ TypeOK' /\ [Next]_vars => WakeupInv'
  <2> SUFFICES ASSUME WakeupInv, TypeOK', [Next]_vars
               PROVE  NoLostWakeup' /\ ProducerSleepsAtCheck'
    BY DEF WakeupInv
  <2> USE PrecreatedAssumption DEF WakeupInv
  <2>0. Producer \in Threads /\ Consumers \subseteq Threads
    BY DEF Threads
  <2>1. ASSUME NEW c \in Consumers, Request(c)
        PROVE  NoLostWakeup' /\ ProducerSleepsAtCheck'
    BY <2>0, <2>1
       DEF Request, ring, NoLostWakeup, ProducerSleepsAtCheck, Empty, Full, TypeOK
  <2>2. ASSUME NEW c \in Consumers, GetWait(c)
        PROVE  NoLostWakeup' /\ ProducerSleepsAtCheck'
    BY <2>0, <2>2
       DEF GetWait, ring, NoLostWakeup, ProducerSleepsAtCheck, Empty, Full, TypeOK
  <2>3. ASSUME NEW c \in Consumers, GetTake(c)
        PROVE  NoLostWakeup' /\ ProducerSleepsAtCheck'
    <3>1. waitSet \subseteq {Producer}
      BY <2>3 DEF GetTake, NoLostWakeup, TypeOK, Threads
    <3>2. waitSet' = {}
      BY <2>3, <3>1 DEF GetTake, AfterSignal
    <3> QED
      BY <3>2 DEF NoLostWakeup, ProducerSleepsAtCheck
  <2>4. CASE ProducerWait
    BY <2>4
       DEF ProducerWait, ring, NoLostWakeup, ProducerSleepsAtCheck, Empty, Full
  <2>5. CASE ProducerProceed
    BY <2>0, <2>5
       DEF ProducerProceed, ring, NoLostWakeup, ProducerSleepsAtCheck, Empty, Full
  <2>6. CASE ProducerCreate
    BY <2>0, <2>6
       DEF ProducerCreate, NoLostWakeup, ProducerSleepsAtCheck, Empty, Full, TypeOK
  <2>7. CASE ProducerCreateFails
    BY <2>0, <2>7
       DEF ProducerCreateFails, ring, NoLostWakeup, ProducerSleepsAtCheck, Empty,
           Full, TypeOK
  <2>8. CASE ProducerPublish
    <3>1. Producer \notin waitSet'
      BY <2>8 DEF ProducerPublish, ProducerSleepsAtCheck
    <3>2. waitSet' \cap Consumers = {}
      BY <2>8 DEF ProducerPublish, PublishWakes, NoLostWakeup, Empty
    <3> QED
      BY <3>1, <3>2 DEF NoLostWakeup, ProducerSleepsAtCheck
  <2>9. ASSUME NEW t \in Threads, SpuriousWakeup(t)
        PROVE  NoLostWakeup' /\ ProducerSleepsAtCheck'
    BY <2>9
       DEF SpuriousWakeup, ring, NoLostWakeup, ProducerSleepsAtCheck, Empty, Full
  <2>10. CASE UNCHANGED vars
    BY <2>10 DEF vars, NoLostWakeup, ProducerSleepsAtCheck, Empty, Full
  <2> QED
    BY <2>1, <2>2, <2>3, <2>4, <2>5, <2>6, <2>7, <2>8, <2>9, <2>10
       DEF Next, ProducerStep
<1> QED
  BY <1>1, <1>2, TypeCorrect, PTL DEF Spec, WakeupInv
-----------------------------------------------------------------------------
\* Names in the ring, the slot that holds the k-th of them, and the name the
\* producer has written but not yet published.
Count ==
    IF precreated_front <= precreated_back
    THEN precreated_back - precreated_front
    ELSE precreated_back - precreated_front + PRECREATED_MAX

Offset(k) ==
    IF precreated_front + k < PRECREATED_MAX
    THEN precreated_front + k
    ELSE precreated_front + k - PRECREATED_MAX

Pending == IF pc[Producer] = "publish" THEN 1 ELSE 0

\* The logs created so far are the ones handed out, then the ones in the ring,
\* then the pending one; and a producer past its check still has a free slot.
AllAccounted == created = Len(taken) + Count + Pending
SlotStaysFree == pc[Producer] \in {"create", "publish"} => ~Full
RingHoldsNext ==
    \A k \in Nat : k < Count + Pending
        => precreated_logs[Offset(k)] = Len(taken) + k + 1

TakenInOrder == \A i \in 1 .. Len(taken) : taken[i] = i

RingInv == AllAccounted /\ SlotStaysFree /\ RingHoldsNext /\ TakenInOrder

\* Until gdp_gcl_create fails, the i-th name handed out is the i-th log
\* created, for any number of consumers and any ring size: the unlocked write
\* of a slot never touches a name that is still to be taken.
THEOREM LogsTakenInOrder == Spec => []EachLogTakenOnce
<1> USE PrecreatedAssumption
<1>1. Init => RingInv
  <2> SUFFICES ASSUME Init PROVE RingInv
    OBVIOUS
  <2>1. pc[Producer] = "check" /\ Count = 0 /\ Pending = 0 /\ Len(taken) = 0
    BY DEF Init, Threads, Count, Pending
  <2> QED
    BY <2>1 DEF Init, RingInv, AllAccounted, SlotStaysFree, RingHoldsNext,
                TakenInOrder
<1>2. TypeOK /\ TypeOK' /\ (~failed => RingInv) /\ [Next]_vars => (~failed => RingInv)'
  <2> SUFFICES ASSUME TypeOK, TypeOK', ~failed => RingInv, [Next]_vars, ~failed'
               PROVE  RingInv'
    OBVIOUS
  <2>b. ~failed
    BY DEF Next, ProducerStep, Request, GetWait, GetTake, ProducerWait, ProducerProceed,
           ProducerCreate, ProducerCreateFails, ProducerPublish, SpuriousWakeup, vars
  <2>c. RingInv
    BY <2>b
  <2> USE <2>c
  <2>0. Producer \in Threads /\ Consumers \subseteq Threads
    BY DEF Threads
  <2>a. ASSUME UNCHANGED <<ring, created, taken>>, pc'[Producer] = pc[Producer]
        PROVE  RingInv'
    BY <2>a DEF RingInv, AllAccounted, SlotStaysFree, RingHoldsNext,
                TakenInOrder, Count, Offset, Pending, Full, NextSlot, ring
  <2>1. ASSUME NEW c \in Consumers, Request(c)
        PROVE  RingInv'
    BY <2>0, <2>1, <2>a DEF Request, TypeOK
  <2>2. ASSUME NEW c \in Consumers, GetWait(c)
        PROVE  RingInv'
    BY <2>2, <2>a DEF GetWait
  <2>3. ASSUME NEW c \in Consumers, GetTake(c)
        PROVE  RingInv'
    <3>1. /\ precreated_front' = IF precreated_front = PRECREATED_MAX - 1
                                 THEN 0 ELSE precreated_front + 1
          /\ precreated_back' = precreated_back
          /\ precreated_front # precreated_back
          /\ precreated_logs' = precreated_logs
          /\ created' = created
      BY <2>3, NextSlotValue DEF GetTake, Empty, TypeOK
    <3>2. pc'[Producer] = pc[Producer]
      BY <2>0, <2>3 DEF GetTake, TypeOK
    <3>3. Count' = Count - 1 /\ Count \in Nat /\ Count > 0 /\ Pending' = Pending
          /\ Pending \in {0, 1}
      BY <3>1, <3>2 DEF Count, Pending, TypeOK, Slots
    <3>4. /\ taken' = Append(taken, precreated_logs[precreated_front])
          /\ Len(taken') = Len(taken) + 1
          /\ Len(taken) \in Nat
      BY <2>3 DEF GetTake, TypeOK
    <3>5. precreated_logs[precreated_front] = Len(taken) + 1
      <4>1. Offset(0) = precreated_front
        BY DEF Offset, TypeOK, Slots
      <4> QED
        BY <4>1, <3>3, <3>4 DEF RingInv, RingHoldsNext
    <3>6. AllAccounted'
      BY <3>1, <3>3, <3>4 DEF RingInv, AllAccounted
    <3>7. SlotStaysFree'
      <4>1. Full' => Full
        <5>1. NextSlot(precreated_back)
                = IF precreated_back = PRECREATED_MAX - 1 THEN 0 ELSE precreated_back + 1
          BY NextSlotValue DEF TypeOK
        <5>2. Full' => precreated_front' = NextSlot(precreated_back)
          BY <3>1 DEF Full, NextSlot
        <5> QED
          BY <3>1, <5>1, <5>2 DEF TypeOK, Slots
      <4> QED
        BY <3>2, <4>1 DEF RingInv, SlotStaysFree
    <3>8. RingHoldsNext'
      <4> SUFFICES ASSUME NEW k \in Nat, k < Count' + Pending'
                   PROVE  precreated_logs'[Offset(k)'] = Len(taken') + k + 1
        BY DEF RingHoldsNext
      <4>1. Offset(k)' = Offset(k + 1)
        BY <3>1, <3>3 DEF Offset, Count, TypeOK, Slots
      <4>2. precreated_logs[Offset(k + 1)] = Len(taken) + (k + 1) + 1
        BY <3>3 DEF RingInv, RingHoldsNext
      <4> QED
        BY <3>1, <3>4, <4>1, <4>2
    <3>9. TakenInOrder'
      <4> SUFFICES ASSUME NEW i \in 1 .. Len(taken') PROVE taken'[i] = i
        BY DEF TakenInOrder
      <4>1. CASE i = Len(taken) + 1
        BY <3>4, <3>5, <4>1 DEF TypeOK
      <4>2. CASE i \in 1 .. Len(taken)
        BY <3>4, <4>2 DEF RingInv, TakenInOrder, TypeOK
      <4> QED
        BY <3>4, <4>1, <4>2
    <3> QED
      BY <3>6, <3>7, <3>8, <3>9 DEF RingInv
  <2>4. CASE ProducerWait
    BY <2>4, <2>a DEF ProducerWait
  <2>5. CASE ProducerProceed
    <3>1. pc[Producer] = "check" /\ pc'[Producer] = "create" /\ ~Full
      BY <2>0, <2>5 DEF ProducerProceed, TypeOK
    <3> QED
      BY <2>5, <3>1 DEF ProducerProceed, RingInv, AllAccounted, SlotStaysFree,
         RingHoldsNext, TakenInOrder, Count, Offset, Pending, Full, NextSlot, ring
  <2>6. CASE ProducerCreate
    <3>1. /\ pc[Producer] = "create" /\ pc'[Producer] = "publish" /\ ~Full
          /\ UNCHANGED <<precreated_front, precreated_back, taken>>
          /\ created' = created + 1
          /\ precreated_logs' = [precreated_logs EXCEPT ![precreated_back] = created + 1]
      BY <2>0, <2>6 DEF ProducerCreate, TypeOK, RingInv, SlotStaysFree
    <3>2. Pending = 0 /\ Pending' = 1 /\ Count' = Count
      BY <3>1 DEF Pending, Count
    <3>3. Count \in Nat /\ Count < PRECREATED_MAX /\ Offset(Count) = precreated_back
      BY DEF Count, Offset, TypeOK, Slots
    <3>4. RingHoldsNext'
      <4> SUFFICES ASSUME NEW k \in Nat, k < Count + 1
                   PROVE  precreated_logs'[Offset(k)'] = Len(taken') + k + 1
        BY <3>2 DEF RingHoldsNext
      <4>0. Offset(k)' = Offset(k)
        BY <3>1 DEF Offset
      <4>1. CASE k = Count
        BY <3>1, <3>2, <3>3, <4>0, <4>1 DEF RingInv, AllAccounted, TypeOK
      <4>2. CASE k < Count
        <5>1. Offset(k) # precreated_back /\ Offset(k) \in Slots
          BY <4>2 DEF Offset, Count, TypeOK, Slots
        <5>2. precreated_logs[Offset(k)] = Len(taken) + k + 1
          BY <3>2, <3>3, <4>2 DEF RingInv, RingHoldsNext
        <5> QED
          BY <3>1, <4>0, <5>1, <5>2 DEF TypeOK
      <4> QED
        BY <3>3, <4>1, <4>2
    <3>5. AllAccounted' /\ SlotStaysFree' /\ TakenInOrder'
      BY <3>1, <3>2, <3>3 DEF RingInv, AllAccounted, SlotStaysFree, TakenInOrder,
                        Full, NextSlot, TypeOK
    <3> QED
      BY <3>4, <3>5 DEF RingInv
  <2>7. CASE ProducerCreateFails
    BY <2>7 DEF ProducerCreateFails
  <2>8. CASE ProducerPublish
    <3>1. /\ pc[Producer] = "publish" /\ pc'[Producer] = "check" /\ ~Full
          /\ UNCHANGED <<precreated_logs, precreated_front, created, taken>>
      BY <2>0, <2>8 DEF ProducerPublish, TypeOK, RingInv, SlotStaysFree
    <3>2. precreated_back' = IF precreated_back = PRECREATED_MAX - 1
                             THEN 0 ELSE precreated_back + 1
      BY <2>8, NextSlotValue DEF ProducerPublish, TypeOK
    <3>3. precreated_back' # precreated_front
      BY <2>8, <3>1 DEF ProducerPublish, Full
    <3>4. Count \in Nat /\ Count' = Count + 1 /\ Pending = 1 /\ Pending' = 0
      BY <3>1, <3>2, <3>3 DEF Count, Pending, TypeOK, Slots
    <3>5. Count' + Pending' = Count + Pending
      BY <3>4
    <3>6. RingHoldsNext' /\ TakenInOrder'
      BY <3>1, <3>5 DEF RingInv, RingHoldsNext, TakenInOrder, Offset
    <3>7. AllAccounted'
      BY <3>1, <3>4 DEF RingInv, AllAccounted, TypeOK
    <3>8. SlotStaysFree'
      BY <3>1 DEF SlotStaysFree
    <3> QED
      BY <3>6, <3>7, <3>8 DEF RingInv
  <2>9. ASSUME NEW t \in Threads, SpuriousWakeup(t)
        PROVE  RingInv'
    BY <2>9, <2>a DEF SpuriousWakeup
  <2>10. CASE UNCHANGED vars
    BY <2>10, <2>a DEF vars, ring
  <2> QED
    BY <2>1, <2>2, <2>3, <2>4, <2>5, <2>6, <2>7, <2>8, <2>9, <2>10
       DEF Next, ProducerStep
<1>3. (~failed => RingInv) => EachLogTakenOnce
  BY DEF RingInv, TakenInOrder, EachLogTakenOnce
<1> QED
  BY <1>1, <1>2, <1>3, TypeCorrect, PTL DEF Spec
=============================================================================

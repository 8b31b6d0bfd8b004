-------------------------- MODULE RecvThreadProofs --------------------------
(* What holds of RecvThread for every number of boards. *)
EXTENDS RecvThread, TLAPS

(* Every step of a board keeps the types, and with them the tie between    *)
(* main() and the thread it creates (main.c:88-121).                       *)
LEMMA TypeStep == TypeOK /\ [Next]_vars => TypeOK'
<1> SUFFICES ASSUME TypeOK, [Next]_vars
             PROVE  TypeOK'
  OBVIOUS
<1> USE DEF TypeOK, MainStates, ThreadStates
<1>1. CASE UNCHANGED vars
  BY <1>1 DEF vars
<1>2. ASSUME NEW n \in Nodes, InitDevice(n)
      PROVE  TypeOK'
  BY <1>2 DEF InitDevice
<1>3. ASSUME NEW n \in Nodes, CreateThread(n)
      PROVE  TypeOK'
  BY <1>3 DEF CreateThread
<1>4. ASSUME NEW n \in Nodes, PublishPid(n)
      PROVE  TypeOK'
  BY <1>4 DEF PublishPid
<1>5. ASSUME NEW n \in Nodes, NEW e \in Events, RadioEvent(n, e)
      PROVE  TypeOK'
  <2>1. status' \in [Nodes -> SUBSET Events]
    BY <1>5 DEF RadioEvent
  <2>2. irq' \in [Nodes -> BOOLEAN]
    BY <1>5 DEF RadioEvent
  <2> QED
    BY <1>5, <2>1, <2>2 DEF RadioEvent
<1>6. ASSUME NEW n \in Nodes, EventCbIsr(n)
      PROVE  TypeOK'
  BY <1>6 DEF EventCbIsr
<1>7. ASSUME NEW n \in Nodes, Isr(n)
      PROVE  TypeOK'
  BY <1>7 DEF Isr
<1>8. ASSUME NEW n \in Nodes, Discard(n)
      PROVE  TypeOK'
  BY <1>8 DEF Discard
<1>9. ASSUME NEW n \in Nodes, Handle(n)
      PROVE  TypeOK'
  BY <1>9 DEF Handle
<1>10. ASSUME NEW n \in Nodes, Return(n)
       PROVE  TypeOK'
  BY <1>10 DEF Return
<1>11. ASSUME NEW n \in Nodes, Overrun(n) \/ HardFault(n)
       PROVE  TypeOK'
  BY <1>11 DEF Overrun, HardFault
<1> QED
  BY <1>1, <1>2, <1>3, <1>4, <1>5, <1>6, <1>7, <1>8, <1>9, <1>10, <1>11
     DEF Next, Boot, Run

(* On every number of boards: there is a receiving thread exactly when     *)
(* main() has created one, and it leaves msg_receive only on a board whose *)
(* shell runs (main.c:88-121).                                             *)
THEOREM TypeCorrect == SafeSpec => []TypeOK
<1>1. Init => TypeOK
  BY DEF Init, TypeOK, MainStates, ThreadStates
<1> QED
  BY <1>1, TypeStep, PTL DEF SafeSpec

-----------------------------------------------------------------------------

(* UnservedIsAnnounced is inductive, given the types: only EventCbIsr can  *)
(* take the interrupt away, and it hands it over or says that it did not;  *)
(* only Isr ends "signalled" or forgets what was said, and it reads        *)
(* everything that is latched.                                             *)
LEMMA AnnouncedStep ==
  TypeOK /\ UnservedIsAnnounced /\ [Next]_vars => UnservedIsAnnounced'
<1> SUFFICES ASSUME TypeOK, UnservedIsAnnounced, [Next]_vars
             PROVE  UnservedIsAnnounced'
  OBVIOUS
<1> USE DEF TypeOK, UnservedIsAnnounced, Announced
<1>1. CASE UNCHANGED vars
  BY <1>1 DEF vars
<1>2. ASSUME NEW n \in Nodes, Boot(n)
      PROVE  UnservedIsAnnounced'
  BY <1>2 DEF Boot, InitDevice, CreateThread, PublishPid
<1>3. ASSUME NEW n \in Nodes, NEW e \in Events, RadioEvent(n, e)
      PROVE  UnservedIsAnnounced'
  <2>1. CASE irq' = [irq EXCEPT ![n] = TRUE]
    BY <1>3, <2>1 DEF RadioEvent
  <2>2. CASE status[n] # {} /\ UNCHANGED irq
    BY <1>3, <2>2 DEF RadioEvent
  <2> QED
    BY <1>3, <2>1, <2>2 DEF RadioEvent
<1>4. ASSUME NEW n \in Nodes, EventCbIsr(n)
      PROVE  UnservedIsAnnounced'
  BY <1>4 DEF EventCbIsr
<1>5. ASSUME NEW n \in Nodes, Isr(n)
      PROVE  UnservedIsAnnounced'
  BY <1>5 DEF Isr
<1>6. ASSUME NEW n \in Nodes,
             Discard(n) \/ Handle(n) \/ Return(n) \/ Overrun(n) \/ HardFault(n)
      PROVE  UnservedIsAnnounced'
  BY <1>6 DEF Discard, Handle, Return, Overrun, HardFault
<1> QED
  BY <1>1, <1>2, <1>3, <1>4, <1>5, <1>6 DEF Next, Run

(* No radio event is lost in silence, on every number of boards: what is   *)
(* latched has an interrupt under way, is about to be read, or has been    *)
(* reported as possibly lost (main.c:48-57, 75-81).                        *)
THEOREM NoSilentLoss == SafeSpec => []UnservedIsAnnounced
<1>1. Init => UnservedIsAnnounced
  BY DEF Init, UnservedIsAnnounced
<1> QED
  BY <1>1, TypeCorrect, AnnouncedStep, PTL DEF SafeSpec
=============================================================================

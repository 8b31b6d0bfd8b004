--------------------------- MODULE SigneccProofs ----------------------------
(* What holds of Signecc for every number of boards, every PAN and every   *)
(* amount of work. *)
EXTENDS Signecc, TLAPS

RTP == INSTANCE RecvThreadProofs
SSP ==
  INSTANCE SignServiceProofs
    WITH asked <- Asked, inflight <- InFlight, disturbed <- misread

-----------------------------------------------------------------------------
(* Down to RecvThread.                                                     *)

(* Every step of the network is a step of the boards' threads, or none.    *)
LEMMA ThreadStep == [Next]_vars => [RTP!Next]_threadVars
<1> SUFFICES ASSUME [Next]_vars
             PROVE  [RTP!Next]_threadVars
  OBVIOUS
<1> USE DEF threadVars
<1>1. CASE UNCHANGED vars
  BY <1>1 DEF vars
<1>2. ASSUME NEW n \in Nodes, Underneath(n)
      PROVE  RTP!Next
  BY <1>2 DEF Underneath, RTP!Next, RT!Boot, RTP!Boot,
       RT!InitDevice, RTP!InitDevice, RT!CreateThread, RTP!CreateThread,
       RT!PublishPid, RTP!PublishPid, RT!EventCbIsr, RTP!EventCbIsr,
       RT!HardFault, RTP!HardFault
<1>3. ASSUME NEW n \in Nodes, Shell(n)
      PROVE  UNCHANGED threadVars
  BY <1>3 DEF Shell, Load, Store, Transmit
<1>4. ASSUME NEW n \in Nodes, Radio(n)
      PROVE  RTP!Next
  <2>1. ASSUME NEW e \in {"rx", "tx"}, RT!RadioEvent(n, e)
        PROVE  RTP!Next
    BY <2>1 DEF RTP!Next, RT!RadioEvent, RTP!RadioEvent, RTP!Events
  <2> QED
    BY <1>4, <2>1 DEF Radio, Receive, TxEnd
<1>5. ASSUME NEW n \in Nodes, Run(n)
      PROVE  RTP!Next
  <2>1. RT!Isr(n) \/ RT!Discard(n) \/ RT!Overrun(n) \/ RT!Handle(n) \/ RT!Return(n)
    BY <1>5 DEF Run, Isr, Discard, Overrun, Answer, Judge, Misjudge, NotRecognized,
         Switch, Return
  <2> QED
    BY <2>1 DEF RTP!Next, RTP!Run, RT!Isr, RTP!Isr, RT!Discard, RTP!Discard,
         RT!Overrun, RTP!Overrun, RT!Handle, RTP!Handle, RT!Return, RTP!Return
<1> QED
  BY <1>1, <1>2, <1>3, <1>4, <1>5 DEF Next

(* The boards of a network boot and hand over interrupts as RecvThread     *)
(* says, so that what is proved there holds here (main.c).                 *)
THEOREM ThreadsAsSpecified == Spec => RTP!SafeSpec
<1>1. Init => RTP!Init
  BY DEF Init, RT!Init, RTP!Init
<1>2. UNCHANGED threadVars <=> UNCHANGED RTP!vars
  BY DEF threadVars, RTP!vars
<1> QED
  BY <1>1, <1>2, ThreadStep, PTL DEF Spec, RTP!SafeSpec

(* No radio event is lost in silence, in a network that sends and answers  *)
(* (main.c:48-57, 75-81).                                                  *)
THEOREM NoSilentLossInNetwork == Spec => []RTP!UnservedIsAnnounced
  BY ThreadsAsSpecified, RTP!NoSilentLoss

-----------------------------------------------------------------------------
(* Types.                                                                  *)

LEMMA IncrementedType == \A s \in SeqNos : Incremented(s) \in SeqNos
  BY BoundsAssumption DEF Incremented, SeqNos

LEMMA DstPanType ==
  \A n \in Nodes : \A pan \in Pans : DstPan(n, pan) \in Pans
  BY PansAssumption DEF DstPan

LEMMA UnreadableType == Unreadable \in Buffered
  BY PansAssumption, BoundsAssumption
     DEF Unreadable, Foreign, Buffered, Seen, Addresses, SeqNos, Bodies

LEMMA ForeignType == ForeignFrames \subseteq Buffered
<1>1. ASSUME NEW h \in HdrLens
      PROVE  Foreign(Stranger, h) \in Buffered
  BY PansAssumption, BoundsAssumption
     DEF Foreign, Buffered, Seen, Addresses, SeqNos, Bodies
<1> QED
  BY <1>1, UnreadableType DEF ForeignFrames

(* What another device's frame is.                                         *)
LEMMA ForeignFrame ==
  ASSUME NEW f \in ForeignFrames \cup {Unreadable}
  PROVE  /\ f.body = NoBody /\ f.tag = "stray" /\ f.src \notin Nodes
         /\ f.src = Nobody => f.hdr = 0
         /\ f.src # Nobody => f.src = Stranger /\ f.hdr \in HdrLens
         /\ f \in ForeignFrames => f.src \in Foreigners
  BY NamesAssumption DEF ForeignFrames, Unreadable, Foreign

LEMMA FrameIsBuffered == Frame \subseteq Buffered
  BY DEF Frame, Buffered, Seen, Bodies

(* A payload is no request and an answer at once.                          *)
LEMMA WrittenOrSigned == Written \cap Signed = {}
<1> SUFFICES ASSUME NEW w \in Written, w \in Signed
             PROVE  FALSE
  OBVIOUS
<1>1. DOMAIN w = {"text", "tail"}
  BY DEF Written
<1>2. DOMAIN w = {"good", "hash"}
  BY DEF Signed
<1> QED
  BY <1>1, <1>2

Memories == [HdrLens -> [tag: Seen, body: Bodies]]

LEMMA CopiedType ==
  ASSUME NEW m \in Memories, NEW f \in Buffered
  PROVE  Copied(m, f) \in Memories /\ Parsed(m, f) \in Buffered
<1>1. f.tag \in Seen /\ f.body \in Bodies /\ f.hdr \in HdrLens \cup {0}
  BY DEF Buffered
<1>2. \A h \in HdrLens : m[h] \in [tag: Seen, body: Bodies]
  BY DEF Memories
<1>3. ASSUME NEW h \in HdrLens
      PROVE  [m[h] EXCEPT !.tag = "stray"] \in [tag: Seen, body: Bodies]
  BY <1>2 DEF Seen
<1>4. [tag |-> f.tag, body |-> f.body] \in [tag: Seen, body: Bodies]
  BY <1>1
<1>5. Copied(m, f) \in Memories
  BY <1>2, <1>3, <1>4 DEF Copied, Memories
<1>6. CASE f.hdr = 0
  BY <1>5, <1>6 DEF Parsed
<1>7. CASE f.hdr # 0
  <2>1. m[f.hdr].tag \in Seen /\ m[f.hdr].body \in Bodies
    BY <1>1, <1>2, <1>7
  <2>2. Parsed(m, f) = [f EXCEPT !.tag = m[f.hdr].tag, !.body = m[f.hdr].body]
    BY <1>7 DEF Parsed
  <2> QED
    BY <1>5, <2>1, <2>2 DEF Buffered
<1> QED
  BY <1>6, <1>7

(* What both send() and send2() put into a frame.                          *)
LEMMA MadeFrame ==
  ASSUME NEW n \in Nodes, NEW tag, NEW d, NEW pan, NEW body,
         NEW f \in MkFrames(n, tag, d, pan, body)
  PROVE  /\ f.tag = tag /\ f.src = n /\ f.srcPan = Pan[n] /\ f.dst = d
         /\ f.dstPan = DstPan(n, pan) /\ f.seq = seq[n] /\ f.body = body
  BY DEF MkFrames

LEMMA FrameType ==
  ASSUME TypeOK, NEW n \in Nodes, NEW tag \in Tags,
         NEW d \in Addresses \cup {Stranger}, NEW pan \in Pans,
         NEW body \in Written \cup Signed
  PROVE  MkFrames(n, tag, d, pan, body) \subseteq Frame
<1>1. Pan[n] \in Pans /\ DstPan(n, pan) \in Pans /\ seq[n] \in SeqNos
  BY PansAssumption, DstPanType DEF TypeOK
<1>2. HdrLen[Pan[n]][DstPan(n, pan)] \subseteq HdrLens
  BY <1>1, HeadersAssumption
<1> QED
  BY <1>1, <1>2 DEF MkFrames, Frame

LEMMA CommandFrameType ==
  ASSUME TypeOK, NEW n \in Nodes, NEW tag \in {"request", "text"},
         NEW d \in Addresses, NEW pan \in PanArgs, NEW body \in Written
  PROVE  MkFrames(n, tag, d, pan, body) \subseteq Frame
<1>1. pan \in Pans /\ tag \in Tags
  BY PansAssumption DEF Tags
<1> QED
  BY <1>1, FrameType

LEMMA ReplyType ==
  ASSUME TypeOK, NEW n \in Nodes, NEW good \in BOOLEAN, buffer[n].src # Nobody
  PROVE  Reply(n, good) \subseteq Frame
<1>1. buffer[n].src \in Nodes \cup {Stranger} /\ buffer[n].srcPan \in Pans
  BY DEF TypeOK, Buffered
<1>2. [good |-> good, hash |-> SignedHash(buffer[n].body)] \in Signed
  BY DEF Signed, SignedHash
<1> QED
  BY <1>1, <1>2, FrameType DEF Reply, Tags, Addresses

(* The types of this module's own variables.                               *)
OwnTypeOK ==
  /\ seq     \in [Nodes -> SeqNos]
  /\ shell   \in [Nodes -> Command \cup {Idle}]
  /\ air     \subseteq Frame
  /\ rxbuf   \in [Nodes -> Frame \cup ForeignFrames \cup {NoFrame}]
  /\ behind  \in [Nodes -> Memories]
  /\ buffer  \in [Nodes -> Buffered]
  /\ txbusy  \in [Nodes -> BOOLEAN]
  /\ verdict \in [Nodes -> Verdicts]
  /\ misread \in [Nodes -> BOOLEAN]
  /\ raced   \in [Nodes -> BOOLEAN]
  /\ work    \in 0 .. MaxWork

(* How they go together with those of RecvThread.                          *)
TiesOK ==
  \A n \in Nodes :
    /\ "rx" \in status[n] <=> rxbuf[n] # NoFrame
    /\ shell[n].pc # "idle" => main[n] = "shell" /\ shell[n].frame.src = n

LEMMA TypeParts == TypeOK <=> RT!TypeOK /\ OwnTypeOK /\ TiesOK
  BY DEF TypeOK, OwnTypeOK, TiesOK, Memories

LEMMA SameThreadTypes == RT!TypeOK <=> RTP!TypeOK
  BY DEF RT!TypeOK, RTP!TypeOK, RT!MainStates, RTP!MainStates,
     RT!ThreadStates, RTP!ThreadStates, RT!Events, RTP!Events

LEMMA SendType ==
  ASSUME OwnTypeOK, NEW n \in Nodes, NEW f \in Frame, Send(n, f)
  PROVE  air' \subseteq Frame /\ txbusy' \in [Nodes -> BOOLEAN]
  BY DEF Send, OwnTypeOK

LEMMA ShellPc ==
  ASSUME OwnTypeOK, NEW n \in Nodes
  PROVE  /\ shell[n] = Idle \/ shell[n] \in Command
         /\ shell[n].pc # "idle" => shell[n] \in Command
         /\ shell[n].pc # "idle" => shell[n].frame \in Frame
  BY DEF OwnTypeOK, Idle, Command

LEMMA OwnTypeStep == TypeOK /\ [Next]_vars => OwnTypeOK'
<1> SUFFICES ASSUME TypeOK, [Next]_vars
             PROVE  OwnTypeOK'
  OBVIOUS
<1>0. OwnTypeOK
  BY TypeParts
<1> USE DEF memory, report
<1>1. CASE UNCHANGED vars
  BY <1>0, <1>1 DEF vars, OwnTypeOK
<1>2. ASSUME NEW n \in Nodes, Underneath(n) \/ Discard(n) \/ Overrun(n)
                                 \/ NotRecognized(n) \/ Return(n)
      PROVE  OwnTypeOK'
  BY <1>0, <1>2 DEF OwnTypeOK, Underneath, Discard, Overrun,
     NotRecognized, Return
<1>3. ASSUME NEW n \in Nodes, NEW tag \in {"request", "text"}, NEW d \in Addresses,
             NEW pan \in PanArgs, NEW body \in Written, Load(n, tag, d, pan, body)
      PROVE  OwnTypeOK'
  <2>1. PICK f \in MkFrames(n, tag, d, pan, body) :
          shell' = [shell EXCEPT ![n] = [pc |-> "loaded", frame |-> f]]
    BY <1>3 DEF Load
  <2>2. [pc |-> "loaded", frame |-> f] \in Command
    BY CommandFrameType DEF Command
  <2>3. work' \in 0 .. MaxWork
    BY <1>0, <1>3, BoundsAssumption DEF Load, OwnTypeOK
  <2> QED
    BY <1>0, <1>3, <2>1, <2>2, <2>3 DEF Load, OwnTypeOK
<1>4. ASSUME NEW n \in Nodes, Store(n)
      PROVE  OwnTypeOK'
  <2>1. shell[n] \in Command /\ shell[n].frame \in Frame
    BY <1>0, <1>4, ShellPc DEF Store
  <2>2. shell[n].frame.seq \in SeqNos
    BY <2>1 DEF Frame
  <2>3. Incremented(shell[n].frame.seq) \in SeqNos
    BY <2>2, IncrementedType
  <2>4. [shell[n] EXCEPT !.pc = "stored"] \in Command
    BY <2>1 DEF Command
  <2>5. shell' = [shell EXCEPT ![n] = [shell[n] EXCEPT !.pc = "stored"]]
    BY <1>0, <1>4 DEF Store, OwnTypeOK
  <2> QED
    BY <1>0, <1>4, <2>3, <2>4, <2>5 DEF Store, OwnTypeOK
<1>5. ASSUME NEW n \in Nodes, Transmit(n)
      PROVE  OwnTypeOK'
  <2>1. shell[n].frame \in Frame
    BY <1>0, <1>5, ShellPc DEF Transmit
  <2>2. air' \subseteq Frame /\ txbusy' \in [Nodes -> BOOLEAN]
    BY <1>0, <1>5, <2>1, SendType DEF Transmit
  <2> QED
    BY <1>0, <1>5, <2>2 DEF Transmit, OwnTypeOK
<1>6. ASSUME NEW n \in Nodes, NEW f \in air \cup ForeignFrames,
             Receive(n, f)
      PROVE  OwnTypeOK'
  <2>1. f \in Frame \cup ForeignFrames
    BY <1>0 DEF OwnTypeOK
  <2>2. work' \in 0 .. MaxWork
    BY <1>0, <1>6, BoundsAssumption DEF Receive, OwnTypeOK
  <2> QED
    BY <1>0, <1>6, <2>1, <2>2 DEF Receive, OwnTypeOK
<1>7. ASSUME NEW n \in Nodes, TxEnd(n)
      PROVE  OwnTypeOK'
  BY <1>0, <1>7 DEF TxEnd, OwnTypeOK
<1>8. ASSUME NEW n \in Nodes, Isr(n)
      PROVE  OwnTypeOK'
  <2>1. CASE "rx" \in status[n]
    <3>0. PICK f \in {rxbuf[n], Unreadable} : Read(n, f)
      BY <1>8, <2>1 DEF Isr
    <3>1. rxbuf[n] \in Frame \cup ForeignFrames
      BY <1>0, <2>1, TypeParts DEF TiesOK, OwnTypeOK
    <3>2. f \in Buffered
      BY <3>1, FrameIsBuffered, ForeignType, UnreadableType
    <3>3. Copied(behind[n], f) \in Memories
      BY <1>0, <3>2, CopiedType DEF OwnTypeOK
    <3>4. behind' = [behind EXCEPT ![n] = Copied(behind[n], f)]
      BY <3>0 DEF Read
    <3>5. behind' \in [Nodes -> Memories] /\ behind'[n] \in Memories
      BY <1>0, <3>3, <3>4 DEF OwnTypeOK
    <3>6. Parsed(behind'[n], f) \in Buffered
      BY <3>2, <3>5, CopiedType
    <3>7. buffer' \in [Nodes -> Buffered]
      BY <1>0, <3>0, <3>6 DEF Read, OwnTypeOK
    <3> QED
      BY <1>0, <1>8, <2>1, <3>5, <3>7 DEF Isr, OwnTypeOK
  <2>2. CASE "rx" \notin status[n]
    BY <1>0, <1>8, <2>2 DEF Isr, OwnTypeOK
  <2> QED
    BY <2>1, <2>2
<1>9. ASSUME NEW n \in Nodes, Answer(n)
      PROVE  OwnTypeOK'
  <2>0. PICK good \in BOOLEAN : \E f \in Reply(n, good) : Send(n, f)
    BY <1>9 DEF Answer
  <2>1. PICK f \in Reply(n, good) : Send(n, f)
    BY <2>0
  <2>2. air' \subseteq Frame /\ txbusy' \in [Nodes -> BOOLEAN]
    BY <1>0, <1>9, <2>1, ReplyType, SendType DEF Answer, Switch
  <2>3. Incremented(seq[n]) \in SeqNos
    BY <1>0, IncrementedType DEF OwnTypeOK
  <2>4. (raced[n] \/ shell[n].pc = "loaded") \in BOOLEAN
    OBVIOUS
  <2>5. raced' \in [Nodes -> BOOLEAN]
    BY <1>0, <1>9, <2>4 DEF Answer, OwnTypeOK
  <2> QED
    BY <1>0, <1>9, <2>2, <2>3, <2>5 DEF Answer, OwnTypeOK
<1>10. ASSUME NEW n \in Nodes, Judge(n)
       PROVE  OwnTypeOK'
  BY <1>0, <1>10 DEF Judge, OwnTypeOK, Verdicts
<1>11. ASSUME NEW n \in Nodes, Misjudge(n)
       PROVE  OwnTypeOK'
  BY <1>0, <1>11 DEF Misjudge, OwnTypeOK, Verdicts
<1> QED
  BY <1>1, <1>2, <1>3, <1>4, <1>5, <1>6, <1>7, <1>8, <1>9, <1>10,
     <1>11
     DEF Next, Shell, Radio, Run

LEMMA TiesStep == TypeOK /\ [Next]_vars => TiesOK'
<1> SUFFICES ASSUME TypeOK, [Next]_vars
             PROVE  TiesOK'
  OBVIOUS
<1>0. OwnTypeOK /\ TiesOK /\ RT!TypeOK
  BY TypeParts
<1> USE DEF TiesOK
<1>1. CASE UNCHANGED vars
  BY <1>0, <1>1 DEF vars
<1>2. ASSUME NEW n \in Nodes, Underneath(n)
      PROVE  TiesOK'
  <2>1. UNCHANGED <<shell, rxbuf, status>>
    BY <1>2 DEF Underneath, RT!Boot, RT!InitDevice, RT!CreateThread,
         RT!PublishPid, RT!EventCbIsr, RT!HardFault
  <2>2. \A m \in Nodes : main[m] = "shell" => main'[m] = "shell"
    BY <1>0, <1>2 DEF Underneath, RT!TypeOK, RT!Boot, RT!InitDevice,
         RT!CreateThread, RT!PublishPid, RT!EventCbIsr, RT!HardFault
  <2> QED
    BY <1>0, <2>1, <2>2
<1>3. ASSUME NEW n \in Nodes, NEW tag \in {"request", "text"}, NEW d \in Addresses,
             NEW pan \in PanArgs, NEW body \in Written, Load(n, tag, d, pan, body)
      PROVE  TiesOK'
  <2>1. PICK f \in MkFrames(n, tag, d, pan, body) :
          shell' = [shell EXCEPT ![n] = [pc |-> "loaded", frame |-> f]]
    BY <1>3 DEF Load
  <2>2. f.src = n
    BY MadeFrame
  <2>3. UNCHANGED <<main, status, rxbuf>> /\ main[n] = "shell"
    BY <1>3 DEF Load, ShellRuns, threadVars
  <2> QED
    BY <1>0, <2>1, <2>2, <2>3 DEF OwnTypeOK
<1>4. ASSUME NEW n \in Nodes, Store(n)
      PROVE  TiesOK'
  <2>1. shell[n] \in Command
    BY <1>0, <1>4, ShellPc DEF Store
  <2>2. shell' = [shell EXCEPT ![n] = [shell[n] EXCEPT !.pc = "stored"]]
    BY <1>0, <1>4 DEF Store, OwnTypeOK
  <2>3. [shell[n] EXCEPT !.pc = "stored"].frame.src = n
    BY <1>0, <1>4, <2>1 DEF Store, Command
  <2>4. UNCHANGED <<main, status, rxbuf>> /\ main[n] = "shell"
    BY <1>4 DEF Store, ShellRuns, threadVars
  <2> QED
    BY <1>0, <2>2, <2>3, <2>4 DEF OwnTypeOK
<1>5. ASSUME NEW n \in Nodes, Transmit(n)
      PROVE  TiesOK'
  BY <1>0, <1>5 DEF Transmit, Idle, OwnTypeOK, threadVars
<1>6. ASSUME NEW n \in Nodes, NEW f \in air \cup ForeignFrames,
             Receive(n, f)
      PROVE  TiesOK'
  <2>1. f # NoFrame
    BY <1>0, FrameAssumption DEF OwnTypeOK
  <2> QED
    BY <1>0, <1>6, <2>1 DEF Receive, RT!RadioEvent, RT!TypeOK, OwnTypeOK
<1>7. ASSUME NEW n \in Nodes, TxEnd(n)
      PROVE  TiesOK'
  BY <1>0, <1>7 DEF TxEnd, RT!RadioEvent, RT!TypeOK, OwnTypeOK
<1>8. ASSUME NEW n \in Nodes, Isr(n)
      PROVE  TiesOK'
  BY <1>0, <1>8 DEF Isr, RT!Isr, RT!TypeOK, OwnTypeOK
<1>9. ASSUME NEW n \in Nodes,
             Discard(n) \/ Overrun(n) \/ Answer(n) \/ Judge(n) \/ Misjudge(n)
               \/ NotRecognized(n) \/ Return(n)
      PROVE  TiesOK'
  BY <1>0, <1>9 DEF Discard, Overrun, Answer, Judge, Misjudge, NotRecognized, Return,
       Switch, RT!Discard, RT!Overrun, RT!Handle, RT!Return
<1> QED
  BY <1>1, <1>2, <1>3, <1>4, <1>5, <1>6, <1>7, <1>8, <1>9
     DEF Next, Shell, Radio, Run

LEMMA TypeStep == TypeOK /\ [Next]_vars => TypeOK'
<1> SUFFICES ASSUME TypeOK, [Next]_vars
             PROVE  TypeOK'
  OBVIOUS
<1>1. RTP!TypeOK'
  <2>1. RTP!TypeOK /\ [RTP!Next]_RTP!vars
    BY ThreadStep, SameThreadTypes, TypeParts DEF threadVars, RTP!vars
  <2> QED
    BY <2>1, RTP!TypeStep
<1>2. RT!TypeOK'
  BY <1>1 DEF RT!TypeOK, RTP!TypeOK, RT!MainStates, RTP!MainStates,
     RT!ThreadStates, RTP!ThreadStates, RT!Events, RTP!Events
<1>3. OwnTypeOK' /\ TiesOK'
  BY OwnTypeStep, TiesStep
<1> QED
  BY <1>2, <1>3 DEF TypeOK, OwnTypeOK, TiesOK, Memories

LEMMA TypeInit == Init => TypeOK
<1> SUFFICES ASSUME Init
             PROVE  TypeOK
  OBVIOUS
<1>1. RT!TypeOK
  BY DEF Init, RT!Init, RT!TypeOK, RT!MainStates, RT!ThreadStates, RT!Events
<1>2. OwnTypeOK
  BY UnreadableType, BoundsAssumption
     DEF Init, OwnTypeOK, SeqNos, Verdicts, Memories, Seen, Tags, Bodies
<1>3. TiesOK
  BY DEF Init, RT!Init, TiesOK, Idle
<1> QED
  BY <1>1, <1>2, <1>3, TypeParts

(* On every number of boards: a board reports a reception exactly when a   *)
(* frame is in its radio, and a command runs only on a board that has      *)
(* booted and sends in its name (main.c:88-121, cmd.c:291-349).            *)
THEOREM TypeCorrect == Spec => []TypeOK
  BY TypeInit, TypeStep, PTL DEF Spec

-----------------------------------------------------------------------------
(* The inductive invariant: where a frame in memory comes from.  What a    *)
(* board answers or judges was sent by a board, unless its header is that  *)
(* of another device; then what lies behind it may be a whole payload that *)
(* was sent before, or stray bytes.                                        *)

AirOK ==
  \A f \in air :
    /\ f.srcPan = Pan[f.src]
    /\ f.tag = "answer" => f.dst \in Nodes \cup {Stranger}
    /\ f.tag # "answer" => f.dst \in Addresses
    /\ f.body \in Signed => f.tag = "answer"

ShellOK ==
  \A n \in Nodes :
    shell[n].pc # "idle" =>
      /\ shell[n].frame.srcPan = Pan[n]
      /\ shell[n].frame.tag # "answer"
      /\ shell[n].frame.dst \in Addresses
      /\ shell[n].frame.body \notin Signed

RadioOK ==
  \A n \in Nodes :
    rxbuf[n] # NoFrame /\ rxbuf[n].src \in Nodes =>
      rxbuf[n] \in air /\ Hears(n, rxbuf[n])

BufferOK ==
  \A n \in Nodes :
    thread[n] = "handling" /\ buffer[n].src \in Nodes =>
      buffer[n] \in air /\ Hears(n, buffer[n])

Judgement(n) == IF buffer[n].body.good THEN "ok" ELSE "failed"

Answered(n, body) == \E f \in air : f.tag = "answer" /\ f.dst = n /\ f.body = body

BehindOK ==
  \A n \in Nodes : \A h \in HdrLens :
    behind[n][h].body \in Signed => Answered(n, behind[n][h].body)

ParsedOK ==
  \A n \in Nodes :
    /\ buffer[n].body \in Signed => Answered(n, buffer[n].body)
    /\ buffer[n].src = Nobody => buffer[n].tag = "stray"
    /\ buffer[n].tag = "stray" /\ buffer[n].src # Nobody =>
         buffer[n].src = Stranger /\ Stranger \in Foreigners

MemoryOK == AirOK /\ ShellOK /\ RadioOK /\ BufferOK /\ BehindOK /\ ParsedOK

IInv == TypeOK /\ MemoryOK /\ AnswersReachAsker /\ VerdictIsOfAnswer

(* The threads of other boards, and this one's, when it neither takes up a *)
(* frame nor is done with one.                                             *)
SameHandling == \A m \in Nodes : thread'[m] = "handling" <=> thread[m] = "handling"

LEMMA UnderneathKeeps ==
  ASSUME TypeOK, NEW n \in Nodes, Underneath(n)
  PROVE  SameHandling /\ UNCHANGED <<shell, air, rxbuf, memory, report>>
  BY DEF TypeOK, RT!TypeOK, Underneath, RT!Boot, RT!InitDevice, RT!CreateThread,
     RT!PublishPid, RT!EventCbIsr, RT!HardFault, SameHandling

(* A step of the boot or of an interrupt changes no frame.                 *)
LEMMA KeepsMemory ==
  ASSUME IInv, SameHandling, UNCHANGED <<shell, air, rxbuf, memory, report>>
  PROVE  MemoryOK' /\ AnswersReachAsker' /\ VerdictIsOfAnswer'
<1> USE DEF IInv, MemoryOK, SameHandling, memory, report
<1>1. AirOK' /\ AnswersReachAsker'
  BY DEF AirOK, AnswersReachAsker
<1>2. ShellOK'
  BY DEF ShellOK
<1>3. RadioOK'
  BY DEF RadioOK
<1>4. BufferOK'
  BY DEF BufferOK
<1>5. BehindOK' /\ ParsedOK'
  BY DEF BehindOK, ParsedOK, Answered
<1>6. VerdictIsOfAnswer'
  BY DEF VerdictIsOfAnswer
<1> QED
  BY <1>1, <1>2, <1>3, <1>4, <1>5, <1>6

(* What was answered, memory included, stays so when frames are sent.      *)
LEMMA SendingKeeps ==
  ASSUME MemoryOK, air \subseteq air', UNCHANGED <<rxbuf, memory>>,
         \A m \in Nodes : thread'[m] = "handling" => thread[m] = "handling"
  PROVE  RadioOK' /\ BufferOK' /\ BehindOK' /\ ParsedOK'
<1> USE DEF MemoryOK, memory
<1>1. RadioOK'
  BY DEF RadioOK, Hears
<1>2. BufferOK'
  BY DEF BufferOK, Hears
<1>3. \A n \in Nodes : \A body : Answered(n, body) => Answered(n, body)'
  BY DEF Answered
<1>4. BehindOK'
  BY <1>3 DEF BehindOK
<1>5. ParsedOK'
  BY <1>3 DEF ParsedOK
<1> QED
  BY <1>1, <1>2, <1>4, <1>5

LEMMA ShellKeeps ==
  ASSUME IInv, NEW n \in Nodes, Shell(n)
  PROVE  MemoryOK' /\ AnswersReachAsker' /\ VerdictIsOfAnswer'
<1>0. /\ OwnTypeOK /\ TiesOK /\ MemoryOK /\ AirOK /\ ShellOK
      /\ AnswersReachAsker /\ VerdictIsOfAnswer
  BY TypeParts DEF IInv, MemoryOK
<1>1. UNCHANGED <<thread, rxbuf, memory, report>> /\ air \subseteq air'
  BY DEF Shell, Load, Store, Transmit, Send, threadVars
<1>2. RadioOK' /\ BufferOK' /\ BehindOK' /\ ParsedOK'
  BY <1>0, <1>1, SendingKeeps
<1>3. VerdictIsOfAnswer'
  BY <1>0, <1>1 DEF VerdictIsOfAnswer, memory, report
<1>4. ASSUME NEW tag \in {"request", "text"}, NEW d \in Addresses,
             NEW pan \in PanArgs, NEW body \in Written, Load(n, tag, d, pan, body)
      PROVE  ShellOK' /\ AirOK' /\ AnswersReachAsker'
  <2>1. PICK f \in MkFrames(n, tag, d, pan, body) :
          shell' = [shell EXCEPT ![n] = [pc |-> "loaded", frame |-> f]]
    BY <1>4 DEF Load
  <2>2. /\ f.srcPan = Pan[n] /\ f.tag # "answer"
        /\ f.dst \in Addresses /\ f.body \notin Signed
    BY MadeFrame, WrittenOrSigned
  <2>3. air' = air
    BY <1>4 DEF Load
  <2>4. ShellOK'
    BY <1>0, <2>1, <2>2 DEF ShellOK, OwnTypeOK
  <2> QED
    BY <1>0, <2>3, <2>4 DEF AirOK, AnswersReachAsker
<1>5. CASE Store(n)
  <2>1. /\ shell' = [shell EXCEPT ![n] = [shell[n] EXCEPT !.pc = "stored"]]
        /\ air' = air /\ shell[n].pc # "idle"
    BY <1>0, <1>5 DEF Store, OwnTypeOK
  <2>2. [shell[n] EXCEPT !.pc = "stored"].frame = shell[n].frame
    BY <1>0, <2>1, ShellPc DEF Command
  <2>3. ShellOK'
    BY <1>0, <2>1, <2>2 DEF ShellOK, OwnTypeOK
  <2> QED
    BY <1>0, <1>2, <1>3, <2>1, <2>3 DEF AirOK, AnswersReachAsker, MemoryOK
<1>6. CASE Transmit(n)
  <2> DEFINE f == shell[n].frame
  <2>1. /\ f.src = n /\ f.srcPan = Pan[n] /\ f.tag # "answer" /\ f.dst \in Addresses
        /\ f.body \notin Signed
    BY <1>0, <1>6 DEF Transmit, ShellOK, TiesOK
  <2>2. air' \subseteq air \cup {f}
    BY <1>6 DEF Transmit, Send
  <2> HIDE DEF f
  <2>3. AirOK' /\ AnswersReachAsker'
    BY <1>0, <2>1, <2>2 DEF AirOK, AnswersReachAsker, Hears
  <2>4. ShellOK'
    BY <1>0, <1>6 DEF Transmit, ShellOK, Idle, OwnTypeOK
  <2> QED
    BY <1>2, <1>3, <2>3, <2>4 DEF MemoryOK
<1> QED
  BY <1>2, <1>3, <1>4, <1>5, <1>6 DEF Shell, MemoryOK

LEMMA ReceiveKeeps ==
  ASSUME IInv, NEW n \in Nodes, NEW f \in air \cup ForeignFrames,
         Receive(n, f)
  PROVE  MemoryOK' /\ AnswersReachAsker' /\ VerdictIsOfAnswer'
<1>0. OwnTypeOK /\ AirOK /\ ShellOK /\ RadioOK /\ BufferOK /\ BehindOK /\ ParsedOK
      /\ AnswersReachAsker /\ VerdictIsOfAnswer
  BY TypeParts DEF IInv, MemoryOK
<1>1. UNCHANGED <<thread, shell, air, memory, report>>
  BY DEF Receive, RT!RadioEvent
<1>2. f.src \in Nodes => f \in air /\ Hears(n, f)
  BY ForeignFrame DEF Receive
<1>3. RadioOK'
  BY <1>0, <1>1, <1>2 DEF Receive, RadioOK, OwnTypeOK
<1>4. AirOK' /\ ShellOK' /\ AnswersReachAsker' /\ VerdictIsOfAnswer'
  BY <1>0, <1>1 DEF AirOK, ShellOK, AnswersReachAsker, VerdictIsOfAnswer, memory, report
<1>5. BufferOK' /\ BehindOK' /\ ParsedOK'
  BY <1>0, <1>1 DEF BufferOK, BehindOK, ParsedOK, Answered, memory
<1> QED
  BY <1>3, <1>4, <1>5 DEF MemoryOK

(* driver->recv gives f, which the radio has or which cannot be read.      *)
LEMMA ReadKeeps ==
  ASSUME IInv, NEW n \in Nodes, "rx" \in status[n],
         NEW f \in {rxbuf[n], Unreadable}, Read(n, f),
         UNCHANGED air, \A m \in Nodes \ {n} : thread'[m] = thread[m]
  PROVE  /\ BufferOK' /\ BehindOK' /\ ParsedOK'
         /\ \A m \in Nodes \ {n} : buffer'[m] = buffer[m]
<1>0. /\ OwnTypeOK /\ TiesOK /\ AirOK /\ RadioOK /\ BufferOK /\ BehindOK /\ ParsedOK
  BY TypeParts DEF IInv, MemoryOK
<1>1. f \in Frame \/ f \in ForeignFrames \cup {Unreadable}
  BY <1>0 DEF TiesOK, OwnTypeOK
<1>2. f \in Frame =>
        /\ f \in air /\ Hears(n, f) /\ f.src \in Nodes /\ f.body \in Written \cup Signed
        /\ f.tag \in Tags /\ f.body # NoBody /\ f.hdr \in HdrLens
  <2>1. f \in Frame => f.src \in Nodes /\ f.body \in Written \cup Signed /\ f.tag \in Tags
                        /\ f.hdr \in HdrLens
    BY DEF Frame
  <2>2. f \in Frame => f = rxbuf[n] /\ rxbuf[n] # NoFrame
    BY <1>0, <2>1, ForeignFrame DEF TiesOK
  <2>3. f \in Frame => f.body # NoBody
    BY <2>1, FrameAssumption
  <2> QED
    BY <1>0, <2>1, <2>2, <2>3 DEF RadioOK
<1>3. f \in Frame /\ f.body \in Signed => Answered(n, f.body)
  BY <1>0, <1>2, NamesAssumption DEF AirOK, Hears, Answered
<1>4. /\ behind' = [behind EXCEPT ![n] = Copied(behind[n], f)]
      /\ buffer' = [buffer EXCEPT ![n] = Parsed(behind'[n], f)]
  BY DEF Read
<1>5. /\ behind'[n] = Copied(behind[n], f) /\ buffer'[n] = Parsed(behind'[n], f)
      /\ \A m \in Nodes \ {n} : behind'[m] = behind[m] /\ buffer'[m] = buffer[m]
  BY <1>0, <1>4 DEF OwnTypeOK
<1>6. \A m \in Nodes : \A body : Answered(m, body)' <=> Answered(m, body)
  BY DEF Answered
<1>7. ASSUME NEW h \in HdrLens, behind'[n][h].body \in Signed
      PROVE  Answered(n, behind'[n][h].body)
  <2>1. behind'[n][h] =
          IF f.body # NoBody /\ h = f.hdr THEN [tag |-> f.tag, body |-> f.body]
          ELSE IF f.body = NoBody /\ f.hdr \in 1 .. h THEN behind[n][h]
          ELSE [behind[n][h] EXCEPT !.tag = "stray"]
    BY <1>5 DEF Copied
  <2>2. behind[n][h] \in [tag: Seen, body: Bodies]
    BY <1>0 DEF OwnTypeOK, Memories
  <2>3. [behind[n][h] EXCEPT !.tag = "stray"].body = behind[n][h].body
    BY <2>2
  <2>4. f.body # NoBody => f \in Frame
    BY <1>1, ForeignFrame
  <2>5. CASE f.body # NoBody /\ h = f.hdr
    BY <1>3, <1>7, <2>1, <2>4, <2>5
  <2>6. CASE ~(f.body # NoBody /\ h = f.hdr)
    <3>1. behind'[n][h].body = behind[n][h].body
      BY <2>1, <2>3, <2>6
    <3> QED
      BY <1>0, <1>7, <3>1 DEF BehindOK
  <2> QED
    BY <2>5, <2>6
<1>8. BehindOK'
  BY <1>0, <1>5, <1>6, <1>7 DEF BehindOK
<1>9. behind'[n] \in Memories /\ f \in Buffered
  BY <1>0, <1>1, <1>5, CopiedType, FrameIsBuffered, ForeignType, UnreadableType DEF OwnTypeOK
<1>10. /\ buffer'[n].src = f.src
       /\ f.hdr = 0 => buffer'[n] = f
       /\ f.hdr # 0 => /\ f.hdr \in HdrLens
                       /\ buffer'[n].tag = behind'[n][f.hdr].tag
                       /\ buffer'[n].body = behind'[n][f.hdr].body
  BY <1>5, <1>9 DEF Parsed, Buffered
<1>11. f \in Frame => buffer'[n] = f
  <2> SUFFICES ASSUME f \in Frame
               PROVE  buffer'[n] = f
    OBVIOUS
  <2>1. f.hdr \in HdrLens /\ f.hdr # 0 /\ f.body # NoBody
    BY <1>2, HeadersAssumption
  <2>2. behind'[n][f.hdr] = [tag |-> f.tag, body |-> f.body]
    BY <1>5, <2>1 DEF Copied
  <2>3. buffer'[n] = [f EXCEPT !.tag = f.tag, !.body = f.body]
    BY <1>5, <2>1, <2>2 DEF Parsed
  <2> QED
    BY <2>3 DEF Frame
<1>12. ParsedOK'
  <2>1. ASSUME buffer'[n].body \in Signed
        PROVE  Answered(n, buffer'[n].body)
    <3>1. CASE f.hdr # 0
      BY <1>7, <1>10, <2>1, <3>1
    <3>2. CASE f.hdr = 0
      <4>1. f \notin Frame
        BY <1>2, <3>2, HeadersAssumption
      <4>2. f.body = NoBody
        BY <1>1, <4>1, ForeignFrame
      <4> QED
        BY <1>10, <2>1, <3>2, <4>2, FrameAssumption
    <3> QED
      BY <3>1, <3>2
  <2>2. buffer'[n].src = Nobody => buffer'[n].tag = "stray"
    <3>1. f.src = Nobody => f \notin Frame
      BY <1>2, NamesAssumption
    <3> QED
      BY <1>1, <1>10, <3>1, ForeignFrame
  <2>3. ASSUME buffer'[n].tag = "stray", buffer'[n].src # Nobody
        PROVE  buffer'[n].src = Stranger /\ Stranger \in Foreigners
    <3>1. f \notin Frame
      BY <1>2, <1>11, <2>3 DEF Tags
    <3>2. f.src # Nobody
      BY <1>10, <2>3
    <3>3. f \in ForeignFrames
      BY <1>1, <3>1, <3>2 DEF Unreadable, Foreign
    <3> QED
      BY <1>10, <3>2, <3>3, ForeignFrame
  <2> QED
    BY <1>0, <1>5, <1>6, <2>1, <2>2, <2>3 DEF ParsedOK
<1>13. BufferOK'
  <2>1. buffer'[n].src \in Nodes => buffer'[n] \in air /\ Hears(n, buffer'[n])
    <3>1. buffer'[n].src \in Nodes => f \in Frame
      BY <1>1, <1>10, ForeignFrame
    <3> QED
      BY <1>2, <1>11, <3>1
  <2>2. ASSUME NEW m \in Nodes, thread'[m] = "handling", buffer'[m].src \in Nodes
        PROVE  buffer'[m] \in air /\ Hears(m, buffer'[m])
    BY <1>0, <1>5, <2>1, <2>2 DEF BufferOK
  <2> QED
    BY <2>2 DEF BufferOK, Hears
<1> QED
  BY <1>5, <1>8, <1>12, <1>13

LEMMA IsrKeeps ==
  ASSUME IInv, NEW n \in Nodes, Isr(n)
  PROVE  MemoryOK' /\ AnswersReachAsker' /\ VerdictIsOfAnswer'
<1>0. /\ OwnTypeOK /\ TiesOK /\ AirOK /\ ShellOK /\ RadioOK
      /\ AnswersReachAsker /\ VerdictIsOfAnswer /\ thread \in [Nodes -> RT!ThreadStates]
  BY TypeParts DEF IInv, MemoryOK, RT!TypeOK
<1>1. /\ UNCHANGED <<shell, air, report>> /\ thread[n] = "signalled"
      /\ thread' = [thread EXCEPT ![n] =
                      IF "rx" \in status[n] THEN "handling" ELSE "blocked"]
  BY DEF Isr, RT!Isr
<1>2. AirOK' /\ ShellOK' /\ AnswersReachAsker'
  BY <1>0, <1>1 DEF AirOK, ShellOK, AnswersReachAsker
<1>3. CASE "rx" \notin status[n]
  <2>1. UNCHANGED <<rxbuf, memory>>
    BY <1>3 DEF Isr
  <2>2. SameHandling
    BY <1>0, <1>1, <1>3 DEF SameHandling
  <2> QED
    BY <1>1, <2>1, <2>2, KeepsMemory
<1>4. CASE "rx" \in status[n]
  <2>1. PICK f \in {rxbuf[n], Unreadable} : Read(n, f)
    BY <1>4 DEF Isr
  <2>2. \A m \in Nodes \ {n} : thread'[m] = thread[m]
    BY <1>0, <1>1
  <2>3. /\ BufferOK' /\ BehindOK' /\ ParsedOK'
        /\ \A m \in Nodes \ {n} : buffer'[m] = buffer[m]
    BY <1>1, <1>4, <2>1, <2>2, ReadKeeps
  <2>4. RadioOK'
    <3>1. rxbuf' = [rxbuf EXCEPT ![n] = NoFrame]
      BY <1>4 DEF Isr
    <3> QED
      BY <1>0, <1>1, <3>1 DEF RadioOK, OwnTypeOK
  <2>5. thread'[n] = "handling"
    BY <1>0, <1>1, <1>4
  <2>6. VerdictIsOfAnswer'
    BY <1>0, <1>1, <2>2, <2>3, <2>5 DEF VerdictIsOfAnswer, report
  <2> QED
    BY <1>2, <2>3, <2>4, <2>6 DEF MemoryOK
<1> QED
  BY <1>3, <1>4

LEMMA AnswerKeeps ==
  ASSUME IInv, NEW n \in Nodes, Answer(n)
  PROVE  MemoryOK' /\ AnswersReachAsker' /\ VerdictIsOfAnswer'
<1>0. /\ OwnTypeOK /\ MemoryOK /\ AirOK /\ ShellOK /\ BufferOK /\ ParsedOK
      /\ AnswersReachAsker /\ VerdictIsOfAnswer /\ thread \in [Nodes -> RT!ThreadStates]
  BY TypeParts DEF IInv, MemoryOK, RT!TypeOK
<1>1. PICK good \in BOOLEAN : \E f \in Reply(n, good) : Send(n, f)
  BY DEF Answer
<1>2. PICK r \in Reply(n, good) : Send(n, r)
  BY <1>1
<1>3. /\ UNCHANGED <<shell, rxbuf, memory, report>>
      /\ air \subseteq air' /\ air' \subseteq air \cup {r}
      /\ thread[n] = "handling" /\ thread' = [thread EXCEPT ![n] = "printing"]
      /\ buffer[n].tag \in {"request", "stray"} /\ buffer[n].src # Nobody
  BY <1>2 DEF Answer, Send, Switch, RT!Handle
<1>4. /\ r.tag = "answer" /\ r.src = n /\ r.srcPan = Pan[n] /\ r.dst = buffer[n].src
      /\ r.dstPan = DstPan(n, buffer[n].srcPan)
  BY MadeFrame DEF Reply
<1>5. buffer[n].src \in Nodes \cup {Stranger}
  BY <1>0, <1>3 DEF OwnTypeOK, Buffered
<1>6. AirOK'
  BY <1>0, <1>3, <1>4, <1>5 DEF AirOK
<1>7. AnswersReachAsker'
  <2>1. ASSUME buffer[n].src \in Nodes
        PROVE  Pan[r.dst] # 0 => Hears(r.dst, r)
    <3>1. buffer[n] \in air /\ Hears(n, buffer[n])
      BY <1>0, <1>3, <2>1 DEF BufferOK
    <3>2. buffer[n].srcPan = Pan[r.dst] /\ r.dst # n
      BY <1>0, <1>4, <3>1 DEF AirOK, Hears
    <3> QED
      BY <1>4, <3>2 DEF Hears, DstPan
  <2> QED
    BY <1>0, <1>3, <1>4, <1>5, <2>1 DEF AnswersReachAsker
<1>8. \A m \in Nodes : thread'[m] = "handling" => thread[m] = "handling"
  BY <1>0, <1>3
<1>9. ShellOK' /\ RadioOK' /\ BufferOK' /\ BehindOK' /\ ParsedOK'
  BY <1>0, <1>3, <1>8, SendingKeeps DEF ShellOK
<1>10. VerdictIsOfAnswer'
  BY <1>0, <1>3 DEF VerdictIsOfAnswer, memory, report
<1> QED
  BY <1>6, <1>7, <1>9, <1>10 DEF MemoryOK

LEMMA JudgeKeeps ==
  ASSUME IInv, NEW n \in Nodes, Judge(n)
  PROVE  MemoryOK' /\ AnswersReachAsker' /\ VerdictIsOfAnswer'
<1>0. /\ OwnTypeOK /\ MemoryOK /\ AirOK /\ ShellOK /\ ParsedOK
      /\ AnswersReachAsker /\ VerdictIsOfAnswer /\ thread \in [Nodes -> RT!ThreadStates]
  BY TypeParts DEF IInv, MemoryOK, RT!TypeOK
<1>1. /\ UNCHANGED <<shell, air, rxbuf, memory>>
      /\ verdict' = [verdict EXCEPT ![n] = Judgement(n)]
      /\ misread' = [misread EXCEPT ![n] = FALSE]
      /\ thread[n] = "handling" /\ thread' = [thread EXCEPT ![n] = "printing"]
      /\ buffer[n].body \in Signed
  BY DEF Judge, Switch, RT!Handle, Judgement
<1>2. \A m \in Nodes : thread'[m] = "handling" => thread[m] = "handling"
  BY <1>0, <1>1
<1>3. MemoryOK' /\ AnswersReachAsker'
  BY <1>0, <1>1, <1>2, SendingKeeps DEF MemoryOK, AirOK, AnswersReachAsker, ShellOK
<1>4. PICK f \in air : f.tag = "answer" /\ f.dst = n /\ f.body = buffer[n].body
  BY <1>0, <1>1 DEF ParsedOK, Answered
<1>5. Judgement(n) = IF f.body.good THEN "ok" ELSE "failed"
  BY <1>4 DEF Judgement
<1>6. VerdictIsOfAnswer'
  BY <1>0, <1>1, <1>4, <1>5 DEF VerdictIsOfAnswer, Judgement, OwnTypeOK, memory
<1> QED
  BY <1>3, <1>6

LEMMA MisjudgeKeeps ==
  ASSUME IInv, NEW n \in Nodes, Misjudge(n)
  PROVE  MemoryOK' /\ AnswersReachAsker' /\ VerdictIsOfAnswer'
<1>0. /\ OwnTypeOK /\ MemoryOK /\ AirOK /\ ShellOK /\ ParsedOK
      /\ AnswersReachAsker /\ VerdictIsOfAnswer /\ thread \in [Nodes -> RT!ThreadStates]
  BY TypeParts DEF IInv, MemoryOK, RT!TypeOK
<1>1. /\ UNCHANGED <<shell, air, rxbuf, memory>>
      /\ verdict' = [verdict EXCEPT ![n] = "failed"]
      /\ misread' = [misread EXCEPT ![n] = TRUE]
      /\ thread[n] = "handling" /\ thread' = [thread EXCEPT ![n] = "printing"]
      /\ buffer[n].tag = "stray" /\ buffer[n].src # Nobody
  BY DEF Misjudge, Switch, RT!Handle
<1>2. \A m \in Nodes : thread'[m] = "handling" => thread[m] = "handling"
  BY <1>0, <1>1
<1>3. MemoryOK' /\ AnswersReachAsker'
  BY <1>0, <1>1, <1>2, SendingKeeps DEF MemoryOK, AirOK, AnswersReachAsker, ShellOK
<1>4. Stranger \in Foreigners
  BY <1>0, <1>1 DEF ParsedOK
<1>5. VerdictIsOfAnswer'
  BY <1>0, <1>1, <1>4 DEF VerdictIsOfAnswer, OwnTypeOK, memory
<1> QED
  BY <1>3, <1>5

(* The thread is done with a frame it neither answers nor judges, or with  *)
(* printing, or lost in what it prints.                                    *)
LEMMA LetGoKeeps ==
  ASSUME IInv, NEW n \in Nodes,
         Discard(n) \/ Overrun(n) \/ NotRecognized(n) \/ Return(n)
  PROVE  MemoryOK' /\ AnswersReachAsker' /\ VerdictIsOfAnswer'
<1>0. /\ OwnTypeOK /\ MemoryOK /\ AirOK /\ ShellOK /\ ParsedOK
      /\ AnswersReachAsker /\ VerdictIsOfAnswer /\ thread \in [Nodes -> RT!ThreadStates]
  BY TypeParts DEF IInv, MemoryOK, RT!TypeOK
<1>1. /\ UNCHANGED <<shell, air, rxbuf, memory, report>>
      /\ \/ thread' = [thread EXCEPT ![n] = "blocked"]
         \/ thread' = [thread EXCEPT ![n] = "overrun"]
         \/ thread' = [thread EXCEPT ![n] = "printing"]
      /\ \/ buffer[n].src = Nobody
         \/ buffer[n].tag \in {"text", "stray"}
         \/ thread[n] = "printing"
  BY DEF Discard, Overrun, NotRecognized, Switch, Return, RT!Discard, RT!Overrun,
     RT!Handle, RT!Return
<1>2. \A m \in Nodes : thread'[m] = "handling" => thread[m] = "handling"
  BY <1>0, <1>1
<1>3. MemoryOK' /\ AnswersReachAsker'
  BY <1>0, <1>1, <1>2, SendingKeeps DEF MemoryOK, AirOK, AnswersReachAsker, ShellOK
<1>4. buffer[n].tag # "answer" \/ thread[n] = "printing"
  BY <1>0, <1>1 DEF ParsedOK
<1>5. VerdictIsOfAnswer'
  BY <1>0, <1>1, <1>4 DEF VerdictIsOfAnswer, memory, report
<1> QED
  BY <1>3, <1>5

LEMMA Inductive == IInv /\ [Next]_vars => IInv'
<1> SUFFICES ASSUME IInv, [Next]_vars
             PROVE  IInv'
  OBVIOUS
<1> USE DEF IInv
<1>0. TypeOK'
  BY TypeStep
<1>1. CASE UNCHANGED vars
  BY <1>0, <1>1, KeepsMemory DEF vars, SameHandling, memory, report
<1>2. ASSUME NEW n \in Nodes, Underneath(n)
      PROVE  IInv'
  BY <1>0, <1>2, UnderneathKeeps, KeepsMemory
<1>3. ASSUME NEW n \in Nodes, Shell(n)
      PROVE  IInv'
  BY <1>0, <1>3, ShellKeeps
<1>4. ASSUME NEW n \in Nodes, Radio(n)
      PROVE  IInv'
  <2>1. CASE TxEnd(n)
    BY <1>0, <2>1, KeepsMemory DEF TxEnd, RT!RadioEvent, SameHandling
  <2> QED
    BY <1>0, <1>4, <2>1, ReceiveKeeps DEF Radio
<1>5. ASSUME NEW n \in Nodes, Run(n)
      PROVE  IInv'
  BY <1>0, <1>5, IsrKeeps, AnswerKeeps, JudgeKeeps, MisjudgeKeeps, LetGoKeeps
     DEF Run
<1> QED
  BY <1>1, <1>2, <1>3, <1>4, <1>5 DEF Next

LEMMA Invariant == Spec => []IInv
<1>1. Init => IInv
  <2> SUFFICES ASSUME Init
               PROVE  IInv
    OBVIOUS
  <2>1. TypeOK
    BY TypeInit
  <2>2. MemoryOK
    BY FrameAssumption
       DEF Init, RT!Init, MemoryOK, AirOK, ShellOK, RadioOK, BufferOK, BehindOK, ParsedOK,
       Idle, Unreadable, Foreign
  <2>3. AnswersReachAsker /\ VerdictIsOfAnswer
    BY DEF Init, AnswersReachAsker, VerdictIsOfAnswer, Unreadable, Foreign
  <2> QED
    BY <2>1, <2>2, <2>3 DEF IInv
<1> QED
  BY <1>1, Inductive, PTL DEF Spec

(* An answer carries the address and the PAN of the board that asked, on   *)
(* every number of boards and PANs (recv.c:97-99, 286).                    *)
THEOREM AnswersAddressed == Spec => []AnswersReachAsker
  BY Invariant, PTL DEF IInv

(* The console's last verdict is what a signature sent to the board        *)
(* deserves, whatever frames without a payload come in between and however *)
(* long their headers are, unless it is a "FAILED" of what another         *)
(* device's empty frame has made recv() take for an answer                 *)
(* (recv.c:168, 239-329).                                                  *)
THEOREM VerdictsDeserved == Spec => []VerdictIsOfAnswer
  BY Invariant, PTL DEF IInv

-----------------------------------------------------------------------------
(* Up to SignService.                                                      *)

LEMMA SentToService ==
  ASSUME NEW f, air' = air \cup {f}
  PROVE  /\ OfService(f) => InFlight' = InFlight \cup {Message(f)}
         /\ ~OfService(f) => InFlight' = InFlight
         /\ f.tag = "request" => Asked' = Asked \cup {<<f.src, f.dst>>}
         /\ f.tag # "request" => Asked' = Asked
  BY DEF InFlight, Asked

LEMMA NothingToService ==
  ASSUME UNCHANGED <<air, report>>
  PROVE  UNCHANGED Service!vars
<1>1. Asked' = Asked /\ InFlight' = InFlight
  BY DEF Asked, InFlight
<1> QED
  BY <1>1 DEF Service!vars, report

(* A frame of a node in the buffer of a handling thread is a message of    *)
(* the service, and one that this node may act upon.                       *)
LEMMA BufferedMessage ==
  ASSUME IInv, NEW n \in Nodes, thread[n] = "handling", buffer[n].src \in Nodes,
         buffer[n].tag # "text"
  PROVE  /\ Message(buffer[n]) \in InFlight
         /\ buffer[n].src # n
         /\ buffer[n].tag = "request" => buffer[n].dst \in {n, Everyone}
         /\ buffer[n].tag = "answer" => buffer[n].dst = n
<1>1. buffer[n] \in air /\ Hears(n, buffer[n]) /\ AirOK
  BY DEF IInv, MemoryOK, BufferOK
<1>2. buffer[n].src # n /\ buffer[n].dst \in {n, Everyone}
  BY <1>1 DEF Hears
<1>3. OfService(buffer[n])
  BY <1>2, NamesAssumption DEF OfService
<1>4. buffer[n].tag = "answer" => buffer[n].dst = n
  BY <1>1, <1>2, NamesAssumption DEF AirOK
<1> QED
  BY <1>1, <1>2, <1>3, <1>4 DEF InFlight

LEMMA TransmitAsks ==
  ASSUME IInv, NEW n \in Nodes, Transmit(n)
  PROVE  Service!Next \/ UNCHANGED Service!vars
<1> DEFINE f == shell[n].frame
<1>1. f.src = n /\ f.tag # "answer" /\ f.dst \in Addresses /\ f \in Frame
  BY TypeParts, ShellPc DEF Transmit, IInv, MemoryOK, ShellOK, TiesOK
<1>2. f.tag \in {"request", "text"}
  BY <1>1 DEF Frame, Tags
<1>3. UNCHANGED report /\ (air' = air \cup {f} \/ air' = air)
  BY DEF Transmit, Send
<1> HIDE DEF f
<1>4. CASE air' = air
  BY <1>3, <1>4, NothingToService
<1>5. CASE air' = air \cup {f} /\ f.tag = "text"
  BY <1>3, <1>5, SentToService DEF OfService, Service!vars, report
<1>6. CASE air' = air \cup {f} /\ f.tag = "request"
  <2>1. OfService(f)
    BY <1>1, <1>6, NamesAssumption DEF OfService, Addresses
  <2>2. /\ InFlight' = InFlight \cup {Message(f)}
        /\ Asked' = Asked \cup {<<n, f.dst>>}
    BY <1>1, <1>6, <2>1, SentToService
  <2>3. Message(f) = [kind |-> "request", from |-> n, to |-> f.dst, good |-> FALSE]
    BY <1>1, <1>6 DEF Message
  <2>4. Service!Ask(n, f.dst)
    BY <1>3, <2>2, <2>3 DEF Service!Ask, report
  <2> QED
    BY <1>1, <2>4 DEF Service!Next, Addresses, Service!Addresses
<1> QED
  BY <1>2, <1>3, <1>4, <1>5, <1>6

LEMMA AnswerAnswers ==
  ASSUME IInv, NEW n \in Nodes, Answer(n)
  PROVE  Service!Next \/ UNCHANGED Service!vars
<1>0. PICK good \in BOOLEAN : \E f \in Reply(n, good) : Send(n, f)
  BY DEF Answer
<1>1. PICK f \in Reply(n, good) : Send(n, f)
  BY <1>0
<1>2. /\ UNCHANGED report /\ (air' = air \cup {f} \/ air' = air)
      /\ thread[n] = "handling" /\ buffer[n].src # Nobody
      /\ buffer[n].tag \in {"request", "stray"}
  BY <1>1 DEF Answer, Send, Switch, RT!Handle
<1>3. f.tag = "answer" /\ f.src = n /\ f.dst = buffer[n].src /\ f.body.good = good
  BY MadeFrame DEF Reply
<1>4. buffer[n].src \in Nodes \cup {Stranger}
  BY <1>2, TypeParts DEF IInv, OwnTypeOK, Buffered
<1>5. CASE air' = air
  BY <1>2, <1>5, NothingToService
<1>6. CASE air' = air \cup {f} /\ buffer[n].src = Stranger
  BY <1>2, <1>3, <1>6, SentToService DEF OfService, Service!vars, report
<1>7. CASE air' = air \cup {f} /\ buffer[n].src \in Nodes
  <2> DEFINE q == Message(buffer[n])
  <2>0. buffer[n].tag = "request"
    BY <1>2, <1>7, NamesAssumption DEF IInv, MemoryOK, ParsedOK
  <2>1. /\ q \in InFlight /\ q.kind = "request" /\ q.from = buffer[n].src
        /\ q.from # n /\ q.to \in {n, Everyone}
    BY <1>2, <1>7, <2>0, BufferedMessage DEF Message
  <2>2. InFlight' = InFlight \cup {Message(f)} /\ Asked' = Asked
    BY <1>3, <1>7, SentToService, NamesAssumption DEF OfService
  <2>3. Message(f) = [kind |-> "answer", from |-> n, to |-> q.from, good |-> good]
    BY <1>3, <2>1 DEF Message
  <2> HIDE DEF q
  <2>4. Service!Answer(n)
    BY <1>2, <2>1, <2>2, <2>3 DEF Service!Answer, report
  <2> QED
    BY <2>4 DEF Service!Next
<1> QED
  BY <1>2, <1>4, <1>5, <1>6, <1>7

LEMMA JudgeJudges ==
  ASSUME IInv, NEW n \in Nodes, Judge(n)
  PROVE  Service!Next
<1>1. /\ air' = air /\ verdict' = [verdict EXCEPT ![n] = Judgement(n)]
      /\ misread' = [misread EXCEPT ![n] = FALSE] /\ buffer[n].body \in Signed
  BY DEF Judge, Judgement
<1>2. PICK f \in air : f.tag = "answer" /\ f.dst = n /\ f.body = buffer[n].body
  BY <1>1 DEF IInv, MemoryOK, ParsedOK, Answered
<1> DEFINE m == Message(f)
<1>3. /\ m.kind = "answer" /\ m.to = n
      /\ Judgement(n) = IF m.good THEN "ok" ELSE "failed"
  BY <1>2 DEF Message, Judgement
<1>4. m \in InFlight
  BY <1>2, NamesAssumption DEF InFlight, OfService
<1>5. InFlight' = InFlight /\ Asked' = Asked
  BY <1>1 DEF InFlight, Asked
<1> HIDE DEF m
<1>6. Service!Judge(n)
  BY <1>1, <1>3, <1>4, <1>5 DEF Service!Judge
<1> QED
  BY <1>6 DEF Service!Next

LEMMA MisjudgeDisturbs ==
  ASSUME NEW n \in Nodes, Misjudge(n)
  PROVE  Service!Next
<1>1. InFlight' = InFlight /\ Asked' = Asked
  BY DEF Misjudge, InFlight, Asked
<1>2. Service!Disturb(n)
  BY <1>1 DEF Misjudge, Service!Disturb
<1> QED
  BY <1>2 DEF Service!Next

LEMMA ServiceStep == IInv /\ [Next]_vars => [Service!Next]_Service!vars
<1> SUFFICES ASSUME IInv, [Next]_vars
             PROVE  Service!Next \/ UNCHANGED Service!vars
  OBVIOUS
<1>1. CASE UNCHANGED vars
  BY <1>1, NothingToService DEF vars, report
<1>2. ASSUME NEW n \in Nodes,
             Underneath(n) \/ Radio(n) \/ Isr(n) \/ Discard(n) \/ Overrun(n)
               \/ NotRecognized(n) \/ Return(n)
      PROVE  UNCHANGED Service!vars
  BY <1>2, NothingToService
     DEF Underneath, Radio, Receive, TxEnd, Isr, Discard, Overrun, NotRecognized, Return
<1>3. ASSUME NEW n \in Nodes, Shell(n)
      PROVE  Service!Next \/ UNCHANGED Service!vars
  BY <1>3, TransmitAsks, NothingToService DEF Shell, Load, Store
<1> QED
  BY <1>1, <1>2, <1>3, AnswerAnswers, JudgeJudges, MisjudgeDisturbs DEF Next, Run

(* A network of any number of boards, in any PANs, with any loss,          *)
(* repetition and reordering of frames and any headers, implements the     *)
(* signing service (cmd.c, recv.c).                                        *)
THEOREM NetworkImplementsService == Spec => ImplementsService
<1>1. Init => Service!Init
  BY DEF Init, Service!Init, Asked, InFlight
<1> QED
  BY <1>1, ServiceStep, Invariant, PTL DEF Spec, ImplementsService, Service!Spec

(* The service as SignServiceProofs knows it.                              *)
LEMMA SameService == ImplementsService => SSP!Spec
<1>1. Service!Init => SSP!Init
  BY DEF Service!Init, SSP!Init
<1>2. Service!Next => SSP!Next
  BY DEF Service!Next, SSP!Next, Service!Ask, SSP!Ask, Service!Answer, SSP!Answer,
     Service!Judge, SSP!Judge, Service!Disturb, SSP!Disturb, Service!Forget, SSP!Forget, Service!Addresses, SSP!Addresses
<1>3. [Service!Next]_Service!vars => [SSP!Next]_SSP!vars
  BY <1>2 DEF Service!vars, SSP!vars
<1> QED
  BY <1>1, <1>3, PTL DEF ImplementsService, Service!Spec, SSP!Spec

(* Nobody is answered unasked, in a network of any number of boards that   *)
(* loses, repeats and reorders frames (recv.c:243-288).                    *)
THEOREM NetworkAnswersAsked == Spec => []AnswersAreAsked
<1>1. Spec => []SSP!AnswersAreAsked
  BY NetworkImplementsService, SameService, SSP!Unasked
<1>2. SSP!AnswersAreAsked => AnswersAreAsked
  BY DEF SSP!AnswersAreAsked, AnswersAreAsked, Service!AnswersAreAsked,
     SSP!HasAsked, Service!HasAsked
<1> QED
  BY <1>1, <1>2, PTL

(* Only a board that has asked another one prints a verdict, there, too,   *)
(* but for a "FAILED" of what is no answer (recv.c:292-324).               *)
THEOREM NetworkVerdictsAsked == Spec => []VerdictsAreAsked
<1>1. Spec => []SSP!VerdictsAreAsked
  BY NetworkImplementsService, SameService, SSP!NoVerdictUnasked
<1>2. SSP!VerdictsAreAsked => VerdictsAreAsked
  BY DEF SSP!VerdictsAreAsked, VerdictsAreAsked, Service!VerdictsAreAsked,
     SSP!HasAsked, Service!HasAsked
<1> QED
  BY <1>1, <1>2, PTL
-----------------------------------------------------------------------------
(* The sequence numbers.  No more numbers are used than there is work, so  *)
(* they do not come round: seq[n] is the number of numbers used, c, until  *)
(* all are.  The work in hand on board n is what may still use one.        *)

InHand(n) ==
  (IF shell[n].pc = "loaded" THEN 1 ELSE 0)
    + (IF rxbuf[n] # NoFrame THEN 1 ELSE 0)
    + (IF thread[n] = "handling" THEN 1 ELSE 0)

Used(n, c) == (seq[n] = c \/ c = SeqMod) /\ c + InHand(n) <= work

(* Answers are set apart: in a command they have cut into, they use the    *)
(* number it has loaded and those behind it, which then are used again.    *)
SentBelow(n, c) ==
  \A f \in air : f.src = n /\ (f.tag = "answer" => ~raced[n]) => f.seq < c

CommandBelow(n, c) ==
  LET g == shell[n].frame
  IN  /\ shell[n].pc # "idle" =>
           /\ g.tag # "answer"
           /\ \A f \in air : f.src = n /\ f.tag # "answer" => f.seq < g.seq
      /\ shell[n].pc = "loaded" => g.seq <= c /\ (~raced[n] => g.seq = c)
      /\ shell[n].pc = "stored" =>
           /\ g.seq < c
           /\ ~raced[n] => \A f \in air : f.src = n => f.seq # g.seq

NumbersOK(n) == \E c \in Nat : Used(n, c) /\ SentBelow(n, c) /\ CommandBelow(n, c)

SeqInv == SeqUnique /\ \A n \in Nodes : NumbersOK(n)

LEMMA InHandType == \A n : InHand(n) \in 0 .. 3
  BY DEF InHand

(* What every step leaves as it is on the boards that have no part in it.  *)
SameNumbers(n) ==
  /\ shell'[n] = shell[n] /\ seq'[n] = seq[n] /\ raced'[n] = raced[n]
  /\ \A f \in air' : f \in air \/ f.src # n

LEMMA NumbersKept ==
  ASSUME TypeOK, NEW n \in Nodes, NumbersOK(n), SameNumbers(n),
         work' \in Nat, InHand(n)' - InHand(n) <= work' - work
  PROVE  NumbersOK(n)'
<1>1. PICK c \in Nat : Used(n, c) /\ SentBelow(n, c) /\ CommandBelow(n, c)
  BY DEF NumbersOK
<1>2. InHand(n) \in Nat /\ InHand(n)' \in Nat /\ work \in Nat
  BY InHandType, BoundsAssumption DEF TypeOK, InHand
<1>3. c + InHand(n)' <= work'
  BY <1>1, <1>2 DEF Used
<1>4. Used(n, c)'
  BY <1>1, <1>3 DEF Used, SameNumbers
<1>5. SentBelow(n, c)'
  BY <1>1 DEF SentBelow, SameNumbers
<1>6. CommandBelow(n, c)'
  BY <1>1 DEF CommandBelow, SameNumbers
<1> QED
  BY <1>4, <1>5, <1>6 DEF NumbersOK

(* A frame that is sent may have the number of another only as SeqUnique   *)
(* allows.                                                                 *)
LEMMA UniqueKept ==
  ASSUME SeqUnique, NEW g, air' \subseteq air \cup {g},
         \A n \in Nodes : raced[n] => raced'[n],
         \A f \in air : f.src \in Nodes,
         \A f \in air : f.src = g.src /\ f.seq = g.seq =>
           raced'[g.src] /\ "answer" \in {f.tag, g.tag}
  PROVE  SeqUnique'
<1> SUFFICES ASSUME NEW f \in air', NEW h \in air', f # h, f.src = h.src, f.seq = h.seq
             PROVE  raced'[f.src] /\ "answer" \in {f.tag, h.tag}
  BY DEF SeqUnique
<1>1. CASE f \in air /\ h \in air
  BY <1>1 DEF SeqUnique
<1>2. CASE f = g /\ h \in air
  BY <1>2
<1>3. CASE f \in air /\ h = g
  BY <1>3
<1> QED
  BY <1>1, <1>2, <1>3

LEMMA LoadNumbers ==
  ASSUME TypeOK, TypeOK', NEW n \in Nodes, NumbersOK(n),
         NEW tag \in {"request", "text"}, NEW d \in Addresses, NEW pan \in PanArgs,
         NEW body \in Written, Load(n, tag, d, pan, body)
  PROVE  NumbersOK(n)'
<1>0. PICK g \in MkFrames(n, tag, d, pan, body) :
        shell' = [shell EXCEPT ![n] = [pc |-> "loaded", frame |-> g]]
  BY DEF Load
<1>1. g.tag = tag /\ g.seq = seq[n]
  BY MadeFrame
<1>2. /\ shell[n].pc = "idle" /\ shell'[n] = [pc |-> "loaded", frame |-> g]
      /\ work' = work + 1
      /\ UNCHANGED <<thread, seq, air, rxbuf, raced>>
  BY <1>0 DEF Load, threadVars, Idle, TypeOK
<1>3. PICK c \in Nat : Used(n, c) /\ SentBelow(n, c)
  BY DEF NumbersOK
<1>4. shell'[n].pc = "loaded" /\ shell'[n].frame = g
  BY <1>2
<1>5. InHand(n)' = InHand(n) + 1 /\ InHand(n) \in Nat
  BY <1>2, <1>4, InHandType DEF InHand
<1>6. work \in Nat /\ work' <= SeqMod /\ SeqMod \in Nat
  BY BoundsAssumption DEF TypeOK
<1>7. c + InHand(n)' <= work' /\ c < SeqMod
  BY <1>2, <1>3, <1>5, <1>6 DEF Used
<1>8. seq[n] = c
  BY <1>3, <1>6, <1>7 DEF Used
<1>9. Used(n, c)'
  BY <1>2, <1>7, <1>8 DEF Used
<1>10. SentBelow(n, c)'
  BY <1>2, <1>3 DEF SentBelow
<1>11. CommandBelow(n, c)'
  <2>1. g.tag # "answer" /\ g.seq = c
    BY <1>1, <1>8
  <2>2. \A f \in air' : f.src = n /\ f.tag # "answer" => f.seq < g.seq
    BY <1>2, <1>3, <2>1 DEF SentBelow
  <2>3. g.seq <= c
    BY <2>1
  <2> QED
    BY <1>4, <2>1, <2>2, <2>3 DEF CommandBelow
<1> QED
  BY <1>9, <1>10, <1>11 DEF NumbersOK

LEMMA StoreNumbers ==
  ASSUME TypeOK, TypeOK', NEW n \in Nodes, NumbersOK(n), Store(n)
  PROVE  NumbersOK(n)'
<1> DEFINE g == shell[n].frame
<1>1. shell[n] \in Command /\ shell[n].pc = "loaded" /\ g \in Frame
  BY ShellPc, TypeParts DEF Store
<1>2. /\ shell'[n] = [shell[n] EXCEPT !.pc = "stored"]
      /\ seq'[n] = Incremented(g.seq)
      /\ UNCHANGED <<thread, air, rxbuf, raced, work>>
  BY DEF Store, threadVars, TypeOK
<1>3. shell'[n].pc = "stored" /\ shell'[n].frame = g
  BY <1>1, <1>2 DEF Command
<1>4. PICK c \in Nat : Used(n, c) /\ SentBelow(n, c) /\ CommandBelow(n, c)
  BY DEF NumbersOK
<1>5. g.seq \in Nat /\ g.seq < SeqMod /\ SeqMod \in Nat
  BY <1>1, BoundsAssumption DEF Frame, SeqNos
<1>6. /\ g.seq <= c /\ (~raced[n] => g.seq = c) /\ g.tag # "answer"
      /\ \A f \in air : f.src = n /\ f.tag # "answer" => f.seq < g.seq
  BY <1>1, <1>4 DEF CommandBelow
<1>7. air \subseteq Frame /\ (\A f \in air : f.seq \in Nat)
  BY BoundsAssumption DEF TypeOK, Frame, SeqNos
<1>8. PICK k \in Nat : k = g.seq + 1
  BY <1>5
<1>9. Used(n, k)'
  <2>1. InHand(n) = InHand(n)' + 1 /\ InHand(n)' \in Nat
    BY <1>1, <1>2, <1>3, InHandType DEF InHand
  <2>2. work \in Nat
    BY DEF TypeOK
  <2>3. k + InHand(n)' <= work'
    BY <1>2, <1>4, <1>5, <1>6, <1>8, <2>1, <2>2 DEF Used
  <2>4. seq'[n] = k \/ k = SeqMod
    BY <1>2, <1>5, <1>8 DEF Incremented
  <2> QED
    BY <2>3, <2>4 DEF Used
<1>10. SentBelow(n, k)'
  <2> SUFFICES ASSUME NEW f \in air, f.src = n, f.tag = "answer" => ~raced[n]
               PROVE  f.seq < k
    BY <1>2 DEF SentBelow
  <2>1. f.seq < g.seq
    <3>1. CASE f.tag = "answer"
      BY <1>4, <1>6, <3>1 DEF SentBelow
    <3>2. CASE f.tag # "answer"
      BY <1>6, <3>2
    <3> QED
      BY <3>1, <3>2
  <2> QED
    BY <1>5, <1>7, <1>8, <2>1
<1>11. CommandBelow(n, k)'
  <2>1. g.seq < k
    BY <1>5, <1>8
  <2>2. ASSUME ~raced[n], NEW f \in air, f.src = n
        PROVE  f.seq # g.seq
    <3>1. f.seq < g.seq
      BY <1>4, <1>6, <2>2 DEF SentBelow
    <3> QED
      BY <1>5, <1>7, <3>1
  <2> QED
    BY <1>2, <1>3, <1>6, <2>1, <2>2 DEF CommandBelow
<1> QED
  BY <1>9, <1>10, <1>11 DEF NumbersOK

LEMMA TransmitNumbers ==
  ASSUME TypeOK, NEW n \in Nodes, NumbersOK(n), SeqUnique, Transmit(n)
  PROVE  SeqUnique' /\ NumbersOK(n)'
<1> DEFINE g == shell[n].frame
<1>1. shell[n].pc = "stored" /\ g \in Frame /\ g.src = n
  BY ShellPc, TypeParts DEF Transmit, TiesOK
<1>2. /\ air' \subseteq air \cup {g} /\ shell'[n] = Idle
      /\ UNCHANGED <<thread, seq, rxbuf, raced, work>>
  BY DEF Transmit, Send, threadVars, TypeOK
<1>3. PICK c \in Nat : Used(n, c) /\ SentBelow(n, c) /\ CommandBelow(n, c)
  BY DEF NumbersOK
<1>4. /\ g.seq < c /\ g.tag # "answer"
      /\ \A f \in air : f.src = n /\ f.tag # "answer" => f.seq < g.seq
      /\ ~raced[n] => \A f \in air : f.src = n => f.seq # g.seq
  BY <1>1, <1>3 DEF CommandBelow
<1>5. air \subseteq Frame /\ \A f \in air : f.src \in Nodes /\ f.seq \in Nat
  BY BoundsAssumption DEF TypeOK, Frame, SeqNos
<1>6. g.seq \in Nat
  BY <1>1, BoundsAssumption DEF Frame, SeqNos
<1> HIDE DEF g
<1>7. SeqUnique'
  <2>1. ASSUME NEW f \in air, f.src = g.src, f.seq = g.seq
        PROVE  raced'[g.src] /\ "answer" \in {f.tag, g.tag}
    <3>1. f.tag = "answer"
      <4>1. f.tag # "answer" => f.seq < g.seq
        BY <1>1, <1>4, <2>1
      <4> QED
        BY <1>5, <1>6, <2>1, <4>1
    <3>2. raced[n]
      BY <1>1, <1>4, <2>1
    <3> QED
      BY <1>1, <1>2, <3>1, <3>2
  <2>2. \A m \in Nodes : raced[m] => raced'[m]
    BY <1>2
  <2>3. \A f \in air : f.src \in Nodes
    BY <1>5
  <2> QED
    BY <1>2, <2>1, <2>2, <2>3, UniqueKept
<1>8. Used(n, c)'
  <2>1. InHand(n)' = InHand(n)
    BY <1>1, <1>2 DEF InHand, Idle
  <2> QED
    BY <1>2, <1>3, <2>1 DEF Used
<1>9. SentBelow(n, c)'
  BY <1>2, <1>3, <1>4 DEF SentBelow
<1>10. CommandBelow(n, c)'
  BY <1>2 DEF CommandBelow, Idle
<1> QED
  BY <1>7, <1>8, <1>9, <1>10 DEF NumbersOK

LEMMA AnswerNumbers ==
  ASSUME TypeOK, NEW n \in Nodes, NumbersOK(n), SeqUnique, Answer(n)
  PROVE  SeqUnique' /\ NumbersOK(n)'
<1>0. PICK good \in BOOLEAN : \E f \in Reply(n, good) : Send(n, f)
  BY DEF Answer
<1>1. PICK g \in Reply(n, good) : Send(n, g)
  BY <1>0
<1>2. g.src = n /\ g.seq = seq[n] /\ g.tag = "answer"
  BY MadeFrame DEF Reply
<1>3. /\ air' \subseteq air \cup {g}
      /\ thread[n] = "handling" /\ thread'[n] = "printing"
      /\ seq'[n] = Incremented(seq[n])
      /\ raced'[n] = (raced[n] \/ shell[n].pc = "loaded")
      /\ \A m \in Nodes : raced[m] => raced'[m]
      /\ UNCHANGED <<shell, rxbuf, work>>
  BY <1>1 DEF Answer, Send, Switch, RT!Handle, TypeOK, RT!TypeOK
<1>4. PICK c \in Nat : Used(n, c) /\ SentBelow(n, c) /\ CommandBelow(n, c)
  BY DEF NumbersOK
<1>5. InHand(n) = InHand(n)' + 1 /\ InHand(n)' \in Nat
  BY <1>3, InHandType DEF InHand
<1>6. work \in Nat /\ work <= SeqMod /\ SeqMod \in Nat /\ seq[n] \in Nat
  BY BoundsAssumption DEF TypeOK, SeqNos
<1>7. c < SeqMod /\ c + 1 + InHand(n)' <= work /\ seq[n] = c
  BY <1>4, <1>5, <1>6 DEF Used
<1>8. air \subseteq Frame /\ \A f \in air : f.src \in Nodes /\ f.seq \in Nat
  BY BoundsAssumption DEF TypeOK, Frame, SeqNos
<1>9. SeqUnique'
  <2>1. ASSUME NEW f \in air, f.src = g.src, f.seq = g.seq
        PROVE  raced'[g.src] /\ "answer" \in {f.tag, g.tag}
    <3>1. raced[n]
      <4>1. ~raced[n] => f.seq < c
        BY <1>2, <1>4, <2>1 DEF SentBelow
      <4> QED
        BY <1>2, <1>7, <1>8, <2>1, <4>1
    <3> QED
      BY <1>2, <1>3, <3>1
  <2>2. \A f \in air : f.src \in Nodes
    BY <1>8
  <2> QED
    BY <1>3, <2>1, <2>2, UniqueKept
<1>10. Used(n, c + 1)'
  <2>1. seq'[n] = c + 1 \/ c + 1 = SeqMod
    BY <1>3, <1>6, <1>7 DEF Incremented
  <2> QED
    BY <1>3, <1>7, <2>1 DEF Used
<1>11. SentBelow(n, c + 1)'
  <2> SUFFICES ASSUME NEW f \in air', f.src = n, f.tag = "answer" => ~raced'[n]
               PROVE  f.seq < c + 1
    BY DEF SentBelow
  <2>1. CASE f \in air
    <3>1. f.seq < c
      BY <1>3, <1>4, <2>1 DEF SentBelow
    <3> QED
      BY <1>8, <2>1, <3>1
  <2>2. CASE f = g
    BY <1>2, <1>7, <2>2
  <2> QED
    BY <1>3, <2>1, <2>2
<1>12. CommandBelow(n, c + 1)'
  <2>1. shell[n].pc # "idle" => shell[n].frame.seq \in Nat
    BY ShellPc, TypeParts, BoundsAssumption DEF Frame, SeqNos
  <2> DEFINE h == shell[n].frame
  <2>2. /\ shell[n].pc # "idle" => h.tag # "answer"
        /\ shell[n].pc # "idle" =>
             \A f \in air : f.src = n /\ f.tag # "answer" => f.seq < h.seq
        /\ shell[n].pc = "loaded" => h.seq <= c
        /\ shell[n].pc = "stored" => h.seq < c
        /\ shell[n].pc = "stored" /\ ~raced[n] =>
             \A f \in air : f.src = n => f.seq # h.seq
    BY <1>4 DEF CommandBelow
  <2> HIDE DEF h
  <2>3. shell[n].pc # "idle" =>
          \A f \in air' : f.src = n /\ f.tag # "answer" => f.seq < h.seq
    BY <1>2, <1>3, <2>2
  <2>4. /\ shell[n].pc = "loaded" => h.seq <= c + 1
        /\ shell[n].pc = "loaded" => raced'[n]
    <3>1. shell[n].pc = "loaded" => h.seq <= c + 1
      BY <2>1, <2>2 DEF h
    <3>2. shell[n].pc = "loaded" => raced'[n]
      BY <1>3
    <3> QED
      BY <3>1, <3>2
  <2>5. shell[n].pc = "stored" => h.seq < c + 1 /\ h.seq # g.seq
    BY <1>2, <1>7, <2>1, <2>2 DEF h
  <2>6. shell[n].pc = "stored" /\ ~raced'[n] =>
          \A f \in air' : f.src = n => f.seq # h.seq
    BY <1>3, <2>2, <2>5
  <2> QED
    BY <1>3, <2>2, <2>3, <2>4, <2>5, <2>6 DEF CommandBelow, h
<1>13. c + 1 \in Nat
  OBVIOUS
<1> QED
  BY <1>9, <1>10, <1>11, <1>12, <1>13 DEF NumbersOK

(* Whatever step it is, the numbers of a board that neither takes a        *)
(* command a step further nor answers stay as they are.                    *)
LEMMA OtherNumbers ==
  ASSUME TypeOK, TypeOK', NEW n \in Nodes, NEW m \in Nodes, NumbersOK(m), m # n,
         Shell(n) \/ Answer(n)
  PROVE  NumbersOK(m)'
<1>1. work \in Nat /\ work' \in Nat
  BY DEF TypeOK
<1>2. CASE Answer(n)
  <2>0. PICK good \in BOOLEAN : \E f \in Reply(n, good) : Send(n, f)
    BY <1>2 DEF Answer
  <2>1. PICK f \in Reply(n, good) : Send(n, f)
    BY <2>0
  <2>2. f.src = n
    BY MadeFrame DEF Reply
  <2>3. SameNumbers(m)
    BY <1>2, <2>1, <2>2 DEF Answer, Send, SameNumbers, TypeOK
  <2>4. InHand(m)' = InHand(m) /\ work' = work
    BY <1>2 DEF Answer, Switch, RT!Handle, InHand, TypeOK, RT!TypeOK
  <2> QED
    BY <1>1, <2>3, <2>4, InHandType, NumbersKept
<1>3. ASSUME NEW tag \in {"request", "text"}, NEW d \in Addresses, NEW pan \in PanArgs,
             NEW body \in Written, Load(n, tag, d, pan, body)
      PROVE  NumbersOK(m)'
  <2>1. SameNumbers(m)
    BY <1>3 DEF Load, SameNumbers, TypeOK
  <2>2. InHand(m)' = InHand(m) /\ work' = work + 1
    BY <1>3, <2>1 DEF Load, threadVars, InHand, SameNumbers
  <2> QED
    BY <1>1, <2>1, <2>2, InHandType, NumbersKept
<1>4. CASE Store(n)
  <2>1. SameNumbers(m)
    BY <1>4 DEF Store, SameNumbers, TypeOK
  <2>2. InHand(m)' = InHand(m) /\ work' = work
    BY <1>4, <2>1 DEF Store, threadVars, InHand, SameNumbers
  <2> QED
    BY <1>1, <2>1, <2>2, InHandType, NumbersKept
<1>5. CASE Transmit(n)
  <2>1. shell[n].frame.src = n
    BY <1>5, TypeParts DEF Transmit, TiesOK
  <2>2. SameNumbers(m)
    BY <1>5, <2>1 DEF Transmit, Send, SameNumbers, TypeOK
  <2>3. InHand(m)' = InHand(m) /\ work' = work
    BY <1>5, <2>2 DEF Transmit, threadVars, InHand, SameNumbers
  <2> QED
    BY <1>1, <2>2, <2>3, InHandType, NumbersKept
<1> QED
  BY <1>2, <1>3, <1>4, <1>5 DEF Shell

(* The steps that send nothing and neither load nor store a number.        *)
LEMMA QuietNumbers ==
  ASSUME TypeOK, TypeOK', SeqInv, UNCHANGED <<seq, shell, air, raced>>,
         \A m \in Nodes : InHand(m)' - InHand(m) <= work' - work
  PROVE  SeqInv'
<1>1. work' \in Nat
  BY DEF TypeOK
<1>2. \A m \in Nodes : SameNumbers(m)
  BY DEF SameNumbers
<1>3. \A m \in Nodes : NumbersOK(m)'
  BY <1>1, <1>2, NumbersKept DEF SeqInv
<1>4. SeqUnique'
  BY DEF SeqInv, SeqUnique
<1> QED
  BY <1>3, <1>4 DEF SeqInv

LEMMA SeqStep == TypeOK /\ SeqInv /\ [Next]_vars => SeqInv'
<1> SUFFICES ASSUME TypeOK, SeqInv, [Next]_vars
             PROVE  SeqInv'
  OBVIOUS
<1>0. TypeOK' /\ work \in Nat
  BY TypeStep DEF TypeOK
<1>1. CASE UNCHANGED vars
  <2>1. \A m \in Nodes : InHand(m)' = InHand(m)
    BY <1>1 DEF vars, InHand
  <2> QED
    BY <1>0, <1>1, <2>1, InHandType, QuietNumbers DEF vars
<1>2. ASSUME NEW n \in Nodes, Underneath(n)
      PROVE  SeqInv'
  <2>1. \A m \in Nodes : thread'[m] = "handling" => thread[m] = "handling"
    BY <1>2 DEF Underneath, TypeOK, RT!TypeOK, RT!Boot, RT!InitDevice,
       RT!CreateThread, RT!PublishPid, RT!EventCbIsr, RT!HardFault
  <2>2. \A m \in Nodes : InHand(m)' <= InHand(m)
    BY <1>2, <2>1 DEF Underneath, InHand
  <2>3. UNCHANGED <<seq, shell, air, raced, work>>
    BY <1>2 DEF Underneath
  <2>4. \A m \in Nodes : InHand(m)' - InHand(m) <= work' - work
    BY <1>0, <2>2, <2>3, InHandType DEF InHand
  <2> QED
    BY <1>0, <2>3, <2>4, QuietNumbers
<1>3. ASSUME NEW n \in Nodes, Shell(n)
      PROVE  SeqInv'
  <2>1. SeqUnique'
    <3>1. CASE Transmit(n)
      BY <3>1, TransmitNumbers DEF SeqInv
    <3>2. CASE UNCHANGED <<air, raced>>
      BY <3>2 DEF SeqInv, SeqUnique
    <3> QED
      BY <1>3, <3>1, <3>2 DEF Shell, Load, Store
  <2>2. NumbersOK(n)'
    BY <1>0, <1>3, LoadNumbers, StoreNumbers, TransmitNumbers DEF Shell, SeqInv
  <2>3. \A m \in Nodes : m # n => NumbersOK(m)'
    BY <1>0, <1>3, OtherNumbers DEF SeqInv
  <2> QED
    BY <2>1, <2>2, <2>3 DEF SeqInv
<1>4. ASSUME NEW n \in Nodes, NEW f \in air \cup ForeignFrames,
             Receive(n, f)
      PROVE  SeqInv'
  <2>1. UNCHANGED <<seq, shell, air, raced, thread>> /\ work' = work + 1
    BY <1>4 DEF Receive, RT!RadioEvent
  <2>2. \A m \in Nodes : InHand(m)' - InHand(m) <= 1
    BY <2>1 DEF InHand
  <2> QED
    BY <1>0, <2>1, <2>2, QuietNumbers
<1>5. ASSUME NEW n \in Nodes, TxEnd(n)
      PROVE  SeqInv'
  <2>1. \A m \in Nodes : InHand(m)' = InHand(m)
    BY <1>5 DEF TxEnd, RT!RadioEvent, InHand
  <2> QED
    BY <1>0, <1>5, <2>1, InHandType, QuietNumbers DEF TxEnd
<1>6. ASSUME NEW n \in Nodes, Isr(n)
      PROVE  SeqInv'
  <2>1. \A m \in Nodes : InHand(m)' <= InHand(m)
    <3> SUFFICES ASSUME NEW m \in Nodes PROVE InHand(m)' <= InHand(m)
      OBVIOUS
    <3>1. CASE m # n
      <4>1. thread'[m] = thread[m] /\ rxbuf'[m] = rxbuf[m] /\ shell'[m] = shell[m]
        BY <1>6, <3>1 DEF Isr, RT!Isr, TypeOK, RT!TypeOK
      <4> QED
        BY <4>1 DEF InHand
    <3>2. CASE m = n /\ "rx" \in status[n]
      <4>1. /\ thread[n] # "handling" /\ rxbuf[n] # NoFrame /\ rxbuf'[n] = NoFrame
            /\ shell'[n] = shell[n]
        BY <1>6, <3>2, TypeParts DEF Isr, RT!Isr, TiesOK, TypeOK
      <4> QED
        BY <3>2, <4>1 DEF InHand
    <3>3. CASE m = n /\ "rx" \notin status[n]
      <4>1. thread'[n] # "handling" /\ rxbuf' = rxbuf /\ shell' = shell
        BY <1>6, <3>3 DEF Isr, RT!Isr, TypeOK, RT!TypeOK
      <4> QED
        BY <3>3, <4>1 DEF InHand
    <3> QED
      BY <3>1, <3>2, <3>3
  <2>2. UNCHANGED <<seq, shell, air, raced, work>>
    BY <1>6 DEF Isr
  <2>3. \A m \in Nodes : InHand(m)' - InHand(m) <= work' - work
    BY <1>0, <2>1, <2>2, InHandType DEF InHand
  <2> QED
    BY <1>0, <2>2, <2>3, QuietNumbers
<1>7. ASSUME NEW n \in Nodes, Answer(n)
      PROVE  SeqInv'
  BY <1>0, <1>7, AnswerNumbers, OtherNumbers DEF SeqInv
<1>8. ASSUME NEW n \in Nodes,
             Discard(n) \/ Overrun(n) \/ Judge(n) \/ Misjudge(n) \/ NotRecognized(n)
               \/ Return(n)
      PROVE  SeqInv'
  <2>1. UNCHANGED <<seq, shell, air, raced, work, rxbuf>>
    BY <1>8 DEF Discard, Overrun, Judge, Misjudge, NotRecognized, Return
  <2>2. \A m \in Nodes : thread'[m] = "handling" => thread[m] = "handling"
    BY <1>8 DEF Discard, Overrun, Judge, Misjudge, NotRecognized, Return, Switch,
       RT!Discard, RT!Overrun, RT!Handle, RT!Return, TypeOK, RT!TypeOK
  <2>3. \A m \in Nodes : InHand(m)' <= InHand(m)
    BY <2>1, <2>2 DEF InHand
  <2>4. \A m \in Nodes : InHand(m)' - InHand(m) <= work' - work
    BY <1>0, <2>1, <2>3, InHandType DEF InHand
  <2> QED
    BY <1>0, <2>1, <2>4, QuietNumbers
<1> QED
  BY <1>1, <1>2, <1>3, <1>4, <1>5, <1>6, <1>7, <1>8 DEF Next, Radio, Run

LEMMA SeqInit == Init => SeqInv
<1> SUFFICES ASSUME Init
             PROVE  SeqInv
  OBVIOUS
<1>1. SeqUnique
  BY DEF Init, SeqUnique
<1>2. ASSUME NEW n \in Nodes
      PROVE  NumbersOK(n)
  <2>1. InHand(n) = 0
    BY DEF Init, RT!Init, InHand, Idle
  <2>2. Used(n, 0)
    BY <2>1 DEF Init, Used
  <2>3. SentBelow(n, 0) /\ CommandBelow(n, 0)
    BY DEF Init, SentBelow, CommandBelow, Idle
  <2> QED
    BY <2>2, <2>3 DEF NumbersOK
<1> QED
  BY <1>1, <1>2 DEF SeqInv

(* For every number of boards and of sequence numbers: only an answer that *)
(* cuts into the shell's dev->seq++ can have the number of another frame   *)
(* (cmd.c:330, recv.c:112).                                                *)
THEOREM NumbersUnique == Spec => []SeqUnique
<1>1. SeqInv => SeqUnique
  BY DEF SeqInv
<1> QED
  BY <1>1, SeqInit, SeqStep, TypeInit, TypeStep, PTL DEF Spec
=============================================================================

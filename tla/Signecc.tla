------------------------------ MODULE Signecc -------------------------------
(***************************************************************************)
(* A network of signecc boards: the shell commands that ask for a          *)
(* signature or send a text (cmd.c), the receiving thread that answers and *)
(* verifies (recv.c), and the radio between them, over the boot and the    *)
(* interrupt hand-over of module RecvThread (main.c).                      *)
(*                                                                         *)
(* Every board sends on one netdev, whose sequence number both threads     *)
(* increment: the shell in send(), the receiving thread in send2().  The   *)
(* receiving thread preempts the shell, never the other way round.         *)
(*                                                                         *)
(* External, as the code uses it: the channel, which delivers a frame at   *)
(* any later time, any number of times (MAC retransmissions) or never; the *)
(* address filter of the radio; its one frame buffer; uECC, which may fail *)
(* to sign, in which case the signature is what the stack held.            *)
(***************************************************************************)
EXTENDS Integers

CONSTANTS
  Nodes,            \* the boards that run signecc
  Everyone,         \* the broadcast address
  Stranger,         \* any device nearby that does not run signecc
  Nobody,           \* source of a frame whose MAC header cannot be read
  Foreigners,       \* which of these two are around
  Pans,             \* the PAN identifiers, 0 among them
  BcastPan,         \* the PAN identifier every radio accepts
  Pan,              \* Pan[n]: dev->pan of board n
  Users,            \* bound: the boards whose shells are given commands
  PanArgs,          \* the PANs commands are given, 0 standing for none
  Texts,            \* the texts given to the shell commands
  Tails,            \* what follows the text on the stack, up to a zero byte
  HdrLens,          \* the lengths a MAC header may have
  HdrLen,           \* HdrLen[p][q]: those of boards' frames from PAN p to q
  PubPrefix,        \* the first 32 bytes of l_public1
  NoFrame,          \* no frame in the radio's buffer
  NoBody,           \* the payload of a frame that has none
  SeqMod,           \* dev->seq counts modulo this (2^8 in the code)
  MaxWork           \* bound: commands and receptions in the whole network

ASSUME PansAssumption ==
  /\ 0 \in Pans /\ BcastPan \in Pans
  /\ Pan \in [Nodes -> Pans]
  /\ PanArgs \subseteq Pans

ASSUME HeadersAssumption ==
  /\ HdrLens \subseteq Nat \ {0}
  /\ HdrLen \in [Pans -> [Pans -> SUBSET HdrLens]]

ASSUME BoundsAssumption ==
  SeqMod \in Nat \ {0} /\ MaxWork \in 0 .. SeqMod

ASSUME NamesAssumption ==
  /\ Everyone \notin Nodes /\ Stranger \notin Nodes /\ Nobody \notin Nodes
  /\ Foreigners \subseteq {Stranger, Nobody}
  /\ Everyone # Stranger /\ Stranger # Nobody /\ Everyone # Nobody

VARIABLES
  main, thread, status, irq, missed,    \* see RecvThread
  seq,              \* dev->seq
  shell,            \* the command in progress in the shell's thread
  air,              \* the frames that have been sent
  rxbuf,            \* the frame in the radio's buffer
  behind,           \* what lies in the static buffer of recv.c, from where on
  buffer,           \* what recv() takes that buffer to hold
  txbusy,           \* a frame is being sent, its end not yet signalled
  verdict,          \* the last verification the console has reported
  misread,          \* history: it was one of bytes that are no answer
  raced,            \* history: the receiving thread has cut into a seq++
  work              \* bound: commands given and frames received

RT == INSTANCE RecvThread

threadVars == <<main, thread, status, irq, missed>>
memory     == <<behind, buffer>>
report     == <<verdict, misread>>
vars == <<main, thread, status, irq, missed, seq, shell, air, rxbuf, behind,
          buffer, txbusy, verdict, misread, raced, work>>

-----------------------------------------------------------------------------

Addresses == Nodes \cup {Everyone}
Peers     == Nodes \cup {Stranger}      \* whom an answer may be sent to
SeqNos    == 0 .. SeqMod - 1

(* The first byte of the payload: 0xFF, 0xFE, or 0xEE and all others.      *)
Tags == {"request", "answer", "text"}

(* The byte recv() takes for it may also be a "stray" one, of an earlier   *)
(* header or of the midst of a payload, and have any value.                *)
Seen == Tags \cup {"stray"}

(* A request and a text carry what was typed and what followed it on the   *)
(* stack; an answer carries a signature, valid or not, and a hash.         *)
Written == [text: Texts, tail: Tails]
Signed  == [good: BOOLEAN, hash: Texts \cup {PubPrefix}]

Frame ==
  [tag: Tags, src: Nodes, srcPan: Pans, dst: Addresses \cup {Stranger},
   dstPan: Pans, seq: SeqNos, hdr: HdrLens, body: Written \cup Signed]

Bodies == Written \cup Signed \cup {NoBody}

(* Frames of other devices: without a payload, behind a header of h bytes, *)
(* from Stranger; from Nobody, with no header that can be read (h = 0) or  *)
(* with fewer bytes than it takes.                                         *)
Foreign(s, h) ==
  [tag |-> "stray", src |-> s, srcPan |-> BcastPan, dst |-> Everyone,
   dstPan |-> BcastPan, seq |-> 0, hdr |-> h, body |-> NoBody]

Unreadable == Foreign(Nobody, 0)

ForeignFrames ==
  {f \in {Unreadable} \cup {Foreign(Stranger, h) : h \in HdrLens} : f.src \in Foreigners}

ASSUME FrameAssumption ==
  /\ NoFrame \notin Frame \cup ForeignFrames
  /\ NoBody \notin Written \cup Signed

(* What recv() may take its buffer to hold: the header of the last frame,  *)
(* and what lies behind it.                                                *)
Buffered ==
  [tag: Seen, src: Nodes \cup {Stranger, Nobody}, srcPan: Pans,
   dst: Addresses \cup {Stranger}, dstPan: Pans, seq: SeqNos,
   hdr: HdrLens \cup {0}, body: Bodies]

Verdicts == {"none", "ok", "failed"}

Idle    == [pc |-> "idle"]
Command == [pc: {"loaded", "stored"}, frame: Frame]

(* Types, and: the radio reports a reception exactly when a frame is in    *)
(* its buffer; a board's shell and its receiving thread send in its name;  *)
(* only a board with a shell has a command (main.c:88-121).                *)
TypeOK ==
  /\ RT!TypeOK
  /\ seq     \in [Nodes -> SeqNos]
  /\ shell   \in [Nodes -> Command \cup {Idle}]
  /\ air     \subseteq Frame
  /\ rxbuf   \in [Nodes -> Frame \cup ForeignFrames \cup {NoFrame}]
  /\ behind  \in [Nodes -> [HdrLens -> [tag: Seen, body: Bodies]]]
  /\ buffer  \in [Nodes -> Buffered]
  /\ txbusy  \in [Nodes -> BOOLEAN]
  /\ verdict \in [Nodes -> Verdicts]
  /\ misread \in [Nodes -> BOOLEAN]
  /\ raced   \in [Nodes -> BOOLEAN]
  /\ work    \in 0 .. MaxWork
  /\ \A n \in Nodes :
       /\ "rx" \in status[n] <=> rxbuf[n] # NoFrame
       /\ shell[n].pc # "idle" => main[n] = "shell" /\ shell[n].frame.src = n

Init ==
  /\ RT!Init
  /\ seq     = [n \in Nodes |-> 0]
  /\ shell   = [n \in Nodes |-> Idle]
  /\ air     = {}
  /\ rxbuf   = [n \in Nodes |-> NoFrame]
  /\ behind  = [n \in Nodes |-> [h \in HdrLens |-> [tag |-> "text", body |-> NoBody]]]
  /\ buffer  = [n \in Nodes |-> Unreadable]
  /\ txbusy  = [n \in Nodes |-> FALSE]
  /\ verdict = [n \in Nodes |-> "none"]
  /\ misread = [n \in Nodes |-> FALSE]
  /\ raced   = [n \in Nodes |-> FALSE]
  /\ work    = 0

-----------------------------------------------------------------------------
(* What both send() and send2() do.                                        *)

(* if (dst_pan.u16 == 0) dst_pan = src_pan.                                *)
DstPan(n, pan) == IF pan = 0 THEN Pan[n] ELSE pan

(* The header is shorter within a PAN, and for shorter addresses.          *)
MkFrames(n, tag, d, pan, body) ==
  {[tag |-> tag, src |-> n, srcPan |-> Pan[n], dst |-> d, dstPan |-> DstPan(n, pan),
    seq |-> seq[n], hdr |-> h, body |-> body] : h \in HdrLen[Pan[n]][DstPan(n, pan)]}

Incremented(s) == (s + 1) % SeqMod

(* driver->send: the frame goes out, or an error is printed.               *)
Send(n, f) ==
  \/ /\ air' = air \cup {f}
     /\ txbusy' = [txbusy EXCEPT ![n] = TRUE]
  \/ UNCHANGED <<air, txbusy>>

-----------------------------------------------------------------------------
(* The shell: txtreqsign and txtsnd, up to the three steps of send() that  *)
(* other contexts can tell apart.                                          *)

(* The shell has the processor when the receiving thread is blocked.       *)
ShellRuns(n) == main[n] = "shell" /\ thread[n] = "blocked"

(* A command is parsed, its frame is laid out, and dev->seq is loaded.     *)
(* pan is 0 when the command names none.                                   *)
Load(n, tag, d, pan, body) ==
  /\ n \in Users /\ ShellRuns(n) /\ shell[n] = Idle
  /\ work < MaxWork
  /\ work' = work + 1
  /\ \E f \in MkFrames(n, tag, d, pan, body) :
       shell' = [shell EXCEPT ![n] = [pc |-> "loaded", frame |-> f]]
  /\ UNCHANGED <<threadVars, seq, air, rxbuf, memory, txbusy, report, raced>>

(* The second half of dev->seq++.                                          *)
Store(n) ==
  /\ ShellRuns(n) /\ shell[n].pc = "loaded"
  /\ seq' = [seq EXCEPT ![n] = Incremented(shell[n].frame.seq)]
  /\ shell' = [shell EXCEPT ![n].pc = "stored"]
  /\ UNCHANGED <<threadVars, air, rxbuf, memory, txbusy, report, raced, work>>

(* The header is completed, which fails for an address it has no form for, *)
(* and driver->send is called, which may fail as well.                     *)
Transmit(n) ==
  /\ ShellRuns(n) /\ shell[n].pc = "stored"
  /\ Send(n, shell[n].frame)
  /\ shell' = [shell EXCEPT ![n] = Idle]
  /\ UNCHANGED <<threadVars, seq, rxbuf, memory, report, raced, work>>

-----------------------------------------------------------------------------
(* The radio.                                                              *)

(* The address filter of the transceiver.                                  *)
Hears(n, f) ==
  f.src # n /\ f.dst \in {n, Everyone} /\ f.dstPan \in {Pan[n], BcastPan}

(* Radio n has received f; a frame not yet read is overwritten.            *)
Receive(n, f) ==
  /\ Hears(n, f)
  /\ work < MaxWork
  /\ work' = work + 1
  /\ RT!RadioEvent(n, "rx")
  /\ rxbuf' = [rxbuf EXCEPT ![n] = f]
  /\ UNCHANGED <<seq, shell, air, memory, txbusy, report, raced>>

TxEnd(n) ==
  /\ txbusy[n]
  /\ txbusy' = [txbusy EXCEPT ![n] = FALSE]
  /\ RT!RadioEvent(n, "tx")
  /\ UNCHANGED <<seq, shell, air, rxbuf, memory, report, raced, work>>

-----------------------------------------------------------------------------
(* The receiving thread.                                                   *)

(* driver->recv copies the frame to the start of buffer and leaves the     *)
(* rest of it as it was, m[h] being what lies there from byte h on: the    *)
(* payload of f lies behind its own header; where there is none, whatever  *)
(* was there before is left from the end of the header on; anywhere else   *)
(* the frame may have written over it or not.                              *)
Copied(m, f) ==
  [h \in HdrLens |->
     IF f.body # NoBody /\ h = f.hdr THEN [tag |-> f.tag, body |-> f.body]
     ELSE IF f.body = NoBody /\ f.hdr \in 1 .. h THEN m[h]
     ELSE [m[h] EXCEPT !.tag = "stray"]]

(* What recv() finds: buffer[mhr_len] is the first byte of the payload if  *)
(* the frame has one.                                                      *)
Parsed(m, f) ==
  IF f.hdr = 0 THEN f ELSE [f EXCEPT !.tag = m[f.hdr].tag, !.body = m[f.hdr].body]

(* The first call of recv(): driver->recv gives f.                         *)
Read(n, f) ==
  /\ behind' = [behind EXCEPT ![n] = Copied(@, f)]
  /\ buffer' = [buffer EXCEPT ![n] = Parsed(behind'[n], f)]

(* A plausible slip: the frame read stays in the radio's buffer.           *)
IsrKeepsFrame(n) ==
  /\ RT!Isr(n)
  /\ IF "rx" \in status[n] THEN Read(n, rxbuf[n]) ELSE UNCHANGED memory
  /\ UNCHANGED <<seq, shell, air, rxbuf, txbusy, report, raced, work>>

(* dev->driver->isr(dev), and of recv() driver->recv, which gives the      *)
(* frame or, when it fails, fewer bytes than any header takes; whether     *)
(* recv() then finds a header depends on what is left in the buffer.       *)
Isr(n) ==
  /\ RT!Isr(n)
  /\ IF "rx" \in status[n]
     THEN /\ \E f \in {rxbuf[n], Unreadable} : Read(n, f)
          /\ rxbuf' = [rxbuf EXCEPT ![n] = NoFrame]
     ELSE UNCHANGED <<memory, rxbuf>>
  /\ UNCHANGED <<seq, shell, air, txbusy, report, raced, work>>

(* "Unexpected MHR for incoming packet".                                   *)
Discard(n) ==
  /\ buffer[n].src = Nobody
  /\ RT!Discard(n)
  /\ UNCHANGED <<seq, shell, air, rxbuf, memory, txbusy, report, raced, work>>

(* Fewer bytes than the header takes: od_hex_dump is told to print         *)
(* data_len - mhr_len of them.                                             *)
Overrun(n) ==
  /\ buffer[n].src = Nobody
  /\ RT!Overrun(n)
  /\ UNCHANGED <<seq, shell, air, rxbuf, memory, txbusy, report, raced, work>>

(* The hash that is signed: l_hash, computed over the request and then     *)
(* overwritten with the first half of the public key.                      *)
SignedHash(body) == PubPrefix

(* A plausible slip: the answer is sent to the board's own PAN.            *)
ReplyOwnPan(n, good) ==
  MkFrames(n, "answer", buffer[n].src, 0,
           [good |-> good, hash |-> SignedHash(buffer[n].body)])

(* 0xFE, signature and hash, to where the request came from.               *)
Reply(n, good) ==
  MkFrames(n, "answer", buffer[n].src, buffer[n].srcPan,
           [good |-> good, hash |-> SignedHash(buffer[n].body)])

(* switch(buffer[mhr_len]): recv() goes on as for tag.                     *)
Switch(n, tag) ==
  /\ buffer[n].src # Nobody /\ buffer[n].tag \in {tag, "stray"}
  /\ RT!Handle(n)

(* A plausible slip: send2 uses dev->seq without incrementing it.          *)
AnswerSameSeq(n) ==
  /\ Switch(n, "request")
  /\ \E good \in BOOLEAN : \E f \in Reply(n, good) : Send(n, f)
  /\ raced' = [raced EXCEPT ![n] = @ \/ shell[n].pc = "loaded"]
  /\ UNCHANGED <<seq, shell, rxbuf, memory, report, work>>

(* A plausible slip: the answer goes back to where the request went.       *)
AnswerDst(n) ==
  /\ Switch(n, "request")
  /\ \E good \in BOOLEAN : \E f \in Reply(n, good) :
       Send(n, [f EXCEPT !.dst = buffer[n].dst])
  /\ seq' = [seq EXCEPT ![n] = Incremented(@)]
  /\ raced' = [raced EXCEPT ![n] = @ \/ shell[n].pc = "loaded"]
  /\ UNCHANGED <<shell, rxbuf, memory, report, work>>

(* A plausible slip: case 0xFF has no break and goes on as case 0xFE,      *)
(* where a request is no signature.                                        *)
AnswerFallsThrough(n) ==
  /\ Switch(n, "request")
  /\ \E good \in BOOLEAN : \E f \in Reply(n, good) : Send(n, f)
  /\ seq' = [seq EXCEPT ![n] = Incremented(@)]
  /\ raced' = [raced EXCEPT ![n] = @ \/ shell[n].pc = "loaded"]
  /\ verdict' = [verdict EXCEPT ![n] = "failed"]
  /\ UNCHANGED <<shell, rxbuf, memory, misread, work>>

(* case 0xFF: sign, whether or not signing succeeds answer the source of   *)
(* the frame with signature and hash, whether or not sending succeeds go   *)
(* on.  dev->seq++ in this thread is not interrupted by another use of it. *)
Answer(n) ==
  /\ Switch(n, "request")
  /\ \E good \in BOOLEAN : \E f \in Reply(n, good) : Send(n, f)
  /\ seq' = [seq EXCEPT ![n] = Incremented(@)]
  /\ raced' = [raced EXCEPT ![n] = @ \/ shell[n].pc = "loaded"]
  /\ UNCHANGED <<shell, rxbuf, memory, report, work>>

(* A plausible slip: the comparison of uECC_verify's result is inverted,   *)
(* as that of uECC_sign_deterministic's is.                                *)
JudgeInverted(n) ==
  /\ Switch(n, "answer") /\ buffer[n].body \in Signed
  /\ verdict' = [verdict EXCEPT ![n] =
                   IF buffer[n].body.good THEN "failed" ELSE "ok"]
  /\ misread' = [misread EXCEPT ![n] = FALSE]
  /\ UNCHANGED <<seq, shell, air, rxbuf, memory, txbusy, raced, work>>

(* case 0xFE: verify the signature against the hash that came with it.     *)
Judge(n) ==
  /\ Switch(n, "answer") /\ buffer[n].body \in Signed
  /\ verdict' = [verdict EXCEPT ![n] =
                   IF buffer[n].body.good THEN "ok" ELSE "failed"]
  /\ misread' = [misread EXCEPT ![n] = FALSE]
  /\ UNCHANGED <<seq, shell, air, rxbuf, memory, txbusy, raced, work>>

(* case 0xFE for a stray byte: what follows it is no signature.            *)
Misjudge(n) ==
  /\ Switch(n, "answer") /\ buffer[n].tag = "stray"
  /\ verdict' = [verdict EXCEPT ![n] = "failed"]
  /\ misread' = [misread EXCEPT ![n] = TRUE]
  /\ UNCHANGED <<seq, shell, air, rxbuf, memory, txbusy, raced, work>>

(* default: "ERROR, msg not recognized".                                   *)
NotRecognized(n) ==
  /\ Switch(n, "text")
  /\ UNCHANGED <<seq, shell, air, rxbuf, memory, txbusy, report, raced, work>>

(* recv() prints the text and returns.                                     *)
Return(n) ==
  /\ RT!Return(n)
  /\ UNCHANGED <<seq, shell, air, rxbuf, memory, txbusy, report, raced, work>>

-----------------------------------------------------------------------------

(* The boot of a board, the interrupt of its radio, and a fault of its     *)
(* processor.                                                              *)
Underneath(n) ==
  /\ RT!Boot(n) \/ RT!EventCbIsr(n) \/ RT!HardFault(n)
  /\ UNCHANGED <<seq, shell, air, rxbuf, memory, txbusy, report, raced, work>>

Shell(n) ==
  \/ \E tag \in {"request", "text"}, d \in Addresses, pan \in PanArgs, body \in Written :
       Load(n, tag, d, pan, body)
  \/ Store(n)
  \/ Transmit(n)

Radio(n) ==
  \/ \E f \in air \cup ForeignFrames : Receive(n, f)
  \/ TxEnd(n)

Run(n) ==
  \/ Isr(n) \/ Discard(n) \/ Overrun(n)
  \/ Answer(n) \/ Judge(n) \/ Misjudge(n) \/ NotRecognized(n)
  \/ Return(n)

Next == \E n \in Nodes : Underneath(n) \/ Shell(n) \/ Radio(n) \/ Run(n)

Spec == Init /\ [][Next]_vars

-----------------------------------------------------------------------------

(* Two frames of a board carry the same sequence number only if the        *)
(* receiving thread answered between the two halves of a command's         *)
(* dev->seq++, and never if both were sent by the shell (cmd.c:330,        *)
(* recv.c:112).                                                            *)
SeqUnique ==
  \A f, g \in air :
    f # g /\ f.src = g.src /\ f.seq = g.seq =>
      raced[f.src] /\ "answer" \in {f.tag, g.tag}

(* An answer can be heard by the board that asked for it: it carries its   *)
(* address and its PAN, also across PANs, unless that PAN is 0, which      *)
(* send2() takes for "not given" (recv.c:97-99, 286).                      *)
AnswersReachAsker ==
  \A f \in air :
    f.tag = "answer" /\ f.dst # Stranger =>
      f.dst \in Nodes /\ (Pan[f.dst] # 0 => Hears(f.dst, f))

(* What the console says of a signature is what the last answer that was   *)
(* read deserves, also when a frame without a payload makes recv() read it *)
(* again: "OK" means that some board has signed for this one and "FAILED"  *)
(* that one has failed to.  Only a "FAILED" can be said of no answer, when *)
(* the header of another device's empty frame does not end where the       *)
(* payload before it began (recv.c:168, 239-329).                          *)
VerdictIsOfAnswer ==
  \A n \in Nodes :
    /\ verdict[n] = "failed" /\ ~misread[n] =>
         \E f \in air : f.tag = "answer" /\ f.dst = n /\ ~f.body.good
    /\ verdict[n] = "ok" =>
         \E f \in air : f.tag = "answer" /\ f.dst = n /\ f.body.good
    /\ (buffer[n].tag = "answer" /\ thread[n] # "handling") =>
         verdict[n] = IF buffer[n].body.good THEN "ok" ELSE "failed"
    /\ misread[n] => verdict[n] = "failed" /\ Stranger \in Foreigners

-----------------------------------------------------------------------------
(* The service this network implements.                                    *)

Asked == {<<f.src, f.dst>> : f \in {g \in air : g.tag = "request"}}

Message(f) ==
  [kind |-> f.tag, from |-> f.src, to |-> f.dst,
   good |-> IF f.tag = "answer" THEN f.body.good ELSE FALSE]

(* Texts mean nothing to the service, nor do answers to other devices.     *)
OfService(f) == f.tag # "text" /\ f.dst # Stranger

InFlight == {Message(f) : f \in {g \in air : OfService(g)}}

Service ==
  INSTANCE SignService WITH asked <- Asked, inflight <- InFlight, disturbed <- misread

(* The boards, their interrupts, races and lost, repeated and reordered    *)
(* frames together do no more than the service: ask, answer who asked,     *)
(* and print the verdict an answer deserves.                               *)
ImplementsService == Service!Spec

(* What the service promises, of the frames on the air: nobody is answered *)
(* unasked, by a board that only overheard the request or for a repeated   *)
(* one (recv.c:243-288); and only a board that has asked another one       *)
(* prints a verdict (recv.c:292-324).                                      *)
AnswersAreAsked  == Service!AnswersAreAsked
VerdictsAreAsked == Service!VerdictsAreAsked

(* "request sign of text" (main.c:42), "<iface> [<pan>] <addr> <text>"     *)
(* (cmd.c:144): what a request carries is the text that was typed.         *)
RequestCarriesText ==
  \A f \in air : f.tag = "request" => f.body.tail = ""

(* "calculate hash" (recv.c:254), "Calculated hash: " (recv.c:277): the    *)
(* hash in an answer is that of a text its sender was asked to sign.       *)
AnswerHashesText ==
  \A f \in air :
    f.tag = "answer" /\ f.dst \in Nodes =>
      \E g \in air : /\ g.tag = "request" /\ g.src = f.dst
                     /\ f.body.hash = g.body.text
=============================================================================

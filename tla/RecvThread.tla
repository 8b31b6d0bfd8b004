----------------------------- MODULE RecvThread -----------------------------
(***************************************************************************)
(* The boot of a signecc node and the hand-over of a radio interrupt to    *)
(* the thread that receives frames (node_riot/signecc/main.c).             *)
(*                                                                         *)
(* Three contexts run on one processor: main(), which ends as the shell;   *)
(* the receiving thread, of higher priority (THREAD_PRIORITY_MAIN - 1);    *)
(* and the radio's interrupt, which may come between any two steps and     *)
(* runs _event_cb.  The receiving thread has no message queue (main.c      *)
(* never calls msg_init_queue), so a message sent from the interrupt finds *)
(* it blocked in msg_receive or is not delivered: _event_cb then prints    *)
(* "possibly lost interrupt" and goes on.                                  *)
(*                                                                         *)
(* The radio, the RIOT kernel and the driver are not part of the           *)
(* repository.  They appear as main.c uses them: the radio latches events  *)
(* and interrupts, dev->driver->isr consumes what is latched and calls     *)
(* back, msg_send delivers to a blocked receiver.                          *)
(***************************************************************************)

CONSTANT Nodes      \* the boards that run signecc

VARIABLES
  main,             \* how far main() has come
  thread,           \* what the receiving thread is doing
  status,           \* events latched in the radio, not yet read by its driver
  irq,              \* an interrupt of the radio waits for the processor
  missed            \* "possibly lost interrupt" printed since the last isr()

vars == <<main, thread, status, irq, missed>>

-----------------------------------------------------------------------------

(* main(): "setup" until driver->init returns, "init" until thread_create  *)
(* returns, "creating" while the thread exists and _recv_pid is not yet    *)
(* assigned, "shell" from there on; "failed" is the return after a failed  *)
(* thread_create.                                                          *)
MainStates == {"setup", "init", "creating", "shell", "failed"}

(* The receiving thread: blocked in msg_receive; "signalled" when it has   *)
(* been handed a message; "handling" from the start of recv() to the end   *)
(* of the switch on the first byte; "printing" for the rest of recv();     *)
(* "overrun" while it reads on beyond a frame, and "dead", as the whole    *)
(* board is, when that has ended in a fault of the processor.              *)
ThreadStates ==
  {"none", "blocked", "signalled", "handling", "printing", "overrun", "dead"}

Events == {"rx", "tx"}    \* a frame has been received; a frame has been sent

(* Types, and: there is a receiving thread exactly when main() has created *)
(* one, and it is out of msg_receive only on a node whose shell runs       *)
(* (main.c:88-121).                                                        *)
TypeOK ==
  /\ main   \in [Nodes -> MainStates]
  /\ thread \in [Nodes -> ThreadStates]
  /\ status \in [Nodes -> SUBSET Events]
  /\ irq    \in [Nodes -> BOOLEAN]
  /\ missed \in [Nodes -> BOOLEAN]
  /\ \A n \in Nodes :
       /\ thread[n] = "none" <=> main[n] \in {"setup", "init", "failed"}
       /\ thread[n] \notin {"none", "blocked"} => main[n] = "shell"

Init ==
  /\ main   = [n \in Nodes |-> "setup"]
  /\ thread = [n \in Nodes |-> "none"]
  /\ status = [n \in Nodes |-> {}]
  /\ irq    = [n \in Nodes |-> FALSE]
  /\ missed = [n \in Nodes |-> FALSE]

-----------------------------------------------------------------------------
(* The boot, main().                                                       *)

(* The loop over at86rf2xx_params, of which the boards have one: register  *)
(* _event_cb and start the radio.  From here on it may interrupt.          *)
InitDevice(n) ==
  /\ main[n] = "setup"
  /\ main' = [main EXCEPT ![n] = "init"]
  /\ UNCHANGED <<thread, status, irq, missed>>

(* A plausible slip: the result of thread_create is not looked at.         *)
CreateThreadUnchecked(n) ==
  /\ main[n] = "init"
  /\ main' = [main EXCEPT ![n] = "creating"]
  /\ thread' \in {[thread EXCEPT ![n] = "blocked"], thread}
  /\ UNCHANGED <<status, irq, missed>>

(* thread_create: the new thread has the higher priority and runs at once, *)
(* to its first msg_receive, before main() has the pid to assign.  When it *)
(* fails, main() returns.                                                  *)
CreateThread(n) ==
  /\ main[n] = "init"
  /\ \/ /\ main' = [main EXCEPT ![n] = "creating"]
        /\ thread' = [thread EXCEPT ![n] = "blocked"]
     \/ /\ main' = [main EXCEPT ![n] = "failed"]
        /\ UNCHANGED thread
  /\ UNCHANGED <<status, irq, missed>>

(* main() goes on when the thread is blocked: assign _recv_pid, enter the  *)
(* shell.                                                                  *)
PublishPid(n) ==
  /\ main[n] = "creating"
  /\ main' = [main EXCEPT ![n] = "shell"]
  /\ UNCHANGED <<thread, status, irq, missed>>

-----------------------------------------------------------------------------
(* The radio and its interrupt.                                            *)

(* The radio latches event e.  The first event since the driver read the   *)
(* status raises an interrupt; whether a further one does depends on the   *)
(* chip, so both outcomes are allowed.                                     *)
RadioEvent(n, e) ==
  /\ main[n] # "setup"
  /\ status' = [status EXCEPT ![n] = @ \cup {e}]
  /\ \/ irq' = [irq EXCEPT ![n] = TRUE]
     \/ status[n] # {} /\ UNCHANGED irq
  /\ UNCHANGED <<main, thread, missed>>

(* A plausible slip: the result of msg_send is not looked at.              *)
EventCbIsrSilent(n) ==
  /\ irq[n] /\ thread[n] # "dead"
  /\ irq' = [irq EXCEPT ![n] = FALSE]
  /\ thread' = IF main[n] = "shell" /\ thread[n] = "blocked"
               THEN [thread EXCEPT ![n] = "signalled"] ELSE thread
  /\ UNCHANGED <<main, status, missed>>

(* _event_cb with NETDEV_EVENT_ISR, in interrupt context: msg_send to      *)
(* _recv_pid, which is assigned once main() is in the shell.               *)
EventCbIsr(n) ==
  /\ irq[n] /\ thread[n] # "dead"
  /\ irq' = [irq EXCEPT ![n] = FALSE]
  /\ IF main[n] = "shell" /\ thread[n] = "blocked"
     THEN thread' = [thread EXCEPT ![n] = "signalled"] /\ UNCHANGED missed
     ELSE missed' = [missed EXCEPT ![n] = TRUE] /\ UNCHANGED thread
  /\ UNCHANGED <<main, status>>

-----------------------------------------------------------------------------
(* The receiving thread.                                                   *)

(* A plausible slip: only the reception is consumed, the end of a          *)
(* transmission stays latched.                                             *)
IsrKeepsTx(n) ==
  /\ thread[n] = "signalled"
  /\ status' = [status EXCEPT ![n] = @ \ {"rx"}]
  /\ missed' = [missed EXCEPT ![n] = FALSE]
  /\ thread' = [thread EXCEPT ![n] = IF "rx" \in status[n] THEN "handling" ELSE "blocked"]
  /\ UNCHANGED <<main, irq>>

(* dev->driver->isr(dev) on a message of type MSG_TYPE_ISR: the driver     *)
(* reads and clears what is latched and calls _event_cb back.              *)
(* NETDEV_EVENT_RX_COMPLETE enters recv(); any other event only prints     *)
(* "Unexpected event received".                                            *)
Isr(n) ==
  /\ thread[n] = "signalled"
  /\ status' = [status EXCEPT ![n] = {}]
  /\ missed' = [missed EXCEPT ![n] = FALSE]
  /\ thread' = [thread EXCEPT ![n] = IF "rx" \in status[n] THEN "handling" ELSE "blocked"]
  /\ UNCHANGED <<main, irq>>

(* recv() returns early: no MAC header could be read from the frame.       *)
Discard(n) ==
  /\ thread[n] = "handling"
  /\ thread' = [thread EXCEPT ![n] = "blocked"]
  /\ UNCHANGED <<main, status, irq, missed>>

(* recv() prints the header and acts on the first byte of the payload.     *)
Handle(n) ==
  /\ thread[n] = "handling"
  /\ thread' = [thread EXCEPT ![n] = "printing"]
  /\ UNCHANGED <<main, status, irq, missed>>

(* recv() is given fewer bytes than the header takes, by a frame shorter   *)
(* than its header or by a driver->recv that fails: the count of what is   *)
(* left underflows, and od_hex_dump reads on, through all of the memory.   *)
Overrun(n) ==
  /\ thread[n] = "handling"
  /\ thread' = [thread EXCEPT ![n] = "overrun"]
  /\ UNCHANGED <<main, status, irq, missed>>

(* It has come to where there is no memory; RIOT, which is built with      *)
(* DEVELHELP, halts.                                                       *)
HardFault(n) ==
  /\ thread[n] = "overrun"
  /\ thread' = [thread EXCEPT ![n] = "dead"]
  /\ UNCHANGED <<main, status, irq, missed>>

(* A plausible slip: recv() waits for the end of the frame it has sent.    *)
ReturnAfterTx(n) ==
  /\ thread[n] = "printing" /\ "tx" \in status[n]
  /\ thread' = [thread EXCEPT ![n] = "blocked"]
  /\ UNCHANGED <<main, status, irq, missed>>

(* recv() prints the payload and returns, through the driver, to           *)
(* msg_receive.                                                            *)
Return(n) ==
  /\ thread[n] = "printing"
  /\ thread' = [thread EXCEPT ![n] = "blocked"]
  /\ UNCHANGED <<main, status, irq, missed>>

Boot(n) == InitDevice(n) \/ CreateThread(n) \/ PublishPid(n)
Run(n)  == Isr(n) \/ Discard(n) \/ Handle(n) \/ Overrun(n) \/ Return(n)

Next ==
  \E n \in Nodes :
    \/ Boot(n)
    \/ \E e \in Events : RadioEvent(n, e)
    \/ EventCbIsr(n)
    \/ Run(n)
    \/ HardFault(n)

(* Until it faults the processor never stops: a pending interrupt is       *)
(* taken, and a runnable thread runs.  Nothing is assumed of the radio,    *)
(* nor of how long a thread that has overrun goes on.                      *)
Fairness ==
  \A n \in Nodes : WF_vars(Boot(n)) /\ WF_vars(EventCbIsr(n)) /\ WF_vars(Run(n))

SafeSpec == Init /\ [][Next]_vars
Spec     == SafeSpec /\ Fairness

-----------------------------------------------------------------------------

(* No radio event is lost in silence.  As long as an event is latched, an  *)
(* interrupt is on its way, or the thread has been handed one and not yet  *)
(* called isr(), or the console has said "possibly lost interrupt"         *)
(* (main.c:48-57, 75-81).                                                  *)
Announced(n) == irq[n] \/ thread[n] = "signalled" \/ missed[n]
UnservedIsAnnounced == \A n \in Nodes : status[n] # {} => Announced(n)

(* Every latched event is read by the driver, unless its interrupt was     *)
(* announced as lost (main.c:54-56) or the board has stopped.              *)
Served ==
  \A n \in Nodes :
    (status[n] # {}) ~> (status[n] = {} \/ missed[n] \/ thread[n] = "dead")

(* The receiving thread waits for nobody, whatever the radio does: it      *)
(* finishes the message it was handed and comes back to msg_receive, where *)
(* the next one can reach it, unless the frame it was given made it        *)
(* overrun, from where it never comes back (main.c:73-86, recv.c:167-172,  *)
(* 229).                                                                   *)
BackToReceive ==
  \A n \in Nodes :
    /\ (thread[n] \notin {"none", "blocked"}) ~> (thread[n] \in {"blocked", "overrun", "dead"})
    /\ [](thread[n] \in {"overrun", "dead"} => [](thread[n] \in {"overrun", "dead"}))
=============================================================================

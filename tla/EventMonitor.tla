---------------------------- MODULE EventMonitor ----------------------------
(***************************************************************************)
(* os_lab1/monitor.cpp: a producer thread hands EventCount events, one at  *)
(* a time, to a consumer thread through a monitor with one mutex, one      *)
(* condition variable and one slot; main joins the producer, shuts the     *)
(* monitor down and joins the consumer.                                    *)
(*                                                                         *)
(* The mutex is held from the entry of a method to its return or its wait, *)
(* so what a method does in between is one step.  A thread in the wait set *)
(* leaves it when it is notified, or spuriously, and then tests its        *)
(* predicate again.                                                        *)
(***************************************************************************)
EXTENDS Naturals, Sequences, FiniteSets

CONSTANT EventCount  \* EVENT_COUNT

ASSUME CountAssumption == EventCount \in Nat \ {0}

NoEvent == 0

VARIABLES hasEvent, isShutdown, event,  \* the monitor
          waitSet,       \* threads blocked in cond_.wait
          producerDone,  \* the atomic flag of main()
          ppc, i,        \* the producer: where it is, its loop variable
          cpc, ev,       \* the consumer: where it is, the event it has
          mpc,           \* the main thread
          sent, received \* history: ids put into and taken from the slot

monitorVars == <<hasEvent, isShutdown, event, waitSet>>
producerVars == <<ppc, i, producerDone, sent>>
consumerVars == <<cpc, ev, received>>
programVars == <<monitorVars, producerVars, consumerVars, mpc>>

MonitorInit ==
    /\ hasEvent = FALSE /\ isShutdown = FALSE /\ event = NoEvent
    /\ waitSet = {}
    /\ producerDone = FALSE
    /\ ppc = "make" /\ i = 1
    /\ cpc = "wait" /\ ev = NoEvent
    /\ mpc = "joinProducer"
    /\ sent = <<>> /\ received = <<>>
-----------------------------------------------------------------------------
(***************************************************************************)
(* cond_.notify_one() wakes some waiting thread, if there is one.          *)
(* (NoNotify, here and below, is the slip of forgetting it.)               *)
(***************************************************************************)
NoNotify == UNCHANGED waitSet

NotifyOne == IF waitSet = {} THEN UNCHANGED waitSet
             ELSE \E t \in waitSet : waitSet' = waitSet \ {t}

NotifyAll == waitSet' = {}

(***************************************************************************)
(* The kernel may wake a waiting thread for no reason.                     *)
(***************************************************************************)
SpuriousWakeup ==
    /\ \E t \in waitSet : waitSet' = waitSet \ {t}
    /\ UNCHANGED <<hasEvent, isShutdown, event, producerVars, consumerVars, mpc>>

(***************************************************************************)
(* The producer sleeps and makes its next event; the loop ends after the   *)
(* last one.                                                               *)
(***************************************************************************)
MakeEvent ==
    /\ ppc = "make"
    /\ IF i <= EventCount THEN ppc' = "send" /\ UNCHANGED producerDone
                          ELSE ppc' = "done" /\ producerDone' = TRUE
    /\ UNCHANGED <<i, sent, monitorVars, consumerVars, mpc>>

(***************************************************************************)
(* make_shared throws: the catch block ends the thread, and producerDone   *)
(* stays false.                                                            *)
(***************************************************************************)
ProducerThrows ==
    /\ ppc = "make" /\ i <= EventCount
    /\ ppc' = "done"
    /\ UNCHANGED <<i, producerDone, sent, monitorVars, consumerVars, mpc>>

(***************************************************************************)
(* sendEvent: wait until the slot is free, then fill it.  A producer that  *)
(* finds the monitor shut down leaves its loop.                            *)
(***************************************************************************)
SendBlocks ==
    /\ ppc = "send" /\ "producer" \notin waitSet
    /\ hasEvent /\ ~isShutdown
    /\ waitSet' = waitSet \cup {"producer"}
    /\ UNCHANGED <<hasEvent, isShutdown, event, producerVars, consumerVars, mpc>>

Put ==
    /\ event' = i
    /\ hasEvent' = TRUE
    /\ NotifyOne
    /\ sent' = Append(sent, i)
    /\ i' = i + 1
    /\ ppc' = "make"
    /\ UNCHANGED producerDone

Refused ==
    /\ ppc' = "done" /\ producerDone' = TRUE
    /\ UNCHANGED <<i, sent, hasEvent, event, waitSet>>

SendOverwrites ==
    /\ ppc = "send" /\ "producer" \notin waitSet
    /\ IF isShutdown THEN Refused ELSE Put
    /\ UNCHANGED <<isShutdown, consumerVars, mpc>>

SendEvent ==
    /\ ppc = "send" /\ "producer" \notin waitSet
    /\ ~hasEvent \/ isShutdown
    /\ IF isShutdown THEN Refused ELSE Put
    /\ UNCHANGED <<isShutdown, consumerVars, mpc>>

(***************************************************************************)
(* waitEvent: wait until the slot is full or the monitor is shut down.     *)
(* (SendOverwrites and WaitEndsEagerly are slips: the producer does not    *)
(* wait, the consumer leaves an event behind.)                             *)
(***************************************************************************)
WaitBlocks ==
    /\ cpc = "wait" /\ "consumer" \notin waitSet
    /\ ~hasEvent /\ ~isShutdown
    /\ waitSet' = waitSet \cup {"consumer"}
    /\ UNCHANGED <<hasEvent, isShutdown, event, producerVars, consumerVars, mpc>>

WaitEvent ==
    /\ cpc = "wait" /\ "consumer" \notin waitSet
    /\ hasEvent
    /\ ev' = event
    /\ hasEvent' = FALSE
    /\ received' = Append(received, event)
    /\ NotifyOne
    /\ cpc' = "process"
    /\ UNCHANGED <<isShutdown, event, producerVars, mpc>>

WaitEndsEagerly ==
    /\ cpc = "wait" /\ "consumer" \notin waitSet
    /\ isShutdown
    /\ cpc' = "done"
    /\ UNCHANGED <<ev, received, monitorVars, producerVars, mpc>>

WaitEnds ==
    /\ cpc = "wait" /\ "consumer" \notin waitSet
    /\ ~hasEvent /\ isShutdown
    /\ cpc' = "done"
    /\ UNCHANGED <<ev, received, monitorVars, producerVars, mpc>>

(***************************************************************************)
(* The consumer works on the event and leaves if it knows it was the last. *)
(***************************************************************************)
Process ==
    /\ cpc = "process"
    /\ cpc' = IF producerDone /\ ev = EventCount THEN "done" ELSE "wait"
    /\ UNCHANGED <<ev, received, monitorVars, producerVars, mpc>>

(***************************************************************************)
(* main(): the 200 ms it sleeps before shutdown() order nothing.           *)
(***************************************************************************)
Shutdown ==
    /\ mpc = "joinProducer" /\ ppc = "done"
    /\ isShutdown' = TRUE
    /\ NotifyAll
    /\ mpc' = "joinConsumer"
    /\ UNCHANGED <<hasEvent, event, producerVars, consumerVars>>

Finish ==
    /\ mpc = "joinConsumer" /\ cpc = "done"
    /\ mpc' = "finished"
    /\ UNCHANGED <<monitorVars, producerVars, consumerVars>>

ProducerStep == MakeEvent \/ ProducerThrows \/ SendBlocks \/ SendEvent
ConsumerStep == WaitBlocks \/ WaitEvent \/ WaitEnds \/ Process
MainStep == Shutdown \/ Finish

Terminated == mpc = "finished" /\ UNCHANGED programVars

MonitorNext == ProducerStep \/ ConsumerStep \/ MainStep \/ SpuriousWakeup \/ Terminated

MonitorSpec == MonitorInit /\ [][MonitorNext]_programVars

(***************************************************************************)
(* The scheduler runs every thread that can run; nobody counts on spurious *)
(* wakeups.                                                                *)
(***************************************************************************)
FairMonitorSpec ==
    /\ MonitorSpec
    /\ WF_programVars(ProducerStep)
    /\ WF_programVars(ConsumerStep)
    /\ WF_programVars(MainStep)
-----------------------------------------------------------------------------
(***************************************************************************)
(* Types of all variables.                                                 *)
(***************************************************************************)
MonitorTypeOK ==
    /\ hasEvent \in BOOLEAN /\ isShutdown \in BOOLEAN /\ producerDone \in BOOLEAN
    /\ event \in 0..EventCount /\ ev \in 0..EventCount /\ i \in 1..(EventCount + 1)
    /\ waitSet \subseteq {"producer", "consumer"}
    /\ ppc \in {"make", "send", "done"}
    /\ cpc \in {"wait", "process", "done"}
    /\ mpc \in {"joinProducer", "joinConsumer", "finished"}
    /\ sent \in Seq(Nat) /\ received \in Seq(Nat)

(***************************************************************************)
(* The two threads never wait at the same time.  They share one condition  *)
(* variable and wake each other with notify_one, which picks any waiter:   *)
(* were both waiting, a notification meant for one could go to the other.  *)
(***************************************************************************)
NeverBothWaiting == waitSet # {"producer", "consumer"}

(***************************************************************************)
(* Every event put into the slot is taken once, in order, and at most one  *)
(* is on its way.                                                          *)
(***************************************************************************)
InOrder == sent = IF hasEvent THEN Append(received, event) ELSE received

(***************************************************************************)
(* When main prints "All events processed successfully"                    *)
(* (monitor.cpp:206), the consumer has received every event that was sent, *)
(* and all EventCount of them if the producer did not fail: shutdown()     *)
(* cuts no event off, however late the consumer is.                        *)
(***************************************************************************)
AllProcessed ==
    mpc = "finished" =>
        /\ received = sent
        /\ producerDone => Len(received) = EventCount

(***************************************************************************)
(* Why the wait sets exclude each other: who waits, waits for a reason     *)
(* that still holds, and the reasons contradict each other.                *)
(***************************************************************************)
WaitersHaveReason ==
    /\ "producer" \in waitSet => ppc = "send" /\ hasEvent
    /\ "consumer" \in waitSet => cpc = "wait" /\ ~hasEvent

(***************************************************************************)
(* How far the three threads can be from each other.                       *)
(***************************************************************************)
ThreadsInStep ==
    /\ Len(sent) = i - 1
    /\ ppc = "send" => i <= EventCount
    /\ producerDone => ppc = "done" /\ i = EventCount + 1
    /\ isShutdown => ppc = "done"
    /\ cpc = "process" => ev = Len(received)
    /\ hasEvent => event = i - 1
    /\ cpc = "done" => ppc = "done" /\ ~hasEvent
    /\ mpc = "finished" => cpc = "done"

(***************************************************************************)
(* The inductive invariant behind the three invariants above.              *)
(***************************************************************************)
MonitorInvariant == MonitorTypeOK /\ WaitersHaveReason /\ InOrder /\ ThreadsInStep

(***************************************************************************)
(* The program ends: no wakeup is lost.                                    *)
(***************************************************************************)
Ends == <>(mpc = "finished")
=============================================================================

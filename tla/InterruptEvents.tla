--------------------------- MODULE InterruptEvents ---------------------------
(***************************************************************************)
(* The event stream of the kernel driver, driver/interrupts.c and          *)
(* mbf_reg_read() of driver/registers.c: interrupts latched by the AXI     *)
(* interrupt controller, fetched and acknowledged by mbf_isr(), merged     *)
(* into the mask control->events without a lock, and taken by reads that   *)
(* may block, may be interrupted by a signal, and may compete.             *)
(*                                                                         *)
(* The controller (external) keeps its line up while any interrupt is      *)
(* latched, so that the kernel calls mbf_isr() again; the kernel does not  *)
(* call it twice at a time.  wait_event_interruptible() (external) puts    *)
(* the thread on the wait queue before it evaluates the condition, and     *)
(* then sleeps only if it has not been woken since.                        *)
(***************************************************************************)
EXTENDS Naturals

CONSTANTS
  Events,    \* bits of the event mask
  Readers    \* threads that read the register device

VARIABLES
  raised,    \* intc->isr
  handler,   \* what mbf_isr() is doing
  seen,      \* its local isr
  old,       \* old_events of event_interrupt()
  events,    \* control->events
  readStep,  \* what each read is doing
  woken,     \* wake_up_interruptible() since the reader queued itself
  taken      \* the mask a read has taken out of control->events

eventVars == <<raised, handler, seen, old, events, readStep, woken, taken>>

EventTypeOK ==
  /\ {raised, seen, old, events} \subseteq SUBSET Events
  /\ handler \in {"idle", "acknowledge", "load", "exchange", "wake"}
  /\ readStep \in [Readers ->
                  {"idle", "ready", "wait", "check", "asleep", "done"}]
  /\ woken \in [Readers -> BOOLEAN]
  /\ taken \in [Readers -> SUBSET Events]

EventInit ==
  /\ raised = {} /\ seen = {} /\ old = {} /\ events = {}
  /\ handler = "idle"
  /\ readStep = [r \in Readers |-> "idle"]
  /\ woken = [r \in Readers |-> FALSE]
  /\ taken = [r \in Readers |-> {}]

readVars == <<readStep, woken, taken>>
isrVars == <<raised, handler, seen, old>>

-----------------------------------------------------------------------------
(* The hardware and the interrupt handler.                                 *)

RaiseEvent(e) ==
  /\ raised' = raised \cup {e}
  /\ UNCHANGED <<handler, seen, old, events, readVars>>

\* mbf_isr(): the bits read are the bits acknowledged.
FetchIsr ==
  /\ handler = "idle" /\ raised # {}
  /\ seen' = raised
  /\ handler' = "acknowledge"
  /\ UNCHANGED <<raised, old, events, readVars>>

Acknowledge ==
  /\ handler = "acknowledge"
  /\ raised' = raised \ seen
  /\ handler' = "load"
  /\ UNCHANGED <<seen, old, events, readVars>>

\* event_interrupt(): atomic_read() and atomic_cmpxchg() until it succeeds.
LoadEvents ==
  /\ handler = "load"
  /\ old' = events
  /\ handler' = "exchange"
  /\ UNCHANGED <<raised, seen, events, readVars>>

\* Mutant of ExchangeEvents: a plain store instead of the atomic_cmpxchg().
StoreEvents ==
  /\ handler = "exchange"
  /\ events' = old \cup seen
  /\ handler' = "wake"
  /\ UNCHANGED <<raised, seen, old, readVars>>

ExchangeEvents ==
  /\ handler = "exchange"
  /\ \/ /\ events = old
        /\ events' = old \cup seen
        /\ handler' = "wake"
     \/ /\ events # old
        /\ handler' = "load"
        /\ UNCHANGED events
  /\ UNCHANGED <<raised, seen, old, readVars>>

\* wake_up_interruptible()
WakeUp ==
  /\ handler = "wake"
  /\ woken' = [r \in Readers |->
                 woken[r] \/ readStep[r] \in {"check", "asleep"}]
  /\ handler' = "idle" /\ seen' = {} /\ old' = {}
  /\ UNCHANGED <<raised, events, readStep, taken>>

Isr == FetchIsr \/ Acknowledge \/ LoadEvents \/ ExchangeEvents \/ WakeUp

-----------------------------------------------------------------------------
(* mbf_reg_read() and read_interrupt_events().                             *)

\* Without O_NONBLOCK, or with it when interrupt_events_ready().
StartRead(r) ==
  /\ readStep[r] = "idle"
  /\ \/ readStep' = [readStep EXCEPT ![r] = "wait"]
     \/ events # {} /\ readStep' = [readStep EXCEPT ![r] = "ready"]
  /\ UNCHANGED <<isrVars, events, woken, taken>>

\* The atomic_xchg() of a read that does not wait: a competing read may have
\* left it nothing.
TakeNoWait(r) ==
  /\ readStep[r] = "ready"
  /\ taken' = [taken EXCEPT ![r] = events]
  /\ events' = {}
  /\ readStep' = [readStep EXCEPT ![r] = "done"]
  /\ UNCHANGED <<isrVars, woken>>

\* Mutant of Queue: the reader sleeps without looking at the events again.
QueueLate(r) ==
  /\ readStep[r] = "wait"
  /\ woken' = [woken EXCEPT ![r] = FALSE]
  /\ readStep' = [readStep EXCEPT ![r] = "asleep"]
  /\ UNCHANGED <<isrVars, events, taken>>

\* Onto the wait queue, again after every wake up.
Queue(r) ==
  /\ readStep[r] = "wait"
  /\ woken' = [woken EXCEPT ![r] = FALSE]
  /\ readStep' = [readStep EXCEPT ![r] = "check"]
  /\ UNCHANGED <<isrVars, events, taken>>

\* The atomic_xchg() in the condition of wait_event_interruptible(): the wait
\* ends when it is not zero, or when a signal is pending.
TakeOrSleep(r) ==
  /\ readStep[r] = "check"
  /\ taken' = [taken EXCEPT ![r] = events]
  /\ events' = {}
  /\ \/ events # {} /\ readStep' = [readStep EXCEPT ![r] = "done"]
     \/ events = {} /\ readStep' = [readStep EXCEPT ![r] = "asleep"]
     \/ events = {} /\ readStep' = [readStep EXCEPT ![r] = "done"]
  /\ UNCHANGED <<isrVars, woken>>

Awake(r) ==
  /\ readStep[r] = "asleep" /\ woken[r]
  /\ readStep' = [readStep EXCEPT ![r] = "wait"]
  /\ UNCHANGED <<isrVars, events, woken, taken>>

\* The mask is copied to the caller, or an error is returned if it is empty.
EndRead(r) ==
  /\ readStep[r] = "done"
  /\ taken' = [taken EXCEPT ![r] = {}]
  /\ woken' = [woken EXCEPT ![r] = FALSE]
  /\ readStep' = [readStep EXCEPT ![r] = "idle"]
  /\ UNCHANGED <<isrVars, events>>

Reading(r) ==
  TakeNoWait(r) \/ Queue(r) \/ TakeOrSleep(r) \/ Awake(r) \/ EndRead(r)

EventNext ==
  \/ \E e \in Events : RaiseEvent(e)
  \/ Isr
  \/ \E r \in Readers : StartRead(r) \/ Reading(r)

EventSpec == EventInit /\ [][EventNext]_eventVars

(***************************************************************************)
(* The kernel runs the handler while the line is up and threads that are   *)
(* awake, and the readers read again: epics/src/events.c does nothing      *)
(* else.                                                                   *)
(***************************************************************************)
EventFairness ==
  /\ WF_eventVars(Isr)
  /\ \A r \in Readers : WF_eventVars(StartRead(r)) /\ WF_eventVars(Reading(r))
EventFairSpec == EventSpec /\ EventFairness

-----------------------------------------------------------------------------
(* Properties.                                                             *)

(***************************************************************************)
(* The lock free merge and the competing reads implement EventLatch: no    *)
(* event is lost between the acknowledge, the compare and exchange and the *)
(* reads, and the occurrences that merge leave at least one.               *)
(***************************************************************************)
One(b) == IF b THEN 1 ELSE 0
InHandler == IF handler \in {"load", "exchange"} THEN seen ELSE {}
Owed == [e \in Events |->
           One(e \in raised) + One(e \in InHandler) + One(e \in events)]
Latch == INSTANCE EventLatch WITH owed <- Owed, reply <- taken
LatchSpec == Latch!Spec

(***************************************************************************)
(* No event is delivered that was not raised: what is owed to the readers  *)
(* grows only by an interrupt that has just been latched, and in           *)
(* particular not by event_interrupt() putting back into the mask what a   *)
(* read has taken between its atomic_read() and its atomic_cmpxchg().      *)
(***************************************************************************)
NothingInvented ==
  [][\A e \in Events : Owed'[e] > Owed[e] => e \in raised' \ raised]_eventVars

(***************************************************************************)
(* What the readers get is what was raised, no less (event_interrupt(),    *)
(* read_interrupt_events()) and no more.                                   *)
(***************************************************************************)
EventsExact == LatchSpec /\ NothingInvented

(***************************************************************************)
(* No wake up is missed: a reader sleeps on events it has not been told of *)
(* only as long as mbf_isr() is about to tell it.                          *)
(***************************************************************************)
NoMissedWakeUp ==
  \A r \in Readers :
    readStep[r] = "asleep" /\ ~woken[r] /\ events # {} => handler = "wake"

(***************************************************************************)
(* An event that is raised reaches a reader: none is owed for ever, in the *)
(* controller, in mbf_isr() or in the mask, with no read that takes it.    *)
(***************************************************************************)
EventsDelivered ==
  \A e \in Events : []<>(Owed[e] = 0 \/ \E r \in Readers : e \in taken[r])

=============================================================================

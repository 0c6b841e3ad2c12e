--------------------------- MODULE Interrupts_proofs ---------------------------
(***************************************************************************)
(* The safety properties of Interrupts, for any set of inputs and any      *)
(* number of events and expiries.                                          *)
(*                                                                         *)
(* None of them is inductive.  NoneUnhandled needs what IER, the           *)
(* application's copy of it and the dispatcher's list of inputs can hold;  *)
(* SwitchesKept needs that a handler can only take inputs away while a     *)
(* call is between its read and its write of IER.                          *)
(***************************************************************************)
EXTENDS Interrupts, WellFoundedInduction, TLAPS

Switching == {"enable", "disable", "disconnect"}

(* Only inputs with a handler are enabled, kept by a call that has read    *)
(* IER, or among those the dispatcher has still to serve.                  *)
OnlyConnected ==
    /\ IER \subseteq HandlerTable
    /\ pc \in Switching => reg \subseteq HandlerTable
    /\ pc = "stub" => arg \notin IER
    /\ ipc # "none" => IntrStatus \subseteq HandlerTable

(* The dispatcher has an input to serve as long as it runs.                *)
Serving ==
    /\ owed \subseteq Inputs /\ IER \subseteq Inputs /\ IntrStatus \subseteq Inputs
    /\ pc \in Switching => reg \subseteq Inputs /\ arg \in Inputs
    /\ ipc # "none" => IntrStatus # {}

(* What IER holds, and what a call that has read it is about to keep.      *)
Switches ==
    /\ IER = asked \cup undone
    /\ pc \in Switching => IER \subseteq reg

IInv ==
    /\ Serving /\ Switches /\ EventHeld /\ NoneUnhandled
    /\ bare \/ OnlyConnected

(* The input with the highest priority is one of those to serve.           *)
LEMMA IntrNumberIn ==
    ASSUME IntrStatus \subseteq Inputs, IntrStatus # {}
    PROVE  IntrNumber \in IntrStatus
<1>1. IntrStatus \subseteq Nat
  BY InputsAssumption DEF Inputs
<1>2. PICK x \in IntrStatus : \A y \in IntrStatus : ~(<<y, x>> \in OpToRel(<, Nat))
  BY <1>1, NatLessThanWellFounded, WFMin, Zenon
<1>3. \A y, z \in Nat : y < z => <<y, z>> \in OpToRel(<, Nat)
  BY DEF OpToRel
<1>4. \A y \in IntrStatus : ~(y < x)
  BY <1>1, <1>2, <1>3, Zenon
<1>5. \A y \in IntrStatus : x =< y
  BY <1>1, <1>4
<1> QED
  BY <1>5 DEF IntrNumber, Min

LEMMA InitInv == Init => IInv
  BY DEF Init, IInv, Serving, OnlyConnected, Switches, Switching, EventHeld, NoneUnhandled, Inputs

USE DEF IInv, Serving, OnlyConnected, Switches, Switching, EventHeld, NoneUnhandled

(* The devices and the timer.                                              *)
LEMMA HardwareKeeps ==
    ASSUME IInv, Latch \/ Expire \/ \E d \in Edge : Event(d)
    PROVE  IInv'
<1>1. CASE Latch
  BY <1>1 DEF Latch, timer, app, dispatcher, history, IntrNumber
<1>2. CASE Expire
  BY <1>2 DEF Expire, controller, app, dispatcher, IntrNumber, Inputs
<1>3. CASE \E d \in Edge : Event(d)
  BY <1>3, SMTT(30) DEF Event, timer, app, dispatcher, IntrNumber, Inputs
<1> QED
  BY <1>1, <1>2, <1>3

(* Calls of the application, which find the dispatcher at rest.            *)
LEMMA CallKeeps ==
    ASSUME IInv, Call
    PROVE  IInv'
<1> USE DEF App, dispatcher, controller, timer, history, IntrNumber
<1>1. CASE Start
  BY <1>1 DEF Start
<1>2. CASE Stop
  BY <1>2 DEF Stop
<1>3. CASE SetIntrSvcOption
  BY <1>3 DEF SetIntrSvcOption
<1>4. ASSUME NEW d \in Inputs, Connect(d) PROVE IInv'
  BY <1>4 DEF Connect
<1>5. ASSUME NEW d \in Inputs, Acknowledge(d) PROVE IInv'
  BY <1>5 DEF Acknowledge
<1>6. ASSUME NEW d \in Inputs, Enable(d) PROVE IInv'
  BY <1>6 DEF Enable, ReadIER
<1>7. ASSUME NEW d \in Inputs, Disable(d) PROVE IInv'
  BY <1>7 DEF Disable, ReadIER
<1>8. ASSUME NEW d \in Inputs, Disconnect(d) PROVE IInv'
  BY <1>8 DEF Disconnect, ReadIER
<1>9. CASE TmrSetOptions
  BY <1>9 DEF TmrSetOptions
<1>10. CASE TmrStart
  BY <1>10 DEF TmrStart, ReadTCSR
<1>11. CASE TmrStop
  BY <1>11 DEF TmrStop, ReadTCSR
<1>12. CASE TmrReset
  BY <1>12, SMTT(30) DEF TmrReset, ReadTCSR
<1> QED
  BY <1>1, <1>2, <1>3, <1>4, <1>5, <1>6, <1>7, <1>8, <1>9, <1>10, <1>11, <1>12, Zenon DEF Call

(* The writes that end a call.                                             *)
LEMMA AppStepKeeps ==
    ASSUME IInv, AppStep
    PROVE  IInv'
<1> USE DEF App, dispatcher, controller, timer, history, IntrNumber
<1>1. CASE EnableWrite
  BY <1>1, Zenon DEF EnableWrite, WriteIER, Enabling
<1>2. CASE DisableWrite
  BY <1>2 DEF DisableWrite, WriteIER
<1>3. CASE DisconnectWrite
  BY <1>3 DEF DisconnectWrite, WriteIER
<1>4. CASE DisconnectStub
  BY <1>4 DEF DisconnectStub
<1>5. CASE TmrStartLoad
  BY <1>5 DEF TmrStartLoad, AppWrites
<1>6. CASE TmrStartRun
  BY <1>6 DEF TmrStartRun, AppWrites
<1>7. CASE TmrStopWrite
  BY <1>7 DEF TmrStopWrite, AppWrites
<1>8. CASE TmrResetLoad
  BY <1>8 DEF TmrResetLoad, AppWrites
<1>9. CASE TmrResetRun
  BY <1>9 DEF TmrResetRun, AppWrites
<1> QED
  BY <1>1, <1>2, <1>3, <1>4, <1>5, <1>6, <1>7, <1>8, <1>9 DEF AppStep

(* The dispatcher and the timer's handler.                                 *)
LEMMA DispatchKeeps ==
    ASSUME IInv, Dispatch
    PROVE  IInv'
<1> USE DEF Isr, app, controller, timer, history
<1>1. CASE Interrupt
  BY <1>1 DEF Interrupt, Waiting, IMR
<1>2. CASE AckBefore
  BY <1>2 DEF AckBefore, IntrNumber
<1>3. CASE CallDevice
  BY <1>3 DEF CallDevice, IntrNumber
<1>4. CASE CallTimer
  BY <1>4 DEF CallTimer, IntrNumber
<1>5. CASE CallStub
  <2>1. IntrNumber \in IntrStatus
    BY <1>5, IntrNumberIn DEF CallStub
  <2>2. bare
    BY <1>5, <2>1 DEF CallStub
  <2> QED
    BY <1>5, <2>2 DEF CallStub
<1>6. CASE AckAfter
  <2>1. \A d \in owed \ {Timer} : d \in ISR
    BY <1>6 DEF AckAfter
  <2>2. \A d \in owed \ {Timer} : d \in Edge
    BY DEF Inputs
  <2>3. \A d \in owed' \ {Timer} : d \in ISR'
    BY <1>6, <2>1, <2>2 DEF AckAfter, AckBeforeService
  <2> QED
    BY <1>6, <2>3 DEF AckAfter
<1>7. CASE TmrRead
  BY <1>7 DEF TmrRead
<1>8. CASE Callback
  BY <1>8 DEF Callback
<1>9. CASE TmrReread
  BY <1>9 DEF TmrReread
<1>10. CASE TmrLoad
  BY <1>10 DEF TmrLoad, IsrWrites
<1>11. CASE TmrUnload
  BY <1>11 DEF TmrUnload, IsrWrites
<1>12. CASE TmrClear
  BY <1>12 DEF TmrClear, IsrWrites
<1> QED
  BY <1>1, <1>2, <1>3, <1>4, <1>5, <1>6, <1>7, <1>8, <1>9, <1>10, <1>11, <1>12, Zenon DEF Dispatch

LEMMA StutterKeeps ==
    ASSUME IInv, UNCHANGED vars
    PROVE  IInv'
  BY DEF vars, controller, timer, app, dispatcher, history, IntrNumber

(* Every reachable state satisfies the inductive invariant: unless the     *)
(* application enabled an input without a handler, the inputs enabled and  *)
(* those being served have one, also in the middle of XIntc_Disconnect().  *)
THEOREM Inductive == Spec => []IInv
<1>1. IInv /\ [Next]_vars => IInv'
  BY HardwareKeeps, CallKeeps, AppStepKeeps, DispatchKeeps, StutterKeeps DEF Next
<1> QED
  BY <1>1, InitInv, PTL DEF Spec

(* No event of an edge input is lost between the controller and its        *)
(* handler (xintc_l.c:249).                                                *)
THEOREM EventHeldHolds == Spec => []EventHeld
  BY Inductive, PTL

(* No interrupt reaches StubHandler() unless the application enabled an    *)
(* input that had no handler (xintc.c, XIntc_Disconnect()).                *)
THEOREM NoneUnhandledHolds == Spec => []NoneUnhandled
  BY Inductive, PTL

(* IER holds what was last asked for, but for a handler's own switch that  *)
(* a call has undone (xintc.c:562).                                        *)
THEOREM SwitchesKeptHolds == Spec => []SwitchesKept
<1>1. IInv => SwitchesKept
  BY DEF SwitchesKept
<1> QED
  BY <1>1, Inductive, PTL
=============================================================================
